----------------------------- MODULE MCPipeline ------------------------------
(***************************************************************************)
(* Small instances of Pipeline for TLC.                                    *)
(***************************************************************************)
EXTENDS Pipeline, TLC

\* The two capture processes are alike, and so are the request slots.
Alike == Permutations(Captures) \union Permutations(Requests)
=============================================================================
