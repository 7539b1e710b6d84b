--------------------------- MODULE MCSinkClients -----------------------------
(***************************************************************************)
(* A small instance of SinkClients for TLC; request slots are interchangeable. *)
(***************************************************************************)
EXTENDS SinkClients, TLC

SlotSymmetry == Permutations(Requests)
=============================================================================
