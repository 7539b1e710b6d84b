----------------------------- MODULE BeadzWatch ------------------------------
(***************************************************************************)
(* Beadz.sol seen by an observer with a stopwatch, who may start it at any *)
(* moment and counts the beads claimed since.  The stopwatch is history:   *)
(* no step of the contract reads it.                                       *)
(***************************************************************************)
EXTENDS Beadz

VARIABLES markTime, markCount

watch == <<markTime, markCount>>

WatchInit == Init /\ markTime = GENESIS_TIME /\ markCount = 0

StartWatch == markTime' = now /\ markCount' = claimCounter /\ UNCHANGED vars

WatchNext ==
  \/ Next /\ UNCHANGED watch
  \/ StartWatch

WatchSpec == WatchInit /\ [][WatchNext]_<<vars, watch>>

\* Over any stretch of time, whenever it begins, the faucet gives out at most
\* one full bucket plus one bead per interval elapsed: a quiet week never
\* builds a pile that can be claimed in a burst.
BurstBounded ==
  DRIP_INTERVAL * (claimCounter - markCount) <= FullFaucet + (now - markTime)
=============================================================================
