----------------------------- MODULE TokenBucket -----------------------------
(***************************************************************************)
(* What the open-claim faucet of Beadz promises, with no calendar in it:   *)
(* a bucket that gains one unit of credit per second, never holds more     *)
(* than Capacity, and gives one bead away for Interval units of credit.    *)
(* Idle time beyond a full bucket is lost, not banked.                     *)
(***************************************************************************)
EXTENDS Integers

CONSTANTS Interval,  \* credit, in seconds, that one bead costs
          Capacity   \* most credit the bucket holds

VARIABLE credit

Smaller(a, b) == IF a <= b THEN a ELSE b

BucketInit == credit = 0

Drip == credit' = Smaller(credit + 1, Capacity)

Dispense == credit >= Interval /\ credit' = credit - Interval

BucketNext == Drip \/ Dispense

BucketSpec == BucketInit /\ [][BucketNext]_credit
=============================================================================
