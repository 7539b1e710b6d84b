--------------------------------- MODULE Cro ---------------------------------
(***************************************************************************)
(* The Chief Reserve Officer's remark: audit() of camera/src/cro.py asks   *)
(* its grammar-constrained questions and then makes up to BestOf tries at  *)
(* the remark.  Which of its answers become the text is left out.          *)
(***************************************************************************)
EXTENDS LlamaServer

VARIABLE left   \* the questions and the tries each capture has left

Full == [slots |-> Slots, tries |-> BestOf]

CroInit == left = [c \in Captures |-> Full]

\* audit() is done asking, and its locals are gone.
Forget(c) == left' = [left EXCEPT ![c] = Full]
Finish(c) == Goes(c, "ask", "stop") /\ Forget(c)

AnswerSlot(c) ==
  /\ left[c].slots > 0
  /\ Heard(c)
  /\ left' = [left EXCEPT ![c].slots = @ - 1]
  /\ UNCHANGED at

SlotFails(c) ==
  /\ left[c].slots > 0
  /\ NotHeard(c)
  /\ Finish(c)

\* A remark that is junk, or no answer at all, costs a try.
FlavorHeard(c, junk) ==
  /\ left[c].slots = 0 /\ left[c].tries > 0
  /\ Heard(c)
  /\ IF junk THEN left' = [left EXCEPT ![c].tries = @ - 1] /\ UNCHANGED at ELSE Finish(c)

FlavorFails(c) ==
  /\ left[c].slots = 0 /\ left[c].tries > 0
  /\ NotHeard(c)
  /\ left' = [left EXCEPT ![c].tries = @ - 1]
  /\ UNCHANGED at

FlavorOver(c) ==
  /\ left[c].slots = 0 /\ left[c].tries = 0
  /\ Finish(c)
  /\ UNCHANGED <<portVars, strangers, met>>

\* What audit() does by itself once it is called, short of polling on.
Audit(c) ==
  \/ (Starts(c) \/ Stops(c)) /\ UNCHANGED left
  \/ AnswerSlot(c) \/ SlotFails(c) \/ FlavorFails(c) \/ FlavorOver(c)
  \/ \E junk \in BOOLEAN : FlavorHeard(c, junk)

CaptureStep(c) ==
  \/ Audit(c)
  \/ (Begins(c, "start") \/ Polls(c)) /\ UNCHANGED left
  \/ (Interrupted(c) \/ CutShort(c)) /\ Forget(c)
=============================================================================
