-------------------------------- MODULE Wire ---------------------------------
(***************************************************************************)
(* POST /api/ingest between the camera and whichever backend it pushes to. *)
(* A request has a slot from the moment it is posted until its answer is   *)
(* read or forgotten.  The camera waits for one answer at a time, but it   *)
(* gives up after ten seconds (push.py _TIMEOUT_S) while the backend may   *)
(* still be working on the request, so several slots can be live.          *)
(* A frame is the number of the capture that took it; its image and the    *)
(* sha256 in its metadata are that number when they belong together.       *)
(***************************************************************************)
EXTENDS Integers

CONSTANTS
  Requests,    \* request slots
  MaxFrames    \* bound on captures

ASSUME WireAssumption == MaxFrames \in Nat /\ Requests # {}

VARIABLE wire

Frames == 1..MaxFrames
None == 0

\* How a request is made: as the device makes it, or with one thing wrong
\* that a backend's first three checks look for.
Forms == {"good", "badMac", "badProtocol", "badShape"}

FreeSlot == [phase |-> "free", awaited |-> FALSE, form |-> "good",
             counter |-> 0, image |-> None, sha |-> None, status |-> 0]

\* No answer at all: the connection was refused, reset or timed out.
NoAnswer == 0

WireInit == wire = [r \in Requests |-> FreeSlot]

-----------------------------------------------------------------------------
(* The client's side                                                       *)

Post(r, form, counter, image, sha) ==
  /\ wire[r].phase = "free"
  /\ wire' = [wire EXCEPT ![r] =
       [phase |-> "sent", awaited |-> TRUE, form |-> form, counter |-> counter,
        image |-> image, sha |-> sha, status |-> NoAnswer]]

ReadAnswer(r) ==
  /\ wire[r].phase = "answered"
  /\ wire' = [wire EXCEPT ![r] = FreeSlot]

\* The client stops waiting.  Either the request or its answer is lost, or the
\* backend still has the request and will answer nobody.
GiveUp(r) ==
  \/ wire[r].phase \in {"sent", "answered"} /\ wire' = [wire EXCEPT ![r] = FreeSlot]
  \/ wire[r].phase \in {"sent", "serving"} /\ wire' = [wire EXCEPT ![r].awaited = FALSE]

-----------------------------------------------------------------------------
(* The backend's side                                                      *)

\* The checks before any state is read: MAC over the body, protocol, shape,
\* then the image's hash and the signature over it.
MacHolds(request) == request.form # "badMac"
WellFormed(request) == request.form \notin {"badProtocol", "badShape"}
Signed(request) == request.image = request.sha

Genuine(request) == MacHolds(request) /\ WellFormed(request) /\ Signed(request)
Refusal(request) == IF MacHolds(request) THEN 400 ELSE 401

Answered(slot, status) ==
  IF slot.awaited THEN [slot EXCEPT !.phase = "answered", !.status = status] ELSE FreeSlot

Answer(r, status) == wire' = [wire EXCEPT ![r] = Answered(@, status)]

Serve(r) == wire' = [wire EXCEPT ![r].phase = "serving"]

\* The backend process dies: every request it has not answered is cut off.
CutOff(slots) ==
  wire' = [r \in Requests |->
    IF r \in slots /\ wire[r].phase \in {"sent", "serving"}
      THEN Answered(wire[r], NoAnswer) ELSE wire[r]]
=============================================================================
