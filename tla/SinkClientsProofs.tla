-------------------------- MODULE SinkClientsProofs -------------------------
(***************************************************************************)
(* Proofs about SinkClients, for any number of overlapping requests, any   *)
(* counters and images, and any number of failed writes and restarts.      *)
(***************************************************************************)
EXTENDS SinkClients, TLAPS

Phases == {"free", "sent", "serving", "answered"}

Slots ==
  [phase : Phases, awaited : BOOLEAN, form : Forms, counter : SinkCounters \union {0},
   image : Frames \union {None}, sha : Frames \union {None}, status : Int]

SinkTypes ==
  /\ wire \in [Requests -> Slots]
  /\ frameJpg \in [SinkCounters -> Int]
  /\ frameJson \in [SinkCounters -> Int]
  /\ lastSeen \in Nat /\ lastSeenFile \in Nat
  /\ holder \in Requests \union {NoRequest}
  /\ at \in {"jpg", "json", "persist"}
  /\ sinkSpent \in [restarts : Nat, faults : Nat]
  /\ acknowledged \subseteq SinkCounters \X Frames \X {200, 409}

\* A well-made request carries a counter and images.
WellMade ==
  \A r \in Requests : wire[r].phase # "free" /\ wire[r].form = "good" =>
    wire[r].counter \in SinkCounters /\ wire[r].image \in Frames /\ wire[r].sha \in Frames

\* The one request being served is the one that holds the lock.
OneServed ==
  /\ \A r \in Requests : wire[r].phase = "serving" <=> holder = r
  /\ holder # NoRequest => Genuine(wire[holder])

\* What the holder has written so far, and what it is still entitled to write.
HolderWrites ==
  LET request == wire[holder]
      n == request.counter
  IN holder # NoRequest =>
       /\ at \in {"jpg", "json"} => n > lastSeen
       /\ at \in {"json", "persist"} => frameJpg[n] = request.image
       /\ at = "persist" => lastSeen = n /\ frameJson[n] = request.image

ClientInv ==
  /\ SinkTypes /\ WellMade /\ OneServed /\ HolderWrites
  /\ StoredForGood /\ ForgetsOnlyUnanswered

LEMMA CounterIsNumber == \A n \in SinkCounters : n \in Int /\ n > 0
  BY SinkAssumption

-----------------------------------------------------------------------------
(* What a step does to the requests                                        *)

\* The content of a request, which nobody changes while it is in its slot.
SameRequest(r) ==
  /\ wire'[r].form = wire[r].form /\ wire'[r].counter = wire[r].counter
  /\ wire'[r].image = wire[r].image /\ wire'[r].sha = wire[r].sha

LEMMA FreeSlotType == FreeSlot \in Slots
  BY DEF FreeSlot, Slots, Phases, Forms

LEMMA AnsweredSlot ==
  ASSUME NEW slot \in Slots, NEW code \in Int
  PROVE  /\ Answered(slot, code) \in Slots
         /\ \/ Answered(slot, code) = FreeSlot
            \/ /\ Answered(slot, code).phase = "answered"
               /\ Answered(slot, code).form = slot.form /\ Answered(slot, code).counter = slot.counter
               /\ Answered(slot, code).image = slot.image /\ Answered(slot, code).sha = slot.sha
<1>1. CASE slot.awaited
  <2> DEFINE new == [slot EXCEPT !.phase = "answered", !.status = code]
  <2>1. Answered(slot, code) = new
    BY <1>1 DEF Answered
  <2>2. new \in Slots /\ new.phase = "answered" /\ new.form = slot.form /\ new.counter = slot.counter
        /\ new.image = slot.image /\ new.sha = slot.sha
    BY DEF Slots, Phases
  <2> QED
    BY <2>1, <2>2
<1>2. CASE ~slot.awaited
  BY <1>2, FreeSlotType DEF Answered
<1> QED
  BY <1>1, <1>2

\* No step of a client starts or ends the serving of a request, or changes one.
LEMMA ClientEffect ==
  ASSUME wire \in [Requests -> Slots], WellMade, NEW r \in Requests, Client(r)
  PROVE  /\ wire' \in [Requests -> Slots] /\ WellMade'
         /\ \A s \in Requests : wire'[s].phase = "serving" <=> wire[s].phase = "serving"
         /\ \A s \in Requests : wire[s].phase = "serving" => SameRequest(s)
<1>1. CASE \E n \in SinkCounters, image \in Frames, sha \in Frames : Post(r, "good", n, image, sha)
  <2>1. PICK n \in SinkCounters, image \in Frames, sha \in Frames : Post(r, "good", n, image, sha)
    BY <1>1
  <2> DEFINE new == [phase |-> "sent", awaited |-> TRUE, form |-> "good", counter |-> n,
                     image |-> image, sha |-> sha, status |-> NoAnswer]
  <2>2. wire[r].phase = "free" /\ wire' = [wire EXCEPT ![r] = new]
    BY <2>1 DEF Post
  <2>3. new \in Slots /\ new.phase = "sent" /\ new.counter = n /\ new.image = image /\ new.sha = sha
    BY DEF Slots, Phases, Forms, NoAnswer
  <2> HIDE DEF new
  <2> QED
    BY <2>2, <2>3 DEF WellMade, SameRequest
<1>2. CASE \E form \in Forms \ {"good"} : Post(r, form, 0, None, None)
  <2>1. PICK form \in Forms \ {"good"} : Post(r, form, 0, None, None)
    BY <1>2
  <2> DEFINE new == [phase |-> "sent", awaited |-> TRUE, form |-> form, counter |-> 0,
                     image |-> None, sha |-> None, status |-> NoAnswer]
  <2>2. wire[r].phase = "free" /\ wire' = [wire EXCEPT ![r] = new]
    BY <2>1 DEF Post
  <2>3. new \in Slots /\ new.phase = "sent" /\ new.form # "good"
    BY DEF Slots, Phases, NoAnswer
  <2> HIDE DEF new
  <2> QED
    BY <2>2, <2>3 DEF WellMade, SameRequest
<1>3. CASE wire[r].phase \in {"sent", "answered"} /\ wire' = [wire EXCEPT ![r] = FreeSlot]
  <2>1. FreeSlot.phase = "free"
    BY DEF FreeSlot
  <2> QED
    BY <1>3, <2>1, FreeSlotType DEF WellMade, SameRequest
<1>4. CASE wire' = [wire EXCEPT ![r].awaited = FALSE]
  <2> DEFINE new == [wire[r] EXCEPT !.awaited = FALSE]
  <2>1. /\ new \in Slots /\ new.phase = wire[r].phase
        /\ new.form = wire[r].form /\ new.counter = wire[r].counter
        /\ new.image = wire[r].image /\ new.sha = wire[r].sha
    BY DEF Slots
  <2>2. wire' = [wire EXCEPT ![r] = new]
    BY <1>4
  <2> HIDE DEF new
  <2> QED
    BY <2>1, <2>2 DEF WellMade, SameRequest
<1> QED
  BY <1>1, <1>2, <1>3, <1>4 DEF Client, ReadAnswer, GiveUp

LEMMA AnswerEffect ==
  ASSUME wire \in [Requests -> Slots], WellMade, NEW r \in Requests, wire[r].phase # "free",
         NEW code \in Int, Answer(r, code)
  PROVE  /\ wire' \in [Requests -> Slots] /\ WellMade'
         /\ wire'[r].phase \in {"answered", "free"}
         /\ \A s \in Requests \ {r} : wire'[s] = wire[s]
<1> DEFINE new == Answered(wire[r], code)
<1>1. wire' = [wire EXCEPT ![r] = new]
  BY DEF Answer
<1>2. /\ new \in Slots /\ new.phase \in {"answered", "free"}
      /\ new = FreeSlot \/ (/\ new.form = wire[r].form /\ new.counter = wire[r].counter
                           /\ new.image = wire[r].image /\ new.sha = wire[r].sha)
  BY AnsweredSlot DEF FreeSlot
<1>3. FreeSlot.phase = "free"
  BY DEF FreeSlot
<1> HIDE DEF new
<1> QED
  BY <1>1, <1>2, <1>3 DEF WellMade

\* Every handler is cut off: none is served any more.
LEMMA CutOffEffect ==
  ASSUME wire \in [Requests -> Slots], WellMade, CutOff(Requests)
  PROVE  /\ wire' \in [Requests -> Slots] /\ WellMade'
         /\ \A s \in Requests : wire'[s].phase \notin {"sent", "serving"}
<1> SUFFICES ASSUME NEW s \in Requests
             PROVE  /\ wire'[s] \in Slots /\ wire'[s].phase \notin {"sent", "serving"}
                    /\ wire'[s].phase # "free" /\ wire'[s].form = "good" =>
                         /\ wire'[s].counter \in SinkCounters
                         /\ wire'[s].image \in Frames /\ wire'[s].sha \in Frames
  <2>1. wire' = [s \in Requests |-> wire'[s]]
    BY DEF CutOff
  <2> QED
    BY <2>1 DEF WellMade
<1>1. FreeSlot.phase = "free"
  BY DEF FreeSlot
<1>2. CASE wire[s].phase \in {"sent", "serving"}
  <2>1. wire'[s] = Answered(wire[s], NoAnswer)
    BY <1>2 DEF CutOff
  <2>2. wire[s] \in Slots /\ NoAnswer \in Int
    BY DEF NoAnswer
  <2> QED
    BY <1>1, <1>2, <2>1, <2>2, AnsweredSlot DEF WellMade
<1>3. CASE wire[s].phase \notin {"sent", "serving"}
  <2>1. wire'[s] = wire[s]
    BY <1>3 DEF CutOff
  <2> QED
    BY <1>3, <2>1 DEF WellMade
<1> QED
  BY <1>2, <1>3

-----------------------------------------------------------------------------
(* One lemma per step of the sink                                          *)

LEMMA ClientKeepsInv ==
  ASSUME ClientInv, NEW r \in Requests, Client(r), UNCHANGED sinkVars
  PROVE  ClientInv'
<1> USE DEF ClientInv, sinkVars
<1>1. /\ wire' \in [Requests -> Slots] /\ WellMade'
      /\ \A s \in Requests : wire'[s].phase = "serving" <=> wire[s].phase = "serving"
      /\ \A s \in Requests : wire[s].phase = "serving" => SameRequest(s)
  BY ClientEffect DEF SinkTypes
<1>2. SinkTypes'
  BY <1>1 DEF SinkTypes
<1>3. holder # NoRequest => holder \in Requests /\ wire[holder].phase = "serving" /\ SameRequest(holder)
  BY <1>1 DEF OneServed, SinkTypes
<1>4. OneServed'
  BY <1>1, <1>3 DEF OneServed, SameRequest, Genuine, MacHolds, WellFormed, Signed
<1>5. HolderWrites'
  BY <1>3 DEF HolderWrites, SameRequest
<1> QED
  BY <1>1, <1>2, <1>4, <1>5 DEF StoredForGood, ForgetsOnlyUnanswered

LEMMA GenuineRequest ==
  ASSUME WellMade, NEW r \in Requests, wire[r].phase # "free", wire[r] \in Slots, Genuine(wire[r])
  PROVE  /\ wire[r].counter \in SinkCounters /\ wire[r].image \in Frames
         /\ wire[r].sha = wire[r].image
  BY DEF WellMade, Genuine, MacHolds, WellFormed, Signed, Slots, Forms

LEMMA RefuseKeepsInv ==
  ASSUME ClientInv, NEW r \in Requests, Refuse(r)
  PROVE  ClientInv'
<1> USE DEF ClientInv, sinkVars
<1>1. Refusal(wire[r]) \in Int /\ wire[r].phase = "sent" /\ Answer(r, Refusal(wire[r]))
      /\ UNCHANGED sinkVars
  BY DEF Refuse, Refusal
<1>2. /\ wire' \in [Requests -> Slots] /\ WellMade'
      /\ wire'[r].phase \in {"answered", "free"}
      /\ \A s \in Requests \ {r} : wire'[s] = wire[s]
  BY <1>1, AnswerEffect DEF SinkTypes
<1>3. holder # r
  BY <1>1 DEF OneServed
<1>4. OneServed' /\ HolderWrites'
  BY <1>1, <1>2, <1>3 DEF OneServed, HolderWrites, SinkTypes
<1> QED
  BY <1>1, <1>2, <1>4 DEF SinkTypes, StoredForGood, ForgetsOnlyUnanswered

LEMMA CheckCounterKeepsInv ==
  ASSUME ClientInv, NEW r \in Requests, CheckCounter(r)
  PROVE  ClientInv'
<1> USE DEF ClientInv
<1>1. /\ wire[r].phase = "sent" /\ Genuine(wire[r]) /\ holder = NoRequest
      /\ UNCHANGED <<frameJpg, frameJson, lastSeen, lastSeenFile, sinkSpent>>
  BY DEF CheckCounter
<1>2. /\ wire[r].counter \in SinkCounters /\ wire[r].image \in Frames
      /\ wire[r].sha = wire[r].image
  BY <1>1, GenuineRequest DEF SinkTypes
<1>3. CASE CounterSeen(r)
  <2>1. /\ Answer(r, 409) /\ UNCHANGED <<holder, at>>
        /\ acknowledged' = acknowledged \union {<<wire[r].counter, wire[r].sha, 409>>}
    BY <1>3 DEF CheckCounter
  <2>2. /\ wire' \in [Requests -> Slots] /\ WellMade'
        /\ wire'[r].phase \in {"answered", "free"}
        /\ \A s \in Requests \ {r} : wire'[s] = wire[s]
    BY <1>1, <2>1, AnswerEffect DEF SinkTypes
  <2>3. SinkTypes'
    BY <1>1, <1>2, <2>1, <2>2 DEF SinkTypes
  <2>4. OneServed' /\ HolderWrites'
    BY <1>1, <2>1, <2>2 DEF OneServed, HolderWrites
  <2>5. StoredForGood' /\ ForgetsOnlyUnanswered'
    BY <1>1, <2>1 DEF StoredForGood, ForgetsOnlyUnanswered
  <2> QED
    BY <2>2, <2>3, <2>4, <2>5
<1>4. CASE ~CounterSeen(r)
  <2> DEFINE new == [wire[r] EXCEPT !.phase = "serving"]
  <2>1. wire' = [wire EXCEPT ![r] = new] /\ holder' = r /\ at' = "jpg" /\ acknowledged' = acknowledged
    BY <1>4 DEF CheckCounter, Serve
  <2>2. /\ new \in Slots /\ new.phase = "serving" /\ new.form = wire[r].form
        /\ new.counter = wire[r].counter /\ new.image = wire[r].image /\ new.sha = wire[r].sha
    BY DEF SinkTypes, Slots, Phases
  <2> HIDE DEF new
  <2>3. SinkTypes' /\ WellMade' /\ wire'[r] = new
    BY <1>1, <2>1, <2>2 DEF SinkTypes, WellMade
  <2>4. OneServed'
    BY <1>1, <2>1, <2>2, SinkAssumption DEF SinkTypes, OneServed, Genuine, MacHolds, WellFormed, Signed
  <2>5. HolderWrites'
    <3>1. wire[r].counter > lastSeen
      <4>1. wire[r].counter \in Int
        BY <1>2, CounterIsNumber
      <4>2. lastSeen \in Int
        BY DEF SinkTypes
      <4> QED
        BY <1>4, <4>1, <4>2 DEF CounterSeen
    <3> QED
      BY <1>1, <2>1, <2>2, <2>3, <3>1 DEF HolderWrites
  <2> QED
    BY <1>1, <2>1, <2>3, <2>4, <2>5 DEF StoredForGood, ForgetsOnlyUnanswered
<1> QED
  BY <1>3, <1>4

\* The holder writes only where nothing was ever answered 200.
LEMMA HolderBeyondPromises ==
  ASSUME ClientInv, holder # NoRequest, at \in {"jpg", "json"}, NEW a \in acknowledged, a[3] = 200
  PROVE  a[1] # wire[holder].counter /\ a[1] \in SinkCounters
<1>1. holder \in Requests /\ wire[holder].phase = "serving" /\ Genuine(wire[holder])
  BY DEF ClientInv, OneServed, SinkTypes
<1>2. wire[holder].counter \in SinkCounters
  BY <1>1, GenuineRequest DEF ClientInv, SinkTypes
<1>3. a[1] \in SinkCounters /\ lastSeen \in Int /\ lastSeenFile \in Int
  BY DEF ClientInv, SinkTypes
<1>4. a[1] <= lastSeenFile /\ lastSeenFile <= lastSeen
  BY DEF ClientInv, ForgetsOnlyUnanswered
<1>5. wire[holder].counter > lastSeen
  BY DEF ClientInv, HolderWrites
<1>6. a[1] \in Int /\ wire[holder].counter \in Int
  BY <1>2, <1>3, CounterIsNumber
<1>7. a[1] # wire[holder].counter
  BY <1>3, <1>4, <1>5, <1>6
<1> QED
  BY <1>3, <1>7

LEMMA WriteJpgKeepsInv ==
  ASSUME ClientInv, NEW r \in Requests, WriteJpg(r)
  PROVE  ClientInv'
<1> USE DEF ClientInv
<1>1. /\ holder = r /\ at = "jpg" /\ at' = "json"
      /\ frameJpg' = [frameJpg EXCEPT ![wire[r].counter] = wire[r].image]
      /\ UNCHANGED <<frameJson, lastSeen, lastSeenFile, holder, sinkSpent, acknowledged, wire>>
  BY DEF WriteJpg
<1>2. holder # NoRequest /\ wire[r].phase = "serving" /\ Genuine(wire[r])
  BY <1>1, SinkAssumption DEF OneServed
<1>3. wire[r].counter \in SinkCounters /\ wire[r].image \in Frames
  BY <1>2, GenuineRequest DEF SinkTypes
<1>4. SinkTypes' /\ WellMade' /\ OneServed'
  BY <1>1, <1>3 DEF SinkTypes, WellMade, OneServed, Frames
<1>5. HolderWrites'
  BY <1>1, <1>2, <1>3 DEF HolderWrites, SinkTypes
<1>6. StoredForGood'
  BY <1>1, <1>2, HolderBeyondPromises DEF StoredForGood, SinkTypes
<1> QED
  BY <1>1, <1>4, <1>5, <1>6 DEF ForgetsOnlyUnanswered

LEMMA WriteJsonKeepsInv ==
  ASSUME ClientInv, NEW r \in Requests, WriteJson(r)
  PROVE  ClientInv' /\ lastSeen' >= lastSeen
<1> USE DEF ClientInv
<1>1. /\ holder = r /\ at = "json" /\ at' = "persist"
      /\ frameJson' = [frameJson EXCEPT ![wire[r].counter] = wire[r].sha]
      /\ lastSeen' = wire[r].counter
      /\ UNCHANGED <<frameJpg, lastSeenFile, holder, sinkSpent, acknowledged, wire>>
  BY DEF WriteJson
<1>2. holder # NoRequest /\ wire[r].phase = "serving" /\ Genuine(wire[r])
  BY <1>1, SinkAssumption DEF OneServed
<1>3. wire[r].counter \in SinkCounters /\ wire[r].sha = wire[r].image /\ wire[r].image \in Frames
  BY <1>2, GenuineRequest DEF SinkTypes
<1>4. lastSeen' \in Nat /\ lastSeen' > lastSeen
  BY <1>1, <1>2, <1>3, SinkAssumption DEF HolderWrites
<1>5. SinkTypes' /\ WellMade' /\ OneServed'
  BY <1>1, <1>3, <1>4 DEF SinkTypes, WellMade, OneServed, Frames
<1>6. HolderWrites'
  BY <1>1, <1>2, <1>3 DEF HolderWrites, SinkTypes
<1>7. StoredForGood'
  BY <1>1, <1>2, HolderBeyondPromises DEF StoredForGood, SinkTypes
<1>8. ForgetsOnlyUnanswered'
  BY <1>1, <1>4 DEF ForgetsOnlyUnanswered, SinkTypes
<1> QED
  BY <1>4, <1>5, <1>6, <1>7, <1>8 DEF SinkTypes

LEMMA PersistKeepsInv ==
  ASSUME ClientInv, NEW r \in Requests, PersistLastSeen(r)
  PROVE  ClientInv'
<1> USE DEF ClientInv
<1>1. /\ holder = r /\ at = "persist" /\ at' = "jpg" /\ holder' = NoRequest
      /\ lastSeenFile' = lastSeen /\ Answer(r, 200)
      /\ acknowledged' = acknowledged \union {<<wire[r].counter, wire[r].sha, 200>>}
      /\ UNCHANGED <<frameJpg, frameJson, lastSeen, sinkSpent>>
  BY DEF PersistLastSeen
<1>2. holder # NoRequest /\ wire[r].phase = "serving" /\ Genuine(wire[r])
  BY <1>1, SinkAssumption DEF OneServed
<1>3. wire[r].counter \in SinkCounters /\ wire[r].sha = wire[r].image /\ wire[r].image \in Frames
  BY <1>2, GenuineRequest DEF SinkTypes
<1>4. /\ wire' \in [Requests -> Slots] /\ WellMade'
      /\ wire'[r].phase \in {"answered", "free"}
      /\ \A s \in Requests \ {r} : wire'[s] = wire[s]
  BY <1>1, <1>2, AnswerEffect DEF SinkTypes
<1>5. SinkTypes'
  BY <1>1, <1>3, <1>4 DEF SinkTypes
<1>6. OneServed' /\ HolderWrites'
  BY <1>1, <1>2, <1>4, SinkAssumption DEF OneServed, HolderWrites
<1>7. lastSeen = wire[r].counter /\ frameJpg[wire[r].counter] = wire[r].image
      /\ frameJson[wire[r].counter] = wire[r].image
  BY <1>1, <1>2 DEF HolderWrites
<1>8. StoredForGood'
  BY <1>1, <1>3, <1>7 DEF StoredForGood
<1>9. ForgetsOnlyUnanswered'
  <2> SUFFICES ASSUME NEW a \in acknowledged', a[3] = 200 PROVE a[1] <= lastSeen
    BY <1>1 DEF ForgetsOnlyUnanswered, SinkTypes
  <2>1. CASE a \in acknowledged
    <3>1. a[1] <= lastSeenFile /\ lastSeenFile <= lastSeen
      BY <2>1 DEF ForgetsOnlyUnanswered
    <3>2. a[1] \in SinkCounters /\ lastSeen \in Int /\ lastSeenFile \in Int
      BY <2>1 DEF SinkTypes
    <3>3. a[1] \in Int
      BY <3>2, CounterIsNumber
    <3> QED
      BY <3>1, <3>2, <3>3
  <2>2. CASE a = <<wire[r].counter, wire[r].sha, 200>>
    BY <1>7, <2>2 DEF SinkTypes
  <2> QED
    BY <1>1, <2>1, <2>2
<1> QED
  BY <1>4, <1>5, <1>6, <1>8, <1>9

\* An interrupted write may tear the jpg, but only that of the holder.
LEMMA MaybeTornKeepsPromises ==
  ASSUME ClientInv, MaybeTorn
  PROVE  /\ frameJpg' \in [SinkCounters -> Int]
         /\ \A a \in acknowledged : a[3] = 200 => frameJpg'[a[1]] = frameJpg[a[1]]
<1>1. CASE UNCHANGED frameJpg
  BY <1>1 DEF ClientInv, SinkTypes
<1>2. CASE /\ holder # NoRequest /\ at = "jpg"
           /\ frameJpg' = [frameJpg EXCEPT ![wire[holder].counter] = Torn]
  <2>1. frameJpg \in [SinkCounters -> Int] /\ Torn \in Int
    BY DEF ClientInv, SinkTypes, Torn
  <2>2. \A a \in acknowledged : a[3] = 200 => a[1] # wire[holder].counter /\ a[1] \in SinkCounters
    BY <1>2, HolderBeyondPromises
  <2>3. frameJpg' \in [SinkCounters -> Int]
    BY <1>2, <2>1
  <2> QED
    BY <1>2, <2>1, <2>2, <2>3
<1> QED
  BY <1>1, <1>2 DEF MaybeTorn

LEMMA WriteFailsKeepsInv ==
  ASSUME ClientInv, NEW r \in Requests, WriteFails(r)
  PROVE  ClientInv'
<1> USE DEF ClientInv
<1>1. /\ holder = r /\ MaybeTorn /\ Answer(r, 500) /\ holder' = NoRequest /\ at' = "jpg"
      /\ sinkSpent' = [sinkSpent EXCEPT !["faults"] = @ + 1]
      /\ UNCHANGED <<frameJson, lastSeen, lastSeenFile, acknowledged>>
  BY DEF WriteFails, SinkSpend
<1>2. holder # NoRequest /\ wire[r].phase = "serving"
  BY <1>1, SinkAssumption DEF OneServed
<1>3. /\ wire' \in [Requests -> Slots] /\ WellMade'
      /\ wire'[r].phase \in {"answered", "free"}
      /\ \A s \in Requests \ {r} : wire'[s] = wire[s]
  BY <1>1, <1>2, AnswerEffect DEF SinkTypes
<1>4. sinkSpent' \in [restarts : Nat, faults : Nat]
  BY <1>1 DEF SinkTypes
<1>5. SinkTypes'
  BY <1>1, <1>3, <1>4, MaybeTornKeepsPromises DEF SinkTypes
<1>6. OneServed' /\ HolderWrites'
  BY <1>1, <1>3, SinkAssumption DEF OneServed, HolderWrites
<1>7. StoredForGood'
  BY <1>1, MaybeTornKeepsPromises DEF StoredForGood
<1> QED
  BY <1>1, <1>3, <1>5, <1>6, <1>7 DEF ForgetsOnlyUnanswered

LEMMA RestartKeepsInv ==
  ASSUME ClientInv, RestartSink
  PROVE  ClientInv' /\ sinkSpent'.restarts # sinkSpent.restarts
<1> USE DEF ClientInv
<1>1. /\ MaybeTorn /\ CutOff(Requests) /\ holder' = NoRequest /\ at' = "jpg"
      /\ lastSeen' = lastSeenFile
      /\ sinkSpent' = [sinkSpent EXCEPT !["restarts"] = @ + 1]
      /\ UNCHANGED <<frameJson, lastSeenFile, acknowledged>>
  BY DEF RestartSink, SinkSpend
<1>2. /\ wire' \in [Requests -> Slots] /\ WellMade'
      /\ \A s \in Requests : wire'[s].phase \notin {"sent", "serving"}
  BY <1>1, CutOffEffect DEF SinkTypes
<1>3. /\ sinkSpent' \in [restarts : Nat, faults : Nat]
      /\ sinkSpent'.restarts # sinkSpent.restarts
  BY <1>1 DEF SinkTypes
<1>4. SinkTypes'
  BY <1>1, <1>2, <1>3, MaybeTornKeepsPromises DEF SinkTypes
<1>5. OneServed' /\ HolderWrites'
  BY <1>1, <1>2, SinkAssumption DEF OneServed, HolderWrites
<1>6. StoredForGood'
  BY <1>1, MaybeTornKeepsPromises DEF StoredForGood
<1> QED
  BY <1>1, <1>2, <1>3, <1>4, <1>5, <1>6 DEF ForgetsOnlyUnanswered, SinkTypes

-----------------------------------------------------------------------------
LEMMA ClientsInit == ClientInit => ClientInv
<1> SUFFICES ASSUME ClientInit PROVE ClientInv
  OBVIOUS
<1> USE DEF ClientInit, WireInit, SinkInit
<1>1. SinkTypes
  BY FreeSlotType, SinkAssumption DEF SinkTypes, None
<1>2. WellMade /\ OneServed /\ HolderWrites
  BY SinkAssumption DEF WellMade, OneServed, HolderWrites, FreeSlot
<1> QED
  BY <1>1, <1>2 DEF ClientInv, StoredForGood, ForgetsOnlyUnanswered

LEMMA ClientsStep ==
  ASSUME ClientInv, [ClientNext]_clientVars
  PROVE  /\ ClientInv'
         /\ sinkSpent'.restarts = sinkSpent.restarts => lastSeen' >= lastSeen
<1> USE DEF ClientInv
<1>1. lastSeen \in Nat
  BY DEF SinkTypes
<1>2. CASE \E r \in Requests : Client(r) /\ UNCHANGED sinkVars
  BY <1>1, <1>2, ClientKeepsInv DEF sinkVars
<1>3. ASSUME NEW r \in Requests, HandlerStep(r)
      PROVE  ClientInv' /\ lastSeen' >= lastSeen
  BY <1>1, <1>3, RefuseKeepsInv, CheckCounterKeepsInv, WriteJpgKeepsInv, WriteJsonKeepsInv, PersistKeepsInv
     DEF HandlerStep, Refuse, CheckCounter, WriteJpg, PersistLastSeen, sinkVars
<1>4. ASSUME NEW r \in Requests, WriteFails(r)
      PROVE  ClientInv' /\ lastSeen' >= lastSeen
  BY <1>1, <1>4, WriteFailsKeepsInv DEF WriteFails
<1>5. CASE RestartSink
  BY <1>5, RestartKeepsInv
<1>6. CASE UNCHANGED clientVars
  BY <1>1, <1>6 DEF clientVars, sinkVars, SinkTypes, WellMade, OneServed, HolderWrites, StoredForGood,
                    ForgetsOnlyUnanswered
<1> QED
  BY <1>2, <1>3, <1>4, <1>5, <1>6 DEF ClientNext, SinkStep

LEMMA ClientInvariance == ClientSpec => []ClientInv
<1>1. ClientInv /\ [ClientNext]_clientVars => ClientInv'
  BY ClientsStep
<1> QED
  BY <1>1, ClientsInit, PTL DEF ClientSpec

\* sink.py: a frame that was answered 200 stays, image and json, what it was, through every
\* later request, failed write and restart.
THEOREM Kept == ClientSpec => []StoredForGood
<1>1. ClientInv => StoredForGood
  BY DEF ClientInv
<1> QED
  BY <1>1, ClientInvariance, PTL

\* sink.py, _load_last_seen: the file never runs ahead of memory and never behind a 200, so
\* a restart only forgets counters whose requests were never answered 200.
THEOREM Remembered == ClientSpec => []ForgetsOnlyUnanswered
<1>1. ClientInv => ForgetsOnlyUnanswered
  BY DEF ClientInv
<1> QED
  BY <1>1, ClientInvariance, PTL

\* sink.py, _counter_lock: but for a restart no step of any thread lowers last_seen.
THEOREM NeverBack == ClientSpec => SeenNeverForgotten
<1>1. ClientInv /\ [ClientNext]_clientVars
        => [sinkSpent'.restarts = sinkSpent.restarts => lastSeen' >= lastSeen]_clientVars
  BY ClientsStep
<1> QED
  BY <1>1, ClientInvariance, PTL DEF ClientSpec, SeenNeverForgotten
=============================================================================
