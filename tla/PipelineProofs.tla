---------------------------- MODULE PipelineProofs ---------------------------
(***************************************************************************)
(* Proofs about Pipeline: the camera and the reference sink together, for  *)
(* any number of captures, requests, kills, failed writes, timeouts and    *)
(* restarts.  The camera is one of SinkClients' clients, so what is proved *)
(* there of the sink holds here; CameraProofs says what holds of the       *)
(* camera beside any backend; the rest relates the two.                    *)
(***************************************************************************)
EXTENDS Pipeline, CameraProofs, SinkClientsProofs

\* The counter file is never lost; or the operator who seeds it anew looks at
\* the queue, and the sink loses no write of last_seen.
Recoverable == MaxCorruptions = 0 \/ (SeedAboveQueue /\ MaxSinkFaults = 0)

StoredAt(n, f) == frameJpg[n] = f /\ frameJson[n] = f

\* What last_seen says was seen is stored.
SeenIsStored == \A c \in committed : c[1] <= lastSeen => StoredAt(c[1], c[2])

\* What the drain has an acknowledgement for is stored.
AckedIsStored == Acked => StoredAt(drain.current, queueJson[drain.current])

\* A request the sink has still to act on will not be let through when its
\* frame has been acknowledged before.
NoLateWrite ==
  \A r \in Requests : Live(r) =>
    /\ archiveJpg[wire[r].counter] # None => wire[r].counter <= lastSeen
    /\ Acked /\ wire[r].counter = drain.current => wire[r].counter <= lastSeen

\* The sink holds committed frames only, and when it holds one the device has
\* archived every older one.
StoredIsLogged ==
  /\ \A n \in SinkCounters : frameJson[n] # None =>
       /\ n \in Counters /\ <<n, frameJson[n]>> \in committed
       /\ \A c \in committed : c[1] < n => archiveJpg[c[1]] # None
  /\ \A seen \in {lastSeen, lastSeenFile} : seen = 0 \/ \E c \in committed : c[1] = seen

\* Without failed writes the sink's file has seen whatever the device was told.
RecoverInv ==
  /\ MaxCorruptions = 0 => counter # Corrupt
  /\ MaxSinkFaults = 0 =>
       /\ \A n \in Counters : archiveJpg[n] # None => n <= lastSeenFile
       /\ Acked => drain.current <= lastSeenFile
       /\ lastSeen # lastSeenFile => holder # NoRequest /\ at = "persist"

StoreInv ==
  /\ SeenIsStored /\ ArchivedIsStored /\ AckedIsStored /\ NoLateWrite /\ StoredIsLogged
  /\ RecoverInv

PipelineInv == CameraInv /\ ClientInv /\ StoreInv

-----------------------------------------------------------------------------
(* Committed frames and the counters they carry                            *)

\* Once the sink has seen a counter, its frame is stored.
LEMMA SeenFrame ==
  ASSUME PipelineInv, NEW n, NEW f, <<n, f>> \in committed, n <= lastSeen
  PROVE  StoredAt(n, f)
<1>1. <<n, f>>[1] = n /\ <<n, f>>[2] = f
  OBVIOUS
<1> QED
  BY <1>1 DEF PipelineInv, StoreInv, SeenIsStored

-----------------------------------------------------------------------------
(* The camera is a client of the sink, and the sink a backend of the camera *)

LEMMA CameraIsClient ==
  ASSUME CameraInv, NEW seen, CameraStep(seen)
  PROVE  UNCHANGED wire \/ \E r \in Requests : Client(r)
<1>1. ASSUME NEW r \in Requests, NEW n \in Counters, PushFrame(r, n) PROVE Client(r)
  <2>1. n \in SinkCounters /\ queueJpg[n] \in Frames /\ queueJson[n] \in Frames
    BY <1>1, PushedFrame, PipelineAssumption
  <2>2. Post(r, "good", n, queueJpg[n], queueJson[n])
    BY <1>1 DEF PushFrame
  <2> QED
    BY <2>1, <2>2 DEF Client
<1>2. CASE drain.at = "wait" /\ (ReadAnswer(drain.request) \/ GiveUp(drain.request))
  BY <1>2, AwaitedFrame DEF Client
<1>3. CASE DrainStep
  BY <1>1, <1>2, <1>3 DEF DrainStep, DrainLocks, PushAnswered, PushTimesOut, ArchiveJpg, ArchiveJson,
                          DrainReports, DrainRaises, DrainFails, KillDrain
<1> QED
  BY <1>3 DEF CameraStep

LEMMA SinkIsBackend ==
  ASSUME CameraInv, ClientInv, SinkStep, UNCHANGED cameraVars
  PROVE  CameraInv'
<1>1. wire \in [Requests -> PostedSlots]
  BY DEF CameraInv, CameraTypes
<1>2. ASSUME NEW r \in Requests, wire[r].phase # "free", NEW code \in Int, Answer(r, code)
      PROVE  CameraInv'
  <2>1. wire' \in [Requests -> PostedSlots] /\ \A s \in Requests : Served(s)
    BY <1>1, <1>2, AnswerServes DEF Served
  <2> QED
    BY <2>1, BackendKeepsCamera
<1>3. ASSUME NEW r \in Requests, wire[r].phase # "free", Serve(r)
      PROVE  CameraInv'
  <2>1. wire' \in [Requests -> PostedSlots] /\ \A s \in Requests : Served(s)
    BY <1>1, <1>3, ServeServes DEF Served
  <2> QED
    BY <2>1, BackendKeepsCamera
<1>4. CASE UNCHANGED wire
  BY <1>1, <1>4, BackendKeepsCamera DEF Served
<1>5. CASE CutOff(Requests)
  <2>1. ASSUME NEW s \in Requests PROVE wire'[s] \in PostedSlots /\ Served(s)
    <3>1. CASE wire[s].phase \notin {"sent", "serving"}
      BY <1>1, <1>5, <3>1 DEF CutOff, Served
    <3>2. CASE wire[s].phase \in {"sent", "serving"} /\ wire[s].awaited
      <4> DEFINE new == [wire[s] EXCEPT !.phase = "answered", !.status = NoAnswer]
      <4>1. wire'[s] = new
        BY <1>5, <3>2 DEF CutOff, Answered
      <4>2. wire[s] \in PostedSlots /\ NoAnswer \in Int
        BY <1>1 DEF NoAnswer
      <4>3. /\ new \in PostedSlots /\ new.phase = "answered" /\ new.awaited = wire[s].awaited
            /\ new.form = wire[s].form /\ new.counter = wire[s].counter
            /\ new.image = wire[s].image /\ new.sha = wire[s].sha
        BY <4>2 DEF PostedSlots
      <4> HIDE DEF new
      <4> QED
        BY <3>2, <4>1, <4>3 DEF Served
    <3>3. CASE wire[s].phase \in {"sent", "serving"} /\ ~wire[s].awaited
      <4>1. wire'[s] = FreeSlot /\ FreeSlot \in PostedSlots
        <5>1. wire'[s] = FreeSlot
          BY <1>5, <3>3 DEF CutOff, Answered
        <5>2. FreeSlot \in PostedSlots
          BY DEF FreeSlot, PostedSlots, Forms, Images
        <5> QED
          BY <5>1, <5>2
      <4> QED
        BY <3>3, <4>1 DEF Served
    <3> QED
      BY <3>1, <3>2, <3>3
  <2>2. wire' = [s \in Requests |-> wire'[s]]
    BY <1>5 DEF CutOff
  <2>3. wire' \in [Requests -> PostedSlots]
    BY <2>1, <2>2
  <2> QED
    BY <2>1, <2>3, BackendKeepsCamera
<1>6. ASSUME NEW r \in Requests, holder = r PROVE wire[r].phase # "free"
  BY <1>6, SinkAssumption DEF ClientInv, OneServed
<1>7. ASSUME NEW r \in Requests, HandlerStep(r) \/ WriteFails(r) PROVE CameraInv'
  <2>1. CASE Refuse(r)
    <3>1. wire[r].phase # "free" /\ Answer(r, Refusal(wire[r])) /\ Refusal(wire[r]) \in Int
      BY <2>1 DEF Refuse, Refusal
    <3> QED
      BY <1>2, <3>1
  <2>2. CASE CheckCounter(r)
    BY <1>2, <1>3, <2>2 DEF CheckCounter
  <2>3. CASE WriteJpg(r) \/ WriteJson(r)
    BY <1>4, <2>3 DEF WriteJpg, WriteJson
  <2>4. CASE PersistLastSeen(r)
    BY <1>2, <1>6, <2>4 DEF PersistLastSeen
  <2>5. CASE WriteFails(r)
    BY <1>2, <1>6, <2>5 DEF WriteFails
  <2> QED
    BY <1>7, <2>1, <2>2, <2>3, <2>4, <2>5 DEF HandlerStep
<1> QED
  BY <1>5, <1>7 DEF SinkStep, RestartSink

\* The counter may be seeded anew when it is lost, under either hypothesis.
LEMMA SinkKnowsArchived ==
  ASSUME PipelineInv, Recoverable
  PROVE  Reseedable(lastSeen)
<1> SUFFICES ASSUME counter = Corrupt
             PROVE  SeedAboveQueue /\ \A n \in Counters : archiveJpg[n] # None => n <= lastSeen
  BY DEF Reseedable
<1>1. SeedAboveQueue /\ MaxSinkFaults = 0
  BY DEF Recoverable, PipelineInv, StoreInv, RecoverInv
<1>2. \A n \in Counters : archiveJpg[n] # None => n <= lastSeenFile
  BY <1>1 DEF PipelineInv, StoreInv, RecoverInv
<1>3. lastSeenFile <= lastSeen /\ lastSeenFile \in Int /\ lastSeen \in Int
  BY DEF PipelineInv, ClientInv, SinkTypes, ForgetsOnlyUnanswered
<1>4. ASSUME NEW n \in Counters, archiveJpg[n] # None PROVE n <= lastSeen
  <2>1. n \in Int /\ n <= lastSeenFile
    BY <1>2, <1>4, CounterOfCamera
  <2> QED
    BY <1>3, <2>1
<1> QED
  BY <1>1, <1>4

-----------------------------------------------------------------------------
(* The steps of the camera                                                 *)

LEMMA QuietStepKeepsStore ==
  ASSUME PipelineInv, QuietStep, UNCHANGED sinkVars, MaxCorruptions = 0 => counter' # Corrupt
  PROVE  StoreInv'
<1> USE DEF PipelineInv, StoreInv, sinkVars
<1>1. SeenIsStored' /\ ArchivedIsStored' /\ StoredIsLogged'
  BY DEF QuietStep, SeenIsStored, ArchivedIsStored, StoredIsLogged, StoredAt
<1>2. AckedIsStored'
  BY DEF QuietStep, AckedIsStored, StoredAt
<1>3. NoLateWrite'
  BY DEF QuietStep, NoLateWrite
<1>4. RecoverInv'
  BY DEF QuietStep, RecoverInv
<1> QED
  BY <1>1, <1>2, <1>3, <1>4

LEMMA EnqueueKeepsStore ==
  ASSUME PipelineInv, NEW p \in Captures, EnqueueJson(p), UNCHANGED <<wire, sinkVars>>
  PROVE  StoreInv'
<1> USE DEF PipelineInv, StoreInv, sinkVars
<1>1. UNCHANGED <<archiveJpg, drain, counter>> /\ drain.at \in {"idle", "except"}
  BY EnqueueEffect DEF EnqueueJson
<1>2. PICK n \in Counters, f \in Frames :
        /\ committed' = committed \union {<<n, f>>}
        /\ \A c \in committed : c[1] < n /\ c[1] # n
  BY EnqueueEffect
<1>3. ~Acked'
  BY <1>1 DEF Acked
<1>4. <<n, f>>[1] = n /\ n \in Int /\ n > 0 /\ lastSeen \in Int
  BY CounterOfCamera DEF ClientInv, SinkTypes
<1>5. ~(n <= lastSeen)
  <2>1. lastSeen = 0 \/ \E c \in committed : c[1] = lastSeen
    BY DEF StoredIsLogged
  <2> QED
    BY <1>2, <1>4, <2>1
<1>6. SeenIsStored'
  <2> SUFFICES ASSUME NEW c \in committed', c[1] <= lastSeen
               PROVE  StoredAt(c[1], c[2])
    BY DEF SeenIsStored, StoredAt
  <2>1. c \in committed
    BY <1>2, <1>4, <1>5
  <2> QED
    BY <2>1 DEF SeenIsStored
<1>7. ArchivedIsStored' /\ AckedIsStored' /\ NoLateWrite' /\ RecoverInv'
  BY <1>1, <1>3 DEF ArchivedIsStored, AckedIsStored, NoLateWrite, RecoverInv, Live
<1>8. StoredIsLogged'
  <2>1. ASSUME NEW m \in SinkCounters, frameJson[m] # None, NEW c \in committed', c[1] < m
        PROVE  archiveJpg[c[1]] # None
    <3>1. <<m, frameJson[m]>> \in committed /\ <<m, frameJson[m]>>[1] = m /\ m \in Counters
      BY <2>1 DEF StoredIsLogged
    <3>2. m < n /\ m \in Int
      BY <1>2, <3>1, CounterOfCamera
    <3>3. c \in committed
      BY <1>2, <1>4, <2>1, <3>2
    <3> QED
      BY <2>1, <3>3 DEF StoredIsLogged
  <2>2. \A m \in SinkCounters : frameJson[m] # None =>
          m \in Counters /\ <<m, frameJson[m]>> \in committed'
    BY <1>2 DEF StoredIsLogged
  <2>3. \A seen \in {lastSeen, lastSeenFile} : seen = 0 \/ \E c \in committed' : c[1] = seen
    BY <1>2 DEF StoredIsLogged
  <2> QED
    BY <1>1, <2>1, <2>2, <2>3 DEF StoredIsLogged
<1> QED
  BY <1>6, <1>7, <1>8

LEMMA ArchiveKeepsStore ==
  ASSUME PipelineInv, ArchiveJpg, UNCHANGED sinkVars
  PROVE  StoreInv'
<1> USE DEF PipelineInv, StoreInv, sinkVars
<1> DEFINE n == drain.current
<1>1. /\ n \in Counters /\ Acked /\ ~Acked' /\ queueJson[n] # None
      /\ archiveJpg' = [archiveJpg EXCEPT ![n] = queueJson[n]]
      /\ UNCHANGED <<wire, committed>>
  BY ArchiveEffect
<1>2. StoredAt(n, queueJson[n]) /\ counter' = counter
  BY <1>1 DEF AckedIsStored, ArchiveJpg
<1>3. n \in SinkCounters /\ Counters \subseteq SinkCounters
  BY <1>1, PipelineAssumption
<1> HIDE DEF n
<1>4. archiveJpg'[n] = queueJson[n] /\ \A m \in Counters \ {n} : archiveJpg'[m] = archiveJpg[m]
  BY <1>1 DEF CameraInv, CameraTypes, DiskTypes
<1>5. SeenIsStored' /\ AckedIsStored'
  BY <1>1 DEF SeenIsStored, AckedIsStored, StoredAt
<1>6. ArchivedIsStored'
  BY <1>2, <1>4 DEF ArchivedIsStored, StoredAt
<1>7. NoLateWrite'
  <2> SUFFICES ASSUME NEW r \in Requests, Live(r), archiveJpg'[wire[r].counter] # None
               PROVE  wire[r].counter <= lastSeen
    BY <1>1 DEF NoLateWrite, Live
  <2>1. wire[r].counter \in Counters
    <3>1. wire[r].phase # "free"
      BY DEF Live
    <3>2. <<wire[r].counter, wire[r].image>> \in committed
      BY <3>1 DEF CameraInv, RequestInv
    <3> QED
      BY <3>2 DEF CameraInv, CameraTypes, DiskTypes
  <2>2. CASE wire[r].counter = n
    BY <1>1, <2>2 DEF NoLateWrite, n
  <2>3. CASE wire[r].counter # n
    BY <1>4, <2>1, <2>3 DEF NoLateWrite
  <2> QED
    BY <2>2, <2>3
<1>8. StoredIsLogged'
  <2>1. \A c \in committed : archiveJpg[c[1]] # None => archiveJpg'[c[1]] # None
    BY <1>1, <1>4, CommittedPair DEF CameraInv, CameraTypes
  <2> QED
    BY <1>1, <2>1 DEF StoredIsLogged
<1>9. RecoverInv'
  BY <1>1, <1>2, <1>4 DEF RecoverInv, n
<1> QED
  BY <1>5, <1>6, <1>7, <1>8, <1>9

LEMMA CameraStepKeepsStore ==
  ASSUME PipelineInv, NEW seen, CameraStep(seen), UNCHANGED sinkVars
  PROVE  StoreInv'
<1>1. MaxCorruptions = 0 => counter' # Corrupt
  BY CounterKept DEF PipelineInv, StoreInv, RecoverInv
<1> QED
  BY <1>1, CameraEffect, QuietStepKeepsStore, EnqueueKeepsStore, ArchiveKeepsStore DEF PipelineInv

-----------------------------------------------------------------------------
(* The steps of the sink                                                   *)

\* Until its json is written, the holder's frame is one the sink has not seen
\* and the device has neither archived nor an acknowledgement for.
LEMMA HolderIsFirst ==
  ASSUME PipelineInv, holder # NoRequest, at \in {"jpg", "json"}
  PROVE  LET n == wire[holder].counter
         IN  /\ holder \in Requests /\ n \in Counters /\ n \in Int /\ n > lastSeen
             /\ <<n, wire[holder].image>> \in committed /\ wire[holder].sha = wire[holder].image
             /\ wire[holder].image \in Frames
             /\ archiveJpg[n] = None /\ (Acked => drain.current # n)
             /\ \A c \in committed : c[1] < n => archiveJpg[c[1]] # None
<1> USE DEF PipelineInv, StoreInv
<1> DEFINE n == wire[holder].counter
<1>1. holder \in Requests /\ wire[holder].phase = "serving"
  BY DEF ClientInv, SinkTypes, OneServed
<1>2. /\ <<n, wire[holder].image>> \in committed /\ wire[holder].sha = wire[holder].image
      /\ \A c \in committed : c[1] < n => archiveJpg[c[1]] # None
  BY <1>1 DEF CameraInv, RequestInv
<1>3. n \in Counters /\ wire[holder].image \in Frames
  BY <1>2 DEF CameraInv, CameraTypes, DiskTypes
<1>4. n \in Int /\ lastSeen \in Int
  BY <1>3, CounterOfCamera DEF ClientInv, SinkTypes
<1>5. n > lastSeen
  BY DEF ClientInv, HolderWrites
<1>6. ~(n <= lastSeen)
  BY <1>4, <1>5
<1>7. archiveJpg[n] = None /\ (Acked => drain.current # n)
  BY <1>1, <1>6 DEF NoLateWrite, Live
<1> QED
  BY <1>1, <1>2, <1>3, <1>4, <1>5, <1>7

\* What the sink writes, or leaves half-written, before its json is nothing
\* that anyone relies on.
LEMMA FirstWritesHarmless ==
  ASSUME PipelineInv, UNCHANGED cameraVars, holder # NoRequest, at \in {"jpg", "json"},
         \A m \in SinkCounters \ {wire[holder].counter} :
           frameJpg'[m] = frameJpg[m] /\ frameJson'[m] = frameJson[m]
  PROVE  /\ \A c \in committed : c[1] <= lastSeen => StoredAt(c[1], c[2])'
         /\ ArchivedIsStored'
         /\ Acked => StoredAt(drain.current, queueJson[drain.current])'
<1> USE DEF PipelineInv, StoreInv, cameraVars, disk
<1> DEFINE n == wire[holder].counter
<1>1. n \in Int /\ n > lastSeen /\ archiveJpg[n] = None /\ (Acked => drain.current # n)
  BY HolderIsFirst
<1> HIDE DEF n
<1>2. \A m \in Counters \ {n} : frameJpg'[m] = frameJpg[m] /\ frameJson'[m] = frameJson[m]
  BY PipelineAssumption DEF n
<1>3. ASSUME NEW c \in committed, c[1] <= lastSeen PROVE StoredAt(c[1], c[2])'
  <2>1. c[1] \in Counters /\ c[1] \in Int /\ lastSeen \in Int
    BY CommittedPair, CounterOfCamera DEF CameraInv, CameraTypes, ClientInv, SinkTypes
  <2>2. c[1] # n
    BY <1>1, <1>3, <2>1
  <2> QED
    BY <1>2, <1>3, <2>1, <2>2 DEF SeenIsStored, StoredAt
<1>4. ArchivedIsStored'
  BY <1>1, <1>2 DEF ArchivedIsStored
<1>5. ASSUME Acked PROVE StoredAt(drain.current, queueJson[drain.current])'
  <2>1. drain.current \in Counters
    BY <1>5 DEF Acked, CameraInv, CameraTypes, ProcessTypes, DrainInv
  <2> QED
    BY <1>1, <1>2, <1>5, <2>1 DEF AckedIsStored, StoredAt
<1> QED
  BY <1>3, <1>4, <1>5

\* An answer acknowledges the drain's frame only if it is 200 or 409 and the drain's own.
LEMMA AnswerEffectOnDrain ==
  ASSUME CameraInv, UNCHANGED cameraVars, NEW r \in Requests, wire[r].phase # "free",
         NEW code \in Int, Answer(r, code)
  PROVE  /\ Acked' => \/ Acked
                      \/ code \in {200, 409} /\ drain.at = "wait" /\ drain.request = r
         /\ \A s \in Requests : Live(s)' => Live(s) /\ s # r /\ wire'[s] = wire[s]
<1>1. /\ wire'[r].phase \in {"free", "answered"}
      /\ wire'[r].phase = "answered" => wire'[r].status = code
      /\ \A s \in Requests \ {r} : wire'[s] = wire[s]
  BY AnswerServes DEF CameraInv, CameraTypes
<1>2. Acked' => \/ Acked
                \/ code \in {200, 409} /\ drain.at = "wait" /\ drain.request = r
  <2>1. CASE drain.at = "wait" /\ drain.request = r
    BY <1>1, <2>1 DEF Acked, Acknowledged, cameraVars
  <2>2. CASE drain.at = "wait" /\ drain.request # r
    BY <1>1, <2>2, AwaitedFrame DEF Acked, cameraVars
  <2>3. CASE drain.at # "wait"
    BY <2>3 DEF Acked, cameraVars
  <2> QED
    BY <2>1, <2>2, <2>3
<1>3. \A s \in Requests : Live(s)' => Live(s) /\ s # r /\ wire'[s] = wire[s]
  BY <1>1 DEF Live
<1> QED
  BY <1>2, <1>3

\* An acknowledgement is given for a frame that is stored.
LEMMA AcknowledgesStored ==
  ASSUME PipelineInv, UNCHANGED cameraVars, NEW r \in Requests, wire[r].phase # "free",
         NEW code \in {200, 409}, Answer(r, code), wire[r].counter <= lastSeen,
         UNCHANGED <<frameJpg, frameJson, lastSeen>>
  PROVE  /\ SeenIsStored' /\ ArchivedIsStored' /\ AckedIsStored' /\ NoLateWrite'
         /\ Acked' => Acked \/ drain.current = wire[r].counter
<1> USE DEF PipelineInv, StoreInv, cameraVars, disk
<1>1. /\ Acked' => \/ Acked
                   \/ drain.at = "wait" /\ drain.request = r
      /\ \A s \in Requests : Live(s)' => Live(s) /\ s # r /\ wire'[s] = wire[s]
  BY AnswerEffectOnDrain
<1>2. ASSUME drain.at = "wait", drain.request = r
      PROVE  drain.current = wire[r].counter /\ StoredAt(drain.current, queueJson[drain.current])
  BY <1>2, AwaitedFrame, SeenFrame
<1>3. SeenIsStored' /\ ArchivedIsStored'
  BY DEF SeenIsStored, ArchivedIsStored, StoredAt
<1>4. AckedIsStored'
  BY <1>1, <1>2 DEF AckedIsStored, StoredAt
<1>5. NoLateWrite'
  <2> SUFFICES ASSUME NEW s \in Requests, Live(s)'
               PROVE  /\ archiveJpg[wire[s].counter] # None => wire[s].counter <= lastSeen
                      /\ Acked' /\ wire[s].counter = drain.current => wire[s].counter <= lastSeen
    BY <1>1 DEF NoLateWrite
  <2>1. Live(s)
    BY <1>1
  <2>2. CASE Acked' /\ ~Acked /\ wire[s].counter = drain.current
    BY <1>1, <1>2, <2>1, <2>2 DEF NoLateWrite
  <2>3. CASE ~(Acked' /\ ~Acked /\ wire[s].counter = drain.current)
    BY <2>1, <2>3 DEF NoLateWrite
  <2> QED
    BY <2>2, <2>3
<1> QED
  BY <1>1, <1>2, <1>3, <1>4, <1>5

LEMMA CheckCounterKeepsStore ==
  ASSUME PipelineInv, UNCHANGED cameraVars, NEW r \in Requests, CheckCounter(r)
  PROVE  StoreInv'
<1> USE DEF PipelineInv, StoreInv
<1>1. /\ wire[r].phase = "sent" /\ holder = NoRequest
      /\ UNCHANGED <<frameJpg, frameJson, lastSeen, lastSeenFile, sinkSpent>>
  BY DEF CheckCounter
<1>2. StoredIsLogged'
  BY <1>1 DEF StoredIsLogged, cameraVars, disk
<1>3. CASE CounterSeen(r)
  <2>1. Answer(r, 409) /\ UNCHANGED <<holder, at>> /\ wire[r].counter <= lastSeen
    BY <1>3 DEF CheckCounter, CounterSeen
  <2>2. /\ SeenIsStored' /\ ArchivedIsStored' /\ AckedIsStored' /\ NoLateWrite'
        /\ Acked' => Acked \/ drain.current = wire[r].counter
    BY <1>1, <2>1, AcknowledgesStored
  <2>3. RecoverInv'
    BY <1>1, <2>1, <2>2 DEF RecoverInv, cameraVars, disk
  <2> QED
    BY <1>2, <2>2, <2>3
<1>4. CASE ~CounterSeen(r)
  <2>1. Serve(r) /\ holder' = r
    BY <1>4 DEF CheckCounter
  <2>2. /\ wire'[r].phase = "serving" /\ wire'[r].counter = wire[r].counter
        /\ \A s \in Requests \ {r} : wire'[s] = wire[s]
    BY <1>1, <2>1, ServeServes DEF CameraInv, CameraTypes
  <2>3. Acked' => Acked
    <3>1. CASE drain.at = "wait"
      BY <2>2, <3>1, AwaitedFrame DEF Acked, cameraVars
    <3>2. CASE drain.at # "wait"
      BY <3>2 DEF Acked, cameraVars
    <3> QED
      BY <3>1, <3>2
  <2>4. \A s \in Requests : Live(s)' => Live(s) /\ wire'[s].counter = wire[s].counter
    BY <1>1, <2>2 DEF Live
  <2>5. SeenIsStored' /\ ArchivedIsStored' /\ AckedIsStored'
    BY <1>1, <2>3 DEF SeenIsStored, ArchivedIsStored, AckedIsStored, StoredAt, cameraVars, disk
  <2>6. NoLateWrite'
    BY <1>1, <2>3, <2>4 DEF NoLateWrite, cameraVars, disk
  <2>7. RecoverInv'
    BY <1>1, <2>3 DEF RecoverInv, cameraVars, disk
  <2> QED
    BY <1>2, <2>5, <2>6, <2>7
<1> QED
  BY <1>3, <1>4

LEMMA WriteJpgKeepsStore ==
  ASSUME PipelineInv, UNCHANGED cameraVars, NEW r \in Requests, WriteJpg(r)
  PROVE  StoreInv'
<1> USE DEF PipelineInv, StoreInv
<1>1. /\ holder = r /\ at = "jpg" /\ holder # NoRequest
      /\ frameJpg' = [frameJpg EXCEPT ![wire[r].counter] = wire[r].image]
      /\ UNCHANGED <<frameJson, lastSeen, lastSeenFile, holder, sinkSpent, acknowledged, wire>>
  BY SinkAssumption DEF WriteJpg
<1>2. \A m \in SinkCounters \ {wire[holder].counter} :
        frameJpg'[m] = frameJpg[m] /\ frameJson'[m] = frameJson[m]
  BY <1>1 DEF ClientInv, SinkTypes
<1>3. Acked' = Acked /\ \A s \in Requests : Live(s)' = Live(s)
  BY <1>1 DEF Acked, Live, cameraVars
<1>4. SeenIsStored' /\ ArchivedIsStored' /\ AckedIsStored'
  BY <1>1, <1>2, <1>3, FirstWritesHarmless DEF SeenIsStored, AckedIsStored, StoredAt, cameraVars, disk
<1>5. NoLateWrite' /\ StoredIsLogged'
  BY <1>1, <1>3 DEF NoLateWrite, StoredIsLogged, cameraVars, disk
<1>6. RecoverInv'
  BY <1>1, <1>3 DEF RecoverInv, ClientInv, SinkTypes, HolderWrites, cameraVars, disk
<1> QED
  BY <1>4, <1>5, <1>6

LEMMA WriteJsonKeepsStore ==
  ASSUME PipelineInv, UNCHANGED cameraVars, NEW r \in Requests, WriteJson(r)
  PROVE  StoreInv'
<1> USE DEF PipelineInv, StoreInv
<1> DEFINE n == wire[r].counter
           f == wire[r].image
<1>1. /\ holder = r /\ at = "json" /\ at' = "persist" /\ holder # NoRequest
      /\ frameJson' = [frameJson EXCEPT ![n] = wire[r].sha] /\ lastSeen' = n
      /\ UNCHANGED <<frameJpg, lastSeenFile, holder, sinkSpent, acknowledged, wire>>
  BY SinkAssumption DEF WriteJson
<1>2. /\ n \in Counters /\ n \in Int /\ n > lastSeen /\ <<n, f>> \in committed /\ wire[r].sha = f
      /\ f \in Frames /\ \A c \in committed : c[1] < n => archiveJpg[c[1]] # None
  BY <1>1, HolderIsFirst
<1>3. frameJpg[n] = f /\ frameJson'[n] = f /\ n \in SinkCounters
      /\ \A m \in SinkCounters \ {n} : frameJson'[m] = frameJson[m]
  BY <1>1, <1>2, PipelineAssumption DEF ClientInv, SinkTypes, HolderWrites
<1>4. Acked' = Acked /\ \A s \in Requests : Live(s)' = Live(s)
  BY <1>1 DEF Acked, Live, cameraVars
<1> HIDE DEF n, f
<1>5. ArchivedIsStored' /\ (Acked => StoredAt(drain.current, queueJson[drain.current])')
  BY <1>1, <1>3, FirstWritesHarmless DEF n
<1>6. AckedIsStored'
  BY <1>4, <1>5 DEF AckedIsStored, StoredAt, cameraVars, disk
<1>7. SeenIsStored'
  <2> SUFFICES ASSUME NEW c \in committed, c[1] <= n PROVE StoredAt(c[1], c[2])'
    BY <1>1 DEF SeenIsStored, StoredAt, cameraVars
  <2>1. c[1] \in Counters /\ c[1] \in Int
    BY CommittedPair, CounterOfCamera DEF CameraInv, CameraTypes
  <2>2. CASE c[1] = n
    <3>1. f = c[2]
      BY <1>2, <2>2, OneFrameToACounter
    <3> QED
      BY <1>1, <1>3, <2>2, <3>1 DEF StoredAt
  <2>3. CASE c[1] < n
    <3>1. archiveJpg[c[1]] # None /\ archiveJpg[c[1]] = c[2]
      BY <1>2, <2>3, ArchivedFrame
    <3>2. UNCHANGED archiveJpg
      BY DEF cameraVars, disk
    <3> QED
      BY <1>5, <2>1, <3>1, <3>2 DEF ArchivedIsStored, StoredAt
  <2> QED
    BY <1>2, <2>1, <2>2, <2>3
<1>8. NoLateWrite'
  <2> SUFFICES ASSUME NEW s \in Requests, Live(s), wire[s].counter <= lastSeen
               PROVE  wire[s].counter <= n
    BY <1>1, <1>4 DEF NoLateWrite, cameraVars, disk
  <2>1. wire[s].counter \in Counters \union {0} /\ lastSeen \in Int
    BY DEF CameraInv, CameraTypes, PostedSlots, ClientInv, SinkTypes
  <2>2. wire[s].counter \in Int
    BY <2>1, CounterOfCamera
  <2> QED
    BY <1>2, <2>1, <2>2
<1>9. StoredIsLogged'
  <2>1. \A m \in SinkCounters : frameJson'[m] # None =>
          /\ m \in Counters /\ <<m, frameJson'[m]>> \in committed
          /\ \A c \in committed : c[1] < m => archiveJpg[c[1]] # None
    BY <1>2, <1>3 DEF StoredIsLogged
  <2>2. \E c \in committed : c[1] = n
    <3>1. <<n, f>>[1] = n
      OBVIOUS
    <3> QED
      BY <1>2, <3>1
  <2>3. \A seen \in {lastSeen', lastSeenFile'} : seen = 0 \/ \E c \in committed : c[1] = seen
    BY <1>1, <2>2 DEF StoredIsLogged
  <2> QED
    BY <2>1, <2>3 DEF StoredIsLogged, cameraVars, disk
<1>10. RecoverInv'
  BY <1>1, <1>4 DEF RecoverInv, cameraVars, disk
<1> QED
  BY <1>5, <1>6, <1>7, <1>8, <1>9, <1>10

LEMMA PersistKeepsStore ==
  ASSUME PipelineInv, UNCHANGED cameraVars, NEW r \in Requests, PersistLastSeen(r)
  PROVE  StoreInv'
<1> USE DEF PipelineInv, StoreInv
<1>1. /\ holder = r /\ at = "persist" /\ holder # NoRequest /\ Answer(r, 200)
      /\ lastSeenFile' = lastSeen
      /\ UNCHANGED <<frameJpg, frameJson, lastSeen, sinkSpent>>
  BY SinkAssumption DEF PersistLastSeen
<1>2. wire[r].phase # "free" /\ wire[r].counter = lastSeen
  BY <1>1 DEF ClientInv, OneServed, HolderWrites
<1>3. lastSeen \in Int /\ lastSeenFile \in Int /\ lastSeenFile <= lastSeen
  BY DEF ClientInv, SinkTypes, ForgetsOnlyUnanswered
<1>4. /\ SeenIsStored' /\ ArchivedIsStored' /\ AckedIsStored' /\ NoLateWrite'
      /\ Acked' => Acked \/ drain.current = wire[r].counter
  BY <1>1, <1>2, <1>3, AcknowledgesStored
<1>5. StoredIsLogged'
  BY <1>1 DEF StoredIsLogged, cameraVars, disk
<1>6. RecoverInv'
  <2>1. ASSUME MaxSinkFaults = 0, NEW n \in Counters, archiveJpg[n] # None PROVE n <= lastSeen
    <3>1. n \in Int /\ n <= lastSeenFile
      BY <2>1, CounterOfCamera DEF RecoverInv
    <3> QED
      BY <1>3, <3>1
  <2>2. ASSUME MaxSinkFaults = 0, Acked' PROVE drain.current <= lastSeen
    <3>1. CASE Acked
      <4>1. drain.current \in Counters \union {0} /\ drain.current <= lastSeenFile
        BY <2>2, <3>1 DEF RecoverInv, CameraInv, CameraTypes, ProcessTypes
      <4>2. drain.current \in Int
        BY <4>1, CounterOfCamera
      <4> QED
        BY <1>3, <4>1, <4>2
    <3> QED
      BY <1>2, <1>3, <1>4, <2>2, <3>1
  <2> QED
    BY <1>1, <2>1, <2>2 DEF RecoverInv, cameraVars, disk
<1> QED
  BY <1>4, <1>5, <1>6

\* A write that fails or is cut short spoils the holder's jpg at most.
LEMMA TornIsHarmless ==
  ASSUME PipelineInv, UNCHANGED <<cameraVars, frameJson>>, MaybeTorn
  PROVE  /\ \A c \in committed : c[1] <= lastSeen => StoredAt(c[1], c[2])'
         /\ ArchivedIsStored'
         /\ Acked => StoredAt(drain.current, queueJson[drain.current])'
<1>1. CASE UNCHANGED frameJpg
  BY <1>1 DEF PipelineInv, StoreInv, SeenIsStored, ArchivedIsStored, AckedIsStored, StoredAt, cameraVars, disk
<1>2. CASE /\ holder # NoRequest /\ at = "jpg"
           /\ frameJpg' = [frameJpg EXCEPT ![wire[holder].counter] = Torn]
  <2>1. \A m \in SinkCounters \ {wire[holder].counter} :
          frameJpg'[m] = frameJpg[m] /\ frameJson'[m] = frameJson[m]
    BY <1>2 DEF PipelineInv, ClientInv, SinkTypes
  <2> QED
    BY <1>2, <2>1, FirstWritesHarmless
<1> QED
  BY <1>1, <1>2 DEF MaybeTorn

LEMMA WriteFailsKeepsStore ==
  ASSUME PipelineInv, UNCHANGED cameraVars, NEW r \in Requests, WriteFails(r)
  PROVE  StoreInv'
<1> USE DEF PipelineInv, StoreInv
<1>1. /\ holder = r /\ holder # NoRequest /\ MaybeTorn /\ Answer(r, 500)
      /\ sinkSpent.faults < MaxSinkFaults
      /\ UNCHANGED <<frameJson, lastSeen, lastSeenFile, acknowledged>>
  BY SinkAssumption DEF WriteFails, SinkSpend
<1>2. wire[r].phase # "free"
  BY <1>1 DEF ClientInv, OneServed
<1>3. /\ Acked' => Acked
      /\ \A s \in Requests : Live(s)' => Live(s) /\ wire'[s] = wire[s]
  BY <1>1, <1>2, AnswerEffectOnDrain
<1>4. SeenIsStored' /\ ArchivedIsStored' /\ AckedIsStored'
  BY <1>1, <1>3, TornIsHarmless DEF SeenIsStored, AckedIsStored, StoredAt, cameraVars, disk
<1>5. NoLateWrite' /\ StoredIsLogged'
  BY <1>1, <1>3 DEF NoLateWrite, StoredIsLogged, cameraVars, disk
<1>6. MaxSinkFaults # 0
  BY <1>1 DEF ClientInv, SinkTypes
<1>7. RecoverInv'
  BY <1>6 DEF RecoverInv, cameraVars, disk
<1> QED
  BY <1>4, <1>5, <1>7

LEMMA RestartKeepsStore ==
  ASSUME PipelineInv, UNCHANGED cameraVars, RestartSink
  PROVE  StoreInv'
<1> USE DEF PipelineInv, StoreInv
<1>1. /\ MaybeTorn /\ CutOff(Requests) /\ lastSeen' = lastSeenFile
      /\ UNCHANGED <<frameJson, lastSeenFile, acknowledged>>
  BY DEF RestartSink
<1>2. lastSeen \in Int /\ lastSeenFile \in Int /\ lastSeenFile <= lastSeen
  BY DEF ClientInv, SinkTypes, ForgetsOnlyUnanswered
<1>3. \A s \in Requests : ~Live(s)'
  BY <1>1, CutOffEffect DEF ClientInv, SinkTypes, Live
<1>4. Acked' => Acked
  <2>1. CASE drain.at = "wait"
    <3> DEFINE r == drain.request
    <3>1. r \in Requests
      BY <2>1, AwaitedFrame
    <3>2. CASE wire[r].phase \in {"sent", "serving"}
      <4>1. wire'[r] = Answered(wire[r], NoAnswer)
        BY <1>1, <3>1, <3>2 DEF CutOff
      <4>2. wire[r] \in PostedSlots
        BY <3>1 DEF CameraInv, CameraTypes
      <4>3. wire'[r].status \notin {200, 409}
        BY <4>1, <4>2 DEF Answered, PostedSlots, FreeSlot, NoAnswer
      <4> QED
        BY <2>1, <4>3 DEF Acked, Acknowledged, cameraVars
    <3>3. CASE wire[r].phase \notin {"sent", "serving"}
      <4>1. wire'[r] = wire[r]
        BY <1>1, <3>1, <3>3 DEF CutOff
      <4> QED
        BY <2>1, <4>1 DEF Acked, cameraVars
    <3> QED
      BY <3>2, <3>3
  <2>2. CASE drain.at # "wait"
    BY <2>2 DEF Acked, cameraVars
  <2> QED
    BY <2>1, <2>2
<1>5. /\ \A c \in committed : c[1] <= lastSeen => StoredAt(c[1], c[2])'
      /\ ArchivedIsStored'
      /\ Acked => StoredAt(drain.current, queueJson[drain.current])'
  BY <1>1, TornIsHarmless
<1>6. SeenIsStored'
  <2> SUFFICES ASSUME NEW c \in committed, c[1] <= lastSeenFile PROVE c[1] <= lastSeen
    BY <1>1, <1>5 DEF SeenIsStored, cameraVars
  <2>1. c[1] \in Int
    BY CommittedPair, CounterOfCamera DEF CameraInv, CameraTypes
  <2> QED
    BY <1>2, <2>1
<1>7. AckedIsStored'
  BY <1>4, <1>5 DEF AckedIsStored, StoredAt, cameraVars, disk
<1>8. NoLateWrite' /\ StoredIsLogged'
  BY <1>1, <1>3 DEF NoLateWrite, StoredIsLogged, cameraVars, disk
<1>9. RecoverInv'
  BY <1>1, <1>4 DEF RecoverInv, cameraVars, disk
<1> QED
  BY <1>5, <1>6, <1>7, <1>8, <1>9

LEMMA SinkStepKeepsStore ==
  ASSUME PipelineInv, SinkStep, UNCHANGED cameraVars
  PROVE  StoreInv'
<1>1. ASSUME NEW r \in Requests PROVE ~Refuse(r)
  BY PostsAreGenuine DEF PipelineInv, NeverPoisoned, Refuse
<1>2. ASSUME NEW r \in Requests, HandlerStep(r) \/ WriteFails(r) PROVE StoreInv'
  BY <1>1, <1>2, CheckCounterKeepsStore, WriteJpgKeepsStore, WriteJsonKeepsStore, PersistKeepsStore,
     WriteFailsKeepsStore DEF HandlerStep
<1> QED
  BY <1>2, RestartKeepsStore DEF SinkStep

-----------------------------------------------------------------------------
(* The invariant, and the theorems                                         *)

LEMMA PipelineStarts ==
  ASSUME Init
  PROVE  PipelineInv
<1>1. CameraInv
  BY CameraStarts DEF Init
<1>2. ClientInv
  BY ClientsInit DEF Init, ClientInit
<1>3. ~Acked /\ \A r \in Requests : ~Live(r)
  BY DEF Init, CameraInit, WireInit, IdleDrain, FreeSlot, Acked, Live
<1>4. RecoverInv /\ SeenIsStored /\ StoredIsLogged
  BY DEF Init, CameraInit, SinkInit, RecoverInv, SeenIsStored, StoredIsLogged, Acked, IdleDrain, Corrupt
<1>5. ArchivedIsStored /\ AckedIsStored /\ NoLateWrite
  BY <1>3 DEF Init, CameraInit, ArchivedIsStored, AckedIsStored, NoLateWrite
<1> QED
  BY <1>1, <1>2, <1>4, <1>5 DEF PipelineInv, StoreInv

\* To the sink, every step of the pipeline is one of its own or of a client's.
LEMMA StepOfClients ==
  ASSUME PipelineInv, [Next]_vars
  PROVE  [ClientNext]_clientVars
<1>1. CASE CameraStep(lastSeen) /\ UNCHANGED sinkVars
  BY <1>1, CameraIsClient DEF PipelineInv, ClientNext, clientVars
<1>2. CASE SinkStep
  BY <1>2 DEF ClientNext
<1>3. CASE UNCHANGED vars
  BY <1>3 DEF vars, clientVars
<1> QED
  BY <1>1, <1>2, <1>3 DEF Next

LEMMA PipelineStep ==
  ASSUME Recoverable, PipelineInv, [Next]_vars
  PROVE  PipelineInv'
<1>1. ClientInv'
  BY StepOfClients, ClientsStep DEF PipelineInv
<1>2. CASE CameraStep(lastSeen) /\ UNCHANGED sinkVars
  <2>1. Reseedable(lastSeen) /\ lastSeen \in Nat
    BY SinkKnowsArchived DEF PipelineInv, ClientInv, SinkTypes
  <2> QED
    BY <1>1, <1>2, <2>1, CameraStepKeepsInv, CameraStepKeepsStore DEF PipelineInv
<1>3. CASE SinkStep /\ UNCHANGED cameraVars
  BY <1>1, <1>3, SinkIsBackend, SinkStepKeepsStore DEF PipelineInv
<1>4. CASE UNCHANGED vars
  <2>1. UNCHANGED wire /\ UNCHANGED cameraVars /\ UNCHANGED sinkVars
    BY <1>4 DEF vars
  <2>2. CameraInv'
    BY <2>1, BackendKeepsCamera DEF Served, PipelineInv, CameraInv, CameraTypes
  <2>3. StoreInv'
    BY <2>1 DEF PipelineInv, StoreInv, SeenIsStored, ArchivedIsStored, AckedIsStored, NoLateWrite, StoredIsLogged,
                RecoverInv, StoredAt, Acked, Live, cameraVars, disk, sinkVars
  <2> QED
    BY <1>1, <2>2, <2>3 DEF PipelineInv
<1> QED
  BY <1>2, <1>3, <1>4 DEF Next

LEMMA PipelineInvariance ==
  ASSUME Recoverable
  PROVE  Spec => []PipelineInv
<1>1. PipelineInv /\ [Next]_vars => PipelineInv'
  BY PipelineStep
<1> QED
  BY <1>1, PipelineStarts, PTL DEF Spec

\* cli.py, push.py: whatever it goes through, the camera is one of the clients the sink is
\* proved to serve well, and the sink keeps its promises to it.
THEOREM CameraAsClient ==
  ASSUME Recoverable
  PROVE  Spec => ClientSpec
<1>1. Init => ClientInit
  BY DEF Init, ClientInit
<1>2. PipelineInv /\ [Next]_vars => [ClientNext]_clientVars
  BY StepOfClients
<1> QED
  BY <1>1, <1>2, PipelineInvariance, PTL DEF Spec, ClientSpec

\* queue.py: a json in the queue or the archive has its own jpg beside it, or the jpg is one
\* step ahead in the archive, whichever process died where.
THEOREM WholeFrames ==
  ASSUME Recoverable
  PROVE  Spec => []NoHalfFrame
<1>1. PipelineInv => NoHalfFrame
  BY DEF PipelineInv, CameraInv, DiskInv
<1> QED
  BY <1>1, PipelineInvariance, PTL

\* queue.py, enqueue to archive: a frame whose enqueue committed stays on the device through
\* every scan, drain, failed write and kill.
THEOREM Preserved ==
  ASSUME Recoverable
  PROVE  Spec => []NothingLost
<1>1. PipelineInv => NothingLost
  BY DEF PipelineInv, CameraInv, DiskInv
<1> QED
  BY <1>1, PipelineInvariance, PTL

\* queue.py, next_counter, and cli.py, seed-counter: no two committed frames share a counter,
\* even when the counter file is lost and seeded again.
THEOREM CountersUnique ==
  ASSUME Recoverable
  PROVE  Spec => []CounterNeverReused
<1>1. PipelineInv => CounterNeverReused
  BY DEF PipelineInv, CameraInv, DiskInv
<1> QED
  BY <1>1, PipelineInvariance, PTL

\* push.py: no request of the camera is one the sink refuses for its form, so none blocks the queue.
THEOREM HeadNeverBlocked ==
  ASSUME Recoverable
  PROVE  Spec => []NeverPoisoned
<1>1. PipelineInv => NeverPoisoned
  BY PostsAreGenuine DEF PipelineInv
<1> QED
  BY <1>1, PipelineInvariance, PTL

\* push.py, drain: the device archives a frame only when the sink holds that very frame.
THEOREM SafelyArchived ==
  ASSUME Recoverable
  PROVE  Spec => []ArchivedIsStored
<1>1. PipelineInv => ArchivedIsStored
  BY DEF PipelineInv, StoreInv
<1> QED
  BY <1>1, PipelineInvariance, PTL

\* push.py, oldest first: the sink never holds a frame while an older committed one is missing.
THEOREM OldestFirst ==
  ASSUME Recoverable
  PROVE  Spec => []NoGaps
<1>1. ASSUME PipelineInv PROVE NoGaps
  <2> SUFFICES ASSUME NEW c \in committed, frameJson[c[1]] # None, NEW d \in committed, d[1] < c[1]
               PROVE  frameJson[d[1]] = d[2]
    BY DEF NoGaps
  <2>1. c[1] \in SinkCounters /\ d[1] \in Counters
    BY <1>1, CommittedPair, PipelineAssumption DEF PipelineInv, CameraInv, CameraTypes
  <2>2. archiveJpg[d[1]] # None /\ archiveJpg[d[1]] = d[2]
    BY <1>1, <2>1, ArchivedFrame DEF PipelineInv, StoreInv, StoredIsLogged
  <2> QED
    BY <1>1, <2>1, <2>2 DEF PipelineInv, StoreInv, ArchivedIsStored
<1> QED
  BY <1>1, PipelineInvariance, PTL

\* cli.py: a command that exits 0 leaves in status.json the number of frames a scan would find.
THEOREM DepthIsTrue ==
  ASSUME Recoverable
  PROVE  Spec => DepthReported
<1>1. PipelineInv /\ [Next]_vars
        => [DrainReports \/ (\E p \in Captures : CaptureDone(p))
              => status'.depth = Cardinality(Pending)']_vars
  BY DepthIsReported DEF PipelineInv
<1> QED
  BY <1>1, PipelineInvariance, PTL DEF Spec, DepthReported

-----------------------------------------------------------------------------
(* The pipeline implements Delivery                                        *)

Stored == {n \in SinkCounters : frameJson[n] # None}
Archived == {n \in Counters : archiveJpg[n] # None}

\* What is archived is stored, what is stored is committed, and all are finitely many.
LEMMA LogIsBounded ==
  ASSUME PipelineInv
  PROVE  /\ IsFiniteSet(committed) /\ IsFiniteSet(Stored) /\ IsFiniteSet(Archived)
         /\ Cardinality(committed) \in Nat /\ Cardinality(Stored) \in Nat
         /\ Cardinality(Archived) \in Nat
         /\ Cardinality(Archived) <= Cardinality(Stored)
         /\ Cardinality(Stored) <= Cardinality(committed)
<1> USE DEF PipelineInv, StoreInv
<1>1. IsFiniteSet(committed) /\ Cardinality(committed) \in Nat
  <2>1. IsFiniteSet(Counters) /\ IsFiniteSet(Frames)
    BY CameraAssumption, WireAssumption, FS_Interval DEF Counters, Frames
  <2>2. IsFiniteSet(Counters \X Frames)
    BY <2>1, FS_Product
  <2>3. committed \in SUBSET (Counters \X Frames)
    BY DEF CameraInv, CameraTypes, DiskTypes
  <2> QED
    BY <2>2, <2>3, FS_Subset, FS_CardinalityType
<1>2. Stored \in SUBSET Counters /\ Archived \in SUBSET Counters
  BY DEF Stored, Archived, StoredIsLogged
<1>3. /\ IsFiniteSet(Stored) /\ Cardinality(Stored) \in Nat
      /\ IsFiniteSet(Archived) /\ Cardinality(Archived) \in Nat
  BY <1>2, CountersFinite
<1>4. Archived \subseteq Stored
  BY PipelineAssumption DEF Archived, Stored, ArchivedIsStored
<1>5. Cardinality(Archived) <= Cardinality(Stored)
  BY <1>3, <1>4, FS_Subset
<1>6. Cardinality(Stored) <= Cardinality(committed)
  <2> DEFINE frame == [n \in Stored |-> <<n, frameJson[n]>>]
  <2>1. frame \in [Stored -> committed]
    BY DEF Stored, StoredIsLogged
  <2>2. \A m, n \in Stored : frame[m] = frame[n] => m = n
    OBVIOUS
  <2>3. frame \in Injection(Stored, committed)
    BY <2>1, <2>2 DEF Injection, IsInjective
  <2> QED
    BY <1>1, <2>3, FS_Injection
<1> QED
  BY <1>1, <1>3, <1>5, <1>6

\* One more element counts one more.
LEMMA OneMore ==
  ASSUME NEW S, IsFiniteSet(S), NEW x, x \notin S
  PROVE  Cardinality(S \union {x}) = Cardinality(S) + 1
BY FS_AddElement

LEMMA StepOfDelivery ==
  ASSUME PipelineInv, PipelineInv', [Next]_vars
  PROVE  [DeliveredLog!DeliveryNext]_(DeliveredLog!DeliveryVars)
<1> DEFINE logged == Cardinality(committed)
           stored == Cardinality(Stored)
           archived == Cardinality(Archived)
<1>1. /\ logged \in Nat /\ stored \in Nat /\ archived \in Nat
      /\ IsFiniteSet(committed) /\ IsFiniteSet(Stored) /\ IsFiniteSet(Archived)
  BY LogIsBounded
<1>2. archived' <= stored' /\ stored' <= logged'
  <2>1. PipelineInv' => (Cardinality(Archived) <= Cardinality(Stored) /\ Cardinality(Stored) <= Cardinality(committed))'
    BY LogIsBounded, PTL
  <2> QED
    BY <2>1
<1>3. SUFFICES \/ UNCHANGED <<logged, stored, archived>>
               \/ logged' = logged + 1 /\ UNCHANGED <<stored, archived>>
               \/ stored' = stored + 1 /\ UNCHANGED <<logged, archived>>
               \/ archived' = archived + 1 /\ UNCHANGED <<logged, stored>>
  BY <1>1, <1>2 DEF DeliveredLog!DeliveryNext, DeliveredLog!DeliveryVars, DeliveredLog!Enqueue,
                    DeliveredLog!Store, DeliveredLog!Archive, Stored, Archived
<1>4. CASE UNCHANGED <<committed, frameJson, archiveJpg>>
  BY <1>4 DEF Stored, Archived
<1>5. CASE CameraStep(lastSeen) /\ UNCHANGED sinkVars
  <2>1. UNCHANGED frameJson /\ CameraInv
    BY <1>5 DEF sinkVars, PipelineInv
  <2>2. Stored' = Stored
    BY <2>1 DEF Stored
  <2>3. CASE QuietStep
    BY <2>1, <2>3, <1>4 DEF QuietStep
  <2>4. CASE ArchiveJpg
    <3> DEFINE n == drain.current
    <3>1. /\ n \in Counters /\ archiveJpg[n] = None /\ queueJson[n] # None
          /\ archiveJpg' = [archiveJpg EXCEPT ![n] = queueJson[n]] /\ committed' = committed
      BY <2>1, <2>4, ArchiveEffect
    <3>2. archiveJpg \in [Counters -> Images]
      BY DEF PipelineInv, CameraInv, CameraTypes, DiskTypes
    <3>3. Archived' = Archived \union {n} /\ n \notin Archived
      BY <3>1, <3>2 DEF Archived
    <3> QED
      BY <1>1, <2>2, <3>1, <3>3, OneMore
  <2>5. CASE \E p \in Captures : EnqueueJson(p) /\ UNCHANGED wire
    <3>1. PICK p \in Captures : EnqueueJson(p)
      BY <2>5
    <3>2. UNCHANGED archiveJpg
      BY <2>1, <3>1, EnqueueEffect
    <3>3. PICK n \in Counters, f \in Frames : committed' = committed \union {<<n, f>>} /\ <<n, f>> \notin committed
      BY <2>1, <3>1, EnqueueEffect
    <3>4. logged' = logged + 1
      BY <1>1, <3>3, OneMore
    <3>5. Archived' = Archived
      BY <3>2 DEF Archived
    <3> QED
      BY <2>2, <3>4, <3>5
  <2> QED
    BY <1>5, <2>1, <2>3, <2>4, <2>5, CameraEffect
<1>6. CASE SinkStep /\ UNCHANGED cameraVars
  <2>1. UNCHANGED <<committed, archiveJpg>>
    BY <1>6 DEF cameraVars, disk
  <2>2. CASE UNCHANGED frameJson
    BY <2>1, <2>2, <1>4
  <2>3. ASSUME NEW r \in Requests, WriteJson(r)
        PROVE  stored' = stored \/ stored' = stored + 1
    <3> DEFINE n == wire[r].counter
    <3>1. holder = r /\ at = "json" /\ frameJson' = [frameJson EXCEPT ![n] = wire[r].sha]
      BY <2>3 DEF WriteJson
    <3>2. frameJson \in [SinkCounters -> Int]
      BY DEF PipelineInv, ClientInv, SinkTypes
    <3>3. n \in SinkCounters /\ wire[r].sha \in Frames
      <4>1. r # NoRequest /\ wire[r].phase = "serving" /\ Genuine(wire[r])
        BY <3>1, SinkAssumption DEF PipelineInv, ClientInv, OneServed
      <4> QED
        BY <4>1, GenuineRequest DEF PipelineInv, ClientInv, SinkTypes
    <3>4. wire[r].sha # None
      BY <3>3, WireAssumption DEF Frames, None
    <3>5. Stored' = Stored \union {n}
      BY <3>1, <3>2, <3>3, <3>4 DEF Stored
    <3> QED
      BY <1>1, <3>5, OneMore
  <2> QED
    BY <1>6, <2>1, <2>2, <2>3 DEF SinkStep, HandlerStep, Refuse, CheckCounter, WriteJpg,
        PersistLastSeen, WriteFails, RestartSink, sinkVars, Archived
<1>7. CASE UNCHANGED vars
  BY <1>4, <1>7 DEF vars, cameraVars, sinkVars, disk
<1> QED
  BY <1>5, <1>6, <1>7 DEF Next

\* push.py and sink.py together: whatever fails, frames enter the log, are stored and leave the
\* device one at a time, never stored before they are logged nor archived before they are stored.
THEOREM Delivers ==
  ASSUME Recoverable
  PROVE  Spec => InOrderDelivery
<1>1. Init => DeliveredLog!DeliveryInit
  <2> SUFFICES ASSUME Init PROVE DeliveredLog!DeliveryInit
    OBVIOUS
  <2>1. /\ committed = {}
        /\ {n \in SinkCounters : frameJson[n] # None} = {}
        /\ {n \in Counters : archiveJpg[n] # None} = {}
    BY DEF Init, CameraInit, SinkInit
  <2> QED
    BY <2>1, FS_EmptySet DEF DeliveredLog!DeliveryInit
<1>2. PipelineInv /\ PipelineInv' /\ [Next]_vars => [DeliveredLog!DeliveryNext]_(DeliveredLog!DeliveryVars)
  BY StepOfDelivery
<1> QED
  BY <1>1, <1>2, PipelineInvariance, PTL DEF Spec, InOrderDelivery, DeliveredLog!DeliverySpec
=============================================================================
