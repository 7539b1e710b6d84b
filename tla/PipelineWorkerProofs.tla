------------------------ MODULE PipelineWorkerProofs ------------------------
(***************************************************************************)
(* Proofs about PipelineWorker: the camera and the deployed Worker, for    *)
(* any number of overlapping and dying handlers, kills, failed writes and  *)
(* timeouts, and however stale the reads of KV.  The camera is never told  *)
(* to start its counter anew: MaxCorruptions = 0 in every theorem.         *)
(***************************************************************************)
EXTENDS PipelineWorker, CameraProofs

WorkerTypes ==
  /\ r2 \in [WorkerCounters -> Images]
  /\ latest \in [counter : Nat, sha : Images] /\ lastSeen \in Nat
  /\ visible \in [latest : SUBSET [counter : Nat, sha : Images], lastSeen : SUBSET Nat]
  /\ at \in [Requests -> {"idle", "frame", "latest", "lastSeen"}]
  /\ deaths \in Nat

\* A handler at work has an unanswered request, and past its first write that
\* request's frame is in R2.
HandlerInv ==
  \A r \in Requests :
    /\ at[r] # "idle" <=> wire[r].phase = "serving"
    /\ at[r] \in {"latest", "lastSeen"} => r2[wire[r].counter] = wire[r].image

\* R2 holds committed frames only, and when it holds one the device has
\* archived every older one.
R2IsLogged ==
  \A n \in WorkerCounters : r2[n] # None =>
    /\ n \in Counters /\ <<n, r2[n]>> \in committed
    /\ \A c \in committed : c[1] < n => archiveJpg[c[1]] # None

\* What the drain has an acknowledgement for is in R2.
AckedIsInR2 == Acked => r2[drain.current] = queueJson[drain.current]

\* Whichever copy of last_seen is read, every frame it says was seen is in R2.
SeenIsInR2 ==
  \A seen \in visible.lastSeen \union {lastSeen} :
    /\ seen # 0 => seen \in WorkerCounters /\ r2[seen] # None
    /\ \A c \in committed : c[1] <= seen => r2[c[1]] = c[2]

\* Whichever copy of latest is read, the frame it names is in R2.
LatestIsInR2 ==
  \A reading \in visible.latest \union {latest} :
    reading # NoReading =>
      /\ reading.counter \in WorkerCounters
      /\ r2[reading.counter] = reading.sha /\ reading.sha # None

WorkerInv ==
  /\ WorkerTypes /\ HandlerInv /\ R2IsLogged /\ ArchivedIsInR2 /\ AckedIsInR2
  /\ SeenIsInR2 /\ LatestIsInR2 /\ counter # Corrupt

DeployedInv == CameraInv /\ WorkerInv

-----------------------------------------------------------------------------
(* Requests and the frames they carry                                      *)

\* A request carries a committed frame, which is its counter's only one.
LEMMA RequestFrame ==
  ASSUME CameraInv, NEW r \in Requests, wire[r].phase # "free"
  PROVE  /\ wire[r].counter \in Counters /\ wire[r].counter \in WorkerCounters
         /\ wire[r].image \in Frames /\ wire[r].image # None /\ wire[r].sha = wire[r].image
         /\ <<wire[r].counter, wire[r].image>> \in committed
         /\ \A f : <<wire[r].counter, f>> \in committed => f = wire[r].image
<1>1. <<wire[r].counter, wire[r].image>> \in committed /\ wire[r].sha = wire[r].image
  BY DEF CameraInv, RequestInv
<1>2. wire[r].counter \in Counters /\ wire[r].image \in Frames
  BY <1>1 DEF CameraInv, CameraTypes, DiskTypes
<1>3. wire[r].image # None
  BY <1>2, WireAssumption DEF Frames, None
<1>4. \A f : <<wire[r].counter, f>> \in committed => f = wire[r].image
  <2>1. <<wire[r].counter, wire[r].image>>[1] = wire[r].counter
        /\ <<wire[r].counter, wire[r].image>>[2] = wire[r].image
    OBVIOUS
  <2> QED
    BY <1>1, <2>1, OneFrameToACounter
<1> QED
  BY <1>1, <1>2, <1>3, <1>4, PipelineAssumption

\* A frame is its number, never None.
LEMMA FrameIsSome ==
  ASSUME CameraInv, NEW n, NEW f, <<n, f>> \in committed
  PROVE  n \in Counters /\ n \in WorkerCounters /\ n \in Int /\ n > 0 /\ f \in Frames /\ f # None
<1>1. n \in Counters /\ f \in Frames
  BY DEF CameraInv, CameraTypes, DiskTypes
<1> QED
  BY <1>1, CounterOfCamera, PipelineAssumption, WireAssumption DEF Frames, None

\* The frame of the drain's request is the one the drain queued.
LEMMA AwaitedImage ==
  ASSUME CameraInv, drain.at = "wait"
  PROVE  LET r == drain.request
         IN  /\ r \in Requests /\ wire[r].phase # "free" /\ wire[r].awaited
             /\ wire[r].counter = drain.current /\ wire[r].image = queueJson[drain.current]
<1> DEFINE r == drain.request
<1>1. r \in Requests /\ wire[r].phase # "free" /\ wire[r].awaited
  BY DEF CameraInv, RequestInv
<1>2. wire[r].counter = drain.current /\ <<drain.current, queueJson[drain.current]>> \in committed
  BY AwaitedFrame
<1> QED
  BY <1>1, <1>2, RequestFrame

-----------------------------------------------------------------------------
(* The steps of the camera                                                 *)

\* The handlers see nothing of a step of the camera.
LEMMA CameraKeepsHandlers ==
  ASSUME DeployedInv, NEW seen, CameraStep(seen), UNCHANGED workerVars
  PROVE  HandlerInv'
<1>1. at' = at /\ r2' = r2
  BY DEF workerVars
<1>2. ASSUME NEW r \in Requests
      PROVE  /\ at[r] # "idle" <=> wire'[r].phase = "serving"
             /\ at[r] \in {"latest", "lastSeen"} => r2[wire'[r].counter] = wire'[r].image
  BY ServingKept DEF DeployedInv, WorkerInv, HandlerInv
<1> QED
  BY <1>1, <1>2 DEF HandlerInv

LEMMA QuietStepKeepsWorker ==
  ASSUME DeployedInv, QuietStep, UNCHANGED workerVars
  PROVE  R2IsLogged' /\ ArchivedIsInR2' /\ AckedIsInR2' /\ SeenIsInR2' /\ LatestIsInR2'
<1> USE DEF DeployedInv, WorkerInv, workerVars, QuietStep
<1>1. R2IsLogged' /\ ArchivedIsInR2' /\ AckedIsInR2'
  BY DEF R2IsLogged, ArchivedIsInR2, AckedIsInR2
<1>2. SeenIsInR2' /\ LatestIsInR2'
  BY DEF SeenIsInR2, LatestIsInR2
<1> QED
  BY <1>1, <1>2

LEMMA EnqueueKeepsWorker ==
  ASSUME DeployedInv, NEW p \in Captures, EnqueueJson(p), UNCHANGED <<wire, workerVars>>
  PROVE  R2IsLogged' /\ ArchivedIsInR2' /\ AckedIsInR2' /\ SeenIsInR2' /\ LatestIsInR2'
<1> USE DEF DeployedInv, WorkerInv, workerVars
<1>1. UNCHANGED <<archiveJpg, drain>> /\ drain.at \in {"idle", "except"}
  BY EnqueueEffect
<1>2. PICK n \in Counters, f \in Frames :
        /\ committed' = committed \union {<<n, f>>}
        /\ \A c \in committed : c[1] < n /\ c[1] # n
  BY EnqueueEffect
<1>3. ~Acked'
  BY <1>1 DEF Acked
<1>4. <<n, f>>[1] = n /\ n \in Int /\ n > 0
  BY CounterOfCamera
<1>5. \A m \in WorkerCounters : r2[m] # None => m < n /\ m \in Int
  <2> SUFFICES ASSUME NEW m \in WorkerCounters, r2[m] # None PROVE m < n /\ m \in Int
    OBVIOUS
  <2>1. <<m, r2[m]>> \in committed /\ <<m, r2[m]>>[1] = m
    BY DEF R2IsLogged
  <2> QED
    BY <1>2, <2>1, FrameIsSome
<1>6. R2IsLogged'
  <2>1. ASSUME NEW m \in WorkerCounters, r2[m] # None, NEW c \in committed', c[1] < m
        PROVE  archiveJpg[c[1]] # None
    <3>1. c \in committed
      BY <1>2, <1>4, <1>5, <2>1
    <3> QED
      BY <2>1, <3>1 DEF R2IsLogged
  <2>2. \A m \in WorkerCounters : r2[m] # None => m \in Counters /\ <<m, r2[m]>> \in committed'
    BY <1>2 DEF R2IsLogged
  <2> QED
    BY <1>1, <2>1, <2>2 DEF R2IsLogged
<1>7. SeenIsInR2'
  <2>1. ASSUME NEW seen \in visible.lastSeen \union {lastSeen}, NEW c \in committed', c[1] <= seen
        PROVE  r2[c[1]] = c[2]
    <3>1. seen = 0 \/ (seen < n /\ seen \in Int)
      BY <1>5 DEF SeenIsInR2
    <3>2. c \in committed
      BY <1>2, <1>4, <2>1, <3>1
    <3> QED
      BY <2>1, <3>2 DEF SeenIsInR2
  <2> QED
    BY <2>1 DEF SeenIsInR2
<1>8. ArchivedIsInR2' /\ AckedIsInR2' /\ LatestIsInR2'
  BY <1>1, <1>3 DEF ArchivedIsInR2, AckedIsInR2, LatestIsInR2
<1> QED
  BY <1>6, <1>7, <1>8

LEMMA ArchiveKeepsWorker ==
  ASSUME DeployedInv, ArchiveJpg, UNCHANGED workerVars
  PROVE  R2IsLogged' /\ ArchivedIsInR2' /\ AckedIsInR2' /\ SeenIsInR2' /\ LatestIsInR2'
<1> USE DEF DeployedInv, WorkerInv, workerVars
<1> DEFINE n == drain.current
<1>1. /\ n \in Counters /\ Acked /\ ~Acked' /\ queueJson[n] # None
      /\ archiveJpg' = [archiveJpg EXCEPT ![n] = queueJson[n]]
      /\ UNCHANGED <<wire, committed>>
  BY ArchiveEffect
<1>2. r2[n] = queueJson[n]
  BY <1>1 DEF AckedIsInR2
<1> HIDE DEF n
<1>3. archiveJpg'[n] = queueJson[n] /\ \A m \in Counters \ {n} : archiveJpg'[m] = archiveJpg[m]
  BY <1>1 DEF CameraInv, CameraTypes, DiskTypes
<1>4. ArchivedIsInR2'
  BY <1>2, <1>3 DEF ArchivedIsInR2
<1>5. AckedIsInR2' /\ SeenIsInR2' /\ LatestIsInR2'
  BY <1>1 DEF AckedIsInR2, SeenIsInR2, LatestIsInR2
<1>6. R2IsLogged'
  <2>1. \A c \in committed : archiveJpg[c[1]] # None => archiveJpg'[c[1]] # None
    BY <1>1, <1>3, CommittedPair DEF CameraInv, CameraTypes
  <2> QED
    BY <1>1, <2>1 DEF R2IsLogged
<1> QED
  BY <1>4, <1>5, <1>6

LEMMA CameraStepKeepsWorker ==
  ASSUME MaxCorruptions = 0, DeployedInv, NEW seen, CameraStep(seen), UNCHANGED workerVars
  PROVE  WorkerInv'
<1>1. HandlerInv' /\ counter' # Corrupt
  BY CameraKeepsHandlers, CounterKept DEF DeployedInv, WorkerInv
<1>2. WorkerTypes'
  BY DEF DeployedInv, WorkerInv, WorkerTypes, workerVars
<1>3. R2IsLogged' /\ ArchivedIsInR2' /\ AckedIsInR2' /\ SeenIsInR2' /\ LatestIsInR2'
  BY CameraEffect, QuietStepKeepsWorker, EnqueueKeepsWorker, ArchiveKeepsWorker DEF DeployedInv
<1> QED
  BY <1>1, <1>2, <1>3 DEF WorkerInv

-----------------------------------------------------------------------------
(* The steps of the Worker                                                 *)

\* R2 gains the frame a request carries, and keeps what it has.
LEMMA PutFrameEffect ==
  ASSUME DeployedInv, NEW r \in Requests, PutFrame(r)
  PROVE  /\ r2' \in [WorkerCounters -> Images] /\ r2'[wire[r].counter] = wire[r].image
         /\ \A n \in WorkerCounters : n # wire[r].counter => r2'[n] = r2[n]
         /\ \A n \in WorkerCounters : r2[n] # None => r2'[n] = r2[n]
<1> USE DEF DeployedInv, WorkerInv, WorkerTypes
<1> DEFINE n == wire[r].counter
<1>1. at[r] = "frame" /\ r2' = [r2 EXCEPT ![n] = wire[r].image]
  BY DEF PutFrame
<1>2. wire[r].phase # "free"
  BY <1>1 DEF HandlerInv
<1>3. n \in WorkerCounters /\ wire[r].image \in Images
  BY <1>2, RequestFrame DEF Images
<1>4. r2[n] # None => r2[n] = wire[r].image
  BY <1>2, <1>3, RequestFrame DEF R2IsLogged
<1> HIDE DEF n
<1> QED
  BY <1>1, <1>3, <1>4 DEF n

\* A new answer that acknowledges is for a frame R2 holds, so what the drain
\* may archive stays in R2.
LEMMA AnswerKeepsAcked ==
  ASSUME DeployedInv, UNCHANGED <<cameraVars, r2>>, NEW r \in Requests,
         \A s \in Requests \ {r} : wire'[s] = wire[s],
         wire'[r].phase = "answered" /\ Acknowledged(wire'[r].status)
           => r2[wire[r].counter] = wire[r].image
  PROVE  AckedIsInR2'
<1> USE DEF DeployedInv, WorkerInv
<1>1. drain' = drain /\ queueJson' = queueJson
  BY DEF cameraVars, disk
<1>2. CASE drain.at = "wait" /\ drain.request = r
  <2>1. wire[r].counter = drain.current /\ wire[r].image = queueJson[drain.current]
    BY <1>2, AwaitedImage
  <2> QED
    BY <1>1, <1>2, <2>1 DEF AckedIsInR2, Acked
<1>3. CASE ~(drain.at = "wait" /\ drain.request = r)
  <2>1. Acked' => Acked
    BY <1>1, <1>3, AwaitedImage DEF Acked
  <2> QED
    BY <1>1, <2>1 DEF AckedIsInR2
<1> QED
  BY <1>2, <1>3

\* Handlers but the one that answers go on as they were.
LEMMA OthersKeepHandlers ==
  ASSUME DeployedInv, NEW r \in Requests, r2' = r2,
         \A s \in Requests \ {r} : wire'[s] = wire[s] /\ at'[s] = at[s],
         wire'[r].phase \in {"free", "answered"}, at'[r] = "idle"
  PROVE  HandlerInv'
<1>1. \A s \in Requests \ {r} :
        /\ at'[s] # "idle" <=> wire'[s].phase = "serving"
        /\ at'[s] \in {"latest", "lastSeen"} => r2'[wire'[s].counter] = wire'[s].image
  BY DEF DeployedInv, WorkerInv, HandlerInv
<1> QED
  BY <1>1 DEF HandlerInv

\* Nothing in the stores has changed.
LEMMA StoresKept ==
  ASSUME DeployedInv, UNCHANGED <<cameraVars, r2, latest, lastSeen, visible>>
  PROVE  R2IsLogged' /\ ArchivedIsInR2' /\ SeenIsInR2' /\ LatestIsInR2' /\ counter' # Corrupt
<1> USE DEF DeployedInv, WorkerInv, cameraVars, disk
<1>1. R2IsLogged' /\ ArchivedIsInR2' /\ counter' # Corrupt
  BY DEF R2IsLogged, ArchivedIsInR2
<1>2. SeenIsInR2' /\ LatestIsInR2'
  BY DEF SeenIsInR2, LatestIsInR2
<1> QED
  BY <1>1, <1>2

\* push.py never posts what the Worker refuses for its form.
LEMMA NothingRefused ==
  ASSUME DeployedInv, NEW r \in Requests
  PROVE  ~Refuse(r)
BY PostsAreGenuine DEF DeployedInv, Refuse, NeverPoisoned

LEMMA CheckCounterKeepsInv ==
  ASSUME DeployedInv, NEW r \in Requests, CheckCounter(r), UNCHANGED cameraVars
  PROVE  DeployedInv'
<1> USE DEF DeployedInv
<1>1. /\ wire[r].phase = "sent" /\ at[r] = "idle" /\ wire \in [Requests -> PostedSlots]
      /\ UNCHANGED <<r2, latest, lastSeen, visible, deaths>>
  BY DEF CheckCounter, CameraInv, CameraTypes, WorkerInv, WorkerTypes, HandlerInv
<1>2. PICK seen \in visible.lastSeen :
        IF wire[r].counter <= seen
          THEN Answer(r, 409) /\ UNCHANGED at
          ELSE Serve(r) /\ at' = [at EXCEPT ![r] = "frame"]
  BY DEF CheckCounter
<1>3. R2IsLogged' /\ ArchivedIsInR2' /\ SeenIsInR2' /\ LatestIsInR2' /\ counter' # Corrupt
  BY <1>1, StoresKept
<1>4. CASE Answer(r, 409) /\ UNCHANGED at /\ wire[r].counter <= seen
  <2>1. /\ wire' \in [Requests -> PostedSlots] /\ Served(r)
        /\ wire'[r].phase \in {"free", "answered"}
        /\ \A s \in Requests \ {r} : wire'[s] = wire[s]
    BY <1>1, <1>4, AnswerServes
  <2>2. CameraInv'
    BY <2>1, BackendKeepsCamera DEF Served
  <2>3. HandlerInv'
    BY <1>1, <1>4, <2>1, OthersKeepHandlers
  <2>4. r2[wire[r].counter] = wire[r].image
    <3>1. <<wire[r].counter, wire[r].image>> \in committed
      BY <1>1, RequestFrame
    <3>2. <<wire[r].counter, wire[r].image>>[1] = wire[r].counter
          /\ <<wire[r].counter, wire[r].image>>[2] = wire[r].image
      OBVIOUS
    <3> QED
      BY <1>4, <3>1, <3>2 DEF WorkerInv, SeenIsInR2
  <2>5. AckedIsInR2'
    BY <1>1, <2>1, <2>4, AnswerKeepsAcked
  <2>6. WorkerTypes'
    BY <1>1, <1>4 DEF WorkerInv, WorkerTypes
  <2> QED
    BY <1>3, <2>2, <2>3, <2>5, <2>6 DEF WorkerInv
<1>5. CASE Serve(r) /\ at' = [at EXCEPT ![r] = "frame"]
  <2>1. /\ wire' \in [Requests -> PostedSlots] /\ Served(r) /\ wire'[r].phase = "serving"
        /\ \A s \in Requests \ {r} : wire'[s] = wire[s]
    BY <1>1, <1>5, ServeServes
  <2>2. CameraInv'
    BY <2>1, BackendKeepsCamera DEF Served
  <2>3. WorkerTypes' /\ at'[r] = "frame" /\ \A s \in Requests \ {r} : at'[s] = at[s]
    BY <1>1, <1>5 DEF WorkerInv, WorkerTypes
  <2>4. HandlerInv'
    BY <1>1, <2>1, <2>3 DEF WorkerInv, HandlerInv
  <2>5. AckedIsInR2'
    BY <1>1, <2>1, AnswerKeepsAcked
  <2> QED
    BY <1>3, <2>2, <2>3, <2>4, <2>5 DEF WorkerInv
<1> QED
  BY <1>2, <1>4, <1>5

LEMMA PutFrameKeepsInv ==
  ASSUME DeployedInv, NEW r \in Requests, PutFrame(r), UNCHANGED cameraVars
  PROVE  DeployedInv'
<1> USE DEF DeployedInv, WorkerInv
<1> DEFINE n == wire[r].counter
<1>1. /\ at[r] = "frame" /\ at' = [at EXCEPT ![r] = "latest"]
      /\ UNCHANGED <<wire, latest, lastSeen, visible, deaths>>
  BY DEF PutFrame
<1>2. /\ r2' \in [WorkerCounters -> Images] /\ r2'[n] = wire[r].image
      /\ \A m \in WorkerCounters : m # n => r2'[m] = r2[m]
      /\ \A m \in WorkerCounters : r2[m] # None => r2'[m] = r2[m]
  BY PutFrameEffect
<1>3. wire[r].phase = "serving" /\ wire[r].phase # "free"
  BY <1>1 DEF HandlerInv
<1>4. UNCHANGED <<archiveJpg, committed, drain, queueJson, counter>>
  BY DEF cameraVars, disk
<1>5. CameraInv'
  BY <1>1, BackendKeepsCamera DEF Served, CameraInv, CameraTypes
<1>6. WorkerTypes' /\ at'[r] = "latest" /\ \A s \in Requests \ {r} : at'[s] = at[s]
  BY <1>1, <1>2 DEF WorkerTypes
<1>7. HandlerInv'
  <2>1. ASSUME NEW s \in Requests, s # r, at[s] \in {"latest", "lastSeen"}
        PROVE  r2'[wire[s].counter] = wire[s].image
    <3>1. wire[s].phase # "free" /\ r2[wire[s].counter] = wire[s].image
      BY <2>1 DEF HandlerInv
    <3> QED
      BY <1>2, <3>1, RequestFrame
  <2> QED
    BY <1>1, <1>2, <1>3, <1>6, <2>1 DEF HandlerInv
<1>8. R2IsLogged'
  <2>1. /\ n \in Counters /\ <<n, wire[r].image>> \in committed
        /\ \A c \in committed : c[1] < n => archiveJpg[c[1]] # None
    BY <1>3, RequestFrame DEF CameraInv, RequestInv
  <2> HIDE DEF n
  <2> QED
    BY <1>2, <1>4, <2>1 DEF R2IsLogged
<1> HIDE DEF n
<1>9. ArchivedIsInR2' /\ AckedIsInR2'
  <2>1. ArchivedIsInR2'
    BY <1>2, <1>4, PipelineAssumption DEF ArchivedIsInR2
  <2>2. AckedIsInR2'
    <3> SUFFICES ASSUME Acked PROVE r2'[drain.current] = queueJson[drain.current]
      BY <1>1, <1>4 DEF AckedIsInR2, Acked
    <3>1. drain.at \in {"jpg", "wait"}
      BY DEF Acked
    <3>2. drain.current \in Counters /\ queueJson[drain.current] # None
      BY <3>1 DEF CameraInv, CameraTypes, ProcessTypes, DrainInv
    <3> QED
      BY <1>2, <3>2, PipelineAssumption DEF AckedIsInR2
  <2> QED
    BY <2>1, <2>2
<1>10. SeenIsInR2'
  <2>1. ASSUME NEW seen \in visible.lastSeen \union {lastSeen}, NEW c \in committed, c[1] <= seen
        PROVE  r2'[c[1]] = c[2]
    <3>1. r2[c[1]] = c[2] /\ c[1] \in WorkerCounters /\ c[2] # None
      BY <2>1, CommittedPair, PipelineAssumption DEF SeenIsInR2, CameraInv, CameraTypes
    <3> QED
      BY <1>2, <3>1
  <2>2. \A seen \in visible.lastSeen \union {lastSeen} : seen # 0 => seen \in WorkerCounters /\ r2'[seen] # None
    BY <1>2 DEF SeenIsInR2
  <2> QED
    BY <1>1, <1>4, <2>1, <2>2 DEF SeenIsInR2
<1>11. LatestIsInR2'
  BY <1>1, <1>2 DEF LatestIsInR2
<1> QED
  BY <1>4, <1>5, <1>6, <1>7, <1>8, <1>9, <1>10, <1>11

\* What other places may read of a key: what they could before, and the value put.
LEMMA ShowEffect ==
  ASSUME WorkerTypes, NEW key \in {"latest", "lastSeen"}, NEW value, Show(key, value),
         key = "latest" => value \in [counter : Nat, sha : Images],
         key = "lastSeen" => value \in Nat
  PROVE  /\ visible' \in [latest : SUBSET [counter : Nat, sha : Images], lastSeen : SUBSET Nat]
         /\ key = "latest" => /\ visible'.latest \subseteq visible.latest \union {value}
                              /\ visible'.lastSeen = visible.lastSeen
         /\ key = "lastSeen" => /\ visible'.lastSeen \subseteq visible.lastSeen \union {value}
                                /\ visible'.latest = visible.latest
<1> DEFINE shown == IF EventuallyConsistent THEN visible[key] \union {value} ELSE {value}
<1>1. visible' = [visible EXCEPT ![key] = shown]
  BY DEF Show
<1>2. shown \subseteq visible[key] \union {value}
  OBVIOUS
<1> HIDE DEF shown
<1> QED
  BY <1>1, <1>2 DEF WorkerTypes

LEMMA PutLatestKeepsInv ==
  ASSUME DeployedInv, NEW r \in Requests, PutLatest(r), UNCHANGED cameraVars
  PROVE  DeployedInv'
<1> USE DEF DeployedInv, WorkerInv
<1> DEFINE reading == [counter |-> wire[r].counter, sha |-> wire[r].sha]
<1>1. /\ at[r] = "latest" /\ at' = [at EXCEPT ![r] = "lastSeen"]
      /\ latest' = reading /\ Show("latest", reading)
      /\ UNCHANGED <<wire, r2, lastSeen, deaths>>
  BY DEF PutLatest
<1>2. /\ wire[r].phase = "serving" /\ wire[r].phase # "free"
      /\ r2[wire[r].counter] = wire[r].image
  BY <1>1 DEF HandlerInv
<1>3. /\ wire[r].counter \in WorkerCounters /\ wire[r].counter \in Nat
      /\ wire[r].sha = wire[r].image /\ wire[r].sha \in Images /\ wire[r].sha # None
  BY <1>2, RequestFrame, WorkerAssumption DEF Images
<1>4. reading \in [counter : Nat, sha : Images] /\ reading.counter = wire[r].counter
      /\ reading.sha = wire[r].sha
  BY <1>3
<1> HIDE DEF reading
<1>5. /\ visible' \in [latest : SUBSET [counter : Nat, sha : Images], lastSeen : SUBSET Nat]
      /\ visible'.latest \subseteq visible.latest \union {reading}
      /\ visible'.lastSeen = visible.lastSeen
  BY <1>1, <1>4, ShowEffect
<1>6. CameraInv'
  BY <1>1, BackendKeepsCamera DEF Served, CameraInv, CameraTypes
<1>7. WorkerTypes' /\ at'[r] = "lastSeen" /\ \A s \in Requests \ {r} : at'[s] = at[s]
  BY <1>1, <1>4, <1>5 DEF WorkerTypes
<1>8. HandlerInv'
  BY <1>1, <1>2, <1>7 DEF HandlerInv
<1>9. R2IsLogged' /\ ArchivedIsInR2' /\ AckedIsInR2' /\ counter' # Corrupt
  BY <1>1 DEF R2IsLogged, ArchivedIsInR2, AckedIsInR2, Acked, cameraVars, disk
<1>10. SeenIsInR2'
  BY <1>1, <1>5 DEF SeenIsInR2, cameraVars, disk
<1>11. LatestIsInR2'
  BY <1>1, <1>2, <1>3, <1>4, <1>5 DEF LatestIsInR2
<1> QED
  BY <1>6, <1>7, <1>8, <1>9, <1>10, <1>11

LEMMA PutLastSeenKeepsInv ==
  ASSUME DeployedInv, NEW r \in Requests, PutLastSeen(r), UNCHANGED cameraVars
  PROVE  DeployedInv'
<1> USE DEF DeployedInv, WorkerInv
<1> DEFINE n == wire[r].counter
<1>1. /\ at[r] = "lastSeen" /\ at' = [at EXCEPT ![r] = "idle"]
      /\ lastSeen' = n /\ Show("lastSeen", n) /\ Answer(r, 200)
      /\ UNCHANGED <<r2, latest, deaths>>
  BY DEF PutLastSeen
<1>2. wire[r].phase # "free" /\ r2[n] = wire[r].image
  BY <1>1 DEF HandlerInv
<1>3. n \in WorkerCounters /\ n \in Counters /\ n \in Nat /\ r2[n] # None
      /\ <<n, wire[r].image>> \in committed
      /\ \A f : <<n, f>> \in committed => f = wire[r].image
  BY <1>2, RequestFrame, WorkerAssumption
<1>4. \A c \in committed : c[1] < n => archiveJpg[c[1]] # None
  BY <1>2 DEF CameraInv, RequestInv
<1>5. /\ wire' \in [Requests -> PostedSlots] /\ Served(r)
      /\ wire'[r].phase \in {"free", "answered"}
      /\ \A s \in Requests \ {r} : wire'[s] = wire[s]
  BY <1>1, <1>2, AnswerServes DEF CameraInv, CameraTypes
<1>6. CameraInv'
  BY <1>5, BackendKeepsCamera DEF Served
<1>7. AckedIsInR2'
  BY <1>1, <1>2, <1>5, AnswerKeepsAcked
<1> HIDE DEF n
<1>8. /\ visible' \in [latest : SUBSET [counter : Nat, sha : Images], lastSeen : SUBSET Nat]
      /\ visible'.lastSeen \subseteq visible.lastSeen \union {n}
      /\ visible'.latest = visible.latest
  BY <1>1, <1>3, ShowEffect
<1>9. WorkerTypes' /\ at'[r] = "idle" /\ \A s \in Requests \ {r} : at'[s] = at[s]
  BY <1>1, <1>3, <1>8 DEF WorkerTypes
<1>10. HandlerInv'
  BY <1>1, <1>5, <1>9, OthersKeepHandlers
<1>11. R2IsLogged' /\ ArchivedIsInR2' /\ counter' # Corrupt
  BY <1>1 DEF R2IsLogged, ArchivedIsInR2, cameraVars, disk
<1>12. LatestIsInR2'
  BY <1>1, <1>8 DEF LatestIsInR2
<1>13. SeenIsInR2'
  <2>1. ASSUME NEW c \in committed, c[1] <= n PROVE r2[c[1]] = c[2]
    <3>1. c[1] \in Counters /\ c[1] \in Int /\ n \in Int /\ c = <<c[1], c[2]>>
      BY <1>3, CommittedPair, CounterOfCamera DEF CameraInv, CameraTypes
    <3>2. CASE c[1] = n
      BY <1>2, <1>3, <3>1, <3>2 DEF n
    <3>3. CASE c[1] < n
      <4>1. archiveJpg[c[1]] = c[2] /\ archiveJpg[c[1]] # None
        BY <1>4, <3>3, ArchivedFrame
      <4> QED
        BY <3>1, <4>1 DEF ArchivedIsInR2
    <3> QED
      BY <2>1, <3>1, <3>2, <3>3
  <2>2. \A seen \in visible'.lastSeen \union {lastSeen'} : seen \in visible.lastSeen \/ seen = n
    BY <1>1, <1>8
  <2>3. r2' = r2 /\ committed' = committed
    BY <1>1 DEF cameraVars
  <2> QED
    BY <1>3, <2>1, <2>2, <2>3 DEF SeenIsInR2
<1> QED
  BY <1>6, <1>7, <1>9, <1>10, <1>11, <1>12, <1>13

LEMMA HandlerDiesKeepsInv ==
  ASSUME DeployedInv, NEW r \in Requests, HandlerDies(r), UNCHANGED cameraVars
  PROVE  DeployedInv'
<1> USE DEF DeployedInv, WorkerInv
<1>1. /\ at[r] # "idle" /\ at' = [at EXCEPT ![r] = "idle"] /\ deaths' = deaths + 1
      /\ UNCHANGED <<r2, latest, lastSeen, visible>>
  BY DEF HandlerDies
<1>2. PICK code \in {500, NoAnswer} : Answer(r, code)
  BY DEF HandlerDies
<1>3. wire[r].phase # "free" /\ code \in Int /\ ~Acknowledged(code)
  BY <1>1, <1>2 DEF HandlerInv, NoAnswer, Acknowledged
<1>4. /\ wire' \in [Requests -> PostedSlots] /\ Served(r)
      /\ wire'[r].phase \in {"free", "answered"}
      /\ wire'[r].phase = "answered" => wire'[r].status = code
      /\ \A s \in Requests \ {r} : wire'[s] = wire[s]
  BY <1>2, <1>3, AnswerServes DEF CameraInv, CameraTypes
<1>5. CameraInv'
  BY <1>4, BackendKeepsCamera DEF Served
<1>6. AckedIsInR2'
  BY <1>1, <1>3, <1>4, AnswerKeepsAcked
<1>7. WorkerTypes' /\ at'[r] = "idle" /\ \A s \in Requests \ {r} : at'[s] = at[s]
  BY <1>1 DEF WorkerTypes
<1>8. HandlerInv'
  BY <1>1, <1>4, <1>7, OthersKeepHandlers
<1>9. R2IsLogged' /\ ArchivedIsInR2' /\ SeenIsInR2' /\ LatestIsInR2' /\ counter' # Corrupt
  BY <1>1, StoresKept
<1> QED
  BY <1>5, <1>6, <1>7, <1>8, <1>9

LEMMA PropagateKeepsInv ==
  ASSUME DeployedInv, Propagate, UNCHANGED cameraVars
  PROVE  DeployedInv'
<1> USE DEF DeployedInv, WorkerInv
<1>1. /\ visible' = [latest |-> {latest}, lastSeen |-> {lastSeen}]
      /\ UNCHANGED <<wire, r2, latest, lastSeen, at, deaths>>
  BY DEF Propagate
<1>2. visible'.latest = {latest} /\ visible'.lastSeen = {lastSeen}
  BY <1>1
<1>3. CameraInv'
  BY <1>1, BackendKeepsCamera DEF Served, CameraInv, CameraTypes
<1>4. WorkerTypes'
  BY <1>1 DEF WorkerTypes
<1>5. HandlerInv' /\ R2IsLogged' /\ ArchivedIsInR2' /\ AckedIsInR2' /\ counter' # Corrupt
  BY <1>1 DEF HandlerInv, R2IsLogged, ArchivedIsInR2, AckedIsInR2, Acked, cameraVars, disk
<1>6. SeenIsInR2' /\ LatestIsInR2'
  BY <1>1, <1>2 DEF SeenIsInR2, LatestIsInR2, cameraVars
<1> QED
  BY <1>3, <1>4, <1>5, <1>6

-----------------------------------------------------------------------------
(* The invariant                                                           *)

LEMMA DeploymentStarts ==
  ASSUME MaxCorruptions = 0, Init
  PROVE  DeployedInv
<1> USE DEF Init, WorkerInit, CameraInit
<1>1. CameraInv
  BY CameraStarts
<1>2. None \in Images
  BY DEF Images
<1>3. WorkerTypes
  BY <1>2 DEF WorkerTypes, NoReading
<1>4. HandlerInv
  BY DEF WireInit, FreeSlot, HandlerInv
<1>5. R2IsLogged /\ ArchivedIsInR2 /\ AckedIsInR2
  BY DEF R2IsLogged, ArchivedIsInR2, AckedIsInR2, Acked, IdleDrain
<1>6. SeenIsInR2 /\ LatestIsInR2
  BY DEF SeenIsInR2, LatestIsInR2
<1>7. counter # Corrupt
  BY DEF Corrupt
<1> QED
  BY <1>1, <1>3, <1>4, <1>5, <1>6, <1>7 DEF DeployedInv, WorkerInv

LEMMA DeploymentStep ==
  ASSUME MaxCorruptions = 0, DeployedInv, [Next]_vars
  PROVE  DeployedInv'
<1>1. CASE CameraStep(lastSeen) /\ UNCHANGED workerVars
  <2>1. lastSeen \in Nat /\ Reseedable(lastSeen)
    BY DEF DeployedInv, WorkerInv, WorkerTypes, Reseedable
  <2> QED
    BY <1>1, <2>1, CameraStepKeepsInv, CameraStepKeepsWorker DEF DeployedInv
<1>2. CASE WorkerStep /\ UNCHANGED cameraVars
  BY <1>2, NothingRefused, CheckCounterKeepsInv, PutFrameKeepsInv, PutLatestKeepsInv,
     PutLastSeenKeepsInv, HandlerDiesKeepsInv, PropagateKeepsInv DEF WorkerStep, HandlerStep
<1>3. CASE UNCHANGED vars
  <2>1. UNCHANGED wire /\ UNCHANGED cameraVars /\ UNCHANGED workerVars
    BY <1>3 DEF vars
  <2>2. CameraInv'
    BY <2>1, BackendKeepsCamera DEF Served, DeployedInv, CameraInv, CameraTypes
  <2>3. R2IsLogged' /\ ArchivedIsInR2' /\ SeenIsInR2' /\ LatestIsInR2' /\ counter' # Corrupt
    BY <2>1, StoresKept DEF workerVars
  <2>4. WorkerTypes' /\ HandlerInv' /\ AckedIsInR2'
    BY <2>1 DEF DeployedInv, WorkerInv, WorkerTypes, HandlerInv, AckedIsInR2, Acked, cameraVars,
                disk, workerVars
  <2> QED
    BY <2>2, <2>3, <2>4 DEF DeployedInv, WorkerInv
<1> QED
  BY <1>1, <1>2, <1>3 DEF Next

LEMMA DeploymentInvariance ==
  ASSUME MaxCorruptions = 0
  PROVE  Spec => []DeployedInv
<1>1. DeployedInv /\ [Next]_vars => DeployedInv'
  BY DeploymentStep
<1> QED
  BY <1>1, DeploymentStarts, PTL DEF Spec

\* ingest.ts and reserve.ts: whatever stale copy of latest a viewer is given, R2 holds the frame
\* it names, and its sha256 is that frame's.
THEOREM FramesBehindReadings ==
  ASSUME MaxCorruptions = 0
  PROVE  Spec => []ReadingHasItsFrame
<1>1. DeployedInv => ReadingHasItsFrame
  BY DEF DeployedInv, WorkerInv, LatestIsInR2, ReadingHasItsFrame, Readings, FrameByCounter
<1> QED
  BY <1>1, DeploymentInvariance, PTL

\* push.py: the device archives a frame only when R2 holds that frame, whichever handlers died
\* and however stale the last_seen that a 409 was answered from.
THEOREM SafelyInR2 ==
  ASSUME MaxCorruptions = 0
  PROVE  Spec => []ArchivedIsInR2
<1>1. DeployedInv => ArchivedIsInR2
  BY DEF DeployedInv, WorkerInv
<1> QED
  BY <1>1, DeploymentInvariance, PTL

\* push.py, oldest first: R2 holds no frame while an older committed one is missing.
THEOREM OldestFirstInR2 ==
  ASSUME MaxCorruptions = 0
  PROVE  Spec => []NoGapsInR2
<1>1. ASSUME DeployedInv PROVE NoGapsInR2
  <2> SUFFICES ASSUME NEW c \in committed, NEW d \in committed, c[1] < d[1], r2[d[1]] # None
               PROVE  r2[c[1]] = c[2]
    BY DEF NoGapsInR2
  <2>1. c[1] \in Counters /\ d[1] \in WorkerCounters
    BY <1>1, CommittedPair, PipelineAssumption DEF DeployedInv, CameraInv, CameraTypes
  <2>2. archiveJpg[c[1]] # None /\ archiveJpg[c[1]] = c[2]
    BY <1>1, <2>1, ArchivedFrame DEF DeployedInv, WorkerInv, R2IsLogged
  <2> QED
    BY <1>1, <2>1, <2>2 DEF DeployedInv, WorkerInv, ArchivedIsInR2
<1> QED
  BY <1>1, DeploymentInvariance, PTL

\* ingest.ts, FRAMES.put: handlers of the same counter, retried, overlapping or let through by a
\* stale last_seen, only ever write the same bytes again.
THEOREM FramesImmutable ==
  ASSUME MaxCorruptions = 0
  PROVE  Spec => NumberedFrameNeverChanges
<1>1. ASSUME DeployedInv, [Next]_vars
      PROVE  [\A n \in WorkerCounters : r2[n] # None => r2'[n] = r2[n]]_vars
  <2>1. CASE UNCHANGED r2
    BY <2>1
  <2>2. ASSUME NEW r \in Requests, PutFrame(r)
        PROVE  \A n \in WorkerCounters : r2[n] # None => r2'[n] = r2[n]
    BY <1>1, <2>2, PutFrameEffect
  <2> QED
    BY <1>1, <2>1, <2>2 DEF Next, WorkerStep, HandlerStep, Refuse, CheckCounter, PutLatest, PutLastSeen,
                            HandlerDies, Propagate, workerVars
<1> QED
  BY <1>1, DeploymentInvariance, PTL DEF Spec, NumberedFrameNeverChanges

\* The frame whose answer the drain awaits is newer than any the Worker serves or has seen, or the same.
LEMMA AwaitedIsNewest ==
  ASSUME DeployedInv, NEW r \in Requests, wire[r].awaited
  PROVE  latest.counter <= wire[r].counter /\ lastSeen <= wire[r].counter
<1> USE DEF DeployedInv, WorkerInv
<1> DEFINE n == wire[r].counter
<1>1. /\ drain.at = "wait" /\ n = drain.current
      /\ <<n, queueJson[n]>> \in committed /\ n \in Counters
  BY AwaitedFrame DEF CameraInv, RequestInv
<1>2. archiveJpg[n] = None
  <2>1. n \in drain.todo /\ queueJson[n] # None /\ queueJpg[n] = queueJson[n]
    BY <1>1 DEF CameraInv, DrainInv
  <2> QED
    BY <1>1, <2>1 DEF CameraInv, DiskInv, FilesAreLogged
<1> HIDE DEF n
<1>3. ASSUME NEW m \in WorkerCounters, r2[m] # None PROVE m <= n
  <2>1. m \in Counters /\ m \in Int /\ n \in Int
    BY <1>1, <1>3, CounterOfCamera DEF R2IsLogged
  <2>2. ASSUME NEW c \in committed, c[1] < m PROVE archiveJpg[c[1]] # None
    BY <1>3, <2>2 DEF R2IsLogged
  <2>3. <<n, queueJson[n]>> \in committed /\ <<n, queueJson[n]>>[1] = n
    BY <1>1 DEF n
  <2>4. ~(n < m)
    BY <1>2, <2>2, <2>3 DEF n
  <2> QED
    BY <2>1, <2>4
<1>4. n \in Int /\ n > 0
  BY <1>1, CounterOfCamera
<1>5. latest.counter <= n
  BY <1>3, <1>4 DEF LatestIsInR2, NoReading
<1>6. lastSeen <= n
  BY <1>3, <1>4 DEF SeenIsInR2
<1> QED
  BY <1>5, <1>6 DEF n

\* ingest.ts: a handler whose client still waits never sets latest or last_seen back.
THEOREM OnlyAbandonedSetBack ==
  ASSUME MaxCorruptions = 0
  PROVE  Spec => OnlyAbandonedRegress
<1>1. ASSUME DeployedInv, [Next]_vars, latest'.counter < latest.counter \/ lastSeen' < lastSeen
      PROVE  \E r \in Requests : at'[r] # at[r] /\ ~wire[r].awaited
  <2>1. latest.counter \in Int /\ lastSeen \in Int
    BY <1>1 DEF DeployedInv, WorkerInv, WorkerTypes
  <2>2. PICK r \in Requests : PutLatest(r) \/ PutLastSeen(r)
    <3>1. ~(UNCHANGED <<latest, lastSeen>>)
      BY <1>1, <2>1
    <3> QED
      BY <1>1, <3>1 DEF Next, WorkerStep, HandlerStep, Refuse, CheckCounter, PutFrame, HandlerDies,
                        Propagate, vars, workerVars
  <2>3. at'[r] # at[r]
    BY <1>1, <2>2 DEF PutLatest, PutLastSeen, DeployedInv, WorkerInv, WorkerTypes
  <2>4. ~wire[r].awaited
    <3>1. wire[r].counter \in Int
      <4>1. wire[r].phase # "free"
        BY <1>1, <2>2 DEF PutLatest, PutLastSeen, DeployedInv, WorkerInv, HandlerInv
      <4> QED
        BY <1>1, <4>1, RequestFrame, CounterOfCamera DEF DeployedInv
    <3>2. \/ latest'.counter = wire[r].counter /\ lastSeen' = lastSeen
          \/ lastSeen' = wire[r].counter /\ latest' = latest
      BY <2>2 DEF PutLatest, PutLastSeen
    <3> QED
      BY <1>1, <2>1, <3>1, <3>2, AwaitedIsNewest
  <2> QED
    BY <2>3, <2>4
<1>2. DeployedInv /\ [Next]_vars
        => [latest'.counter < latest.counter \/ lastSeen' < lastSeen
              => \E r \in Requests : at'[r] # at[r] /\ ~wire[r].awaited]_vars
  BY <1>1
<1> QED
  BY <1>2, DeploymentInvariance, PTL DEF Spec, OnlyAbandonedRegress
=============================================================================
