------------------------------- MODULE Camera --------------------------------
(***************************************************************************)
(* The camera's state directory and the processes that work on it:         *)
(* capture-once and push-drain (camera/src/cli.py, queue.py, push.py,      *)
(* lock.py, status.py).  Each runs as a one-shot process under one         *)
(* exclusive file lock; each file operation is a step of its own, because  *)
(* a process can be killed between any two and the files stay.             *)
(***************************************************************************)
EXTENDS Wire, FiniteSets

CONSTANTS
  Captures,        \* capture-once processes: the timer's, and one run by hand
  Drain,           \* the push-drain process
  Nobody,          \* holds the lock when it is free
  MaxCounter,      \* bound on frame counters
  BatchMax,        \* drain_batch_max
  MaxKills,        \* bound on processes killed
  MaxFaults,       \* bound on failed file operations
  MaxTimeouts,     \* bound on requests given up on
  MaxCorruptions,  \* bound on losses of the counter file
  MaxSeed,         \* bound on the values the operator seeds
  SeedAboveQueue   \* the operator who re-seeds also looks at the queue

Counters == 1..MaxCounter
Corrupt == -1

ASSUME CameraAssumption ==
  /\ Drain \notin Captures
  /\ Nobody \notin Captures \union {Drain}
  /\ MaxCounter \in Nat /\ BatchMax \in Nat \ {0}
  /\ MaxKills \in Nat /\ MaxFaults \in Nat /\ MaxTimeouts \in Nat /\ MaxCorruptions \in Nat
  /\ MaxSeed \in 0..MaxCounter
  /\ SeedAboveQueue \in BOOLEAN

VARIABLES
  counter,                   \* the counter file
  queueJpg, queueJson,       \* queue/<n>.jpg and queue/<n>.json
  archiveJpg, archiveJson,   \* archive/<n>.jpg and archive/<n>.json
  status,                    \* status.json
  lock,                      \* who holds the flock
  capture,                   \* the capture-once processes
  drain,                     \* the push-drain process
  taken,                     \* captures so far; numbers the frames
  spent,                     \* budgets used up
  committed                  \* history: the <<counter, frame>> pairs fully enqueued

disk == <<counter, queueJpg, queueJson, archiveJpg, archiveJson>>
cameraVars == <<disk, status, lock, capture, drain, taken, spent, committed>>

IdleCapture == [at |-> "idle", frame |-> None, counter |-> 0]
IdleDrain == [at |-> "idle", todo |-> {}, current |-> 0, depth |-> 0, archived |-> 0,
              failed |-> FALSE, request |-> Nobody]

CameraInit ==
  /\ counter = 0                 \* provisioned: smoke.sh seeds it
  /\ queueJpg = [n \in Counters |-> None] /\ queueJson = queueJpg
  /\ archiveJpg = queueJpg /\ archiveJson = queueJpg
  /\ status = [captureOk |-> TRUE, pushOk |-> TRUE, depth |-> 0]
  /\ lock = Nobody
  /\ capture = [p \in Captures |-> IdleCapture]
  /\ drain = IdleDrain
  /\ taken = 0
  /\ spent = [kills |-> 0, faults |-> 0, timeouts |-> 0, corruptions |-> 0]
  /\ committed = {}

Spend(budget, limit) == spent[budget] < limit /\ spent' = [spent EXCEPT ![budget] = @ + 1]

\* Mutant: the lock is taken whoever holds it.
AcquireAnyway(p) == lock' = p

Acquire(p) == lock = Nobody /\ lock' = p
LetGo(p) == lock' = IF lock = p THEN Nobody ELSE lock   \* the kernel drops it on exit

\* update_status: the fields given, over those status.json already has.
UpdateStatus(new) == status' = new

-----------------------------------------------------------------------------
(* StateDir.pending(): one scan under the lock                             *)

\* A jpg whose enqueue died before its json, and a json whose archiving died
\* after its jpg.
Strays == {n \in Counters : queueJpg[n] # None /\ queueJson[n] = None}
\* Mutant: a json stranded by an interrupted archive() is left where it is.
HalfArchivedIgnored == {}

HalfArchived == {n \in Counters : queueJson[n] # None /\ queueJpg[n] = None /\ archiveJpg[n] # None}

Pending == {n \in Counters : queueJpg[n] # None /\ queueJson[n] # None}

\* Mutant: a stranded json is deleted like a stray jpg.
ScanDropsJson ==
  /\ queueJpg' = [n \in Counters |-> IF n \in Strays THEN None ELSE queueJpg[n]]
  /\ queueJson' = [n \in Counters |-> IF n \in HalfArchived THEN None ELSE queueJson[n]]
  /\ UNCHANGED <<counter, archiveJpg, archiveJson>>

Scan ==
  /\ queueJpg' = [n \in Counters |-> IF n \in Strays THEN None ELSE queueJpg[n]]
  /\ queueJson' = [n \in Counters |-> IF n \in HalfArchived THEN None ELSE queueJson[n]]
  /\ archiveJson' = [n \in Counters |-> IF n \in HalfArchived THEN queueJson[n] ELSE archiveJson[n]]
  /\ UNCHANGED <<counter, archiveJpg>>

-----------------------------------------------------------------------------
(* capture-once                                                            *)

AtCapture(p, from, to) ==
  capture[p].at = from /\ capture' = [capture EXCEPT ![p].at = to]

\* Capture, crop, hash, sign and the CRO's remark, on tmpfs, outside the lock.
Shoot(p) ==
  /\ capture[p].at = "idle"
  /\ taken < MaxFrames
  /\ taken' = taken + 1
  /\ capture' = [capture EXCEPT ![p] = [at |-> "shot", frame |-> taken + 1, counter |-> 0]]
  /\ UNCHANGED <<disk, status, lock, drain, spent, committed>>

CaptureLocks(p) ==
  /\ AtCapture(p, "shot", "count")
  /\ Acquire(p)
  /\ UNCHANGED <<disk, status, drain, taken, spent, committed>>

\* Mutant: the new counter is used before it is written back.
NextCounterUnsaved(p) ==
  /\ capture[p].at = "count"
  /\ counter # Corrupt /\ counter < MaxCounter
  /\ capture' = [capture EXCEPT ![p].at = "jpg", ![p].counter = counter + 1]
  /\ UNCHANGED <<disk, status, lock, drain, taken, spent, committed>>

NextCounter(p) ==
  /\ capture[p].at = "count"
  /\ counter # Corrupt /\ counter < MaxCounter
  /\ counter' = counter + 1
  /\ capture' = [capture EXCEPT ![p].at = "jpg", ![p].counter = counter + 1]
  /\ UNCHANGED <<queueJpg, queueJson, archiveJpg, archiveJson, status, lock, drain,
                 taken, spent, committed>>

EnqueueJpg(p) ==
  /\ AtCapture(p, "jpg", "json")
  /\ queueJpg' = [queueJpg EXCEPT ![capture[p].counter] = capture[p].frame]
  /\ UNCHANGED <<counter, queueJson, archiveJpg, archiveJson, status, lock, drain,
                 taken, spent, committed>>

EnqueueJson(p) ==
  /\ AtCapture(p, "json", "status")
  /\ queueJson' = [queueJson EXCEPT ![capture[p].counter] = capture[p].frame]
  /\ committed' = committed \union {<<capture[p].counter, capture[p].frame>>}
  /\ UNCHANGED <<counter, queueJpg, archiveJpg, archiveJson, status, lock, drain,
                 taken, spent>>

\* update_status(queue_depth=len(state.pending())), then exit 0.
CaptureDone(p) ==
  /\ capture[p].at = "status"
  /\ Scan
  /\ UpdateStatus([status EXCEPT !.captureOk = TRUE, !.depth = Cardinality(Pending)])
  /\ LetGo(p)
  /\ capture' = [capture EXCEPT ![p] = IdleCapture]
  /\ UNCHANGED <<drain, taken, spent, committed>>

\* The camera gives no picture, or one that cannot be cropped or signed.
NoPicture(p) ==
  /\ AtCapture(p, "idle", "except")
  /\ UNCHANGED <<disk, status, lock, drain, taken, spent, committed>>

\* An exception under the lock: a corrupt counter, or a failed file operation.
CaptureRaises(p) ==
  /\ \/ capture[p].at = "count" /\ counter = Corrupt /\ UNCHANGED spent
     \/ capture[p].at \in {"count", "jpg", "json", "status"} /\ Spend("faults", MaxFaults)
  /\ capture' = [capture EXCEPT ![p] = [IdleCapture EXCEPT !.at = "except"]]
  /\ LetGo(p)
  /\ UNCHANGED <<disk, status, drain, taken, committed>>

\* The handler takes the lock again to record the failure, then exit 1.
CaptureFails(p) ==
  /\ capture[p].at = "except"
  /\ lock = Nobody
  /\ UpdateStatus([status EXCEPT !.captureOk = FALSE])
  /\ capture' = [capture EXCEPT ![p] = IdleCapture]
  /\ UNCHANGED <<disk, lock, drain, taken, spent, committed>>

KillCapture(p) ==
  /\ capture[p].at # "idle"
  /\ Spend("kills", MaxKills)
  /\ capture' = [capture EXCEPT ![p] = IdleCapture]
  /\ LetGo(p)
  /\ UNCHANGED <<disk, status, drain, taken, committed>>

-----------------------------------------------------------------------------
(* push-drain                                                              *)

AtDrain(from, to) == drain.at = from /\ drain' = [drain EXCEPT !.at = to]

\* Mutant: the newest frames first.
BatchNewest == {n \in Pending : Cardinality({m \in Pending : m > n}) < BatchMax}

\* sorted(frames)[:drain_batch_max]
Batch == {n \in Pending : Cardinality({m \in Pending : m < n}) < BatchMax}

\* Mutant: the depth of the batch alone.
DrainLocksBatchDepth ==
  /\ drain.at = "idle"
  /\ Acquire(Drain)
  /\ Scan
  /\ drain' = [IdleDrain EXCEPT !.at = "push", !.todo = Batch, !.depth = Cardinality(Batch)]
  /\ UNCHANGED <<status, capture, taken, spent, committed, wire>>

DrainLocks ==
  /\ drain.at = "idle"
  /\ Acquire(Drain)
  /\ Scan
  /\ drain' = [IdleDrain EXCEPT !.at = "push", !.todo = Batch, !.depth = Cardinality(Pending)]
  /\ UNCHANGED <<status, capture, taken, spent, committed, wire>>

\* Mutant: a batch pushed newest first.
PushNewest(r, n) ==
  /\ drain.at = "push"
  /\ n \in drain.todo /\ \A m \in drain.todo : n >= m
  /\ Post(r, "good", n, queueJpg[n], queueJson[n])
  /\ drain' = [drain EXCEPT !.at = "wait", !.current = n, !.request = r]
  /\ UNCHANGED <<disk, status, lock, capture, taken, spent, committed>>

\* Oldest first: the frame with the smallest counter of those left to push.
PushFrame(r, n) ==
  /\ drain.at = "push"
  /\ n \in drain.todo /\ \A m \in drain.todo : n <= m
  /\ Post(r, "good", n, queueJpg[n], queueJson[n])
  /\ drain' = [drain EXCEPT !.at = "wait", !.current = n, !.request = r]
  /\ UNCHANGED <<disk, status, lock, capture, taken, spent, committed>>

\* Mutant: a server error counts as an acknowledgement.
AcknowledgedByAnyAnswer(code) == code \in {200, 409, 500}

\* 2xx and 409 are acknowledgements; anything else stops the drain.
Acknowledged(code) == code \in {200, 409}

PushAnswered ==
  LET r == drain.request
      acked == Acknowledged(wire[r].status)
  IN /\ drain.at = "wait"
     /\ ReadAnswer(r)
     /\ drain' = [drain EXCEPT !.at = IF acked THEN "jpg" ELSE "report",
                               !.failed = ~acked, !.request = Nobody]
     /\ UNCHANGED <<disk, status, lock, capture, taken, spent, committed>>

PushTimesOut ==
  /\ drain.at = "wait"
  /\ GiveUp(drain.request)
  /\ Spend("timeouts", MaxTimeouts)
  /\ drain' = [drain EXCEPT !.at = "report", !.failed = TRUE, !.request = Nobody]
  /\ UNCHANGED <<disk, status, lock, capture, taken, committed>>

ArchiveJpg ==
  /\ AtDrain("jpg", "json")
  /\ archiveJpg' = [archiveJpg EXCEPT ![drain.current] = queueJpg[drain.current]]
  /\ queueJpg' = [queueJpg EXCEPT ![drain.current] = None]
  /\ UNCHANGED <<counter, queueJson, archiveJson, status, lock, capture, taken,
                 spent, committed, wire>>

ArchiveJson ==
  /\ drain.at = "json"
  /\ archiveJson' = [archiveJson EXCEPT ![drain.current] = queueJson[drain.current]]
  /\ queueJson' = [queueJson EXCEPT ![drain.current] = None]
  /\ drain' = [drain EXCEPT !.at = "push", !.todo = @ \ {drain.current},
                            !.archived = @ + 1]
  /\ UNCHANGED <<counter, queueJpg, archiveJpg, status, lock, capture, taken,
                 spent, committed, wire>>

DrainReports ==
  /\ \/ drain.at = "report"
     \/ drain.at = "push" /\ drain.todo = {}
  /\ UpdateStatus([status EXCEPT !.pushOk = ~drain.failed, !.depth = drain.depth - drain.archived])
  /\ LetGo(Drain)
  /\ drain' = IdleDrain
  /\ UNCHANGED <<disk, capture, taken, spent, committed, wire>>

\* A file operation fails: PushError, and the drain stops where it is.
DrainRaises ==
  /\ drain.at \in {"push", "jpg", "json", "report"}
  /\ Spend("faults", MaxFaults)
  /\ LetGo(Drain)
  /\ drain' = [IdleDrain EXCEPT !.at = "except"]
  /\ UNCHANGED <<disk, status, capture, taken, committed, wire>>

DrainFails ==
  /\ drain.at = "except"
  /\ lock = Nobody
  /\ UpdateStatus([status EXCEPT !.pushOk = FALSE])
  /\ drain' = IdleDrain
  /\ UNCHANGED <<disk, lock, capture, taken, spent, committed, wire>>

KillDrain ==
  /\ drain.at # "idle"
  /\ Spend("kills", MaxKills)
  /\ IF drain.at = "wait" THEN GiveUp(drain.request) ELSE UNCHANGED wire
  /\ drain' = IdleDrain
  /\ LetGo(Drain)
  /\ UNCHANGED <<disk, status, capture, taken, committed>>

-----------------------------------------------------------------------------
(* The counter file lost or corrupted, and the operator's seed-counter     *)
(* --force, which must exceed the highest counter the backend has seen.    *)

LoseCounter ==
  /\ counter # Corrupt
  /\ Spend("corruptions", MaxCorruptions)
  /\ counter' = Corrupt
  /\ UNCHANGED <<queueJpg, queueJson, archiveJpg, archiveJson, status, lock, capture,
                 drain, taken, committed>>

\* Mutant: the backend's highest counter is not asked for.
SeedBelowSeen(value, seen) ==
  /\ counter = Corrupt
  /\ lock = Nobody
  /\ SeedAboveQueue => \A n \in Counters : queueJson[n] # None => value >= n
  /\ counter' = value
  /\ UNCHANGED <<queueJpg, queueJson, archiveJpg, archiveJson, status, lock, capture,
                 drain, taken, spent, committed>>

SeedCounter(value, seen) ==
  /\ counter = Corrupt
  /\ lock = Nobody
  /\ value > seen
  /\ SeedAboveQueue => \A n \in Counters : queueJson[n] # None => value >= n
  /\ counter' = value
  /\ UNCHANGED <<queueJpg, queueJson, archiveJpg, archiveJson, status, lock, capture,
                 drain, taken, spent, committed>>

-----------------------------------------------------------------------------
CaptureStep(p) ==
  \/ Shoot(p) \/ CaptureLocks(p) \/ NextCounter(p) \/ EnqueueJpg(p) \/ EnqueueJson(p)
  \/ CaptureDone(p) \/ NoPicture(p) \/ CaptureRaises(p) \/ CaptureFails(p) \/ KillCapture(p)

DrainStep ==
  \/ DrainLocks \/ (\E r \in Requests, n \in Counters : PushFrame(r, n)) \/ PushAnswered \/ PushTimesOut
  \/ ArchiveJpg \/ ArchiveJson \/ DrainReports \/ DrainRaises \/ DrainFails \/ KillDrain

CameraStep(seen) ==
  \/ DrainStep
  \/ /\ UNCHANGED wire
     /\ \/ \E p \in Captures : CaptureStep(p)
        \/ LoseCounter
        \/ \E value \in 0..MaxSeed : SeedCounter(value, seen)

-----------------------------------------------------------------------------
\* A frame is where a restart can find it: queued, archived, or between the two.
OnDevice(n, f) ==
  \/ queueJpg[n] = f /\ queueJson[n] = f
  \/ archiveJpg[n] = f /\ f \in {queueJson[n], archiveJson[n]}

\* queue.py: a .json present means its .jpg is complete.  Whichever process
\* died where, a queued json has its own jpg beside it, or that jpg is already
\* in the archive; an archived json has its own jpg in the archive.
NoHalfFrame ==
  \A n \in Counters :
    /\ queueJson[n] # None =>
         \/ queueJpg[n] = queueJson[n]
         \/ queueJpg[n] = None /\ archiveJpg[n] = queueJson[n]
    /\ archiveJson[n] # None => archiveJpg[n] = archiveJson[n]

\* A frame whose enqueue committed is never lost by the device: scans, drains,
\* failed writes and kills leave it queued, archived, or on its way.
NothingLost == \A c \in committed : OnDevice(c[1], c[2])

\* No two committed frames ever share a counter.
CounterNeverReused ==
  \A c, d \in committed : c[1] = d[1] => c = d

\* Every request the camera posts carries an image its own metadata verifies,
\* so the sink never answers 400, which would block the head of the queue for good.
NeverPoisoned == \A r \in Requests : wire[r].phase # "free" => Genuine(wire[r])
=============================================================================
