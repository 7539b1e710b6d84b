----------------------------- MODULE CameraProofs ----------------------------
(***************************************************************************)
(* Proofs about Camera, for any number of captures and requests, any       *)
(* batch size, any number of kills, failed writes and timeouts, and any    *)
(* backend that answers a request or forgets it.  The modules that give    *)
(* the camera a backend use them through CameraStepKeepsInv and            *)
(* BackendKeepsCamera.                                                     *)
(***************************************************************************)
EXTENDS Camera, FiniteSetTheorems, TLAPS

Images == Frames \union {None}

PostedSlots ==
  [phase : {"free", "sent", "serving", "answered"}, awaited : BOOLEAN, form : Forms,
   counter : Counters \union {0}, image : Images, sha : Images, status : Int]

DiskTypes ==
  /\ counter \in 0..MaxCounter \union {Corrupt}
  /\ queueJpg \in [Counters -> Images] /\ queueJson \in [Counters -> Images]
  /\ archiveJpg \in [Counters -> Images] /\ archiveJson \in [Counters -> Images]
  /\ committed \subseteq Counters \X Frames

ProcessTypes ==
  /\ status \in [captureOk : BOOLEAN, pushOk : BOOLEAN, depth : Int]
  /\ lock \in Captures \union {Drain, Nobody}
  /\ capture \in [Captures -> [at : {"idle", "shot", "count", "jpg", "json", "status", "except"},
                               frame : Images, counter : Counters \union {0}]]
  /\ drain \in [at : {"idle", "push", "wait", "jpg", "json", "report", "except"},
                todo : SUBSET Counters, current : Counters \union {0}, depth : Int, archived : Int,
                failed : BOOLEAN, request : Requests \union {Nobody}]
  /\ taken \in 0..MaxFrames
  /\ spent \in [kills : Nat, faults : Nat, timeouts : Nat, corruptions : Nat]

CameraTypes == wire \in [Requests -> PostedSlots] /\ DiskTypes /\ ProcessTypes

\* lock.py: the process that works on the files is the one that holds the lock.
OneAtWork ==
  /\ \A p \in Captures : lock = p <=> capture[p].at \in {"count", "jpg", "json", "status"}
  /\ lock = Drain <=> drain.at \in {"push", "wait", "jpg", "json", "report"}

\* A json in the queue and a jpg in the archive are those of a committed frame,
\* and no frame is both ready to push and archived.
FilesAreLogged ==
  \A n \in Counters :
    /\ queueJson[n] # None => <<n, queueJson[n]>> \in committed
    /\ archiveJpg[n] # None => <<n, archiveJpg[n]>> \in committed
    /\ queueJpg[n] # None /\ queueJson[n] # None => archiveJpg[n] = None

DiskInv == FilesAreLogged /\ NoHalfFrame /\ NothingLost /\ CounterNeverReused

\* The counter a capture enqueues with lies above every committed one, and the
\* counter file, unless lost, is at that counter or above.
CaptureInv ==
  /\ counter # Corrupt => \A c \in committed : c[1] <= counter
  /\ \A p \in Captures :
       /\ capture[p].at \in {"shot", "count", "jpg", "json"} => capture[p].frame \in Frames
       /\ capture[p].at \in {"jpg", "json"} =>
            /\ capture[p].counter \in Counters
            /\ \A c \in committed : c[1] < capture[p].counter
            /\ counter # Corrupt => capture[p].counter <= counter
       /\ capture[p].at = "json" => queueJpg[capture[p].counter] = capture[p].frame

\* The frames left to push are whole, but for the one half-way to the archive,
\* and every older committed frame is among them or archived.
DrainInv ==
  drain.at \in {"push", "wait", "jpg", "json"} =>
    /\ \A n \in drain.todo :
         /\ queueJson[n] # None
         /\ queueJpg[n] = IF drain.at = "json" /\ n = drain.current THEN None ELSE queueJson[n]
    /\ \A c \in committed, n \in drain.todo :
         c[1] < n => c[1] \in drain.todo \/ archiveJpg[c[1]] # None
    /\ drain.at # "push" => drain.current \in drain.todo
    /\ drain.at = "json" => archiveJpg[drain.current] = queueJson[drain.current]

\* What the drain will report is what a scan would find now.
DepthInv ==
  /\ drain.at \in {"push", "wait", "jpg", "report"} =>
       drain.depth - drain.archived = Cardinality(Pending)
  /\ drain.at = "json" => drain.depth - drain.archived = Cardinality(Pending) + 1

\* A request carries a committed frame whose elders are all archived; the only
\* one awaited is the drain's.
RequestInv ==
  /\ \A r \in Requests : wire[r].phase # "free" =>
       /\ wire[r].form = "good" /\ wire[r].image = wire[r].sha
       /\ <<wire[r].counter, wire[r].image>> \in committed
       /\ \A c \in committed : c[1] < wire[r].counter => archiveJpg[c[1]] # None
  /\ \A r \in Requests : wire[r].awaited => drain.at = "wait" /\ drain.request = r
  /\ drain.at = "wait" =>
       /\ drain.request \in Requests
       /\ wire[drain.request].phase # "free" /\ wire[drain.request].awaited
       /\ wire[drain.request].counter = drain.current

CameraInv ==
  /\ CameraTypes /\ OneAtWork /\ DiskInv /\ CaptureInv /\ DrainInv /\ DepthInv /\ RequestInv

\* The operator who seeds the counter anew looks at the queue, and what the
\* device has archived is within what the backend says it has seen.
Reseedable(seen) ==
  counter = Corrupt =>
    SeedAboveQueue /\ \A n \in Counters : archiveJpg[n] # None => n <= seen

-----------------------------------------------------------------------------
(* Counters, frames and sets of counters                                   *)

LEMMA CounterOfCamera == \A n \in Counters : n \in Int /\ n > 0
  BY CameraAssumption DEF Counters

LEMMA CountersFinite ==
  ASSUME NEW S \in SUBSET Counters
  PROVE  IsFiniteSet(S) /\ Cardinality(S) \in Nat
<1>1. IsFiniteSet(Counters)
  BY CameraAssumption, FS_Interval DEF Counters
<1>2. IsFiniteSet(S)
  BY <1>1, FS_Subset
<1> QED
  BY <1>2, FS_CardinalityType

LEMMA CommittedPair ==
  ASSUME DiskTypes, NEW c \in committed
  PROVE  c[1] \in Counters /\ c[2] \in Frames /\ c = <<c[1], c[2]>> /\ c[2] # None
<1>1. c \in Counters \X Frames
  BY DEF DiskTypes
<1>2. None \notin Frames
  BY DEF None, Frames
<1> QED
  BY <1>1, <1>2

\* sorted(frames)[:drain_batch_max]: with a frame, the batch has every older one.
LEMMA BatchIsOldest ==
  ASSUME NEW n \in Batch, NEW m \in Pending, m < n
  PROVE  m \in Batch
<1> DEFINE older(k) == {j \in Pending : j < k}
<1>1. n \in Counters /\ m \in Counters /\ Cardinality(older(n)) < BatchMax
  BY DEF Batch, Pending
<1>2. \A j \in Pending : j \in Int
  BY CounterOfCamera DEF Pending
<1>3. n \in Int /\ m \in Int
  BY <1>1, CounterOfCamera
<1>4. older(m) \subseteq older(n)
  <2> SUFFICES ASSUME NEW j \in Pending, j < m PROVE j < n
    OBVIOUS
  <2>1. j \in Int
    BY <1>2
  <2> QED
    BY <1>3, <2>1
<1>5. older(n) \in SUBSET Counters /\ older(m) \in SUBSET Counters
  BY DEF Pending
<1>6. /\ IsFiniteSet(older(n)) /\ Cardinality(older(n)) \in Nat
      /\ Cardinality(older(m)) \in Nat
  BY <1>5, CountersFinite
<1>7. Cardinality(older(m)) <= Cardinality(older(n))
  BY <1>4, <1>6, FS_Subset
<1>8. Cardinality(older(m)) < BatchMax
  BY <1>1, <1>6, <1>7, CameraAssumption
<1> QED
  BY <1>8 DEF Batch

\* pending(): a scan keeps every frame ready to push, and what it moves or
\* deletes is nothing committed that is not in the archive.
LEMMA ScanEffect ==
  ASSUME DiskTypes, DiskInv, Scan, committed' = committed
  PROVE  /\ DiskTypes' /\ DiskInv' /\ Pending' = Pending
         /\ \A n \in Pending : queueJpg'[n] = queueJpg[n] /\ queueJson'[n] = queueJson[n]
         /\ counter' = counter /\ archiveJpg' = archiveJpg
<1> USE DEF DiskInv
<1>1. None \in Images
  BY DEF Images
<1>2. DiskTypes'
  BY <1>1 DEF DiskTypes, Scan
<1>3. counter' = counter /\ archiveJpg' = archiveJpg
  BY DEF Scan
<1>4. \A n \in Counters :
        /\ queueJpg'[n] = IF n \in Strays THEN None ELSE queueJpg[n]
        /\ queueJson'[n] = IF n \in HalfArchived THEN None ELSE queueJson[n]
        /\ archiveJson'[n] = IF n \in HalfArchived THEN queueJson[n] ELSE archiveJson[n]
  BY DEF Scan
<1>5. \A n \in Pending : n \in Counters /\ n \notin Strays /\ n \notin HalfArchived
  BY DEF Pending, Strays, HalfArchived
<1>6. Pending' = Pending
  BY <1>4, <1>5 DEF Pending
<1>7. FilesAreLogged'
  BY <1>3, <1>4 DEF FilesAreLogged
<1>8. NoHalfFrame'
  BY <1>3, <1>4 DEF NoHalfFrame, Strays, HalfArchived
<1>9. NothingLost'
  <2> SUFFICES ASSUME NEW c \in committed PROVE OnDevice(c[1], c[2])'
    BY DEF NothingLost
  <2>1. c[1] \in Counters /\ c[2] # None /\ OnDevice(c[1], c[2])
    BY CommittedPair DEF NothingLost
  <2>2. CASE c[1] \in HalfArchived
    <3>1. archiveJpg[c[1]] = queueJson[c[1]] /\ queueJpg[c[1]] = None
      BY <2>1, <2>2 DEF HalfArchived, NoHalfFrame
    <3> QED
      BY <1>3, <1>4, <2>1, <2>2, <3>1 DEF OnDevice
  <2>3. CASE c[1] \notin HalfArchived
    BY <1>3, <1>4, <2>1, <2>3 DEF OnDevice, Strays
  <2> QED
    BY <2>2, <2>3
<1>10. CounterNeverReused'
  BY DEF CounterNeverReused
<1> QED
  BY <1>2, <1>3, <1>4, <1>5, <1>6, <1>7, <1>8, <1>9, <1>10

-----------------------------------------------------------------------------
(* Steps that leave the files alone                                        *)

\* What holds of the files and the requests holds while nobody touches them.
LEMMA FilesUntouched ==
  ASSUME CameraInv, UNCHANGED <<disk, committed, drain, wire>>,
         ProcessTypes', OneAtWork', CaptureInv'
  PROVE  CameraInv'
<1> USE DEF CameraInv, disk
<1>1. CameraTypes' /\ DiskInv'
  BY DEF CameraTypes, DiskTypes, DiskInv, FilesAreLogged, NoHalfFrame, NothingLost, OnDevice, CounterNeverReused
<1>2. DrainInv' /\ RequestInv'
  BY DEF DrainInv, RequestInv
<1>3. DepthInv'
  BY DEF DepthInv, Pending
<1> QED
  BY <1>1, <1>2, <1>3

\* A capture that does not touch the files may move to any state in which it
\* has no counter yet, if it takes the lock or lets go of it with that.
LEMMA CaptureMoves ==
  ASSUME CameraInv, NEW p \in Captures, NEW new,
         UNCHANGED <<disk, committed, drain, wire>>,
         status' \in [captureOk : BOOLEAN, pushOk : BOOLEAN, depth : Int], taken' \in 0..MaxFrames,
         spent' \in [kills : Nat, faults : Nat, timeouts : Nat, corruptions : Nat],
         capture' = [capture EXCEPT ![p] = new],
         new \in [at : {"idle", "shot", "count", "except"}, frame : Images,
                  counter : Counters \union {0}],
         new.at \in {"shot", "count"} => new.frame \in Frames,
         \/ new.at = "count" /\ lock = Nobody /\ lock' = p
         \/ new.at # "count" /\ LetGo(p)
  PROVE  CameraInv'
<1> USE DEF CameraInv, CameraTypes, disk
<1>1. capture'[p] = new /\ \A q \in Captures \ {p} : capture'[q] = capture[q]
  BY DEF ProcessTypes
<1>2. ProcessTypes'
  BY <1>1 DEF ProcessTypes, LetGo
<1>3. OneAtWork'
  <2>1. Nobody \notin Captures /\ Drain \notin Captures /\ Nobody # Drain
    BY CameraAssumption
  <2>2. CASE new.at = "count" /\ lock = Nobody /\ lock' = p
    BY <1>1, <2>1, <2>2 DEF OneAtWork
  <2>3. CASE new.at # "count" /\ LetGo(p)
    <3>1. new.at \notin {"count", "jpg", "json", "status"}
      BY <2>3
    <3>2. lock' = IF lock = p THEN Nobody ELSE lock
      BY <2>3 DEF LetGo
    <3>3. \A q \in Captures : lock' = q <=> capture'[q].at \in {"count", "jpg", "json", "status"}
      BY <1>1, <2>1, <3>1, <3>2 DEF OneAtWork
    <3>4. lock' = Drain <=> lock = Drain
      BY <2>1, <3>2
    <3> QED
      BY <3>3, <3>4 DEF OneAtWork
  <2> QED
    BY <2>2, <2>3
<1>4. CaptureInv'
  <2>1. new.at \notin {"jpg", "json"}
    OBVIOUS
  <2> QED
    BY <1>1, <2>1 DEF CaptureInv
<1> QED
  BY <1>2, <1>3, <1>4, FilesUntouched

LEMMA QuietCaptureKeepsInv ==
  ASSUME CameraInv, NEW p \in Captures, UNCHANGED wire,
         Shoot(p) \/ CaptureLocks(p) \/ NoPicture(p) \/ CaptureRaises(p) \/ CaptureFails(p) \/ KillCapture(p)
  PROVE  CameraInv'
<1> USE DEF CameraInv, CameraTypes
<1>1. /\ capture[p] \in [at : {"idle", "shot", "count", "jpg", "json", "status", "except"},
                         frame : Images, counter : Counters \union {0}]
      /\ capture[p].at \in {"idle", "shot", "except"} => lock # p
      /\ capture[p].at = "shot" => capture[p].frame \in Frames
  BY DEF ProcessTypes, OneAtWork, CaptureInv
<1>2. \A budget \in {"kills", "faults"} : spent' = [spent EXCEPT ![budget] = @ + 1]
        => spent' \in [kills : Nat, faults : Nat, timeouts : Nat, corruptions : Nat]
  BY DEF ProcessTypes
<1>3. None \in Images /\ IdleCapture \in [at : {"idle"}, frame : Images, counter : Counters \union {0}]
  BY DEF Images, IdleCapture
<1>4. CASE Shoot(p)
  <2> DEFINE new == [at |-> "shot", frame |-> taken + 1, counter |-> 0]
  <2>1. taken + 1 \in Frames /\ taken' \in 0..MaxFrames
    BY <1>4, WireAssumption DEF Shoot, ProcessTypes, Frames
  <2>2. new \in [at : {"shot"}, frame : Images, counter : Counters \union {0}]
    BY <2>1 DEF Images
  <2>3. LetGo(p)
    BY <1>1, <1>4 DEF Shoot, LetGo
  <2> QED
    BY <1>4, <2>1, <2>2, <2>3, CaptureMoves DEF Shoot, ProcessTypes
<1>5. CASE CaptureLocks(p)
  <2> DEFINE new == [capture[p] EXCEPT !.at = "count"]
  <2>1. capture' = [capture EXCEPT ![p] = new]
    BY <1>5 DEF CaptureLocks, AtCapture
  <2>2. new \in [at : {"count"}, frame : Images, counter : Counters \union {0}] /\ new.frame \in Frames
    BY <1>1, <1>5 DEF CaptureLocks, AtCapture
  <2> QED
    BY <1>5, <2>1, <2>2, CaptureMoves DEF CaptureLocks, Acquire, ProcessTypes
<1>6. CASE NoPicture(p)
  <2> DEFINE new == [capture[p] EXCEPT !.at = "except"]
  <2>1. capture' = [capture EXCEPT ![p] = new]
    BY <1>6 DEF NoPicture, AtCapture
  <2>2. new \in [at : {"except"}, frame : Images, counter : Counters \union {0}]
    BY <1>1
  <2>3. LetGo(p)
    BY <1>1, <1>6 DEF NoPicture, AtCapture, LetGo
  <2> QED
    BY <1>6, <2>1, <2>2, <2>3, CaptureMoves DEF NoPicture, ProcessTypes
<1>7. CASE CaptureRaises(p)
  <2> DEFINE new == [IdleCapture EXCEPT !.at = "except"]
  <2>1. new \in [at : {"except"}, frame : Images, counter : Counters \union {0}]
    BY <1>3 DEF IdleCapture
  <2>2. spent' \in [kills : Nat, faults : Nat, timeouts : Nat, corruptions : Nat]
    BY <1>2, <1>7 DEF CaptureRaises, Spend, ProcessTypes
  <2> QED
    BY <1>7, <2>1, <2>2, CaptureMoves DEF CaptureRaises, ProcessTypes
<1>8. CASE CaptureFails(p)
  <2>1. status' \in [captureOk : BOOLEAN, pushOk : BOOLEAN, depth : Int]
    BY <1>8 DEF CaptureFails, UpdateStatus, ProcessTypes
  <2>2. LetGo(p)
    BY <1>1, <1>8 DEF CaptureFails, LetGo
  <2> QED
    BY <1>3, <1>8, <2>1, <2>2, CaptureMoves DEF CaptureFails, ProcessTypes
<1>9. CASE KillCapture(p)
  <2>1. spent' \in [kills : Nat, faults : Nat, timeouts : Nat, corruptions : Nat]
    BY <1>2, <1>9 DEF KillCapture, Spend
  <2> QED
    BY <1>3, <1>9, <2>1, CaptureMoves DEF KillCapture, ProcessTypes
<1> QED
  BY <1>4, <1>5, <1>6, <1>7, <1>8, <1>9

-----------------------------------------------------------------------------
(* The steps of a capture under the lock                                   *)

\* While a capture holds the lock no other capture is at work on the files, nor is the drain.
LEMMA CaptureAlone ==
  ASSUME CameraInv, NEW p \in Captures, capture[p].at \in {"count", "jpg", "json", "status"}
  PROVE  /\ lock = p
         /\ drain.at \in {"idle", "except"}
         /\ \A q \in Captures \ {p} : capture[q].at \notin {"count", "jpg", "json", "status"}
<1> USE DEF CameraInv
<1>1. lock = p /\ p # Drain
  BY CameraAssumption DEF OneAtWork
<1>2. drain.at \in {"idle", "push", "wait", "jpg", "json", "report", "except"}
  BY DEF CameraTypes, ProcessTypes
<1> QED
  BY <1>1, <1>2 DEF OneAtWork

LEMMA NextCounterKeepsInv ==
  ASSUME CameraInv, NEW p \in Captures, NextCounter(p), UNCHANGED wire
  PROVE  CameraInv'
<1> USE DEF CameraInv, CameraTypes
<1> DEFINE new == [capture[p] EXCEPT !.at = "jpg", !.counter = counter + 1]
<1>1. /\ capture[p].at = "count" /\ counter \in 0..MaxCounter /\ counter < MaxCounter
      /\ counter' = counter + 1 /\ capture' = [capture EXCEPT ![p] = new]
      /\ UNCHANGED <<queueJpg, queueJson, archiveJpg, archiveJson, status, lock, drain,
                     taken, spent, committed, wire>>
  BY DEF NextCounter, DiskTypes
<1>2. counter + 1 \in Counters /\ counter' \in 0..MaxCounter /\ counter' # Corrupt /\ counter # Corrupt
  BY <1>1, CameraAssumption DEF Counters, Corrupt
<1>3. /\ new \in [at : {"jpg"}, frame : Images, counter : Counters]
      /\ new.frame = capture[p].frame /\ new.counter = counter'
  BY <1>1, <1>2 DEF ProcessTypes
<1>4. new.frame \in Frames
  BY <1>1, <1>3 DEF CaptureInv
<1> HIDE DEF new
<1>5. capture'[p] = new /\ \A q \in Captures \ {p} : capture'[q] = capture[q]
  BY <1>1 DEF ProcessTypes
<1>6. CameraTypes'
  BY <1>1, <1>2, <1>3, <1>5 DEF DiskTypes, ProcessTypes
<1>7. OneAtWork'
  BY <1>1, <1>3, <1>5 DEF OneAtWork
<1>8. CaptureInv'
  <2>1. \A c \in committed : c[1] < counter' /\ c[1] <= counter'
    <3> SUFFICES ASSUME NEW c \in committed PROVE c[1] < counter' /\ c[1] <= counter'
      OBVIOUS
    <3>1. c[1] \in Int /\ c[1] <= counter
      BY <1>2, CommittedPair, CounterOfCamera DEF CaptureInv
    <3> QED
      BY <1>1, <3>1
  <2>2. \A q \in Captures \ {p} : capture[q].at \notin {"jpg", "json"}
    BY <1>1, CaptureAlone
  <2>3. counter' <= counter'
    BY <1>2
  <2> QED
    BY <1>1, <1>2, <1>3, <1>4, <1>5, <2>1, <2>2, <2>3 DEF CaptureInv
<1>9. DiskInv' /\ DrainInv' /\ RequestInv'
  BY <1>1 DEF DiskInv, FilesAreLogged, NoHalfFrame, NothingLost, OnDevice, CounterNeverReused, DrainInv, RequestInv
<1>10. DepthInv'
  BY <1>1 DEF DepthInv, Pending
<1> QED
  BY <1>6, <1>7, <1>8, <1>9, <1>10

\* A capture's counter names no file of a committed frame.
LEMMA FreshCounter ==
  ASSUME CameraInv, NEW p \in Captures, capture[p].at \in {"jpg", "json"}
  PROVE  LET n == capture[p].counter
         IN  /\ n \in Counters /\ queueJson[n] = None /\ archiveJpg[n] = None
             /\ archiveJson[n] = None
             /\ \A c \in committed : c[1] # n /\ c[1] < n
<1> USE DEF CameraInv, CameraTypes
<1> DEFINE n == capture[p].counter
<1>1. n \in Counters /\ \A c \in committed : c[1] < n
  BY DEF CaptureInv
<1>2. ASSUME NEW c \in committed PROVE c[1] # n
  <2>1. c[1] \in Int /\ n \in Int /\ c[1] < n
    BY <1>1, CommittedPair, CounterOfCamera
  <2> QED
    BY <2>1
<1>3. \A f : <<n, f>> \notin committed
  BY <1>2
<1>4. queueJson[n] = None /\ archiveJpg[n] = None
  BY <1>1, <1>3 DEF DiskInv, FilesAreLogged
<1>5. archiveJson[n] = None
  BY <1>1, <1>4 DEF DiskInv, NoHalfFrame
<1> QED
  BY <1>1, <1>2, <1>4, <1>5

LEMMA EnqueueJpgKeepsInv ==
  ASSUME CameraInv, NEW p \in Captures, EnqueueJpg(p), UNCHANGED wire
  PROVE  CameraInv'
<1> USE DEF CameraInv, CameraTypes
<1> DEFINE new == [capture[p] EXCEPT !.at = "json"]
           n == capture[p].counter
           f == capture[p].frame
<1>1. /\ capture[p].at = "jpg" /\ capture' = [capture EXCEPT ![p] = new]
      /\ queueJpg' = [queueJpg EXCEPT ![n] = f]
      /\ UNCHANGED <<counter, queueJson, archiveJpg, archiveJson, status, lock, drain,
                     taken, spent, committed, wire>>
  BY DEF EnqueueJpg, AtCapture
<1>2. /\ new \in [at : {"json"}, frame : Images, counter : Counters \union {0}]
      /\ new.frame = f /\ new.counter = n
  BY DEF ProcessTypes
<1>3. /\ n \in Counters /\ f \in Frames /\ f \in Images
      /\ queueJson[n] = None /\ archiveJpg[n] = None /\ archiveJson[n] = None
      /\ \A c \in committed : c[1] # n
  BY <1>1, FreshCounter DEF CaptureInv, Images
<1>4. drain.at \in {"idle", "except"} /\ \A q \in Captures \ {p} : capture[q].at \notin {"jpg", "json"}
  BY <1>1, CaptureAlone
<1> HIDE DEF new, n, f
<1>5. capture'[p] = new /\ \A q \in Captures \ {p} : capture'[q] = capture[q]
  BY <1>1 DEF ProcessTypes
<1>6. queueJpg'[n] = f /\ \A m \in Counters \ {n} : queueJpg'[m] = queueJpg[m]
  BY <1>1, <1>3 DEF DiskTypes
<1>7. CameraTypes'
  BY <1>1, <1>2, <1>3, <1>5 DEF DiskTypes, ProcessTypes
<1>8. OneAtWork'
  BY <1>1, <1>2, <1>5 DEF OneAtWork
<1>9. CaptureInv'
  BY <1>1, <1>2, <1>3, <1>4, <1>5, <1>6 DEF CaptureInv, n
<1>10. FilesAreLogged' /\ NoHalfFrame' /\ CounterNeverReused'
  BY <1>1, <1>3, <1>6 DEF DiskInv, FilesAreLogged, NoHalfFrame, CounterNeverReused
<1>11. NothingLost'
  BY <1>1, <1>3, <1>6, CommittedPair DEF DiskInv, NothingLost, OnDevice
<1>12. DrainInv' /\ RequestInv' /\ DepthInv'
  BY <1>1, <1>4 DEF DrainInv, RequestInv, DepthInv
<1> QED
  BY <1>7, <1>8, <1>9, <1>10, <1>11, <1>12 DEF DiskInv

LEMMA EnqueueJsonKeepsInv ==
  ASSUME CameraInv, NEW p \in Captures, EnqueueJson(p), UNCHANGED wire
  PROVE  CameraInv'
<1> USE DEF CameraInv, CameraTypes
<1> DEFINE new == [capture[p] EXCEPT !.at = "status"]
           n == capture[p].counter
           f == capture[p].frame
<1>1. /\ capture[p].at = "json" /\ capture' = [capture EXCEPT ![p] = new]
      /\ queueJson' = [queueJson EXCEPT ![n] = f]
      /\ committed' = committed \union {<<n, f>>}
      /\ UNCHANGED <<counter, queueJpg, archiveJpg, archiveJson, status, lock, drain,
                     taken, spent, wire>>
  BY DEF EnqueueJson, AtCapture
<1>2. new \in [at : {"status"}, frame : Images, counter : Counters \union {0}]
  BY DEF ProcessTypes
<1>3. /\ n \in Counters /\ f \in Frames /\ f \in Images /\ f # None /\ queueJpg[n] = f
      /\ queueJson[n] = None /\ archiveJpg[n] = None /\ archiveJson[n] = None
      /\ \A c \in committed : c[1] # n /\ c[1] < n
  BY <1>1, FreshCounter DEF CaptureInv, Images, Frames, None
<1>4. drain.at \in {"idle", "except"} /\ \A q \in Captures \ {p} : capture[q].at \notin {"jpg", "json"}
  BY <1>1, CaptureAlone
<1>5. counter # Corrupt => n <= counter
  BY <1>1 DEF CaptureInv
<1> HIDE DEF new, n, f
<1>6. capture'[p] = new /\ \A q \in Captures \ {p} : capture'[q] = capture[q]
  BY <1>1 DEF ProcessTypes
<1>7. queueJson'[n] = f /\ \A m \in Counters \ {n} : queueJson'[m] = queueJson[m]
  BY <1>1, <1>3 DEF DiskTypes
<1>8. DiskTypes'
  BY <1>1, <1>3 DEF DiskTypes
<1>9. CameraTypes'
  BY <1>1, <1>2, <1>6, <1>8 DEF ProcessTypes
<1>10. OneAtWork'
  BY <1>1, <1>2, <1>6 DEF OneAtWork
<1>11. <<n, f>>[1] = n /\ <<n, f>>[2] = f
  OBVIOUS
<1>12. \A c \in committed' : c \in committed \/ (c = <<n, f>> /\ c[1] = n /\ c[2] = f)
  BY <1>1, <1>11
<1>13. CaptureInv'
  <2>1. counter' # Corrupt => \A c \in committed' : c[1] <= counter'
    BY <1>1, <1>5, <1>12 DEF CaptureInv
  <2>2. \A q \in Captures : capture'[q].at \notin {"jpg", "json"}
    BY <1>2, <1>4, <1>6
  <2>3. \A q \in Captures : capture'[q].at \in {"shot", "count"} => capture'[q].frame \in Frames
    BY <1>2, <1>6 DEF CaptureInv
  <2> QED
    BY <2>1, <2>2, <2>3 DEF CaptureInv
<1>14. FilesAreLogged' /\ NoHalfFrame'
  BY <1>1, <1>3, <1>7 DEF DiskInv, FilesAreLogged, NoHalfFrame
<1>15. CounterNeverReused'
  BY <1>3, <1>12 DEF DiskInv, CounterNeverReused
<1>16. NothingLost'
  BY <1>1, <1>3, <1>7, <1>12, CommittedPair DEF DiskInv, NothingLost, OnDevice
<1>17. DrainInv' /\ DepthInv'
  BY <1>1, <1>4 DEF DrainInv, DepthInv
<1>18. RequestInv'
  <2> SUFFICES ASSUME NEW r \in Requests, wire[r].phase # "free", NEW c \in committed',
                      c[1] < wire[r].counter
               PROVE  archiveJpg[c[1]] # None
    BY <1>1 DEF RequestInv
  <2>1. CASE c \in committed
    BY <2>1 DEF RequestInv
  <2>2. CASE c[1] = n
    <3>1. <<wire[r].counter, wire[r].image>> \in committed
      BY DEF RequestInv
    <3>2. wire[r].counter < n /\ wire[r].counter \in Counters
      BY <1>3, <3>1 DEF DiskTypes
    <3>3. wire[r].counter \in Int /\ n \in Int
      BY <1>3, <3>2, CounterOfCamera
    <3> QED
      BY <2>2, <3>2, <3>3
  <2> QED
    BY <1>12, <2>1, <2>2
<1> QED
  BY <1>9, <1>10, <1>13, <1>14, <1>15, <1>16, <1>17, <1>18 DEF DiskInv

LEMMA CaptureDoneKeepsInv ==
  ASSUME CameraInv, NEW p \in Captures, CaptureDone(p), UNCHANGED wire
  PROVE  CameraInv'
<1> USE DEF CameraInv, CameraTypes
<1>1. /\ capture[p].at = "status" /\ capture' = [capture EXCEPT ![p] = IdleCapture]
      /\ status' = [status EXCEPT !.captureOk = TRUE, !.depth = Cardinality(Pending)]
      /\ lock' = IF lock = p THEN Nobody ELSE lock
      /\ UNCHANGED <<drain, taken, spent, committed, wire>>
  BY DEF CaptureDone, UpdateStatus, LetGo
<1>2. /\ DiskTypes' /\ DiskInv' /\ Pending' = Pending
      /\ counter' = counter /\ archiveJpg' = archiveJpg
  BY <1>1, ScanEffect DEF CaptureDone
<1>3. lock = p /\ drain.at \in {"idle", "except"}
      /\ \A q \in Captures \ {p} : capture[q].at \notin {"count", "jpg", "json", "status"}
  BY <1>1, CaptureAlone
<1>4. Cardinality(Pending) \in Int
  BY CountersFinite DEF Pending
<1>5. status' \in [captureOk : BOOLEAN, pushOk : BOOLEAN, depth : Int]
  BY <1>1, <1>4 DEF ProcessTypes
<1>6. IdleCapture \in [at : {"idle"}, frame : Images, counter : Counters \union {0}]
  BY DEF IdleCapture, Images
<1>7. capture'[p] = IdleCapture /\ \A q \in Captures \ {p} : capture'[q] = capture[q]
  BY <1>1 DEF ProcessTypes
<1>8. ProcessTypes'
  BY <1>1, <1>5, <1>6 DEF ProcessTypes
<1>9. OneAtWork'
  BY <1>1, <1>3, <1>6, <1>7, CameraAssumption DEF OneAtWork
<1>10. CaptureInv'
  BY <1>1, <1>2, <1>3, <1>6, <1>7 DEF CaptureInv
<1>11. DrainInv' /\ DepthInv' /\ RequestInv'
  BY <1>1, <1>2, <1>3 DEF DrainInv, DepthInv, RequestInv
<1> QED
  BY <1>1, <1>2, <1>5, <1>8, <1>9, <1>10, <1>11

-----------------------------------------------------------------------------
(* The steps of the drain                                                  *)

\* While the drain holds the lock no capture is at work on the files.
LEMMA DrainAlone ==
  ASSUME CameraInv, drain.at \in {"push", "wait", "jpg", "json", "report"}
  PROVE  /\ lock = Drain
         /\ \A q \in Captures : capture[q].at \notin {"count", "jpg", "json", "status"}
  BY CameraAssumption DEF CameraInv, OneAtWork

\* What holds of the captures holds while nobody works on the files but the drain.
LEMMA CapturesUntouched ==
  ASSUME CameraInv, UNCHANGED <<counter, capture, committed>>,
         queueJpg' = queueJpg \/ \A q \in Captures : capture[q].at # "json"
  PROVE  CaptureInv'
  BY DEF CameraInv, CaptureInv

LEMMA DrainLocksKeepsInv ==
  ASSUME CameraInv, DrainLocks
  PROVE  CameraInv'
<1> USE DEF CameraInv, CameraTypes
<1>1. /\ drain.at = "idle" /\ lock = Nobody /\ lock' = Drain
      /\ drain' = [IdleDrain EXCEPT !.at = "push", !.todo = Batch, !.depth = Cardinality(Pending)]
      /\ UNCHANGED <<status, capture, taken, spent, committed, wire>>
  BY DEF DrainLocks, Acquire
<1>2. /\ DiskTypes' /\ DiskInv' /\ Pending' = Pending
      /\ \A n \in Pending : queueJpg'[n] = queueJpg[n] /\ queueJson'[n] = queueJson[n]
      /\ counter' = counter /\ archiveJpg' = archiveJpg
  BY <1>1, ScanEffect DEF DrainLocks
<1>3. Cardinality(Pending) \in Int /\ Batch \subseteq Pending /\ Pending \subseteq Counters
  BY CountersFinite DEF Pending, Batch
<1>4. /\ drain'.at = "push" /\ drain'.todo = Batch /\ drain'.depth = Cardinality(Pending)
      /\ drain'.archived = 0
      /\ drain' \in [at : {"push"}, todo : SUBSET Counters, current : {0}, depth : Int,
                     archived : Int, failed : BOOLEAN, request : {Nobody}]
  <2> DEFINE depth == Cardinality(Pending)
             new == [at |-> "push", todo |-> Batch, current |-> 0, depth |-> depth, archived |-> 0,
                     failed |-> FALSE, request |-> Nobody]
  <2>1. drain' = new
    BY <1>1 DEF IdleDrain
  <2>2. Batch \in SUBSET Counters /\ depth \in Int
    BY <1>3
  <2> HIDE DEF depth
  <2>3. new \in [at : {"push"}, todo : SUBSET Counters, current : {0}, depth : Int,
                 archived : Int, failed : BOOLEAN, request : {Nobody}]
    BY <2>2
  <2> QED
    BY <2>1, <2>3 DEF depth
<1>5. ProcessTypes'
  BY <1>1, <1>4 DEF ProcessTypes
<1>6. \A q \in Captures : capture[q].at \notin {"count", "jpg", "json", "status"}
  BY <1>1, CameraAssumption DEF OneAtWork
<1>7. OneAtWork'
  BY <1>1, <1>4, <1>6, CameraAssumption DEF OneAtWork
<1>8. CaptureInv'
  BY <1>1, <1>2, <1>6, CapturesUntouched
<1>9. DrainInv'
  <2>1. \A n \in Batch : queueJson'[n] # None /\ queueJpg'[n] = queueJson'[n]
    BY <1>2, <1>3 DEF Pending, DiskInv, NoHalfFrame
  <2>2. ASSUME NEW c \in committed, NEW n \in Batch, c[1] < n, archiveJpg[c[1]] = None
        PROVE  c[1] \in Batch
    <3>1. c[1] \in Counters /\ c[2] # None /\ OnDevice(c[1], c[2])
      BY CommittedPair DEF DiskInv, NothingLost
    <3>2. c[1] \in Pending
      BY <2>2, <3>1 DEF OnDevice, Pending
    <3> QED
      BY <2>2, <3>2, BatchIsOldest
  <2> QED
    BY <1>1, <1>2, <1>4, <2>1, <2>2 DEF DrainInv
<1>10. DepthInv'
  BY <1>2, <1>3, <1>4 DEF DepthInv
<1>11. RequestInv'
  BY <1>1, <1>2, <1>4 DEF RequestInv
<1> QED
  BY <1>1, <1>2, <1>5, <1>7, <1>8, <1>9, <1>10, <1>11

\* The frame pushed is committed, and every older one is archived.
LEMMA PushedFrame ==
  ASSUME CameraInv, NEW r \in Requests, NEW n \in Counters, PushFrame(r, n)
  PROVE  /\ queueJpg[n] \in Frames /\ queueJson[n] = queueJpg[n]
         /\ <<n, queueJpg[n]>> \in committed /\ archiveJpg[n] = None
         /\ \A c \in committed : c[1] < n => archiveJpg[c[1]] # None
<1> USE DEF CameraInv, CameraTypes
<1>1. drain.at = "push" /\ n \in drain.todo /\ \A m \in drain.todo : n <= m
  BY DEF PushFrame
<1>2. queueJson[n] # None /\ queueJpg[n] = queueJson[n]
  BY <1>1 DEF DrainInv
<1>3. queueJpg[n] \in Frames
  BY <1>2 DEF DiskTypes, Images
<1>4. <<n, queueJpg[n]>> \in committed /\ archiveJpg[n] = None
  BY <1>2 DEF DiskInv, FilesAreLogged
<1>5. ASSUME NEW c \in committed, c[1] < n PROVE archiveJpg[c[1]] # None
  <2>1. c[1] \in drain.todo \/ archiveJpg[c[1]] # None
    BY <1>1, <1>5 DEF DrainInv
  <2>2. c[1] \in Int /\ n \in Int
    BY CommittedPair, CounterOfCamera
  <2> QED
    BY <1>1, <1>5, <2>1, <2>2
<1> QED
  BY <1>2, <1>3, <1>4, <1>5

LEMMA PushFrameKeepsInv ==
  ASSUME CameraInv, NEW r \in Requests, NEW n \in Counters, PushFrame(r, n)
  PROVE  CameraInv'
<1> USE DEF CameraInv, CameraTypes
<1> DEFINE new == [phase |-> "sent", awaited |-> TRUE, form |-> "good", counter |-> n,
                   image |-> queueJpg[n], sha |-> queueJson[n], status |-> NoAnswer]
<1>1. /\ drain.at = "push" /\ n \in drain.todo
      /\ wire[r].phase = "free" /\ wire' = [wire EXCEPT ![r] = new]
      /\ drain' = [drain EXCEPT !.at = "wait", !.current = n, !.request = r]
      /\ UNCHANGED <<disk, status, lock, capture, taken, spent, committed>>
  BY DEF PushFrame, Post
<1>2. /\ queueJpg[n] \in Frames /\ queueJson[n] = queueJpg[n]
      /\ <<n, queueJpg[n]>> \in committed
      /\ \A c \in committed : c[1] < n => archiveJpg[c[1]] # None
  BY PushedFrame
<1>3. /\ new \in PostedSlots /\ new.phase = "sent" /\ new.awaited /\ new.form = "good"
      /\ new.counter = n /\ new.image = queueJpg[n] /\ new.sha = queueJpg[n]
  BY <1>2 DEF PostedSlots, Forms, Images, NoAnswer
<1> HIDE DEF new
<1>4. wire'[r] = new /\ \A s \in Requests \ {r} : wire'[s] = wire[s]
  BY <1>1
<1>5. /\ drain'.at = "wait" /\ drain'.current = n /\ drain'.request = r
      /\ drain'.todo = drain.todo /\ drain'.depth = drain.depth /\ drain'.archived = drain.archived
      /\ ProcessTypes'
  BY <1>1 DEF ProcessTypes
<1>6. CameraTypes' /\ OneAtWork'
  BY <1>1, <1>3, <1>5 DEF disk, DiskTypes, OneAtWork
<1>7. DiskInv' /\ CaptureInv'
  BY <1>1, CapturesUntouched
     DEF disk, DiskInv, FilesAreLogged, NoHalfFrame, NothingLost, OnDevice, CounterNeverReused
<1>8. DrainInv'
  BY <1>1, <1>5 DEF disk, DrainInv
<1>9. DepthInv'
  BY <1>1, <1>5 DEF disk, DepthInv, Pending
<1>10. RequestInv'
  <2>1. \A s \in Requests : ~wire[s].awaited
    BY <1>1 DEF RequestInv
  <2> QED
    BY <1>1, <1>2, <1>3, <1>4, <1>5, <2>1 DEF disk, RequestInv
<1> QED
  BY <1>6, <1>7, <1>8, <1>9, <1>10

\* Its request read or given up, the drain awaits none.
LEMMA StopsWaiting ==
  ASSUME CameraInv, drain.at = "wait", ReadAnswer(drain.request) \/ GiveUp(drain.request)
  PROVE  /\ wire' \in [Requests -> PostedSlots]
         /\ \A r \in Requests :
              /\ ~wire'[r].awaited
              /\ wire'[r].phase # "free" => /\ wire'[r].phase = wire[r].phase
                                            /\ wire'[r].form = wire[r].form
                                            /\ wire'[r].counter = wire[r].counter
                                            /\ wire'[r].image = wire[r].image
                                            /\ wire'[r].sha = wire[r].sha
<1> USE DEF CameraInv, CameraTypes
<1> DEFINE r == drain.request
<1>1. r \in Requests /\ \A s \in Requests : wire[s].awaited => s = r
  BY DEF RequestInv
<1>2. FreeSlot \in PostedSlots /\ FreeSlot.phase = "free" /\ ~FreeSlot.awaited
  BY DEF FreeSlot, PostedSlots, Forms, Images
<1>3. CASE wire' = [wire EXCEPT ![r] = FreeSlot]
  BY <1>1, <1>2, <1>3
<1>4. CASE wire' = [wire EXCEPT ![r].awaited = FALSE] /\ wire[r].phase \in {"sent", "serving"}
  <2> DEFINE new == [wire[r] EXCEPT !.awaited = FALSE]
  <2> HIDE DEF r
  <2>0. wire[r] \in PostedSlots
    BY <1>1
  <2>1. /\ new \in PostedSlots /\ ~new.awaited /\ new.phase = wire[r].phase
        /\ new.form = wire[r].form /\ new.counter = wire[r].counter
        /\ new.image = wire[r].image /\ new.sha = wire[r].sha
    BY <2>0 DEF PostedSlots
  <2>2. wire' = [wire EXCEPT ![r] = new]
    BY <1>4
  <2> HIDE DEF new
  <2> QED
    BY <1>1, <1>4, <2>1, <2>2
<1> QED
  BY <1>3, <1>4 DEF ReadAnswer, GiveUp

\* A step of the drain that leaves the files alone and awaits no answer.
LEMMA DrainMoves ==
  ASSUME CameraInv, UNCHANGED <<disk, capture, taken, committed>>,
         status' \in [captureOk : BOOLEAN, pushOk : BOOLEAN, depth : Int],
         spent' \in [kills : Nat, faults : Nat, timeouts : Nat, corruptions : Nat],
         drain' \in [at : {"idle", "jpg", "report", "except"}, todo : SUBSET Counters,
                     current : Counters \union {0}, depth : Int, archived : Int,
                     failed : BOOLEAN, request : Requests \union {Nobody}],
         \/ UNCHANGED wire /\ drain.at # "wait"
         \/ drain.at = "wait" /\ (ReadAnswer(drain.request) \/ GiveUp(drain.request)),
         \/ /\ drain'.at \in {"jpg", "report"} /\ drain.at = "wait" /\ UNCHANGED lock
            /\ drain'.todo = drain.todo /\ drain'.current = drain.current
            /\ drain'.depth = drain.depth /\ drain'.archived = drain.archived
         \/ drain'.at \in {"idle", "except"} /\ LetGo(Drain)
  PROVE  CameraInv'
<1> USE DEF CameraInv, CameraTypes
<1>1. /\ wire' \in [Requests -> PostedSlots]
      /\ \A r \in Requests :
           /\ ~wire'[r].awaited
           /\ wire'[r].phase # "free" => /\ wire[r].phase # "free"
                                         /\ wire'[r].form = wire[r].form
                                         /\ wire'[r].counter = wire[r].counter
                                         /\ wire'[r].image = wire[r].image
                                         /\ wire'[r].sha = wire[r].sha
  <2>1. CASE UNCHANGED wire /\ drain.at # "wait"
    BY <2>1 DEF RequestInv
  <2> QED
    BY <2>1, StopsWaiting
<1>2. drain'.at \in {"idle", "jpg", "report", "except"}
  OBVIOUS
<1>3. RequestInv'
  BY <1>1, <1>2 DEF RequestInv, disk
<1>4. CameraTypes'
  <2>1. ProcessTypes'
    BY DEF ProcessTypes, LetGo
  <2> QED
    BY <1>1, <2>1 DEF DiskTypes, disk
<1>5. OneAtWork'
  <2>1. Nobody \notin Captures /\ Drain \notin Captures /\ Nobody # Drain
    BY CameraAssumption
  <2>2. CASE drain'.at \in {"jpg", "report"} /\ drain.at = "wait" /\ UNCHANGED lock
    BY <2>2 DEF OneAtWork
  <2>3. CASE drain'.at \in {"idle", "except"} /\ LetGo(Drain)
    BY <2>1, <2>3 DEF OneAtWork, LetGo
  <2> QED
    BY <2>2, <2>3
<1>6. DiskInv' /\ CaptureInv'
  BY CapturesUntouched
     DEF disk, DiskInv, FilesAreLogged, NoHalfFrame, NothingLost, OnDevice, CounterNeverReused
<1>7. DrainInv'
  BY <1>2 DEF disk, DrainInv
<1>8. DepthInv'
  BY <1>2 DEF disk, DepthInv, Pending
<1> QED
  BY <1>3, <1>4, <1>5, <1>6, <1>7, <1>8

LEMMA QuietDrainKeepsInv ==
  ASSUME CameraInv,
         PushAnswered \/ PushTimesOut \/ DrainReports \/ DrainRaises \/ DrainFails \/ KillDrain
  PROVE  CameraInv'
<1> USE DEF CameraInv, CameraTypes
<1> DEFINE Quiet == [at : {"idle", "jpg", "report", "except"}, todo : SUBSET Counters,
                     current : Counters \union {0}, depth : Int, archived : Int,
                     failed : BOOLEAN, request : Requests \union {Nobody}]
           Reports == [captureOk : BOOLEAN, pushOk : BOOLEAN, depth : Int]
           Spendings == [kills : Nat, faults : Nat, timeouts : Nat, corruptions : Nat]
<1>1. IdleDrain \in Quiet /\ IdleDrain.at = "idle"
      /\ [IdleDrain EXCEPT !.at = "except"] \in Quiet /\ [IdleDrain EXCEPT !.at = "except"].at = "except"
  <2>1. IdleDrain \in Quiet /\ IdleDrain.at = "idle"
    BY DEF IdleDrain
  <2> QED
    BY <2>1
<1>2. /\ status \in Reports /\ spent \in Spendings
      /\ drain \in [at : {"idle", "push", "wait", "jpg", "json", "report", "except"},
                    todo : SUBSET Counters, current : Counters \union {0}, depth : Int,
                    archived : Int, failed : BOOLEAN, request : Requests \union {Nobody}]
  BY DEF ProcessTypes
<1>3. \A budget \in {"kills", "faults", "timeouts"} :
        spent' = [spent EXCEPT ![budget] = @ + 1] => spent' \in Spendings
  BY <1>2
<1>4. CASE PushAnswered
  <2> DEFINE acked == Acknowledged(wire[drain.request].status)
  <2>1. /\ drain.at = "wait" /\ ReadAnswer(drain.request)
        /\ drain' = [drain EXCEPT !.at = IF acked THEN "jpg" ELSE "report",
                                  !.failed = ~acked, !.request = Nobody]
        /\ UNCHANGED <<disk, status, lock, capture, taken, spent, committed>>
    BY <1>4 DEF PushAnswered
  <2>2. acked \in BOOLEAN
    BY DEF Acknowledged
  <2> HIDE DEF acked
  <2>3. /\ drain' \in Quiet /\ drain'.at \in {"jpg", "report"}
        /\ drain'.todo = drain.todo /\ drain'.current = drain.current
        /\ drain'.depth = drain.depth /\ drain'.archived = drain.archived
    BY <1>2, <2>1, <2>2
  <2> QED
    BY <1>2, <2>1, <2>3, DrainMoves
<1>5. CASE PushTimesOut
  <2>1. /\ drain.at = "wait" /\ GiveUp(drain.request)
        /\ drain' = [drain EXCEPT !.at = "report", !.failed = TRUE, !.request = Nobody]
        /\ UNCHANGED <<disk, status, lock, capture, taken, committed>>
        /\ spent' = [spent EXCEPT !["timeouts"] = @ + 1]
    BY <1>5 DEF PushTimesOut, Spend
  <2>2. /\ drain' \in Quiet /\ drain'.at = "report"
        /\ drain'.todo = drain.todo /\ drain'.current = drain.current
        /\ drain'.depth = drain.depth /\ drain'.archived = drain.archived
    BY <1>2, <2>1
  <2>3. spent' \in Spendings
    BY <1>3, <2>1
  <2> QED
    BY <1>2, <2>1, <2>2, <2>3, DrainMoves
<1>6. CASE DrainReports
  <2> DEFINE depth == drain.depth - drain.archived
  <2>2. status' = [status EXCEPT !.pushOk = ~drain.failed, !.depth = depth]
    BY <1>6 DEF DrainReports, UpdateStatus
  <2>3. depth \in Int /\ drain.failed \in BOOLEAN
    BY <1>2
  <2> HIDE DEF depth
  <2>1. status' \in Reports
    BY <1>2, <2>2, <2>3
  <2> QED
    BY <1>1, <1>2, <1>6, <2>1, DrainMoves DEF DrainReports
<1>7. CASE DrainRaises
  <2>1. spent' \in Spendings
    BY <1>3, <1>7 DEF DrainRaises, Spend
  <2> QED
    BY <1>1, <1>2, <1>7, <2>1, DrainMoves DEF DrainRaises
<1>8. CASE DrainFails
  <2>1. status' \in Reports
    BY <1>2, <1>8 DEF DrainFails, UpdateStatus
  <2>2. LetGo(Drain)
    BY <1>8, CameraAssumption DEF DrainFails, LetGo
  <2> QED
    BY <1>1, <1>2, <1>8, <2>1, <2>2, DrainMoves DEF DrainFails
<1>9. CASE KillDrain
  <2>1. spent' \in Spendings
    BY <1>3, <1>9 DEF KillDrain, Spend
  <2> QED
    BY <1>1, <1>2, <1>9, <2>1, DrainMoves DEF KillDrain
<1> QED
  BY <1>4, <1>5, <1>6, <1>7, <1>8, <1>9

\* The frame being archived loses its place in the queue and no other does.
LEMMA ArchiveJpgKeepsInv ==
  ASSUME CameraInv, ArchiveJpg
  PROVE  CameraInv'
<1> USE DEF CameraInv, CameraTypes
<1> DEFINE n == drain.current
<1>1. /\ drain.at = "jpg" /\ drain' = [drain EXCEPT !.at = "json"]
      /\ archiveJpg' = [archiveJpg EXCEPT ![n] = queueJpg[n]]
      /\ queueJpg' = [queueJpg EXCEPT ![n] = None]
      /\ UNCHANGED <<counter, queueJson, archiveJson, status, lock, capture, taken,
                     spent, committed, wire>>
  BY DEF ArchiveJpg, AtDrain
<1>2. /\ n \in drain.todo /\ n \in Counters /\ drain.todo \subseteq Counters
      /\ \A m \in drain.todo : queueJson[m] # None /\ queueJpg[m] = queueJson[m]
  BY <1>1 DEF DrainInv, ProcessTypes
<1>3. archiveJpg[n] = None /\ <<n, queueJson[n]>> \in committed
  BY <1>2 DEF DiskInv, FilesAreLogged
<1>4. /\ drain'.at = "json" /\ drain'.current = n /\ drain'.todo = drain.todo
      /\ drain'.depth = drain.depth /\ drain'.archived = drain.archived /\ drain'.request = drain.request
      /\ ProcessTypes'
  BY <1>1 DEF ProcessTypes
<1>5. lock = Drain /\ \A q \in Captures : capture[q].at \notin {"count", "jpg", "json", "status"}
  BY <1>1, DrainAlone
<1>6. DiskTypes'
  BY <1>1, <1>2 DEF DiskTypes, Images
<1> HIDE DEF n
<1>7. /\ queueJpg'[n] = None /\ archiveJpg'[n] = queueJson[n]
      /\ \A m \in Counters \ {n} : queueJpg'[m] = queueJpg[m] /\ archiveJpg'[m] = archiveJpg[m]
  BY <1>1, <1>2 DEF DiskTypes
<1>8. OneAtWork' /\ CaptureInv'
  BY <1>1, <1>4, <1>5, CapturesUntouched DEF OneAtWork
<1>9. FilesAreLogged' /\ NoHalfFrame' /\ CounterNeverReused'
  <2>1. archiveJson[n] = None
    BY <1>2, <1>3 DEF DiskInv, NoHalfFrame
  <2> QED
    BY <1>1, <1>3, <1>7, <2>1 DEF DiskInv, FilesAreLogged, NoHalfFrame, CounterNeverReused
<1>10. NothingLost'
  <2> SUFFICES ASSUME NEW c \in committed PROVE OnDevice(c[1], c[2])'
    BY <1>1 DEF NothingLost
  <2>1. c[1] \in Counters /\ c[2] # None /\ OnDevice(c[1], c[2])
    BY CommittedPair DEF DiskInv, NothingLost
  <2>2. CASE c[1] = n
    BY <1>1, <1>2, <1>3, <1>7, <2>1, <2>2 DEF OnDevice
  <2>3. CASE c[1] # n
    BY <1>1, <1>7, <2>1, <2>3 DEF OnDevice
  <2> QED
    BY <2>2, <2>3
<1>11. DrainInv'
  <2>1. \A c \in committed : archiveJpg[c[1]] # None => archiveJpg'[c[1]] # None
    BY <1>2, <1>7, CommittedPair
  <2>2. \A c \in committed, m \in drain.todo :
          c[1] < m => c[1] \in drain.todo \/ archiveJpg[c[1]] # None
    BY <1>1 DEF DrainInv
  <2>3. \A m \in drain.todo : queueJson[m] # None
                              /\ queueJpg'[m] = IF m = n THEN None ELSE queueJson[m]
    BY <1>2, <1>7
  <2> QED
    BY <1>1, <1>2, <1>4, <1>7, <2>1, <2>2, <2>3 DEF DrainInv
<1>12. DepthInv'
  <2>1. n \in Pending /\ Pending' = Pending \ {n}
    BY <1>1, <1>2, <1>7 DEF Pending
  <2>2. IsFiniteSet(Pending) /\ Cardinality(Pending) \in Nat
    BY CountersFinite DEF Pending
  <2>3. Cardinality(Pending') = Cardinality(Pending) - 1
    BY <2>1, <2>2, FS_RemoveElement
  <2>4. drain.depth - drain.archived = Cardinality(Pending)
    BY <1>1 DEF DepthInv
  <2> QED
    BY <1>4, <2>2, <2>3, <2>4 DEF DepthInv
<1>13. RequestInv'
  <2>1. \A c \in committed : archiveJpg[c[1]] # None => archiveJpg'[c[1]] # None
    BY <1>2, <1>7, CommittedPair
  <2> QED
    BY <1>1, <1>4, <2>1 DEF RequestInv
<1> QED
  BY <1>1, <1>4, <1>6, <1>8, <1>9, <1>10, <1>11, <1>12, <1>13 DEF DiskInv

LEMMA ArchiveJsonKeepsInv ==
  ASSUME CameraInv, ArchiveJson
  PROVE  CameraInv'
<1> USE DEF CameraInv, CameraTypes
<1> DEFINE n == drain.current
<1>1. /\ drain.at = "json"
      /\ drain' = [drain EXCEPT !.at = "push", !.todo = @ \ {n}, !.archived = @ + 1]
      /\ archiveJson' = [archiveJson EXCEPT ![n] = queueJson[n]]
      /\ queueJson' = [queueJson EXCEPT ![n] = None]
      /\ UNCHANGED <<counter, queueJpg, archiveJpg, status, lock, capture, taken,
                     spent, committed, wire>>
  BY DEF ArchiveJson
<1>2. /\ n \in drain.todo /\ n \in Counters /\ drain.todo \subseteq Counters
      /\ queueJpg[n] = None /\ queueJson[n] # None /\ archiveJpg[n] = queueJson[n]
      /\ \A m \in drain.todo \ {n} : queueJson[m] # None /\ queueJpg[m] = queueJson[m]
  BY <1>1 DEF DrainInv, ProcessTypes
<1>3. /\ drain'.at = "push" /\ drain'.todo = drain.todo \ {n} /\ drain'.depth = drain.depth
      /\ drain'.archived = drain.archived + 1 /\ drain'.request = drain.request
      /\ ProcessTypes' /\ drain.depth \in Int /\ drain.archived \in Int
  <2> HIDE DEF n
  <2>1. drain.depth \in Int /\ drain.archived \in Int /\ drain.todo \in SUBSET Counters
    BY DEF ProcessTypes
  <2>2. /\ drain'.at = "push" /\ drain'.todo = drain.todo \ {n} /\ drain'.depth = drain.depth
        /\ drain'.archived = drain.archived + 1 /\ drain'.request = drain.request
    BY <1>1 DEF ProcessTypes
  <2>3. drain.todo \ {n} \in SUBSET Counters /\ drain.archived + 1 \in Int
    BY <2>1
  <2>4. ProcessTypes'
    BY <1>1, <2>3 DEF ProcessTypes
  <2> QED
    BY <2>1, <2>2, <2>4
<1>4. lock = Drain /\ \A q \in Captures : capture[q].at \notin {"count", "jpg", "json", "status"}
  BY <1>1, DrainAlone
<1>5. DiskTypes'
  BY <1>1, <1>2 DEF DiskTypes, Images
<1> HIDE DEF n
<1>6. /\ queueJson'[n] = None /\ archiveJson'[n] = archiveJpg[n]
      /\ \A m \in Counters \ {n} : queueJson'[m] = queueJson[m] /\ archiveJson'[m] = archiveJson[m]
  BY <1>1, <1>2 DEF DiskTypes
<1>7. OneAtWork' /\ CaptureInv'
  BY <1>1, <1>3, <1>4, CapturesUntouched DEF OneAtWork
<1>8. FilesAreLogged' /\ NoHalfFrame' /\ CounterNeverReused'
  <2>1. FilesAreLogged'
    <3> SUFFICES ASSUME NEW m \in Counters
                 PROVE  /\ queueJson'[m] # None => <<m, queueJson'[m]>> \in committed
                        /\ archiveJpg[m] # None => <<m, archiveJpg[m]>> \in committed
                        /\ queueJpg[m] # None /\ queueJson'[m] # None => archiveJpg[m] = None
      BY <1>1 DEF FilesAreLogged
    <3>1. queueJson'[m] # None => queueJson'[m] = queueJson[m]
      BY <1>6
    <3> QED
      BY <3>1 DEF DiskInv, FilesAreLogged
  <2>2. NoHalfFrame' /\ CounterNeverReused'
    BY <1>1, <1>6 DEF DiskInv, NoHalfFrame, CounterNeverReused
  <2> QED
    BY <2>1, <2>2
<1>9. NothingLost'
  <2> SUFFICES ASSUME NEW c \in committed PROVE OnDevice(c[1], c[2])'
    BY <1>1 DEF NothingLost
  <2>1. c[1] \in Counters /\ c[2] # None /\ OnDevice(c[1], c[2])
    BY CommittedPair DEF DiskInv, NothingLost
  <2>2. CASE c[1] = n
    BY <1>1, <1>2, <1>6, <2>1, <2>2 DEF OnDevice
  <2>3. CASE c[1] # n
    BY <1>1, <1>6, <2>1, <2>3 DEF OnDevice
  <2> QED
    BY <2>2, <2>3
<1>10. DrainInv'
  <2>1. \A c \in committed, m \in drain.todo :
          c[1] < m => c[1] \in drain.todo \/ archiveJpg[c[1]] # None
    BY <1>1 DEF DrainInv
  <2> QED
    BY <1>1, <1>2, <1>3, <1>6, <2>1 DEF DrainInv
<1>11. DepthInv'
  <2>1. Pending' = Pending
    BY <1>1, <1>2, <1>6 DEF Pending
  <2>2. Cardinality(Pending) \in Int
    BY CountersFinite DEF Pending
  <2>3. drain.depth - drain.archived = Cardinality(Pending) + 1
    BY <1>1 DEF DepthInv
  <2> QED
    BY <1>3, <2>1, <2>2, <2>3 DEF DepthInv
<1>12. RequestInv'
  BY <1>1, <1>3 DEF RequestInv
<1> QED
  BY <1>1, <1>3, <1>5, <1>7, <1>8, <1>9, <1>10, <1>11, <1>12 DEF DiskInv

-----------------------------------------------------------------------------
(* The counter file, the backend, and the whole camera                     *)

LEMMA CounterStepKeepsInv ==
  ASSUME CameraInv, NEW seen \in Nat, Reseedable(seen), UNCHANGED wire,
         LoseCounter \/ \E value \in 0..MaxSeed : SeedCounter(value, seen)
  PROVE  CameraInv'
<1> USE DEF CameraInv, CameraTypes
<1>1. /\ UNCHANGED <<queueJpg, queueJson, archiveJpg, archiveJson, status, lock, capture,
                     drain, taken, committed, wire>>
      /\ spent' = spent \/ spent' = [spent EXCEPT !["corruptions"] = @ + 1]
      /\ counter' \in 0..MaxCounter \union {Corrupt}
  BY CameraAssumption DEF LoseCounter, SeedCounter, Spend
<1>2. spent' \in [kills : Nat, faults : Nat, timeouts : Nat, corruptions : Nat]
  BY <1>1 DEF ProcessTypes
<1>3. CaptureInv'
  <2>1. CASE LoseCounter
    BY <1>1, <2>1 DEF LoseCounter, CaptureInv
  <2>2. ASSUME NEW value \in 0..MaxSeed, SeedCounter(value, seen) PROVE CaptureInv'
    <3>1. /\ counter = Corrupt /\ lock = Nobody /\ value > seen /\ counter' = value
          /\ SeedAboveQueue => \A n \in Counters : queueJson[n] # None => value >= n
      BY <2>2 DEF SeedCounter
    <3>2. \A n \in Counters : /\ queueJson[n] # None => value >= n
                              /\ archiveJpg[n] # None => n <= seen
      BY <3>1 DEF Reseedable
    <3>3. \A q \in Captures : capture[q].at \notin {"jpg", "json"}
      BY <3>1, CameraAssumption DEF OneAtWork
    <3>4. ASSUME NEW c \in committed PROVE c[1] <= value
      <4>1. c[1] \in Counters /\ c[2] # None /\ OnDevice(c[1], c[2])
        BY CommittedPair DEF DiskInv, NothingLost
      <4>2. c[1] \in Int /\ value \in Int /\ seen \in Int
        BY <4>1, CounterOfCamera
      <4>3. queueJson[c[1]] # None \/ archiveJpg[c[1]] # None
        BY <4>1 DEF OnDevice
      <4> QED
        BY <3>1, <3>2, <4>1, <4>2, <4>3
    <3> QED
      BY <1>1, <3>1, <3>3, <3>4 DEF CaptureInv
  <2> QED
    BY <2>1, <2>2
<1>4. CameraTypes' /\ OneAtWork'
  BY <1>1, <1>2 DEF DiskTypes, ProcessTypes, OneAtWork
<1>5. DiskInv'
  BY <1>1 DEF DiskInv, FilesAreLogged, NoHalfFrame, NothingLost, OnDevice, CounterNeverReused
<1>6. DrainInv' /\ RequestInv'
  BY <1>1 DEF DrainInv, RequestInv
<1>7. DepthInv'
  BY <1>1 DEF DepthInv, Pending
<1> QED
  BY <1>3, <1>4, <1>5, <1>6, <1>7

LEMMA CameraStepKeepsInv ==
  ASSUME CameraInv, NEW seen \in Nat, Reseedable(seen), CameraStep(seen)
  PROVE  CameraInv'
<1>1. ASSUME NEW p \in Captures, CaptureStep(p), UNCHANGED wire PROVE CameraInv'
  BY <1>1, QuietCaptureKeepsInv, NextCounterKeepsInv, EnqueueJpgKeepsInv, EnqueueJsonKeepsInv,
     CaptureDoneKeepsInv DEF CaptureStep
<1>2. CASE DrainStep
  <2>1. ASSUME NEW r \in Requests, NEW n \in Counters, PushFrame(r, n) PROVE CameraInv'
    BY <2>1, PushFrameKeepsInv
  <2> QED
    BY <1>2, <2>1, DrainLocksKeepsInv, QuietDrainKeepsInv, ArchiveJpgKeepsInv, ArchiveJsonKeepsInv
       DEF DrainStep
<1> QED
  BY <1>1, <1>2, CounterStepKeepsInv DEF CameraStep

\* What a backend does to a request: it serves or answers it, and forgets it
\* if nobody awaits the answer.
Served(r) ==
  \/ wire'[r] = wire[r]
  \/ wire[r].phase # "free" /\ ~wire[r].awaited /\ wire'[r] = FreeSlot
  \/ /\ wire[r].phase # "free" /\ wire'[r].phase # "free" /\ wire'[r].awaited = wire[r].awaited
     /\ wire'[r].form = wire[r].form /\ wire'[r].counter = wire[r].counter
     /\ wire'[r].image = wire[r].image /\ wire'[r].sha = wire[r].sha

LEMMA BackendKeepsCamera ==
  ASSUME CameraInv, UNCHANGED cameraVars, wire' \in [Requests -> PostedSlots],
         \A r \in Requests : Served(r)
  PROVE  CameraInv'
<1> USE DEF CameraInv, CameraTypes, cameraVars, disk
<1>1. RequestInv'
  <2>1. FreeSlot.phase = "free" /\ ~FreeSlot.awaited
    BY DEF FreeSlot
  <2>2. \A r \in Requests : wire'[r].phase # "free" =>
          /\ wire[r].phase # "free" /\ wire'[r].form = wire[r].form
          /\ wire'[r].counter = wire[r].counter
          /\ wire'[r].image = wire[r].image /\ wire'[r].sha = wire[r].sha
    BY <2>1 DEF Served
  <2>3. \A r \in Requests : /\ wire'[r].awaited => wire[r].awaited
                            /\ wire[r].awaited => /\ wire'[r].awaited
                                                  /\ wire[r].phase # "free" => wire'[r].phase # "free"
                                                  /\ wire'[r].counter = wire[r].counter
    BY <2>1 DEF Served
  <2> QED
    BY <2>2, <2>3 DEF RequestInv
<1>2. CameraTypes' /\ OneAtWork' /\ CaptureInv' /\ DrainInv'
  BY DEF DiskTypes, ProcessTypes, OneAtWork, CaptureInv, DrainInv
<1>3. DiskInv'
  BY DEF DiskInv, FilesAreLogged, NoHalfFrame, NothingLost, OnDevice, CounterNeverReused
<1>4. DepthInv'
  BY DEF DepthInv, Pending
<1> QED
  BY <1>1, <1>2, <1>3, <1>4

LEMMA AnswerServes ==
  ASSUME wire \in [Requests -> PostedSlots], NEW r \in Requests, wire[r].phase # "free",
         NEW code \in Int, Answer(r, code)
  PROVE  /\ wire' \in [Requests -> PostedSlots] /\ Served(r)
         /\ wire'[r].phase \in {"free", "answered"}
         /\ wire'[r].phase = "answered" => wire'[r].status = code
         /\ \A s \in Requests \ {r} : wire'[s] = wire[s]
<1> DEFINE new == Answered(wire[r], code)
<1>1. wire' = [wire EXCEPT ![r] = new]
  BY DEF Answer
<1>2. wire[r] \in PostedSlots
  OBVIOUS
<1>3. CASE wire[r].awaited
  <2>1. new = [wire[r] EXCEPT !.phase = "answered", !.status = code]
    BY <1>3 DEF Answered
  <2>2. /\ new \in PostedSlots /\ new.phase = "answered" /\ new.status = code
        /\ new.awaited = wire[r].awaited /\ new.form = wire[r].form
        /\ new.counter = wire[r].counter /\ new.image = wire[r].image /\ new.sha = wire[r].sha
    BY <1>2, <2>1 DEF PostedSlots
  <2> HIDE DEF new
  <2> QED
    BY <1>1, <2>2 DEF Served
<1>4. CASE ~wire[r].awaited
  <2>1. new = FreeSlot /\ FreeSlot \in PostedSlots /\ FreeSlot.phase = "free"
    BY <1>4 DEF Answered, FreeSlot, PostedSlots, Forms, Images
  <2> HIDE DEF new
  <2> QED
    BY <1>1, <1>4, <2>1 DEF Served
<1> QED
  BY <1>3, <1>4

LEMMA ServeServes ==
  ASSUME wire \in [Requests -> PostedSlots], NEW r \in Requests, wire[r].phase # "free", Serve(r)
  PROVE  /\ wire' \in [Requests -> PostedSlots] /\ Served(r)
         /\ wire'[r].phase = "serving" /\ wire'[r].awaited = wire[r].awaited
         /\ wire'[r].form = wire[r].form /\ wire'[r].counter = wire[r].counter
         /\ wire'[r].image = wire[r].image /\ wire'[r].sha = wire[r].sha
         /\ \A s \in Requests \ {r} : wire'[s] = wire[s]
<1> DEFINE new == [wire[r] EXCEPT !.phase = "serving"]
<1>1. wire' = [wire EXCEPT ![r] = new]
  BY DEF Serve
<1>2. wire[r] \in PostedSlots
  OBVIOUS
<1>3. /\ new \in PostedSlots /\ new.phase = "serving" /\ new.awaited = wire[r].awaited
      /\ new.form = wire[r].form /\ new.counter = wire[r].counter
      /\ new.image = wire[r].image /\ new.sha = wire[r].sha
  BY <1>2 DEF PostedSlots
<1> HIDE DEF new
<1> QED
  BY <1>1, <1>3 DEF Served

LEMMA CameraStarts ==
  ASSUME WireInit, CameraInit
  PROVE  CameraInv
<1>1. FreeSlot \in PostedSlots /\ FreeSlot.phase = "free" /\ ~FreeSlot.awaited
  BY DEF FreeSlot, PostedSlots, Forms, Images
<1>2. None \in Images
  BY DEF Images
<1>3. DiskTypes
  BY <1>2, CameraAssumption DEF CameraInit, DiskTypes
<1>4. ProcessTypes
  <2>1. IdleCapture \in [at : {"idle"}, frame : Images, counter : Counters \union {0}]
    BY <1>2 DEF IdleCapture
  <2>2. IdleDrain \in [at : {"idle"}, todo : SUBSET Counters, current : Counters \union {0},
                       depth : Int, archived : Int, failed : BOOLEAN,
                       request : Requests \union {Nobody}]
    BY DEF IdleDrain
  <2> QED
    BY <2>1, <2>2, WireAssumption DEF CameraInit, ProcessTypes
<1>5. OneAtWork /\ CaptureInv /\ DrainInv /\ DepthInv
  BY CameraAssumption
     DEF CameraInit, OneAtWork, CaptureInv, DrainInv, DepthInv, IdleCapture, IdleDrain
<1>6. DiskInv
  BY DEF CameraInit, DiskInv, FilesAreLogged, NoHalfFrame, NothingLost, CounterNeverReused
<1>7. wire \in [Requests -> PostedSlots] /\ RequestInv
  BY <1>1 DEF WireInit, CameraInit, RequestInv, IdleDrain
<1> QED
  BY <1>3, <1>4, <1>5, <1>6, <1>7 DEF CameraInv, CameraTypes

\* The requests the camera posts pass a backend's first three checks.
LEMMA PostsAreGenuine ==
  ASSUME CameraInv
  PROVE  NeverPoisoned
  BY DEF CameraInv, RequestInv, NeverPoisoned, Genuine, MacHolds, WellFormed, Signed

\* What an exit 0 leaves in status.json is what a scan would find.
LEMMA DepthIsReported ==
  ASSUME CameraInv, DrainReports \/ \E p \in Captures : CaptureDone(p)
  PROVE  status'.depth = Cardinality(Pending)'
<1>1. CASE DrainReports
  <2>1. drain.at \in {"push", "report"} /\ disk' = disk
        /\ status' = [status EXCEPT !.pushOk = ~drain.failed, !.depth = drain.depth - drain.archived]
    BY <1>1 DEF DrainReports, UpdateStatus
  <2>2. status'.depth = drain.depth - drain.archived
    BY <2>1 DEF CameraInv, CameraTypes, ProcessTypes
  <2>3. drain.depth - drain.archived = Cardinality(Pending)
    BY <2>1 DEF CameraInv, DepthInv
  <2>4. Pending' = Pending
    BY <2>1 DEF Pending, disk
  <2> QED
    BY <2>2, <2>3, <2>4
<1>2. ASSUME NEW p \in Captures, CaptureDone(p) PROVE status'.depth = Cardinality(Pending)'
  <2>1. status' = [status EXCEPT !.captureOk = TRUE, !.depth = Cardinality(Pending)]
    BY <1>2 DEF CaptureDone, UpdateStatus
  <2>2. status'.depth = Cardinality(Pending)
    BY <2>1 DEF CameraInv, CameraTypes, ProcessTypes
  <2>3. Pending' = Pending
    BY <1>2, ScanEffect DEF CaptureDone, CameraInv, CameraTypes
  <2> QED
    BY <2>2, <2>3
<1> QED
  BY <1>1, <1>2

-----------------------------------------------------------------------------
(* What a backend needs to know of a step of the camera                    *)

\* The drain has the answer that lets it archive its current frame.
Acked ==
  \/ drain.at = "jpg"
  \/ /\ drain.at = "wait" /\ wire[drain.request].phase = "answered"
     /\ Acknowledged(wire[drain.request].status)

\* The backend has yet to act on the request.
Live(r) == wire[r].phase \in {"sent", "serving"}

\* A step that enqueues and archives nothing, acknowledges nothing, and posts
\* only what is not archived.
QuietStep ==
  /\ archiveJpg' = archiveJpg /\ committed' = committed
  /\ Acked' => Acked /\ drain'.current = drain.current /\ queueJson' = queueJson
  /\ \A r \in Requests : Live(r)' =>
       \/ Live(r) /\ wire'[r].counter = wire[r].counter
       \/ archiveJpg[wire'[r].counter] = None /\ ~Acked'

LEMMA CaptureEffect ==
  ASSUME CameraInv, NEW p \in Captures, CaptureStep(p), UNCHANGED wire
  PROVE  QuietStep \/ EnqueueJson(p)
<1>1. CASE CaptureDone(p)
  <2>1. drain'.at \in {"idle", "except"}
    BY <1>1, CaptureAlone DEF CaptureDone
  <2>2. ~Acked' /\ archiveJpg' = archiveJpg /\ committed' = committed
    BY <1>1, <2>1 DEF Acked, CaptureDone, Scan
  <2> QED
    BY <2>2 DEF QuietStep, Live
<1>2. CASE ~CaptureDone(p) /\ ~EnqueueJson(p)
  <2>1. UNCHANGED <<queueJson, archiveJpg, committed, drain>>
    BY <1>2 DEF CaptureStep, Shoot, CaptureLocks, NextCounter, EnqueueJpg, NoPicture, CaptureRaises,
                CaptureFails, KillCapture, disk
  <2> QED
    BY <2>1 DEF QuietStep, Acked, Live
<1> QED
  BY <1>1, <1>2

LEMMA PushFrameEffect ==
  ASSUME CameraInv, NEW r \in Requests, NEW n \in Counters, PushFrame(r, n)
  PROVE  QuietStep
<1>1. /\ wire' = [wire EXCEPT ![r] = [phase |-> "sent", awaited |-> TRUE, form |-> "good",
                                      counter |-> n, image |-> queueJpg[n], sha |-> queueJson[n],
                                      status |-> NoAnswer]]
      /\ drain' = [drain EXCEPT !.at = "wait", !.current = n, !.request = r]
      /\ UNCHANGED <<disk, committed>>
  BY DEF PushFrame, Post
<1>2. /\ wire'[r].phase = "sent" /\ wire'[r].counter = n
      /\ \A s \in Requests \ {r} : wire'[s] = wire[s]
  BY <1>1 DEF CameraInv, CameraTypes
<1>3. drain'.at = "wait" /\ drain'.request = r
  BY <1>1 DEF CameraInv, CameraTypes, ProcessTypes
<1>4. ~Acked'
  BY <1>2, <1>3 DEF Acked
<1>5. archiveJpg[n] = None
  BY PushedFrame
<1> QED
  BY <1>1, <1>2, <1>4, <1>5 DEF QuietStep, Live, disk

LEMMA DrainEffect ==
  ASSUME CameraInv, DrainStep
  PROVE  QuietStep \/ ArchiveJpg
<1> USE DEF CameraInv, CameraTypes
<1>1. CASE DrainLocks
  <2>1. drain'.at = "push"
    BY <1>1 DEF DrainLocks, IdleDrain
  <2> QED
    BY <1>1, <2>1 DEF DrainLocks, QuietStep, Acked, Live, Scan
<1>2. CASE PushAnswered
  <2>1. drain.at = "wait" /\ ReadAnswer(drain.request) /\ UNCHANGED <<disk, committed>>
    BY <1>2 DEF PushAnswered
  <2>2. wire[drain.request].phase = "answered"
    BY <2>1 DEF ReadAnswer
  <2>3. /\ drain'.at \in {"jpg", "report"} /\ drain'.current = drain.current
        /\ drain'.at = "jpg" => Acknowledged(wire[drain.request].status)
    BY <1>2 DEF PushAnswered, ProcessTypes
  <2>4. Acked' => Acked
    BY <2>1, <2>2, <2>3 DEF Acked
  <2>5. \A r \in Requests : Live(r)' => Live(r) /\ wire'[r].counter = wire[r].counter
    BY <2>1, StopsWaiting DEF Live
  <2> QED
    BY <2>1, <2>3, <2>4, <2>5 DEF QuietStep, disk
<1>3. CASE PushTimesOut \/ KillDrain
  <2>1. drain'.at \in {"idle", "report"}
    <3>1. CASE PushTimesOut
      BY <3>1 DEF PushTimesOut, ProcessTypes
    <3>2. CASE KillDrain
      BY <3>2 DEF KillDrain, IdleDrain
    <3> QED
      BY <1>3, <3>1, <3>2
  <2>2. \A r \in Requests : Live(r)' => Live(r) /\ wire'[r].counter = wire[r].counter
    <3>1. CASE drain.at = "wait" /\ GiveUp(drain.request)
      BY <3>1, StopsWaiting DEF Live
    <3>2. CASE UNCHANGED wire
      BY <3>2 DEF Live
    <3> QED
      BY <1>3, <3>1, <3>2 DEF PushTimesOut, KillDrain
  <2>3. UNCHANGED <<archiveJpg, committed>>
    BY <1>3 DEF PushTimesOut, KillDrain, disk
  <2> QED
    BY <2>1, <2>2, <2>3 DEF QuietStep, Acked
<1>4. CASE ArchiveJson
  <2>1. drain'.at = "push"
    BY <1>4 DEF ArchiveJson, ProcessTypes
  <2> QED
    BY <1>4, <2>1 DEF ArchiveJson, QuietStep, Acked, Live
<1>5. CASE DrainReports \/ DrainRaises \/ DrainFails
  <2>1. drain'.at \in {"idle", "except"}
    BY <1>5 DEF DrainReports, DrainRaises, DrainFails, IdleDrain
  <2>2. UNCHANGED <<archiveJpg, committed, wire>>
    BY <1>5 DEF DrainReports, DrainRaises, DrainFails, disk
  <2> QED
    BY <2>1, <2>2 DEF QuietStep, Acked, Live
<1> QED
  BY <1>1, <1>2, <1>3, <1>4, <1>5, PushFrameEffect DEF DrainStep

LEMMA CameraEffect ==
  ASSUME CameraInv, NEW seen, CameraStep(seen)
  PROVE  QuietStep \/ ArchiveJpg \/ \E p \in Captures : EnqueueJson(p) /\ UNCHANGED wire
<1>1. CASE UNCHANGED wire /\ (LoseCounter \/ \E value \in 0..MaxSeed : SeedCounter(value, seen))
  <2>1. UNCHANGED <<archiveJpg, queueJson, committed, drain, wire>>
    BY <1>1 DEF LoseCounter, SeedCounter
  <2> QED
    BY <2>1 DEF QuietStep, Acked, Live
<1> QED
  BY <1>1, CaptureEffect, DrainEffect DEF CameraStep

\* One frame enters the log, under a counter above all others, while the drain is not at work.
LEMMA EnqueueEffect ==
  ASSUME CameraInv, NEW p \in Captures, EnqueueJson(p)
  PROVE  /\ UNCHANGED <<archiveJpg, drain>> /\ drain.at \in {"idle", "except"}
         /\ \E n \in Counters, f \in Frames :
              /\ committed' = committed \union {<<n, f>>}
              /\ <<n, f>> \notin committed
              /\ \A c \in committed : c[1] < n /\ c[1] # n
<1>1. capture[p].at = "json" /\ UNCHANGED <<archiveJpg, drain>>
      /\ committed' = committed \union {<<capture[p].counter, capture[p].frame>>}
  BY DEF EnqueueJson, AtCapture
<1>2. capture[p].counter \in Counters /\ capture[p].frame \in Frames
  BY <1>1 DEF CameraInv, CaptureInv
<1>3. \A c \in committed : c[1] < capture[p].counter /\ c[1] # capture[p].counter
  BY <1>1, FreshCounter
<1>4. <<capture[p].counter, capture[p].frame>> \notin committed
  BY <1>3
<1>5. drain.at \in {"idle", "except"}
  BY <1>1, CaptureAlone
<1> QED
  BY <1>1, <1>2, <1>3, <1>4, <1>5

\* One frame enters the archive: the drain's, which has been acknowledged.
LEMMA ArchiveEffect ==
  ASSUME CameraInv, ArchiveJpg
  PROVE  LET n == drain.current
         IN  /\ n \in Counters /\ Acked /\ ~Acked'
             /\ archiveJpg[n] = None /\ queueJson[n] # None
             /\ <<n, queueJson[n]>> \in committed
             /\ archiveJpg' = [archiveJpg EXCEPT ![n] = queueJson[n]]
             /\ UNCHANGED <<wire, committed>>
<1> USE DEF CameraInv, CameraTypes
<1> DEFINE n == drain.current
<1>1. /\ drain.at = "jpg" /\ drain' = [drain EXCEPT !.at = "json"]
      /\ archiveJpg' = [archiveJpg EXCEPT ![n] = queueJpg[n]]
      /\ UNCHANGED <<wire, committed>>
  BY DEF ArchiveJpg, AtDrain
<1>2. drain'.at = "json"
  BY <1>1 DEF ProcessTypes
<1>3. n \in drain.todo /\ n \in Counters /\ queueJson[n] # None /\ queueJpg[n] = queueJson[n]
  BY <1>1 DEF DrainInv, ProcessTypes
<1>4. archiveJpg[n] = None /\ <<n, queueJson[n]>> \in committed
  BY <1>3 DEF DiskInv, FilesAreLogged
<1> QED
  BY <1>1, <1>2, <1>3, <1>4 DEF Acked

LEMMA OneFrameToACounter ==
  ASSUME CameraInv, NEW c \in committed, NEW f, <<c[1], f>> \in committed
  PROVE  f = c[2]
<1>1. <<c[1], f>>[1] = c[1] /\ <<c[1], f>>[2] = f
  OBVIOUS
<1> QED
  BY <1>1 DEF CameraInv, DiskInv, CounterNeverReused

LEMMA ArchivedFrame ==
  ASSUME CameraInv, NEW c \in committed, archiveJpg[c[1]] # None
  PROVE  archiveJpg[c[1]] = c[2]
<1>1. c[1] \in Counters
  BY CommittedPair DEF CameraInv, CameraTypes
<1>2. <<c[1], archiveJpg[c[1]]>> \in committed
  BY <1>1 DEF CameraInv, DiskInv, FilesAreLogged
<1> QED
  BY <1>2, OneFrameToACounter

\* The frame the drain waits for is the one it queued.
LEMMA AwaitedFrame ==
  ASSUME CameraInv, drain.at = "wait"
  PROVE  /\ drain.request \in Requests /\ drain.current \in Counters
         /\ <<drain.current, queueJson[drain.current]>> \in committed
         /\ wire[drain.request].counter = drain.current
<1>1. drain.current \in drain.todo /\ drain.todo \subseteq Counters /\ queueJson[drain.current] # None
  BY DEF CameraInv, CameraTypes, ProcessTypes, DrainInv
<1> QED
  BY <1>1 DEF CameraInv, DiskInv, FilesAreLogged, RequestInv

\* With no losses of the counter file the counter is never corrupt.
LEMMA CounterKept ==
  ASSUME CameraInv, NEW seen, CameraStep(seen), MaxCorruptions = 0, counter # Corrupt
  PROVE  counter' # Corrupt
<1>1. ~LoseCounter
  BY DEF LoseCounter, Spend, CameraInv, CameraTypes, ProcessTypes
<1>2. ASSUME NEW p \in Captures, CaptureStep(p) PROVE counter' # Corrupt
  <2>1. CASE NextCounter(p)
    BY <2>1 DEF NextCounter, CameraInv, CameraTypes, DiskTypes, Corrupt
  <2> QED
    BY <1>2, <2>1 DEF CaptureStep, Shoot, CaptureLocks, EnqueueJpg, EnqueueJson, CaptureDone, Scan,
                      NoPicture, CaptureRaises, CaptureFails, KillCapture, disk
<1>3. CASE DrainStep
  BY <1>3 DEF DrainStep, DrainLocks, Scan, PushFrame, PushAnswered, PushTimesOut, ArchiveJpg, ArchiveJson,
              DrainReports, DrainRaises, DrainFails, KillDrain, disk
<1>4. ASSUME NEW value \in 0..MaxSeed, SeedCounter(value, seen) PROVE counter' # Corrupt
  BY <1>4, CameraAssumption DEF SeedCounter, Corrupt
<1> QED
  BY <1>1, <1>2, <1>3, <1>4 DEF CameraStep

\* No step of the camera starts or ends the serving of a request, or changes one being served.
LEMMA ServingKept ==
  ASSUME CameraInv, NEW seen, CameraStep(seen), NEW r \in Requests
  PROVE  /\ wire'[r].phase = "serving" <=> wire[r].phase = "serving"
         /\ wire[r].phase = "serving" => /\ wire'[r].counter = wire[r].counter
                                         /\ wire'[r].image = wire[r].image
                                         /\ wire'[r].sha = wire[r].sha
<1> USE DEF CameraInv, CameraTypes
<1>1. ASSUME NEW s \in Requests, NEW n \in Counters, PushFrame(s, n)
      PROVE  wire'[r] = wire[r] \/ (wire[r].phase = "free" /\ wire'[r].phase = "sent")
  <2>1. wire[s].phase = "free" /\ wire'[s].phase = "sent" /\ \A q \in Requests \ {s} : wire'[q] = wire[q]
    BY <1>1 DEF PushFrame, Post
  <2> QED
    BY <2>1
<1>2. CASE drain.at = "wait" /\ (ReadAnswer(drain.request) \/ GiveUp(drain.request))
  <2>1. wire'[r].phase = "serving" <=> wire[r].phase = "serving"
    <3>1. wire[r].phase = "serving" => wire'[r].phase = "serving"
      <4>1. CASE ReadAnswer(drain.request)
        BY <4>1 DEF ReadAnswer
      <4>2. CASE GiveUp(drain.request)
        BY <4>2 DEF GiveUp, PostedSlots
      <4> QED
        BY <1>2, <4>1, <4>2
    <3> QED
      BY <1>2, <3>1, StopsWaiting
  <2> QED
    BY <1>2, <2>1, StopsWaiting
<1>3. CASE DrainStep
  BY <1>1, <1>2, <1>3 DEF DrainStep, DrainLocks, PushAnswered, PushTimesOut, ArchiveJpg, ArchiveJson,
                          DrainReports, DrainRaises, DrainFails, KillDrain
<1> QED
  BY <1>3 DEF CameraStep
=============================================================================
