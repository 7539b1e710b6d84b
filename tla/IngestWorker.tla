---------------------------- MODULE IngestWorker -----------------------------
(***************************************************************************)
(* The deployed backend, service/src/ingest.ts: a Cloudflare Worker whose  *)
(* handlers share nothing but two stores, R2 for the frames and KV for the *)
(* two keys latest and last_seen, and await every read and write.  No lock *)
(* and no condition ties one handler's writes to another's, and a read of  *)
(* KV may return an older value than the last one written.                 *)
(***************************************************************************)
EXTENDS Wire

CONSTANTS
  WorkerCounters,        \* the counters a request may carry
  EventuallyConsistent,  \* KV reads may be stale (FALSE: they never are)
  MaxDeaths              \* bound on handlers that die half-way

ASSUME WorkerAssumption ==
  WorkerCounters \subseteq Nat \ {0} /\ EventuallyConsistent \in BOOLEAN /\ MaxDeaths \in Nat

VARIABLES
  r2,         \* frames/<n>.jpg in the FRAMES bucket
  latest,     \* META latest: [counter, sha], or NoReading
  lastSeen,   \* META last_seen
  visible,    \* what a read of each key may still return somewhere
  at,         \* each handler's next write
  deaths

workerVars == <<r2, latest, lastSeen, visible, at, deaths>>

NoReading == [counter |-> 0, sha |-> None]

WorkerInit ==
  /\ r2 = [n \in WorkerCounters |-> None]
  /\ latest = NoReading
  /\ lastSeen = 0
  /\ visible = [latest |-> {NoReading}, lastSeen |-> {0}]
  /\ at = [r \in Requests |-> "idle"]
  /\ deaths = 0

\* A put to a KV key: the value other places read until the put reaches them
\* stays visible beside the new one.
Show(key, value) ==
  visible' = [visible EXCEPT ![key] = IF EventuallyConsistent THEN @ \union {value} ELSE {value}]

\* The last put to a key has reached every place that reads it.
Propagate ==
  /\ visible' = [latest |-> {latest}, lastSeen |-> {lastSeen}]
  /\ UNCHANGED <<wire, r2, latest, lastSeen, at, deaths>>

-----------------------------------------------------------------------------
(* handleIngest, one action per await                                      *)

Refuse(r) ==
  /\ wire[r].phase = "sent"
  /\ ~Genuine(wire[r])
  /\ Answer(r, Refusal(wire[r]))
  /\ UNCHANGED workerVars

\* Mutant: the frame's own put is skipped.
CheckCounterThenLatest(r) ==
  /\ wire[r].phase = "sent"
  /\ Genuine(wire[r])
  /\ \E seen \in visible.lastSeen :
       IF wire[r].counter <= seen
         THEN Answer(r, 409) /\ UNCHANGED at
         ELSE Serve(r) /\ at' = [at EXCEPT ![r] = "latest"]
  /\ UNCHANGED <<r2, latest, lastSeen, visible, deaths>>

CheckCounter(r) ==
  /\ wire[r].phase = "sent"
  /\ Genuine(wire[r])
  /\ \E seen \in visible.lastSeen :
       IF wire[r].counter <= seen
         THEN Answer(r, 409) /\ UNCHANGED at
         ELSE Serve(r) /\ at' = [at EXCEPT ![r] = "frame"]
  /\ UNCHANGED <<r2, latest, lastSeen, visible, deaths>>

PutFrame(r) ==
  /\ at[r] = "frame"
  /\ r2' = [r2 EXCEPT ![wire[r].counter] = wire[r].image]
  /\ at' = [at EXCEPT ![r] = "latest"]
  /\ UNCHANGED <<wire, latest, lastSeen, visible, deaths>>

PutLatest(r) ==
  /\ at[r] = "latest"
  /\ latest' = [counter |-> wire[r].counter, sha |-> wire[r].sha]
  /\ Show("latest", latest')
  /\ at' = [at EXCEPT ![r] = "lastSeen"]
  /\ UNCHANGED <<wire, r2, lastSeen, deaths>>

PutLastSeen(r) ==
  /\ at[r] = "lastSeen"
  /\ lastSeen' = wire[r].counter
  /\ Show("lastSeen", lastSeen')
  /\ Answer(r, 200)
  /\ at' = [at EXCEPT ![r] = "idle"]
  /\ UNCHANGED <<r2, latest, deaths>>

\* A storage failure (a 500) or an evicted isolate (no answer) ends a handler
\* between two writes.
HandlerDies(r) ==
  /\ at[r] # "idle"
  /\ deaths < MaxDeaths /\ deaths' = deaths + 1
  /\ \E status \in {500, NoAnswer} : Answer(r, status)
  /\ at' = [at EXCEPT ![r] = "idle"]
  /\ UNCHANGED <<r2, latest, lastSeen, visible>>

HandlerStep(r) ==
  \/ Refuse(r) \/ CheckCounter(r)
  \/ PutFrame(r) \/ PutLatest(r) \/ PutLastSeen(r)

WorkerStep ==
  \/ \E r \in Requests : HandlerStep(r) \/ HandlerDies(r)
  \/ Propagate

-----------------------------------------------------------------------------
(* service/src/reserve.ts: what a viewer can be told.                      *)

\* handleReserve answers with any visible value of latest; handleFrameByCounter
\* serves the bytes R2 holds under a counter.
Readings == visible.latest \ {NoReading}
FrameByCounter(n) == r2[n]
=============================================================================
