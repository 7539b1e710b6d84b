----------------------------- MODULE IngestSink ------------------------------
(***************************************************************************)
(* The camera's reference backend, camera/src/sink.py: a threaded HTTP     *)
(* server whose handlers take one lock around the counter check and the    *)
(* writes, with last_seen in memory and in a file that a restart reloads.  *)
(***************************************************************************)
EXTENDS Wire

CONSTANTS
  SinkCounters,   \* the counters a request may carry
  NoRequest,      \* holds the counter lock when it is free
  MaxRestarts,    \* bound on restarts of the sink
  MaxSinkFaults   \* bound on its failed writes

Torn == -1        \* a jpg whose write was cut short: write_bytes is not atomic

ASSUME SinkAssumption ==
  SinkCounters \subseteq Nat \ {0} /\ NoRequest \notin Requests
  /\ MaxRestarts \in Nat /\ MaxSinkFaults \in Nat

VARIABLES
  frameJpg, frameJson,   \* frames/<n>.jpg and frames/<n>.json
  lastSeen,              \* self._last_seen
  lastSeenFile,          \* sink_dir/last_seen
  holder, at,            \* the request that holds _counter_lock, and its next write
  sinkSpent,             \* budgets used up
  acknowledged           \* history: <<counter, sha, status>> of every 200 and 409 so far

sinkVars == <<frameJpg, frameJson, lastSeen, lastSeenFile, holder, at, sinkSpent, acknowledged>>

SinkInit ==
  /\ frameJpg = [n \in SinkCounters |-> None]
  /\ frameJson = frameJpg
  /\ lastSeen = 0 /\ lastSeenFile = 0
  /\ holder = NoRequest /\ at = "jpg"
  /\ sinkSpent = [restarts |-> 0, faults |-> 0]
  /\ acknowledged = {}

SinkSpend(budget, limit) ==
  sinkSpent[budget] < limit /\ sinkSpent' = [sinkSpent EXCEPT ![budget] = @ + 1]

\* MAC, protocol, shape, hash and signature are checked before the lock.
Refuse(r) ==
  /\ wire[r].phase = "sent"
  /\ ~Genuine(wire[r])
  /\ Answer(r, Refusal(wire[r]))
  /\ UNCHANGED sinkVars

\* Mutants: an off-by-one; only the exact repeat refused.
CounterSeenStrict(r) == wire[r].counter < lastSeen
CounterSeenRepeat(r) == wire[r].counter = lastSeen

CounterSeen(r) == wire[r].counter <= lastSeen

CheckCounter(r) ==
  /\ wire[r].phase = "sent"
  /\ Genuine(wire[r])
  /\ holder = NoRequest
  /\ IF CounterSeen(r)
       THEN /\ Answer(r, 409)
            /\ acknowledged' = acknowledged \union {<<wire[r].counter, wire[r].sha, 409>>}
            /\ UNCHANGED <<holder, at>>
       ELSE /\ Serve(r)
            /\ holder' = r /\ at' = "jpg"
            /\ UNCHANGED acknowledged
  /\ UNCHANGED <<frameJpg, frameJson, lastSeen, lastSeenFile, sinkSpent>>

WriteJpg(r) ==
  /\ holder = r /\ at = "jpg"
  /\ frameJpg' = [frameJpg EXCEPT ![wire[r].counter] = wire[r].image]
  /\ at' = "json"
  /\ UNCHANGED <<frameJson, lastSeen, lastSeenFile, holder, sinkSpent, acknowledged, wire>>

\* The json, then last_seen in memory, which cannot fail.
WriteJson(r) ==
  /\ holder = r /\ at = "json"
  /\ frameJson' = [frameJson EXCEPT ![wire[r].counter] = wire[r].sha]
  /\ lastSeen' = wire[r].counter
  /\ at' = "persist"
  /\ UNCHANGED <<frameJpg, lastSeenFile, holder, sinkSpent, acknowledged, wire>>

\* Mutant: 200 without last_seen on disk.
AnswerUnpersisted(r) ==
  /\ holder = r /\ at = "persist"
  /\ Answer(r, 200)
  /\ acknowledged' = acknowledged \union {<<wire[r].counter, wire[r].sha, 200>>}
  /\ holder' = NoRequest /\ at' = "jpg"
  /\ UNCHANGED <<frameJpg, frameJson, lastSeen, lastSeenFile, sinkSpent>>

PersistLastSeen(r) ==
  /\ holder = r /\ at = "persist"
  /\ lastSeenFile' = lastSeen
  /\ Answer(r, 200)
  /\ acknowledged' = acknowledged \union {<<wire[r].counter, wire[r].sha, 200>>}
  /\ holder' = NoRequest /\ at' = "jpg"
  /\ UNCHANGED <<frameJpg, frameJson, lastSeen, sinkSpent>>

\* What an interrupted step leaves behind.
MaybeTorn ==
  \/ UNCHANGED frameJpg
  \/ /\ holder # NoRequest /\ at = "jpg"
     /\ frameJpg' = [frameJpg EXCEPT ![wire[holder].counter] = Torn]

\* A write fails: do_POST catches it, the lock is released, and the answer is 500.
WriteFails(r) ==
  /\ holder = r
  /\ SinkSpend("faults", MaxSinkFaults)
  /\ MaybeTorn
  /\ Answer(r, 500)
  /\ holder' = NoRequest /\ at' = "jpg"
  /\ UNCHANGED <<frameJson, lastSeen, lastSeenFile, acknowledged>>

\* The sink dies with every handler in it and is started again: _load_last_seen.
RestartSink ==
  /\ SinkSpend("restarts", MaxRestarts)
  /\ MaybeTorn
  /\ CutOff(Requests)
  /\ holder' = NoRequest /\ at' = "jpg"
  /\ lastSeen' = lastSeenFile
  /\ UNCHANGED <<frameJson, lastSeenFile, acknowledged>>

HandlerStep(r) ==
  \/ Refuse(r) \/ CheckCounter(r)
  \/ WriteJpg(r) \/ WriteJson(r) \/ PersistLastSeen(r)

SinkStep ==
  \/ \E r \in Requests : HandlerStep(r) \/ WriteFails(r)
  \/ RestartSink
=============================================================================
