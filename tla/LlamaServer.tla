----------------------------- MODULE LlamaServer -----------------------------
(***************************************************************************)
(* Jobs that start a llama-server, ask it questions and stop it again      *)
(* (camera/src/llama_server.py, and cro-bench/src/server.py, which it was  *)
(* ported from).  All children listen on one fixed port, so the server     *)
(* that answers a request is the one that has the port, whoever started    *)
(* it.  A job can be interrupted, which Python turns into an exception, or *)
(* cut short, which runs no handler: killed, or interrupted again while it *)
(* cleans up.                                                              *)
(***************************************************************************)
EXTENDS Integers

CONSTANTS
  Captures,    \* jobs of the device: one audit() each
  Benches,     \* jobs of the bench: one command each
  Nobody,      \* has the port when it is free
  Slots,       \* grammar-constrained questions
  BestOf       \* tries at the remark

Jobs == Captures \union Benches

ASSUME JobsAssumption == Captures \intersect Benches = {} /\ Nobody \notin Jobs
ASSUME AskAssumption == Slots \in Nat \ {0} /\ BestOf \in Nat \ {0}

VARIABLES
  server,      \* the child of each job
  port,        \* whose child listens on the port
  at,          \* where each job is
  strangers,     \* history: whose other servers answered each job
  met          \* history: the jobs each one overlapped

portVars == <<server, port>>
serverVars == <<server, port, at, strangers, met>>

Alive == {"loading", "up"}
Over == {"done", "left", "cut"}
Running == {j \in Jobs : at[j] \notin Over \union {"idle"}}

ServerInit ==
  /\ server = [j \in Jobs |-> "none"]
  /\ port = Nobody
  /\ at = [j \in Jobs |-> "idle"]
  /\ strangers = [j \in Jobs |-> {}]
  /\ met = [j \in Jobs |-> {}]

ServerType ==
  /\ server \in [Jobs -> Alive \union {"none"}]
  /\ port \in Jobs \union {Nobody}
  /\ at \in [Jobs -> {"idle", "start", "poll", "get", "warm", "ask", "stop", "wait", "kill"} \union Over]
  /\ strangers \in [Jobs -> SUBSET Jobs]
  /\ met \in [Jobs -> SUBSET Jobs]

-----------------------------------------------------------------------------
(* What a child does by itself.  Nothing makes it listen, answer or obey a *)
(* SIGTERM: a child that hangs is one that takes no step.                  *)

\* The child, if there is one, is no more, and neither is its socket.
Ends(j) ==
  /\ server' = [server EXCEPT ![j] = "none"]
  /\ port' = IF port = j THEN Nobody ELSE port

\* A request to the port is answered by whichever server is up there.
Answers == port # Nobody /\ server[port] = "up"

Listen(j) ==
  /\ server[j] = "loading" /\ port = Nobody
  /\ server' = [server EXCEPT ![j] = "up"]
  /\ port' = j

\* It cannot load or bind, runs out of memory, or obeys SIGTERM.
Exit(j) ==
  /\ server[j] \in Alive
  /\ Ends(j)

ServerStep ==
  /\ \E j \in Jobs : Listen(j) \/ Exit(j)
  /\ UNCHANGED <<at, strangers, met>>

-----------------------------------------------------------------------------
(* start_server and wait_healthy                                           *)

Goes(j, from, to) == at[j] = from /\ at' = [at EXCEPT ![j] = to]

Begins(j, first) ==
  /\ Goes(j, "idle", first)
  /\ met' = [k \in Jobs |-> IF k = j THEN Running
                            ELSE IF k \in Running THEN met[k] \union {j} ELSE met[k]]
  /\ UNCHANGED <<portVars, strangers>>

\* The image cannot be read, a model file is missing, the binary cannot be run.
CannotStart(j) ==
  /\ Goes(j, "start", "done")
  /\ UNCHANGED <<portVars, strangers, met>>

Popen(j) ==
  /\ Goes(j, "start", "poll")
  /\ server' = [server EXCEPT ![j] = "loading"]
  /\ UNCHANGED <<port, strangers, met>>

\* One turn of the loop: proc.poll(), GET /health, sleep.
Polls(j) ==
  /\ \/ Goes(j, "poll", "get") /\ server[j] \in Alive
     \/ Goes(j, "get", "poll")
  /\ UNCHANGED <<portVars, strangers, met>>

ChildDied(j) ==
  /\ Goes(j, "poll", "kill") /\ server[j] \notin Alive
  /\ UNCHANGED <<portVars, strangers, met>>

\* Whoever answers is taken for the child.
Healthy(j) ==
  /\ Goes(j, "get", "ask") /\ Answers
  /\ UNCHANGED <<portVars, strangers, met>>

\* The deadline has passed when the loop comes round.
LoadTimesOut(j) ==
  /\ Goes(j, "poll", "kill") \/ Goes(j, "get", "kill")
  /\ UNCHANGED <<portVars, strangers, met>>

Starts(j) == CannotStart(j) \/ Popen(j) \/ ChildDied(j) \/ Healthy(j) \/ LoadTimesOut(j)

\* A question is answered.
Heard(j) ==
  /\ at[j] = "ask" /\ Answers
  /\ strangers' = [strangers EXCEPT ![j] = @ \union ({port} \ {j})]
  /\ UNCHANGED <<portVars, met>>

\* No answer in time, an error status, a body of another shape: CallError.
NotHeard(j) ==
  /\ at[j] = "ask"
  /\ UNCHANGED <<portVars, strangers, met>>

-----------------------------------------------------------------------------
(* stop_server, and the clean-up of start_server                           *)

Terminate(j) ==
  /\ Goes(j, "stop", "wait")
  /\ UNCHANGED <<portVars, strangers, met>>

\* Mutant: SIGTERM is sent and nobody waits for the server to go.
WaitForNothing(j) ==
  /\ Goes(j, "wait", "done")
  /\ UNCHANGED <<portVars, strangers, met>>

ChildExits(j) ==
  /\ Goes(j, "wait", "done")
  /\ server[j] \notin Alive
  /\ UNCHANGED <<portVars, strangers, met>>

\* Mutant: a server that ignores SIGTERM is waited for without a limit.
WaitForever(j) == FALSE

\* It ignored SIGTERM for ten seconds.
WaitTimesOut(j) ==
  /\ Goes(j, "wait", "kill")
  /\ server[j] \in Alive
  /\ UNCHANGED <<portVars, strangers, met>>

KillChild(j) ==
  /\ Goes(j, "kill", "done")
  /\ Ends(j)
  /\ UNCHANGED <<strangers, met>>

Stops(j) == Terminate(j) \/ ChildExits(j) \/ WaitTimesOut(j) \/ KillChild(j)

-----------------------------------------------------------------------------
\* Mutant: only an Exception reaps the child while it loads.
UnwindsToNothing(from) ==
  CASE from \in {"start", "warm", "poll", "get"} -> "done"
    [] from = "ask" -> "stop"

\* KeyboardInterrupt: start_server reaps its child and lets it through, so does
\* the finally of the job that asks.
Unwinds(from) ==
  CASE from \in {"start", "warm"} -> "done"
    [] from \in {"poll", "get"} -> "kill"
    [] from = "ask" -> "stop"

Interrupted(j) ==
  /\ at[j] \in {"start", "warm", "poll", "get", "ask"}
  /\ at' = [at EXCEPT ![j] = Unwinds(at[j])]
  /\ UNCHANGED <<portVars, strangers, met>>

\* systemd ends the server with the capture; by hand nothing does.
CutShort(j) ==
  /\ j \in Running
  /\ at' = [at EXCEPT ![j] = "cut"]
  /\ Ends(j) \/ UNCHANGED portVars
  /\ UNCHANGED <<strangers, met>>

-----------------------------------------------------------------------------
\* llama_server.py: a stuck server must never outlive the capture that spawned
\* it.  However a job ends, by itself or interrupted, its child is gone.
NoServerLeftBehind ==
  \A j \in Jobs : at[j] \in {"done", "left"} => server[j] \notin Alive
=============================================================================
