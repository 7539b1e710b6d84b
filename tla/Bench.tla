-------------------------------- MODULE Bench --------------------------------
(***************************************************************************)
(* The prompt bench: `beadz-cro-bench run` sweeps images x variants, with  *)
(* a server of its own ("cold") or one that runs already ("warm"), and     *)
(* streams its records to results.jsonl (cro-bench/src/cli.py and          *)
(* results.py); mood_rotation.py ("moods") asks for one remark per hour    *)
(* and keeps no records.                                                   *)
(***************************************************************************)
EXTENDS LlamaServer, Sequences, SequencesExt, FiniteSets

CONSTANTS
  Images,     \* how many images, or hours of the mood rotation
  Variants    \* how many variants, each with Slots slots and a best-of-BestOf remark

ASSUME SweepAssumption == Images \in Nat \ {0} /\ Variants \in Nat \ {0}

VARIABLES
  job,        \* the locals of each command
  results     \* results.jsonl, as emitted by each command's RunWriter

benchVars == <<job, results>>

Flavor == Slots + 1   \* the calls of a variant are 1..Flavor
ImageCall == 0        \* the "image" call that stands for an unreadable one

\* Exit codes; None while the command runs, Traceback when it raises.
None == -1
Traceback == 130

RunStart == [type |-> "run_start"]
Call(b, id, good) ==
  [type |-> "call", image |-> job[b].image, variant |-> job[b].variant, id |-> id, good |-> good]
AuditRecord(b, text) ==
  [type |-> "audit", image |-> job[b].image, variant |-> job[b].variant, text |-> text]
RunEnd(b) == [type |-> "run_end", ok |-> job[b].ok, failed |-> job[b].failed]

Fresh ==
  [kind |-> "cold", writer |-> FALSE, image |-> 1, variant |-> 1, call |-> 1, tries |-> BestOf,
   candidate |-> FALSE, error |-> FALSE, ok |-> 0, failed |-> 0, broken |-> "no", exit |-> None]

BenchInit ==
  /\ job = [b \in Benches |-> Fresh]
  /\ results = [b \in Benches |-> <<>>]

Update(b, new) == job' = [job EXCEPT ![b] = new]

BeginBench(b, kind) ==
  /\ Begins(b, IF kind = "warm" THEN "warm" ELSE "start")
  /\ Update(b, [job[b] EXCEPT !.kind = kind])
  /\ UNCHANGED results

\* wait_healthy without a child, for ten seconds.
WarmHealthy(b) ==
  /\ \/ Answers /\ Goes(b, "warm", "ask")
     \/ Goes(b, "warm", "done")
  /\ UNCHANGED <<portVars, strangers, met, benchVars>>

-----------------------------------------------------------------------------
(* The sweep                                                               *)

\* The finally clause: only a server of its own is stopped, and of the locals
\* only the counts and the writer are used any more.
Finally(b, state, why) ==
  /\ Goes(b, "ask", IF state.kind = "warm" THEN "done" ELSE "stop")
  /\ Update(b, [Fresh EXCEPT !.kind = state.kind, !.writer = state.writer,
                             !.ok = state.ok, !.failed = state.failed, !.broken = why])

\* A step of the sweep has counted its outcome and emits its records.  An
\* interrupt or a failed write can break it off before any of them is out.
Emit(b, counted, records, next) ==
  \/ /\ results' = [results EXCEPT ![b] = @ \o records]
     /\ Update(b, next)
     /\ UNCHANGED at
  \/ \E n \in 0..Len(records), why \in {"interrupt", "write"} :
       /\ results' = [results EXCEPT ![b] = @ \o SubSeq(records, 1, n)]
       /\ Finally(b, counted, why)

Sweeping(b) == at[b] = "ask" /\ job[b].kind # "moods" /\ job[b].writer
SweepOver(b) == job[b].image > Images

OpenWriter(b) ==
  /\ at[b] = "ask" /\ job[b].kind # "moods" /\ ~job[b].writer
  /\ \/ LET opened == [job[b] EXCEPT !.writer = TRUE] IN Emit(b, opened, <<RunStart>>, opened)
     \/ Finally(b, job[b], "write") /\ UNCHANGED results
  /\ UNCHANGED <<portVars, strangers, met>>

NextImage(state) == [state EXCEPT !.image = @ + 1, !.variant = 1, !.call = 1]

\* Mutant: an unreadable image is recorded and not counted.
UnreadableUncounted(b) ==
  /\ Sweeping(b) /\ ~SweepOver(b)
  /\ job[b].variant = 1 /\ job[b].call = 1
  /\ Emit(b, job[b], <<Call(b, ImageCall, FALSE), AuditRecord(b, FALSE)>>, NextImage(job[b]))
  /\ UNCHANGED <<portVars, strangers, met>>

\* encode_image raises: one call and one audit for the whole image.
Unreadable(b) ==
  LET counted == [job[b] EXCEPT !.failed = @ + 1]
  IN /\ Sweeping(b) /\ ~SweepOver(b)
     /\ job[b].variant = 1 /\ job[b].call = 1
     /\ Emit(b, counted, <<Call(b, ImageCall, FALSE), AuditRecord(b, FALSE)>>, NextImage(counted))
     /\ UNCHANGED <<portVars, strangers, met>>

Counted(b, good) ==
  IF good THEN [job[b] EXCEPT !.ok = @ + 1]
  ELSE [job[b] EXCEPT !.failed = @ + 1, !.error = TRUE]

CallDone(b, good) ==
  LET counted == Counted(b, good)
  IN Emit(b, counted, <<Call(b, job[b].call, good)>>,
          [counted EXCEPT !.call = @ + 1, !.tries = BestOf, !.candidate = FALSE])

AskSlot(b) ==
  /\ Sweeping(b) /\ ~SweepOver(b) /\ job[b].call < Flavor
  /\ \/ Heard(b) /\ CallDone(b, TRUE)
     \/ NotHeard(b) /\ CallDone(b, FALSE)

\* _best_of_flavor: the first remark that is not junk, or else the first one.
\* One try is the plain call, which takes any answer.
AskFlavor(b, junk) ==
  LET again(candidate) ==
        /\ job[b].tries > 1
        /\ Update(b, [job[b] EXCEPT !.tries = @ - 1, !.candidate = candidate])
        /\ UNCHANGED <<at, results>>
  IN /\ Sweeping(b) /\ ~SweepOver(b) /\ job[b].call = Flavor
     /\ \/ Heard(b) /\ junk /\ again(TRUE)
        \/ Heard(b) /\ (junk => job[b].tries = 1) /\ CallDone(b, TRUE)
        \/ NotHeard(b) /\ again(job[b].candidate)
        \/ NotHeard(b) /\ job[b].tries = 1 /\ CallDone(b, job[b].candidate)

\* The text is rendered only from a variant's full set of answers.
WriteAudit(b) ==
  LET last == job[b].variant = Variants
      rest == [job[b] EXCEPT !.error = FALSE]
  IN /\ Sweeping(b) /\ job[b].call = Flavor + 1
     /\ Emit(b, job[b], <<AuditRecord(b, ~job[b].error)>>,
             IF last THEN NextImage(rest) ELSE [rest EXCEPT !.variant = @ + 1, !.call = 1])
     /\ UNCHANGED <<portVars, strangers, met>>

FinishSweep(b) ==
  /\ at[b] = "ask" /\ SweepOver(b)
  /\ Finally(b, job[b], "no")
  /\ UNCHANGED <<portVars, strangers, met, results>>

-----------------------------------------------------------------------------
(* The mood rotation: every hour goes on whatever the last one brought     *)

MoodsTry(b, junk) ==
  LET nextHour == [job[b] EXCEPT !.image = @ + 1, !.tries = BestOf]
      spent == IF job[b].tries = 1 THEN nextHour ELSE [job[b] EXCEPT !.tries = @ - 1]
  IN /\ at[b] = "ask" /\ job[b].kind = "moods" /\ ~SweepOver(b)
     /\ \/ Heard(b) /\ ~junk /\ Update(b, nextHour)
        \/ Heard(b) /\ junk /\ Update(b, spent)
        \/ NotHeard(b) /\ Update(b, spent)
     /\ UNCHANGED <<at, results>>

\* The banner is printed between start_server and the try: if that fails, or is
\* interrupted, no clause stops the server.
BannerFails(b) ==
  /\ job[b].kind = "moods" /\ job[b].image = 1 /\ job[b].tries = BestOf
  /\ Goes(b, "ask", "cut")
  /\ UNCHANGED <<portVars, strangers, met, benchVars>>

-----------------------------------------------------------------------------
(* After stop_server: run_end, and the exit code                           *)

\* Mutant: only the last audit decides.
ExitCodeOfLast(b) ==
  CASE job[b].broken = "interrupt" -> Traceback
    [] job[b].broken = "write" \/ (job[b].broken = "no" /\ ~job[b].writer) -> 2
    [] OTHER -> IF ~Last(results[b]).text THEN 1 ELSE 0

ExitCode(b) ==
  CASE job[b].broken = "interrupt" -> Traceback
    [] job[b].broken = "write" \/ (job[b].broken = "no" /\ ~job[b].writer) -> 2
    [] OTHER -> IF job[b].failed > 0 THEN 1 ELSE 0

Gone(b, code, broken) ==
  Update(b, [Fresh EXCEPT !.kind = job[b].kind, !.exit = code, !.broken = broken])

\* A failed write of run_end, or of its lines in the transcript after it, is an OSError
\* of its own, whatever came before.
Leave(b) ==
  /\ job[b].kind # "moods"
  /\ Goes(b, "done", "left")
  /\ LET ended == [results EXCEPT ![b] = Append(@, RunEnd(b))]
     IN \/ results' = (IF job[b].writer THEN ended ELSE results) /\ Gone(b, ExitCode(b), job[b].broken)
        \/ job[b].writer /\ results' \in {results, ended} /\ Gone(b, 2, "write")
  /\ UNCHANGED <<portVars, strangers, met>>

InterruptBench(b) ==
  /\ \/ at[b] = "ask" /\ Finally(b, job[b], "interrupt") /\ UNCHANGED <<portVars, strangers, met>>
     \/ at[b] # "ask" /\ Interrupted(b) /\ Update(b, [job[b] EXCEPT !.broken = "interrupt"])
  /\ UNCHANGED results

\* What a command does by itself once it has begun, short of polling on.
Command(b) ==
  \/ (Starts(b) \/ Stops(b)) /\ UNCHANGED benchVars
  \/ WarmHealthy(b) \/ OpenWriter(b) \/ Unreadable(b) \/ AskSlot(b) \/ WriteAudit(b)
  \/ FinishSweep(b) \/ Leave(b)
  \/ \E junk \in BOOLEAN : AskFlavor(b, junk) \/ MoodsTry(b, junk)

BenchStep(b) ==
  \/ \E kind \in {"cold", "warm", "moods"} : BeginBench(b, kind)
  \/ Command(b) \/ BannerFails(b) \/ InterruptBench(b)
  \/ Polls(b) /\ UNCHANGED benchVars
  \/ CutShort(b) /\ Gone(b, None, "no") /\ UNCHANGED results
=============================================================================
