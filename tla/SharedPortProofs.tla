-------------------------- MODULE SharedPortProofs ---------------------------
(***************************************************************************)
(* Proofs about SharedPort, for any number of captures, commands of the    *)
(* bench, questions and tries.                                             *)
(***************************************************************************)
EXTENDS SharedPort, FiniteSetTheorems, SequenceTheorems, TLAPS

Places == {"idle", "start", "poll", "get", "warm", "ask", "stop", "wait", "kill"} \union Over

JobTypes ==
  /\ job = [b \in Benches |-> job[b]]
  /\ \A b \in Benches : "kind" \in DOMAIN job[b]

Types ==
  /\ server \in [Jobs -> Alive \union {"none"}]
  /\ port \in Jobs \union {Nobody}
  /\ at \in [Jobs -> Places]
  /\ strangers \in [Jobs -> SUBSET Jobs]
  /\ met \in [Jobs -> SUBSET Jobs]
  /\ JobTypes

Warm(j) == j \in Benches /\ job[j].kind = "warm"

\* A job has a child only from Popen on, until it has waited for it or killed it;
\* a warm command has none at all.
Reaped ==
  /\ \A j \in Jobs : at[j] \in {"idle", "start", "warm", "done", "left"} => server[j] = "none"
  /\ \A j \in Jobs : Warm(j) => server[j] = "none" /\ at[j] # "start"

\* Jobs that run have met each other, and nobody has answered one not yet begun.
Acquainted ==
  /\ \A j, k \in Running : j # k => k \in met[j]
  /\ \A j \in Jobs : at[j] = "idle" => strangers[j] = {}

PortInv == Types /\ Reaped /\ Acquainted /\ AnswersAreItsOwn

-----------------------------------------------------------------------------
(* What a step of a job does to the port, the server and its own place     *)

\* A step between two questions: an answer heard or missed, the last one, or the
\* end of a warm command, which has nothing to stop.
Asks(j) ==
  /\ at[j] = "ask" /\ UNCHANGED <<server, port, met>>
  /\ \/ at' = at
     \/ at' = [at EXCEPT ![j] = "stop"]
     \/ at' = [at EXCEPT ![j] = "cut"]
     \/ Warm(j) /\ at' = [at EXCEPT ![j] = "done"]
  /\ \/ strangers' = strangers
     \/ Answers /\ strangers' = [strangers EXCEPT ![j] = @ \union ({port} \ {j})]

\* A step of a job that has no child.
Idles(j) ==
  /\ \/ at[j] = "warm" /\ at' = [at EXCEPT ![j] = "ask"]
     \/ at[j] = "warm" /\ at' = [at EXCEPT ![j] = "done"]
     \/ at[j] = "done" /\ at' = [at EXCEPT ![j] = "left"]
  /\ UNCHANGED <<server, port, met, strangers>>

\* A step that neither asks nor begins.
Serves(j) == Starts(j) \/ Stops(j) \/ Polls(j) \/ Interrupted(j) \/ CutShort(j)

KindsKept == \A b \in Benches : job'[b].kind = job[b].kind
LEMMA UpdateKeepsTypes ==
  ASSUME JobTypes, NEW b \in Benches, NEW new, Update(b, new), "kind" \in DOMAIN new
  PROVE  JobTypes' /\ job'[b] = new /\ \A c \in Benches : c # b => job'[c] = job[c]
  BY DEF JobTypes, Update

LEMMA FinallyEffect ==
  ASSUME JobTypes, NEW b \in Benches, NEW state, NEW why, Finally(b, state, why),
         state.kind = job[b].kind
  PROVE  /\ JobTypes' /\ KindsKept
         /\ at[b] = "ask"
         /\ \/ at' = [at EXCEPT ![b] = "stop"]
            \/ job[b].kind = "warm" /\ at' = [at EXCEPT ![b] = "done"]
<1> DEFINE new == [Fresh EXCEPT !.kind = state.kind, !.writer = state.writer,
                                !.ok = state.ok, !.failed = state.failed, !.broken = why]
<1>1. Update(b, new) /\ Goes(b, "ask", IF state.kind = "warm" THEN "done" ELSE "stop")
  BY DEF Finally
<1>2. "kind" \in DOMAIN new /\ new.kind = state.kind
  BY DEF Fresh
<1> HIDE DEF new
<1>3. JobTypes' /\ job'[b] = new /\ \A c \in Benches : c # b => job'[c] = job[c]
  BY <1>1, <1>2, UpdateKeepsTypes
<1> QED
  BY <1>1, <1>2, <1>3 DEF KindsKept, Goes

LEMMA EmitEffect ==
  ASSUME JobTypes, NEW b \in Benches, NEW counted, NEW records, NEW next,
         Emit(b, counted, records, next), at[b] = "ask",
         counted.kind = job[b].kind,
         "kind" \in DOMAIN next, next.kind = job[b].kind
  PROVE  /\ JobTypes' /\ KindsKept
         /\ \/ at' = at
            \/ at' = [at EXCEPT ![b] = "stop"]
            \/ job[b].kind = "warm" /\ at' = [at EXCEPT ![b] = "done"]
<1>1. CASE Update(b, next) /\ UNCHANGED at
  <2>1. JobTypes' /\ job'[b] = next /\ \A c \in Benches : c # b => job'[c] = job[c]
    BY <1>1, UpdateKeepsTypes
  <2> QED
    BY <1>1, <2>1 DEF KindsKept
<1>2. ASSUME NEW why, Finally(b, counted, why)
      PROVE  /\ JobTypes' /\ KindsKept
             /\ \/ at' = [at EXCEPT ![b] = "stop"]
                \/ job[b].kind = "warm" /\ at' = [at EXCEPT ![b] = "done"]
  BY <1>2, FinallyEffect
<1> QED
  BY <1>1, <1>2 DEF Emit

LEMMA GoneEffect ==
  ASSUME JobTypes, NEW b \in Benches, NEW code, NEW broken, Gone(b, code, broken)
  PROVE  JobTypes' /\ KindsKept
<1> DEFINE new == [Fresh EXCEPT !.kind = job[b].kind, !.exit = code, !.broken = broken]
<1>1. "kind" \in DOMAIN new /\ new.kind = job[b].kind
  BY DEF Fresh
<1>2. Update(b, new)
  BY DEF Gone
<1> HIDE DEF new
<1> QED
  BY <1>1, <1>2, UpdateKeepsTypes DEF KindsKept

\* What a step may do, told without the sweep.
Effect(j) ==
  /\ JobTypes'
  /\ \/ KindsKept /\ (Asks(j) \/ Idles(j) \/ Serves(j))
     \/ /\ (Begins(j, "start") /\ ~Warm(j)') \/ Begins(j, "warm")
        /\ \A b \in Benches : b # j => job'[b] = job[b]

LEMMA CaptureEffect ==
  ASSUME JobTypes, NEW c \in Captures, CaptureStep(c), UNCHANGED benchVars
  PROVE  Effect(c)
<1>1. JobTypes' /\ KindsKept
  BY DEF JobTypes, KindsKept, benchVars
<1>2. CASE AnswerSlot(c) \/ SlotFails(c) \/ FlavorFails(c) \/ FlavorOver(c)
           \/ \E junk \in BOOLEAN : FlavorHeard(c, junk)
  <2>1. Asks(c)
    BY <1>2 DEF AnswerSlot, SlotFails, FlavorFails, FlavorOver, FlavorHeard, Heard, NotHeard, Finish,
                Goes, Asks, portVars
  <2> QED
    BY <1>1, <2>1 DEF Effect
<1>3. CASE Begins(c, "start")
  BY <1>1, <1>3, JobsAssumption DEF Effect, Warm, benchVars
<1> QED
  BY <1>1, <1>2, <1>3 DEF CaptureStep, Audit, Effect, Serves

-----------------------------------------------------------------------------
LEMMA OpenWriterEffect ==
  ASSUME JobTypes, NEW b \in Benches, OpenWriter(b)
  PROVE  JobTypes' /\ KindsKept /\ Asks(b)
<1> DEFINE opened == [job[b] EXCEPT !.writer = TRUE]
<1>1. opened.kind = job[b].kind /\ "kind" \in DOMAIN opened
  BY DEF JobTypes
<1> HIDE DEF opened
<1>2. at[b] = "ask" /\ UNCHANGED <<portVars, strangers, met>>
      /\ (Emit(b, opened, <<RunStart>>, opened) \/ Finally(b, job[b], "write"))
  BY DEF OpenWriter, opened
<1> QED
  BY <1>1, <1>2, EmitEffect, FinallyEffect DEF Asks, portVars, Warm

LEMMA UnreadableEffect ==
  ASSUME JobTypes, NEW b \in Benches, Unreadable(b)
  PROVE  JobTypes' /\ KindsKept /\ Asks(b)
<1> DEFINE counted == [job[b] EXCEPT !.failed = @ + 1]
           records == <<Call(b, ImageCall, FALSE), AuditRecord(b, FALSE)>>
<1>1. counted.kind = job[b].kind /\ "kind" \in DOMAIN counted
  BY DEF JobTypes
<1>2. NextImage(counted).kind = job[b].kind /\ "kind" \in DOMAIN NextImage(counted)
  BY <1>1 DEF NextImage
<1>3. at[b] = "ask" /\ UNCHANGED <<portVars, strangers, met>>
      /\ Emit(b, counted, records, NextImage(counted))
  BY DEF Unreadable, Sweeping
<1> HIDE DEF counted, records
<1> QED
  BY <1>1, <1>2, <1>3, EmitEffect DEF Asks, portVars, Warm

\* A call is counted, recorded and done, or its recording breaks off.
LEMMA CallDoneEffect ==
  ASSUME JobTypes, NEW b \in Benches, NEW good, CallDone(b, good), at[b] = "ask"
  PROVE  /\ JobTypes' /\ KindsKept
         /\ \/ at' = at
            \/ at' = [at EXCEPT ![b] = "stop"]
            \/ job[b].kind = "warm" /\ at' = [at EXCEPT ![b] = "done"]
<1> DEFINE counted == Counted(b, good)
           next == [counted EXCEPT !.call = @ + 1, !.tries = BestOf, !.candidate = FALSE]
           records == <<Call(b, job[b].call, good)>>
<1>1. counted.kind = job[b].kind /\ "kind" \in DOMAIN counted
  BY DEF JobTypes, Counted
<1> HIDE DEF counted
<1>2. next.kind = job[b].kind /\ "kind" \in DOMAIN next
  BY <1>1
<1>3. Emit(b, counted, records, next)
  BY DEF CallDone, counted
<1> HIDE DEF next, records
<1> QED
  BY <1>1, <1>2, <1>3, EmitEffect

LEMMA AskSlotEffect ==
  ASSUME JobTypes, NEW b \in Benches, AskSlot(b)
  PROVE  JobTypes' /\ KindsKept /\ Asks(b)
<1>1. at[b] = "ask" /\ UNCHANGED <<server, port, met>>
  BY DEF AskSlot, Sweeping, Heard, NotHeard, portVars
<1>2. \/ strangers' = strangers
      \/ Answers /\ strangers' = [strangers EXCEPT ![b] = @ \union ({port} \ {b})]
  BY DEF AskSlot, Heard, NotHeard
<1>3. CallDone(b, TRUE) \/ CallDone(b, FALSE)
  BY DEF AskSlot
<1> QED
  BY <1>1, <1>2, <1>3, CallDoneEffect DEF Asks, Warm

LEMMA AskFlavorEffect ==
  ASSUME JobTypes, NEW b \in Benches, NEW junk \in BOOLEAN, AskFlavor(b, junk)
  PROVE  JobTypes' /\ KindsKept /\ Asks(b)
<1> DEFINE Again(candidate) == Update(b, [job[b] EXCEPT !.tries = @ - 1, !.candidate = candidate])
<1>1. at[b] = "ask" /\ UNCHANGED <<server, port, met>>
  BY DEF AskFlavor, Sweeping, Heard, NotHeard, portVars
<1>2. \/ strangers' = strangers
      \/ Answers /\ strangers' = [strangers EXCEPT ![b] = @ \union ({port} \ {b})]
  BY DEF AskFlavor, Heard, NotHeard
<1>3. \/ UNCHANGED at /\ \E candidate : Again(candidate)
      \/ CallDone(b, TRUE) \/ CallDone(b, job[b].candidate)
  BY Zenon DEF AskFlavor
<1>4. ASSUME UNCHANGED at, NEW candidate, Again(candidate)
      PROVE  JobTypes' /\ KindsKept
  <2> DEFINE new == [job[b] EXCEPT !.tries = @ - 1, !.candidate = candidate]
  <2>1. "kind" \in DOMAIN new /\ new.kind = job[b].kind
    BY DEF JobTypes
  <2>2. Update(b, new)
    BY <1>4
  <2> HIDE DEF new
  <2> QED
    BY <2>1, <2>2, UpdateKeepsTypes DEF KindsKept
<1> QED
  BY <1>1, <1>2, <1>3, <1>4, CallDoneEffect DEF Asks, Warm

LEMMA WriteAuditEffect ==
  ASSUME JobTypes, NEW b \in Benches, WriteAudit(b)
  PROVE  JobTypes' /\ KindsKept /\ Asks(b)
<1> DEFINE rest == [job[b] EXCEPT !.error = FALSE]
           next == IF job[b].variant = Variants THEN NextImage(rest)
                   ELSE [rest EXCEPT !.variant = @ + 1, !.call = 1]
           records == <<AuditRecord(b, ~job[b].error)>>
<1>1. rest.kind = job[b].kind /\ "kind" \in DOMAIN rest
  BY DEF JobTypes
<1>2. at[b] = "ask" /\ UNCHANGED <<portVars, strangers, met>> /\ Emit(b, job[b], records, next)
  BY DEF WriteAudit, Sweeping
<1> HIDE DEF rest, records
<1>3. next.kind = job[b].kind /\ "kind" \in DOMAIN next
  BY <1>1 DEF NextImage
<1> HIDE DEF next
<1> QED
  BY <1>2, <1>3, EmitEffect DEF Asks, portVars, Warm

LEMMA MoodsTryEffect ==
  ASSUME JobTypes, NEW b \in Benches, NEW junk \in BOOLEAN, MoodsTry(b, junk)
  PROVE  JobTypes' /\ KindsKept /\ Asks(b)
<1> DEFINE nextHour == [job[b] EXCEPT !.image = @ + 1, !.tries = BestOf]
           spent == IF job[b].tries = 1 THEN nextHour ELSE [job[b] EXCEPT !.tries = @ - 1]
<1>1. nextHour.kind = job[b].kind /\ "kind" \in DOMAIN nextHour
  BY DEF JobTypes
<1>2. spent.kind = job[b].kind /\ "kind" \in DOMAIN spent
  BY <1>1 DEF JobTypes
<1>3. at[b] = "ask" /\ UNCHANGED at /\ (Heard(b) \/ NotHeard(b))
      /\ (Update(b, nextHour) \/ Update(b, spent))
  BY Zenon DEF MoodsTry
<1> HIDE DEF spent, nextHour
<1>4. JobTypes' /\ KindsKept
  BY <1>1, <1>2, <1>3, UpdateKeepsTypes DEF KindsKept
<1> QED
  BY <1>3, <1>4 DEF Asks, Heard, NotHeard, portVars

LEMMA BenchEffect ==
  ASSUME JobTypes, NEW b \in Benches, BenchStep(b)
  PROVE  Effect(b)
<1>1. ASSUME NEW kind \in {"cold", "warm", "moods"}, BeginBench(b, kind) PROVE Effect(b)
  <2> DEFINE new == [job[b] EXCEPT !.kind = kind]
  <2>1. "kind" \in DOMAIN new /\ new.kind = kind
    BY DEF JobTypes
  <2>2. Update(b, new) /\ Begins(b, IF kind = "warm" THEN "warm" ELSE "start")
    BY <1>1 DEF BeginBench
  <2> HIDE DEF new
  <2>3. JobTypes' /\ job'[b] = new /\ \A c \in Benches : c # b => job'[c] = job[c]
    BY <2>1, <2>2, UpdateKeepsTypes
  <2>4. job'[b].kind = kind
    BY <2>1, <2>3
  <2>5. CASE kind = "warm"
    BY <2>2, <2>3, <2>5 DEF Effect
  <2>6. CASE kind # "warm"
    BY <2>2, <2>3, <2>4, <2>6 DEF Effect, Warm
  <2> QED
    BY <2>5, <2>6
<1>2. CASE Command(b)
  <2>1. CASE (Starts(b) \/ Stops(b)) /\ UNCHANGED benchVars
    BY <2>1 DEF JobTypes, KindsKept, benchVars, Effect, Serves
  <2>2. CASE WarmHealthy(b)
    BY <2>2 DEF WarmHealthy, JobTypes, KindsKept, benchVars, Effect, Idles, Goes, portVars
  <2>3. CASE FinishSweep(b)
    BY <2>3, FinallyEffect DEF FinishSweep, Effect, Asks, portVars, Warm
  <2>4. CASE Leave(b)
    <3>1. Goes(b, "done", "left") /\ UNCHANGED <<portVars, strangers, met>>
          /\ \E code, broken : Gone(b, code, broken)
      BY <2>4 DEF Leave
    <3>2. JobTypes' /\ KindsKept
      BY <3>1, GoneEffect
    <3> QED
      BY <3>1, <3>2 DEF Effect, Idles, Goes, portVars
  <2> QED
    BY <1>2, <2>1, <2>2, <2>3, <2>4, OpenWriterEffect, UnreadableEffect, AskSlotEffect,
       WriteAuditEffect, AskFlavorEffect, MoodsTryEffect DEF Command, Effect
<1>3. CASE BannerFails(b)
  BY <1>3 DEF BannerFails, JobTypes, KindsKept, benchVars, Effect, Asks, Goes, portVars
<1>4. CASE InterruptBench(b)
  <2>1. CASE at[b] = "ask" /\ Finally(b, job[b], "interrupt") /\ UNCHANGED <<portVars, strangers, met>>
    BY <2>1, FinallyEffect DEF Effect, Asks, portVars, Warm
  <2>2. CASE Interrupted(b) /\ Update(b, [job[b] EXCEPT !.broken = "interrupt"])
    <3> DEFINE new == [job[b] EXCEPT !.broken = "interrupt"]
    <3>1. "kind" \in DOMAIN new /\ new.kind = job[b].kind
      BY DEF JobTypes
    <3>2. Update(b, new) /\ Interrupted(b)
      BY <2>2
    <3> HIDE DEF new
    <3> QED
      BY <3>1, <3>2, UpdateKeepsTypes DEF KindsKept, Effect, Serves
  <2> QED
    BY <1>4, <2>1, <2>2 DEF InterruptBench
<1>5. CASE Polls(b) /\ UNCHANGED benchVars
  BY <1>5 DEF JobTypes, KindsKept, benchVars, Effect, Serves
<1>6. CASE CutShort(b) /\ Gone(b, None, "no")
  BY <1>6, GoneEffect DEF Effect, Serves
<1> QED
  BY <1>1, <1>2, <1>3, <1>4, <1>5, <1>6 DEF BenchStep

-----------------------------------------------------------------------------
(* What such a step preserves                                              *)

\* The place and the child of the job that steps, when neither begins nor asks.
LEMMA StepTypes ==
  ASSUME PortInv, NEW j \in Jobs, Effect(j)
  PROVE  Types'
<1> USE DEF PortInv, Types, Places, Over
<1>1. CASE Asks(j)
  BY <1>1 DEF Asks, Effect, Answers
<1>2. CASE Idles(j)
  BY <1>2 DEF Idles, Effect
<1>3. CASE Starts(j)
  BY <1>3 DEF Starts, CannotStart, Popen, ChildDied, Healthy, LoadTimesOut, Goes, Effect, portVars, Alive
<1>4. CASE Stops(j)
  BY <1>4 DEF Stops, Terminate, ChildExits, WaitTimesOut, KillChild, Goes, Ends, Effect, portVars, Alive
<1>5. CASE Polls(j)
  BY <1>5 DEF Polls, Goes, Effect, portVars
<1>6. CASE Interrupted(j)
  BY <1>6 DEF Interrupted, Unwinds, Effect, portVars
<1>7. CASE CutShort(j)
  BY <1>7 DEF CutShort, Ends, Effect, portVars, Running
<1>8. CASE Begins(j, "start") \/ Begins(j, "warm")
  BY <1>8 DEF Begins, Goes, Effect, portVars, Running
<1> QED
  BY <1>1, <1>2, <1>3, <1>4, <1>5, <1>6, <1>7, <1>8 DEF Effect, Serves

LEMMA StepReaps ==
  ASSUME PortInv, NEW j \in Jobs, Effect(j)
  PROVE  Reaped'
<1> USE DEF PortInv, Types, Places, Over, Reaped, Warm
<1>1. CASE KindsKept /\ Asks(j)
  BY <1>1 DEF Asks, KindsKept
<1>2. CASE KindsKept /\ Idles(j)
  BY <1>2 DEF Idles, KindsKept
<1>3. CASE KindsKept /\ Starts(j)
  BY <1>3 DEF Starts, CannotStart, Popen, ChildDied, Healthy, LoadTimesOut, Goes, KindsKept, portVars, Alive
<1>4. CASE KindsKept /\ Stops(j)
  BY <1>4 DEF Stops, Terminate, ChildExits, WaitTimesOut, KillChild, Goes, Ends, KindsKept, portVars, Alive
<1>5. CASE KindsKept /\ Polls(j)
  BY <1>5 DEF Polls, Goes, KindsKept, portVars
<1>6. CASE KindsKept /\ Interrupted(j)
  BY <1>6 DEF Interrupted, Unwinds, KindsKept, portVars
<1>7. CASE KindsKept /\ CutShort(j)
  BY <1>7 DEF CutShort, Ends, KindsKept, portVars, Running
<1>8. CASE /\ (Begins(j, "start") /\ ~Warm(j)') \/ Begins(j, "warm")
           /\ \A b \in Benches : b # j => job'[b] = job[b]
  BY <1>8 DEF Begins, Goes, portVars
<1> QED
  BY <1>1, <1>2, <1>3, <1>4, <1>5, <1>6, <1>7, <1>8 DEF Effect, Serves

\* Nobody who runs begins, nobody comes back from idle or from cut, and only a
\* job that asks is answered.
Walks(j) ==
  /\ met' = met
  /\ \A k \in Jobs : at'[k] \notin Over \union {"idle"} => at[k] \notin Over \union {"idle"}
  /\ \A k \in Jobs : at'[k] = "idle" => at[k] = "idle" /\ k # j
  /\ \A k \in Jobs : at[k] = "cut" => at'[k] = "cut"

LEMMA StepWalks ==
  ASSUME PortInv, NEW j \in Jobs, Asks(j) \/ Idles(j) \/ Serves(j)
  PROVE  Walks(j)
<1> USE DEF PortInv, Types, Places, Over, Walks
<1>1. CASE Asks(j)
  BY <1>1 DEF Asks
<1>2. CASE Idles(j)
  BY <1>2 DEF Idles
<1>3. CASE Starts(j)
  BY <1>3 DEF Starts, CannotStart, Popen, ChildDied, Healthy, LoadTimesOut, Goes
<1>4. CASE Stops(j)
  BY <1>4 DEF Stops, Terminate, ChildExits, WaitTimesOut, KillChild, Goes
<1>5. CASE Polls(j)
  BY <1>5 DEF Polls, Goes
<1>6. CASE Interrupted(j)
  BY <1>6 DEF Interrupted, Unwinds
<1>7. CASE CutShort(j)
  BY <1>7 DEF CutShort, Running
<1> QED
  BY <1>1, <1>2, <1>3, <1>4, <1>5, <1>6, <1>7 DEF Serves

LEMMA StepAcquaints ==
  ASSUME PortInv, NEW j \in Jobs, Effect(j)
  PROVE  Acquainted' /\ AnswersAreItsOwn'
<1> USE DEF PortInv, Types, Acquainted, AnswersAreItsOwn
<1>1. CASE Asks(j)
  <2>1. Walks(j)
    BY <1>1, StepWalks
  <2>2. \A k \in Jobs \ {j} : strangers'[k] = strangers[k]
    BY <1>1 DEF Asks
  <2>3. Acquainted'
    BY <2>1, <2>2 DEF Walks, Running
  <2>4. ASSUME Answers, NEW k \in Jobs, k = port, k # j
        PROVE  k \in met[j] \/ at[k] = "cut"
    <3>1. at[k] \notin {"idle", "start", "warm", "done", "left"}
      BY <2>4 DEF Answers, Reaped
    <3>2. at[k] = "cut" \/ k \in Running
      BY <3>1 DEF Over, Running, Places
    <3>3. j \in Running
      BY <1>1 DEF Asks, Over, Running
    <3> QED
      BY <2>4, <3>2, <3>3
  <2>5. \A k \in strangers'[j] : k \in met[j] \/ at[k] = "cut"
    BY <1>1, <2>4 DEF Asks, Answers
  <2>6. strangers' \in [Jobs -> SUBSET Jobs]
    BY StepTypes
  <2> QED
    BY <2>1, <2>2, <2>3, <2>5, <2>6 DEF Walks
<1>2. CASE Idles(j) \/ Serves(j)
  <2>1. Walks(j)
    BY <1>2, StepWalks
  <2>2. strangers' = strangers
    BY <1>2 DEF Idles, Serves, Starts, CannotStart, Popen, ChildDied, Healthy, LoadTimesOut,
                Stops, Terminate, ChildExits, WaitTimesOut, KillChild, Polls, Interrupted, CutShort
  <2> QED
    BY <2>1, <2>2 DEF Walks, Running
<1>3. CASE Begins(j, "start") \/ Begins(j, "warm")
  <2>1. /\ at[j] = "idle" /\ at'[j] \in {"start", "warm"}
        /\ \A k \in Jobs \ {j} : at'[k] = at[k]
        /\ strangers' = strangers
        /\ met'[j] = Running
        /\ \A k \in Jobs \ {j} : met'[k] = IF k \in Running THEN met[k] \union {j} ELSE met[k]
    <3>1. PICK first \in {"start", "warm"} : Begins(j, first)
      BY <1>3
    <3>2. at[j] = "idle" /\ at' = [at EXCEPT ![j] = first] /\ strangers' = strangers
      BY <3>1 DEF Begins, Goes
    <3>3. met' = [k \in Jobs |-> IF k = j THEN Running
                                ELSE IF k \in Running THEN met[k] \union {j} ELSE met[k]]
      BY <3>1 DEF Begins
    <3>4. met'[j] = Running
      BY <3>3
    <3>5. \A k \in Jobs \ {j} : met'[k] = IF k \in Running THEN met[k] \union {j} ELSE met[k]
      BY <3>3
    <3> QED
      BY <3>2, <3>4, <3>5
  <2>2. Running' = Running \union {j}
    <3>1. at'[j] \notin Over \union {"idle"}
      BY <2>1 DEF Over
    <3>2. \A k \in Jobs : k \in Running' <=> k \in Running \union {j}
      BY <2>1, <3>1 DEF Running
    <3> QED
      BY <3>2 DEF Running
  <2>3. j \notin Running
    BY <2>1 DEF Running
  <2>4. \A i, k \in Running' : i # k => k \in met'[i]
    <3>1. SUFFICES ASSUME NEW i \in Running', NEW k \in Running', i # k
                   PROVE  k \in met'[i]
      OBVIOUS
    <3>2. i \in Jobs /\ k \in Jobs
      BY DEF Running
    <3>3. CASE i = j
      BY <2>1, <2>2, <3>1, <3>3
    <3>4. CASE i # j
      <4>1. i \in Running /\ met'[i] = met[i] \union {j}
        BY <2>1, <2>2, <3>2, <3>4
      <4> QED
        BY <2>2, <3>1, <4>1
    <3> QED
      BY <3>3, <3>4
  <2>5. \A i \in Jobs : at'[i] = "idle" => strangers'[i] = {}
    BY <2>1
  <2>6. ASSUME NEW i \in Jobs, NEW k \in strangers'[i]
        PROVE  k \in met'[i] \/ at'[k] = "cut"
    <3>1. i # j /\ k \in strangers[i] /\ k \in Jobs
      BY <2>1, <2>6
    <3>2. met[i] \subseteq met'[i]
      BY <2>1, <3>1
    <3> QED
      BY <2>1, <3>1, <3>2
  <2> QED
    BY <2>4, <2>5, <2>6
<1> QED
  BY <1>1, <1>2, <1>3 DEF Effect

\* A child only goes from loading to up, or is gone.
LEMMA ServersKeepInv ==
  ASSUME PortInv, ServerStep, UNCHANGED benchVars
  PROVE  PortInv'
<1> USE DEF PortInv, ServerStep, benchVars
<1>1. PICK j \in Jobs : Listen(j) \/ Exit(j)
  OBVIOUS
<1>2. Types' /\ \A k \in Jobs : server[k] = "none" => server'[k] = "none"
  BY <1>1 DEF Types, JobTypes, Listen, Exit, Ends, Alive
<1>3. Reaped'
  BY <1>2 DEF Reaped, Warm
<1> QED
  BY <1>2, <1>3 DEF Acquainted, Running, AnswersAreItsOwn

LEMMA PortInit == Init => PortInv
<1> SUFFICES ASSUME Init PROVE PortInv
  OBVIOUS
<1> USE DEF Init, ServerInit, BenchInit
<1>1. Types
  BY DEF Types, JobTypes, Places, Fresh, Alive
<1>2. Reaped
  BY DEF Reaped, Warm, Fresh
<1> QED
  BY <1>1, <1>2 DEF PortInv, Acquainted, Running, Over, AnswersAreItsOwn

LEMMA PortStep == PortInv /\ [Next]_vars => PortInv'
<1> SUFFICES ASSUME PortInv, [Next]_vars PROVE PortInv'
  OBVIOUS
<1>1. JobTypes
  BY DEF PortInv, Types
<1>2. CASE \E j \in Jobs : Effect(j)
  BY <1>2, StepTypes, StepReaps, StepAcquaints DEF PortInv
<1>3. CASE \E c \in Captures : CaptureStep(c) /\ UNCHANGED benchVars
  BY <1>1, <1>2, <1>3, CaptureEffect DEF Jobs
<1>4. CASE \E b \in Benches : BenchStep(b) /\ UNCHANGED left
  BY <1>1, <1>2, <1>4, BenchEffect DEF Jobs
<1>5. CASE ServerStep /\ UNCHANGED <<left, benchVars>>
  BY <1>5, ServersKeepInv
<1>6. CASE UNCHANGED vars
  BY <1>6 DEF vars, serverVars, benchVars, PortInv, Types, JobTypes, Reaped, Warm, Acquainted,
              Running, AnswersAreItsOwn
<1> QED
  BY <1>3, <1>4, <1>5, <1>6 DEF Next

LEMMA PortInvariance == Spec => []PortInv
  BY PortInit, PortStep, PTL DEF Spec

\* llama_server.py: a stuck server must never outlive the capture that spawned it,
\* nor the command of the bench: whichever way the job ends short of being cut,
\* and however many others run beside it, its child is reaped first.
THEOREM Reaping == Spec => []NoServerLeftBehind
<1>1. PortInv => NoServerLeftBehind
  BY DEF PortInv, Reaped, NoServerLeftBehind, Alive
<1> QED
  BY <1>1, PortInvariance, PTL

\* The port is shared and wait_healthy asks whoever listens: the answers of a job
\* come from its own server, from that of a job it overlapped, or from one that was
\* left running when its job was cut short; jobs that follow each other never mix.
THEOREM Attribution == Spec => []AnswersAreItsOwn
<1>1. PortInv => AnswersAreItsOwn
  BY DEF PortInv
<1> QED
  BY <1>1, PortInvariance, PTL

-----------------------------------------------------------------------------
(* The bench's results: what a command's locals say of its file            *)

CallRecords == [type : {"call"}, image : Nat, variant : Nat, id : Nat, good : BOOLEAN]
AuditRecords == [type : {"audit"}, image : Nat, variant : Nat, text : BOOLEAN]
EndRecords == [type : {"run_end"}, ok : Nat, failed : Nat]
Records == {RunStart} \union CallRecords \union AuditRecords \union EndRecords

JobRecords ==
  [kind : {"cold", "warm", "moods"}, writer : BOOLEAN, image : Nat, variant : Nat, call : Nat,
   tries : Int, candidate : BOOLEAN, error : BOOLEAN, ok : Nat, failed : Nat,
   broken : {"no", "interrupt", "write"}, exit : {None, 0, 1, 2, Traceback}]

Unended(file) == \A i \in DOMAIN file : file[i].type # "run_end"
Covered(file) == {file[i].image : i \in Audits(file)}

\* The locals of a sweep that has yet to ask its first question.
AtStart(bench) ==
  /\ bench.image = 1 /\ bench.variant = 1 /\ bench.call = 1 /\ ~bench.error
  /\ bench.ok = 0 /\ bench.failed = 0 /\ bench.broken = "no"

Past(record, bench) ==
  record.image < bench.image \/ (record.image = bench.image /\ record.variant < bench.variant)

\* A sweep's locals tell its file: what is counted is recorded, the audits are
\* those of the variants behind it, and with them every image behind it has one.
SweepAt(file, bench) ==
  /\ bench.image \in 1..(Images + 1) /\ bench.variant \in 1..Variants
  /\ bench.broken = "no"
  /\ bench.ok = Cardinality(Good(file))
  /\ bench.ok + bench.failed = Cardinality(Calls(file))
  /\ \A i \in Audits(file) : Past(file[i], bench)
  /\ \A i \in Calls(file) : Past(file[i], bench) \/ i \in CallsOf(file, bench.image, bench.variant)
  /\ Covered(file) \subseteq 1..Images
  /\ \A image \in 1..(bench.image - 1) : image \in Covered(file)

\* Of the variant it is at, the calls recorded are those made so far.
Asked(file, bench) ==
  LET current == CallsOf(file, bench.image, bench.variant)
  IN /\ bench.call \in 1..(Flavor + 1) /\ (bench.image > Images => bench.call = 1)
     /\ {file[k].id : k \in current} = 1..(bench.call - 1)
     /\ bench.error <=> \E k \in current : ~file[k].good

InSweep(file, bench) == SweepAt(file, bench) /\ Asked(file, bench)

\* A sweep that has counted what is not recorded yet.
OffByOne(file, bench) ==
  LET missing == bench.ok + bench.failed - Cardinality(Calls(file))
  IN bench.ok - Cardinality(Good(file)) \in {0, missing} /\ missing \in {0, 1}

\* A file on which a sweep can be broken off.
Breaks(file, bench) ==
  file \in Seq(Records) /\ AuditsTell(file) /\ Unended(file) /\ OffByOne(file, bench)

\* Once the sweep is over its counts are the file's, or one ahead when it was
\* broken off.
Settled(file, bench) ==
  LET missing == bench.ok + bench.failed - Cardinality(Calls(file))
  IN /\ bench.ok - Cardinality(Good(file)) \in {0, missing}
     /\ missing \in IF bench.broken = "no" THEN {0} ELSE {0, 1}
     /\ bench.broken = "no" => Covered(file) = 1..Images

Begun == {"stop", "wait", "kill", "done"}

\* What holds of a command, its place and its file.
BenchTells(place, file, bench) ==
  /\ bench \in JobRecords /\ file \in Seq(Records) /\ AuditsTell(file)
  /\ place = "left" => EndCounts(file, bench.broken) /\ ExitTells(file, bench)
  /\ place # "left" => Unended(file) /\ bench.exit = None
  /\ bench.writer => bench.kind # "moods" /\ place \in Begun \union {"ask"}
  /\ ~bench.writer /\ place \notin {"left", "cut"} => file = <<>> /\ bench.ok = 0 /\ bench.failed = 0
  /\ place \in {"idle", "start", "poll", "get", "warm"} => AtStart(bench)
  /\ place = "ask" /\ ~bench.writer /\ bench.kind # "moods" => AtStart(bench)
  /\ place = "ask" => bench.broken = "no"
  /\ place = "ask" /\ bench.writer => InSweep(file, bench)
  /\ place \in Begun /\ bench.writer => Settled(file, bench)

BenchInv ==
  /\ job = [b \in Benches |-> job[b]] /\ results = [b \in Benches |-> results[b]]
  /\ \A b \in Benches : BenchTells(at[b], results[b], job[b])

-----------------------------------------------------------------------------
(* A file and its next record                                              *)

LEMMA FileTypes ==
  ASSUME NEW file \in Seq(Records)
  PROVE  /\ DOMAIN file = 1..Len(file) /\ Len(file) \in Nat /\ \A i \in DOMAIN file : file[i] \in Records
         /\ \A i \in Calls(file) : file[i] \in CallRecords
         /\ \A i \in Audits(file) : file[i] \in AuditRecords
<1>1. DOMAIN file = 1..Len(file) /\ Len(file) \in Nat /\ \A i \in DOMAIN file : file[i] \in Records
  OBVIOUS
<1>2. ASSUME NEW r \in Records
      PROVE  (r.type = "call" => r \in CallRecords) /\ (r.type = "audit" => r \in AuditRecords)
  BY DEF Records, RunStart, CallRecords, AuditRecords, EndRecords
<1> QED
  BY <1>1, <1>2 DEF Calls, Audits

\* One record more.
Extended(file, r) == Append(file, r)

LEMMA ExtendedFile ==
  ASSUME NEW file \in Seq(Records), NEW r \in Records
  PROVE  /\ Extended(file, r) \in Seq(Records) /\ Len(Extended(file, r)) = Len(file) + 1
         /\ DOMAIN Extended(file, r) = DOMAIN file \union {Len(file) + 1}
         /\ Len(file) + 1 \notin DOMAIN file
         /\ \A i \in DOMAIN file : Extended(file, r)[i] = file[i]
         /\ \A i \in DOMAIN file : i < Len(file) + 1
         /\ Extended(file, r)[Len(file) + 1] = r
  BY AppendProperties, LenProperties DEF Extended

LEMMA ExtendedCalls ==
  ASSUME NEW file \in Seq(Records), NEW r \in Records, NEW image, NEW variant
  PROVE  /\ Calls(Extended(file, r)) =
              Calls(file) \union (IF r.type = "call" THEN {Len(file) + 1} ELSE {})
         /\ Good(Extended(file, r)) =
              Good(file) \union (IF r.type = "call" /\ r.good THEN {Len(file) + 1} ELSE {})
         /\ Audits(Extended(file, r)) =
              Audits(file) \union (IF r.type = "audit" THEN {Len(file) + 1} ELSE {})
         /\ CallsOf(Extended(file, r), image, variant) =
              CallsOf(file, image, variant)
                \union (IF r.type = "call" /\ r.image = image /\ r.variant = variant
                          THEN {Len(file) + 1} ELSE {})
<1> DEFINE new == Extended(file, r)
           last == Len(file) + 1
<1>1. /\ DOMAIN new = DOMAIN file \union {last} /\ last \notin DOMAIN file
      /\ \A i \in DOMAIN file : new[i] = file[i]
      /\ new[last] = r
  <2>1. /\ DOMAIN Extended(file, r) = DOMAIN file \union {Len(file) + 1}
        /\ Len(file) + 1 \notin DOMAIN file
        /\ Extended(file, r)[Len(file) + 1] = r
    BY ExtendedFile
  <2>2. \A i \in DOMAIN file : Extended(file, r)[i] = file[i]
    BY ExtendedFile
  <2> QED
    BY <2>1, <2>2
<1> HIDE DEF new, last
<1>2. /\ Calls(new) = Calls(file) \union (IF r.type = "call" THEN {last} ELSE {})
      /\ Audits(new) = Audits(file) \union (IF r.type = "audit" THEN {last} ELSE {})
  BY <1>1 DEF Calls, Audits
<1>3. Good(new) = Good(file) \union (IF r.type = "call" /\ r.good THEN {last} ELSE {})
  BY <1>1, <1>2 DEF Calls, Good
<1>4. CallsOf(new, image, variant) = CallsOf(file, image, variant)
        \union (IF r.type = "call" /\ r.image = image /\ r.variant = variant THEN {last} ELSE {})
  BY <1>1, <1>2 DEF Calls, CallsOf
<1> QED
  BY <1>2, <1>3, <1>4 DEF new, last

LEMMA NoCallMore ==
  ASSUME NEW file \in Seq(Records), NEW r \in Records, NEW image, NEW variant,
         ~(r.type = "call" /\ r.image = image /\ r.variant = variant)
  PROVE  CallsOf(Extended(file, r), image, variant) = CallsOf(file, image, variant)
<1> DEFINE new == CallsOf(Extended(file, r), image, variant)
           old == CallsOf(file, image, variant)
           same == r.type = "call" /\ r.image = image /\ r.variant = variant
<1>1. new = old \union (IF same THEN {Len(file) + 1} ELSE {})
  BY ExtendedCalls
<1>2. ~same
  OBVIOUS
<1> HIDE DEF new, old, same
<1>3. new = old
  BY <1>1, <1>2
<1> QED
  BY <1>3 DEF new, old

LEMMA NoAuditMore ==
  ASSUME NEW file \in Seq(Records), NEW r \in Records, r.type # "audit"
  PROVE  Audits(Extended(file, r)) = Audits(file)
<1> DEFINE new == Audits(Extended(file, r))
           old == Audits(file)
<1>1. new = old \union (IF r.type = "audit" THEN {Len(file) + 1} ELSE {})
  BY ExtendedCalls, Zenon
<1> HIDE DEF new, old
<1>2. new = old
  BY <1>1
<1> QED
  BY <1>2 DEF new, old

LEMMA CallsFinite ==
  ASSUME NEW file \in Seq(Records)
  PROVE  /\ IsFiniteSet(Calls(file)) /\ IsFiniteSet(Good(file))
         /\ Cardinality(Calls(file)) \in Nat /\ Cardinality(Good(file)) \in Nat
         /\ Good(file) \subseteq Calls(file) /\ Calls(file) \subseteq DOMAIN file
<1>1. Good(file) \subseteq Calls(file) /\ Calls(file) \subseteq DOMAIN file
  BY DEF Calls, Good
<1>2. IsFiniteSet(DOMAIN file)
  BY FS_Interval
<1> QED
  BY <1>1, <1>2, FS_Subset, FS_CardinalityType

LEMMA ExtendedCounts ==
  ASSUME NEW file \in Seq(Records), NEW r \in Records
  PROVE  /\ Cardinality(Calls(Extended(file, r))) =
              Cardinality(Calls(file)) + (IF r.type = "call" THEN 1 ELSE 0)
         /\ Cardinality(Good(Extended(file, r))) =
              Cardinality(Good(file)) + (IF r.type = "call" /\ r.good THEN 1 ELSE 0)
<1> DEFINE last == Len(file) + 1
           added == r.type = "call" /\ r.good
<1>1. last \notin Calls(file) /\ last \notin Good(file) /\ IsFiniteSet(Calls(file)) /\ IsFiniteSet(Good(file))
      /\ Cardinality(Calls(file)) \in Nat /\ Cardinality(Good(file)) \in Nat
  BY CallsFinite, ExtendedFile
<1>2. /\ Calls(Extended(file, r)) = Calls(file) \union (IF r.type = "call" THEN {last} ELSE {})
      /\ Good(Extended(file, r)) = Good(file) \union (IF added THEN {last} ELSE {})
  BY ExtendedCalls, Zenon
<1> HIDE DEF last, added
<1>3. /\ Cardinality(Calls(file) \union {last}) = Cardinality(Calls(file)) + 1
      /\ Cardinality(Good(file) \union {last}) = Cardinality(Good(file)) + 1
  BY <1>1, FS_AddElement
<1>4. Calls(file) \union {} = Calls(file) /\ Good(file) \union {} = Good(file)
  OBVIOUS
<1>5. Cardinality(Calls(Extended(file, r))) = Cardinality(Calls(file)) + (IF r.type = "call" THEN 1 ELSE 0)
  <2>1. CASE r.type = "call"
    BY <1>2, <1>3, <2>1
  <2>2. CASE r.type # "call"
    BY <1>1, <1>2, <1>4, <2>2
  <2> QED
    BY <2>1, <2>2
<1>6. Cardinality(Good(Extended(file, r))) = Cardinality(Good(file)) + (IF added THEN 1 ELSE 0)
  <2>1. CASE added
    BY <1>2, <1>3, <2>1
  <2>2. CASE ~added
    BY <1>1, <1>2, <1>4, <2>2
  <2> QED
    BY <2>1, <2>2
<1> QED
  BY <1>5, <1>6 DEF added

\* What is out of one record, or of two, when their emission breaks off.
LEMMA WholeOfOne ==
  ASSUME NEW file \in Seq(Records), NEW r \in Records
  PROVE  file \o <<r>> = Extended(file, r)
  BY AppendIsConcat DEF Extended

LEMMA WholeOfTwo ==
  ASSUME NEW file \in Seq(Records), NEW r \in Records, NEW q \in Records
  PROVE  file \o <<r, q>> = Extended(Extended(file, r), q)
<1> DEFINE s == file \o <<r, q>>
           t == Extended(Extended(file, r), q)
<1>1. <<r, q>> \in Seq(Records) /\ Len(<<r, q>>) = 2 /\ <<r, q>>[1] = r /\ <<r, q>>[2] = q
  OBVIOUS
<1>2. /\ s \in Seq(Records) /\ Len(s) = Len(file) + 2
      /\ \A i \in 1..(Len(file) + 2) : s[i] = IF i <= Len(file) THEN file[i] ELSE <<r, q>>[i - Len(file)]
  BY <1>1, ConcatProperties
<1>3. /\ t \in Seq(Records) /\ Len(t) = Len(file) + 2
      /\ \A i \in 1..Len(file) : t[i] = file[i]
      /\ t[Len(file) + 1] = r /\ t[Len(file) + 2] = q
  <2> DEFINE one == Extended(file, r)
  <2>1. /\ one \in Seq(Records) /\ Len(one) = Len(file) + 1
        /\ \A i \in 1..Len(file) : one[i] = file[i]
        /\ one[Len(file) + 1] = r
    BY AppendProperties DEF Extended
  <2> HIDE DEF one
  <2>2. /\ Extended(one, q) \in Seq(Records) /\ Len(Extended(one, q)) = Len(one) + 1
        /\ \A i \in 1..Len(one) : Extended(one, q)[i] = one[i]
        /\ Extended(one, q)[Len(one) + 1] = q
    BY <2>1, AppendProperties DEF Extended
  <2>3. Len(file) \in Nat
    OBVIOUS
  <2> QED
    BY <2>1, <2>2, <2>3 DEF one
<1>4. Len(file) \in Nat
  OBVIOUS
<1> HIDE DEF s, t
<1>5. ASSUME NEW i \in 1..Len(s) PROVE s[i] = t[i]
  <2>1. CASE i <= Len(file)
    BY <1>2, <1>3, <1>4, <2>1
  <2>2. CASE i = Len(file) + 1
    BY <1>1, <1>2, <1>3, <1>4, <2>2
  <2>3. CASE i = Len(file) + 2
    BY <1>1, <1>2, <1>3, <1>4, <2>3
  <2> QED
    BY <1>2, <1>4, <2>1, <2>2, <2>3
<1>6. s = t
  BY <1>2, <1>3, <1>5, SeqEqual, Zenon
<1> QED
  BY <1>6 DEF s, t

LEMMA PartOfOne ==
  ASSUME NEW file \in Seq(Records), NEW r \in Records, NEW n \in 0..Len(<<r>>)
  PROVE  file \o SubSeq(<<r>>, 1, n) \in {file, Extended(file, r)}
<1>1. CASE n = 0
  <2>1. SubSeq(<<r>>, 1, n) = <<>>
    BY <1>1
  <2> QED
    BY <2>1, ConcatEmptySeq
<1>2. CASE n = 1
  <2>1. <<r>> \in Seq(Records) /\ Len(<<r>>) = 1
    OBVIOUS
  <2>2. SubSeq(<<r>>, 1, Len(<<r>>)) = <<r>>
    BY <2>1, SubSeqFull, Zenon
  <2> QED
    BY <1>2, <2>1, <2>2, WholeOfOne
<1>3. n \in {0, 1}
  OBVIOUS
<1> QED
  BY <1>1, <1>2, <1>3

LEMMA PartOfTwo ==
  ASSUME NEW file \in Seq(Records), NEW r \in Records, NEW q \in Records, NEW n \in 0..Len(<<r, q>>)
  PROVE  file \o SubSeq(<<r, q>>, 1, n) \in {file, Extended(file, r), Extended(Extended(file, r), q)}
<1> DEFINE two == <<r, q>>
<1>1. two \in Seq(Records) /\ Len(two) = 2 /\ two[1] = r /\ two[2] = q
  OBVIOUS
<1>2. CASE n = 0
  <2>1. SubSeq(two, 1, n) = <<>>
    BY <1>2
  <2> QED
    BY <2>1, ConcatEmptySeq
<1>3. CASE n = 1
  <2> HIDE DEF two
  <2>0. \A i \in 1..1 : two[i] \in Records
    BY <1>1
  <2>1. SubSeq(two, 1, 1) \in Seq(Records) /\ Len(SubSeq(two, 1, 1)) = 1 /\ SubSeq(two, 1, 1)[1] = r
    BY <1>1, <2>0, SubSeqProperties
  <2>2. <<r>> \in Seq(Records) /\ Len(<<r>>) = 1 /\ <<r>>[1] = r
    OBVIOUS
  <2>3. SubSeq(two, 1, 1) = <<r>>
    <3> DEFINE one == SubSeq(two, 1, 1)
               whole == <<r>>
    <3>1. one \in Seq(Records) /\ whole \in Seq(Records) /\ Len(one) = Len(whole)
          /\ Len(one) = 1 /\ one[1] = whole[1]
      BY <2>1, <2>2
    <3> HIDE DEF one, whole
    <3>2. \A i \in 1..Len(one) : one[i] = whole[i]
      BY <3>1
    <3>3. one = whole
      BY <3>1, <3>2, SeqEqual, Zenon
    <3> QED
      BY <3>3 DEF one, whole
  <2> QED
    BY <1>3, <2>3, WholeOfOne DEF two
<1>4. CASE n = 2
  <2>1. SubSeq(two, 1, Len(two)) = two
    BY <1>1, SubSeqFull
  <2> QED
    BY <1>1, <1>4, <2>1, WholeOfTwo
<1>5. n \in {0, 1, 2}
  BY <1>1
<1> QED
  BY <1>2, <1>3, <1>4, <1>5

-----------------------------------------------------------------------------
(* What a step of the sweep adds to its file                               *)

\* An audit tells its calls in a longer file as it did before, if there are none more.
LEMMA AuditStillTells ==
  ASSUME NEW file \in Seq(Records), NEW new \in Seq(Records), AuditsTell(file),
         \A k \in DOMAIN file : new[k] = file[k],
         NEW i \in Audits(file),
         CallsOf(new, file[i].image, file[i].variant) = CallsOf(file, file[i].image, file[i].variant)
  PROVE  LET calls == CallsOf(new, new[i].image, new[i].variant)
         IN /\ \A k \in calls : k < i
            /\ new[i].text <=> \A k \in calls : new[k].good
            /\ new[i].text => {new[k].id : k \in calls} = 1..Flavor
<1> DEFINE calls == CallsOf(file, file[i].image, file[i].variant)
<1>1. new[i] = file[i]
  BY DEF Audits
<1>2. \A k \in calls : new[k] = file[k]
  BY DEF CallsOf, Calls
<1>3. /\ \A k \in calls : k < i
      /\ file[i].text <=> \A k \in calls : file[k].good
      /\ file[i].text => {file[k].id : k \in calls} = 1..Flavor
  BY DEF AuditsTell
<1>4. CallsOf(new, new[i].image, new[i].variant) = calls
  BY <1>1
<1> HIDE DEF calls
<1>5. {new[k].id : k \in calls} = {file[k].id : k \in calls}
  BY <1>2
<1>6. (\A k \in calls : new[k].good) <=> \A k \in calls : file[k].good
  BY <1>2
<1> QED
  BY <1>1, <1>3, <1>4, <1>5, <1>6

LEMMA PlainRecord ==
  ASSUME NEW file \in Seq(Records), AuditsTell(file), Unended(file),
         NEW r \in Records, r.type \notin {"call", "audit"}
  PROVE  /\ AuditsTell(Extended(file, r))
         /\ r.type # "run_end" => Unended(Extended(file, r))
<1> DEFINE new == Extended(file, r)
<1>1. Audits(new) = Audits(file)
  BY NoAuditMore
<1>2. DOMAIN new = DOMAIN file \union {Len(file) + 1} /\ new[Len(file) + 1] = r
  BY ExtendedFile
<1>3. new \in Seq(Records) /\ \A i \in DOMAIN file : new[i] = file[i]
  BY ExtendedFile
<1>4. \A i \in Audits(file) : CallsOf(new, file[i].image, file[i].variant)
                                = CallsOf(file, file[i].image, file[i].variant)
  BY NoCallMore
<1> HIDE DEF new
<1>5. AuditsTell(new)
  BY <1>1, <1>3, <1>4, AuditStillTells DEF AuditsTell
<1>6. r.type # "run_end" => Unended(new)
  BY <1>2, <1>3 DEF Unended
<1> QED
  BY <1>5, <1>6 DEF new

\* A call recorded where the sweep is leaves the audits behind it as they are.
LEMMA CallTells ==
  ASSUME NEW file \in Seq(Records), NEW bench \in JobRecords,
         SweepAt(file, bench), AuditsTell(file), Unended(file),
         NEW r \in CallRecords, r.image = bench.image, r.variant = bench.variant
  PROVE  AuditsTell(Extended(file, r)) /\ Unended(Extended(file, r))
<1> DEFINE new == Extended(file, r)
<1>1. r \in Records /\ r.type = "call"
  BY DEF Records, CallRecords
<1>2. DOMAIN new = DOMAIN file \union {Len(file) + 1} /\ new[Len(file) + 1] = r
  BY <1>1, ExtendedFile
<1>3. new \in Seq(Records) /\ \A i \in DOMAIN file : new[i] = file[i]
  BY <1>1, ExtendedFile
<1>4. Audits(new) = Audits(file)
  BY <1>1, NoAuditMore
<1>5. ASSUME NEW i \in Audits(file)
      PROVE  CallsOf(new, file[i].image, file[i].variant) = CallsOf(file, file[i].image, file[i].variant)
  <2>1. Past(file[i], bench)
    BY DEF SweepAt
  <2>2. file[i] \in AuditRecords
    BY FileTypes
  <2>3. ~(r.image = file[i].image /\ r.variant = file[i].variant)
    BY <2>1, <2>2 DEF Past, AuditRecords, JobRecords
  <2> QED
    BY <1>1, <2>3, NoCallMore
<1> HIDE DEF new
<1>6. AuditsTell(new)
  BY <1>3, <1>4, <1>5, AuditStillTells DEF AuditsTell
<1>7. Unended(new)
  BY <1>1, <1>2, <1>3 DEF Unended
<1> QED
  BY <1>6, <1>7 DEF new

LEMMA AuditTells ==
  ASSUME NEW file \in Seq(Records), AuditsTell(file), Unended(file), NEW r \in AuditRecords,
         r.text <=> \A k \in CallsOf(file, r.image, r.variant) : file[k].good,
         r.text => {file[k].id : k \in CallsOf(file, r.image, r.variant)} = 1..Flavor
  PROVE  AuditsTell(Extended(file, r)) /\ Unended(Extended(file, r))
<1> DEFINE new == Extended(file, r)
           last == Len(file) + 1
           calls == CallsOf(file, r.image, r.variant)
<1>1. r \in Records /\ r.type = "audit"
  BY DEF Records, AuditRecords
<1>2. DOMAIN new = DOMAIN file \union {last} /\ new[last] = r
  BY <1>1, ExtendedFile
<1>3. new \in Seq(Records) /\ \A i \in DOMAIN file : new[i] = file[i]
  BY <1>1, ExtendedFile
<1>4. \A i \in DOMAIN file : i < last
  BY <1>1, ExtendedFile
<1>5. Audits(new) = Audits(file) \union {last}
  BY <1>1, ExtendedCalls
<1>6. \A image, variant : CallsOf(new, image, variant) = CallsOf(file, image, variant)
  BY <1>1, NoCallMore
<1>7. calls \subseteq DOMAIN file
  BY DEF CallsOf, Calls
<1>8. CallsOf(new, new[last].image, new[last].variant) = calls
  BY <1>2, <1>6
<1>9. (r.text <=> \A k \in calls : file[k].good) /\ (r.text => {file[k].id : k \in calls} = 1..Flavor)
  OBVIOUS
<1> HIDE DEF new, last, calls
<1>10. /\ \A k \in calls : k < last
       /\ r.text <=> \A k \in calls : new[k].good
       /\ r.text => {new[k].id : k \in calls} = 1..Flavor
  <2>1. \A k \in calls : new[k] = file[k] /\ k < last
    BY <1>3, <1>4, <1>7
  <2>2. {new[k].id : k \in calls} = {file[k].id : k \in calls}
    BY <2>1
  <2> QED
    BY <1>9, <2>1, <2>2
<1>11. ASSUME NEW i \in Audits(new)
       PROVE  LET told == CallsOf(new, new[i].image, new[i].variant)
              IN /\ \A k \in told : k < i
                 /\ new[i].text <=> \A k \in told : new[k].good
                 /\ new[i].text => {new[k].id : k \in told} = 1..Flavor
  <2>1. CASE i = last
    BY <1>2, <1>8, <1>10, <2>1
  <2>2. CASE i \in Audits(file)
    BY <1>3, <1>6, <2>2, AuditStillTells
  <2> QED
    BY <1>5, <2>1, <2>2
<1>12. AuditsTell(new)
  BY <1>11 DEF AuditsTell
<1>13. Unended(new)
  BY <1>1, <1>2, <1>3 DEF Unended
<1> QED
  BY <1>12, <1>13 DEF new

-----------------------------------------------------------------------------
(* Where that leaves the sweep                                             *)

\* The locals with one call more counted.
CountsOne(bench, next, good) ==
  /\ next \in JobRecords
  /\ next.image = bench.image /\ next.variant = bench.variant /\ next.broken = bench.broken
  /\ next.ok = bench.ok + (IF good THEN 1 ELSE 0)
  /\ next.failed = bench.failed + (IF good THEN 0 ELSE 1)

LEMMA SweepBreaks ==
  ASSUME NEW file \in Seq(Records), NEW bench \in JobRecords, SweepAt(file, bench)
  PROVE  /\ OffByOne(file, bench)
         /\ \A good \in BOOLEAN : \A next : CountsOne(bench, next, good) => OffByOne(file, next)
<1> DEFINE calls == Cardinality(Calls(file))
           goods == Cardinality(Good(file))
<1>1. calls \in Nat /\ goods \in Nat
  BY CallsFinite
<1>2. bench.ok = goods /\ bench.ok + bench.failed = calls /\ bench.ok \in Nat /\ bench.failed \in Nat
  BY DEF SweepAt, JobRecords
<1> HIDE DEF calls, goods
<1>3. OffByOne(file, bench)
  BY <1>1, <1>2 DEF OffByOne, calls, goods
<1>4. ASSUME NEW good \in BOOLEAN, NEW next, CountsOne(bench, next, good)
      PROVE  OffByOne(file, next)
  <2>1. CASE good
    <3>1. next.ok = bench.ok + 1 /\ next.failed = bench.failed
      BY <1>2, <1>4, <2>1 DEF CountsOne
    <3>2. next.ok - goods = 1 /\ next.ok + next.failed - calls = 1
      BY <1>1, <1>2, <3>1
    <3> QED
      BY <3>2 DEF OffByOne, calls, goods
  <2>2. CASE ~good
    <3>1. next.ok = bench.ok /\ next.failed = bench.failed + 1
      BY <1>2, <1>4, <2>2 DEF CountsOne
    <3>2. next.ok - goods = 0 /\ next.ok + next.failed - calls = 1
      BY <1>1, <1>2, <3>1
    <3> QED
      BY <3>2 DEF OffByOne, calls, goods
  <2> QED
    BY <2>1, <2>2
<1> QED
  BY <1>3, <1>4

LEMMA SameCovered ==
  ASSUME NEW file \in Seq(Records), NEW r \in Records
  PROVE  Covered(Extended(file, r)) = Covered(file) \union (IF r.type = "audit" THEN {r.image} ELSE {})
<1> DEFINE new == Extended(file, r)
           last == Len(file) + 1
<1>1. new[last] = r /\ \A i \in Audits(file) : new[i] = file[i]
  <2>1. new[last] = r /\ \A i \in DOMAIN file : new[i] = file[i]
    BY ExtendedFile
  <2> QED
    BY <2>1 DEF Audits
<1>2. Audits(new) = Audits(file) \union (IF r.type = "audit" THEN {last} ELSE {})
  BY ExtendedCalls
<1> HIDE DEF new, last
<1>3. CASE r.type = "audit"
  BY <1>1, <1>2, <1>3 DEF Covered, new
<1>4. CASE r.type # "audit"
  BY <1>1, <1>2, <1>4 DEF Covered, new
<1> QED
  BY <1>3, <1>4

LEMMA CallStays ==
  ASSUME NEW file \in Seq(Records), NEW bench \in JobRecords, SweepAt(file, bench),
         NEW r \in CallRecords, r.image = bench.image, r.variant = bench.variant,
         NEW next, CountsOne(bench, next, r.good)
  PROVE  SweepAt(Extended(file, r), next)
<1> DEFINE new == Extended(file, r)
           last == Len(file) + 1
<1>1. r \in Records /\ r.type = "call" /\ r.good \in BOOLEAN
  BY DEF Records, CallRecords
<1>2. Audits(new) = Audits(file)
  BY <1>1, NoAuditMore
<1>3. Covered(new) = Covered(file)
  BY <1>1, SameCovered
<1>4. \A i \in DOMAIN file : new[i] = file[i]
  BY <1>1, ExtendedFile
<1>5. Calls(new) = Calls(file) \union {last}
      /\ CallsOf(new, bench.image, bench.variant) = CallsOf(file, bench.image, bench.variant) \union {last}
  BY <1>1, ExtendedCalls
<1>6. /\ Cardinality(Calls(new)) = Cardinality(Calls(file)) + 1
      /\ Cardinality(Good(new)) = Cardinality(Good(file)) + (IF r.good THEN 1 ELSE 0)
  BY <1>1, ExtendedCounts
<1>7. next.image = bench.image /\ next.variant = bench.variant /\ next.broken = "no"
  BY DEF CountsOne, SweepAt
<1>8. Cardinality(Calls(file)) \in Nat /\ Cardinality(Good(file)) \in Nat
      /\ bench.ok \in Nat /\ bench.failed \in Nat
  BY CallsFinite DEF JobRecords
<1> HIDE DEF new, last
<1>9. next.ok = Cardinality(Good(new)) /\ next.ok + next.failed = Cardinality(Calls(new))
  BY <1>1, <1>6, <1>8 DEF SweepAt, CountsOne
<1>10. \A i \in Audits(new) : Past(new[i], next)
  BY <1>2, <1>4, <1>7 DEF SweepAt, Past, Audits
<1>11. \A i \in Calls(new) : Past(new[i], next) \/ i \in CallsOf(new, next.image, next.variant)
  BY <1>4, <1>5, <1>7 DEF SweepAt, Past, Calls
<1>12. SweepAt(new, next)
  BY <1>3, <1>7, <1>9, <1>10, <1>11 DEF SweepAt
<1> QED
  BY <1>12 DEF new

LEMMA CallAdvances ==
  ASSUME NEW file \in Seq(Records), NEW bench \in JobRecords, InSweep(file, bench),
         bench.image <= Images, bench.call <= Flavor,
         NEW r \in CallRecords, r.image = bench.image, r.variant = bench.variant, r.id = bench.call,
         NEW next, CountsOne(bench, next, r.good),
         next.call = bench.call + 1, next.error <=> (bench.error \/ ~r.good)
  PROVE  InSweep(Extended(file, r), next)
<1> DEFINE new == Extended(file, r)
           last == Len(file) + 1
           current == CallsOf(file, bench.image, bench.variant)
<1>1. r \in Records /\ r.type = "call" /\ bench.call \in Nat /\ bench.image \in Nat /\ Images \in Nat /\ Flavor \in Nat
  BY SweepAssumption, AskAssumption DEF Records, CallRecords, JobRecords, Flavor
<1>2. new[last] = r /\ \A i \in current : new[i] = file[i]
  BY <1>1, ExtendedFile DEF CallsOf, Calls
<1>3. CallsOf(new, bench.image, bench.variant) = current \union {last}
  BY <1>1, ExtendedCalls
<1>4. next.image = bench.image /\ next.variant = bench.variant
  BY DEF CountsOne
<1>5. {file[k].id : k \in current} = 1..(bench.call - 1)
      /\ (bench.error <=> \E k \in current : ~file[k].good) /\ bench.call >= 1
  BY DEF InSweep, Asked
<1>6. SweepAt(new, next)
  BY CallStays DEF InSweep
<1> HIDE DEF new, last, current
<1>7. {new[k].id : k \in current \union {last}} = {file[k].id : k \in current} \union {bench.call}
  BY <1>2
<1>8. 1..(bench.call - 1) \union {bench.call} = 1..(next.call - 1)
  BY <1>1, <1>5
<1>9. next.error <=> \E k \in current \union {last} : ~new[k].good
  BY <1>2, <1>5
<1>10. next.call \in 1..(Flavor + 1) /\ ~(next.image > Images)
  BY <1>1, <1>4, <1>5
<1>11. Asked(new, next)
  BY <1>3, <1>4, <1>5, <1>7, <1>8, <1>9, <1>10 DEF Asked
<1> QED
  BY <1>6, <1>11 DEF InSweep, new

\* The audit of a variant, or of a whole image, and the locals go on to the next one.
LEMMA AuditAdvances ==
  ASSUME NEW file \in Seq(Records), NEW bench \in JobRecords, SweepAt(file, bench), bench.image <= Images,
         NEW r \in AuditRecords, r.image = bench.image, r.variant = bench.variant,
         NEW next \in JobRecords, next.ok = bench.ok, next.failed = bench.failed, next.broken = "no",
         next.call = 1, ~next.error,
         \/ next.image = bench.image + 1 /\ next.variant = 1
         \/ next.image = bench.image /\ bench.variant < Variants /\ next.variant = bench.variant + 1
  PROVE  InSweep(Extended(file, r), next)
<1> DEFINE new == Extended(file, r)
           last == Len(file) + 1
<1>1. r \in Records /\ r.type = "audit"
  BY DEF Records, AuditRecords
<1>2. Images \in Nat \ {0} /\ Variants \in Nat \ {0} /\ Flavor \in Nat
      /\ bench.image \in 1..Images /\ bench.variant \in 1..Variants
  BY SweepAssumption, AskAssumption DEF SweepAt, Flavor
<1>3. next.image \in 1..(Images + 1) /\ next.variant \in 1..Variants
  BY <1>2
<1>4. new[last] = r /\ \A i \in DOMAIN file : new[i] = file[i]
  BY <1>1, ExtendedFile
<1>5. Calls(new) = Calls(file) /\ Audits(new) = Audits(file) \union {last}
  BY <1>1, ExtendedCalls
<1>6. Cardinality(Good(new)) = Cardinality(Good(file))
      /\ Cardinality(Calls(new)) = Cardinality(Calls(file))
  <2>1. Cardinality(Good(file)) \in Nat /\ Cardinality(Calls(file)) \in Nat
    BY CallsFinite
  <2> QED
    BY <1>1, <2>1, ExtendedCounts
<1>7. Covered(new) = Covered(file) \union {bench.image}
  BY <1>1, SameCovered
<1> HIDE DEF new, last
<1>8. ASSUME NEW x, x.image \in Nat, x.variant \in Nat,
             Past(x, bench) \/ (x.image = bench.image /\ x.variant = bench.variant)
      PROVE  Past(x, next) /\ ~(x.image = next.image /\ x.variant = next.variant)
  BY <1>2, <1>8 DEF Past
<1>9. \A i \in Audits(new) : Past(new[i], next)
  <2>1. \A i \in Audits(file) : new[i] = file[i] /\ file[i] \in AuditRecords /\ Past(file[i], bench)
    BY <1>4, FileTypes DEF Audits, SweepAt
  <2>2. \A i \in Audits(new) : new[i].image \in Nat /\ new[i].variant \in Nat
          /\ (Past(new[i], bench) \/ (new[i].image = bench.image /\ new[i].variant = bench.variant))
    BY <1>4, <1>5, <2>1 DEF AuditRecords
  <2> QED
    BY <1>8, <2>2
<1>10. \A i \in Calls(new) : Past(new[i], next) /\ ~(new[i].image = next.image /\ new[i].variant = next.variant)
  <2>1. \A i \in Calls(file) : new[i] = file[i] /\ file[i] \in CallRecords
          /\ (Past(file[i], bench) \/ i \in CallsOf(file, bench.image, bench.variant))
    BY <1>4, FileTypes DEF Calls, SweepAt
  <2>2. \A i \in Calls(new) : new[i].image \in Nat /\ new[i].variant \in Nat
          /\ (Past(new[i], bench) \/ (new[i].image = bench.image /\ new[i].variant = bench.variant))
    BY <1>5, <2>1 DEF CallRecords, CallsOf
  <2> QED
    BY <1>8, <2>2
<1>11. SweepAt(new, next)
  <2>1. Covered(new) \subseteq 1..Images
    BY <1>2, <1>7 DEF SweepAt
  <2>2. \A image \in 1..(next.image - 1) : image \in Covered(new)
    <3>1. \A image \in 1..(bench.image - 1) : image \in Covered(new)
      BY <1>7 DEF SweepAt
    <3> QED
      BY <1>2, <1>7, <3>1
  <2> QED
    BY <1>3, <1>6, <1>9, <1>10, <2>1, <2>2 DEF SweepAt
<1>12. Asked(new, next)
  <2>1. CallsOf(new, next.image, next.variant) = {}
    BY <1>10 DEF CallsOf
  <2>2. 1..(next.call - 1) = {} /\ next.call \in 1..(Flavor + 1)
    BY <1>2
  <2> QED
    BY <2>1, <2>2 DEF Asked
<1> QED
  BY <1>11, <1>12 DEF InSweep, new

-----------------------------------------------------------------------------
(* What a step of a command makes of its place, its file and its locals    *)

Tells(b) == BenchTells(at[b], results[b], job[b])

Framed ==
  /\ at \in [Jobs -> Places] /\ JobTypes
  /\ results = [b \in Benches |-> results[b]]

\* It writes no locals and no file but its own.
Touches(b) ==
  /\ job' = job \/ \E new : Update(b, new)
  /\ results' = results \/ \E file : results' = [results EXCEPT ![b] = file]

Ended(bench, why) ==
  [Fresh EXCEPT !.kind = bench.kind, !.writer = bench.writer,
                !.ok = bench.ok, !.failed = bench.failed, !.broken = why]

Left(bench, code, broken) == [Fresh EXCEPT !.kind = bench.kind, !.exit = code, !.broken = broken]

LEMMA FreshRecord == /\ Fresh \in JobRecords /\ Fresh.exit = None /\ ~Fresh.writer
                     /\ Fresh.ok = 0 /\ Fresh.failed = 0 /\ AtStart(Fresh)
<1>1. BestOf \in Int
  BY AskAssumption
<1> QED
  BY <1>1 DEF Fresh, JobRecords, AtStart

LEMMA EndedRecord ==
  ASSUME NEW bench \in JobRecords, NEW why \in {"no", "interrupt", "write"}
  PROVE  /\ Ended(bench, why) \in JobRecords
         /\ Ended(bench, why).kind = bench.kind /\ Ended(bench, why).writer = bench.writer
         /\ Ended(bench, why).ok = bench.ok /\ Ended(bench, why).failed = bench.failed
         /\ Ended(bench, why).broken = why /\ Ended(bench, why).exit = None
<1>1. /\ bench.kind \in {"cold", "warm", "moods"} /\ bench.writer \in BOOLEAN
      /\ bench.ok \in Nat /\ bench.failed \in Nat
  BY DEF JobRecords
<1> QED
  BY <1>1, FreshRecord DEF Ended, JobRecords

LEMMA LeftRecord ==
  ASSUME NEW bench \in JobRecords, NEW code \in {None, 0, 1, 2, Traceback},
         NEW broken \in {"no", "interrupt", "write"}
  PROVE  /\ Left(bench, code, broken) \in JobRecords
         /\ Left(bench, code, broken).kind = bench.kind /\ ~Left(bench, code, broken).writer
         /\ Left(bench, code, broken).ok = 0 /\ Left(bench, code, broken).failed = 0
         /\ Left(bench, code, broken).broken = broken /\ Left(bench, code, broken).exit = code
<1>1. bench.kind \in {"cold", "warm", "moods"}
  BY DEF JobRecords
<1> QED
  BY <1>1, FreshRecord DEF Left, JobRecords

LEMMA Finished ==
  ASSUME NEW file \in Seq(Records), NEW bench \in JobRecords, NEW why \in {"no", "interrupt", "write"},
         AuditsTell(file), Unended(file),
         bench.writer => bench.kind # "moods" /\ Settled(file, Ended(bench, why)),
         ~bench.writer => file = <<>> /\ bench.ok = 0 /\ bench.failed = 0,
         NEW place \in {"stop", "done"}
  PROVE  BenchTells(place, file, Ended(bench, why))
<1> DEFINE end == Ended(bench, why)
<1>1. /\ end \in JobRecords /\ end.kind = bench.kind /\ end.writer = bench.writer
      /\ end.ok = bench.ok /\ end.failed = bench.failed /\ end.exit = None
  BY EndedRecord
<1> HIDE DEF end
<1>2. place \in Begun /\ place \notin {"left", "ask", "idle", "start", "poll", "get", "warm"}
  BY DEF Begun
<1> QED
  BY <1>1, <1>2 DEF BenchTells, end

\* A sweep that is broken off leaves its counts at most one ahead of its file.
LEMMA BrokenOff ==
  ASSUME NEW file, NEW bench \in JobRecords, Breaks(file, bench), bench.writer, bench.kind # "moods",
         NEW why \in {"interrupt", "write"}, NEW place \in {"stop", "done"}
  PROVE  BenchTells(place, file, Ended(bench, why))
<1>1. Settled(file, Ended(bench, why))
  BY EndedRecord DEF Settled, Breaks, OffByOne
<1> QED
  BY <1>1, Finished DEF Breaks

LEMMA FinallyMoves ==
  ASSUME Framed, NEW b \in Benches, NEW state, NEW why, Finally(b, state, why)
  PROVE  at'[b] \in {"stop", "done"} /\ job'[b] = Ended(state, why) /\ \E new : Update(b, new)
<1>1. Update(b, Ended(state, why)) /\ Goes(b, "ask", IF state.kind = "warm" THEN "done" ELSE "stop")
  BY DEF Finally, Ended
<1>2. b \in Jobs
  BY DEF Jobs
<1>3. at'[b] \in {"stop", "done"}
  BY <1>1, <1>2 DEF Goes, Framed
<1>4. job'[b] = Ended(state, why)
  BY <1>1 DEF Update, Framed, JobTypes
<1> QED
  BY <1>1, <1>3, <1>4

LEMMA EmitTells ==
  ASSUME Framed, NEW b \in Benches, at[b] = "ask",
         NEW counted \in JobRecords, NEW records, NEW next \in JobRecords,
         Emit(b, counted, records, next),
         counted.writer, counted.kind # "moods",
         \A n \in 0..Len(records) : Breaks(results[b] \o SubSeq(records, 1, n), counted),
         Breaks(results[b] \o records, next), InSweep(results[b] \o records, next),
         next.writer, next.kind # "moods", next.exit = None
  PROVE  Tells(b)' /\ Touches(b)
<1>1. CASE /\ results' = [results EXCEPT ![b] = @ \o records]
           /\ Update(b, next) /\ UNCHANGED at
  <2>1. results'[b] = results[b] \o records
    BY <1>1 DEF Framed
  <2>2. job'[b] = next
    BY <1>1 DEF Update, Framed, JobTypes
  <2>3. at'[b] = "ask"
    BY <1>1
  <2>4. next.broken = "no"
    BY DEF InSweep, SweepAt
  <2>5. BenchTells("ask", results[b] \o records, next)
    BY <2>4 DEF BenchTells, Breaks, Begun
  <2>6. Touches(b)
    BY <1>1 DEF Touches
  <2> QED
    BY <2>1, <2>2, <2>3, <2>5, <2>6 DEF Tells
<1>2. ASSUME NEW n \in 0..Len(records), NEW why \in {"interrupt", "write"},
             results' = [results EXCEPT ![b] = @ \o SubSeq(records, 1, n)],
             Finally(b, counted, why)
      PROVE  Tells(b)' /\ Touches(b)
  <2>1. results'[b] = results[b] \o SubSeq(records, 1, n)
    BY <1>2 DEF Framed
  <2>2. at'[b] \in {"stop", "done"} /\ job'[b] = Ended(counted, why) /\ \E new : Update(b, new)
    BY <1>2, FinallyMoves
  <2>3. BenchTells(at'[b], results'[b], Ended(counted, why))
    BY <2>1, <2>2, BrokenOff
  <2>4. Touches(b)
    BY <1>2, <2>2 DEF Touches
  <2> QED
    BY <2>2, <2>3, <2>4 DEF Tells
<1> QED
  BY <1>1, <1>2 DEF Emit

-----------------------------------------------------------------------------
(* The steps of the sweep                                                  *)

LEMMA SweepBreaksHere ==
  ASSUME NEW file \in Seq(Records), NEW bench \in JobRecords, SweepAt(file, bench),
         AuditsTell(file), Unended(file)
  PROVE  /\ Breaks(file, bench)
         /\ \A good \in BOOLEAN : \A next : CountsOne(bench, next, good) => Breaks(file, next)
  BY SweepBreaks DEF Breaks

LEMMA SweepStarts ==
  ASSUME NEW bench \in JobRecords, AtStart(bench)
  PROVE  /\ Breaks(<<>>, bench) /\ Breaks(Extended(<<>>, RunStart), bench)
         /\ InSweep(Extended(<<>>, RunStart), bench)
<1> DEFINE empty == <<>>
           file == Extended(empty, RunStart)
<1>1. empty \in Seq(Records) /\ DOMAIN empty = {} /\ RunStart \in Records
      /\ RunStart.type = "run_start"
  BY DEF Records, RunStart
<1> HIDE DEF empty
<1>2. Calls(empty) = {} /\ Good(empty) = {} /\ Audits(empty) = {}
      /\ Covered(empty) = {} /\ \A image, variant : CallsOf(empty, image, variant) = {}
  BY <1>1 DEF Calls, Good, Audits, Covered, CallsOf
<1>3. AuditsTell(empty) /\ Unended(empty)
  BY <1>1, <1>2 DEF AuditsTell, Unended
<1>4. Cardinality(Calls(empty)) = 0 /\ Cardinality(Good(empty)) = 0
  BY <1>2, FS_EmptySet
<1>5. Breaks(empty, bench)
  BY <1>1, <1>3, <1>4 DEF Breaks, OffByOne, AtStart
<1>6. file \in Seq(Records) /\ AuditsTell(file) /\ Unended(file)
  BY <1>1, <1>3, PlainRecord, ExtendedFile
<1>7. Calls(file) = {} /\ Audits(file) = {} /\ Cardinality(Calls(file)) = 0 /\ Cardinality(Good(file)) = 0
  BY <1>1, <1>2, <1>4, ExtendedCalls, ExtendedCounts
<1> HIDE DEF file
<1>8. Covered(file) = {} /\ CallsOf(file, bench.image, bench.variant) = {}
  BY <1>7 DEF Covered, CallsOf
<1>9. Images \in Nat \ {0} /\ Variants \in Nat \ {0} /\ Flavor \in Nat
  BY SweepAssumption, AskAssumption DEF Flavor
<1>10. SweepAt(file, bench)
  BY <1>7, <1>8, <1>9 DEF SweepAt, AtStart
<1>11. Asked(file, bench)
  BY <1>8, <1>9 DEF Asked, AtStart
<1>12. Breaks(file, bench)
  BY <1>6, <1>10, SweepBreaksHere
<1> QED
  BY <1>5, <1>10, <1>11, <1>12 DEF InSweep, empty, file

LEMMA OpenWriterTells ==
  ASSUME Framed, NEW b \in Benches, Tells(b), OpenWriter(b)
  PROVE  Tells(b)' /\ Touches(b)
<1> DEFINE file == results[b]
           opened == [job[b] EXCEPT !.writer = TRUE]
<1>1. at[b] = "ask" /\ job[b].kind # "moods" /\ ~job[b].writer /\ job[b] \in JobRecords
      /\ AtStart(job[b]) /\ file = <<>> /\ job[b].exit = None /\ job[b].ok = 0 /\ job[b].failed = 0
  BY DEF OpenWriter, Tells, BenchTells
<1>2. /\ opened \in JobRecords /\ opened.writer /\ opened.kind = job[b].kind /\ opened.exit = None
      /\ AtStart(opened)
  BY <1>1 DEF JobRecords, AtStart
<1>3. \/ Emit(b, opened, <<RunStart>>, opened)
      \/ Finally(b, job[b], "write") /\ UNCHANGED results
  BY DEF OpenWriter
<1> HIDE DEF opened
<1>4. RunStart \in Records /\ <<>> \in Seq(Records)
  BY DEF Records
<1>5. CASE Emit(b, opened, <<RunStart>>, opened)
  <2>1. file \o <<RunStart>> = Extended(<<>>, RunStart)
    BY <1>1, <1>4, WholeOfOne
  <2>2. \A n \in 0..Len(<<RunStart>>) : file \o SubSeq(<<RunStart>>, 1, n) \in {<<>>, Extended(<<>>, RunStart)}
    BY <1>1, <1>4, PartOfOne
  <2>3. /\ Breaks(<<>>, opened) /\ Breaks(Extended(<<>>, RunStart), opened)
        /\ InSweep(Extended(<<>>, RunStart), opened)
    BY <1>2, SweepStarts
  <2> QED
    BY <1>1, <1>2, <1>5, <2>1, <2>2, <2>3, EmitTells
<1>6. CASE Finally(b, job[b], "write") /\ UNCHANGED results
  <2>1. at'[b] \in {"stop", "done"} /\ job'[b] = Ended(job[b], "write") /\ \E new : Update(b, new)
    BY <1>6, FinallyMoves
  <2>2. AuditsTell(file) /\ Unended(file) /\ file \in Seq(Records)
    BY <1>1 DEF Tells, BenchTells
  <2>3. BenchTells(at'[b], file, Ended(job[b], "write"))
    BY <1>1, <2>1, <2>2, Finished
  <2> QED
    BY <1>6, <2>1, <2>3 DEF Tells, Touches
<1> QED
  BY <1>3, <1>5, <1>6

\* What the guards of the sweep's own steps say.
LEMMA SweepingTells ==
  ASSUME NEW b \in Benches, Tells(b), Sweeping(b), ~SweepOver(b)
  PROVE  /\ at[b] = "ask" /\ job[b].writer /\ job[b].kind # "moods" /\ job[b].exit = None
         /\ job[b] \in JobRecords /\ results[b] \in Seq(Records)
         /\ AuditsTell(results[b]) /\ Unended(results[b]) /\ InSweep(results[b], job[b])
         /\ job[b].image <= Images /\ job[b].broken = "no"
<1>1. job[b] \in JobRecords /\ ~(job[b].image > Images)
  BY DEF Sweeping, SweepOver, Tells, BenchTells
<1>2. job[b].image <= Images
  BY <1>1, SweepAssumption DEF JobRecords
<1> QED
  BY <1>2 DEF Sweeping, Tells, BenchTells

LEMMA CallDoneTells ==
  ASSUME Framed, NEW b \in Benches, Tells(b), Sweeping(b), ~SweepOver(b), job[b].call <= Flavor,
         NEW good \in BOOLEAN, CallDone(b, good)
  PROVE  Tells(b)' /\ Touches(b)
<1> DEFINE file == results[b]
           counted == Counted(b, good)
           next == [counted EXCEPT !.call = @ + 1, !.tries = BestOf, !.candidate = FALSE]
           r == Call(b, job[b].call, good)
           new == Extended(file, r)
<1>1. /\ at[b] = "ask" /\ job[b].writer /\ job[b].kind # "moods" /\ job[b].exit = None
      /\ job[b] \in JobRecords /\ file \in Seq(Records) /\ AuditsTell(file) /\ Unended(file)
      /\ InSweep(file, job[b]) /\ job[b].image <= Images /\ job[b].broken = "no"
  BY SweepingTells
<1>2. Emit(b, counted, <<r>>, next)
  BY DEF CallDone
<1>3. r \in CallRecords /\ r.image = job[b].image /\ r.variant = job[b].variant
      /\ r.id = job[b].call /\ r.good = good
  BY <1>1 DEF Call, CallRecords, JobRecords
<1>4. /\ CountsOne(job[b], counted, good) /\ counted.writer /\ counted.kind = job[b].kind
      /\ counted.exit = None /\ counted.call = job[b].call
      /\ (counted.error <=> (job[b].error \/ ~good))
  <2>1. CASE good
    BY <1>1, <2>1 DEF CountsOne, Counted, JobRecords
  <2>2. CASE ~good
    <3> DEFINE bench == job[b]
               failing == [bench EXCEPT !.failed = @ + 1, !.error = TRUE]
    <3>1. bench.failed + 1 \in Nat /\ bench.ok \in Nat /\ bench.failed \in Nat
      BY <1>1 DEF JobRecords
    <3>2. failing \in JobRecords
      BY <1>1, <3>1 DEF JobRecords
    <3>3. /\ failing.image = bench.image /\ failing.variant = bench.variant /\ failing.broken = bench.broken
          /\ failing.ok = bench.ok /\ failing.failed = bench.failed + 1 /\ failing.error
          /\ failing.writer = bench.writer /\ failing.kind = bench.kind
          /\ failing.exit = bench.exit /\ failing.call = bench.call
      BY <1>1 DEF JobRecords
    <3>4. counted = failing
      BY <2>2 DEF Counted
    <3> HIDE DEF counted, failing
    <3>5. counted.ok = bench.ok + 0
      BY <3>1, <3>3, <3>4
    <3> QED
      BY <1>1, <2>2, <3>2, <3>3, <3>4, <3>5 DEF CountsOne
  <2> QED
    BY <2>1, <2>2
<1>5. BestOf \in Int
  BY AskAssumption
<1> HIDE DEF counted, r
<1>6. /\ next \in JobRecords /\ next.image = counted.image /\ next.variant = counted.variant
      /\ next.ok = counted.ok /\ next.failed = counted.failed /\ next.broken = counted.broken
      /\ next.writer = counted.writer /\ next.kind = counted.kind /\ next.exit = counted.exit
      /\ next.call = counted.call + 1 /\ next.error = counted.error
  <2>1. counted \in JobRecords /\ counted.call + 1 \in Nat
    BY <1>1, <1>4 DEF CountsOne, JobRecords
  <2>2. next \in JobRecords
    BY <1>5, <2>1 DEF JobRecords
  <2>3. /\ next.image = counted.image /\ next.variant = counted.variant
        /\ next.ok = counted.ok /\ next.failed = counted.failed /\ next.broken = counted.broken
        /\ next.writer = counted.writer /\ next.kind = counted.kind /\ next.exit = counted.exit
        /\ next.call = counted.call + 1 /\ next.error = counted.error
    BY <2>1 DEF JobRecords
  <2> QED
    BY <2>2, <2>3
<1> HIDE DEF next
<1>7. CountsOne(job[b], next, good)
  BY <1>4, <1>6 DEF CountsOne
<1>8. counted \in JobRecords /\ r \in Records
  BY <1>3, <1>4 DEF CountsOne, Records
<1>9. new \in Seq(Records) /\ AuditsTell(new) /\ Unended(new)
  BY <1>1, <1>3, <1>8, CallTells, ExtendedFile DEF InSweep
<1>10. Breaks(file, counted)
  BY <1>1, <1>4, SweepBreaksHere DEF InSweep
<1>11. SweepAt(new, counted)
  BY <1>1, <1>3, <1>4, CallStays DEF InSweep
<1>12. Breaks(new, counted)
  BY <1>8, <1>9, <1>11, SweepBreaksHere
<1>13. InSweep(new, next)
  BY <1>1, <1>3, <1>4, <1>6, <1>7, CallAdvances
<1>14. Breaks(new, next)
  BY <1>6, <1>9, <1>13, SweepBreaksHere DEF InSweep
<1>15. file \o <<r>> = new /\ \A n \in 0..Len(<<r>>) : file \o SubSeq(<<r>>, 1, n) \in {file, new}
  BY <1>1, <1>8, WholeOfOne, PartOfOne
<1> HIDE DEF new
<1>16. \A n \in 0..Len(<<r>>) : Breaks(file \o SubSeq(<<r>>, 1, n), counted)
  BY <1>10, <1>12, <1>15
<1>17. next.writer /\ next.kind # "moods" /\ next.exit = None /\ counted.kind # "moods"
  BY <1>1, <1>4, <1>6
<1> QED
  BY <1>1, <1>2, <1>4, <1>6, <1>8, <1>13, <1>14, <1>15, <1>16, <1>17, EmitTells

LEMMA AskSlotTells ==
  ASSUME Framed, NEW b \in Benches, Tells(b), AskSlot(b)
  PROVE  Tells(b)' /\ Touches(b)
<1>1. Sweeping(b) /\ ~SweepOver(b) /\ job[b].call < Flavor /\ (CallDone(b, TRUE) \/ CallDone(b, FALSE))
  BY DEF AskSlot
<1>2. job[b].call <= Flavor
  BY <1>1, SweepingTells, AskAssumption DEF JobRecords, Flavor
<1> QED
  BY <1>1, <1>2, CallDoneTells

\* A try at the remark is used up, and nothing is recorded.
LEMMA TryAgainTells ==
  ASSUME Framed, NEW b \in Benches, Tells(b), Sweeping(b), ~SweepOver(b),
         NEW candidate \in BOOLEAN,
         Update(b, [job[b] EXCEPT !.tries = @ - 1, !.candidate = candidate]),
         UNCHANGED <<at, results>>
  PROVE  Tells(b)' /\ Touches(b)
<1> DEFINE bench == job[b]
           next == [bench EXCEPT !.tries = @ - 1, !.candidate = candidate]
<1>1. bench \in JobRecords /\ bench.tries - 1 \in Int
  BY SweepingTells DEF JobRecords
<1>2. next \in JobRecords
  BY <1>1 DEF JobRecords
<1>3. /\ next.image = bench.image /\ next.variant = bench.variant /\ next.ok = bench.ok
      /\ next.failed = bench.failed /\ next.broken = bench.broken /\ next.writer = bench.writer
      /\ next.kind = bench.kind /\ next.exit = bench.exit /\ next.call = bench.call
      /\ next.error = bench.error
  BY <1>1 DEF JobRecords
<1>4. Update(b, next)
  OBVIOUS
<1> HIDE DEF next
<1>5. job'[b] = next
  BY <1>4 DEF Update, Framed, JobTypes
<1>6. InSweep(results[b], bench) => InSweep(results[b], next)
  BY <1>3 DEF InSweep, SweepAt, Asked, Past
<1>7. BenchTells("ask", results[b], next)
  BY <1>2, <1>3, <1>6, SweepingTells DEF BenchTells, Begun
<1>8. at'[b] = "ask"
  BY SweepingTells
<1> QED
  BY <1>4, <1>5, <1>7, <1>8 DEF Tells, Touches

LEMMA AskFlavorTells ==
  ASSUME Framed, NEW b \in Benches, Tells(b), NEW junk \in BOOLEAN, AskFlavor(b, junk)
  PROVE  Tells(b)' /\ Touches(b)
<1>1. Sweeping(b) /\ ~SweepOver(b) /\ job[b].call = Flavor
  BY DEF AskFlavor
<1>2. job[b].candidate \in BOOLEAN /\ job[b].call <= Flavor
  BY <1>1, SweepingTells, AskAssumption DEF JobRecords, Flavor
<1>3. \/ CallDone(b, TRUE) \/ CallDone(b, job[b].candidate)
      \/ \E candidate \in {TRUE, job[b].candidate} :
           /\ Update(b, [job[b] EXCEPT !.tries = @ - 1, !.candidate = candidate])
           /\ UNCHANGED <<at, results>>
  BY Zenon DEF AskFlavor
<1> QED
  BY <1>1, <1>2, <1>3, CallDoneTells, TryAgainTells

\* The locals once an image is done, or a variant of it.
LEMMA NextRecord ==
  ASSUME NEW bench \in JobRecords
  PROVE  LET next == NextImage(bench)
         IN  /\ next \in JobRecords /\ next.image = bench.image + 1 /\ next.variant = 1 /\ next.call = 1
             /\ next.ok = bench.ok /\ next.failed = bench.failed /\ next.broken = bench.broken
             /\ next.error = bench.error /\ next.writer = bench.writer
             /\ next.kind = bench.kind /\ next.exit = bench.exit
<1>1. bench.image + 1 \in Nat
  BY DEF JobRecords
<1> QED
  BY <1>1 DEF NextImage, JobRecords

LEMMA UnreadableTells ==
  ASSUME Framed, NEW b \in Benches, Tells(b), Unreadable(b)
  PROVE  Tells(b)' /\ Touches(b)
<1> DEFINE file == results[b]
           bench == job[b]
           counted == [bench EXCEPT !.failed = @ + 1]
           next == NextImage(counted)
           r == Call(b, ImageCall, FALSE)
           q == AuditRecord(b, FALSE)
           one == Extended(file, r)
           two == Extended(one, q)
<1>1. /\ at[b] = "ask" /\ bench.writer /\ bench.kind # "moods" /\ bench.exit = None
      /\ bench \in JobRecords /\ file \in Seq(Records) /\ AuditsTell(file) /\ Unended(file)
      /\ InSweep(file, bench) /\ bench.image <= Images /\ bench.broken = "no"
  BY SweepingTells DEF Unreadable
<1>2. Emit(b, counted, <<r, q>>, next) /\ bench.variant = 1 /\ bench.call = 1
  BY DEF Unreadable
<1>3. /\ r \in CallRecords /\ r.image = bench.image /\ r.variant = bench.variant /\ r.good = FALSE
      /\ q \in AuditRecords /\ q.image = bench.image /\ q.variant = bench.variant /\ q.text = FALSE
  BY <1>1 DEF Call, CallRecords, AuditRecord, AuditRecords, JobRecords, ImageCall
<1>4. /\ counted \in JobRecords /\ counted.failed = bench.failed + 1
      /\ counted.image = bench.image /\ counted.variant = bench.variant /\ counted.ok = bench.ok
      /\ counted.broken = bench.broken /\ counted.error = bench.error /\ counted.writer = bench.writer
      /\ counted.kind = bench.kind /\ counted.exit = bench.exit
  <2>1. bench.failed + 1 \in Nat
    BY <1>1 DEF JobRecords
  <2>2. counted \in JobRecords
    BY <1>1, <2>1 DEF JobRecords
  <2> QED
    BY <1>1, <2>2 DEF JobRecords
<1> HIDE DEF counted, r, q
<1>5. /\ next \in JobRecords /\ next.image = counted.image + 1 /\ next.variant = 1 /\ next.call = 1
      /\ next.ok = counted.ok /\ next.failed = counted.failed /\ next.broken = counted.broken
      /\ next.error = counted.error /\ next.writer = counted.writer
      /\ next.kind = counted.kind /\ next.exit = counted.exit
  BY <1>4, NextRecord
<1> HIDE DEF next
<1>6. CountsOne(bench, counted, FALSE)
  BY <1>1, <1>4 DEF CountsOne, JobRecords
<1>7. r \in Records /\ q \in Records /\ r.type = "call"
  BY <1>3 DEF Records, CallRecords
<1>8. one \in Seq(Records) /\ AuditsTell(one) /\ Unended(one)
  BY <1>1, <1>3, <1>7, CallTells, ExtendedFile DEF InSweep
<1>9. SweepAt(one, counted)
  BY <1>1, <1>3, <1>6, CallStays DEF InSweep
<1>10. \E k \in CallsOf(one, q.image, q.variant) : ~one[k].good
  <2>1. one[Len(file) + 1] = r
    BY <1>1, <1>7, ExtendedFile
  <2>2. Len(file) + 1 \in CallsOf(one, bench.image, bench.variant)
    BY <1>1, <1>3, <1>7, ExtendedCalls
  <2> QED
    BY <1>3, <2>1, <2>2
<1> HIDE DEF one
<1>11. AuditsTell(two) /\ Unended(two) /\ two \in Seq(Records)
  BY <1>3, <1>7, <1>8, <1>10, AuditTells, ExtendedFile
<1>12. ~bench.error
  <2>1. 1..(1 - 1) = {}
    OBVIOUS
  <2>2. {file[k].id : k \in CallsOf(file, bench.image, bench.variant)} = {}
    BY <1>1, <1>2, <2>1 DEF InSweep, Asked
  <2>3. CallsOf(file, bench.image, bench.variant) = {}
    BY <2>2
  <2> QED
    BY <1>1, <2>3 DEF InSweep, Asked
<1>13. InSweep(two, next)
  BY <1>1, <1>3, <1>4, <1>5, <1>8, <1>9, <1>12, AuditAdvances
<1>14. Breaks(file, counted)
  BY <1>1, <1>6, SweepBreaksHere DEF InSweep
<1>15. Breaks(one, counted)
  BY <1>4, <1>8, <1>9, SweepBreaksHere
<1>16. Breaks(two, next)
  BY <1>5, <1>11, <1>13, SweepBreaksHere DEF InSweep
<1>17. Breaks(two, counted)
  BY <1>5, <1>16 DEF Breaks, OffByOne
<1>18. /\ file \o <<r, q>> = two
       /\ \A n \in 0..Len(<<r, q>>) : file \o SubSeq(<<r, q>>, 1, n) \in {file, one, two}
  BY <1>1, <1>7, WholeOfTwo, PartOfTwo DEF one
<1> HIDE DEF two
<1>19. \A n \in 0..Len(<<r, q>>) : Breaks(file \o SubSeq(<<r, q>>, 1, n), counted)
  BY <1>14, <1>15, <1>17, <1>18
<1>20. next.writer /\ next.kind # "moods" /\ next.exit = None /\ counted.kind # "moods" /\ counted.writer
  BY <1>1, <1>4, <1>5
<1> QED
  BY <1>1, <1>2, <1>4, <1>5, <1>13, <1>16, <1>18, <1>19, <1>20, EmitTells

LEMMA WriteAuditTells ==
  ASSUME Framed, NEW b \in Benches, Tells(b), WriteAudit(b)
  PROVE  Tells(b)' /\ Touches(b)
<1> DEFINE file == results[b]
           bench == job[b]
           rest == [bench EXCEPT !.error = FALSE]
           further == [rest EXCEPT !.variant = @ + 1, !.call = 1]
           next == IF bench.variant = Variants THEN NextImage(rest) ELSE further
           r == AuditRecord(b, ~bench.error)
           new == Extended(file, r)
           current == CallsOf(file, bench.image, bench.variant)
<1>1. Sweeping(b) /\ bench.call = Flavor + 1 /\ Emit(b, bench, <<r>>, next)
  BY DEF WriteAudit
<1>2. Flavor \in Nat \ {0} /\ Images \in Nat /\ Variants \in Nat
  BY AskAssumption, SweepAssumption DEF Flavor
<1>3. ~SweepOver(b)
  <2>1. InSweep(file, bench)
    BY <1>1 DEF Sweeping, Tells, BenchTells
  <2> QED
    BY <1>1, <1>2, <2>1 DEF InSweep, Asked, SweepOver
<1>4. /\ at[b] = "ask" /\ bench.writer /\ bench.kind # "moods" /\ bench.exit = None
      /\ bench \in JobRecords /\ file \in Seq(Records) /\ AuditsTell(file) /\ Unended(file)
      /\ InSweep(file, bench) /\ bench.image <= Images /\ bench.broken = "no"
  BY <1>1, <1>3, SweepingTells
<1>5. /\ r \in AuditRecords /\ r.image = bench.image /\ r.variant = bench.variant
      /\ r.text = ~bench.error
  BY <1>4 DEF AuditRecord, AuditRecords, JobRecords
<1>6. /\ rest \in JobRecords /\ ~rest.error
      /\ rest.image = bench.image /\ rest.variant = bench.variant /\ rest.ok = bench.ok
      /\ rest.failed = bench.failed /\ rest.broken = bench.broken /\ rest.writer = bench.writer
      /\ rest.kind = bench.kind /\ rest.exit = bench.exit
  BY <1>4 DEF JobRecords
<1> HIDE DEF rest, r
<1>7. /\ further \in JobRecords /\ ~further.error
      /\ further.image = rest.image /\ further.variant = rest.variant + 1 /\ further.call = 1
      /\ further.ok = rest.ok /\ further.failed = rest.failed /\ further.broken = rest.broken
      /\ further.writer = rest.writer /\ further.kind = rest.kind /\ further.exit = rest.exit
  <2>1. rest.variant + 1 \in Nat
    BY <1>6 DEF JobRecords
  <2>2. further \in JobRecords
    BY <1>6, <2>1 DEF JobRecords
  <2> QED
    BY <1>6, <2>2 DEF JobRecords
<1> HIDE DEF further
<1>8. /\ next \in JobRecords /\ ~next.error /\ next.call = 1
      /\ next.ok = bench.ok /\ next.failed = bench.failed /\ next.broken = "no"
      /\ next.writer /\ next.kind = bench.kind /\ next.exit = None
      /\ \/ next.image = bench.image + 1 /\ next.variant = 1
         \/ next.image = bench.image /\ bench.variant < Variants /\ next.variant = bench.variant + 1
  <2>1. CASE bench.variant = Variants
    <3>1. next = NextImage(rest)
      BY <2>1
    <3>2. /\ next \in JobRecords /\ next.image = rest.image + 1 /\ next.variant = 1 /\ next.call = 1
          /\ next.ok = rest.ok /\ next.failed = rest.failed /\ next.broken = rest.broken
          /\ next.error = rest.error /\ next.writer = rest.writer
          /\ next.kind = rest.kind /\ next.exit = rest.exit
      BY <1>6, <3>1, NextRecord
    <3> QED
      BY <1>4, <1>6, <3>2
  <2>2. CASE bench.variant # Variants
    <3>1. next = further
      BY <2>2
    <3>2. bench.variant < Variants
      BY <1>2, <1>4, <2>2 DEF InSweep, SweepAt
    <3> QED
      BY <1>4, <1>6, <1>7, <3>1, <3>2
  <2> QED
    BY <2>1, <2>2
<1> HIDE DEF next
<1>9. r \in Records
  BY <1>5 DEF Records
<1>10. AuditsTell(new) /\ Unended(new) /\ new \in Seq(Records)
  <2>1. bench.error <=> \E k \in current : ~file[k].good
    BY <1>4 DEF InSweep, Asked
  <2>2. {file[k].id : k \in current} = 1..Flavor
    BY <1>1, <1>2, <1>4 DEF InSweep, Asked
  <2>3. r.text <=> \A k \in CallsOf(file, r.image, r.variant) : file[k].good
    BY <1>5, <2>1
  <2>4. {file[k].id : k \in CallsOf(file, r.image, r.variant)} = 1..Flavor
    BY <1>5, <2>2
  <2> QED
    BY <1>4, <1>5, <1>9, <2>3, <2>4, AuditTells, ExtendedFile
<1>11. InSweep(new, next)
  BY <1>4, <1>5, <1>8, AuditAdvances DEF InSweep
<1>12. Breaks(file, bench) /\ Breaks(new, next)
  BY <1>4, <1>8, <1>10, <1>11, SweepBreaksHere DEF InSweep
<1>13. Breaks(new, bench)
  BY <1>8, <1>12 DEF Breaks, OffByOne
<1>14. file \o <<r>> = new /\ \A n \in 0..Len(<<r>>) : file \o SubSeq(<<r>>, 1, n) \in {file, new}
  BY <1>4, <1>9, WholeOfOne, PartOfOne
<1> HIDE DEF new
<1>15. \A n \in 0..Len(<<r>>) : Breaks(file \o SubSeq(<<r>>, 1, n), bench)
  BY <1>12, <1>13, <1>14
<1>16. next.kind # "moods"
  BY <1>4, <1>8
<1> QED
  BY <1>1, <1>4, <1>8, <1>11, <1>12, <1>14, <1>15, <1>16, EmitTells

\* The sweep stops asking, having come to its end or been interrupted between two steps.
LEMMA StopsAskingTells ==
  ASSUME Framed, NEW b \in Benches, Tells(b), NEW why \in {"no", "interrupt"},
         Finally(b, job[b], why), UNCHANGED results, why = "no" => SweepOver(b)
  PROVE  Tells(b)' /\ Touches(b)
<1> DEFINE file == results[b]
           bench == job[b]
<1>1. at[b] = "ask"
  BY DEF Finally, Goes
<1>2. bench \in JobRecords /\ file \in Seq(Records) /\ AuditsTell(file) /\ Unended(file)
  BY <1>1 DEF Tells, BenchTells
<1>3. at'[b] \in {"stop", "done"} /\ job'[b] = Ended(bench, why) /\ \E new : Update(b, new)
  BY FinallyMoves
<1>4. ~bench.writer => file = <<>> /\ bench.ok = 0 /\ bench.failed = 0
  BY <1>1 DEF Tells, BenchTells
<1>5. ASSUME bench.writer PROVE bench.kind # "moods" /\ Settled(file, Ended(bench, why))
  <2>1. bench.kind # "moods" /\ InSweep(file, bench)
    BY <1>1, <1>5 DEF Tells, BenchTells
  <2>2. Cardinality(Calls(file)) \in Nat /\ Cardinality(Good(file)) \in Nat
    BY <1>2, CallsFinite
  <2>3. bench.ok + bench.failed - Cardinality(Calls(file)) = 0 /\ bench.ok - Cardinality(Good(file)) = 0
    <3>1. bench.ok = Cardinality(Good(file)) /\ bench.ok + bench.failed = Cardinality(Calls(file))
      BY <2>1 DEF InSweep, SweepAt
    <3>2. bench.ok \in Nat /\ bench.failed \in Nat
      BY <1>2 DEF JobRecords
    <3> QED
      BY <2>2, <3>1, <3>2
  <2>4. why = "no" => Covered(file) = 1..Images
    <3>1. SUFFICES ASSUME why = "no" PROVE Covered(file) = 1..Images
      OBVIOUS
    <3>2. bench.image = Images + 1
      BY <2>1, <3>1, SweepAssumption DEF SweepOver, InSweep, SweepAt
    <3>3. 1..(bench.image - 1) = 1..Images
      BY <3>2, SweepAssumption
    <3> QED
      BY <2>1, <3>3 DEF InSweep, SweepAt
  <2> QED
    BY <1>2, <2>1, <2>3, <2>4, EndedRecord DEF Settled
<1>6. BenchTells(at'[b], file, Ended(bench, why))
  BY <1>2, <1>3, <1>4, <1>5, Finished
<1> QED
  BY <1>3, <1>6 DEF Tells, Touches

-----------------------------------------------------------------------------
(* The end of a command                                                    *)

LEMMA EndedFile ==
  ASSUME NEW file \in Seq(Records), NEW bench \in JobRecords, NEW end \in EndRecords,
         AuditsTell(file), Unended(file), Settled(file, bench),
         end.ok = bench.ok, end.failed = bench.failed
  PROVE  /\ Extended(file, end) \in Seq(Records) /\ AuditsTell(Extended(file, end))
         /\ EndCounts(Extended(file, end), bench.broken)
<1> DEFINE new == Extended(file, end)
           last == Len(file) + 1
<1>1. end \in Records /\ end.type = "run_end" /\ end.ok \in Nat /\ end.failed \in Nat
  BY DEF Records, EndRecords
<1>2. new \in Seq(Records) /\ Len(new) = last /\ DOMAIN new = DOMAIN file \union {last} /\ new[last] = end
  BY <1>1, ExtendedFile
<1>3. \A i \in DOMAIN file : new[i] = file[i]
  BY <1>1, ExtendedFile
<1>4. AuditsTell(new)
  BY <1>1, PlainRecord
<1>5. Cardinality(Calls(file)) \in Nat /\ Cardinality(Good(file)) \in Nat
  BY CallsFinite
<1>6. Cardinality(Calls(new)) = Cardinality(Calls(file)) /\ Cardinality(Good(new)) = Cardinality(Good(file))
  BY <1>1, <1>5, ExtendedCounts
<1> HIDE DEF new, last
<1>7. EndCounts(new, bench.broken)
  <2>1. SUFFICES ASSUME NEW i \in DOMAIN new, new[i].type = "run_end"
                 PROVE  LET missing == new[i].ok + new[i].failed - Cardinality(Calls(new))
                        IN /\ i = Len(new)
                           /\ new[i].ok - Cardinality(Good(new)) \in {0, missing}
                           /\ missing \in IF bench.broken = "no" THEN {0} ELSE {0, 1}
    BY DEF EndCounts
  <2>2. i = last
    BY <1>2, <1>3, <2>1 DEF Unended
  <2> QED
    BY <1>2, <1>6, <2>2 DEF Settled
<1> QED
  BY <1>2, <1>4, <1>7 DEF new

LEMMA ExitIsTrue ==
  ASSUME NEW file \in Seq(Records), NEW bench \in JobRecords, NEW end \in EndRecords,
         Settled(file, bench), bench.broken = "no", NEW gone,
         gone.exit = (IF bench.failed > 0 THEN 1 ELSE 0)
  PROVE  ExitTells(Extended(file, end), gone)
<1> DEFINE new == Extended(file, end)
           calls == Calls(file)
           good == Good(file)
<1>1. end \in Records /\ end.type = "run_end"
  BY DEF Records, EndRecords
<1>2. new # <<>> /\ Last(new) = end
  <2>1. new \in Seq(Records) /\ Len(new) = Len(file) + 1 /\ new[Len(file) + 1] = end
    BY <1>1, ExtendedFile
  <2>2. Len(file) \in Nat
    OBVIOUS
  <2> HIDE DEF new
  <2>3. Len(new) # 0
    BY <2>1, <2>2
  <2> QED
    BY <2>1, <2>3 DEF Last
<1>3. Calls(new) = calls /\ Good(new) = good
  <2>1. Calls(new) = calls \union {} /\ Good(new) = good \union {}
    BY <1>1, ExtendedCalls
  <2> QED
    BY <2>1
<1>4. Covered(new) = 1..Images
  BY <1>1, SameCovered DEF Settled
<1>5. IsFiniteSet(calls) /\ good \subseteq calls /\ Cardinality(calls) \in Nat /\ Cardinality(good) \in Nat
  BY CallsFinite
<1>6. bench.ok + bench.failed - Cardinality(calls) = 0 /\ bench.ok - Cardinality(good) = 0
      /\ bench.ok \in Nat /\ bench.failed \in Nat
  BY DEF Settled, JobRecords
<1> HIDE DEF new, calls, good
<1>7. bench.failed = 0 <=> Cardinality(good) = Cardinality(calls)
  BY <1>5, <1>6
<1>8. good = calls <=> Cardinality(good) = Cardinality(calls)
  BY <1>5, FS_Subset
<1>9. gone.exit \in {0, 1} /\ (gone.exit = 0 <=> good = calls)
  BY <1>6, <1>7, <1>8
<1>10. ExitTells(new, gone)
  <2>1. gone.exit # 2
    BY <1>9
  <2> QED
    BY <1>1, <1>2, <1>3, <1>4, <1>9, <2>1 DEF ExitTells, Covered
<1> QED
  BY <1>10 DEF new

LEMMA LeaveTells ==
  ASSUME Framed, NEW b \in Benches, Tells(b), Leave(b)
  PROVE  Tells(b)' /\ Touches(b)
<1> DEFINE file == results[b]
           bench == job[b]
           end == RunEnd(b)
           gone(code, broken) == Left(bench, code, broken)
<1>1. /\ at[b] = "done" /\ bench.kind # "moods" /\ bench \in JobRecords /\ file \in Seq(Records)
      /\ AuditsTell(file) /\ Unended(file)
      /\ bench.writer => Settled(file, bench)
      /\ ~bench.writer => file = <<>>
  BY DEF Leave, Goes, Tells, BenchTells, Begun
<1>2. bench.broken \in {"no", "interrupt", "write"} /\ bench.ok \in Nat /\ bench.failed \in Nat
  BY <1>1 DEF JobRecords
<1>3. at'[b] = "left"
  <2>1. b \in Jobs
    BY DEF Jobs
  <2> QED
    BY <2>1 DEF Leave, Goes, Framed
<1>4. ASSUME NEW code, NEW broken, Gone(b, code, broken)
      PROVE  job'[b] = gone(code, broken) /\ \E new : Update(b, new)
  <2>1. Update(b, gone(code, broken))
    BY <1>4 DEF Gone, Left
  <2>2. job'[b] = gone(code, broken)
    BY <2>1 DEF Update, Framed, JobTypes
  <2> QED
    BY <2>1, <2>2
<1>5. ASSUME Gone(b, ExitCode(b), bench.broken), bench.writer,
             results' = [results EXCEPT ![b] = Append(@, end)]
      PROVE  Tells(b)' /\ Touches(b)
  <2>1. end \in EndRecords /\ end.ok = bench.ok /\ end.failed = bench.failed
    BY <1>2 DEF RunEnd, EndRecords
  <2>2. results'[b] = Extended(file, end)
    BY <1>5 DEF Framed, Extended
  <2> HIDE DEF end
  <2>3. /\ Extended(file, end) \in Seq(Records) /\ AuditsTell(Extended(file, end))
        /\ EndCounts(Extended(file, end), bench.broken)
    BY <1>1, <1>5, <2>1, EndedFile
  <2>4. ExitCode(b) \in {0, 1, 2, Traceback}
    BY DEF ExitCode
  <2>5. /\ gone(ExitCode(b), bench.broken) \in JobRecords
        /\ gone(ExitCode(b), bench.broken).broken = bench.broken
        /\ gone(ExitCode(b), bench.broken).exit = ExitCode(b)
        /\ ~gone(ExitCode(b), bench.broken).writer
    BY <1>1, <1>2, <2>4, LeftRecord
  <2>6. ExitTells(Extended(file, end), gone(ExitCode(b), bench.broken))
    <3>1. CASE bench.broken = "no"
      <4>1. ExitCode(b) = IF bench.failed > 0 THEN 1 ELSE 0
        BY <1>5, <3>1 DEF ExitCode
      <4> DEFINE last == gone(ExitCode(b), bench.broken)
      <4>2. last.exit = IF bench.failed > 0 THEN 1 ELSE 0
        BY <2>5, <4>1
      <4> HIDE DEF last, gone
      <4>3. ExitTells(Extended(file, end), last)
        BY <1>1, <1>5, <2>1, <3>1, <4>2, ExitIsTrue
      <4> QED
        BY <4>3 DEF last
    <3>2. CASE bench.broken = "interrupt"
      <4>1. ExitCode(b) = Traceback
        BY <1>5, <3>2 DEF ExitCode
      <4> HIDE DEF gone
      <4> QED
        BY <2>5, <4>1 DEF ExitTells, Traceback
    <3>3. CASE bench.broken = "write"
      <4>1. ExitCode(b) = 2
        BY <3>3 DEF ExitCode
      <4> HIDE DEF gone
      <4> QED
        BY <2>5, <3>3, <4>1 DEF ExitTells
    <3> QED
      BY <1>2, <3>1, <3>2, <3>3
  <2>7. BenchTells("left", Extended(file, end), gone(ExitCode(b), bench.broken))
    <3> HIDE DEF gone
    <3> QED
      BY <2>3, <2>5, <2>6 DEF BenchTells, Begun
  <2> QED
    BY <1>3, <1>4, <1>5, <2>2, <2>7 DEF Tells, Touches
<1>6. ASSUME NEW code, NEW broken, Gone(b, code, broken), UNCHANGED results,
             \/ ~bench.writer /\ code = ExitCode(b) /\ broken = bench.broken
             \/ bench.writer /\ code = 2 /\ broken = "write"
      PROVE  Tells(b)' /\ Touches(b)
  <2>1. code \in {2, Traceback} /\ broken \in {"no", "interrupt", "write"}
    BY <1>2, <1>6 DEF ExitCode
  <2>2. gone(code, broken) \in JobRecords /\ gone(code, broken).exit = code
        /\ gone(code, broken).broken = broken /\ ~gone(code, broken).writer
    BY <1>1, <2>1, LeftRecord
  <2> HIDE DEF gone
  <2>3. ExitTells(file, gone(code, broken))
    BY <1>1, <1>6, <2>1, <2>2 DEF ExitTells, Traceback
  <2>4. EndCounts(file, broken)
    BY <1>1 DEF EndCounts, Unended
  <2>5. BenchTells("left", file, gone(code, broken))
    BY <1>1, <2>2, <2>3, <2>4 DEF BenchTells, Begun
  <2> QED
    BY <1>3, <1>4, <1>6, <2>5 DEF Tells, Touches
<1>7. ASSUME Gone(b, 2, "write"), bench.writer, results' = [results EXCEPT ![b] = Append(@, end)]
      PROVE  Tells(b)' /\ Touches(b)
  <2>1. end \in EndRecords /\ end.ok = bench.ok /\ end.failed = bench.failed
    BY <1>2 DEF RunEnd, EndRecords
  <2>2. results'[b] = Extended(file, end)
    BY <1>7 DEF Framed, Extended
  <2> HIDE DEF end
  <2>3. /\ Extended(file, end) \in Seq(Records) /\ AuditsTell(Extended(file, end))
        /\ EndCounts(Extended(file, end), bench.broken)
    BY <1>1, <1>7, <2>1, EndedFile
  <2>4. EndCounts(Extended(file, end), "write")
    BY <2>3 DEF EndCounts
  <2>5. /\ gone(2, "write") \in JobRecords /\ gone(2, "write").broken = "write"
        /\ gone(2, "write").exit = 2 /\ ~gone(2, "write").writer
    BY <1>1, LeftRecord
  <2> HIDE DEF gone
  <2>6. ExitTells(Extended(file, end), gone(2, "write"))
    BY <2>5 DEF ExitTells
  <2>7. BenchTells("left", Extended(file, end), gone(2, "write"))
    BY <2>3, <2>4, <2>5, <2>6 DEF BenchTells, Begun
  <2> QED
    BY <1>3, <1>4, <1>7, <2>2, <2>7 DEF Tells, Touches
<1>8. \/ bench.writer /\ Gone(b, ExitCode(b), bench.broken) /\ results' = [results EXCEPT ![b] = Append(@, end)]
      \/ ~bench.writer /\ Gone(b, ExitCode(b), bench.broken) /\ UNCHANGED results
      \/ bench.writer /\ Gone(b, 2, "write") /\ UNCHANGED results
      \/ bench.writer /\ Gone(b, 2, "write") /\ results' = [results EXCEPT ![b] = Append(@, end)]
  BY DEF Leave
<1> QED
  BY <1>5, <1>6, <1>7, <1>8

-----------------------------------------------------------------------------
(* The other steps                                                         *)

\* A step to another place leaves the locals and the file as they are.
LEMMA MovedTells ==
  ASSUME NEW file, NEW bench, NEW from, NEW to, BenchTells(from, file, bench),
         \/ from \in {"start", "poll", "get", "warm"} /\ to \in {"poll", "get", "kill", "done", "ask"}
         \/ from \in {"stop", "wait", "kill"} /\ to \in {"wait", "kill", "done"}
         \/ from = "ask" /\ to = "cut" /\ bench.kind = "moods"
  PROVE  BenchTells(to, file, bench)
  BY DEF BenchTells, Begun, AtStart

LEMMA MovesTells ==
  ASSUME Framed, NEW b \in Benches, Tells(b), UNCHANGED benchVars,
         Starts(b) \/ Stops(b) \/ Polls(b) \/ WarmHealthy(b) \/ BannerFails(b)
  PROVE  Tells(b)' /\ Touches(b)
<1>1. b \in Jobs
  BY DEF Jobs
<1>2. \/ at[b] \in {"start", "poll", "get", "warm"} /\ at'[b] \in {"poll", "get", "kill", "done", "ask"}
      \/ at[b] \in {"stop", "wait", "kill"} /\ at'[b] \in {"wait", "kill", "done"}
      \/ at[b] = "ask" /\ at'[b] = "cut" /\ job[b].kind = "moods"
  <2>1. CASE Starts(b)
    BY <1>1, <2>1 DEF Starts, CannotStart, Popen, ChildDied, Healthy, LoadTimesOut, Goes, Framed
  <2>2. CASE Stops(b)
    BY <1>1, <2>2 DEF Stops, Terminate, ChildExits, WaitTimesOut, KillChild, Goes, Framed
  <2>3. CASE Polls(b)
    BY <1>1, <2>3 DEF Polls, Goes, Framed
  <2>4. CASE WarmHealthy(b)
    BY <1>1, <2>4 DEF WarmHealthy, Goes, Framed
  <2>5. CASE BannerFails(b)
    BY <1>1, <2>5 DEF BannerFails, Goes, Framed
  <2> QED
    BY <2>1, <2>2, <2>3, <2>4, <2>5
<1>3. job' = job /\ results' = results
  BY DEF benchVars
<1>4. BenchTells(at'[b], results[b], job[b])
  BY <1>2, MovedTells DEF Tells
<1> QED
  BY <1>3, <1>4 DEF Tells, Touches

LEMMA BeginTells ==
  ASSUME Framed, NEW b \in Benches, Tells(b), NEW kind \in {"cold", "warm", "moods"}, BeginBench(b, kind)
  PROVE  Tells(b)' /\ Touches(b)
<1> DEFINE bench == job[b]
           new == [bench EXCEPT !.kind = kind]
<1>1. b \in Jobs /\ Update(b, new) /\ results' = results
      /\ Goes(b, "idle", IF kind = "warm" THEN "warm" ELSE "start")
  BY DEF BeginBench, Begins, Jobs
<1>2. at[b] = "idle" /\ at'[b] \in {"start", "warm"}
  BY <1>1 DEF Goes, Framed
<1>3. bench \in JobRecords /\ AtStart(bench) /\ ~bench.writer /\ bench.exit = None
  BY <1>2 DEF Tells, BenchTells, Begun
<1>4. /\ new \in JobRecords /\ AtStart(new) /\ ~new.writer /\ new.exit = None
      /\ new.ok = bench.ok /\ new.failed = bench.failed
  BY <1>3 DEF JobRecords, AtStart
<1> HIDE DEF new
<1>5. job'[b] = new
  BY <1>1 DEF Update, Framed, JobTypes
<1>6. BenchTells(at'[b], results[b], new)
  BY <1>2, <1>4 DEF Tells, BenchTells, Begun
<1> QED
  BY <1>1, <1>5, <1>6 DEF Tells, Touches

LEMMA MoodsTells ==
  ASSUME Framed, NEW b \in Benches, Tells(b), NEW junk \in BOOLEAN, MoodsTry(b, junk)
  PROVE  Tells(b)' /\ Touches(b)
<1> DEFINE bench == job[b]
           nextHour == [bench EXCEPT !.image = @ + 1, !.tries = BestOf]
           again == [bench EXCEPT !.tries = @ - 1]
           Alike(new) == /\ new \in JobRecords /\ new.kind = bench.kind /\ new.writer = bench.writer
                         /\ new.ok = bench.ok /\ new.failed = bench.failed /\ new.exit = bench.exit
                         /\ new.broken = bench.broken
<1>1. at[b] = "ask" /\ bench.kind = "moods" /\ UNCHANGED <<at, results>>
      /\ (Update(b, nextHour) \/ Update(b, again))
  BY DEF MoodsTry
<1>2. bench \in JobRecords /\ bench.image + 1 \in Nat /\ bench.tries - 1 \in Int /\ BestOf \in Int
  BY AskAssumption DEF Tells, BenchTells, JobRecords
<1>3. nextHour \in JobRecords
  BY <1>2 DEF JobRecords
<1>4. again \in JobRecords
  BY <1>2 DEF JobRecords
<1>5. Alike(nextHour)
  BY <1>2, <1>3 DEF JobRecords
<1>6. Alike(again)
  BY <1>2, <1>4 DEF JobRecords
<1> HIDE DEF nextHour, again
<1>7. PICK new : Alike(new) /\ Update(b, new)
  BY <1>1, <1>5, <1>6
<1>8. job'[b] = new
  BY <1>7 DEF Update, Framed, JobTypes
<1>9. BenchTells("ask", results[b], new)
  BY <1>1, <1>7 DEF Tells, BenchTells, Begun
<1> QED
  BY <1>1, <1>7, <1>8, <1>9 DEF Tells, Touches

\* Interrupted while it waits for a server: there is no file yet.
LEMMA InterruptedTells ==
  ASSUME Framed, NEW b \in Benches, Tells(b), at[b] # "ask", Interrupted(b),
         Update(b, [job[b] EXCEPT !.broken = "interrupt"]), UNCHANGED results
  PROVE  Tells(b)' /\ Touches(b)
<1> DEFINE bench == job[b]
           new == [bench EXCEPT !.broken = "interrupt"]
<1>1. b \in Jobs /\ at[b] \in {"start", "warm", "poll", "get"} /\ at'[b] \in {"done", "kill"}
  BY DEF Jobs, Interrupted, Unwinds, Framed
<1>2. bench \in JobRecords /\ ~bench.writer /\ bench.exit = None
  BY <1>1 DEF Tells, BenchTells, Begun
<1>3. /\ new \in JobRecords /\ ~new.writer /\ new.exit = None
      /\ new.ok = bench.ok /\ new.failed = bench.failed
  BY <1>2 DEF JobRecords
<1>4. Update(b, new)
  OBVIOUS
<1> HIDE DEF new
<1>5. job'[b] = new
  BY <1>4 DEF Update, Framed, JobTypes
<1>6. BenchTells(at'[b], results[b], new)
  BY <1>1, <1>3 DEF Tells, BenchTells, Begun
<1> QED
  BY <1>4, <1>5, <1>6 DEF Tells, Touches

LEMMA CutTells ==
  ASSUME Framed, NEW b \in Benches, Tells(b), CutShort(b), Gone(b, None, "no"), UNCHANGED results
  PROVE  Tells(b)' /\ Touches(b)
<1> DEFINE new == Left(job[b], None, "no")
<1>1. b \in Jobs /\ at[b] # "left" /\ at'[b] = "cut"
  BY DEF Jobs, CutShort, Running, Over, Framed
<1>2. new \in JobRecords /\ ~new.writer /\ new.exit = None
  BY <1>1, LeftRecord DEF Tells, BenchTells
<1>3. Update(b, new)
  BY DEF Gone, Left
<1> HIDE DEF new
<1>4. job'[b] = new
  BY <1>3 DEF Update, Framed, JobTypes
<1>5. BenchTells("cut", results[b], new)
  BY <1>1, <1>2 DEF Tells, BenchTells, Begun
<1> QED
  BY <1>1, <1>3, <1>4, <1>5 DEF Tells, Touches

LEMMA BenchStepTells ==
  ASSUME Framed, NEW b \in Benches, Tells(b), BenchStep(b)
  PROVE  Tells(b)' /\ Touches(b)
<1>1. CASE Command(b)
  <2>1. CASE (Starts(b) \/ Stops(b)) /\ UNCHANGED benchVars
    BY <2>1, MovesTells
  <2>2. CASE WarmHealthy(b)
    BY <2>2, MovesTells DEF WarmHealthy
  <2>3. CASE FinishSweep(b)
    BY <2>3, StopsAskingTells DEF FinishSweep
  <2> QED
    BY <1>1, <2>1, <2>2, <2>3, OpenWriterTells, UnreadableTells, AskSlotTells, WriteAuditTells,
       LeaveTells, AskFlavorTells, MoodsTells DEF Command
<1>2. CASE InterruptBench(b)
  <2>1. CASE Finally(b, job[b], "interrupt")
    BY <1>2, <2>1, StopsAskingTells DEF InterruptBench
  <2> QED
    BY <1>2, <2>1, InterruptedTells DEF InterruptBench
<1>3. CASE BannerFails(b) \/ (Polls(b) /\ UNCHANGED benchVars)
  BY <1>3, MovesTells DEF BannerFails
<1> QED
  BY <1>1, <1>2, <1>3, BeginTells, CutTells DEF BenchStep

-----------------------------------------------------------------------------
(* All the commands                                                        *)

LEMMA EffectStays ==
  ASSUME PortInv, NEW j \in Jobs, Effect(j)
  PROVE  \A k \in Jobs : k # j => at'[k] = at[k]
<1> USE DEF PortInv, Types
<1>1. CASE Asks(j)
  BY <1>1 DEF Asks
<1>2. CASE Idles(j)
  BY <1>2 DEF Idles
<1>3. CASE Starts(j)
  BY <1>3 DEF Starts, CannotStart, Popen, ChildDied, Healthy, LoadTimesOut, Goes
<1>4. CASE Stops(j)
  BY <1>4 DEF Stops, Terminate, ChildExits, WaitTimesOut, KillChild, Goes
<1>5. CASE Polls(j)
  BY <1>5 DEF Polls, Goes
<1>6. CASE Interrupted(j)
  BY <1>6 DEF Interrupted
<1>7. CASE CutShort(j)
  BY <1>7 DEF CutShort
<1>8. CASE Begins(j, "start") \/ Begins(j, "warm")
  BY <1>8 DEF Begins, Goes
<1> QED
  BY <1>1, <1>2, <1>3, <1>4, <1>5, <1>6, <1>7, <1>8 DEF Effect, Serves

LEMMA SweepInit == Init => BenchInv
<1> SUFFICES ASSUME Init, NEW b \in Benches PROVE BenchTells("idle", <<>>, Fresh)
  <2>1. Init => /\ job = [b \in Benches |-> job[b]] /\ results = [b \in Benches |-> results[b]]
                /\ \A b \in Benches : job[b] = Fresh /\ results[b] = <<>> /\ at[b] = "idle"
    BY DEF Init, BenchInit, ServerInit, Jobs
  <2> QED
    BY <2>1 DEF BenchInv
<1>1. Breaks(<<>>, Fresh)
  BY FreshRecord, SweepStarts
<1> QED
  BY <1>1, FreshRecord DEF BenchTells, Breaks, Begun

LEMMA SweepStep == PortInv /\ BenchInv /\ [Next]_vars => BenchInv'
<1> SUFFICES ASSUME PortInv, BenchInv, [Next]_vars PROVE BenchInv'
  OBVIOUS
<1>1. Framed /\ \A b \in Benches : Tells(b)
  BY DEF PortInv, Types, Framed, BenchInv, Tells
<1>2. CASE UNCHANGED benchVars /\ \A b \in Benches : at'[b] = at[b]
  BY <1>2 DEF BenchInv, benchVars
<1>3. ASSUME NEW c \in Captures, CaptureStep(c), UNCHANGED benchVars PROVE BenchInv'
  <2>1. Effect(c) /\ c \in Jobs /\ c \notin Benches /\ Benches \subseteq Jobs
    BY <1>1, <1>3, CaptureEffect, JobsAssumption DEF Framed, Jobs
  <2> QED
    BY <1>2, <1>3, <2>1, EffectStays
<1>4. ASSUME NEW b \in Benches, BenchStep(b) PROVE BenchInv'
  <2>1. Effect(b) /\ b \in Jobs /\ Benches \subseteq Jobs
    BY <1>1, <1>4, BenchEffect DEF Framed, Jobs
  <2>2. Tells(b)' /\ Touches(b)
    BY <1>1, <1>4, BenchStepTells
  <2>3. job' = [c \in Benches |-> job'[c]]
    BY <2>1 DEF Effect, JobTypes
  <2>4. results' = [c \in Benches |-> results'[c]]
    BY <1>1, <2>2 DEF Touches, Framed
  <2>5. \A c \in Benches : c # b => job'[c] = job[c] /\ results'[c] = results[c] /\ at'[c] = at[c]
    BY <1>1, <2>1, <2>2, EffectStays DEF Touches, Update, Framed, JobTypes
  <2>6. \A c \in Benches : BenchTells(at'[c], results'[c], job'[c])
    BY <1>1, <2>2, <2>5 DEF Tells
  <2> QED
    BY <2>3, <2>4, <2>6 DEF BenchInv
<1>5. CASE ServerStep /\ UNCHANGED <<left, benchVars>>
  BY <1>2, <1>5 DEF ServerStep
<1>6. CASE UNCHANGED vars
  BY <1>2, <1>6 DEF vars, serverVars, benchVars
<1> QED
  BY <1>3, <1>4, <1>5, <1>6 DEF Next

LEMMA SweepInvariance == Spec => []BenchInv
  BY SweepInit, SweepStep, PortInvariance, PTL DEF Spec

\* results.py: run_end is the last record and counts the calls before it, and
\* cli.py renders an audit only from a variant's full set of answers: whatever
\* the servers answer, and wherever an interrupt or a failed write breaks the sweep
\* off, between two records or between a count and its record.
THEOREM RunsAreRecorded == Spec => []ResultsTellTheRun
<1>1. BenchInv => ResultsTellTheRun
  <2> SUFFICES ASSUME BenchInv, NEW b \in Benches
               PROVE  EndCounts(results[b], job[b].broken) /\ AuditsTell(results[b])
    BY DEF ResultsTellTheRun
  <2>1. BenchTells(at[b], results[b], job[b])
    BY DEF BenchInv
  <2> QED
    BY <2>1 DEF BenchTells, Unended, EndCounts
<1> QED
  BY <1>1, SweepInvariance, PTL

\* cli.py: 0 all calls OK, 1 any call failed, 2 setup failure: the exit code of a
\* command agrees with the file it leaves behind.
THEOREM ExitsAreTrue == Spec => []ExitTellsTheRun
<1>1. BenchInv => ExitTellsTheRun
  <2> SUFFICES ASSUME BenchInv, NEW b \in Benches PROVE ExitTells(results[b], job[b])
    BY DEF ExitTellsTheRun
  <2>1. BenchTells(at[b], results[b], job[b])
    BY DEF BenchInv
  <2> QED
    BY <2>1 DEF BenchTells, ExitTells, None
<1> QED
  BY <1>1, SweepInvariance, PTL
=============================================================================
