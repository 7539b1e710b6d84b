----------------------------- MODULE SharedPort ------------------------------
(***************************************************************************)
(* Captures of the device and commands of the bench on one machine and one *)
(* port: mood_rotation.py's default port is the one the captures use, and  *)
(* `run` takes any --port.  Captures follow each other (the hourly timer)  *)
(* or overlap (one run by hand).                                           *)
(***************************************************************************)
EXTENDS Cro, Bench

vars == <<serverVars, left, benchVars>>

Init == ServerInit /\ CroInit /\ BenchInit

Next ==
  \/ \E c \in Captures : CaptureStep(c) /\ UNCHANGED benchVars
  \/ \E b \in Benches : BenchStep(b) /\ UNCHANGED left
  \/ ServerStep /\ UNCHANGED <<left, benchVars>>

Spec == Init /\ [][Next]_vars

\* A job runs on, and does not poll for ever: the deadline of wait_healthy comes.
\* Nothing is asked of the servers.
Fairness ==
  /\ \A c \in Captures : WF_vars(UNCHANGED benchVars /\ Audit(c))
  /\ \A b \in Benches : WF_vars(UNCHANGED left /\ Command(b))

FairSpec == Spec /\ Fairness

-----------------------------------------------------------------------------
\* The port is shared, so a job can be answered by a server it did not start,
\* but only by that of a job it overlapped or of one cut short.
AnswersAreItsOwn ==
  \A j \in Jobs : \A k \in strangers[j] : k \in met[j] \/ at[k] = "cut"

\* cro.py: never load-bearing.  Whatever the servers do, audit() comes back, and
\* so does a sweep.
JobsComeBack ==
  \A j \in Jobs : at[j] \in {"start", "warm"} ~> at[j] \in {"done", "left", "cut"}

-----------------------------------------------------------------------------
\* Where the records of a kind stand in a results file.
Calls(file) == {i \in DOMAIN file : file[i].type = "call"}
Good(file) == {i \in Calls(file) : file[i].good}
CallsOf(file, image, variant) == {i \in Calls(file) : file[i].image = image /\ file[i].variant = variant}
Audits(file) == {i \in DOMAIN file : file[i].type = "audit"}

\* results.py: run_end is the last record and counts the calls before it: exactly,
\* or one too many when an interrupt or a failed write cut the sweep off between
\* the count and the record.
EndCounts(file, broken) ==
  \A i \in DOMAIN file :
    LET end == file[i]
        missing == end.ok + end.failed - Cardinality(Calls(file))
    IN end.type = "run_end" =>
         /\ i = Len(file)
         /\ end.ok - Cardinality(Good(file)) \in {0, missing}
         /\ missing \in IF broken = "no" THEN {0} ELSE {0, 1}

\* cli.py: an audit's text is rendered from a full set of answers, one per call
\* of its variant, and an audit without a text has a failed call beside it.
AuditsTell(file) ==
  \A i \in Audits(file) :
    LET calls == CallsOf(file, file[i].image, file[i].variant)
    IN /\ \A k \in calls : k < i
       /\ file[i].text <=> \A k \in calls : file[k].good
       /\ file[i].text => {file[k].id : k \in calls} = 1..Flavor

\* The results file tells the run, at every moment: its end and its audits agree with its calls.
ResultsTellTheRun == \A b \in Benches : EndCounts(results[b], job[b].broken) /\ AuditsTell(results[b])

\* 0 and 1 are the exit codes of a whole sweep, whose file has an audit for every
\* image; 2 is also that of a sweep whose records could not be written.
ExitTells(file, bench) ==
  bench.kind # "moods" =>
    /\ bench.exit \in {0, 1} =>
         /\ {file[i].image : i \in Audits(file)} = 1..Images
         /\ file # <<>> /\ Last(file).type = "run_end"
         /\ bench.exit = 0 <=> Good(file) = Calls(file)
    /\ bench.exit = 2 => file = <<>> \/ bench.broken = "write"

\* cli.py: exit codes 0 all calls OK, 1 any call failed, 2 setup failure, as the
\* results file bears out, however the sweep was broken off.
ExitTellsTheRun == \A b \in Benches : ExitTells(results[b], job[b])
=============================================================================
