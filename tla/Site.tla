-------------------------------- MODULE Site ---------------------------------
(***************************************************************************)
(* The fault-cam page: the monitor island polls /api/reserve and announces *)
(* each reading, the attestation record repaints from it and checks the    *)
(* frame it names (site/src/scripts/camera-monitor.ts and                  *)
(* attestation-record.ts).  Polls and checks overlap and finish in any     *)
(* order; each callback runs to its end before another starts.  The Worker *)
(* answers from KV, whose reads may be behind its writes.                  *)
(***************************************************************************)
EXTENDS Integers

CONSTANTS
  Polls,          \* poll slots: how many fetches overlap
  Checks,         \* check slots
  MaxCounter,     \* bound on the frames the Worker moves through
  Spoiled,        \* the frames whose bytes are not those of their record
  MaxAged,        \* bound on the frames that grow too old
  MaxFailures     \* bound on the fetches that fail, of polls and checks

Reading == [counter : 0..MaxCounter, dark : BOOLEAN]
Dark == [counter |-> 0, dark |-> TRUE]   \* camera-state.ts DARK
NoKey == [counter |-> -1, dark |-> TRUE] \* checkedKey is undefined
NoCheck == [reading |-> NoKey, at |-> "free", met |-> "named"]

Settled == {"verified", "invalid", "dark"}
Unsettled == {"mismatch", "unavailable", "checking"}   \* RECHECK

ASSUME SiteAssumption ==
  /\ Polls # {} /\ Checks # {}
  /\ MaxCounter \in Nat /\ MaxAged \in Nat /\ MaxFailures \in Nat
  /\ Spoiled \subseteq 1..MaxCounter

VARIABLES
  latest,       \* the counter in META latest, 0 while there is none
  oldest,       \* the oldest latest that a read of KV may still return
  aged,         \* the frames up to this one have grown too old
  polls,        \* per slot: "free", "asked" or "answered", and the answer
  alive,        \* the monitor is mounted
  shown,        \* the reading painted on the monitor and the record
  verdict,      \* the verdict painted, the reading it was reached for, and (history)
                \* whether a read that was behind went into it
  checkedKey,
  checks,       \* per slot: the reading under check, what is awaited, and (history) whether
                \* the frame compared was the one named, the latest or an old one; or NoCheck
  failures

worker == <<latest, oldest, aged>>
vars == <<worker, polls, alive, shown, verdict, checkedKey, checks, failures>>

FreePoll == [phase |-> "free", reading |-> Dark]

Init ==
  /\ latest = 0 /\ oldest = 0 /\ aged = 0
  /\ polls = [p \in Polls |-> FreePoll]
  /\ alive = TRUE
  /\ shown = Dark /\ verdict = [of |-> Dark, is |-> "dark", behind |-> FALSE]  \* server-rendered markup
  /\ checkedKey = NoKey
  /\ checks = [c \in Checks |-> NoCheck]
  /\ failures = 0

-----------------------------------------------------------------------------
(* The Worker: a new frame, a frame grown too old, KV catching up          *)

\* handleReserve, when META latest reads as frame n.
ReadingOf(n) == [counter |-> n, dark |-> n <= aged]

\* A read of META latest: a put takes a while to be seen everywhere.
Reads == oldest..latest

NewFrame ==
  /\ latest < MaxCounter
  /\ latest' = latest + 1
  /\ UNCHANGED <<oldest, aged, polls, alive, shown, verdict, checkedKey, checks, failures>>

FrameAges ==
  /\ aged < latest /\ aged < MaxAged
  /\ aged' = aged + 1
  /\ UNCHANGED <<latest, oldest, polls, alive, shown, verdict, checkedKey, checks, failures>>

Propagate ==
  /\ oldest < latest
  /\ oldest' = latest
  /\ UNCHANGED <<latest, aged, polls, alive, shown, verdict, checkedKey, checks, failures>>

-----------------------------------------------------------------------------
(* poll()                                                                  *)

Poll(p) ==
  /\ alive
  /\ polls[p].phase = "free"
  /\ polls' = [polls EXCEPT ![p].phase = "asked"]
  /\ UNCHANGED <<worker, alive, shown, verdict, checkedKey, checks, failures>>

Answer(p) ==
  /\ polls[p].phase = "asked"
  /\ \E n \in Reads :
       polls' = [polls EXCEPT ![p] = [phase |-> "answered", reading |-> ReadingOf(n)]]
  /\ UNCHANGED <<worker, alive, shown, verdict, checkedKey, checks, failures>>

\* No answer, an error status or a malformed body: the reading is DARK.
PollFails(p) ==
  /\ polls[p].phase = "asked"
  /\ failures < MaxFailures /\ failures' = failures + 1
  /\ polls' = [polls EXCEPT ![p] = [phase |-> "answered", reading |-> Dark]]
  /\ UNCHANGED <<worker, alive, shown, verdict, checkedKey, checks>>

-----------------------------------------------------------------------------
(* The monitor's painting, and the record's onReserve                      *)

\* renderMonitor(viewFor(reading)), and the record's own fields with it.
Paint(reading) == shown' = reading

\* onReserve up to its first await.  A dark reading is not fetched: its check is
\* over before anything else can run.
OnReserve(reading) ==
  IF reading = checkedKey THEN UNCHANGED <<verdict, checkedKey, checks>>
  ELSE /\ checkedKey' = reading
       /\ verdict' = [of |-> reading, is |-> IF reading.dark THEN "dark" ELSE "checking",
                       behind |-> FALSE]
       /\ IF reading.dark THEN UNCHANGED checks
          ELSE \E c \in Checks :
                 /\ checks[c] = NoCheck
                 /\ checks' = [checks EXCEPT ![c] = [NoCheck EXCEPT !.reading = reading,
                                                                 !.at = "frame"]]

Render(p) ==
  /\ polls[p].phase = "answered" /\ alive
  /\ polls' = [polls EXCEPT ![p] = FreePoll]
  /\ Paint(polls[p].reading)
  /\ OnReserve(polls[p].reading)
  /\ UNCHANGED <<worker, alive, failures>>

\* Mutant: every check that comes back is painted.
AlwaysApplies(c) == TRUE

\* The verdict counts only while its reading is still the one being checked.
Applies(c) == checkedKey = checks[c].reading

\* Mutant: an unsettled verdict stands until the next frame.
CheckDoneStands(c, outcome, behind) ==
  /\ checks' = [checks EXCEPT ![c] = NoCheck]
  /\ verdict' = IF Applies(c) THEN [of |-> checks[c].reading, is |-> outcome, behind |-> behind]
                 ELSE verdict
  /\ UNCHANGED checkedKey

\* checkReserve comes back: an unsettled verdict opens the reading for a recheck.
CheckDone(c, outcome, behind) ==
  /\ checks' = [checks EXCEPT ![c] = NoCheck]
  /\ IF Applies(c)
       THEN /\ verdict' = [of |-> checks[c].reading, is |-> outcome, behind |-> behind]
            /\ checkedKey' = IF outcome \in Unsettled THEN NoKey ELSE checkedKey
       ELSE UNCHANGED <<verdict, checkedKey>>

-----------------------------------------------------------------------------
(* checkReserve, one action per answer it awaits                           *)

\* What hashing frame n's bytes gives: its record's hash, or another.
Hash(n) == IF n \in Spoiled THEN -n ELSE n

\* verifyFrame on frame n.  A hash that differs is not believed yet.
Compare(c, n, met) ==
  IF Hash(n) = checks[c].reading.counter
    THEN \E outcome \in {"verified", "invalid"} : CheckDone(c, outcome, FALSE)
    ELSE /\ checks' = [checks EXCEPT ![c] = [reading |-> @.reading, at |-> "confirm", met |-> met]]
         /\ UNCHANGED <<verdict, checkedKey>>

\* The frame comes by the counter the reading names.
NamedFetched(c) ==
  /\ checks[c].at = "frame"
  /\ Compare(c, checks[c].reading.counter, "named")
  /\ UNCHANGED <<worker, polls, alive, shown, failures>>

\* The reading names no frame of /api/frame/: /api/frame/latest answers with its own
\* read of META latest, which is 404 where no frame is seen yet.
LatestFetched(c) ==
  /\ checks[c].at = "frame"
  /\ \E n \in Reads :
       IF n = 0 THEN CheckDone(c, "unavailable", FALSE)
       ELSE Compare(c, n, IF n < latest THEN "old" ELSE "latest")
  /\ UNCHANGED <<worker, polls, alive, shown, failures>>

\* Mutant: the first mismatch is reported.
MismatchBelieved(c, n) == "mismatch"

\* stillNames, when the fresh record names frame n: the same hash makes it a mismatch.
Confirmed(c, n) == IF n = checks[c].reading.counter THEN "mismatch" ELSE "checking"

\* The frame compared, or the fresh record, came of a read of KV that was behind.
WasBehind(c, n) == checks[c].met = "old" \/ (checks[c].met = "latest" /\ n < latest)

RecordRefetched(c) ==
  /\ checks[c].at = "confirm"
  /\ \E n \in Reads : CheckDone(c, Confirmed(c, n), WasBehind(c, n))
  /\ UNCHANGED <<worker, polls, alive, shown, failures>>

\* Either fetch fails: unavailable, or nothing confirmed.
CheckFetchFails(c) ==
  /\ checks[c].at # "free"
  /\ failures < MaxFailures /\ failures' = failures + 1
  /\ CheckDone(c, IF checks[c].at = "frame" THEN "unavailable" ELSE "checking", FALSE)
  /\ UNCHANGED <<worker, polls, alive, shown>>

\* No answer that is still to come reaches anyone.
Destroy ==
  /\ alive
  /\ alive' = FALSE
  /\ polls' = [p \in Polls |-> FreePoll]
  /\ UNCHANGED <<worker, shown, verdict, checkedKey, checks, failures>>

-----------------------------------------------------------------------------
PageStep ==
  \/ \E p \in Polls : Poll(p) \/ Answer(p) \/ PollFails(p) \/ Render(p)
  \/ \E c \in Checks :
       NamedFetched(c) \/ LatestFetched(c) \/ RecordRefetched(c) \/ CheckFetchFails(c)

Next == NewFrame \/ FrameAges \/ Propagate \/ PageStep \/ Destroy

Spec == Init /\ [][Next]_vars

\* The page keeps polling while it is mounted, the network answers in the end, and a
\* put to KV is seen everywhere in the end.
Fairness ==
  /\ \A p \in Polls : WF_vars(Poll(p)) /\ WF_vars(Answer(p)) /\ SF_vars(Render(p))
  /\ \A c \in Checks : WF_vars(NamedFetched(c) \/ LatestFetched(c) \/ RecordRefetched(c))
  /\ WF_vars(Propagate)

FairSpec == Spec /\ Fairness

-----------------------------------------------------------------------------
\* attestation-record.ts: a slow check for an older frame never overwrites a
\* newer one.  The verdict painted is always about the reading painted.
VerdictOfShown == verdict.of = shown

\* No reading is left unchecked: an unsettled verdict is always open to the
\* next poll, and "checking" is painted only while that check is running or
\* open to be run again.
NeverStuck ==
  /\ verdict.is \in Unsettled \ {"checking"} => checkedKey = NoKey
  /\ verdict.is = "checking" =>
       checkedKey = NoKey \/ \E c \in Checks : checks[c].reading = shown

\* attestation.ts stillNames: a mismatch reported is that of a spoiled frame, however
\* the Worker moved on between the reading, the frame and the record; and no frame with
\* other bytes than its record's is ever verified.  The exception is the one its comment
\* half names: a reading that names no frame, compared with a frame of /api/frame/latest,
\* where that frame or the fresh record came of a read of KV that was behind.
VerdictIsTrue ==
  /\ verdict.is = "mismatch" => verdict.of.counter \in Spoiled \/ verdict.behind
  /\ verdict.is = "verified" => verdict.of.counter \notin Spoiled

\* However polls and checks overtake each other, and however far reads were behind, once
\* the Worker stays on one frame the page comes to show it, with a settled verdict if the
\* frame is sound: a mismatch wrongly painted does not stand.
PageCatchesUp ==
  <>[](~alive \/ (/\ shown = ReadingOf(latest) /\ verdict.of = shown
                  /\ verdict.is \in Settled \/ latest \in Spoiled))
=============================================================================
