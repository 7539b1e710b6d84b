----------------------------- MODULE SiteProofs -----------------------------
(***************************************************************************)
(* Proofs about Site, for any number of overlapping polls and checks, any  *)
(* number of frames and any of them spoiled.                               *)
(***************************************************************************)
EXTENDS Site, TLAPS

PageTypes ==
  /\ latest \in 0..MaxCounter /\ oldest \in 0..latest /\ aged \in 0..latest
  /\ polls \in [Polls -> [phase : {"free", "asked", "answered"}, reading : Reading]]
  /\ shown \in Reading
  /\ verdict \in [of : Reading, is : Settled \union Unsettled, behind : BOOLEAN]
  /\ checkedKey \in Reading \union {NoKey}
  /\ checks \in [Checks -> [reading : Reading \union {NoKey}, at : {"free", "frame", "confirm"},
                            met : {"named", "latest", "old"}]]

\* A reading that is not dark names a frame that the Worker has named.
Named(reading) == reading.dark \/ reading.counter \in 1..latest

AllNamed == \A p \in Polls : Named(polls[p].reading)

\* A check that runs is one of a frame; a mismatch awaits its confirmation because the
\* frame is spoiled, or the one compared was an old one, or the Worker had moved on.
ChecksRun ==
  \A c \in Checks :
    LET reading == checks[c].reading
    IN checks[c].at # "free" =>
         /\ reading \in Reading /\ ~reading.dark /\ Named(reading)
         /\ checks[c].at = "confirm" =>
              \/ reading.counter \in Spoiled
              \/ checks[c].met = "old"
              \/ checks[c].met = "latest" /\ reading.counter < latest

KeyIsShown == checkedKey # NoKey => checkedKey = shown

PageInv ==
  /\ PageTypes /\ AllNamed /\ ChecksRun /\ KeyIsShown
  /\ VerdictOfShown /\ NeverStuck /\ VerdictIsTrue

LEMMA PageInit == Init => PageInv
<1> SUFFICES ASSUME Init PROVE PageInv
  OBVIOUS
<1> USE SiteAssumption DEF Init
<1>1. PageTypes
  BY DEF PageTypes, Reading, FreePoll, Dark, NoCheck, NoKey, Settled, Unsettled
<1>2. AllNamed /\ ChecksRun /\ KeyIsShown
  BY DEF AllNamed, Named, ChecksRun, KeyIsShown, FreePoll, Dark, NoCheck
<1>3. VerdictOfShown /\ NeverStuck /\ VerdictIsTrue
  BY DEF VerdictOfShown, NeverStuck, VerdictIsTrue, Unsettled
<1> QED
  BY <1>1, <1>2, <1>3 DEF PageInv

\* The Worker only moves forward, so what was named stays named.
LEMMA WorkerSteps ==
  ASSUME PageInv, NewFrame \/ FrameAges \/ Propagate
  PROVE  PageInv'
<1> USE SiteAssumption DEF PageInv
<1>1. /\ latest' \in 0..MaxCounter /\ oldest' \in 0..latest' /\ aged' \in 0..latest'
      /\ latest \in Nat /\ latest' \in Nat /\ latest' >= latest
  BY DEF PageTypes, NewFrame, FrameAges, Propagate
<1>2. UNCHANGED <<polls, shown, verdict, checkedKey, checks>>
  BY DEF NewFrame, FrameAges, Propagate
<1>3. PageTypes'
  BY <1>1, <1>2 DEF PageTypes
<1>4. \A reading \in Reading : Named(reading) => Named(reading)'
  BY <1>1 DEF Named, Reading
<1>5. AllNamed'
  <2>1. \A p \in Polls : polls[p].reading \in Reading
    BY DEF PageTypes
  <2> QED
    BY <1>2, <1>4, <2>1 DEF AllNamed
<1>6. ChecksRun'
  <2> SUFFICES ASSUME NEW c \in Checks, checks[c].at # "free",
                      NEW reading \in Reading, reading = checks[c].reading,
                      ~reading.dark, reading.counter \in 1..latest,
                      checks[c].at = "confirm"
                        => \/ reading.counter \in Spoiled
                           \/ checks[c].met = "old"
                           \/ checks[c].met = "latest" /\ reading.counter < latest
               PROVE  /\ reading.counter \in 1..latest'
                      /\ checks[c].at = "confirm"
                           => \/ reading.counter \in Spoiled
                              \/ checks[c].met = "old"
                              \/ checks[c].met = "latest" /\ reading.counter < latest'
    BY <1>2 DEF ChecksRun, Named
  <2> QED
    BY <1>1 DEF Reading
<1> QED
  BY <1>2, <1>3, <1>5, <1>6 DEF KeyIsShown, VerdictOfShown, NeverStuck, VerdictIsTrue

\* A check comes back: what it says is true, and it opens its reading again unless
\* that settles it.
LEMMA CheckDoneKeepsInv ==
  ASSUME PageInv, NEW c \in Checks, checks[c].at # "free",
         NEW outcome \in {"verified", "invalid"} \union Unsettled,
         outcome = "verified" => checks[c].reading.counter \notin Spoiled,
         NEW behind \in BOOLEAN,
         outcome = "mismatch" => checks[c].reading.counter \in Spoiled \/ behind,
         CheckDone(c, outcome, behind), UNCHANGED <<worker, polls, shown>>
  PROVE  PageInv'
<1> USE DEF PageInv, worker
<1>1. /\ checks[c].reading \in Reading /\ checks[c].reading # NoKey
      /\ checks' = [checks EXCEPT ![c] = NoCheck]
  BY SiteAssumption DEF ChecksRun, CheckDone, Reading, NoKey
<1>2. ChecksRun'
  BY <1>1 DEF ChecksRun, PageTypes, NoCheck, Named
<1>3. AllNamed'
  BY DEF AllNamed, Named
<1>4. CASE Applies(c)
  <2>1. /\ verdict' = [of |-> checks[c].reading, is |-> outcome, behind |-> behind]
        /\ checkedKey' = IF outcome \in Unsettled THEN NoKey ELSE checkedKey
        /\ checkedKey = checks[c].reading /\ checks[c].reading = shown
    BY <1>1, <1>4 DEF CheckDone, Applies, KeyIsShown
  <2>2. PageTypes'
    BY <1>1, <2>1 DEF PageTypes, NoCheck, Settled
  <2>3. VerdictOfShown' /\ NeverStuck' /\ VerdictIsTrue' /\ KeyIsShown'
    BY <1>1, <2>1 DEF VerdictOfShown, NeverStuck, VerdictIsTrue, KeyIsShown, Unsettled
  <2> QED
    BY <1>2, <1>3, <2>2, <2>3
<1>5. CASE ~Applies(c)
  <2>1. UNCHANGED <<verdict, checkedKey>> /\ checkedKey # checks[c].reading
    BY <1>5 DEF CheckDone, Applies
  <2>2. PageTypes'
    BY <1>1, <2>1 DEF PageTypes, NoCheck
  <2>3. NeverStuck'
    <3>1. ASSUME verdict.is = "checking", checkedKey # NoKey
          PROVE  \E d \in Checks : checks'[d].reading = shown
      <4>1. PICK d \in Checks : checks[d].reading = shown
        BY <3>1 DEF NeverStuck
      <4>2. d # c
        BY <2>1, <3>1, <4>1 DEF KeyIsShown
      <4> QED
        BY <1>1, <4>1, <4>2 DEF PageTypes
    <3> QED
      BY <2>1, <3>1 DEF NeverStuck
  <2> QED
    BY <1>2, <1>3, <2>1, <2>2, <2>3 DEF VerdictOfShown, VerdictIsTrue, KeyIsShown
<1> QED
  BY <1>4, <1>5

\* A hash that agrees is that of the frame named, and a hash that differs is that of a
\* spoiled frame or of another than the one named.
LEMMA CompareKeepsInv ==
  ASSUME PageInv, NEW c \in Checks, checks[c].at = "frame",
         NEW n \in 1..latest, NEW met \in {"named", "latest", "old"},
         met = "named" => n = checks[c].reading.counter,
         met = "latest" => n = latest,
         Compare(c, n, met), UNCHANGED <<worker, polls, shown>>
  PROVE  PageInv'
<1> DEFINE reading == checks[c].reading
<1>1. /\ reading \in Reading /\ ~reading.dark /\ Named(reading)
      /\ reading.counter \in 1..latest /\ latest \in Nat
  BY DEF PageInv, ChecksRun, Named, PageTypes, Reading
<1>2. CASE Hash(n) = reading.counter
  <2>1. n = reading.counter /\ n \notin Spoiled
    BY <1>1, <1>2 DEF Hash
  <2>2. PICK outcome \in {"verified", "invalid"} : CheckDone(c, outcome, FALSE)
    BY <1>2 DEF Compare
  <2> QED
    BY <2>1, <2>2, CheckDoneKeepsInv
<1>3. CASE Hash(n) # reading.counter
  <2>1. \/ reading.counter \in Spoiled
        \/ met = "old"
        \/ met = "latest" /\ reading.counter < latest
    BY <1>1, <1>3 DEF Hash
  <2>2. /\ checks' = [checks EXCEPT ![c] = [reading |-> reading, at |-> "confirm", met |-> met]]
        /\ UNCHANGED <<verdict, checkedKey>>
    BY <1>3 DEF Compare
  <2>3. checks[c].reading \in Reading \union {NoKey}
    BY DEF PageInv, PageTypes
  <2>4. \A d \in Checks : checks'[d].reading = checks[d].reading
    BY <2>2 DEF PageInv, PageTypes
  <2>5. checks' \in [Checks -> [reading : Reading \union {NoKey}, at : {"free", "frame", "confirm"},
                                 met : {"named", "latest", "old"}]]
    BY <2>2, <2>3 DEF PageInv, PageTypes
  <2>6. PageTypes'
    BY <2>2, <2>5 DEF PageInv, PageTypes, worker
  <2>7. ChecksRun'
    <3> SUFFICES ASSUME NEW d \in Checks, checks'[d].at # "free"
                 PROVE  /\ checks[d].reading \in Reading /\ ~checks[d].reading.dark
                        /\ Named(checks[d].reading)
                        /\ checks'[d].at = "confirm" =>
                             \/ checks[d].reading.counter \in Spoiled
                             \/ checks'[d].met = "old"
                             \/ checks'[d].met = "latest" /\ checks[d].reading.counter < latest
      BY <2>4 DEF ChecksRun, Named, worker
    <3>1. CASE d = c
      BY <1>1, <2>1, <2>2, <3>1 DEF PageInv, PageTypes
    <3>2. CASE d # c
      BY <2>2, <3>2 DEF PageInv, PageTypes, ChecksRun
    <3> QED
      BY <3>1, <3>2
  <2> QED
    BY <2>2, <2>4, <2>6, <2>7 DEF PageInv, AllNamed, Named, VerdictOfShown, NeverStuck, VerdictIsTrue,
                                    KeyIsShown, worker
<1> QED
  BY <1>2, <1>3

LEMMA NamedFetchedKeepsInv ==
  ASSUME PageInv, NEW c \in Checks, NamedFetched(c)
  PROVE  PageInv'
<1>1. checks[c].at = "frame" /\ UNCHANGED <<worker, polls, shown>>
  BY DEF NamedFetched
<1>2. checks[c].reading.counter \in 1..latest
  BY <1>1 DEF PageInv, ChecksRun, Named
<1> QED
  BY <1>1, <1>2, CompareKeepsInv DEF NamedFetched

LEMMA LatestFetchedKeepsInv ==
  ASSUME PageInv, NEW c \in Checks, LatestFetched(c)
  PROVE  PageInv'
<1>1. checks[c].at = "frame" /\ UNCHANGED <<worker, polls, shown>>
  BY DEF LatestFetched
<1>2. PICK n \in Reads : IF n = 0 THEN CheckDone(c, "unavailable", FALSE)
                         ELSE Compare(c, n, IF n < latest THEN "old" ELSE "latest")
  BY DEF LatestFetched
<1>3. latest \in Nat /\ n \in 0..latest
  BY SiteAssumption DEF PageInv, PageTypes, Reads
<1>4. CASE n = 0
  BY <1>1, <1>2, <1>4, CheckDoneKeepsInv DEF Unsettled
<1>5. CASE n # 0
  <2> DEFINE met == IF n < latest THEN "old" ELSE "latest"
  <2>1. met \in {"named", "latest", "old"} /\ met # "named" /\ (met = "latest" => n = latest)
    BY <1>3
  <2>2. Compare(c, n, met) /\ n \in 1..latest
    BY <1>2, <1>3, <1>5
  <2> HIDE DEF met
  <2> QED
    BY <1>1, <2>1, <2>2, CompareKeepsInv
<1> QED
  BY <1>4, <1>5

\* A mismatch is confirmed on a sound frame only where the frame compared was an old one,
\* or the fresh record was: the Worker had moved on to the frame compared.
LEMMA RecordRefetchedKeepsInv ==
  ASSUME PageInv, NEW c \in Checks, RecordRefetched(c)
  PROVE  PageInv'
<1>1. checks[c].at = "confirm" /\ UNCHANGED <<worker, polls, shown>>
  BY DEF RecordRefetched
<1>2. PICK n \in Reads : CheckDone(c, Confirmed(c, n), WasBehind(c, n))
  BY DEF RecordRefetched
<1>3. Confirmed(c, n) \in {"mismatch", "checking"} /\ WasBehind(c, n) \in BOOLEAN
  BY DEF Confirmed, WasBehind
<1>4. Confirmed(c, n) = "mismatch" => checks[c].reading.counter \in Spoiled \/ WasBehind(c, n)
  BY <1>1 DEF Confirmed, WasBehind, PageInv, ChecksRun
<1> QED
  BY <1>1, <1>2, <1>3, <1>4, CheckDoneKeepsInv DEF Unsettled

LEMMA CheckFetchFailsKeepsInv ==
  ASSUME PageInv, NEW c \in Checks, CheckFetchFails(c)
  PROVE  PageInv'
<1>1. PICK outcome \in {"unavailable", "checking"} : CheckDone(c, outcome, FALSE)
  BY DEF CheckFetchFails
<1>2. checks[c].at # "free" /\ UNCHANGED <<worker, polls, shown>>
  BY DEF CheckFetchFails
<1> QED
  BY <1>1, <1>2, CheckDoneKeepsInv DEF Unsettled

\* What is painted is what was polled, and its check is begun or needs none.
LEMMA RenderKeepsInv ==
  ASSUME PageInv, NEW p \in Polls, Render(p)
  PROVE  PageInv'
<1> DEFINE reading == polls[p].reading
<1> USE DEF PageInv
<1>1. /\ polls' = [polls EXCEPT ![p] = FreePoll] /\ shown' = reading
      /\ OnReserve(reading) /\ latest' = latest /\ oldest' = oldest /\ aged' = aged
  BY DEF Render, Paint, worker
<1>2. reading \in Reading /\ Named(reading) /\ reading # NoKey
  BY SiteAssumption DEF PageTypes, AllNamed, Reading, NoKey
<1>3. AllNamed' /\ polls' \in [Polls -> [phase : {"free", "asked", "answered"}, reading : Reading]]
  BY SiteAssumption, <1>1 DEF AllNamed, Named, PageTypes, FreePoll, Dark, Reading
<1> HIDE DEF reading
<1>4. CASE reading = checkedKey
  <2>1. UNCHANGED <<verdict, checkedKey, checks>> /\ shown' = shown
    BY <1>1, <1>2, <1>4 DEF OnReserve, KeyIsShown
  <2> QED
    BY <1>1, <1>3, <2>1 DEF PageTypes, ChecksRun, Named, KeyIsShown, VerdictOfShown, NeverStuck,
                            VerdictIsTrue
<1>5. CASE reading # checkedKey /\ reading.dark
  <2>1. /\ checkedKey' = reading /\ verdict' = [of |-> reading, is |-> "dark", behind |-> FALSE]
        /\ checks' = checks
    BY <1>1, <1>5 DEF OnReserve
  <2>2. PageTypes'
    BY <1>1, <1>2, <1>3, <2>1 DEF PageTypes, Settled
  <2>3. VerdictOfShown' /\ NeverStuck' /\ VerdictIsTrue' /\ KeyIsShown'
    BY <1>1, <2>1 DEF VerdictOfShown, NeverStuck, VerdictIsTrue, KeyIsShown, Unsettled
  <2> QED
    BY <1>1, <1>3, <2>1, <2>2, <2>3 DEF ChecksRun, Named
<1>6. CASE reading # checkedKey /\ ~reading.dark
  <2>1. /\ checkedKey' = reading /\ verdict' = [of |-> reading, is |-> "checking", behind |-> FALSE]
        /\ \E c \in Checks :
             checks' = [checks EXCEPT ![c] = [NoCheck EXCEPT !.reading = reading, !.at = "frame"]]
    BY <1>1, <1>6 DEF OnReserve
  <2>2. PICK c \in Checks :
          checks' = [checks EXCEPT ![c] = [reading |-> reading, at |-> "frame", met |-> "named"]]
    BY <2>1 DEF NoCheck
  <2>3. PageTypes'
    BY <1>1, <1>2, <1>3, <2>1, <2>2 DEF PageTypes, Unsettled
  <2>4. checks'[c].reading = reading
    BY <2>2 DEF PageTypes
  <2>5. VerdictOfShown' /\ NeverStuck' /\ VerdictIsTrue' /\ KeyIsShown'
    BY <1>1, <2>1, <2>4 DEF VerdictOfShown, NeverStuck, VerdictIsTrue, KeyIsShown, Unsettled
  <2>6. ChecksRun'
    BY <1>1, <1>2, <1>6, <2>2 DEF PageTypes, ChecksRun, Named
  <2> QED
    BY <1>3, <2>3, <2>5, <2>6
<1> QED
  BY <1>4, <1>5, <1>6

LEMMA PollsKeepInv ==
  ASSUME PageInv, NEW p \in Polls, Poll(p) \/ Answer(p) \/ PollFails(p)
  PROVE  PageInv'
<1> USE DEF PageInv
<1>1. UNCHANGED <<latest, oldest, aged, shown, verdict, checkedKey, checks>>
  BY DEF Poll, Answer, PollFails, worker
<1>2. PICK phase \in {"asked", "answered"}, reading \in Reading :
        Named(reading) /\ polls' = [polls EXCEPT ![p] = [phase |-> phase, reading |-> reading]]
  <2>1. CASE Poll(p)
    <3>1. polls[p].reading \in Reading /\ Named(polls[p].reading)
      BY DEF PageTypes, AllNamed
    <3>2. [polls[p] EXCEPT !.phase = "asked"] = [phase |-> "asked", reading |-> polls[p].reading]
      BY DEF PageTypes
    <3>3. polls' = [polls EXCEPT ![p] = [polls[p] EXCEPT !.phase = "asked"]]
      BY <2>1 DEF Poll
    <3> QED
      BY <3>1, <3>2, <3>3
  <2>2. CASE Answer(p)
    <3>1. PICK n \in Reads : polls' = [polls EXCEPT ![p] = [phase |-> "answered", reading |-> ReadingOf(n)]]
      BY <2>2 DEF Answer
    <3>2. n \in 0..latest /\ latest \in 0..MaxCounter /\ aged \in Nat /\ oldest \in Nat
      BY SiteAssumption DEF Reads, PageTypes
    <3>3. ReadingOf(n) \in Reading
      BY <3>2, SiteAssumption DEF ReadingOf, Reading
    <3>4. Named(ReadingOf(n))
      <4>1. ReadingOf(n).dark = (n <= aged) /\ ReadingOf(n).counter = n
        BY DEF ReadingOf
      <4>2. CASE n <= aged
        BY <4>1, <4>2 DEF Named
      <4>3. CASE ~(n <= aged)
        BY <3>2, <4>1, <4>3 DEF Named
      <4> QED
        BY <4>2, <4>3
    <3> QED
      BY <3>1, <3>3, <3>4
  <2>3. CASE PollFails(p)
    <3>1. Dark \in Reading /\ Named(Dark)
      BY SiteAssumption DEF Dark, Reading, Named
    <3> QED
      BY <2>3, <3>1 DEF PollFails
  <2> QED
    BY <2>1, <2>2, <2>3
<1>3. PageTypes'
  BY <1>1, <1>2 DEF PageTypes
<1>4. AllNamed'
  BY <1>1, <1>2 DEF PageTypes, AllNamed, Named
<1> QED
  BY <1>1, <1>3, <1>4 DEF ChecksRun, Named, KeyIsShown, VerdictOfShown, NeverStuck, VerdictIsTrue

LEMMA PageStepKeepsInv == PageInv /\ [Next]_vars => PageInv'
<1> SUFFICES ASSUME PageInv, [Next]_vars PROVE PageInv'
  OBVIOUS
<1>1. CASE NewFrame \/ FrameAges \/ Propagate
  BY <1>1, WorkerSteps
<1>2. CASE PageStep
  BY <1>2, PollsKeepInv, RenderKeepsInv, NamedFetchedKeepsInv, LatestFetchedKeepsInv,
     RecordRefetchedKeepsInv, CheckFetchFailsKeepsInv DEF PageStep
<1>3. CASE Destroy
  <2>1. FreePoll \in [phase : {"free", "asked", "answered"}, reading : Reading] /\ Named(FreePoll.reading)
    BY SiteAssumption DEF FreePoll, Dark, Reading, Named
  <2>2. polls' = [p \in Polls |-> FreePoll] /\ UNCHANGED <<worker, shown, verdict, checkedKey, checks>>
    BY <1>3 DEF Destroy
  <2> HIDE DEF FreePoll
  <2> QED
    BY <2>1, <2>2 DEF worker, PageInv, PageTypes, AllNamed, Named, ChecksRun, KeyIsShown, VerdictOfShown,
                      NeverStuck, VerdictIsTrue
<1>4. CASE UNCHANGED vars
  BY <1>4 DEF vars, worker, PageInv, PageTypes, AllNamed, Named, ChecksRun, KeyIsShown, VerdictOfShown,
              NeverStuck, VerdictIsTrue
<1> QED
  BY <1>1, <1>2, <1>3, <1>4 DEF Next

LEMMA PageInvariance == Spec => []PageInv
  BY PageInit, PageStepKeepsInv, PTL DEF Spec

\* attestation-record.ts: a slow check for an older frame never overwrites a newer one,
\* however many polls and checks overlap and in whatever order they come back.
THEOREM Painted == Spec => []VerdictOfShown
<1>1. PageInv => VerdictOfShown
  BY DEF PageInv
<1> QED
  BY <1>1, PageInvariance, PTL

\* attestation-record.ts, RECHECK: an unsettled verdict is open to the next poll, and
\* "checking" is painted only while a check of that reading runs or may be run again.
THEOREM Rechecked == Spec => []NeverStuck
<1>1. PageInv => NeverStuck
  BY DEF PageInv
<1> QED
  BY <1>1, PageInvariance, PTL

\* attestation.ts, stillNames: only a spoiled frame is ever called a mismatch, and none is
\* ever verified, wherever the Worker moves between the answers; but for a reading that
\* names no frame, where /api/frame/latest or the fresh record answered from a read of KV
\* that was behind.
THEOREM Truthful == Spec => []VerdictIsTrue
<1>1. PageInv => VerdictIsTrue
  BY DEF PageInv
<1> QED
  BY <1>1, PageInvariance, PTL
=============================================================================
