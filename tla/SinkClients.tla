----------------------------- MODULE SinkClients -----------------------------
(***************************************************************************)
(* The reference sink facing any clients at all: requests with any counter,*)
(* any image and any metadata, posted and given up in any order, beside    *)
(* failed writes and restarts.  "don't assume a polite client", sink.py.   *)
(***************************************************************************)
EXTENDS IngestSink

clientVars == <<wire, sinkVars>>

ClientInit == WireInit /\ SinkInit

\* A well-made request with any image and metadata, or one that is refused for
\* its form whatever it carries.
Client(r) ==
  \/ \E n \in SinkCounters, image \in Frames, sha \in Frames : Post(r, "good", n, image, sha)
  \/ \E form \in Forms \ {"good"} : Post(r, form, 0, None, None)
  \/ ReadAnswer(r)
  \/ GiveUp(r)

ClientNext ==
  \/ \E r \in Requests : Client(r) /\ UNCHANGED sinkVars
  \/ SinkStep

ClientSpec == ClientInit /\ [][ClientNext]_clientVars

-----------------------------------------------------------------------------
\* A 200 is a promise kept for good: the frame it answered, image and json,
\* stays what it was through every later request for the same counter, every
\* failed write and every restart.
StoredForGood ==
  \A a \in acknowledged : a[3] = 200 =>
    frameJpg[a[1]] = a[2] /\ frameJson[a[1]] = a[2]

\* The file never runs ahead of memory, so a restart can only forget, and what
\* it forgets was never answered 200.
ForgetsOnlyUnanswered ==
  /\ lastSeenFile <= lastSeen
  /\ \A a \in acknowledged : a[3] = 200 => a[1] <= lastSeenFile

\* While the sink runs it never goes back on a counter, however its threads
\* interleave and whatever writes fail.
SeenNeverForgotten ==
  [][sinkSpent'.restarts = sinkSpent.restarts => lastSeen' >= lastSeen]_clientVars
=============================================================================
