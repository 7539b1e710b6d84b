------------------------------ MODULE Pipeline -------------------------------
(***************************************************************************)
(* The camera pushing to the reference sink: captures, drain, network and  *)
(* the sink's threads, each of which can die or fail between any two steps.*)
(***************************************************************************)
EXTENDS Camera, IngestSink

ASSUME PipelineAssumption == Counters \subseteq SinkCounters

vars == <<wire, cameraVars, sinkVars>>

Init == WireInit /\ CameraInit /\ SinkInit

\* The highest counter the sink has accepted, as its operator reads it.
Next ==
  \/ CameraStep(lastSeen) /\ UNCHANGED sinkVars
  \/ SinkStep /\ UNCHANGED cameraVars

Spec == Init /\ [][Next]_vars

\* A started process runs on, the drain's timer keeps firing, the kernel wakes
\* a process that waits for the lock, and the sink serves what reaches it.
\* Nothing obliges anyone to take a picture, to fail or to be killed.
Fairness ==
  /\ \A p \in Captures :
       /\ WF_vars((NextCounter(p) \/ EnqueueJpg(p) \/ EnqueueJson(p) \/ CaptureDone(p))
                    /\ UNCHANGED <<wire, sinkVars>>)
       /\ WF_vars(capture[p].at = "count" /\ CaptureRaises(p) /\ UNCHANGED <<wire, sinkVars>>)
       /\ SF_vars((CaptureLocks(p) \/ CaptureFails(p)) /\ UNCHANGED <<wire, sinkVars>>)
  /\ WF_vars((PushAnswered \/ ArchiveJpg \/ ArchiveJson \/ DrainReports
               \/ \E r \in Requests, n \in Counters : PushFrame(r, n)) /\ UNCHANGED sinkVars)
  /\ SF_vars((DrainLocks \/ DrainFails) /\ UNCHANGED sinkVars)
  /\ \A r \in Requests : WF_vars(HandlerStep(r) /\ UNCHANGED cameraVars)

FairSpec == Spec /\ Fairness

-----------------------------------------------------------------------------
\* The device stops pushing a frame only when the sink holds that very frame,
\* image and metadata, whatever answers were lost or late.
ArchivedIsStored ==
  \A n \in Counters : archiveJpg[n] # None =>
    frameJpg[n] = archiveJpg[n] /\ frameJson[n] = archiveJpg[n]

\* When a command exits 0 the queue depth it wrote to status.json is the
\* number of frames that a scan would find pending.
DepthReported ==
  [][DrainReports \/ (\E p \in Captures : CaptureDone(p))
       => status'.depth = Cardinality(Pending)']_vars

\* A counter the sink has answered 200 or 409 is never let through again, by
\* this process or the next.
ReplayHoleClosed ==
  [][\A r \in Requests : holder' = r /\ holder # r
       => \A a \in acknowledged : a[1] # wire[r].counter]_vars

\* The whole pipeline implements the abstract log.
DeliveredLog == INSTANCE Delivery WITH
  logged <- Cardinality(committed),
  stored <- Cardinality({n \in SinkCounters : frameJson[n] # None}),
  archived <- Cardinality({n \in Counters : archiveJpg[n] # None})

\* Frames reach the sink one by one from the log and leave the device only
\* after they are stored, through every crash, retry and repeated answer.
InOrderDelivery == DeliveredLog!DeliverySpec

\* The frames stored are always the oldest ones: a frame is never stored while
\* an older committed frame is missing.
NoGaps ==
  \A c \in committed : frameJson[c[1]] # None =>
    \A d \in committed : d[1] < c[1] => frameJson[d[1]] = d[2]

\* However often failures strike, the drain catches up once they stop: every
\* frame committed so far comes to be archived, with its json beside it.
EverythingArchived ==
  []<>(\A c \in committed : archiveJpg[c[1]] = c[2] /\ archiveJson[c[1]] = c[2])
=============================================================================
