--------------------------- MODULE PipelineWorker ----------------------------
(***************************************************************************)
(* The camera pushing to the deployed Worker, and what viewers are served. *)
(***************************************************************************)
EXTENDS Camera, IngestWorker

ASSUME PipelineAssumption == Counters \subseteq WorkerCounters

vars == <<wire, cameraVars, workerVars>>

Init == WireInit /\ CameraInit /\ WorkerInit

Next ==
  \/ CameraStep(lastSeen) /\ UNCHANGED workerVars
  \/ WorkerStep /\ UNCHANGED cameraVars

Spec == Init /\ [][Next]_vars

-----------------------------------------------------------------------------
\* Whatever stale copy of latest a viewer is given, the frame its counter
\* names is stored and is the one its sha256 was taken from.
ReadingHasItsFrame ==
  \A reading \in Readings : FrameByCounter(reading.counter) = reading.sha

\* A numbered frame never changes, so caching it forever is sound: retries,
\* overlapping handlers and stale counters only ever rewrite the same bytes.
NumberedFrameNeverChanges ==
  [][\A n \in WorkerCounters : r2[n] # None => r2'[n] = r2[n]]_vars

\* The device stops pushing a frame only when R2 holds it.
ArchivedIsInR2 ==
  \A n \in Counters : archiveJpg[n] # None => r2[n] = archiveJpg[n]

\* R2 never skips a frame: an older committed frame is stored before a newer one.
NoGapsInR2 ==
  \A c, d \in committed : c[1] < d[1] /\ r2[d[1]] # None => r2[c[1]] = c[2]

\* The reading served and the replay guard never go back to an older frame.
LatestNeverRegresses ==
  [][latest'.counter >= latest.counter /\ lastSeen' >= lastSeen]_vars

\* Only a handler whose client has given up can set the reading served or the
\* replay guard back: answered one by one, however stale the KV reads and
\* whichever handlers die, they only advance.
OnlyAbandonedRegress ==
  [][latest'.counter < latest.counter \/ lastSeen' < lastSeen
       => \E r \in Requests : at'[r] # at[r] /\ ~wire[r].awaited]_vars
=============================================================================
