---------------------------- MODULE Conformance ------------------------------
(***************************************************************************)
(* service/conformance/run.py posting its five scenarios at the Worker a   *)
(* camera is pushing to, as service/README.md's Deploy section has it.     *)
(* Its counters start at the current time in seconds, far above any        *)
(* counter of the camera, and it signs with the deployed keys.             *)
(***************************************************************************)
EXTENDS PipelineWorker

CONSTANT Base   \* int(time.time()) when the script starts: at least MaxCounter,
                \* with Base + 1 to Base + 6 among WorkerCounters

VARIABLE script   \* the script's next scenario, and the slot it waits on

TestImage == MaxFrames + 1   \* b"jpegbytes"
WrongSha == None             \* "ab" * 32

Scenario(i, form, sha, expect) ==
  [counter |-> Base + i, form |-> form, sha |-> sha, expect |-> expect]

Scenarios ==
  <<Scenario(1, "good", TestImage, 200), Scenario(2, "good", TestImage, 200),
    Scenario(3, "good", TestImage, 200), Scenario(2, "good", TestImage, 409),
    Scenario(4, "good", WrongSha, 400), Scenario(5, "badMac", TestImage, 401),
    Scenario(6, "badProtocol", TestImage, 400)>>

ConformanceInit == Init /\ script = [next |-> 1, request |-> Nobody, passed |-> TRUE]

PostScenario(r) ==
  /\ script.next <= 7 /\ script.request = Nobody
  /\ LET s == Scenarios[script.next] IN Post(r, s.form, s.counter, TestImage, s.sha)
  /\ script' = [script EXCEPT !.request = r]
  /\ UNCHANGED <<cameraVars, workerVars>>

\* all(...) stops the happy path at its first unexpected status.
CheckAnswer ==
  LET ok == wire[script.request].status = Scenarios[script.next].expect
  IN /\ script.request # Nobody
     /\ ReadAnswer(script.request)
     /\ script' = [next |-> IF ~ok /\ script.next <= 3 THEN 4 ELSE script.next + 1,
                   request |-> Nobody, passed |-> script.passed /\ ok]
     /\ UNCHANGED <<cameraVars, workerVars>>

ConformanceNext ==
  \/ Next /\ UNCHANGED script
  \/ \E r \in Requests : PostScenario(r)
  \/ CheckAnswer

ConformanceSpec == ConformanceInit /\ [][ConformanceNext]_<<vars, script>>

=============================================================================
