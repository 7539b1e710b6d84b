# The Bead Reserve in TLA+

A verification development kept beside the Bead Reserve: the reserve token
(`contract/`), the Fault-Cam's on-device pipeline (`camera/`), its backends (the
reference sink in `camera/src/sink.py` and the Worker in `service/`), the page that
shows and checks the frames (`site/`), the Chief Reserve Officer's remarks with the
bench that tries them out (`camera/src/cro.py`, `cro-bench/`), and the commands that
put the signing key and the models on disk. Paths below are relative to the
repository's root.

## 1. Inventory

| Part | State it keeps | Operations | What is hard | What makes it correct |
|---|---|---|---|---|
| Token, `contract/src/Beadz.sol` | ERC-20 ledger, `hasClaimed`, `dripAnchor`, `_claimCounter`, `redemptionDeadline`, `vaultKeeper`, `attestedBeads` | `claim`, `surrender`, `redeem`, transfers; keeper: `attestBeadCount`, `setRedemptionDeadline`, `transferVaultKeeper` | boundaries in time (interval, cap, window), long sequences of legal calls, a permanent freeze | the faucet's rate and burst, one bead per open door, the supply ratchet, a deadline that only widens |
| State directory, `camera/src/queue.py`, `fsio.py`, `lock.py`, `status.py` | `counter`, `queue/`, `archive/`, `status.json`, the flock | `next_counter`, `enqueue`, `pending`, `archive`, `seed_counter` | a process killed between any two file operations; two processes on one directory | no half-frame, nothing lost, no counter twice |
| `capture-once`, `push-drain`, `camera/src/cli.py`, `push.py` | one-shot processes | take a frame and enqueue it; push oldest first and archive on 2xx or 409 | lost acknowledgements, timeouts, retries, failures in the middle of a batch | archived means stored; order is kept; the drain always catches up |
| Reference sink, `camera/src/sink.py` | `frames/`, `last_seen` in memory and in a file | threaded `POST /api/ingest`, restart | concurrent handlers, failed writes, restarts | a 200 is kept for good; a counter is accepted once |
| Worker, `service/src/ingest.ts`, `reserve.ts` | R2 frames, KV `latest` and `last_seen` | ingest; `/api/reserve`, `/api/frame/<n>` | no lock, await points, stale KV reads, handlers that outlive their client or die | what is named is stored; a numbered frame never changes; `latest` advances |
| `service/conformance/run.py` | none | posts five scenarios at a Worker | its counters share `last_seen` with the camera's | what it does to the camera it runs beside |
| Page, `site/src/scripts/camera-monitor.ts`, `attestation-record.ts` | reading painted, verdict, `checkedKey` | poll, render, check, recheck, destroy | polls and checks that finish out of order | the verdict painted is about the reading painted; the page catches up |
| CRO, `camera/src/cro.py`, `llama_server.py`, `cro_flavor.py` | a child server on port 8099 | spawn, health poll, ask, stop | a server that outlives its capture; a shared port | never load-bearing; no server left behind |
| Bench, `cro-bench/src/cli.py`, `results.py`, `server.py`, `mood_rotation.py` | a child server of its own or a warm one, the counts, `results.jsonl` | sweep images x variants, best-of remark, audit, `run_end`, exit code; a rotation of moods | interrupts and failed writes between a count and its record; a port shared with the captures | the file adds up however the run ends; the exit code tells it; no server left behind |
| `keygen`, `camera/src/sign.py` | `ed25519.key`, `ed25519.pub` | create once, export the sidecar | overlapping runs, a death between create and write | one identity, ever |
| `fetch-models`, `cro-bench/src/fetch.py` | the model file, its `.part` | download, hash, rename | overlapping downloads in one `.part`; what a dead run leaves | a fetched model is the pinned one |
| Other | | | | `capture.py`, `process.py`, `config.py`, `service/src/crypto.ts` (pure I/O, configuration, cryptography); `contract/script/`, `camera/systemd/`, `camera/scripts/` (operator scripts); site pages, brand, `whitepaper/` (static) |

How they interact. The two timers start `capture-once` and `push-drain`, which share
the state directory under one file lock. `push-drain` posts each queued frame to a
backend over HTTP, one at a time, and reads the status; the backend shares nothing
with the device. The page polls `/api/reserve`, a DOM event carries the reading from
the monitor to the attestation record, and the record fetches the frame the reading
names. `capture-once` asks its remark from a llama-server that it starts on a fixed port, and so
does the bench, by default on the same port. `keygen` and `fetch-models` are run by hand, before
or beside all of this, and take no lock. The token shares no state with any of them: attestations reach it by hand.

## 2. Modules

```
TokenBucket   <- implemented by -   Beadz  <-  BeadzWatch  <-  BeadzProofs (TLAPS)

Wire  <-  Camera        -+-  Pipeline  - implements ->  Delivery
      <-  IngestSink    -+
      <-  IngestSink  <-  SinkClients  <-  MCSinkClients
      <-  Camera, IngestWorker  <-  PipelineWorker  <-  Conformance

Pipeline  <-  MCPipeline

Camera                        <-  CameraProofs          (TLAPS)
SinkClients                   <-  SinkClientsProofs     (TLAPS)
Pipeline, CameraProofs, SinkClientsProofs
                              <-  PipelineProofs        (TLAPS)
PipelineWorker, CameraProofs  <-  PipelineWorkerProofs  (TLAPS)

LlamaServer  <-  Cro    -+-  SharedPort  <-  SharedPortProofs (TLAPS)
             <-  Bench  -+

Setup  <-  MCSetup
       <-  SetupProofs (TLAPS)

Site   <-  SiteProofs (TLAPS)
```
(`A <- B`: B extends A.)

* **`Beadz`**: one action per external function that changes state; a revert is a step
  that is not taken. `Tick` is the clock; any number of calls share a timestamp.
  Amounts are in wei with `UNIT` wei to the bead, so dust exists. `netDraw` and
  `redeemedBeads` are history. `acknowledgeRedemption` and `attestReserveRecord` only
  emit events; `lastAttestation` is written with `attestedBeads` and read by nothing.
  `uint256` wrap-around is out of reach of supplies of 47,318e18 and is left out; checked
  subtractions appear as guards.
* **`TokenBucket`**: what the faucet promises with no calendar in it: credit drips in up
  to a capacity and a bead costs an interval of it.
* **`BeadzWatch`**: `Beadz` beside an observer with a stopwatch.
* **`Wire`**: the requests between a client and a backend. A slot lives until its answer
  is read or forgotten; `GiveUp` covers a lost request, a lost answer, and a backend that
  is still working for a client that left. A frame is the number of its capture; its
  image and its sha256 are that number when they belong together, so the hash and
  signature checks are one comparison (`Signed`).
* **`Camera`**: the state directory and the processes. Every file operation of
  `next_counter`, `enqueue` and `archive` is its own action, because a process can be
  killed between two. `Scan` (one `pending()` call) is a single step: its operations are
  on different frames, each is idempotent and runs again at the next scan, and all run
  under the lock. `NoPicture`, `CaptureRaises` and `DrainRaises` are the exceptions, `CaptureFails` and
  `DrainFails` the handlers that record them, `KillCapture` and `KillDrain` the end of a
  process at any point; the kernel drops its lock. `LoseCounter` and `SeedCounter` are the
  documented recovery by an operator. What the device promises whichever backend it has
  (`NoHalfFrame`, `NothingLost`, `CounterNeverReused`, `NeverPoisoned`) is stated here.
* **`IngestSink`**: `handle_ingest` from the checks before the lock to the three writes
  under it. `WriteFails` is the 500 of `do_POST`; `RestartSink` reloads `last_seen`;
  `MaybeTorn` is a jpg cut short, because `write_bytes` is not atomic.
* **`SinkClients`**: the sink facing clients that post anything.
* **`IngestWorker`**: `handleIngest` with one action per await. `visible` holds the values
  of a KV key that a read may still return; `Propagate` forgets the old ones.
* **`Pipeline`**, **`PipelineWorker`**: the camera with each backend, which can hold a frame for every
  counter the camera can reach (`PipelineAssumption`; a counter is any positive integer to both).
* **`Delivery`**: what camera and backend promise together: a log, stored in order without
  gaps, forgotten by the device only when stored.
* **`Conformance`**: `run.py`'s posts beside the camera, on one Worker.
* **`LlamaServer`**: the life of a llama-server and of the job that started it, which
  `camera/src/llama_server.py` and `cro-bench/src/server.py` share. A child may fail to load, exit,
  hang or ignore SIGTERM at any time, and only one of them has the port. `Polls` takes the two
  steps of the loop of `wait_healthy`, `proc.poll()` and `GET /health`, one at a time: a child that
  could not bind may still be alive when another server answers. `Interrupted` is a
  `KeyboardInterrupt` that the handlers see; `CutShort` runs no handler: a SIGKILL or SIGTERM, a
  second interrupt during the clean-up, or one in the instant between `Popen` and the `try`.
  systemd then ends the child with its capture, a shell does not, and both can happen. `strangers`
  and `met` are history: whose servers answered a job, and which jobs it overlapped.
* **`Cro`**: `audit()`: its grammar-constrained questions, then its tries at the remark.
* **`Bench`**: the commands of the bench. `Emit` is what every step of a sweep ends in: it has
  counted its outcome and writes its records, and an interrupt or a failed write can break it off
  before any of them. `Finally` and `Leave` are the `finally` clause: `stop_server`, then `run_end`
  from the counts, then the exit code. A "warm" command uses a server that runs already and stops
  none. `BannerFails` is the one place of `mood_rotation.py` that no clause covers.
* **`SharedPort`**: captures and commands of the bench on one machine and one port.
* **`Setup`**: `keygen` and `fetch-models`, one action per file operation, any number of
  either at once. A key is named by the run that made it, and files are inodes: a rename moves
  whatever its name stands for at that moment, while a download goes on writing into the inode it
  opened. `UseKey` is a capture that signs or a sink that is started.
* **`Site`**: monitor and record. A reading is its counter and whether it is dark, which is
  what `checkedKey` tells apart. The Worker answers `/api/reserve` and `/api/frame/latest` each from
  a read of its own of the KV key `latest`, which may be behind (`Reads`, `Propagate`). `checkReserve`
  is one action per answer it awaits: the frame by its counter (`NamedFetched`) or, where the reading
  names none, `/api/frame/latest` (`LatestFetched`), then the record again when the hash differs. A
  frame's hash is its counter, or another number when it is `Spoiled`; "invalid" stands for
  "incomplete" and "unsupported" too. `met` and `behind` are history.

Operators introduced by a comment "Mutant" are altered forms of the definition that
follows them; each breaks a property, and none is part of a specification.

## 3. Runs

Run from this directory: `tlc -config <run>.cfg <Module>`.

| Run | Module | Shows | Bounds, and why they suffice |
|---|---|---|---|
| `beadz` | `BeadzWatch` | types, rate, burst, view and gate, net draw, ledger, ratchet, deadline, freeze, refinement of `TokenBucket` | 2 holders (treasury and keeper, who can swap the role), 3 beads of 2 wei, interval 2, cap 2, window 2, seven seconds: idle time beyond a full bucket, the pile's last bead, dust, a window that lapses and is reopened all happen; every holder acts alike and the theorems cover any number |
| `sink_clients` | `MCSinkClients` | a 200 is for good, only what was never answered 200 is forgotten, no going back | 2 overlapping requests, 2 counters, 2 images and hashes in every combination, one failed write, one restart; slots are interchangeable |
| `pipeline` | `MCPipeline` | no half-frame, nothing lost, archived is stored, never a 400, no gaps, depth, refinement of `Delivery` | 2 capture processes, 2 request slots (both interchangeable), 2 frames, 3 counters (one can be burnt by a kill), batch of 1, one each of kill, failed file operation, timeout, sink restart, failed sink write |
| `pipeline_recovery` | `Pipeline` | no counter reused after a re-seed; everything ends archived | 2 frames, counter lost once, seeds up to 2, a kill, a timeout, a restart |
| `worker` | `PipelineWorker` | what is served exists in R2 and never changes; only an abandoned handler sets `latest` back | stale KV reads, 2 request slots (an abandoned handler and its retry), a kill, a fault, a timeout, a dying handler, batches of 2 |
| `site` | `Site` | the verdict is about the reading shown and, but for stale reads behind `/api/frame/latest`, true of its frame; no reading is left unchecked; the page catches up | 2 overlapping polls, 2 overlapping checks, 3 frames, the first of which may age and the second has wrong bytes, so that a sound frame can meet an older and a newer one; reads that are up to 3 frames behind; one failed fetch of a poll or a check |
| `shared_port` | `SharedPort` | a job that ends, by itself or interrupted, leaves no server; answers come from a foreign server only when the jobs overlapped or the other was cut short; every job comes back; the results file agrees with itself and with the exit code | 1 capture and 1 command of any of the three kinds, one after the other or overlapping, 1 question, 2 tries, 2 images, 1 variant, each job once; which of two jobs has the port is all that a third would change, and the theorems cover any number |
| `setup` | `MCSetup` | one key is ever used; who published the model had verified its download, and the file is the pinned one unless that download overlapped another; exit code 0 means done, but for a fetch that overlapped another | 3 interchangeable runs, each `keygen` or `fetch-models`, 2 chunks: three keygens, or a download between two that overlap or break off |
| `pipeline_replay` | `Pipeline` | **violated**: a counter answered 409 is accepted again | one frame |
| `pipeline_readme` | `Pipeline` | **violated**: re-seeding by the documented rule reuses a counter | the operator looks at the backend only |
| `worker_regress` | `PipelineWorker` | **violated**: `latest` goes back with KV reads that are never stale | one timeout |
| `conformance_deployed` | `Conformance` | **violated**: after the script ran on the deployed Worker, frames are archived that R2 never held | no failure at all |

Deadlock is not checked: clocks, frames and failures are bounded, so every instance stops,
and the real one-shots and the contract may rest as well.

Bounds that exist only for TLC: `MaxNow`, `MaxDeadline`, `Recounts` in `Beadz`;
`MaxFrames`, `MaxCounter`, `MaxKills`, `MaxFaults`, `MaxTimeouts`, `MaxCorruptions`,
`MaxSeed` in `Camera`; `MaxRestarts`, `MaxSinkFaults` in `IngestSink`; `MaxDeaths` in
`IngestWorker`; `MaxCounter`, `MaxAged`, `MaxFailures` in `Site`. `SharedPort` and `Setup` need
none: each job and each run happens once.

### What the violated runs say

1. `pipeline_readme`. `camera/README.md` and `cli.py` ask that a re-seeded counter exceed
   what the backend has seen. With frames still queued such a value can lie below their
   counters; `next_counter` hands one of them out again and `enqueue` overwrites the
   queued frame. `pipeline_recovery` shows the rule that works: above the queue as well.
2. `conformance_deployed`. `service/README.md` has the conformance script run against the
   deployed Worker. Its counters start at the current time, so `last_seen` ends far above
   the camera's, whose pushes are answered 409 from then on; `push.py` takes a 409 as an
   acknowledgement and archives.
3. `worker_regress`. The README puts the weakness of the counter check down to KV's
   eventual consistency. The handler's read and its puts are not tied together either, so
   a request abandoned at the client's ten-second timeout can finish after its retry and
   after the next frame, and set `latest` and `last_seen` back.
4. `pipeline_replay`. The sink raises `last_seen` in memory before it writes the file. If
   that write fails, the retry is answered 409 (and archived), and a restart goes back to
   the file: the counter is let through again. The frame itself is stored by then, so
   nothing is lost (`ArchivedIsStored` holds in `pipeline`).

### Fairness

* `Pipeline` (`FairSpec`): a started process runs on (weak fairness on its own next step); a
  process that waits for the flock gets it in the end, which needs strong fairness because
  the lock is taken and dropped forever by others; `push-drain` starts again (its timer);
  a handler of the sink goes on. Nothing has to capture, fail, die or seed.
* `Site` (`FairSpec`): the page polls again as long as it is mounted (`setInterval`); a fetch
  is answered and a check goes on. `Render` is strongly fair because
  a check slot, a device of the model, may be taken. `Propagate` is fair: KV is eventually
  consistent (`service/README.md`), and without it a page could be given an old reading for ever.

* `SharedPort` (`FairSpec`): a capture and a command of the bench run on: weak fairness on all that they
  do by themselves except another turn of the polling loop, which says that its deadline comes, as
  `time.monotonic` sees to. Requests and waits are bounded by timeouts, so their failure is always
  a next step. Nothing is asked of the servers, which may hang for ever, and nobody has to interrupt.

## 4. Proofs

Every safety property that a passing run checks is also a theorem, for every value of the constants;
what is left to TLC alone is liveness. Each proof module begins with the parts of its inductive
invariant, then the facts about data they rest on, one lemma per action, and at its end the theorems.
The invariants are restricted by no bound of a run; where a theorem has a hypothesis on the constants
it is named here, with what fails without it.

### The contract

`BeadzProofs`: for every supply, airdrop, unit, interval, cap, window,
finite set of holders and recounts (assumptions `AddressesAssumption`, `AmountsAssumption`,
`TimesAssumption` of `Beadz`):

* `TypeCorrect`, `DripRate`, `NoBurst`, `NetDraw`, `DeadlineOnlyWidens`, `Ratchet`, `Frozen`:
  the properties of the run `beadz` of the same subject;
* `ViewIsGate` (`ViewAgreesWithGate`), `ClaimLowersView` (`ClaimTakesOneBead`): what the views say of the
  gate, and what a claim does to them;
* `Ledger` (`LedgerBalanced`): the balances add up to the supply, and the supply to what was minted and
  not redeemed;
* `Refinement`: `Spec => FaucetIsTokenBucket`.

The argument. `DripNeverOutrunsClock` is inductive once types are known, because
`AdvancedAnchor` raises the anchor by at least one interval (`AdvancedAnchorBounds`) and
never past the present. `BurstBounded` is not inductive:
the claims of a burst are paid from credit saved up before it, which the bound does not see.
The strengthening `WatchInv` adds the credit the faucet still holds to what the stopwatch
counted: the sum never exceeds one full bucket plus the time elapsed, a claim moves one
interval from one term to the other (`OneMoreInterval`), and a tick adds at most one to each
side. `NetDrawBounded` is
inductive by itself: a surrender lowers the draw by what it returns, and reopens the door only
for a whole bead. The refinement maps credit to
`Lesser(now - dripAnchor, FullFaucet)`; `FaucetStep` shows that each step of the contract
drips, dispenses or stutters. The views rest on division (`Quotients`, `QuotientOfMultiple`,
`QuotientBelow`, `QuotientAbove`): the view is a quotient, the gate a comparison. The history variables
and the stopwatch are read by no action.

`LedgerBalanced` has a sum over all addresses, which `SumFunction` defines by recursion. What a recursion
computes needs an induction over data, and the library's induction theorems take an operator that no installed prover
instantiates. `WFMin` takes a set instead: of the subsets that a statement is false for, one has none
of them inside it (`SmallestSubset`). That yields the recursion's solution (`SumsUpTo`, `SumsRecur`) and the
two facts the ledger needs, `SumOfZeros` and `SumOfChange`: to add to one balance is to add to the sum.
A transfer is then two changes that cancel, a burn one, and the constructor two from zero.

`ViewIsGate` has the hypothesis `GENESIS_TIME >= FullFaucet`. `claim()` computes
`block.timestamp - DRIP_CAP * DRIP_INTERVAL` with checked subtraction, so on a chain younger than one full
faucet it reverts while `claimableBeads()` is positive: with the contract's constants that is a chain
on its first day of Unix time.

### The sink

`SinkClientsProofs`, for any overlapping requests, counters and images, and any number of failed writes
and restarts: `Kept` (`StoredForGood`), `Remembered` (`ForgetsOnlyUnanswered`), `NeverBack`
(`SeenNeverForgotten`).

The argument. `ClientInv`: the request being served is the one that holds the lock (`OneServed`), and
`HolderWrites` says how far it has come: until it has written both files its counter lies above
`last_seen`, so it overwrites nothing that was answered 200; after each write the file is its own; once
`last_seen` is raised both files are. A 200 is given when `last_seen` has reached the file too, so a restart
cannot set it back below one.

### The camera and the sink

`CameraProofs` proves, for a camera beside any backend that answers a request or forgets it, that every
step of either keeps `CameraInv` (`CameraStepKeepsInv`, `BackendKeepsCamera`). `PipelineProofs` adds the sink and
concludes, for any captures, requests, kills, failed operations, timeouts and restarts:
`WholeFrames` (`NoHalfFrame`), `Preserved` (`NothingLost`), `CountersUnique` (`CounterNeverReused`),
`HeadNeverBlocked` (`NeverPoisoned`), `SafelyArchived` (`ArchivedIsStored`), `OldestFirst` (`NoGaps`),
`DepthIsTrue` (`DepthReported`), and `Delivers`: `Spec => InOrderDelivery`, the refinement of `Delivery`. `CameraAsClient`
shows that the camera is one of the clients of `SinkClients`, so `ClientInv` holds here without being proved
again.

The argument. `CameraInv` begins with lock discipline (`OneAtWork`): the files are one process's at a time,
and what that process has done so far tells them apart from a rest state (`CaptureInv`, `DrainInv`,
`DepthInv`). A counter is fresh because it lies above every committed one and at most at the counter file.
A request carries a committed frame whose elders are all archived (`RequestInv`), whether or not the drain still
waits for it. `StoreInv` relates the two sides. The heart of `ArchivedIsStored` is that a 409 is an
acknowledgement: `SeenIsStored` says that whatever `last_seen` claims to have seen is stored, which holds
because frames come oldest first and the only request that can raise it is stored by then. `NoLateWrite`
covers a request given up on that the sink serves after its retry was acknowledged: it will be answered
409. `Delivers` maps the three logs to the cardinalities of three sets of counters, each of which a step
leaves alone or extends by the next element.

The hypothesis `Recoverable`: the counter file is never lost; or its operator looks at the queue and the sink
loses no write of `last_seen`. Without the first half of the alternative `pipeline_readme` is a
counterexample. Without the second, a frame can be archived on a 409 whose `last_seen` never reached the file
(`pipeline_replay`); after a restart the sink has forgotten it, the queue is empty, and the seed that exceeds both may
lie below the archived counter. The runs `pipeline` and `pipeline_recovery` satisfy it, the first by
the first alternative and the second by the other.

### The camera and the Worker

`PipelineWorkerProofs`, however stale the reads of KV, for any overlapping and dying handlers:
`FramesBehindReadings` (`ReadingHasItsFrame`), `SafelyInR2` (`ArchivedIsInR2`), `OldestFirstInR2` (`NoGapsInR2`),
`FramesImmutable` and `OnlyAbandonedSetBack`, the action properties of the run `worker`.

The argument. `CameraInv` as before. There is no lock and nothing grows: `last_seen` and
`latest` may go back. What does hold is said of every copy a read may return: each frame a copy of `last_seen` says was seen is in R2 (`SeenIsInR2`),
and each copy of `latest` names a frame in R2 (`LatestIsInR2`). So a 409 given on the strength of the stalest
copy is still an acknowledgement of a stored frame. Two handlers can write one frame twice, but it is the
same frame, since a counter has one (`FramesImmutable`).

The hypothesis is `MaxCorruptions = 0`. Because `last_seen` may go back, a value above what
the Worker reports need not exceed what was archived, and no rule about the queue makes up for that.

### The page

`SiteProofs`, for any overlapping polls and checks and any frames, any of them spoiled: `Painted` (`VerdictOfShown`), `Rechecked`
(`NeverStuck`), `Truthful` (`VerdictIsTrue`).

The argument. `PageInv`: a key in `checkedKey` is that of the reading shown (`KeyIsShown`), which is what makes
the comparison after each `await` sufficient; a reading that is not dark names a frame the Worker has had
(`AllNamed`); a mismatch waits for its confirmation only when the frame is spoiled, or was compared with one that
`/api/frame/latest` took from a read that was behind, or the Worker has moved on (`ChecksRun`). In the last
case the record that confirms it must be an old one too, because the Worker never comes back to a counter.

The exception in `VerdictIsTrue` is what the code does. `attestation.ts` (the comment on `stillNames`, and the
test comment on the recheck) confirms a mismatch against a fresh record because the record can name frame N+1
while `/latest` still serves N, and says that a record which still names the same hash makes the mismatch real. In
that very case the fresh record does still name N+1, so a sound frame is painted "mismatch"; likewise when
`/latest` is ahead and the fresh record is read from behind. Without the exception TLC finds both within eight
steps. It takes a reading whose `frameUrl` `frameSrc` refuses, which `handleReserve` does not produce beside a counter
today; a frame fetched by its counter is never wrongly called a mismatch, and `PageCatchesUp` says that
the wrong verdict does not stand.

### The shared port and the bench

`SharedPortProofs`, for any number of captures, commands, images, variants, questions and tries
(`JobsAssumption`: captures and commands are different, and nobody is a job; `SweepAssumption` and
`AskAssumption`: there is at least one of each thing to sweep over and to ask):

* `Reaping`: `Spec => []NoServerLeftBehind`;
* `Attribution`: `Spec => []AnswersAreItsOwn`;
* `RunsAreRecorded`: `Spec => []ResultsTellTheRun`;
* `ExitsAreTrue`: `Spec => []ExitTellsTheRun`.

The argument for the port. `Effect` tells what one step of a job does to the port, its server and its place, and
forgets the sweep; one lemma per action of `Cro` and `Bench` shows that the action is such a step. Over
these, `PortInv` is inductive. `Reaped` strengthens `NoServerLeftBehind`: a job has a child only from
`Popen` to the end of its clean-up, and a warm command never has one, or the short way from its questions
to the end would leave one behind. `Attribution` needs `Reaped` in turn: a server that answers is up, so
the job that started it runs or was cut short, and jobs that run at once have met (`Acquainted`).

The argument for the results. `BenchInv` says of each command what its file and its counts have in common at
its place. Before the sweep the file is empty. During it the records are those of exactly the steps done: one
`call` for each image and variant behind the sweep, in order, an `audit` for each variant that is complete
(`SweepAt`, `Asked`). After it the counts are those of the file but for the one record an interrupt or a failed write may have
swallowed (`Settled`). The proof goes in three layers: what one more record does to a file, what each
kind of step adds, and where that leaves the sweep.

This proof found a fault of the model: two guards of the `CASE` in `ExitCode` overlapped, for a write that failed after
a failed call, and TLA+ leaves open which branch such a `CASE` takes. The guards are now disjoint,
in the order of the code's `if` statements.

### Setup

`SetupProofs`, for any number of runs and chunks (`SetupAssumption`, `ChunksAssumption`):
`SetupTypes`, `Identity` (`OneIdentity`), `Download` (`FetchedIsPinned`) and `Done` (`ExitZeroMeansDone`).

The argument. For the key, `KeyInv`: only one run can ever be about to write the key, because O_EXCL lets
one create it and no step removes it; the key a run is about to export is the one in the file. For
the download, `FetchInv` says of a run that met no other what it may rely on: nobody else is in flight
(`Met`), the inode it writes is its own and is the one `.part` names (`Fresh`, `OwnPart`,
`PartIsNotModel`), so what it received is what the file holds, and once the digest was right the file is
the pinned model (`Checked`). `ModelAlone` says that only a run that overlapped the publisher still
writes into the model file. `PublisherChecked` holds with overlaps too: whoever published the model
had received the pinned one.

What is not promised: downloads that overlap share the `.part` file, and each checks what it received. One
of them can exit 0 with a torn model in place, and `FetchedIsPinned` and `ExitZeroMeansDone` say so: after an
overlap they claim only that the run itself received, or found, the pinned model. The next fetch that
meets no other finds the digest wrong and downloads it again.

### What is only model-checked

* Liveness under fairness: `EverythingArchived`, `PageCatchesUp`, `JobsComeBack`.
* The properties of the runs that are violated, which the code refutes.


## 5. Not modelled

Power loss that undoes completed writes (the code does not fsync), frame timestamps and
freshness arithmetic, message contents, cryptography, the routing table,
the enlarge dialog, and the parts marked *Other* above. Of the CRO and its bench: the texts, the junk rules and the
moods (an answer is junk or not), how a variant is loaded (it loads, or the command ends before it starts), the peak
memory in the records, a second `run` of the same `--run-name`, which appends to the same file, and a llama-server
that somebody started by hand for a warm command, other than as that of another job of the model. Of the setup: a
fetch without a pinned digest, which checks nothing, and the second file of a model, which is fetched like the
first. An empty key file, which a keygen leaves that dies between creating and writing it, fails every later
run until a person deletes it: the model reaches it and has no action for that person. A queued json that does not parse is
left out: no step of the code writes one, and the stall it causes is documented as intended.

## 6. Plan

1. Done: the contract; the camera with the sink and with the Worker; the
   conformance script; the page; the CRO, its bench and the port they share; `keygen`
   and `fetch-models`; and proofs for each of them but the conformance script, whose one run
   is a counterexample.
2. The enlarge dialog (`mountPopout`): the monitor is never stranded in a closed plate.
