# MeshTrainer: verification project

TLA+ models of MeshTrainer (distributed LoRA training: workers train shards, a coordinator
averages their adapters), TLC runs over small instances of them, and TLAPS proofs of the results
that matter most. Paths are relative to `src/`.

1. [The system](#1-the-system)
2. [Modules](#2-modules-and-how-they-correspond-to-the-code)
3. [Runs](#3-runs) and their bounds
4. [Fairness](#4-fairness)
5. [Proofs](#5-what-is-proved)
6. [Disagreements found](#6-disagreements-between-code-and-documents)
7. [Not modelled](#7-what-is-not-modelled)
8. [Plan](#8-plan)

## 1. The system

### 1.1 Components

| Component | State | Operations | Correct when |
|---|---|---|---|
| **Lease manager** `rc5_4_leases.py` | SQLite table `leases_r54`, partial unique index on the ACTIVE lease of a unit | acquire, renew, release, status (expires what is overdue), expire, abort | a unit has one live lease; ended leases stay ended; a released unit is never leased again; nobody loses a lease before its TTL |
| **Recovery journal** same file, `rc5_4_integration.py` | `recovery_journal`: phases of a unit | journal_set, journal_get, the lease-gated pipeline | a recovered unit resumes from a phase it really reached |
| **Round coordinator** `model_round_coordinator.py` | `model_rounds`, `model_assignments`, `model_contributions` | create_round, create_assignment, assign, calibrate, upload, validate, activate, ready_to_close, fedavg | what is averaged is one valid, active contribution per assignment, of one baseline, weighted by its work |
| **Training server** `training_http_server.py` | the two above, `training_units`, stored responses (`idem_responses`), one lock, one SQLite connection | RPCs of workers, behind lease and idempotency; RPCs of the admin | every unit is applied once whatever is retried; a stored response is true |
| **Generic worker** `model_worker.py` | position in its sequence of requests, lease id, evidence file | register, calibrate, lease, open, train, submit, commit, upload, register, release | a relaunch resumes; a worker that ends well has delivered |
| **Backends** `backends/*.py`, `training_backend.py` | model weights; journal of applied examples | load, train_step, adapter bundle | an example is applied to an adapter once |
| **Job runner** `app/services/job_runner.py` | `_stop`, position in the rounds, its core server and workers, the job's row | run, rounds, checkpoints, SIGTERM | a cancelled job stops before the next activation; COMPLETED means every round was aggregated |
| **MeshTrainer service** `app/services/mesh_trainer_service.py` | `_runners`, the jobs rows | validate, start, cancel, reconcile | one runner trains a job; no job stays RUNNING when nothing runs |
| **Application database** `app/storage/db.py` | jobs, events, artifacts, metrics, datasets | one statement each, autocommit | - |
| **API, event stream** `app/api/main.py` | an SSE cursor per client | REST, `/events` | no event is skipped or sent twice |
| **Dataset service, registry, hardware** `app/services/` | files, configuration | import, validate, probes | - |
| **Web UI, CLI** `app/web`, `app/cli` | what the API returned | presentation; each CLI command is a service of its own | - |
| **RC3 task coordinator** `rc3_coordinator.py`, `rc3_state.py`, `rc3_worker_sim.py` | task table, housekeeping thread; a simulated worker's position | task.request, task.submit, recover, timeout, reassign | a task leaves a worker that is gone; a completed task keeps a checked output |
| **RC3 training runs** `rc3_train_state.py`, `rc3_worker_real.py`, `rc3_worker_sim.py` | training_runs, batches, batch_assignments; model, snapshot and delta cache of a worker | train.*, pause, resume, cancel, lease expiry | a batch in progress has one assignment; it is counted once, from its latest holder |
| **Browser worker** `browser-worker/src/` | state machine, flags, buttons, one or more main loops | start, cancel, pause, resume, register, request, run, submit | one task at a time; no task is lost with the page |
| **RC5.1 split training** `rc5_split_server.py`, `rc5_coordinator_ext.py` | units in memory | open, forward, backward, commit | - |
| **RC5.2 split protocol** `rc5_2_*.py` | units, idempotency table, server context, the worker's model | step.open ... step.commit, checkpoint.upload, abort | a step is committed once |
| **RC5.3 rounds** `rc5_3_multiworker.py` | rounds, models, calibrations, assignments, contributions, adapters | open, register, calibrate, assign, start, activate, ready_to_close, close | a closed round averages one contribution per assignment, from its parent's adapter |
| **RC5.4 lease-gated pipeline** `rc5_4_integration.py`, `rc5_4_restart_real.py` | RC5.2's state behind leases, the recovery journal | gated steps, phase_a, phase_b | a micro unit is contributed once; the journal tells the truth after a crash |
| **Qwen pilot**, **RC4 pipeline** | predecessors and drivers of the parts above | - | - |

### 1.2 How they interact

A user's request reaches a *MeshTrainer service* (the API server's, or a CLI command's own).
`start_job` launches a *job runner*, a child process, which runs the *training server* in a
thread and, per round, creates the round and its two assignments over the admin RPCs, launches
two *workers*, waits for them, and then validates, activates and averages their contributions.
A worker takes a *lease* on its unit and sends its sequence of requests; the server checks the
lease, replays a stored response or runs the method and stores the response. Everything that
survives a crash is in SQLite: the job's row (application database), the core database of the
job, and the worker's journal. The service and its CLI twins share only the row; the runner and
the service share the row and one signal.

The older generations share no state with this. The *RC3 coordinator* is one JSON-RPC server with
two jobs: tasks, for simulated workers and for the *browser worker*, and *training runs*, for
simulated and real training workers; a housekeeping thread expires leases of both beside it. An
*RC5.4* driver launches workers that take a lease, run a unit of the *RC5.2* step protocol under
it and deliver a receipt, which the *RC5.3* round coordinator activates, counts and averages; a
worker that died after its update is finished by another phase from the recovery journal.

### 1.3 What is hard

* Threads: `ThreadingHTTPServer` serves every request in a thread; only lease-gated requests
  take the lock. Admin requests and `lease.*` interleave with everything.
* Crashes: the server between a method's commit and the stored response; the worker anywhere,
  its request still queued; the runner and the service independently of each other.
* Time: leases run out while a request waits, is checked, or executes; the order of leases is
  read from the wall clock. A gate speaks of the moment it was asked, not of the commit behind it.
* Read, then write: every operation of the job's row is a SELECT followed by an unconditional
  UPDATE, from several processes.
* Retries: stored responses are keyed by method and unit, but compared by all parameters.
* One connection: all threads of the training server share it, and with it whatever transaction
  is open. A commit or rollback of one thread ends the transaction of another.
* Sections: `submit_delta` and `cancel_run` commit between their sections; the housekeeping thread,
  which takes the same lock for each section only, comes in between. What was checked in one
  section is used in the next.
* Two commits: the RC5.2 server commits a handler and then its stored answer; `round_open` inserts
  and then updates. A crash leaves the first without the second.
* Awaits: the browser's loops and messages share flags and a state machine across every `await`.

`PROJECT.json` lists each hazard at its line, with the properties aimed at it.

## 2. Modules and how they correspond to the code

| Module | What it is |
|---|---|
| `UnitOwnership` | abstract specification: units granted, lapsed, finished; implemented by `Leases`, `TrainingServer`, `BrowserWorker`, `TrainingRun`, `SplitPipeline` |
| `RoundAverage` | abstract specification: contributions chosen for the slots of a plan, rounds averaged; implemented by `RoundCoordinator` and `MultiWorkerRound` |
| `Leases` | `LeaseManager` |
| `LeasesProofs` | theorems about `Leases`, and about `UnitOwnership` itself |
| `RoundCoordinator` | `ModelRoundCoordinator` and the threads that run its admin requests |
| `RoundCoordinatorProofs` | theorems about `RoundCoordinator` |
| `TrainingServer` | the gated requests, their workers and crashes; composes `Leases` (instance `Lease`) |
| `TrainingServerProofs` | theorems about `TrainingServer`; takes those of `LeasesProofs` by instance |
| `SharedConnection` | threads of the training server on its one SQLite connection |
| `TrainingJournal` | the local training of a worker and the journal of its backend |
| `JobLifecycle` | one job: services, its row, its runners |
| `JobLifecycleProofs` | theorems about `JobLifecycle` |
| `TaskCoordinator` | RC3 tasks: table, handlers, housekeeping, simulated workers |
| `BrowserWorker` | the page and its loops; extends `TaskCoordinator` to the whole system |
| `BrowserWorkerProofs` | theorems about `BrowserWorker`, `TaskCoordinator` included |
| `TrainingRun` | one RC3 training run with its workers |
| `TrainingRunProofs` | theorems about `TrainingRun` |
| `MultiWorkerRound` | the rounds of RC5.3 |
| `MultiWorkerRoundProofs` | theorems about `MultiWorkerRound`, and about `RoundAverage` itself |
| `SplitPipeline` | RC5.4 pipeline: leases, RC5.2 steps, recovery journal |
| `SplitPipelineProofs` | theorems about `SplitPipeline` |
| `MC*` | instances for TLC (symmetry sets, functions for constants) |

In every module a name ending in `_Faulty...` is a plausible bug in the definition that follows
it; it takes no part in the specification.

### 2.1 Abstract specifications

`UnitOwnership` is what every lease, assignment and gate of this system is for. `held` and
`finished` are sets of pairs <<unit, owner>>: `Grant` gives a unit nobody holds and nobody finished,
`Lapse` takes units back, `Finish` is a holder's last act and is for good. Four generations of the
code promise it with different means: a lease table under a clock (`Leases`), a task's row
(`BrowserWorker`), a batch with attempts (`TrainingRun`), a gated pipeline (`SplitPipeline`). The
definition `OwnershipSpec` of each module is the abstract specification under its refinement
mapping.

`RoundAverage` is what closing a round is for. `plan` gives each round its slots, `chosen` the
contribution that counts for each slot, `spent` those that were replaced, `averages` what the rounds
were closed with. `Choose` may displace the slot's earlier contribution, which is spent; `Replan`
happens while slots are handed out; `Average` takes all that is chosen, and only when every slot of
the plan has its contribution. `AverageSpec` is the same for the two coordinators.

### 2.2 Leases

One variable per column of `leases_r54`, indexed by lease id, and the clock. One operation is
one `BEGIN IMMEDIATE` transaction and one action. An operation the code rejects rolls its
transaction back, the nested `_expire_overdue` too, and so changes nothing: it is no step.
`AfterExpiry` is what `_expire_overdue` makes of the table; `LastRows(u)` is the choice of
`ORDER BY issued_at DESC LIMIT 1`, a set because SQLite may return any of several rows with the
same time; `IndexAdmits` is the partial unique index. The nonce is known to the session that
acquired the lease alone, so "the right nonce" is "the holder". `TtlSpec` is the use the
training server makes of the manager (no expire, no abort, a clock that is not set back);
`Spec` is every operation under any clock. `MaxRevision` and `MaxTime` are bounds of `Renew`
and of the clock; the rest of the code has none.

### 2.3 RoundCoordinator

Rows are records or `None`. A thread (`pc`, `arg`) holds the admin request it is running, cut
where the code reads or writes: validate = SELECTs, then an UPDATE by `cid` alone; activate =
SELECT, superseding UPDATE, activating UPDATE; fedavg = quorum, baseline and homogeneity, then
a second read that is aggregated. Other threads see the UPDATEs in between, because all threads
share one connection. Calibration and upload are workers' requests and interleave with the admin
thread. The several SELECTs of `ready_to_close` are one step: workers' requests, the only ones
that run beside one admin request, change neither statuses of stored contributions nor plan,
worker or revision of an assignment, so the order of these reads cannot be told apart. A hash is
a model value; `base` has the two fields a round fixes and somebody compares, its base model and its
`adapter_0_sha` (`backend_id` is compared by a repeated `round.create` only). They are compared at
different places: `worker.calibrate` asks for both, of round and assignment (`Calibrate`); fedavg for
the base model of each assignment and for the adapter sent with its own request (`Homogeneous`,
`FedAvgHomogeneity`).
Nothing compares the adapter of an assignment that never calibrated, so `SameBaseline` speaks of base
model and `adapter_pre_hash`; `SameAdapter`, which asks for more, is false (`MCRoundsAdapters`).
`result` is what the last successful fedavg returned: contributions with weights, and the plan.
Transactions are taken as each thread's own; what sharing
them does is in `SharedConnection`.

### 2.4 TrainingServer

`queue` holds requests waiting for `TrainingProtocolHandler._lock`, `gate` the one being served
and how far: `CheckLease` with `Reject`, `Replay` or `Admit` (`_require_lease` and `_idem_get`),
then the method (`Open`, `Submit`, `Commit`, `Upload`, `Register`, `Release`, or `Fails` when it
raises), then `Store` (`_idem_put`) and the answer. Each stage commits; `ServerCrash` may come
between any two. `lease.acquire` and `lease.renew` take no lock and are one step at any time.
A worker is `pc`: the next request of `model_worker.main`. `Kill` may come anywhere, with the
request left in the queue or being served; `Launch` starts a new process which keeps the journal
and the evidence file and nothing else. A request carries its lease and a `body`, the parameters
that can differ between two sends (the loss of submit: the last example's when this process
trained, the journal's mean when everything was recovered; the receipt of upload and register).
The `sha` compared by `_gated` is both. A receipt id is a random uuid in the code, a count here.

### 2.5 JobLifecycle

The columns of the job's row that decide (`status`, `validation`, `runner_pid`,
`runner_identity`), one step per SELECT or UPDATE. A service is `down`, reconciling
(`list_running`, `list_starting`, `settle`) or `up`; `req` is the next step of each request it
serves; `child` is `_runners`. `start_job` is StartJob, possibly Revalidate, MarkReady and
Recheck, then SetStarting, Spawn, Record; `cancel_job` is CancelJob, SetCancelling, Signal (the
30 s wait that follows changes nothing). `Popen` and the assignment to `_runners` are one step:
between them there is no database access and no signal can be sent. A runner follows
`JobRunner.run`: install the handler, announce RUNNING, compare and claim the identity, start
the core server (one runner has the job's port), and per round the setup, the workers, and an
admin call after each checkpoint. A runner stands for its pid and its nonce, which are unique;
pids that the system reuses for other processes are covered by `Ours`, which demands both.
`planned` is what stays in the job's `core.db`: `assignment.create` fails for an assignment that
exists. Services and runners may die at any step.

### 2.6 SharedConnection

`tx`, `rows` and `durable` are the connection: is a transaction open, what does it see, what is
committed. A request is a thread (`pc`); a gated one holds `lock`. Its rows are named by the
request and the part that writes them: `check` (leases it expired), `work`, `response`. The steps
are the statements: `LookOuter` is `_Ctx.__init__` (reads `in_transaction`), `Enter` is
`__enter__` (BEGIN, which fails when somebody else began since), `Body` the statements of the
block, which may raise, `Exit` is COMMIT, ROLLBACK or, for a context that joined, nothing.
`Update`/`CommitUpdate` and `PutResponse`/`CommitResponse` are `_set_unit_state` and `_idem_put`,
whose `commit()` ends whatever is open. Which lease, unit or method is concerned plays no part.

### 2.7 TaskCoordinator and BrowserWorker

`state`, `assignee`, `left`, `output` are the columns of a task; `left` is what remains of the
lease. A process asks one thing at a time: `asked` is its request until `HTTPServer`, which is
sequential, serves it (`HandleRegister`, `HandleTaskRequest`, `HandleTaskSubmit`), `answer` the
reply until it is read. A process stands for the uuid the coordinator gave it. Housekeeping is
`TimeoutTasks` (all overdue rows, returned as a list) and then `Reassign` of each, in transactions
of their own; other requests come in between. `Crash` may find `timeout_tasks` half way through its
rows; `Restart` is with or without `--recover`. A hash is "good" (what the coordinator computes for
a task with an `input_hash`) or "bad". A submission carries a status and a hash or none: the output is
compared only when the status is "completed" and there is a hash (`Claims`, `Mismatch`), and what is
not compared completes the task as it was sent (`SubmitResult`). The clients of the repository,
`run_once` and the browser, always send both; a worker in `Custom` is one whose `submit_result()` is
called with other arguments.

In `BrowserWorker` a "start" message makes a loop; `loopPc` is the `await` a loop is in and an
action runs from one `await` to the next. `ui` holds the state that is shown and the enabled
buttons, because the buttons decide which messages can be sent; `Emit` is `transition` with
`updateButtons`, a refused transition included. All loops share `cancelled`, `paused` and the RPC
client's id, as the code's module variables do. `Close` is the page going away.

### 2.8 TrainingRun

`run` and `aggregated` are the run's row, `batch` and `attempt` a batch's, `holder` and `left` an
assignment's, `result` the accepted delta's. An assignment is named by batch and attempt in place
of its uuid and token. A request and its answer are one step, because the server is sequential;
`submit_delta` (`SubmitDelta`, `SubmitAccept`, `SubmitClose`) and `cancel_run` (`CancelRun`,
`CancelBatches`) are cut where they release the manager's lock. `busy` is the request that is
between two of its sections. A worker is `pc`, `cur` (what it was assigned) and, for a real one,
`trained`: what its model has been trained on since it was loaded, which is what its delta holds.
`cache` is the delta cache on disk, which all real workers of the machine share. It is written when
training ends, before the submission, so a killed worker leaves it behind. `Configured` are
the workers whose configuration the manifest check accepts.

### 2.9 MultiWorkerRound

One variable per table; one public method is one step, because each runs under the coordinator's
lock. `RoundOpen` ends in DRAFT (a crash between its two commits) or OPEN. An adapter is named by
the round that closed with it, or is the seed. `CheckpointUpload` is the row RC5.2's server leaves
for a receipt; a relaunched worker brings another. `Home` says which rounds' drivers use an
assignment id: the drivers give each round its own, the code does not ask for it. The mean of
tensors is the set `of` of contributions it was taken over.

### 2.10 SplitPipeline

A launch is one process run on one micro unit; its lease and its unit row carry its name. A call is
served under `ProtocolHandler._lock` in steps: `Admit` (lease, idempotency table, what the handler
asks of the row), `Commit` (the handler's commit), `Store` or, when the answer does not arrive,
`StoreLost` (`_save_idem`). `serving` is the call under the lock and its stage. Everything outside the
lock may come in between: the drivers' lease managers work on connections of their own
(`rc5_4_restart_real.py:108`, 180, 235), so the lease that admitted a call may expire and the micro
unit be leased to another launch before the handler commits (`Expire`, `Acquire`). `Replay` answers
from the table, behind the gate too; `CallRefused` ends the launch, which catches nothing; `Dies` ends
a process and leaves its call being served; `Crash` loses that call and `ctx`, the server's memory.
A call of a dead process that still waits for the lock is not kept: served later, it is the same as
one whose caller died later. `journal_set` is the same shape: `JournalCheck` sees a live lease,
`JournalSet` writes and does not ask again; `checked` is who is in between. `Journaled` launches run
`phase_a`; `Recover` and `RecoverReassigned` are `phase_b` with the old lease alive and without it.
`step.abort` is no gated method, may come from anybody, and has one logical key for all units. The
lease manager is here what `Leases` proves of it: one live lease per micro unit; nothing releases one
before the unit ends.

Only honest launches are modelled: the server never compares the `unit_id` of a call with the micro
unit of the lease it names; that a launch names its own is how the clients of the repository are
written.

### 2.11 TrainingJournal

What `TrainingServer` takes as one step, the local training between `step.open` and submit, example
by example. `journal` is the table of `journal_<worker_id>.db`, `weights` the adapter in a process's
memory, as the sequence of what was applied to adapter_0; `seen` stands for optimizer and random
state. `off` says how far a row's pre + delta is from the weights its optimizer step left: nothing,
one ulp (which `hash_adapter_tolerant` does not see), or more. `Roundings` says which of these may
happen; the module proves nothing of floating point. `Recover`/`NotRecovered` is `recover_applied`
with its two hashes, `TrainStep`, `Replay` and `Apply` are `train_step`, cut after its SELECT. The
three backends differ in which hashes are strict, in what the journal keeps besides the delta, and
in `request_sha`. A refusal is an exception nobody catches: the process ends. `Together` lets a
second process of the worker id start beside a first that lost its lease while it was computing.

## 3. Runs

| Run | Instance | Shows |
|---|---|---|
| `leases_full` | 2 units, 3 leases, all operations, any clock | `OneLiveLease`, `EndingIsFinal` |
| `leases_ttl` | 2 units, 2 holders, 4 leases, server's operations | `ReleasedIsFinal`, `RevisionOrdersLeases`, `TtlHonoured`, refinement `OwnershipSpec` |
| `round_coordinator` | 1 round, 2 assignments, 3 contributions, 1 admin thread | `OneActive`, `ExactQuorum`, `SameBaseline`, `WeightIsWork`, `StatusAdvances`, refinement `AverageSpec` |
| `training_server` | 1 unit, 3 launches, 3 leases, crashes, expiry | `AppliedOnce`, `StoredIsTrue`, `OneLeaseTrail`, `DoneIsDelivered`, `LaunchEnds` |
| `response_lost` | 2 gated and 2 plain requests | violated: `AnsweredIsStored` |
| `journal_resumes` | Qwen's backend, 3 examples, 3 launches | violated: `ResumesWhereItDied` |
| `job_lifecycle` | 2 services, 2 boots, 2 requests, 2 runners, 2 rounds | `CompletedIsDone`, `OneLateCall`, `OneTrainer`, `RunnerEnds`, `NoEternalRunning` |
| `job_cancel` | 2 services, 1 runner | violated: `CancelIsTold` |
| `browser_worker` | 2 tasks (one hashed, one of training), a corrupting simulated worker, 1 loop, 1 crash | `HeldByHousekeeper`, `CheckedOutput`, `TableObeyed`, `AssignedEnds`, refinement `OwnershipSpec` |
| `training_run` | 2 batches, 2 attempts, 2 real workers, 1 crash | `HeldByOne`, `NewestAccepted`, `Counted`, `InProgressEnds`, refinement `OwnershipSpec` |
| `multi_worker_round` | 2 rounds, 2 workers, 3 assignments, 3 contributions, 2 base models | `QuorumAtClose`, `LineageKept`, `OneBase`, refinement `AverageSpec` |
| `split_pipeline` | 2 micro units, 2 launches (1 journaled), 2 server crashes | `OnePerMicroUnit`, `JournalBrackets`, `LeaseGates`, refinement `OwnershipSpec` |

The type invariants are theorems for every instance (`TypeCorrect` of each proof module, section 5),
so these runs leave them out; those of `SharedConnection` and `TrainingJournal` are checked by the
configurations below. No run checks for deadlock: leases, ids, launches and
requests are used up, jobs end, and then the system stops as it should.

More instances, to be run by hand (`tlc -config X.cfg M`):

| Configuration | Module | Result |
|---|---|---|
| `MCJobThreeRequests` | `MCJobLifecycle` | passes: 3 boots, 3 requests, safety only (1.4 million states) |
| `MCBrowserTwoLoops` | `MCBrowserWorker` | passes: a page that runs two main loops |
| `MCSharedConnection` | `MCSharedConnection` | passes: `TypeOK` and `NoTransactionLeft` (0.9 million states) |
| `MCTrainingJournal` | `MCTrainingJournal` | passes: `TypeOK`, `OnceInOrder`, `ChainKept`, `SubmitsItsTraining`, `TrainsAsUninterrupted`, Qwen's backend, any rounding (9 thousand states); all but the last hold of the other two backends |
| `MCJournalOptimizer` | `MCTrainingJournal` | `TrainsAsUninterrupted` is violated by MiniCPM5's backend |
| `MCJournalTogether` | `MCTrainingJournal` | `OnceInOrder` is violated by two processes of one worker id at once |
| `MCRoundsApart` | `MCRoundCoordinator` | `SupersededByOwnRound` is violated by two rounds that use one assignment id |
| `MCLeasesTie` | `MCLeases` | `ReleasedIsFinal` is violated when the clock stands still or goes back |
| `MCRoundThreads` | `MCRoundCoordinator` | `OneActive` is violated by two admin threads |
| `MCTrainingRelaunch` | `MCTrainingServer` | `RelaunchResumes` is violated |
| `MCTrainingLateWrite` | `MCTrainingServer` | `NoContributionAfterExpired` is violated |
| `MCRoundsShareIds` | `MCMultiWorkerRound` | `QuorumAtClose` is violated when two rounds share an assignment id |
| `MCRoundsAdapters` | `MCRoundCoordinator` | `SameAdapter` is violated by a worker that uploads without calibrating |
| `MCBrowserCustom` | `MCBrowserWorker` | `AllOutputsChecked` is violated by a submission without a hash, or whose status is not "completed" |
| `MCSplitLateWrite` | `MCSplitPipeline` | `NoContributionAfterExpired` is violated by a lease that ends between gate and commit |

**Why the bounds are enough.** Leases interact within a unit, and through one `_expire_overdue`
over all units: two units show the second, and four ids show a lease after one that was renewed,
one that expired and one that was released. TTLs 1 and 2 with a clock to 3 make a lease expire
before, at and after another. In the coordinator two assignments are needed for a quorum that is
met in one and not in the other, three contributions for one that displaces another while the
second assignment has its own; ETTs 0 and 1 give the wildcard and a real number; two base models
give an assignment of another one, and one `adapter_0_sha` is enough, as no property of the run
tells two apart. In `training_server` units meet only in the lock and the lease table (both
covered: the lock by late requests of a previous launch of the same unit, the table by `Leases`),
so one unit is taken; three launches let a third one meet leftovers of two; the TTL of 2 lets a
request be admitted under one lease and executed after it ran out. In `job_lifecycle` two services
and two runners give double starts, restarts over a live runner, a runner refused the port and one
that meets another's plan; one contribution per round instead of two shortens the row of calls and
drops none of its checkpoints (validate, activate, fedavg); two rounds make the loop return. In
`response_lost` the counterexample needs one gated and one plain request. In `journal_resumes`
three examples are needed: a sum that is off, and a row after it. In `browser_worker` two tasks
give a choice of the oldest and one that the browser does not want; a lease time of 0 runs out at
the next tick, which may come anywhere, so a longer one only adds ticks; one crash suffices to
leave rows behind, and what a second could find differs in nothing; `Custom` is empty, as the
clients of the repository are, and the proofs have it arbitrary. In `training_run` two batches are
needed for the first to be counted and not the last, and for a delta that holds two batches; two
attempts for a late holder and for the attempts to run out; two real workers of the run's
configuration for both to hold, lose and take over batches through the cache they share. A
simulated worker takes the same steps without model and cache, one of another configuration is
refused when it submits; the proofs cover any mixture of them. In `multi_worker_round` two rounds
give a parent and a child or two roots; three contributions one that displaces another beside the
second assignment's. In `split_pipeline` two launches, one of each kind, give a holder and its
successor, on one micro unit or on two, either of them first; two micro units show what rows of
different units share (the lock, the server's memory and its crash, the key of abort). With three
launches on one micro unit, a holder and two successors, the same properties pass (70 thousand
states, by hand).

Symmetry is used in runs without liveness only, over sets whose members are never ordered or
compared with constants: leases, units, contributions, micro units, launches of one kind, requests
of one kind.

## 4. Fairness

* `TrainingServer.FairSpec`: a worker process that runs goes on (it computes or waits with a
  bounded timeout), and a running server serves what is queued. `Launch` of a new process is
  excluded, and so are `Kill`, `ServerCrash`, `Tick`: nothing obliges them to happen.
* `JobLifecycle.FairSpec`: a runner goes on (its waits are bounded: 3600 s per worker, 300 s per
  call) and a starting service finishes its reconciliation. No fairness for requests, boots or
  deaths.
* `BrowserWorker.FairSpec`: time passes, the housekeeping thread goes round every 15 s
  (`TimeoutTasks`, `Reassign` of each row), and someone starts a dead coordinator again. Nothing is
  assumed of workers, pages and operators: `AssignedEnds` must hold when all of them are gone.
* `TrainingRun.FairSpec`: `Tick`, `ExpireLeases`, `Restart`, for the same reason.
* The other modules state safety alone: nothing there happens by itself.

## 5. What is proved

For every value of the constants, under the named assumptions of the modules (kinds of the
constants, `None` is nobody's name). Where a theorem needs more, it says so in its ASSUME.

**Leases** (`ConstantsAssumption`: TTLs are positive).

* `TypeCorrect`, `OneLive`: `Spec` keeps the types and `OneLiveLease`. `OneLiveLease` is
  inductive with the types: a row becomes live only by `InsertRow` (guarded by the index) or
  `Renew` (of a live row).
* `EndingFinal`: `Spec => EndingIsFinal`, from the types.
* `TtlInvariant`: `TtlSpec => []TtlInv`, with `TtlInv` = types, `TimesInOrder` (a lease is
  issued before it expires and is marked EXPIRED only then), `OnlyNewestOpen` (every lease of a
  unit but the newest is EXPIRED), `NoTies`, `RevisionOrdersLeases`. The strengthening is needed
  because acquire looks at one lease only, the last by time: that it speaks for all earlier ones
  is `OnlyNewestOpen`, and that it is well defined is `NoTies`.
* `ReleaseFinal`, `RevisionsOrdered`, `TtlIsHonoured`, `ImplementsOwnership`: consequences of
  `TtlInv`. The refinement maps acquire to `Grant`, release to `Finish`, and the clock's advance
  to `Lapse` of the leases it makes overdue; `_expire_overdue` only writes down what has lapsed
  and stutters.
* `OwnershipIsExclusive`, `OwnershipIsFinal`: `UnitOwnership` alone, whoever implements it, gives a
  unit one owner at most (`OneOwner`: two pairs of one unit, in force or finished, are one pair), and
  it is finished by its holder, once (`FinishedByHolder`). `LeasesAreExclusive` reads the first back
  through the refinement, as a statement about the lease table.

**RoundCoordinator** (ETTs and revisions are naturals).

* `TypeCorrect`, `WeightsAreWork`: any number of admin threads. The second rests on
  `PassedWorked`: whoever passed validation weighs its own ETT or, its assignment replaced, 0.
* With `OneAdmin` (one admin thread, as `JobRunner` has one sequential client):
  `OneActiveContribution` (a thread about to set ACTIVE has displaced every rival),
  `FedAvgExactQuorum` and `FedAvgSameBaseline` (`ChecksHold`: what a running fedavg has checked,
  quorum, base model of every assignment, `adapter_pre_hash` and revision of every contribution,
  still holds at its later reads; workers' requests cannot undo it, and nobody else writes),
  `StatusOnlyAdvances` (`PendingHolds`: the status an operation read is still there when it
  writes). Without `OneAdmin` the first is false (`MCRoundThreads`).

**TrainingServer.** `TypeCorrect` and `UsesLeases` from `Sound` = types + `TtlInv` of the lease
table + a worker takes leases on its own unit: each step of the system is a step of
`Leases!TtlSpec`, so what `LeasesProofs` shows holds of the running server. `WorkAppliedOnce`
(`Delivered`: a contribution is of committed work, under its receipt). `OneTrail` (`Trail`: a
request in flight is under its process's lease; all but the first follow a stored open of that
lease; how far a process is says what was stored). `StoredTruth` (`Truth`: a stored reply, and the
one about to be stored, states facts that no step undoes). `DoneDelivered` combines all three.

**JobLifecycle.** `TypeCorrect` and `CompletedDone` from `Placed` = types + where a runner stands
in its rounds; `OneLateCallMade` from `LateCounted` (a runner about to call has made no late call:
its checkpoint saw no SIGTERM); `OneRunnerTrains` from `SolePlanner` (the plan of round 1 has one
maker, and only it is past the setup).

**BrowserWorker** (with `TaskCoordinator`). `TypeCorrect` from `Typed`; `HeldTheorem`,
`CheckedTheorem` (of every task but those left to a worker in `Custom`, which may be any of them),
`TableTheorem` through `TableStep`, the seven effects any step of any process can
have on the task table; each action is shown to be one of them once, and each property preserved
by each of the seven.

**TrainingRun.** One inductive invariant `IInv`: types; `RowsOK` (attempts are exceeded only by
failing); `CurOK` (a worker was given what it has); `LatestActive` (only the latest attempt of a
batch is active); `HeldInProgress`; `AcceptOK` (what submit_delta checked still holds, but for the
lease, when its next section writes: nobody else can be given the batch, as no request is served in
between, though the lease may expire and the batch be WAITING again); `NewestAccepted`; `CountOK`
(the counter is the number of completed batches). From it `TypeCorrect`, `HeldTheorem`,
`NewestTheorem`, `CountTheorem`, again by the effects of a step on the tables.

**MultiWorkerRound.** `TypeCorrect`; `OneBaseModel` (inductive by itself: equal to the latest is
equal to all, if all are equal); `LineageTheorem` (`Lineage`: an open round's parent is closed and
one index below, and its models and assignments name the parent's adapter); `QuorumTheorem`, which
ASSUMEs `OneHome`, that no two rounds share an assignment id. `ReadyExact` says the count of
ready_to_close stays true until close_round, since an activation displaces its rival in the same
transaction. Without `OneHome` it is false (`MCRoundsShareIds`).

**SplitPipeline.** A lease proves nothing about a commit here, so the invariants are about what stays
true between admission and commit whatever becomes of it. `Served`: a call being served found its key
free of other payloads and its row ready, and both are still so, for the lock lets no other call in.
`LeaseGatesTheorem` (`Started`: a launch that was stopped has a micro unit; `StoppedStays`: a launch
without lease, call or journal write under way gets none again). `OnePerMicroUnitTheorem`
(`OpenStored`: a launch past step.open is the one whose payload is stored for its micro unit, and the
key stores one), which does not need the lease at all. `JournalTheorem` (`JournalAt`: the position of
a journaled launch, its call being served, its journal and its unit row agree). `Books` is their
conjunction with the types.

**Ownership elsewhere.** Each `ImplementsOwnership` has its own mapping of the module's steps, and
rests on the module's inductive invariant:

| Module | A unit is held while | finished when | The step that needs an argument |
|---|---|---|---|
| `TrainingServer` | as in `Leases` | as in `Leases` | none: a corollary of `UsesLeases` |
| `BrowserWorker` | its task is ASSIGNED and its lease runs | COMPLETED | every effect of a step on a task is a grant, a completion by its holder in time, or a letting go (`HoldingStep`); somebody else's wrong hash only fails it, which is `Lapse` |
| `TrainingRun` | its assignment is active, or a delta under it is being accepted | COMPLETED | a lease that runs out between the two sections of submit_delta: the unit stays held, and `AcceptOK` says that only this batch, of this attempt and not yet completed, is finished |
| `SplitPipeline` | the answer to a launch's step.open is stored, it has not contributed, and its lease is live or a call it let in is being served | contributed | storing the answer of step.open is the grant: nobody else's is stored for the micro unit (`OpenStored`, `Served`), even if the lease has moved on by then. The commit of the upload finishes a unit that is still held, by its call if no longer by its lease. Expiry, crash and the end of the last call let go |

**Averages.** `ImplementsAverage` of both coordinators: activation is `Choose`, with the displaced
contribution as `lost`; a closed round is `Average`.

* `RoundCoordinator`, with `OneAdmin`: from `RivalsDisplaced`, `PendingHolds`, `ChecksHold` and
  `ResultStored`. Superseding and activating are two UPDATEs, so the first is `Withdraw`; that
  nothing is active for the slot at the second is `RivalsDisplaced`. The average is made of what is
  active at fedavg's last read, although it was counted at an earlier one.
* `MultiWorkerRound`, with `OneHome`: `ReadyExact` carries what ready_to_close counted to close_round.
* `AverageCountsOnce`, `AverageSpentForGood`: `RoundAverage` alone keeps a slot to one contribution
  and a contribution to one slot, in what counts and in every average ever made (`CountsOnce`), and
  what was replaced never counts again. `RoundsCountOnce` reads the first back for RC5.3.

**Only model-checked:** liveness (`LaunchEnds`, `RunnerEnds`, `NoEternalRunning`, `AssignedEnds`,
`InProgressEnds`), which is beyond the prover, `SharedConnection` and `TrainingJournal`, about which
nothing is proved yet.

## 6. Disagreements between code and documents

Three are runs that TLC finds violated; `PROJECT.json` quotes both sides.

1. `journal_resumes` - with Qwen's backend a relaunched worker is refused its own journal, at the
   first example after one whose sum is an ulp off (`qwen3_training_backend.py:365`, 372). The
   recovery test says so of its own instance (`generic_recovery_tests.py:150-154`).
2. `response_lost` - a plain request's ROLLBACK takes away the response a gated request has just
   inserted; the worker is answered with what was never stored.
3. `job_cancel` - a service that did not start the runner (a CLI command, the app after a
   restart) cancels without telling it.

Eight more have a configuration that shows the counterexample:

4. `MCLeasesTie` - acquire is "rejected after ACTIVE/RENEWED/RELEASED" (`rc5_4_leases.py:172-174`),
   but the last lease is found by the wall clock (159): a tie or a clock set back lets a released
   unit be leased again.
5. `MCRoundThreads` - "una connexio SQLite, single writer" (`training_http_server.py:51`), but
   `contribution.activate` takes no lock: two concurrent ones leave two ACTIVE contributions.
6. `MCTrainingRelaunch` - "un rellancament amb la mateixa BD repren exactament on va morir"
   (`model_worker.py:21`), but a worker killed after `step.open` is refused for ever once its
   lease has run out: the stored response is compared under the new lease
   (`training_http_server.py:209-211`).
7. `MCTrainingLateWrite` - "no contribution accepted after EXPIRED" (`rc5_4_leases.py:14-19`), but
   a lease can be marked EXPIRED after `_gated` checked it and before the row is inserted (208, 220).
   `MCSplitLateWrite` - the same of RC5.4, which the sentence was written for: the gate
   (`rc5_4_http_server.py:81`, `rc5_4_integration.py:195-199`) precedes the handler's commit
   (`rc5_2_http_server.py:403-405`), and the lease managers of the drivers take no lock of the
   server. The lease can expire and another launch hold the micro unit when the contribution is
   written. The journal's writes check before their transaction as well. What holds instead: the
   lease that ended admits nothing more (`LeaseGates`), and the successor cannot contribute the
   micro unit too, because step.open is keyed by it (`OnePerMicroUnit`, `OwnershipSpec`).
8. `MCRoundsShareIds` - activation in RC5.3 supersedes by assignment and worker, not by round
   (`rc5_3_multiworker.py:665`); close_round (717-772) does not count again.
9. `MCRoundsApart` - SUPERSEDED is said to come from a newer contribution "per a la mateixa
   assignacio" (`model_round_coordinator.py:15-16`), but the UPDATE (495-498) matches assignment_id
   and worker_id, without run or round. `JobRunner` gives every round names of its own.
10. `MCJournalOptimizer` - MiniCPM5's journal keeps neither optimizer nor random state, so that a
   relaunched worker takes its next step with a fresh AdamW (`minicpm5_backend.py:375-382`); Qwen's
   does, "el pas següent és IDÈNTIC al no-crash" (`qwen3_training_backend.py:245-246`).
11. `MCJournalTogether` - train_step is "exactly-once" (`qwen3_training_backend.py:304`) between a
   SELECT and an INSERT OR REPLACE with the whole training between them: two processes of one
   worker id, each alive when the other's lease has run out, mix their rows.

Three are stated in the modules and not run: `BrowserWorker!TimedOutComesBack` (a TIMEOUT row left
by a recovery, `admin.timeout_task` or a crash is reassigned by nobody, against `rc3_state.py:18`),
`BrowserWorker!OneTaskPerWorker` (Start is enabled again on IDLE, against `state.ts:11`) and
`TrainingRun!DeltaIsItsBatch` (the snapshot is taken when the model is loaded, not per batch,
against `rc3_worker_real.py:500-506`).

Read in the code while modelling, and part of the models as they are:

* Rounds: fedavg's homogeneity names base model, adapter_pre_hash, revision and assignment
  (`model_round_coordinator.py:584-586`) and not the assignment's `adapter_0_sha`, which only
  `worker.calibrate` compares (245); an upload does not ask for a calibration. So a contribution can
  be averaged whose assignment names another adapter than its round (`MCRoundsAdapters`).
  `JobRunner` gives both the same one, and its workers calibrate.
* RC3 tasks: an output is compared only when its submission says "completed" and has an
  `output_hash` (`rc3_coordinator.py:392-397`), and `submit_result` completes the task whatever the
  status is (`rc3_state.py:332-337`): a report of a failure completes it too (`MCBrowserCustom`). A
  FAILED task is never tried again; any worker's wrong hash fails a task assigned to
  another; `mark_workers_offline` compares a text with a number and matches nobody. In the browser
  a cancel sent while a request is in flight is lost, and a pause during the last step submits.
* RC3 runs: a PAUSED run refuses deltas of batches in progress, which the comments say may finish
  (`rc3_train_state.py:9`, 1011); no code makes a run FAILED, so `retry_run` cannot be reached; a
  crash between the last accept and its close leaves the run TRAINING; two runs whose ids end in
  the same 16 bits leave the second without batches; a cached delta lacks manifest fields and is
  always refused; a real worker that ends clears the cache of all.
* RC5.2/5.4: step.open answered from the table after a crash does not restore the server's memory
  (`rc5_2_http_server.py:312`), so the unit cannot go on; a micro unit once opened cannot be opened
  by a later launch (its key holds another payload); phase_b after a reassignment writes the
  journal under the old lease and is refused (`rc5_4_restart_real.py:241`, which promises "same
  lease or reassign", 168-169); step.abort asks for no lease, and its logical key is the method's name
  (`rc5_2_http_server.py:144`), so that after one abort is stored that of every other unit is
  refused as the same key with another payload (one test is its only caller).

## 7. What is not modelled

* Tensors, losses, hashes: only their equality matters here. Weighted averages are numerical.
* Authentication (admin token, lease nonces beyond "the holder has it"), worker.register and the
  session check of worker.calibrate in the training server, parsing, logging.
* Events, artifacts and metrics of a job; datasets; the web UI; the hardware probes. The event
  stream reads by rowid, which autocommitted INSERTs get in commit order and no row ever loses:
  nothing interleaves there.
* RC3: `retry_run` (unreachable), `force_aggregate`, the idempotency key no worker sends, worker
  rows (`last_seen`, OFFLINE), which decide nothing, the audit log. Requests of `rc3_coordinator.py`
  that only read.
* RC5.1 is the predecessor of RC5.2: the same steps of a unit without stored answers or leases.
  RC5.2's own coordinator (validate, activate, fedavg, close_round) was replaced by RC5.3's.
* The Qwen pilot and the RC4 drivers repeat the shape of parts that are modelled.
* In `SharedConnection` what the requests write is named, not computed: its rows do not feed the
  lease or training models, which take each transaction as its thread's own. What those models
  show holds while no two transactions of the server overlap; `response_lost` shows what can go
  wrong when they do.

## 8. Plan

Done: leases and ownership, round coordinator, training server and worker, shared connection,
training journal, job lifecycle, RC3 tasks with the browser's worker, RC3 training runs, RC5.3
rounds, the RC5.4 pipeline with its journal; proofs of the safety properties of all of them but the
connection and the training journal; the refinements of `UnitOwnership` by every module that hands
out work and of `RoundAverage` by both round coordinators, and what these two promise by themselves.

Possible next steps:

1. The job of `JobLifecycle` over `RoundAverage`: a runner's admin calls as its actions, so that
   `CompletedIsDone` says what was averaged.
2. `TrainingServer` on `SharedConnection`: which of its theorems survive a neighbour's rollback.
3. `SplitPipeline` on an instance of `Leases` in place of its one-live-lease rule, as
   `TrainingServer` does.
4. RC5.2's own coordinator as an instance of `RoundCoordinator`'s shape; RC5.1 as an abstraction
   that `SplitPipeline` implements.
5. `retry_run` and `force_aggregate` of RC3, should a run ever become FAILED.
