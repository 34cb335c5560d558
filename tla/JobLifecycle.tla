---------------------------- MODULE JobLifecycle ----------------------------
(***************************************************************************)
(* One training job of the application: its row in the application         *)
(* database, the requests of MeshTrainerService that validate, start and   *)
(* cancel it, the reconciliation every service process runs when it        *)
(* starts, and the JobRunner processes that do the work.                   *)
(*                                                                         *)
(* Several processes hold a MeshTrainerService: the API server, which runs *)
(* requests in a thread pool, and every CLI command.  They share the row   *)
(* and nothing else; which child process is the runner is known only to    *)
(* the service that started it.  Each UPDATE and SELECT of the row is a    *)
(* step.  Services and runners may die anywhere; a runner outlives the     *)
(* service that started it.  A runner stands for its pid and its nonce.    *)
(***************************************************************************)
EXTENDS Naturals, FiniteSets

CONSTANTS Services,      \* processes with a MeshTrainerService
          Slots,         \* requests one process serves at once
          Runners,       \* JobRunner processes, bound on the starts
          Rounds,        \* rounds of the job
          Contributions, \* of a round; 2 in the code, workers A and B
          MaxBoots,      \* bound on the starts of services
          MaxRequests,   \* bound on the requests
          None

ASSUME ConstantsAssumption ==
    /\ Rounds \in Nat /\ Contributions \in Nat /\ MaxBoots \in Nat /\ MaxRequests \in Nat
    /\ None \notin Runners

Threads == Services \X Slots

VARIABLES status, validation,  \* columns of the jobs row
          pid, identity,       \* runner_pid, runner_identity
          planned              \* rounds with assignments in the job's core.db

VARIABLES svc,     \* how far a service has come
          found,   \* the rows reconcile_runners read
          child,   \* _runners of a service
          req,     \* the next step of a request
          spawned, \* the process a start request has launched
          boots, requests  \* services started, requests sent

VARIABLES rpc,     \* the next step of a runner
          stop,    \* _stop
          round,   \* the round it is in; 0 before its core server is up
          call,    \* admin calls made in this round
          done,    \* rounds it has aggregated
          late     \* admin calls made after SIGTERM

row        == <<status, validation, pid, identity>>
serviceVars == <<svc, found, child, req, spawned, boots, requests>>
runnerVars == <<rpc, stop, round, call, done, late>>
vars == <<row, planned, serviceVars, runnerVars>>

Statuses == {"DRAFT", "READY", "STARTING", "RUNNING", "CANCELLING", "CANCELLED", "FAILED",
             "COMPLETED"}
RequestSteps == {"idle", "mark_ready", "revalidate", "mark_then_start", "recheck",
                 "set_starting", "spawn", "record", "set_cancelling", "signal"}
RunnerSteps == {"none", "boot", "announce", "identify", "claim", "serve", "loop", "setup",
                "workers", "check", "call", "verdict", "complete", "cancelled", "fail",
                "gone"}

TypeOK ==
    /\ status \in Statuses /\ validation \in {"PENDING", "PASS", "FAIL"}
    /\ pid \in Runners \cup {None} /\ identity \in Runners \cup {None}
    /\ planned \subseteq 1..Rounds
    /\ svc \in [Services -> {"down", "list_running", "list_starting", "settle", "up"}]
    /\ found \in [Services -> SUBSET [pid : Runners \cup {None}, identity : Runners \cup {None}]]
    /\ child \in [Services -> Runners \cup {None}]
    /\ req \in [Threads -> RequestSteps]
    /\ spawned \in [Threads -> Runners \cup {None}]
    /\ boots \in 0..MaxBoots /\ requests \in 0..MaxRequests
    /\ rpc \in [Runners -> RunnerSteps]
    /\ stop \in [Runners -> BOOLEAN]
    /\ round \in [Runners -> 0..(Rounds + 1)]
    /\ call \in [Runners -> 0..(2 * Contributions)]
    /\ done \in [Runners -> 0..Rounds]
    /\ late \in [Runners -> Nat]

Init ==
    /\ status = "DRAFT" /\ validation = "PENDING" /\ pid = None /\ identity = None
    /\ planned = {}
    /\ svc = [s \in Services |-> "down"]
    /\ found = [s \in Services |-> {}]
    /\ child = [s \in Services |-> None]
    /\ req = [t \in Threads |-> "idle"]
    /\ spawned = [t \in Threads |-> None]
    /\ boots = 0 /\ requests = 0
    /\ rpc = [r \in Runners |-> "none"]
    /\ stop = [r \in Runners |-> FALSE]
    /\ round = [r \in Runners |-> 0]
    /\ call = [r \in Runners |-> 0]
    /\ done = [r \in Runners |-> 0]
    /\ late = [r \in Runners |-> 0]

Alive(r) == rpc[r] \notin {"none", "gone"}

-----------------------------------------------------------------------------
\* A service process: MeshTrainerService.__init__, which reconciles

Boot(s) ==
    /\ svc[s] = "down" /\ boots < MaxBoots
    /\ boots' = boots + 1
    /\ svc' = [svc EXCEPT ![s] = "list_running"]
    /\ UNCHANGED <<row, planned, found, child, req, spawned, requests, runnerVars>>

\* list_jobs(status), the row as it is now.
List(s, step, wanted, next) ==
    /\ svc[s] = step
    /\ found' = IF status = wanted
                THEN [found EXCEPT ![s] = @ \cup {[pid |-> pid, identity |-> identity]}] ELSE found
    /\ svc' = [svc EXCEPT ![s] = next]
    /\ UNCHANGED <<row, planned, child, req, spawned, boots, requests, runnerVars>>

ListRunning(s)  == List(s, "list_running", "RUNNING", "list_starting")
ListStarting(s) == List(s, "list_starting", "STARTING", "settle")

\* (A name that ends in _Faulty... is a broken variant of the definition after
\* it, kept to check that the properties notice the fault.)
Ours_FaultyTrustsPid(j) == j.pid # None

\* The recorded pid is alive and its command line carries the recorded nonce.
Ours(j) == j.pid # None /\ j.identity = j.pid /\ Alive(j.pid)

Settle(s) ==
    /\ svc[s] = "settle"
    /\ status' = IF \E j \in found[s] : ~Ours(j) THEN "FAILED" ELSE status
    /\ found' = [found EXCEPT ![s] = {}]
    /\ svc' = [svc EXCEPT ![s] = "up"]
    /\ UNCHANGED <<validation, pid, identity, planned, child, req, spawned, boots, requests, runnerVars>>

\* The process exits or is killed with its requests; its child lives on.
ServiceEnds(s) ==
    /\ svc[s] # "down"
    /\ svc' = [svc EXCEPT ![s] = "down"]
    /\ found' = [found EXCEPT ![s] = {}]
    /\ child' = [child EXCEPT ![s] = None]
    /\ req' = [t \in Threads |-> IF t[1] = s THEN "idle" ELSE req[t]]
    /\ spawned' = [t \in Threads |-> IF t[1] = s THEN None ELSE spawned[t]]
    /\ UNCHANGED <<row, planned, boots, requests, runnerVars>>

-----------------------------------------------------------------------------
\* Requests.  A request that is refused leaves everything as it was.

Arrives(t) ==
    /\ svc[t[1]] = "up" /\ requests < MaxRequests
    /\ requests' = requests + 1

Step(t, from, to) ==
    /\ req[t] = from
    /\ req' = [req EXCEPT ![t] = to]

Continues == UNCHANGED requests
OnlyRequest == UNCHANGED <<planned, svc, found, child, spawned, boots, runnerVars>>

\* validate_job looks at the dataset, the backend and the model, never at the
\* status of the job.
ValidateJob(t, pass) ==
    /\ Arrives(t)
    /\ Step(t, "idle", IF pass THEN "mark_ready" ELSE "idle")
    /\ validation' = IF pass THEN "PASS" ELSE "FAIL"
    /\ UNCHANGED <<status, pid, identity>> /\ OnlyRequest

MarkReady(t) ==
    /\ Step(t, "mark_ready", "idle") \/ Step(t, "mark_then_start", "recheck")
    /\ status' = "READY"
    /\ UNCHANGED <<validation, pid, identity>> /\ Continues /\ OnlyRequest

StartJob(t) ==
    /\ Arrives(t)
    /\ status \in {"READY", "DRAFT"}
    /\ Step(t, "idle", IF validation = "PASS" THEN "set_starting" ELSE "revalidate")
    /\ UNCHANGED row /\ OnlyRequest

Revalidate(t, pass) ==
    /\ Step(t, "revalidate", IF pass THEN "mark_then_start" ELSE "recheck")
    /\ validation' = IF pass THEN "PASS" ELSE "FAIL"
    /\ UNCHANGED <<status, pid, identity>> /\ Continues /\ OnlyRequest

Recheck(t) ==
    /\ Step(t, "recheck", IF validation = "PASS" THEN "set_starting" ELSE "idle")
    /\ UNCHANGED row /\ Continues /\ OnlyRequest

SetStarting(t) ==
    /\ Step(t, "set_starting", "spawn")
    /\ status' = "STARTING"
    /\ UNCHANGED <<validation, pid, identity>> /\ Continues /\ OnlyRequest

Spawn(t, r) ==
    /\ rpc[r] = "none"
    /\ Step(t, "spawn", "record")
    /\ rpc' = [rpc EXCEPT ![r] = "boot"]
    /\ child' = [child EXCEPT ![t[1]] = r]
    /\ spawned' = [spawned EXCEPT ![t] = r]
    /\ UNCHANGED <<row, planned, svc, found, boots, requests, stop, round, call, done, late>>

\* The dataset is gone, the log cannot be opened, fork fails: an exception.
SpawnFails(t) ==
    /\ Step(t, "spawn", "idle")
    /\ UNCHANGED row /\ Continues /\ OnlyRequest

Record(t) ==
    /\ Step(t, "record", "idle")
    /\ pid' = spawned[t] /\ identity' = spawned[t]
    /\ spawned' = [spawned EXCEPT ![t] = None]
    /\ UNCHANGED <<status, validation, planned, svc, found, child, boots, requests, runnerVars>>

CancelJob(t) ==
    /\ Arrives(t)
    /\ status \in {"RUNNING", "STARTING", "READY"}
    /\ Step(t, "idle", "set_cancelling")
    /\ UNCHANGED row /\ OnlyRequest

SetCancelling(t) ==
    /\ Step(t, "set_cancelling", "signal")
    /\ status' = "CANCELLING"
    /\ UNCHANGED <<validation, pid, identity>> /\ Continues /\ OnlyRequest

\* SIGTERM to this service's own child, if it has one and it lives.  Before the
\* runner has installed its handler the signal kills it; afterwards it sets
\* _stop and the workers are terminated.  The 30 s wait changes nothing.
Signal(t) ==
    /\ Step(t, "signal", "idle")
    /\ LET r == child[t[1]] IN
           IF r = None \/ ~Alive(r) THEN UNCHANGED <<rpc, stop>>
           ELSE IF rpc[r] = "boot" THEN rpc' = [rpc EXCEPT ![r] = "gone"] /\ UNCHANGED stop
           ELSE stop' = [stop EXCEPT ![r] = TRUE] /\ UNCHANGED rpc
    /\ UNCHANGED <<row, planned, svc, found, child, spawned, boots, requests, round, call, done, late>>

-----------------------------------------------------------------------------
\* The runner: JobRunner.run and _run_round

Go(r, from, to) ==
    /\ rpc[r] = from
    /\ rpc' = [rpc EXCEPT ![r] = to]

Quietly == UNCHANGED <<planned, serviceVars, stop, round, call, done, late>>

InstallHandler(r) == Go(r, "boot", "announce") /\ UNCHANGED row /\ Quietly

Announce(r) ==
    /\ Go(r, "announce", "identify")
    /\ status' = "RUNNING"
    /\ UNCHANGED <<validation, pid, identity>> /\ Quietly

Identify(r) ==
    /\ Go(r, "identify", IF identity \in {None, r} THEN "claim" ELSE "fail")
    /\ UNCHANGED row /\ Quietly

Claim(r) ==
    /\ Go(r, "claim", "serve")
    /\ identity' = r
    /\ UNCHANGED <<status, validation, pid>> /\ Quietly

\* The port of the core server is a function of the job: one runner has it.
Serving(r) == Alive(r) /\ round[r] > 0

Serve(r) ==
    /\ \A other \in Runners : ~Serving(other)
    /\ Go(r, "serve", "loop")
    /\ round' = [round EXCEPT ![r] = 1]
    /\ UNCHANGED <<row, planned, serviceVars, stop, call, done, late>>

Loop(r) ==
    /\ Go(r, "loop", IF stop[r] \/ round[r] > Rounds THEN "verdict" ELSE "setup")
    /\ UNCHANGED row /\ Quietly

Setup_FaultyReplan(r) ==
    /\ Go(r, "setup", "workers")
    /\ planned' = planned \cup {round[r]}
    /\ UNCHANGED <<row, serviceVars, stop, round, call, done, late>>

\* round.create, which repeats well, and assignment.create, which does not.
Setup(r) ==
    /\ Go(r, "setup", IF round[r] \in planned THEN "fail" ELSE "workers")
    /\ planned' = planned \cup {round[r]}
    /\ UNCHANGED <<row, serviceVars, stop, round, call, done, late>>

WorkersDone(r) ==
    /\ Go(r, "workers", "check")
    /\ call' = [call EXCEPT ![r] = 0]
    /\ UNCHANGED <<row, planned, serviceVars, stop, round, done, late>>

\* A worker was terminated: no evidence, but a cancellation in progress.
WorkersStopped(r) ==
    /\ stop[r]
    /\ Go(r, "workers", "cancelled")
    /\ UNCHANGED row /\ Quietly

Check_FaultyIgnored(r) ==
    /\ Go(r, "check", "call")
    /\ UNCHANGED row /\ Quietly

Check_FaultyWaits(r) ==
    /\ ~stop[r]
    /\ Go(r, "check", "call")
    /\ UNCHANGED row /\ Quietly

\* _check_cancel
Check(r) ==
    /\ Go(r, "check", IF stop[r] THEN "cancelled" ELSE "call")
    /\ UNCHANGED row /\ Quietly

Late(r) == late' = IF stop[r] THEN [late EXCEPT ![r] = @ + 1] ELSE late

\* contribution.validate and contribution.activate of every contribution ...
AdminCall(r) ==
    /\ call[r] < 2 * Contributions
    /\ Go(r, "call", "check")
    /\ call' = [call EXCEPT ![r] = @ + 1]
    /\ Late(r)
    /\ UNCHANGED <<row, planned, serviceVars, stop, round, done>>

\* ... then round.fedavg and the adapter file.
FedAvg(r) ==
    /\ call[r] = 2 * Contributions
    /\ Go(r, "call", "loop")
    /\ done' = [done EXCEPT ![r] = @ + 1]
    /\ round' = [round EXCEPT ![r] = @ + 1]
    /\ Late(r)
    /\ UNCHANGED <<row, planned, serviceVars, stop, call>>

Verdict_FaultyCompleted(r) ==
    /\ Go(r, "verdict", "complete")
    /\ UNCHANGED row /\ Quietly

Verdict(r) ==
    /\ Go(r, "verdict", IF stop[r] THEN "cancelled" ELSE "complete")
    /\ UNCHANGED row /\ Quietly

\* The process is gone, and its memory and its port with it.
Exit(r) ==
    /\ rpc' = [rpc EXCEPT ![r] = "gone"]
    /\ stop' = [stop EXCEPT ![r] = FALSE]
    /\ round' = [round EXCEPT ![r] = 0]
    /\ call' = [call EXCEPT ![r] = 0]
    /\ late' = [late EXCEPT ![r] = 0]
    /\ UNCHANGED <<planned, serviceVars, done>>

LastWord(r, from, s) ==
    /\ rpc[r] = from
    /\ status' = s
    /\ Exit(r)
    /\ UNCHANGED <<validation, pid, identity>>

Complete(r)  == LastWord(r, "complete", "COMPLETED")
Cancelled(r) == LastWord(r, "cancelled", "CANCELLED")
Fail(r)      == LastWord(r, "fail", "FAILED")

\* Any exception: the model, the port, a worker without evidence, the core.
Breaks(r) ==
    /\ \E from \in {"serve", "setup", "workers", "call"} : Go(r, from, "fail")
    /\ UNCHANGED row /\ Quietly

\* SIGKILL or out of memory.
Dies(r) ==
    /\ Alive(r)
    /\ Exit(r)
    /\ UNCHANGED row

-----------------------------------------------------------------------------
Reconcile(s) == ListRunning(s) \/ ListStarting(s) \/ Settle(s)

Continue(t) ==
    \/ MarkReady(t) \/ Recheck(t) \/ SetStarting(t) \/ Record(t)
    \/ SetCancelling(t) \/ Signal(t) \/ SpawnFails(t)
    \/ \E pass \in BOOLEAN : Revalidate(t, pass)
    \/ \E r \in Runners : Spawn(t, r)

Request(t) == StartJob(t) \/ CancelJob(t) \/ \E pass \in BOOLEAN : ValidateJob(t, pass)

RunnerNext(r) ==
    \/ InstallHandler(r) \/ Announce(r) \/ Identify(r) \/ Claim(r) \/ Serve(r)
    \/ Loop(r) \/ Setup(r) \/ WorkersDone(r) \/ WorkersStopped(r) \/ Check(r)
    \/ AdminCall(r) \/ FedAvg(r) \/ Verdict(r) \/ Complete(r) \/ Cancelled(r)
    \/ Fail(r) \/ Breaks(r)

Next ==
    \/ \E s \in Services : Boot(s) \/ Reconcile(s) \/ ServiceEnds(s)
    \/ \E t \in Threads : Request(t) \/ Continue(t)
    \/ \E r \in Runners : RunnerNext(r) \/ Dies(r)

Spec == Init /\ [][Next]_vars

\* A process that runs goes on: the wait for a worker is bounded (3600 s), and
\* so is every call (300 s).  No one need send a request, restart a service or
\* kill a process.
FairSpec ==
    /\ Spec
    /\ \A r \in Runners : WF_vars(RunnerNext(r))
    /\ \A s \in Services : WF_vars(Reconcile(s))

-----------------------------------------------------------------------------
\* Properties

\* COMPLETED is never claimed early: a runner has aggregated every round, in
\* spite of cancellations that arrive in the middle of the loop or of the
\* verdict, and of other runners of the same job.
CompletedIsDone == status = "COMPLETED" => \E r \in Runners : done[r] = Rounds

\* "no contribution.activate or round.fedavg after the cancel"
\* (e0_gate_tests.py:188-194), as far as it is true: once SIGTERM is handled at
\* most the one call the last checkpoint had let through is still made.
OneLateCall == \A r \in Runners : late[r] <= 1

\* However many runners a job gets (double starts, restarts after a new
\* validation), a single one ever aggregates: its rounds build on one another.
OneTrainer == \A q, r \in Runners : done[q] > 0 /\ done[r] > 0 => q = r

\* Every runner ends, cancelled or not.
RunnerEnds == \A r \in Runners : rpc[r] = "boot" ~> ~Alive(r)

NobodyRuns ==
    /\ \A r \in Runners : ~Alive(r)
    /\ \A t \in Threads : req[t] \notin {"set_starting", "spawn", "record"}

\* "no job is left RUNNING for ever" (mesh_trainer_service.py:416): a service
\* that starts when the job's runner is gone settles its status, whatever is
\* requested meanwhile, unless the job is started again before it gets to it.
NoEternalRunning ==
    \A s \in Services :
        svc[s] = "list_running" /\ NobodyRuns
            ~> status \notin {"RUNNING", "STARTING"} \/ svc[s] = "down" \/ ~NobodyRuns

Working(r) == Alive(r) /\ rpc[r] \notin {"boot", "announce"}

WhoRunsIsTold ==
    \A t \in Threads :
        req[t] = "signal" /\ req'[t] = "idle" /\ svc'[t[1]] = "up"
            => \A r \in Runners : Working(r) => stop'[r]

\* "RUNNING -> CANCELLING: 1. cooperative SIGTERM" (PRODUCT_MVP_DESIGN_V1.md,
\* section 15): when a cancel request is answered, a runner that has set the
\* job RUNNING has been told to stop.
CancelIsTold == [][WhoRunsIsTold]_vars
=============================================================================
