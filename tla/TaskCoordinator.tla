--------------------------- MODULE TaskCoordinator ---------------------------
(***************************************************************************)
(* The RC3 task coordinator: the task table (rc3_state.StateStore), the    *)
(* JSON-RPC handlers that serve workers and operators one request at a     *)
(* time, the housekeeping thread that runs beside them, and the simulated  *)
(* Python worker (rc3_worker_sim.SimulatedWorker).  The browser's worker   *)
(* is in BrowserWorker, which composes everything.                         *)
(*                                                                         *)
(* A process asks one thing at a time.  It may die while its request is    *)
(* queued, and the coordinator may die at any moment; its SQLite file      *)
(* survives.  A registration gives the process a fresh uuid, for which the *)
(* process itself stands here.                                             *)
(*                                                                         *)
(* Time is kept relative: left[t] is what remains of the lease of t, which *)
(* nothing reads unless t is ASSIGNED.                                     *)
(***************************************************************************)
EXTENDS Integers

CONSTANTS NumTasks,       \* bound on the tasks created
          TrainingTasks,  \* the tasks of strategy "training"
          Hashed,         \* the tasks that have an input_hash
          SimWorkers,     \* SimulatedWorker processes
          Corrupt,        \* those with fail_mode "corrupt"
          Custom,         \* those whose submit_result() is called by other code
                          \* than run_once: any status, any output_hash or none
          Loops,          \* workerMain() calls of the browser's page
          LeaseTime,      \* LEASE_DEFAULT_SECONDS
          MaxCrashes,     \* bound on the deaths of the coordinator
          None

Tasks == 1..NumTasks      \* in the order of created_at
Procs == SimWorkers \cup Loops
Ids   == Procs \cup {None}   \* X-Worker-Id; None is the header left empty

ASSUME ConstantsAssumption ==
    /\ NumTasks \in Nat /\ LeaseTime \in Nat /\ MaxCrashes \in Nat
    /\ TrainingTasks \subseteq Tasks /\ Hashed \subseteq Tasks
    /\ Corrupt \cup Custom \subseteq SimWorkers /\ SimWorkers \cap Loops = {}

VARIABLES state,     \* task.state, None before the task is created
          assignee,  \* task.assigned_worker_id
          left,      \* what remains of the lease of an ASSIGNED task, -1 once past
          output     \* task.output_hash

VARIABLES up,        \* is the coordinator's process there?
          crashes,
          timedOut   \* the rows timeout_tasks returned, still to be reassigned

VARIABLES asked,     \* the request of a process that waits to be served
          answer     \* the answer it has not read yet

VARIABLES simPc, simTask

tableVars == <<state, assignee, left, output>>
coordVars == <<up, crashes, timedOut>>
wireVars  == <<asked, answer>>
simVars   == <<simPc, simTask>>

States == {"PENDING", "ASSIGNED", "COMPLETED", "FAILED", "TIMEOUT"}
Hashes == {"good", "bad"}   \* what simulated_compute returns, anything else

Requests ==
    [method : {"worker.register"}]
    \cup [method : {"task.request"}, id : Ids, wants : {"any", "simulated", "training"}]
    \cup [method : {"task.submit"}, id : Ids, task : Tasks,
          status : {"completed", "failed"}, hash : Hashes \cup {None}]
Answers ==
    [kind : {"registered", "none", "accepted", "rejected", "error"}]
    \cup [kind : {"task"}, task : Tasks]

ASSUME NoneAssumption ==
    /\ None \notin Tasks /\ None \notin Procs
    /\ None \notin States \cup Hashes
    /\ None \notin Requests /\ None \notin Answers

CoordTypeOK ==
    /\ state \in [Tasks -> States \cup {None}]
    /\ assignee \in [Tasks -> Ids]
    /\ left \in [Tasks -> -1..LeaseTime]
    /\ output \in [Tasks -> Hashes \cup {None}]
    /\ up \in BOOLEAN
    /\ crashes \in 0..MaxCrashes
    /\ timedOut \subseteq Tasks
    /\ asked \in [Procs -> Requests \cup {None}]
    /\ answer \in [Procs -> Answers \cup {None}]
    /\ simPc \in [SimWorkers -> {"new", "registering", "ready", "requesting", "working",
                                 "submitting", "dead"}]
    /\ simTask \in [SimWorkers -> Tasks \cup {None}]

CoordInit ==
    /\ state = [t \in Tasks |-> None]
    /\ assignee = [t \in Tasks |-> None]
    /\ left = [t \in Tasks |-> -1]
    /\ output = [t \in Tasks |-> None]
    /\ up = TRUE /\ crashes = 0 /\ timedOut = {}
    /\ asked = [p \in Procs |-> None]
    /\ answer = [p \in Procs |-> None]
    /\ simPc = [w \in SimWorkers |-> "new"]
    /\ simTask = [w \in SimWorkers |-> None]

-----------------------------------------------------------------------------
\* StateStore

TasksIn(s) == {t \in Tasks : state[t] = s}
\* (A name that ends in _Faulty... is a broken variant of the definition after
\* it, kept to check that the properties notice the fault.)
\* A text compared with a number, as in mark_workers_offline.
Overdue_FaultyText == {}

Overdue == {t \in TasksIn("ASSIGNED") : left[t] < 0}

\* get_pending_tasks: oldest first.
Pending(wants) ==
    {t \in TasksIn("PENDING") :
        wants = "any" \/ wants = IF t \in TrainingTasks THEN "training" ELSE "simulated"}

SetState(tasks, s) ==
    /\ state' = [t \in Tasks |-> IF t \in tasks THEN s ELSE state[t]]
    /\ left' = [t \in Tasks |-> IF t \notin tasks THEN left[t]
                                ELSE IF s = "ASSIGNED" THEN LeaseTime ELSE -1]

AssignTask(t, id) ==
    /\ SetState({t}, "ASSIGNED")
    /\ assignee' = [assignee EXCEPT ![t] = id]
    /\ UNCHANGED output

ReassignTask(t) ==
    IF state[t] \in {"TIMEOUT", "FAILED"}
    THEN /\ SetState({t}, "PENDING")
         /\ assignee' = [assignee EXCEPT ![t] = None]
         /\ UNCHANGED output
    ELSE UNCHANGED tableVars

Acceptable_FaultyLate(q) == state[q.task] \in {"ASSIGNED", "TIMEOUT"} /\ assignee[q.task] = q.id

Acceptable_FaultyOverdue(q) == state[q.task] = "ASSIGNED" /\ assignee[q.task] = q.id

\* A result is accepted from the worker the task is assigned to, in time.
Acceptable(q) ==
    /\ state[q.task] = "ASSIGNED"
    /\ assignee[q.task] = q.id
    /\ left[q.task] >= 0

\* submit_result never reads the status it is given: a result "failed", or one
\* without output_hash, completes the task as well.  Every other answer leaves
\* state, worker and output alone, the duplicate of an accepted result included.
SubmitResult(q) ==
    IF Acceptable(q)
    THEN /\ SetState({q.task}, "COMPLETED")
         /\ output' = [output EXCEPT ![q.task] = q.hash]
         /\ UNCHANGED assignee
    ELSE UNCHANGED tableVars

RejectResult_FaultyAny(q) ==
    IF state[q.task] \in {"ASSIGNED", "TIMEOUT"}
    THEN SetState({q.task}, "FAILED") /\ UNCHANGED <<assignee, output>>
    ELSE UNCHANGED tableVars

\* reject_result asks neither who the worker is nor for its lease.
RejectResult(q) ==
    IF state[q.task] = "ASSIGNED"
    THEN SetState({q.task}, "FAILED") /\ UNCHANGED <<assignee, output>>
    ELSE UNCHANGED tableVars

RecoverAfterRestart ==
    /\ SetState(TasksIn("ASSIGNED"), "TIMEOUT")
    /\ UNCHANGED <<assignee, output>>

-----------------------------------------------------------------------------
\* The handlers of the workers' requests; HTTPServer serves one at a time.

Serves(p, method) == up /\ asked[p] # None /\ asked[p].method = method

Reply(p, reply) ==
    /\ asked' = [asked EXCEPT ![p] = None]
    /\ answer' = [answer EXCEPT ![p] = reply]

HandleRegister(p) ==
    /\ Serves(p, "worker.register")
    /\ Reply(p, [kind |-> "registered"])
    /\ UNCHANGED <<tableVars, coordVars>>

HandleTaskRequest(p) ==
    /\ Serves(p, "task.request")
    /\ LET tasks == Pending(asked[p].wants) IN
         IF tasks = {}
         THEN Reply(p, [kind |-> "none"]) /\ UNCHANGED tableVars
         ELSE \E t \in tasks :
                /\ \A other \in tasks : t <= other
                /\ AssignTask(t, asked[p].id)
                /\ Reply(p, [kind |-> "task", task |-> t])
    /\ UNCHANGED coordVars

Mismatch_FaultyNever(q) == FALSE

\* The output is looked at only if the request says "completed" and carries one.
Claims(q) == q.status = "completed" /\ q.hash # None

\* The coordinator then computes the task itself, if it has an input_hash.
Mismatch(q) == q.task \in Hashed /\ Claims(q) /\ q.hash # "good"

HandleTaskSubmit(p) ==
    /\ Serves(p, "task.submit")
    /\ LET q == asked[p] IN
         IF Mismatch(q)
         THEN RejectResult(q) /\ Reply(p, [kind |-> "rejected"])
         ELSE /\ SubmitResult(q)
              /\ Reply(p, [kind |-> IF Acceptable(q) THEN "accepted" ELSE "rejected"])
    /\ UNCHANGED coordVars

\* The connection is refused.
Unreachable(p) ==
    /\ ~up /\ asked[p] # None
    /\ Reply(p, [kind |-> "error"])
    /\ UNCHANGED <<tableVars, coordVars>>

Serve(p) == HandleRegister(p) \/ HandleTaskRequest(p) \/ HandleTaskSubmit(p) \/ Unreachable(p)

\* Requests of the operator.  A request, or a round of the housekeeping thread,
\* that finds nothing to do is no step.
CreateTask(t) ==
    /\ up /\ state[t] = None
    /\ \A older \in Tasks : older < t => state[older] # None
    /\ SetState({t}, "PENDING")
    /\ UNCHANGED <<assignee, output, coordVars, wireVars>>

HandleRecover ==
    /\ up /\ TasksIn("ASSIGNED") # {}
    /\ RecoverAfterRestart
    /\ UNCHANGED <<coordVars, wireVars>>

HandleTimeoutTask(t) ==
    /\ up /\ state[t] = "ASSIGNED"
    /\ SetState({t}, "TIMEOUT")
    /\ UNCHANGED <<assignee, output, coordVars, wireVars>>

Operate == HandleRecover \/ \E t \in Tasks : CreateTask(t) \/ HandleTimeoutTask(t)

-----------------------------------------------------------------------------
\* The housekeeping thread.  mark_workers_offline compares a text with a
\* number, matches no worker, and is not modelled.

TimeoutTasks ==
    /\ up /\ timedOut = {} /\ Overdue # {}
    /\ SetState(Overdue, "TIMEOUT")
    /\ timedOut' = Overdue
    /\ UNCHANGED <<assignee, output, up, crashes, wireVars>>

Reassign(t) ==
    /\ up /\ t \in timedOut
    /\ ReassignTask(t)
    /\ timedOut' = timedOut \ {t}
    /\ UNCHANGED <<up, crashes, wireVars>>

\* Every process that waits gets an error, and so may one whose request has
\* been served.  timeout_tasks commits row by row: it may have got part of the
\* way, and its rows are forgotten.
Crash ==
    /\ up /\ crashes < MaxCrashes
    /\ up' = FALSE /\ crashes' = crashes + 1
    /\ timedOut' = {}
    /\ \E rows \in SUBSET (IF timedOut = {} THEN Overdue ELSE {}) : SetState(rows, "TIMEOUT")
    /\ \E lost \in SUBSET {p \in Procs : answer[p] # None} :
         answer' = [p \in Procs |-> IF asked[p] # None \/ p \in lost THEN [kind |-> "error"]
                                                                     ELSE answer[p]]
    /\ asked' = [p \in Procs |-> None]
    /\ UNCHANGED <<assignee, output>>

\* With or without --recover.
Restart ==
    /\ ~up /\ up' = TRUE
    /\ RecoverAfterRestart \/ UNCHANGED tableVars
    /\ UNCHANGED <<crashes, timedOut, wireVars>>

Tick ==
    /\ \E t \in Tasks : left[t] >= 0
    /\ left' = [t \in Tasks |-> IF left[t] < 0 THEN -1 ELSE left[t] - 1]
    /\ UNCHANGED <<state, assignee, output, coordVars, wireVars>>

Coordinator ==
    \/ Operate \/ TimeoutTasks \/ Crash \/ Restart \/ Tick
    \/ \E t \in Tasks : Reassign(t)
    \/ \E p \in Procs : Serve(p)

-----------------------------------------------------------------------------
\* SimulatedWorker

Ask(p, request) ==
    /\ asked' = [asked EXCEPT ![p] = request]
    /\ UNCHANGED answer

Take(p) ==
    /\ answer[p] # None
    /\ answer' = [answer EXCEPT ![p] = None]

Read(p) == Take(p) /\ UNCHANGED asked

SimGoto(w, from, to) == simPc[w] = from /\ simPc' = [simPc EXCEPT ![w] = to]

SimRegister(w) ==
    /\ SimGoto(w, "new", "registering")
    /\ Ask(w, [method |-> "worker.register"])
    /\ UNCHANGED simTask

SimRegistered(w) ==
    /\ Read(w) /\ answer[w].kind = "registered"
    /\ SimGoto(w, "registering", "ready")
    /\ UNCHANGED simTask

SimRequest(w) ==
    /\ SimGoto(w, "ready", "requesting")
    /\ Ask(w, [method |-> "task.request", id |-> w, wants |-> "any"])
    /\ UNCHANGED simTask

SimIdle(w) ==
    /\ Read(w) /\ answer[w].kind = "none"
    /\ SimGoto(w, "requesting", "ready")
    /\ UNCHANGED simTask

SimGotTask(w) ==
    /\ Read(w) /\ answer[w].kind = "task"
    /\ SimGoto(w, "requesting", "working")
    /\ simTask' = [simTask EXCEPT ![w] = answer[w].task]

\* What a worker may say of a task: status and output_hash of submit_result().
\* run_once leaves the status at its default, "completed".
Reports(w) ==
    IF w \in Custom THEN {"completed", "failed"} \X (Hashes \cup {None})
    ELSE {<<"completed", IF w \in Corrupt THEN "bad" ELSE "good">>}

SimSubmit(w) ==
    /\ SimGoto(w, "working", "submitting")
    /\ \E r \in Reports(w) :
         Ask(w, [method |-> "task.submit", id |-> w, task |-> simTask[w],
                 status |-> r[1], hash |-> r[2]])
    /\ UNCHANGED simTask

SimTold(w) ==
    /\ Read(w) /\ answer[w].kind \in {"accepted", "rejected"}
    /\ SimGoto(w, "submitting", "ready")
    /\ simTask' = [simTask EXCEPT ![w] = None]

\* No exception is caught: an error or the 30 s timeout of urlopen end the
\* process, as do max_tasks, fail_mode "disappear", or a kill.
SimEnds(w) ==
    /\ simPc[w] # "dead"
    /\ simPc' = [simPc EXCEPT ![w] = "dead"]
    /\ simTask' = [simTask EXCEPT ![w] = None]
    /\ answer' = [answer EXCEPT ![w] = None]
    /\ UNCHANGED asked

SimWorker(w) ==
    /\ \/ SimRegister(w) \/ SimRegistered(w) \/ SimRequest(w) \/ SimIdle(w)
       \/ SimGotTask(w) \/ SimSubmit(w) \/ SimTold(w) \/ SimEnds(w)
    /\ UNCHANGED <<tableVars, coordVars>>
=============================================================================
