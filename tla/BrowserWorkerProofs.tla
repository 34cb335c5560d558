-------------------------- MODULE BrowserWorkerProofs --------------------------
(***************************************************************************)
(* Proofs about the task coordinator with all its workers (BrowserWorker), *)
(* for any number of tasks, processes, loops and crashes: types, the rows  *)
(* the housekeeping thread is about to reassign, the outputs of completed  *)
(* tasks, and the declared table of task states.                           *)
(***************************************************************************)
EXTENDS BrowserWorker, TLAPS

-----------------------------------------------------------------------------
\* What a step does to the task table

\* The effects a step may have on the task table; left is not constrained.
Kept     == UNCHANGED <<state, assignee, output>>
Created  == \E t \in Tasks : /\ state[t] = None
                             /\ state' = [state EXCEPT ![t] = "PENDING"]
                             /\ UNCHANGED <<assignee, output>>
Assigned == \E t \in Tasks, id \in Ids : /\ state[t] = "PENDING"
                                         /\ state' = [state EXCEPT ![t] = "ASSIGNED"]
                                         /\ assignee' = [assignee EXCEPT ![t] = id]
                                         /\ UNCHANGED output
Completed == \E t \in Tasks, h \in Hashes \cup {None} :
               /\ state[t] = "ASSIGNED"
               /\ t \in Hashed => h = "good" \/ assignee[t] \in Custom
               /\ state' = [state EXCEPT ![t] = "COMPLETED"]
               /\ output' = [output EXCEPT ![t] = h]
               /\ UNCHANGED assignee
Failed   == \E t \in Tasks : /\ state[t] = "ASSIGNED"
                             /\ state' = [state EXCEPT ![t] = "FAILED"]
                             /\ UNCHANGED <<assignee, output>>
TimedOut == \E rows \in SUBSET TasksIn("ASSIGNED") :
               /\ state' = [t \in Tasks |-> IF t \in rows THEN "TIMEOUT" ELSE state[t]]
               /\ UNCHANGED <<assignee, output>>
Returned == \E t \in timedOut \cap Tasks :
               /\ state[t] \in {"TIMEOUT", "FAILED"}
               /\ timedOut' = timedOut \ {t}
               /\ state' = [state EXCEPT ![t] = "PENDING"]
               /\ assignee' = [assignee EXCEPT ![t] = None]
               /\ UNCHANGED output

TableStep == Kept \/ Created \/ Assigned \/ Completed \/ Failed \/ TimedOut \/ Returned

TablesOK ==
    /\ state \in [Tasks -> States \cup {None}]
    /\ assignee \in [Tasks -> Ids]
    /\ left \in [Tasks -> -1..LeaseTime]
    /\ output \in [Tasks -> Hashes \cup {None}]

\* What the processes ask: a result that claims nothing to compare is sent by a
\* worker of other code than run_once, under its own id.
Asks == {q \in Requests : q.method = "task.submit" => Claims(q) \/ q.id \in Custom}

CoordOK == up \in BOOLEAN /\ crashes \in 0..MaxCrashes /\ timedOut \subseteq Tasks
WireOK ==
    /\ asked \in [Procs -> Asks \cup {None}]
    /\ answer \in [Procs -> Answers \cup {None}]

\* Setting the state of some tasks keeps the table well typed.
LEMMA SetStateType ==
    ASSUME TablesOK, NEW tasks, NEW s \in States, SetState(tasks, s)
    PROVE  /\ state' = [t \in Tasks |-> IF t \in tasks THEN s ELSE state[t]]
           /\ state' \in [Tasks -> States \cup {None}]
           /\ left' \in [Tasks -> -1..LeaseTime]
<1>1. LeaseTime \in -1..LeaseTime /\ -1 \in -1..LeaseTime
  BY ConstantsAssumption
<1>2. QED
  BY <1>1 DEF SetState, TablesOK

\* The request of a process that is being served, by its method.
LEMMA AskedType ==
    ASSUME WireOK, NEW p \in Procs, asked[p] # None
    PROVE  /\ asked[p].method = "task.request" => asked[p].id \in Ids
           /\ asked[p].method = "task.submit" =>
                 /\ asked[p].id \in Ids /\ asked[p].task \in Tasks
                 /\ asked[p].hash \in Hashes \cup {None}
                 /\ Claims(asked[p]) \/ asked[p].id \in Custom
<1>1. asked[p] \in Asks
  BY DEF WireOK
<1>2. QED
  BY <1>1 DEF Asks, Requests

\* A reply to a process keeps the queues well typed.
LEMMA ReplyType ==
    ASSUME WireOK, NEW p \in Procs, NEW reply \in Answers, Reply(p, reply)
    PROVE  WireOK'
BY DEF Reply, WireOK

\* Serving a request has one of the effects, and keeps the types.
LEMMA ServeStep ==
    ASSUME TablesOK, CoordOK, WireOK, NEW p \in Procs, Serve(p)
    PROVE  TableStep /\ UNCHANGED coordVars /\ TablesOK' /\ WireOK'
<1>1. CASE HandleRegister(p)
  <2>1. [kind |-> "registered"] \in Answers
    BY DEF Answers
  <2>2. QED
    BY <1>1, <2>1, ReplyType DEF HandleRegister, tableVars, TableStep, Kept, TablesOK
<1>2. CASE HandleTaskRequest(p)
  <2>1. asked[p].id \in Ids
    BY <1>2, AskedType DEF HandleTaskRequest, Serves
  <2>2. CASE Reply(p, [kind |-> "none"]) /\ UNCHANGED tableVars
    <3>1. [kind |-> "none"] \in Answers
      BY DEF Answers
    <3>2. QED
      BY <1>2, <2>2, <3>1, ReplyType DEF HandleTaskRequest, tableVars, TableStep, Kept, TablesOK
  <2>3. ASSUME NEW t \in Pending(asked[p].wants), AssignTask(t, asked[p].id),
               Reply(p, [kind |-> "task", task |-> t])
        PROVE  TableStep /\ TablesOK' /\ WireOK'
    <3>1. t \in Tasks /\ state[t] = "PENDING"
      BY DEF Pending, TasksIn
    <3>2. [kind |-> "task", task |-> t] \in Answers
      BY <3>1 DEF Answers
    <3>3. WireOK'
      BY <2>3, <3>2, ReplyType
    <3>4. /\ state' = [x \in Tasks |-> IF x \in {t} THEN "ASSIGNED" ELSE state[x]]
          /\ state' \in [Tasks -> States \cup {None}] /\ left' \in [Tasks -> -1..LeaseTime]
      BY <2>3, SetStateType DEF AssignTask, States
    <3>5. state' = [state EXCEPT ![t] = "ASSIGNED"]
      BY <3>4 DEF TablesOK
    <3>6. assignee' = [assignee EXCEPT ![t] = asked[p].id] /\ UNCHANGED output
      BY <2>3 DEF AssignTask
    <3>7. Assigned
      BY <2>1, <3>1, <3>5, <3>6 DEF Assigned
    <3>8. TablesOK'
      BY <2>1, <3>4, <3>6 DEF TablesOK
    <3>9. QED
      BY <3>3, <3>7, <3>8 DEF TableStep
  <2>4. QED
    BY <1>2, <2>2, <2>3 DEF HandleTaskRequest
<1>3. CASE HandleTaskSubmit(p)
  <2> DEFINE q == asked[p]
  <2>1. q.task \in Tasks /\ q.hash \in Hashes \cup {None} /\ (Claims(q) \/ q.id \in Custom)
    BY <1>3, AskedType DEF HandleTaskSubmit, Serves
  <2>2. [kind |-> "accepted"] \in Answers /\ [kind |-> "rejected"] \in Answers
    BY DEF Answers
  <2>3. WireOK'
    BY <1>3, <2>2, ReplyType DEF HandleTaskSubmit
  <2>4. CASE UNCHANGED tableVars
    BY <1>3, <2>3, <2>4 DEF HandleTaskSubmit, tableVars, TableStep, Kept, TablesOK
  <2>5. CASE ~Mismatch(q) /\ Acceptable(q) /\ SubmitResult(q)
    <3>1. SetState({q.task}, "COMPLETED") /\ state[q.task] = "ASSIGNED"
          /\ assignee[q.task] = q.id
          /\ output' = [output EXCEPT ![q.task] = q.hash] /\ UNCHANGED assignee
      BY <2>5 DEF SubmitResult, Acceptable
    <3>2. /\ state' = [x \in Tasks |-> IF x \in {q.task} THEN "COMPLETED" ELSE state[x]]
          /\ state' \in [Tasks -> States \cup {None}] /\ left' \in [Tasks -> -1..LeaseTime]
      BY <3>1, SetStateType DEF States
    <3>3. state' = [state EXCEPT ![q.task] = "COMPLETED"]
      BY <3>2 DEF TablesOK
    <3>4. Completed
      BY <2>1, <2>5, <3>1, <3>3 DEF Completed, Mismatch
    <3>5. TablesOK'
      BY <2>1, <3>1, <3>2 DEF TablesOK
    <3>6. QED
      BY <1>3, <2>3, <3>4, <3>5 DEF HandleTaskSubmit, TableStep
  <2>6. CASE state[q.task] = "ASSIGNED" /\ RejectResult(q)
    <3>1. SetState({q.task}, "FAILED") /\ UNCHANGED <<assignee, output>>
      BY <2>6 DEF RejectResult
    <3>2. /\ state' = [x \in Tasks |-> IF x \in {q.task} THEN "FAILED" ELSE state[x]]
          /\ state' \in [Tasks -> States \cup {None}] /\ left' \in [Tasks -> -1..LeaseTime]
      BY <3>1, SetStateType DEF States
    <3>3. state' = [state EXCEPT ![q.task] = "FAILED"]
      BY <3>2 DEF TablesOK
    <3>4. Failed
      BY <2>1, <2>6, <3>1, <3>3 DEF Failed
    <3>5. TablesOK'
      BY <3>1, <3>2 DEF TablesOK
    <3>6. QED
      BY <1>3, <2>3, <3>4, <3>5 DEF HandleTaskSubmit, TableStep
  <2>7. QED
    BY <1>3, <2>4, <2>5, <2>6 DEF HandleTaskSubmit, SubmitResult, RejectResult
<1>4. CASE Unreachable(p)
  <2>1. [kind |-> "error"] \in Answers
    BY DEF Answers
  <2>2. QED
    BY <1>4, <2>1, ReplyType DEF Unreachable, tableVars, TableStep, Kept, TablesOK
<1>5. QED
  BY <1>1, <1>2, <1>3, <1>4 DEF Serve

\* Timing out some ASSIGNED rows is one of the effects.
LEMMA TimeOutRows ==
    ASSUME TablesOK, NEW rows \in SUBSET TasksIn("ASSIGNED"), SetState(rows, "TIMEOUT"),
           UNCHANGED <<assignee, output>>
    PROVE  TimedOut /\ TablesOK'
<1>1. /\ state' = [t \in Tasks |-> IF t \in rows THEN "TIMEOUT" ELSE state[t]]
      /\ state' \in [Tasks -> States \cup {None}] /\ left' \in [Tasks -> -1..LeaseTime]
  BY SetStateType DEF States
<1>2. TablesOK'
  BY <1>1 DEF TablesOK
<1>3. QED
  BY <1>1, <1>2 DEF TimedOut

\* Every step of the coordinator has one of the effects and keeps the types.
LEMMA CoordinatorStep ==
    ASSUME TablesOK, CoordOK, WireOK, Coordinator
    PROVE  TableStep /\ TablesOK' /\ CoordOK' /\ WireOK'
<1>1. ASSUME NEW p \in Procs, Serve(p)
      PROVE  TableStep /\ TablesOK' /\ CoordOK' /\ WireOK'
  BY <1>1, ServeStep DEF CoordOK, coordVars
<1>2. ASSUME NEW t \in Tasks, CreateTask(t)
      PROVE  TableStep /\ TablesOK' /\ CoordOK' /\ WireOK'
  <2>1. SetState({t}, "PENDING") /\ state[t] = None
        /\ UNCHANGED <<assignee, output, coordVars, wireVars>>
    BY <1>2 DEF CreateTask
  <2>2. /\ state' = [x \in Tasks |-> IF x \in {t} THEN "PENDING" ELSE state[x]]
        /\ state' \in [Tasks -> States \cup {None}] /\ left' \in [Tasks -> -1..LeaseTime]
    BY <2>1, SetStateType DEF States
  <2>3. state' = [state EXCEPT ![t] = "PENDING"]
    BY <2>2 DEF TablesOK
  <2>4. Created
    BY <2>1, <2>3 DEF Created
  <2>5. QED
    BY <2>1, <2>2, <2>4 DEF TableStep, TablesOK, CoordOK, WireOK, coordVars, wireVars
<1>3. CASE HandleRecover
  BY <1>3, TimeOutRows
     DEF HandleRecover, RecoverAfterRestart, TableStep, CoordOK, WireOK, coordVars, wireVars
<1>4. ASSUME NEW t \in Tasks, HandleTimeoutTask(t)
      PROVE  TableStep /\ TablesOK' /\ CoordOK' /\ WireOK'
  <2>1. {t} \in SUBSET TasksIn("ASSIGNED")
    BY <1>4 DEF HandleTimeoutTask, TasksIn
  <2>2. QED
    BY <1>4, <2>1, TimeOutRows
       DEF HandleTimeoutTask, TableStep, CoordOK, WireOK, coordVars, wireVars
<1>5. CASE TimeoutTasks
  <2>1. Overdue \in SUBSET TasksIn("ASSIGNED") /\ Overdue \subseteq Tasks
    BY DEF Overdue, TasksIn
  <2>2. QED
    BY <1>5, <2>1, TimeOutRows DEF TimeoutTasks, TableStep, CoordOK, WireOK, wireVars
<1>6. ASSUME NEW t \in Tasks, Reassign(t)
      PROVE  TableStep /\ TablesOK' /\ CoordOK' /\ WireOK'
  <2>1. UNCHANGED wireVars /\ timedOut' = timedOut \ {t} /\ UNCHANGED <<up, crashes>>
    BY <1>6 DEF Reassign
  <2>2. CASE UNCHANGED tableVars
    BY <2>1, <2>2 DEF tableVars, TableStep, Kept, TablesOK, CoordOK, WireOK, wireVars
  <2>3. CASE /\ state[t] \in {"TIMEOUT", "FAILED"} /\ SetState({t}, "PENDING")
             /\ assignee' = [assignee EXCEPT ![t] = None] /\ UNCHANGED output
    <3>1. /\ state' = [x \in Tasks |-> IF x \in {t} THEN "PENDING" ELSE state[x]]
          /\ state' \in [Tasks -> States \cup {None}] /\ left' \in [Tasks -> -1..LeaseTime]
      BY <2>3, SetStateType DEF States
    <3>2. state' = [state EXCEPT ![t] = "PENDING"]
      BY <3>1 DEF TablesOK
    <3>3. Returned
      BY <1>6, <2>1, <2>3, <3>2 DEF Returned, Reassign
    <3>4. TablesOK'
      BY <2>3, <3>1 DEF TablesOK, Ids
    <3>5. QED
      BY <2>1, <3>3, <3>4 DEF TableStep, CoordOK, WireOK, wireVars
  <2>4. QED
    BY <1>6, <2>2, <2>3 DEF Reassign, ReassignTask
<1>7. CASE Crash
  <2>1. PICK rows \in SUBSET (IF timedOut = {} THEN Overdue ELSE {}) : SetState(rows, "TIMEOUT")
    BY <1>7 DEF Crash
  <2>2. rows \in SUBSET TasksIn("ASSIGNED")
    BY DEF Overdue
  <2>3. TimedOut /\ TablesOK'
    BY <1>7, <2>1, <2>2, TimeOutRows DEF Crash
  <2>4. [kind |-> "error"] \in Answers
    BY DEF Answers
  <2>5. WireOK'
    BY <1>7, <2>4 DEF Crash, WireOK
  <2>6. CoordOK'
    <3>1. up' = FALSE /\ crashes < MaxCrashes /\ crashes' = crashes + 1 /\ timedOut' = {}
      BY <1>7 DEF Crash
    <3>2. MaxCrashes \in Nat
      BY ConstantsAssumption
    <3>3. crashes' \in 0..MaxCrashes
      BY <3>1, <3>2 DEF CoordOK
    <3>4. up' \in BOOLEAN /\ timedOut' \subseteq Tasks
      BY <3>1
    <3>5. QED
      BY <3>3, <3>4 DEF CoordOK
  <2>7. QED
    BY <2>3, <2>5, <2>6 DEF TableStep
<1>8. CASE Restart
  <2>1. CASE UNCHANGED tableVars
    BY <1>8, <2>1 DEF Restart, tableVars, TableStep, Kept, TablesOK, CoordOK, WireOK, wireVars
  <2>2. CASE RecoverAfterRestart
    BY <1>8, <2>2, TimeOutRows
       DEF Restart, RecoverAfterRestart, TableStep, CoordOK, WireOK, wireVars
  <2>3. QED
    BY <1>8, <2>1, <2>2 DEF Restart
<1>9. CASE Tick
  <2>1. left' \in [Tasks -> -1..LeaseTime]
    BY <1>9, ConstantsAssumption DEF Tick, TablesOK
  <2>2. QED
    BY <1>9, <2>1 DEF Tick, TableStep, Kept, TablesOK, CoordOK, WireOK, coordVars, wireVars
<1>10. QED
  BY <1>1, <1>2, <1>3, <1>4, <1>5, <1>6, <1>7, <1>8, <1>9 DEF Coordinator, Operate

-----------------------------------------------------------------------------
\* The types of the workers and of the page

SimOK ==
    /\ simPc \in [SimWorkers -> {"new", "registering", "ready", "requesting", "working",
                                 "submitting", "dead"}]
    /\ simTask \in [SimWorkers -> Tasks \cup {None}]
    /\ \A w \in SimWorkers : simPc[w] = "working" => simTask[w] \in Tasks
PageOK ==
    /\ ui \in [shown : WorkerStates, buttons : SUBSET Buttons]
    /\ cancelled \in BOOLEAN /\ paused \in BOOLEAN
    /\ rpcId \in Loops \cup {None}
LoopOK ==
    /\ loopPc \in [Loops -> Awaits]
    /\ loopTask \in [Loops -> Tasks \cup {None}]
    /\ \A l \in Loops : loopPc[l] \in {"computing", "finishing"} => loopTask[l] \in Tasks

Typed == TablesOK /\ CoordOK /\ WireOK /\ SimOK /\ PageOK /\ LoopOK

\* The parts are the type invariant and what the loops rely on.
LEMMA TypedParts == Typed => TypeOK
BY DEF Typed, TypeOK, CoordTypeOK, TablesOK, CoordOK, WireOK, Asks, SimOK, PageOK, LoopOK

\* What an answer of a kind holds.
LEMMA AnswerType ==
    ASSUME WireOK, NEW p \in Procs, Take(p)
    PROVE  /\ answer[p].kind = "task" => answer[p].task \in Tasks
           /\ answer' \in [Procs -> Answers \cup {None}]
<1>1. answer[p] \in Answers
  BY DEF WireOK, Take
<1>2. QED
  BY <1>1 DEF Answers, Take, WireOK

\* Every step of a simulated worker keeps the types.
LEMMA SimStep ==
    ASSUME WireOK, SimOK, NEW w \in SimWorkers, SimWorker(w)
    PROVE  WireOK' /\ SimOK'
<1> USE DEF Procs
<1>1. ASSUME SimRegistered(w) \/ SimIdle(w) \/ SimTold(w) \/ SimEnds(w)
      PROVE  WireOK' /\ SimOK'
  BY <1>1, AnswerType
     DEF SimRegistered, SimIdle, SimTold, SimEnds, Read, SimGoto, Take, WireOK, SimOK
<1>2. CASE SimGotTask(w)
  BY <1>2, AnswerType DEF SimGotTask, Read, SimGoto, WireOK, SimOK
<1>3. ASSUME NEW r \in Asks, Ask(w, r) PROVE WireOK'
  BY <1>3 DEF Ask, WireOK
<1>4. CASE SimRegister(w)
  <2>1. [method |-> "worker.register"] \in Asks
    BY DEF Asks, Requests
  <2>2. QED
    BY <1>3, <1>4, <2>1 DEF SimRegister, SimGoto, SimOK
<1>5. CASE SimRequest(w)
  <2>1. [method |-> "task.request", id |-> w, wants |-> "any"] \in Asks
    BY DEF Asks, Requests, Ids
  <2>2. QED
    BY <1>3, <1>5, <2>1 DEF SimRequest, SimGoto, SimOK
<1>6. CASE SimSubmit(w)
  <2>1. simTask[w] \in Tasks
    BY <1>6 DEF SimSubmit, SimGoto, SimOK
  <2>2. ASSUME NEW r \in Reports(w)
        PROVE  [method |-> "task.submit", id |-> w, task |-> simTask[w],
                status |-> r[1], hash |-> r[2]] \in Asks
    <3>1. /\ r[1] \in {"completed", "failed"} /\ r[2] \in Hashes \cup {None}
          /\ (r[1] = "completed" /\ r[2] # None) \/ w \in Custom
      BY NoneAssumption DEF Reports, Hashes
    <3>2. QED
      BY <2>1, <3>1 DEF Asks, Requests, Ids, Claims
  <2>3. QED
    BY <1>3, <1>6, <2>2 DEF SimSubmit, SimGoto, SimOK
<1>7. QED
  BY <1>1, <1>2, <1>4, <1>5, <1>6 DEF SimWorker

\* What the state machine and the page show is a state and enabled buttons.
LEMMA EmitType ==
    ASSUME NEW u \in [shown : WorkerStates, buttons : SUBSET Buttons], NEW to \in WorkerStates
    PROVE  Emit(u, to) \in [shown : WorkerStates, buttons : SUBSET Buttons]
<1> DEFINE s == IF to \in VALID_TRANSITIONS[u.shown] THEN to ELSE u.shown
<1>1. s \in WorkerStates
  OBVIOUS
<1>2. QED
  BY <1>1 DEF Emit, Buttons

\* So does a "result" or "error" message.
LEMMA TellType ==
    ASSUME NEW u \in [shown : WorkerStates, buttons : SUBSET Buttons]
    PROVE  Tell(u) \in [shown : WorkerStates, buttons : SUBSET Buttons]
BY DEF Tell, Buttons

\* The head of the main loop keeps the page, the loop and the queues typed.
LEMMA LoopHeadType ==
    ASSUME WireOK, PageOK, NEW l \in Loops, NEW stop \in BOOLEAN, NEW id \in Loops \cup {None},
           NEW u \in [shown : WorkerStates, buttons : SUBSET Buttons],
           loopPc \in [Loops -> Awaits], LoopHead(l, u, stop, id)
    PROVE  /\ ui' \in [shown : WorkerStates, buttons : SUBSET Buttons]
           /\ \E next \in {"ended", "retrying", "requesting"} : Goto(l, next)
           /\ asked' \in [Procs -> Asks \cup {None}]
<1>1. Emit(u, "REQUESTING_TASK") \in [shown : WorkerStates, buttons : SUBSET Buttons]
  BY EmitType DEF WorkerStates
<1>2. [method |-> "task.request", id |-> id, wants |-> "simulated"] \in Asks
  BY DEF Asks, Requests, Ids, Procs
<1>3. QED
  BY <1>1, <1>2 DEF LoopHead, WireOK, Procs

\* A loop goes on to a step at which it works on no task.
LEMMA GotoType ==
    ASSUME LoopOK, NEW l \in Loops, NEW next \in Awaits, Goto(l, next),
           loopTask' \in [Loops -> Tasks \cup {None}],
           \A k \in Loops \ {l} : loopTask'[k] = loopTask[k],
           next \in {"computing", "finishing"} => loopTask'[l] \in Tasks
    PROVE  LoopOK'
BY DEF LoopOK, Goto

\* Every turn of a loop keeps the types.
LEMMA LoopStep ==
    ASSUME TablesOK, CoordOK, WireOK, PageOK, LoopOK, NEW l \in Loops, Loop(l)
    PROVE  WireOK' /\ PageOK' /\ LoopOK'
<1> DEFINE Uis == [shown : WorkerStates, buttons : SUBSET Buttons]
<1> l \in Procs
  BY DEF Procs
<1>0. /\ ui \in Uis /\ cancelled \in BOOLEAN /\ paused \in BOOLEAN /\ rpcId \in Loops \cup {None}
      /\ loopPc \in [Loops -> Awaits] /\ loopTask \in [Loops -> Tasks \cup {None}]
  BY DEF PageOK, LoopOK
<1>a. \A to \in WorkerStates : Emit(ui, to) \in Uis /\ Emit(Tell(ui), to) \in Uis
  BY <1>0, EmitType, TellType
<1>b. Take(l) => answer' \in [Procs -> Answers \cup {None}]
  BY AnswerType
<1>c. KeepTask => /\ UNCHANGED <<cancelled, paused>>
                  /\ loopTask' \in [Loops -> Tasks \cup {None}]
                  /\ \A k \in Loops : loopTask'[k] = loopTask[k]
  BY <1>0 DEF KeepTask
<1>d. CleanUp(l) => /\ cancelled' = FALSE /\ paused' = FALSE
                    /\ loopTask' \in [Loops -> Tasks \cup {None}]
                    /\ \A k \in Loops \ {l} : loopTask'[k] = loopTask[k]
  BY <1>0 DEF CleanUp
<1>e. UNCHANGED answer => answer' \in [Procs -> Answers \cup {None}]
  BY DEF WireOK
<1>f. UNCHANGED asked => asked' \in [Procs -> Asks \cup {None}]
  BY DEF WireOK
<1> HIDE DEF Uis
<1>g. ASSUME NEW u \in Uis, NEW stop \in BOOLEAN, NEW id \in Loops \cup {None},
             LoopHead(l, u, stop, id), KeepTask \/ CleanUp(l)
      PROVE  /\ ui' \in Uis /\ asked' \in [Procs -> Asks \cup {None}] /\ LoopOK'
             /\ cancelled' \in BOOLEAN /\ paused' \in BOOLEAN
  <2>1. /\ ui' \in Uis /\ \E next \in {"ended", "retrying", "requesting"} : Goto(l, next)
        /\ asked' \in [Procs -> Asks \cup {None}]
    BY <1>0, <1>g, LoopHeadType DEF Uis
  <2>2. LoopOK'
    BY <1>c, <1>d, <1>g, <2>1, GotoType DEF Awaits
  <2>3. QED
    BY <1>0, <1>c, <1>d, <1>g, <2>1, <2>2
<1>h. ASSUME NEW u \in Uis, EndTask(l, u)
      PROVE  /\ ui' \in Uis /\ asked' \in [Procs -> Asks \cup {None}] /\ LoopOK'
             /\ cancelled' \in BOOLEAN /\ paused' \in BOOLEAN
  <2>1. Emit(u, "IDLE") \in Uis
    BY EmitType DEF Uis, WorkerStates
  <2>2. QED
    BY <1>0, <1>g, <1>h, <2>1 DEF EndTask
<1>i. ASSUME NEW next \in Awaits \ {"computing", "finishing"}, Goto(l, next), KeepTask
      PROVE  LoopOK' /\ UNCHANGED <<cancelled, paused>>
  BY <1>c, <1>i, GotoType
<1>1. ASSUME Registered(l) \/ NotRegistered(l) \/ Awake(l)
      PROVE  WireOK' /\ PageOK' /\ LoopOK'
  <2>1. rpcId' \in Loops \cup {None} /\ answer' \in [Procs -> Answers \cup {None}]
    BY <1>0, <1>1, <1>b, <1>e DEF Registered, NotRegistered, Awake, Receives
  <2>2. \E u \in Uis, id \in Loops \cup {None} : LoopHead(l, u, cancelled, id) /\ KeepTask
    BY <1>0, <1>1, <1>a DEF Registered, NotRegistered, Awake, WorkerStates
  <2>3. QED
    BY <1>0, <1>g, <2>1, <2>2 DEF WireOK, PageOK, Uis
<1>2. ASSUME NoTask(l) \/ NotSubmitted(l) \/ NotRequested(l) \/ Drop(l)
      PROVE  WireOK' /\ PageOK' /\ LoopOK'
  <2>1. /\ rpcId' = rpcId /\ asked' = asked /\ KeepTask
        /\ answer' \in [Procs -> Answers \cup {None}]
    BY <1>2, <1>b, <1>e DEF NoTask, NotSubmitted, NotRequested, Drop, Receives, wireVars
  <2>2. ui' \in Uis
    BY <1>2, <1>a DEF NoTask, NotSubmitted, NotRequested, Drop, WorkerStates
  <2>3. \E next \in {"sleeping", "retryingSubmit", "retryingRequest", "dropping"} : Goto(l, next)
    BY <1>2 DEF NoTask, NotSubmitted, NotRequested, Drop
  <2>4. QED
    BY <1>0, <1>f, <1>i, <2>1, <2>2, <2>3 DEF WireOK, PageOK, Uis, Awaits
<1>3. CASE GotTask(l)
  <2>1. answer[l].task \in Tasks /\ answer' \in [Procs -> Answers \cup {None}]
    BY <1>3, AnswerType DEF GotTask, Receives
  <2>2. /\ ui' \in Uis /\ cancelled' = FALSE /\ paused' = FALSE /\ UNCHANGED <<asked, rpcId>>
        /\ loopTask' = [loopTask EXCEPT ![l] = answer[l].task]
        /\ \E next \in {"computing", "finishing"} : Goto(l, next)
    BY <1>3, <1>a DEF GotTask, WorkerStates
  <2>3. LoopOK'
    BY <1>0, <2>1, <2>2, GotoType DEF Awaits
  <2>4. QED
    BY <1>0, <1>f, <2>1, <2>2, <2>3 DEF WireOK, PageOK, Uis
<1>4. CASE Step(l)
  <2>1. loopTask[l] \in Tasks
    BY <1>4 DEF Step, LoopOK
  <2>2. Goto(l, "finishing") /\ KeepTask /\ UNCHANGED <<asked, answer, ui, rpcId>>
    BY <1>4 DEF Step, wireVars
  <2>3. LoopOK'
    BY <1>c, <2>1, <2>2, GotoType DEF Awaits
  <2>4. QED
    BY <1>0, <1>c, <1>e, <1>f, <2>2, <2>3 DEF WireOK, PageOK, Uis
<1>5. CASE Submit(l)
  <2>1. [method |-> "task.submit", id |-> rpcId, task |-> loopTask[l],
         status |-> "completed", hash |-> "good"] \in Asks
    BY <1>0, <1>5, NoneAssumption DEF Submit, LoopOK, Asks, Requests, Ids, Procs, Hashes, Claims
  <2>2. asked' \in [Procs -> Asks \cup {None}]
    BY <1>5, <2>1 DEF Submit, WireOK
  <2>3. /\ ui' \in Uis /\ Goto(l, "submitting") /\ KeepTask /\ UNCHANGED <<answer, rpcId>>
    BY <1>5, <1>a DEF Submit, WorkerStates
  <2>4. QED
    BY <1>0, <1>e, <1>i, <2>2, <2>3 DEF WireOK, PageOK, Uis, Awaits
<1>6. ASSUME Dropped(l) \/ Submitted(l)
      PROVE  WireOK' /\ PageOK' /\ LoopOK'
  <2>1. Tell(ui) \in Uis
    BY <1>0, TellType DEF Uis
  <2>2. \E u \in Uis : EndTask(l, u)
    BY <1>0, <1>6, <2>1 DEF Dropped, Submitted
  <2>3. rpcId' = rpcId /\ answer' \in [Procs -> Answers \cup {None}]
    BY <1>6, <1>b, <1>e DEF Dropped, Submitted, Receives
  <2>4. QED
    BY <1>0, <1>h, <2>2, <2>3 DEF WireOK, PageOK, Uis
<1>7. CASE Retried(l)
  <2>1. \E u \in Uis, stop \in BOOLEAN :
           \/ LoopHead(l, u, stop, rpcId) /\ KeepTask
           \/ EndTask(l, u)
    <3> DEFINE u == Emit(ui, IF up THEN "IDLE" ELSE "DISCONNECTED")
    <3>1. u \in Uis
      BY <1>a DEF WorkerStates
    <3>2. (cancelled \/ u.shown = "DISCONNECTED") \in BOOLEAN
      BY <1>0
    <3> HIDE DEF u
    <3>3. \/ LoopHead(l, u, cancelled \/ u.shown = "DISCONNECTED", rpcId) /\ KeepTask
          \/ LoopHead(l, u, cancelled, rpcId) /\ KeepTask
          \/ EndTask(l, u)
      BY <1>7 DEF Retried, u
    <3>4. QED
      BY <1>0, <3>1, <3>2, <3>3
  <2>2. rpcId' = rpcId /\ answer' = answer
    BY <1>7 DEF Retried
  <2>3. QED
    BY <1>0, <1>e, <1>g, <1>h, <2>1, <2>2 DEF WireOK, PageOK, Uis
<1>8. QED
  BY <1>1, <1>2, <1>3, <1>4, <1>5, <1>6, <1>7 DEF Loop

\* A click, or closing the page, keeps the types.
LEMMA MessageStep ==
    ASSUME WireOK, PageOK, LoopOK, Message
    PROVE  WireOK' /\ PageOK' /\ LoopOK'
<1> DEFINE Uis == [shown : WorkerStates, buttons : SUBSET Buttons]
<1>1. ASSUME NEW l \in Loops, Start(l)
      PROVE  WireOK' /\ PageOK' /\ LoopOK'
  <2>1. [method |-> "worker.register"] \in Asks
    BY DEF Asks, Requests
  <2>2. WireOK'
    BY <1>1, <2>1 DEF Start, Ask, WireOK, Procs
  <2>3. [ui EXCEPT !.buttons = {"cancel", "pause"}] \in Uis
    BY DEF PageOK, Buttons
  <2>4. ui' \in Uis
    BY <1>1, <2>3, EmitType DEF Start, WorkerStates
  <2>5. LoopOK'
    BY <1>1, GotoType DEF Start, LoopOK, Awaits
  <2>6. cancelled' = FALSE /\ UNCHANGED <<paused, rpcId>>
    BY <1>1 DEF Start
  <2>7. QED
    BY <2>2, <2>4, <2>5, <2>6 DEF PageOK
<1>2. CASE Cancel \/ Pause \/ Resume
  <2>1. ui' \in Uis
    BY <1>2, EmitType DEF Cancel, Pause, Resume, PageOK, WorkerStates, Buttons
  <2>2. cancelled' \in BOOLEAN /\ paused' \in BOOLEAN
    BY <1>2 DEF Cancel, Pause, Resume, PageOK
  <2>3. UNCHANGED <<rpcId, asked, answer, loopPc, loopTask>>
    BY <1>2 DEF Cancel, Pause, Resume, loopVars, wireVars
  <2>4. QED
    BY <2>1, <2>2, <2>3 DEF WireOK, PageOK, LoopOK
<1>3. CASE Close
  <2>1. WireOK'
    BY <1>3 DEF Close, WireOK
  <2>2. LoopOK'
    BY <1>3 DEF Close, LoopOK, Awaits
  <2>3. PageOK'
    BY <1>3 DEF Close, PageOK, WorkerStates
  <2>4. QED
    BY <2>1, <2>2, <2>3
<1>4. QED
  BY <1>1, <1>2, <1>3 DEF Message

\* Every step has one of the effects on the task table and keeps the types.
LEMMA TypedStep ==
    ASSUME Typed, [Next]_vars
    PROVE  Typed' /\ TableStep
<1> USE DEF Typed
<1>1. CASE Coordinator /\ UNCHANGED <<simVars, pageVars, loopVars>>
  <2>1. TableStep /\ TablesOK' /\ CoordOK' /\ WireOK'
    BY <1>1, CoordinatorStep
  <2>2. SimOK' /\ LoopOK'
    BY <1>1 DEF simVars, loopVars, SimOK, LoopOK
  <2>3. PageOK'
    BY <1>1 DEF pageVars, PageOK
  <2>4. QED
    BY <2>1, <2>2, <2>3
<1>2. CASE UNCHANGED <<tableVars, coordVars>>
  <2>1. TableStep /\ TablesOK'
    BY <1>2 DEF tableVars, TableStep, Kept, TablesOK
  <2>2. CoordOK'
    BY <1>2 DEF coordVars, CoordOK
  <2>3. CASE UNCHANGED <<wireVars, simVars, pageVars, loopVars>>
    <3>1. WireOK' /\ SimOK' /\ LoopOK'
      BY <2>3 DEF wireVars, simVars, loopVars, WireOK, SimOK, LoopOK
    <3>2. PageOK'
      BY <2>3 DEF pageVars, PageOK
    <3>3. QED
      BY <2>1, <2>2, <3>1, <3>2
  <2>4. ASSUME NEW w \in SimWorkers, SimWorker(w), UNCHANGED <<pageVars, loopVars>>
        PROVE  Typed' /\ TableStep
    <3>1. WireOK' /\ SimOK'
      BY <2>4, SimStep
    <3>2. PageOK' /\ LoopOK'
      BY <2>4 DEF pageVars, loopVars, PageOK, LoopOK
    <3>3. QED
      BY <2>1, <2>2, <3>1, <3>2
  <2>5. ASSUME NEW l \in Loops, Loop(l)
        PROVE  Typed' /\ TableStep
    <3>1. WireOK' /\ PageOK' /\ LoopOK'
      BY <2>5, LoopStep
    <3>2. SimOK'
      BY <2>5 DEF Loop, simVars, SimOK
    <3>3. QED
      BY <2>1, <2>2, <3>1, <3>2
  <2>6. CASE Message
    <3>1. WireOK' /\ PageOK' /\ LoopOK'
      BY <2>6, MessageStep
    <3>2. SimOK'
      BY <2>6 DEF Message, simVars, SimOK
    <3>3. QED
      BY <2>1, <2>2, <3>1, <3>2
  <2>7. UNCHANGED vars => UNCHANGED <<wireVars, simVars, pageVars, loopVars>>
    BY DEF vars
  <2>8. CASE Coordinator /\ UNCHANGED <<simVars, pageVars, loopVars>>
    BY <1>1, <2>8
  <2>9. QED
    BY <2>3, <2>4, <2>5, <2>6, <2>7, <2>8 DEF Next
<1>3. QED
  BY <1>1, <1>2 DEF Next, SimWorker, Loop, Message, vars

\* The parts hold always.
LEMMA AlwaysTyped == Spec => []Typed
<1>1. Init => Typed
  <2> SUFFICES ASSUME Init PROVE Typed
    OBVIOUS
  <2>1. TablesOK /\ CoordOK /\ WireOK /\ SimOK
    BY ConstantsAssumption DEF Init, CoordInit, TablesOK, CoordOK, WireOK, SimOK, Ids
  <2>2. PageOK /\ LoopOK
    BY DEF Init, PageOK, LoopOK, WorkerStates, Buttons, Awaits
  <2>3. QED
    BY <2>1, <2>2 DEF Typed
<1>2. Typed /\ [Next]_vars => Typed'
  BY TypedStep
<1>3. QED
  BY <1>1, <1>2, PTL DEF Spec

\* Every queue, table and state machine holds values of its type.
THEOREM TypeCorrect == Spec => []TypeOK
BY AlwaysTyped, TypedParts, PTL

-----------------------------------------------------------------------------
\* The task table

\* What the housekeeping thread has in hand changes only by its own steps, or
\* is forgotten at a crash.
LEMMA InHand ==
    ASSUME Typed, [Next]_vars
    PROVE  \/ timedOut' = timedOut
           \/ timedOut' = {}
           \/ timedOut = {} /\ timedOut' = Overdue
              /\ state' = [t \in Tasks |-> IF t \in Overdue THEN "TIMEOUT" ELSE state[t]]
           \/ \E t \in timedOut : timedOut' = timedOut \ {t}
<1>1. CASE UNCHANGED coordVars
  BY <1>1 DEF coordVars
<1>2. CASE TimeoutTasks
  BY <1>2, SetStateType DEF TimeoutTasks, Typed, States
<1>3. CASE \E t \in Tasks : Reassign(t)
  BY <1>3 DEF Reassign
<1>4. CASE Crash
  BY <1>4 DEF Crash
<1>5. CASE Restart
  BY <1>5 DEF Restart
<1>6. QED
  BY <1>1, <1>2, <1>3, <1>4, <1>5
     DEF Next, Coordinator, Operate, HandleRecover, CreateTask, HandleTimeoutTask, Tick, Serve,
         HandleRegister, HandleTaskRequest, HandleTaskSubmit, Unreachable, SimWorker, Loop,
         Message, vars, coordVars

\* No request, recovery or crash touches a row the housekeeping thread has
\* timed out and not yet reassigned.
THEOREM HeldTheorem == Spec => []HeldByHousekeeper
<1>1. Init => HeldByHousekeeper
  BY DEF Init, CoordInit, HeldByHousekeeper
<1>2. Typed /\ HeldByHousekeeper /\ [Next]_vars => HeldByHousekeeper'
  <2> SUFFICES ASSUME Typed, HeldByHousekeeper, [Next]_vars, NEW t \in timedOut'
               PROVE  t \in Tasks /\ state'[t] = "TIMEOUT"
    BY DEF HeldByHousekeeper, TasksIn
  <2>1. t \in Tasks
    BY TypedStep DEF Typed, CoordOK
  <2>2. state \in [Tasks -> States \cup {None}] /\ None # "TIMEOUT"
    BY NoneAssumption DEF Typed, TablesOK, States
  <2>3. CASE t \in timedOut
    <3>1. state[t] = "TIMEOUT"
      BY <2>3 DEF HeldByHousekeeper, TasksIn
    <3>2. CASE Returned
      <4>1. PICK x \in timedOut \cap Tasks : /\ timedOut' = timedOut \ {x}
                                             /\ state' = [state EXCEPT ![x] = "PENDING"]
        BY <3>2 DEF Returned
      <4>2. QED
        BY <2>1, <2>2, <3>1, <4>1
    <3>3. CASE Kept \/ Created \/ Assigned \/ Completed \/ Failed \/ TimedOut
      BY <2>1, <2>2, <3>1, <3>3
         DEF Kept, Created, Assigned, Completed, Failed, TimedOut
    <3>4. QED
      BY <3>2, <3>3, TypedStep DEF TableStep
  <2>4. CASE t \notin timedOut
    BY <2>1, <2>4, InHand
  <2>5. QED
    BY <2>3, <2>4
<1>3. QED
  BY <1>1, <1>2, AlwaysTyped, PTL DEF Spec

\* A completed task that has an input_hash holds the output the coordinator
\* computes, unless it is assigned to a worker that may report a status other
\* than "completed", or no hash.  A request that claims nothing to compare is
\* served unchecked, so this needs what every process asks (Asks) as well as
\* what the handler compares and whom it accepts a result from.
THEOREM CheckedTheorem == Spec => []CheckedOutput
<1>1. Init => CheckedOutput
  BY NoneAssumption, ConstantsAssumption DEF Init, CoordInit, CheckedOutput, States
<1>2. Typed /\ CheckedOutput /\ [Next]_vars => CheckedOutput'
  <2> SUFFICES ASSUME Typed, CheckedOutput, TableStep, NEW t \in Hashed, state'[t] = "COMPLETED"
               PROVE  output'[t] = "good" \/ assignee'[t] \in Custom
    BY TypedStep DEF CheckedOutput
  <2>1. t \in Tasks
    BY ConstantsAssumption
  <2>2. /\ state \in [Tasks -> States \cup {None}] /\ assignee \in [Tasks -> Ids]
        /\ output \in [Tasks -> Hashes \cup {None}]
    BY DEF Typed, TablesOK
  <2>3. CASE Completed
    BY <2>1, <2>2, <2>3 DEF Completed, CheckedOutput
  <2>4. CASE Kept \/ Created \/ Assigned \/ Failed \/ TimedOut \/ Returned
    BY <2>1, <2>2, <2>4
       DEF Kept, Created, Assigned, Failed, TimedOut, Returned, CheckedOutput
  <2>5. QED
    BY <2>3, <2>4 DEF TableStep
<1>3. QED
  BY <1>1, <1>2, AlwaysTyped, PTL DEF Spec

\* Tasks move along the declared table, and a completed one keeps its worker
\* and its output.
THEOREM TableTheorem == Spec => TableObeyed
<1> DEFINE Obeyed == \A t \in Tasks :
              /\ state[t] \in States /\ state'[t] # state[t] => state'[t] \in ValidNext[state[t]]
              /\ state[t] = "COMPLETED"
                    => <<assignee[t], output[t]>>' = <<assignee[t], output[t]>>
<1>1. Typed /\ [Next]_vars => [Obeyed]_vars
  <2> SUFFICES ASSUME Typed, TableStep, NEW t \in Tasks
               PROVE  /\ state[t] \in States /\ state'[t] # state[t]
                            => state'[t] \in ValidNext[state[t]]
                      /\ state[t] = "COMPLETED"
                            => assignee'[t] = assignee[t] /\ output'[t] = output[t]
    BY TypedStep
  <2>1. /\ state \in [Tasks -> States \cup {None}] /\ assignee \in [Tasks -> Ids]
        /\ output \in [Tasks -> Hashes \cup {None}] /\ None \notin States
    BY NoneAssumption DEF Typed, TablesOK
  <2>2. /\ "ASSIGNED" \in ValidNext["PENDING"]
        /\ {"COMPLETED", "FAILED", "TIMEOUT"} \subseteq ValidNext["ASSIGNED"]
        /\ "PENDING" \in ValidNext["TIMEOUT"] /\ "PENDING" \in ValidNext["FAILED"]
    BY DEF ValidNext, States
  <2>3. CASE Kept \/ Created \/ Failed \/ TimedOut
    BY <2>1, <2>2, <2>3 DEF Kept, Created, Failed, TimedOut, TasksIn
  <2>4. CASE Assigned
    BY <2>1, <2>2, <2>4 DEF Assigned
  <2>5. CASE Completed
    BY <2>1, <2>2, <2>5 DEF Completed
  <2>6. CASE Returned
    BY <2>1, <2>2, <2>6 DEF Returned
  <2>7. QED
    BY <2>3, <2>4, <2>5, <2>6 DEF TableStep
<1>2. QED
  BY <1>1, AlwaysTyped, PTL DEF Spec, TableObeyed

-----------------------------------------------------------------------------
\* The task table implements UnitOwnership

\* The effects of a step on who holds what: nothing but time passing, a grant,
\* a result accepted in time, or some tasks let go.
Faded   == UNCHANGED <<state, assignee>> /\ \A t \in Tasks : left'[t] <= left[t]
Granted == \E t \in Tasks, id \in Ids : /\ state[t] = "PENDING" /\ SetState({t}, "ASSIGNED")
                                        /\ assignee' = [assignee EXCEPT ![t] = id]
Done    == \E t \in Tasks : /\ state[t] = "ASSIGNED" /\ left[t] >= 0
                            /\ SetState({t}, "COMPLETED") /\ UNCHANGED assignee
LetGo   == \E tasks \in SUBSET Tasks, s \in {"PENDING", "FAILED", "TIMEOUT"} :
              /\ \A t \in tasks : state[t] # "COMPLETED"
              /\ SetState(tasks, s)
              /\ \A t \in Tasks \ tasks : assignee'[t] = assignee[t]

\* Every step has one of these effects.
LEMMA HoldingStep ==
    ASSUME Typed, [Next]_vars
    PROVE  Faded \/ Granted \/ Done \/ LetGo
<1>0. /\ left \in [Tasks -> -1..LeaseTime] /\ LeaseTime \in Nat
      /\ state \in [Tasks -> States \cup {None}] /\ None \notin States
      /\ assignee \in [Tasks -> Ids] /\ WireOK
  BY ConstantsAssumption, NoneAssumption DEF Typed, TablesOK
<1>1. ASSUME UNCHANGED tableVars PROVE Faded
  BY <1>0, <1>1 DEF tableVars, Faded
<1>2. ASSUME NEW rows \in SUBSET TasksIn("ASSIGNED"), SetState(rows, "TIMEOUT"), UNCHANGED assignee
      PROVE  LetGo
  BY <1>2 DEF LetGo, TasksIn
<1>3. ASSUME NEW p \in Procs, Serve(p)
      PROVE  Faded \/ Granted \/ Done \/ LetGo
  <2>1. CASE HandleTaskRequest(p)
    <3>1. asked[p].id \in Ids
      BY <1>0, <2>1, AskedType DEF HandleTaskRequest, Serves
    <3>2. ASSUME NEW t \in Pending(asked[p].wants), AssignTask(t, asked[p].id)
          PROVE  Granted
      BY <3>1, <3>2 DEF Granted, AssignTask, Pending, TasksIn
    <3>3. QED
      BY <1>1, <2>1, <3>2 DEF HandleTaskRequest
  <2>2. CASE HandleTaskSubmit(p)
    <3> DEFINE q == asked[p]
    <3>1. q.task \in Tasks
      BY <1>0, <2>2, AskedType DEF HandleTaskSubmit, Serves
    <3>2. CASE UNCHANGED tableVars
      BY <1>1, <3>2
    <3>3. CASE Acceptable(q) /\ SubmitResult(q)
      BY <3>1, <3>3 DEF Acceptable, SubmitResult, Done
    <3>4. CASE state[q.task] = "ASSIGNED" /\ RejectResult(q)
      <4>1. SetState({q.task}, "FAILED") /\ UNCHANGED assignee /\ {q.task} \in SUBSET Tasks
            /\ \A t \in {q.task} : state[t] # "COMPLETED"
        BY <3>1, <3>4 DEF RejectResult
      <4>2. QED
        BY <4>1 DEF LetGo
    <3>5. QED
      BY <2>2, <3>2, <3>3, <3>4 DEF HandleTaskSubmit, SubmitResult, RejectResult
  <2>3. QED
    BY <1>1, <1>3, <2>1, <2>2 DEF Serve, HandleRegister, Unreachable
<1>4. ASSUME NEW t \in Tasks, CreateTask(t)
      PROVE  LetGo
  <2>1. SetState({t}, "PENDING") /\ UNCHANGED assignee /\ {t} \in SUBSET Tasks
        /\ \A x \in {t} : state[x] # "COMPLETED"
    BY <1>0, <1>4 DEF CreateTask, States
  <2>2. QED
    BY <2>1 DEF LetGo
<1>5. ASSUME HandleRecover \/ TimeoutTasks \/ \E t \in Tasks : HandleTimeoutTask(t)
      PROVE  LetGo
  BY <1>2, <1>5 DEF HandleRecover, RecoverAfterRestart, TimeoutTasks, HandleTimeoutTask, Overdue,
     TasksIn
<1>6. ASSUME NEW t \in Tasks, Reassign(t)
      PROVE  Faded \/ LetGo
  <2>1. CASE state[t] \in {"TIMEOUT", "FAILED"} /\ ReassignTask(t)
    <3>1. SetState({t}, "PENDING") /\ assignee' = [assignee EXCEPT ![t] = None]
          /\ {t} \in SUBSET Tasks /\ \A x \in {t} : state[x] # "COMPLETED"
      BY <2>1 DEF ReassignTask
    <3>2. \A x \in Tasks \ {t} : assignee'[x] = assignee[x]
      BY <1>0, <3>1
    <3>3. QED
      BY <3>1, <3>2 DEF LetGo
  <2>2. QED
    BY <1>1, <1>6, <2>1 DEF Reassign, ReassignTask
<1>7. ASSUME Crash PROVE LetGo
  <2>1. PICK rows \in SUBSET (IF timedOut = {} THEN Overdue ELSE {}) : SetState(rows, "TIMEOUT")
    BY <1>7 DEF Crash
  <2>2. QED
    BY <1>2, <1>7, <2>1 DEF Crash, Overdue
<1>8. ASSUME Restart PROVE Faded \/ LetGo
  BY <1>1, <1>2, <1>8 DEF Restart, RecoverAfterRestart
<1>9. ASSUME Tick PROVE Faded
  BY <1>0, <1>9 DEF Tick, Faded
<1>10. QED
  BY <1>1, <1>3, <1>4, <1>5, <1>6, <1>7, <1>8, <1>9
     DEF Next, Coordinator, Operate, SimWorker, Loop, Message, vars

Held     == {<<t, assignee[t]>> : t \in {x \in TasksIn("ASSIGNED") : left[x] >= 0}}
Finished == {<<t, assignee[t]>> : t \in TasksIn("COMPLETED")}

\* Time and letting go only take units away.
LEMMA LapseStep ==
    ASSUME Held' \subseteq Held, Finished' = Finished
    PROVE  Ownership!Next
<1>1. PICK lost : lost \in SUBSET Held /\ Held' = Held \ lost
  OBVIOUS
<1>2. Ownership!Lapse(lost)
  BY <1>1 DEF Ownership!Lapse, Held, Finished
<1>3. QED
  BY <1>1, <1>2 DEF Ownership!Next, Held

\* Every step of the task coordinator is a step of UnitOwnership.
LEMMA OwnershipStep == ASSUME Typed, [Next]_vars PROVE Ownership!Next
<1>0. /\ left \in [Tasks -> -1..LeaseTime] /\ LeaseTime \in Nat
      /\ state \in [Tasks -> States \cup {None}] /\ assignee \in [Tasks -> Ids]
  BY ConstantsAssumption DEF Typed, TablesOK
<1>1. CASE Faded
  <2>1. left' \in [Tasks -> -1..LeaseTime]
    BY TypedStep DEF Typed, TablesOK
  <2>2. \A t \in Tasks : left'[t] >= 0 => left[t] >= 0
    BY <1>0, <1>1, <2>1 DEF Faded
  <2>3. Held' \subseteq Held /\ Finished' = Finished
    BY <1>1, <2>2 DEF Faded, Held, Finished, TasksIn
  <2>4. QED
    BY <2>3, LapseStep
<1>2. CASE Granted
  <2>1. PICK t \in Tasks, id \in Ids : /\ state[t] = "PENDING" /\ SetState({t}, "ASSIGNED")
                                       /\ assignee' = [assignee EXCEPT ![t] = id]
    BY <1>2 DEF Granted
  <2>2. /\ state'[t] = "ASSIGNED" /\ left'[t] = LeaseTime /\ LeaseTime >= 0 /\ assignee'[t] = id
        /\ \A x \in Tasks : x # t => state'[x] = state[x] /\ left'[x] = left[x]
                                     /\ assignee'[x] = assignee[x]
    BY <1>0, <2>1 DEF SetState
  <2>3. Held' = Held \cup {<<t, id>>}
    BY <2>1, <2>2 DEF Held, TasksIn
  <2>4. Finished' = Finished
    BY <2>1, <2>2 DEF Finished, TasksIn
  <2>5. t \notin Ownership!UnitsOf(Held) \cup Ownership!UnitsOf(Finished)
    BY <2>1 DEF Ownership!UnitsOf, Held, Finished, TasksIn
  <2>6. Ownership!Grant(t, id)
    BY <2>3, <2>4, <2>5 DEF Ownership!Grant, Held, Finished
  <2>7. QED
    BY <2>6 DEF Ownership!Next
<1>3. CASE Done
  <2>1. PICK t \in Tasks : /\ state[t] = "ASSIGNED" /\ left[t] >= 0
                          /\ SetState({t}, "COMPLETED") /\ UNCHANGED assignee
    BY <1>3 DEF Done
  <2>2. /\ state'[t] = "COMPLETED" /\ assignee'[t] = assignee[t] /\ assignee[t] \in Ids
        /\ \A x \in Tasks : x # t => state'[x] = state[x] /\ left'[x] = left[x]
                                     /\ assignee'[x] = assignee[x]
    BY <1>0, <2>1 DEF SetState
  <2>3. PICK h \in Ids : h = assignee[t]
    BY <2>2
  <2>4. <<t, h>> \in Held /\ Held' = Held \ {<<t, h>>}
    BY <2>1, <2>2, <2>3 DEF Held, TasksIn
  <2>5. Finished' = Finished \cup {<<t, h>>}
    BY <2>1, <2>2, <2>3 DEF Finished, TasksIn
  <2>6. Ownership!Finish(t, h)
    BY <2>4, <2>5 DEF Ownership!Finish, Held, Finished
  <2>7. QED
    BY <2>6 DEF Ownership!Next
<1>4. CASE LetGo
  <2>1. PICK tasks \in SUBSET Tasks, s \in {"PENDING", "FAILED", "TIMEOUT"} :
            /\ \A t \in tasks : state[t] # "COMPLETED"
            /\ SetState(tasks, s)
            /\ \A t \in Tasks \ tasks : assignee'[t] = assignee[t]
    BY <1>4 DEF LetGo
  <2>2. /\ \A t \in tasks : state'[t] = s
        /\ \A t \in Tasks \ tasks : state'[t] = state[t] /\ left'[t] = left[t]
    BY <2>1 DEF SetState
  <2>3. Held' \subseteq Held
    BY <2>1, <2>2 DEF Held, TasksIn
  <2>4. Finished' = Finished
    BY <2>1, <2>2 DEF Finished, TasksIn
  <2>5. QED
    BY <2>3, <2>4, LapseStep
<1>5. QED
  BY <1>1, <1>2, <1>3, <1>4, HoldingStep

\* The task coordinator, with whatever workers and crashes, implements
\* UnitOwnership: only the holder of a task completes it, and only in time.
THEOREM ImplementsOwnership == Spec => OwnershipSpec
<1>1. Init => Ownership!Init
  BY NoneAssumption DEF Init, CoordInit, Ownership!Init, TasksIn, States
<1>2. Typed /\ [Next]_vars => [Ownership!Next]_(Ownership!vars)
  BY OwnershipStep
<1>3. QED
  BY <1>1, <1>2, AlwaysTyped, PTL DEF Spec, OwnershipSpec, Ownership!Spec
=============================================================================
