---------------------------- MODULE BrowserWorker ----------------------------
(***************************************************************************)
(* The browser's worker (browser-worker/src/worker.ts, state.ts, rpc.ts and *)
(* the buttons of ui.ts), composed with the task coordinator and its other *)
(* workers.                                                                *)
(*                                                                         *)
(* A page has one Web Worker.  Each "start" message calls workerMain(), a  *)
(* loop that runs until it awaits something; other messages and other      *)
(* loops run in between.  All loops share the module's variables: the      *)
(* state machine, the flags and the RPC client with its worker id.         *)
(***************************************************************************)
EXTENDS TaskCoordinator, FiniteSets

VARIABLES ui,         \* stateMachine.state, and the enabled buttons of the page
          cancelled, paused,
          rpcId       \* rpc.workerId

VARIABLES loopPc,     \* what a workerMain() call awaits
          loopTask    \* the task its runTask works on

pageVars == <<ui, cancelled, paused, rpcId>>
loopVars == <<loopPc, loopTask>>
vars == <<tableVars, coordVars, wireVars, simVars, pageVars, loopVars>>

WorkerStates == {"INITIAL", "DISCONNECTED", "REGISTERING", "IDLE", "REQUESTING_TASK", "RUNNING",
                 "PAUSED", "SUBMITTING", "CANCELLED", "ERROR"}

VALID_TRANSITIONS == [s \in WorkerStates |->
    CASE s \in {"INITIAL", "DISCONNECTED"} -> {"REGISTERING"}
      [] s = "REGISTERING"     -> {"IDLE", "ERROR"}
      [] s = "IDLE"            -> {"REQUESTING_TASK", "ERROR", "DISCONNECTED"}
      [] s = "REQUESTING_TASK" -> {"RUNNING", "IDLE", "ERROR"}
      [] s = "RUNNING"         -> {"SUBMITTING", "PAUSED", "CANCELLED", "ERROR"}
      [] s = "PAUSED"          -> {"RUNNING", "CANCELLED", "ERROR"}
      [] s = "SUBMITTING"      -> {"IDLE", "ERROR"}
      [] s = "CANCELLED"       -> {"IDLE"}
      [] s = "ERROR"           -> {"IDLE", "DISCONNECTED"}]

Buttons == {"start", "cancel", "pause", "resume"}
Awaits  == {"off", "registering", "requesting", "sleeping", "computing", "finishing", "dropping",
            "submitting", "retrying", "retryingRequest", "retryingSubmit", "ended"}

TypeOK ==
    /\ CoordTypeOK
    /\ ui \in [shown : WorkerStates, buttons : SUBSET Buttons]
    /\ cancelled \in BOOLEAN /\ paused \in BOOLEAN
    /\ rpcId \in Loops \cup {None}
    /\ loopPc \in [Loops -> Awaits]
    /\ loopTask \in [Loops -> Tasks \cup {None}]

Init ==
    /\ CoordInit
    /\ ui = [shown |-> "INITIAL", buttons |-> {"start"}]
    /\ cancelled = FALSE /\ paused = FALSE
    /\ rpcId = None
    /\ loopPc = [l \in Loops |-> "off"]
    /\ loopTask = [l \in Loops |-> None]

-----------------------------------------------------------------------------
\* The state machine and the page.

\* transition() and emitState(): an invalid transition is a warning and changes
\* nothing; the state, whatever it is, goes to updateButtons.
Emit(u, to) ==
    LET s == IF to \in VALID_TRANSITIONS[u.shown] THEN to ELSE u.shown
    IN [shown |-> s,
        buttons |-> CASE s = "IDLE"    -> {"start"}
                      [] s = "RUNNING" -> (u.buttons \cup {"cancel", "pause"}) \ {"resume"}
                      [] s = "PAUSED"  -> (u.buttons \cup {"cancel", "resume"}) \ {"pause"}
                      [] s \in {"ERROR", "DISCONNECTED"} -> u.buttons \cup {"start"}
                      [] OTHER -> u.buttons]

\* A "result" or "error" message sets the buttons of an idle worker.
Tell(u) == [u EXCEPT !.buttons = {"start"}]

Goto(l, next) == loopPc' = [loopPc EXCEPT ![l] = next]

\* cleanupTask
CleanUp(l) ==
    /\ loopTask' = [loopTask EXCEPT ![l] = None]
    /\ cancelled' = FALSE /\ paused' = FALSE

KeepTask == UNCHANGED <<loopTask, cancelled, paused>>

\* The head of the main loop, reached in the same turn as what goes before it.
LoopHead(l, u, stop, id) ==
    IF stop \/ u.shown = "ERROR"
    THEN /\ Goto(l, IF stop THEN "ended" ELSE "retrying")
         /\ ui' = u
         /\ UNCHANGED asked
    ELSE /\ Goto(l, "requesting")
         /\ ui' = Emit(u, "REQUESTING_TASK")
         /\ asked' = [asked EXCEPT ![l] =
               [method |-> "task.request", id |-> id, wants |-> "simulated"]]

\* runTask returns, and on with the main loop.
EndTask(l, u) ==
    /\ CleanUp(l)
    /\ LoopHead(l, Emit(u, "IDLE"), FALSE, rpcId)

Receives(l, pc, kinds) == loopPc[l] = pc /\ Take(l) /\ answer[l].kind \in kinds

-----------------------------------------------------------------------------
\* workerMain and runTask, from one await to the next

Registered(l) ==
    /\ Receives(l, "registering", {"registered"})
    /\ rpcId' = l
    /\ LoopHead(l, Emit(ui, "IDLE"), cancelled, l)
    /\ KeepTask

NotRegistered(l) ==
    /\ Receives(l, "registering", {"error"})
    /\ LoopHead(l, Emit(Tell(ui), "ERROR"), cancelled, rpcId)
    /\ KeepTask /\ UNCHANGED rpcId

NoTask(l) ==
    /\ Receives(l, "requesting", {"none"})
    /\ ui' = Emit(ui, "IDLE")
    /\ Goto(l, "sleeping")
    /\ KeepTask /\ UNCHANGED <<asked, rpcId>>

Awake(l) ==
    /\ loopPc[l] = "sleeping"
    /\ LoopHead(l, ui, cancelled, rpcId)
    /\ KeepTask /\ UNCHANGED <<answer, rpcId>>

\* The first step of the computation is under way, which may be the last.
GotTask(l) ==
    /\ Receives(l, "requesting", {"task"})
    /\ ui' = Emit(ui, "RUNNING")
    /\ loopTask' = [loopTask EXCEPT ![l] = answer[l].task]
    /\ cancelled' = FALSE /\ paused' = FALSE
    /\ Goto(l, "computing") \/ Goto(l, "finishing")
    /\ UNCHANGED <<asked, rpcId>>

\* Another step, the last, unless paused.
Step(l) ==
    /\ loopPc[l] = "computing" /\ ~cancelled /\ ~paused
    /\ Goto(l, "finishing")
    /\ KeepTask /\ UNCHANGED <<wireVars, ui, rpcId>>

\* After the last step nobody looks at paused.
Submit(l) ==
    /\ loopPc[l] = "finishing" /\ ~cancelled
    /\ ui' = Emit(ui, "SUBMITTING")
    /\ asked' = [asked EXCEPT ![l] =
          [method |-> "task.submit", id |-> rpcId, task |-> loopTask[l],
           status |-> "completed", hash |-> "good"]]
    /\ Goto(l, "submitting")
    /\ KeepTask /\ UNCHANGED <<answer, rpcId>>

\* The coordinator is not told.
Drop(l) ==
    /\ loopPc[l] \in {"computing", "finishing"} /\ cancelled
    /\ ui' = Emit(ui, "CANCELLED")
    /\ Goto(l, "dropping")
    /\ KeepTask /\ UNCHANGED <<wireVars, rpcId>>

\* cleanupTask resets the flag that would have ended the main loop.
Dropped(l) ==
    /\ loopPc[l] = "dropping"
    /\ EndTask(l, ui)
    /\ UNCHANGED <<answer, rpcId>>

Submitted(l) ==
    /\ Receives(l, "submitting", {"accepted", "rejected"})
    /\ EndTask(l, Tell(ui))
    /\ UNCHANGED rpcId

\* The result is not sent again.
NotSubmitted(l) ==
    /\ Receives(l, "submitting", {"error"})
    /\ ui' = Emit(Tell(ui), "ERROR")
    /\ Goto(l, "retryingSubmit")
    /\ KeepTask /\ UNCHANGED <<asked, rpcId>>

NotRequested(l) ==
    /\ Receives(l, "requesting", {"error"})
    /\ ui' = Emit(Tell(ui), "ERROR")
    /\ Goto(l, "retryingRequest")
    /\ KeepTask /\ UNCHANGED <<asked, rpcId>>

\* backoffRetry: five pings, or fewer until one is answered.
Retried(l) ==
    LET to == IF up THEN "IDLE" ELSE "DISCONNECTED"
        u  == Emit(ui, to)
    IN /\ \/ loopPc[l] = "retrying" /\ KeepTask
             /\ LoopHead(l, u, cancelled \/ u.shown = "DISCONNECTED", rpcId)
          \/ loopPc[l] = "retryingRequest" /\ KeepTask
             /\ LoopHead(l, u, cancelled, rpcId)
          \/ loopPc[l] = "retryingSubmit" /\ EndTask(l, u)
       /\ UNCHANGED <<answer, rpcId>>

Loop(l) ==
    /\ \/ Registered(l) \/ NotRegistered(l) \/ NoTask(l) \/ Awake(l) \/ GotTask(l) \/ Step(l)
       \/ Submit(l) \/ Drop(l) \/ Dropped(l) \/ Submitted(l) \/ NotSubmitted(l)
       \/ NotRequested(l) \/ Retried(l)
    /\ UNCHANGED <<tableVars, coordVars, simVars>>

-----------------------------------------------------------------------------
\* Messages to the Web Worker: a click on an enabled button.  No one sends
\* "training-start", so trainingMode stays false.

Start(l) ==
    /\ "start" \in ui.buttons /\ loopPc[l] = "off"
    /\ cancelled' = FALSE
    /\ ui' = Emit([ui EXCEPT !.buttons = {"cancel", "pause"}], "REGISTERING")
    /\ Goto(l, "registering")
    /\ Ask(l, [method |-> "worker.register"])
    /\ UNCHANGED <<paused, rpcId, loopTask>>

Cancel ==
    /\ "cancel" \in ui.buttons
    /\ cancelled' = TRUE
    /\ ui' = [ui EXCEPT !.buttons = {}]
    /\ UNCHANGED <<paused, rpcId, loopVars, wireVars>>

Pause ==
    /\ "pause" \in ui.buttons /\ ui.shown = "RUNNING"
    /\ paused' = TRUE
    /\ ui' = Emit(ui, "PAUSED")
    /\ UNCHANGED <<cancelled, rpcId, loopVars, wireVars>>

Resume ==
    /\ "resume" \in ui.buttons /\ ui.shown = "PAUSED"
    /\ paused' = FALSE
    /\ ui' = Emit(ui, "RUNNING")
    /\ UNCHANGED <<cancelled, rpcId, loopVars, wireVars>>

\* The page is closed, and with it every loop; its buttons are gone.
Close ==
    /\ loopPc' = [l \in Loops |-> "ended"]
    /\ loopTask' = [l \in Loops |-> None]
    /\ answer' = [p \in Procs |-> IF p \in Loops THEN None ELSE answer[p]]
    /\ ui' = [shown |-> "INITIAL", buttons |-> {}]
    /\ cancelled' = FALSE /\ paused' = FALSE /\ rpcId' = None
    /\ UNCHANGED asked

Message ==
    /\ \/ Cancel \/ Pause \/ Resume \/ Close
       \/ \E l \in Loops : Start(l)
    /\ UNCHANGED <<tableVars, coordVars, simVars>>

-----------------------------------------------------------------------------
Next ==
    \/ Coordinator /\ UNCHANGED <<simVars, pageVars, loopVars>>
    \/ \E w \in SimWorkers : SimWorker(w) /\ UNCHANGED <<pageVars, loopVars>>
    \/ \E l \in Loops : Loop(l)
    \/ Message

Spec == Init /\ [][Next]_vars

\* Time passes, the housekeeping thread goes round every 15 s, and someone
\* starts a dead coordinator again.  Nothing is assumed of the workers.
Fairness ==
    /\ WF_vars(Tick /\ UNCHANGED <<simVars, pageVars, loopVars>>)
    /\ WF_vars(TimeoutTasks /\ UNCHANGED <<simVars, pageVars, loopVars>>)
    /\ \A t \in Tasks : WF_vars(Reassign(t) /\ UNCHANGED <<simVars, pageVars, loopVars>>)
    /\ WF_vars(Restart /\ UNCHANGED <<simVars, pageVars, loopVars>>)

FairSpec == Spec /\ Fairness

-----------------------------------------------------------------------------
\* While the housekeeping thread goes through the rows it has timed out, one
\* committed transaction each, no request touches them: a late result, a wrong
\* hash or a recovery cannot come between timeout_tasks and reassign_task.
HeldByHousekeeper == timedOut \subseteq TasksIn("TIMEOUT")

\* No task with an input_hash is completed with an output other than the one the
\* coordinator computes, unless the worker it is assigned to reported it itself
\* through submit_result() with another status or no hash: the page's loops and
\* SimulatedWorker.run_once cannot, corrupt, late or repeated as they may be,
\* and a worker that can spoils the tasks assigned to it alone.
CheckedOutput ==
    \A t \in Hashed : state[t] = "COMPLETED" => output[t] = "good" \/ assignee[t] \in Custom

\* The same of every worker.  Not so: _handle_task_submit compares nothing when
\* the status is not "completed" or output_hash is absent, and submit_result
\* completes the task all the same.
AllOutputsChecked == \A t \in Hashed : state[t] = "COMPLETED" => output[t] = "good"

\* TaskState.valid_transitions, which no code consults.
ValidNext == [s \in States |->
    CASE s = "PENDING"  -> {"ASSIGNED", "CANCELLED"}
      [] s = "ASSIGNED" -> {"COMPLETED", "FAILED", "TIMEOUT", "CANCELLED"}
      [] s \in {"TIMEOUT", "FAILED"} -> {"PENDING"}
      [] s = "COMPLETED" -> {"DUPLICATE"}]

\* Requests, housekeeping, crashes and recoveries in any order move a task along
\* the declared table, and the worker and output of a COMPLETED task never
\* change: resubmissions, late results and a second holder included.
TableObeyed == [][\A t \in Tasks :
    /\ state[t] \in States /\ state'[t] # state[t] => state'[t] \in ValidNext[state[t]]
    /\ state[t] = "COMPLETED" => <<assignee[t], output[t]>>' = <<assignee[t], output[t]>>]_vars

\* A task is held while its lease runs, marked ASSIGNED or not yet TIMEOUT, and
\* finished by the worker its result was accepted from: so a task is worked on
\* for one worker at a time, only that one completes it, and only in time.
Ownership == INSTANCE UnitOwnership WITH
    Units <- Tasks, Holders <- Ids,
    held <- {<<t, assignee[t]>> : t \in {x \in TasksIn("ASSIGNED") : left[x] >= 0}},
    finished <- {<<t, assignee[t]>> : t \in TasksIn("COMPLETED")}

OwnershipSpec == Ownership!Spec

\* A task does not stay with a worker that died, dropped it or lost the answer,
\* even if the coordinator dies in the meantime.
AssignedEnds == \A t \in Tasks : state[t] = "ASSIGNED" ~> state[t] # "ASSIGNED"

\* "TIMEOUT --(reassign)--> PENDING" (rc3_state.py:18): a task that timed out is
\* given to another worker.  Not so for one that recover_after_restart,
\* admin.timeout_task or a crash left in TIMEOUT: the housekeeping thread
\* reassigns the rows it has just timed out and no other.
TimedOutComesBack == \A t \in Tasks : state[t] = "TIMEOUT" ~> state[t] # "TIMEOUT"

\* "Un sol task actiu per worker" (state.ts:11).  Not so: the page enables Start
\* again whenever the worker shows IDLE, and a second main loop begins.
OneTaskPerWorker == Cardinality({l \in Loops : loopTask[l] # None}) <= 1
=============================================================================
