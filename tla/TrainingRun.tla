----------------------------- MODULE TrainingRun -----------------------------
(***************************************************************************)
(* One RC3.3 training run: its batches and their assignments               *)
(* (rc3_train_state.TrainingRunManager), the train.* requests of           *)
(* rc3_coordinator.py, the housekeeping thread that expires leases, and    *)
(* the workers, simulated (rc3_worker_sim.TrainingWorker) and real         *)
(* (rc3_worker_real.Qwen3RealWorker).                                      *)
(*                                                                         *)
(* Requests are served one at a time, so a request and its answer are one  *)
(* step, save submit_delta and cancel_run: they commit between their       *)
(* sections, where the housekeeping thread, the clock or a crash come in.  *)
(*                                                                         *)
(* An assignment is named by its batch and its attempt number, in place of *)
(* its uuid and lease token.  Time is relative: left is what remains of a  *)
(* lease.                                                                  *)
(***************************************************************************)
EXTENDS Integers

CONSTANTS NumBatches,
          Workers,      \* worker processes, each a session of its own
          Real,         \* the Qwen3RealWorkers among them
          Configured,   \* the workers whose configuration is the run's
          MaxAttempts,  \* TRAIN_MAX_ATTEMPTS_PER_BATCH
          LeaseTime,    \* TRAIN_LEASE_DEFAULT_SECONDS
          Extension,    \* TRAIN_HEARTBEAT_INTERVAL, TRAIN_SUBMIT_TIMEOUT_SECONDS
          MaxCrashes,   \* bound on the deaths of the coordinator
          None

Batches  == 1..NumBatches
Attempts == 1..MaxAttempts
Asgs     == Batches \X Attempts

ASSUME ConstantsAssumption ==
    /\ NumBatches \in Nat \ {0} /\ MaxAttempts \in Nat \ {0}
    /\ LeaseTime \in Nat /\ Extension \in Nat /\ MaxCrashes \in Nat
    /\ Real \subseteq Workers /\ Configured \subseteq Workers

VARIABLES run,         \* training_run.status, None before it is created
          aggregated,  \* training_run.aggregated_batches
          batch,       \* batch.status
          attempt,     \* batch.attempt_number
          holder,      \* the session a batch_assignment was given to
          left,        \* expires_at - now of an active one, -1 once past
          result       \* of the accepted one: attempt, sender, and the batches
                       \* its delta was trained on

VARIABLES up, crashes,
          busy         \* the request that is between two of its sections

VARIABLES pc, cur,     \* of a worker; cur is its assignment
          trained,     \* batches its model has been trained on since it was loaded
          cache        \* batches with a delta in the CACHE_DIR, which all share

tableVars  == <<run, aggregated, batch, attempt, holder, left, result>>
coordVars  == <<up, crashes, busy>>
workerVars == <<pc, cur, trained, cache>>
vars == <<tableVars, coordVars, workerVars>>

RunStates   == {"WAITING", "TRAINING", "PAUSED", "AGGREGATING", "CANCELLED"}
InProgress  == {"ASSIGNED", "TRAINING", "UPLOADING"}
BatchStates == InProgress \cup {"WAITING", "COMPLETED", "FAILED", "CANCELLED"}
Results     == [attempt : Attempts, worker : Workers, from : SUBSET Batches]
Requests    == [op : {"accept", "close"}, worker : Workers, asg : Asgs, from : SUBSET Batches]
                 \cup [op : {"cancel"}]

ASSUME NoneAssumption ==
    None \notin Int \cup Workers \cup Asgs \cup RunStates \cup BatchStates \cup Results \cup Requests

TypeOK ==
    /\ run \in RunStates \cup {None}
    /\ aggregated \in Nat
    /\ batch \in [Batches -> BatchStates \cup {None}]
    /\ attempt \in [Batches -> 0..MaxAttempts + 1]
    /\ holder \in [Asgs -> Workers \cup {None}]
    /\ left \in [Asgs -> Nat \cup {-1, None}]
    /\ result \in [Batches -> Results \cup {None}]
    /\ up \in BOOLEAN /\ crashes \in 0..MaxCrashes
    /\ busy \in Requests \cup {None}
    /\ pc \in [Workers -> {"idle", "got", "working", "trained", "ready", "submitting", "done"}]
    /\ cur \in [Workers -> Asgs \cup {None}]
    /\ trained \in [Workers -> SUBSET Batches]
    /\ cache \subseteq Batches

Init ==
    /\ run = None /\ aggregated = 0
    /\ batch = [b \in Batches |-> None]
    /\ attempt = [b \in Batches |-> 0]
    /\ holder = [a \in Asgs |-> None]
    /\ left = [a \in Asgs |-> None]
    /\ result = [b \in Batches |-> None]
    /\ up = TRUE /\ crashes = 0 /\ busy = None
    /\ pc = [w \in Workers |-> "idle"]
    /\ cur = [w \in Workers |-> None]
    /\ trained = [w \in Workers |-> {}]
    /\ cache = {}

-----------------------------------------------------------------------------
\* TrainingRunManager, each operation one section under its lock

IsActive(a) == left[a] # None
ActiveOf(b) == {a \in Asgs : a[1] = b /\ IsActive(a)}

\* get_active_assignment(b) is a: the newest active one.
IsCurrent(a) == IsActive(a) /\ \A other \in ActiveOf(a[1]) : other[2] <= a[2]

SetBatches(set, s) == batch' = [b \in Batches |-> IF b \in set THEN s ELSE batch[b]]

\* batch_id is made of the last 16 bits of the run's id: when another run has
\* them too, the first INSERT of a batch fails, and the row of the run, which is
\* not rolled back, is committed by whatever commits next.
CreateRun ==
    /\ run = None
    /\ run' = "WAITING"
    /\ SetBatches(Batches, "WAITING") \/ UNCHANGED batch
    /\ UNCHANGED <<aggregated, attempt, holder, left, result>>

AssignBatch(w, b) ==
    LET a == <<b, attempt[b] + 1>> IN
    /\ SetBatches({b}, "ASSIGNED")
    /\ attempt' = [attempt EXCEPT ![b] = @ + 1]
    /\ holder' = [holder EXCEPT ![a] = w]
    /\ left' = [left EXCEPT ![a] = LeaseTime]
    /\ run' = "TRAINING"
    /\ UNCHANGED <<aggregated, result>>

\* transition_batch of a WAITING batch to FAILED; the run is told nothing.
FailBatch(b) ==
    /\ SetBatches({b}, "FAILED")
    /\ attempt' = [attempt EXCEPT ![b] = @ + 1]
    /\ UNCHANGED <<run, aggregated, holder, left, result>>

\* An overdue lease is extended as well, from now on.
ExtendLease(a) ==
    left' = [left EXCEPT ![a] = (IF @ < 0 THEN 0 ELSE @) + Extension]

Overdue == {a \in Asgs : IsActive(a) /\ left[a] < 0}

\* (A name that ends in _Faulty... is a broken variant of the definition after
\* it, kept to check that the properties notice the fault.)
Expire_FaultyUploading(asgs) ==
    /\ left' = [a \in Asgs |-> IF a \in asgs THEN None ELSE left[a]]
    /\ SetBatches({b \in Batches : batch[b] \in {"ASSIGNED", "TRAINING"}
                                   /\ \E a \in asgs : a[1] = b}, "WAITING")

Expire(asgs) ==
    /\ left' = [a \in Asgs |-> IF a \in asgs THEN None ELSE left[a]]
    /\ SetBatches({b \in Batches : batch[b] \in InProgress /\ \E a \in asgs : a[1] = b}, "WAITING")

DeltaOf(w, b) == IF w \in Real THEN trained[w] ELSE {b}

Accept_FaultyActive(w, a, from) ==
    /\ SetBatches({a[1]}, "COMPLETED")
    /\ aggregated' = aggregated + 1
    /\ result' = [result EXCEPT ![a[1]] = [attempt |-> a[2], worker |-> w, from |-> from]]
    /\ UNCHANGED <<run, attempt, holder, left>>

\* By assignment_id and batch_id alone, whatever became of them since the checks.
Accept(w, a, from) ==
    /\ left' = [left EXCEPT ![a] = None]
    /\ SetBatches({a[1]}, "COMPLETED")
    /\ aggregated' = aggregated + 1
    /\ result' = [result EXCEPT ![a[1]] = [attempt |-> a[2], worker |-> w, from |-> from]]
    /\ UNCHANGED <<run, attempt, holder>>

AllCompleted_FaultyNoneWaiting == \A b \in Batches : batch[b] # "WAITING"

AllCompleted == \A b \in Batches : batch[b] = "COMPLETED"

-----------------------------------------------------------------------------
\* The coordinator's handlers

Serves_FaultyUnlocked == up

Serves == up /\ busy = None

Submitting == busy # None /\ busy.op \in {"accept", "close"}

Goto(w, from, to) == pc[w] \in from /\ pc' = [pc EXCEPT ![w] = to]

\* The process and what it has in memory are gone.
Forget(w) ==
    /\ cur' = [cur EXCEPT ![w] = None]
    /\ trained' = [trained EXCEPT ![w] = {}]

\* _load_delta_cache, _save_delta_cache, _clear_cache: one directory for all.
Cached(w) == w \in Real /\ cur[w][1] \in cache
SaveDelta(w) == cache' = IF w \in Real THEN cache \cup {cur[w][1]} ELSE cache
ClearCache(w) == cache' = IF w \in Real THEN cache \ {cur[w][1]} ELSE cache

\* The worker leaves its loop; main() of a real one then clears the cache of all.
Leave(w, from) ==
    /\ Goto(w, from, "done")
    /\ Forget(w)
    /\ cache' = IF w \in Real THEN {} ELSE cache

HandleCreateRun == Serves /\ CreateRun /\ UNCHANGED <<coordVars, workerVars>>

\* get_next_waiting_batch
IsNext(b) == batch[b] = "WAITING" /\ \A other \in Batches : batch[other] = "WAITING" => b <= other

RequestBatch(w) ==
    /\ Serves /\ run \in {"WAITING", "TRAINING"}
    /\ \E b \in Batches :
         /\ IsNext(b) /\ attempt[b] < MaxAttempts
         /\ AssignBatch(w, b)
         /\ cur' = [cur EXCEPT ![w] = <<b, attempt[b] + 1>>]
    /\ Goto(w, {"idle"}, "got")
    /\ UNCHANGED <<coordVars, trained, cache>>

\* An error is the answer: no run, no batch, or a batch out of attempts.
NoBatch(w) ==
    /\ Serves
    /\ \/ /\ \/ run \notin {"WAITING", "TRAINING"}
             \/ \A b \in Batches : batch[b] # "WAITING"
          /\ UNCHANGED tableVars
       \/ /\ run \in {"WAITING", "TRAINING"}
          /\ \E b \in Batches : IsNext(b) /\ attempt[b] >= MaxAttempts /\ FailBatch(b)
    /\ Leave(w, {"idle"})
    /\ UNCHANGED coordVars

\* Whatever the answer, the worker goes on; after its last report a real one
\* saves its delta, which is there when it dies before it submits it.
ReportProgress(w) ==
    /\ Serves
    /\ \/ /\ Goto(w, {"got"}, "working")
          /\ w \in Real /\ ~Cached(w)
          /\ UNCHANGED cache
       \/ Goto(w, {"trained"}, "ready") /\ SaveDelta(w)
    /\ IF IsCurrent(cur[w])
       THEN /\ ExtendLease(cur[w])
            /\ SetBatches({b \in {cur[w][1]} : batch[b] = "ASSIGNED"}, "TRAINING")
            /\ UNCHANGED <<run, aggregated, attempt, holder, result>>
       ELSE UNCHANGED tableVars
    /\ UNCHANGED <<coordVars, cur, trained>>

\* No worker of the repository sends train.complete_upload, which is optional.
CompleteUpload(w) ==
    /\ Serves /\ pc[w] = "ready"
    /\ IsCurrent(cur[w]) /\ batch[cur[w][1]] \in {"ASSIGNED", "TRAINING"}
    /\ ExtendLease(cur[w])
    /\ SetBatches({b \in {cur[w][1]} : batch[b] = "TRAINING"}, "UPLOADING")
    /\ UNCHANGED <<run, aggregated, attempt, holder, result, coordVars, workerVars>>

Acceptable_FaultyNoToken(w) ==
    /\ \E a \in ActiveOf(cur[w][1]) : left[a] >= 0
    /\ run \in {"TRAINING", "AGGREGATING"} /\ w \in Configured

\* The checks of submit_delta, of the manifest too.  Nobody sends an
\* idempotency_key, or the same delta twice.
Acceptable(w) ==
    /\ IsCurrent(cur[w]) /\ left[cur[w]] >= 0
    /\ run \in {"TRAINING", "AGGREGATING"}
    /\ batch[cur[w][1]] # "COMPLETED"
    /\ w \in Configured

SubmitDelta(w) ==
    /\ Serves /\ pc[w] = "ready"
    /\ IF Acceptable(w)
       THEN /\ Goto(w, {"ready"}, "submitting")
            /\ \E a \in ActiveOf(cur[w][1]) :
                 /\ IsCurrent(a)
                 /\ busy' = [op |-> "accept", worker |-> w, asg |-> a,
                             from |-> DeltaOf(w, a[1])]
            /\ UNCHANGED <<cur, trained, cache>>
       ELSE Leave(w, {"ready"}) /\ UNCHANGED busy
    /\ UNCHANGED <<tableVars, up, crashes>>

\* The manifest of a cached delta lacks lora_r, lora_alpha and dtype: refused.
SubmitCached(w) ==
    /\ Serves /\ pc[w] = "got" /\ Cached(w)
    /\ Leave(w, {"got"})
    /\ UNCHANGED <<tableVars, coordVars>>

SubmitAccept ==
    /\ up /\ Submitting /\ busy.op = "accept"
    /\ Accept(busy.worker, busy.asg, busy.from)
    /\ busy' = [busy EXCEPT !.op = "close"]
    /\ UNCHANGED <<up, crashes, workerVars>>

\* The last section of submit_delta, and the answer.
SubmitClose ==
    /\ up /\ Submitting /\ busy.op = "close"
    /\ run' = IF AllCompleted /\ run = "TRAINING" THEN "AGGREGATING" ELSE run
    /\ busy' = None
    /\ LET w == busy.worker IN
         IF pc[w] = "submitting"
         THEN /\ pc' = [pc EXCEPT ![w] = "idle"]
              /\ cur' = [cur EXCEPT ![w] = None]
              /\ ClearCache(w)
         ELSE UNCHANGED <<pc, cur, cache>>
    /\ UNCHANGED <<aggregated, batch, attempt, holder, left, result, up, crashes, trained>>

AdminSetsRun(from, to) ==
    /\ Serves /\ run \in from /\ run' = to
    /\ UNCHANGED <<aggregated, batch, attempt, holder, left, result, up, crashes, workerVars>>

PauseRun  == AdminSetsRun({"TRAINING"}, "PAUSED") /\ UNCHANGED busy
ResumeRun == AdminSetsRun({"PAUSED"}, "TRAINING") /\ UNCHANGED busy

CancelRun ==
    /\ AdminSetsRun({"WAITING", "TRAINING", "PAUSED", "AGGREGATING"}, "CANCELLED")
    /\ busy' = [op |-> "cancel"]

\* The assignments stay active until their leases run out.
CancelBatches ==
    /\ up /\ busy # None /\ busy.op = "cancel"
    /\ SetBatches({b \in Batches : batch[b] \in {"WAITING"} \cup InProgress}, "CANCELLED")
    /\ busy' = None
    /\ UNCHANGED <<run, aggregated, attempt, holder, left, result, up, crashes, workerVars>>

\* Housekeeping
ExpireLeases ==
    /\ up /\ Overdue # {}
    /\ Expire(Overdue)
    /\ UNCHANGED <<run, aggregated, attempt, holder, result, coordVars, workerVars>>

\* A lease is expired and committed with its batch, one after the other.
Crash ==
    /\ up /\ crashes < MaxCrashes
    /\ up' = FALSE /\ crashes' = crashes + 1 /\ busy' = None
    /\ \E asgs \in SUBSET Overdue : Expire(asgs)
    /\ UNCHANGED <<run, aggregated, attempt, holder, result, workerVars>>

\* --recover does not touch the training tables.
Restart ==
    /\ ~up /\ up' = TRUE
    /\ UNCHANGED <<tableVars, crashes, busy, workerVars>>

Tick ==
    /\ left' = [a \in Asgs |-> IF left[a] \in {None, -1} THEN left[a] ELSE left[a] - 1]
    /\ UNCHANGED <<run, aggregated, batch, attempt, holder, result, coordVars, workerVars>>

-----------------------------------------------------------------------------
\* The workers, between their requests

\* The model was loaded, and adapter_initial taken, at most once: train_local
\* goes on from whatever the model was trained on before.
TrainLocal(w) == trained' = [trained EXCEPT ![w] = @ \cup {cur[w][1]}]

Train(w) ==
    /\ Goto(w, IF w \in Real THEN {"working"} ELSE {"got"}, "trained")
    /\ IF w \in Real THEN TrainLocal(w) ELSE UNCHANGED trained
    /\ UNCHANGED <<tableVars, coordVars, cur, cache>>

\* An exception: the coordinator cannot be reached or went away, or the training
\* failed.
Fails(w) ==
    /\ \/ ~up
       \/ pc[w] = "working"
       \/ pc[w] = "submitting" /\ ~Submitting
    /\ Leave(w, {"idle", "got", "working", "trained", "ready", "submitting"})
    /\ UNCHANGED <<tableVars, coordVars>>

\* At any moment, and without any cleaning up.
Kill(w) ==
    /\ Goto(w, {"idle", "got", "working", "trained", "ready", "submitting"}, "done")
    /\ Forget(w)
    /\ UNCHANGED <<tableVars, coordVars, cache>>

Worker(w) ==
    \/ RequestBatch(w) \/ NoBatch(w) \/ ReportProgress(w) \/ CompleteUpload(w)
    \/ SubmitDelta(w) \/ SubmitCached(w) \/ Train(w) \/ Fails(w) \/ Kill(w)

Coordinator ==
    \/ HandleCreateRun \/ SubmitAccept \/ SubmitClose
    \/ PauseRun \/ ResumeRun \/ CancelRun \/ CancelBatches
    \/ ExpireLeases \/ Crash \/ Restart \/ Tick

Next == Coordinator \/ \E w \in Workers : Worker(w)

Spec == Init /\ [][Next]_vars

\* Time passes, the housekeeping thread goes round, and someone starts a dead
\* coordinator again.  Nothing is assumed of the workers.
Fairness == WF_vars(Tick) /\ WF_vars(ExpireLeases) /\ WF_vars(Restart)

FairSpec == Spec /\ Fairness

-----------------------------------------------------------------------------
\* A batch in progress has exactly one active assignment, and a batch nobody
\* works on has none, though leases expire while a delta is being accepted.  (A
\* cancelled run forgets its assignments.)
HeldByOne ==
    /\ \A a, other \in Asgs : IsActive(a) /\ IsActive(other) /\ a[1] = other[1] => a = other
    /\ \A b \in Batches : batch[b] # "CANCELLED" =>
         (batch[b] \in InProgress <=> ActiveOf(b) # {})

\* The delta that completes a batch comes from the worker that holds its latest
\* assignment, never from one that lost the batch before.
NewestAccepted == \A b \in Batches : batch[b] = "COMPLETED" =>
    /\ result[b] # None
    /\ result[b].attempt = attempt[b]
    /\ result[b].worker = holder[<<b, attempt[b]>>]

Finished == \A b \in Batches : batch[b] = "COMPLETED"

\* Every batch of a run in AGGREGATING is COMPLETED, and aggregated_batches has
\* counted each once: expired attempts, late deltas and crashes included.
Counted ==
    /\ run = "AGGREGATING" => Finished
    /\ Finished => aggregated = NumBatches

\* A batch is held under its active assignment, and while a delta of it is being
\* accepted, even if the lease runs out in between; who holds it, and nobody
\* else, completes it, once.
Accepting(a) == busy # None /\ busy.op = "accept" /\ busy.asg = a

Ownership == INSTANCE UnitOwnership WITH
    Units <- Batches, Holders <- Workers,
    held <- {<<a[1], holder[a]>> : a \in {x \in Asgs : IsActive(x) \/ Accepting(x)}},
    finished <- {<<b, result[b].worker>> : b \in {x \in Batches : batch[x] = "COMPLETED"}}

OwnershipSpec == Ownership!Spec

\* No batch stays with a worker that is gone or has given up, even if the
\* coordinator dies.
InProgressEnds == \A b \in Batches : batch[b] \in InProgress ~> batch[b] \notin InProgress

\* "3. Take adapter_initial snapshot" for every batch (rc3_worker_real.py:500):
\* the delta of a batch is the training on it.  Not so: the snapshot is taken
\* when the model is loaded, and the delta of a worker's second batch contains
\* its first one as well.
DeltaIsItsBatch == \A b \in Batches : result[b] # None => result[b].from = {b}

=============================================================================
