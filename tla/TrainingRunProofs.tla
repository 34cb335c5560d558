--------------------------- MODULE TrainingRunProofs ---------------------------
(***************************************************************************)
(* Proofs about TrainingRun, for any number of batches, workers, attempts  *)
(* and crashes: types, who holds a batch, whose delta completes it, and    *)
(* the count of the completed ones.                                        *)
(***************************************************************************)
EXTENDS TrainingRun, TLAPS, FiniteSetTheorems

-----------------------------------------------------------------------------
\* Types

Holding == {"got", "working", "trained", "ready", "submitting"}

\* What is in memory of a worker, and of the coordinator.
WorkerOK ==
    /\ pc \in [Workers -> {"idle", "done"} \cup Holding]
    /\ cur \in [Workers -> Asgs \cup {None}]
    /\ trained \in [Workers -> SUBSET Batches]
    /\ cache \subseteq Batches
    /\ \A w \in Workers : pc[w] \in Holding => cur[w] \in Asgs
CoordOK == up \in BOOLEAN /\ crashes \in 0..MaxCrashes /\ busy \in Requests \cup {None}
TableOK ==
    /\ run \in RunStates \cup {None}
    /\ aggregated \in Nat
    /\ batch \in [Batches -> BatchStates \cup {None}]
    /\ attempt \in [Batches -> 0..MaxAttempts + 1]
    /\ holder \in [Asgs -> Workers \cup {None}]
    /\ left \in [Asgs -> Nat \cup {-1, None}]
    /\ result \in [Batches -> Results \cup {None}]

\* The number of attempts is passed only by failing the batch, and a batch of a
\* run that was not created has no row.
RowsOK ==
    /\ run = None => \A b \in Batches : batch[b] = None
    /\ \A b \in Batches : attempt[b] > MaxAttempts => batch[b] = "FAILED"

Typed == WorkerOK /\ CoordOK /\ TableOK

\* An assignment is a batch and an attempt.
LEMMA AsgType ==
    /\ \A a \in Asgs : a[1] \in Batches /\ a[2] \in Attempts /\ a = <<a[1], a[2]>>
    /\ \A b \in Batches, n \in Attempts : <<b, n>> \in Asgs
    /\ \A a \in Asgs : a # None
    /\ MaxAttempts \in Nat /\ Attempts \subseteq Nat
<1>1. \A a \in Asgs : a # None
  BY NoneAssumption
<1>2. QED
  BY <1>1, ConstantsAssumption DEF Asgs, Attempts

\* The fields of the request that is being served.
LEMMA BusyType ==
    ASSUME CoordOK
    PROVE  Submitting => /\ busy.worker \in Workers /\ busy.asg \in Asgs
                         /\ busy.from \in SUBSET Batches
                         /\ [busy EXCEPT !.op = "close"] \in Requests
                         /\ [busy EXCEPT !.op = "close"].op = "close"
<1>1. SUFFICES ASSUME Submitting
               PROVE  /\ busy.worker \in Workers /\ busy.asg \in Asgs
                      /\ busy.from \in SUBSET Batches
                      /\ [busy EXCEPT !.op = "close"] \in Requests
                      /\ [busy EXCEPT !.op = "close"].op = "close"
  OBVIOUS
<1>2. busy \in [op : {"accept", "close"}, worker : Workers, asg : Asgs, from : SUBSET Batches]
  BY <1>1 DEF CoordOK, Submitting, Requests
<1>3. QED
  BY <1>2 DEF Requests

\* The typing of a batch's new state.
LEMMA SetBatchesType ==
    ASSUME TableOK, NEW set, NEW s \in BatchStates, SetBatches(set, s)
    PROVE  batch' \in [Batches -> BatchStates \cup {None}]
BY DEF SetBatches, TableOK

LEMMA ExtendLeaseType ==
    ASSUME TableOK, NEW a \in Asgs, IsActive(a), ExtendLease(a)
    PROVE  /\ left' \in [Asgs -> Nat \cup {-1, None}]
           /\ \A x \in Asgs : left'[x] = None <=> left[x] = None
<1>1. left[a] \in Nat \cup {-1} /\ Extension \in Nat
  BY ConstantsAssumption DEF TableOK, IsActive
<1>2. (IF left[a] < 0 THEN 0 ELSE left[a]) + Extension \in Nat
  BY <1>1
<1>3. \A n \in Nat : n # None
  BY NoneAssumption
<1>4. left' = [left EXCEPT ![a] = (IF left[a] < 0 THEN 0 ELSE left[a]) + Extension]
  BY DEF ExtendLease, TableOK
<1>5. QED
  BY <1>2, <1>3, <1>4 DEF TableOK, IsActive

LEMMA ExpireType ==
    ASSUME TableOK, NEW asgs \in SUBSET Overdue, Expire(asgs)
    PROVE  /\ left' \in [Asgs -> Nat \cup {-1, None}]
           /\ batch' \in [Batches -> BatchStates \cup {None}]
<1>1. batch' \in [Batches -> BatchStates \cup {None}]
  BY SetBatchesType DEF Expire, BatchStates
<1>2. QED
  BY <1>1 DEF Expire, TableOK

\* Every request, every step of the housekeeping thread and every step of a
\* worker keeps the types.
LEMMA WorkerStepType ==
    ASSUME Typed, RowsOK, NEW w \in Workers, Worker(w)
    PROVE  Typed'
<1> USE DEF Typed
<1>1. CASE RequestBatch(w)
  <2>1. PICK b \in Batches : /\ IsNext(b) /\ attempt[b] < MaxAttempts /\ AssignBatch(w, b)
                             /\ cur' = [cur EXCEPT ![w] = <<b, attempt[b] + 1>>]
    BY <1>1 DEF RequestBatch
  <2>2. attempt[b] + 1 \in Attempts /\ attempt[b] + 1 \in 0..MaxAttempts + 1
    BY <2>1, AsgType DEF TableOK, Attempts
  <2>3. <<b, attempt[b] + 1>> \in Asgs
    BY <2>2, AsgType
  <2>4. batch' \in [Batches -> BatchStates \cup {None}]
    BY <2>1, SetBatchesType DEF AssignBatch, BatchStates, InProgress
  <2>5. LeaseTime \in Nat /\ "TRAINING" \in RunStates
    BY ConstantsAssumption DEF RunStates
  <2>6. TableOK'
    BY <2>1, <2>2, <2>3, <2>4, <2>5 DEF TableOK, AssignBatch
  <2>7. WorkerOK'
    BY <1>1, <2>1, <2>3 DEF RequestBatch, WorkerOK, Goto, Holding
  <2>8. QED
    BY <1>1, <2>6, <2>7 DEF RequestBatch, CoordOK, coordVars
<1>2. CASE NoBatch(w)
  <2>1. TableOK'
    <3>1. CASE UNCHANGED tableVars
      BY <3>1 DEF TableOK, tableVars
    <3>2. ASSUME NEW b \in Batches, IsNext(b), attempt[b] >= MaxAttempts, FailBatch(b)
          PROVE  TableOK'
      <4>1. batch' \in [Batches -> BatchStates \cup {None}]
        BY <3>2, SetBatchesType DEF FailBatch, BatchStates
      <4>2. attempt[b] <= MaxAttempts
        BY <3>2, AsgType DEF RowsOK, IsNext, TableOK
      <4>3. attempt[b] + 1 \in 0..MaxAttempts + 1
        BY <4>2, AsgType DEF TableOK
      <4>4. QED
        BY <3>2, <4>1, <4>3 DEF FailBatch, TableOK
    <3>3. QED
      BY <1>2, <3>1, <3>2 DEF NoBatch
  <2>2. QED
    BY <1>2, <2>1 DEF NoBatch, CoordOK, coordVars, Leave, Goto, Forget, WorkerOK, Holding
<1>3. CASE ReportProgress(w)
  <2>1. pc[w] \in Holding /\ cur[w] \in Asgs
    BY <1>3 DEF ReportProgress, Goto, WorkerOK, Holding
  <2>2. TableOK'
    <3>1. CASE UNCHANGED tableVars
      BY <3>1 DEF TableOK, tableVars
    <3>2. CASE /\ IsCurrent(cur[w]) /\ ExtendLease(cur[w])
               /\ SetBatches({b \in {cur[w][1]} : batch[b] = "ASSIGNED"}, "TRAINING")
               /\ UNCHANGED <<run, aggregated, attempt, holder, result>>
      <4>1. batch' \in [Batches -> BatchStates \cup {None}]
        BY <3>2, SetBatchesType DEF BatchStates, InProgress
      <4>2. left' \in [Asgs -> Nat \cup {-1, None}]
        BY <2>1, <3>2, ExtendLeaseType DEF IsCurrent
      <4>3. QED
        BY <3>2, <4>1, <4>2 DEF TableOK
    <3>3. QED
      BY <1>3, <3>1, <3>2 DEF ReportProgress
  <2>3. WorkerOK'
    <3>1. cur[w][1] \in Batches
      BY <2>1, AsgType
    <3>2. cache' \subseteq Batches
      BY <1>3, <3>1 DEF ReportProgress, SaveDelta, WorkerOK
    <3>3. UNCHANGED <<cur, trained>> /\ \E to \in {"working", "ready"} : pc' = [pc EXCEPT ![w] = to]
      BY <1>3 DEF ReportProgress, Goto
    <3>4. QED
      BY <2>1, <3>2, <3>3 DEF WorkerOK, Holding
  <2>4. QED
    BY <1>3, <2>2, <2>3 DEF ReportProgress, CoordOK, coordVars
<1>4. CASE CompleteUpload(w)
  <2>1. cur[w] \in Asgs
    BY <1>4 DEF CompleteUpload, WorkerOK, Holding
  <2>2. batch' \in [Batches -> BatchStates \cup {None}]
    BY <1>4, SetBatchesType DEF CompleteUpload, BatchStates, InProgress
  <2>3. left' \in [Asgs -> Nat \cup {-1, None}]
    BY <1>4, <2>1, ExtendLeaseType DEF CompleteUpload, IsCurrent
  <2>4. QED
    BY <1>4, <2>2, <2>3 DEF CompleteUpload, TableOK, CoordOK, WorkerOK, coordVars, workerVars
<1>5. CASE SubmitDelta(w)
  <2>1. cur[w] \in Asgs /\ cur[w][1] \in Batches
    BY <1>5, AsgType DEF SubmitDelta, Goto, Leave, WorkerOK, Holding
  <2>2. TableOK'
    BY <1>5 DEF SubmitDelta, TableOK, tableVars
  <2>3. CASE ~Acceptable(w)
    BY <1>5, <2>2, <2>3
       DEF SubmitDelta, CoordOK, Leave, Goto, Forget, WorkerOK, Holding
  <2>4. CASE Acceptable(w)
    <3>1. PICK a \in ActiveOf(cur[w][1]) :
             busy' = [op |-> "accept", worker |-> w, asg |-> a, from |-> DeltaOf(w, a[1])]
      BY <1>5, <2>4 DEF SubmitDelta
    <3>2. a \in Asgs /\ a[1] \in Batches
      BY <2>1, <3>1 DEF ActiveOf
    <3>3. DeltaOf(w, a[1]) \in SUBSET Batches
      BY <3>2 DEF DeltaOf, WorkerOK
    <3>4. CoordOK'
      BY <1>5, <3>1, <3>2, <3>3 DEF SubmitDelta, CoordOK, Requests
    <3>5. WorkerOK'
      BY <1>5, <2>1, <2>4 DEF SubmitDelta, WorkerOK, Goto, Holding
    <3>6. QED
      BY <2>2, <3>4, <3>5
  <2>5. QED
    BY <2>3, <2>4
<1>6. CASE SubmitCached(w)
  BY <1>6 DEF SubmitCached, TableOK, CoordOK, WorkerOK, tableVars, coordVars, Leave, Goto,
              Forget, Holding
<1>7. CASE Train(w)
  <2>1. cur[w] \in Asgs /\ cur[w][1] \in Batches
    BY <1>7, AsgType DEF Train, Goto, WorkerOK, Holding
  <2>2. WorkerOK'
    BY <1>7, <2>1 DEF Train, TrainLocal, Goto, WorkerOK, Holding
  <2>3. QED
    BY <1>7, <2>2 DEF Train, TableOK, CoordOK, tableVars, coordVars
<1>8. CASE Fails(w)
  BY <1>8 DEF Fails, TableOK, CoordOK, WorkerOK, tableVars, coordVars, Leave, Goto, Forget, Holding
<1>9. CASE Kill(w)
  BY <1>9 DEF Kill, TableOK, CoordOK, WorkerOK, tableVars, coordVars, Goto, Forget, Holding
<1>10. QED
  BY <1>1, <1>2, <1>3, <1>4, <1>5, <1>6, <1>7, <1>8, <1>9 DEF Worker

LEMMA CoordinatorStepType ==
    ASSUME Typed, Coordinator
    PROVE  Typed'
<1> USE DEF Typed
<1>1. CASE HandleCreateRun
  <2>1. run' \in RunStates
    BY <1>1 DEF HandleCreateRun, CreateRun, RunStates
  <2>2. batch' \in [Batches -> BatchStates \cup {None}]
    BY <1>1, SetBatchesType DEF HandleCreateRun, CreateRun, BatchStates, TableOK
  <2>3. TableOK'
    BY <1>1, <2>1, <2>2 DEF HandleCreateRun, CreateRun, TableOK
  <2>4. QED
    BY <1>1, <2>3 DEF HandleCreateRun, CoordOK, WorkerOK, coordVars, workerVars
<1>2. CASE SubmitAccept
  <2>1. /\ busy.worker \in Workers /\ busy.asg \in Asgs /\ busy.from \in SUBSET Batches
        /\ busy' \in Requests
    BY <1>2, BusyType DEF SubmitAccept
  <2>2. Accept(busy.worker, busy.asg, busy.from)
    BY <1>2 DEF SubmitAccept
  <2>3. batch' \in [Batches -> BatchStates \cup {None}]
    BY <2>2, SetBatchesType DEF Accept, BatchStates
  <2>4. [attempt |-> busy.asg[2], worker |-> busy.worker, from |-> busy.from] \in Results
    BY <2>1, AsgType DEF Results
  <2>5. TableOK'
    <3>1. result' \in [Batches -> Results \cup {None}]
      BY <2>2, <2>4 DEF Accept, TableOK
    <3>2. left' \in [Asgs -> Nat \cup {-1, None}]
      BY <2>2 DEF Accept, TableOK
    <3>3. aggregated' \in Nat
      BY <2>2 DEF Accept, TableOK
    <3>4. QED
      BY <2>2, <2>3, <3>1, <3>2, <3>3 DEF Accept, TableOK
  <2>6. QED
    BY <1>2, <2>1, <2>5 DEF SubmitAccept, CoordOK, WorkerOK, workerVars
<1>3. CASE SubmitClose
  <2>1. run' \in RunStates \cup {None}
    BY <1>3 DEF SubmitClose, TableOK, RunStates
  <2>2. WorkerOK'
    <3>1. CASE pc[busy.worker] # "submitting"
      BY <1>3, <3>1 DEF SubmitClose, WorkerOK
    <3>2. CASE pc[busy.worker] = "submitting"
      BY <1>3, <3>2, BusyType DEF SubmitClose, ClearCache, WorkerOK, Holding
    <3>3. QED
      BY <3>1, <3>2
  <2>3. QED
    BY <1>3, <2>1, <2>2 DEF SubmitClose, TableOK, CoordOK
<1>4. CASE PauseRun \/ ResumeRun
  BY <1>4 DEF PauseRun, ResumeRun, AdminSetsRun, TableOK, CoordOK, WorkerOK, RunStates, workerVars
<1>5. CASE CancelRun
  <2>1. busy' \in Requests
    BY <1>5 DEF CancelRun, Requests
  <2>2. QED
    BY <1>5, <2>1 DEF CancelRun, AdminSetsRun, TableOK, CoordOK, WorkerOK, RunStates, workerVars
<1>6. CASE CancelBatches
  <2>1. batch' \in [Batches -> BatchStates \cup {None}]
    BY <1>6, SetBatchesType DEF CancelBatches, BatchStates
  <2>2. QED
    BY <1>6, <2>1 DEF CancelBatches, TableOK, CoordOK, WorkerOK, workerVars
<1>7. CASE ExpireLeases
  BY <1>7, ExpireType DEF ExpireLeases, TableOK, CoordOK, WorkerOK, coordVars, workerVars
<1>8. CASE Crash
  <2>1. crashes' \in 0..MaxCrashes
    BY <1>8, ConstantsAssumption DEF Crash, CoordOK
  <2>2. PICK asgs \in SUBSET Overdue : Expire(asgs)
    BY <1>8 DEF Crash
  <2>3. left' \in [Asgs -> Nat \cup {-1, None}] /\ batch' \in [Batches -> BatchStates \cup {None}]
    BY <2>2, ExpireType
  <2>4. QED
    BY <1>8, <2>1, <2>3 DEF Crash, TableOK, CoordOK, WorkerOK, workerVars
<1>9. CASE Restart
  BY <1>9 DEF Restart, TableOK, CoordOK, WorkerOK, tableVars, workerVars
<1>10. CASE Tick
  <2>1. left' \in [Asgs -> Nat \cup {-1, None}]
    BY <1>10 DEF Tick, TableOK
  <2>2. QED
    BY <1>10, <2>1 DEF Tick, TableOK, CoordOK, WorkerOK, coordVars, workerVars
<1>11. QED
  BY <1>1, <1>2, <1>3, <1>4, <1>5, <1>6, <1>7, <1>8, <1>9, <1>10 DEF Coordinator

-----------------------------------------------------------------------------
\* What a step does to the rows of the batches and the assignments

\* The same assignments are active after the step.
SameActive == \A a \in Asgs : IsActive(a)' <=> IsActive(a)

\* The effects a step may have on the tables, with the request being served.
Kept ==      \* nothing but the run's status or the time a lease has left
    /\ SameActive /\ UNCHANGED <<aggregated, batch, attempt, holder, result>>
    /\ run # None => run' # None
    /\ run' = "AGGREGATING" => run = "AGGREGATING" \/ AllCompleted
    /\ \/ UNCHANGED busy
       \/ busy = None /\ busy' # None /\ busy'.op = "cancel"
       \/ busy' = None
       \/ /\ busy = None /\ busy' # None /\ busy'.op = "accept"
          /\ \E w \in Workers : /\ pc[w] \in Holding /\ Acceptable(w)
                                /\ busy'.worker = w
                                /\ busy'.asg[1] = cur[w][1] /\ IsCurrent(busy'.asg)
                                /\ busy'.asg \in Asgs
Created ==
    /\ CreateRun /\ UNCHANGED busy /\ busy = None
Assigned ==
    \E w \in Workers, b \in Batches :
      /\ batch[b] = "WAITING" /\ attempt[b] < MaxAttempts /\ AssignBatch(w, b)
      /\ run # None /\ UNCHANGED busy /\ busy = None
OutOfAttempts ==
    \E b \in Batches : /\ batch[b] = "WAITING" /\ attempt[b] >= MaxAttempts /\ FailBatch(b)
                       /\ UNCHANGED busy /\ busy = None
GoesOn ==    \* a batch in progress stays in progress
    \E b \in Batches, s \in InProgress :
      /\ batch[b] \in InProgress /\ batch' = [batch EXCEPT ![b] = s]
      /\ SameActive /\ UNCHANGED <<run, aggregated, attempt, holder, result, busy>>
Expired ==
    /\ \E asgs \in SUBSET Overdue : Expire(asgs)
    /\ UNCHANGED <<run, aggregated, attempt, holder, result>>
    /\ UNCHANGED busy \/ busy' = None
Accepted ==
    /\ busy # None /\ busy.op = "accept" /\ busy.worker \in Workers /\ busy.asg \in Asgs
    /\ Accept(busy.worker, busy.asg, busy.from)
    /\ busy' # None /\ busy'.op = "close"
Cancelled ==
    /\ SetBatches({b \in Batches : batch[b] \in {"WAITING"} \cup InProgress}, "CANCELLED")
    /\ busy' = None /\ UNCHANGED <<run, aggregated, attempt, holder, left, result>>

TableStep == \/ Kept \/ Created \/ Assigned \/ OutOfAttempts \/ GoesOn \/ Expired
             \/ Accepted \/ Cancelled

LEMMA WorkerEffect ==
    ASSUME Typed, NEW w \in Workers, Worker(w)
    PROVE  TableStep
<1> USE DEF Typed
<1>1. CASE RequestBatch(w)
  <2>1. \A b \in Batches : IsNext(b) => batch[b] = "WAITING"
    BY DEF IsNext
  <2>2. run # None
    BY <1>1, NoneAssumption DEF RequestBatch, RunStates
  <2>3. QED
    BY <1>1, <2>1, <2>2 DEF RequestBatch, Serves, coordVars, TableStep, Assigned
<1>2. CASE NoBatch(w)
  <2>1. CASE UNCHANGED tableVars
    BY <1>2, <2>1 DEF NoBatch, tableVars, coordVars, TableStep, Kept, SameActive, IsActive
  <2>2. CASE \E b \in Batches : IsNext(b) /\ attempt[b] >= MaxAttempts /\ FailBatch(b)
    BY <1>2, <2>2 DEF NoBatch, IsNext, Serves, coordVars, TableStep, OutOfAttempts
  <2>3. QED
    BY <1>2, <2>1, <2>2 DEF NoBatch
<1>3. CASE ReportProgress(w)
  <2>1. cur[w] \in Asgs /\ cur[w][1] \in Batches /\ UNCHANGED busy
    BY <1>3, AsgType DEF ReportProgress, Goto, WorkerOK, Holding, coordVars
  <2>2. CASE UNCHANGED tableVars
    BY <2>1, <2>2 DEF tableVars, TableStep, Kept, SameActive, IsActive
  <2>3. CASE /\ IsCurrent(cur[w]) /\ ExtendLease(cur[w])
             /\ SetBatches({b \in {cur[w][1]} : batch[b] = "ASSIGNED"}, "TRAINING")
             /\ UNCHANGED <<run, aggregated, attempt, holder, result>>
    <3>1. SameActive
      BY <2>1, <2>3, ExtendLeaseType DEF IsCurrent, SameActive, IsActive
    <3>2. CASE batch[cur[w][1]] = "ASSIGNED"
      <4>1. batch' = [batch EXCEPT ![cur[w][1]] = "TRAINING"]
        BY <2>1, <2>3, <3>2 DEF SetBatches, TableOK
      <4>2. QED
        BY <2>1, <2>3, <3>1, <3>2, <4>1 DEF TableStep, GoesOn, InProgress
    <3>3. CASE batch[cur[w][1]] # "ASSIGNED"
      <4>1. batch' = batch
        BY <2>1, <2>3, <3>3 DEF SetBatches, TableOK
      <4>2. QED
        BY <2>1, <2>3, <3>1, <4>1 DEF TableStep, Kept
    <3>4. QED
      BY <3>2, <3>3
  <2>4. QED
    BY <1>3, <2>2, <2>3 DEF ReportProgress
<1>4. CASE CompleteUpload(w)
  <2> DEFINE b == cur[w][1]
  <2>1. cur[w] \in Asgs /\ b \in Batches
    BY <1>4, AsgType DEF CompleteUpload, WorkerOK, Holding
  <2>2. SameActive
    BY <1>4, <2>1, ExtendLeaseType DEF CompleteUpload, IsCurrent, SameActive, IsActive
  <2>3. batch' = [batch EXCEPT ![b] = IF batch[b] = "TRAINING" THEN "UPLOADING" ELSE batch[b]]
    BY <1>4, <2>1 DEF CompleteUpload, SetBatches, TableOK
  <2>4. batch[b] \in InProgress
        /\ (IF batch[b] = "TRAINING" THEN "UPLOADING" ELSE batch[b]) \in InProgress
    BY <1>4 DEF CompleteUpload, InProgress
  <2> HIDE DEF b
  <2>5. QED
    BY <1>4, <2>1, <2>2, <2>3, <2>4 DEF CompleteUpload, coordVars, TableStep, GoesOn
<1>5. CASE SubmitDelta(w)
  <2>1. UNCHANGED tableVars /\ busy = None /\ pc[w] \in Holding
    BY <1>5 DEF SubmitDelta, Serves, Goto, Leave, Holding
  <2>2. SameActive
    BY <2>1 DEF tableVars, SameActive, IsActive
  <2>3. CASE ~Acceptable(w)
    BY <1>5, <2>1, <2>2, <2>3 DEF SubmitDelta, tableVars, TableStep, Kept
  <2>4. CASE Acceptable(w)
    <3>1. PICK a \in ActiveOf(cur[w][1]) :
             /\ IsCurrent(a)
             /\ busy' = [op |-> "accept", worker |-> w, asg |-> a, from |-> DeltaOf(w, a[1])]
      BY <1>5, <2>4 DEF SubmitDelta
    <3>2. a \in Asgs /\ a[1] = cur[w][1]
      BY <3>1 DEF ActiveOf
    <3>3. busy' # None
      <4>1. DeltaOf(w, a[1]) \in SUBSET Batches
        BY <2>1, <3>2, AsgType DEF DeltaOf, WorkerOK
      <4>2. busy' \in Requests
        BY <3>1, <3>2, <4>1 DEF Requests
      <4>3. QED
        BY <4>2, NoneAssumption
    <3>4. busy'.op = "accept" /\ busy'.worker = w /\ busy'.asg = a
      BY <3>1
    <3>5. QED
      BY <2>1, <2>2, <2>4, <3>1, <3>2, <3>3, <3>4 DEF tableVars, TableStep, Kept
  <2>5. QED
    BY <2>3, <2>4
<1>6. CASE SubmitCached(w) \/ Train(w) \/ Fails(w) \/ Kill(w)
  BY <1>6 DEF SubmitCached, Train, Fails, Kill, tableVars, coordVars, TableStep, Kept, SameActive,
              IsActive
<1>7. QED
  BY <1>1, <1>2, <1>3, <1>4, <1>5, <1>6 DEF Worker

LEMMA CoordinatorEffect ==
    ASSUME Typed, Coordinator
    PROVE  TableStep
<1> USE DEF Typed
<1>1. CASE HandleCreateRun
  BY <1>1 DEF HandleCreateRun, Serves, coordVars, TableStep, Created
<1>2. CASE SubmitAccept
  <2>1. busy.worker \in Workers /\ busy.asg \in Asgs /\ busy' \in Requests /\ busy'.op = "close"
    BY <1>2, BusyType DEF SubmitAccept
  <2>2. busy' # None
    BY <2>1, NoneAssumption
  <2>3. QED
    BY <1>2, <2>1, <2>2 DEF SubmitAccept, Submitting, TableStep, Accepted
<1>3. CASE SubmitClose
  <2>1. run # None => run' # None
    BY <1>3, NoneAssumption DEF SubmitClose, RunStates
  <2>2. QED
    BY <1>3, <2>1 DEF SubmitClose, TableStep, Kept, SameActive, IsActive
<1>4. CASE PauseRun \/ ResumeRun
  <2>1. run' # None
    BY <1>4, NoneAssumption DEF PauseRun, ResumeRun, AdminSetsRun, RunStates
  <2>2. QED
    BY <1>4, <2>1 DEF PauseRun, ResumeRun, AdminSetsRun, TableStep, Kept, SameActive, IsActive
<1>5. CASE CancelRun
  <2>1. busy' \in Requests /\ busy'.op = "cancel"
    BY <1>5 DEF CancelRun, Requests
  <2>2. busy' # None /\ run' # None
    BY <1>5, <2>1, NoneAssumption DEF CancelRun, AdminSetsRun, RunStates
  <2>3. QED
    BY <1>5, <2>1, <2>2 DEF CancelRun, AdminSetsRun, Serves, TableStep, Kept, SameActive, IsActive
<1>6. CASE CancelBatches
  BY <1>6 DEF CancelBatches, TableStep, Cancelled
<1>7. CASE ExpireLeases
  BY <1>7 DEF ExpireLeases, coordVars, TableStep, Expired
<1>8. CASE Crash
  BY <1>8 DEF Crash, TableStep, Expired
<1>9. CASE Restart
  BY <1>9 DEF Restart, tableVars, TableStep, Kept, SameActive, IsActive
<1>10. CASE Tick
  <2>1. ASSUME NEW a \in Asgs
        PROVE  IsActive(a)' <=> IsActive(a)
    <3>1. left[a] # None => left[a] \in Int /\ left[a] - 1 \in Int
      BY DEF TableOK
    <3>2. QED
      BY <1>10, <3>1, NoneAssumption DEF Tick, IsActive
  <2>2. QED
    BY <1>10, <2>1 DEF Tick, coordVars, TableStep, Kept, SameActive
<1>11. QED
  BY <1>1, <1>2, <1>3, <1>4, <1>5, <1>6, <1>7, <1>8, <1>9, <1>10 DEF Coordinator

LEMMA StutterEffect ==
    ASSUME UNCHANGED vars
    PROVE  TableStep /\ (Typed => Typed')
BY DEF vars, tableVars, coordVars, workerVars, TableStep, Kept, SameActive, IsActive, Typed,
       TableOK, CoordOK, WorkerOK

-----------------------------------------------------------------------------
\* The inductive invariant

\* A worker was given what it has, and a batch is only assigned again under a
\* higher number.
CurOK == \A w \in Workers : cur[w] # None =>
    holder[cur[w]] = w /\ cur[w][2] <= attempt[cur[w][1]]

\* Only the latest assignment of a batch is active: it is the one the batch is
\* in progress with.
LatestActive == \A a \in Asgs : IsActive(a) => a[2] = attempt[a[1]]

HeldInProgress == \A b \in Batches : batch[b] # "CANCELLED" =>
    (batch[b] \in InProgress <=> \E a \in Asgs : a[1] = b /\ IsActive(a))

\* Nobody is given the batch whose delta is being accepted: what was checked
\* still holds when it is written, except that the lease may have expired.
AcceptOK == busy # None /\ busy.op = "accept" =>
    /\ run # None
    /\ busy.asg \in Asgs /\ busy.asg[2] = attempt[busy.asg[1]]
    /\ holder[busy.asg] = busy.worker
    /\ batch[busy.asg[1]] # "COMPLETED"

CompletedOnes == {b \in Batches : batch[b] = "COMPLETED"}

CountOK == /\ run = "AGGREGATING" => Finished
           /\ aggregated = Cardinality(CompletedOnes)

IInv == /\ Typed /\ RowsOK /\ CurOK /\ LatestActive /\ HeldInProgress /\ AcceptOK
        /\ NewestAccepted /\ CountOK

LEMMA InitIInv == Init => IInv
<1> SUFFICES ASSUME Init PROVE IInv
  OBVIOUS
<1>1. WorkerOK
  BY DEF Init, WorkerOK, Holding
<1>2. CoordOK
  BY ConstantsAssumption DEF Init, CoordOK
<1>3. TableOK
  <2>1. 0 \in 0..MaxAttempts + 1
    BY AsgType
  <2>2. QED
    BY <2>1 DEF Init, TableOK
<1>4. RowsOK
  BY AsgType DEF Init, RowsOK
<1>5. \A b \in Batches : batch[b] \notin BatchStates
  BY NoneAssumption DEF Init
<1>6. CurOK /\ LatestActive /\ AcceptOK
  BY DEF Init, CurOK, LatestActive, AcceptOK, IsActive
<1>7. HeldInProgress
  BY <1>5 DEF Init, HeldInProgress, IsActive, BatchStates
<1>8. NewestAccepted
  BY <1>5 DEF NewestAccepted, BatchStates
<1>9. CountOK
  <2>1. CompletedOnes = {}
    BY <1>5 DEF CompletedOnes, BatchStates
  <2>2. run # "AGGREGATING"
    BY NoneAssumption DEF Init, RunStates
  <2>3. QED
    BY <2>1, <2>2, FS_EmptySet DEF Init, CountOK
<1>10. QED
  BY <1>1, <1>2, <1>3, <1>4, <1>6, <1>7, <1>8, <1>9 DEF IInv, Typed

-----------------------------------------------------------------------------
\* Every effect preserves each part of it

\* A state of a batch is not None, and one of FAILED, COMPLETED and the states in
\* progress is not another.
LEMMA StatesDiffer ==
    /\ None \notin BatchStates
    /\ {"WAITING", "COMPLETED", "FAILED", "CANCELLED"} \cap InProgress = {}
    /\ InProgress \subseteq BatchStates
BY NoneAssumption DEF BatchStates, InProgress

LEMMA RowsStep ==
    ASSUME Typed, RowsOK, AcceptOK, TableStep
    PROVE  RowsOK'
<1> USE DEF Typed
<1>1. CASE Kept \/ Expired \/ GoesOn \/ Cancelled
  <2>1. run' = None => run = None
    BY <1>1 DEF Kept, Expired, GoesOn, Cancelled
  <2>2. attempt' = attempt
    BY <1>1 DEF Kept, Expired, GoesOn, Cancelled
  <2>3. ASSUME NEW b \in Batches, batch[b] \in {"FAILED", None}
        PROVE  batch'[b] = batch[b]
    BY <1>1, <2>3, StatesDiffer
       DEF Kept, Expired, Expire, GoesOn, Cancelled, SetBatches, TableOK, BatchStates
  <2>4. QED
    BY <2>1, <2>2, <2>3 DEF RowsOK
<1>2. CASE Accepted
  <2> DEFINE c == busy.asg[1]
  <2>1. busy.asg \in Asgs /\ attempt[c] \in Attempts /\ run # None
    BY <1>2, AsgType DEF Accepted, AcceptOK
  <2>2. run' # None /\ attempt' = attempt
    BY <1>2, <2>1 DEF Accepted, Accept
  <2>3. \A b \in Batches : b # c => batch'[b] = batch[b]
    BY <1>2 DEF Accepted, Accept, SetBatches
  <2>4. ~(attempt[c] > MaxAttempts)
    BY <2>1, AsgType DEF Attempts
  <2> HIDE DEF c
  <2>5. QED
    BY <2>2, <2>3, <2>4 DEF RowsOK
<1>3. CASE Created
  <2>1. run' # None /\ attempt' = attempt /\ run = None
    BY <1>3, NoneAssumption DEF Created, CreateRun, RunStates
  <2>2. \A b \in Batches : ~(attempt[b] > MaxAttempts)
    BY <2>1, StatesDiffer DEF RowsOK, BatchStates
  <2>3. QED
    BY <2>1, <2>2 DEF RowsOK
<1>4. CASE Assigned
  <2>1. PICK w \in Workers, b \in Batches : /\ batch[b] = "WAITING" /\ attempt[b] < MaxAttempts
                                           /\ AssignBatch(w, b)
    BY <1>4 DEF Assigned
  <2>2. run' # None
    BY <2>1, NoneAssumption DEF AssignBatch, RunStates
  <2>3. attempt' = [attempt EXCEPT ![b] = @ + 1] /\ ~(attempt[b] + 1 > MaxAttempts)
    BY <2>1, AsgType DEF AssignBatch, TableOK
  <2>4. \A c \in Batches : c # b => batch'[c] = batch[c]
    BY <2>1 DEF AssignBatch, SetBatches
  <2>5. QED
    BY <2>2, <2>3, <2>4 DEF RowsOK, TableOK
<1>5. CASE OutOfAttempts
  <2>1. PICK b \in Batches : batch[b] = "WAITING" /\ attempt[b] >= MaxAttempts /\ FailBatch(b)
    BY <1>5 DEF OutOfAttempts
  <2>2. run # None /\ run' = run
    BY <2>1, StatesDiffer DEF RowsOK, FailBatch, BatchStates
  <2>3. attempt' = [attempt EXCEPT ![b] = @ + 1] /\ batch'[b] = "FAILED"
        /\ \A c \in Batches : c # b => batch'[c] = batch[c]
    BY <2>1 DEF FailBatch, SetBatches
  <2>4. QED
    BY <2>2, <2>3 DEF RowsOK, TableOK
<1>6. QED
  BY <1>1, <1>2, <1>3, <1>4, <1>5 DEF TableStep

\* What a worker has is taken from it, or it is given the next attempt.
LEMMA CurStep ==
    ASSUME Typed, CurOK, Next
    PROVE  CurOK'
<1> USE DEF Typed
<1>1. ASSUME NEW w \in Workers, RequestBatch(w)
      PROVE  CurOK'
  <2>1. PICK b \in Batches : /\ attempt[b] < MaxAttempts /\ AssignBatch(w, b)
                             /\ cur' = [cur EXCEPT ![w] = <<b, attempt[b] + 1>>]
    BY <1>1 DEF RequestBatch
  <2> DEFINE a == <<b, attempt[b] + 1>>
  <2>2. a \in Asgs /\ a[1] = b /\ a[2] = attempt[b] + 1
    BY <2>1, AsgType DEF TableOK, Attempts
  <2>3. holder' = [holder EXCEPT ![a] = w] /\ attempt' = [attempt EXCEPT ![b] = @ + 1]
    BY <2>1 DEF AssignBatch
  <2>4. cur' = [cur EXCEPT ![w] = a]
    BY <2>1
  <2> HIDE DEF a
  <2>5. ASSUME NEW v \in Workers, v # w, cur[v] # None
        PROVE  holder'[cur[v]] = v /\ cur[v][2] <= attempt'[cur[v][1]]
    <3>1. cur[v] \in Asgs /\ cur[v][1] \in Batches /\ cur[v][2] \in Attempts
      BY <2>5, AsgType DEF WorkerOK
    <3>2. holder[cur[v]] = v /\ cur[v][2] <= attempt[cur[v][1]]
      BY <2>5 DEF CurOK
    <3>3. cur[v] # a
      BY <2>2, <3>1, <3>2, AsgType DEF TableOK
    <3>4. attempt[cur[v][1]] <= attempt'[cur[v][1]]
      BY <2>1, <2>3, <3>1 DEF TableOK
    <3>5. QED
      BY <2>1, <2>3, <3>1, <3>2, <3>3, <3>4, AsgType DEF TableOK
  <2>6. holder'[a] = w /\ a[2] <= attempt'[a[1]]
    BY <2>1, <2>2, <2>3 DEF TableOK
  <2>7. QED
    BY <2>4, <2>5, <2>6 DEF CurOK, WorkerOK
<1>2. ASSUME ~ \E w \in Workers : RequestBatch(w)
      PROVE  CurOK'
  <2>1. \A w \in Workers : cur'[w] \in {cur[w], None}
    BY <1>2 DEF Next, Coordinator, HandleCreateRun, SubmitAccept, SubmitClose, PauseRun, ResumeRun,
                AdminSetsRun, CancelRun, CancelBatches, ExpireLeases, Crash, Restart, Tick, Worker,
                NoBatch, ReportProgress, CompleteUpload, SubmitDelta, SubmitCached, Train, Fails,
                Kill, Leave, Forget, WorkerOK, workerVars
  <2>2. holder' = holder
    BY <1>2 DEF Next, Coordinator, HandleCreateRun, CreateRun, SubmitAccept, Accept, SubmitClose,
                PauseRun, ResumeRun, AdminSetsRun, CancelRun, CancelBatches, ExpireLeases, Crash,
                Restart, Tick, Worker, NoBatch, FailBatch, ReportProgress, CompleteUpload,
                SubmitDelta, SubmitCached, Train, Fails, Kill, tableVars
  <2>3. attempt' = attempt \/ \E b \in Batches : attempt' = [attempt EXCEPT ![b] = @ + 1]
    BY <1>2 DEF Next, Coordinator, HandleCreateRun, CreateRun, SubmitAccept, Accept, SubmitClose,
                PauseRun, ResumeRun, AdminSetsRun, CancelRun, CancelBatches, ExpireLeases, Crash,
                Restart, Tick, Worker, NoBatch, FailBatch, ReportProgress, CompleteUpload,
                SubmitDelta, SubmitCached, Train, Fails, Kill, tableVars
  <2>4. ASSUME NEW w \in Workers, cur'[w] # None
        PROVE  holder'[cur'[w]] = w /\ cur'[w][2] <= attempt'[cur'[w][1]]
    <3>1. cur'[w] = cur[w] /\ cur[w] \in Asgs
      BY <2>1, <2>4 DEF WorkerOK
    <3>2. cur[w][1] \in Batches /\ cur[w][2] \in Attempts
      BY <3>1, AsgType
    <3>3. holder[cur[w]] = w /\ cur[w][2] <= attempt[cur[w][1]]
      BY <2>4, <3>1 DEF CurOK
    <3>4. attempt[cur[w][1]] <= attempt'[cur[w][1]] /\ attempt'[cur[w][1]] \in Nat
      BY <2>3, <3>2, AsgType DEF TableOK
    <3>5. QED
      BY <2>2, <3>1, <3>2, <3>3, <3>4, AsgType DEF TableOK
  <2>5. QED
    BY <2>4 DEF CurOK
<1>3. QED
  BY <1>1, <1>2

\* Two assignments of a batch that are both the latest are one.
LEMMA SameAsg ==
    ASSUME NEW a \in Asgs, NEW other \in Asgs, a[1] = other[1], a[2] = other[2]
    PROVE  a = other
BY AsgType

\* The new assignment is active, and the batch had none; else an active one was
\* active before.
LEMMA LatestStep ==
    ASSUME Typed, LatestActive, HeldInProgress, AcceptOK, TableStep
    PROVE  LatestActive'
<1> USE DEF Typed
<1>1. CASE Assigned
  <2>1. PICK w \in Workers, b \in Batches : /\ batch[b] = "WAITING" /\ attempt[b] < MaxAttempts
                                           /\ AssignBatch(w, b)
    BY <1>1 DEF Assigned
  <2> DEFINE a == <<b, attempt[b] + 1>>
  <2>2. a \in Asgs /\ a[1] = b /\ a[2] = attempt[b] + 1
    BY <2>1, AsgType DEF TableOK, Attempts
  <2>3. left' = [left EXCEPT ![a] = LeaseTime] /\ attempt' = [attempt EXCEPT ![b] = @ + 1]
    BY <2>1 DEF AssignBatch
  <2>4. \A x \in Asgs : x[1] = b => ~IsActive(x)
    BY <2>1, StatesDiffer DEF HeldInProgress
  <2> HIDE DEF a
  <2>5. ASSUME NEW x \in Asgs, left'[x] # None
        PROVE  x[2] = attempt'[x[1]]
    <3>1. CASE x = a
      BY <2>1, <2>2, <2>3, <3>1 DEF TableOK
    <3>2. CASE x # a
      <4>1. IsActive(x)
        BY <2>3, <2>5, <3>2 DEF IsActive, TableOK
      <4>2. x[1] # b /\ x[1] \in Batches
        BY <2>4, <4>1, AsgType
      <4>3. QED
        BY <2>1, <2>3, <4>1, <4>2 DEF LatestActive, TableOK
    <3>3. QED
      BY <3>1, <3>2
  <2>6. QED
    BY <2>5 DEF LatestActive, IsActive
<1>2. CASE OutOfAttempts
  <2>1. PICK b \in Batches : batch[b] = "WAITING" /\ FailBatch(b)
    BY <1>2 DEF OutOfAttempts
  <2>2. \A x \in Asgs : x[1] = b => ~IsActive(x)
    BY <2>1, StatesDiffer DEF HeldInProgress
  <2>3. left' = left /\ attempt' = [attempt EXCEPT ![b] = @ + 1]
    BY <2>1 DEF FailBatch
  <2>4. QED
    BY <2>2, <2>3, AsgType DEF LatestActive, IsActive, TableOK
<1>3. CASE Kept \/ Created \/ GoesOn \/ Expired \/ Accepted \/ Cancelled
  <2>1. attempt' = attempt
    BY <1>3 DEF Kept, Created, CreateRun, GoesOn, Expired, Accepted, Accept, Cancelled
  <2>2. \A a \in Asgs : left'[a] # None => left[a] # None
    BY <1>3 DEF Kept, Created, CreateRun, GoesOn, Expired, Expire, Accepted, Accept, Cancelled,
                SameActive, IsActive, TableOK
  <2>3. QED
    BY <2>1, <2>2 DEF LatestActive, IsActive
<1>4. QED
  BY <1>1, <1>2, <1>3 DEF TableStep

\* A batch is in progress exactly while it has an active assignment.
LEMMA HeldStep ==
    ASSUME Typed, RowsOK, LatestActive, HeldInProgress, AcceptOK, TableStep
    PROVE  HeldInProgress'
<1> USE DEF Typed
<1>1. CASE Kept
  BY <1>1 DEF Kept, SameActive, HeldInProgress
<1>2. CASE Created
  <2>1. left' = left
    BY <1>2 DEF Created, CreateRun
  <2>2. \A b \in Batches : batch[b] = None
    BY <1>2 DEF Created, CreateRun, RowsOK
  <2>3. \A b \in Batches : batch[b] # "CANCELLED" /\ batch[b] \notin InProgress
    BY <2>2, StatesDiffer DEF BatchStates
  <2>4. \A b \in Batches : batch'[b] \notin InProgress
    BY <1>2, <2>3, StatesDiffer DEF Created, CreateRun, SetBatches
  <2>5. QED
    BY <2>1, <2>3, <2>4 DEF HeldInProgress, IsActive
<1>3. CASE Assigned
  <2>1. PICK w \in Workers, b \in Batches : /\ batch[b] = "WAITING" /\ attempt[b] < MaxAttempts
                                           /\ AssignBatch(w, b)
    BY <1>3 DEF Assigned
  <2> DEFINE a == <<b, attempt[b] + 1>>
  <2>2. a \in Asgs /\ a[1] = b
    BY <2>1, AsgType DEF TableOK, Attempts
  <2>3. left' = [left EXCEPT ![a] = LeaseTime] /\ LeaseTime # None
    BY <2>1, ConstantsAssumption, NoneAssumption DEF AssignBatch
  <2>4. batch'[b] = "ASSIGNED" /\ \A c \in Batches : c # b => batch'[c] = batch[c]
    BY <2>1 DEF AssignBatch, SetBatches
  <2> HIDE DEF a
  <2>5. left'[a] # None /\ \A x \in Asgs : x[1] # b => left'[x] = left[x]
    BY <2>2, <2>3 DEF TableOK
  <2>6. QED
    BY <2>2, <2>4, <2>5 DEF HeldInProgress, IsActive, InProgress
<1>4. CASE OutOfAttempts
  BY <1>4, StatesDiffer DEF OutOfAttempts, FailBatch, SetBatches, HeldInProgress, IsActive
<1>5. CASE GoesOn
  <2>1. PICK b \in Batches, s \in InProgress : batch[b] \in InProgress /\ batch' = [batch EXCEPT ![b] = s]
    BY <1>5 DEF GoesOn
  <2>2. \A c \in Batches : batch'[c] = batch[c] \/ {batch'[c], batch[c]} \subseteq InProgress
    BY <2>1 DEF TableOK
  <2>3. SameActive
    BY <1>5 DEF GoesOn
  <2>4. ASSUME NEW c \in Batches, batch'[c] # "CANCELLED"
        PROVE  (batch'[c] \in InProgress) <=> \E a \in Asgs : a[1] = c /\ left'[a] # None
    <3>1. batch[c] # "CANCELLED"
      BY <2>2, <2>4, StatesDiffer
    <3>2. (batch[c] \in InProgress) <=> \E a \in Asgs : a[1] = c /\ left[a] # None
      BY <3>1 DEF HeldInProgress, IsActive
    <3>3. \A a \in Asgs : left'[a] # None <=> left[a] # None
      BY <2>3 DEF SameActive, IsActive
    <3>4. QED
      BY <2>2, <3>2, <3>3
  <2>5. QED
    BY <2>4 DEF HeldInProgress, IsActive
<1>6. CASE Expired
  <2>1. PICK asgs \in SUBSET Overdue : Expire(asgs)
    BY <1>6 DEF Expired
  <2>2. ASSUME NEW b \in Batches, batch'[b] # "CANCELLED"
        PROVE  batch'[b] \in InProgress <=> \E a \in Asgs : a[1] = b /\ left'[a] # None
    <3>1. batch[b] # "CANCELLED"
      BY <2>1, <2>2, StatesDiffer DEF Expire, SetBatches
    <3>2. batch[b] \in InProgress <=> \E a \in Asgs : a[1] = b /\ left[a] # None
      BY <3>1 DEF HeldInProgress, IsActive
    <3>3. \A a \in Asgs : left'[a] = IF a \in asgs THEN None ELSE left[a]
      BY <2>1 DEF Expire
    <3>4. CASE \E a \in asgs : a[1] = b
      <4>1. PICK a \in asgs : a \in Asgs /\ a[1] = b /\ left[a] # None
        BY <2>1, <3>4 DEF Overdue, IsActive
      <4>2. \A other \in Asgs : other[1] = b /\ left[other] # None => other = a
        BY <4>1, SameAsg DEF LatestActive, IsActive
      <4>3. batch'[b] = "WAITING"
        BY <2>1, <3>2, <4>1 DEF Expire, SetBatches
      <4>4. QED
        BY <3>3, <4>1, <4>2, <4>3, StatesDiffer
    <3>5. CASE ~ \E a \in asgs : a[1] = b
      <4>1. batch'[b] = batch[b]
        BY <2>1, <3>5 DEF Expire, SetBatches
      <4>2. QED
        BY <3>2, <3>3, <3>5, <4>1
    <3>6. QED
      BY <3>4, <3>5
  <2>3. QED
    BY <2>2 DEF HeldInProgress, IsActive
<1>7. CASE Accepted
  <2>1. /\ busy.asg \in Asgs /\ busy.asg[2] = attempt[busy.asg[1]]
        /\ Accept(busy.worker, busy.asg, busy.from)
    BY <1>7 DEF Accepted, AcceptOK
  <2>2. \A a \in Asgs : left'[a] = IF a = busy.asg THEN None ELSE left[a]
    BY <2>1 DEF Accept, TableOK
  <2>3. \A b \in Batches : batch'[b] = IF b = busy.asg[1] THEN "COMPLETED" ELSE batch[b]
    BY <2>1 DEF Accept, SetBatches
  <2>4. \A a \in Asgs : a[1] = busy.asg[1] => left'[a] = None
    BY <2>1, <2>2, SameAsg DEF LatestActive, IsActive
  <2>5. QED
    BY <2>2, <2>3, <2>4, StatesDiffer DEF HeldInProgress, IsActive
<1>8. CASE Cancelled
  <2>1. left' = left
    BY <1>8 DEF Cancelled
  <2>2. \A b \in Batches : batch'[b] = "CANCELLED" \/ batch'[b] = batch[b]
    BY <1>8 DEF Cancelled, SetBatches
  <2>3. QED
    BY <2>1, <2>2 DEF HeldInProgress, IsActive
<1>9. QED
  BY <1>1, <1>2, <1>3, <1>4, <1>5, <1>6, <1>7, <1>8 DEF TableStep

\* What was checked of the delta being accepted: its assignment is the worker's.
LEMMA AcceptStep ==
    ASSUME Typed, RowsOK, CurOK, LatestActive, AcceptOK, TableStep
    PROVE  AcceptOK'
<1> USE DEF Typed
<1>1. CASE Kept
  <2>1. SUFFICES ASSUME busy' # None, busy'.op = "accept"
                 PROVE  /\ run' # None
                        /\ busy'.asg \in Asgs /\ busy'.asg[2] = attempt'[busy'.asg[1]]
                        /\ holder'[busy'.asg] = busy'.worker
                        /\ batch'[busy'.asg[1]] # "COMPLETED"
    BY DEF AcceptOK
  <2>2. UNCHANGED <<batch, attempt, holder>> /\ (run # None => run' # None)
    BY <1>1 DEF Kept
  <2>3. CASE UNCHANGED busy
    BY <2>1, <2>2, <2>3 DEF AcceptOK
  <2>4. CASE ~UNCHANGED busy
    <3>1. PICK w \in Workers : /\ pc[w] \in Holding /\ Acceptable(w) /\ busy'.worker = w
                               /\ busy'.asg[1] = cur[w][1] /\ IsCurrent(busy'.asg)
                               /\ busy'.asg \in Asgs
      BY <1>1, <2>1, <2>4 DEF Kept
    <3>2. cur[w] \in Asgs /\ cur[w] # None
      BY <3>1, AsgType DEF WorkerOK
    <3>3. /\ run \in {"TRAINING", "AGGREGATING"} /\ IsActive(cur[w])
          /\ batch[cur[w][1]] # "COMPLETED"
      BY <3>1 DEF Acceptable, IsCurrent
    <3>4. run # None
      BY <3>3, NoneAssumption DEF RunStates
    <3>5. cur[w][2] = attempt[cur[w][1]] /\ busy'.asg[2] = attempt[busy'.asg[1]]
      BY <3>1, <3>2, <3>3 DEF LatestActive, IsCurrent
    <3>6. busy'.asg = cur[w]
      BY <3>1, <3>2, <3>5, SameAsg
    <3>7. holder[cur[w]] = w
      BY <3>2 DEF CurOK
    <3>8. QED
      BY <2>2, <3>1, <3>3, <3>4, <3>5, <3>6, <3>7
  <2>5. QED
    BY <2>3, <2>4
<1>2. CASE Created \/ Assigned \/ OutOfAttempts \/ Cancelled
  BY <1>2 DEF Created, Assigned, OutOfAttempts, Cancelled, AcceptOK
<1>3. CASE Accepted
  BY <1>3 DEF Accepted, AcceptOK
<1>4. CASE GoesOn \/ Expired
  <2>1. /\ UNCHANGED <<run, attempt, holder>>
        /\ UNCHANGED busy \/ busy' = None
        /\ \A b \in Batches : batch'[b] = "COMPLETED" => batch[b] = "COMPLETED"
    BY <1>4, StatesDiffer DEF GoesOn, Expired, Expire, SetBatches, TableOK
  <2>2. QED
    BY <2>1, AsgType DEF AcceptOK
<1>5. QED
  BY <1>1, <1>2, <1>3, <1>4 DEF TableStep

\* Only accepting completes a batch, and nothing is done to it afterwards.
LEMMA CompletedStep ==
    ASSUME Typed, RowsOK, AcceptOK, TableStep
    PROVE  \A b \in Batches :
             /\ batch[b] = "COMPLETED" => /\ batch'[b] = "COMPLETED"
                                         /\ attempt'[b] = attempt[b]
                                         /\ holder'[<<b, attempt[b]>>] = holder[<<b, attempt[b]>>]
                                         /\ result'[b] = result[b]
             /\ batch[b] # "COMPLETED" /\ batch'[b] = "COMPLETED" =>
                  Accepted /\ b = busy.asg[1]
<1> USE DEF Typed
<1> TAKE b \in Batches
<1>1. CASE Kept \/ Cancelled \/ Expired \/ GoesOn
  BY <1>1, StatesDiffer DEF Kept, Cancelled, Expired, Expire, GoesOn, SetBatches, TableOK
<1>2. CASE Created
  <2>1. batch[b] # "COMPLETED"
    BY <1>2, StatesDiffer DEF Created, CreateRun, RowsOK, BatchStates
  <2>2. batch'[b] # "COMPLETED"
    BY <1>2, <2>1 DEF Created, CreateRun, SetBatches
  <2>3. QED
    BY <2>1, <2>2
<1>3. CASE Assigned
  <2>1. PICK w \in Workers, c \in Batches : /\ batch[c] = "WAITING" /\ attempt[c] < MaxAttempts
                                           /\ AssignBatch(w, c)
    BY <1>3 DEF Assigned
  <2>2. batch'[c] = "ASSIGNED" /\ (b # c => batch'[b] = batch[b])
    BY <2>1 DEF AssignBatch, SetBatches
  <2>3. attempt' = [attempt EXCEPT ![c] = @ + 1] /\ result' = result
        /\ holder' = [holder EXCEPT ![<<c, attempt[c] + 1>>] = w]
    BY <2>1 DEF AssignBatch
  <2>4. b # c => attempt'[b] = attempt[b]
    BY <2>3 DEF TableOK
  <2>5. <<c, attempt[c] + 1>> \in Asgs
    BY <2>1, AsgType DEF TableOK, Attempts
  <2>6. b # c => holder'[<<b, attempt[b]>>] = holder[<<b, attempt[b]>>]
    BY <2>3, <2>5 DEF TableOK
  <2>7. QED
    BY <2>1, <2>2, <2>3, <2>4, <2>6
<1>4. CASE OutOfAttempts
  BY <1>4 DEF OutOfAttempts, FailBatch, SetBatches, TableOK
<1>5. CASE Accepted
  BY <1>5 DEF Accepted, Accept, AcceptOK, SetBatches, TableOK
<1>6. QED
  BY <1>1, <1>2, <1>3, <1>4, <1>5 DEF TableStep

LEMMA NewestStep ==
    ASSUME Typed, RowsOK, AcceptOK, NewestAccepted, TableStep
    PROVE  NewestAccepted'
<1> USE DEF Typed
<1> SUFFICES ASSUME NEW b \in Batches, batch'[b] = "COMPLETED"
             PROVE  /\ result'[b] # None
                    /\ result'[b].attempt = attempt'[b]
                    /\ result'[b].worker = holder'[<<b, attempt'[b]>>]
  BY DEF NewestAccepted
<1>1. CASE batch[b] = "COMPLETED"
  <2>1. /\ attempt'[b] = attempt[b] /\ result'[b] = result[b]
        /\ holder'[<<b, attempt[b]>>] = holder[<<b, attempt[b]>>]
    BY <1>1, CompletedStep
  <2>2. /\ result[b] # None /\ result[b].attempt = attempt[b]
        /\ result[b].worker = holder[<<b, attempt[b]>>]
    BY <1>1 DEF NewestAccepted
  <2>3. QED
    BY <2>1, <2>2
<1>2. CASE batch[b] # "COMPLETED"
  <2>1. Accepted /\ b = busy.asg[1]
    BY <1>2, CompletedStep
  <2>2. /\ Submitting /\ busy.asg \in Asgs /\ busy.asg[2] = attempt[b]
        /\ holder[busy.asg] = busy.worker
    BY <2>1 DEF Accepted, AcceptOK, Submitting
  <2>3. busy.asg = <<b, attempt[b]>>
    BY <2>1, <2>2, AsgType
  <2> DEFINE r == [attempt |-> busy.asg[2], worker |-> busy.worker, from |-> busy.from]
  <2>4. result'[b] = r /\ attempt' = attempt /\ holder' = holder
    BY <2>1 DEF Accepted, Accept, TableOK
  <2>5. r \in Results
    BY <2>2, BusyType, AsgType DEF Results
  <2>6. r # None
    BY <2>5, NoneAssumption
  <2>7. r.attempt = attempt[b] /\ r.worker = holder[<<b, attempt[b]>>]
    BY <2>2, <2>3
  <2>8. QED
    BY <2>4, <2>6, <2>7
<1>3. QED
  BY <1>1, <1>2

\* aggregated_batches is the number of completed batches.
LEMMA CountStep ==
    ASSUME Typed, RowsOK, AcceptOK, CountOK, TableStep
    PROVE  CountOK'
<1> USE DEF Typed
<1>1. (run = "AGGREGATING" => Finished)'
  <2>1. run' = "AGGREGATING" => run = "AGGREGATING" \/ AllCompleted
    BY DEF TableStep, Kept, Created, CreateRun, Assigned, AssignBatch, OutOfAttempts, FailBatch,
           GoesOn, Expired, Accepted, Accept, Cancelled
  <2>2. QED
    BY <2>1, CompletedStep DEF CountOK, Finished, AllCompleted
<1>2. (aggregated = Cardinality(CompletedOnes))'
  <2>1. CASE Accepted
    <3> DEFINE b == busy.asg[1]
    <3>1. b \in Batches /\ batch[b] # "COMPLETED" /\ aggregated' = aggregated + 1
      BY <2>1, AsgType DEF Accepted, AcceptOK, Accept
    <3>2. batch'[b] = "COMPLETED" /\ \A c \in Batches : c # b => batch'[c] = batch[c]
      BY <2>1, <3>1 DEF Accepted, Accept, SetBatches
    <3> HIDE DEF b
    <3>3. CompletedOnes' = CompletedOnes \cup {b} /\ b \notin CompletedOnes
      BY <3>1, <3>2 DEF CompletedOnes
    <3>4. IsFiniteSet(CompletedOnes)
      <4>1. IsFiniteSet(Batches)
        BY FS_Interval, ConstantsAssumption DEF Batches
      <4>2. CompletedOnes \in SUBSET Batches
        BY DEF CompletedOnes
      <4>3. QED
        BY <4>1, <4>2, FS_Subset
    <3>5. Cardinality(CompletedOnes') = Cardinality(CompletedOnes) + 1
      BY <3>3, <3>4, FS_AddElement
    <3>6. QED
      BY <3>1, <3>5 DEF CountOK
  <2>2. CASE ~Accepted
    <3>1. aggregated' = aggregated
      BY <2>2 DEF TableStep, Kept, Created, CreateRun, Assigned, AssignBatch, OutOfAttempts,
                  FailBatch, GoesOn, Expired, Cancelled
    <3>2. CompletedOnes' = CompletedOnes
      BY <2>2, CompletedStep DEF CompletedOnes
    <3>3. QED
      BY <3>1, <3>2 DEF CountOK
  <2>3. QED
    BY <2>1, <2>2
<1>3. QED
  BY <1>1, <1>2 DEF CountOK

LEMMA NextIInv == IInv /\ [Next]_vars => IInv'
<1> SUFFICES ASSUME IInv, [Next]_vars PROVE IInv'
  OBVIOUS
<1>1. Typed /\ RowsOK /\ CurOK /\ LatestActive /\ HeldInProgress /\ AcceptOK /\ NewestAccepted /\ CountOK
  BY DEF IInv
<1>2. TableStep /\ Typed'
  <2>1. CASE Coordinator
    BY <1>1, <2>1, CoordinatorEffect, CoordinatorStepType
  <2>2. ASSUME NEW w \in Workers, Worker(w)
        PROVE  TableStep /\ Typed'
    BY <1>1, <2>2, WorkerEffect, WorkerStepType
  <2>3. CASE UNCHANGED vars
    BY <1>1, <2>3, StutterEffect
  <2>4. QED
    BY <2>1, <2>2, <2>3 DEF Next
<1>3. CurOK'
  <2>1. CASE Next
    BY <1>1, <2>1, CurStep
  <2>2. CASE UNCHANGED vars
    BY <1>1, <2>2 DEF CurOK, vars, tableVars, workerVars
  <2>3. QED
    BY <2>1, <2>2
<1>4. RowsOK' /\ LatestActive' /\ HeldInProgress' /\ AcceptOK' /\ NewestAccepted' /\ CountOK'
  BY <1>1, <1>2, RowsStep, LatestStep, HeldStep, AcceptStep, NewestStep, CountStep
<1>5. QED
  BY <1>2, <1>3, <1>4 DEF IInv

LEMMA Invariance == Spec => []IInv
BY InitIInv, NextIInv, PTL DEF Spec

-----------------------------------------------------------------------------
\* The theorems

\* Every row, lease and request of TrainingRunManager, and what the workers have in
\* memory, is of its type whatever is lost, expired or cancelled meanwhile.
THEOREM TypeCorrect == Spec => []TypeOK
<1>1. IInv => TypeOK
  BY DEF IInv, Typed, WorkerOK, CoordOK, TableOK, TypeOK, Holding
<1>2. QED
  BY <1>1, Invariance, PTL

\* A batch in progress has exactly one active assignment, and a batch nobody works
\* on has none (transition_batch, expire_stale_assignments, accept_delta).
THEOREM HeldTheorem == Spec => []HeldByOne
<1>1. IInv => HeldByOne
  <2> SUFFICES ASSUME IInv PROVE HeldByOne
    OBVIOUS
  <2>1. \A a, other \in Asgs : IsActive(a) /\ IsActive(other) /\ a[1] = other[1] => a = other
    BY SameAsg DEF IInv, LatestActive
  <2>2. \A b \in Batches : ActiveOf(b) # {} <=> \E a \in Asgs : a[1] = b /\ IsActive(a)
    BY DEF ActiveOf
  <2>3. QED
    BY <2>1, <2>2 DEF IInv, HeldInProgress, HeldByOne
<1>2. QED
  BY <1>1, Invariance, PTL

\* The delta that completes a batch is that of the worker of its latest attempt
\* (submit_delta checks in one section and accepts in another).
THEOREM NewestTheorem == Spec => []NewestAccepted
<1>1. IInv => NewestAccepted
  BY DEF IInv
<1>2. QED
  BY <1>1, Invariance, PTL

\* aggregated_batches counts each completed batch once, and a run is AGGREGATING
\* only with all of them (submit_delta's last section).
THEOREM CountTheorem == Spec => []Counted
<1>1. IInv => Counted
  <2> SUFFICES ASSUME IInv, Finished PROVE aggregated = NumBatches
    BY DEF IInv, CountOK, Counted
  <2>1. CompletedOnes = 1..NumBatches
    BY DEF CompletedOnes, Finished, Batches
  <2>2. Cardinality(1..NumBatches) = NumBatches
    BY FS_Interval, ConstantsAssumption
  <2>3. QED
    BY <2>1, <2>2 DEF IInv, CountOK
<1>2. QED
  BY <1>1, Invariance, PTL

-----------------------------------------------------------------------------
\* The run implements UnitOwnership

InForce(a) == IsActive(a) \/ Accepting(a)
Held == {<<a[1], holder[a]>> : a \in {x \in Asgs : InForce(x)}}
Done == {<<b, result[b].worker>> : b \in {x \in Batches : batch[x] = "COMPLETED"}}

\* A step that puts no assignment into force only takes batches away.
LEMMA LapseStep ==
    ASSUME \A a \in Asgs : InForce(a)' => InForce(a) /\ holder'[a] = holder[a],
           \A b \in Batches : /\ batch'[b] = "COMPLETED" <=> batch[b] = "COMPLETED"
                              /\ batch[b] = "COMPLETED" => result'[b] = result[b]
    PROVE  Ownership!Next
<1>1. Held' \subseteq Held
  BY DEF Held
<1>2. Done' = Done
  BY DEF Done
<1>3. PICK lost : lost \in SUBSET Held /\ Held' = Held \ lost
  BY <1>1
<1>4. Ownership!Lapse(lost)
  BY <1>2, <1>3 DEF Ownership!Lapse, Held, Done, InForce
<1>5. QED
  BY <1>3, <1>4 DEF Ownership!Next, Held, InForce

\* Assigning a batch grants it: nobody has it, and no delta of it is being
\* accepted, as requests are served one at a time.
LEMMA AssignGrants ==
    ASSUME Typed, LatestActive, HeldInProgress, Assigned
    PROVE  Ownership!Next
<1> USE DEF Typed
<1>1. PICK w \in Workers, b \in Batches : /\ batch[b] = "WAITING" /\ attempt[b] < MaxAttempts
                                         /\ AssignBatch(w, b) /\ busy = None /\ busy' = None
  BY DEF Assigned
<1>2. PICK a \in Asgs : a = <<b, attempt[b] + 1>>
  <2>1. attempt[b] + 1 \in Attempts
    BY <1>1, AsgType DEF TableOK, Attempts
  <2>2. <<b, attempt[b] + 1>> \in Asgs
    BY <2>1, AsgType
  <2>3. QED
    BY <2>2
<1>3. /\ left' = [left EXCEPT ![a] = LeaseTime] /\ holder' = [holder EXCEPT ![a] = w]
      /\ LeaseTime # None /\ result' = result
  BY <1>1, <1>2, ConstantsAssumption, NoneAssumption DEF AssignBatch
<1>4. \A x \in Asgs : x[1] = b => ~InForce(x)
  BY <1>1, StatesDiffer DEF HeldInProgress, InForce, Accepting
<1>5. a[1] = b /\ holder'[a] = w /\ InForce(a)'
  BY <1>2, <1>3 DEF TableOK, InForce, IsActive
<1>6. \A x \in Asgs : x # a => (InForce(x)' <=> InForce(x)) /\ holder'[x] = holder[x]
  BY <1>1, <1>3 DEF TableOK, InForce, IsActive, Accepting
<1>7. Held' = Held \cup {<<b, w>>}
  BY <1>4, <1>5, <1>6 DEF Held
<1>8. Done' = Done /\ b \notin Ownership!UnitsOf(Done)
  <2>1. \A c \in Batches : batch'[c] = IF c = b THEN "ASSIGNED" ELSE batch[c]
    BY <1>1 DEF AssignBatch, SetBatches
  <2>2. QED
    BY <1>1, <1>3, <2>1 DEF Done, Ownership!UnitsOf
<1>9. b \notin Ownership!UnitsOf(Held)
  BY <1>4 DEF Held, Ownership!UnitsOf
<1>10. Ownership!Grant(b, w)
  BY <1>7, <1>8, <1>9 DEF Ownership!Grant, Held, Done, InForce
<1>11. QED
  BY <1>10 DEF Ownership!Next

\* Accepting a delta finishes the batch, by the worker that still holds it.
LEMMA AcceptFinishes ==
    ASSUME Typed, LatestActive, AcceptOK, Accepted
    PROVE  Ownership!Next
<1> USE DEF Typed
<1>1. PICK a \in Asgs, w \in Workers : a = busy.asg /\ w = busy.worker
  BY DEF Accepted
<1>2. PICK b \in Batches : b = a[1]
  BY AsgType
<1>3. /\ busy # None /\ busy.op = "accept" /\ busy'.op = "close"
      /\ Accept(w, a, busy.from) /\ holder[a] = w /\ a[2] = attempt[b]
      /\ batch[b] # "COMPLETED"
  BY <1>1, <1>2 DEF Accepted, AcceptOK
<1>4. /\ left' = [left EXCEPT ![a] = None] /\ holder' = holder
      /\ \A c \in Batches : batch'[c] = IF c = b THEN "COMPLETED" ELSE batch[c]
      /\ result' = [result EXCEPT ![b] = [attempt |-> a[2], worker |-> w, from |-> busy.from]]
  BY <1>2, <1>3 DEF Accept, SetBatches
<1>5. result'[b].worker = w /\ \A c \in Batches : c # b => result'[c] = result[c]
  BY <1>4 DEF TableOK
<1>6. \A x \in Asgs : InForce(x) /\ x[1] = b => x = a
  BY <1>1, <1>2, <1>3, SameAsg DEF LatestActive, InForce, Accepting
<1>7. InForce(a) /\ \A x \in Asgs : InForce(x)' <=> InForce(x) /\ x # a
  <2>1. \A x \in Asgs : Accepting(x) => x = a
    BY <1>1 DEF Accepting
  <2>2. \A x \in Asgs : ~Accepting(x)'
    BY <1>3 DEF Accepting
  <2>3. \A x \in Asgs : left'[x] = IF x = a THEN None ELSE left[x]
    BY <1>4 DEF TableOK
  <2>4. Accepting(a)
    BY <1>1, <1>3 DEF Accepting
  <2>5. QED
    BY <2>1, <2>2, <2>3, <2>4 DEF InForce, IsActive
<1>8. <<b, w>> \in Held /\ Held' = Held \ {<<b, w>>}
  BY <1>2, <1>3, <1>4, <1>6, <1>7 DEF Held
<1>9. Done' = Done \cup {<<b, w>>}
  BY <1>3, <1>4, <1>5 DEF Done
<1>10. Ownership!Finish(b, w)
  BY <1>8, <1>9 DEF Ownership!Finish, Held, Done, InForce
<1>11. QED
  BY <1>10 DEF Ownership!Next

\* Whatever else a step does puts no assignment into force.
LEMMA OthersLapse ==
    ASSUME Typed, RowsOK, AcceptOK, TableStep, ~Assigned, ~Accepted
    PROVE  Ownership!Next
<1> USE DEF Typed
<1>1. \A b \in Batches : /\ batch'[b] = "COMPLETED" <=> batch[b] = "COMPLETED"
                         /\ batch[b] = "COMPLETED" => result'[b] = result[b]
  BY CompletedStep
<1>2. holder' = holder
  BY DEF TableStep, Kept, Created, CreateRun, OutOfAttempts, FailBatch, GoesOn, Expired, Cancelled
<1>3. ASSUME NEW a \in Asgs, IsActive(a)'
      PROVE  IsActive(a)
  <2>1. left' = left \/ SameActive \/ \E asgs \in SUBSET Overdue : Expire(asgs)
    BY DEF TableStep, Kept, Created, CreateRun, OutOfAttempts, FailBatch, GoesOn, Expired, Cancelled
  <2>2. QED
    BY <1>3, <2>1 DEF SameActive, Expire, IsActive
<1>4. ASSUME NEW a \in Asgs, Accepting(a)'
      PROVE  InForce(a)
  <2>1. CASE UNCHANGED busy
    BY <1>4, <2>1 DEF Accepting, InForce
  <2>2. CASE ~UNCHANGED busy
    <3>1. Kept
      BY <1>4, <2>2
         DEF TableStep, Created, CreateRun, OutOfAttempts, GoesOn, Expired, Cancelled, Accepting
    <3>2. IsCurrent(a)
      BY <1>4, <2>2, <3>1 DEF Kept, Accepting
    <3>3. QED
      BY <3>2 DEF IsCurrent, InForce
  <2>3. QED
    BY <2>1, <2>2
<1>5. \A a \in Asgs : InForce(a)' => InForce(a) /\ holder'[a] = holder[a]
  BY <1>2, <1>3, <1>4 DEF InForce
<1>6. QED
  BY <1>1, <1>5, LapseStep

\* The batches of a run are handed out as UnitOwnership says: whatever expires
\* while a delta is accepted, only the worker that holds a batch completes it.
THEOREM ImplementsOwnership == Spec => OwnershipSpec
<1>1. Init => Ownership!Init
  <2> SUFFICES ASSUME Init PROVE Ownership!Init
    OBVIOUS
  <2>1. \A a \in Asgs : ~IsActive(a) /\ ~Accepting(a)
    BY DEF Init, IsActive, Accepting
  <2>2. \A b \in Batches : batch[b] # "COMPLETED"
    BY StatesDiffer DEF Init, BatchStates
  <2>3. QED
    BY <2>1, <2>2 DEF Ownership!Init
<1>2. IInv /\ [Next]_vars => [Ownership!Next]_(Ownership!vars)
  <2> SUFFICES ASSUME IInv, [Next]_vars PROVE Ownership!Next
    OBVIOUS
  <2>1. Typed /\ RowsOK /\ LatestActive /\ HeldInProgress /\ AcceptOK
    BY DEF IInv
  <2>2. TableStep
    BY <2>1, CoordinatorEffect, WorkerEffect, StutterEffect DEF Next
  <2>3. QED
    BY <2>1, <2>2, AssignGrants, AcceptFinishes, OthersLapse
<1>3. QED
  BY <1>1, <1>2, Invariance, PTL DEF Spec, OwnershipSpec, Ownership!Spec
=============================================================================
