--------------------------- MODULE MultiWorkerRound ---------------------------
(***************************************************************************)
(* The rounds of RC5.3 (rc5_3_multiworker.py, RoundCoordinator): a round   *)
(* is opened with an explicit parent, gets its models, calibrates and      *)
(* assigns its workers, runs, and is closed by averaging the ACTIVE        *)
(* contributions into the adapter the next round starts from.  Every       *)
(* public method runs under the coordinator's lock, so one method is one   *)
(* step here; round_open alone commits twice and may be cut in two by a    *)
(* crash.  Drivers, worker threads and rounds interleave freely.           *)
(*                                                                         *)
(* One run is modelled.  An adapter is the seed adapter or the one a round *)
(* closed with, which is named by that round.  Budgets, calibration        *)
(* payloads and the schema hashes, all compared for equality only, are     *)
(* left out.                                                               *)
(***************************************************************************)
EXTENDS Naturals, FiniteSets

CONSTANTS
    Rounds,     \* round ids
    Workers,    \* worker ids
    Asgs,       \* assignment ids
    Home,       \* [Asgs -> SUBSET Rounds], the rounds whose driver uses the id
    Cids,       \* contribution ids, one per uploaded receipt
    Bases,      \* worker_base_model_v1 hashes
    Seed,       \* the adapter_0 the drivers build
    None

ASSUME HomeAssumption == Home \in [Asgs -> SUBSET Rounds]

VARIABLES
    state,       \* rounds_r53.state, "NONE" while there is no row
    index,       \* rounds_r53.round_index
    parent,      \* rounds_r53.parent_round_id
    model,       \* rounds_r53: worker base, adapter_0 and parent adapter hashes
    calibrated,  \* calibrations_r53: the workers of a round that calibrated
    assigned,    \* assignments_r53
    contrib,     \* contributions, then contributions_r53, by cid
    adapter      \* round_adapters_r53

vars == <<state, index, parent, model, calibrated, assigned, contrib, adapter>>

States == {"NONE", "DRAFT", "OPEN", "CALIBRATING", "ASSIGNED", "RUNNING",
           "READY_TO_CLOSE", "CLOSED"}
Adapters == Rounds \cup {Seed}
Models == [base: Bases, adapter0: Adapters, parent: Adapters]
Rows == [round: Rounds, id: Asgs, worker: Workers, base: Adapters]
Contributions == [round: Rounds, id: Asgs, worker: Workers,
                  status: {"UPLOADED", "RECEIVED", "VALIDATED", "ACTIVE", "SUPERSEDED"}]
Closing == [pre: Adapters, of: SUBSET Cids]

ASSUME NoneAssumption == None \notin Rounds \cup Models \cup Contributions \cup Closing

Init ==
    /\ state = [r \in Rounds |-> "NONE"]
    /\ index = [r \in Rounds |-> 0]
    /\ parent = [r \in Rounds |-> None]
    /\ model = [r \in Rounds |-> None]
    /\ calibrated = [r \in Rounds |-> {}]
    /\ assigned = {}
    /\ contrib = [c \in Cids |-> None]
    /\ adapter = [r \in Rounds |-> None]

(***************************************************************************)
(* Opening a round and registering its models                              *)
(***************************************************************************)
Closed == {r \in Rounds : state[r] = "CLOSED"}
Exists(a) == a = Seed \/ a \in Closed

\* _latest_closed_index + 1, or the parent's index + 1.
IndexAfter(p, i) ==
    IF p # None THEN i = index[p] + 1
    ELSE /\ \A q \in Closed : index[q] < i
         /\ i = 1 \/ \E q \in Closed : i = index[q] + 1

\* The row is inserted as DRAFT and then updated, each in its own commit.
RoundOpen(r, p) ==
    /\ state[r] = "NONE"
    /\ p # None => p \in Closed
    /\ \E i \in 1..(Cardinality(Rounds) + 1) :
          /\ IndexAfter(p, i)
          /\ index' = [index EXCEPT ![r] = i]
    /\ parent' = [parent EXCEPT ![r] = p]
    /\ \E s \in {"DRAFT", "OPEN"} : state' = [state EXCEPT ![r] = s]
    /\ UNCHANGED <<model, calibrated, assigned, contrib, adapter>>

RoundReopen(r) ==
    /\ state[r] = "DRAFT"
    /\ state' = [state EXCEPT ![r] = "OPEN"]
    /\ UNCHANGED <<index, parent, model, calibrated, assigned, contrib, adapter>>

Registered == {r \in Rounds : model[r] # None}

SameBase_FaultyParent(r, b) ==
    parent[r] \in Registered => model[parent[r]].base = b

\* "ORDER BY round_index DESC LIMIT 1": a registered round no other is above.
SameBase(r, b) ==
    LET others == Registered \ {r} IN
    \/ others = {}
    \/ \E q \in others : /\ \A o \in others : index[o] <= index[q]
                         /\ model[q].base = b

RegisterRoundModel(r, b, a) ==
    /\ state[r] = "OPEN"
    /\ model[r] = None        \* the same bytes again change nothing
    /\ Exists(a)
    /\ index[r] > 1 => parent[r] \in Closed /\ a = parent[r]
    /\ SameBase(r, b)
    /\ model' = [model EXCEPT ![r] = [base |-> b, adapter0 |-> a, parent |-> a]]
    /\ UNCHANGED <<state, index, parent, calibrated, assigned, contrib, adapter>>

(***************************************************************************)
(* Calibration, assignment, start                                          *)
(***************************************************************************)
CalibrationSubmit(r, w) ==
    /\ state[r] \in {"OPEN", "CALIBRATING"}
    /\ calibrated' = [calibrated EXCEPT ![r] = @ \cup {w}]
    /\ state' = [state EXCEPT ![r] = "CALIBRATING"]
    /\ UNCHANGED <<index, parent, model, assigned, contrib, adapter>>

RowsOf(r) == {a \in assigned : a.round = r}
ExpectedBase_FaultySeed(r) == Seed

ExpectedBase(r) == IF index[r] > 1 THEN model[r].parent ELSE model[r].adapter0

\* The driver names the adapter its worker will start from.
Assign(r, i, w, a) ==
    /\ state[r] \in {"CALIBRATING", "ASSIGNED"}
    /\ r \in Home[i]
    /\ w \in calibrated[r]
    /\ model[r] # None
    /\ \A row \in RowsOf(r) : row.id # i /\ row.worker # w
    /\ Exists(a) /\ a = ExpectedBase(r)
    /\ assigned' = assigned \cup {[round |-> r, id |-> i, worker |-> w, base |-> a]}
    /\ state' = [state EXCEPT ![r] = "ASSIGNED"]
    /\ UNCHANGED <<index, parent, model, calibrated, contrib, adapter>>

StartRound(r) ==
    /\ state[r] = "ASSIGNED"
    /\ state' = [state EXCEPT ![r] = "RUNNING"]
    /\ UNCHANGED <<index, parent, model, calibrated, assigned, contrib, adapter>>

(***************************************************************************)
(* Contributions: real_worker_flow, from checkpoint.upload on              *)
(***************************************************************************)
\* The RC5.2 server opens a unit for an assignment row in any round state and
\* commits it under its own receipt, so a relaunched worker brings another cid.
CheckpointUpload(row, c) ==
    /\ row \in assigned /\ contrib[c] = None
    /\ contrib' = [contrib EXCEPT ![c] =
          [round |-> row.round, id |-> row.id, worker |-> row.worker, status |-> "UPLOADED"]]
    /\ UNCHANGED <<state, index, parent, model, calibrated, assigned, adapter>>

SetStatus(c, from, to) ==
    /\ contrib[c] # None /\ contrib[c].status = from
    /\ contrib' = [contrib EXCEPT ![c].status = to]
    /\ UNCHANGED <<state, index, parent, model, calibrated, assigned, adapter>>

RegisterUploadedContribution(c) == SetStatus(c, "UPLOADED", "RECEIVED")
ValidateContribution(c) == SetStatus(c, "RECEIVED", "VALIDATED")

Replaces_FaultyNever(c, d) == FALSE

\* The UPDATE names assignment and worker, not the round.
Replaces(c, d) ==
    /\ d # c /\ contrib[d] # None
    /\ contrib[d].status = "ACTIVE"
    /\ contrib[d].id = contrib[c].id /\ contrib[d].worker = contrib[c].worker

ActivateContribution_FaultyAgain(c) ==
    /\ contrib[c] # None /\ contrib[c].status \in {"VALIDATED", "SUPERSEDED"}
    /\ contrib' = [d \in Cids |->
          IF d = c THEN [contrib[d] EXCEPT !.status = "ACTIVE"]
          ELSE IF Replaces(c, d) THEN [contrib[d] EXCEPT !.status = "SUPERSEDED"]
          ELSE contrib[d]]
    /\ UNCHANGED <<state, index, parent, model, calibrated, assigned, adapter>>

ActivateContribution(c) ==
    /\ contrib[c] # None /\ contrib[c].status = "VALIDATED"
    /\ contrib' = [d \in Cids |->
          IF d = c THEN [contrib[d] EXCEPT !.status = "ACTIVE"]
          ELSE IF Replaces(c, d) THEN [contrib[d] EXCEPT !.status = "SUPERSEDED"]
          ELSE contrib[d]]
    /\ UNCHANGED <<state, index, parent, model, calibrated, assigned, adapter>>

(***************************************************************************)
(* Quorum and closing                                                      *)
(***************************************************************************)
ActiveOf(r) ==
    {c \in Cids : /\ contrib[c] # None
                  /\ contrib[c].round = r /\ contrib[c].status = "ACTIVE"}

IsFor(c, row) == contrib[c].id = row.id /\ contrib[c].worker = row.worker

ReadyToClose(r) ==
    /\ state[r] = "RUNNING"
    /\ \A row \in RowsOf(r) :
          \E c \in ActiveOf(r) : \A d \in ActiveOf(r) : IsFor(d, row) <=> d = c
    /\ state' = [state EXCEPT ![r] = "READY_TO_CLOSE"]
    /\ UNCHANGED <<index, parent, model, calibrated, assigned, contrib, adapter>>

PreAdapter(r) == IF index[r] > 1 THEN parent[r] ELSE model[r].adapter0

\* AGGREGATING is only seen inside the transaction.
CloseRound(r) ==
    /\ state[r] = "READY_TO_CLOSE"
    /\ index[r] > 1 => parent[r] \in Closed /\ parent[r] = model[r].parent
    /\ ActiveOf(r) # {}
    /\ adapter' = [adapter EXCEPT ![r] = [pre |-> PreAdapter(r), of |-> ActiveOf(r)]]
    /\ state' = [state EXCEPT ![r] = "CLOSED"]
    /\ UNCHANGED <<index, parent, model, calibrated, assigned, contrib>>

Next ==
    \/ \E r \in Rounds, p \in Rounds \cup {None} : RoundOpen(r, p)
    \/ \E r \in Rounds : RoundReopen(r)
    \/ \E r \in Rounds, b \in Bases, a \in Adapters : RegisterRoundModel(r, b, a)
    \/ \E r \in Rounds, w \in Workers : CalibrationSubmit(r, w)
    \/ \E r \in Rounds, i \in Asgs, w \in Workers, a \in Adapters : Assign(r, i, w, a)
    \/ \E r \in Rounds : StartRound(r)
    \/ \E row \in assigned, c \in Cids : CheckpointUpload(row, c)
    \/ \E c \in Cids : RegisterUploadedContribution(c)
    \/ \E c \in Cids : ValidateContribution(c)
    \/ \E c \in Cids : ActivateContribution(c)
    \/ \E r \in Rounds : ReadyToClose(r)
    \/ \E r \in Rounds : CloseRound(r)

Spec == Init /\ [][Next]_vars

(***************************************************************************)
(* Properties                                                              *)
(***************************************************************************)
\* Every table holds rows of its schema.
TypeOK ==
    /\ state \in [Rounds -> States]
    /\ index \in [Rounds -> Nat]
    /\ parent \in [Rounds -> Rounds \cup {None}]
    /\ model \in [Rounds -> Models \cup {None}]
    /\ calibrated \in [Rounds -> SUBSET Workers]
    /\ assigned \in SUBSET Rows
    /\ contrib \in [Cids -> Contributions \cup {None}]
    /\ adapter \in [Rounds -> Closing \cup {None}]

\* The adapter of a closed round is the average of exactly one contribution
\* per assignment of that round.  close_round does not count again what
\* ready_to_close counted, although contributions of relaunched workers may
\* be activated in between.
QuorumAtClose ==
    \A r \in Closed :
       /\ \A c \in adapter[r].of : \E row \in RowsOf(r) : IsFor(c, row)
       /\ \A row \in RowsOf(r) :
             \E c \in adapter[r].of : \A d \in adapter[r].of : IsFor(d, row) <=> d = c

\* A closed round continues its parent: the parent closed first, one index
\* below, and the adapter the round adds its average to is both the one the
\* parent closed with and the one every worker of the round was given.
LineageKept ==
    \A r \in Closed :
       /\ index[r] > 1 => /\ parent[r] \in Closed
                          /\ adapter[r].pre = parent[r]
                          /\ index[r] = index[parent[r]] + 1
       /\ \A row \in RowsOf(r) : row.base = adapter[r].pre

\* The worker base model is the same in all the rounds of a run, although each
\* registration is compared with one other round only ("only the adapter may
\* change").
OneBase == \A q, r \in Registered : model[q].base = model[r].base

\* The rounds implement RoundAverage: what counts for an assignment is the
\* ACTIVE contribution of its worker, until another one of the same worker, of
\* whatever round, is activated.
SlotOf(c) == <<contrib[c].round, contrib[c].id, contrib[c].worker>>
WithStatus(s) == {c \in Cids : contrib[c] # None /\ contrib[c].status = s}

Averaging == INSTANCE RoundAverage WITH
    Slots <- Rounds \X Asgs \X Workers, Contributions <- Cids,
    plan <- {<<row.round, row.id, row.worker>> : row \in assigned},
    chosen <- {<<SlotOf(c), c>> : c \in WithStatus("ACTIVE")},
    spent <- WithStatus("SUPERSEDED"),
    averages <- {<<r, {<<SlotOf(c), c>> : c \in adapter[r].of}>> : r \in Closed}

AverageSpec == Averaging!Spec
=============================================================================
