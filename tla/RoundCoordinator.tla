-------------------------- MODULE RoundCoordinator --------------------------
(***************************************************************************)
(* ModelRoundCoordinator of model_round_coordinator.py: the rounds, the    *)
(* plan of assignments, the contributions and the aggregation (FedAvg).    *)
(*                                                                         *)
(* The HTTP server runs every admin request in a thread of its own, on one *)
(* shared SQLite connection and without the lock it takes for workers'     *)
(* requests.  A thread is therefore interrupted between the checks of an   *)
(* operation and its writes, between the two UPDATEs of an activation and  *)
(* between the checks of fedavg, and it sees what other threads have not   *)
(* committed yet.  With one admin thread the operations are sequential, as *)
(* JobRunner issues them; workers' requests interleave all the same.       *)
(*                                                                         *)
(* A hash is a model value.  A "base" is what a round fixes for good: its  *)
(* base_model_hash ("model") and its adapter_0_sha ("adapter").  The two   *)
(* are not compared at the same places: worker.calibrate compares both,    *)
(* fedavg compares the model of every assignment with the round's but only *)
(* its own argument with the round's adapter.  backend_id, which nothing   *)
(* but a repeated round.create compares, is left out.                      *)
(***************************************************************************)
EXTENDS Naturals, FiniteSets

CONSTANTS Threads,    \* admin requests the server can be running at once
          Rounds,     \* (run_id, round_id)
          Asgs,       \* assignment_id, unique within a round only
          Workers,    \* worker_id
          Cids,       \* contribution ids (receipt ids)
          Models,     \* base_model_hash
          Adapters,   \* adapter_0_sha
          PreHashes,  \* adapter_pre_hash
          Etts,       \* effective trainable tokens
          Revisions,  \* assignment.revision
          None

VARIABLES round,   \* model_rounds
          asg,     \* model_assignments
          con,     \* model_contributions
          pc,      \* where the admin thread stands
          arg,     \* the contribution or round its request names
          result   \* what the last successful fedavg returned

vars == <<round, asg, con, pc, arg, result>>

Bases == [model : Models, adapter : Adapters]

RoundRow == [base : Bases, pre : PreHashes]
AsgRow == [worker : Workers, base : Bases, expected : Etts, registered : Etts, rev : Revisions]
ConStatus == {"RECEIVED", "VALIDATED", "ACTIVE", "SUPERSEDED"}
ConRow == [round : Rounds, asg : Asgs, worker : Workers, status : ConStatus,
           ett : Etts, pre : PreHashes, rev : Revisions]
Result == [round : Rounds, plan : UNION {[A -> AsgRow] : A \in SUBSET Asgs},
           weights : UNION {[C -> Etts] : C \in SUBSET Cids}]

ASSUME CoordinatorAssumption ==
    /\ Etts \subseteq Nat /\ 0 \in Etts
    /\ Revisions \subseteq Nat /\ 1 \in Revisions
    /\ None \notin RoundRow /\ None \notin AsgRow /\ None \notin ConRow
    /\ None \notin Result

PcOfCid   == {"validate_write", "supersede", "set_active"}
PcOfRound == {"homogeneity", "aggregate"}

Asg(r, a) == asg[<<r, a>>]
RoundPlan(r) == {a \in Asgs : Asg(r, a) # None}
Received == {c \in Cids : con[c] # None}
ActiveIn(r) == {c \in Received : con[c].round = r /\ con[c].status = "ACTIVE"}

TypeOK ==
    /\ round \in [Rounds -> RoundRow \cup {None}]
    /\ asg \in [Rounds \X Asgs -> AsgRow \cup {None}]
    /\ con \in [Cids -> ConRow \cup {None}]
    /\ pc \in [Threads -> PcOfCid \cup PcOfRound \cup {"idle"}]
    /\ arg \in [Threads -> Cids \cup Rounds \cup {None}]
    /\ \A t \in Threads : /\ pc[t] \in PcOfCid => arg[t] \in Received
                          /\ pc[t] \in PcOfRound => arg[t] \in Rounds
    /\ result \in Result \cup {None}

Init ==
    /\ round = [r \in Rounds |-> None]
    /\ asg = [x \in Rounds \X Asgs |-> None]
    /\ con = [c \in Cids |-> None]
    /\ pc = [t \in Threads |-> "idle"]
    /\ arg = [t \in Threads |-> None]
    /\ result = None

-----------------------------------------------------------------------------
\* The plan (admin).  Each of these is one INSERT after one SELECT.

Idle(t) == pc[t] = "idle"

CreateRound(t, r, base, pre) ==
    /\ Idle(t)
    /\ round[r] = None
    /\ round' = [round EXCEPT ![r] = [base |-> base, pre |-> pre]]
    /\ UNCHANGED <<asg, con, pc, arg, result>>

PutAsg(r, a, row) ==
    /\ asg' = [asg EXCEPT ![<<r, a>>] = row]
    /\ UNCHANGED <<round, con, pc, arg, result>>

\* Neither the round nor its base model is looked up here.
CreateAssignment(t, r, a, w, base, expected) ==
    /\ Idle(t)
    /\ Asg(r, a) = None
    /\ PutAsg(r, a, [worker |-> w, base |-> base, expected |-> expected,
                     registered |-> 0, rev |-> 1])

\* assign(): the deprecated INSERT OR REPLACE, which no RPC reaches.  It is the
\* one way to change the revision of an assignment; expected_ett falls to 0.
Assign(t, r, a, w, base, registered, rev) ==
    /\ Idle(t)
    /\ PutAsg(r, a, [worker |-> w, base |-> base, expected |-> 0,
                     registered |-> registered, rev |-> rev])

-----------------------------------------------------------------------------
\* Workers' requests

\* worker.calibrate verifies, then notes the ETT; an expected_ett of 0 admits
\* every ETT.
Calibrate(r, a, base, ett) ==
    /\ round[r] # None /\ round[r].base = base
    /\ Asg(r, a) # None /\ Asg(r, a).base = base
    /\ Asg(r, a).expected \in {0, ett}
    /\ asg' = [asg EXCEPT ![<<r, a>>].registered = ett]
    /\ UNCHANGED <<round, con, pc, arg, result>>

\* register_uploaded_contribution, for a new cid, by the assigned worker.  The
\* revision of the assignment is bound to the contribution here.
Register(c, r, a, ett, pre) ==
    /\ con[c] = None
    /\ Asg(r, a) # None
    /\ round[r] # None => round[r].pre = pre
    /\ con' = [con EXCEPT ![c] =
                 [round |-> r, asg |-> a, worker |-> Asg(r, a).worker, status |-> "RECEIVED",
                  ett |-> ett, pre |-> pre, rev |-> Asg(r, a).rev]]
    /\ UNCHANGED <<round, asg, pc, arg, result>>

-----------------------------------------------------------------------------
\* contribution.validate: SELECTs, then an UPDATE by cid alone

\* The assignment row a contribution is bound to, by all four key columns.
BoundTo(c, r, a) ==
    /\ con[c].round = r /\ con[c].asg = a
    /\ Asg(r, a) # None /\ Asg(r, a).worker = con[c].worker

\* (A name that ends in _Faulty... is a broken variant of the definition after
\* it, kept to check that the properties notice the fault.)
IsValid_FaultyAnyEtt(c) ==
    \E r \in Rounds, a \in Asgs :
        /\ BoundTo(c, r, a)
        /\ con[c].rev = Asg(r, a).rev
        /\ round[r] # None /\ con[c].pre = round[r].pre

IsValid(c) ==
    \E r \in Rounds, a \in Asgs :
        /\ BoundTo(c, r, a)
        /\ con[c].rev = Asg(r, a).rev
        /\ round[r] # None /\ con[c].pre = round[r].pre
        /\ con[c].ett = Asg(r, a).expected
        /\ Asg(r, a).registered \in {0, con[c].ett}

Goto(t, step, x) ==
    /\ pc' = [pc EXCEPT ![t] = step]
    /\ arg' = [arg EXCEPT ![t] = x]

ValidateCheck(t, c) ==
    /\ Idle(t)
    /\ c \in Received /\ con[c].status = "RECEIVED"
    /\ IsValid(c)
    /\ Goto(t, "validate_write", c)
    /\ UNCHANGED <<round, asg, con, result>>

SetConStatus(c, s) == con' = [con EXCEPT ![c].status = s]

ValidateWrite(t) ==
    /\ pc[t] = "validate_write"
    /\ SetConStatus(arg[t], "VALIDATED")
    /\ Goto(t, "idle", None)
    /\ UNCHANGED <<round, asg, result>>

-----------------------------------------------------------------------------
\* contribution.activate: a SELECT, then two UPDATEs

ActivateCheck_FaultyAnyStatus(t, c) ==
    /\ Idle(t)
    /\ c \in Received /\ con[c].status # "RECEIVED"
    /\ Goto(t, "supersede", c)
    /\ UNCHANGED <<round, asg, con, result>>

ActivateCheck(t, c) ==
    /\ Idle(t)
    /\ c \in Received /\ con[c].status = "VALIDATED"
    /\ Goto(t, "supersede", c)
    /\ UNCHANGED <<round, asg, con, result>>

Displaced_FaultyNone(c) == {}

\* WHERE assignment_id=? AND worker_id=?: neither run_id nor round_id.
Displaced(c) ==
    {d \in Received \ {c} : /\ con[d].asg = con[c].asg /\ con[d].worker = con[c].worker
                            /\ con[d].status = "ACTIVE"}

Supersede(t) ==
    /\ pc[t] = "supersede"
    /\ con' = [c \in Cids |-> IF c \in Displaced(arg[t])
                              THEN [con[c] EXCEPT !.status = "SUPERSEDED"] ELSE con[c]]
    /\ Goto(t, "set_active", arg[t])
    /\ UNCHANGED <<round, asg, result>>

SetActive(t) ==
    /\ pc[t] = "set_active"
    /\ SetConStatus(arg[t], "ACTIVE")
    /\ Goto(t, "idle", None)
    /\ UNCHANGED <<round, asg, result>>

-----------------------------------------------------------------------------
\* round.fedavg: three checks, then the read it aggregates

ActiveFor(r, a) ==
    {c \in ActiveIn(r) : con[c].asg = a /\ con[c].worker = Asg(r, a).worker}

QuorumMet_FaultyAny(r) == RoundPlan(r) # {} /\ ActiveIn(r) # {}

\* ready_to_close
QuorumMet(r) ==
    /\ RoundPlan(r) # {}
    /\ \A a \in RoundPlan(r) :
           \E c \in Cids : ActiveFor(r, a) = {c} /\ con[c].rev = Asg(r, a).rev
    /\ Cardinality(ActiveIn(r)) = Cardinality(RoundPlan(r))

Homogeneous_FaultyBase(r) ==
    /\ ActiveIn(r) # {}
    /\ \A c \in ActiveIn(r) :
           \E a \in Asgs : BoundTo(c, r, a) /\ con[c].pre = round[r].pre

\* verify_contributions_homogeneous: the assignment's base model is compared with
\* the round's; its adapter_0_sha is not, here or anywhere else in fedavg.
Homogeneous(r) ==
    /\ ActiveIn(r) # {}
    /\ \A c \in ActiveIn(r) :
           \E a \in Asgs : /\ BoundTo(c, r, a)
                           /\ con[c].pre = round[r].pre
                           /\ Asg(r, a).base.model = round[r].base.model
                           /\ con[c].rev = Asg(r, a).rev

\* active_deltas: COALESCE(a.expected_ett, c.ett)
Weight(c) ==
    LET row == Asg(con[c].round, con[c].asg)
    IN  IF row # None /\ row.worker = con[c].worker THEN row.expected ELSE con[c].ett

Weights(r) == [c \in ActiveIn(r) |-> Weight(c)]

FedAvgQuorum(t, r) ==
    /\ Idle(t)
    /\ QuorumMet(r)
    /\ Goto(t, "homogeneity", r)
    /\ UNCHANGED <<round, asg, con, result>>

\* verify_fedavg_baseline of the adapter bytes sent with the request, then the
\* homogeneity check.
FedAvgHomogeneity(t, adapter) ==
    /\ pc[t] = "homogeneity"
    /\ IF round[arg[t]] # None /\ round[arg[t]].base.adapter = adapter /\ Homogeneous(arg[t])
       THEN Goto(t, "aggregate", arg[t])
       ELSE Goto(t, "idle", None)
    /\ UNCHANGED <<round, asg, con, result>>

\* adapter_codec.fedavg refuses a total weight of 0.
FedAvgAggregate(t) ==
    /\ pc[t] = "aggregate"
    /\ LET r == arg[t] IN
       result' = IF \E c \in ActiveIn(r) : Weight(c) > 0
                 THEN [round |-> r, plan |-> [a \in RoundPlan(r) |-> Asg(r, a)],
                       weights |-> Weights(r)]
                 ELSE result
    /\ Goto(t, "idle", None)
    /\ UNCHANGED <<round, asg, con>>

-----------------------------------------------------------------------------
AdminNext(t) ==
    \/ \E r \in Rounds, base \in Bases, pre \in PreHashes : CreateRound(t, r, base, pre)
    \/ \E r \in Rounds, a \in Asgs, w \in Workers, base \in Bases :
           \/ \E e \in Etts : CreateAssignment(t, r, a, w, base, e)
           \/ \E e \in Etts, rev \in Revisions : Assign(t, r, a, w, base, e, rev)
    \/ \E c \in Cids : ValidateCheck(t, c) \/ ActivateCheck(t, c)
    \/ ValidateWrite(t)
    \/ Supersede(t)
    \/ SetActive(t)
    \/ \E r \in Rounds : FedAvgQuorum(t, r)
    \/ \E adapter \in Adapters : FedAvgHomogeneity(t, adapter)
    \/ FedAvgAggregate(t)

WorkerNext ==
    \E r \in Rounds, a \in Asgs, e \in Etts :
        \/ \E base \in Bases : Calibrate(r, a, base, e)
        \/ \E c \in Cids, pre \in PreHashes : Register(c, r, a, e, pre)

Next == (\E t \in Threads : AdminNext(t)) \/ WorkerNext

Spec == Init /\ [][Next]_vars

-----------------------------------------------------------------------------
\* Properties

\* At most one contribution of a worker is ACTIVE for an assignment of a round
\* (the docstring's SUPERSEDED rule, model_round_coordinator.py:15).
OneActive ==
    \A c, d \in Received :
        /\ con[c].status = "ACTIVE" /\ con[d].status = "ACTIVE"
        /\ con[c].round = con[d].round /\ con[c].asg = con[d].asg
        /\ con[c].worker = con[d].worker
        => c = d

\* An aggregated adapter is made of exactly one contribution per assignment of
\* the plan as it stands at that moment, each by the assigned worker and under
\* the current revision, and of nothing else: "quorum exacte", fedavg point 1.
ExactQuorum ==
    result # None =>
        LET used == DOMAIN result.weights
            plan == result.plan
        IN  /\ \A c \in used : /\ con[c].round = result.round
                               /\ con[c].asg \in DOMAIN plan
                               /\ con[c].worker = plan[con[c].asg].worker
                               /\ con[c].rev = plan[con[c].asg].rev
            /\ \A a \in DOMAIN plan : \E c \in used : con[c].asg = a
            /\ \A c, d \in used : con[c].asg = con[d].asg => c = d

\* Everything aggregated says it was trained from the round's adapter
\* (adapter_pre_hash) and stands under an assignment of the round's base model,
\* although the plan and the uploads were never checked together.  Nothing of
\* the kind holds for the adapter_0_sha of an assignment: see SameAdapter.
SameBaseline ==
    result # None =>
        /\ \A c \in DOMAIN result.weights : con[c].pre = round[result.round].pre
        /\ \A a \in DOMAIN result.plan : result.plan[a].base.model = round[result.round].base.model

\* Every assignment aggregated has the adapter_0_sha of its round.  It holds of a
\* worker that calibrates, which needs both to be equal, but neither the upload
\* nor fedavg asks for a calibration or compares the two: MCRoundsAdapters.cfg.
SameAdapter ==
    result # None =>
        \A a \in DOMAIN result.plan :
            result.plan[a].base.adapter = round[result.round].base.adapter

\* A contribution is weighted by the tokens its worker reported, or by 0 when
\* the assignment was replaced after validation: by no other number.
WeightIsWork ==
    result # None => \A c \in DOMAIN result.weights : result.weights[c] \in {con[c].ett, 0}

Rank(c) == CASE con[c] = None -> 0
             [] con[c] # None -> CASE con[c].status = "RECEIVED" -> 1
                                   [] con[c].status = "VALIDATED" -> 2
                                   [] con[c].status = "ACTIVE" -> 3
                                   [] con[c].status = "SUPERSEDED" -> 4

\* A contribution's status only moves forward: RECEIVED -> VALIDATED -> ACTIVE
\* -> SUPERSEDED; a superseded one never counts again.
StatusAdvances == [][\A c \in Cids : Rank(c) <= Rank(c)']_vars

\* The coordinator implements RoundAverage: what counts for an assignment is
\* the ACTIVE contribution of the worker it is assigned to.
SlotOf(c) == <<con[c].round, con[c].asg, con[c].worker>>
Planned == {x \in Rounds \X Asgs : asg[x] # None}
Active == {c \in Received : con[c].status = "ACTIVE"}

Averaging == INSTANCE RoundAverage WITH
    Slots <- Rounds \X Asgs \X Workers, Contributions <- Cids,
    plan <- {<<x[1], x[2], asg[x].worker>> : x \in Planned},
    chosen <- {<<SlotOf(c), c>> : c \in Active},
    spent <- {c \in Received : con[c].status = "SUPERSEDED"},
    averages <- IF result = None THEN {}
                ELSE {<<result.round, {<<SlotOf(c), c>> : c \in DOMAIN result.weights}>>}

AverageSpec == Averaging!Spec

RoundsApart ==
    \A c \in Cids : con[c] # None /\ con[c].status = "ACTIVE" /\ con'[c].status = "SUPERSEDED"
        => \E d \in Cids : /\ con[d] # None /\ con[d].round = con[c].round
                           /\ con[d].asg = con[c].asg /\ con[d].status = "VALIDATED"

\* A contribution is superseded only for a newer one of the same assignment;
\* assignments are identified by run, round and assignment_id.
SupersededByOwnRound == [][RoundsApart]_vars
=============================================================================
