----------------------------- MODULE SplitPipeline -----------------------------
(***************************************************************************)
(* The lease-gated split pipeline of RC5.4 over the RC5.2 server.  A       *)
(* launch of a worker acquires a lease on a micro unit, opens a unit row   *)
(* of its own for it and takes that row through open, forward, fetch,      *)
(* update, commit and upload, one JSON-RPC call each.  The server serves   *)
(* one call at a time, under its lock, in steps that anything outside the  *)
(* lock may come between: the lease and the idempotency table admit the    *)
(* call, the handler commits, a second commit stores the answer.  A lease  *)
(* manager on another connection takes no lock of the server's, so a lease *)
(* may end, and be granted again, while a call it let in is being served.  *)
(* The server may crash at any of those points, and an answer may be lost, *)
(* after which the caller may send the same call again.                    *)
(*                                                                         *)
(* A launch in Journaled writes its delta to the recovery journal and      *)
(* exits (phase_a); phase_b reads the delta back and finishes the unit.    *)
(* A lease and a unit row are named by the launch they were made for: the  *)
(* launches are honest.  Nothing in the server ties the unit_id of a call  *)
(* to the micro unit of the lease that it names.                           *)
(***************************************************************************)
EXTENDS Naturals

CONSTANTS
    Micro,       \* micro units, each of one assignment
    Launches,
    Journaled,   \* launches run by phase_a
    MaxCrashes,  \* bound: server crashes
    None

ASSUME JournaledAssumption == Journaled \subseteq Launches
ASSUME NoneAssumption == None \notin Micro

VARIABLES
    mu,       \* leases_r54.micro_unit_id of the launch's lease
    lease,    \* leases_r54.status
    pc,       \* what the launch does next
    unit,     \* units.state, "NONE" while there is no row
    ctx,      \* ProtocolHandler._units: the server's memory of the unit
    idem,     \* idempotency: logical key and the launch whose payload it was
    journal,  \* recovery_journal_r54.state of the launch's unit and lease
    contrib,  \* contributions: the launches whose receipt was uploaded
    serving,  \* the call under ProtocolHandler._lock, at most one, and how far it is
    checked,  \* launches whose journal_set has seen a live lease and not yet written
    crashes

vars == <<mu, lease, pc, unit, ctx, idem, journal, contrib, serving, checked, crashes>>

Gated == {"open", "forward", "fetch", "update", "commit", "upload"}
Methods == Gated \cup {"abort"}
Stages == {"admitted", "committed"}
Keys == Methods \X (Micro \cup {None} \cup Launches)
Steps == Gated \cup {"acquire", "apply", "applied", "receipt", "register",
                       "DONE", "DEAD"}
UnitStates == {"NONE", "SERVER_ACTIVATION_READY", "CUT_GRADIENT_READY",
               "CUT_GRADIENT_DELIVERED", "DELTA_VERIFIED", "COMMITTED", "ABORTED"}
JournalStates == {"NONE", "PREPARED", "APPLIED", "SUBMITTED", "COMMITTED"}

Init ==
    /\ mu = [l \in Launches |-> None]
    /\ lease = [l \in Launches |-> "NONE"]
    /\ pc = [l \in Launches |-> "acquire"]
    /\ unit = [l \in Launches |-> "NONE"]
    /\ ctx = [l \in Launches |-> "NONE"]
    /\ idem = {}
    /\ journal = [l \in Launches |-> "NONE"]
    /\ contrib = {}
    /\ serving = {}
    /\ checked = {}
    /\ crashes = 0

Goto(l, step) == pc' = [pc EXCEPT ![l] = step]

(***************************************************************************)
(* Leases (Leases.tla has the lease manager itself)                        *)
(***************************************************************************)
Holds(l) == lease[l] = "ACTIVE"
Free(m) == \A l \in Launches : mu[l] = m => ~Holds(l)

Grant(l, m) ==
    /\ Free(m)
    /\ mu' = [mu EXCEPT ![l] = m]
    /\ lease' = [lease EXCEPT ![l] = "ACTIVE"]

Acquire(l, m) ==
    /\ pc[l] = "acquire"
    /\ Grant(l, m)
    /\ Goto(l, "open")
    /\ UNCHANGED <<unit, ctx, idem, journal, contrib, serving, checked, crashes>>

\* The TTL ran out, or the coordinator forced it, whatever is being served.
Expire(l) ==
    /\ Holds(l)
    /\ lease' = [lease EXCEPT ![l] = "EXPIRED"]
    /\ UNCHANGED <<mu, pc, unit, ctx, idem, journal, contrib, serving, checked, crashes>>

(***************************************************************************)
(* The server                                                              *)
(***************************************************************************)
\* _logical_key: step.open is keyed by the micro unit, the other gated calls by
\* the unit, and step.abort by nothing.
LogicalKey_FaultyUnit(l, k) == <<k, l>>
LogicalKey(l, k) ==
    CASE k = "open"  -> <<k, mu[l]>>
      [] k = "abort" -> <<k, None>>
      [] OTHER       -> <<k, l>>

\* _check_idem: the same payload again, or the key with another payload.
Answered(l, k) == <<LogicalKey(l, k), l>> \in idem
Taken_FaultyPayload(l, k) == FALSE
Taken(l, k) == \E o \in Launches \ {l} : <<LogicalKey(l, k), o>> \in idem

\* What each handler asks of the unit row and of the server's memory.
Ready(l, k) ==
    CASE k = "open"    -> TRUE
      [] k = "forward" -> unit[l] = "SERVER_ACTIVATION_READY" /\ ctx[l] # "NONE"
      [] k = "fetch"   -> unit[l] = "CUT_GRADIENT_READY" /\ ctx[l] = "GRADIENT"
      [] k = "update"  -> unit[l] = "CUT_GRADIENT_DELIVERED"
      [] k = "commit"  -> unit[l] = "DELTA_VERIFIED"
      [] k = "upload"  -> unit[l] = "COMMITTED"
      [] k = "abort"   -> unit[l] \notin {"NONE", "COMMITTED", "ABORTED"}

\* _validate_lease; step.abort is not a gated method.
Gate_FaultyCache(l, k) == k \in Gated => Holds(l) \/ Answered(l, k)
Gate(l, k) == k \in Gated => Holds(l)

StateAfter(l, k) ==
    CASE k = "open"    -> IF unit[l] = "NONE" THEN "SERVER_ACTIVATION_READY" ELSE unit[l]
      [] k = "forward" -> "CUT_GRADIENT_READY"
      [] k = "fetch"   -> "CUT_GRADIENT_DELIVERED"
      [] k = "update"  -> "DELTA_VERIFIED"
      [] k = "abort"   -> "ABORTED"
      [] OTHER         -> "COMMITTED"

\* Coordinator.checkpoint_upload: the receipt's nonce and its contribution.
CheckpointUpload(l, k) == contrib' = IF k = "upload" THEN contrib \cup {l} ELSE contrib

\* The handler up to its commit; a row that exists is opened without context.
Execute(l, k) ==
    /\ unit' = [unit EXCEPT ![l] = StateAfter(l, k)]
    /\ CheckpointUpload(l, k)

Remember(l, k) ==
    ctx' = CASE k = "open" /\ unit[l] = "NONE" -> [ctx EXCEPT ![l] = "ACTIVATION"]
             [] k = "forward"                  -> [ctx EXCEPT ![l] = "GRADIENT"]
             [] OTHER                          -> ctx

(***************************************************************************)
(* A call, and what may become of it                                       *)
(***************************************************************************)
StepAfter(l, k) ==
    CASE k = "open"    -> "forward"
      [] k = "forward" -> "fetch"
      [] k = "fetch"   -> "apply"
      [] k = "update"  -> "commit"
      [] k = "commit"  -> IF l \in Journaled THEN "receipt" ELSE "upload"
      [] k = "upload"  -> "register"

\* The lock is taken, and gate and idempotency table let the call in to its
\* handler.  Anybody may ask for a unit's abort.
Admit(l, k) ==
    /\ serving = {}
    /\ pc[l] = k \/ k = "abort"
    /\ Gate(l, k) /\ ~Taken(l, k) /\ ~Answered(l, k) /\ Ready(l, k)
    /\ serving' = {<<l, k, "admitted">>}
    /\ UNCHANGED <<mu, lease, pc, unit, ctx, idem, journal, contrib, checked, crashes>>

\* The handler's commit, which asks nothing of the lease any more.
Commit(l, k) ==
    /\ serving = {<<l, k, "admitted">>}
    /\ Execute(l, k)
    /\ Remember(l, k)
    /\ serving' = {<<l, k, "committed">>}
    /\ UNCHANGED <<mu, lease, pc, idem, journal, checked, crashes>>

\* _save_idem's commit, and the lock is given up.
SaveIdem(l, k) ==
    /\ serving = {<<l, k, "committed">>}
    /\ idem' = idem \cup {<<LogicalKey(l, k), l>>}
    /\ serving' = {}
    /\ UNCHANGED <<mu, lease, unit, ctx, journal, contrib, checked, crashes>>

\* The caller has its answer, unless it died in the meantime.
Store(l, k) ==
    /\ SaveIdem(l, k)
    /\ IF pc[l] = k THEN Goto(l, StepAfter(l, k)) ELSE UNCHANGED pc

\* The answer is lost: the caller still has the call to make.
StoreLost(l, k) ==
    /\ pc[l] = k
    /\ SaveIdem(l, k)
    /\ UNCHANGED pc

\* A call made again is answered from the table, behind the gate too.
Replay(l, k) ==
    /\ serving = {} /\ pc[l] = k
    /\ Gate(l, k) /\ Answered(l, k)
    /\ Goto(l, StepAfter(l, k))
    /\ UNCHANGED <<mu, lease, unit, ctx, idem, journal, contrib, serving, checked, crashes>>

\* An error answer is an exception in the worker, which has no handler for it.
CallRefused(l, k) ==
    /\ serving = {} /\ pc[l] = k
    /\ \/ ~Gate(l, k)
       \/ ~Answered(l, k) /\ (Taken(l, k) \/ ~Ready(l, k))
    /\ Goto(l, "DEAD")
    /\ UNCHANGED <<mu, lease, unit, ctx, idem, journal, contrib, serving, checked, crashes>>

\* The server's memory goes, and with it the call being served.
Crash ==
    /\ crashes < MaxCrashes
    /\ ctx' = [o \in Launches |-> "NONE"]
    /\ serving' = {}
    /\ crashes' = crashes + 1
    /\ UNCHANGED <<mu, lease, pc, unit, idem, journal, contrib, checked>>

(***************************************************************************)
(* The worker, its recovery journal and phase_b                            *)
(***************************************************************************)
\* journal_set up to its transaction: the lease is live.
JournalCheck(l) ==
    /\ l \notin checked /\ Holds(l)
    /\ \/ pc[l] \in {"applied", "receipt"}
       \/ pc[l] = "apply" /\ l \in Journaled
       \/ pc[l] = "DEAD" /\ journal[l] = "APPLIED"
    /\ checked' = checked \cup {l}
    /\ UNCHANGED <<mu, lease, pc, unit, ctx, idem, journal, contrib, serving, crashes>>

\* Its transaction, which does not ask again.
JournalSet(l, to) ==
    /\ l \in checked
    /\ checked' = checked \ {l}
    /\ journal' = [journal EXCEPT ![l] = to]

WorkerVars == <<mu, lease, unit, ctx, idem, contrib, serving, crashes>>

\* One optimizer step; phase_a then journals PREPARED, as one more commit.
Apply(l) ==
    /\ pc[l] = "apply"
    /\ IF l \in Journaled THEN JournalSet(l, "PREPARED") /\ Goto(l, "applied")
       ELSE Goto(l, "update") /\ UNCHANGED <<journal, checked>>
    /\ UNCHANGED WorkerVars

\* The delta is in the journal, and the process exits.
JournalApplied(l) ==
    /\ pc[l] = "applied"
    /\ JournalSet(l, "APPLIED")
    /\ Goto(l, "DEAD")
    /\ UNCHANGED WorkerVars

\* phase_b found the lease of phase_a still live.
Recover_FaultyOrder(l) ==
    /\ pc[l] = "DEAD" /\ journal[l] = "APPLIED"
    /\ JournalSet(l, "COMMITTED")
    /\ Goto(l, "update")
    /\ UNCHANGED WorkerVars

Recover(l) ==
    /\ pc[l] = "DEAD" /\ journal[l] = "APPLIED"
    /\ JournalSet(l, "SUBMITTED")
    /\ Goto(l, "update")
    /\ UNCHANGED WorkerVars

\* phase_b with that lease over: it acquires one as the other worker, and its
\* next write, which still names the old lease, is refused.
RecoverReassigned(l, o) ==
    /\ pc[l] = "DEAD" /\ journal[l] = "APPLIED" /\ ~Holds(l) /\ l \notin checked
    /\ pc[o] = "acquire"
    /\ Grant(o, mu[l])
    /\ pc' = [pc EXCEPT ![o] = "DEAD"]
    /\ UNCHANGED <<unit, ctx, idem, journal, contrib, serving, checked, crashes>>

JournalReceipt(l) ==
    /\ pc[l] = "receipt"
    /\ JournalSet(l, "COMMITTED")
    /\ Goto(l, "upload")
    /\ UNCHANGED WorkerVars

\* A journal write without a live lease raises.
JournalRefused(l) ==
    /\ ~Holds(l) /\ l \notin checked
    /\ \/ pc[l] \in {"applied", "receipt"}
       \/ pc[l] = "apply" /\ l \in Journaled
    /\ Goto(l, "DEAD")
    /\ UNCHANGED <<journal, checked, WorkerVars>>

\* register, validate and activate (MultiWorkerRound.tla); phase_b registers
\* through the gate, lease_worker_flow does not.
Register(l) ==
    /\ pc[l] = "register"
    /\ Goto(l, IF l \in Journaled /\ ~Holds(l) THEN "DEAD" ELSE "DONE")
    /\ UNCHANGED <<journal, checked, WorkerVars>>

\* The process of a launch, or of its phase_b; a call it had sent is served on.
Dies(l) ==
    /\ pc[l] \notin {"acquire", "DONE", "DEAD"} \/ l \in checked
    /\ Goto(l, "DEAD")
    /\ checked' = checked \ {l}
    /\ UNCHANGED <<journal, WorkerVars>>

Next ==
    \/ \E l \in Launches, m \in Micro : Acquire(l, m)
    \/ \E l \in Launches : Expire(l)
    \/ \E l \in Launches, k \in Methods : Admit(l, k)
    \/ \E l \in Launches, k \in Methods : Commit(l, k)
    \/ \E l \in Launches, k \in Methods : Store(l, k)
    \/ \E l \in Launches, k \in Gated : StoreLost(l, k)
    \/ \E l \in Launches, k \in Gated : Replay(l, k)
    \/ \E l \in Launches, k \in Gated : CallRefused(l, k)
    \/ Crash
    \/ \E l \in Launches : JournalCheck(l)
    \/ \E l \in Launches : Apply(l)
    \/ \E l \in Launches : JournalApplied(l)
    \/ \E l \in Launches : Recover(l)
    \/ \E l \in Launches, o \in Launches : RecoverReassigned(l, o)
    \/ \E l \in Launches : JournalReceipt(l)
    \/ \E l \in Launches : JournalRefused(l)
    \/ \E l \in Launches : Register(l)
    \/ \E l \in Launches : Dies(l)

Spec == Init /\ [][Next]_vars

(***************************************************************************)
(* Properties                                                              *)
(***************************************************************************)
\* Every table holds values of its columns.
TypeOK ==
    /\ mu \in [Launches -> Micro \cup {None}]
    /\ lease \in [Launches -> {"NONE", "ACTIVE", "EXPIRED"}]
    /\ pc \in [Launches -> Steps]
    /\ unit \in [Launches -> UnitStates]
    /\ ctx \in [Launches -> {"NONE", "ACTIVATION", "GRADIENT"}]
    /\ idem \subseteq (Keys \X Launches)
    /\ journal \in [Launches -> JournalStates]
    /\ contrib \subseteq Launches
    /\ serving \subseteq (Launches \X Methods \X Stages)
    /\ checked \subseteq Launches
    /\ crashes \in Nat

\* A micro unit is contributed at most once, whatever was relaunched after a
\* lease ran out, sent twice, or cut short by a crash of the server: each
\* launch has a unit row and a receipt of its own, so no key of those tables
\* keeps a second one out.
OnePerMicroUnit ==
    \A l, o \in contrib : mu[l] = mu[o] => l = o

\* What the recovery journal says of a unit brackets what its row says, at
\* every crash of the worker or of the server: no row has the delta before the
\* journal is SUBMITTED, and the journal is COMMITTED only for a row that is.
JournalBrackets ==
    \A l \in Journaled :
       /\ unit[l] \in {"DELTA_VERIFIED", "COMMITTED"} => journal[l] \in {"SUBMITTED", "COMMITTED"}
       /\ journal[l] = "COMMITTED" => unit[l] = "COMMITTED"
       /\ l \in contrib => journal[l] = "COMMITTED"

InService(l) == \E k \in Gated, stage \in Stages : <<l, k, stage>> \in serving

\* The lease of the launch is over, and nothing that it let in is under way.
Stopped(l) == lease[l] = "EXPIRED" /\ ~InService(l) /\ l \notin checked

\* A step that changes nothing of a stopped launch, and leaves it stopped: it
\* gets no further call in and no further answer, not even one that is stored
\* already; anybody may abort its unit.
Frozen(l) ==
    /\ Stopped(l)'
    /\ pc[l] \in Gated => pc'[l] \in {pc[l], "DEAD"}
    /\ \A k \in Gated : Answered(l, k)' <=> Answered(l, k)
    /\ unit'[l] \in {unit[l], "ABORTED"}
    /\ journal'[l] = journal[l]
    /\ l \in contrib' <=> l \in contrib

\* Once its lease is over and the one call, or journal write, that the lease
\* had let in is done, a launch changes nothing any more: not its unit row, its
\* journal, its contribution or the answers stored for it.
LeaseGates == [][\A l \in Launches : Stopped(l) => Frozen(l)]_vars

\* A launch holds a micro unit from the stored answer to its step.open on, as
\* long as its lease is live or a call the lease let in is being served, and
\* finishes it by its upload: so the launches that may contribute a micro unit
\* are one at a time, and only that one contributes it, once.  A lease alone
\* does not make a holder: one granted while the former holder's last call is
\* served, or on a micro unit already opened, gives nothing to do.
Working(l) == Answered(l, "open") /\ l \notin contrib /\ (Holds(l) \/ InService(l))

Ownership == INSTANCE UnitOwnership WITH
    Units <- Micro, Holders <- Launches,
    held <- {<<mu[l], l>> : l \in {o \in Launches : Working(o)}},
    finished <- {<<mu[l], l>> : l \in contrib}

OwnershipSpec == Ownership!Spec

\* The first lines of rc5_4_leases.py: "no contribution accepted after EXPIRED".
\* It fails, as the gate is asked before the handler commits, and another launch
\* may hold the lease by then; no passing run checks it.
NoContributionAfterExpired ==
    [][\A l \in contrib' \ contrib : Holds(l)]_vars
=============================================================================
