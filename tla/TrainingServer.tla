--------------------------- MODULE TrainingServer ---------------------------
(***************************************************************************)
(* The requests of workers to training_http_server.py and the workers      *)
(* (model_worker.py) that send them.  Each assignment is one unit of work, *)
(* done by the one worker session it is assigned to; the lease table is    *)
(* the one of Leases.                                                      *)
(*                                                                         *)
(* The lease-gated requests run one at a time under the server's lock, in  *)
(* three committed stages: the lease check (_expire_overdue) with the      *)
(* lookup of a stored response, the method itself, and the storing of the  *)
(* response.  lease.acquire and lease.renew take no lock and interleave    *)
(* with the stages.  The server may crash between any two stages; its      *)
(* SQLite file survives.                                                   *)
(*                                                                         *)
(* A worker may be killed at any moment, its request to the server still   *)
(* queued or being served; it is launched again while launches last.  What *)
(* survives it is the training journal and the evidence file.              *)
(***************************************************************************)
EXTENDS Naturals

CONSTANTS Units,        \* one per assignment; also its worker's session
          LeaseIds,
          Ttl,          \* the 600 s every worker asks for
          Examples,     \* examples of a shard
          MaxTime,      \* bound on the clock
          MaxLaunches,  \* bound on the launches of a unit's worker
          None

VARIABLES clock, status, unit, holder, issued, expires, revision  \* leases_r54

VARIABLES state,      \* training_units.state
          receipt,    \* how many receipts submit has made for the unit
          contributions, \* model_contributions: cid -> source (the lease)
          stored,     \* idem_responses
          queue,      \* requests that wait for the server's lock
          gate        \* the gated request being served

VARIABLES pc,         \* the next request of a unit's worker process
          launches,   \* times the worker was launched
          mine,       \* lease id the process works under
          mineReceipt, \* receipt the process was given
          fresh,      \* has this process trained an example itself?
          journal,    \* examples APPLIED in the worker's journal
          evidence    \* lease id in the worker's evidence file

leaseVars  == <<clock, status, unit, holder, issued, expires, revision>>
dbVars     == <<state, receipt, contributions, stored>>
serveVars  == <<queue, gate>>
workerVars == <<pc, launches, mine, mineReceipt, fresh, journal, evidence>>
vars == <<leaseVars, dbVars, serveVars, workerVars>>

Lease == INSTANCE Leases WITH
    Holders <- Units, TTLs <- {Ttl}, MaxRevision <- MaxLaunches

Methods == {"open", "submit", "commit", "upload", "register", "release"}
Keys    == Methods \X Units
LastLoss == 1   \* the loss of the last example, trained by this process
MeanLoss == 2   \* the mean of the journal's losses, when all were recovered

\* body: the part of the parameters that may differ between two requests of a
\* method for a unit, beside the lease (a loss, or the receipt's number).
Requests == [unit : Units, launch : 1..MaxLaunches, method : Methods,
             lease : LeaseIds, body : Nat]

Responses == [sha : LeaseIds \X Nat, reply : Nat]
Served    == [request : Requests, stage : {"execute", "store"}, reply : Nat]

ASSUME ConstantsAssumption ==
    /\ Ttl \in Nat \ {0}
    /\ Examples \in Nat /\ MaxTime \in Nat /\ MaxLaunches \in Nat
    /\ None \notin Units /\ None \notin LeaseIds
    /\ None \notin Lease!Live \cup Lease!Ended \cup {"OPEN", "APPLIED", "COMMITTED"}
    /\ None \notin Responses /\ None \notin Served

Sha(q) == <<q.lease, q.body>>
Key(q) == <<q.method, q.unit>>

TypeOK ==
    /\ Lease!TypeOK
    /\ state \in [Units -> {None, "OPEN", "APPLIED", "COMMITTED"}]
    /\ receipt \in [Units -> Nat]
    /\ contributions \subseteq [unit : Units, receipt : Nat \ {0}, source : LeaseIds]
    /\ stored \in [Keys -> Responses \cup {None}]
    /\ queue \subseteq Requests
    /\ gate \in Served \cup {None}
    /\ pc \in [Units -> Methods \cup {"down", "lease", "train", "evidence", "done"}]
    /\ launches \in [Units -> 0..MaxLaunches]
    /\ mine \in [Units -> LeaseIds \cup {None}]
    /\ mineReceipt \in [Units -> Nat]
    /\ fresh \in [Units -> BOOLEAN]
    /\ journal \in [Units -> 0..Examples]
    /\ evidence \in [Units -> LeaseIds \cup {None}]

Init ==
    /\ Lease!Init
    /\ state = [u \in Units |-> None]
    /\ receipt = [u \in Units |-> 0]
    /\ contributions = {}
    /\ stored = [k \in Keys |-> None]
    /\ queue = {} /\ gate = None
    /\ pc = [u \in Units |-> "down"]
    /\ launches = [u \in Units |-> 0]
    /\ mine = [u \in Units |-> None]
    /\ mineReceipt = [u \in Units |-> 0]
    /\ fresh = [u \in Units |-> FALSE]
    /\ journal = [u \in Units |-> 0]
    /\ evidence = [u \in Units |-> None]

-----------------------------------------------------------------------------
\* The worker process (model_worker.main)

Goto(u, step) == pc' = [pc EXCEPT ![u] = step]

\* Launch; registered, calibrated and assigned, which leaves no trace here.
Launch(u) ==
    /\ pc[u] = "down" /\ launches[u] < MaxLaunches
    /\ launches' = [launches EXCEPT ![u] = @ + 1]
    /\ mine' = [mine EXCEPT ![u] = None]
    /\ mineReceipt' = [mineReceipt EXCEPT ![u] = 0]
    /\ fresh' = [fresh EXCEPT ![u] = FALSE]
    /\ Goto(u, "lease")
    /\ UNCHANGED <<leaseVars, dbVars, serveVars, journal, evidence>>

Renewable(l) == l # None /\ Lease!AfterExpiry[l] \in Lease!Live

TakeLease(u, l) ==
    /\ mine' = [mine EXCEPT ![u] = l]
    /\ Goto(u, "open")
    /\ UNCHANGED <<dbVars, serveVars, launches, mineReceipt, fresh, journal, evidence>>

\* The lease named in the evidence file is renewed ...
RenewLease(u) ==
    /\ pc[u] = "lease" /\ Renewable(evidence[u])
    /\ Lease!Renew(evidence[u], u, Ttl)
    /\ TakeLease(u, evidence[u])

\* ... or else, whatever the reason, a new one is acquired.
AcquireLease(u) ==
    /\ pc[u] = "lease" /\ ~Renewable(evidence[u])
    /\ \E l \in LeaseIds : Lease!Acquire(l, u, u, Ttl) /\ TakeLease(u, l)

\* Every error is an exception nothing catches: the process ends.
LeaseRefused(u) ==
    /\ pc[u] = "lease" /\ ~Renewable(evidence[u])
    /\ \E last \in Lease!LastRows(u) : Lease!AfterExpiry[last] \notin {"EXPIRED", "ABORTED"}
    /\ Goto(u, "down")
    /\ UNCHANGED <<leaseVars, dbVars, serveVars, launches, mine, mineReceipt, fresh, journal,
                   evidence>>

\* train_step of the next example the journal lacks; what it has is recovered.
TrainStep(u) ==
    /\ pc[u] = "train" /\ journal[u] < Examples
    /\ journal' = [journal EXCEPT ![u] = @ + 1]
    /\ fresh' = [fresh EXCEPT ![u] = TRUE]
    /\ UNCHANGED <<leaseVars, dbVars, serveVars, pc, launches, mine, mineReceipt, evidence>>

Trained(u) ==
    /\ pc[u] = "train" /\ journal[u] = Examples
    /\ Goto(u, "submit")
    /\ UNCHANGED <<leaseVars, dbVars, serveVars, launches, mine, mineReceipt, fresh, journal,
                   evidence>>

\* Has the process a request the server has not answered yet?
Waiting(u) ==
    \/ \E q \in queue : q.unit = u /\ q.launch = launches[u]
    \/ gate # None /\ gate.request.unit = u /\ gate.request.launch = launches[u]

\* The evidence file: at the end of --train-only, or of everything.
WriteEvidence(u) ==
    /\ \/ pc[u] = "submit" /\ Goto(u, "down")
       \/ pc[u] = "evidence" /\ Goto(u, "done")
    /\ ~Waiting(u)
    /\ evidence' = [evidence EXCEPT ![u] = mine[u]]
    /\ UNCHANGED <<leaseVars, dbVars, serveVars, launches, mine, mineReceipt, fresh, journal>>

Body(u) == CASE pc[u] = "submit" -> IF fresh[u] THEN LastLoss ELSE MeanLoss
             [] pc[u] \in {"upload", "register"} -> mineReceipt[u]
             [] pc[u] \in {"open", "commit", "release"} -> 0

Send(u) ==
    /\ pc[u] \in Methods /\ ~Waiting(u)
    /\ queue' = queue \cup {[unit |-> u, launch |-> launches[u], method |-> pc[u],
                             lease |-> mine[u], body |-> Body(u)]}
    /\ UNCHANGED <<leaseVars, dbVars, gate, workerVars>>

\* Killed, out of memory, or its client timeout (120 s) ran out.
Kill(u) ==
    /\ pc[u] \notin {"down", "done"}
    /\ Goto(u, "down")
    /\ UNCHANGED <<leaseVars, dbVars, serveVars, launches, mine, mineReceipt, fresh, journal,
                   evidence>>

-----------------------------------------------------------------------------
\* _gated, under the lock

After == [m \in Methods |->
    CASE m = "open" -> "train"      [] m = "submit" -> "commit"   [] m = "commit" -> "upload"
      [] m = "upload" -> "register" [] m = "register" -> "release" [] m = "release" -> "evidence"]

\* The answer reaches the process that asked, if it is still there.
Answer(q, next, reply) ==
    IF pc[q.unit] = q.method /\ launches[q.unit] = q.launch
    THEN /\ Goto(q.unit, next)
         /\ mineReceipt' = IF q.method = "submit" THEN [mineReceipt EXCEPT ![q.unit] = reply]
                                                  ELSE mineReceipt
         /\ UNCHANGED <<launches, mine, fresh, journal, evidence>>
    ELSE UNCHANGED workerVars

\* The lease check of q; it marks every overdue lease EXPIRED and commits.
CheckLease(q) ==
    /\ gate = None /\ q \in queue
    /\ queue' = queue \ {q}
    /\ Lease!ExpireOverdue

IsStored(q) == stored[Key(q)] # None

\* (A name that ends in _Faulty... is a broken variant of the definition after
\* it, kept to check that the properties notice the fault.)
SameRequest_FaultyNoLease(q) == stored[Key(q)].sha[2] = q.body

\* Both requests have the same sha.
SameRequest(q) == stored[Key(q)].sha = Sha(q)

Reject(q) ==
    /\ CheckLease(q)
    /\ \/ Lease!AfterExpiry[q.lease] \notin Lease!Live
       \/ IsStored(q) /\ ~SameRequest(q)
    /\ Answer(q, "down", 0)
    /\ UNCHANGED <<dbVars, gate>>

Replay(q) ==
    /\ CheckLease(q)
    /\ Lease!AfterExpiry[q.lease] \in Lease!Live
    /\ IsStored(q) /\ SameRequest(q)
    /\ Answer(q, After[q.method], stored[Key(q)].reply)
    /\ UNCHANGED <<dbVars, gate>>

Admit_FaultyStoreFirst(q) ==
    /\ CheckLease(q)
    /\ Lease!AfterExpiry[q.lease] \in Lease!Live
    /\ ~IsStored(q)
    /\ gate' = [request |-> q, stage |-> "execute", reply |-> 0]
    /\ stored' = [stored EXCEPT ![Key(q)] = [sha |-> Sha(q), reply |-> 0]]
    /\ UNCHANGED <<state, receipt, contributions, workerVars>>

Admit(q) ==
    /\ CheckLease(q)
    /\ Lease!AfterExpiry[q.lease] \in Lease!Live
    /\ ~IsStored(q)
    /\ gate' = [request |-> q, stage |-> "execute", reply |-> 0]
    /\ UNCHANGED <<dbVars, workerVars>>

Executing(q) == gate # None /\ gate.stage = "execute" /\ gate.request = q

\* The method has committed what it wrote; its response is not stored yet.
Executed(reply) ==
    /\ gate' = [gate EXCEPT !.stage = "store", !.reply = reply]
    /\ UNCHANGED <<stored, queue, workerVars>>

Open(q) ==
    /\ Executing(q) /\ q.method = "open"
    /\ state' = IF state[q.unit] = None THEN [state EXCEPT ![q.unit] = "OPEN"] ELSE state
    /\ Executed(0)
    /\ UNCHANGED <<leaseVars, receipt, contributions>>

Submit_FaultyAnyState(q) ==
    /\ Executing(q) /\ q.method = "submit"
    /\ state' = [state EXCEPT ![q.unit] = "APPLIED"]
    /\ receipt' = [receipt EXCEPT ![q.unit] = @ + 1]
    /\ Executed(receipt[q.unit] + 1)
    /\ UNCHANGED <<leaseVars, contributions>>

Submit(q) ==
    /\ Executing(q) /\ q.method = "submit"
    /\ state[q.unit] = "OPEN"
    /\ state' = [state EXCEPT ![q.unit] = "APPLIED"]
    /\ receipt' = [receipt EXCEPT ![q.unit] = @ + 1]
    /\ Executed(receipt[q.unit] + 1)
    /\ UNCHANGED <<leaseVars, contributions>>

Commit(q) ==
    /\ Executing(q) /\ q.method = "commit"
    /\ state[q.unit] = "APPLIED"
    /\ state' = [state EXCEPT ![q.unit] = "COMMITTED"]
    /\ Executed(0)
    /\ UNCHANGED <<leaseVars, receipt, contributions>>

\* The contribution of a request's receipt, with its source (the sha of the
\* upload, hence the lease).
Uploaded(q) == {c \in contributions : c.unit = q.unit /\ c.receipt = q.body}

Upload(q) ==
    /\ Executing(q) /\ q.method = "upload"
    /\ state[q.unit] = "COMMITTED" /\ q.body = receipt[q.unit]
    /\ \A c \in Uploaded(q) : c.source = q.lease
    /\ contributions' = contributions \cup
           {[unit |-> q.unit, receipt |-> q.body, source |-> q.lease]}
    /\ Executed(q.body)
    /\ UNCHANGED <<leaseVars, state, receipt>>

Register(q) ==
    /\ Executing(q) /\ q.method = "register"
    /\ Uploaded(q) # {}
    /\ Executed(0)
    /\ UNCHANGED <<leaseVars, state, receipt, contributions>>

Release_FaultyForgotten(q) ==
    /\ Executing(q) /\ q.method = "release"
    /\ Executed(0)
    /\ UNCHANGED <<leaseVars, state, receipt, contributions>>

Release(q) ==
    /\ Executing(q) /\ q.method = "release"
    /\ Lease!Release(q.lease, q.unit)
    /\ Executed(0)
    /\ UNCHANGED <<state, receipt, contributions>>

\* The method raises.
Refused(q) ==
    CASE q.method = "open" -> FALSE
      [] q.method = "submit" -> state[q.unit] # "OPEN"
      [] q.method = "commit" -> state[q.unit] # "APPLIED"
      [] q.method = "upload" -> \/ state[q.unit] # "COMMITTED" \/ q.body # receipt[q.unit]
                                \/ \E c \in Uploaded(q) : c.source # q.lease
      [] q.method = "register" -> Uploaded(q) = {}
      [] q.method = "release" -> status[q.lease] \notin Lease!Live \/ clock >= expires[q.lease]

Fails_FaultyKeepsLock(q) ==
    /\ Executing(q) /\ Refused(q)
    /\ Answer(q, "down", 0)
    /\ UNCHANGED <<leaseVars, dbVars, queue, gate>>

\* Nothing is written and nothing stored.
Fails(q) ==
    /\ Executing(q) /\ Refused(q)
    /\ gate' = None
    /\ Answer(q, "down", 0)
    /\ UNCHANGED <<leaseVars, dbVars, queue>>

Store ==
    /\ gate # None /\ gate.stage = "store"
    /\ LET q == gate.request IN
           /\ stored' = [stored EXCEPT ![Key(q)] = [sha |-> Sha(q), reply |-> gate.reply]]
           /\ Answer(q, After[q.method], gate.reply)
    /\ gate' = None
    /\ UNCHANGED <<leaseVars, state, receipt, contributions, queue>>

\* Every connection breaks: whoever waits for an answer ends.
ServerCrash ==
    /\ queue' = {} /\ gate' = None
    /\ pc' = [u \in Units |-> IF Waiting(u) THEN "down" ELSE pc[u]]
    /\ UNCHANGED <<leaseVars, dbVars, launches, mine, mineReceipt, fresh, journal, evidence>>

Tick ==
    /\ Lease!Tick
    /\ UNCHANGED <<dbVars, serveVars, workerVars>>

-----------------------------------------------------------------------------
WorkerNext(u) ==
    \/ Launch(u) \/ RenewLease(u) \/ AcquireLease(u) \/ LeaseRefused(u)
    \/ TrainStep(u) \/ Trained(u) \/ Send(u) \/ WriteEvidence(u)

Execute(q) == \/ Open(q) \/ Submit(q) \/ Commit(q) \/ Upload(q) \/ Register(q) \/ Release(q)
              \/ Fails(q)

ServerNext ==
    \/ \E q \in queue : Reject(q) \/ Replay(q) \/ Admit(q)
    \/ gate # None /\ Execute(gate.request)
    \/ Store

Next ==
    \/ \E u \in Units : WorkerNext(u) \/ Kill(u)
    \/ ServerNext
    \/ ServerCrash
    \/ Tick

\* A running process goes on and a running server serves; nobody need be
\* launched, killed or crash, and the clock need not advance.
Fairness ==
    /\ \A u \in Units : WF_vars(WorkerNext(u) /\ pc[u] # "down")
    /\ WF_vars(ServerNext)

Spec == Init /\ [][Next]_vars
FairSpec == Spec /\ Fairness

-----------------------------------------------------------------------------
\* Properties

\* A unit makes at most one receipt and one contribution, and only of committed
\* work: whatever is retried, replayed, killed or crashes between two stages.
AppliedOnce ==
    /\ \A u \in Units : receipt[u] <= 1
    /\ \A c \in contributions : state[c.unit] = "COMMITTED" /\ c.receipt = receipt[c.unit]
    /\ \A c, d \in contributions : c.unit = d.unit => c = d

\* A stored response tells the truth: what it acknowledges is in the database
\* and cannot be undone by then or later.
StoredIsTrue ==
    \A u \in Units :
        /\ stored[<<"open", u>>] # None => state[u] # None
        /\ stored[<<"submit", u>>] # None => stored[<<"submit", u>>].reply = receipt[u]
                                             /\ receipt[u] > 0
        /\ stored[<<"commit", u>>] # None => state[u] = "COMMITTED"
        /\ stored[<<"upload", u>>] # None =>
               \E c \in contributions : c.unit = u /\ c.receipt = stored[<<"upload", u>>].reply
        /\ stored[<<"release", u>>] # None =>
               \E l \in Lease!RowsOf(u) : status[l] = "RELEASED"

\* All stored responses of a unit were given under one lease: work begun under
\* one lease is never continued under another.
OneLeaseTrail ==
    \A k, j \in Keys :
        k[2] = j[2] /\ stored[k] # None /\ stored[j] # None => stored[k].sha[1] = stored[j].sha[1]

\* A worker that ends well has delivered: its contribution is registered under
\* its lease, the lease is RELEASED, and no one is given the unit again.
DoneIsDelivered ==
    \A u \in Units : pc[u] = "done" =>
        /\ journal[u] = Examples
        /\ \E c \in contributions : c.unit = u /\ c.source = mine[u]
        /\ \A l \in Lease!RowsOf(u) : status[l] = "RELEASED" <=> l = mine[u]
        /\ \A l \in Lease!RowsOf(u) : status[l] \notin Lease!Live

\* Every launched worker ends: no request waits for ever on the lock.
LaunchEnds == \A u \in Units : pc[u] = "lease" ~> pc[u] \in {"down", "done"}

AcceptedUnderLease ==
    \A c \in contributions' \ contributions : status[c.source] # "EXPIRED"

\* "no contribution accepted after EXPIRED" (rc5_4_leases.py:19): the row of the
\* lease a contribution comes under is not marked EXPIRED when it is inserted.
NoContributionAfterExpired == [][AcceptedUnderLease]_vars

\* "a relaunch with the same database resumes exactly where it died"
\* (model_worker.py:21): under a live lease, what a relaunched worker sends is
\* what the server already knows, never a different payload for the same key.
RelaunchResumes ==
    \A q \in queue :
        IsStored(q) /\ Lease!AfterExpiry[q.lease] \in Lease!Live => SameRequest(q)
=============================================================================
