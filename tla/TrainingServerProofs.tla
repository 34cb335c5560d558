------------------------ MODULE TrainingServerProofs ------------------------
(***************************************************************************)
(* Proofs about TrainingServer, for any number of units, leases and        *)
(* launches.  The lease table is shown to be used as Leases!TtlSpec says,  *)
(* which brings its theorems here; from them, and from an invariant that   *)
(* ties requests, stored responses and the database together, follow the   *)
(* safety properties.                                                      *)
(***************************************************************************)
EXTENDS TrainingServer, TLAPS

LeaseProofs == INSTANCE LeasesProofs WITH
    Holders <- Units, TTLs <- {Ttl}, MaxRevision <- MaxLaunches

\* What Leases assumes of its constants holds of those it is given here.
LEMMA LeaseConstants == LeaseProofs!ConstantsAssumption
BY ConstantsAssumption
   DEF LeaseProofs!ConstantsAssumption, LeaseProofs!Live, LeaseProofs!Ended, Lease!Live,
       Lease!Ended

-----------------------------------------------------------------------------
\* Types

DatabaseTypes ==
    /\ state \in [Units -> {None, "OPEN", "APPLIED", "COMMITTED"}]
    /\ receipt \in [Units -> Nat]
    /\ contributions \subseteq [unit : Units, receipt : Nat \ {0}, source : LeaseIds]
    /\ stored \in [Keys -> Responses \cup {None}]
    /\ \A u \in Units : receipt[u] = IF state[u] \in {"APPLIED", "COMMITTED"} THEN 1 ELSE 0

ServeTypes ==
    /\ queue \subseteq Requests
    /\ gate \in Served \cup {None}

WorkerTypes ==
    /\ pc \in [Units -> Methods \cup {"down", "lease", "train", "evidence", "done"}]
    /\ launches \in [Units -> 0..MaxLaunches]
    /\ mine \in [Units -> LeaseIds \cup {None}]
    /\ mineReceipt \in [Units -> Nat]
    /\ fresh \in [Units -> BOOLEAN]
    /\ journal \in [Units -> 0..Examples]
    /\ evidence \in [Units -> LeaseIds \cup {None}]
    /\ \A u \in Units : /\ pc[u] # "down" => launches[u] > 0
                        /\ pc[u] \notin {"down", "lease"} => mine[u] \in LeaseIds

Types == DatabaseTypes /\ ServeTypes /\ WorkerTypes

\* A request in the queue or in service, as the gate holds it.
InService == IF gate = None THEN {} ELSE {gate.request}
InFlight  == queue \cup InService

\* What is in the queue and at the gate is a request.
LEMMA InFlightType ==
    ASSUME Types
    PROVE  /\ InFlight \subseteq Requests
           /\ gate # None => /\ gate.request \in Requests /\ gate.stage \in {"execute", "store"}
                             /\ gate.reply \in Nat /\ gate.request \in InFlight
BY DEF Types, ServeTypes, InFlight, InService, Served

\* The parts of a request, its key and its sha.
LEMMA RequestType ==
    ASSUME NEW q \in Requests
    PROVE  /\ q.unit \in Units /\ q.launch \in 1..MaxLaunches /\ q.method \in Methods
           /\ q.lease \in LeaseIds /\ q.body \in Nat /\ Key(q) \in Keys
           /\ Sha(q) \in LeaseIds \X Nat
           /\ [request |-> q, stage |-> "execute", reply |-> 0] \in Served
           /\ \A n \in Nat : [sha |-> Sha(q), reply |-> n] \in Responses
BY DEF Requests, Key, Keys, Sha, Served, Responses

\* What a process does while it waits for nobody, and what it hands in.
LEMMA WorkerStepTypes ==
    ASSUME Types, NEW u \in Units, WorkerNext(u) \/ Kill(u)
    PROVE  Types' /\ UNCHANGED <<dbVars, gate>>
<1> USE DEF Types, leaseVars, dbVars, serveVars, workerVars
<1>0. launches[u] \in 0..MaxLaunches /\ MaxLaunches \in Nat /\ Examples \in Nat
  BY ConstantsAssumption DEF WorkerTypes
<1>1. CASE Launch(u)
  BY <1>0, <1>1 DEF Launch, Goto, DatabaseTypes, ServeTypes, WorkerTypes
<1>2. ASSUME NEW l \in LeaseIds, pc[u] = "lease", TakeLease(u, l)
      PROVE  Types' /\ UNCHANGED <<dbVars, gate>>
  BY <1>2 DEF TakeLease, Goto, DatabaseTypes, ServeTypes, WorkerTypes, Methods
<1>3. CASE RenewLease(u)
  <2>1. evidence[u] \in LeaseIds
    BY <1>3 DEF RenewLease, Renewable, WorkerTypes
  <2>2. QED
    BY <1>2, <1>3, <2>1 DEF RenewLease
<1>4. CASE AcquireLease(u)
  BY <1>2, <1>4 DEF AcquireLease
<1>5. CASE LeaseRefused(u)
  BY <1>5 DEF LeaseRefused, Goto, DatabaseTypes, ServeTypes, WorkerTypes
<1>6. CASE TrainStep(u)
  BY <1>0, <1>6 DEF TrainStep, DatabaseTypes, ServeTypes, WorkerTypes
<1>7. CASE Trained(u)
  BY <1>7 DEF Trained, Goto, DatabaseTypes, ServeTypes, WorkerTypes, Methods
<1>8. CASE WriteEvidence(u)
  BY <1>8 DEF WriteEvidence, Goto, DatabaseTypes, ServeTypes, WorkerTypes
<1>9. CASE Send(u)
  <2>1. Body(u) \in Nat
    BY <1>9 DEF Send, Methods, Body, LastLoss, MeanLoss, WorkerTypes
  <2>2. pc[u] \in Methods /\ launches[u] \in 1..MaxLaunches /\ mine[u] \in LeaseIds
    BY <1>0, <1>9 DEF Send, Methods, WorkerTypes
  <2>3. [unit |-> u, launch |-> launches[u], method |-> pc[u], lease |-> mine[u],
         body |-> Body(u)] \in Requests
    BY <2>1, <2>2 DEF Requests
  <2>4. QED
    BY <1>9, <2>3 DEF Send, DatabaseTypes, ServeTypes, WorkerTypes
<1>10. CASE Kill(u)
  BY <1>10 DEF Kill, Goto, DatabaseTypes, ServeTypes, WorkerTypes
<1>11. QED
  BY <1>1, <1>3, <1>4, <1>5, <1>6, <1>7, <1>8, <1>9, <1>10 DEF WorkerNext

\* What an answer does to the process it is for.
LEMMA AnswerStep ==
    ASSUME WorkerTypes, NEW q \in Requests, NEW next \in Methods \cup {"down", "train", "evidence"},
           NEW reply \in Nat, Answer(q, next, reply)
    PROVE  /\ WorkerTypes'
           /\ UNCHANGED <<launches, mine, fresh, journal, evidence>>
           /\ \/ UNCHANGED pc
              \/ /\ pc[q.unit] = q.method /\ launches[q.unit] = q.launch
                 /\ pc' = [pc EXCEPT ![q.unit] = next]
<1>1. q.unit \in Units /\ q.method \in Methods /\ q.method \notin {"down", "lease"}
  BY RequestType DEF Methods
<1>2. QED
  BY <1>1 DEF Answer, Goto, workerVars, WorkerTypes

\* The step an answer lets a worker go on to.
LEMMA AfterType == \A m \in Methods : After[m] \in Methods \cup {"train", "evidence"}
BY DEF After, Methods

\* What serving a request, a crash of the server and the clock do to the types.
LEMMA ServerStepTypes ==
    ASSUME Types, ServerNext \/ ServerCrash \/ Tick
    PROVE  Types'
<1> USE DEF Types
<1>1. ASSUME NEW q \in queue, Reject(q)
      PROVE  Types'
  <2>1. q \in Requests
    BY DEF ServeTypes
  <2>2. WorkerTypes'
    BY <1>1, <2>1, AnswerStep DEF Reject
  <2>3. QED
    BY <1>1, <2>2 DEF Reject, CheckLease, dbVars, DatabaseTypes, ServeTypes
<1>2. ASSUME NEW q \in queue, Replay(q)
      PROVE  Types'
  <2>1. q \in Requests
    BY DEF ServeTypes
  <2>2. stored[Key(q)].reply \in Nat
    BY <1>2, <2>1, RequestType DEF Replay, IsStored, DatabaseTypes, Responses
  <2>3. WorkerTypes'
    BY <1>2, <2>1, <2>2, AnswerStep, AfterType, RequestType DEF Replay
  <2>4. QED
    BY <1>2, <2>3 DEF Replay, CheckLease, dbVars, DatabaseTypes, ServeTypes
<1>3. ASSUME NEW q \in queue, Admit(q)
      PROVE  Types'
  <2>1. [request |-> q, stage |-> "execute", reply |-> 0] \in Served
    BY RequestType DEF ServeTypes
  <2>2. QED
    BY <1>3, <2>1 DEF Admit, CheckLease, dbVars, workerVars, DatabaseTypes, ServeTypes, WorkerTypes
<1>4. ASSUME NEW reply \in Nat, gate # None, Executed(reply), DatabaseTypes'
      PROVE  Types'
  <2>1. gate' \in Served
    BY <1>4 DEF Executed, ServeTypes, Served
  <2>2. QED
    BY <1>4, <2>1 DEF Executed, workerVars, ServeTypes, WorkerTypes
<1>5. ASSUME gate # None, Execute(gate.request)
      PROVE  Types'
  <2> DEFINE q == gate.request
  <2> USE <1>5
  <2>1. q \in Requests /\ q.unit \in Units /\ q.body \in Nat /\ q.lease \in LeaseIds
    BY InFlightType, RequestType
  <2>2. state[q.unit] \in {None, "OPEN", "APPLIED", "COMMITTED"} /\ receipt[q.unit] \in Nat
        /\ receipt[q.unit] = IF state[q.unit] \in {"APPLIED", "COMMITTED"} THEN 1 ELSE 0
    BY <2>1 DEF DatabaseTypes
  <2> HIDE DEF q
  <2>3. CASE Open(q)
    BY <1>4, <2>1, <2>2, <2>3, ConstantsAssumption DEF Open, Executed, DatabaseTypes
  <2>4. CASE Submit(q)
    <3>1. DatabaseTypes'
      BY <2>1, <2>2, <2>4 DEF Submit, Executed, DatabaseTypes
    <3>2. QED
      BY <1>4, <2>2, <2>4, <3>1 DEF Submit
  <2>5. CASE Commit(q)
    BY <1>4, <2>1, <2>2, <2>5 DEF Commit, Executed, DatabaseTypes
  <2>6. CASE Upload(q)
    <3>1. [unit |-> q.unit, receipt |-> q.body, source |-> q.lease]
              \in [unit : Units, receipt : Nat \ {0}, source : LeaseIds]
      BY <2>1, <2>2, <2>6 DEF Upload
    <3>2. QED
      BY <1>4, <2>1, <2>6, <3>1 DEF Upload, Executed, DatabaseTypes
  <2>7. CASE Register(q) \/ Release(q)
    BY <1>4, <2>7 DEF Register, Release, Executed, DatabaseTypes
  <2>8. CASE Fails(q)
    <3>1. WorkerTypes'
      BY <2>1, <2>8, AnswerStep DEF Fails
    <3>2. QED
      BY <2>8, <3>1 DEF Fails, dbVars, DatabaseTypes, ServeTypes
  <2>9. QED
    BY <2>3, <2>4, <2>5, <2>6, <2>7, <2>8 DEF Execute, q
<1>6. CASE Store
  <2>1. gate.request \in Requests /\ gate.reply \in Nat
    BY <1>6, InFlightType DEF Store
  <2>2. WorkerTypes'
    BY <1>6, <2>1, AnswerStep, AfterType, RequestType DEF Store
  <2>3. stored' \in [Keys -> Responses \cup {None}]
    BY <1>6, <2>1, RequestType DEF Store, DatabaseTypes
  <2>4. QED
    BY <1>6, <2>2, <2>3 DEF Store, DatabaseTypes, ServeTypes
<1>7. CASE ServerCrash
  BY <1>7 DEF ServerCrash, dbVars, DatabaseTypes, ServeTypes, WorkerTypes
<1>8. CASE Tick
  BY <1>8 DEF Tick, dbVars, serveVars, workerVars, DatabaseTypes, ServeTypes, WorkerTypes
<1>9. QED
  BY <1>1, <1>2, <1>3, <1>5, <1>6, <1>7, <1>8 DEF ServerNext

-----------------------------------------------------------------------------
\* The leases

\* A worker takes leases on its own unit alone.
OwnLeases == \A l \in Lease!Rows : holder[l] = unit[l]

\* What a step leaves of the lease table: a row keeps its unit and its holder,
\* and one that was released stays so.
LeasesKept ==
    \A l \in Lease!Rows :
        /\ l \in Lease!Rows' /\ unit'[l] = unit[l] /\ holder'[l] = holder[l]
        /\ status[l] = "RELEASED" => status'[l] = "RELEASED"

LeaseStep == [Lease!TtlNext]_(Lease!vars) /\ LeasesKept /\ (OwnLeases => OwnLeases')

\* The operations of the lease table, as they are used here.
LEMMA LeaseOperations ==
    ASSUME Lease!TypeOK
    PROVE  /\ \A l \in LeaseIds, u \in Units : Lease!Acquire(l, u, u, Ttl) => LeaseStep
           /\ \A l \in LeaseIds, u \in Units : Lease!Renew(l, u, Ttl) => LeaseStep
           /\ \A l \in LeaseIds, u \in Units : Lease!Release(l, u) => LeaseStep
           /\ Lease!ExpireOverdue => LeaseStep
           /\ Lease!Tick => LeaseStep
           /\ UNCHANGED leaseVars => LeaseStep
<1> USE DEF LeasesKept, OwnLeases, Lease!Rows, Lease!TypeOK
<1>1. None \notin Lease!Live \cup Lease!Ended
  BY ConstantsAssumption
<1>2. /\ Lease!AfterExpiry \in [LeaseIds -> Lease!Live \cup Lease!Ended \cup {None}]
      /\ \A l \in LeaseIds : /\ Lease!AfterExpiry[l] = None <=> status[l] = None
                             /\ status[l] = "RELEASED" => Lease!AfterExpiry[l] = "RELEASED"
  BY <1>1 DEF Lease!AfterExpiry, Lease!Overdue, Lease!Live, Lease!Ended
<1>3. ASSUME NEW l \in LeaseIds, NEW u \in Units, NEW rev, l \notin Lease!Rows,
             Lease!InsertRow(l, u, u, Ttl, rev)
      PROVE  LeasesKept /\ (OwnLeases => OwnLeases')
  BY <1>1, <1>2, <1>3 DEF Lease!InsertRow, Lease!SetStatus, Lease!Live
<1>4. ASSUME NEW l \in LeaseIds, NEW u \in Units, Lease!Acquire(l, u, u, Ttl)
      PROVE  LeaseStep
  <2>1. Lease!TtlNext
    BY <1>4 DEF Lease!TtlNext
  <2>2. LeasesKept /\ (OwnLeases => OwnLeases')
    BY <1>3, <1>4 DEF Lease!Acquire
  <2>3. QED
    BY <2>1, <2>2 DEF LeaseStep
<1>5. ASSUME NEW l \in LeaseIds, NEW u \in Units, Lease!Renew(l, u, Ttl)
      PROVE  LeaseStep
  <2>1. Lease!TtlNext
    BY <1>5 DEF Lease!TtlNext
  <2>2. LeasesKept /\ (OwnLeases => OwnLeases')
    BY <1>1, <1>2, <1>5 DEF Lease!Renew, Lease!SetStatus, Lease!Live
  <2>3. QED
    BY <2>1, <2>2 DEF LeaseStep
<1>6. ASSUME NEW l \in LeaseIds, NEW u \in Units, Lease!Release(l, u)
      PROVE  LeaseStep
  <2>1. Lease!TtlNext
    BY <1>6 DEF Lease!TtlNext
  <2>2. LeasesKept /\ (OwnLeases => OwnLeases')
    BY <1>1, <1>6 DEF Lease!Release, Lease!SetStatus, Lease!Ended
  <2>3. QED
    BY <2>1, <2>2 DEF LeaseStep
<1>7. ASSUME Lease!ExpireOverdue
      PROVE  LeaseStep
  BY <1>2, <1>7 DEF Lease!ExpireOverdue, Lease!TtlNext, LeaseStep
<1>8. ASSUME Lease!Tick
      PROVE  LeaseStep
  BY <1>8 DEF Lease!Tick, Lease!TtlNext, LeaseStep
<1>9. ASSUME UNCHANGED leaseVars
      PROVE  LeaseStep
  BY <1>9 DEF leaseVars, Lease!vars, LeaseStep
<1>10. QED
  BY <1>4, <1>5, <1>6, <1>7, <1>8, <1>9

\* Every step of the server uses the lease table as Leases!TtlSpec allows.
LEMMA LeasesUsed == ASSUME Types, Lease!TypeOK, [Next]_vars PROVE LeaseStep
<1>1. CASE UNCHANGED leaseVars
  BY <1>1, LeaseOperations
<1>2. ASSUME NEW u \in Units, RenewLease(u)
      PROVE  LeaseStep
  <2>1. evidence[u] \in LeaseIds
    BY <1>2 DEF RenewLease, Renewable, Types, WorkerTypes
  <2>2. QED
    BY <1>2, <2>1, LeaseOperations DEF RenewLease
<1>3. ASSUME NEW u \in Units, AcquireLease(u)
      PROVE  LeaseStep
  BY <1>3, LeaseOperations DEF AcquireLease
<1>4. ASSUME NEW u \in Units, WorkerNext(u) \/ Kill(u)
      PROVE  LeaseStep
  BY <1>1, <1>2, <1>3, <1>4
     DEF WorkerNext, Launch, LeaseRefused, TrainStep, Trained, Send, WriteEvidence, Kill
<1>5. ASSUME NEW q \in queue, Reject(q) \/ Replay(q) \/ Admit(q)
      PROVE  LeaseStep
  BY <1>5, LeaseOperations DEF Reject, Replay, Admit, CheckLease
<1>6. ASSUME gate # None, Execute(gate.request)
      PROVE  LeaseStep
  <2>1. gate.request.unit \in Units /\ gate.request.lease \in LeaseIds
    BY <1>6, InFlightType, RequestType
  <2>2. QED
    BY <1>1, <1>6, <2>1, LeaseOperations
       DEF Execute, Open, Submit, Commit, Upload, Register, Release, Fails
<1>7. CASE Tick
  BY <1>7, LeaseOperations DEF Tick
<1>8. QED
  BY <1>1, <1>4, <1>5, <1>6, <1>7 DEF Next, ServerNext, Store, ServerCrash, vars

\* The lease table as the theorems of Leases have it.
LEMMA SameLeases ==
    /\ LeaseProofs!TypeOK <=> Lease!TypeOK
    /\ Lease!Init <=> LeaseProofs!Init
    /\ [Lease!TtlNext]_(Lease!vars) <=> [LeaseProofs!TtlNext]_(LeaseProofs!vars)
BY DEF LeaseProofs!TypeOK, Lease!TypeOK, LeaseProofs!Rows, Lease!Rows, LeaseProofs!Live,
       Lease!Live, LeaseProofs!Ended, Lease!Ended, LeaseProofs!Init, Lease!Init,
       LeaseProofs!TtlNext, Lease!TtlNext, LeaseProofs!vars, Lease!vars,
       LeaseProofs!Acquire, Lease!Acquire, LeaseProofs!Renew, Lease!Renew,
       LeaseProofs!Release, Lease!Release, LeaseProofs!ExpireOverdue, Lease!ExpireOverdue,
       LeaseProofs!Tick, Lease!Tick, LeaseProofs!AfterExpiry, Lease!AfterExpiry,
       LeaseProofs!Overdue, Lease!Overdue, LeaseProofs!IndexAdmits, Lease!IndexAdmits,
       LeaseProofs!RowsOf, Lease!RowsOf, LeaseProofs!LastRows, Lease!LastRows,
       LeaseProofs!InsertRow, Lease!InsertRow, LeaseProofs!SetStatus, Lease!SetStatus

LeaseInv == LeaseProofs!TtlInv /\ OwnLeases

\* Every step keeps what Leases proves of its table.
LEMMA LeaseInvStep ==
    ASSUME LeaseInv, Types, [Next]_vars
    PROVE  LeaseInv' /\ LeasesKept /\ [Lease!TtlNext]_(Lease!vars)
<1>1. Lease!TypeOK
  BY SameLeases DEF LeaseInv, LeaseProofs!TtlInv
<1>2. LeaseStep
  BY <1>1, LeasesUsed
<1>3. LeaseProofs!TtlInv'
  BY <1>2, SameLeases, LeaseConstants, LeaseProofs!TtlStep DEF LeaseInv, LeaseStep
<1>4. QED
  BY <1>2, <1>3 DEF LeaseInv, LeaseStep

-----------------------------------------------------------------------------
\* The first invariant: types and leases

Sound == Types /\ LeaseInv

\* Types and leases hold at the start ...
LEMMA SoundInit == Init => Sound
<1> SUFFICES ASSUME Init PROVE Sound
  OBVIOUS
<1>1. Types
  BY ConstantsAssumption DEF Init, Types, DatabaseTypes, ServeTypes, WorkerTypes, Keys
<1>2. LeaseProofs!TtlInv
  BY SameLeases, LeaseConstants, LeaseProofs!TtlInit DEF Init
<1>3. OwnLeases
  BY DEF Init, OwnLeases, Lease!Init, Lease!Rows
<1>4. QED
  BY <1>1, <1>2, <1>3 DEF Sound, LeaseInv

\* ... and every step keeps them.
LEMMA SoundStep == Sound /\ [Next]_vars => Sound'
<1> SUFFICES ASSUME Sound, [Next]_vars PROVE Sound'
  OBVIOUS
<1>1. Types'
  <2>1. CASE UNCHANGED vars
    BY <2>1 DEF vars, dbVars, serveVars, workerVars, Sound, Types, DatabaseTypes, ServeTypes,
       WorkerTypes
  <2>2. QED
    BY <2>1, WorkerStepTypes, ServerStepTypes DEF Next, Sound
<1>2. QED
  BY <1>1, LeaseInvStep DEF Sound

\* Types hold for any number of units, leases and launches.
THEOREM TypeCorrect == Spec => []TypeOK
<1>1. Sound => TypeOK
  BY SameLeases DEF Sound, LeaseInv, LeaseProofs!TtlInv, Types, DatabaseTypes, ServeTypes,
     WorkerTypes, TypeOK
<1>2. QED
  BY <1>1, SoundInit, SoundStep, PTL DEF Spec

\* The server and its workers, with their crashes, use the lease table as
\* Leases!TtlSpec says: its theorems (released units stay released, nobody is
\* cut short, ownership) hold of the running system.
THEOREM UsesLeases == Spec => Lease!TtlSpec
<1>1. Init => Lease!Init
  BY DEF Init
<1>2. Sound /\ [Next]_vars => [Lease!TtlNext]_(Lease!vars)
  BY LeaseInvStep DEF Sound
<1>3. QED
  BY <1>1, <1>2, SoundInit, SoundStep, PTL DEF Spec, Lease!TtlSpec

\* So the running system hands out units as UnitOwnership says: one session
\* holds a unit, and a unit released by its holder stays finished.
COROLLARY ImplementsOwnership == Spec => LeaseProofs!OwnershipSpec
<1>1. Lease!Init => LeaseProofs!Ownership!Init
  BY DEF Lease!Init, LeaseProofs!Ownership!Init, LeaseProofs!Rows, LeaseProofs!Effective
<1>2. Sound /\ [Next]_vars =>
          [LeaseProofs!Ownership!Next]_(LeaseProofs!Ownership!vars)
  <2> SUFFICES ASSUME Sound, [Next]_vars
               PROVE  [LeaseProofs!Ownership!Next]_(LeaseProofs!Ownership!vars)
    OBVIOUS
  <2>1. LeaseProofs!TtlInv /\ [LeaseProofs!TtlNext]_(LeaseProofs!vars)
    BY LeaseInvStep, SameLeases DEF Sound, LeaseInv, LeaseStep
  <2>2. QED
    BY <2>1, LeaseConstants, LeaseProofs!OwnershipStep
<1>3. Init => Lease!Init
  BY DEF Init
<1>4. QED
  BY <1>1, <1>2, <1>3, SoundInit, SoundStep, PTL
     DEF Spec, LeaseProofs!OwnershipSpec, LeaseProofs!Ownership!Spec

-----------------------------------------------------------------------------
\* The database

\* What a step leaves of the database: work is never taken back.
DatabaseGrows ==
    /\ \A u \in Units : /\ state[u] # None => state'[u] # None
                        /\ state[u] = "COMMITTED" => state'[u] = "COMMITTED"
                        /\ receipt[u] > 0 => receipt'[u] = receipt[u]
    /\ contributions \subseteq contributions'

\* A contribution is of committed work, under its receipt, and alone.
Delivered ==
    /\ \A c \in contributions : state[c.unit] = "COMMITTED" /\ c.receipt = receipt[c.unit]
    /\ \A c, d \in contributions : c.unit = d.unit => c = d

\* Only the method in service writes the database.
LEMMA DatabaseWritten ==
    ASSUME Types, [Next]_vars
    PROVE  \/ UNCHANGED <<state, receipt, contributions>>
           \/ gate # None /\ Execute(gate.request)
BY WorkerStepTypes
   DEF Next, ServerNext, Reject, Replay, Admit, Store, ServerCrash, Tick, dbVars, vars

\* No step takes work back, or delivers a unit twice.
LEMMA DatabaseStep ==
    ASSUME Types, [Next]_vars
    PROVE  DatabaseGrows /\ (Delivered => Delivered')
<1>1. CASE UNCHANGED <<state, receipt, contributions>>
  BY <1>1 DEF DatabaseGrows, Delivered
<1>2. CASE gate # None /\ Execute(gate.request)
  <2> DEFINE q == gate.request
  <2>1. q.unit \in Units /\ q.body \in Nat /\ q.lease \in LeaseIds
    BY <1>2, InFlightType, RequestType
  <2>2. /\ DOMAIN state = Units /\ DOMAIN receipt = Units
        /\ \A u \in Units : /\ receipt[u] \in Nat
                            /\ receipt[u] = IF state[u] \in {"APPLIED", "COMMITTED"} THEN 1 ELSE 0
        /\ \A c \in contributions : c.unit \in Units
    BY DEF Types, DatabaseTypes
  <2> HIDE DEF q
  <2>3. CASE Open(q)
    BY <2>1, <2>2, <2>3, ConstantsAssumption DEF Open, DatabaseGrows, Delivered
  <2>4. CASE Submit(q)
    BY <2>1, <2>2, <2>4, ConstantsAssumption DEF Submit, DatabaseGrows, Delivered
  <2>5. CASE Commit(q)
    BY <2>1, <2>2, <2>5, ConstantsAssumption DEF Commit, DatabaseGrows, Delivered
  <2>6. CASE Upload(q)
    <3> DEFINE new == [unit |-> q.unit, receipt |-> q.body, source |-> q.lease]
    <3>1. /\ contributions' = contributions \cup {new} /\ UNCHANGED <<state, receipt>>
          /\ state[q.unit] = "COMMITTED" /\ q.body = receipt[q.unit]
          /\ \A c \in Uploaded(q) : c.source = q.lease
      BY <2>6 DEF Upload
    <3>2. ASSUME Delivered, NEW c \in contributions, c.unit = q.unit
          PROVE  c = new
      <4>1. c \in Uploaded(q)
        BY <3>1, <3>2 DEF Delivered, Uploaded
      <4>2. c.receipt = q.body /\ c.source = q.lease
        BY <3>1, <4>1 DEF Uploaded
      <4>3. c \in [unit : Units, receipt : Nat \ {0}, source : LeaseIds]
        BY <3>2 DEF Types, DatabaseTypes
      <4>4. QED
        BY <3>2, <4>2, <4>3
    <3>3. QED
      BY <3>1, <3>2 DEF DatabaseGrows, Delivered
  <2>7. CASE Register(q) \/ Release(q) \/ Fails(q)
    BY <2>7 DEF Register, Release, Fails, dbVars, DatabaseGrows, Delivered
  <2>8. QED
    BY <1>2, <2>3, <2>4, <2>5, <2>6, <2>7 DEF Execute, q
<1>3. QED
  BY <1>1, <1>2, DatabaseWritten

\* A unit makes one receipt and one contribution at most, of committed work,
\* whatever is retried, replayed, killed or crashes.
THEOREM WorkAppliedOnce == Spec => []AppliedOnce
<1>1. Init => Delivered
  BY DEF Init, Delivered
<1>2. Sound /\ Delivered /\ [Next]_vars => Delivered'
  BY DatabaseStep DEF Sound
<1>3. Sound /\ Delivered => AppliedOnce
  BY DEF Sound, Types, DatabaseTypes, Delivered, AppliedOnce
<1>4. QED
  BY <1>1, <1>2, <1>3, SoundInit, SoundStep, PTL DEF Spec

-----------------------------------------------------------------------------
\* Requests and stored responses of a unit are under one lease

\* The unit was opened under lease l, and its answer is stored.
Opened(u, l) == stored[<<"open", u>>] # None /\ stored[<<"open", u>>].sha[1] = l

PastTrain  == {"submit", "commit", "upload", "register", "release", "evidence", "done"}
PastOpen   == PastTrain \cup {"train"}
PastUpload == {"register", "release", "evidence", "done"}
PastRelease == {"evidence", "done"}

\* A request in flight is of its process, under its process's lease; all but
\* the first one follow a stored open under the same lease.
RequestsTrail ==
    \A q \in InFlight :
        /\ q.launch <= launches[q.unit]
        /\ q.launch = launches[q.unit] => pc[q.unit] # "lease" /\ q.lease = mine[q.unit]
        /\ q.method # "open" => Opened(q.unit, q.lease)

\* What is executed was not stored, and all that is stored is under the lease
\* of the open.
StoredTrail ==
    /\ gate # None => stored[Key(gate.request)] = None
    /\ \A k \in Keys : stored[k] # None => Opened(k[2], stored[k].sha[1])

\* How far a process is says what was stored for its unit.
WorkersTrail ==
    \A u \in Units :
        /\ pc[u] \in PastOpen => Opened(u, mine[u])
        /\ pc[u] \in PastTrain => journal[u] = Examples
        /\ pc[u] \in PastUpload => stored[<<"upload", u>>] # None
        /\ pc[u] \in PastRelease => stored[<<"release", u>>] # None

Trail == RequestsTrail /\ StoredTrail /\ WorkersTrail

\* Keys of the two-part table of responses.
LEMMA KeyParts ==
    /\ \A u \in Units, m \in Methods : <<m, u>> \in Keys
    /\ \A k \in Keys : k[1] \in Methods /\ k[2] \in Units /\ k = <<k[1], k[2]>>
BY DEF Keys

\* A stored response is never replaced: one method is in service, and it was
\* admitted because nothing was stored.
LEMMA StoredKept ==
    ASSUME Types, StoredTrail, [Next]_vars
    PROVE  \A k \in Keys : stored[k] # None => stored'[k] = stored[k]
<1>1. CASE UNCHANGED stored
  BY <1>1
<1>2. CASE Store
  <2>1. stored' = [stored EXCEPT ![Key(gate.request)] =
                       [sha |-> Sha(gate.request), reply |-> gate.reply]]
    BY <1>2 DEF Store
  <2>2. stored[Key(gate.request)] = None
    BY <1>2 DEF Store, StoredTrail
  <2>3. QED
    BY <2>1, <2>2 DEF Types, DatabaseTypes
<1>3. QED
  BY <1>1, <1>2, WorkerStepTypes
     DEF Next, ServerNext, Reject, Replay, Admit, ServerCrash, Tick, dbVars, vars, Execute, Open,
         Submit, Commit, Upload, Register, Release, Fails, Executed

\* What a worker does by itself keeps the trail.
LEMMA WorkerKeepsTrail ==
    ASSUME Types, Trail, NEW u \in Units, WorkerNext(u) \/ Kill(u)
    PROVE  Trail'
<1> USE DEF Trail, PastTrain, PastOpen, PastUpload, PastRelease, leaseVars, dbVars, serveVars,
            workerVars
<1>1. /\ stored' = stored /\ gate' = gate
  BY WorkerStepTypes
<1>2. StoredTrail'
  BY <1>1 DEF StoredTrail, Opened
<1>3. \A q \in InFlight : q.unit \in Units /\ q.launch \in Nat
  <2>1. \A q \in Requests : q.unit \in Units /\ q.launch \in 1..MaxLaunches
    BY RequestType
  <2>2. QED
    BY <2>1, InFlightType
<1>4. pc \in [Units -> Methods \cup {"down", "lease", "train", "evidence", "done"}]
      /\ launches \in [Units -> 0..MaxLaunches] /\ mine \in [Units -> LeaseIds \cup {None}]
      /\ journal \in [Units -> 0..Examples]
  BY DEF Types, WorkerTypes
<1>5. ASSUME queue' = queue, launches' = launches, pc'[u] # "lease",
             pc[u] # "lease" => mine'[u] = mine[u],
             \A v \in Units \ {u} : pc'[v] = pc[v] /\ mine'[v] = mine[v]
      PROVE  RequestsTrail'
  <2>1. InFlight' = InFlight
    BY <1>1, <1>5 DEF InFlight, InService
  <2> SUFFICES ASSUME NEW q \in InFlight
               PROVE  /\ q.launch <= launches[q.unit]
                      /\ q.launch = launches[q.unit] => pc'[q.unit] # "lease" /\ q.lease = mine'[q.unit]
                      /\ q.method # "open" => Opened(q.unit, q.lease)
    BY <1>1, <1>5, <2>1 DEF RequestsTrail, Opened
  <2>2. /\ q.launch <= launches[q.unit]
        /\ q.launch = launches[q.unit] => pc[q.unit] # "lease" /\ q.lease = mine[q.unit]
        /\ q.method # "open" => Opened(q.unit, q.lease)
    BY DEF RequestsTrail
  <2>3. QED
    BY <1>3, <1>5, <2>2
<1>6. ASSUME \A v \in Units \ {u} : pc'[v] = pc[v] /\ mine'[v] = mine[v] /\ journal'[v] = journal[v],
             \/ pc'[u] \notin PastOpen
             \/ /\ pc'[u] = pc[u] /\ mine'[u] = mine[u]
                /\ journal'[u] = journal[u] \/ pc[u] = "train"
             \/ pc[u] = "train" /\ pc'[u] = "submit" /\ mine'[u] = mine[u] /\ journal'[u] = Examples
             \/ pc[u] = "evidence" /\ pc'[u] = "done" /\ UNCHANGED <<mine, journal>>
      PROVE  WorkersTrail'
  <2> SUFFICES ASSUME NEW v \in Units
               PROVE  /\ pc'[v] \in PastOpen => stored[<<"open", v>>] # None
                                                /\ stored[<<"open", v>>].sha[1] = mine'[v]
                      /\ pc'[v] \in PastTrain => journal'[v] = Examples
                      /\ pc'[v] \in PastUpload => stored[<<"upload", v>>] # None
                      /\ pc'[v] \in PastRelease => stored[<<"release", v>>] # None
    BY <1>1 DEF WorkersTrail, Opened
  <2>1. /\ pc[v] \in PastOpen => stored[<<"open", v>>] # None /\ stored[<<"open", v>>].sha[1] = mine[v]
        /\ pc[v] \in PastTrain => journal[v] = Examples
        /\ pc[v] \in PastUpload => stored[<<"upload", v>>] # None
        /\ pc[v] \in PastRelease => stored[<<"release", v>>] # None
    BY DEF WorkersTrail, Opened
  <2>2. CASE v # u
    BY <1>6, <2>1, <2>2
  <2>3. CASE v = u
    BY <1>6, <2>1, <2>3
  <2>4. QED
    BY <2>2, <2>3
<1>7. CASE Launch(u)
  <2>1. launches'[u] = launches[u] + 1 /\ pc'[u] = "lease" /\ InFlight' = InFlight
        /\ \A v \in Units \ {u} : /\ pc'[v] = pc[v] /\ mine'[v] = mine[v]
                                  /\ journal'[v] = journal[v] /\ launches'[v] = launches[v]
    BY <1>4, <1>7 DEF Launch, Goto, InFlight, InService
  <2>2. launches[u] \in Nat
    BY <1>4
  <2>3. RequestsTrail'
    <3> SUFFICES ASSUME NEW q \in InFlight
                 PROVE  /\ q.launch <= launches'[q.unit]
                        /\ q.launch = launches'[q.unit] => pc'[q.unit] # "lease" /\ q.lease = mine'[q.unit]
                        /\ q.method # "open" => Opened(q.unit, q.lease)
      BY <1>1, <2>1 DEF RequestsTrail, Opened
    <3>1. /\ q.launch <= launches[q.unit]
          /\ q.launch = launches[q.unit] => pc[q.unit] # "lease" /\ q.lease = mine[q.unit]
          /\ q.method # "open" => Opened(q.unit, q.lease)
      BY DEF RequestsTrail
    <3>2. QED
      BY <1>3, <2>1, <2>2, <3>1
  <2>4. QED
    BY <1>2, <1>6, <2>1, <2>3
<1>8. ASSUME NEW l \in LeaseIds, pc[u] = "lease", TakeLease(u, l)
      PROVE  Trail'
  BY <1>2, <1>4, <1>5, <1>6, <1>8 DEF TakeLease, Goto
<1>9. CASE RenewLease(u)
  <2>1. evidence[u] \in LeaseIds
    BY <1>9 DEF RenewLease, Renewable, Types, WorkerTypes
  <2>2. QED
    BY <1>8, <1>9, <2>1 DEF RenewLease
<1>10. CASE AcquireLease(u)
  BY <1>8, <1>10 DEF AcquireLease
<1>11. CASE LeaseRefused(u) \/ Kill(u)
  BY <1>2, <1>4, <1>5, <1>6, <1>11 DEF LeaseRefused, Kill, Goto
<1>12. CASE TrainStep(u)
  <2>1. UNCHANGED <<queue, launches, pc, mine>> /\ pc[u] = "train"
        /\ \A v \in Units \ {u} : journal'[v] = journal[v]
    BY <1>4, <1>12 DEF TrainStep
  <2>2. QED
    BY <1>2, <1>5, <1>6, <2>1
<1>13. CASE Trained(u)
  BY <1>2, <1>4, <1>5, <1>6, <1>13 DEF Trained, Goto
<1>14. CASE WriteEvidence(u)
  <2>1. /\ UNCHANGED <<queue, launches, mine, journal>> /\ pc'[u] \in {"down", "done"}
        /\ pc'[u] = "done" => pc[u] = "evidence"
        /\ \A v \in Units \ {u} : pc'[v] = pc[v]
    BY <1>4, <1>14 DEF WriteEvidence, Goto
  <2>2. QED
    BY <1>2, <1>5, <1>6, <2>1
<1>15. CASE Send(u)
  <2>1. /\ UNCHANGED <<launches, pc, mine, journal>> /\ pc[u] \in Methods
        /\ InFlight' = InFlight \cup {[unit |-> u, launch |-> launches[u], method |-> pc[u],
                                       lease |-> mine[u], body |-> Body(u)]}
    BY <1>1, <1>15 DEF Send, InFlight, InService
  <2>2. pc[u] # "open" => pc[u] \in PastOpen
    BY <2>1 DEF Methods
  <2>3. pc[u] # "open" => Opened(u, mine[u])
    BY <2>2 DEF WorkersTrail
  <2>4. RequestsTrail'
    <3> SUFFICES ASSUME NEW q \in InFlight'
                 PROVE  /\ q.launch <= launches[q.unit]
                        /\ q.launch = launches[q.unit] => pc[q.unit] # "lease" /\ q.lease = mine[q.unit]
                        /\ q.method # "open" => Opened(q.unit, q.lease)
      BY <1>1, <2>1 DEF RequestsTrail, Opened
    <3>1. CASE q \in InFlight
      BY <3>1 DEF RequestsTrail
    <3>2. CASE q \notin InFlight
      <4>1. q = [unit |-> u, launch |-> launches[u], method |-> pc[u], lease |-> mine[u],
                 body |-> Body(u)]
        BY <2>1, <3>2
      <4>2. /\ q.unit = u /\ q.launch = launches[u] /\ q.method = pc[u] /\ q.lease = mine[u]
            /\ launches[u] \in Nat
        BY <1>4, <4>1
      <4>3. QED
        BY <2>1, <2>3, <4>2 DEF Methods
    <3>3. QED
      BY <3>1, <3>2
  <2>5. QED
    BY <1>2, <1>6, <2>1, <2>4
<1>16. QED
  BY <1>7, <1>9, <1>10, <1>11, <1>12, <1>13, <1>14, <1>15 DEF WorkerNext

\* An answer that goes on is given for a stored response under the lease of
\* the process.
LEMMA AnswerKeepsTrail ==
    ASSUME Types, Trail, NEW q \in InFlight, NEW next, NEW reply \in Nat,
           next = "down" \/ next = After[q.method],
           Answer(q, next, reply),
           \A k \in Keys : stored[k] # None => stored'[k] = stored[k],
           next # "down" => stored'[Key(q)] # None /\ Opened(q.unit, q.lease)'
    PROVE  /\ WorkersTrail'
           /\ UNCHANGED <<launches, mine>>
           /\ \A u \in Units : pc[u] # "lease" => pc'[u] # "lease"
<1> USE DEF PastTrain, PastOpen, PastUpload, PastRelease
<1>1. q \in Requests /\ q.unit \in Units /\ q.method \in Methods
  BY InFlightType, RequestType
<1>2. next \in Methods \cup {"down", "train", "evidence"}
  BY <1>1, AfterType
<1>3. /\ UNCHANGED <<launches, mine, journal>>
      /\ \/ UNCHANGED pc
         \/ /\ pc[q.unit] = q.method /\ launches[q.unit] = q.launch
            /\ pc' = [pc EXCEPT ![q.unit] = next]
  BY <1>1, <1>2, AnswerStep DEF Types
<1>4. \A u \in Units : <<"open", u>> \in Keys /\ <<"upload", u>> \in Keys /\ <<"release", u>> \in Keys
  BY KeyParts DEF Methods
<1>5. ASSUME NEW u \in Units, pc'[u] = pc[u]
      PROVE  /\ pc'[u] \in PastOpen => Opened(u, mine[u])'
             /\ pc'[u] \in PastTrain => journal'[u] = Examples
             /\ pc'[u] \in PastUpload => stored'[<<"upload", u>>] # None
             /\ pc'[u] \in PastRelease => stored'[<<"release", u>>] # None
  BY <1>3, <1>4, <1>5 DEF Trail, WorkersTrail, Opened
<1>6. ASSUME pc[q.unit] = q.method, launches[q.unit] = q.launch, pc'[q.unit] = next
      PROVE  /\ pc'[q.unit] \in PastOpen => Opened(q.unit, mine[q.unit])'
             /\ pc'[q.unit] \in PastTrain => journal'[q.unit] = Examples
             /\ pc'[q.unit] \in PastUpload => stored'[<<"upload", q.unit>>] # None
             /\ pc'[q.unit] \in PastRelease => stored'[<<"release", q.unit>>] # None
  <2>1. CASE next = "down"
    BY <1>6, <2>1
  <2>2. CASE next # "down"
    <3>1. next = After[q.method] /\ stored'[Key(q)] # None /\ Opened(q.unit, q.lease)'
      BY <2>2
    <3>2. q.lease = mine[q.unit]
      BY <1>6 DEF Trail, RequestsTrail
    <3>3. Opened(q.unit, mine[q.unit])'
      BY <1>3, <3>1, <3>2 DEF Opened
    <3>4. /\ pc'[q.unit] \in PastTrain => q.method \in PastTrain
          /\ pc'[q.unit] \in PastUpload => q.method = "upload" \/ q.method \in PastUpload
          /\ pc'[q.unit] \in PastRelease => q.method = "release"
      BY <1>1, <1>6, <3>1 DEF After, Methods
    <3>5. /\ pc'[q.unit] \in PastTrain => journal'[q.unit] = Examples
      BY <1>1, <1>3, <1>6, <3>4 DEF Trail, WorkersTrail
    <3>6. pc'[q.unit] \in PastUpload => stored'[<<"upload", q.unit>>] # None
      <4>1. CASE q.method = "upload"
        BY <3>1, <4>1 DEF Key
      <4>2. CASE q.method \in PastUpload
        BY <1>1, <1>4, <1>6, <4>2 DEF Trail, WorkersTrail
      <4>3. QED
        BY <3>4, <4>1, <4>2
    <3>7. pc'[q.unit] \in PastRelease => stored'[<<"release", q.unit>>] # None
      BY <3>1, <3>4 DEF Key
    <3>8. QED
      BY <3>3, <3>5, <3>6, <3>7
  <2>3. QED
    BY <2>1, <2>2
<1>7. \A u \in Units : u # q.unit => pc'[u] = pc[u]
  BY <1>1, <1>3 DEF Types, WorkerTypes
<1>8. pc'[q.unit] = pc[q.unit] \/ (pc[q.unit] = q.method /\ launches[q.unit] = q.launch
                                   /\ pc'[q.unit] = next)
  BY <1>1, <1>3 DEF Types, WorkerTypes
<1>9. WorkersTrail'
  BY <1>5, <1>6, <1>7, <1>8 DEF WorkersTrail
<1>10. \A u \in Units : pc[u] # "lease" => pc'[u] # "lease"
  BY <1>2, <1>7, <1>8 DEF Methods
<1>11. QED
  BY <1>3, <1>9, <1>10

\* Requests that go on waiting, or wait no more, keep their trail.
LEMMA RequestsKeepTrail ==
    ASSUME Types, RequestsTrail, InFlight' \subseteq InFlight, UNCHANGED <<launches, mine>>,
           \A u \in Units : pc[u] # "lease" => pc'[u] # "lease",
           \A k \in Keys : stored[k] # None => stored'[k] = stored[k]
    PROVE  RequestsTrail'
<1>1. \A q \in InFlight : q.unit \in Units /\ <<"open", q.unit>> \in Keys
  BY InFlightType, RequestType, KeyParts DEF Methods
<1>2. QED
  BY <1>1 DEF RequestsTrail, Opened

\* What the server does keeps the trail.
LEMMA ServerKeepsTrail ==
    ASSUME Types, Trail, ServerNext \/ ServerCrash \/ Tick
    PROVE  Trail'
<1>0. /\ \A k \in Keys : stored[k] # None => stored'[k] = stored[k]
      /\ \A q \in InFlight : Key(q) \in Keys /\ q \in Requests
  BY StoredKept, InFlightType, RequestType DEF Next, Trail
<1>1. ASSUME stored' = stored, gate' = None
      PROVE  StoredTrail'
  BY <1>1 DEF Trail, StoredTrail, Opened
<1>2. ASSUME NEW q \in queue, Reject(q)
      PROVE  Trail'
  <2>1. q \in InFlight /\ InFlight' \subseteq InFlight
    BY <1>2 DEF InFlight, InService, Reject, CheckLease
  <2>2. stored' = stored /\ gate' = None /\ Answer(q, "down", 0)
    BY <1>2 DEF Reject, CheckLease, dbVars
  <2>3. WorkersTrail' /\ UNCHANGED <<launches, mine>>
        /\ \A u \in Units : pc[u] # "lease" => pc'[u] # "lease"
    BY <1>0, <2>1, <2>2, AnswerKeepsTrail
  <2>4. QED
    BY <1>0, <1>1, <2>1, <2>2, <2>3, RequestsKeepTrail DEF Trail
<1>3. ASSUME NEW q \in queue, Replay(q)
      PROVE  Trail'
  <2>1. q \in InFlight /\ InFlight' \subseteq InFlight
    BY <1>3 DEF InFlight, InService, Replay, CheckLease
  <2>2. /\ stored' = stored /\ gate' = None /\ Answer(q, After[q.method], stored[Key(q)].reply)
        /\ stored[Key(q)] # None /\ stored[Key(q)].sha = Sha(q)
    BY <1>3 DEF Replay, CheckLease, dbVars, IsStored, SameRequest
  <2>3. stored[Key(q)].reply \in Nat
    BY <1>0, <2>1, <2>2 DEF Types, DatabaseTypes, Responses
  <2>4. Opened(q.unit, q.lease)'
    <3>1. Sha(q)[1] = q.lease /\ Key(q)[2] = q.unit
      BY DEF Sha, Key
    <3>2. QED
      BY <1>0, <2>1, <2>2, <3>1 DEF Trail, StoredTrail, Opened
  <2>5. WorkersTrail' /\ UNCHANGED <<launches, mine>>
        /\ \A u \in Units : pc[u] # "lease" => pc'[u] # "lease"
    BY <1>0, <2>1, <2>2, <2>3, <2>4, AnswerKeepsTrail
  <2>6. QED
    BY <1>0, <1>1, <2>1, <2>2, <2>5, RequestsKeepTrail DEF Trail
<1>4. ASSUME InFlight' \subseteq InFlight, UNCHANGED <<stored, workerVars>>
      PROVE  RequestsTrail' /\ WorkersTrail'
  <2>1. UNCHANGED <<launches, mine, pc, journal>>
    BY <1>4 DEF workerVars
  <2>2. QED
    BY <1>0, <1>4, <2>1, RequestsKeepTrail DEF Trail, WorkersTrail, Opened
<1>5. ASSUME NEW q \in queue, Admit(q)
      PROVE  Trail'
  <2>1. /\ gate' = [request |-> q, stage |-> "execute", reply |-> 0]
        /\ UNCHANGED <<stored, workerVars>> /\ stored[Key(q)] = None
        /\ queue' = queue \ {q} /\ gate = None
    BY <1>5 DEF Admit, CheckLease, dbVars, IsStored
  <2>2. InFlight' \subseteq InFlight
    BY <1>5, <2>1 DEF InFlight, InService
  <2>3. StoredTrail'
    BY <2>1 DEF Trail, StoredTrail, Opened, Key
  <2>4. QED
    BY <1>4, <2>1, <2>2, <2>3 DEF Trail
<1>6. ASSUME gate # None, Execute(gate.request)
      PROVE  Trail'
  <2>0. gate.request \in InFlight
    BY <1>6, InFlightType
  <2>1. PICK q \in InFlight : q = gate.request
    BY <2>0
  <2>2. CASE Fails(q)
    <3>1. stored' = stored /\ gate' = None /\ queue' = queue /\ Answer(q, "down", 0)
      BY <2>2 DEF Fails, dbVars
    <3>2. InFlight' \subseteq InFlight
      BY <3>1 DEF InFlight, InService
    <3>3. WorkersTrail' /\ UNCHANGED <<launches, mine>>
          /\ \A u \in Units : pc[u] # "lease" => pc'[u] # "lease"
      BY <1>0, <2>1, <3>1, AnswerKeepsTrail
    <3>4. QED
      BY <1>0, <1>1, <3>1, <3>2, <3>3, RequestsKeepTrail DEF Trail
  <2>3. ASSUME NEW reply \in Nat, Executed(reply)
        PROVE  Trail'
    <3>1. gate' # None => gate'.request = gate.request
      BY <1>6, <2>3 DEF Executed, Types, ServeTypes, Served
    <3>2. UNCHANGED <<stored, workerVars, queue>> /\ InFlight' \subseteq InFlight
      BY <1>6, <2>3, <3>1 DEF Executed, InFlight, InService
    <3>3. StoredTrail'
      BY <1>6, <3>1, <3>2 DEF Trail, StoredTrail, Opened, Key
    <3>4. QED
      BY <1>4, <3>2, <3>3 DEF Trail
  <2>4. q.body \in Nat /\ receipt[q.unit] + 1 \in Nat
    <3>1. q.unit \in Units /\ q.body \in Nat
      BY <1>0, <2>1, RequestType
    <3>2. QED
      BY <3>1 DEF Types, DatabaseTypes
  <2>5. QED
    BY <1>6, <2>1, <2>2, <2>3, <2>4 DEF Execute, Open, Submit, Commit, Upload, Register, Release
<1>7. CASE Store
  <2>0. /\ gate.request \in InFlight /\ gate.request \in Requests
        /\ Key(gate.request) \in Keys /\ gate.reply \in Nat
    BY <1>7, InFlightType, RequestType DEF Store
  <2>1. PICK q \in InFlight : q = gate.request /\ q \in Requests /\ Key(q) \in Keys
    BY <2>0
  <2>2. /\ stored' = [stored EXCEPT ![Key(q)] = [sha |-> Sha(q), reply |-> gate.reply]]
        /\ gate' = None /\ queue' = queue /\ Answer(q, After[q.method], gate.reply)
    BY <1>7, <2>1 DEF Store
  <2>3. InFlight' \subseteq InFlight
    BY <2>2 DEF InFlight, InService
  <2>4. stored'[Key(q)] # None /\ stored'[Key(q)].sha[1] = q.lease
    <3>1. stored'[Key(q)] = [sha |-> Sha(q), reply |-> gate.reply] /\ Sha(q)[1] = q.lease
      BY <2>0, <2>1, <2>2 DEF Types, DatabaseTypes, Sha
    <3>2. [sha |-> Sha(q), reply |-> gate.reply] \in Responses
      BY <2>0, <2>1, RequestType
    <3>3. QED
      BY <3>1, <3>2, ConstantsAssumption
  <2>5. Opened(q.unit, q.lease)'
    <3>1. CASE q.method = "open"
      BY <2>4, <3>1 DEF Opened, Key
    <3>2. CASE q.method # "open"
      <4>1. Opened(q.unit, q.lease) /\ <<"open", q.unit>> \in Keys
        BY <2>1, <3>2, RequestType, KeyParts DEF Trail, RequestsTrail, Methods
      <4>2. QED
        BY <1>0, <4>1 DEF Opened
    <3>3. QED
      BY <3>1, <3>2
  <2>6. WorkersTrail' /\ UNCHANGED <<launches, mine>>
        /\ \A u \in Units : pc[u] # "lease" => pc'[u] # "lease"
    BY <1>0, <2>0, <2>1, <2>2, <2>4, <2>5, AnswerKeepsTrail
  <2>7. StoredTrail'
    <3> SUFFICES ASSUME NEW k \in Keys, stored'[k] # None PROVE Opened(k[2], stored[k].sha[1])'
      BY <2>2 DEF StoredTrail
    <3>1. CASE k = Key(q)
      BY <2>4, <2>5, <3>1 DEF Key
    <3>2. CASE k # Key(q)
      <4>1. stored'[k] = stored[k]
        BY <2>2, <3>2 DEF Types, DatabaseTypes
      <4>2. Opened(k[2], stored[k].sha[1]) /\ <<"open", k[2]>> \in Keys
        BY <4>1, KeyParts DEF Trail, StoredTrail, Methods
      <4>3. QED
        BY <1>0, <4>1, <4>2 DEF Opened
    <3>3. QED
      BY <3>1, <3>2
  <2>8. QED
    BY <1>0, <2>3, <2>6, <2>7, RequestsKeepTrail DEF Trail
<1>8. CASE ServerCrash
  <2>1. /\ UNCHANGED <<stored, launches, mine, journal>> /\ InFlight' = {} /\ gate' = None
        /\ \A u \in Units : pc'[u] = pc[u] \/ pc'[u] = "down"
    BY <1>8 DEF ServerCrash, dbVars, InFlight, InService
  <2>2. WorkersTrail'
    BY <2>1 DEF Trail, WorkersTrail, Opened, PastOpen, PastTrain, PastUpload, PastRelease
  <2>3. QED
    BY <1>1, <2>1, <2>2 DEF Trail, RequestsTrail
<1>9. CASE Tick
  <2>1. UNCHANGED <<stored, workerVars, queue, gate>> /\ InFlight' = InFlight
    BY <1>9 DEF Tick, dbVars, serveVars, InFlight, InService
  <2>2. QED
    BY <1>4, <2>1 DEF Trail, StoredTrail, Opened, Key
<1>10. QED
  BY <1>2, <1>3, <1>5, <1>6, <1>7, <1>8, <1>9 DEF ServerNext

\* The trail holds at the start ...
LEMMA TrailInit == Init => Trail
BY DEF Init, Trail, RequestsTrail, StoredTrail, WorkersTrail, InFlight, InService, PastOpen,
       PastTrain, PastUpload, PastRelease

\* ... and every step keeps it.
LEMMA TrailStep == Sound /\ Trail /\ [Next]_vars => Trail'
<1>1. UNCHANGED vars /\ Trail => Trail'
  BY DEF vars, dbVars, serveVars, workerVars, Trail, RequestsTrail, StoredTrail, WorkersTrail,
     InFlight, InService, Opened
<1>2. QED
  BY <1>1, WorkerKeepsTrail, ServerKeepsTrail DEF Next, Sound

\* All that is stored of a unit was answered under one lease.
THEOREM OneTrail == Spec => []OneLeaseTrail
<1>1. Trail => OneLeaseTrail
  BY DEF Trail, StoredTrail, OneLeaseTrail, Opened
<1>2. QED
  BY <1>1, SoundInit, SoundStep, TrailInit, TrailStep, PTL DEF Spec

-----------------------------------------------------------------------------
\* Stored responses are true

\* What the response n to a request of method m for unit u under lease l says.
Fact(m, u, l, n) ==
    /\ m = "open" => state[u] # None
    /\ m = "submit" => n = receipt[u] /\ n > 0
    /\ m = "commit" => state[u] = "COMMITTED"
    /\ m = "upload" => \E c \in contributions : c.unit = u /\ c.receipt = n /\ c.source = l
    /\ m = "release" => l \in Lease!Rows /\ unit[l] = u /\ status[l] = "RELEASED"

StoredFacts == \A k \in Keys : stored[k] # None =>
                   Fact(k[1], k[2], stored[k].sha[1], stored[k].reply)
GateFact == gate # None /\ gate.stage = "store" =>
                Fact(gate.request.method, gate.request.unit, gate.request.lease, gate.reply)
Truth == StoredFacts /\ GateFact

\* What was once true of a unit stays true.
LEMMA FactKept ==
    ASSUME Sound, [Next]_vars, NEW m, NEW u \in Units, NEW l, NEW n, Fact(m, u, l, n)
    PROVE  Fact(m, u, l, n)'
<1>1. DatabaseGrows /\ LeasesKept
  BY DatabaseStep, LeaseInvStep DEF Sound
<1>2. QED
  BY <1>1 DEF Fact, DatabaseGrows, LeasesKept

\* A method that has done its work has made its response true.
LEMMA FactMade ==
    ASSUME Sound, gate # None, Execute(gate.request), ~Fails(gate.request)
    PROVE  stored' = stored /\ GateFact'
<1>1. gate.request \in Requests
  BY InFlightType DEF Sound
<1>2. PICK q \in Requests : q = gate.request
  BY <1>1
<1>3. q.unit \in Units /\ q.body \in Nat /\ q.lease \in LeaseIds
  BY RequestType
<1>4. receipt \in [Units -> Nat] /\ state \in [Units -> {None, "OPEN", "APPLIED", "COMMITTED"}]
  BY DEF Sound, Types, DatabaseTypes
<1>5. ASSUME NEW reply, Executed(reply), Fact(q.method, q.unit, q.lease, reply)'
      PROVE  stored' = stored /\ GateFact'
  <2>1. stored' = stored /\ gate'.request = q /\ gate'.reply = reply
    BY <1>2, <1>5 DEF Executed, Sound, Types, ServeTypes, Served
  <2>2. QED
    BY <1>5, <2>1 DEF GateFact, Fact
<1>6. CASE Open(q)
  <2>1. state'[q.unit] # None
    BY <1>3, <1>4, <1>6, ConstantsAssumption DEF Open
  <2>2. QED
    BY <1>5, <1>6, <2>1 DEF Open, Fact
<1>7. CASE Submit(q)
  <2>1. receipt'[q.unit] = receipt[q.unit] + 1 /\ receipt[q.unit] \in Nat
    BY <1>3, <1>4, <1>7 DEF Submit
  <2>2. QED
    BY <1>5, <1>7, <2>1 DEF Submit, Fact
<1>8. CASE Commit(q)
  <2>1. state'[q.unit] = "COMMITTED"
    BY <1>3, <1>4, <1>8 DEF Commit
  <2>2. QED
    BY <1>5, <1>8, <2>1 DEF Commit, Fact
<1>9. CASE Upload(q)
  <2>1. [unit |-> q.unit, receipt |-> q.body, source |-> q.lease] \in contributions'
    BY <1>9 DEF Upload
  <2>2. QED
    BY <1>5, <1>9, <2>1 DEF Upload, Fact
<1>10. CASE Register(q)
  BY <1>5, <1>10 DEF Register, Fact
<1>11. CASE Release(q)
  <2>1. /\ q.lease \in Lease!Rows /\ holder[q.lease] = q.unit /\ UNCHANGED unit
        /\ status' = [status EXCEPT ![q.lease] = "RELEASED"]
    BY <1>11 DEF Release, Lease!Release, Lease!SetStatus
  <2>2. unit[q.lease] = q.unit
    BY <2>1 DEF Sound, LeaseInv, OwnLeases
  <2>3. status'[q.lease] = "RELEASED"
    BY <1>3, <2>1, SameLeases DEF Sound, LeaseInv, LeaseProofs!TtlInv, Lease!TypeOK
  <2>4. (q.lease \in Lease!Rows)'
    BY <1>3, <2>3, ConstantsAssumption DEF Lease!Rows, Lease!Ended
  <2>5. QED
    BY <1>5, <1>11, <2>1, <2>2, <2>3, <2>4 DEF Release, Fact
<1>12. QED
  BY <1>2, <1>6, <1>7, <1>8, <1>9, <1>10, <1>11 DEF Execute

\* Nothing is stored at the start ...
LEMMA TruthInit == Init => Truth
BY DEF Init, Truth, StoredFacts, GateFact

\* ... and every step keeps what is stored true.
LEMMA TruthStep == Sound /\ Truth /\ [Next]_vars => Truth'
<1> SUFFICES ASSUME Sound, Truth, [Next]_vars PROVE Truth'
  OBVIOUS
<1>0. \A k \in Keys : k[1] \in Methods /\ k[2] \in Units /\ k = <<k[1], k[2]>>
  BY KeyParts
<1>1. stored' = stored => StoredFacts'
  <2> SUFFICES ASSUME stored' = stored, NEW k \in Keys, stored[k] # None
               PROVE  Fact(k[1], k[2], stored[k].sha[1], stored[k].reply)'
    BY DEF StoredFacts
  <2> DEFINE l == stored[k].sha[1]
             n == stored[k].reply
  <2>1. Fact(k[1], k[2], l, n)
    BY DEF Truth, StoredFacts
  <2>2. DatabaseGrows /\ LeasesKept
    BY DatabaseStep, LeaseInvStep DEF Sound
  <2>3. QED
    BY <1>0, <2>1, <2>2 DEF Fact, DatabaseGrows, LeasesKept
<1>2. CASE /\ stored' = stored
           /\ gate' = None \/ gate' = gate \/ gate'.stage = "execute"
  <2>1. CASE gate' = gate
    <3> SUFFICES ASSUME gate # None, gate.stage = "store" PROVE GateFact'
      BY <1>1, <1>2, <2>1 DEF Truth, GateFact
    <3>1. Fact(gate.request.method, gate.request.unit, gate.request.lease, gate.reply)
      BY DEF Truth, GateFact
    <3>2. gate.request.unit \in Units
      BY InFlightType, RequestType DEF Sound
    <3>3. DatabaseGrows /\ LeasesKept
      BY DatabaseStep, LeaseInvStep DEF Sound
    <3>4. QED
      BY <2>1, <3>1, <3>2, <3>3 DEF GateFact, Fact, DatabaseGrows, LeasesKept
  <2>2. CASE gate' = None \/ gate'.stage = "execute"
    BY <1>1, <1>2, <2>2 DEF Truth, GateFact
  <2>3. QED
    BY <1>2, <2>1, <2>2
<1>3. CASE gate # None /\ Execute(gate.request)
  <2>1. CASE Fails(gate.request)
    BY <1>2, <2>1 DEF Fails, dbVars
  <2>2. CASE ~Fails(gate.request)
    BY <1>1, <1>3, <2>2, FactMade DEF Truth
  <2>3. QED
    BY <2>1, <2>2
<1>4. CASE Store
  <2>0. gate.request \in Requests /\ gate.reply \in Nat
    BY <1>4, InFlightType DEF Store, Sound
  <2>1. PICK q \in Requests, n \in Nat : q = gate.request /\ n = gate.reply
    BY <2>0
  <2>2. gate' = None /\ stored' = [stored EXCEPT ![Key(q)] = [sha |-> Sha(q), reply |-> n]]
    BY <1>4, <2>1 DEF Store
  <2>3. Fact(q.method, q.unit, q.lease, n)'
    <3>1. Fact(q.method, q.unit, q.lease, n) /\ q.unit \in Units
      BY <1>4, <2>1, RequestType DEF Store, Truth, GateFact
    <3>2. QED
      BY <3>1, FactKept
  <2>4. ASSUME NEW k \in Keys, stored'[k] # None
        PROVE  Fact(k[1], k[2], stored[k].sha[1], stored[k].reply)'
    <3>1. CASE k = Key(q)
      <4>1. k[1] = q.method /\ k[2] = q.unit
        BY <3>1 DEF Key
      <4>2. stored'[k] = [sha |-> <<q.lease, q.body>>, reply |-> n]
        BY <2>2, <3>1 DEF Sound, Types, DatabaseTypes, Sha
      <4>3. stored'[k].sha[1] = q.lease /\ stored'[k].reply = n
        BY <4>2
      <4>4. QED
        BY <2>3, <4>1, <4>3 DEF Fact
    <3>2. CASE k # Key(q)
      <4>1. stored'[k] = stored[k]
        BY <2>2, <3>2 DEF Sound, Types, DatabaseTypes
      <4>2. Fact(k[1], k[2], stored[k].sha[1], stored[k].reply)
        BY <2>4, <4>1 DEF Truth, StoredFacts
      <4>3. DatabaseGrows /\ LeasesKept
        BY DatabaseStep, LeaseInvStep DEF Sound
      <4>4. QED
        BY <1>0, <4>1, <4>2, <4>3 DEF Fact, DatabaseGrows, LeasesKept
    <3>3. QED
      BY <3>1, <3>2
  <2>5. QED
    BY <2>2, <2>4 DEF Truth, StoredFacts, GateFact
<1>5. ASSUME NEW q \in queue, Reject(q) \/ Replay(q) \/ Admit(q)
      PROVE  Truth'
  <2>1. stored' = stored /\ (gate' = gate \/ gate'.stage = "execute")
    BY <1>5 DEF Reject, Replay, Admit, dbVars
  <2>2. QED
    BY <1>2, <2>1
<1>6. CASE (\E u \in Units : WorkerNext(u) \/ Kill(u)) \/ ServerCrash \/ Tick \/ UNCHANGED vars
  <2>1. stored' = stored /\ (gate' = gate \/ gate' = None)
    BY <1>6, WorkerStepTypes DEF Sound, ServerCrash, Tick, vars, dbVars, serveVars
  <2>2. QED
    BY <1>2, <2>1
<1>7. QED
  BY <1>3, <1>4, <1>5, <1>6 DEF Next, ServerNext

\* A stored response tells the truth, and what it tells is never undone.
THEOREM StoredTruth == Spec => []StoredIsTrue
<1>1. Truth => StoredIsTrue
  <2> SUFFICES ASSUME Truth, NEW u \in Units
               PROVE  /\ stored[<<"open", u>>] # None => state[u] # None
                      /\ stored[<<"submit", u>>] # None =>
                             /\ stored[<<"submit", u>>].reply = receipt[u]
                             /\ receipt[u] > 0
                      /\ stored[<<"commit", u>>] # None => state[u] = "COMMITTED"
                      /\ stored[<<"upload", u>>] # None =>
                             \E c \in contributions :
                                 c.unit = u /\ c.receipt = stored[<<"upload", u>>].reply
                      /\ stored[<<"release", u>>] # None =>
                             \E l \in Lease!RowsOf(u) : status[l] = "RELEASED"
    BY DEF StoredIsTrue
  <2>1. \A m \in Methods : stored[<<m, u>>] # None =>
            Fact(m, u, stored[<<m, u>>].sha[1], stored[<<m, u>>].reply)
    BY KeyParts DEF Truth, StoredFacts
  <2>2. QED
    BY <2>1 DEF Fact, Methods, Lease!RowsOf
<1>2. QED
  BY <1>1, SoundInit, SoundStep, TruthInit, TruthStep, PTL DEF Spec

\* A worker that ends well has delivered under its lease, which is released,
\* and the unit is never leased again.
THEOREM DoneDelivered == Spec => []DoneIsDelivered
<1>1. Sound /\ Trail /\ Truth => DoneIsDelivered
  <2> SUFFICES ASSUME Sound, Trail, Truth, NEW u \in Units, pc[u] = "done"
               PROVE  /\ journal[u] = Examples
                      /\ \E c \in contributions : c.unit = u /\ c.source = mine[u]
                      /\ \A l \in Lease!RowsOf(u) : status[l] = "RELEASED" <=> l = mine[u]
                      /\ \A l \in Lease!RowsOf(u) : status[l] \notin Lease!Live
    BY DEF DoneIsDelivered
  <2>1. /\ journal[u] = Examples /\ Opened(u, mine[u])
        /\ stored[<<"upload", u>>] # None /\ stored[<<"release", u>>] # None
    BY DEF Trail, WorkersTrail, PastOpen, PastTrain, PastUpload, PastRelease
  <2>2. <<"upload", u>> \in Keys /\ <<"release", u>> \in Keys
    BY KeyParts DEF Methods
  <2>3. stored[<<"upload", u>>].sha[1] = mine[u] /\ stored[<<"release", u>>].sha[1] = mine[u]
    BY <2>1, <2>2 DEF Trail, StoredTrail, Opened
  <2>4. \E c \in contributions : c.unit = u /\ c.source = mine[u]
    BY <2>1, <2>2, <2>3 DEF Truth, StoredFacts, Fact
  <2>5. mine[u] \in Lease!Rows /\ unit[mine[u]] = u /\ status[mine[u]] = "RELEASED"
    BY <2>1, <2>2, <2>3 DEF Truth, StoredFacts, Fact
  <2>6. \A l \in Lease!RowsOf(u) : l # mine[u] => status[l] = "EXPIRED"
    BY <2>5 DEF Sound, LeaseInv, LeaseProofs!TtlInv, LeaseProofs!OnlyNewestOpen,
       LeaseProofs!Rows, Lease!Rows, Lease!RowsOf
  <2>7. QED
    BY <2>1, <2>4, <2>5, <2>6 DEF Lease!Live, Lease!RowsOf
<1>2. QED
  BY <1>1, SoundInit, SoundStep, TrailInit, TrailStep, TruthInit, TruthStep, PTL DEF Spec
=============================================================================
