----------------------- MODULE RoundCoordinatorProofs -----------------------
(***************************************************************************)
(* Proofs about RoundCoordinator.  For any number of admin threads: types, *)
(* and the weight of what is averaged.  For one: one ACTIVE contribution   *)
(* per assignment, the exact quorum and the common baseline of every       *)
(* aggregated adapter, statuses that only advance, and the promise of      *)
(* RoundAverage.                                                           *)
(***************************************************************************)
EXTENDS RoundCoordinator, TLAPS

\* The empty tables are well typed.
LEMMA TypeInit == Init => TypeOK
BY DEF Init, TypeOK, PcOfCid, PcOfRound

\* Changing the status of a stored contribution keeps it a row.
LEMMA StatusType ==
    ASSUME con \in [Cids -> ConRow \cup {None}], NEW c \in Received, NEW s \in ConStatus
    PROVE  [con[c] EXCEPT !.status = s] \in ConRow
BY DEF Received, ConRow

\* The contributions of a round are weighted with numbers of tokens.
LEMMA ResultType ==
    ASSUME TypeOK, NEW r \in Rounds
    PROVE  [round |-> r, plan |-> [a \in RoundPlan(r) |-> Asg(r, a)], weights |-> Weights(r)]
               \in Result
<1>1. [a \in RoundPlan(r) |-> Asg(r, a)] \in [RoundPlan(r) -> AsgRow] /\ RoundPlan(r) \subseteq Asgs
  BY DEF RoundPlan, Asg, TypeOK
<1>2. Weights(r) \in [ActiveIn(r) -> Etts] /\ ActiveIn(r) \subseteq Cids
  <2>1. \A c \in ActiveIn(r) : c \in Cids /\ con[c] \in ConRow
    BY DEF ActiveIn, Received, TypeOK
  <2>2. \A c \in ActiveIn(r) : Weight(c) \in Etts
    <3> TAKE c \in ActiveIn(r)
    <3>1. con[c].ett \in Etts /\ con[c].round \in Rounds /\ con[c].asg \in Asgs
      BY <2>1 DEF ConRow
    <3>2. Asg(con[c].round, con[c].asg) # None => Asg(con[c].round, con[c].asg).expected \in Etts
      BY <3>1 DEF Asg, TypeOK, AsgRow
    <3>3. QED
      BY <3>1, <3>2 DEF Weight
  <2>3. QED
    BY <2>1, <2>2 DEF Weights
<1>3. QED
  BY <1>1, <1>2 DEF Result

\* Every operation keeps the types.
LEMMA TypeStep == TypeOK /\ [Next]_vars => TypeOK'
<1> SUFFICES ASSUME TypeOK, [Next]_vars PROVE TypeOK'
  OBVIOUS
<1> USE DEF PcOfCid, PcOfRound, Asg
<1> result \in Result \cup {None}
  BY DEF TypeOK
<1>1. ASSUME NEW t \in Threads, NEW r \in Rounds, NEW base \in Bases, NEW pre \in PreHashes,
             CreateRound(t, r, base, pre)
      PROVE  TypeOK'
  BY <1>1 DEF CreateRound, TypeOK, RoundRow, Received
<1>2. ASSUME NEW r \in Rounds, NEW a \in Asgs, NEW row \in AsgRow, PutAsg(r, a, row)
      PROVE  TypeOK'
  BY <1>2 DEF PutAsg, TypeOK, Received
<1>3. ASSUME NEW t \in Threads, NEW r \in Rounds, NEW a \in Asgs, NEW w \in Workers,
             NEW base \in Bases, NEW e \in Etts, CreateAssignment(t, r, a, w, base, e)
      PROVE  TypeOK'
  BY <1>2, <1>3, CoordinatorAssumption DEF CreateAssignment, AsgRow
<1>4. ASSUME NEW t \in Threads, NEW r \in Rounds, NEW a \in Asgs, NEW w \in Workers,
             NEW base \in Bases, NEW e \in Etts, NEW rev \in Revisions,
             Assign(t, r, a, w, base, e, rev)
      PROVE  TypeOK'
  BY <1>2, <1>4, CoordinatorAssumption DEF Assign, AsgRow
<1>5. ASSUME NEW r \in Rounds, NEW a \in Asgs, NEW base \in Bases, NEW e \in Etts,
             Calibrate(r, a, base, e)
      PROVE  TypeOK'
  <2>1. Asg(r, a) \in AsgRow
    BY <1>5 DEF Calibrate, TypeOK
  <2>2. [Asg(r, a) EXCEPT !.registered = e] \in AsgRow
    BY <2>1 DEF AsgRow
  <2>3. QED
    BY <1>5, <2>2 DEF Calibrate, TypeOK, Received
<1>6. ASSUME NEW c \in Cids, NEW r \in Rounds, NEW a \in Asgs, NEW e \in Etts,
             NEW pre \in PreHashes, Register(c, r, a, e, pre)
      PROVE  TypeOK'
  <2>1. Asg(r, a) \in AsgRow
    BY <1>6 DEF Register, TypeOK
  <2>2. [round |-> r, asg |-> a, worker |-> Asg(r, a).worker, status |-> "RECEIVED",
         ett |-> e, pre |-> pre, rev |-> Asg(r, a).rev] \in ConRow
    BY <2>1 DEF AsgRow, ConRow, ConStatus
  <2>3. con' \in [Cids -> ConRow \cup {None}]
    BY <1>6, <2>2 DEF Register, TypeOK
  <2>4. Received' = Received \cup {c}
    BY <1>6, <2>2, CoordinatorAssumption DEF Register, TypeOK, Received
  <2>5. QED
    BY <1>6, <2>3, <2>4 DEF Register, TypeOK
<1>7. ASSUME NEW t \in Threads, NEW step \in PcOfCid \cup PcOfRound \cup {"idle"}, NEW x \in Cids \cup Rounds \cup {None},
             Goto(t, step, x), UNCHANGED <<round, asg>>, result' \in Result \cup {None},
             con' \in [Cids -> ConRow \cup {None}], Received' = Received,
             step \in PcOfCid => x \in Received, step \in PcOfRound => x \in Rounds
      PROVE  TypeOK'
  <2>1. \A s \in Threads : /\ s # t => pc'[s] = pc[s] /\ arg'[s] = arg[s]
                           /\ s = t => pc'[s] = step
    BY <1>7 DEF Goto, TypeOK
  <2>2. QED
    BY <1>7 DEF Goto, TypeOK
<1>8. ASSUME NEW c \in Received, NEW s \in ConStatus, SetConStatus(c, s)
      PROVE  con' \in [Cids -> ConRow \cup {None}] /\ Received' = Received
  <2>1. [con[c] EXCEPT !.status = s] \in ConRow
    BY StatusType DEF TypeOK
  <2>2. con' = [con EXCEPT ![c] = [con[c] EXCEPT !.status = s]]
    BY <1>8 DEF SetConStatus, TypeOK
  <2>3. QED
    BY <2>1, <2>2, CoordinatorAssumption DEF TypeOK, Received
<1>9. ASSUME NEW t \in Threads, NEW c \in Cids, ValidateCheck(t, c) \/ ActivateCheck(t, c)
      PROVE  TypeOK'
  BY <1>7, <1>9 DEF ValidateCheck, ActivateCheck, TypeOK, Received
<1>10. ASSUME NEW t \in Threads, ValidateWrite(t)
       PROVE  TypeOK'
  <2>1. arg[t] \in Received
    BY <1>10 DEF ValidateWrite, TypeOK
  <2>2. QED
    BY <1>7, <1>8, <1>10, <2>1 DEF ValidateWrite, ConStatus
<1>11. ASSUME NEW t \in Threads, Supersede(t)
       PROVE  TypeOK'
  <2>1. arg[t] \in Received /\ arg[t] \in Cids
    BY <1>11 DEF Supersede, TypeOK, Received
  <2>2. \A c \in Cids : con[c] # None => [con[c] EXCEPT !.status = "SUPERSEDED"] \in ConRow
    BY StatusType DEF TypeOK, Received, ConStatus
  <2>3. con' \in [Cids -> ConRow \cup {None}] /\ Received' = Received
    BY <1>11, <2>2, CoordinatorAssumption DEF Supersede, Displaced, TypeOK, Received
  <2>4. QED
    BY <1>7, <1>11, <2>1, <2>3 DEF Supersede
<1>12. ASSUME NEW t \in Threads, SetActive(t)
       PROVE  TypeOK'
  <2>1. arg[t] \in Received
    BY <1>12 DEF SetActive, TypeOK
  <2>2. QED
    BY <1>7, <1>8, <1>12, <2>1 DEF SetActive, ConStatus
<1>13. ASSUME NEW t \in Threads, NEW r \in Rounds, FedAvgQuorum(t, r)
       PROVE  TypeOK'
  BY <1>7, <1>13 DEF FedAvgQuorum, TypeOK, Received
<1>14. ASSUME NEW t \in Threads, NEW adapter \in Adapters, FedAvgHomogeneity(t, adapter)
       PROVE  TypeOK'
  <2>1. arg[t] \in Rounds /\ con' \in [Cids -> ConRow \cup {None}] /\ Received' = Received
    BY <1>14 DEF FedAvgHomogeneity, TypeOK, Received
  <2>2. QED
    BY <1>7, <1>14, <2>1 DEF FedAvgHomogeneity
<1>15. ASSUME NEW t \in Threads, FedAvgAggregate(t)
       PROVE  TypeOK'
  <2>1. con' \in [Cids -> ConRow \cup {None}] /\ Received' = Received
    BY <1>15 DEF FedAvgAggregate, TypeOK, Received
  <2>2. result' \in Result \cup {None}
    BY <1>15, ResultType DEF FedAvgAggregate, TypeOK
  <2>3. QED
    BY <1>7, <1>15, <2>1, <2>2 DEF FedAvgAggregate
<1>16. CASE UNCHANGED vars
  BY <1>16 DEF vars, TypeOK, Received
<1>17. QED
  BY <1>1, <1>3, <1>4, <1>5, <1>6, <1>9, <1>10, <1>11, <1>12, <1>13, <1>14, <1>15, <1>16
     DEF Next, AdminNext, WorkerNext

\* The tables of the coordinator always hold well-formed rows, with any number
\* of admin threads.
THEOREM TypeCorrect == Spec => []TypeOK
BY TypeInit, TypeStep, PTL DEF Spec

-----------------------------------------------------------------------------
\* What every step leaves of a contribution and workers leave of a round

\* A stored contribution stays, and only its status ever changes.
LEMMA ContributionKept ==
    ASSUME TypeOK, [Next]_vars, NEW c \in Received
    PROVE  /\ c \in Received'
           /\ con'[c].round = con[c].round /\ con'[c].asg = con[c].asg
           /\ con'[c].worker = con[c].worker /\ con'[c].rev = con[c].rev
           /\ con'[c].pre = con[c].pre /\ con'[c].ett = con[c].ett
<1> c \in Cids /\ con[c] # None /\ con[c] \in ConRow
  BY DEF Received, TypeOK
<1> SUFFICES con'[c] \in ConRow /\ con'[c].round = con[c].round /\ con'[c].asg = con[c].asg
             /\ con'[c].worker = con[c].worker /\ con'[c].rev = con[c].rev
             /\ con'[c].pre = con[c].pre /\ con'[c].ett = con[c].ett
  BY CoordinatorAssumption DEF Received
<1>1. CASE con'[c] = con[c]
  BY <1>1
<1>2. ASSUME NEW s \in ConStatus, con'[c] = [con[c] EXCEPT !.status = s]
      PROVE  con'[c] \in ConRow /\ con'[c].round = con[c].round /\ con'[c].asg = con[c].asg
             /\ con'[c].worker = con[c].worker /\ con'[c].rev = con[c].rev
             /\ con'[c].pre = con[c].pre /\ con'[c].ett = con[c].ett
  BY <1>2 DEF ConRow
<1>3. ASSUME NEW d \in Cids, NEW s \in ConStatus, SetConStatus(d, s)
      PROVE  con'[c] = con[c] \/ con'[c] = [con[c] EXCEPT !.status = s]
  BY <1>3 DEF SetConStatus, TypeOK
<1>4. ASSUME NEW t \in Threads, ValidateWrite(t) \/ SetActive(t)
      PROVE  \E s \in ConStatus : con'[c] = con[c] \/ con'[c] = [con[c] EXCEPT !.status = s]
  <2>1. arg[t] \in Cids
    BY <1>4 DEF ValidateWrite, SetActive, TypeOK, PcOfCid, Received
  <2>2. QED
    BY <1>3, <1>4, <2>1 DEF ValidateWrite, SetActive, ConStatus
<1>5. ASSUME NEW t \in Threads, Supersede(t)
      PROVE  \E s \in ConStatus : con'[c] = con[c] \/ con'[c] = [con[c] EXCEPT !.status = s]
  BY <1>5 DEF Supersede, ConStatus
<1>6. ASSUME NEW d \in Cids, NEW r \in Rounds, NEW a \in Asgs, NEW e \in Etts,
             NEW pre \in PreHashes, Register(d, r, a, e, pre)
      PROVE  con'[c] = con[c]
  BY <1>6 DEF Register, TypeOK
<1>7. CASE UNCHANGED con
  BY <1>7
<1>8. \A t \in Threads : AdminNext(t)
          => UNCHANGED con \/ ValidateWrite(t) \/ Supersede(t) \/ SetActive(t)
  BY DEF AdminNext, CreateRound, CreateAssignment, Assign, PutAsg, ValidateCheck, ActivateCheck,
         FedAvgQuorum, FedAvgHomogeneity, FedAvgAggregate
<1>9. WorkerNext => UNCHANGED con \/ con'[c] = con[c]
  BY <1>6 DEF WorkerNext, Calibrate
<1>10. (\E t \in Threads : AdminNext(t)) \/ WorkerNext \/ UNCHANGED con
  BY DEF Next, vars
<1>11. con'[c] = con[c] \/ \E s \in ConStatus : con'[c] = [con[c] EXCEPT !.status = s]
  BY <1>4, <1>5, <1>8, <1>9, <1>10
<1>12. QED
  BY <1>1, <1>2, <1>11

\* A worker's request adds no ACTIVE contribution and changes nothing that
\* fedavg checks.
LEMMA WorkerHarmless ==
    ASSUME TypeOK, WorkerNext
    PROVE  /\ UNCHANGED <<round, pc, arg, result>>
           /\ \A r \in Rounds :
                 /\ ActiveIn(r)' = ActiveIn(r) /\ RoundPlan(r)' = RoundPlan(r)
                 /\ \A a \in RoundPlan(r) : /\ Asg(r, a)'.worker = Asg(r, a).worker
                                            /\ Asg(r, a)'.rev = Asg(r, a).rev
                                            /\ Asg(r, a)'.base = Asg(r, a).base
           /\ \A c \in Received : con'[c] = con[c]
<1> USE DEF Asg
<1>1. ASSUME NEW r \in Rounds, NEW a \in Asgs, NEW base \in Bases, NEW e \in Etts,
             Calibrate(r, a, base, e)
      PROVE  /\ UNCHANGED <<round, con, pc, arg, result>>
             /\ \A x \in Rounds \X Asgs : /\ asg'[x] = None <=> asg[x] = None
                                          /\ asg[x] # None => /\ asg'[x].worker = asg[x].worker
                                                              /\ asg'[x].rev = asg[x].rev
                                                              /\ asg'[x].base = asg[x].base
  <2>1. asg[<<r, a>>] \in AsgRow
    BY <1>1 DEF Calibrate, TypeOK
  <2>2. [asg[<<r, a>>] EXCEPT !.registered = e] \in AsgRow
    BY <2>1 DEF AsgRow
  <2>3. asg' = [asg EXCEPT ![<<r, a>>] = [asg[<<r, a>>] EXCEPT !.registered = e]]
    BY <1>1 DEF Calibrate, TypeOK
  <2>4. QED
    BY <1>1, <2>1, <2>2, <2>3, CoordinatorAssumption DEF Calibrate, TypeOK, AsgRow
<1>2. ASSUME NEW c \in Cids, NEW r \in Rounds, NEW a \in Asgs, NEW e \in Etts,
             NEW pre \in PreHashes, Register(c, r, a, e, pre)
      PROVE  /\ UNCHANGED <<round, asg, pc, arg, result>> /\ c \notin Received
             /\ \A d \in Cids : d # c => con'[d] = con[d]
             /\ con'[c].status = "RECEIVED"
  BY <1>2 DEF Register, TypeOK, Received
<1>3. CASE \E r \in Rounds, a \in Asgs, e \in Etts, base \in Bases : Calibrate(r, a, base, e)
  <2>1. PICK r \in Rounds, a \in Asgs, e \in Etts, base \in Bases : Calibrate(r, a, base, e)
    BY <1>3
  <2>2. /\ UNCHANGED <<round, con, pc, arg, result>>
        /\ \A q \in Rounds, b \in Asgs :
              /\ asg'[<<q, b>>] = None <=> asg[<<q, b>>] = None
              /\ asg[<<q, b>>] # None => /\ asg'[<<q, b>>].worker = asg[<<q, b>>].worker
                                         /\ asg'[<<q, b>>].rev = asg[<<q, b>>].rev
                                         /\ asg'[<<q, b>>].base = asg[<<q, b>>].base
    BY <1>1, <2>1
  <2>3. QED
    BY <2>2 DEF ActiveIn, Received, RoundPlan
<1>4. CASE \E c \in Cids, r \in Rounds, a \in Asgs, e \in Etts, pre \in PreHashes :
               Register(c, r, a, e, pre)
  <2>1. PICK c \in Cids, r \in Rounds, a \in Asgs, e \in Etts, pre \in PreHashes :
            Register(c, r, a, e, pre)
    BY <1>4
  <2>2. /\ UNCHANGED <<round, asg, pc, arg, result>> /\ c \notin Received
        /\ \A d \in Cids : d # c => con'[d] = con[d]
        /\ con'[c].status = "RECEIVED"
    BY <1>2, <2>1
  <2>3. \A r2 \in Rounds : ActiveIn(r2)' = ActiveIn(r2)
    BY <2>2 DEF ActiveIn, Received
  <2>4. QED
    BY <2>2, <2>3 DEF Received, RoundPlan
<1>5. QED
  BY <1>3, <1>4 DEF WorkerNext

-----------------------------------------------------------------------------
\* One admin thread

OneAdmin == \A s, t \in Threads : s = t

\* Between its two UPDATEs an activation has displaced every rival.
RivalsDisplaced == \A t \in Threads : pc[t] = "set_active" => Displaced(arg[t]) = {}

\* One ACTIVE contribution per assignment survives every step, if at most one
\* admin request runs at a time.
LEMMA OneActiveStep ==
    ASSUME OneAdmin, TypeOK, OneActive, RivalsDisplaced, [Next]_vars
    PROVE  OneActive' /\ RivalsDisplaced'
<1> TypeOK'
  BY TypeStep
<1>1. ASSUME UNCHANGED con, \A t \in Threads : pc'[t] = "set_active" => pc[t] = "set_active" /\ arg'[t] = arg[t]
      PROVE  OneActive' /\ RivalsDisplaced'
  BY <1>1 DEF OneActive, RivalsDisplaced, Displaced, Received
<1>2. ASSUME NEW t \in Threads, NEW step \in PcOfCid \cup PcOfRound \cup {"idle"}, NEW x,
             Goto(t, step, x), step # "set_active"
      PROVE  \A s \in Threads : pc'[s] # "set_active"
  BY <1>2 DEF OneAdmin, Goto, TypeOK
<1>3. ASSUME NEW t \in Threads, ValidateWrite(t)
      PROVE  OneActive' /\ RivalsDisplaced'
  <2>1. \A s \in Threads : pc'[s] # "set_active"
    BY <1>2, <1>3 DEF ValidateWrite
  <2>2. arg[t] \in Cids /\ con[arg[t]] \in ConRow
    BY <1>3 DEF ValidateWrite, TypeOK, PcOfCid, Received
  <2>3. con' = [con EXCEPT ![arg[t]] = [con[arg[t]] EXCEPT !.status = "VALIDATED"]]
    BY <1>3, <2>2 DEF ValidateWrite, SetConStatus, TypeOK
  <2>4. \A c \in Received' : con'[c].status = "ACTIVE" => con'[c] = con[c] /\ c \in Received
    BY <2>2, <2>3, CoordinatorAssumption DEF Received, TypeOK, ConRow
  <2>5. QED
    BY <2>1, <2>4 DEF OneActive, RivalsDisplaced
<1>4. ASSUME NEW t \in Threads, Supersede(t)
      PROVE  OneActive' /\ RivalsDisplaced'
  <2>1. arg[t] \in Received /\ arg[t] \in Cids
    BY <1>4 DEF Supersede, TypeOK, PcOfCid, Received
  <2>2. \A c \in Cids : con'[c] = IF c \in Displaced(arg[t])
                                  THEN [con[c] EXCEPT !.status = "SUPERSEDED"] ELSE con[c]
    BY <1>4 DEF Supersede
  <2>3. \A c \in Displaced(arg[t]) : con'[c].status = "SUPERSEDED" /\ c \in Cids
    BY <2>2 DEF Displaced, Received, TypeOK, ConRow
  <2>4. \A c \in Received' : con'[c].status = "ACTIVE" => con'[c] = con[c] /\ c \in Received
    BY <2>2, <2>3, CoordinatorAssumption DEF Received, Displaced
  <2>5. OneActive'
    BY <2>4 DEF OneActive
  <2>6. arg' = arg /\ \A s \in Threads : s = t
    BY <1>4 DEF OneAdmin, Supersede, Goto, TypeOK
  <2>7. con'[arg[t]] = con[arg[t]]
    BY <2>1, <2>2 DEF Displaced
  <2>8. Displaced(arg[t])' = {}
    <3> SUFFICES ASSUME NEW d \in Received', d # arg'[t], con'[d].asg = con'[arg'[t]].asg,
                        con'[d].worker = con'[arg'[t]].worker, con'[d].status = "ACTIVE"
                 PROVE  FALSE
      BY DEF Displaced
    <3>1. con'[d] = con[d] /\ d \in Received
      BY <2>4
    <3>2. d \in Displaced(arg[t])
      BY <2>6, <2>7, <3>1 DEF Displaced
    <3>3. QED
      BY <2>3, <3>2
  <2>9. RivalsDisplaced'
    BY <2>6, <2>8 DEF RivalsDisplaced
  <2>10. QED
    BY <2>5, <2>9
<1>5. ASSUME NEW t \in Threads, SetActive(t)
      PROVE  OneActive' /\ RivalsDisplaced'
  <2>1. \A s \in Threads : pc'[s] # "set_active"
    BY <1>2, <1>5 DEF SetActive
  <2>2. arg[t] \in Cids /\ arg[t] \in Received /\ con[arg[t]] \in ConRow
    BY <1>5 DEF SetActive, TypeOK, PcOfCid, Received
  <2>3. con' = [con EXCEPT ![arg[t]] = [con[arg[t]] EXCEPT !.status = "ACTIVE"]]
    BY <1>5, <2>2 DEF SetActive, SetConStatus, TypeOK
  <2>4. /\ con'[arg[t]].asg = con[arg[t]].asg /\ con'[arg[t]].worker = con[arg[t]].worker
        /\ \A c \in Received' : c \in Received /\ (c # arg[t] => con'[c] = con[c])
    BY <2>2, <2>3, CoordinatorAssumption DEF Received, TypeOK, ConRow
  <2>5. Displaced(arg[t]) = {}
    BY <1>5 DEF SetActive, RivalsDisplaced
  <2>6. \A c \in Received' : c # arg[t] /\ con'[c].status = "ACTIVE"
                => ~(con'[c].asg = con'[arg[t]].asg /\ con'[c].worker = con'[arg[t]].worker)
    BY <2>4, <2>5 DEF Displaced
  <2>7. OneActive'
    BY <2>4, <2>6 DEF OneActive
  <2>8. QED
    BY <2>1, <2>7 DEF RivalsDisplaced
<1>6. CASE WorkerNext
  <2>1. \A c \in Received : con'[c] = con[c] /\ c \in Received'
    BY <1>6, WorkerHarmless, ContributionKept DEF Next
  <2>2. UNCHANGED <<pc, arg>> /\ \A r \in Rounds : ActiveIn(r)' = ActiveIn(r)
    BY <1>6, WorkerHarmless
  <2>3. \A c \in Received' : con'[c].status = "ACTIVE" => c \in Received
    <3> TAKE c \in Received'
    <3>1. con'[c].round \in Rounds
      BY DEF TypeOK, Received, ConRow
    <3>2. QED
      BY <2>2, <3>1 DEF ActiveIn
  <2>4. \A t \in Threads : pc[t] = "set_active" => arg[t] \in Received
    BY DEF TypeOK, PcOfCid
  <2>5. OneActive'
    BY <2>1, <2>3 DEF OneActive
  <2>6. RivalsDisplaced'
    BY <2>1, <2>2, <2>3, <2>4 DEF RivalsDisplaced, Displaced
  <2>7. QED
    BY <2>5, <2>6
<1>7. ASSUME NEW t \in Threads, AdminNext(t)
      PROVE  OneActive' /\ RivalsDisplaced'
  <2>1. CASE UNCHANGED <<con, pc, arg>>
    BY <1>1, <2>1
  <2>2. ASSUME UNCHANGED con, NEW step \in PcOfCid \cup PcOfRound \cup {"idle"}, NEW x,
               Goto(t, step, x), step # "set_active"
        PROVE  OneActive' /\ RivalsDisplaced'
    BY <1>1, <1>2, <2>2
  <2>3. ASSUME NEW c \in Cids, ValidateCheck(t, c) \/ ActivateCheck(t, c)
        PROVE  OneActive' /\ RivalsDisplaced'
    BY <2>2, <2>3 DEF ValidateCheck, ActivateCheck, PcOfCid
  <2>4. ASSUME NEW r \in Rounds, FedAvgQuorum(t, r)
        PROVE  OneActive' /\ RivalsDisplaced'
    BY <2>2, <2>4 DEF FedAvgQuorum, PcOfRound
  <2>5. ASSUME NEW adapter \in Adapters, FedAvgHomogeneity(t, adapter)
        PROVE  OneActive' /\ RivalsDisplaced'
    BY <2>2, <2>5 DEF FedAvgHomogeneity, PcOfRound
  <2>6. CASE FedAvgAggregate(t)
    BY <2>2, <2>6 DEF FedAvgAggregate
  <2>7. QED
    BY <1>3, <1>4, <1>5, <1>7, <2>1, <2>3, <2>4, <2>5, <2>6
       DEF AdminNext, CreateRound, CreateAssignment, Assign, PutAsg
<1>8. CASE UNCHANGED vars
  BY <1>1, <1>8 DEF vars
<1>9. QED
  BY <1>6, <1>7, <1>8 DEF Next

\* With one admin request at a time, an assignment of a round never has two
\* ACTIVE contributions of its worker.
THEOREM OneActiveContribution == ASSUME OneAdmin PROVE Spec => []OneActive
<1>1. Init => OneActive /\ RivalsDisplaced
  BY DEF Init, OneActive, RivalsDisplaced, Received
<1>2. TypeOK /\ (OneActive /\ RivalsDisplaced) /\ [Next]_vars => (OneActive /\ RivalsDisplaced)'
  BY OneActiveStep
<1>3. QED
  BY <1>1, <1>2, TypeCorrect, PTL DEF Spec

-----------------------------------------------------------------------------
\* What fedavg has checked still holds when it aggregates

ChecksHold ==
    \A t \in Threads : /\ pc[t] \in PcOfRound => QuorumMet(arg[t])
                       /\ pc[t] = "aggregate" => Homogeneous(arg[t])

\* The contributions of the last result are stored rows.
ResultStored == result # None => DOMAIN result.weights \subseteq Received

\* Workers' requests cannot undo the checks of a running fedavg.
LEMMA WorkersKeepChecks ==
    ASSUME TypeOK, WorkerNext, NEW r \in Rounds
    PROVE  /\ QuorumMet(r) => QuorumMet(r)'
           /\ Homogeneous(r) => Homogeneous(r)'
<1>1. /\ round' = round /\ ActiveIn(r)' = ActiveIn(r) /\ RoundPlan(r)' = RoundPlan(r)
      /\ \A a \in RoundPlan(r) : /\ Asg(r, a)'.worker = Asg(r, a).worker
                                 /\ Asg(r, a)'.rev = Asg(r, a).rev
                                 /\ Asg(r, a)'.base = Asg(r, a).base
      /\ \A c \in ActiveIn(r) : con'[c] = con[c]
  BY WorkerHarmless DEF ActiveIn
<1>2. \A a \in RoundPlan(r) : ActiveFor(r, a)' = ActiveFor(r, a)
  BY <1>1 DEF ActiveFor
<1>3. ASSUME QuorumMet(r) PROVE QuorumMet(r)'
  <2>1. Cardinality(ActiveIn(r))' = Cardinality(RoundPlan(r))'
    BY <1>1, <1>3 DEF QuorumMet
  <2>2. ASSUME NEW a \in RoundPlan(r)
        PROVE  \E c \in Cids : ActiveFor(r, a)' = {c} /\ con'[c].rev = Asg(r, a)'.rev
    <3>1. PICK c \in Cids : ActiveFor(r, a) = {c} /\ con[c].rev = Asg(r, a).rev
      BY <1>3 DEF QuorumMet
    <3>2. c \in ActiveIn(r)
      BY <3>1 DEF ActiveFor
    <3>3. QED
      BY <1>1, <1>2, <3>1, <3>2
  <2>3. QED
    BY <1>1, <1>3, <2>1, <2>2 DEF QuorumMet
<1>4. ASSUME Homogeneous(r) PROVE Homogeneous(r)'
  <2>1. ASSUME NEW c \in ActiveIn(r)
        PROVE  \E a \in Asgs : /\ BoundTo(c, r, a)' /\ con'[c].pre = round'[r].pre
                               /\ Asg(r, a)'.base.model = round'[r].base.model
                               /\ con'[c].rev = Asg(r, a)'.rev
    <3>1. PICK a \in Asgs : /\ BoundTo(c, r, a) /\ con[c].pre = round[r].pre
                            /\ Asg(r, a).base.model = round[r].base.model
                            /\ con[c].rev = Asg(r, a).rev
      BY <1>4 DEF Homogeneous
    <3>2. a \in RoundPlan(r) /\ a \in RoundPlan(r)'
      BY <1>1, <3>1 DEF BoundTo, RoundPlan
    <3>3. BoundTo(c, r, a)'
      BY <1>1, <3>1, <3>2 DEF BoundTo, RoundPlan
    <3>4. QED
      BY <1>1, <3>1, <3>2, <3>3
  <2>2. QED
    BY <1>1, <1>4, <2>1 DEF Homogeneous
<1>5. QED
  BY <1>3, <1>4

\* The checks read the three tables and nothing else.
LEMMA ChecksReadTables ==
    ASSUME UNCHANGED <<round, asg, con>>, NEW r \in Rounds
    PROVE  (QuorumMet(r) => QuorumMet(r)') /\ (Homogeneous(r) => Homogeneous(r)')
<1>1. /\ ActiveIn(r)' = ActiveIn(r) /\ RoundPlan(r)' = RoundPlan(r)
      /\ \A a \in Asgs : Asg(r, a)' = Asg(r, a)
  BY DEF ActiveIn, Received, RoundPlan, Asg
<1>2. \A a \in Asgs : ActiveFor(r, a)' = ActiveFor(r, a)
  BY <1>1 DEF ActiveFor
<1>3. \A c \in ActiveIn(r), a \in Asgs : BoundTo(c, r, a) => BoundTo(c, r, a)'
  BY <1>1 DEF BoundTo
<1>4. QuorumMet(r) => QuorumMet(r)'
  <2>1. RoundPlan(r) \subseteq Asgs
    BY DEF RoundPlan
  <2>2. Cardinality(ActiveIn(r))' = Cardinality(ActiveIn(r))
    BY <1>1
  <2>3. Cardinality(RoundPlan(r))' = Cardinality(RoundPlan(r))
    BY <1>1
  <2>4. QED
    BY <1>1, <1>2, <2>1, <2>2, <2>3 DEF QuorumMet
<1>5. Homogeneous(r) => Homogeneous(r)'
  BY <1>1, <1>3 DEF Homogeneous
<1>6. QED
  BY <1>4, <1>5

\* The checks hold through every step.
LEMMA ChecksStep ==
    ASSUME OneAdmin, TypeOK, ChecksHold, [Next]_vars
    PROVE  ChecksHold'
<1>1. CASE WorkerNext
  <2>1. UNCHANGED <<pc, arg>>
    BY <1>1, WorkerHarmless
  <2>2. \A t \in Threads : pc[t] \in PcOfRound => arg[t] \in Rounds
    BY DEF TypeOK
  <2>3. \A t \in Threads : pc[t] \in PcOfRound /\ QuorumMet(arg[t]) => QuorumMet(arg[t])'
    BY <1>1, <2>1, <2>2, WorkersKeepChecks
  <2>4. \A t \in Threads : pc[t] = "aggregate" /\ Homogeneous(arg[t]) => Homogeneous(arg[t])'
    BY <1>1, <2>1, <2>2, WorkersKeepChecks DEF PcOfRound
  <2>5. QED
    BY <2>1, <2>3, <2>4 DEF ChecksHold
<1>2. ASSUME NEW t \in Threads, AdminNext(t)
      PROVE  ChecksHold'
  <2> \A s \in Threads : s = t
    BY DEF OneAdmin
  <2>1. CASE pc'[t] \notin PcOfRound
    BY <2>1 DEF ChecksHold, PcOfRound
  <2>2. CASE pc' = pc /\ pc[t] = "idle"
    BY <2>2 DEF ChecksHold, PcOfRound
  <2>3. ASSUME NEW r \in Rounds, FedAvgQuorum(t, r)
        PROVE  ChecksHold'
    <3>1. QuorumMet(r)' /\ pc'[t] = "homogeneity" /\ arg'[t] = r
      BY <2>3 DEF FedAvgQuorum, QuorumMet, Goto, TypeOK, RoundPlan, ActiveIn, ActiveFor,
                  Received, Asg
    <3>2. QED
      BY <3>1 DEF ChecksHold
  <2>4. ASSUME NEW adapter \in Adapters, FedAvgHomogeneity(t, adapter), pc'[t] \in PcOfRound
        PROVE  ChecksHold'
    <3>1. /\ pc'[t] = "aggregate" /\ arg'[t] = arg[t] /\ UNCHANGED <<round, asg, con>>
          /\ Homogeneous(arg[t]) /\ QuorumMet(arg[t]) /\ arg[t] \in Rounds
      BY <2>4 DEF FedAvgHomogeneity, Goto, TypeOK, ChecksHold, PcOfRound
    <3>2. PICK r \in Rounds : arg[t] = r /\ arg'[t] = r
      BY <3>1
    <3>3. QuorumMet(r)' /\ Homogeneous(r)'
      BY <3>1, <3>2, ChecksReadTables
    <3>4. QED
      BY <3>1, <3>2, <3>3 DEF ChecksHold
  <2>5. ASSUME NEW step \in PcOfCid \cup {"idle"}, NEW x, Goto(t, step, x)
        PROVE  pc'[t] \notin PcOfRound
    BY <2>5 DEF Goto, TypeOK, PcOfCid, PcOfRound
  <2>6. QED
    BY <1>2, <2>1, <2>2, <2>3, <2>4, <2>5
       DEF AdminNext, CreateRound, CreateAssignment, Assign, PutAsg, Idle, ValidateCheck,
           ValidateWrite, ActivateCheck, Supersede, SetActive, FedAvgAggregate, PcOfCid
<1>3. CASE UNCHANGED vars
  <2>1. UNCHANGED <<round, asg, con, pc, arg>>
    BY <1>3 DEF vars
  <2>2. \A t \in Threads : pc[t] \in PcOfRound => arg[t] \in Rounds
    BY DEF TypeOK
  <2>3. QED
    BY <2>1, <2>2, ChecksReadTables DEF ChecksHold, PcOfRound
<1>4. QED
  BY <1>1, <1>2, <1>3 DEF Next

\* What fedavg aggregates after its checks is an exact quorum.
LEMMA AggregateExact ==
    ASSUME OneAdmin, TypeOK, ChecksHold, NEW t \in Threads, FedAvgAggregate(t),
           result' # result
    PROVE  (ExactQuorum /\ ResultStored)'
<1> DEFINE r == arg[t]
           used == ActiveIn(r)
<1>1. /\ result' = [round |-> r, plan |-> [a \in RoundPlan(r) |-> Asg(r, a)],
                    weights |-> Weights(r)]
      /\ UNCHANGED <<round, asg, con>>
  BY DEF FedAvgAggregate
<1>2. QuorumMet(r) /\ Homogeneous(r) /\ r \in Rounds
  BY DEF FedAvgAggregate, ChecksHold, TypeOK, PcOfRound
<1>3. /\ DOMAIN result'.weights = used /\ result'.round = r
      /\ DOMAIN result'.plan = RoundPlan(r)
      /\ \A a \in RoundPlan(r) : result'.plan[a] = Asg(r, a)
  BY <1>1 DEF Weights
<1>4. used \subseteq Received /\ Received' = Received
  BY <1>1 DEF ActiveIn, Received
<1>5. \A c \in used : /\ con[c].round = r /\ con[c].asg \in RoundPlan(r)
                      /\ con[c].worker = Asg(r, con[c].asg).worker
                      /\ con[c].rev = Asg(r, con[c].asg).rev
  BY <1>2 DEF Homogeneous, BoundTo, RoundPlan
<1>6. \A a \in RoundPlan(r) : \E c \in Cids : ActiveFor(r, a) = {c}
  BY <1>2 DEF QuorumMet
<1>7. \A a \in RoundPlan(r) : \E c \in used : con[c].asg = a
  BY <1>6 DEF ActiveFor
<1>8. \A c, d \in used : con[c].asg = con[d].asg => c = d
  <2> SUFFICES ASSUME NEW c \in used, NEW d \in used, con[c].asg = con[d].asg
               PROVE  c = d
    OBVIOUS
  <2>1. c \in ActiveFor(r, con[c].asg) /\ d \in ActiveFor(r, con[c].asg)
    BY <1>5 DEF ActiveFor
  <2>2. QED
    BY <1>5, <1>6, <2>1
<1>9. ExactQuorum'
  BY <1>1, <1>3, <1>5, <1>7, <1>8 DEF ExactQuorum
<1>10. ResultStored'
  BY <1>3, <1>4 DEF ResultStored
<1>11. QED
  BY <1>9, <1>10

\* A result stays exact: nothing it depends on ever changes.
LEMMA ExactQuorumStep ==
    ASSUME OneAdmin, TypeOK, ChecksHold, ExactQuorum, ResultStored, [Next]_vars
    PROVE  (ExactQuorum /\ ResultStored)'
<1>1. CASE result' = result
  <2>1. result # None =>
            \A c \in DOMAIN result.weights :
                /\ c \in Received' /\ con'[c].round = con[c].round /\ con'[c].asg = con[c].asg
                /\ con'[c].worker = con[c].worker /\ con'[c].rev = con[c].rev
    BY ContributionKept DEF ResultStored
  <2>2. QED
    BY <1>1, <2>1 DEF ExactQuorum, ResultStored
<1>2. CASE \E t \in Threads : FedAvgAggregate(t) /\ result' # result
  BY <1>2, AggregateExact
<1>3. QED
  BY <1>1, <1>2, WorkerHarmless
     DEF Next, AdminNext, vars, CreateRound, CreateAssignment, Assign, PutAsg, ValidateCheck,
         ValidateWrite, ActivateCheck, Supersede, SetActive, FedAvgQuorum, FedAvgHomogeneity

\* With one admin request at a time, every adapter fedavg returns aggregates
\* exactly one contribution per assignment, at the current revision, and
\* nothing else, whatever workers calibrate and upload meanwhile.
THEOREM FedAvgExactQuorum == ASSUME OneAdmin PROVE Spec => []ExactQuorum
<1> DEFINE Inv == ChecksHold /\ ExactQuorum /\ ResultStored
<1>1. Init => Inv
  BY DEF Init, ChecksHold, ExactQuorum, ResultStored, PcOfRound
<1>2. TypeOK /\ Inv /\ [Next]_vars => Inv'
  BY ChecksStep, ExactQuorumStep
<1>3. QED
  BY <1>1, <1>2, TypeCorrect, PTL DEF Spec
-----------------------------------------------------------------------------
\* Everything aggregated comes from the round's own baseline

\* A round's row never changes once it is made, and never goes away.
LEMMA RoundKept ==
    ASSUME TypeOK, [Next]_vars, NEW r \in Rounds, round[r] # None
    PROVE  round'[r] = round[r]
<1>1. ASSUME NEW t \in Threads, NEW q \in Rounds, NEW base \in Bases, NEW pre \in PreHashes,
             CreateRound(t, q, base, pre)
      PROVE  round'[r] = round[r]
  BY <1>1 DEF CreateRound, TypeOK
<1>2. ASSUME NEW t \in Threads, AdminNext(t)
      PROVE  round'[r] = round[r]
  BY <1>1, <1>2 DEF AdminNext, CreateAssignment, Assign, PutAsg, ValidateCheck, ValidateWrite,
         ActivateCheck, Supersede, SetActive, FedAvgQuorum, FedAvgHomogeneity, FedAvgAggregate
<1>3. QED
  BY <1>2, WorkerHarmless DEF Next, vars

\* A fedavg past its checks, and a result, are of a round that exists.
RoundsExist ==
    /\ \A t \in Threads : pc[t] = "aggregate" => round[arg[t]] # None
    /\ result # None => result.round \in Rounds /\ round[result.round] # None

\* Rounds that a fedavg or a result names go on existing.
LEMMA RoundsExistStep ==
    ASSUME OneAdmin, TypeOK, RoundsExist, [Next]_vars
    PROVE  RoundsExist'
<1> \A t \in Threads : pc[t] = "aggregate" => arg[t] \in Rounds
  BY DEF TypeOK, PcOfRound
<1>1. CASE UNCHANGED <<pc, arg, result>>
  BY <1>1, RoundKept DEF RoundsExist
<1>2. CASE WorkerNext
  BY <1>1, <1>2, WorkerHarmless
<1>3. ASSUME NEW t \in Threads, AdminNext(t)
      PROVE  RoundsExist'
  <2> \A s \in Threads : s = t
    BY DEF OneAdmin
  <2>1. ASSUME NEW step \in PcOfCid \cup {"homogeneity", "idle"}, NEW x, Goto(t, step, x), result' = result
        PROVE  RoundsExist'
    <3>1. pc'[t] # "aggregate"
      BY <2>1 DEF Goto, TypeOK, PcOfCid
    <3>2. QED
      BY <2>1, <3>1, RoundKept DEF RoundsExist
  <2>2. ASSUME NEW adapter \in Adapters, FedAvgHomogeneity(t, adapter)
        PROVE  RoundsExist'
    <3>1. CASE Goto(t, "idle", None)
      BY <2>1, <2>2, <3>1 DEF FedAvgHomogeneity
    <3>2. CASE round[arg[t]] # None /\ Goto(t, "aggregate", arg[t])
      <4>1. arg'[t] = arg[t] /\ round' = round /\ result' = result
        BY <2>2, <3>2 DEF FedAvgHomogeneity, Goto, TypeOK
      <4>2. QED
        BY <3>2, <4>1 DEF RoundsExist
    <3>3. QED
      BY <2>2, <3>1, <3>2 DEF FedAvgHomogeneity
  <2>3. CASE FedAvgAggregate(t)
    <3>1. pc[t] = "aggregate" /\ pc'[t] = "idle" /\ round' = round
      BY <2>3 DEF FedAvgAggregate, Goto, TypeOK
    <3>2. result' = result \/ result'.round = arg[t]
      BY <2>3 DEF FedAvgAggregate
    <3>3. QED
      BY <3>1, <3>2 DEF RoundsExist
  <2>4. QED
    BY <1>1, <1>3, <2>1, <2>2, <2>3
       DEF AdminNext, CreateRound, CreateAssignment, Assign, PutAsg, ValidateCheck, ValidateWrite,
           ActivateCheck, Supersede, SetActive, FedAvgQuorum, PcOfCid
<1>4. QED
  BY <1>1, <1>2, <1>3 DEF Next, vars

\* What fedavg aggregates after its checks is of one baseline.
LEMMA AggregateBaseline ==
    ASSUME OneAdmin, TypeOK, ChecksHold, NEW t \in Threads, FedAvgAggregate(t),
           result' # result
    PROVE  SameBaseline'
<1> DEFINE r == arg[t]
           used == ActiveIn(r)
<1>1. /\ result' = [round |-> r, plan |-> [a \in RoundPlan(r) |-> Asg(r, a)],
                    weights |-> Weights(r)]
      /\ UNCHANGED <<round, asg, con>>
  BY DEF FedAvgAggregate
<1>2. QuorumMet(r) /\ Homogeneous(r) /\ r \in Rounds
  BY DEF FedAvgAggregate, ChecksHold, TypeOK, PcOfRound
<1>3. /\ DOMAIN result'.weights = used /\ result'.round = r
      /\ DOMAIN result'.plan = RoundPlan(r)
      /\ \A a \in RoundPlan(r) : result'.plan[a] = Asg(r, a)
  BY <1>1 DEF Weights
<1>4. \A c \in used : /\ con[c].pre = round[r].pre
                       /\ Asg(r, con[c].asg).base.model = round[r].base.model
  BY <1>2 DEF Homogeneous, BoundTo
<1>5. \A a \in RoundPlan(r) : \E c \in used : con[c].asg = a
  <2>1. \A a \in RoundPlan(r) : \E c \in Cids : ActiveFor(r, a) = {c}
    BY <1>2 DEF QuorumMet
  <2>2. QED
    BY <2>1 DEF ActiveFor
<1>6. QED
  BY <1>1, <1>3, <1>4, <1>5 DEF SameBaseline

\* With one admin request at a time, every adapter that fedavg returns is made
\* of contributions whose adapter_pre_hash is the round's, under assignments
\* whose base_model_hash is the round's, although no operation checks plan and
\* uploads together.  It says nothing of the assignments' adapter_0_sha, which
\* fedavg does not compare.
THEOREM FedAvgSameBaseline == ASSUME OneAdmin PROVE Spec => []SameBaseline
<1> DEFINE Checked == ChecksHold /\ ExactQuorum /\ ResultStored
           Inv == Checked /\ RoundsExist /\ SameBaseline
<1>1. Init => Inv
  BY DEF Init, ChecksHold, ExactQuorum, ResultStored, PcOfRound, RoundsExist, SameBaseline
<1>2. ASSUME TypeOK, Inv, [Next]_vars
      PROVE  Inv'
  <2>1. Checked'
    BY <1>2, ChecksStep, ExactQuorumStep
  <2>2. RoundsExist'
    BY <1>2, RoundsExistStep
  <2>3. SameBaseline'
    <3>1. CASE result' = result
      <4>1. result # None => /\ \A c \in DOMAIN result.weights : con'[c].pre = con[c].pre
                             /\ round'[result.round] = round[result.round]
        BY <1>2, ContributionKept, RoundKept DEF ResultStored, RoundsExist
      <4>2. QED
        BY <1>2, <3>1, <4>1 DEF SameBaseline
    <3>2. CASE \E t \in Threads : FedAvgAggregate(t) /\ result' # result
      BY <1>2, <3>2, AggregateBaseline
    <3>3. QED
      BY <1>2, <3>1, <3>2, WorkerHarmless
         DEF Next, AdminNext, vars, CreateRound, CreateAssignment, Assign, PutAsg, ValidateCheck,
             ValidateWrite, ActivateCheck, Supersede, SetActive, FedAvgQuorum, FedAvgHomogeneity
  <2>4. QED
    BY <2>1, <2>2, <2>3
<1>3. TypeOK /\ Inv /\ [Next]_vars => Inv'
  BY <1>2
<1>4. QED
  BY <1>1, <1>3, TypeCorrect, PTL DEF Spec
-----------------------------------------------------------------------------
\* A status only moves forward

\* What a running operation has checked of its contribution still holds.
PendingHolds ==
    \A t \in Threads :
        /\ pc[t] = "validate_write" => con[arg[t]].status = "RECEIVED"
        /\ pc[t] \in {"supersede", "set_active"} => con[arg[t]].status = "VALIDATED"

StatusForward == \A c \in Cids : Rank(c) <= Rank(c)'

\* Ranks, written out for a row whose status is known.
LEMMA Ranks ==
    ASSUME NEW c \in Cids
    PROVE  /\ con[c] = None => Rank(c) = 0
           /\ con[c] # None /\ con[c].status = "RECEIVED" => Rank(c) = 1
           /\ con[c] # None /\ con[c].status = "VALIDATED" => Rank(c) = 2
           /\ con[c] # None /\ con[c].status = "ACTIVE" => Rank(c) = 3
           /\ con[c] # None /\ con[c].status = "SUPERSEDED" => Rank(c) = 4
BY DEF Rank

\* The same after a step.
LEMMA RanksAfter ==
    ASSUME NEW c \in Cids
    PROVE  /\ con'[c] # None /\ con'[c].status = "VALIDATED" => Rank(c)' = 2
           /\ con'[c] # None /\ con'[c].status = "ACTIVE" => Rank(c)' = 3
           /\ con'[c] # None /\ con'[c].status = "SUPERSEDED" => Rank(c)' = 4
BY DEF Rank

\* A typed contribution has one of the five ranks.
LEMMA RankType ==
    ASSUME NEW c \in Cids
    PROVE  /\ TypeOK => Rank(c) \in 0..4
           /\ TypeOK' => Rank(c)' \in 0..4
<1>1. TypeOK => Rank(c) \in 0..4
  <2>1. TypeOK /\ con[c] # None => con[c].status \in ConStatus
    BY DEF TypeOK, ConRow
  <2>2. QED
    BY <2>1, Ranks DEF ConStatus
<1>2. TypeOK' => Rank(c)' \in 0..4
  <2>1. TypeOK' /\ con'[c] # None => con'[c].status \in ConStatus
    BY DEF TypeOK, ConRow
  <2>2. QED
    BY <2>1 DEF ConStatus, Rank
<1>3. QED
  BY <1>1, <1>2

\* With one admin request at a time, what an operation has checked of its
\* contribution holds until it writes, and its writes move statuses forward.
LEMMA StatusStep ==
    ASSUME OneAdmin, TypeOK, PendingHolds, [Next]_vars
    PROVE  PendingHolds' /\ StatusForward
<1> TypeOK'
  BY TypeStep
<1>1. ASSUME UNCHANGED con
      PROVE  StatusForward
  <2>1. \A c \in Cids : Rank(c)' = Rank(c)
    BY <1>1 DEF Rank
  <2>2. QED
    BY <2>1, RankType DEF StatusForward
<1>2. \A t \in Threads : pc[t] \in PcOfCid => arg[t] \in Received /\ arg[t] \in Cids
  BY DEF TypeOK, Received
<1>3. CASE UNCHANGED <<con, pc, arg>>
  BY <1>1, <1>3 DEF PendingHolds
<1>4. CASE WorkerNext
  <2>1. UNCHANGED <<pc, arg>> /\ \A c \in Received : con'[c] = con[c]
    BY <1>4, WorkerHarmless
  <2>2. PendingHolds'
    BY <1>2, <2>1 DEF PendingHolds, PcOfCid
  <2>3. \A c \in Received : Rank(c)' = Rank(c)
    BY <2>1 DEF Rank
  <2>4. \A c \in Cids \ Received : Rank(c) = 0
    BY Ranks DEF Received
  <2>5. \A c \in Cids : Rank(c) \in Nat /\ Rank(c)' \in Nat
    BY RankType
  <2>6. QED
    BY <2>2, <2>3, <2>4, <2>5 DEF StatusForward
<1>5. ASSUME NEW t \in Threads, AdminNext(t)
      PROVE  PendingHolds' /\ StatusForward
  <2> \A s \in Threads : s = t
    BY DEF OneAdmin
  <2>1. ASSUME NEW step \in PcOfRound \cup {"idle"}, NEW x, Goto(t, step, x)
        PROVE  PendingHolds'
    BY <2>1 DEF Goto, TypeOK, PcOfRound, PendingHolds
  <2>2. ASSUME NEW c \in Cids, ValidateCheck(t, c) \/ ActivateCheck(t, c)
        PROVE  PendingHolds' /\ StatusForward
    BY <1>1, <2>2 DEF ValidateCheck, ActivateCheck, Goto, TypeOK, PendingHolds
  <2>3. ASSUME NEW c \in Cids, c = arg[t], c \in Received, NEW s \in ConStatus, SetConStatus(c, s)
        PROVE  /\ con'[c] # None /\ con'[c].status = s
               /\ \A d \in Cids : d # c => Rank(d)' = Rank(d)
    <3>1. con' = [con EXCEPT ![c] = [con[c] EXCEPT !.status = s]]
      BY <2>3 DEF SetConStatus, TypeOK
    <3>2. [con[c] EXCEPT !.status = s] \in ConRow /\ [con[c] EXCEPT !.status = s].status = s
      BY <2>3, StatusType DEF TypeOK, Received, ConRow
    <3>3. QED
      BY <3>1, <3>2, CoordinatorAssumption DEF TypeOK, Rank
  <2>4. CASE ValidateWrite(t)
    <3>1. Rank(arg[t]) = 1 /\ arg[t] \in Cids /\ arg[t] \in Received
      BY <1>2, <2>4, Ranks DEF ValidateWrite, PendingHolds, PcOfCid, Received
    <3>2. /\ con'[arg[t]] # None /\ con'[arg[t]].status = "VALIDATED"
          /\ \A d \in Cids : d # arg[t] => Rank(d)' = Rank(d)
      BY <2>3, <2>4, <3>1 DEF ValidateWrite, ConStatus
    <3>3. \A c \in Cids : c = arg[t] => Rank(c)' = 2
      BY <3>2, RanksAfter
    <3>4. StatusForward
      BY <3>1, <3>2, <3>3, RankType DEF StatusForward
    <3>5. QED
      BY <2>1, <2>4, <3>4 DEF ValidateWrite
  <2>5. CASE SetActive(t)
    <3>1. Rank(arg[t]) = 2 /\ arg[t] \in Cids /\ arg[t] \in Received
      BY <1>2, <2>5, Ranks DEF SetActive, PendingHolds, PcOfCid, Received
    <3>2. /\ con'[arg[t]] # None /\ con'[arg[t]].status = "ACTIVE"
          /\ \A d \in Cids : d # arg[t] => Rank(d)' = Rank(d)
      BY <2>3, <2>5, <3>1 DEF SetActive, ConStatus
    <3>3. \A c \in Cids : c = arg[t] => Rank(c)' = 3
      BY <3>2, RanksAfter
    <3>4. StatusForward
      BY <3>1, <3>2, <3>3, RankType DEF StatusForward
    <3>5. QED
      BY <2>1, <2>5, <3>4 DEF SetActive
  <2>6. CASE Supersede(t)
    <3>1. arg[t] \in Cids /\ con[arg[t]].status = "VALIDATED"
      BY <1>2, <2>6 DEF Supersede, PendingHolds, PcOfCid
    <3>2. \A c \in Cids : con'[c] = IF c \in Displaced(arg[t])
                                    THEN [con[c] EXCEPT !.status = "SUPERSEDED"] ELSE con[c]
      BY <2>6 DEF Supersede
    <3>3. con'[arg[t]] = con[arg[t]]
      BY <3>1, <3>2 DEF Displaced
    <3>4. PendingHolds'
      BY <2>6, <3>1, <3>3 DEF Supersede, Goto, TypeOK, PendingHolds
    <3>5. ASSUME NEW c \in Cids, c \in Displaced(arg[t])
          PROVE  Rank(c) <= Rank(c)'
      <4>1. Rank(c) = 3
        BY <3>5, Ranks DEF Displaced, Received
      <4>2. con[c] \in ConRow
        BY <3>5 DEF Displaced, Received, TypeOK
      <4>3. con'[c] # None /\ con'[c].status = "SUPERSEDED"
        <5>1. [con[c] EXCEPT !.status = "SUPERSEDED"] \in ConRow
          BY <4>2 DEF ConRow, ConStatus
        <5>2. QED
          BY <3>2, <3>5, <4>2, <5>1, CoordinatorAssumption DEF ConRow
      <4>4. Rank(c)' = 4
        BY <4>3, RanksAfter
      <4>5. QED
        BY <4>1, <4>4
    <3>6. ASSUME NEW c \in Cids, c \notin Displaced(arg[t])
          PROVE  Rank(c) <= Rank(c)'
      <4>1. Rank(c)' = Rank(c)
        BY <3>2, <3>6 DEF Rank
      <4>2. QED
        BY <4>1, RankType
    <3>7. QED
      BY <3>4, <3>5, <3>6 DEF StatusForward
  <2>7. ASSUME NEW r \in Rounds, FedAvgQuorum(t, r)
        PROVE  PendingHolds' /\ StatusForward
    BY <1>1, <2>1, <2>7 DEF FedAvgQuorum, PcOfRound
  <2>8. ASSUME NEW adapter \in Adapters, FedAvgHomogeneity(t, adapter)
        PROVE  PendingHolds' /\ StatusForward
    BY <1>1, <2>1, <2>8 DEF FedAvgHomogeneity, PcOfRound
  <2>9. CASE FedAvgAggregate(t)
    BY <1>1, <2>1, <2>9 DEF FedAvgAggregate
  <2>10. QED
    BY <1>3, <1>5, <2>2, <2>4, <2>5, <2>6, <2>7, <2>8, <2>9
       DEF AdminNext, CreateRound, CreateAssignment, Assign, PutAsg
<1>6. QED
  BY <1>3, <1>4, <1>5 DEF Next, vars

\* With one admin request at a time a contribution's status only advances: one
\* that was displaced never counts again.
THEOREM StatusOnlyAdvances == ASSUME OneAdmin PROVE Spec => StatusAdvances
<1>1. Init => PendingHolds
  BY DEF Init, PendingHolds
<1>2. TypeOK /\ PendingHolds /\ [Next]_vars => PendingHolds' /\ [StatusForward]_vars
  BY StatusStep
<1>3. [StatusForward]_vars => [\A c \in Cids : Rank(c) <= Rank(c)']_vars
  BY DEF StatusForward
<1>4. QED
  BY <1>1, <1>2, <1>3, TypeCorrect, PTL DEF Spec, StatusAdvances
-----------------------------------------------------------------------------
\* Weights

\* A contribution that has passed its validation, or is about to.
Passed(c) == con[c].status # "RECEIVED" \/ \E t \in Threads : pc[t] \in PcOfCid /\ arg[t] = c

Worked(c) == Asg(con[c].round, con[c].asg) # None /\ Weight(c) \in {con[c].ett, 0}

\* Every contribution that has passed is weighted by its work.
PassedWorked == \A c \in Received : Passed(c) => Worked(c)

\* An assignment stays, and what it expects of its worker changes to 0 only.
LEMMA ExpectationKept ==
    ASSUME TypeOK, [Next]_vars, NEW r \in Rounds, NEW a \in Asgs, Asg(r, a) # None
    PROVE  /\ Asg(r, a)' # None
           /\ \/ Asg(r, a)'.expected = 0
              \/ Asg(r, a)'.expected = Asg(r, a).expected /\ Asg(r, a)'.worker = Asg(r, a).worker
<1> USE DEF Asg
<1> TypeOK'
  BY TypeStep
<1>1. Asg(r, a) \in AsgRow
  BY DEF TypeOK
<1>2. ASSUME NEW t \in Threads, NEW q \in Rounds, NEW b \in Asgs, NEW w \in Workers,
             NEW base \in Bases, NEW e \in Etts, NEW rev \in Revisions,
             Assign(t, q, b, w, base, e, rev)
      PROVE  \/ asg'[<<r, a>>] = asg[<<r, a>>]
             \/ asg'[<<r, a>>] # None /\ asg'[<<r, a>>].expected = 0
  <2> DEFINE row == [worker |-> w, base |-> base, expected |-> 0, registered |-> e, rev |-> rev]
  <2>1. row \in AsgRow /\ row.expected = 0
    BY CoordinatorAssumption DEF AsgRow
  <2>2. <<r, a>> \in DOMAIN asg /\ asg' = [asg EXCEPT ![<<q, b>>] = row]
    BY <1>2 DEF Assign, PutAsg, TypeOK
  <2>3. row # None
    BY <2>1, CoordinatorAssumption
  <2> HIDE DEF row
  <2>4. asg'[<<r, a>>] = asg[<<r, a>>] \/ asg'[<<r, a>>] = row
    BY <2>2
  <2>5. QED
    BY <2>1, <2>3, <2>4
<1>3. ASSUME NEW t \in Threads, NEW q \in Rounds, NEW b \in Asgs, NEW w \in Workers,
             NEW base \in Bases, NEW e \in Etts, CreateAssignment(t, q, b, w, base, e)
      PROVE  asg'[<<r, a>>] = asg[<<r, a>>]
  BY <1>3 DEF CreateAssignment, PutAsg, TypeOK
<1>4. ASSUME NEW q \in Rounds, NEW b \in Asgs, NEW base \in Bases, NEW e \in Etts,
             Calibrate(q, b, base, e)
      PROVE  \/ asg'[<<r, a>>] = asg[<<r, a>>]
             \/ /\ asg'[<<r, a>>] # None /\ asg'[<<r, a>>].expected = asg[<<r, a>>].expected
                /\ asg'[<<r, a>>].worker = asg[<<r, a>>].worker
  <2>1. [asg[<<q, b>>] EXCEPT !.registered = e] \in AsgRow
    <3>1. asg[<<q, b>>] \in AsgRow
      BY <1>4 DEF Calibrate, TypeOK
    <3>2. QED
      BY <3>1 DEF AsgRow
  <2>2. asg' = [asg EXCEPT ![<<q, b>>] = [asg[<<q, b>>] EXCEPT !.registered = e]]
    BY <1>4 DEF Calibrate, TypeOK
  <2>3. QED
    BY <1>1, <2>1, <2>2, CoordinatorAssumption DEF TypeOK, AsgRow
<1>5. CASE UNCHANGED asg
  BY <1>5
<1>6. \A t \in Threads : AdminNext(t)
        => \/ UNCHANGED asg
           \/ \E q \in Rounds, b \in Asgs, w \in Workers, base \in Bases, e \in Etts :
                  \/ CreateAssignment(t, q, b, w, base, e)
                  \/ \E rev \in Revisions : Assign(t, q, b, w, base, e, rev)
  BY DEF AdminNext, CreateRound, ValidateCheck, ValidateWrite, ActivateCheck, Supersede,
         SetActive, FedAvgQuorum, FedAvgHomogeneity, FedAvgAggregate
<1>7. WorkerNext => \/ UNCHANGED asg
                    \/ \E q \in Rounds, b \in Asgs, base \in Bases, e \in Etts :
                           Calibrate(q, b, base, e)
  BY DEF WorkerNext, Register
<1>8. QED
  BY <1>2, <1>3, <1>4, <1>5, <1>6, <1>7 DEF Next, vars

\* The weight of a stored contribution that is its work stays so.
LEMMA WorkedKept ==
    ASSUME TypeOK, [Next]_vars, NEW c \in Received, Worked(c)
    PROVE  Worked(c)'
<1>1. /\ con'[c].round = con[c].round /\ con'[c].asg = con[c].asg
      /\ con'[c].worker = con[c].worker /\ con'[c].ett = con[c].ett
  BY ContributionKept
<1>2. con[c].round \in Rounds /\ con[c].asg \in Asgs
  BY DEF Received, TypeOK, ConRow
<1> DEFINE row == Asg(con[c].round, con[c].asg)
<1>3. row # None
  BY DEF Worked
<1>4. /\ row' # None
      /\ row'.expected = 0 \/ (row'.expected = row.expected /\ row'.worker = row.worker)
  BY <1>1, <1>2, <1>3, ExpectationKept DEF Asg
<1>5. Weight(c) = IF row.worker = con[c].worker THEN row.expected ELSE con[c].ett
  BY <1>3 DEF Weight
<1>6. Weight(c)' = IF row'.worker = con[c].worker THEN row'.expected ELSE con[c].ett
  BY <1>1, <1>4 DEF Weight
<1>7. QED
  BY <1>1, <1>4, <1>5, <1>6 DEF Worked

\* A contribution passes only when the check of validate has found its ETT to
\* be the assignment's.
LEMMA PassedStep ==
    ASSUME TypeOK, PassedWorked, [Next]_vars
    PROVE  PassedWorked'
<1> SUFFICES ASSUME NEW c \in Received', Passed(c)' PROVE Worked(c)'
  BY DEF PassedWorked
<1> TypeOK'
  BY TypeStep
<1>1. CASE c \in Received /\ Passed(c)
  BY <1>1, WorkedKept DEF PassedWorked
<1>2. ASSUME NEW t \in Threads, NEW d \in Cids, ValidateCheck(t, d)
      PROVE  Worked(d) /\ UNCHANGED con
  <2>1. PICK r \in Rounds, a \in Asgs : /\ BoundTo(d, r, a) /\ con[d].ett = Asg(r, a).expected
    BY <1>2 DEF ValidateCheck, IsValid
  <2>2. QED
    BY <1>2, <2>1 DEF ValidateCheck, BoundTo, Worked, Weight
<1>3. ASSUME NEW t \in Threads, NEW step, NEW x, Goto(t, step, x),
             UNCHANGED con, ~Passed(c), c \in Received
      PROVE  x = c /\ step \in PcOfCid
  BY <1>3 DEF Passed, Goto, TypeOK
<1>4. ASSUME NEW t \in Threads, NEW s \in ConStatus, pc[t] \in PcOfCid,
             SetConStatus(arg[t], s), Goto(t, "idle", None), ~Passed(c), c \in Received
      PROVE  FALSE
  <2>1. arg[t] \in Cids /\ c # arg[t]
    BY <1>4 DEF TypeOK, Received, Passed
  <2>2. con'[c] = con[c]
    BY <1>4, <2>1 DEF SetConStatus
  <2>3. \A u \in Threads : pc'[u] \in PcOfCid => pc'[u] = pc[u] /\ arg'[u] = arg[u]
    BY <1>4 DEF Goto, TypeOK, PcOfCid
  <2>4. QED
    BY <1>4, <2>2, <2>3 DEF Passed
<1>5. ASSUME NEW t \in Threads, Supersede(t), ~Passed(c), c \in Received
      PROVE  FALSE
  <2>1. c \notin Displaced(arg[t]) /\ c \in Cids
    BY <1>5 DEF Displaced, Passed, Received
  <2>2. con'[c] = con[c]
    BY <1>5, <2>1 DEF Supersede
  <2>3. \A u \in Threads : pc'[u] \in PcOfCid => pc[u] \in PcOfCid /\ arg'[u] = arg[u]
    BY <1>5 DEF Supersede, Goto, TypeOK, PcOfCid
  <2>4. QED
    BY <1>5, <2>2, <2>3 DEF Passed
<1>6. CASE c \notin Received
  <2>1. \A t \in Threads : pc[t] \in PcOfCid => arg[t] \in Received
    BY DEF TypeOK
  <2>2. CASE WorkerNext
    <3>1. CASE \E r \in Rounds, a \in Asgs, e \in Etts, base \in Bases : Calibrate(r, a, base, e)
      BY <1>6, <3>1 DEF Calibrate, Received
    <3>2. ASSUME NEW d \in Cids, NEW r \in Rounds, NEW a \in Asgs, NEW e \in Etts,
                 NEW pre \in PreHashes, Register(d, r, a, e, pre)
          PROVE  FALSE
      <4>1. c = d /\ con'[c].status = "RECEIVED" /\ UNCHANGED <<pc, arg>>
        BY <1>6, <3>2 DEF Register, Received, TypeOK
      <4>2. QED
        BY <1>6, <2>1, <4>1 DEF Passed
    <3>3. QED
      BY <2>2, <3>1, <3>2 DEF WorkerNext
  <2>3. ASSUME NEW t \in Threads, AdminNext(t)
        PROVE  FALSE
    <3>1. Received' = Received
      <4>1. ASSUME NEW s \in ConStatus, pc[t] \in PcOfCid, SetConStatus(arg[t], s)
            PROVE  Received' = Received
        <5>1. arg[t] \in Received
          BY <4>1 DEF TypeOK
        <5>2. [con[arg[t]] EXCEPT !.status = s] \in ConRow
          BY <5>1, StatusType DEF TypeOK
        <5>3. QED
          BY <4>1, <5>1, <5>2, CoordinatorAssumption DEF SetConStatus, Received, TypeOK
      <4>2. CASE Supersede(t)
        <5>1. \A d \in Cids : con[d] # None => [con[d] EXCEPT !.status = "SUPERSEDED"] \in ConRow
          BY StatusType DEF TypeOK, Received, ConStatus
        <5>2. QED
          BY <4>2, <5>1, CoordinatorAssumption DEF Supersede, Displaced, TypeOK, Received
      <4>3. CASE ValidateWrite(t) \/ SetActive(t)
        BY <4>1, <4>3 DEF ValidateWrite, SetActive, PcOfCid, ConStatus
      <4>4. QED
        BY <2>3, <4>2, <4>3 DEF AdminNext, CreateRound, CreateAssignment, Assign, PutAsg,
           ValidateCheck, ActivateCheck, FedAvgQuorum, FedAvgHomogeneity, FedAvgAggregate, Received
    <3>2. QED
      BY <1>6, <3>1
  <2>4. QED
    BY <1>6, <2>2, <2>3 DEF Next, vars, Received
<1>7. CASE c \in Received /\ ~Passed(c)
  <2>1. CASE UNCHANGED <<con, pc, arg>>
    BY <1>7, <2>1 DEF Passed
  <2>2. ASSUME WorkerNext PROVE FALSE
    BY <1>7, <2>2, WorkerHarmless DEF Passed
  <2>3. ASSUME NEW t \in Threads, AdminNext(t)
        PROVE  Worked(c)'
    <3>1. ASSUME NEW d \in Cids, ValidateCheck(t, d)
          PROVE  Worked(c)'
      BY <1>2, <1>3, <1>7, <3>1, WorkedKept DEF ValidateCheck
    <3>2. ASSUME NEW d \in Cids, ActivateCheck(t, d)
          PROVE  FALSE
      BY <1>3, <1>7, <3>2 DEF ActivateCheck, Passed
    <3>3. ASSUME UNCHANGED con, NEW step \in PcOfRound \cup {"idle"}, NEW x, Goto(t, step, x)
          PROVE  FALSE
      BY <1>3, <1>7, <3>3 DEF PcOfCid, PcOfRound
    <3>4. ASSUME ValidateWrite(t) \/ SetActive(t)
          PROVE  FALSE
      BY <1>4, <1>7, <3>4 DEF ValidateWrite, SetActive, PcOfCid, ConStatus
    <3>5. ASSUME NEW adapter \in Adapters, FedAvgHomogeneity(t, adapter)
          PROVE  FALSE
      BY <3>3, <3>5 DEF FedAvgHomogeneity, PcOfRound
    <3>6. ASSUME NEW r \in Rounds, FedAvgQuorum(t, r)
          PROVE  FALSE
      BY <3>3, <3>6 DEF FedAvgQuorum, PcOfRound
    <3>7. ASSUME FedAvgAggregate(t)
          PROVE  FALSE
      BY <3>3, <3>7 DEF FedAvgAggregate
    <3>8. QED
      BY <1>5, <1>7, <2>1, <2>3, <3>1, <3>2, <3>4, <3>5, <3>6, <3>7
         DEF AdminNext, CreateRound, CreateAssignment, Assign, PutAsg
  <2>4. QED
    BY <2>1, <2>2, <2>3 DEF Next, vars
<1>8. QED
  BY <1>1, <1>6, <1>7

\* However many admin requests run at once, a contribution is averaged with
\* the tokens its worker reported, or with 0 when its assignment was replaced:
\* with no other weight.
THEOREM WeightsAreWork == Spec => []WeightIsWork
<1> DEFINE Inv == PassedWorked /\ ResultStored /\ WeightIsWork
<1>1. Init => Inv
  BY DEF Init, PassedWorked, ResultStored, WeightIsWork, Received
<1>2. ASSUME TypeOK, Inv, [Next]_vars
      PROVE  Inv'
  <2>1. PassedWorked'
    BY <1>2, PassedStep
  <2>2. CASE result' = result
    <3>1. result # None => \A c \in DOMAIN result.weights : /\ c \in Received'
                                                            /\ con'[c].ett = con[c].ett
      BY <1>2, ContributionKept DEF ResultStored
    <3>2. QED
      BY <1>2, <2>1, <2>2, <3>1 DEF ResultStored, WeightIsWork
  <2>3. ASSUME NEW t \in Threads, FedAvgAggregate(t), result' # result
        PROVE  Inv'
    <3>1. /\ result'.weights = Weights(arg[t]) /\ con' = con
      BY <2>3 DEF FedAvgAggregate
    <3>2. \A c \in ActiveIn(arg[t]) : c \in Received /\ Weight(c) \in {con[c].ett, 0}
      BY <1>2 DEF ActiveIn, PassedWorked, Passed, Worked
    <3>3. QED
      BY <2>1, <3>1, <3>2 DEF Weights, ResultStored, WeightIsWork, Received
  <2>4. QED
    BY <1>2, <2>2, <2>3, WorkerHarmless
       DEF Next, AdminNext, vars, CreateRound, CreateAssignment, Assign, PutAsg, ValidateCheck,
           ValidateWrite, ActivateCheck, Supersede, SetActive, FedAvgQuorum, FedAvgHomogeneity
<1>3. TypeOK /\ Inv /\ [Next]_vars => Inv'
  BY <1>2
<1>4. QED
  BY <1>1, <1>3, TypeCorrect, PTL DEF Spec
-----------------------------------------------------------------------------
\* The coordinator implements RoundAverage

Used(s) == {<<SlotOf(c), c>> : c \in s}
Plan == {<<x[1], x[2], asg[x].worker>> : x \in Planned}
Chosen == Used(Active)
Spent == {c \in Received : con[c].status = "SUPERSEDED"}
Averages == IF result = None THEN {} ELSE {<<result.round, Used(DOMAIN result.weights)>>}
Slots == Rounds \X Asgs \X Workers

\* The slot of a stored contribution is one, and never changes.
LEMMA SlotKept ==
    ASSUME TypeOK, [Next]_vars, NEW c \in Received
    PROVE  SlotOf(c) \in Slots /\ SlotOf(c)' = SlotOf(c)
<1>1. con[c] \in ConRow
  BY DEF Received, TypeOK
<1>2. QED
  BY <1>1, ContributionKept DEF SlotOf, Slots, ConRow

\* So the pairs of stored contributions do not change either.
LEMMA UsedKept ==
    ASSUME TypeOK, [Next]_vars, NEW s \in SUBSET Received
    PROVE  Used(s)' = Used(s)
BY SlotKept DEF Used

\* The slots and the contributions of the pairs made of s.
LEMMA UsedProjections ==
    ASSUME NEW s
    PROVE  /\ \A x : x \in {p[1] : p \in Used(s)} <=> \E c \in s : x = SlotOf(c)
           /\ {p[2] : p \in Used(s)} = s
<1>1. \A p \in Used(s) : \E c \in s : p = <<SlotOf(c), c>>
  BY DEF Used
<1>2. \A c \in s : <<SlotOf(c), c>> \in Used(s)
  BY DEF Used
<1> HIDE DEF Used
<1>3. \A c \in s : /\ \E p \in Used(s) : p[1] = SlotOf(c)
                   /\ \E p \in Used(s) : p[2] = c
  BY <1>2
<1>4. \A p \in Used(s) : \E c \in s : p[1] = SlotOf(c) /\ p[2] = c
  BY <1>1
<1>5. QED
  BY <1>3, <1>4

\* Setting a status changes that one row.
LEMMA SetStatusEffect ==
    ASSUME TypeOK, NEW c \in Received, NEW s \in ConStatus, SetConStatus(c, s)
    PROVE  /\ con'[c] # None /\ con'[c].status = s
           /\ \A d \in Cids : d # c => con'[d] = con[d]
<1>1. con' = [con EXCEPT ![c] = [con[c] EXCEPT !.status = s]]
  BY DEF SetConStatus, TypeOK
<1>2. [con[c] EXCEPT !.status = s] \in ConRow /\ [con[c] EXCEPT !.status = s].status = s
  BY StatusType DEF TypeOK, Received, ConRow
<1>3. QED
  BY <1>1, <1>2, CoordinatorAssumption DEF TypeOK, Received

\* Workers' requests neither plan nor withdraw nor choose.
LEMMA WorkerCounts ==
    ASSUME TypeOK, WorkerNext
    PROVE  Plan' = Plan /\ Chosen' = Chosen /\ Spent' = Spent /\ result' = result
<1>1. [Next]_vars
  BY DEF Next
<1>2. /\ result' = result /\ Planned' = Planned
      /\ \A x \in Planned : asg'[x].worker = asg[x].worker
  <2>1. \A r \in Rounds, a \in Asgs :
            /\ a \in RoundPlan(r)' <=> a \in RoundPlan(r)
            /\ a \in RoundPlan(r) => Asg(r, a)'.worker = Asg(r, a).worker
    BY WorkerHarmless
  <2>2. \A r \in Rounds, a \in Asgs :
            /\ <<r, a>> \in Planned' <=> <<r, a>> \in Planned
            /\ <<r, a>> \in Planned => asg'[<<r, a>>].worker = asg[<<r, a>>].worker
    BY <2>1 DEF Planned, RoundPlan, Asg
  <2>3. QED
    BY <2>2, WorkerHarmless DEF Planned
<1>3. Active' = Active /\ Spent' = Spent
  <2>1. CASE UNCHANGED con
    BY <2>1 DEF Active, Spent, Received
  <2>2. ASSUME NEW c \in Cids, NEW r \in Rounds, NEW a \in Asgs, NEW e \in Etts,
               NEW pre \in PreHashes, Register(c, r, a, e, pre)
        PROVE  Active' = Active /\ Spent' = Spent
    <3>1. /\ c \notin Received /\ con'[c].status = "RECEIVED"
          /\ \A d \in Cids : d # c => con'[d] = con[d]
      BY <2>2 DEF Register, TypeOK, Received
    <3>2. QED
      BY <3>1 DEF Active, Spent, Received
  <2>3. QED
    BY <2>1, <2>2 DEF WorkerNext, Calibrate
<1>4. Chosen' = Chosen
  <2>1. Used(Active)' = Used(Active)
    BY <1>1, <1>3, UsedKept DEF Used, Active
  <2>2. QED
    BY <2>1 DEF Chosen
<1>5. QED
  BY <1>2, <1>3, <1>4 DEF Plan

\* The first UPDATE of an activation withdraws what it displaces.
LEMMA SupersedeWithdraws ==
    ASSUME TypeOK, NEW t \in Threads, Supersede(t)
    PROVE  \E lost \in SUBSET Chosen : /\ Chosen' = Chosen \ lost
                                       /\ Spent' = Spent \cup {p[2] : p \in lost}
<1> DEFINE gone == Displaced(arg[t])
<1>1. [Next]_vars
  BY DEF Next, AdminNext
<1>2. gone \subseteq Active
  BY DEF Displaced, Active
<1>3. \A c \in Cids : /\ c \in gone => con'[c] # None /\ con'[c].status = "SUPERSEDED"
                      /\ c \notin gone => con'[c] = con[c]
  <2>1. \A c \in gone : con[c] \in ConRow
    BY <1>2 DEF Active, Received, TypeOK
  <2>2. \A c \in gone : /\ [con[c] EXCEPT !.status = "SUPERSEDED"] \in ConRow
                        /\ [con[c] EXCEPT !.status = "SUPERSEDED"].status = "SUPERSEDED"
    BY <2>1 DEF ConRow, ConStatus
  <2>3. QED
    BY <2>2, CoordinatorAssumption DEF Supersede
<1> HIDE DEF gone
<1>4. Active' = Active \ gone /\ Spent' = Spent \cup gone
  BY <1>2, <1>3 DEF Active, Spent, Received
<1>5. Chosen' = Used(Active \ gone)
  <2>1. Active \ gone \in SUBSET Received
    BY DEF Active
  <2>2. \A c \in Active \ gone : SlotOf(c)' = SlotOf(c)
    BY <1>1, <2>1, SlotKept
  <2>3. QED
    BY <1>4, <2>2 DEF Chosen, Used
<1>6. Chosen' = Chosen \ Used(gone) /\ Used(gone) \in SUBSET Chosen
  BY <1>2, <1>5 DEF Chosen, Used
<1>7. Spent' = Spent \cup {p[2] : p \in Used(gone)}
  BY <1>4, UsedProjections
<1>8. QED
  BY <1>6, <1>7

\* The second makes the contribution count for a slot that is free by then.
LEMMA SetActiveChooses ==
    ASSUME TypeOK, RivalsDisplaced, PendingHolds, NEW t \in Threads, SetActive(t)
    PROVE  \E s \in Slots, c \in Cids :
              /\ c \notin Spent /\ \A p \in Chosen : p[2] # c /\ p[1] # s
              /\ Chosen' = Chosen \cup {<<s, c>>} /\ Spent' = Spent
<1> DEFINE c == arg[t]
<1>1. [Next]_vars
  BY DEF Next, AdminNext
<1>2. c \in Received /\ c \in Cids /\ con[c].status = "VALIDATED" /\ Displaced(c) = {}
  BY DEF SetActive, TypeOK, PcOfCid, Received, PendingHolds, RivalsDisplaced
<1>3. SetConStatus(c, "ACTIVE")
  BY DEF SetActive
<1> HIDE DEF c
<1>4. /\ con'[c] # None /\ con'[c].status = "ACTIVE"
      /\ \A d \in Cids : d # c => con'[d] = con[d]
  BY <1>2, <1>3, SetStatusEffect DEF ConStatus
<1>5. Active' = Active \cup {c} /\ Spent' = Spent
  BY <1>2, <1>4 DEF Active, Spent, Received
<1>6. Chosen' = Used(Active \cup {c})
  <2>1. \A d \in Active \cup {c} : SlotOf(d)' = SlotOf(d)
    BY <1>1, <1>2, SlotKept DEF Active
  <2>2. QED
    BY <1>5, <2>1 DEF Chosen, Used
<1>7. Chosen' = Chosen \cup {<<SlotOf(c), c>>}
  BY <1>6 DEF Chosen, Used
<1>8. c \notin Spent /\ \A p \in Chosen : p[2] # c /\ p[1] # SlotOf(c)
  <2>1. \A d \in Active : d # c /\ SlotOf(d) # SlotOf(c)
    BY <1>2 DEF Active, Displaced, SlotOf
  <2>2. QED
    BY <1>2, <2>1 DEF Chosen, Used, Spent
<1>9. SlotOf(c) \in Slots
  BY <1>1, <1>2, SlotKept
<1>10. QED
  BY <1>2, <1>5, <1>7, <1>8, <1>9

\* fedavg averages all that counts for its round, which is what the plan of
\* the round asks for.
LEMMA AggregateAverages ==
    ASSUME OneAdmin, TypeOK, ChecksHold, NEW t \in Threads, FedAvgAggregate(t), result' # result
    PROVE  \E r \in Rounds :
              /\ \E s \in Plan : s[1] = r
              /\ {s \in Plan : s[1] = r} = {p[1] : p \in {q \in Chosen : q[1][1] = r}}
              /\ Averages' = {<<r, {q \in Chosen : q[1][1] = r}>>}
<1>1. PICK r \in Rounds : r = arg[t]
  BY DEF FedAvgAggregate, TypeOK, PcOfRound
<1>2. QuorumMet(r) /\ Homogeneous(r)
  BY <1>1 DEF FedAvgAggregate, ChecksHold, PcOfRound
<1>3. /\ result' = [round |-> r, plan |-> [a \in RoundPlan(r) |-> Asg(r, a)],
                    weights |-> Weights(r)]
      /\ UNCHANGED <<round, asg, con>>
  BY <1>1 DEF FedAvgAggregate
<1>4. {q \in Chosen : q[1][1] = r} = Used(ActiveIn(r))
  BY DEF Chosen, Used, ActiveIn, Active, SlotOf
<1>5. \A c \in ActiveIn(r) : SlotOf(c) \in Plan /\ SlotOf(c)[1] = r
  <2> TAKE c \in ActiveIn(r)
  <2>1. PICK a \in Asgs : BoundTo(c, r, a)
    BY <1>2 DEF Homogeneous
  <2>2. <<r, a>> \in Planned /\ SlotOf(c) = <<r, a, asg[<<r, a>>].worker>>
    BY <2>1 DEF BoundTo, Asg, Planned, SlotOf
  <2>3. QED
    BY <2>2 DEF Plan
<1>6. \A s \in Plan : s[1] = r => \E c \in ActiveIn(r) : s = SlotOf(c)
  <2> SUFFICES ASSUME NEW s \in Plan, s[1] = r
               PROVE  \E c \in ActiveIn(r) : s = SlotOf(c)
    OBVIOUS
  <2>1. PICK a \in Asgs : asg[<<r, a>>] # None /\ s = <<r, a, asg[<<r, a>>].worker>>
    BY DEF Plan, Planned
  <2>2. a \in RoundPlan(r)
    BY <2>1 DEF RoundPlan, Asg
  <2>3. PICK c \in Cids : ActiveFor(r, a) = {c}
    BY <1>2, <2>2 DEF QuorumMet
  <2>4. c \in ActiveIn(r) /\ SlotOf(c) = s
    BY <2>1, <2>3 DEF ActiveFor, ActiveIn, SlotOf, Asg
  <2>5. QED
    BY <2>4
<1>7. \E c : c \in ActiveIn(r)
  BY <1>2 DEF Homogeneous
<1>8. Averages' = {<<r, Used(ActiveIn(r))>>}
  <2>1. result' # None
    BY <1>3, ResultType, CoordinatorAssumption
  <2>2. DOMAIN result'.weights = ActiveIn(r) /\ result'.round = r
    BY <1>3 DEF Weights
  <2>3. QED
    BY <1>3, <2>1, <2>2 DEF Averages, Used, SlotOf
<1>9. QED
  <2>1. \A s : s \in {p[1] : p \in Used(ActiveIn(r))} <=> \E c \in ActiveIn(r) : s = SlotOf(c)
    BY UsedProjections
  <2>2. {s \in Plan : s[1] = r} = {p[1] : p \in Used(ActiveIn(r))}
    <3>1. \A s : s \in {x \in Plan : x[1] = r} <=> \E c \in ActiveIn(r) : s = SlotOf(c)
      BY <1>5, <1>6
    <3>2. QED
      BY <2>1, <3>1
  <2>3. QED
    BY <1>4, <1>5, <1>7, <1>8, <2>2

\* Every step plans, withdraws, chooses, averages or leaves all as it is.
LEMMA AverageStep ==
    ASSUME OneAdmin, TypeOK, RivalsDisplaced, PendingHolds, ChecksHold, ResultStored, [Next]_vars
    PROVE  [Averaging!Next]_(Averaging!vars)
<1> TypeOK'
  BY TypeStep
<1>1. ResultStored /\ result' = result => Averages' = Averages
  <2>1. ASSUME result' = result, result # None
        PROVE  Used(DOMAIN result.weights)' = Used(DOMAIN result.weights)
    BY <2>1, UsedKept DEF ResultStored, Used
  <2>2. QED
    BY <2>1 DEF Averages
<1>2. ASSUME Plan' = Plan, Chosen' = Chosen, Spent' = Spent, result' = result
      PROVE  [Averaging!Next]_(Averaging!vars)
  BY <1>1, <1>2 DEF Averaging!vars, Plan, Chosen, Used, Spent, Averages
<1>3. UNCHANGED con => Chosen' = Chosen /\ Spent' = Spent
  BY DEF Chosen, Used, SlotOf, Active, Spent, Received
<1>4. UNCHANGED asg => Plan' = Plan
  BY DEF Plan, Planned
<1>5. ASSUME UNCHANGED <<asg, con, result>>
      PROVE  [Averaging!Next]_(Averaging!vars)
  BY <1>2, <1>3, <1>4, <1>5
<1>6. ASSUME UNCHANGED <<con, result>>
      PROVE  [Averaging!Next]_(Averaging!vars)
  <2>1. Plan' \subseteq Slots
    BY DEF Plan, Planned, TypeOK, AsgRow, Slots
  <2>2. Averaging!Replan
    BY <1>1, <1>3, <1>6, <2>1 DEF Averaging!Replan, Plan, Chosen, Used, Spent, Averages, Slots
  <2>3. QED
    BY <2>2 DEF Averaging!Next
<1>7. ASSUME NEW t \in Threads, ValidateWrite(t)
      PROVE  [Averaging!Next]_(Averaging!vars)
  <2>1. PICK c \in Cids : c = arg[t] /\ c \in Received /\ con[c].status = "RECEIVED"
    BY <1>7 DEF ValidateWrite, TypeOK, PcOfCid, Received, PendingHolds
  <2>2. /\ con'[c] # None /\ con'[c].status = "VALIDATED"
        /\ \A d \in Cids : d # c => con'[d] = con[d]
    BY <1>7, <2>1, SetStatusEffect DEF ValidateWrite, ConStatus
  <2>3. Active' = Active /\ Spent' = Spent
    BY <2>1, <2>2 DEF Active, Spent, Received
  <2>4. Chosen' = Chosen
    <3>1. Used(Active)' = Used(Active)
      BY <2>3, UsedKept DEF Used, Active
    <3>2. QED
      BY <3>1 DEF Chosen
  <2>5. UNCHANGED <<asg, result>>
    BY <1>7 DEF ValidateWrite
  <2>6. QED
    BY <1>2, <1>4, <2>3, <2>4, <2>5
<1>8. ASSUME NEW t \in Threads, Supersede(t)
      PROVE  [Averaging!Next]_(Averaging!vars)
  <2>1. PICK lost \in SUBSET Chosen : /\ Chosen' = Chosen \ lost
                                      /\ Spent' = Spent \cup {p[2] : p \in lost}
    BY <1>8, SupersedeWithdraws
  <2>2. Plan' = Plan /\ Averages' = Averages
    BY <1>1, <1>4, <1>8 DEF Supersede
  <2>3. Averaging!Withdraw(lost)
    BY <2>1, <2>2 DEF Averaging!Withdraw, Averaging!ContributionsOf,
                      Plan, Chosen, Used, Spent, Averages
  <2>4. QED
    BY <2>3 DEF Averaging!Next, Chosen, Used
<1>9. ASSUME NEW t \in Threads, SetActive(t)
      PROVE  [Averaging!Next]_(Averaging!vars)
  <2>1. PICK s \in Slots, c \in Cids :
               /\ c \notin Spent /\ \A p \in Chosen : p[2] # c /\ p[1] # s
               /\ Chosen' = Chosen \cup {<<s, c>>} /\ Spent' = Spent
    BY <1>9, SetActiveChooses
  <2>2. Plan' = Plan /\ Averages' = Averages
    BY <1>1, <1>4, <1>9 DEF SetActive
  <2>3. PICK lost \in SUBSET Chosen : lost = {}
    OBVIOUS
  <2>4. /\ Chosen' = (Chosen \ lost) \cup {<<s, c>>}
        /\ Spent' = Spent \cup {p[2] : p \in lost}
        /\ \A p \in Chosen \ lost : p[1] # s
    BY <2>1, <2>3
  <2>5. Averaging!Choose(s, c, lost)
    BY <2>1, <2>2, <2>4
       DEF Averaging!Choose, Averaging!ContributionsOf, Averaging!SlotsOf,
           Plan, Chosen, Used, Spent, Averages
  <2>6. QED
    BY <2>5 DEF Averaging!Next, Chosen, Used, Slots
<1>10. ASSUME NEW t \in Threads, FedAvgAggregate(t)
       PROVE  [Averaging!Next]_(Averaging!vars)
  <2>1. UNCHANGED <<asg, con>>
    BY <1>10 DEF FedAvgAggregate
  <2>2. CASE result' = result
    BY <1>5, <2>1, <2>2
  <2>3. CASE result' # result
    <3>1. PICK r \in Rounds :
                 /\ \E s \in Plan : s[1] = r
                 /\ {s \in Plan : s[1] = r} = {p[1] : p \in {q \in Chosen : q[1][1] = r}}
                 /\ Averages' = {<<r, {q \in Chosen : q[1][1] = r}>>}
      BY <1>10, <2>3, AggregateAverages
    <3>2. Plan' = Plan /\ Chosen' = Chosen /\ Spent' = Spent
      BY <1>3, <1>4, <2>1
    <3>3. Averaging!Average(r)
      BY <3>1, <3>2
         DEF Averaging!Average, Averaging!PlanOf, Averaging!ChosenOf, Averaging!SlotsOf,
             Plan, Chosen, Used, Spent, Averages
    <3>4. QED
      BY <3>3 DEF Averaging!Next
  <2>4. QED
    BY <2>2, <2>3
<1>11. CASE WorkerNext
  BY <1>2, <1>11, WorkerCounts
<1>12. ASSUME NEW t \in Threads, AdminNext(t)
       PROVE  [Averaging!Next]_(Averaging!vars)
  BY <1>5, <1>6, <1>7, <1>8, <1>9, <1>10, <1>12
     DEF AdminNext, CreateRound, CreateAssignment, Assign, PutAsg, ValidateCheck, ActivateCheck,
         FedAvgQuorum, FedAvgHomogeneity
<1>13. CASE UNCHANGED vars
  BY <1>5, <1>13 DEF vars
<1>14. QED
  BY <1>11, <1>12, <1>13 DEF Next

\* With one admin request at a time the coordinator keeps the promise of
\* RoundAverage, whatever workers send meanwhile: one contribution counts for an
\* assignment, one that was displaced never counts again, and fedavg averages
\* all that counts for its round, which is what the plan of the round asks for.
THEOREM ImplementsAverage == ASSUME OneAdmin PROVE Spec => AverageSpec
<1> DEFINE Rivals == OneActive /\ RivalsDisplaced
           Checks == ChecksHold /\ ExactQuorum /\ ResultStored
<1>1. Init => Rivals /\ PendingHolds /\ Checks /\ Averaging!Init
  BY DEF Init, OneActive, RivalsDisplaced, PendingHolds, ChecksHold, ExactQuorum, ResultStored,
         PcOfRound, Received, Averaging!Init, Planned, Active
<1>2. TypeOK /\ Rivals /\ [Next]_vars => Rivals'
  BY OneActiveStep
<1>3. TypeOK /\ PendingHolds /\ [Next]_vars => PendingHolds'
  BY StatusStep
<1>4. TypeOK /\ Checks /\ [Next]_vars => Checks'
  BY ChecksStep, ExactQuorumStep
<1>5. TypeOK /\ Rivals /\ PendingHolds /\ Checks /\ [Next]_vars
        => [Averaging!Next]_(Averaging!vars)
  BY AverageStep
<1>6. QED
  BY <1>1, <1>2, <1>3, <1>4, <1>5, TypeCorrect, PTL DEF Spec, AverageSpec, Averaging!Spec
=============================================================================
