------------------------ MODULE MultiWorkerRoundProofs ------------------------
(***************************************************************************)
(* Proofs about MultiWorkerRound: types, one worker base model for the     *)
(* whole run, the lineage of the rounds, and, where every assignment id    *)
(* belongs to one round, the exact quorum of every closed round and the    *)
(* promise of RoundAverage.  What RoundAverage itself implies is proved    *)
(* here too.                                                               *)
(***************************************************************************)
EXTENDS MultiWorkerRound, TLAPS

\* No two rounds use the same assignment id: a discipline of the callers, which
\* no check of the coordinator enforces.
OneHome == \A i \in Asgs : \A q, r \in Home[i] : q = r

Stored == {c \in Cids : contrib[c] # None}

\* The status of a stored contribution changes within the row.
LEMMA StatusType ==
    ASSUME TypeOK, NEW c \in Stored,
           NEW s \in {"UPLOADED", "RECEIVED", "VALIDATED", "ACTIVE", "SUPERSEDED"}
    PROVE  /\ [contrib[c] EXCEPT !.status = s] \in Contributions
           /\ [contrib[c] EXCEPT !.status = s].round = contrib[c].round
           /\ [contrib[c] EXCEPT !.status = s].id = contrib[c].id
           /\ [contrib[c] EXCEPT !.status = s].worker = contrib[c].worker
           /\ [contrib[c] EXCEPT !.status = s].status = s
<1>1. contrib[c] \in Contributions
  BY DEF TypeOK, Stored
<1>2. QED
  BY <1>1 DEF Contributions

\* SetStatus changes the status of one stored contribution and nothing else.
LEMMA SetStatusType ==
    ASSUME TypeOK, NEW c \in Cids, NEW from,
           NEW to \in {"UPLOADED", "RECEIVED", "VALIDATED", "SUPERSEDED"}, SetStatus(c, from, to)
    PROVE  /\ contrib' = [contrib EXCEPT ![c] = [contrib[c] EXCEPT !.status = to]]
           /\ contrib' \in [Cids -> Contributions \cup {None}]
<1>1. c \in Stored
  BY DEF SetStatus, Stored
<1>2. contrib' = [contrib EXCEPT ![c] = [contrib[c] EXCEPT !.status = to]]
  BY DEF SetStatus, TypeOK
<1>3. [contrib[c] EXCEPT !.status = to] \in Contributions
  BY <1>1, StatusType
<1>4. QED
  BY <1>2, <1>3 DEF TypeOK

\* A round that has assignments has its models; a round not yet opened has
\* nothing.
HasModel ==
    \A r \in Rounds :
       /\ state[r] = "NONE" => model[r] = None
       /\ state[r] \in {"ASSIGNED", "RUNNING", "READY_TO_CLOSE", "CLOSED"} => model[r] # None

\* Every operation keeps the types and HasModel.
LEMMA TypeStep == TypeOK /\ HasModel /\ [Next]_vars => (TypeOK /\ HasModel)'
<1> SUFFICES ASSUME TypeOK, HasModel, [Next]_vars PROVE TypeOK' /\ HasModel'
  OBVIOUS
<1> USE DEF TypeOK, HasModel
<1>1. ASSUME NEW r \in Rounds, NEW p \in Rounds \cup {None}, RoundOpen(r, p)
      PROVE  TypeOK' /\ HasModel'
  BY <1>1 DEF RoundOpen, States
<1>2. ASSUME NEW r \in Rounds, RoundReopen(r) \/ StartRound(r) \/ ReadyToClose(r)
      PROVE  TypeOK' /\ HasModel'
  BY <1>2 DEF RoundReopen, StartRound, ReadyToClose, States
<1>3. ASSUME NEW r \in Rounds, NEW b \in Bases, NEW a \in Adapters, RegisterRoundModel(r, b, a)
      PROVE  TypeOK' /\ HasModel'
  <2>1. [base |-> b, adapter0 |-> a, parent |-> a] \in Models
    BY DEF Models
  <2>2. QED
    BY <1>3, <2>1, NoneAssumption DEF RegisterRoundModel
<1>4. ASSUME NEW r \in Rounds, NEW w \in Workers, CalibrationSubmit(r, w)
      PROVE  TypeOK' /\ HasModel'
  BY <1>4 DEF CalibrationSubmit, States
<1>5. ASSUME NEW r \in Rounds, NEW i \in Asgs, NEW w \in Workers, NEW a \in Adapters,
             Assign(r, i, w, a)
      PROVE  TypeOK' /\ HasModel'
  BY <1>5 DEF Assign, States, Rows
<1>6. ASSUME NEW row \in assigned, NEW c \in Cids, CheckpointUpload(row, c)
      PROVE  TypeOK' /\ HasModel'
  BY <1>6 DEF CheckpointUpload, Rows, Contributions
<1>7. ASSUME NEW c \in Cids, RegisterUploadedContribution(c) \/ ValidateContribution(c)
      PROVE  TypeOK' /\ HasModel'
  <2>1. contrib' \in [Cids -> Contributions \cup {None}]
    BY <1>7, SetStatusType DEF RegisterUploadedContribution, ValidateContribution
  <2>2. QED
    BY <1>7, <2>1 DEF RegisterUploadedContribution, ValidateContribution, SetStatus
<1>8. ASSUME NEW c \in Cids, ActivateContribution(c)
      PROVE  TypeOK' /\ HasModel'
  <2>1. \A d \in Stored : /\ [contrib[d] EXCEPT !.status = "ACTIVE"] \in Contributions
                          /\ [contrib[d] EXCEPT !.status = "SUPERSEDED"] \in Contributions
    BY StatusType
  <2>2. contrib' \in [Cids -> Contributions \cup {None}]
    BY <1>8, <2>1 DEF ActivateContribution, Replaces, Stored
  <2>3. QED
    BY <1>8, <2>2 DEF ActivateContribution
<1>9. ASSUME NEW r \in Rounds, CloseRound(r)
      PROVE  TypeOK' /\ HasModel'
  <2>1. model[r] \in Models
    BY <1>9 DEF CloseRound
  <2>2. PreAdapter(r) \in Adapters
    BY <1>9, <2>1 DEF CloseRound, PreAdapter, Adapters, Models, Closed
  <2>3. [pre |-> PreAdapter(r), of |-> ActiveOf(r)] \in Closing
    BY <2>2 DEF Closing, ActiveOf
  <2>4. QED
    BY <1>9, <2>3 DEF CloseRound, States
<1>10. CASE UNCHANGED vars
  BY <1>10 DEF vars
<1>11. QED
  BY <1>1, <1>2, <1>3, <1>4, <1>5, <1>6, <1>7, <1>8, <1>9, <1>10 DEF Next

\* The tables of the rounds always hold well-formed rows.
THEOREM TypeCorrect == Spec => [](TypeOK /\ HasModel)
<1>1. Init => TypeOK /\ HasModel
  BY DEF Init, TypeOK, HasModel, States
<1>2. QED
  BY <1>1, TypeStep, PTL DEF Spec

-----------------------------------------------------------------------------
\* One worker base model

\* All the rounds of a run register the same worker base model: comparing with
\* the latest round is comparing with all of them.
THEOREM OneBaseModel == Spec => []OneBase
<1>1. Init => OneBase
  BY DEF Init, OneBase, Registered
<1>2. TypeOK /\ OneBase /\ [Next]_vars => OneBase'
  <2> SUFFICES ASSUME TypeOK, OneBase, [Next]_vars PROVE OneBase'
    OBVIOUS
  <2>1. ASSUME NEW r \in Rounds, NEW b \in Bases, NEW a \in Adapters, RegisterRoundModel(r, b, a)
        PROVE  OneBase'
    <3>1. \A q \in Registered : model[q].base = b
      BY <2>1 DEF RegisterRoundModel, SameBase, OneBase, Registered
    <3>2. /\ Registered' \subseteq Registered \cup {r}
          /\ \A q \in Registered : q # r /\ model'[q] = model[q]
          /\ model'[r].base = b
      BY <2>1 DEF RegisterRoundModel, Registered, TypeOK
    <3>3. QED
      BY <3>1, <3>2 DEF OneBase
  <2>2. CASE UNCHANGED model
    BY <2>2 DEF OneBase, Registered
  <2>3. QED
    BY <2>1, <2>2 DEF Next, vars, RoundOpen, RoundReopen, CalibrationSubmit, Assign, StartRound,
       CheckpointUpload, RegisterUploadedContribution, ValidateContribution, SetStatus,
       ActivateContribution, ReadyToClose, CloseRound
<1>3. QED
  BY <1>1, <1>2, TypeCorrect, PTL DEF Spec

-----------------------------------------------------------------------------
\* The lineage of the rounds

Lineage ==
    /\ \A r \in Rounds :
          /\ state[r] # "NONE" /\ parent[r] # None
                => parent[r] \in Closed /\ index[r] = index[parent[r]] + 1
          /\ model[r] # None
                => /\ model[r].adapter0 = model[r].parent
                   /\ index[r] > 1 => parent[r] \in Closed /\ model[r].parent = parent[r]
    /\ \A row \in assigned : model[row.round] # None /\ row.base = model[row.round].parent
    /\ \A r \in Closed : adapter[r].pre = model[r].parent

\* Where parents, models, rows and adapters stay as they are and no round
\* leaves or enters CLOSED or NONE, the lineage stays.
LEMMA LineageUnchanged ==
    ASSUME TypeOK, Lineage, UNCHANGED <<index, parent, model, assigned, adapter>>,
           \A r \in Rounds : /\ state'[r] = "CLOSED" <=> state[r] = "CLOSED"
                             /\ state'[r] = "NONE" <=> state[r] = "NONE"
    PROVE  Lineage'
<1>1. Closed' = Closed
  BY DEF Closed
<1>2. QED
  BY <1>1 DEF Lineage

\* Every operation keeps the lineage.
LEMMA LineageStep ==
    ASSUME TypeOK, HasModel, Lineage, [Next]_vars
    PROVE  Lineage'
<1> USE DEF TypeOK
<1>1. ASSUME NEW r \in Rounds, NEW p \in Rounds \cup {None}, RoundOpen(r, p) PROVE Lineage'
  <2>1. Closed' = Closed /\ r \notin Closed
    BY <1>1 DEF RoundOpen, Closed
  <2>2. model' = model /\ assigned' = assigned /\ adapter' = adapter /\ model[r] = None
    BY <1>1 DEF RoundOpen, HasModel
  <2>3. p # None => p \in Closed /\ index'[r] = index[p] + 1
    BY <1>1 DEF RoundOpen, IndexAfter
  <2>4. /\ parent'[r] = p
        /\ \A q \in Rounds \ {r} : /\ index'[q] = index[q] /\ parent'[q] = parent[q]
                                   /\ state'[q] = state[q]
    BY <1>1 DEF RoundOpen
  <2>5. \A q \in Closed : index'[q] = index[q] /\ q \in Rounds
    BY <2>1, <2>4 DEF Closed
  <2>6. \A q \in Rounds : state'[q] # "NONE" /\ parent'[q] # None
            => parent'[q] \in Closed /\ index'[q] = index'[parent'[q]] + 1
    <3> TAKE q \in Rounds
    <3>1. CASE q = r
      BY <2>3, <2>4, <2>5, <3>1
    <3>2. CASE q # r
      BY <2>4, <2>5, <3>2 DEF Lineage
    <3>3. QED
      BY <3>1, <3>2
  <2>7. \A q \in Rounds : model'[q] # None
            => /\ model'[q].adapter0 = model'[q].parent
               /\ index'[q] > 1 => parent'[q] \in Closed /\ model'[q].parent = parent'[q]
    BY <2>2, <2>4 DEF Lineage
  <2>8. QED
    BY <2>1, <2>2, <2>6, <2>7 DEF Lineage
<1>2. ASSUME NEW r \in Rounds, RoundReopen(r) \/ StartRound(r) \/ ReadyToClose(r) PROVE Lineage'
  BY <1>2, LineageUnchanged DEF RoundReopen, StartRound, ReadyToClose
<1>3. ASSUME NEW r \in Rounds, NEW b \in Bases, NEW a \in Adapters, RegisterRoundModel(r, b, a)
      PROVE  Lineage'
  <2>1. Closed' = Closed
    BY <1>3 DEF RegisterRoundModel, Closed
  <2>2. UNCHANGED <<state, index, parent, assigned, adapter>> /\ model[r] = None
    BY <1>3 DEF RegisterRoundModel
  <2>3. /\ model'[r].adapter0 = a /\ model'[r].parent = a
        /\ \A q \in Rounds \ {r} : model'[q] = model[q]
    BY <1>3 DEF RegisterRoundModel
  <2>4. \A q \in Rounds : model[q] # None => model'[q] = model[q]
    BY <2>2, <2>3
  <2>5. \A row \in assigned : row.round \in Rounds
    BY DEF Rows
  <2>6. r \notin Closed
    BY <1>3 DEF RegisterRoundModel, Closed
  <2>7. index[r] > 1 => parent[r] \in Closed /\ a = parent[r]
    BY <1>3 DEF RegisterRoundModel
  <2>8. \A q \in Rounds : model'[q] # None
            => /\ model'[q].adapter0 = model'[q].parent
               /\ index[q] > 1 => parent[q] \in Closed /\ model'[q].parent = parent[q]
    BY <2>3, <2>7 DEF Lineage
  <2>9. \A q \in Closed : q \in Rounds /\ q # r
    BY <2>6 DEF Closed
  <2>10. /\ \A row \in assigned : model'[row.round] # None /\ row.base = model'[row.round].parent
         /\ \A q \in Closed : adapter[q].pre = model'[q].parent
    BY <2>3, <2>4, <2>5, <2>9 DEF Lineage
  <2>11. QED
    BY <2>1, <2>2, <2>8, <2>10 DEF Lineage
<1>4. ASSUME NEW r \in Rounds, NEW w \in Workers, CalibrationSubmit(r, w) PROVE Lineage'
  BY <1>4, LineageUnchanged DEF CalibrationSubmit
<1>5. ASSUME NEW r \in Rounds, NEW i \in Asgs, NEW w \in Workers, NEW a \in Adapters,
             Assign(r, i, w, a)
      PROVE  Lineage'
  <2>1. Closed' = Closed
    BY <1>5 DEF Assign, Closed
  <2>2. model[r] # None /\ a = model[r].parent
    BY <1>5 DEF Assign, ExpectedBase, Lineage
  <2>3. assigned' = assigned \cup {[round |-> r, id |-> i, worker |-> w, base |-> a]}
        /\ UNCHANGED <<index, parent, model, adapter>>
        /\ \A q \in Rounds : state'[q] = "NONE" <=> state[q] = "NONE"
    BY <1>5 DEF Assign
  <2>4. QED
    BY <2>1, <2>2, <2>3 DEF Lineage
<1>6. ASSUME NEW r \in Rounds, CloseRound(r) PROVE Lineage'
  <2>1. Closed' = Closed \cup {r}
    BY <1>6 DEF CloseRound, Closed
  <2>2. model[r] # None
    BY <1>6 DEF CloseRound, HasModel
  <2>3. PreAdapter(r) = model[r].parent
    BY <1>6, <2>2 DEF CloseRound, PreAdapter, Lineage
  <2>4. \A q \in Closed' : adapter'[q].pre = model[q].parent
    BY <1>6, <2>1, <2>3 DEF CloseRound, Lineage, Closed
  <2>5. UNCHANGED <<index, parent, model, assigned>>
        /\ \A q \in Rounds : state'[q] = "NONE" <=> state[q] = "NONE"
    BY <1>6 DEF CloseRound
  <2>6. QED
    BY <2>1, <2>4, <2>5 DEF Lineage
<1>7. CASE UNCHANGED <<state, index, parent, model, assigned, adapter>>
  BY <1>7, LineageUnchanged
<1>8. QED
  BY <1>1, <1>2, <1>3, <1>4, <1>5, <1>6, <1>7
     DEF Next, vars, CheckpointUpload, RegisterUploadedContribution, ValidateContribution,
         SetStatus, ActivateContribution

\* A closed round continues its closed parent, one index above, and its
\* workers started from the adapter the average is added to.
THEOREM LineageTheorem == Spec => []LineageKept
<1>1. Init => Lineage
  BY NoneAssumption DEF Init, Lineage, Closed
<1>2. TypeOK /\ HasModel /\ Lineage /\ [Next]_vars => Lineage'
  BY LineageStep
<1>3. TypeOK /\ HasModel /\ Lineage => LineageKept
  <2> SUFFICES ASSUME TypeOK, HasModel, Lineage, NEW r \in Closed
               PROVE  /\ index[r] > 1 => /\ parent[r] \in Closed
                                         /\ adapter[r].pre = parent[r]
                                         /\ index[r] = index[parent[r]] + 1
                      /\ \A row \in RowsOf(r) : row.base = adapter[r].pre
    BY DEF LineageKept
  <2>1. r \in Rounds /\ state[r] = "CLOSED" /\ model[r] # None
    BY DEF Closed, HasModel
  <2>2. index[r] > 1 => parent[r] \in Closed /\ parent[r] # None
                        /\ adapter[r].pre = parent[r]
    BY <2>1, NoneAssumption DEF Lineage, Closed
  <2>3. \A row \in RowsOf(r) : row.base = adapter[r].pre
    BY <2>1 DEF Lineage, RowsOf
  <2>4. QED
    BY <2>1, <2>2, <2>3 DEF Lineage
<1>4. QED
  BY <1>1, <1>2, <1>3, TypeCorrect, PTL DEF Spec

-----------------------------------------------------------------------------
\* The quorum of a closed round

\* A stored contribution stays, for the round, the assignment and the worker
\* it was uploaded for.
LEMMA ContributionKept ==
    ASSUME TypeOK, [Next]_vars, NEW c \in Stored
    PROVE  /\ c \in Stored'
           /\ contrib'[c].round = contrib[c].round
           /\ contrib'[c].id = contrib[c].id /\ contrib'[c].worker = contrib[c].worker
<1> DEFINE Kept(row) == /\ row \in Contributions
                        /\ row.round = contrib[c].round
                        /\ row.id = contrib[c].id /\ row.worker = contrib[c].worker
<1>1. c \in Cids /\ contrib[c] # None /\ contrib[c] \in Contributions
  BY DEF Stored, TypeOK
<1>2. \A s \in {"UPLOADED", "RECEIVED", "VALIDATED", "ACTIVE", "SUPERSEDED"} :
          Kept([contrib[c] EXCEPT !.status = s])
  BY StatusType
<1>3. ASSUME NEW d \in Cids, RegisterUploadedContribution(d) \/ ValidateContribution(d)
      PROVE  Kept(contrib'[c])
  <2>1. \E s \in {"RECEIVED", "VALIDATED"} :
            contrib' = [contrib EXCEPT ![d] = [contrib[d] EXCEPT !.status = s]]
    BY <1>3, SetStatusType DEF RegisterUploadedContribution, ValidateContribution
  <2>2. QED
    BY <1>1, <1>2, <2>1 DEF TypeOK
<1>4. ASSUME NEW d \in Cids, ActivateContribution(d)
      PROVE  Kept(contrib'[c])
  <2>1. \/ contrib'[c] = contrib[c]
        \/ \E s \in {"ACTIVE", "SUPERSEDED"} : contrib'[c] = [contrib[c] EXCEPT !.status = s]
    BY <1>1, <1>4 DEF ActivateContribution
  <2>2. QED
    BY <1>1, <1>2, <2>1
<1>5. ASSUME NEW row \in assigned, NEW d \in Cids, CheckpointUpload(row, d)
      PROVE  Kept(contrib'[c])
  BY <1>1, <1>5 DEF CheckpointUpload, TypeOK
<1>6. contrib' = contrib => Kept(contrib'[c])
  BY <1>1
<1>7. Kept(contrib'[c])
  <2> HIDE DEF Kept
  <2>1. QED
    BY <1>3, <1>4, <1>5, <1>6 DEF Next, vars, RoundOpen, RoundReopen, RegisterRoundModel,
       CalibrationSubmit, Assign, StartRound, ReadyToClose, CloseRound
<1>8. QED
  BY <1>1, <1>7, NoneAssumption DEF Stored

\* Assignments are kept, and those of a round that is ready or closed are all
\* there will be.
LEMMA RowsKept ==
    ASSUME TypeOK, [Next]_vars
    PROVE  /\ assigned \subseteq assigned'
           /\ \A r \in Rounds : state[r] \in {"READY_TO_CLOSE", "CLOSED"} => RowsOf(r)' = RowsOf(r)
<1>1. ASSUME NEW r \in Rounds, NEW i \in Asgs, NEW w \in Workers, NEW a \in Adapters,
             Assign(r, i, w, a)
      PROVE  /\ assigned \subseteq assigned'
             /\ \A q \in Rounds : state[q] \in {"READY_TO_CLOSE", "CLOSED"}
                                      => RowsOf(q)' = RowsOf(q)
  BY <1>1 DEF Assign, RowsOf
<1>2. CASE UNCHANGED assigned
  BY <1>2 DEF RowsOf
<1>3. QED
  BY <1>1, <1>2 DEF Next, vars, RoundOpen, RoundReopen, RegisterRoundModel, CalibrationSubmit,
     StartRound, CheckpointUpload, RegisterUploadedContribution, ValidateContribution, SetStatus,
     ActivateContribution, ReadyToClose, CloseRound

\* Every contribution answers an assignment of its round, and an id names one
\* assignment of a round.
OwnRow == \A c \in Stored : \E row \in assigned : row.round = contrib[c].round /\ IsFor(c, row)
RowsDistinct ==
    \A x \in assigned : /\ x.round \in Home[x.id]
                        /\ \A y \in assigned : x.round = y.round /\ x.id = y.id => x = y

\* Every operation keeps them.
LEMMA RowsStep ==
    ASSUME TypeOK, OwnRow, RowsDistinct, [Next]_vars
    PROVE  (OwnRow /\ RowsDistinct)'
<1> USE DEF TypeOK
<1>1. OwnRow'
  <2> SUFFICES ASSUME NEW c \in Stored'
               PROVE  \E row \in assigned' : row.round = contrib'[c].round /\ IsFor(c, row)'
    BY DEF OwnRow
  <2>1. CASE c \in Stored
    BY <2>1, ContributionKept, RowsKept DEF OwnRow, IsFor
  <2>2. CASE c \notin Stored
    <3>1. c \in Cids /\ contrib[c] = None /\ contrib'[c] # None
      BY <2>2 DEF Stored
    <3>2. ASSUME NEW d \in Cids, RegisterUploadedContribution(d) \/ ValidateContribution(d)
          PROVE  contrib'[c] = contrib[c]
      BY <3>1, <3>2 DEF RegisterUploadedContribution, ValidateContribution, SetStatus
    <3>3. ASSUME NEW d \in Cids, ActivateContribution(d)
          PROVE  contrib'[c] = contrib[c]
      BY <3>1, <3>3 DEF ActivateContribution, Replaces
    <3>4. PICK row \in assigned, d \in Cids : CheckpointUpload(row, d)
      BY <3>1, <3>2, <3>3 DEF Next, vars, RoundOpen, RoundReopen, RegisterRoundModel,
         CalibrationSubmit, Assign, StartRound, ReadyToClose, CloseRound
    <3>5. d = c
      BY <3>1, <3>4 DEF CheckpointUpload
    <3>6. QED
      BY <3>1, <3>4, <3>5 DEF CheckpointUpload, IsFor
  <2>3. QED
    BY <2>1, <2>2
<1>2. RowsDistinct'
  <2>1. ASSUME NEW r \in Rounds, NEW i \in Asgs, NEW w \in Workers, NEW a \in Adapters,
               Assign(r, i, w, a)
        PROVE  RowsDistinct'
    <3>1. assigned' = assigned \cup {[round |-> r, id |-> i, worker |-> w, base |-> a]}
          /\ r \in Home[i] /\ \A row \in assigned : row.round = r => row.id # i
      BY <2>1 DEF Assign, RowsOf
    <3>2. QED
      BY <3>1 DEF RowsDistinct
  <2>2. CASE UNCHANGED assigned
    BY <2>2 DEF RowsDistinct
  <2>3. QED
    BY <2>1, <2>2 DEF Next, vars, RoundOpen, RoundReopen, RegisterRoundModel, CalibrationSubmit,
       StartRound, CheckpointUpload, RegisterUploadedContribution, ValidateContribution, SetStatus,
       ActivateContribution, ReadyToClose, CloseRound
<1>3. QED
  BY <1>1, <1>2

\* Among the contributions s, each assignment of r has exactly one.
Exact(r, s) == \A row \in RowsOf(r) : \E c \in s : \A d \in s : IsFor(d, row) <=> d = c

ReadyExact == \A r \in Rounds : state[r] = "READY_TO_CLOSE" => Exact(r, ActiveOf(r))

\* Activating a contribution of a ready round replaces the one it was ready
\* with; activating one of another round does not touch it.
LEMMA ActivateExact ==
    ASSUME OneHome, TypeOK, OwnRow, RowsDistinct, NEW c \in Cids, ActivateContribution(c),
           NEW r \in Rounds, Exact(r, ActiveOf(r))
    PROVE  Exact(r, ActiveOf(r))'
<1> USE DEF TypeOK
<1>1. c \in Stored /\ contrib[c].status = "VALIDATED"
  BY DEF ActivateContribution, Stored
<1>2. PICK mine \in assigned : mine.round = contrib[c].round /\ IsFor(c, mine)
  BY <1>1 DEF OwnRow
<1>3. [Next]_vars
  BY DEF Next
<1>4. \A d \in Stored : /\ contrib'[d].round = contrib[d].round /\ contrib'[d].id = contrib[d].id
                        /\ contrib'[d].worker = contrib[d].worker /\ d \in Stored'
  BY <1>3, ContributionKept
<1>5. RowsOf(r)' = RowsOf(r)
  BY DEF RowsOf, ActivateContribution
<1>6. \A d \in Cids : /\ d = c => contrib'[d].status = "ACTIVE"
                      /\ d # c /\ Replaces(c, d) => contrib'[d].status = "SUPERSEDED"
                      /\ d # c /\ ~Replaces(c, d) => contrib'[d] = contrib[d]
  <2>1. \A d \in Stored : /\ [contrib[d] EXCEPT !.status = "ACTIVE"].status = "ACTIVE"
                          /\ [contrib[d] EXCEPT !.status = "SUPERSEDED"].status = "SUPERSEDED"
    BY StatusType
  <2>2. \A d \in Cids : Replaces(c, d) => d \in Stored
    BY DEF Replaces, Stored
  <2>3. QED
    BY <1>1, <2>1, <2>2 DEF ActivateContribution
<1>7. CASE contrib[c].round # r
  <2>1. \A d \in Stored : contrib[d].round = r => ~Replaces(c, d)
    <3> SUFFICES ASSUME NEW d \in Stored, contrib[d].round = r, contrib[d].id = contrib[c].id
                 PROVE  FALSE
      BY DEF Replaces
    <3>1. PICK row \in assigned : row.round = r /\ row.id = contrib[d].id
      BY DEF OwnRow, IsFor
    <3>2. mine.id = contrib[c].id /\ mine.id \in Asgs
      BY <1>2 DEF IsFor, Rows
    <3>3. mine.round \in Home[mine.id] /\ r \in Home[mine.id]
      BY <3>1, <3>2 DEF RowsDistinct
    <3>4. QED
      BY <1>2, <1>7, <3>2, <3>3 DEF OneHome
  <2>2. ActiveOf(r)' = ActiveOf(r)
    <3>1. \A d \in Cids : d \in ActiveOf(r)' => d \in ActiveOf(r)
      BY <1>1, <1>4, <1>6, <1>7, <2>1 DEF ActiveOf, Stored, ActivateContribution, Replaces
    <3>2. \A d \in Cids : d \in ActiveOf(r) => d \in ActiveOf(r)'
      BY <1>1, <1>4, <1>6, <1>7, <2>1 DEF ActiveOf, Stored
    <3>3. QED
      BY <3>1, <3>2 DEF ActiveOf
  <2>3. \A d \in ActiveOf(r) : \A row : IsFor(d, row)' <=> IsFor(d, row)
    BY <1>4 DEF ActiveOf, Stored, IsFor
  <2>4. QED
    BY <1>5, <2>2, <2>3 DEF Exact
<1>8. CASE contrib[c].round = r
  <2>1. \A d \in Stored : \A row : IsFor(d, row)' <=> IsFor(d, row)
    BY <1>4 DEF IsFor
  <2>2. mine \in RowsOf(r)
    BY <1>2, <1>8 DEF RowsOf
  <2>3. PICK old \in ActiveOf(r) : \A d \in ActiveOf(r) : IsFor(d, mine) <=> d = old
    BY <2>2 DEF Exact
  <2>4. \A d \in Cids : d \in ActiveOf(r)' <=> d = c \/ (d \in ActiveOf(r) /\ d # old)
    <3>1. \A d \in ActiveOf(r) : d # c /\ (Replaces(c, d) <=> d = old)
      BY <1>1, <1>2, <2>3 DEF ActiveOf, Replaces, IsFor
    <3>2. \A d \in Cids : d # c /\ d \notin ActiveOf(r) => d \notin ActiveOf(r)'
      BY <1>4, <1>6 DEF ActiveOf, Stored, Replaces
    <3>3. \A d \in ActiveOf(r) : d # old => d \in ActiveOf(r)'
      BY <1>6, <3>1 DEF ActiveOf
    <3>4. old \notin ActiveOf(r)'
      BY <1>6, <3>1 DEF ActiveOf
    <3>5. c \in ActiveOf(r)'
      BY <1>1, <1>4, <1>6, <1>8 DEF ActiveOf, Stored
    <3>6. QED
      BY <3>1, <3>2, <3>3, <3>4, <3>5
  <2>5. ASSUME NEW row \in RowsOf(r)
        PROVE  \E x \in ActiveOf(r)' : \A d \in ActiveOf(r)' : IsFor(d, row)' <=> d = x
    <3>1. \A d \in ActiveOf(r)' : d \in Stored
      BY <1>1, <2>4 DEF ActiveOf, Stored
    <3>2. CASE row = mine
      <4>1. \A d \in ActiveOf(r)' : IsFor(d, row) <=> d = c
        BY <1>2, <2>3, <2>4, <3>2 DEF ActiveOf
      <4>2. QED
        BY <1>1, <2>1, <2>4, <3>1, <4>1 DEF Stored
    <3>3. CASE row # mine
      <4>1. row.id # mine.id
        BY <1>2, <1>8, <3>3 DEF RowsDistinct, RowsOf
      <4>2. ~IsFor(c, row)
        BY <1>2, <4>1 DEF IsFor
      <4>3. PICK x \in ActiveOf(r) : \A d \in ActiveOf(r) : IsFor(d, row) <=> d = x
        BY DEF Exact
      <4>4. x # old
        BY <2>3, <4>1, <4>3 DEF IsFor
      <4>5. x \in ActiveOf(r)' /\ \A d \in ActiveOf(r)' : IsFor(d, row) <=> d = x
        BY <1>1, <2>4, <4>2, <4>3, <4>4 DEF ActiveOf
      <4>6. QED
        BY <2>1, <3>1, <4>5
    <3>4. QED
      BY <3>2, <3>3
  <2>6. QED
    BY <1>5, <2>5 DEF Exact
<1>9. QED
  BY <1>7, <1>8

\* A ready round stays exact until it is closed.
LEMMA ReadyStep ==
    ASSUME OneHome, TypeOK, OwnRow, RowsDistinct, ReadyExact, [Next]_vars
    PROVE  ReadyExact'
<1> USE DEF TypeOK
<1> SUFFICES ASSUME NEW r \in Rounds, state'[r] = "READY_TO_CLOSE"
             PROVE  Exact(r, ActiveOf(r))'
  BY DEF ReadyExact
<1>1. CASE \E c \in Cids : ActivateContribution(c)
  <2>1. state[r] = "READY_TO_CLOSE"
    BY <1>1 DEF ActivateContribution
  <2>2. QED
    BY <1>1, <2>1, ActivateExact DEF ReadyExact
<1>2. ASSUME NEW c \in Cids, NEW from \in {"UPLOADED", "RECEIVED"},
             NEW to \in {"RECEIVED", "VALIDATED"}, SetStatus(c, from, to)
      PROVE  ActiveOf(r)' = ActiveOf(r) /\ state' = state
  <2>1. c \in Stored /\ contrib[c].status # "ACTIVE"
    BY <1>2 DEF SetStatus, Stored
  <2>2. contrib' = [contrib EXCEPT ![c] = [contrib[c] EXCEPT !.status = to]]
    BY <1>2, SetStatusType
  <2>3. contrib'[c].status = to
    BY <2>1, <2>2, StatusType
  <2>4. \A d \in Cids : d # c => contrib'[d] = contrib[d]
    BY <2>2
  <2>5. \A d \in Cids : d \in ActiveOf(r)' <=> d \in ActiveOf(r)
    BY <2>1, <2>3, <2>4 DEF ActiveOf
  <2>6. QED
    BY <1>2, <2>5 DEF ActiveOf, SetStatus
<1>3. ASSUME NEW row \in assigned, NEW c \in Cids, CheckpointUpload(row, c)
      PROVE  ActiveOf(r)' = ActiveOf(r) /\ state' = state
  <2>1. contrib[c] = None /\ contrib'[c].status = "UPLOADED"
        /\ \A d \in Cids : d # c => contrib'[d] = contrib[d]
    BY <1>3 DEF CheckpointUpload
  <2>2. QED
    BY <1>3, <2>1 DEF ActiveOf, CheckpointUpload
<1>4. CASE ReadyToClose(r)
  BY <1>4 DEF ReadyToClose, Exact, ActiveOf, RowsOf, IsFor
<1>5. CASE state[r] = "READY_TO_CLOSE" /\ ActiveOf(r)' = ActiveOf(r)
  <2>1. RowsOf(r)' = RowsOf(r)
    BY <1>5, RowsKept
  <2>2. \A d \in ActiveOf(r) : \A row : IsFor(d, row)' <=> IsFor(d, row)
    BY ContributionKept DEF ActiveOf, Stored, IsFor
  <2>3. Exact(r, ActiveOf(r))
    BY <1>5 DEF ReadyExact
  <2>4. QED
    BY <1>5, <2>1, <2>2, <2>3 DEF Exact
<1>6. ASSUME UNCHANGED contrib
      PROVE  ActiveOf(r)' = ActiveOf(r)
  BY <1>6 DEF ActiveOf
<1>7. ASSUME \E q \in Rounds, p \in Rounds \cup {None} : RoundOpen(q, p)
      PROVE  state[r] = "READY_TO_CLOSE" /\ UNCHANGED contrib
  BY <1>7 DEF RoundOpen
<1>8. ASSUME \E q \in Rounds : \/ RoundReopen(q) \/ StartRound(q) \/ CloseRound(q)
                               \/ \E w \in Workers : CalibrationSubmit(q, w)
                               \/ \E b \in Bases, a \in Adapters : RegisterRoundModel(q, b, a)
                               \/ \E i \in Asgs, w \in Workers, a \in Adapters : Assign(q, i, w, a)
                               \/ ReadyToClose(q) /\ q # r
      PROVE  state[r] = "READY_TO_CLOSE" /\ UNCHANGED contrib
  BY <1>8 DEF RoundReopen, StartRound, CloseRound, CalibrationSubmit, RegisterRoundModel, Assign,
     ReadyToClose
<1>9. CASE UNCHANGED vars
  BY <1>5, <1>6, <1>9 DEF vars
<1>10. QED
  BY <1>1, <1>2, <1>3, <1>4, <1>5, <1>6, <1>7, <1>8, <1>9
     DEF Next, RegisterUploadedContribution, ValidateContribution

\* What was averaged at the close of a round stays an exact quorum of it.
ClosedExact ==
    \A r \in Closed :
       /\ \A c \in adapter[r].of : c \in Stored /\ contrib[c].round = r
       /\ Exact(r, adapter[r].of)

\* Closing a ready round averages its quorum; later steps change nothing of it.
LEMMA ClosedStep ==
    ASSUME TypeOK, ReadyExact, ClosedExact, [Next]_vars
    PROVE  ClosedExact'
<1> USE DEF TypeOK
<1> SUFFICES ASSUME NEW r \in Rounds, state'[r] = "CLOSED"
             PROVE  /\ \A c \in adapter'[r].of : c \in Stored' /\ contrib'[c].round = r
                    /\ Exact(r, adapter[r].of)'
  BY DEF ClosedExact, Closed
<1>1. CASE state[r] = "CLOSED"
  <2>1. adapter'[r] = adapter[r]
    BY <1>1 DEF Next, vars, RoundOpen, RoundReopen, RegisterRoundModel, CalibrationSubmit, Assign,
       StartRound, CheckpointUpload, RegisterUploadedContribution, ValidateContribution, SetStatus,
       ActivateContribution, ReadyToClose, CloseRound
  <2>2. RowsOf(r)' = RowsOf(r)
    BY <1>1, RowsKept
  <2>3. /\ \A c \in adapter[r].of : c \in Stored /\ contrib[c].round = r
        /\ Exact(r, adapter[r].of)
    BY <1>1 DEF ClosedExact, Closed
  <2>4. \A c \in adapter[r].of : /\ c \in Stored' /\ contrib'[c].round = r
                                 /\ \A row : IsFor(c, row)' <=> IsFor(c, row)
    BY <2>3, ContributionKept DEF IsFor
  <2>5. QED
    BY <2>1, <2>2, <2>3, <2>4 DEF Exact
<1>2. CASE state[r] # "CLOSED"
  <2>1. CloseRound(r)
    BY <1>2 DEF Next, vars, RoundOpen, RoundReopen, RegisterRoundModel, CalibrationSubmit, Assign,
       StartRound, CheckpointUpload, RegisterUploadedContribution, ValidateContribution, SetStatus,
       ActivateContribution, ReadyToClose, CloseRound
  <2>2. adapter'[r].of = ActiveOf(r) /\ UNCHANGED <<assigned, contrib>>
    BY <2>1 DEF CloseRound
  <2>3. Exact(r, ActiveOf(r))
    BY <2>1 DEF CloseRound, ReadyExact
  <2>4. QED
    BY <2>2, <2>3 DEF Exact, RowsOf, IsFor, ActiveOf, Stored
<1>3. QED
  BY <1>1, <1>2

\* Where every assignment id belongs to one round, each closed round averaged
\* exactly one contribution per assignment, although close_round does not
\* count again and contributions may be activated after ready_to_close.
THEOREM QuorumTheorem == ASSUME OneHome PROVE Spec => []QuorumAtClose
<1> DEFINE Inv == OwnRow /\ RowsDistinct /\ ReadyExact /\ ClosedExact
<1>1. Init => Inv
  BY DEF Init, OwnRow, RowsDistinct, ReadyExact, ClosedExact, Stored, Closed
<1>2. TypeOK /\ Inv /\ [Next]_vars => Inv'
  BY RowsStep, ReadyStep, ClosedStep
<1>3. TypeOK /\ Inv => QuorumAtClose
  <2> SUFFICES ASSUME TypeOK, Inv, NEW r \in Closed
               PROVE  /\ \A c \in adapter[r].of : \E row \in RowsOf(r) : IsFor(c, row)
                      /\ Exact(r, adapter[r].of)
    BY DEF QuorumAtClose, Exact
  <2>1. \A c \in adapter[r].of : c \in Stored /\ contrib[c].round = r
    BY DEF ClosedExact
  <2>2. \A c \in adapter[r].of : \E row \in RowsOf(r) : IsFor(c, row)
    BY <2>1 DEF OwnRow, RowsOf
  <2>3. QED
    BY <2>2 DEF ClosedExact
<1>4. QED
  BY <1>1, <1>2, <1>3, TypeCorrect, PTL DEF Spec
-----------------------------------------------------------------------------
\* The rounds implement RoundAverage

Used(s) == {<<SlotOf(c), c>> : c \in s}
Plan == {<<row.round, row.id, row.worker>> : row \in assigned}
Chosen == Used(WithStatus("ACTIVE"))
Spent == WithStatus("SUPERSEDED")
Averages == {<<r, Used(adapter[r].of)>> : r \in Closed}
Slots == Rounds \X Asgs \X Workers

\* The slot of a stored contribution is one, and never changes.
LEMMA SlotKept ==
    ASSUME TypeOK, [Next]_vars, NEW c \in Stored
    PROVE  SlotOf(c) \in Slots /\ SlotOf(c)' = SlotOf(c)
<1>1. contrib[c] \in Contributions
  BY DEF Stored, TypeOK
<1>2. QED
  BY <1>1, ContributionKept DEF SlotOf, Slots, Contributions

\* So the pairs of stored contributions do not change either.
LEMMA UsedKept ==
    ASSUME TypeOK, [Next]_vars, NEW s \in SUBSET Stored
    PROVE  Used(s)' = Used(s)
BY SlotKept DEF Used

\* The slots and the contributions of the pairs made of s.
LEMMA UsedProjections ==
    ASSUME NEW s
    PROVE  /\ \A x : x \in {p[1] : p \in Used(s)} <=> \E c \in s : x = SlotOf(c)
           /\ {p[2] : p \in Used(s)} = s
<1>1. \A p \in Used(s) : \E c \in s : p = <<SlotOf(c), c>>
  BY DEF Used
<1>2. \A c \in s : <<SlotOf(c), c>> \in Used(s)
  BY DEF Used
<1> HIDE DEF Used
<1>3. \A c \in s : /\ \E p \in Used(s) : p[1] = SlotOf(c)
                   /\ \E p \in Used(s) : p[2] = c
  BY <1>2
<1>4. \A p \in Used(s) : \E c \in s : p[1] = SlotOf(c) /\ p[2] = c
  BY <1>1
<1>5. QED
  BY <1>3, <1>4

\* Uploading, registering and validating contributions changes nothing of what
\* counts.
LEMMA CountsKept ==
    ASSUME TypeOK, [Next]_vars, \A c \in Cids : ~ActivateContribution(c)
    PROVE  Chosen' = Chosen /\ Spent' = Spent
<1> USE DEF TypeOK
<1>1. ASSUME NEW st \in {"ACTIVE", "SUPERSEDED"}
      PROVE  WithStatus(st)' = WithStatus(st)
  <2>1. CASE UNCHANGED contrib
    BY <2>1 DEF WithStatus
  <2>2. ASSUME NEW row \in assigned, NEW c \in Cids, CheckpointUpload(row, c)
        PROVE  WithStatus(st)' = WithStatus(st)
    <3>1. contrib[c] = None /\ contrib'[c].status = "UPLOADED"
          /\ \A d \in Cids : d # c => contrib'[d] = contrib[d]
      BY <2>2 DEF CheckpointUpload
    <3>2. QED
      BY <3>1 DEF WithStatus
  <2>3. ASSUME NEW c \in Cids, NEW from \in {"UPLOADED", "RECEIVED"},
               NEW to \in {"RECEIVED", "VALIDATED"}, SetStatus(c, from, to)
        PROVE  WithStatus(st)' = WithStatus(st)
    <3>1. c \in Stored /\ contrib[c].status = from
      BY <2>3 DEF SetStatus, Stored
    <3>2. contrib' = [contrib EXCEPT ![c] = [contrib[c] EXCEPT !.status = to]]
      BY <2>3, SetStatusType
    <3>3. contrib'[c].status = to
      BY <3>1, <3>2, StatusType
    <3>4. \A d \in Cids : d # c => contrib'[d] = contrib[d]
      BY <3>2
    <3>5. QED
      BY <3>1, <3>3, <3>4 DEF WithStatus
  <2>4. QED
    BY <2>1, <2>2, <2>3 DEF Next, vars, RoundOpen, RoundReopen, RegisterRoundModel,
       CalibrationSubmit, Assign, StartRound, RegisterUploadedContribution, ValidateContribution,
       ReadyToClose, CloseRound
<1>2. WithStatus("ACTIVE") \in SUBSET Stored
  BY DEF WithStatus, Stored
<1>3. Used(WithStatus("ACTIVE"))' = Used(WithStatus("ACTIVE"))
  BY <1>1, <1>2, UsedKept DEF Used
<1>4. QED
  BY <1>1, <1>3 DEF Chosen, Spent

\* Until another round closes, the averages are those that were made.
LEMMA AveragesKept ==
    ASSUME TypeOK, ClosedExact, [Next]_vars, \A r \in Rounds : ~CloseRound(r)
    PROVE  Averages' = Averages
<1>1. Closed' = Closed /\ \A r \in Closed : adapter'[r] = adapter[r]
  BY DEF Next, vars, Closed, TypeOK, RoundOpen, RoundReopen, RegisterRoundModel, CalibrationSubmit,
     Assign, StartRound, CheckpointUpload, RegisterUploadedContribution, ValidateContribution,
     SetStatus, ActivateContribution, ReadyToClose
<1>2. \A r \in Closed : adapter[r].of \in SUBSET Stored
  BY DEF ClosedExact
<1>3. \A r \in Closed : Used(adapter[r].of)' = Used(adapter[r].of)
  BY <1>1, <1>2, UsedKept DEF Used
<1>4. QED
  BY <1>1, <1>3 DEF Averages

\* Only assigning a worker changes the plan.
LEMMA PlanKept ==
    ASSUME [Next]_vars,
           \A r \in Rounds, i \in Asgs, w \in Workers, a \in Adapters : ~Assign(r, i, w, a)
    PROVE  Plan' = Plan
BY DEF Plan, Next, vars, RoundOpen, RoundReopen, RegisterRoundModel, CalibrationSubmit,
   StartRound, CheckpointUpload, RegisterUploadedContribution, ValidateContribution, SetStatus,
   ActivateContribution, ReadyToClose, CloseRound

\* An activation makes the contribution count for its slot, instead of the one
\* that did, and of those of the same worker and id in other rounds.
LEMMA ActivateChooses ==
    ASSUME TypeOK, NEW c \in Cids, ActivateContribution(c)
    PROVE  \E lost \in SUBSET Chosen : /\ c \notin Spent /\ \A p \in Chosen : p[2] # c
                                       /\ \A p \in Chosen \ lost : p[1] # SlotOf(c)
                                       /\ Chosen' = (Chosen \ lost) \cup {<<SlotOf(c), c>>}
                                       /\ Spent' = Spent \cup {p[2] : p \in lost}
<1> USE DEF TypeOK
<1> DEFINE gone == {d \in WithStatus("ACTIVE") : Replaces(c, d)}
<1>1. c \in Stored /\ contrib[c].status = "VALIDATED"
  BY DEF ActivateContribution, Stored
<1>2. [Next]_vars
  BY DEF Next
<1>3. \A d \in Cids : /\ d = c => contrib'[d].status = "ACTIVE"
                      /\ d # c /\ Replaces(c, d) => contrib'[d].status = "SUPERSEDED"
                      /\ d # c /\ ~Replaces(c, d) => contrib'[d] = contrib[d]
  <2>1. \A d \in Stored : /\ [contrib[d] EXCEPT !.status = "ACTIVE"].status = "ACTIVE"
                          /\ [contrib[d] EXCEPT !.status = "SUPERSEDED"].status = "SUPERSEDED"
    BY StatusType
  <2>2. \A d \in Cids : Replaces(c, d) => d \in Stored
    BY DEF Replaces, Stored
  <2>3. QED
    BY <1>1, <2>1, <2>2 DEF ActivateContribution
<1>4. \A d \in Stored : contrib'[d] # None
  BY <1>2, ContributionKept DEF Stored
<1>5. \A d \in Cids : d \notin Stored => contrib'[d] = None
  BY <1>1, <1>3 DEF Stored, Replaces
<1>6. WithStatus("ACTIVE")' = (WithStatus("ACTIVE") \ gone) \cup {c}
  BY <1>1, <1>3, <1>4, <1>5 DEF WithStatus, Stored, Replaces
<1>7. WithStatus("SUPERSEDED")' = WithStatus("SUPERSEDED") \cup gone
  BY <1>1, <1>3, <1>4, <1>5 DEF WithStatus, Stored, Replaces
<1>8. WithStatus("ACTIVE") \cup {c} \subseteq Stored
  BY <1>1 DEF WithStatus, Stored
<1>9. Chosen' = Used((WithStatus("ACTIVE") \ gone) \cup {c})
  <2>1. \A d \in (WithStatus("ACTIVE") \ gone) \cup {c} : SlotOf(d)' = SlotOf(d)
    BY <1>2, <1>8, SlotKept
  <2>2. QED
    BY <1>6, <2>1 DEF Chosen, Used
<1>10. QED
  <2>1. Used(gone) \in SUBSET Chosen
    BY DEF Used, Chosen
  <2>2. Chosen' = (Chosen \ Used(gone)) \cup {<<SlotOf(c), c>>}
    BY <1>9 DEF Used, Chosen
  <2>3. Spent' = Spent \cup {p[2] : p \in Used(gone)}
    BY <1>7, UsedProjections DEF Spent
  <2>4. c \notin Spent /\ \A p \in Chosen : p[2] # c
    BY <1>1 DEF Chosen, Used, Spent, WithStatus
  <2>5. \A p \in Chosen \ Used(gone) : p[1] # SlotOf(c)
    <3> SUFFICES ASSUME NEW d \in WithStatus("ACTIVE"), d \notin gone, SlotOf(d) = SlotOf(c)
                 PROVE  FALSE
      BY DEF Chosen, Used
    <3>1. d # c
      BY <1>1 DEF WithStatus
    <3>2. QED
      BY <3>1 DEF Replaces, SlotOf, WithStatus
  <2>6. QED
    BY <2>1, <2>2, <2>3, <2>4, <2>5

\* A round is closed with the average of all that counts for it, which is what
\* its plan asks for.
LEMMA CloseAverages ==
    ASSUME TypeOK, OwnRow, ReadyExact, ClosedExact, NEW r \in Rounds, CloseRound(r)
    PROVE  /\ \E s \in Plan : s[1] = r
           /\ {s \in Plan : s[1] = r} = {p[1] : p \in {q \in Chosen : q[1][1] = r}}
           /\ Averages' = Averages \cup {<<r, {q \in Chosen : q[1][1] = r}>>}
<1> USE DEF TypeOK
<1>1. /\ state[r] = "READY_TO_CLOSE" /\ state'[r] = "CLOSED"
      /\ \A q \in Rounds : q # r => state'[q] = state[q] /\ adapter'[q] = adapter[q]
      /\ adapter'[r].of = ActiveOf(r) /\ ActiveOf(r) # {}
      /\ UNCHANGED <<assigned, contrib>>
  BY DEF CloseRound
<1>2. Exact(r, ActiveOf(r))
  BY <1>1 DEF ReadyExact
<1>3. {q \in Chosen : q[1][1] = r} = Used(ActiveOf(r))
  BY DEF Chosen, Used, ActiveOf, WithStatus, SlotOf
<1>4. ASSUME NEW c \in ActiveOf(r)
      PROVE  SlotOf(c) \in Plan /\ SlotOf(c)[1] = r
  <2>1. PICK row \in assigned : row.round = contrib[c].round /\ IsFor(c, row)
    BY DEF OwnRow, ActiveOf, Stored
  <2>2. SlotOf(c) = <<row.round, row.id, row.worker>>
    BY <2>1 DEF SlotOf, IsFor
  <2>3. QED
    BY <2>1, <2>2 DEF Plan, ActiveOf
<1>5. ASSUME NEW s \in Plan, s[1] = r
      PROVE  \E c \in ActiveOf(r) : s = SlotOf(c)
  <2>1. PICK row \in assigned : s = <<row.round, row.id, row.worker>>
    BY DEF Plan
  <2>2. row \in RowsOf(r)
    BY <1>5, <2>1 DEF RowsOf
  <2>3. PICK c \in ActiveOf(r) : IsFor(c, row)
    BY <1>2, <2>2 DEF Exact
  <2>4. QED
    BY <1>5, <2>1, <2>3 DEF SlotOf, IsFor, ActiveOf
<1>6. Closed' = Closed \cup {r} /\ r \notin Closed
  BY <1>1 DEF Closed
<1>7. Averages' = Averages \cup {<<r, Used(ActiveOf(r))>>}
  <2>1. \A s : Used(s)' = Used(s)
    BY <1>1 DEF Used, SlotOf
  <2>2. \A q \in Closed : adapter'[q] = adapter[q]
    BY <1>1, <1>6 DEF Closed
  <2>3. QED
    BY <1>1, <1>6, <2>1, <2>2 DEF Averages, Used, SlotOf
<1>8. QED
  <2>1. \A s : s \in {p[1] : p \in Used(ActiveOf(r))} <=> \E c \in ActiveOf(r) : s = SlotOf(c)
    BY UsedProjections
  <2>2. {s \in Plan : s[1] = r} = {p[1] : p \in Used(ActiveOf(r))}
    <3>1. \A s : s \in {x \in Plan : x[1] = r} <=> \E c \in ActiveOf(r) : s = SlotOf(c)
      BY <1>4, <1>5
    <3>2. QED
      BY <2>1, <3>1
  <2>3. QED
    BY <1>1, <1>3, <1>4, <1>7, <2>2

\* Every step changes the plan, makes a contribution count, averages a round or
\* leaves all as it is.
LEMMA AverageStep ==
    ASSUME TypeOK, OwnRow, ReadyExact, ClosedExact, [Next]_vars
    PROVE  [Averaging!Next]_(Averaging!vars)
<1>1. ASSUME NEW r \in Rounds, NEW i \in Asgs, NEW w \in Workers, NEW a \in Adapters,
             Assign(r, i, w, a)
      PROVE  [Averaging!Next]_(Averaging!vars)
  <2>1. Plan' \subseteq Slots
    BY <1>1 DEF Assign, Plan, Slots, TypeOK, Rows
  <2>2. Chosen' = Chosen /\ Spent' = Spent
    BY <1>1 DEF Assign, Chosen, Used, SlotOf, WithStatus, Spent
  <2>3. Averages' = Averages
    BY <1>1, AveragesKept DEF Assign, CloseRound, TypeOK
  <2>4. Averaging!Replan
    BY <2>1, <2>2, <2>3 DEF Averaging!Replan, Plan, Chosen, Used, Spent, Averages, Slots
  <2>5. QED
    BY <2>4 DEF Averaging!Next
<1>2. ASSUME NEW c \in Cids, ActivateContribution(c)
      PROVE  [Averaging!Next]_(Averaging!vars)
  <2>1. PICK lost \in SUBSET Chosen :
               /\ c \notin Spent /\ \A p \in Chosen : p[2] # c
               /\ \A p \in Chosen \ lost : p[1] # SlotOf(c)
               /\ Chosen' = (Chosen \ lost) \cup {<<SlotOf(c), c>>}
               /\ Spent' = Spent \cup {p[2] : p \in lost}
    BY <1>2, ActivateChooses
  <2>2. c \in Stored
    BY <1>2 DEF ActivateContribution, Stored
  <2>3. PICK s \in Slots : s = SlotOf(c)
    BY <2>2, SlotKept
  <2>4. Averages' = Averages /\ Plan' = Plan
    <3>1. \A r \in Rounds : ~CloseRound(r)
      BY <1>2 DEF ActivateContribution, CloseRound, TypeOK
    <3>2. Plan' = Plan
      BY <1>2 DEF ActivateContribution, Plan
    <3>3. QED
      BY <3>1, <3>2, AveragesKept
  <2>5. Averaging!Choose(s, c, lost)
    BY <2>1, <2>3, <2>4
       DEF Averaging!Choose, Averaging!ContributionsOf, Averaging!SlotsOf,
           Plan, Chosen, Used, Spent, Averages
  <2>6. QED
    BY <2>5 DEF Averaging!Next, Chosen, Used, Slots
<1>3. ASSUME NEW r \in Rounds, CloseRound(r)
      PROVE  [Averaging!Next]_(Averaging!vars)
  <2>1. /\ \E s \in Plan : s[1] = r
        /\ {s \in Plan : s[1] = r} = {p[1] : p \in {q \in Chosen : q[1][1] = r}}
        /\ Averages' = Averages \cup {<<r, {q \in Chosen : q[1][1] = r}>>}
    BY <1>3, CloseAverages
  <2>2. Chosen' = Chosen /\ Spent' = Spent /\ Plan' = Plan
    BY <1>3 DEF CloseRound, Chosen, Used, SlotOf, WithStatus, Spent, Plan
  <2>3. Averaging!Average(r)
    BY <2>1, <2>2
       DEF Averaging!Average, Averaging!PlanOf, Averaging!ChosenOf, Averaging!SlotsOf,
           Plan, Chosen, Used, Spent, Averages
  <2>4. QED
    BY <2>3 DEF Averaging!Next
<1>4. CASE /\ \A r \in Rounds, i \in Asgs, w \in Workers, a \in Adapters : ~Assign(r, i, w, a)
           /\ \A c \in Cids : ~ActivateContribution(c)
           /\ \A r \in Rounds : ~CloseRound(r)
  <2>1. Plan' = Plan /\ Chosen' = Chosen /\ Spent' = Spent /\ Averages' = Averages
    BY <1>4, PlanKept, CountsKept, AveragesKept
  <2>2. QED
    BY <2>1 DEF Averaging!vars, Plan, Chosen, Used, Spent, Averages
<1>5. QED
  BY <1>1, <1>2, <1>3, <1>4

\* Where every assignment id belongs to one round, the rounds keep the promise
\* of RoundAverage: one contribution counts for an assignment, one that was
\* replaced never counts again, and a round is closed with all that counts for
\* it, which is what its plan asks for.
THEOREM ImplementsAverage == ASSUME OneHome PROVE Spec => AverageSpec
<1> DEFINE Inv == OwnRow /\ RowsDistinct /\ ReadyExact /\ ClosedExact
<1>1. Init => Inv
  BY DEF Init, OwnRow, RowsDistinct, ReadyExact, ClosedExact, Stored, Closed
<1>2. TypeOK /\ Inv /\ [Next]_vars => Inv'
  BY RowsStep, ReadyStep, ClosedStep
<1>3. Init => Averaging!Init
  BY DEF Init, Averaging!Init, Closed, WithStatus
<1>4. TypeOK /\ Inv /\ [Next]_vars => [Averaging!Next]_(Averaging!vars)
  BY AverageStep
<1>5. QED
  BY <1>1, <1>2, <1>3, <1>4, TypeCorrect, PTL DEF Spec, AverageSpec, Averaging!Spec
-----------------------------------------------------------------------------
\* What RoundAverage promises

\* A slot has one contribution and a contribution one slot.
OneToOne(pairs) == \A p, q \in pairs : (p[1] = q[1]) <=> (p[2] = q[2])

\* CountsOnce, and that what counts are pairs of a slot and a contribution.
Once ==
    /\ Chosen \subseteq Slots \X Cids
    /\ OneToOne(Chosen)
    /\ \A p \in Chosen : p[2] \notin Spent
    /\ \A avg \in Averages : OneToOne(avg[2]) /\ \A p \in avg[2] : p[1][1] = avg[1]

\* The steps of RoundAverage as changes of what counts, is spent and averaged.
LEMMA AveragingActions ==
    ASSUME [Averaging!Next]_(Averaging!vars)
    PROVE  \/ Chosen' = Chosen /\ Spent' = Spent /\ Averages' = Averages
           \/ \E lost \in SUBSET Chosen :
                 /\ Spent' = Spent \cup {p[2] : p \in lost} /\ Averages' = Averages
                 /\ \/ Chosen' = Chosen \ lost
                    \/ \E s \in Slots, c \in Cids :
                          /\ Chosen' = (Chosen \ lost) \cup {<<s, c>>}
                          /\ c \notin Spent /\ \A p \in Chosen : p[2] # c
                          /\ \A p \in Chosen \ lost : p[1] # s
           \/ \E r \in Rounds :
                 /\ Chosen' = Chosen /\ Spent' = Spent
                 /\ Averages' \subseteq Averages \cup {<<r, {q \in Chosen : q[1][1] = r}>>}
<1>1. CASE Averaging!Replan \/ UNCHANGED Averaging!vars
  BY <1>1 DEF Averaging!Replan, Averaging!vars, Chosen, Spent, Averages, Used
<1>2. ASSUME NEW lost \in SUBSET Chosen, Averaging!Withdraw(lost)
      PROVE  /\ Spent' = Spent \cup {p[2] : p \in lost} /\ Averages' = Averages
             /\ Chosen' = Chosen \ lost
  BY <1>2 DEF Averaging!Withdraw, Averaging!ContributionsOf, Chosen, Spent, Averages, Used
<1>3. ASSUME NEW lost \in SUBSET Chosen, NEW s \in Slots, NEW c \in Cids,
             Averaging!Choose(s, c, lost)
      PROVE  /\ Spent' = Spent \cup {p[2] : p \in lost} /\ Averages' = Averages
             /\ Chosen' = (Chosen \ lost) \cup {<<s, c>>}
             /\ c \notin Spent /\ \A p \in Chosen : p[2] # c
             /\ \A p \in Chosen \ lost : p[1] # s
  BY <1>3 DEF Averaging!Choose, Averaging!ContributionsOf, Averaging!SlotsOf,
              Chosen, Spent, Averages, Used
<1>4. ASSUME NEW r \in Rounds, Averaging!Average(r)
      PROVE  /\ Chosen' = Chosen /\ Spent' = Spent
             /\ Averages' \subseteq Averages \cup {<<r, {q \in Chosen : q[1][1] = r}>>}
  BY <1>4 DEF Averaging!Average, Averaging!ChosenOf, Chosen, Spent, Averages, Used
<1>5. \/ Averaging!Replan \/ UNCHANGED Averaging!vars
      \/ \E lost \in SUBSET Chosen : \/ Averaging!Withdraw(lost)
                                     \/ \E s \in Slots, c \in Cids : Averaging!Choose(s, c, lost)
      \/ \E r \in Rounds : Averaging!Average(r)
  BY DEF Averaging!Next, Chosen, Used, Slots
<1>6. CASE \E lost \in SUBSET Chosen : \/ Averaging!Withdraw(lost)
                                       \/ \E s \in Slots, c \in Cids : Averaging!Choose(s, c, lost)
  <2>1. PICK lost \in SUBSET Chosen : \/ Averaging!Withdraw(lost)
                                      \/ \E s \in Slots, c \in Cids : Averaging!Choose(s, c, lost)
    BY <1>6
  <2>2. CASE Averaging!Withdraw(lost)
    BY <1>2, <2>2
  <2>3. CASE \E s \in Slots, c \in Cids : Averaging!Choose(s, c, lost)
    <3>1. PICK s \in Slots, c \in Cids : Averaging!Choose(s, c, lost)
      BY <2>3
    <3>2. /\ Spent' = Spent \cup {p[2] : p \in lost} /\ Averages' = Averages
          /\ Chosen' = (Chosen \ lost) \cup {<<s, c>>}
          /\ c \notin Spent /\ \A p \in Chosen : p[2] # c
          /\ \A p \in Chosen \ lost : p[1] # s
      BY <1>3, <3>1
    <3>3. QED
      BY <3>2
  <2>4. QED
    BY <2>1, <2>2, <2>3
<1>7. CASE \E r \in Rounds : Averaging!Average(r)
  BY <1>4, <1>7
<1>8. QED
  BY <1>1, <1>5, <1>6, <1>7

\* They keep Once: a contribution that is chosen was never spent, so the ones
\* that are spent for it are others.
LEMMA OnceStep ==
    ASSUME Once, [Averaging!Next]_(Averaging!vars)
    PROVE  Once' /\ Spent \subseteq Spent'
<1>1. CASE Chosen' = Chosen /\ Spent' = Spent /\ Averages' = Averages
  BY <1>1 DEF Once, Slots, OneToOne
<1>2. ASSUME NEW lost \in SUBSET Chosen, Spent' = Spent \cup {p[2] : p \in lost},
             Averages' = Averages,
             \/ Chosen' = Chosen \ lost
             \/ \E s \in Slots, c \in Cids :
                   /\ Chosen' = (Chosen \ lost) \cup {<<s, c>>}
                   /\ c \notin Spent /\ \A p \in Chosen : p[2] # c
                   /\ \A p \in Chosen \ lost : p[1] # s
      PROVE  Once' /\ Spent \subseteq Spent'
  <2>1. \A p \in Chosen \ lost : p[2] \notin Spent'
    <3> SUFFICES ASSUME NEW p \in Chosen \ lost, NEW q \in lost, p[2] = q[2]
                 PROVE  FALSE
      BY <1>2 DEF Once
    <3>1. p \in Slots \X Cids /\ q \in Slots \X Cids /\ p[1] = q[1]
      BY DEF Once, OneToOne
    <3>2. QED
      BY <3>1
  <2>2. CASE Chosen' = Chosen \ lost
    BY <1>2, <2>1, <2>2 DEF Once, Slots, OneToOne
  <2>3. ASSUME NEW s \in Slots, NEW c \in Cids, Chosen' = (Chosen \ lost) \cup {<<s, c>>},
               c \notin Spent, \A p \in Chosen : p[2] # c, \A p \in Chosen \ lost : p[1] # s
        PROVE  Once' /\ Spent \subseteq Spent'
    <3>1. c \notin Spent'
      BY <1>2, <2>3
    <3>2. OneToOne(Chosen)'
      BY <2>3 DEF Once, OneToOne
    <3>3. Chosen' \subseteq Slots \X Cids
      BY <2>3 DEF Once
    <3>4. \A p \in Chosen' : p[2] \notin Spent'
      BY <2>1, <2>3, <3>1
    <3>5. QED
      BY <1>2, <3>2, <3>3, <3>4 DEF Once, Slots, OneToOne
  <2>4. QED
    BY <1>2, <2>2, <2>3
<1>3. ASSUME NEW r \in Rounds, Chosen' = Chosen, Spent' = Spent,
             Averages' \subseteq Averages \cup {<<r, {q \in Chosen : q[1][1] = r}>>}
      PROVE  Once' /\ Spent \subseteq Spent'
  <2>1. \A avg \in Averages' : OneToOne(avg[2]) /\ \A p \in avg[2] : p[1][1] = avg[1]
    BY <1>3 DEF Once, OneToOne
  <2>2. QED
    BY <1>3, <2>1 DEF Once, Slots, OneToOne
<1>4. QED
  BY <1>1, <1>2, <1>3, AveragingActions

\* Under RoundAverage one contribution counts for a slot, what is spent does not
\* count, and every average is of contributions that counted once, in its round.
THEOREM AverageCountsOnce == AverageSpec => []Averaging!CountsOnce
<1>1. Averaging!Init => Once
  BY DEF Averaging!Init, Once, OneToOne, Chosen, Used, Spent, Averages
<1>2. Once /\ [Averaging!Next]_(Averaging!vars) => Once'
  BY OnceStep
<1>3. Once => Averaging!CountsOnce
  BY DEF Once, OneToOne, Averaging!CountsOnce, Averaging!OneEach, Averaging!ContributionsOf,
         Chosen, Used, Spent, Averages
<1>4. QED
  BY <1>1, <1>2, <1>3, PTL DEF AverageSpec, Averaging!Spec

\* Under RoundAverage a contribution that was replaced never counts again.
THEOREM AverageSpentForGood == AverageSpec => Averaging!SpentForGood
<1>1. Averaging!Init => Once
  BY DEF Averaging!Init, Once, OneToOne, Chosen, Used, Spent, Averages
<1>2. Once /\ [Averaging!Next]_(Averaging!vars) => Once' /\ Spent \subseteq Spent'
  BY OnceStep
<1>3. QED
  BY <1>1, <1>2, PTL DEF AverageSpec, Averaging!Spec, Averaging!SpentForGood, Spent

\* So in RC5.3, with assignment ids of their own for every round, no
\* contribution is averaged beside another one for the same assignment.
COROLLARY RoundsCountOnce == ASSUME OneHome PROVE Spec => []Averaging!CountsOnce
BY ImplementsAverage, AverageCountsOnce, PTL
===============================================================================
