-------------------------- MODULE SplitPipelineProofs --------------------------
(***************************************************************************)
(* Proofs about SplitPipeline, for any number of micro units, launches and *)
(* crashes: types, what the end of a lease stops, one contribution per     *)
(* micro unit, the recovery journal's brackets, and what is promised of a  *)
(* micro unit's owner.                                                     *)
(***************************************************************************)
EXTENDS SplitPipeline, TLAPS

\* Every handler leaves a unit in a state of UnitStates.
LEMMA StateAfterType ==
    ASSUME TypeOK, NEW l \in Launches, NEW k \in Methods
    PROVE  StateAfter(l, k) \in UnitStates
BY DEF StateAfter, UnitStates, TypeOK, Methods, Gated

\* Every answered call leads to a step other than acquiring a lease.
LEMMA StepAfterType ==
    ASSUME NEW l \in Launches, NEW k \in Gated
    PROVE  StepAfter(l, k) \in Steps \ {"acquire"}
BY DEF StepAfter, Steps, Gated

\* A logical key is a key of the table, and names its method.
LEMMA KeyType ==
    ASSUME TypeOK, NEW l \in Launches, NEW k \in Methods
    PROVE  LogicalKey(l, k) \in Keys /\ LogicalKey(l, k)[1] = k
BY DEF LogicalKey, TypeOK, Keys, Methods, Gated

\* The step a launch is at when a call of its own is answered.
LEMMA CallerGated ==
    ASSUME TypeOK, NEW l \in Launches, NEW k \in Methods, pc[l] = k
    PROVE  k \in Gated
BY DEF TypeOK, Steps, Methods

\* Every operation keeps the types.
LEMMA TypeStep == TypeOK /\ [Next]_vars => TypeOK'
<1> SUFFICES ASSUME TypeOK, [Next]_vars PROVE TypeOK'
  OBVIOUS
<1> USE DEF TypeOK
<1>1. ASSUME NEW l \in Launches, NEW m \in Micro \cup {None}, Grant(l, m)
      PROVE  /\ mu' \in [Launches -> Micro \cup {None}]
             /\ lease' \in [Launches -> {"NONE", "ACTIVE", "EXPIRED"}]
  BY <1>1 DEF Grant
<1>2. ASSUME NEW l \in Launches, NEW m \in Micro, Acquire(l, m) PROVE TypeOK'
  BY <1>1, <1>2 DEF Acquire, Goto, Steps, Gated
<1>3. ASSUME NEW l \in Launches, Expire(l) PROVE TypeOK'
  BY <1>3 DEF Expire
<1>4. ASSUME NEW l \in Launches, NEW k \in Methods, Admit(l, k) PROVE TypeOK'
  BY <1>4 DEF Admit, Stages
<1>5. ASSUME NEW l \in Launches, NEW k \in Methods, Commit(l, k) PROVE TypeOK'
  BY <1>5, StateAfterType DEF Commit, Execute, CheckpointUpload, Remember, Stages
<1>6. ASSUME NEW l \in Launches, NEW k \in Methods, SaveIdem(l, k)
      PROVE  /\ idem' \subseteq Keys \X Launches /\ serving' \subseteq (Launches \X Methods \X Stages)
             /\ UNCHANGED <<mu, lease, unit, ctx, journal, contrib, checked, crashes>>
  BY <1>6, KeyType DEF SaveIdem
<1>7. ASSUME NEW l \in Launches, NEW k \in Methods, Store(l, k) \/ StoreLost(l, k) PROVE TypeOK'
  BY <1>6, <1>7, StepAfterType, CallerGated DEF Store, StoreLost, Goto
<1>8. ASSUME NEW l \in Launches, NEW k \in Gated, Replay(l, k) \/ CallRefused(l, k) PROVE TypeOK'
  BY <1>8, StepAfterType DEF Replay, CallRefused, Goto, Steps
<1>9. CASE Crash
  BY <1>9 DEF Crash
<1>10. ASSUME NEW l \in Launches,
              \/ Apply(l) \/ JournalApplied(l) \/ Recover(l) \/ JournalReceipt(l)
              \/ JournalRefused(l) \/ Register(l) \/ Dies(l) \/ JournalCheck(l)
       PROVE  TypeOK'
  BY <1>10 DEF Apply, JournalApplied, Recover, JournalReceipt, JournalRefused, Register, Dies,
     JournalCheck, JournalSet, Goto, WorkerVars, Steps, Gated, JournalStates
<1>11. ASSUME NEW l \in Launches, NEW o \in Launches, RecoverReassigned(l, o) PROVE TypeOK'
  BY <1>1, <1>11 DEF RecoverReassigned, Steps
<1>12. CASE UNCHANGED vars
  BY <1>12 DEF vars
<1>13. QED
  BY <1>2, <1>3, <1>4, <1>5, <1>7, <1>8, <1>9, <1>10, <1>11, <1>12 DEF Next, Methods

\* The tables of the server and the journal always hold well-formed rows.
THEOREM TypeCorrect == Spec => []TypeOK
<1>1. Init => TypeOK
  BY DEF Init, TypeOK, Steps, UnitStates, JournalStates
<1>2. QED
  BY <1>1, TypeStep, PTL DEF Spec

-----------------------------------------------------------------------------
\* Launches not yet started, and what the end of a lease stops

\* A launch not yet started has left nothing; a started one has its micro unit.
Started ==
    \A l \in Launches :
       IF pc[l] = "acquire"
       THEN /\ lease[l] = "NONE" /\ unit[l] = "NONE" /\ journal[l] = "NONE"
            /\ l \notin contrib /\ l \notin checked
            /\ \A key \in Keys : <<key, l>> \notin idem
            /\ \A k \in Methods, stage \in Stages : <<l, k, stage>> \notin serving
       ELSE mu[l] \in Micro

\* Every operation keeps it.
LEMMA StartedStep ==
    ASSUME TypeOK, Started, [Next]_vars
    PROVE  Started'
<1> USE DEF TypeOK
<1>1. ASSUME NEW l \in Launches, NEW m \in Micro, Grant(l, m),
             NEW to \in {"open", "DEAD"}, pc' = [pc EXCEPT ![l] = to],
             UNCHANGED <<unit, idem, journal, contrib, serving, checked>>
      PROVE  Started'
  BY <1>1 DEF Grant, Started
<1>2. ASSUME NEW l \in Launches, NEW m \in Micro, Acquire(l, m) PROVE Started'
  BY <1>1, <1>2 DEF Acquire, Goto
<1>3. ASSUME NEW l \in Launches, NEW o \in Launches, RecoverReassigned(l, o) PROVE Started'
  <2>1. mu[l] \in Micro
    BY <1>3 DEF RecoverReassigned, Started
  <2>2. QED
    BY <1>1, <1>3, <2>1 DEF RecoverReassigned
<1>4. ASSUME NEW l \in Launches, Expire(l) PROVE Started'
  BY <1>4 DEF Expire, Holds, Started
<1>5. ASSUME NEW l \in Launches, UNCHANGED <<mu, lease, unit, idem, contrib, serving>>,
             pc[l] # "acquire", \A o \in Launches \ {l} : journal'[o] = journal[o],
             checked' \subseteq checked,
             NEW step \in Steps \ {"acquire"}, pc' = [pc EXCEPT ![l] = step]
      PROVE  Started'
  BY <1>5 DEF Started
<1>6. ASSUME NEW l \in Launches, NEW k \in Gated, Replay(l, k) \/ CallRefused(l, k)
      PROVE  Started'
  <2>1. pc[l] # "acquire" /\ \E step \in Steps \ {"acquire"} : pc' = [pc EXCEPT ![l] = step]
    BY <1>6, StepAfterType DEF Replay, CallRefused, Goto, Gated, Steps
  <2>2. QED
    BY <1>5, <1>6, <2>1 DEF Replay, CallRefused
<1>7. ASSUME NEW l \in Launches,
             \/ Apply(l) \/ JournalApplied(l) \/ Recover(l) \/ JournalReceipt(l)
             \/ JournalRefused(l) \/ Register(l) \/ Dies(l)
      PROVE  Started'
  <2>1. pc[l] # "acquire"
    BY <1>7 DEF Apply, JournalApplied, Recover, JournalReceipt, JournalRefused, Register, Dies,
       Started
  <2>2. /\ UNCHANGED <<mu, lease, unit, idem, contrib, serving>> /\ checked' \subseteq checked
        /\ \A o \in Launches \ {l} : journal'[o] = journal[o]
        /\ \E step \in Steps \ {"acquire"} : pc' = [pc EXCEPT ![l] = step]
    BY <1>7 DEF Apply, JournalApplied, Recover, JournalReceipt, JournalRefused, Register, Dies,
       JournalSet, Goto, WorkerVars, Gated, Steps
  <2>3. QED
    BY <1>5, <2>1, <2>2
<1>8. ASSUME NEW l \in Launches, NEW k \in Methods, Admit(l, k) PROVE Started'
  <2>1. pc[l] # "acquire"
    BY <1>8 DEF Admit, Ready, Started, Methods, Gated
  <2>2. QED
    BY <1>8, <2>1 DEF Admit, Started
<1>9. ASSUME NEW l \in Launches, NEW k \in Methods, Commit(l, k) PROVE Started'
  <2>1. pc[l] # "acquire"
    BY <1>9 DEF Commit, Started, Stages
  <2>2. QED
    BY <1>9, <2>1 DEF Commit, Execute, CheckpointUpload, Started
<1>10. ASSUME NEW l \in Launches, NEW k \in Methods, Store(l, k) \/ StoreLost(l, k) PROVE Started'
  <2>1. SaveIdem(l, k) /\ pc[l] # "acquire"
    BY <1>10 DEF Store, StoreLost, SaveIdem, Started, Stages
  <2>2. \A o \in Launches \ {l} : pc'[o] = pc[o]
    BY <1>10 DEF Store, StoreLost, Goto
  <2>3. pc'[l] # "acquire"
    BY <1>10, <2>1, StepAfterType, CallerGated DEF Store, StoreLost, Goto
  <2>4. QED
    BY <2>1, <2>2, <2>3 DEF SaveIdem, Started
<1>11. CASE Crash
  BY <1>11 DEF Crash, Started
<1>12. ASSUME NEW l \in Launches, JournalCheck(l) PROVE Started'
  BY <1>12 DEF JournalCheck, Started
<1>13. CASE UNCHANGED vars
  BY <1>13 DEF vars, Started
<1>14. QED
  BY <1>2, <1>3, <1>4, <1>6, <1>7, <1>8, <1>9, <1>10, <1>11, <1>12, <1>13 DEF Next, Methods

\* Once a launch's lease is over and what it had let in is done, no step of
\* anybody changes anything of the launch but an abort of its unit.
LEMMA StoppedStays ==
    ASSUME TypeOK, Started, Next, NEW l \in Launches, Stopped(l)
    PROVE  Frozen(l)
<1> USE DEF TypeOK
<1>0. mu'[l] = mu[l] /\ idem' = idem => \A k \in Gated : Answered(l, k)' <=> Answered(l, k)
  BY DEF Answered, LogicalKey
<1>1. /\ lease[l] = "EXPIRED" /\ ~Holds(l) /\ l \notin checked /\ pc[l] # "acquire"
      /\ \A k \in Gated, stage \in Stages : <<l, k, stage>> \notin serving
  BY DEF Stopped, InService, Holds, Started
<1>2. ASSUME mu'[l] = mu[l], lease'[l] = lease[l], unit'[l] = unit[l], journal'[l] = journal[l],
             UNCHANGED <<idem, contrib, serving>>, l \notin checked',
             pc[l] \in Gated => pc'[l] \in {pc[l], "DEAD"}
      PROVE  Frozen(l)
  BY <1>0, <1>1, <1>2 DEF Stopped, InService, Frozen
<1>3. ASSUME NEW o \in Launches, NEW m \in Micro, Acquire(o, m) PROVE Frozen(l)
  BY <1>1, <1>2, <1>3 DEF Acquire, Grant, Goto
<1>4. ASSUME NEW o \in Launches, NEW p \in Launches, RecoverReassigned(p, o) PROVE Frozen(l)
  BY <1>1, <1>2, <1>4 DEF RecoverReassigned, Grant
<1>5. ASSUME NEW o \in Launches, Expire(o) PROVE Frozen(l)
  BY <1>1, <1>2, <1>5 DEF Expire, Holds
<1>6. ASSUME NEW o \in Launches, NEW k \in Methods, Admit(o, k) PROVE Frozen(l)
  <2>1. o = l => k \notin Gated
    BY <1>1, <1>6 DEF Admit, Gate
  <2>2. /\ UNCHANGED <<mu, lease, pc, unit, idem, journal, contrib, checked>>
        /\ serving' = {<<o, k, "admitted">>}
    BY <1>6 DEF Admit
  <2>3. ~InService(l)'
    BY <2>1, <2>2 DEF InService
  <2>4. QED
    BY <1>0, <1>1, <2>2, <2>3 DEF Stopped, Frozen
<1>7. ASSUME NEW o \in Launches, NEW k \in Methods, Commit(o, k) PROVE Frozen(l)
  <2>1. o = l => k = "abort"
    BY <1>1, <1>7 DEF Commit, Methods, Stages
  <2>2. /\ UNCHANGED <<mu, lease, pc, idem, journal, checked>>
        /\ serving' = {<<o, k, "committed">>}
        /\ unit' = [unit EXCEPT ![o] = StateAfter(o, k)]
        /\ contrib' = IF k = "upload" THEN contrib \cup {o} ELSE contrib
    BY <1>7 DEF Commit, Execute, CheckpointUpload
  <2>3. ~InService(l)'
    BY <2>1, <2>2 DEF InService, Gated
  <2>4. unit'[l] \in {unit[l], "ABORTED"} /\ (l \in contrib' <=> l \in contrib)
    BY <2>1, <2>2 DEF StateAfter
  <2>5. QED
    BY <1>0, <1>1, <2>2, <2>3, <2>4 DEF Stopped, Frozen
<1>8. ASSUME NEW o \in Launches, NEW k \in Methods, Store(o, k) \/ StoreLost(o, k) PROVE Frozen(l)
  <2>1. /\ serving = {<<o, k, "committed">>} /\ serving' = {}
        /\ idem' = idem \cup {<<LogicalKey(o, k), o>>}
        /\ UNCHANGED <<mu, lease, unit, journal, contrib, checked>>
    BY <1>8 DEF Store, StoreLost, SaveIdem
  <2>2. o = l => k \notin Gated
    BY <1>1, <2>1 DEF Stages
  <2>3. \A g \in Gated : LogicalKey(l, g)[1] = g /\ (o = l => LogicalKey(o, k)[1] \notin Gated)
    BY <2>2, KeyType DEF Methods
  <2>4. \A g \in Gated : Answered(l, g)' <=> Answered(l, g)
    <3> SUFFICES ASSUME NEW g \in Gated PROVE Answered(l, g)' <=> Answered(l, g)
      OBVIOUS
    <3>1. LogicalKey(l, g)' = LogicalKey(l, g)
      BY <2>1 DEF LogicalKey
    <3>2. <<LogicalKey(l, g), l>> # <<LogicalKey(o, k), o>>
      BY <2>3
    <3>3. QED
      BY <2>1, <3>1, <3>2 DEF Answered
  <2>5. pc[l] \in Gated => pc'[l] = pc[l]
    <3>1. CASE o = l
      BY <1>8, <2>2, <3>1, CallerGated DEF Store, StoreLost, Goto
    <3>2. CASE o # l
      BY <1>8, <3>2 DEF Store, StoreLost, Goto
    <3>3. QED
      BY <3>1, <3>2
  <2>6. QED
    BY <1>1, <2>1, <2>4, <2>5 DEF Stopped, InService, Frozen
<1>9. ASSUME NEW o \in Launches, NEW k \in Gated, Replay(o, k) PROVE Frozen(l)
  <2>1. o # l
    BY <1>1, <1>9 DEF Replay, Gate
  <2>2. QED
    BY <1>1, <1>2, <1>9, <2>1 DEF Replay, Goto
<1>10. ASSUME NEW o \in Launches, NEW k \in Gated, CallRefused(o, k) PROVE Frozen(l)
  BY <1>1, <1>2, <1>10 DEF CallRefused, Goto
<1>11. CASE Crash
  BY <1>0, <1>1, <1>11 DEF Crash, Stopped, InService, Frozen
<1>12. ASSUME NEW o \in Launches,
              \/ Apply(o) \/ JournalApplied(o) \/ Recover(o) \/ JournalReceipt(o)
              \/ JournalRefused(o) \/ Register(o) \/ Dies(o)
       PROVE  Frozen(l)
  <2>1. /\ UNCHANGED <<mu, lease, unit, idem, contrib, serving>> /\ checked' \subseteq checked
        /\ journal'[l] = journal[l]
    BY <1>1, <1>12 DEF Apply, JournalApplied, Recover, JournalReceipt, JournalRefused, Register,
       Dies, JournalSet, WorkerVars
  <2>2. pc[l] \in Gated => pc'[l] \in {pc[l], "DEAD"}
    BY <1>12 DEF Apply, JournalApplied, Recover, JournalReceipt, JournalRefused, Register, Dies,
       Goto, Gated
  <2>3. QED
    BY <1>1, <1>2, <2>1, <2>2
<1>13. ASSUME NEW o \in Launches, JournalCheck(o) PROVE Frozen(l)
  BY <1>1, <1>2, <1>13 DEF JournalCheck
<1>14. QED
  BY <1>3, <1>4, <1>5, <1>6, <1>7, <1>8, <1>9, <1>10, <1>11, <1>12, <1>13 DEF Next, Methods

\* The end of a lease stops its launch, after the one call or journal write
\* that the lease had let in.
THEOREM LeaseGatesTheorem == Spec => LeaseGates
<1>1. Init => Started
  BY DEF Init, Started
<1>2. TypeOK /\ Started /\ [Next]_vars => Started'
  BY StartedStep
<1>3. TypeOK /\ Started /\ [Next]_vars =>
        [\A l \in Launches : Stopped(l) => Frozen(l)]_vars
  BY StoppedStays
<1>4. QED
  BY <1>1, <1>2, <1>3, TypeCorrect, PTL DEF Spec, LeaseGates

-----------------------------------------------------------------------------
\* One contribution per micro unit

\* The steps of a launch whose step.open was answered.
Opened == {"forward", "fetch", "apply", "applied", "update", "commit", "receipt", "upload",
           "register", "DONE"}

OpenKey(l) == <<<<"open", mu[l]>>, l>>

\* A launch that got past step.open is the one whose payload is stored for its
\* micro unit, and a key stores one payload.
OpenStored ==
    /\ \A l \in Launches :
          pc[l] \in Opened \/ journal[l] # "NONE" \/ l \in contrib => OpenKey(l) \in idem
    /\ \A l, o \in Launches, key \in Keys : <<key, l>> \in idem /\ <<key, o>> \in idem => l = o

\* What is still true, when its handler commits, of what let a call in: all but
\* the lease.
Served ==
    \A l \in Launches, k \in Methods, stage \in Stages : <<l, k, stage>> \in serving =>
       /\ ~Taken(l, k)
       /\ k \in Gated => pc[l] \in {k, "DEAD"}
       /\ k \in Gated \ {"open"} => OpenKey(l) \in idem
       /\ stage = "admitted" => Ready(l, k)
       /\ stage = "committed" /\ k = "commit" => unit[l] = "COMMITTED"

\* Where a journaled launch stands, what its journal says, and that a stored
\* answer to step.commit means a committed unit; the others have no journal.
JournalAt ==
    /\ \A l \in Launches \ Journaled :
          journal[l] = "NONE" /\ pc[l] \notin {"applied", "receipt"}
    /\ \A l \in Journaled :
          /\ pc[l] \in {"acquire", "open", "forward", "fetch", "apply"} => journal[l] = "NONE"
          /\ pc[l] = "applied" => journal[l] = "PREPARED"
          /\ pc[l] \in {"update", "commit", "receipt"} => journal[l] = "SUBMITTED"
          /\ pc[l] = "receipt" => unit[l] = "COMMITTED"
          /\ pc[l] \in {"upload", "register", "DONE"} => journal[l] = "COMMITTED"
          /\ <<<<"commit", l>>, l>> \in idem => unit[l] = "COMMITTED"
          /\ \A stage \in Stages :
                /\ \A k \in {"open", "forward", "fetch"} :
                      <<l, k, stage>> \in serving => journal[l] = "NONE"
                /\ \A k \in {"update", "commit"} :
                      <<l, k, stage>> \in serving => journal[l] = "SUBMITTED"
                /\ <<l, "upload", stage>> \in serving => journal[l] = "COMMITTED"

\* What a step of the worker, of its journal or of a refusal leaves alone, and
\* where it goes.
Walks(l) ==
    /\ UNCHANGED <<mu, unit, ctx, idem, contrib, serving>>
    /\ \A o \in Launches \ {l} : pc'[o] = pc[o] /\ journal'[o] = journal[o]
    /\ \/ pc'[l] = "DEAD" /\ journal'[l] = journal[l]
       \/ l \notin Journaled /\ pc[l] = "apply" /\ pc'[l] = "update" /\ journal'[l] = journal[l]
       \/ l \in Journaled /\ pc[l] = "apply" /\ pc'[l] = "applied" /\ journal'[l] = "PREPARED"
       \/ pc[l] = "applied" /\ pc'[l] = "DEAD" /\ journal'[l] = "APPLIED"
       \/ /\ pc[l] = "DEAD" /\ journal[l] = "APPLIED"
          /\ pc'[l] = "update" /\ journal'[l] = "SUBMITTED"
       \/ pc[l] = "receipt" /\ pc'[l] = "upload" /\ journal'[l] = "COMMITTED"
       \/ pc[l] = "register" /\ pc'[l] = "DONE" /\ journal'[l] = journal[l]

\* Each of the worker's own actions is such a step.
LEMMA WorkerWalks ==
    ASSUME TypeOK, NEW l \in Launches,
           \/ Apply(l) \/ JournalApplied(l) \/ Recover(l) \/ JournalReceipt(l)
           \/ JournalRefused(l) \/ Register(l) \/ Dies(l)
           \/ \E k \in Gated : CallRefused(l, k)
    PROVE  Walks(l)
BY DEF TypeOK, Apply, JournalApplied, Recover, JournalReceipt, JournalRefused, Register, Dies,
   CallRefused, JournalSet, WorkerVars, Goto, Walks

\* An answer that reaches its caller, stored just now or before.
Advances(l, k) ==
    /\ UNCHANGED <<mu, unit, ctx, journal, contrib>>
    /\ \A o \in Launches \ {l} : pc'[o] = pc[o]
    /\ \/ pc'[l] = pc[l]
       \/ k \in Gated /\ pc[l] = k /\ pc'[l] = StepAfter(l, k)

\* The answers of the server advance their caller in this way, or not at all.
LEMMA AnswerAdvances ==
    ASSUME TypeOK, NEW l \in Launches, NEW k \in Methods,
           Store(l, k) \/ StoreLost(l, k) \/ (k \in Gated /\ Replay(l, k))
    PROVE  Advances(l, k)
<1>1. pc[l] = k => k \in Gated
  BY CallerGated
<1>2. CASE Store(l, k) \/ StoreLost(l, k)
  <2>1. UNCHANGED <<mu, unit, ctx, journal, contrib>>
    BY <1>2 DEF Store, StoreLost, SaveIdem
  <2>2. pc' = pc \/ (pc[l] = k /\ pc' = [pc EXCEPT ![l] = StepAfter(l, k)])
    BY <1>2 DEF Store, StoreLost, Goto
  <2>3. QED
    BY <1>1, <2>1, <2>2 DEF Advances, TypeOK
<1>3. CASE k \in Gated /\ Replay(l, k)
  BY <1>3 DEF TypeOK, Replay, Goto, Advances
<1>4. QED
  BY <1>2, <1>3

\* Every operation keeps what is stored for step.open.
LEMMA OpenStoredStep ==
    ASSUME TypeOK, Started, OpenStored, Served, [Next]_vars
    PROVE  OpenStored'
<1> USE DEF TypeOK
<1>1. ASSUME NEW l \in Launches, NEW k \in Methods, Advances(l, k), idem \subseteq idem',
             k \in Gated => OpenKey(l) \in idem',
             \A o, q \in Launches, key \in Keys :
                <<key, o>> \in idem' /\ <<key, q>> \in idem' => o = q
      PROVE  OpenStored'
  <2>1. ASSUME NEW o \in Launches, pc'[o] \in Opened \/ journal'[o] # "NONE" \/ o \in contrib'
        PROVE  OpenKey(o)' \in idem'
    BY <1>1, <2>1 DEF Advances, OpenStored, OpenKey
  <2>2. QED
    BY <1>1, <2>1 DEF OpenStored
<1>2. ASSUME NEW l \in Launches, NEW k \in Methods, SaveIdem(l, k)
      PROVE  /\ idem \subseteq idem'
             /\ k \in Gated => OpenKey(l) \in idem'
             /\ \A o, q \in Launches, key \in Keys :
                   <<key, o>> \in idem' /\ <<key, q>> \in idem' => o = q
  <2>1. /\ <<l, k, "committed">> \in serving
        /\ idem' = idem \cup {<<LogicalKey(l, k), l>>}
    BY <1>2 DEF SaveIdem
  <2>2. /\ \A o \in Launches : <<LogicalKey(l, k), o>> \in idem => o = l
        /\ k \in Gated \ {"open"} => OpenKey(l) \in idem
    BY <2>1 DEF Served, Taken, Stages
  <2>3. k = "open" => <<LogicalKey(l, k), l>> = OpenKey(l)
    BY DEF LogicalKey, OpenKey
  <2>4. \A o, q \in Launches, key \in Keys :
           <<key, o>> \in idem' /\ <<key, q>> \in idem' => o = q
    BY <2>1, <2>2 DEF OpenStored
  <2>5. QED
    BY <2>1, <2>2, <2>3, <2>4
<1>3. ASSUME NEW l \in Launches, NEW k \in Methods, Store(l, k) \/ StoreLost(l, k)
      PROVE  OpenStored'
  BY <1>1, <1>2, <1>3, AnswerAdvances DEF Store, StoreLost
<1>4. ASSUME NEW l \in Launches, NEW k \in Gated, Replay(l, k)
      PROVE  OpenStored'
  <2>1. idem' = idem /\ pc[l] = k /\ <<LogicalKey(l, k), l>> \in idem
    BY <1>4 DEF Replay, Answered
  <2>2. OpenKey(l) \in idem
    BY <2>1 DEF OpenStored, Opened, Gated, LogicalKey, OpenKey
  <2>3. QED
    BY <1>1, <1>4, <2>1, <2>2, AnswerAdvances DEF OpenStored, Methods
<1>5. ASSUME NEW l \in Launches, NEW k \in Methods, Commit(l, k)
      PROVE  OpenStored'
  <2>1. /\ UNCHANGED <<mu, pc, idem, journal>>
        /\ contrib' = IF k = "upload" THEN contrib \cup {l} ELSE contrib
        /\ <<l, k, "admitted">> \in serving
    BY <1>5 DEF Commit, Execute, CheckpointUpload
  <2>2. k = "upload" => OpenKey(l) \in idem
    BY <2>1 DEF Served, Stages, Gated
  <2>3. QED
    BY <2>1, <2>2 DEF OpenStored, OpenKey
<1>6. ASSUME NEW l \in Launches, NEW m \in Micro \cup {None}, Grant(l, m), pc[l] = "acquire",
             NEW to \in {"open", "DEAD"}, pc' = [pc EXCEPT ![l] = to],
             UNCHANGED <<idem, journal, contrib>>
      PROVE  OpenStored'
  <2>1. journal[l] = "NONE" /\ l \notin contrib
    BY <1>6 DEF Started
  <2>2. \A o \in Launches \ {l} : mu'[o] = mu[o] /\ pc'[o] = pc[o]
    BY <1>6 DEF Grant
  <2>3. pc'[l] = to /\ to \notin Opened
    BY <1>6 DEF Opened
  <2>4. \A o \in Launches :
          pc'[o] \in Opened \/ journal'[o] # "NONE" \/ o \in contrib' => OpenKey(o)' \in idem'
    BY <1>6, <2>1, <2>2, <2>3 DEF OpenStored, OpenKey
  <2>5. QED
    BY <1>6, <2>4 DEF OpenStored
<1>7. ASSUME NEW l \in Launches, Walks(l) PROVE OpenStored'
  <2>1. pc'[l] \in Opened \/ journal'[l] # "NONE" => pc[l] \in Opened \/ journal[l] # "NONE"
    BY <1>7 DEF Walks, Opened
  <2>2. QED
    BY <1>7, <2>1 DEF Walks, OpenStored, OpenKey
<1>8. ASSUME NEW l \in Launches, NEW m \in Micro, Acquire(l, m) PROVE OpenStored'
  BY <1>6, <1>8 DEF Acquire, Goto
<1>9. ASSUME NEW l \in Launches, NEW o \in Launches, RecoverReassigned(l, o) PROVE OpenStored'
  BY <1>6, <1>9 DEF RecoverReassigned
<1>10. CASE UNCHANGED <<mu, pc, idem, journal, contrib>>
  BY <1>10 DEF OpenStored, OpenKey
<1>11. ASSUME NEW l \in Launches,
              \/ Apply(l) \/ JournalApplied(l) \/ Recover(l) \/ JournalReceipt(l)
              \/ JournalRefused(l) \/ Register(l) \/ Dies(l)
              \/ \E k \in Gated : CallRefused(l, k)
       PROVE  OpenStored'
  BY <1>7, <1>11, WorkerWalks
<1>12. QED
  BY <1>3, <1>4, <1>5, <1>8, <1>9, <1>10, <1>11 DEF Next, vars, Expire, Admit, Crash,
     JournalCheck, Methods

\* What a handler that was ready leaves of the unit it is about.
LEMMA ExecuteUnit ==
    ASSUME TypeOK, NEW l \in Launches, NEW k \in Methods, Ready(l, k), Execute(l, k)
    PROVE  /\ \A o \in Launches \ {l} : unit'[o] = unit[o]
           /\ unit[l] = "COMMITTED" => unit'[l] = "COMMITTED"
           /\ k \in {"commit", "upload"} => unit'[l] = "COMMITTED"
           /\ k \in {"forward", "fetch", "abort"} => unit'[l] \notin {"DELTA_VERIFIED", "COMMITTED"}
           /\ k = "open" => unit'[l] = unit[l] \/ unit'[l] = "SERVER_ACTIVATION_READY"
           /\ contrib' = IF k = "upload" THEN contrib \cup {l} ELSE contrib
BY DEF TypeOK, Ready, Execute, StateAfter, CheckpointUpload, Methods, Gated

\* Only lease managers, a crash and the caller's death come between a call's
\* admission and its commit, and none of them changes what Served says.
LEMMA ServedStep ==
    ASSUME TypeOK, Started, OpenStored, Served, JournalAt, [Next]_vars
    PROVE  Served'
<1> USE DEF TypeOK
<1>1. ASSUME NEW l \in Launches, NEW k \in Methods, Admit(l, k) PROVE Served'
  <2>1. /\ serving' = {<<l, k, "admitted">>} /\ ~Taken(l, k) /\ Ready(l, k)
        /\ UNCHANGED <<mu, pc, unit, ctx, idem>>
        /\ k \in Gated => pc[l] = k
    BY <1>1 DEF Admit, Gated
  <2>2. k \in Gated \ {"open"} => OpenKey(l) \in idem
    BY <2>1 DEF OpenStored, Opened, Gated
  <2>3. ~Taken(l, k)' /\ Ready(l, k)' /\ OpenKey(l)' = OpenKey(l)
    BY <2>1 DEF Taken, LogicalKey, Ready, OpenKey
  <2>4. QED
    BY <2>1, <2>2, <2>3 DEF Served
<1>2. ASSUME NEW l \in Launches, NEW k \in Methods, Commit(l, k) PROVE Served'
  <2>1. /\ <<l, k, "admitted">> \in serving /\ serving' = {<<l, k, "committed">>}
        /\ Execute(l, k) /\ UNCHANGED <<mu, pc, idem>>
    BY <1>2 DEF Commit
  <2>2. /\ ~Taken(l, k) /\ Ready(l, k)
        /\ k \in Gated => pc[l] \in {k, "DEAD"}
        /\ k \in Gated \ {"open"} => OpenKey(l) \in idem
    BY <2>1 DEF Served, Stages
  <2>3. k = "commit" => unit'[l] = "COMMITTED"
    BY <2>1, <2>2, ExecuteUnit
  <2>4. ~Taken(l, k)' /\ OpenKey(l)' = OpenKey(l)
    BY <2>1, <2>2 DEF Taken, LogicalKey, OpenKey
  <2>5. QED
    BY <2>1, <2>2, <2>3, <2>4 DEF Served
<1>3. CASE serving' = {}
  BY <1>3 DEF Served
<1>4. ASSUME UNCHANGED <<mu, unit, ctx, idem, serving>>,
             \A l \in Launches, k \in Gated, stage \in Stages :
                <<l, k, stage>> \in serving => pc'[l] \in {pc[l], "DEAD"}
      PROVE  Served'
  <2>1. ASSUME NEW l \in Launches, NEW k \in Methods, NEW stage \in Stages,
               <<l, k, stage>> \in serving'
        PROVE  /\ ~Taken(l, k)'
               /\ k \in Gated => pc'[l] \in {k, "DEAD"}
               /\ k \in Gated \ {"open"} => OpenKey(l)' \in idem'
               /\ stage = "admitted" => Ready(l, k)'
               /\ stage = "committed" /\ k = "commit" => unit'[l] = "COMMITTED"
    <3>1. <<l, k, stage>> \in serving /\ (k \in Gated => pc'[l] \in {pc[l], "DEAD"})
      BY <1>4, <2>1
    <3>2. /\ ~Taken(l, k) /\ (k \in Gated => pc[l] \in {k, "DEAD"})
          /\ k \in Gated \ {"open"} => OpenKey(l) \in idem
          /\ stage = "admitted" => Ready(l, k)
          /\ stage = "committed" /\ k = "commit" => unit[l] = "COMMITTED"
      BY <3>1 DEF Served
    <3>3. /\ Taken(l, k)' <=> Taken(l, k)
          /\ Ready(l, k)' <=> Ready(l, k)
          /\ OpenKey(l)' = OpenKey(l)
      BY <1>4 DEF Taken, LogicalKey, Ready, OpenKey
    <3>4. QED
      BY <1>4, <3>1, <3>2, <3>3
  <2>2. QED
    BY <2>1 DEF Served
<1>5. ASSUME NEW l \in Launches, NEW m \in Micro \cup {None}, Grant(l, m), pc[l] = "acquire",
             NEW to \in {"open", "DEAD"}, pc' = [pc EXCEPT ![l] = to],
             UNCHANGED <<unit, ctx, idem, serving>>
      PROVE  Served'
  <2>1. \A o \in Launches \ {l} : mu'[o] = mu[o] /\ pc'[o] = pc[o]
    BY <1>5 DEF Grant
  <2>2. ASSUME NEW o \in Launches, NEW k \in Methods, NEW stage \in Stages,
               <<o, k, stage>> \in serving'
        PROVE  /\ ~Taken(o, k)'
               /\ k \in Gated => pc'[o] \in {k, "DEAD"}
               /\ k \in Gated \ {"open"} => OpenKey(o)' \in idem'
               /\ stage = "admitted" => Ready(o, k)'
               /\ stage = "committed" /\ k = "commit" => unit'[o] = "COMMITTED"
    <3>1. <<o, k, stage>> \in serving /\ o # l
      BY <1>5, <2>2 DEF Started
    <3>2. /\ ~Taken(o, k) /\ (k \in Gated => pc[o] \in {k, "DEAD"})
          /\ k \in Gated \ {"open"} => OpenKey(o) \in idem
          /\ stage = "admitted" => Ready(o, k)
          /\ stage = "committed" /\ k = "commit" => unit[o] = "COMMITTED"
      BY <3>1 DEF Served
    <3>3. /\ Taken(o, k)' <=> Taken(o, k)
          /\ Ready(o, k)' <=> Ready(o, k)
          /\ OpenKey(o)' = OpenKey(o)
      BY <1>5, <2>1, <3>1 DEF Taken, LogicalKey, Ready, OpenKey
    <3>4. QED
      BY <1>5, <2>1, <3>1, <3>2, <3>3
  <2>3. QED
    BY <2>2 DEF Served
<1>6. ASSUME NEW l \in Launches, Walks(l) PROVE Served'
  <2>1. ASSUME NEW k \in Gated, NEW stage \in Stages, <<l, k, stage>> \in serving,
               pc'[l] \notin {pc[l], "DEAD"}
        PROVE  FALSE
    <3>1. pc[l] \in {k, "DEAD"}
      BY <2>1 DEF Served, Methods
    <3>2. pc[l] = "DEAD" /\ journal[l] = "APPLIED"
      BY <1>6, <2>1, <3>1 DEF Walks, Gated
    <3>3. l \in Journaled
      BY <3>2 DEF JournalAt
    <3>4. journal[l] \in {"NONE", "SUBMITTED", "COMMITTED"}
      BY <2>1, <3>3 DEF JournalAt, Gated
    <3>5. QED
      BY <3>2, <3>4
  <2>2. ASSUME NEW o \in Launches, NEW k \in Gated, NEW stage \in Stages,
               <<o, k, stage>> \in serving
        PROVE  pc'[o] \in {pc[o], "DEAD"}
    <3>1. CASE o = l
      BY <2>1, <2>2, <3>1
    <3>2. CASE o # l
      BY <1>6, <3>2 DEF Walks
    <3>3. QED
      BY <3>1, <3>2
  <2>3. QED
    BY <1>4, <1>6, <2>2 DEF Walks
<1>7. ASSUME NEW l \in Launches,
             \/ Apply(l) \/ JournalApplied(l) \/ Recover(l) \/ JournalReceipt(l)
             \/ JournalRefused(l) \/ Register(l) \/ Dies(l)
             \/ \E k \in Gated : CallRefused(l, k)
      PROVE  Served'
  BY <1>6, <1>7, WorkerWalks
<1>8. ASSUME NEW l \in Launches, NEW m \in Micro, Acquire(l, m) PROVE Served'
  BY <1>5, <1>8 DEF Acquire, Goto
<1>9. ASSUME NEW l \in Launches, NEW o \in Launches, RecoverReassigned(l, o) PROVE Served'
  BY <1>5, <1>9 DEF RecoverReassigned
<1>10. ASSUME NEW l \in Launches, NEW k \in Methods,
              Store(l, k) \/ StoreLost(l, k)
       PROVE  Served'
  BY <1>3, <1>10 DEF Store, StoreLost, SaveIdem
<1>11. ASSUME NEW l \in Launches, NEW k \in Gated, Replay(l, k) PROVE Served'
  BY <1>11 DEF Replay, Served
<1>12. CASE UNCHANGED <<mu, pc, unit, ctx, idem, serving>>
  BY <1>4, <1>12
<1>13. QED
  BY <1>1, <1>2, <1>3, <1>7, <1>8, <1>9, <1>10, <1>11, <1>12 DEF Next, vars, Expire, Crash,
     JournalCheck, Methods

\* What holds between call, commit and stored answer, and between journal and row.
Books == Started /\ OpenStored /\ Served /\ JournalAt /\ JournalBrackets

\* Every operation keeps the journal's place and its brackets.
LEMMA JournalStep ==
    ASSUME TypeOK, Books, [Next]_vars
    PROVE  (JournalAt /\ JournalBrackets)'
<1> USE JournaledAssumption DEF TypeOK, Books
<1>1. ASSUME NEW l \in Launches, NEW k \in Methods, Commit(l, k)
      PROVE  (JournalAt /\ JournalBrackets)'
  <2>1. /\ <<l, k, "admitted">> \in serving /\ serving' = {<<l, k, "committed">>}
        /\ Execute(l, k) /\ UNCHANGED <<pc, idem, journal>>
    BY <1>1 DEF Commit
  <2>2. Ready(l, k)
    BY <2>1 DEF Served, Stages
  <2>3. l \in Journaled =>
           /\ k \in {"open", "forward", "fetch"} => journal[l] = "NONE"
           /\ k \in {"update", "commit"} => journal[l] = "SUBMITTED"
           /\ k = "upload" => journal[l] = "COMMITTED"
    BY <2>1 DEF JournalAt, Stages
  <2>4. \A o \in Launches : unit[o] = "COMMITTED" => unit'[o] = "COMMITTED"
    BY <2>1, <2>2, ExecuteUnit
  <2>5. JournalAt'
    <3>1. ASSUME NEW o \in Journaled, NEW stage \in Stages
          PROVE  /\ \A g \in {"open", "forward", "fetch"} :
                      <<o, g, stage>> \in serving' => journal[o] = "NONE"
                 /\ \A g \in {"update", "commit"} :
                      <<o, g, stage>> \in serving' => journal[o] = "SUBMITTED"
                 /\ <<o, "upload", stage>> \in serving' => journal[o] = "COMMITTED"
      BY <2>1, <2>3
    <3>2. QED
      BY <2>1, <2>4, <3>1 DEF JournalAt
  <2>6. JournalBrackets'
    <3>1. \A o \in Journaled \ {l} : unit'[o] = unit[o] /\ (o \in contrib' <=> o \in contrib)
      BY <2>1, <2>2, ExecuteUnit
    <3>2. l \in Journaled =>
            /\ unit'[l] \in {"DELTA_VERIFIED", "COMMITTED"} => journal[l] \in {"SUBMITTED", "COMMITTED"}
            /\ journal[l] = "COMMITTED" => unit'[l] = "COMMITTED"
            /\ l \in contrib' => journal[l] = "COMMITTED"
      <4> SUFFICES ASSUME l \in Journaled
                   PROVE  /\ unit'[l] \in {"DELTA_VERIFIED", "COMMITTED"}
                                => journal[l] \in {"SUBMITTED", "COMMITTED"}
                          /\ journal[l] = "COMMITTED" => unit'[l] = "COMMITTED"
                          /\ l \in contrib' => journal[l] = "COMMITTED"
        OBVIOUS
      <4>1. journal[l] = "COMMITTED" => unit'[l] = "COMMITTED"
        BY <2>4 DEF JournalBrackets
      <4>2. l \in contrib' => journal[l] = "COMMITTED"
        BY <2>1, <2>2, <2>3, ExecuteUnit DEF JournalBrackets
      <4>3. unit'[l] \in {"DELTA_VERIFIED", "COMMITTED"} => journal[l] \in {"SUBMITTED", "COMMITTED"}
        BY <2>1, <2>2, <2>3, ExecuteUnit DEF JournalBrackets, Methods, Gated
      <4>4. QED
        BY <4>1, <4>2, <4>3
    <3>3. QED
      BY <2>1, <3>1, <3>2 DEF JournalBrackets
  <2>7. QED
    BY <2>5, <2>6
<1>2. ASSUME NEW l \in Launches, NEW k \in Methods, Advances(l, k), serving' = {},
             k = "commit" => unit[l] = "COMMITTED",
             idem' \subseteq idem \cup {<<LogicalKey(l, k), l>>}
      PROVE  (JournalAt /\ JournalBrackets)'
  <2>1. /\ UNCHANGED <<unit, journal, contrib>>
        /\ \A o \in Launches \ {l} : pc'[o] = pc[o]
    BY <1>2 DEF Advances
  <2>2. ASSUME NEW o \in Journaled, <<<<"commit", o>>, o>> \in idem'
        PROVE  unit[o] = "COMMITTED"
    <3>1. CASE <<<<"commit", o>>, o>> \in idem
      BY <3>1 DEF JournalAt
    <3>2. CASE <<<<"commit", o>>, o>> = <<LogicalKey(l, k), l>>
      <4>1. o = l /\ k = "commit"
        BY <3>2, KeyType
      <4>2. QED
        BY <1>2, <4>1
    <3>3. QED
      BY <1>2, <2>2, <3>1, <3>2
  <2>3. l \in Journaled =>
          /\ pc'[l] \in {"acquire", "open", "forward", "fetch", "apply"} => journal[l] = "NONE"
          /\ pc'[l] = "applied" => journal[l] = "PREPARED"
          /\ pc'[l] \in {"update", "commit", "receipt"} => journal[l] = "SUBMITTED"
          /\ pc'[l] = "receipt" => unit[l] = "COMMITTED"
          /\ pc'[l] \in {"upload", "register", "DONE"} => journal[l] = "COMMITTED"
    <3>1. CASE pc'[l] = pc[l]
      BY <3>1 DEF JournalAt
    <3>2. CASE k \in Gated /\ pc[l] = k /\ pc'[l] = StepAfter(l, k)
      <4> SUFFICES ASSUME l \in Journaled
                   PROVE  /\ pc'[l] \in {"acquire", "open", "forward", "fetch", "apply"}
                                => journal[l] = "NONE"
                          /\ pc'[l] = "applied" => journal[l] = "PREPARED"
                          /\ pc'[l] \in {"update", "commit", "receipt"} => journal[l] = "SUBMITTED"
                          /\ pc'[l] = "receipt" => unit[l] = "COMMITTED"
                          /\ pc'[l] \in {"upload", "register", "DONE"} => journal[l] = "COMMITTED"
        OBVIOUS
      <4>1. /\ k = "open" => pc'[l] = "forward" /\ journal[l] = "NONE"
            /\ k = "forward" => pc'[l] = "fetch" /\ journal[l] = "NONE"
            /\ k = "fetch" => pc'[l] = "apply" /\ journal[l] = "NONE"
            /\ k = "update" => pc'[l] = "commit" /\ journal[l] = "SUBMITTED"
            /\ k = "commit" => pc'[l] = "receipt" /\ journal[l] = "SUBMITTED"
            /\ k = "upload" => pc'[l] = "register" /\ journal[l] = "COMMITTED"
        BY <3>2 DEF StepAfter, JournalAt
      <4>2. QED
        BY <1>2, <3>2, <4>1 DEF Gated
    <3>3. QED
      BY <1>2, <3>1, <3>2 DEF Advances
  <2>4. ASSUME NEW o \in Journaled
        PROVE  /\ pc'[o] \in {"acquire", "open", "forward", "fetch", "apply"} => journal[o] = "NONE"
               /\ pc'[o] = "applied" => journal[o] = "PREPARED"
               /\ pc'[o] \in {"update", "commit", "receipt"} => journal[o] = "SUBMITTED"
               /\ pc'[o] = "receipt" => unit[o] = "COMMITTED"
               /\ pc'[o] \in {"upload", "register", "DONE"} => journal[o] = "COMMITTED"
    <3>1. CASE o = l
      BY <2>3, <3>1
    <3>2. CASE o # l
      BY <2>1, <3>2 DEF JournalAt
    <3>3. QED
      BY <3>1, <3>2
  <2>5. l \notin Journaled => pc'[l] \notin {"applied", "receipt"}
    BY <1>2 DEF Advances, JournalAt, StepAfter, Gated
  <2>6. QED
    BY <1>2, <2>1, <2>2, <2>4, <2>5 DEF JournalAt, JournalBrackets
<1>3. ASSUME NEW l \in Launches, NEW k \in Methods, Store(l, k) \/ StoreLost(l, k)
      PROVE  (JournalAt /\ JournalBrackets)'
  <2>1. /\ <<l, k, "committed">> \in serving /\ serving' = {}
        /\ idem' = idem \cup {<<LogicalKey(l, k), l>>}
    BY <1>3 DEF Store, StoreLost, SaveIdem
  <2>2. k = "commit" => unit[l] = "COMMITTED"
    BY <2>1 DEF Served, Stages
  <2>3. QED
    BY <1>2, <1>3, <2>1, <2>2, AnswerAdvances
<1>4. ASSUME NEW l \in Launches, NEW k \in Gated, Replay(l, k)
      PROVE  (JournalAt /\ JournalBrackets)'
  <2>1. /\ serving' = {} /\ idem' = idem /\ pc[l] = k
        /\ <<LogicalKey(l, k), l>> \in idem
    BY <1>4 DEF Replay, Answered
  <2>2. CASE l \in Journaled
    <3>1. k = "commit" => unit[l] = "COMMITTED"
      BY <2>1, <2>2 DEF LogicalKey, JournalAt
    <3>2. QED
      BY <1>2, <1>4, <2>1, <3>1, AnswerAdvances DEF Methods
  <2>3. CASE l \notin Journaled
    <3>1. StepAfter(l, k) \notin {"applied", "receipt"}
      BY <2>3 DEF StepAfter, Gated
    <3>2. QED
      BY <1>4, <2>3, <3>1 DEF Replay, Goto, JournalAt, JournalBrackets
  <2>4. QED
    BY <2>2, <2>3
<1>5. ASSUME NEW l \in Launches, NEW k \in Methods, Admit(l, k)
      PROVE  (JournalAt /\ JournalBrackets)'
  <2>1. /\ serving' = {<<l, k, "admitted">>} /\ UNCHANGED <<pc, unit, idem, journal, contrib>>
        /\ k \in Gated => pc[l] = k
    BY <1>5 DEF Admit, Gated
  <2>2. ASSUME NEW o \in Journaled, NEW stage \in Stages
        PROVE  /\ \A g \in {"open", "forward", "fetch"} :
                    <<o, g, stage>> \in serving' => journal[o] = "NONE"
               /\ \A g \in {"update", "commit"} :
                    <<o, g, stage>> \in serving' => journal[o] = "SUBMITTED"
               /\ <<o, "upload", stage>> \in serving' => journal[o] = "COMMITTED"
    BY <2>1 DEF JournalAt, Gated
  <2>3. QED
    BY <2>1, <2>2 DEF JournalAt, JournalBrackets
<1>6. ASSUME NEW l \in Launches, Walks(l) PROVE (JournalAt /\ JournalBrackets)'
  <2>1. /\ UNCHANGED <<unit, idem, contrib, serving>>
        /\ \A o \in Launches \ {l} : pc'[o] = pc[o] /\ journal'[o] = journal[o]
    BY <1>6 DEF Walks
  <2>2. l \in Journaled =>
          \/ pc'[l] = "DEAD" /\ journal'[l] = journal[l]
          \/ pc[l] = "apply" /\ pc'[l] = "applied" /\ journal'[l] = "PREPARED"
          \/ pc[l] = "applied" /\ pc'[l] = "DEAD" /\ journal'[l] = "APPLIED"
          \/ /\ pc[l] = "DEAD" /\ journal[l] = "APPLIED"
             /\ pc'[l] = "update" /\ journal'[l] = "SUBMITTED"
          \/ pc[l] = "receipt" /\ pc'[l] = "upload" /\ journal'[l] = "COMMITTED"
          \/ pc[l] = "register" /\ pc'[l] = "DONE" /\ journal'[l] = journal[l]
    BY <1>6 DEF Walks
  <2>3. JournalBrackets'
    BY <2>1, <2>2 DEF JournalAt, JournalBrackets
  <2>4. ASSUME NEW o \in Journaled
        PROVE  /\ pc'[o] \in {"acquire", "open", "forward", "fetch", "apply"} => journal'[o] = "NONE"
               /\ pc'[o] = "applied" => journal'[o] = "PREPARED"
               /\ pc'[o] \in {"update", "commit", "receipt"} => journal'[o] = "SUBMITTED"
               /\ pc'[o] = "receipt" => unit[o] = "COMMITTED"
               /\ pc'[o] \in {"upload", "register", "DONE"} => journal'[o] = "COMMITTED"
    <3>1. CASE o = l
      BY <2>2, <3>1 DEF JournalAt
    <3>2. CASE o # l
      BY <2>1, <3>2 DEF JournalAt
    <3>3. QED
      BY <3>1, <3>2
  <2>5. ASSUME NEW o \in Journaled, NEW k \in Gated, NEW stage \in Stages,
               <<o, k, stage>> \in serving
        PROVE  journal'[o] = journal[o]
    <3>1. CASE o = l
      <4>1. pc[l] \in {k, "DEAD"}
        BY <2>5, <3>1 DEF Served, Methods
      <4>2. journal[l] # "APPLIED"
        BY <2>5, <3>1 DEF JournalAt, Gated
      <4>3. QED
        BY <2>2, <3>1, <4>1, <4>2 DEF Gated
    <3>2. CASE o # l
      BY <2>1, <3>2
    <3>3. QED
      BY <3>1, <3>2
  <2>6. ASSUME NEW o \in Journaled, NEW stage \in Stages
        PROVE  /\ \A g \in {"open", "forward", "fetch"} :
                    <<o, g, stage>> \in serving' => journal'[o] = "NONE"
               /\ \A g \in {"update", "commit"} :
                    <<o, g, stage>> \in serving' => journal'[o] = "SUBMITTED"
               /\ <<o, "upload", stage>> \in serving' => journal'[o] = "COMMITTED"
    BY <2>1, <2>5 DEF JournalAt, Gated
  <2>7. \A o \in Launches \ Journaled :
          journal'[o] = "NONE" /\ pc'[o] \notin {"applied", "receipt"}
    <3>1. l \notin Journaled => journal'[l] = "NONE" /\ pc'[l] \notin {"applied", "receipt"}
      <4> SUFFICES ASSUME l \notin Journaled
                   PROVE  journal'[l] = "NONE" /\ pc'[l] \notin {"applied", "receipt"}
        OBVIOUS
      <4>1. pc[l] \notin {"applied", "receipt"} /\ journal[l] = "NONE"
        BY DEF JournalAt
      <4>2. QED
        BY <1>6, <4>1 DEF Walks
    <3>2. QED
      BY <2>1, <3>1 DEF JournalAt
  <2>8. JournalAt'
    BY <2>1, <2>4, <2>6, <2>7 DEF JournalAt
  <2>9. QED
    BY <2>3, <2>8
<1>7. ASSUME NEW l \in Launches,
             \/ Apply(l) \/ JournalApplied(l) \/ Recover(l) \/ JournalReceipt(l)
             \/ JournalRefused(l) \/ Register(l) \/ Dies(l)
             \/ \E k \in Gated : CallRefused(l, k)
      PROVE  (JournalAt /\ JournalBrackets)'
  BY <1>6, <1>7, WorkerWalks
<1>8. ASSUME NEW l \in Launches, NEW o \in Launches, RecoverReassigned(l, o)
      PROVE  (JournalAt /\ JournalBrackets)'
  BY <1>8 DEF RecoverReassigned, JournalAt, JournalBrackets
<1>9. ASSUME NEW l \in Launches, NEW m \in Micro, Acquire(l, m)
      PROVE  (JournalAt /\ JournalBrackets)'
  BY <1>9 DEF Acquire, Goto, JournalAt, JournalBrackets
<1>10. CASE UNCHANGED <<pc, unit, idem, journal, contrib>> /\ serving' \subseteq serving
  BY <1>10 DEF JournalAt, JournalBrackets
<1>11. QED
  BY <1>1, <1>3, <1>4, <1>5, <1>7, <1>8, <1>9, <1>10 DEF Next, vars, Expire, Crash,
     JournalCheck, Methods

\* The five together are kept by every step.
LEMMA BooksAlways == Spec => []Books
<1>1. Init => Books
  BY JournaledAssumption DEF Init, Books, Started, OpenStored, Opened, Served, JournalAt,
     JournalBrackets
<1>2. TypeOK /\ Books /\ [Next]_vars => Books'
  BY StartedStep, OpenStoredStep, ServedStep, JournalStep DEF Books
<1>3. QED
  BY <1>1, <1>2, TypeCorrect, PTL DEF Spec

\* A micro unit is contributed at most once: the key of step.open admits one
\* payload, whatever leases run out, calls are repeated or servers crash.
THEOREM OnePerMicroUnitTheorem == Spec => []OnePerMicroUnit
<1>1. TypeOK /\ Books => OnePerMicroUnit
  <2> SUFFICES ASSUME TypeOK, OpenStored, NEW l \in contrib, NEW o \in contrib, mu[l] = mu[o]
               PROVE  l = o
    BY DEF Books, OnePerMicroUnit
  <2>1. l \in Launches /\ o \in Launches /\ mu[l] \in Micro \cup {None}
    BY DEF TypeOK
  <2>2. <<"open", mu[l]>> \in Keys
    BY <2>1 DEF Keys, Methods, Gated
  <2>3. <<<<"open", mu[l]>>, l>> \in idem /\ <<<<"open", mu[l]>>, o>> \in idem
    BY <2>1 DEF OpenStored, OpenKey
  <2>4. QED
    BY <2>1, <2>2, <2>3 DEF OpenStored
<1>2. QED
  BY <1>1, BooksAlways, TypeCorrect, PTL

\* The recovery journal is behind no unit it has the delta of and ahead of no
\* unit that lacks it, at every crash of worker and server.
THEOREM JournalTheorem == Spec => []JournalBrackets
<1>1. Books => JournalBrackets
  BY DEF Books
<1>2. QED
  BY <1>1, BooksAlways, PTL

-----------------------------------------------------------------------------
\* What is promised of a micro unit's owner

Held == {<<mu[l], l>> : l \in {o \in Launches : Working(o)}}
Done == {<<mu[l], l>> : l \in contrib}

\* Every step grants a micro unit, finishes it, lets it go or leaves all as it is.
LEMMA OwnershipStep ==
    ASSUME TypeOK, Books, [Next]_vars
    PROVE  [Ownership!Next]_(Ownership!vars)
<1> USE DEF TypeOK, Books
<1>1. ASSUME \A l \in Launches : Working(l)' <=> Working(l),
             \A l \in Launches : Working(l) \/ l \in contrib => mu'[l] = mu[l],
             contrib' = contrib
      PROVE  [Ownership!Next]_(Ownership!vars)
  <2>1. Held' = Held /\ Done' = Done
    BY <1>1 DEF Held, Done
  <2>2. QED
    BY <2>1 DEF Held, Done, Ownership!vars
<1>2. ASSUME UNCHANGED <<mu, lease, idem, contrib>>,
             \A l \in Launches : Holds(l) \/ (InService(l)' <=> InService(l))
      PROVE  [Ownership!Next]_(Ownership!vars)
  <2>1. \A l \in Launches : Working(l)' <=> Working(l)
    BY <1>2 DEF Working, Answered, LogicalKey, Holds
  <2>2. QED
    BY <1>1, <1>2, <2>1
<1>3. ASSUME NEW l \in Launches, NEW m \in Micro \cup {None}, Grant(l, m), pc[l] = "acquire",
             UNCHANGED <<idem, contrib, serving>>
      PROVE  [Ownership!Next]_(Ownership!vars)
  <2>1. l \notin contrib /\ \A key \in Keys : <<key, l>> \notin idem
    BY <1>3 DEF Started
  <2>2. \A o \in Launches \ {l} : mu'[o] = mu[o] /\ lease'[o] = lease[o]
    BY <1>3 DEF Grant
  <2>3. ~Working(l) /\ ~Working(l)'
    <3>1. <<"open", mu[l]>> \in Keys /\ mu'[l] = m /\ <<"open", m>> \in Keys
      BY <1>3 DEF Keys, Methods, Gated, Grant
    <3>2. QED
      BY <1>3, <2>1, <3>1 DEF Working, Answered, LogicalKey
  <2>4. \A o \in Launches \ {l} : Working(o)' <=> Working(o)
    BY <1>3, <2>2 DEF Working, Answered, LogicalKey, Holds, InService
  <2>5. QED
    BY <1>1, <1>3, <2>1, <2>2, <2>3, <2>4
<1>4. ASSUME UNCHANGED <<mu, contrib>>, \A l \in Launches : Working(l)' => Working(l)
      PROVE  [Ownership!Next]_(Ownership!vars)
  <2>1. PICK lost : lost = Held \ Held'
    OBVIOUS
  <2>2. Held' \subseteq Held /\ Done' = Done
    BY <1>4 DEF Held, Done
  <2>3. lost \in SUBSET Held /\ Held' = Held \ lost
    BY <2>1, <2>2
  <2>4. Ownership!Lapse(lost)
    BY <2>2, <2>3 DEF Ownership!Lapse, Held, Done
  <2>5. QED
    BY <2>3, <2>4 DEF Ownership!Next, Held
<1>5. ASSUME NEW l \in Launches, Expire(l) PROVE [Ownership!Next]_(Ownership!vars)
  BY <1>4, <1>5 DEF Expire, Working, Answered, LogicalKey, Holds, InService
<1>6. ASSUME NEW l \in Launches, NEW k \in Methods, Admit(l, k)
      PROVE  [Ownership!Next]_(Ownership!vars)
  <2>1. /\ serving = {} /\ serving' = {<<l, k, "admitted">>} /\ (k \in Gated => Holds(l))
        /\ UNCHANGED <<mu, lease, idem, contrib>>
    BY <1>6 DEF Admit, Gate
  <2>2. \A o \in Launches : Holds(o) \/ (InService(o)' <=> InService(o))
    BY <2>1 DEF InService
  <2>3. QED
    BY <1>2, <2>1, <2>2
<1>7. ASSUME NEW l \in Launches, NEW k \in Methods, Commit(l, k)
      PROVE  [Ownership!Next]_(Ownership!vars)
  <2>1. /\ serving = {<<l, k, "admitted">>} /\ serving' = {<<l, k, "committed">>}
        /\ UNCHANGED <<mu, lease, pc, idem>>
        /\ contrib' = IF k = "upload" THEN contrib \cup {l} ELSE contrib
    BY <1>7 DEF Commit, Execute, CheckpointUpload
  <2>2. \A o \in Launches : InService(o)' <=> InService(o)
    BY <2>1 DEF InService, Stages
  <2>3. CASE contrib' = contrib
    BY <1>2, <2>1, <2>2, <2>3
  <2>4. CASE contrib' # contrib
    <3>1. k = "upload" /\ l \notin contrib /\ contrib' = contrib \cup {l}
      BY <2>1, <2>4
    <3>2. <<l, k, "admitted">> \in serving
      BY <2>1
    <3>3. Working(l)
      <4>1. OpenKey(l) \in idem
        BY <3>1, <3>2 DEF Served, Stages, Gated
      <4>2. InService(l)
        BY <3>1, <3>2 DEF InService, Stages, Gated
      <4>3. QED
        BY <3>1, <4>1, <4>2 DEF Working, Answered, LogicalKey, OpenKey
    <3>4. PICK m \in Micro : m = mu[l]
      <4>1. pc[l] # "acquire"
        BY <3>2 DEF Started, Stages
      <4>2. QED
        BY <4>1 DEF Started
    <3>5. \A o \in Launches : Working(o)' <=> Working(o) /\ o # l
      BY <2>1, <2>2, <3>1 DEF Working, Answered, LogicalKey, Holds
    <3>6. /\ <<m, l>> \in Held /\ Held' = Held \ {<<m, l>>}
          /\ Done' = Done \cup {<<m, l>>}
      BY <2>1, <3>1, <3>3, <3>4, <3>5 DEF Held, Done
    <3>7. Ownership!Finish(m, l)
      BY <3>6 DEF Ownership!Finish, Held, Done
    <3>8. QED
      BY <3>7 DEF Ownership!Next
  <2>5. QED
    BY <2>3, <2>4
<1>8. ASSUME NEW l \in Launches, NEW k \in Methods, Store(l, k) \/ StoreLost(l, k)
      PROVE  [Ownership!Next]_(Ownership!vars)
  <2>1. /\ serving = {<<l, k, "committed">>} /\ serving' = {}
        /\ idem' = idem \cup {<<LogicalKey(l, k), l>>}
        /\ UNCHANGED <<mu, lease, contrib>>
    BY <1>8 DEF Store, StoreLost, SaveIdem
  <2>2. \A o \in Launches : ~InService(o)'
    BY <2>1 DEF InService
  <2>3. \A o \in Launches : Answered(o, "open")' => Answered(o, "open") \/ (o = l /\ k = "open")
    BY <2>1, KeyType DEF Answered, LogicalKey
  <2>4. CASE Working(l)' => Working(l)
    <3>1. \A o \in Launches : Working(o)' => Working(o)
      BY <2>1, <2>2, <2>3, <2>4 DEF Working, Holds
    <3>2. QED
      BY <1>4, <2>1, <3>1
  <2>5. CASE Working(l)' /\ ~Working(l)
    <3>1. /\ k = "open" /\ ~Answered(l, "open") /\ Answered(l, "open")' /\ Holds(l)
          /\ l \notin contrib
      BY <2>1, <2>2, <2>3, <2>5 DEF Working, Holds
    <3>2. <<l, k, "committed">> \in serving
      BY <2>1
    <3>3. PICK m \in Micro : m = mu[l]
      <4>1. pc[l] # "acquire"
        BY <3>2 DEF Started, Stages
      <4>2. QED
        BY <4>1 DEF Started
    <3>4. \A o \in Launches \ {l} : <<<<"open", m>>, o>> \notin idem
      BY <3>1, <3>2, <3>3 DEF Served, Taken, LogicalKey, Stages
    <3>5. <<<<"open", m>>, l>> \notin idem
      BY <3>1, <3>3 DEF Answered, LogicalKey
    <3>6. \A o \in Launches : Working(o) \/ o \in contrib => <<<<"open", mu[o]>>, o>> \in idem
      BY DEF Working, Answered, LogicalKey, OpenStored, OpenKey
    <3>7. m \notin Ownership!UnitsOf(Held) /\ m \notin Ownership!UnitsOf(Done)
      <4>1. \A o \in Launches : Working(o) \/ o \in contrib => mu[o] # m
        BY <3>4, <3>5, <3>6
      <4>2. /\ \A p \in Held : \E o \in Launches : Working(o) /\ p = <<mu[o], o>>
            /\ \A p \in Done : \E o \in contrib : p = <<mu[o], o>>
        BY DEF Held, Done
      <4>3. \A p \in Held \cup Done : p[1] # m
        BY <4>1, <4>2
      <4>4. QED
        BY <4>3 DEF Ownership!UnitsOf
    <3>8. \A o \in Launches : Working(o)' <=> Working(o) \/ o = l
      <4>1. \A o \in Launches \ {l} : ~InService(o)
        BY <2>1 DEF InService
      <4>2. \A o \in Launches \ {l} : Answered(o, "open")' <=> Answered(o, "open")
        BY <2>1 DEF Answered, LogicalKey
      <4>3. QED
        BY <2>1, <2>2, <2>5, <4>1, <4>2 DEF Working, Holds
    <3>9. Held' = Held \cup {<<m, l>>} /\ Done' = Done
      BY <2>1, <3>3, <3>8 DEF Held, Done
    <3>10. Ownership!Grant(m, l)
      BY <3>7, <3>9 DEF Ownership!Grant, Held, Done
    <3>11. QED
      BY <3>10 DEF Ownership!Next
  <2>6. QED
    BY <2>4, <2>5
<1>9. CASE Crash
  <2>1. \A l \in Launches : Working(l)' => Working(l)
    BY <1>9 DEF Crash, Working, Answered, LogicalKey, Holds, InService
  <2>2. QED
    BY <1>4, <1>9, <2>1 DEF Crash
<1>10. CASE UNCHANGED <<mu, lease, idem, contrib, serving>>
  BY <1>2, <1>10 DEF InService
<1>11. ASSUME NEW l \in Launches,
              \/ Apply(l) \/ JournalApplied(l) \/ Recover(l) \/ JournalReceipt(l)
              \/ JournalRefused(l) \/ Register(l) \/ Dies(l) \/ JournalCheck(l)
              \/ \E k \in Gated : Replay(l, k) \/ CallRefused(l, k)
       PROVE  UNCHANGED <<mu, lease, idem, contrib, serving>>
  BY <1>11 DEF Apply, JournalApplied, Recover, JournalReceipt, JournalRefused, Register, Dies,
     JournalCheck, Replay, CallRefused, WorkerVars
<1>12. ASSUME NEW l \in Launches, NEW m \in Micro, Acquire(l, m)
       PROVE  [Ownership!Next]_(Ownership!vars)
  BY <1>3, <1>12 DEF Acquire
<1>13. ASSUME NEW l \in Launches, NEW o \in Launches, RecoverReassigned(l, o)
       PROVE  [Ownership!Next]_(Ownership!vars)
  BY <1>3, <1>13 DEF RecoverReassigned
<1>14. QED
  BY <1>5, <1>6, <1>7, <1>8, <1>9, <1>10, <1>11, <1>12, <1>13 DEF Next, vars, Methods

\* The pipeline promises of a micro unit what the lease manager promises of it,
\* from the stored answer to step.open on and to the end of the last call that
\* a lease let in: one launch at a time holds it, and only the holder
\* contributes it, once.
THEOREM ImplementsOwnership == Spec => OwnershipSpec
<1>1. Init => Ownership!Init
  BY DEF Init, Working, Answered, Ownership!Init
<1>2. TypeOK /\ Books /\ [Next]_vars => [Ownership!Next]_(Ownership!vars)
  BY OwnershipStep
<1>3. QED
  BY <1>1, <1>2, BooksAlways, TypeCorrect, PTL DEF Spec, OwnershipSpec, Ownership!Spec
=============================================================================
