---------------------------- MODULE LeasesProofs ----------------------------
(***************************************************************************)
(* Proofs about Leases, for every set of units, holders, ids and TTLs.     *)
(***************************************************************************)
EXTENDS Leases, TLAPS

\* The empty table is well typed.
LEMMA TypeInit == Init => TypeOK
BY DEF Init, TypeOK, Rows, ConstantsAssumption

\* The expiry of _expire_overdue only rewrites live statuses of existing rows.
LEMMA ExpiryType ==
    ASSUME TypeOK
    PROVE  /\ AfterExpiry \in [LeaseIds -> Live \cup Ended \cup {None}]
           /\ \A l \in LeaseIds : (AfterExpiry[l] = None) <=> (status[l] = None)
           /\ \A l \in LeaseIds : AfterExpiry[l] # status[l] =>
                  AfterExpiry[l] = "EXPIRED" /\ status[l] \in Live /\ expires[l] <= clock
BY ConstantsAssumption DEF TypeOK, AfterExpiry, Overdue, Live, Ended

\* Inserting a row keeps the types.
LEMMA InsertType ==
    ASSUME TypeOK, NEW l \in LeaseIds, NEW u \in Units, NEW h \in Holders,
           NEW ttl \in TTLs, NEW rev \in Nat, InsertRow(l, u, h, ttl, rev)
    PROVE  TypeOK'
<1>1. ttl \in Nat /\ clock + ttl \in Nat
  BY ConstantsAssumption DEF TypeOK
<1>2. status' \in [LeaseIds -> Live \cup Ended \cup {None}]
  BY ExpiryType DEF InsertRow, SetStatus, Live
<1>3. \A m \in LeaseIds : m # l => (status'[m] = None <=> status[m] = None)
  BY ExpiryType DEF InsertRow, SetStatus, TypeOK
<1>4. QED
  BY <1>1, <1>2, <1>3 DEF TypeOK, InsertRow, Rows

\* Every operation keeps the types.
LEMMA TypeStep == TypeOK /\ [Next]_vars => TypeOK'
<1> SUFFICES ASSUME TypeOK, [Next]_vars PROVE TypeOK'
  OBVIOUS
<1>1. ASSUME NEW l \in LeaseIds, NEW u \in Units, NEW h \in Holders, NEW ttl \in TTLs,
             Acquire(l, u, h, ttl)
      PROVE  TypeOK'
  <2>1. CASE InsertRow(l, u, h, ttl, 1)
    BY <2>1, InsertType
  <2>2. ASSUME NEW last \in LastRows(u), InsertRow(l, u, h, ttl, revision[last] + 1)
        PROVE  TypeOK'
    <3>1. revision[last] + 1 \in Nat
      BY DEF LastRows, RowsOf, Rows, TypeOK
    <3>2. QED
      BY <2>2, <3>1, InsertType
  <2>3. QED
    BY <1>1, <2>1, <2>2 DEF Acquire
<1>2. ASSUME NEW l \in LeaseIds, NEW h \in Holders, NEW ttl \in TTLs, Renew(l, h, ttl)
      PROVE  TypeOK'
  <2>1. clock + ttl \in Nat
    BY ConstantsAssumption DEF TypeOK
  <2>2. status' \in [LeaseIds -> Live \cup Ended \cup {None}]
    BY <1>2, ExpiryType DEF Renew, SetStatus, Live
  <2>3. \A m \in LeaseIds : status'[m] = None => status[m] = None
    BY <1>2, ExpiryType, ConstantsAssumption DEF Renew, SetStatus, TypeOK, Live
  <2>4. \A m \in LeaseIds : status[m] = None => status'[m] = None
    BY <1>2, ExpiryType, ConstantsAssumption DEF Renew, SetStatus, TypeOK, Rows
  <2>5. Rows' = Rows
    BY <2>3, <2>4 DEF Rows
  <2>6. expires' \in [LeaseIds -> Nat] /\ revision' \in [LeaseIds -> Nat]
    BY <1>2, <2>1 DEF Renew, TypeOK
  <2>7. QED
    BY <1>2, <2>2, <2>5, <2>6 DEF Renew, TypeOK
<1>3. ASSUME NEW l \in LeaseIds, NEW h \in Holders, Release(l, h)
      PROVE  TypeOK'
  BY <1>3, ConstantsAssumption DEF Release, SetStatus, TypeOK, Rows, Live, Ended
<1>4. CASE ExpireOverdue
  BY <1>4, ExpiryType DEF ExpireOverdue, TypeOK, Rows
<1>5. ASSUME NEW u \in Units, ForceExpire(u)
      PROVE  TypeOK'
  BY <1>5, ConstantsAssumption DEF ForceExpire, RowsOf, SetStatus, TypeOK, Rows, Live, Ended
<1>6. ASSUME NEW u \in Units, Abort(u)
      PROVE  TypeOK'
  BY <1>6, ConstantsAssumption DEF Abort, RowsOf, TypeOK, Rows, Live, Ended
<1>7. CASE Tick
  BY <1>7 DEF Tick, TypeOK, Rows
<1>8. CASE ClockSetBack
  BY <1>8 DEF ClockSetBack, TypeOK, Rows
<1>9. CASE UNCHANGED vars
  BY <1>9 DEF vars, TypeOK, Rows
<1>10. QED
  BY <1>1, <1>2, <1>3, <1>4, <1>5, <1>6, <1>7, <1>8, <1>9 DEF Next, TtlNext

\* The columns of leases_r54 always hold values of their kind.
THEOREM TypeCorrect == Spec => []TypeOK
BY TypeInit, TypeStep, PTL DEF Spec

-----------------------------------------------------------------------------
\* One live lease per unit, for every use of LeaseManager

LEMMA OneLiveStep == TypeOK /\ OneLiveLease /\ [Next]_vars => OneLiveLease'
<1> SUFFICES ASSUME TypeOK, OneLiveLease, [Next]_vars,
                    NEW a \in Rows', NEW b \in Rows',
                    (unit[a])' = (unit[b])', (status[a])' \in Live, (status[b])' \in Live
             PROVE  a = b
  BY DEF OneLiveLease
<1> a \in LeaseIds /\ b \in LeaseIds
  BY DEF Rows
<1>0. ASSUME \A l \in LeaseIds : status'[l] \in Live => l \in Rows /\ status[l] \in Live,
             \A l \in Rows : unit'[l] = unit[l]
      PROVE  a = b
  BY <1>0 DEF OneLiveLease
<1>1. ASSUME NEW l \in LeaseIds, NEW u \in Units, NEW h \in Holders, NEW ttl \in TTLs,
             Acquire(l, u, h, ttl)
      PROVE  a = b
  <2>1. PICK rev : InsertRow(l, u, h, ttl, rev)
    BY <1>1 DEF Acquire
  <2>2. \A m \in LeaseIds : m # l => status'[m] = AfterExpiry[m] /\ unit'[m] = unit[m]
    BY <2>1 DEF InsertRow, SetStatus, AfterExpiry, TypeOK
  <2>3. unit'[l] = u
    BY <2>1 DEF InsertRow, TypeOK
  <2>4. \A m \in LeaseIds : AfterExpiry[m] \in Live => m \in Rows /\ status[m] \in Live
    BY ConstantsAssumption DEF AfterExpiry, Live, Rows
  <2>5. \A m \in LeaseIds : m # l /\ status'[m] \in Live => unit'[m] # u
    BY <1>1, <2>2, <2>4 DEF Acquire, IndexAdmits, RowsOf
  <2>6. CASE a # l /\ b # l
    BY <2>2, <2>4, <2>6 DEF OneLiveLease
  <2>7. QED
    BY <2>3, <2>5, <2>6
<1>2. ASSUME NEW l \in LeaseIds, NEW h \in Holders, NEW ttl \in TTLs, Renew(l, h, ttl)
      PROVE  a = b
  <2>1. \A m \in LeaseIds : AfterExpiry[m] \in Live => m \in Rows /\ status[m] \in Live
    BY ConstantsAssumption DEF AfterExpiry, Live, Rows
  <2>2. \A m \in LeaseIds : status'[m] \in Live => AfterExpiry[m] \in Live
    BY <1>2 DEF Renew, SetStatus, AfterExpiry
  <2>3. QED
    BY <1>0, <1>2, <2>1, <2>2 DEF Renew
<1>3. ASSUME NEW l \in LeaseIds, NEW h \in Holders, Release(l, h)
      PROVE  a = b
  <2>1. \A m \in LeaseIds : status'[m] \in Live => m \in Rows /\ status[m] \in Live
    BY <1>3, ConstantsAssumption DEF Release, SetStatus, TypeOK, Live, Rows
  <2>2. QED
    BY <1>0, <1>3, <2>1 DEF Release
<1>4. CASE ExpireOverdue
  <2>1. \A m \in LeaseIds : status'[m] \in Live => m \in Rows /\ status[m] \in Live
    BY <1>4, ConstantsAssumption DEF ExpireOverdue, AfterExpiry, Live, Rows
  <2>2. QED
    BY <1>0, <1>4, <2>1 DEF ExpireOverdue
<1>5. ASSUME NEW u \in Units, ForceExpire(u)
      PROVE  a = b
  <2>1. \A m \in LeaseIds : status'[m] \in Live => m \in Rows /\ status[m] \in Live
    BY <1>5, ConstantsAssumption DEF ForceExpire, SetStatus, TypeOK, Live, Rows
  <2>2. QED
    BY <1>0, <1>5, <2>1 DEF ForceExpire
<1>6. ASSUME NEW u \in Units, Abort(u)
      PROVE  a = b
  <2>1. \A m \in LeaseIds : status'[m] \in Live => m \in Rows /\ status[m] \in Live
    BY <1>6, ConstantsAssumption DEF Abort, Live, Rows
  <2>2. QED
    BY <1>0, <1>6, <2>1 DEF Abort
<1>7. CASE UNCHANGED <<status, unit>>
  BY <1>7 DEF OneLiveLease, Rows
<1>8. QED
  BY <1>1, <1>2, <1>3, <1>4, <1>5, <1>6, <1>7 DEF Next, TtlNext, Tick, ClockSetBack, vars

\* "one unit -> at most one ACTIVE lease": under any clock, and however
\* acquire, renew, release, expire and abort interleave.
THEOREM OneLive == Spec => []OneLiveLease
<1>1. Init => OneLiveLease
  BY DEF Init, OneLiveLease, Rows
<1>2. QED
  BY <1>1, TypeCorrect, OneLiveStep, PTL DEF Spec

-----------------------------------------------------------------------------
\* The training server's use of the leases: ends by time or by release only

\* A lease is issued before it expires, never in the future, and is marked
\* EXPIRED only when its time is over; nothing is aborted.
TimesInOrder ==
    \A l \in Rows :
        /\ issued[l] <= clock /\ issued[l] < expires[l]
        /\ status[l] # "ABORTED"
        /\ status[l] = "EXPIRED" => expires[l] <= clock

\* Every lease of a unit but the newest is EXPIRED.
OnlyNewestOpen ==
    \A l, m \in Rows :
        l # m /\ unit[l] = unit[m] /\ status[l] # "EXPIRED"
        => status[m] = "EXPIRED" /\ issued[m] < issued[l]

\* No two leases of a unit share an instant, so ORDER BY issued_at has no tie.
NoTies == \A l, m \in Rows : unit[l] = unit[m] /\ issued[l] = issued[m] => l = m

TtlInv == TypeOK /\ TimesInOrder /\ OnlyNewestOpen /\ NoTies /\ RevisionOrdersLeases

\* What _expire_overdue makes of a row, under the invariant.
LEMMA ExpiryKeepsTtlInv ==
    ASSUME TtlInv, NEW m \in Rows
    PROVE  /\ AfterExpiry[m] \in {"ACTIVE", "RENEWED", "RELEASED", "EXPIRED"}
           /\ AfterExpiry[m] = "EXPIRED" => expires[m] <= clock
           /\ AfterExpiry[m] # "EXPIRED" => AfterExpiry[m] = status[m]
           /\ status[m] = "EXPIRED" => AfterExpiry[m] = "EXPIRED"
           /\ AfterExpiry[m] \in Live => clock < expires[m]
BY DEF TtlInv, TimesInOrder, TypeOK, AfterExpiry, Overdue, Live, Ended, Rows

\* When acquire finds the last lease of a unit EXPIRED, they all are, and all
\* were issued before this instant.
LEMMA AcquireFindsAllExpired ==
    ASSUME TtlInv, NEW u \in Units, NEW last \in LastRows(u),
           AfterExpiry[last] \in {"EXPIRED", "ABORTED"}
    PROVE  /\ AfterExpiry[last] = "EXPIRED"
           /\ \A m \in RowsOf(u) : /\ AfterExpiry[m] = "EXPIRED"
                                   /\ issued[m] < clock
                                   /\ revision[m] <= revision[last]
<1> last \in Rows /\ unit[last] = u
  BY DEF LastRows, RowsOf
<1>1. AfterExpiry[last] = "EXPIRED"
  BY ExpiryKeepsTtlInv
<1>2. ASSUME NEW m \in RowsOf(u)
      PROVE  /\ AfterExpiry[m] = "EXPIRED"
             /\ issued[m] < clock
             /\ revision[m] <= revision[last]
  <2> m \in Rows /\ unit[m] = u
    BY DEF RowsOf
  <2>1. issued[m] <= issued[last]
    BY DEF LastRows
  <2>2. AfterExpiry[m] = "EXPIRED"
    <3> SUFFICES ASSUME AfterExpiry[m] # "EXPIRED" PROVE FALSE
      OBVIOUS
    <3>1. status[m] # "EXPIRED" /\ m # last
      BY <1>1, ExpiryKeepsTtlInv
    <3>2. issued[last] < issued[m]
      BY <3>1 DEF TtlInv, OnlyNewestOpen
    <3>3. QED
      BY <2>1, <3>2 DEF TtlInv, TypeOK, Rows
  <2>3. issued[m] < clock
    <3>1. expires[m] <= clock
      BY <2>2, ExpiryKeepsTtlInv
    <3>2. QED
      BY <3>1 DEF TtlInv, TimesInOrder, TypeOK, Rows
  <2>4. revision[m] <= revision[last]
    <3>1. CASE m = last
      BY <3>1 DEF TtlInv, TypeOK, Rows
    <3>2. CASE m # last
      <4>1. issued[m] < issued[last]
        BY <2>1, <3>2 DEF TtlInv, NoTies, TypeOK, Rows
      <4>2. QED
        BY <4>1 DEF TtlInv, RevisionOrdersLeases, TypeOK, Rows
    <3>3. QED
      BY <3>1, <3>2
  <2>5. QED
    BY <2>2, <2>3, <2>4
<1>3. QED
  BY <1>1, <1>2

\* A new row newer than every row of its unit, all of them EXPIRED, keeps the
\* invariant.
LEMMA InsertKeepsTtlInv ==
    ASSUME TtlInv, NEW l \in LeaseIds \ Rows, NEW u \in Units, NEW h \in Holders,
           NEW ttl \in TTLs, NEW rev \in Nat, InsertRow(l, u, h, ttl, rev),
           \A m \in RowsOf(u) : /\ AfterExpiry[m] = "EXPIRED"
                                /\ issued[m] < clock
                                /\ revision[m] < rev
    PROVE  TtlInv'
<1>1. TypeOK /\ TypeOK'
  BY InsertType DEF TtlInv
<1>2. ttl \in Nat /\ ttl > 0
  BY ConstantsAssumption
<1>3. Rows' = Rows \cup {l}
  BY <1>1, ExpiryType, ConstantsAssumption DEF InsertRow, SetStatus, Rows, TypeOK, Live
<1>4. /\ status'[l] = "ACTIVE" /\ unit'[l] = u /\ issued'[l] = clock
      /\ expires'[l] = clock + ttl /\ revision'[l] = rev
  BY <1>1, ExpiryType DEF InsertRow, SetStatus, TypeOK
<1>5. \A m \in Rows : /\ status'[m] = AfterExpiry[m] /\ unit'[m] = unit[m]
                      /\ issued'[m] = issued[m] /\ expires'[m] = expires[m]
                      /\ revision'[m] = revision[m] /\ m # l /\ m \in LeaseIds
  BY <1>1, ExpiryType DEF InsertRow, SetStatus, TypeOK, Rows
<1>6. TimesInOrder'
  <2>1. clock < clock + ttl /\ clock <= clock
    BY <1>1, <1>2 DEF TypeOK
  <2>2. \A m \in Rows : AfterExpiry[m] # "ABORTED" /\ (AfterExpiry[m] = "EXPIRED" => expires[m] <= clock)
    BY ExpiryKeepsTtlInv
  <2>3. clock' = clock
    BY DEF InsertRow
  <2>4. QED
    BY <1>3, <1>4, <1>5, <2>1, <2>2, <2>3 DEF TimesInOrder, TtlInv
<1>7. \A m \in Rows : unit[m] = u => m \in RowsOf(u)
  BY DEF RowsOf
<1>8. OnlyNewestOpen'
  <2>1. \A m \in Rows : AfterExpiry[m] # "EXPIRED" => status[m] # "EXPIRED"
    BY ExpiryKeepsTtlInv
  <2>2. \A m \in Rows : status[m] = "EXPIRED" => AfterExpiry[m] = "EXPIRED"
    BY ExpiryKeepsTtlInv
  <2>3. QED
    BY <1>3, <1>4, <1>5, <1>7, <2>1, <2>2 DEF OnlyNewestOpen, TtlInv
<1>9. NoTies'
  <2>1. \A m \in Rows : unit[m] = u => issued[m] # clock
    BY <1>1, <1>7 DEF TypeOK, Rows
  <2>2. QED
    BY <1>3, <1>4, <1>5, <2>1 DEF NoTies, TtlInv
<1>10. RevisionOrdersLeases'
  <2>1. \A m \in Rows : unit[m] = u => revision[m] < rev /\ ~(clock < issued[m])
    BY <1>1, <1>7 DEF TypeOK, Rows
  <2>2. ~(clock < clock)
    BY <1>1 DEF TypeOK
  <2>3. QED
    BY <1>3, <1>4, <1>5, <2>1, <2>2 DEF RevisionOrdersLeases, TtlInv
<1>11. QED
  BY <1>1, <1>6, <1>8, <1>9, <1>10 DEF TtlInv

\* Initially there is no row.
LEMMA TtlInit == Init => TtlInv
<1> SUFFICES ASSUME Init PROVE TtlInv
  OBVIOUS
<1>1. Rows = {}
  BY DEF Init, Rows
<1>2. QED
  BY <1>1, TypeInit DEF TtlInv, TimesInOrder, OnlyNewestOpen, NoTies, RevisionOrdersLeases

\* Every operation of the training server keeps the invariant.
LEMMA TtlStep == TtlInv /\ [TtlNext]_vars => TtlInv'
<1> SUFFICES ASSUME TtlInv, [TtlNext]_vars PROVE TtlInv'
  OBVIOUS
<1>0. TypeOK /\ TypeOK'
  BY TypeStep DEF TtlInv, Next
<1>1. ASSUME NEW l \in LeaseIds, NEW u \in Units, NEW h \in Holders, NEW ttl \in TTLs,
             Acquire(l, u, h, ttl)
      PROVE  TtlInv'
  <2> l \in LeaseIds \ Rows
    BY <1>1 DEF Acquire
  <2>1. CASE RowsOf(u) = {} /\ InsertRow(l, u, h, ttl, 1)
    BY <2>1, InsertKeepsTtlInv
  <2>2. ASSUME NEW last \in LastRows(u), AfterExpiry[last] \in {"EXPIRED", "ABORTED"},
               InsertRow(l, u, h, ttl, revision[last] + 1)
        PROVE  TtlInv'
    <3>1. \A m \in RowsOf(u) : /\ AfterExpiry[m] = "EXPIRED" /\ issued[m] < clock
                               /\ revision[m] <= revision[last]
      BY <2>2, AcquireFindsAllExpired
    <3>2. \A m \in RowsOf(u) : revision[m] \in Nat /\ m \in LeaseIds
      BY <1>0 DEF TypeOK, RowsOf, Rows
    <3>3. revision[last] \in Nat
      BY <3>2 DEF LastRows
    <3>4. \A m \in RowsOf(u) : revision[m] < revision[last] + 1
      BY <3>1, <3>2, <3>3
    <3>5. QED
      BY <2>2, <3>1, <3>3, <3>4, InsertKeepsTtlInv
  <2>3. QED
    BY <1>1, <2>1, <2>2 DEF Acquire
<1>2. ASSUME NEW l \in LeaseIds, NEW h \in Holders, NEW ttl \in TTLs, Renew(l, h, ttl)
      PROVE  TtlInv'
  <2>1. /\ l \in Rows /\ status[l] \in Live /\ clock < expires[l]
    <3>1. AfterExpiry[l] \in Live /\ l \in Rows
      BY <1>2 DEF Renew
    <3>2. QED
      BY <3>1, ExpiryKeepsTtlInv DEF Live
  <2>2. ttl \in Nat /\ ttl > 0
    BY ConstantsAssumption
  <2>3. Rows' = Rows
    BY <1>2, <1>0, <2>1, ExpiryType, ConstantsAssumption DEF Renew, SetStatus, Rows, Live
  <2>4. /\ status'[l] = "RENEWED" /\ expires'[l] = clock + ttl /\ revision'[l] = revision[l] + 1
    BY <1>0, <1>2, <2>1, ExpiryType DEF Renew, SetStatus, TypeOK, Rows
  <2>5. \A m \in Rows : m # l => /\ status'[m] = AfterExpiry[m] /\ expires'[m] = expires[m]
                                 /\ revision'[m] = revision[m]
    BY <1>0, <1>2, ExpiryType DEF Renew, SetStatus, TypeOK, Rows
  <2>6. UNCHANGED <<clock, unit, holder, issued>>
    BY <1>2 DEF Renew
  <2>7. TimesInOrder'
    <3>1. \A m \in Rows : AfterExpiry[m] # "ABORTED" /\ (AfterExpiry[m] = "EXPIRED" => expires[m] <= clock)
      BY ExpiryKeepsTtlInv
    <3>2. issued[l] <= clock /\ issued[l] < clock + ttl
      BY <1>0, <2>1, <2>2 DEF TtlInv, TimesInOrder, TypeOK, Rows
    <3>3. QED
      BY <2>1, <2>3, <2>4, <2>5, <2>6, <3>1, <3>2 DEF TimesInOrder, TtlInv
  <2>8. \A m \in Rows : m # l /\ unit[m] = unit[l] => status[m] = "EXPIRED" /\ issued[m] < issued[l]
    BY <2>1 DEF TtlInv, OnlyNewestOpen, Live
  <2>9. \A m \in Rows : /\ AfterExpiry[m] # "EXPIRED" => status[m] # "EXPIRED"
                        /\ status[m] = "EXPIRED" => AfterExpiry[m] = "EXPIRED"
    BY ExpiryKeepsTtlInv
  <2>10. OnlyNewestOpen'
    BY <2>1, <2>3, <2>4, <2>5, <2>6, <2>8, <2>9 DEF OnlyNewestOpen, TtlInv, Live
  <2>11. NoTies'
    BY <2>3, <2>6 DEF NoTies, TtlInv
  <2>12. RevisionOrdersLeases'
    <3>1. \A m \in Rows : issued[m] \in Nat /\ revision[m] \in Nat
      BY <1>0 DEF TypeOK, Rows
    <3> SUFFICES ASSUME NEW a \in Rows, NEW b \in Rows, unit[a] = unit[b], issued[a] < issued[b]
                 PROVE  revision'[a] < revision'[b]
      BY <2>3, <2>6 DEF RevisionOrdersLeases
    <3>2. a # l
      BY <2>8, <3>1
    <3>3. revision[a] < revision[b]
      BY DEF TtlInv, RevisionOrdersLeases
    <3>4. QED
      BY <2>4, <2>5, <3>1, <3>2, <3>3
  <2>13. QED
    BY <1>0, <2>7, <2>10, <2>11, <2>12 DEF TtlInv
<1>3. ASSUME NEW l \in LeaseIds, NEW h \in Holders, Release(l, h)
      PROVE  TtlInv'
  <2>1. l \in Rows /\ status[l] \in Live /\ Rows' = Rows
    BY <1>3, <1>0, ConstantsAssumption DEF Release, SetStatus, TypeOK, Rows, Ended
  <2>2. status' = [status EXCEPT ![l] = "RELEASED"] /\ UNCHANGED <<clock, unit, issued, expires, revision>>
    BY <1>3 DEF Release, SetStatus
  <2>3. \A m \in Rows : status'[m] = IF m = l THEN "RELEASED" ELSE status[m]
    BY <1>0, <2>2 DEF TypeOK, Rows
  <2>4. TimesInOrder' /\ OnlyNewestOpen'
    BY <2>1, <2>2, <2>3 DEF TtlInv, TimesInOrder, OnlyNewestOpen, Live
  <2>5. NoTies' /\ RevisionOrdersLeases'
    BY <2>1, <2>2 DEF TtlInv, NoTies, RevisionOrdersLeases
  <2>6. QED
    BY <1>0, <2>4, <2>5 DEF TtlInv
<1>4. CASE ExpireOverdue
  <2>1. Rows' = Rows /\ \A m \in Rows : status'[m] = AfterExpiry[m]
    BY <1>4, <1>0, ExpiryType DEF ExpireOverdue, Rows
  <2>2. UNCHANGED <<clock, unit, issued, expires, revision>>
    BY <1>4 DEF ExpireOverdue
  <2>3. \A m \in Rows : /\ AfterExpiry[m] # "EXPIRED" => status[m] # "EXPIRED"
                        /\ status[m] = "EXPIRED" => AfterExpiry[m] = "EXPIRED"
                        /\ AfterExpiry[m] # "ABORTED"
                        /\ AfterExpiry[m] = "EXPIRED" => expires[m] <= clock
    BY ExpiryKeepsTtlInv
  <2>4. TimesInOrder' /\ OnlyNewestOpen'
    BY <2>1, <2>2, <2>3 DEF TtlInv, TimesInOrder, OnlyNewestOpen
  <2>5. NoTies' /\ RevisionOrdersLeases'
    BY <2>1, <2>2 DEF TtlInv, NoTies, RevisionOrdersLeases
  <2>6. QED
    BY <1>0, <2>4, <2>5 DEF TtlInv
<1>5. CASE Tick
  <2>1. Rows' = Rows /\ UNCHANGED <<status, unit, issued, expires, revision>> /\ clock' = clock + 1
    BY <1>5 DEF Tick, Rows
  <2>2. \A m \in Rows : issued[m] \in Nat /\ expires[m] \in Nat /\ clock \in Nat
    BY <1>0 DEF TypeOK, Rows
  <2>3. TimesInOrder'
    BY <2>1, <2>2 DEF TtlInv, TimesInOrder
  <2>4. OnlyNewestOpen' /\ NoTies' /\ RevisionOrdersLeases'
    BY <2>1 DEF TtlInv, OnlyNewestOpen, NoTies, RevisionOrdersLeases
  <2>5. QED
    BY <1>0, <2>3, <2>4 DEF TtlInv
<1>6. CASE UNCHANGED vars
  BY <1>0, <1>6 DEF vars, TtlInv, TimesInOrder, OnlyNewestOpen, NoTies, RevisionOrdersLeases, Rows
<1>7. QED
  BY <1>1, <1>2, <1>3, <1>4, <1>5, <1>6 DEF TtlNext

\* The invariant of the training server's use of the leases.
THEOREM TtlInvariant == TtlSpec => []TtlInv
BY TtlInit, TtlStep, PTL DEF TtlSpec

\* A unit whose work was released is never leased again, as long as leases end
\* by time or release and the clock is never set back.
THEOREM ReleaseFinal == TtlSpec => []ReleasedIsFinal
<1>1. TtlInv => ReleasedIsFinal
  BY DEF TtlInv, OnlyNewestOpen, ReleasedIsFinal, Live
<1>2. QED
  BY <1>1, TtlInvariant, PTL

\* The revision of a lease orders it after every earlier lease of its unit.
THEOREM RevisionsOrdered == TtlSpec => []RevisionOrdersLeases
<1>1. TtlInv => RevisionOrdersLeases
  BY DEF TtlInv
<1>2. QED
  BY <1>1, TtlInvariant, PTL

-----------------------------------------------------------------------------
\* What a step may never do

LEMMA EndingStep ==
    TypeOK /\ [Next]_vars => EndingsKept
<1> SUFFICES ASSUME TypeOK, [Next]_vars, NEW x \in LeaseIds, status[x] \in Ended
             PROVE  status'[x] = status[x]
  BY DEF EndingsKept
<1>0. AfterExpiry[x] = status[x] /\ status[x] \notin Live /\ x \in Rows
  BY ConstantsAssumption DEF AfterExpiry, Overdue, Live, Ended, Rows
<1>1. ASSUME NEW l \in LeaseIds, NEW u \in Units, NEW h \in Holders, NEW ttl \in TTLs,
             Acquire(l, u, h, ttl)
      PROVE  status'[x] = status[x]
  BY <1>0, <1>1, ExpiryType DEF Acquire, InsertRow, SetStatus
<1>2. ASSUME NEW l \in LeaseIds, NEW h \in Holders, NEW ttl \in TTLs, Renew(l, h, ttl)
      PROVE  status'[x] = status[x]
  BY <1>0, <1>2, ExpiryType DEF Renew, SetStatus
<1>3. ASSUME NEW l \in LeaseIds, NEW h \in Holders, Release(l, h)
      PROVE  status'[x] = status[x]
  BY <1>0, <1>3 DEF Release, SetStatus, TypeOK
<1>4. CASE ExpireOverdue
  BY <1>0, <1>4 DEF ExpireOverdue
<1>5. ASSUME NEW u \in Units, ForceExpire(u)
      PROVE  status'[x] = status[x]
  BY <1>0, <1>5 DEF ForceExpire, SetStatus, TypeOK
<1>6. ASSUME NEW u \in Units, Abort(u)
      PROVE  status'[x] = status[x]
  BY <1>0, <1>6 DEF Abort
<1>7. QED
  BY <1>1, <1>2, <1>3, <1>4, <1>5, <1>6 DEF Next, TtlNext, Tick, ClockSetBack, vars

\* A lease that ended keeps its status for ever.
THEOREM EndingFinal == Spec => EndingIsFinal
BY TypeCorrect, EndingStep, PTL DEF Spec, EndingIsFinal

LEMMA TtlHonouredStep ==
    TypeOK /\ [TtlNext]_vars => NoHolderCutShort
<1> SUFFICES ASSUME TypeOK, [TtlNext]_vars, NEW x \in Rows, status[x] \in Live,
                    clock < expires[x]
             PROVE  status'[x] \in Live \cup {"RELEASED"}
  BY DEF NoHolderCutShort
<1> x \in LeaseIds
  BY DEF Rows
<1>0. AfterExpiry[x] = status[x]
  BY DEF AfterExpiry, Overdue, TypeOK
<1>1. ASSUME NEW l \in LeaseIds, NEW u \in Units, NEW h \in Holders, NEW ttl \in TTLs,
             Acquire(l, u, h, ttl)
      PROVE  status'[x] \in Live \cup {"RELEASED"}
  BY <1>0, <1>1, ExpiryType DEF Acquire, InsertRow, SetStatus
<1>2. ASSUME NEW l \in LeaseIds, NEW h \in Holders, NEW ttl \in TTLs, Renew(l, h, ttl)
      PROVE  status'[x] \in Live \cup {"RELEASED"}
  BY <1>0, <1>2, ExpiryType DEF Renew, SetStatus, Live
<1>3. ASSUME NEW l \in LeaseIds, NEW h \in Holders, Release(l, h)
      PROVE  status'[x] \in Live \cup {"RELEASED"}
  BY <1>0, <1>3 DEF Release, SetStatus, TypeOK
<1>4. CASE ExpireOverdue
  BY <1>0, <1>4 DEF ExpireOverdue
<1>5. CASE UNCHANGED status
  BY <1>5
<1>6. QED
  BY <1>1, <1>2, <1>3, <1>4, <1>5 DEF TtlNext, Tick, vars

\* Until its TTL runs out a live lease ends only by release.
THEOREM TtlIsHonoured == TtlSpec => TtlHonoured
<1>1. TtlInv => TypeOK
  BY DEF TtlInv
<1>2. QED
  BY <1>1, TtlInvariant, TtlHonouredStep, PTL DEF TtlSpec, TtlHonoured

-----------------------------------------------------------------------------
\* The lease table implements UnitOwnership

Held == {<<unit[l], holder[l]>> : l \in {r \in Rows : Effective(r)}}
Finished == {<<unit[l], holder[l]>> : l \in {r \in Rows : status[r] = "RELEASED"}}

\* The new lease of an acquire is a grant, and every other lease that was in
\* force still is.
LEMMA AcquireGrants ==
    ASSUME TtlInv, NEW l \in LeaseIds, NEW u \in Units, NEW h \in Holders, NEW ttl \in TTLs,
           Acquire(l, u, h, ttl)
    PROVE  Ownership!Grant(u, h)
<1>1. PICK rev : InsertRow(l, u, h, ttl, rev)
  BY DEF Acquire
<1>2. TypeOK /\ clock \in Nat /\ ttl \in Nat /\ ttl > 0 /\ l \notin Rows
  BY ConstantsAssumption DEF TtlInv, TypeOK, Acquire
<1>3. \A m \in RowsOf(u) : AfterExpiry[m] = "EXPIRED"
  <2>1. CASE RowsOf(u) = {}
    BY <2>1
  <2>2. CASE \E last \in LastRows(u) : AfterExpiry[last] \in {"EXPIRED", "ABORTED"}
    BY <2>2, AcquireFindsAllExpired
  <2>3. QED
    BY <2>1, <2>2 DEF Acquire
<1>4. Rows' = Rows \cup {l}
  BY <1>1, <1>2, ExpiryType, ConstantsAssumption DEF InsertRow, SetStatus, Rows, TypeOK, Live
<1>5. /\ status'[l] = "ACTIVE" /\ unit'[l] = u /\ holder'[l] = h
      /\ expires'[l] = clock + ttl /\ clock' = clock
  BY <1>1, <1>2, ExpiryType DEF InsertRow, SetStatus, TypeOK
<1>6. \A m \in Rows : /\ status'[m] = AfterExpiry[m] /\ unit'[m] = unit[m]
                      /\ holder'[m] = holder[m] /\ expires'[m] = expires[m]
  BY <1>1, <1>2, ExpiryType DEF InsertRow, SetStatus, TypeOK, Rows
<1>7. \A m \in Rows : Effective(m)' <=> Effective(m)
  <2> TAKE m \in Rows
  <2>1. expires[m] \in Nat /\ AfterExpiry[m] = IF Overdue(m) THEN "EXPIRED" ELSE status[m]
    BY <1>2 DEF TypeOK, AfterExpiry, Rows
  <2>2. QED
    BY <1>2, <1>5, <1>6, <2>1 DEF Effective, Overdue, Live
<1>8. Effective(l)'
  BY <1>2, <1>5 DEF Effective, Live
<1>9. Held' = Held \cup {<<u, h>>}
  BY <1>4, <1>5, <1>6, <1>7, <1>8 DEF Held
<1>10. \A m \in Rows : AfterExpiry[m] = "RELEASED" <=> status[m] = "RELEASED"
  BY <1>2 DEF AfterExpiry, Overdue, Live, Rows
<1>11. Finished' = Finished
  BY <1>4, <1>5, <1>6, <1>10 DEF Finished
<1>12. u \notin Ownership!UnitsOf(Held) \cup Ownership!UnitsOf(Finished)
  <2>1. ASSUME NEW m \in Rows, unit[m] = u PROVE ~Effective(m) /\ status[m] # "RELEASED"
    <3>1. AfterExpiry[m] = "EXPIRED" /\ expires[m] \in Nat
      BY <1>2, <1>3, <2>1 DEF RowsOf, Rows, TypeOK
    <3>2. QED
      BY <1>2, <1>10, <3>1, <2>1, ExpiryKeepsTtlInv DEF Effective, Live
  <2>2. QED
    BY <2>1 DEF Ownership!UnitsOf, Held, Finished
<1>13. QED
  BY <1>9, <1>11, <1>12 DEF Ownership!Grant, Held, Finished

\* A release finishes the unit and takes away nobody else's lease.
LEMMA ReleaseFinishes ==
    ASSUME TtlInv, NEW l \in LeaseIds, NEW h \in Holders, Release(l, h)
    PROVE  Ownership!Finish(unit[l], h)
<1>1. TypeOK /\ l \in Rows /\ holder[l] = h /\ Effective(l) /\ Rows' = Rows
  BY ConstantsAssumption DEF TtlInv, Release, Effective, SetStatus, TypeOK, Rows, Ended
<1>2. /\ \A m \in Rows : status'[m] = IF m = l THEN "RELEASED" ELSE status[m]
      /\ UNCHANGED <<clock, unit, holder, expires>>
  BY <1>1 DEF Release, SetStatus, TypeOK, Rows
<1>3. ~Effective(l)' /\ \A m \in Rows : m # l => (Effective(m)' <=> Effective(m))
  BY <1>1, <1>2 DEF Effective, Live
<1>4. \A m \in Rows : m # l /\ Effective(m) => unit[m] # unit[l]
  BY <1>1 DEF TtlInv, OnlyNewestOpen, Effective, Live
<1>5. Held' = Held \ {<<unit[l], h>>}
  BY <1>1, <1>2, <1>3, <1>4 DEF Held
<1>6. Finished' = Finished \cup {<<unit[l], h>>}
  BY <1>1, <1>2 DEF Finished
<1>7. <<unit[l], h>> \in Held
  BY <1>1 DEF Held
<1>8. QED
  BY <1>5, <1>6, <1>7 DEF Ownership!Finish, Held, Finished

\* A step that starts no lease in force and releases nothing is a lapse.
LEMMA LapseStep ==
    ASSUME Rows' = Rows, UNCHANGED <<unit, holder>>,
           \A m \in Rows : /\ Effective(m)' => Effective(m)
                           /\ (status'[m] = "RELEASED" <=> status[m] = "RELEASED")
    PROVE  \E lost \in SUBSET Held : Ownership!Lapse(lost)
<1>1. Held' \subseteq Held
  BY DEF Held
<1>2. Finished' = Finished
  BY DEF Finished
<1>3. PICK lost : lost \in SUBSET Held /\ Held' = Held \ lost
  BY <1>1
<1>4. Ownership!Lapse(lost)
  BY <1>2, <1>3 DEF Ownership!Lapse, Held, Finished
<1>5. QED
  BY <1>3, <1>4

\* Every step of the lease table is a step of UnitOwnership or a stutter.
LEMMA OwnershipStep == TtlInv /\ [TtlNext]_vars => [Ownership!Next]_(Ownership!vars)
<1> SUFFICES ASSUME TtlInv, [TtlNext]_vars PROVE [Ownership!Next]_(Ownership!vars)
  OBVIOUS
<1>0. TypeOK
  BY DEF TtlInv
<1>1. ASSUME NEW l \in LeaseIds, NEW u \in Units, NEW h \in Holders, NEW ttl \in TTLs,
             Acquire(l, u, h, ttl)
      PROVE  Ownership!Next
  BY <1>1, AcquireGrants DEF Ownership!Next
<1>2. ASSUME NEW l \in LeaseIds, NEW h \in Holders, NEW ttl \in TTLs, Renew(l, h, ttl)
      PROVE  Ownership!Next
  <2>1. l \in Rows /\ AfterExpiry[l] \in Live /\ UNCHANGED <<clock, unit, holder>>
    BY <1>2 DEF Renew
  <2>2. Effective(l) /\ status[l] # "RELEASED"
    BY <2>1, ExpiryKeepsTtlInv DEF Effective, Live
  <2>3. Rows' = Rows
    BY <1>2, <2>1, ExpiryType, <1>0, ConstantsAssumption DEF Renew, SetStatus, Rows, Live
  <2>4. status'[l] = "RENEWED" /\ \A m \in Rows : m # l => status'[m] = AfterExpiry[m] /\ expires'[m] = expires[m]
    BY <1>0, <1>2, <2>1, ExpiryType DEF Renew, SetStatus, TypeOK, Rows
  <2>5. \A m \in Rows : /\ AfterExpiry[m] \in Live => AfterExpiry[m] = status[m]
                        /\ AfterExpiry[m] = "RELEASED" <=> status[m] = "RELEASED"
    BY <1>0 DEF AfterExpiry, Overdue, Live, Rows
  <2>6. \A m \in Rows : /\ Effective(m)' => Effective(m)
                        /\ (status'[m] = "RELEASED" <=> status[m] = "RELEASED")
    BY <2>1, <2>2, <2>4, <2>5 DEF Effective
  <2>7. QED
    BY <2>1, <2>3, <2>6, LapseStep DEF Ownership!Next, Held
<1>3. ASSUME NEW l \in LeaseIds, NEW h \in Holders, Release(l, h)
      PROVE  Ownership!Next
  <2>1. unit[l] \in Units
    BY <1>0, <1>3 DEF Release, TypeOK
  <2>2. QED
    BY <1>3, <2>1, ReleaseFinishes DEF Ownership!Next
<1>4. CASE ExpireOverdue
  <2>1. Rows' = Rows /\ UNCHANGED <<clock, unit, holder, expires>>
    BY <1>0, <1>4, ExpiryType DEF ExpireOverdue, Rows
  <2>2. \A m \in Rows : /\ status'[m] = AfterExpiry[m]
                        /\ AfterExpiry[m] \in Live => AfterExpiry[m] = status[m]
                        /\ AfterExpiry[m] = "RELEASED" <=> status[m] = "RELEASED"
    BY <1>0, <1>4 DEF ExpireOverdue, AfterExpiry, Overdue, Live, Rows
  <2>3. QED
    BY <2>1, <2>2, LapseStep DEF Ownership!Next, Held, Effective
<1>5. CASE Tick
  <2>1. Rows' = Rows /\ UNCHANGED <<status, unit, holder, expires>> /\ clock' = clock + 1
    BY <1>5 DEF Tick, Rows
  <2>2. \A m \in Rows : clock + 1 < expires[m] => clock < expires[m]
    BY <1>0 DEF TypeOK, Rows
  <2>3. QED
    BY <2>1, <2>2, LapseStep DEF Ownership!Next, Held, Effective
<1>6. CASE UNCHANGED vars
  BY <1>6 DEF vars, Ownership!vars, Effective, Rows
<1>7. QED
  BY <1>1, <1>2, <1>3, <1>4, <1>5, <1>6 DEF TtlNext

\* The leases, as the training server uses them, implement UnitOwnership.
THEOREM ImplementsOwnership == TtlSpec => OwnershipSpec
<1>1. Init => Ownership!Init
  BY DEF Init, Ownership!Init, Rows, Effective
<1>2. QED
  BY <1>1, TtlInvariant, OwnershipStep, PTL DEF TtlSpec, OwnershipSpec, Ownership!Spec

-----------------------------------------------------------------------------
\* What UnitOwnership promises, to the leases and to whatever implements it

LEMMA OwnerStep ==
    Ownership!OneOwner /\ [Ownership!Next]_(Ownership!vars) => Ownership!OneOwner'
<1> DEFINE H == Held
           F == Finished
<1>1. Ownership!OneOwner <=> Ownership!OneEach(H \cup F) /\ H \cap F = {}
  BY DEF Ownership!OneOwner, Held, Finished
<1>2. Ownership!OneOwner' <=> Ownership!OneEach(H' \cup F') /\ H' \cap F' = {}
  BY DEF Ownership!OneOwner, Ownership!OneEach, Held, Finished
<1> SUFFICES ASSUME Ownership!OneEach(H \cup F), H \cap F = {}, [Ownership!Next]_(Ownership!vars)
             PROVE  Ownership!OneEach(H' \cup F') /\ H' \cap F' = {}
  BY <1>1, <1>2
<1>3. ASSUME NEW u \in Units, NEW h \in Holders, Ownership!Grant(u, h)
      PROVE  Ownership!OneEach(H' \cup F') /\ H' \cap F' = {}
  <2>1. u \notin Ownership!UnitsOf(H) \cup Ownership!UnitsOf(F) /\ H' = H \cup {<<u, h>>} /\ F' = F
    BY <1>3 DEF Ownership!Grant, Held, Finished
  <2>2. \A p \in H \cup F : p[1] # u
    BY <2>1 DEF Ownership!UnitsOf
  <2> HIDE DEF H, F
  <2>3. QED
    BY <2>1, <2>2 DEF Ownership!OneEach
<1>4. ASSUME NEW u \in Units, NEW h \in Holders, Ownership!Finish(u, h)
      PROVE  Ownership!OneEach(H' \cup F') /\ H' \cap F' = {}
  <2>1. <<u, h>> \in H /\ H' = H \ {<<u, h>>} /\ F' = F \cup {<<u, h>>}
    BY <1>4 DEF Ownership!Finish, Held, Finished
  <2> HIDE DEF H, F
  <2>2. QED
    BY <2>1 DEF Ownership!OneEach
<1>5. ASSUME NEW lost \in SUBSET H, Ownership!Lapse(lost)
      PROVE  Ownership!OneEach(H' \cup F') /\ H' \cap F' = {}
  <2>1. H' = H \ lost /\ F' = F
    BY <1>5 DEF Ownership!Lapse, Held, Finished
  <2> HIDE DEF H, F
  <2>2. QED
    BY <2>1 DEF Ownership!OneEach
<1>6. CASE UNCHANGED Ownership!vars
  <2>1. H' = H /\ F' = F
    BY <1>6 DEF Ownership!vars, Held, Finished
  <2> HIDE DEF H, F
  <2>2. QED
    BY <2>1
<1>7. QED
  BY <1>3, <1>4, <1>5, <1>6 DEF Ownership!Next, Held

\* Under UnitOwnership a unit has one owner: it is held by one and not finished,
\* or was finished by one and is not held.
THEOREM OwnershipIsExclusive == OwnershipSpec => []Ownership!OneOwner
<1>1. Ownership!Init => Ownership!OneOwner
  BY DEF Ownership!Init, Ownership!OneOwner, Ownership!OneEach
<1>2. QED
  BY <1>1, OwnerStep, PTL DEF OwnershipSpec, Ownership!Spec

\* Under UnitOwnership only the holder of a unit finishes it, and for good.
THEOREM OwnershipIsFinal == OwnershipSpec => Ownership!FinishedByHolder
<1>1. [Ownership!Next]_(Ownership!vars) =>
          [Finished \subseteq Finished' /\ Finished' \subseteq Finished \cup Held]_(Ownership!vars)
  BY DEF Ownership!Next, Ownership!Grant, Ownership!Finish, Ownership!Lapse, Held, Finished
<1>2. QED
  BY <1>1, PTL DEF OwnershipSpec, Ownership!Spec, Ownership!FinishedByHolder, Held, Finished

\* So a micro unit has one owner, by the leases in force and those released.
COROLLARY LeasesAreExclusive == TtlSpec => []Ownership!OneOwner
BY ImplementsOwnership, OwnershipIsExclusive, PTL
=============================================================================
