------------------------------- MODULE Leases -------------------------------
(***************************************************************************)
(* LeaseManager of rc5_4_leases.py: the table leases_r54 and the           *)
(* operations on it.  Each operation is one BEGIN IMMEDIATE transaction,   *)
(* hence one action; a rejected operation rolls everything back (the       *)
(* expiry it ran first included) and is a step that changes nothing.       *)
(*                                                                         *)
(* The random lease id is any id not used yet.  The nonce is returned to   *)
(* the session that acquired the lease and to nobody else, so presenting   *)
(* the right nonce is the same as being the holder.  Time is a counter.    *)
(***************************************************************************)
EXTENDS Naturals

CONSTANTS Units,     \* (run, round, assignment, micro unit) keys
          Holders,   \* (worker_id, session_id) pairs
          LeaseIds,  \* uuid4 lease ids
          TTLs,      \* values of ttl_seconds
          MaxTime,   \* bound on the clock
          MaxRevision, \* bound on the renewals of a lease
          None       \* SQL NULL / no row

Live  == {"ACTIVE", "RENEWED"}
Ended == {"RELEASED", "EXPIRED", "ABORTED"}

ASSUME ConstantsAssumption ==
    /\ TTLs \subseteq Nat \ {0}
    /\ MaxTime \in Nat /\ MaxRevision \in Nat
    /\ None \notin Units \cup Holders \cup Live \cup Ended

VARIABLES clock,     \* now()
          status,    \* column status, None for an id that has no row
          unit,      \* the four key columns
          holder,    \* columns worker_id, session_id
          issued,    \* column issued_at
          expires,   \* column expires_at
          revision   \* column revision

vars == <<clock, status, unit, holder, issued, expires, revision>>

Rows      == {l \in LeaseIds : status[l] # None}
RowsOf(u) == {l \in Rows : unit[l] = u}

TypeOK ==
    /\ clock \in Nat
    /\ status \in [LeaseIds -> Live \cup Ended \cup {None}]
    /\ unit \in [LeaseIds -> Units \cup {None}]
    /\ holder \in [LeaseIds -> Holders \cup {None}]
    /\ issued \in [LeaseIds -> Nat]
    /\ expires \in [LeaseIds -> Nat]
    /\ revision \in [LeaseIds -> Nat]
    /\ \A l \in Rows : unit[l] \in Units /\ holder[l] \in Holders

Init ==
    /\ clock = 0
    /\ status = [l \in LeaseIds |-> None]
    /\ unit = [l \in LeaseIds |-> None]
    /\ holder = [l \in LeaseIds |-> None]
    /\ issued = [l \in LeaseIds |-> 0]
    /\ expires = [l \in LeaseIds |-> 0]
    /\ revision = [l \in LeaseIds |-> 0]

-----------------------------------------------------------------------------
\* Helpers of the code

\* (A name that ends in _Faulty... is a broken variant of the definition after
\* it, kept to check that the properties notice the fault.)
Overdue_FaultyEarly(l) == status[l] \in Live /\ expires[l] <= clock + 1

Overdue(l) == status[l] \in Live /\ expires[l] <= clock

\* The status column after _expire_overdue.
AfterExpiry == [l \in LeaseIds |-> IF Overdue(l) THEN "EXPIRED" ELSE status[l]]

\* ORDER BY issued_at DESC LIMIT 1: with equal times SQLite may pick any row.
LastRows(u) == {l \in RowsOf(u) : \A m \in RowsOf(u) : issued[m] <= issued[l]}

\* Every status but one row's is what the column st says.
SetStatus(st, l, s) == status' = [st EXCEPT ![l] = s]

-----------------------------------------------------------------------------
\* Operations

InsertRow(l, u, h, ttl, rev) ==
    /\ SetStatus(AfterExpiry, l, "ACTIVE")
    /\ unit' = [unit EXCEPT ![l] = u]
    /\ holder' = [holder EXCEPT ![l] = h]
    /\ issued' = [issued EXCEPT ![l] = clock]
    /\ expires' = [expires EXCEPT ![l] = clock + ttl]
    /\ revision' = [revision EXCEPT ![l] = rev]
    /\ UNCHANGED clock

IndexAdmits_FaultyAbsent(u) == TRUE

\* The partial UNIQUE index on the unit keys of ACTIVE and RENEWED rows.
IndexAdmits(u) == \A m \in RowsOf(u) : AfterExpiry[m] \notin Live

Acquire_FaultyAfterRelease(l, u, h, ttl) ==
    /\ l \notin Rows
    /\ IndexAdmits(u)
    /\ \/ RowsOf(u) = {} /\ InsertRow(l, u, h, ttl, 1)
       \/ \E last \in LastRows(u) : InsertRow(l, u, h, ttl, revision[last] + 1)

Acquire_FaultyRevision(l, u, h, ttl) ==
    /\ l \notin Rows
    /\ IndexAdmits(u)
    /\ \A last \in LastRows(u) : AfterExpiry[last] \in {"EXPIRED", "ABORTED"}
    /\ InsertRow(l, u, h, ttl, 1)

Acquire(l, u, h, ttl) ==
    /\ l \notin Rows
    /\ IndexAdmits(u)
    /\ \/ RowsOf(u) = {} /\ InsertRow(l, u, h, ttl, 1)
       \/ \E last \in LastRows(u) :
              /\ AfterExpiry[last] \in {"EXPIRED", "ABORTED"}
              /\ InsertRow(l, u, h, ttl, revision[last] + 1)

Renew(l, h, ttl) ==
    /\ l \in Rows
    /\ holder[l] = h
    /\ AfterExpiry[l] \in Live
    /\ revision[l] < MaxRevision
    /\ SetStatus(AfterExpiry, l, "RENEWED")
    /\ expires' = [expires EXCEPT ![l] = clock + ttl]
    /\ revision' = [revision EXCEPT ![l] = @ + 1]
    /\ UNCHANGED <<clock, unit, holder, issued>>

Release_FaultyOverdue(l, h) ==
    /\ l \in Rows
    /\ holder[l] = h
    /\ status[l] \in Live
    /\ SetStatus(status, l, "RELEASED")
    /\ UNCHANGED <<clock, unit, holder, issued, expires, revision>>

Release(l, h) ==
    /\ l \in Rows
    /\ holder[l] = h
    /\ status[l] \in Live
    /\ clock < expires[l]
    /\ SetStatus(status, l, "RELEASED")
    /\ UNCHANGED <<clock, unit, holder, issued, expires, revision>>

\* status() and can_reassign() run _expire_overdue in a transaction of its own.
ExpireOverdue ==
    /\ status' = AfterExpiry
    /\ UNCHANGED <<clock, unit, holder, issued, expires, revision>>

\* unit.expire, by the owner or with coordinator_only: no look at the clock.
ForceExpire(u) ==
    /\ \E l \in RowsOf(u) : status[l] \in Live /\ SetStatus(status, l, "EXPIRED")
    /\ UNCHANGED <<clock, unit, holder, issued, expires, revision>>

Abort_FaultyAllRows(u) ==
    /\ status' = [l \in LeaseIds |-> IF l \in RowsOf(u) THEN "ABORTED" ELSE status[l]]
    /\ UNCHANGED <<clock, unit, holder, issued, expires, revision>>

Abort(u) ==
    /\ status' = [l \in LeaseIds |->
                     IF l \in RowsOf(u) /\ status[l] \in Live THEN "ABORTED" ELSE status[l]]
    /\ UNCHANGED <<clock, unit, holder, issued, expires, revision>>

Tick ==
    /\ clock < MaxTime
    /\ clock' = clock + 1
    /\ UNCHANGED <<status, unit, holder, issued, expires, revision>>

\* time.time() follows the wall clock, which may be set back.
ClockSetBack ==
    /\ clock > 0
    /\ clock' = clock - 1
    /\ UNCHANGED <<status, unit, holder, issued, expires, revision>>

-----------------------------------------------------------------------------
\* The operations training_http_server.py exposes, under a clock that is never
\* set back.
TtlNext ==
    \/ \E l \in LeaseIds, u \in Units, h \in Holders, ttl \in TTLs : Acquire(l, u, h, ttl)
    \/ \E l \in LeaseIds, h \in Holders, ttl \in TTLs : Renew(l, h, ttl)
    \/ \E l \in LeaseIds, h \in Holders : Release(l, h)
    \/ ExpireOverdue
    \/ Tick

TtlSpec == Init /\ [][TtlNext]_vars

\* Everything LeaseManager can do, under any clock.
Next ==
    \/ TtlNext
    \/ \E u \in Units : ForceExpire(u) \/ Abort(u)
    \/ ClockSetBack

Spec == Init /\ [][Next]_vars

-----------------------------------------------------------------------------
\* Properties of every use of LeaseManager

\* "one unit -> at most one ACTIVE lease" (rc5_4_leases.py:15), whatever the
\* clock does and however acquire, expire and abort interleave.
OneLiveLease ==
    \A l, m \in Rows :
        unit[l] = unit[m] /\ status[l] \in Live /\ status[m] \in Live => l = m

EndingsKept == \A l \in LeaseIds : status[l] \in Ended => status'[l] = status[l]

\* A lease that ended keeps its status for ever: no renew, late expiry or
\* abort rewrites how it ended, and its id never returns.
EndingIsFinal == [][EndingsKept]_vars

\* acquire is "Rejected after ACTIVE/RENEWED/RELEASED" (rc5_4_leases.py:173):
\* a unit whose work was released is never leased again.
ReleasedIsFinal ==
    \A l, m \in Rows :
        unit[l] = unit[m] /\ status[l] = "RELEASED" /\ status[m] \in Live \cup {"RELEASED"}
        => l = m

-----------------------------------------------------------------------------
\* Properties of the use the training server makes of it (TtlSpec)

\* A later lease of a unit carries a larger revision than every earlier one,
\* however often the earlier one was renewed: revision orders the holders.
RevisionOrdersLeases ==
    \A l, m \in Rows : unit[l] = unit[m] /\ issued[l] < issued[m] => revision[l] < revision[m]

NoHolderCutShort ==
    \A l \in Rows : status[l] \in Live /\ clock < expires[l]
                    => status'[l] \in Live \cup {"RELEASED"}

\* A holder is never cut short: until its TTL runs out, a live lease stays
\* live unless it is released, whatever other workers' requests expire.
TtlHonoured == [][NoHolderCutShort]_vars

\* The lease table implements UnitOwnership: a unit is held by the session
\* whose lease is live and not yet overdue, marked EXPIRED or not.
Effective(l) == status[l] \in Live /\ clock < expires[l]

Ownership == INSTANCE UnitOwnership WITH
    held <- {<<unit[l], holder[l]>> : l \in {r \in Rows : Effective(r)}},
    finished <- {<<unit[l], holder[l]>> : l \in {r \in Rows : status[r] = "RELEASED"}}

OwnershipSpec == Ownership!Spec
=============================================================================
