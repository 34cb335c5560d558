--------------------------- MODULE SharedConnection ---------------------------
(***************************************************************************)
(* The one SQLite connection that all threads of training_http_server.py   *)
(* share.  A request has a thread of its own (ThreadingHTTPServer).  Its   *)
(* statements run in the transaction the connection has open, whoever      *)
(* opened it: with isolation_level None a statement outside a transaction  *)
(* commits by itself.  _tx() was made for calls nested in one thread: it   *)
(* looks whether a transaction is open, and then opens its own or joins.   *)
(*                                                                         *)
(* A gated request holds the server's lock; a plain one (lease.*,          *)
(* worker.*, the admin's) does not.  What a request writes is named by it  *)
(* and its part: "check" (the leases it expired), "work" (its own rows)    *)
(* and "response" (its row of idem_responses).                             *)
(***************************************************************************)
EXTENDS Naturals

CONSTANTS Gated, Plain,   \* requests, each a thread: two disjoint sets
          None            \* nobody

Requests == Gated \cup Plain

VARIABLES tx,       \* conn.in_transaction
          rows,     \* what the connection sees
          durable,  \* what is committed
          lock      \* the gated request that holds _lock

VARIABLES pc,       \* of a request's thread
          part,     \* "check" or "work", the context it runs
          outer,    \* _Ctx.outer
          raised    \* does the with block end by an exception?

dbVars == <<tx, rows, durable>>
vars == <<dbVars, lock, pc, part, outer, raised>>

Steps == {"new", "tx", "enter", "body", "exit", "update", "updated", "put", "stored",
          "answered", "refused", "lost"}
Ended == {"answered", "refused", "lost"}

Init ==
    /\ tx = FALSE /\ rows = {} /\ durable = {}
    /\ lock = None
    /\ pc = [t \in Requests |-> "new"]
    /\ part = [t \in Requests |-> "work"]
    /\ outer = [t \in Requests |-> FALSE]
    /\ raised = [t \in Requests |-> FALSE]

Goto(t, step) == pc' = [pc EXCEPT ![t] = step]

\* A gated request that ends leaves `with self._lock`.
Ends(t, step) == Goto(t, step) /\ lock' = IF lock = t THEN None ELSE lock

-----------------------------------------------------------------------------
\* The connection

Write(row) ==
    /\ rows' = rows \cup {row}
    /\ durable' = IF tx THEN durable ELSE rows'
    /\ tx' = tx

CommitTx   == tx' = FALSE /\ durable' = rows /\ rows' = rows
RollbackTx == tx' = FALSE /\ rows' = durable /\ durable' = durable

-----------------------------------------------------------------------------
\* with self._tx()

\* _require_lease comes first in a gated request, under the lock.
Start(t) ==
    /\ pc[t] = "new"
    /\ t \in Gated => lock = None
    /\ lock' = IF t \in Gated THEN t ELSE lock
    /\ part' = [part EXCEPT ![t] = IF t \in Gated THEN "check" ELSE "work"]
    /\ Goto(t, "tx")
    /\ UNCHANGED <<dbVars, outer, raised>>

\* _Ctx.__init__
LookOuter(t) ==
    /\ pc[t] = "tx"
    /\ outer' = [outer EXCEPT ![t] = tx]
    /\ Goto(t, "enter")
    /\ UNCHANGED <<dbVars, lock, part, raised>>

\* __enter__: BEGIN IMMEDIATE fails if another thread has opened one since.
Enter(t) ==
    /\ pc[t] = "enter"
    /\ tx' = IF outer[t] THEN tx ELSE TRUE
    /\ IF outer[t] \/ ~tx THEN Goto(t, "body") /\ UNCHANGED lock ELSE Ends(t, "refused")
    /\ UNCHANGED <<rows, durable, part, outer, raised>>

\* The statements of the block, of which those before an error are made.
Body(t) ==
    /\ pc[t] = "body"
    /\ Write(<<t, part[t]>>) \/ UNCHANGED dbVars
    /\ \E error \in BOOLEAN : raised' = [raised EXCEPT ![t] = error]
    /\ Goto(t, "exit")
    /\ UNCHANGED <<lock, part, outer>>

\* What a request does after the block.
GoOn(t) ==
    \/ t \in Plain /\ Ends(t, "answered") /\ UNCHANGED part
    \/ /\ t \in Gated /\ part[t] = "check"
       /\ \/ part' = [part EXCEPT ![t] = "work"] /\ Goto(t, "tx") /\ UNCHANGED lock
          \/ Goto(t, "update") /\ UNCHANGED <<lock, part>>
          \/ Goto(t, "put") /\ UNCHANGED <<lock, part>>
          \/ Ends(t, "refused") /\ UNCHANGED part
    \/ t \in Gated /\ part[t] = "work" /\ Goto(t, "put") /\ UNCHANGED <<lock, part>>

\* __exit__, by the context that opened the transaction, if it is still open: a
\* COMMIT fails without one, the failure of a ROLLBACK is swallowed.
Exit(t) ==
    /\ pc[t] = "exit"
    /\ CASE outer[t]             -> UNCHANGED dbVars
         [] ~outer[t] /\ raised[t]  -> RollbackTx
         [] ~outer[t] /\ ~raised[t] -> CommitTx
    /\ IF raised[t] \/ ~(outer[t] \/ tx) THEN Ends(t, "refused") /\ UNCHANGED part ELSE GoOn(t)
    /\ UNCHANGED <<outer, raised>>

-----------------------------------------------------------------------------
\* The statements of a gated request outside any block: the UPDATE of
\* _set_unit_state (submit, commit), the INSERT of _idem_put, and the commit()
\* after each, which ends whatever transaction is open.

Update(t) ==
    /\ pc[t] = "update"
    /\ Write(<<t, "work">>)
    /\ Goto(t, "updated")
    /\ UNCHANGED <<lock, part, outer, raised>>

CommitUpdate(t) ==
    /\ pc[t] = "updated"
    /\ CommitTx
    /\ Goto(t, "put")
    /\ UNCHANGED <<lock, part, outer, raised>>

PutResponse(t) ==
    /\ pc[t] = "put"
    /\ Write(<<t, "response">>)
    /\ Goto(t, "stored")
    /\ UNCHANGED <<lock, part, outer, raised>>

CommitResponse(t) ==
    /\ pc[t] = "stored"
    /\ CommitTx
    /\ Ends(t, "answered")
    /\ UNCHANGED <<part, outer, raised>>

\* The process dies; SQLite rolls back what was open.
Crash ==
    /\ RollbackTx
    /\ lock' = None
    /\ pc' = [t \in Requests |-> IF pc[t] \in Ended THEN pc[t] ELSE "lost"]
    /\ UNCHANGED <<part, outer, raised>>

Next ==
    \/ \E t \in Requests :
           \/ Start(t) \/ LookOuter(t) \/ Enter(t) \/ Body(t) \/ Exit(t)
           \/ Update(t) \/ CommitUpdate(t) \/ PutResponse(t) \/ CommitResponse(t)
    \/ Crash

Spec == Init /\ [][Next]_vars

-----------------------------------------------------------------------------
\* Properties

\* The connection's flags and rows, and the steps of the threads.
TypeOK ==
    /\ tx \in BOOLEAN /\ lock \in Gated \cup {None}
    /\ rows \subseteq Requests \X {"check", "work", "response"} /\ durable \subseteq rows
    /\ pc \in [Requests -> Steps]
    /\ part \in [Requests -> {"check", "work"}]
    /\ outer \in [Requests -> BOOLEAN] /\ raised \in [Requests -> BOOLEAN]

\* A transaction is open only while the context that opened it runs: none is
\* left behind, which every later context would join and none would commit.
NoTransactionLeft ==
    tx => \E t \in Requests : pc[t] \in {"body", "exit"} /\ ~outer[t]

\* "Les respostes idempotents sobreviuen al reinici del procés"
\* (training_http_server.py:19): the response a worker was sent is committed.
\* Not so: a neighbour's ROLLBACK between the INSERT and the commit() of
\* _idem_put takes the row away.
AnsweredIsStored ==
    \A t \in Gated : pc[t] = "answered" => <<t, "response">> \in durable
=============================================================================
