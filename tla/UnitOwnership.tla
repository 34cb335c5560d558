---------------------------- MODULE UnitOwnership ----------------------------
(***************************************************************************)
(* What each generation of the coordinator promises of the work it hands   *)
(* out: a unit is held by one worker at a time, a unit that its holder     *)
(* finished is never handed out again, and a unit whose holder let it go   *)
(* is free for anybody.                                                    *)
(*                                                                         *)
(* Leases, TrainingServer, BrowserWorker, TrainingRun and SplitPipeline    *)
(* implement it, each with its own notion of unit, holder and finishing.   *)
(***************************************************************************)
CONSTANTS Units,    \* what is handed out: micro units, batches, tasks
          Holders   \* whom it is handed to: sessions, workers, launches

VARIABLES held,     \* pairs <<u, h>>: h may work on u now
          finished  \* pairs <<u, h>>: h finished u

vars == <<held, finished>>

UnitsOf(pairs) == {p[1] : p \in pairs}

Init == held = {} /\ finished = {}

Grant(u, h) ==
    /\ u \notin UnitsOf(held) \cup UnitsOf(finished)
    /\ held' = held \cup {<<u, h>>}
    /\ UNCHANGED finished

Lapse(lost) ==
    /\ held' = held \ lost
    /\ UNCHANGED finished

Finish(u, h) ==
    /\ <<u, h>> \in held
    /\ held' = held \ {<<u, h>>}
    /\ finished' = finished \cup {<<u, h>>}

Next ==
    \/ \E u \in Units, h \in Holders : Grant(u, h) \/ Finish(u, h)
    \/ \E lost \in SUBSET held : Lapse(lost)

Spec == Init /\ [][Next]_vars

-----------------------------------------------------------------------------
OneEach(pairs) == \A p, q \in pairs : p[1] = q[1] => p = q

\* Nobody works on a unit that somebody else works on, or that is finished; a
\* unit is finished by one holder.
OneOwner == OneEach(held \cup finished) /\ held \cap finished = {}

\* Only the holder finishes a unit, and a unit once finished stays so.
FinishedByHolder == [][finished \subseteq finished' /\ finished' \subseteq finished \cup held]_vars
=============================================================================
