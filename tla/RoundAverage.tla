----------------------------- MODULE RoundAverage -----------------------------
(***************************************************************************)
(* What both round coordinators promise of the adapters they average: at   *)
(* any moment one contribution counts for what a worker owes a round, one  *)
(* that no longer counts never does again, and an average of a round is    *)
(* made of everything that counts for it, which is what its plan asks for. *)
(*                                                                         *)
(* RoundCoordinator implements it with one admin thread, MultiWorkerRound  *)
(* where an assignment id belongs to one round.                            *)
(***************************************************************************)
CONSTANTS Rounds,
          Slots,         \* <<r, a, w>>: for round r, assignment a of worker w
          Contributions

VARIABLES plan,      \* the slots that are to be filled
          chosen,    \* pairs <<s, c>>: c counts for slot s
          spent,     \* contributions that counted and no longer do
          averages   \* pairs <<r, used>>: the part of chosen averaged for r

vars == <<plan, chosen, spent, averages>>

PlanOf(r) == {s \in plan : s[1] = r}
ChosenOf(r) == {p \in chosen : p[1][1] = r}
SlotsOf(pairs) == {p[1] : p \in pairs}
ContributionsOf(pairs) == {p[2] : p \in pairs}

Init == plan = {} /\ chosen = {} /\ spent = {} /\ averages = {}

Replan == plan' \subseteq Slots /\ UNCHANGED <<chosen, spent, averages>>

Withdraw(lost) ==
    /\ chosen' = chosen \ lost
    /\ spent' = spent \cup ContributionsOf(lost)
    /\ UNCHANGED <<plan, averages>>

Choose(s, c, lost) ==
    /\ c \notin spent \cup ContributionsOf(chosen)
    /\ s \notin SlotsOf(chosen \ lost)
    /\ chosen' = (chosen \ lost) \cup {<<s, c>>}
    /\ spent' = spent \cup ContributionsOf(lost)
    /\ UNCHANGED <<plan, averages>>

\* A coordinator may forget its earlier averages.
Average(r) ==
    /\ PlanOf(r) # {} /\ PlanOf(r) = SlotsOf(ChosenOf(r))
    /\ <<r, ChosenOf(r)>> \in averages'
    /\ averages' \subseteq averages \cup {<<r, ChosenOf(r)>>}
    /\ UNCHANGED <<plan, chosen, spent>>

Next ==
    \/ Replan
    \/ \E lost \in SUBSET chosen :
          \/ Withdraw(lost)
          \/ \E s \in Slots, c \in Contributions : Choose(s, c, lost)
    \/ \E r \in Rounds : Average(r)

Spec == Init /\ [][Next]_vars

-----------------------------------------------------------------------------
OneEach(pairs) == \A p, q \in pairs : (p[1] = q[1]) <=> (p[2] = q[2])

\* A slot has one contribution and a contribution one slot, in what counts and
\* in every average, and what is spent does not count.
CountsOnce ==
    /\ OneEach(chosen)
    /\ spent \cap ContributionsOf(chosen) = {}
    /\ \A avg \in averages : OneEach(avg[2]) /\ \A p \in avg[2] : p[1][1] = avg[1]

\* What is spent stays so.
SpentForGood == [][spent \subseteq spent']_vars
=============================================================================
