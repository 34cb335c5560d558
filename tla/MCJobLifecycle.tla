--------------------------- MODULE MCJobLifecycle ---------------------------
(* Instances of JobLifecycle for TLC. *)
EXTENDS JobLifecycle, TLC

\* For safety alone: no action tells one runner or one service from another.
Symmetry == Permutations(Runners) \cup Permutations(Services)
=============================================================================
