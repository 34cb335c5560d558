------------------------- MODULE JobLifecycleProofs -------------------------
(***************************************************************************)
(* Proofs about JobLifecycle, for any number of services, concurrent       *)
(* requests, runners and rounds: types, a job that is COMPLETED is done,   *)
(* one runner ever aggregates, and at most one admin call is made after    *)
(* SIGTERM.                                                                *)
(***************************************************************************)
EXTENDS JobLifecycle, TLAPS

Starting == {"none", "boot", "announce", "identify", "claim", "serve"}
InRounds == {"loop", "setup", "workers", "check", "call", "verdict", "complete"}
InRound  == {"setup", "workers", "check", "call"}

\* Where a runner stands in its rounds.
Positioned ==
    \A r \in Runners :
        /\ rpc[r] \in Starting => round[r] = 0 /\ done[r] = 0
        /\ rpc[r] \in InRounds => round[r] > 0 /\ done[r] = round[r] - 1
        /\ rpc[r] \in InRound => round[r] <= Rounds
        /\ rpc[r] = "verdict" => stop[r] \/ round[r] > Rounds
        /\ rpc[r] = "complete" => round[r] > Rounds

Placed == TypeOK /\ Positioned

\* The empty job is well typed and its runners are nowhere.
LEMMA PlacedInit == Init => Placed
BY ConstantsAssumption
   DEF Init, Placed, TypeOK, Positioned, Statuses, RequestSteps, RunnerSteps, Threads, Starting,
       InRounds, InRound

\* A step of a service or of a request leaves every runner where it is, but
\* for the one it launches and the one it signals.
LEMMA ServiceStep ==
    ASSUME TypeOK,
           \/ \E s \in Services : Boot(s) \/ Reconcile(s) \/ ServiceEnds(s)
           \/ \E t \in Threads : Request(t) \/ Continue(t)
    PROVE  /\ TypeOK'
           /\ UNCHANGED <<planned, round, call, done, late>>
           /\ status' # "COMPLETED" \/ status' = status
           /\ \A r \in Runners :
                 \/ rpc'[r] = rpc[r] /\ stop'[r] = stop[r]
                 \/ rpc[r] = "none" /\ rpc'[r] = "boot" /\ stop'[r] = stop[r]
                 \/ rpc[r] = "boot" /\ rpc'[r] = "gone" /\ stop'[r] = stop[r]
                 \/ rpc'[r] = rpc[r] /\ stop'[r] = TRUE
<1> DEFINE Goal == /\ TypeOK'
                   /\ UNCHANGED <<planned, round, call, done, late>>
                   /\ status' # "COMPLETED" \/ status' = status
                   /\ \A r \in Runners :
                         \/ rpc'[r] = rpc[r] /\ stop'[r] = stop[r]
                         \/ rpc[r] = "none" /\ rpc'[r] = "boot" /\ stop'[r] = stop[r]
                         \/ rpc[r] = "boot" /\ rpc'[r] = "gone" /\ stop'[r] = stop[r]
                         \/ rpc'[r] = rpc[r] /\ stop'[r] = TRUE
<1> USE DEF row, serviceVars, runnerVars
<1>1. ASSUME NEW s \in Services, Boot(s)
      PROVE  Goal
  BY <1>1, ConstantsAssumption DEF Boot, TypeOK
<1>2. ASSUME NEW s \in Services, ListRunning(s) \/ ListStarting(s)
      PROVE  Goal
  <2>1. found' \in [Services -> SUBSET [pid : Runners \cup {None}, identity : Runners \cup {None}]]
    BY <1>2 DEF ListRunning, ListStarting, List, TypeOK
  <2>2. svc' \in [Services -> {"down", "list_running", "list_starting", "settle", "up"}]
    BY <1>2 DEF ListRunning, ListStarting, List, TypeOK
  <2>3. UNCHANGED <<row, planned, child, req, spawned, boots, requests, runnerVars>>
    BY <1>2 DEF ListRunning, ListStarting, List
  <2>4. QED
    BY <2>1, <2>2, <2>3 DEF TypeOK
<1>3. ASSUME NEW s \in Services, Settle(s)
      PROVE  Goal
  BY <1>3 DEF Settle, TypeOK, Statuses
<1>4. ASSUME NEW s \in Services, ServiceEnds(s)
      PROVE  Goal
  BY <1>4 DEF ServiceEnds, TypeOK, RequestSteps
<1>5. ASSUME NEW t \in Threads, NEW from, NEW to \in RequestSteps, Step(t, from, to)
      PROVE  req' \in [Threads -> RequestSteps]
  BY <1>5 DEF Step, TypeOK
<1>6. ASSUME NEW t \in Threads, Arrives(t)
      PROVE  requests' \in 0..MaxRequests
  BY <1>6, ConstantsAssumption DEF Arrives, TypeOK
<1>7. ASSUME OnlyRequest, req' \in [Threads -> RequestSteps], requests' \in 0..MaxRequests,
             status' \in Statuses \ {"COMPLETED"} \/ status' = status,
             validation' \in {"PASS", "FAIL"} \/ validation' = validation,
             UNCHANGED <<pid, identity>>
      PROVE  Goal
  BY <1>7 DEF OnlyRequest, TypeOK
<1>8. Continues => requests' \in 0..MaxRequests
  BY DEF Continues, TypeOK
<1>9. ASSUME NEW t \in Threads, Request(t)
      PROVE  Goal
  <2>1. ASSUME NEW pass \in BOOLEAN, ValidateJob(t, pass)
        PROVE  Goal
    BY <1>5, <1>6, <1>7, <2>1 DEF ValidateJob, RequestSteps
  <2>2. CASE StartJob(t)
    BY <1>5, <1>6, <1>7, <2>2 DEF StartJob, RequestSteps
  <2>3. CASE CancelJob(t)
    BY <1>5, <1>6, <1>7, <2>3 DEF CancelJob, RequestSteps
  <2>4. QED
    BY <1>9, <2>1, <2>2, <2>3 DEF Request
<1>10. ASSUME NEW t \in Threads, Continue(t)
       PROVE  Goal
  <2> t[1] \in Services
    BY DEF Threads
  <2>1. CASE MarkReady(t)
    BY <1>5, <1>7, <1>8, <2>1 DEF MarkReady, RequestSteps, Statuses
  <2>2. CASE Recheck(t)
    BY <1>5, <1>7, <1>8, <2>2 DEF Recheck, RequestSteps
  <2>3. CASE SetStarting(t)
    BY <1>5, <1>7, <1>8, <2>3 DEF SetStarting, RequestSteps, Statuses
  <2>4. CASE SetCancelling(t)
    BY <1>5, <1>7, <1>8, <2>4 DEF SetCancelling, RequestSteps, Statuses
  <2>5. CASE SpawnFails(t)
    BY <1>5, <1>7, <1>8, <2>5 DEF SpawnFails, RequestSteps
  <2>6. ASSUME NEW pass \in BOOLEAN, Revalidate(t, pass)
        PROVE  Goal
    BY <1>5, <1>7, <1>8, <2>6 DEF Revalidate, RequestSteps
  <2>7. CASE Record(t)
    <3>1. req' \in [Threads -> RequestSteps] /\ requests' = requests
      BY <1>5, <2>7 DEF Record, RequestSteps
    <3>2. QED
      BY <2>7, <3>1 DEF Record, TypeOK
  <2>8. ASSUME NEW r \in Runners, Spawn(t, r)
        PROVE  Goal
    <3>1. req' \in [Threads -> RequestSteps]
      BY <1>5, <2>8 DEF Spawn, RequestSteps
    <3>2. /\ rpc' \in [Runners -> RunnerSteps] /\ child' \in [Services -> Runners \cup {None}]
          /\ spawned' \in [Threads -> Runners \cup {None}]
          /\ \A q \in Runners : rpc'[q] = rpc[q] \/ (rpc[q] = "none" /\ rpc'[q] = "boot")
      BY <2>8 DEF Spawn, TypeOK, RunnerSteps
    <3>3. QED
      BY <2>8, <3>1, <3>2 DEF Spawn, TypeOK
  <2>9. CASE Signal(t)
    <3>1. req' \in [Threads -> RequestSteps]
      BY <1>5, <2>9 DEF Signal, RequestSteps
    <3>2. child[t[1]] = None \/ child[t[1]] \in Runners
      BY DEF TypeOK
    <3>3. /\ rpc' \in [Runners -> RunnerSteps] /\ stop' \in [Runners -> BOOLEAN]
          /\ \A r \in Runners :
                \/ rpc'[r] = rpc[r] /\ stop'[r] = stop[r]
                \/ rpc[r] = "boot" /\ rpc'[r] = "gone" /\ stop'[r] = stop[r]
                \/ rpc'[r] = rpc[r] /\ stop'[r] = TRUE
      BY <2>9, <3>2 DEF Signal, TypeOK, RunnerSteps
    <3>4. QED
      BY <2>9, <3>1, <3>3 DEF Signal, TypeOK
  <2>10. QED
    BY <1>10, <2>1, <2>2, <2>3, <2>4, <2>5, <2>6, <2>7, <2>8, <2>9 DEF Continue
<1>11. QED
  BY <1>1, <1>2, <1>3, <1>4, <1>9, <1>10 DEF Reconcile
-----------------------------------------------------------------------------
\* Steps of a runner

\* What a step of runner r may do to its own variables: from one place to
\* another, or out of the process.
Moves(r, from, to, roundTo, doneTo) ==
    /\ rpc[r] \in from /\ rpc'[r] = to /\ stop'[r] = stop[r]
    /\ round'[r] = roundTo /\ done'[r] = doneTo
    /\ call'[r] \in 0..(2 * Contributions)

Left(r) ==
    /\ Alive(r) /\ rpc'[r] = "gone" /\ stop'[r] = FALSE
    /\ round'[r] = 0 /\ done'[r] = done[r] /\ call'[r] = 0 /\ late'[r] = 0

SameLate(r) == late'[r] = late[r]
OneLater(r) == late'[r] = IF stop[r] THEN late[r] + 1 ELSE late[r]

RunnerMove(r) ==
    \/ Left(r) /\ planned' = planned
    \/ SameLate(r) /\ planned' = planned /\
       \/ Moves(r, {"boot"}, "announce", round[r], done[r])
       \/ Moves(r, {"announce"}, "identify", round[r], done[r])
       \/ \E to \in {"claim", "fail"} : Moves(r, {"identify"}, to, round[r], done[r])
       \/ Moves(r, {"claim"}, "serve", round[r], done[r])
       \/ Moves(r, {"serve"}, "loop", 1, done[r])
       \/ (stop[r] \/ round[r] > Rounds) /\ Moves(r, {"loop"}, "verdict", round[r], done[r])
       \/ round[r] <= Rounds /\ Moves(r, {"loop"}, "setup", round[r], done[r])
       \/ round[r] \in planned /\ Moves(r, {"setup"}, "fail", round[r], done[r])
       \/ Moves(r, {"workers"}, "check", round[r], done[r])
       \/ Moves(r, {"workers", "check", "verdict"}, "cancelled", round[r], done[r])
       \/ ~stop[r] /\ Moves(r, {"check"}, "call", round[r], done[r])
       \/ ~stop[r] /\ Moves(r, {"verdict"}, "complete", round[r], done[r])
       \/ Moves(r, {"serve", "setup", "workers", "call"}, "fail", round[r], done[r])
    \/ SameLate(r) /\ planned' = planned \cup {round[r]} /\ round[r] \notin planned
       /\ Moves(r, {"setup"}, "workers", round[r], done[r])
    \/ OneLater(r) /\ planned' = planned /\
       \/ Moves(r, {"call"}, "check", round[r], done[r])
       \/ Moves(r, {"call"}, "loop", round[r] + 1, done[r] + 1)

\* The admin calls of a round can be counted.
LEMMA CallBound == /\ 2 * Contributions \in Nat /\ 0 \in 0..(2 * Contributions)
                   /\ \A n \in 0..(2 * Contributions) :
                         n < 2 * Contributions => n + 1 \in 0..(2 * Contributions)
BY ConstantsAssumption

\* A runner's step is one of these and concerns no other runner and no service.
LEMMA RunnerStep ==
    ASSUME Placed, NEW r \in Runners, RunnerNext(r) \/ Dies(r)
    PROVE  /\ RunnerMove(r)
           /\ UNCHANGED serviceVars
           /\ \A q \in Runners \ {r} :
                 /\ rpc'[q] = rpc[q] /\ stop'[q] = stop[q] /\ round'[q] = round[q]
                 /\ call'[q] = call[q] /\ done'[q] = done[q] /\ late'[q] = late[q]
           /\ rpc' = [q \in Runners |-> rpc'[q]] /\ stop' = [q \in Runners |-> stop'[q]]
           /\ round' = [q \in Runners |-> round'[q]] /\ call' = [q \in Runners |-> call'[q]]
           /\ done' = [q \in Runners |-> done'[q]] /\ late' = [q \in Runners |-> late'[q]]
           /\ status' \in Statuses /\ identity' \in Runners \cup {None}
           /\ UNCHANGED <<validation, pid>>
           /\ planned' \subseteq 1..Rounds
           /\ status' = "COMPLETED" => status = "COMPLETED" \/ rpc[r] = "complete"
<1> DEFINE Others ==
               /\ UNCHANGED serviceVars
               /\ \A q \in Runners \ {r} :
                     /\ rpc'[q] = rpc[q] /\ stop'[q] = stop[q] /\ round'[q] = round[q]
                     /\ call'[q] = call[q] /\ done'[q] = done[q] /\ late'[q] = late[q]
               /\ rpc' = [q \in Runners |-> rpc'[q]] /\ stop' = [q \in Runners |-> stop'[q]]
               /\ round' = [q \in Runners |-> round'[q]] /\ call' = [q \in Runners |-> call'[q]]
               /\ done' = [q \in Runners |-> done'[q]] /\ late' = [q \in Runners |-> late'[q]]
           Table ==
               /\ status' \in Statuses /\ identity' \in Runners \cup {None}
               /\ UNCHANGED <<validation, pid>>
               /\ planned' \subseteq 1..Rounds
               /\ status' = "COMPLETED" => status = "COMPLETED" \/ rpc[r] = "complete"
           Goal == RunnerMove(r) /\ Others /\ Table
<1> USE DEF row, Go
<1>1. /\ rpc \in [Runners -> RunnerSteps] /\ stop \in [Runners -> BOOLEAN]
      /\ round \in [Runners -> 0..(Rounds + 1)] /\ call \in [Runners -> 0..(2 * Contributions)]
      /\ done \in [Runners -> 0..Rounds] /\ late \in [Runners -> Nat]
      /\ status \in Statuses /\ identity \in Runners \cup {None} /\ planned \subseteq 1..Rounds
  BY DEF Placed, TypeOK
<1>2. ASSUME NEW from, NEW to, Go(r, from, to), Quietly
      PROVE  /\ Others /\ Moves(r, {from}, to, round[r], done[r]) /\ SameLate(r) /\ planned' = planned
             /\ planned' \subseteq 1..Rounds
  BY <1>1, <1>2 DEF Quietly, Moves, SameLate
<1>3. UNCHANGED row => UNCHANGED <<status, validation, pid>> /\ status' \in Statuses
                       /\ identity' \in Runners \cup {None}
  BY <1>1
<1>4. CASE InstallHandler(r)
  BY <1>2, <1>3, <1>4 DEF InstallHandler, RunnerMove
<1>5. CASE Announce(r)
  BY <1>1, <1>2, <1>5 DEF Announce, RunnerMove, Statuses
<1>6. CASE Identify(r)
  BY <1>2, <1>3, <1>6 DEF Identify, RunnerMove
<1>7. CASE Claim(r)
  BY <1>1, <1>2, <1>7 DEF Claim, RunnerMove
<1>8. CASE Serve(r)
  <2>1. Others /\ Moves(r, {"serve"}, "loop", 1, done[r]) /\ SameLate(r) /\ planned' = planned
    BY <1>1, <1>8 DEF Serve, Moves, SameLate
  <2>2. QED
    BY <1>1, <1>3, <1>8, <2>1 DEF Serve, RunnerMove
<1>9. CASE Loop(r)
  <2>1. round[r] > Rounds \/ round[r] <= Rounds
    BY <1>1, ConstantsAssumption
  <2>2. QED
    BY <1>2, <1>3, <1>9, <2>1 DEF Loop, RunnerMove
<1>10. CASE Setup(r)
  <2>1. round[r] \in 1..Rounds
    BY <1>1, <1>10, ConstantsAssumption DEF Setup, Placed, Positioned, InRounds, InRound
  <2>2. Others /\ SameLate(r) /\ planned' = planned \cup {round[r]} /\ planned' \subseteq 1..Rounds
    BY <1>1, <1>10, <2>1 DEF Setup, SameLate
  <2>3. CASE round[r] \in planned
    <3>1. Moves(r, {"setup"}, "fail", round[r], done[r]) /\ planned' = planned
      BY <1>1, <1>10, <2>2, <2>3 DEF Setup, Moves
    <3>2. QED
      BY <1>1, <1>3, <1>10, <2>2, <2>3, <3>1 DEF Setup, RunnerMove
  <2>4. CASE round[r] \notin planned
    <3>1. Moves(r, {"setup"}, "workers", round[r], done[r])
      BY <1>1, <1>10, <2>4 DEF Setup, Moves
    <3>2. QED
      BY <1>1, <1>3, <1>10, <2>2, <2>4, <3>1 DEF Setup, RunnerMove
  <2>5. QED
    BY <2>3, <2>4
<1>11. CASE WorkersDone(r)
  <2>1. Others /\ Moves(r, {"workers"}, "check", round[r], done[r]) /\ SameLate(r) /\ planned' = planned
    BY <1>1, <1>11, CallBound DEF WorkersDone, Moves, SameLate
  <2>2. QED
    BY <1>1, <1>3, <1>11, <2>1 DEF WorkersDone, RunnerMove
<1>12. CASE WorkersStopped(r)
  <2>1. Moves(r, {"workers", "check", "verdict"}, "cancelled", round[r], done[r])
    BY <1>2, <1>12 DEF WorkersStopped, Moves
  <2>2. QED
    BY <1>2, <1>3, <1>12, <2>1 DEF WorkersStopped, RunnerMove
<1>13. CASE Check(r)
  <2>1. CASE stop[r]
    <3>1. Moves(r, {"workers", "check", "verdict"}, "cancelled", round[r], done[r])
      BY <1>2, <1>13, <2>1 DEF Check, Moves
    <3>2. QED
      BY <1>2, <1>3, <1>13, <3>1 DEF Check, RunnerMove
  <2>2. CASE ~stop[r]
    BY <1>2, <1>3, <1>13, <2>2 DEF Check, RunnerMove
  <2>3. QED
    BY <2>1, <2>2
<1>14. CASE AdminCall(r)
  <2>1. Others /\ OneLater(r) /\ Moves(r, {"call"}, "check", round[r], done[r]) /\ planned' = planned
    BY <1>1, <1>14, CallBound DEF AdminCall, Late, OneLater, Moves
  <2>2. QED
    BY <1>1, <1>3, <1>14, <2>1 DEF AdminCall, RunnerMove
<1>15. CASE FedAvg(r)
  <2>1. Others /\ OneLater(r) /\ Moves(r, {"call"}, "loop", round[r] + 1, done[r] + 1) /\ planned' = planned
    BY <1>1, <1>15 DEF FedAvg, Late, OneLater, Moves
  <2>2. QED
    BY <1>1, <1>3, <1>15, <2>1 DEF FedAvg, RunnerMove
<1>16. CASE Verdict(r)
  <2>1. CASE stop[r]
    <3>1. Moves(r, {"workers", "check", "verdict"}, "cancelled", round[r], done[r])
      BY <1>2, <1>16, <2>1 DEF Verdict, Moves
    <3>2. QED
      BY <1>2, <1>3, <1>16, <3>1 DEF Verdict, RunnerMove
  <2>2. CASE ~stop[r]
    BY <1>2, <1>3, <1>16, <2>2 DEF Verdict, RunnerMove
  <2>3. QED
    BY <2>1, <2>2
<1>17. ASSUME Exit(r), Alive(r)
       PROVE  Others /\ Left(r) /\ RunnerMove(r) /\ planned' \subseteq 1..Rounds
  BY <1>1, <1>17 DEF Exit, Left, RunnerMove
<1>18. CASE Complete(r) \/ Cancelled(r) \/ Fail(r)
  <2>1. Alive(r) /\ Exit(r) /\ status' \in Statuses /\ UNCHANGED <<validation, pid, identity>>
    BY <1>18 DEF Complete, Cancelled, Fail, LastWord, Alive, Statuses
  <2>2. status' = "COMPLETED" => rpc[r] = "complete"
    BY <1>18 DEF Complete, Cancelled, Fail, LastWord
  <2>3. QED
    BY <1>1, <1>17, <2>1, <2>2
<1>19. CASE Breaks(r)
  <2>1. Moves(r, {"serve", "setup", "workers", "call"}, "fail", round[r], done[r])
    BY <1>2, <1>19 DEF Breaks, Moves
  <2>2. QED
    BY <1>2, <1>3, <1>19, <2>1 DEF Breaks, RunnerMove
<1>20. CASE Dies(r)
  BY <1>3, <1>17, <1>20 DEF Dies
<1>21. QED
  BY <1>4, <1>5, <1>6, <1>7, <1>8, <1>9, <1>10, <1>11, <1>12, <1>13, <1>14, <1>15, <1>16, <1>18,
     <1>19, <1>20 DEF RunnerNext
-----------------------------------------------------------------------------
\* The invariant of a runner's place

\* Every step keeps the types and the places of the runners.
LEMMA PlacedStep == Placed /\ [Next]_vars => Placed'
<1> SUFFICES ASSUME Placed, [Next]_vars PROVE Placed'
  OBVIOUS
<1> USE DEF Starting, InRounds, InRound
<1>1. CASE UNCHANGED vars
  BY <1>1 DEF vars, row, serviceVars, runnerVars, Placed, TypeOK, Positioned
<1>2. CASE \/ \E s \in Services : Boot(s) \/ Reconcile(s) \/ ServiceEnds(s)
           \/ \E t \in Threads : Request(t) \/ Continue(t)
  BY <1>2, ServiceStep DEF Placed, Positioned
<1>3. ASSUME NEW r \in Runners, RunnerNext(r) \/ Dies(r)
      PROVE  Placed'
  <2>1. /\ rpc[r] \in RunnerSteps /\ stop[r] \in BOOLEAN /\ round[r] \in 0..(Rounds + 1)
        /\ call[r] \in 0..(2 * Contributions) /\ done[r] \in 0..Rounds /\ late[r] \in Nat
    BY <1>3 DEF Placed, TypeOK
  <2>2. RunnerMove(r)
    BY <1>3, RunnerStep
  <2>3. /\ rpc[r] \in Starting => round[r] = 0 /\ done[r] = 0
        /\ rpc[r] \in InRounds => round[r] > 0 /\ done[r] = round[r] - 1
        /\ rpc[r] \in InRound => round[r] <= Rounds
        /\ rpc[r] = "verdict" => stop[r] \/ round[r] > Rounds
    BY DEF Placed, Positioned
  <2>4. /\ rpc'[r] \in RunnerSteps /\ stop'[r] \in BOOLEAN /\ round'[r] \in 0..(Rounds + 1)
        /\ call'[r] \in 0..(2 * Contributions) /\ done'[r] \in 0..Rounds /\ late'[r] \in Nat
        /\ rpc'[r] \in Starting => round'[r] = 0 /\ done'[r] = 0
        /\ rpc'[r] \in InRounds => round'[r] > 0 /\ done'[r] = round'[r] - 1
        /\ rpc'[r] \in InRound => round'[r] <= Rounds
        /\ rpc'[r] = "verdict" => stop'[r] \/ round'[r] > Rounds
        /\ rpc'[r] = "complete" => round'[r] > Rounds
    <3> USE <2>1, <2>3, ConstantsAssumption DEF Moves, SameLate, OneLater, RunnerSteps
    <3>1. CASE Left(r)
      <4>1. rpc'[r] = "gone" /\ stop'[r] = FALSE /\ round'[r] = 0 /\ done'[r] = done[r]
            /\ call'[r] = 0 /\ late'[r] = 0
        BY <3>1 DEF Left
      <4>2. 0 \in 0..(Rounds + 1) /\ 0 \in Nat
        OBVIOUS
      <4>3. rpc'[r] \notin Starting /\ rpc'[r] \notin InRounds /\ rpc'[r] \notin InRound
        BY <4>1
      <4>4. QED
        BY <4>1, <4>2, <4>3, CallBound
    <3>2. CASE /\ SameLate(r)
               /\ \/ Moves(r, {"boot"}, "announce", round[r], done[r])
                  \/ Moves(r, {"announce"}, "identify", round[r], done[r])
                  \/ \E to \in {"claim", "fail"} : Moves(r, {"identify"}, to, round[r], done[r])
                  \/ Moves(r, {"claim"}, "serve", round[r], done[r])
                  \/ Moves(r, {"serve"}, "loop", 1, done[r])
      BY <3>2
    <3>3. CASE /\ SameLate(r)
               /\ \/ (stop[r] \/ round[r] > Rounds) /\ Moves(r, {"loop"}, "verdict", round[r], done[r])
                  \/ round[r] <= Rounds /\ Moves(r, {"loop"}, "setup", round[r], done[r])
                  \/ Moves(r, {"setup"}, "workers", round[r], done[r])
                  \/ Moves(r, {"workers"}, "check", round[r], done[r])
                  \/ Moves(r, {"check"}, "call", round[r], done[r])
                  \/ ~stop[r] /\ Moves(r, {"verdict"}, "complete", round[r], done[r])
      BY <3>3
    <3>4. CASE /\ SameLate(r)
               /\ \/ Moves(r, {"setup"}, "fail", round[r], done[r])
                  \/ Moves(r, {"workers", "check", "verdict"}, "cancelled", round[r], done[r])
                  \/ Moves(r, {"serve", "setup", "workers", "call"}, "fail", round[r], done[r])
      BY <3>4
    <3>5. CASE OneLater(r) /\ Moves(r, {"call"}, "check", round[r], done[r])
      BY <3>5
    <3>6. CASE OneLater(r) /\ Moves(r, {"call"}, "loop", round[r] + 1, done[r] + 1)
      BY <3>6
    <3> USE DEF RunnerMove
    <3>7. QED
      BY <2>2, <3>1, <3>2, <3>3, <3>4, <3>5, <3>6
  <2>5. Positioned'
    BY <1>3, <2>4, RunnerStep DEF Placed, Positioned
  <2>6. /\ rpc' \in [Runners -> RunnerSteps] /\ stop' \in [Runners -> BOOLEAN]
        /\ round' \in [Runners -> 0..(Rounds + 1)] /\ call' \in [Runners -> 0..(2 * Contributions)]
        /\ done' \in [Runners -> 0..Rounds] /\ late' \in [Runners -> Nat]
    BY <1>3, <2>4, RunnerStep DEF Placed, TypeOK
  <2>7. QED
    BY <1>3, <2>5, <2>6, RunnerStep DEF Placed, TypeOK, serviceVars
<1>4. QED
  BY <1>1, <1>2, <1>3 DEF Next

\* The types hold for any number of services, requests, runners and rounds.
THEOREM TypeCorrect == Spec => []TypeOK
<1>1. Placed => TypeOK
  BY DEF Placed
<1>2. QED
  BY <1>1, PlacedInit, PlacedStep, PTL DEF Spec

\* Runners stand where their counters say.
LEMMA AlwaysPlaced == Spec => []Placed
BY PlacedInit, PlacedStep, PTL DEF Spec

-----------------------------------------------------------------------------
\* COMPLETED is done

\* A runner's count of aggregated rounds never falls.
LEMMA DoneGrows ==
    ASSUME Placed, [Next]_vars, NEW r \in Runners
    PROVE  done[r] \in 0..Rounds /\ done'[r] \in 0..Rounds /\ done'[r] >= done[r]
<1>1. done[r] \in 0..Rounds /\ done'[r] \in 0..Rounds
  BY PlacedStep DEF Placed, TypeOK
<1>2. CASE done' = done
  BY <1>1, <1>2
<1>3. ASSUME NEW q \in Runners, RunnerNext(q) \/ Dies(q)
      PROVE  done'[r] >= done[r]
  <2>1. done'[q] = done[q] \/ done'[q] = done[q] + 1
    BY <1>3, RunnerStep DEF RunnerMove, Moves, Left
  <2>2. QED
    BY <1>1, <1>3, <2>1, RunnerStep
<1>4. QED
  BY <1>1, <1>2, <1>3, ServiceStep DEF Next, vars, runnerVars, Placed

\* Only a runner that has been through all its rounds writes COMPLETED.
LEMMA CompletedStep == Placed /\ CompletedIsDone /\ [Next]_vars => CompletedIsDone'
<1> SUFFICES ASSUME Placed, CompletedIsDone, [Next]_vars, status' = "COMPLETED"
             PROVE  \E r \in Runners : done'[r] = Rounds
  BY DEF CompletedIsDone
<1>1. CASE status = "COMPLETED"
  <2>1. PICK r \in Runners : done[r] = Rounds
    BY <1>1 DEF CompletedIsDone
  <2>2. QED
    BY <2>1, DoneGrows, ConstantsAssumption
<1>2. CASE status # "COMPLETED"
  <2>1. PICK r \in Runners : (RunnerNext(r) \/ Dies(r)) /\ rpc[r] = "complete"
    BY <1>2, ServiceStep, RunnerStep DEF Next, vars, row, Placed
  <2>2. round[r] \in 0..(Rounds + 1) /\ done[r] = round[r] - 1 /\ round[r] > Rounds
    BY <2>1 DEF Placed, TypeOK, Positioned, InRounds
  <2>3. done[r] = Rounds
    BY <2>2, ConstantsAssumption
  <2>4. QED
    BY <2>3, DoneGrows, ConstantsAssumption
<1>3. QED
  BY <1>1, <1>2

\* A job is COMPLETED only when one runner has aggregated all of its rounds,
\* whatever cancellations, deaths and other runners come in between.
THEOREM CompletedDone == Spec => []CompletedIsDone
<1>1. Init => CompletedIsDone
  BY DEF Init, CompletedIsDone
<1>2. QED
  BY <1>1, CompletedStep, AlwaysPlaced, PTL DEF Spec

-----------------------------------------------------------------------------
\* One call after SIGTERM

\* A runner that has not handled SIGTERM has made no late call, and one that is
\* about to call has made none either: its checkpoint saw no SIGTERM.
LateCounted ==
    \A r \in Runners :
        /\ ~stop[r] \/ rpc[r] = "call" => late[r] = 0
        /\ late[r] <= 1

\* SIGTERM, checkpoints and calls keep the count.
LEMMA LateStep == Placed /\ LateCounted /\ [Next]_vars => LateCounted'
<1> SUFFICES ASSUME Placed, LateCounted, [Next]_vars PROVE LateCounted'
  OBVIOUS
<1>1. CASE UNCHANGED vars
  BY <1>1 DEF vars, runnerVars, LateCounted
<1>2. CASE \/ \E s \in Services : Boot(s) \/ Reconcile(s) \/ ServiceEnds(s)
           \/ \E t \in Threads : Request(t) \/ Continue(t)
  BY <1>2, ServiceStep DEF Placed, LateCounted
<1>3. ASSUME NEW r \in Runners, RunnerNext(r) \/ Dies(r)
      PROVE  LateCounted'
  <2>1. stop[r] \in BOOLEAN /\ late[r] \in Nat
    BY DEF Placed, TypeOK
  <2>2. (~stop[r] \/ rpc[r] = "call" => late[r] = 0) /\ late[r] <= 1
    BY DEF LateCounted
  <2>3. /\ ~stop'[r] \/ rpc'[r] = "call" => late'[r] = 0
        /\ late'[r] <= 1
    <3>1. CASE Left(r)
      BY <3>1 DEF Left
    <3>2. CASE SameLate(r) /\ stop'[r] = stop[r] /\ rpc'[r] # "call"
      BY <2>2, <3>2 DEF SameLate
    <3>3. CASE SameLate(r) /\ ~stop[r] /\ stop'[r] = stop[r]
      BY <2>2, <3>3 DEF SameLate
    <3>4. CASE OneLater(r) /\ rpc[r] = "call" /\ rpc'[r] # "call" /\ stop'[r] = stop[r]
      BY <2>1, <2>2, <3>4 DEF OneLater
    <3>5. RunnerMove(r)
      BY <1>3, RunnerStep
    <3>6. QED
      BY <3>1, <3>2, <3>3, <3>4, <3>5 DEF RunnerMove, Moves
  <2>4. QED
    BY <1>3, <2>3, RunnerStep DEF LateCounted
<1>4. QED
  BY <1>1, <1>2, <1>3 DEF Next

\* Once SIGTERM is handled a runner makes at most the one admin call that its
\* last checkpoint let through.
THEOREM OneLateCallMade == Spec => []OneLateCall
<1>1. Init => LateCounted
  BY DEF Init, LateCounted
<1>2. LateCounted => OneLateCall
  BY DEF LateCounted, OneLateCall
<1>3. QED
  BY <1>1, <1>2, LateStep, AlwaysPlaced, PTL DEF Spec

-----------------------------------------------------------------------------
\* One runner trains

\* A runner that has got past the setup of the first round.
PastSetup(r) == done[r] > 0 \/ rpc[r] \in {"workers", "check", "call"}

\* The plan of the first round is made by one runner, which is the only one
\* past it.
SolePlanner ==
    /\ \A r \in Runners : PastSetup(r) => 1 \in planned
    /\ \A q, r \in Runners : PastSetup(q) /\ PastSetup(r) => q = r

\* A second runner finds the first round planned and fails before it trains.
LEMMA SolePlannerStep == Placed /\ SolePlanner /\ [Next]_vars => SolePlanner'
<1> SUFFICES ASSUME Placed, SolePlanner, [Next]_vars PROVE SolePlanner'
  OBVIOUS
<1>1. CASE UNCHANGED vars
  BY <1>1 DEF vars, runnerVars, SolePlanner, PastSetup
<1>2. CASE \/ \E s \in Services : Boot(s) \/ Reconcile(s) \/ ServiceEnds(s)
           \/ \E t \in Threads : Request(t) \/ Continue(t)
  <2>1. planned' = planned /\ \A r \in Runners : PastSetup(r)' => PastSetup(r)
    BY <1>2, ServiceStep DEF Placed, PastSetup
  <2>2. QED
    BY <2>1 DEF SolePlanner
<1>3. ASSUME NEW r \in Runners, RunnerNext(r) \/ Dies(r)
      PROVE  SolePlanner'
  <2>1. \A q \in Runners \ {r} : PastSetup(q)' <=> PastSetup(q)
    BY <1>3, RunnerStep DEF PastSetup
  <2>2. done[r] \in 0..Rounds /\ round[r] \in 0..(Rounds + 1)
    BY DEF Placed, TypeOK
  <2>3. CASE planned' = planned /\ (PastSetup(r)' => PastSetup(r))
    BY <2>1, <2>3 DEF SolePlanner
  <2>4. CASE /\ planned' = planned \cup {round[r]} /\ round[r] \notin planned
             /\ Moves(r, {"setup"}, "workers", round[r], done[r])
    <3>1. done[r] = round[r] - 1
      BY <2>4 DEF Moves, Placed, Positioned, InRounds
    <3>2. CASE done[r] > 0
      BY <2>1, <2>4, <3>2 DEF SolePlanner, PastSetup
    <3>3. CASE round[r] = 1
      <4>1. \A q \in Runners : ~PastSetup(q)
        BY <2>4, <3>3 DEF SolePlanner
      <4>2. QED
        BY <2>1, <2>4, <3>3, <4>1 DEF SolePlanner
    <3>4. QED
      BY <2>2, <3>1, <3>2, <3>3, ConstantsAssumption
  <2>5. RunnerMove(r)
    BY <1>3, RunnerStep
  <2>6. CASE planned' = planned /\ Left(r)
    BY <2>3, <2>6 DEF Left, PastSetup
  <2>7. CASE planned' = planned /\ rpc'[r] \notin {"workers", "check", "call"} /\ done'[r] = done[r]
    BY <2>3, <2>7 DEF PastSetup
  <2>8. CASE planned' = planned /\ rpc[r] \in {"workers", "check", "call"}
    BY <2>3, <2>8 DEF PastSetup
  <2>9. QED
    BY <2>2, <2>4, <2>5, <2>6, <2>7, <2>8 DEF RunnerMove, Moves
<1>4. QED
  BY <1>1, <1>2, <1>3 DEF Next

\* However often a job is started, one runner at most ever aggregates: the
\* setup of the first round succeeds once.
THEOREM OneRunnerTrains == Spec => []OneTrainer
<1>1. Init => SolePlanner
  BY DEF Init, SolePlanner, PastSetup
<1>2. SolePlanner => OneTrainer
  BY DEF SolePlanner, OneTrainer, PastSetup
<1>3. QED
  BY <1>1, <1>2, SolePlannerStep, AlwaysPlaced, PTL DEF Spec
=============================================================================
