---------------------------- MODULE OutcomeProofs ----------------------------
(***************************************************************************)
(* Proofs about what a command leaves behind when it returns: the outcome  *)
(* of its Deployment is recorded, and a Deployment that did not become the *)
(* active one has no port, no unit and no container.                       *)
(*                                                                         *)
(* Each theorem names the failures it excludes, and TLC finds it false     *)
(* with any one of them.  Recording the outcome needs a store that answers *)
(* and a process that lives to use it; leaving nothing needs, besides,     *)
(* that the cleanup itself does not fail, whatever made it necessary.      *)
(***************************************************************************)
EXTENDS ActivationProofs

-------------------------------------------------------------------------------
(* The predecessor *)

\* The fields of a command that has found the predecessor, or that there is none.
LEMMA VerifyingFields ==
    ASSUME TypeOK, NEW a \in Applications, MarkVerifying(a)
    PROVE  \E p \in Previous(a, Dep(a)) \cup {None} :
             /\ p = None => Previous(a, Dep(a)) = {}
             /\ op'[a].step = "health" /\ op'[a].dep = op[a].dep /\ op'[a].prev = p
             /\ op'[a].held = op[a].held
<1>1. PICK p \in Previous(a, Dep(a)) \cup {None} :
        /\ p = None => Previous(a, Dep(a)) = {}
        /\ op' = [op EXCEPT ![a] = [op[a] EXCEPT !.step = "health", !.prev = p]]
  BY DEF MarkVerifying
<1> QED BY <1>1 DEF TypeOK, Operations

-------------------------------------------------------------------------------
(* A command that returns has ended its Deployment *)

\* The failures that keep a command from recording an outcome.
Silencing == {"store", "quiet", "crash", "reboot"}

\* Steps of a command that has still to record the outcome of its Deployment.
Deciding ==
    Undecided \cup {"restore", "reload", "record_failed", "record_diverged", "fail"}

\* A Deployment under way is that of a command that has still to decide it.
IsDecided(a) ==
    \A d \in Deployments :
        owner[d] = a /\ status[d] \in NonTerminal =>
            op[a].dep = d /\ op[a].step \in Deciding

OutcomesAreDecided ==
    Faults \cap Silencing = {} => \A a \in Applications : IsDecided(a)

\* A command that has still to decide goes on to, or records the outcome.
DecidesLater(a) ==
    \/ op'[a].step \in Deciding /\ op'[a].dep = op[a].dep
    \/ status'[op[a].dep] \notin NonTerminal

\* The steps of start_candidate go on.
LEMMA CandidateDecides ==
    ASSUME Invariant, Faults \cap Silencing = {}, NEW a \in Applications,
           op[a].step \in Deciding,
           \/ StartCandidate(a) \/ ReservePort(a) \/ PortsExhausted(a) \/ WriteUnit(a)
           \/ LaunchUnit(a) \/ ResolveContainer(a) \/ RegisterCandidate(a)
           \/ ConsumeReservation(a) \/ MarkVerifying(a) \/ CandidateStepFails(a)
           \/ CommandFailsSilently(a)
    PROVE  DecidesLater(a)
<1> USE DEF Invariant, DecidesLater, Deciding, Undecided, BeforeUnit, Carries
<1>1. ~Can("quiet")
  BY DEF Can, Silencing
<1>2. CASE StartCandidate(a)
  BY <1>2, GotoFields DEF StartCandidate, Advance
<1>3. CASE ReservePort(a) \/ WriteUnit(a) \/ ResolveContainer(a) \/ RegisterCandidate(a)
  BY <1>3, HoldFields DEF ReservePort, WriteUnit, ResolveContainer, RegisterCandidate
<1>4. CASE PortsExhausted(a) \/ LaunchUnit(a) \/ ConsumeReservation(a)
  BY <1>4, GotoFields DEF PortsExhausted, LaunchUnit, ConsumeReservation
<1>5. CASE CandidateStepFails(a) \/ CommandFailsSilently(a)
  BY <1>1, <1>5, GotoFields DEF CandidateStepFails, CommandFailsSilently
<1>6. CASE MarkVerifying(a)
  BY <1>6, VerifyingFields
<1> QED BY <1>2, <1>3, <1>4, <1>5, <1>6

\* An activation goes on, promotes its candidate or goes on to fail it.
LEMMA ActivationDecides ==
    ASSUME Invariant, Faults \cap Silencing = {}, NEW a \in Applications,
           op[a].step \in Deciding,
           \/ PromoteInternal(a) \/ InternalUnhealthy(a) \/ PublicUnhealthy(a)
           \/ MarkActivating(a) \/ BeginPublicExposure(a) \/ ReplaceFragment(a)
           \/ ReplaceFragmentFails(a) \/ ValidationFails(a) \/ ReloadCaddy(a)
           \/ ReloadFails(a) \/ PromotePublic(a) \/ RejectPublicCandidate(a)
           \/ RestoreFragment(a) \/ ReloadRestored(a) \/ RecordFailedExposure(a)
           \/ RecordDivergedExposure(a)
    PROVE  DecidesLater(a)
<1> USE DEF Invariant, TypeOK, DecidesLater, Deciding, Undecided, BeforeUnit, Carries, Dep, At
<1>1. ~Can("quiet") /\ ~Can("store")
  BY DEF Can, Silencing
<1>2. CASE PromoteInternal(a) \/ PromotePublic(a)
  <2>1. PromotionRows(a, Dep(a)) /\ Dep(a) \in Deployments
    BY <1>2, CandidateFacts
       DEF PromoteInternal, PromotePublic, CandidateSteps, WithUnit
  <2>2. \E s \in {"succeeded"} : status' = [status EXCEPT ![Dep(a)] = s]
    BY <2>1 DEF PromotionRows, Transition
  <2> QED BY <2>1, <2>2 DEF NonTerminal
<1>3. CASE InternalUnhealthy(a)
  <2>1. Dep(a) \in Deployments /\ Transition(status[Dep(a)], "fail") # "illegal"
        /\ status' = [status EXCEPT ![Dep(a)] = Transition(@, "fail")]
    BY <1>3, CandidateFacts DEF InternalUnhealthy, Advance, CandidateSteps, WithUnit
  <2> QED BY <2>1 DEF Transition, NonTerminal
<1>4. CASE PublicUnhealthy(a) \/ MarkActivating(a) \/ BeginPublicExposure(a)
  BY <1>4, GotoFields DEF PublicUnhealthy, MarkActivating, Advance, BeginPublicExposure
<1>5. CASE ReplaceFragment(a)
  <2>1. op' = [op EXCEPT ![a] = [op[a] EXCEPT !.step = "validate", !.saved = fragment[a]]]
    BY <1>5 DEF ReplaceFragment
  <2>2. op'[a].step = "validate" /\ op'[a].dep = op[a].dep
    BY <2>1 DEF Operations
  <2> QED BY <2>2
<1>6. CASE ReplaceFragmentFails(a) \/ ValidationFails(a) \/ ReloadFails(a)
  BY <1>6, GotoFields DEF ReplaceFragmentFails, ValidationFails, ReloadFails
<1>7. CASE ReloadCaddy(a) \/ RejectPublicCandidate(a)
  BY <1>7, GotoFields DEF ReloadCaddy, RejectPublicCandidate
<1>8. CASE RestoreFragment(a) \/ ReloadRestored(a)
  BY <1>8, GotoFields DEF RestoreFragment, ReloadRestored
<1>9. CASE RecordFailedExposure(a) \/ RecordDivergedExposure(a)
  BY <1>1, <1>9, GotoFields
     DEF RecordFailedExposure, RecordDivergedExposure, RecordExposureFailure
<1> QED BY <1>2, <1>3, <1>4, <1>5, <1>6, <1>7, <1>8, <1>9

\* The finalizer records the failure before it cleans up; the other steps of a
\* cleanup or a retirement have no Deployment to decide.
LEMMA CompensationDecides ==
    ASSUME Invariant, Faults \cap Silencing = {}, NEW a \in Applications,
           op[a].step \in Deciding,
           \/ FailDeployment(a) \/ KeepPromoted(a) \/ StopCandidate(a)
           \/ NothingToStop(a) \/ RemoveCandidateUnit(a) \/ ProveCandidateRemoved(a)
           \/ TombstoneCandidate(a) \/ ReleasePort(a) \/ CompensationFails(a)
           \/ RetireStop(a) \/ RetireUnit(a) \/ ProvePreviousRemoved(a)
           \/ RetireRuntime(a) \/ SettleExposure(a)
    PROVE  DecidesLater(a)
<1>1. FailDeployment(a)
  BY DEF Deciding, Undecided, BeforeUnit, At, KeepPromoted, StopCandidate, NothingToStop,
         CleanupStarts, RemoveCandidateUnit, RemoveUnit, ProveCandidateRemoved,
         TombstoneCandidate, ReleasePort, CompensationFails, RetireStop, RetireUnit,
         ProvePreviousRemoved, RetireRuntime, SettleExposure
<1>2. ~Can("store") /\ Dep(a) \in Deployments
  BY <1>1, CandidateFacts DEF Can, Silencing, FailDeployment, At, CandidateSteps
<1>3. \/ /\ Transition(status[Dep(a)], "fail") # "illegal"
         /\ status' = [status EXCEPT ![Dep(a)] = Transition(@, "fail")]
      \/ Transition(status[Dep(a)], "fail") = "illegal" /\ UNCHANGED status
  BY <1>1, <1>2 DEF FailDeployment
<1> QED
  BY <1>2, <1>3 DEF DecidesLater, Dep, Transition, NonTerminal, Invariant, TypeOK

\* A command, a request and a recovery keep a Deployment under way with the
\* command that decides it.
LEMMA LocalDecides ==
    ASSUME Invariant, Faults \cap Silencing = {}, NEW a \in Applications, IsDecided(a),
           Request(a) \/ Command(a) \/ Reconcile(a)
    PROVE  IsDecided(a)'
<1> USE DEF Invariant, TypeOK
<1>1. CASE Request(a)
  <2>1. PICK d \in Deployments, r \in Releases \cup {None} : CreateDeployment(a, d, r)
    BY <1>1, RequestCreates
  <2>2. op' = [op EXCEPT ![a] = [op[a] EXCEPT !.step = "start", !.dep = d]]
    BY <2>1 DEF CreateDeployment
  <2>3. op'[a].step = "start" /\ op'[a].dep = d
    BY <2>2 DEF Operations
  <2>4. \A e \in Deployments : owner[e] = a => status[e] \notin NonTerminal
    BY <2>1 DEF CreateDeployment, Blocking, Owned
  <2> QED
    BY <2>1, <2>3, <2>4 DEF CreateDeployment, IsDecided, Deciding, Undecided, BeforeUnit
<1>2. CASE Reconcile(a)
  BY <1>2, ReconcileRecovers
     DEF Recover, At, IsDecided, Deciding, Undecided, BeforeUnit
<1>3. CASE Command(a)
  <2>1. op[a].step \in Deciding => DecidesLater(a)
    BY <1>3, CandidateDecides, ActivationDecides, CompensationDecides DEF Command
  <2>2. \A d \in Deployments :
          owner'[d] = a /\ status'[d] \in NonTerminal =>
            owner[d] = a /\ status[d] \in NonTerminal
    <3>1. CASE Promotes(a)
      <4>1. /\ UNCHANGED owner
            /\ \E s \in {"succeeded"} : status' = [status EXCEPT ![Dep(a)] = s]
        BY <3>1 DEF Promotes, PromotionRows, Transition
      <4> QED BY <4>1 DEF NonTerminal
    <3>2. CASE (StatusMoves(a) \/ UNCHANGED status) /\ UNCHANGED owner
      BY <3>2 DEF StatusMoves
    <3> QED BY <1>3, <3>1, <3>2, RowSteps
  <2> QED BY <2>1, <2>2 DEF IsDecided, DecidesLater
<1> QED BY <1>1, <1>2, <1>3

\* Every step of a system whose store answers and whose processes live keeps
\* Deployments under way with their commands.
LEMMA StepDecides ==
    ASSUME Invariant, OutcomesAreDecided, [Next]_vars
    PROVE  OutcomesAreDecided'
<1> SUFFICES ASSUME Faults \cap Silencing = {}, \A b \in Applications : IsDecided(b)
             PROVE  \A b \in Applications : IsDecided(b)'
  BY DEF OutcomesAreDecided
<1>1. ~Can("crash") /\ ~Can("reboot")
  BY DEF Can, Silencing
<1>2. ASSUME NEW a \in Applications, Request(a) \/ Command(a) \/ Reconcile(a)
      PROVE  \A b \in Applications : IsDecided(b)'
  <2>1. OnlyMoves(a)
    BY <1>2, CommandIsLocal
  <2>2. \A b \in Applications : b # a => IsDecided(b)'
    BY <2>1, NoneAssumption DEF OnlyMoves, ApplicationKeeps, DeploymentKeeps, IsDecided
  <2> QED BY <1>2, <2>2, LocalDecides
<1>3. CASE (\E d \in Deployments : RestartContainer(d)) \/ UNCHANGED vars
  BY <1>3 DEF RestartContainer, vars, IsDecided, deploymentRows
<1> QED BY <1>1, <1>2, <1>3 DEF Next, Crash, Reboot

\* A command that returns has ended its Deployment, as long as the store answers
\* and neither the process nor the host goes down.
THEOREM ReturnsSettled ==
    ASSUME Faults \cap Silencing = {}
    PROVE  Spec => []Settled
<1>1. Init => OutcomesAreDecided
  BY DEF Init, OutcomesAreDecided, IsDecided, NonTerminal
<1>2. Invariant /\ OutcomesAreDecided /\ [Next]_vars => OutcomesAreDecided'
  BY StepDecides
<1>3. OutcomesAreDecided => Settled
  BY DEF OutcomesAreDecided, IsDecided, Settled, At, Blocking, Owned, Deciding, Undecided,
         BeforeUnit
<1> QED BY <1>1, <1>2, <1>3, InvariantHolds, PTL DEF Spec

-------------------------------------------------------------------------------
(* A command that returns leaves nothing but the active runtime *)

\* The failures that do not reach into a cleanup.
Survivable == {"restart", "same_second"}

\* Nothing on the host or in the port tables belongs to d.
IsClean(d) ==
    /\ reservation[d] = 0 /\ endpoint[d] = 0
    /\ unit[d] = 0 /\ container[d] = "absent"

\* A Deployment that nobody owns yet has no reservation and no container.
UnownedIsClean ==
    \A d \in Deployments :
        owner[d] = None => reservation[d] = 0 /\ container[d] = "absent"

\* Every Deployment of a is over and clean, the active one, or in the hands of
\* the command.
AllAccounted(a) ==
    \A d \in Deployments : owner[d] = a =>
        \/ status[d] \in Terminal /\ IsClean(d)
        \/ d = active[a] /\ status[d] = "succeeded" /\ reservation[d] = 0
        \/ op[a].step \in CandidateSteps /\ d = op[a].dep
        \/ op[a].step \in RetirementSteps /\ d = op[a].prev

\* What a command on its way to an outcome has made, and so would clean up.
HoldsCandidate(o) ==
    /\ o.step \in BeforeUnit \cup {"launch"} => container[o.dep] = "absent"
    /\ o.step \in {"start", "reserve"} => reservation[o.dep] = 0 /\ o.held = {}
    /\ o.step = "write" => o.held = {"port"}
    /\ o.step \in {"launch", "resolve", "register"} => endpoint[o.dep] = 0
    /\ o.step \in Registered => runtime[o.dep] = "starting" /\ endpoint[o.dep] # 0
    /\ o.step \in Registered \ {"consume"} => reservation[o.dep] = 0

\* What a cleanup finds: a runtime row to tombstone when it holds one, and no
\* container when it holds no unit.
HoldsFailure(o) ==
    /\ o.step = "fail" /\ o.held = {} => IsClean(o.dep)
    /\ o.step \in {"fail", "cleanup"} /\ "unit" \notin o.held =>
           container[o.dep] = "absent"
    /\ o.step \in {"fail", "cleanup", "remove", "prove", "tombstone"} =>
           IF "runtime" \in o.held
           THEN runtime[o.dep] = "starting" /\ endpoint[o.dep] # 0
           ELSE endpoint[o.dep] = 0
    /\ o.step \in {"cleanup", "remove", "prove", "tombstone", "release"} =>
           status[o.dep] \in Terminal
    /\ o.step \in {"remove", "prove", "tombstone", "release"} =>
           container[o.dep] = "absent"
    /\ o.step = "release" => endpoint[o.dep] = 0

\* What a command knows of the predecessor: it is the active one until the
\* promotion, and after it the only one that is left to give up.
HoldsPredecessor(a, o) ==
    /\ o.step \in Succeeding /\ o.prev = None => active[a] = None
    /\ o.step \in RetirementSteps =>
           /\ o.prev # active[a] /\ status[o.prev] \in Terminal
           /\ endpoint[o.prev] # 0 /\ reservation[o.prev] = 0
    /\ o.step \in RetirementSteps \ {"retire"} => container[o.prev] = "absent"

IsTidy(a) ==
    /\ op[a].step = "idle" => op[a] = Idle
    /\ op[a].step # "settle"
    /\ AllAccounted(a) /\ HoldsCandidate(op[a]) /\ HoldsFailure(op[a])
    /\ HoldsPredecessor(a, op[a])

EverythingIsTidy ==
    Faults \subseteq Survivable =>
        UnownedIsClean /\ \A a \in Applications : IsTidy(a)

\* What the leaves below know of the command of a.
TidyFacts(a) ==
    /\ TypeOK /\ IsTidy(a) /\ Owns(a, op[a]) /\ Tracks(op[a])
    /\ ActiveIsRunning(a) /\ KnowsRuntimes(op[a]) /\ KnowsContainer(op[a])
    /\ op[a].step \in CandidateSteps =>
           Dep(a) \in Deployments /\ owner[Dep(a)] = a /\ status[Dep(a)] # "none"

\* They follow from the invariant.
LEMMA TidyFactsHold ==
    ASSUME RuntimeInvariant, ContainersAreKnown, NEW a \in Applications, IsTidy(a)
    PROVE  TidyFacts(a)
  BY CandidateFacts
     DEF TidyFacts, RuntimeInvariant, Invariant, PortInvariant, OpOwnsItsWork,
         UnitIsTracked, RuntimesFollow, ContainersAreKnown

\* The candidate's command goes on and touches no other Deployment.
LEMMA AccountedGoesOn ==
    ASSUME NEW a \in Applications, AllAccounted(a), op[a].step \in CandidateSteps,
           op'[a].step \in CandidateSteps, op'[a].dep = op[a].dep,
           UNCHANGED <<owner, active>>,
           \A d \in Deployments : d # op[a].dep =>
               /\ status'[d] = status[d] /\ reservation'[d] = reservation[d]
               /\ endpoint'[d] = endpoint[d] /\ unit'[d] = unit[d]
               /\ container'[d] = container[d]
    PROVE  AllAccounted(a)'
  BY DEF AllAccounted, IsClean, CandidateSteps, BeforeUnit, WithUnit, RetirementSteps

\* The steps of start_candidate keep an account of what they make.
LEMMA CandidateTidies ==
    ASSUME Faults \subseteq Survivable, NEW a \in Applications, TidyFacts(a),
           \/ StartCandidate(a) \/ ReservePort(a) \/ PortsExhausted(a) \/ WriteUnit(a)
           \/ LaunchUnit(a) \/ ResolveContainer(a) \/ RegisterCandidate(a)
           \/ ConsumeReservation(a) \/ MarkVerifying(a) \/ CandidateStepFails(a)
           \/ CommandFailsSilently(a)
    PROVE  IsTidy(a)'
<1>1. ~Can("quiet") /\ ~Can("command") /\ ~Can("store")
  BY DEF Can, Survivable
<1>2. op[a].step \in CandidateSteps /\ Dep(a) \in Deployments
  BY DEF TidyFacts, CandidateSteps, BeforeUnit, WithUnit, At, StartCandidate, ReservePort,
         PortsExhausted, WriteUnit, LaunchUnit, ResolveContainer, RegisterCandidate,
         ConsumeReservation, MarkVerifying, CandidateStepFails, CommandFailsSilently
<1>3. /\ op'[a].step \in CandidateSteps /\ op'[a].dep = op[a].dep
      /\ UNCHANGED <<owner, active>>
      /\ \A d \in Deployments : d # Dep(a) =>
           /\ status'[d] = status[d] /\ reservation'[d] = reservation[d]
           /\ endpoint'[d] = endpoint[d] /\ unit'[d] = unit[d]
           /\ container'[d] = container[d]
  <2> USE <1>2
      DEF TidyFacts, Carries, CandidateSteps, BeforeUnit, WithUnit, deploymentRows,
          runtimeRows, podman, TypeOK
  <2>1. CASE StartCandidate(a)
    BY <2>1, GotoFields DEF StartCandidate, Advance
  <2>2. CASE ReservePort(a) \/ WriteUnit(a) \/ ResolveContainer(a) \/ RegisterCandidate(a)
    BY <2>2, HoldFields DEF ReservePort, WriteUnit, ResolveContainer, RegisterCandidate
  <2>3. CASE PortsExhausted(a) \/ LaunchUnit(a) \/ ConsumeReservation(a)
    BY <2>3, GotoFields DEF PortsExhausted, LaunchUnit, ConsumeReservation
  <2>4. CASE CandidateStepFails(a) \/ CommandFailsSilently(a)
    BY <2>4, GotoFields DEF CandidateStepFails, CommandFailsSilently
  <2>5. CASE MarkVerifying(a)
    BY <2>5, VerifyingFields DEF MarkVerifying
  <2> QED BY <2>1, <2>2, <2>3, <2>4, <2>5
<1>4. AllAccounted(a)'
  BY <1>2, <1>3, AccountedGoesOn DEF TidyFacts, IsTidy, Dep
<1>5. /\ op'[a].step # "idle" /\ op'[a].step # "settle"
      /\ HoldsCandidate(op[a])' /\ HoldsFailure(op[a])' /\ HoldsPredecessor(a, op[a])'
  <2> USE <1>1, <1>2, <1>3
      DEF TidyFacts, IsTidy, HoldsCandidate, HoldsFailure, HoldsPredecessor, Tracks,
          KnowsRuntimes, KnowsContainer, Unregistered, Registered, Succeeding, BeforeUnit,
          WithUnit, Undecided, RetirementSteps, IsClean, At, Dep, Carries, runtimeRows,
          podman, TypeOK
  <2>1. CASE StartCandidate(a)
    BY <2>1, GotoFields DEF StartCandidate, Advance
  <2>2. CASE ReservePort(a)
    BY <2>2, HoldFields DEF ReservePort
  <2>3. CASE WriteUnit(a)
    BY <2>3, HoldFields DEF WriteUnit
  <2>4. CASE ResolveContainer(a)
    BY <2>4, HoldFields DEF ResolveContainer
  <2>5. CASE RegisterCandidate(a)
    BY <2>5, HoldFields DEF RegisterCandidate
  <2>6. CASE PortsExhausted(a)
    BY <2>6, GotoFields DEF PortsExhausted
  <2>7. CASE LaunchUnit(a)
    BY <2>7, GotoFields DEF LaunchUnit
  <2>8. CASE ConsumeReservation(a)
    BY <2>8, GotoFields DEF ConsumeReservation
  <2>9. CASE CandidateStepFails(a)
    <3>1. /\ op'[a].step = "fail" /\ op'[a].held = op[a].held /\ op'[a].dep = Dep(a)
          /\ UNCHANGED <<status, runtime, reservation, endpoint, unit, container>>
      BY <2>9, GotoFields DEF CandidateStepFails, deploymentRows
    <3>2. CASE op[a].step \in BeforeUnit
      BY <3>1, <3>2
    <3>3. CASE op[a].step \in {"launch", "resolve", "register"}
      BY <3>1, <3>3
    <3>4. CASE op[a].step \in {"consume", "verify", "health", "route"}
      BY <3>1, <3>4
    <3> QED BY <2>9, <3>2, <3>3, <3>4 DEF CandidateStepFails
  <2>10. CASE CommandFailsSilently(a)
    BY <2>10 DEF CommandFailsSilently
  <2>11. CASE MarkVerifying(a)
    <3>1. PICK p \in Previous(a, Dep(a)) \cup {None} :
            /\ p = None => Previous(a, Dep(a)) = {}
            /\ op'[a].step = "health" /\ op'[a].dep = op[a].dep /\ op'[a].prev = p
            /\ op'[a].held = op[a].held
      BY <2>11, VerifyingFields
    <3>2. active[a] # None => active[a] \in Previous(a, Dep(a))
      <4>1. status[Dep(a)] # "succeeded"
        BY <2>11 DEF MarkVerifying, Transition
      <4> QED BY <4>1 DEF Previous, Owned, ActiveIsRunning
    <3>3. /\ op[a].step = "verify"
          /\ UNCHANGED <<runtime, reservation, endpoint, unit, container>>
      BY <2>11 DEF MarkVerifying
    <3>4. HoldsCandidate(op[a])' /\ HoldsFailure(op[a])'
      BY <3>1, <3>3
    <3>5. HoldsPredecessor(a, op[a])'
      BY <3>1, <3>2
    <3> QED BY <3>1, <3>4, <3>5
  <2> QED
    BY <2>1, <2>2, <2>3, <2>4, <2>5, <2>6, <2>7, <2>8, <2>9, <2>10, <2>11
<1> QED BY <1>4, <1>5 DEF IsTidy

\* The promotion hands the candidate over to its Application, and the command
\* either returns, having had no predecessor, or retires it.
LEMMA PromotionTidies ==
    ASSUME RuntimeInvariant, Faults \subseteq Survivable,
           NEW a \in Applications, TidyFacts(a),
           PromoteInternal(a) \/ PromotePublic(a)
    PROVE  IsTidy(a)'
<1>1. PICK d \in Deployments : d = Dep(a) /\ owner[d] = a
  BY DEF TidyFacts, PromoteInternal, PromotePublic, At, CandidateSteps, WithUnit
<1>2. /\ PromotionRows(a, d) /\ UNCHANGED <<unit, container>>
      /\ AfterPromotion(a, "fail") \/ AfterPromotion(a, "restore")
      /\ op[a].step \in {"health", "external"}
  BY <1>1 DEF PromoteInternal, PromotePublic, podman, At
<1>3. /\ status[d] \in NonTerminal /\ runtime[d] = "starting" /\ endpoint[d] # 0
      /\ active[a] # d /\ UNCHANGED <<owner, endpoint, reservation>>
      /\ active'[a] = d /\ status'[d] = "succeeded" /\ runtime'[d] = "running"
      /\ active[a] # None => runtime'[active[a]] = "stopped"
      /\ \A e \in Deployments : e # d => status'[e] = status[e]
  BY <1>1, <1>2, PromotionWrites DEF RuntimeInvariant
<1>4. op[a].prev = active[a]
  <2>1. CASE op[a].prev = None
    BY <1>2, <2>1 DEF TidyFacts, IsTidy, HoldsPredecessor, Succeeding
  <2>2. CASE op[a].prev # None
    <3>1. /\ op[a].prev \in Deployments /\ owner[op[a].prev] = a
          /\ runtime[op[a].prev] = "running"
      BY <1>2, <2>2
         DEF TidyFacts, TypeOK, Operations, Owns, KnowsRuntimes, Succeeding
    <3> QED BY <3>1 DEF TidyFacts, ActiveIsRunning
  <2> QED BY <2>1, <2>2
<1>5. reservation[d] = 0
  BY <1>1, <1>2 DEF TidyFacts, IsTidy, HoldsCandidate, Registered, Dep
<1>6. \/ op'[a] = Idle /\ active[a] = None
      \/ op'[a].step = "retire" /\ op'[a].prev = active[a] /\ active[a] # None
  <2>1. ~Can("uncertain")
    BY DEF Can, Survivable
  <2> QED BY <1>2, <1>4, <2>1, AfterPromotionFields DEF TidyFacts, End, TypeOK
<1>7. active[a] # None =>
        /\ active[a] \in Deployments /\ owner[active[a]] = a
        /\ status[active[a]] = "succeeded" /\ endpoint[active[a]] # 0
        /\ reservation[active[a]] = 0
  <2>1. active[a] # None =>
          /\ active[a] \in Deployments /\ owner[active[a]] = a
          /\ status[active[a]] = "succeeded" /\ endpoint[active[a]] # 0
    BY DEF TidyFacts, ActiveIsRunning, TypeOK
  <2> QED
    BY <1>1, <1>2, <1>3, <2>1
       DEF TidyFacts, IsTidy, AllAccounted, IsClean, RetirementSteps, Dep
<1>8. AllAccounted(a)'
  <2> SUFFICES ASSUME NEW e \in Deployments, owner'[e] = a
               PROVE  \/ status'[e] \in Terminal /\ IsClean(e)'
                      \/ /\ e = active'[a] /\ status'[e] = "succeeded"
                         /\ reservation'[e] = 0
                      \/ op'[a].step \in CandidateSteps /\ e = op'[a].dep
                      \/ op'[a].step \in RetirementSteps /\ e = op'[a].prev
    BY DEF AllAccounted
  <2>1. CASE e = d
    BY <1>3, <1>5, <2>1
  <2>2. CASE e = active[a] /\ e # d
    BY <1>6, <2>2, NoneAssumption DEF RetirementSteps
  <2>3. CASE e # active[a] /\ e # d
    <3>1. status[e] \in Terminal /\ IsClean(e)
      BY <1>1, <1>2, <1>3, <2>3
         DEF TidyFacts, IsTidy, AllAccounted, RetirementSteps, Dep
    <3> QED BY <1>2, <1>3, <2>3, <3>1 DEF IsClean
  <2> QED BY <2>1, <2>2, <2>3
<1>9. CASE op'[a] = Idle
  BY <1>8, <1>9
     DEF Idle, IsTidy, HoldsCandidate, HoldsFailure, HoldsPredecessor, BeforeUnit,
         Registered, Succeeding, RetirementSteps
<1>10. CASE op'[a].step = "retire" /\ op'[a].prev = active[a] /\ active[a] # None
  BY <1>3, <1>7, <1>8, <1>10
     DEF IsTidy, HoldsCandidate, HoldsFailure, HoldsPredecessor, BeforeUnit,
         Registered, Succeeding, RetirementSteps, Terminal
<1> QED BY <1>6, <1>9, <1>10

\* An activation changes routes, and a rejected candidate is still to be failed.
LEMMA ActivationTidies ==
    ASSUME Faults \subseteq Survivable, NEW a \in Applications, TidyFacts(a),
           \/ InternalUnhealthy(a) \/ PublicUnhealthy(a)
           \/ MarkActivating(a) \/ BeginPublicExposure(a) \/ ReplaceFragment(a)
           \/ ReplaceFragmentFails(a) \/ ValidationFails(a) \/ ReloadCaddy(a)
           \/ ReloadFails(a) \/ RejectPublicCandidate(a)
           \/ RestoreFragment(a) \/ ReloadRestored(a) \/ RecordFailedExposure(a)
           \/ RecordDivergedExposure(a)
    PROVE  IsTidy(a)'
<1>1. ~Can("quiet") /\ ~Can("command") /\ ~Can("store")
  BY DEF Can, Survivable
<1>2. /\ op[a].step \in Registered /\ op[a].step # "consume"
      /\ \/ op[a].step \in Succeeding /\ op'[a].step \in Succeeding
         \/ op'[a].step \in {"restore", "reload", "record_failed", "record_diverged",
                             "fail"}
         \/ op'[a].step = "cleanup" /\ status'[op[a].dep] = "failed"
      /\ op'[a].dep = op[a].dep /\ op'[a].prev = op[a].prev /\ op'[a].held = op[a].held
      /\ \A d \in Deployments : d # op[a].dep => status'[d] = status[d]
      /\ UNCHANGED <<owner, active, runtime, endpoint, reservation, unit, container>>
  <2> USE <1>1
      DEF TidyFacts, Registered, Succeeding, Carries, At, Dep, deploymentRows, runtimeRows,
          podman, TypeOK
  <2>1. CASE InternalUnhealthy(a)
    <3>1. Dep(a) \in Deployments
      BY <2>1 DEF InternalUnhealthy, CandidateSteps, WithUnit
    <3>2. Transition(status[Dep(a)], "fail") \in {"illegal", "failed"}
      BY DEF Transition
    <3> QED BY <2>1, <3>1, <3>2, GotoFields DEF InternalUnhealthy, Advance
  <2>2. CASE MarkActivating(a)
    BY <2>2, GotoFields DEF MarkActivating, Advance
  <2>3. CASE PublicUnhealthy(a) \/ BeginPublicExposure(a)
    BY <2>3, GotoFields DEF PublicUnhealthy, BeginPublicExposure
  <2>4. CASE ReplaceFragment(a)
    <3>1. op' = [op EXCEPT ![a] = [op[a] EXCEPT !.step = "validate", !.saved = fragment[a]]]
      BY <2>4 DEF ReplaceFragment
    <3>2. /\ op'[a].step = "validate" /\ op'[a].dep = op[a].dep
          /\ op'[a].prev = op[a].prev /\ op'[a].held = op[a].held
      BY <3>1 DEF Operations
    <3> QED BY <2>4, <3>2 DEF ReplaceFragment
  <2>5. CASE ReplaceFragmentFails(a) \/ ValidationFails(a) \/ ReloadFails(a)
    BY <2>5 DEF ReplaceFragmentFails, ValidationFails, ReloadFails
  <2>6. CASE ReloadCaddy(a) \/ RejectPublicCandidate(a)
    BY <2>6, GotoFields DEF ReloadCaddy, RejectPublicCandidate
  <2>7. CASE RestoreFragment(a) \/ ReloadRestored(a)
    BY <2>7, GotoFields DEF RestoreFragment, ReloadRestored
  <2>8. CASE RecordFailedExposure(a) \/ RecordDivergedExposure(a)
    BY <2>8, GotoFields
       DEF RecordFailedExposure, RecordDivergedExposure, RecordExposureFailure
  <2> QED BY <2>1, <2>2, <2>3, <2>4, <2>5, <2>6, <2>7, <2>8
<1>3. AllAccounted(a)'
  BY <1>2, AccountedGoesOn
     DEF TidyFacts, IsTidy, Registered, Succeeding, CandidateSteps, WithUnit
<1>4. /\ "unit" \in op[a].held /\ "runtime" \in op[a].held
      /\ runtime[op[a].dep] = "starting" /\ endpoint[op[a].dep] # 0
      /\ reservation[op[a].dep] = 0
      /\ op[a].step \in Succeeding /\ op[a].prev = None => active[a] = None
  BY <1>2
     DEF TidyFacts, IsTidy, HoldsCandidate, HoldsPredecessor, Tracks, WithUnit,
         KnowsRuntimes, Registered
<1>5. HoldsCandidate(op[a])' /\ HoldsFailure(op[a])' /\ HoldsPredecessor(a, op[a])'
  BY <1>2, <1>4
     DEF HoldsCandidate, HoldsFailure, HoldsPredecessor, BeforeUnit, Registered,
         Succeeding, RetirementSteps, Terminal
<1> QED BY <1>2, <1>3, <1>5 DEF IsTidy, Succeeding

\* The finalizer and the cleanup end with the candidate failed and nothing left
\* of it.
LEMMA CleanupTidies ==
    ASSUME Faults \subseteq Survivable, NEW a \in Applications, TidyFacts(a),
           \/ FailDeployment(a) \/ KeepPromoted(a) \/ StopCandidate(a)
           \/ NothingToStop(a) \/ RemoveCandidateUnit(a) \/ ProveCandidateRemoved(a)
           \/ TombstoneCandidate(a) \/ ReleasePort(a)
    PROVE  IsTidy(a)'
<1>1. ~Can("command") /\ ~Can("store")
  BY DEF Can, Survivable
<1>2. PICK d \in Deployments :
        d = Dep(a) /\ owner[d] = a /\ status[d] # "none" /\ op[a].step \in CandidateSteps
  BY DEF TidyFacts, CandidateSteps, At, FailDeployment, KeepPromoted, StopCandidate,
         NothingToStop, CleanupStarts, RemoveCandidateUnit, RemoveUnit,
         ProveCandidateRemoved, TombstoneCandidate, ReleasePort
<1>3. ASSUME op'[a].step \in {"cleanup", "remove", "prove", "tombstone", "release"},
             op'[a].dep = op[a].dep, UNCHANGED <<owner, active>>,
             HoldsFailure(op[a])',
             \A e \in Deployments : e # d =>
               /\ status'[e] = status[e] /\ reservation'[e] = reservation[e]
               /\ endpoint'[e] = endpoint[e] /\ unit'[e] = unit[e]
               /\ container'[e] = container[e]
      PROVE  IsTidy(a)'
  <2>1. AllAccounted(a)'
    BY <1>2, <1>3, AccountedGoesOn DEF TidyFacts, IsTidy, CandidateSteps, Dep
  <2> QED
    BY <1>3, <2>1
       DEF IsTidy, HoldsCandidate, HoldsPredecessor, BeforeUnit, Registered, Succeeding,
           RetirementSteps
<1>4. ASSUME op'[a] = Idle, UNCHANGED <<owner, active>>,
             status'[d] \in Terminal, IsClean(d)',
             \A e \in Deployments : e # d =>
               /\ status'[e] = status[e] /\ reservation'[e] = reservation[e]
               /\ endpoint'[e] = endpoint[e] /\ unit'[e] = unit[e]
               /\ container'[e] = container[e]
      PROVE  IsTidy(a)'
  <2>1. AllAccounted(a)'
    BY <1>2, <1>4
       DEF TidyFacts, IsTidy, AllAccounted, IsClean, CandidateSteps, RetirementSteps,
           BeforeUnit, WithUnit, Dep
  <2> QED
    BY <1>4, <2>1
       DEF IsTidy, HoldsCandidate, HoldsFailure, HoldsPredecessor, BeforeUnit,
           Registered, Succeeding, RetirementSteps, Idle
<1> USE <1>1, <1>2
    DEF TidyFacts, TypeOK, IsTidy, HoldsFailure, Tracks, At, Dep, Carries,
        deploymentRows, runtimeRows, podman
<1>5. CASE FailDeployment(a)
  <2>1. /\ status'[d] \in Terminal
        /\ \A e \in Deployments : e # d => status'[e] = status[e]
        /\ UNCHANGED <<owner, active, runtime, endpoint, reservation, unit, container>>
    BY <1>5
       DEF FailDeployment, Transition, NonTerminal, Terminal, Statuses
  <2>2. CASE op[a].held = {}
    BY <1>4, <1>5, <2>1, <2>2 DEF FailDeployment, AfterFailure, End, IsClean
  <2>3. CASE op[a].held # {}
    <3>1. op'[a].step = "cleanup" /\ op'[a].dep = d /\ op'[a].held = op[a].held
      BY <1>5, <2>3, GotoFields DEF FailDeployment, AfterFailure
    <3>2. HoldsFailure(op[a])'
      BY <1>5, <2>1, <3>1 DEF FailDeployment
    <3> QED BY <1>3, <2>1, <3>1, <3>2
  <2> QED BY <2>2, <2>3
<1>6. CASE KeepPromoted(a)
  BY <1>6 DEF KeepPromoted
<1>7. CASE StopCandidate(a)
  <2>1. /\ op'[a].step = "remove" /\ op'[a].dep = d /\ op'[a].held = op[a].held
        /\ container' = [container EXCEPT ![d] = "absent"] /\ op[a].step = "cleanup"
        /\ UNCHANGED <<owner, active, status, runtime, endpoint, reservation, unit>>
    BY <1>7, GotoFields DEF StopCandidate, StopUnit, CleanupStarts
  <2>2. HoldsFailure(op[a])'
    BY <2>1
  <2> QED BY <1>3, <2>1, <2>2
<1>8. CASE NothingToStop(a)
  <2>1. /\ op'[a].step = "prove" /\ op'[a].dep = d /\ op'[a].held = op[a].held
        /\ "unit" \notin op[a].held /\ op[a].step = "cleanup"
        /\ UNCHANGED <<owner, active, status, runtime, endpoint, reservation, unit,
                       container>>
    BY <1>8, GotoFields DEF NothingToStop, CleanupStarts
  <2>2. HoldsFailure(op[a])'
    BY <2>1
  <2> QED BY <1>3, <2>1, <2>2
<1>9. CASE RemoveCandidateUnit(a)
  <2>1. /\ op'[a].step = "prove" /\ op'[a].dep = d /\ op'[a].held = op[a].held
        /\ unit' = [unit EXCEPT ![d] = 0] /\ op[a].step = "remove"
        /\ UNCHANGED <<owner, active, status, runtime, endpoint, reservation, container>>
    BY <1>9, GotoFields DEF RemoveCandidateUnit, RemoveUnit
  <2>2. HoldsFailure(op[a])'
    BY <2>1
  <2> QED BY <1>3, <2>1, <2>2
<1>10. CASE ProveCandidateRemoved(a)
  <2>1. /\ op'[a].step = "tombstone" /\ op'[a].dep = d /\ op'[a].held = op[a].held
        /\ op[a].step = "prove"
        /\ UNCHANGED <<owner, active, status, runtime, endpoint, reservation, unit>>
        /\ \A e \in Deployments : container'[e] = container[e]
    BY <1>10, GotoFields DEF ProveCandidateRemoved, ProveRemoved
  <2>2. HoldsFailure(op[a])'
    BY <2>1
  <2> QED BY <1>3, <2>1, <2>2
<1>11. CASE TombstoneCandidate(a)
  <2>1. /\ op'[a].step = "release" /\ op'[a].dep = d /\ op[a].step = "tombstone"
        /\ UNCHANGED <<owner, active, status, runtime, reservation, unit, container>>
        /\ \A e \in Deployments : e # d => endpoint'[e] = endpoint[e]
    BY <1>11, GotoFields DEF TombstoneCandidate
  <2>2. container'[d] = "absent" /\ endpoint'[d] = 0
    BY <1>11, <2>1 DEF TombstoneCandidate
  <2>3. HoldsFailure(op[a])'
    BY <2>1, <2>2
  <2> QED BY <1>3, <2>1, <2>3
<1>12. CASE ReleasePort(a)
  <2>1. /\ op'[a] = Idle /\ op[a].step = "release"
        /\ reservation' = [reservation EXCEPT ![d] = 0]
        /\ UNCHANGED <<owner, active, status, endpoint, unit, container>>
    BY <1>12 DEF ReleasePort, End
  <2>2. status'[d] \in Terminal /\ IsClean(d)'
    BY <2>1 DEF IsClean
  <2> QED BY <1>4, <2>1, <2>2
<1> QED BY <1>5, <1>6, <1>7, <1>8, <1>9, <1>10, <1>11, <1>12

\* The retirement ends with nothing left of the predecessor.
LEMMA RetirementTidies ==
    ASSUME Faults \subseteq Survivable, NEW a \in Applications, TidyFacts(a),
           \/ CompensationFails(a) \/ RetireStop(a) \/ RetireUnit(a)
           \/ ProvePreviousRemoved(a) \/ RetireRuntime(a) \/ SettleExposure(a)
    PROVE  IsTidy(a)'
<1>1. ~Can("command") /\ ~Can("store")
  BY DEF Can, Survivable
<1>2. ~CompensationFails(a) /\ ~SettleExposure(a)
  BY <1>1 DEF CompensationFails, SettleExposure, At, TidyFacts, IsTidy
<1>3. PICK p \in Deployments :
        p = op[a].prev /\ owner[p] = a /\ op[a].step \in RetirementSteps
  BY <1>2, NoneAssumption
     DEF TidyFacts, Owns, RetirementSteps, At, RetireStop, RetireUnit, RemoveUnit,
         ProvePreviousRemoved, RetireRuntime
<1>4. /\ p # active[a] /\ status[p] \in Terminal /\ endpoint[p] # 0 /\ reservation[p] = 0
      /\ op[a].step # "retire" => container[p] = "absent"
  BY <1>3 DEF TidyFacts, IsTidy, HoldsPredecessor
<1>5. ASSUME op'[a].step \in RetirementSteps, op'[a].prev = p,
             container'[p] = "absent",
             UNCHANGED <<owner, active, status, reservation, endpoint>>,
             \A e \in Deployments : e # p =>
               unit'[e] = unit[e] /\ container'[e] = container[e]
      PROVE  IsTidy(a)'
  <2>1. AllAccounted(a)'
    BY <1>3, <1>5
       DEF TidyFacts, IsTidy, AllAccounted, IsClean, CandidateSteps, RetirementSteps,
           BeforeUnit, WithUnit
  <2> QED
    BY <1>4, <1>5, <2>1
       DEF IsTidy, HoldsCandidate, HoldsFailure, HoldsPredecessor, BeforeUnit,
           Registered, Succeeding, RetirementSteps
<1> USE <1>1, <1>3, <1>4
    DEF TidyFacts, TypeOK, At, Carries, deploymentRows, runtimeRows, podman
<1>6. CASE RetireStop(a)
  <2>1. /\ op'[a].step = "retire_remove" /\ op'[a].prev = p
        /\ container' = [container EXCEPT ![p] = "absent"]
        /\ UNCHANGED <<owner, active, status, endpoint, reservation, unit>>
    BY <1>6, GotoFields DEF RetireStop, StopUnit
  <2> QED BY <1>5, <2>1 DEF RetirementSteps
<1>7. CASE RetireUnit(a)
  <2>1. /\ op'[a].step = "retire_prove" /\ op'[a].prev = p /\ container[p] = "absent"
        /\ unit' = [unit EXCEPT ![p] = 0]
        /\ UNCHANGED <<owner, active, status, endpoint, reservation, container>>
    BY <1>7, GotoFields DEF RetireUnit, RemoveUnit
  <2> QED BY <1>5, <2>1 DEF RetirementSteps
<1>8. CASE ProvePreviousRemoved(a)
  <2>1. /\ op'[a].step = "retire_mark" /\ op'[a].prev = p /\ container'[p] = "absent"
        /\ \A e \in Deployments : container'[e] = container[e]
        /\ UNCHANGED <<owner, active, status, endpoint, reservation, unit>>
    BY <1>8, GotoFields DEF ProvePreviousRemoved, ProveRemoved
  <2> QED BY <1>5, <2>1 DEF RetirementSteps
<1>9. CASE RetireRuntime(a)
  <2>1. /\ op'[a] = Idle /\ op[a].step = "retire_mark" /\ unit[p] = 0
        /\ endpoint' = [endpoint EXCEPT ![p] = 0] /\ container[p] = "absent"
        /\ UNCHANGED <<owner, active, status, reservation, unit, container>>
    BY <1>9 DEF RetireRuntime, End, Tracks
  <2>2. AllAccounted(a)'
    BY <2>1
       DEF IsTidy, AllAccounted, IsClean, CandidateSteps, RetirementSteps, BeforeUnit,
           WithUnit
  <2> QED
    BY <2>1, <2>2
       DEF IsTidy, HoldsCandidate, HoldsFailure, HoldsPredecessor, BeforeUnit,
           Registered, Succeeding, RetirementSteps, Idle
<1> QED BY <1>2, <1>6, <1>7, <1>8, <1>9

\* A request takes a Deployment that has nothing; a recovery finds none to end.
LEMMA RequestTidies ==
    ASSUME RuntimeInvariant, UnownedIsClean, NEW a \in Applications, TidyFacts(a),
           Request(a) \/ Reconcile(a)
    PROVE  IsTidy(a)'
<1> USE DEF RuntimeInvariant, Invariant, TypeOK
<1>1. CASE Request(a)
  <2>1. PICK d \in Deployments, r \in Releases \cup {None} : CreateDeployment(a, d, r)
    BY <1>1, RequestCreates
  <2>2. op' = [op EXCEPT ![a] = [Idle EXCEPT !.step = "start", !.dep = d]]
    BY <2>1 DEF CreateDeployment, At, TidyFacts, IsTidy
  <2>3. /\ op'[a].step = "start" /\ op'[a].dep = d /\ op'[a].held = {}
        /\ op[a].step = "idle"
    BY ZenonT(60), <2>1, <2>2 DEF Idle, CreateDeployment, At
  <2>4. container[d] = "absent" /\ reservation[d] = 0
    BY <2>1 DEF CreateDeployment, PortInvariant, UnbornIsClean, UnownedIsClean
  <2>5. /\ owner' = [owner EXCEPT ![d] = a] /\ status' = [status EXCEPT ![d] = "pending"]
        /\ UNCHANGED <<active, endpoint, reservation, unit, container>>
    BY <2>1 DEF CreateDeployment, runtimeRows, podman
  <2>6. AllAccounted(a)'
    BY <2>3, <2>5
       DEF TidyFacts, IsTidy, AllAccounted, IsClean, CandidateSteps, RetirementSteps,
           BeforeUnit, WithUnit
  <2> QED
    BY <2>3, <2>4, <2>5, <2>6
       DEF IsTidy, HoldsCandidate, HoldsFailure, HoldsPredecessor, BeforeUnit,
           Registered, Succeeding, RetirementSteps
<1>2. ~Reconcile(a)
  <2> SUFFICES ASSUME Reconcile(a) PROVE FALSE
    OBVIOUS
  <2>1. PICK d \in Deployments :
          /\ owner[d] = a /\ status[d] \in NonTerminal
          /\ \E next \in RecoveryOps(d) : Recover(a, d, NonTerminal, next)
    BY ReconcileRecovers
  <2>2. op[a].step = "idle"
    BY <2>1 DEF Recover, At
  <2> QED
    BY <2>1, <2>2
       DEF TidyFacts, IsTidy, AllAccounted, CandidateSteps, RetirementSteps, BeforeUnit,
           WithUnit, Terminal, NonTerminal
<1> QED BY <1>1, <1>2

\* A command leaves other Applications as tidy as they are.
LEMMA OthersStayTidy ==
    ASSUME RuntimeInvariant, UnownedIsClean, NEW a \in Applications, OnlyMoves(a)
    PROVE  /\ UnownedIsClean'
           /\ \A b \in Applications : b # a /\ IsTidy(b) => IsTidy(b)'
<1>1. UnownedIsClean'
  BY NoneAssumption DEF OnlyMoves, DeploymentKeeps, UnownedIsClean
<1>2. ASSUME NEW b \in Applications, b # a, IsTidy(b)
      PROVE  IsTidy(b)'
  <2>1. /\ op'[b] = op[b] /\ active'[b] = active[b] /\ Owns(b, op[b]) /\ b # None
        /\ op[b] \in Operations
    BY <1>2, NoneAssumption
       DEF OnlyMoves, ApplicationKeeps, RuntimeInvariant, Invariant, PortInvariant,
           OpOwnsItsWork, TypeOK
  <2>2. \A d \in Deployments : owner[d] = b \/ owner'[d] = b =>
          /\ owner'[d] = owner[d] /\ status'[d] = status[d] /\ runtime'[d] = runtime[d]
          /\ endpoint'[d] = endpoint[d] /\ reservation'[d] = reservation[d]
          /\ unit'[d] = unit[d] /\ container'[d] = container[d]
    BY <1>2, <2>1 DEF OnlyMoves, DeploymentKeeps
  <2>3. AllAccounted(b)'
    BY <1>2, <2>1, <2>2 DEF IsTidy, AllAccounted, IsClean
  <2>4. op[b].step \in CandidateSteps =>
          LET d == op[b].dep IN
          /\ status'[d] = status[d] /\ runtime'[d] = runtime[d]
          /\ endpoint'[d] = endpoint[d] /\ reservation'[d] = reservation[d]
          /\ unit'[d] = unit[d] /\ container'[d] = container[d]
    BY <2>1, <2>2 DEF Owns
  <2>5. op[b].step \in RetirementSteps =>
          LET p == op[b].prev IN
          /\ status'[p] = status[p] /\ endpoint'[p] = endpoint[p]
          /\ reservation'[p] = reservation[p] /\ container'[p] = container[p]
    BY <2>1, <2>2, NoneAssumption DEF Owns
  <2>6. HoldsCandidate(op[b])'
    BY <1>2, <2>1, <2>4
       DEF IsTidy, HoldsCandidate, CandidateSteps, BeforeUnit, WithUnit, Registered
  <2>7. HoldsFailure(op[b])'
    BY <1>2, <2>1, <2>4 DEF IsTidy, HoldsFailure, CandidateSteps, IsClean
  <2>8. HoldsPredecessor(b, op[b])'
    BY <1>2, <2>1, <2>5 DEF IsTidy, HoldsPredecessor, RetirementSteps
  <2> QED BY <1>2, <2>1, <2>3, <2>6, <2>7, <2>8 DEF IsTidy
<1> QED BY <1>1, <1>2

\* Every step of a system in which only containers fail keeps everything tidy.
LEMMA StepTidies ==
    ASSUME RuntimeInvariant, ContainersAreKnown, EverythingIsTidy, [Next]_vars
    PROVE  EverythingIsTidy'
<1> SUFFICES ASSUME Faults \subseteq Survivable, UnownedIsClean,
                    \A b \in Applications : IsTidy(b)
             PROVE  UnownedIsClean' /\ \A b \in Applications : IsTidy(b)'
  BY DEF EverythingIsTidy
<1>1. ~Can("crash") /\ ~Can("reboot")
  BY DEF Can, Survivable
<1>2. ASSUME NEW a \in Applications, Request(a) \/ Command(a) \/ Reconcile(a)
      PROVE  UnownedIsClean' /\ \A b \in Applications : IsTidy(b)'
  <2>1. UnownedIsClean' /\ \A b \in Applications : b # a => IsTidy(b)'
    BY <1>2, CommandIsLocal, OthersStayTidy DEF RuntimeInvariant
  <2>2. TidyFacts(a)
    BY TidyFactsHold
  <2>3. IsTidy(a)'
    BY <1>2, <2>2, CandidateTidies, PromotionTidies, ActivationTidies, CleanupTidies,
       RetirementTidies, RequestTidies DEF Command
  <2> QED BY <2>1, <2>3
<1>3. ASSUME NEW d \in Deployments, RestartContainer(d)
      PROVE  UnownedIsClean' /\ \A b \in Applications : IsTidy(b)'
  <2>1. /\ container[d] = "known" /\ container' = [container EXCEPT ![d] = "unknown"]
        /\ UNCHANGED <<status, owner, active, runtime, endpoint, reservation, unit, op>>
    BY <1>3 DEF RestartContainer, deploymentRows, runtimeRows
  <2>2. \A e \in Deployments : container[e] = "absent" => container'[e] = "absent"
    BY <2>1 DEF RuntimeInvariant, Invariant, TypeOK
  <2>3. UnownedIsClean'
    BY <2>1, <2>2 DEF UnownedIsClean
  <2>4. ASSUME NEW b \in Applications
        PROVE  IsTidy(b)'
    <3>1. TidyFacts(b)
      BY TidyFactsHold
    <3>2. AllAccounted(b)'
      BY <2>1, <2>2, <3>1 DEF TidyFacts, IsTidy, AllAccounted, IsClean
    <3>3. /\ op[b].step \in CandidateSteps => op[b].dep \in Deployments
          /\ op[b].step \in RetirementSteps => op[b].prev \in Deployments
      BY <3>1 DEF TidyFacts, Owns
    <3>4. HoldsCandidate(op[b])' /\ HoldsFailure(op[b])' /\ HoldsPredecessor(b, op[b])'
      BY <2>1, <2>2, <3>1, <3>3
         DEF TidyFacts, IsTidy, HoldsCandidate, HoldsFailure, HoldsPredecessor,
             CandidateSteps, BeforeUnit, WithUnit, RetirementSteps, IsClean
    <3> QED BY <2>1, <3>1, <3>2, <3>4 DEF TidyFacts, IsTidy
  <2> QED BY <2>3, <2>4
<1>4. CASE UNCHANGED vars
  BY <1>4
     DEF vars, deploymentRows, runtimeRows, podman, UnownedIsClean, IsTidy, AllAccounted,
         IsClean, HoldsCandidate, HoldsFailure, HoldsPredecessor
<1> QED BY <1>1, <1>2, <1>3, <1>4 DEF Next, Crash, Reboot

\* When a command has returned, a Deployment of its Application that is not the
\* active one has no port, no unit and no container, as long as nothing but the
\* containers themselves fails.
THEOREM ReturnsTidy ==
    ASSUME Faults \subseteq Survivable
    PROVE  Spec => []NothingLeftBehind
<1>1. Init => ContainersAreKnown /\ EverythingIsTidy
  BY NoneAssumption
     DEF Init, ContainersAreKnown, KnowsContainer, EverythingIsTidy, UnownedIsClean,
         IsTidy, AllAccounted, HoldsCandidate, HoldsFailure, HoldsPredecessor, Idle,
         Registered, Succeeding, BeforeUnit, RetirementSteps
<1>2. Invariant /\ ContainersAreKnown /\ [Next]_vars => ContainersAreKnown'
  BY StepContainers
<1>3. RuntimeInvariant /\ ContainersAreKnown /\ EverythingIsTidy /\ [Next]_vars =>
        EverythingIsTidy'
  BY StepTidies
<1>4. RuntimeInvariant /\ EverythingIsTidy => NothingLeftBehind
  <2> SUFFICES ASSUME RuntimeInvariant, EverythingIsTidy, NEW d \in Deployments,
                      owner[d] # None, At(owner[d], "idle"), active[owner[d]] # d
               PROVE  /\ status[d] \in Terminal
                      /\ reservation[d] = 0 /\ endpoint[d] = 0
                      /\ unit[d] = 0 /\ container[d] = "absent"
    BY DEF NothingLeftBehind
  <2>1. owner[d] \in Applications
    BY DEF RuntimeInvariant, Invariant, TypeOK
  <2>2. IsTidy(owner[d])
    BY <2>1 DEF EverythingIsTidy
  <2> QED
    BY <2>2
       DEF IsTidy, AllAccounted, IsClean, At, CandidateSteps, BeforeUnit, WithUnit,
           RetirementSteps
<1> QED
  BY <1>1, <1>2, <1>3, <1>4, InvariantHolds, RuntimeInvariantHolds, PTL DEF Spec

===============================================================================
