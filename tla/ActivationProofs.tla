--------------------------- MODULE ActivationProofs ---------------------------
(***************************************************************************)
(* Proofs about the rows a promotion, a cleanup and a retirement write,    *)
(* for every set of Applications, Deployments and Releases and every       *)
(* combination of failures: the running runtime is the active one's, the   *)
(* commands implement Activation, a runtime row is tombstoned only after   *)
(* its container is gone, and a rollback changes the Release.              *)
(*                                                                         *)
(* All of this is said Application by Application.  A command reads and    *)
(* writes the rows of its own Application, except that a reload of Caddy   *)
(* takes in every fragment (CommandIsLocal); so an invariant of one        *)
(* Application is kept by the commands of the others, and is proved for    *)
(* the commands of that Application only.                                  *)
(***************************************************************************)
EXTENDS DeploymentProofs

-------------------------------------------------------------------------------
(* What a command of one Application leaves alone *)

\* The rows and the host's objects of d stay as they are.
DeploymentKeeps(d) ==
    /\ status'[d] = status[d] /\ owner'[d] = owner[d] /\ release'[d] = release[d]
    /\ finished'[d] = finished[d] /\ runtime'[d] = runtime[d]
    /\ endpoint'[d] = endpoint[d] /\ reservation'[d] = reservation[d]
    /\ unit'[d] = unit[d] /\ container'[d] = container[d]

\* The command, the exposure and the fragment of b stay as they are; Caddy may
\* take the fragment in.
ApplicationKeeps(b) ==
    /\ op'[b] = op[b] /\ active'[b] = active[b] /\ exposure'[b] = exposure[b]
    /\ confirmed'[b] = confirmed[b] /\ fragment'[b] = fragment[b]
    /\ loaded'[b] \in {loaded[b], fragment[b]}

\* Only Application a moves; it may acquire a Deployment that nobody owned.
OnlyMoves(a) ==
    /\ \A b \in Applications : b # a => ApplicationKeeps(b)
    /\ \A d \in Deployments : owner'[d] # a => DeploymentKeeps(d)
    /\ \A d \in Deployments : owner[d] # None => owner'[d] = owner[d]

\* The record of a command carries on but for its step and what it holds.
Carries(a) ==
    /\ op'[a].dep = op[a].dep /\ op'[a].prev = op[a].prev
    /\ op'[a].saved = op[a].saved

\* The fields of a command that goes on.
LEMMA GotoFields ==
    ASSUME TypeOK, NEW a \in Applications, NEW step, Goto(a, step)
    PROVE  op'[a].step = step /\ op'[a].held = op[a].held /\ Carries(a)
  BY DEF Goto, TypeOK, Operations, Carries

\* The fields of a command that goes on with one more resource.
LEMMA HoldFields ==
    ASSUME TypeOK, NEW a \in Applications, NEW step, NEW resource,
           Hold(a, resource, step)
    PROVE  /\ op'[a].step = step /\ Carries(a)
           /\ op'[a].held = op[a].held \cup {resource}
<1>1. op[a] \in Operations
  BY DEF TypeOK
<1>2. op'[a] = [[op[a] EXCEPT !.step = step] EXCEPT !.held = @ \cup {resource}]
  BY DEF Hold, TypeOK
<1> QED BY <1>1, <1>2 DEF Operations, Carries

\* The fields of a command that ended.
LEMMA EndFields ==
    ASSUME TypeOK, NEW a \in Applications, End(a)
    PROVE  /\ op'[a].step = "idle" /\ op'[a].dep = None /\ op'[a].held = {}
           /\ op'[a].prev = None /\ op'[a].saved = 0
  BY DEF End, TypeOK, Idle

\* Where a command may go after the promotion.
LEMMA AfterPromotionFields ==
    ASSUME TypeOK, NEW a \in Applications, NEW step, AfterPromotion(a, step)
    PROVE  \/ End(a) /\ op[a].prev = None
           \/ /\ op[a].prev # None /\ op'[a].step = "retire"
              /\ op'[a].prev = op[a].prev /\ op'[a].dep = None
              /\ op'[a].held = {} /\ op'[a].saved = 0
           \/ Can("uncertain") /\ Goto(a, step)
  BY ZenonT(60) DEF AfterPromotion, End, TypeOK, Idle

\* The steps of start_candidate are local.
LEMMA CandidateIsLocal ==
    ASSUME Invariant, NEW a \in Applications,
           \/ StartCandidate(a) \/ ReservePort(a) \/ PortsExhausted(a) \/ WriteUnit(a)
           \/ LaunchUnit(a) \/ ResolveContainer(a) \/ RegisterCandidate(a)
           \/ ConsumeReservation(a) \/ MarkVerifying(a) \/ CandidateStepFails(a)
           \/ CommandFailsSilently(a)
    PROVE  OnlyMoves(a)
<1>1. Dep(a) \in Deployments /\ owner[Dep(a)] = a
  BY CandidateFacts
     DEF CandidateSteps, BeforeUnit, WithUnit, At, StartCandidate, ReservePort,
         PortsExhausted, WriteUnit, LaunchUnit, ResolveContainer, RegisterCandidate,
         ConsumeReservation, MarkVerifying, CandidateStepFails, CommandFailsSilently
<1> USE <1>1 DEF Invariant, TypeOK, OnlyMoves, ApplicationKeeps, DeploymentKeeps, Goto,
                 Hold, deploymentRows, runtimeRows, exposureRows, podman, caddy
<1>2. CASE StartCandidate(a)
  BY <1>2 DEF StartCandidate, Advance
<1>3. CASE ReservePort(a)
  BY <1>3 DEF ReservePort
<1>4. CASE PortsExhausted(a)
  BY <1>4 DEF PortsExhausted
<1>5. CASE WriteUnit(a)
  BY <1>5 DEF WriteUnit
<1>6. CASE LaunchUnit(a)
  BY <1>6 DEF LaunchUnit
<1>7. CASE ResolveContainer(a)
  BY <1>7 DEF ResolveContainer
<1>8. CASE RegisterCandidate(a)
  BY <1>8 DEF RegisterCandidate
<1>9. CASE ConsumeReservation(a)
  BY <1>9 DEF ConsumeReservation
<1>10. CASE MarkVerifying(a)
  BY <1>10 DEF MarkVerifying
<1>11. CASE CandidateStepFails(a)
  BY <1>11 DEF CandidateStepFails
<1>12. CASE CommandFailsSilently(a)
  BY <1>12 DEF CommandFailsSilently
<1> QED
  BY <1>2, <1>3, <1>4, <1>5, <1>6, <1>7, <1>8, <1>9, <1>10, <1>11, <1>12

\* Promotion and public activation are local but for the reload of Caddy.
LEMMA ActivationIsLocal ==
    ASSUME Invariant, NEW a \in Applications,
           \/ PromoteInternal(a) \/ InternalUnhealthy(a) \/ PublicUnhealthy(a)
           \/ MarkActivating(a) \/ BeginPublicExposure(a) \/ ReplaceFragment(a)
           \/ ReplaceFragmentFails(a) \/ ValidationFails(a) \/ ReloadCaddy(a)
           \/ ReloadFails(a) \/ PromotePublic(a) \/ RejectPublicCandidate(a)
           \/ RestoreFragment(a) \/ ReloadRestored(a) \/ RecordFailedExposure(a)
           \/ RecordDivergedExposure(a)
    PROVE  OnlyMoves(a)
<1>1. Dep(a) \in Deployments /\ owner[Dep(a)] = a
  BY CandidateFacts
     DEF CandidateSteps, WithUnit, At, PromoteInternal, InternalUnhealthy,
         PublicUnhealthy, MarkActivating, BeginPublicExposure, ReplaceFragment,
         ReplaceFragmentFails, ValidationFails, ReloadCaddy, ReloadFails, PromotePublic,
         RejectPublicCandidate, RestoreFragment, ReloadRestored, RecordFailedExposure,
         RecordDivergedExposure, RecordExposureFailure
<1> USE <1>1 DEF Invariant, TypeOK, OnlyMoves, ApplicationKeeps, DeploymentKeeps, Goto,
                 End, deploymentRows, runtimeRows, exposureRows, podman, caddy
<1>2. ASSUME PromotionRows(a, Dep(a)), NEW step, AfterPromotion(a, step),
             UNCHANGED <<unit, container, fragment, loaded>>,
             \A b \in Applications :
                 b # a => exposure'[b] = exposure[b] /\ confirmed'[b] = confirmed[b]
      PROVE  OnlyMoves(a)
  BY <1>2 DEF PromotionRows, AfterPromotion, Previous, Owned
<1>3. CASE PromoteInternal(a)
  BY <1>3, <1>2 DEF PromoteInternal
<1>4. CASE InternalUnhealthy(a) \/ MarkActivating(a)
  BY <1>4 DEF InternalUnhealthy, MarkActivating, Advance
<1>5. CASE PublicUnhealthy(a) \/ ReplaceFragmentFails(a) \/ ReloadFails(a)
           \/ RejectPublicCandidate(a)
  BY <1>5
     DEF PublicUnhealthy, ReplaceFragmentFails, ReloadFails, RejectPublicCandidate
<1>6. CASE BeginPublicExposure(a)
  BY <1>6 DEF BeginPublicExposure
<1>7. CASE ReplaceFragment(a)
  BY <1>7 DEF ReplaceFragment
<1>8. CASE ValidationFails(a) \/ RestoreFragment(a)
  BY <1>8 DEF ValidationFails, RestoreFragment
<1>9. CASE ReloadCaddy(a) \/ ReloadRestored(a)
  BY <1>9 DEF ReloadCaddy, ReloadRestored
<1>10. CASE PromotePublic(a)
  BY <1>10, <1>2 DEF PromotePublic
<1>11. CASE RecordFailedExposure(a) \/ RecordDivergedExposure(a)
  BY <1>11 DEF RecordFailedExposure, RecordDivergedExposure, RecordExposureFailure
<1> QED
  BY <1>3, <1>4, <1>5, <1>6, <1>7, <1>8, <1>9, <1>10, <1>11

\* Failure, cleanup, retirement and the end of a recovery are local.
LEMMA CompensationIsLocal ==
    ASSUME Invariant, NEW a \in Applications,
           \/ FailDeployment(a) \/ KeepPromoted(a) \/ StopCandidate(a)
           \/ NothingToStop(a) \/ RemoveCandidateUnit(a) \/ ProveCandidateRemoved(a)
           \/ TombstoneCandidate(a) \/ ReleasePort(a) \/ CompensationFails(a)
           \/ RetireStop(a) \/ RetireUnit(a) \/ ProvePreviousRemoved(a)
           \/ RetireRuntime(a) \/ SettleExposure(a)
    PROVE  OnlyMoves(a)
<1>1. op[a].step \in CandidateSteps => Dep(a) \in Deployments /\ owner[Dep(a)] = a
  BY CandidateFacts
<1>2. op[a].step \in RetirementSteps =>
        op[a].prev \in Deployments /\ owner[op[a].prev] = a
  BY RetirementFacts
<1> USE DEF Invariant, TypeOK, OnlyMoves, ApplicationKeeps, DeploymentKeeps, Goto, End,
            deploymentRows, runtimeRows, exposureRows, podman, caddy, At
<1>3. CASE FailDeployment(a)
  BY <1>3, <1>1 DEF FailDeployment, AfterFailure, CandidateSteps
<1>4. CASE KeepPromoted(a) \/ CompensationFails(a) \/ NothingToStop(a)
  BY <1>4 DEF KeepPromoted, CompensationFails, NothingToStop
<1>5. CASE StopCandidate(a)
  BY <1>5, <1>1 DEF StopCandidate, CleanupStarts, StopUnit, CandidateSteps
<1>6. CASE RemoveCandidateUnit(a)
  BY <1>6, <1>1 DEF RemoveCandidateUnit, RemoveUnit, CandidateSteps
<1>7. CASE ProveCandidateRemoved(a)
  BY <1>7, <1>1 DEF ProveCandidateRemoved, ProveRemoved, CandidateSteps
<1>8. CASE TombstoneCandidate(a)
  BY <1>8, <1>1 DEF TombstoneCandidate, CandidateSteps
<1>9. CASE ReleasePort(a)
  BY <1>9, <1>1 DEF ReleasePort, CandidateSteps
<1>10. CASE RetireStop(a)
  BY <1>10, <1>2 DEF RetireStop, StopUnit, RetirementSteps
<1>11. CASE RetireUnit(a)
  BY <1>11, <1>2 DEF RetireUnit, RemoveUnit, RetirementSteps
<1>12. CASE ProvePreviousRemoved(a)
  BY <1>12, <1>2 DEF ProvePreviousRemoved, ProveRemoved, RetirementSteps
<1>13. CASE RetireRuntime(a)
  BY <1>13, <1>2 DEF RetireRuntime, RetirementSteps
<1>14. CASE SettleExposure(a)
  BY <1>14 DEF SettleExposure
<1> QED
  BY <1>7, <1>12, <1>3, <1>4, <1>5, <1>6, <1>8, <1>9, <1>10, <1>11, <1>13, <1>14

\* A request, a command and a recovery of one Application, and the death of its
\* process, are local.
LEMMA CommandIsLocal ==
    ASSUME Invariant, NEW a \in Applications,
           Request(a) \/ Command(a) \/ Reconcile(a) \/ Crash(a)
    PROVE  OnlyMoves(a)
<1> USE DEF Invariant, TypeOK, OnlyMoves, ApplicationKeeps, DeploymentKeeps,
            deploymentRows, runtimeRows, exposureRows, podman, caddy
<1>1. CASE Request(a)
  <2>1. PICK d \in Deployments, r \in Releases \cup {None} : CreateDeployment(a, d, r)
    BY <1>1, RequestCreates
  <2>2. owner[d] = None
    BY <2>1 DEF CreateDeployment, PortInvariant, UnbornIsClean
  <2> QED BY <2>1, <2>2 DEF CreateDeployment
<1>2. CASE Command(a)
  BY <1>2, CandidateIsLocal, ActivationIsLocal, CompensationIsLocal DEF Command
<1>3. CASE Reconcile(a)
  <2>1. PICK d \in Deployments :
          /\ owner[d] = a /\ status[d] \in NonTerminal
          /\ \E next \in RecoveryOps(d) : Recover(a, d, NonTerminal, next)
    BY <1>3, ReconcileRecovers
  <2> QED BY <2>1 DEF Recover
<1>4. CASE Crash(a)
  BY <1>4 DEF Crash, End
<1> QED BY <1>1, <1>2, <1>3, <1>4

-------------------------------------------------------------------------------
(* The running runtime is that of the active Deployment *)

\* Steps before the outcome of the candidate is decided.
Undecided ==
    BeforeUnit \cup {"launch", "resolve", "register", "consume", "verify", "health",
                     "route", "materialize", "validate", "external"}

\* Statuses of a candidate, and steps of its command, around the activation.
Early == {"pending", "starting", "verifying"}
Activating == {"route", "materialize", "validate", "external"}

\* Steps at which the command has the runtime row of its candidate.
Registered ==
    {"consume", "verify", "health", "route", "materialize", "validate", "external",
     "restore", "reload", "record_failed", "record_diverged"}

\* Steps at which the command knows the predecessor it is going to retire.
Succeeding == {"health", "route", "materialize", "validate", "external"}

\* A Deployment of nobody has no row and no runtime.
UnownedIsUnborn ==
    \A d \in Deployments : owner[d] = None => status[d] = "none" /\ runtime[d] = "none"

\* The active Deployment has a live runtime, the only running one.
ActiveIsRunning(a) ==
    /\ active[a] # None =>
           /\ owner[active[a]] = a /\ status[active[a]] = "succeeded"
           /\ endpoint[active[a]] # 0 /\ unit[active[a]] = endpoint[active[a]]
    /\ \A d \in Deployments : owner[d] = a => (runtime[d] = "running" <=> active[a] = d)

\* What a command knows of the runtimes it works on: the candidate is not the
\* running one until it is decided and never once its cleanup has begun, and
\* the predecessor runs until the promotion and is stopped after it.
KnowsRuntimes(o) ==
    /\ o.step \in Undecided \ Activating => status[o.dep] \in Early
    /\ o.step \in Activating => status[o.dep] = "activating"
    /\ o.step \in Registered => "runtime" \in o.held
    /\ o.step \in {"fail", "cleanup"} /\ "runtime" \notin o.held =>
           runtime[o.dep] # "running"
    /\ o.step \in {"remove", "prove", "tombstone", "release"} =>
           runtime[o.dep] # "running"
    /\ o.step = "write" => reservation[o.dep] # 0
    /\ o.step \in Undecided \ BeforeUnit => unit[o.dep] # 0
    /\ o.step \in Succeeding /\ o.prev # None => runtime[o.prev] = "running"
    /\ o.step \in RetirementSteps => runtime[o.prev] = "stopped"

RuntimesFollow ==
    /\ UnownedIsUnborn
    /\ \A a \in Applications : ActiveIsRunning(a) /\ KnowsRuntimes(op[a])

\* A command disturbs the runtimes of no other Application.
LEMMA OtherRuntimes ==
    ASSUME Invariant, RuntimesFollow, NEW a \in Applications, OnlyMoves(a)
    PROVE  /\ UnownedIsUnborn'
           /\ \A b \in Applications :
                b # a => ActiveIsRunning(b)' /\ KnowsRuntimes(op[b])'
<1>1. UnownedIsUnborn'
  BY NoneAssumption DEF OnlyMoves, DeploymentKeeps, RuntimesFollow, UnownedIsUnborn
<1>2. ASSUME NEW b \in Applications, b # a
      PROVE  ActiveIsRunning(b)' /\ KnowsRuntimes(op[b])'
  <2>1. /\ Owns(b, op[b]) /\ op'[b] = op[b] /\ active'[b] = active[b]
        /\ active[b] \in Deployments \cup {None} /\ b # None
        /\ ActiveIsRunning(b) /\ KnowsRuntimes(op[b])
    BY <1>2, NoneAssumption
       DEF Invariant, TypeOK, PortInvariant, OpOwnsItsWork, OnlyMoves, ApplicationKeeps,
           RuntimesFollow
  <2>2. \A d \in Deployments :
          /\ owner[d] = b => DeploymentKeeps(d)
          /\ owner'[d] = b => owner[d] = b
    BY <1>2, <2>1 DEF OnlyMoves, DeploymentKeeps
  <2>3. ActiveIsRunning(b)'
    BY <2>1, <2>2 DEF ActiveIsRunning, DeploymentKeeps
  <2>4. op[b].step \in CandidateSteps =>
          op[b].dep \in Deployments /\ DeploymentKeeps(op[b].dep)
    BY <2>1, <2>2 DEF Owns
  <2>5. op[b].prev # None => op[b].prev \in Deployments /\ DeploymentKeeps(op[b].prev)
    BY <2>1, <2>2 DEF Owns, Invariant, TypeOK, Operations
  <2>6. op[b].step \in RetirementSteps => op[b].prev # None
    BY <2>1, NoneAssumption DEF Owns
  <2>7. KnowsRuntimes(op[b])'
    BY <2>1, <2>4, <2>5, <2>6
       DEF KnowsRuntimes, DeploymentKeeps, Undecided, Activating, Registered, Succeeding,
           CandidateSteps, BeforeUnit, WithUnit, RetirementSteps
  <2> QED BY <2>3, <2>7
<1> QED BY <1>1, <1>2

\* The steps of start_candidate write rows and units of a candidate that is not
\* running.
LEMMA CandidateRuntimes ==
    ASSUME Invariant, RuntimesFollow, NEW a \in Applications,
           \/ StartCandidate(a) \/ ReservePort(a) \/ PortsExhausted(a) \/ WriteUnit(a)
           \/ LaunchUnit(a) \/ ResolveContainer(a) \/ RegisterCandidate(a)
           \/ ConsumeReservation(a) \/ MarkVerifying(a) \/ CandidateStepFails(a)
           \/ CommandFailsSilently(a)
    PROVE  ActiveIsRunning(a)' /\ KnowsRuntimes(op[a])'
<1> DEFINE d == op[a].dep
<1>1. /\ op[a].step \in BeforeUnit \cup {"launch", "resolve", "register", "consume",
                                         "verify", "health", "route"}
      /\ d \in Deployments /\ owner[d] = a
  BY CandidateFacts
     DEF CandidateSteps, BeforeUnit, WithUnit, At, StartCandidate, ReservePort, Dep,
         PortsExhausted, WriteUnit, LaunchUnit, ResolveContainer, RegisterCandidate,
         ConsumeReservation, MarkVerifying, CandidateStepFails, CommandFailsSilently
<1>2. /\ status[d] \in NonTerminal /\ runtime[d] # "running" /\ active[a] # d
      /\ ActiveIsRunning(a) /\ KnowsRuntimes(op[a])
  BY <1>1, NoneAssumption
     DEF RuntimesFollow, KnowsRuntimes, Undecided, Activating, Early, ActiveIsRunning,
         NonTerminal
<1> USE <1>1, <1>2
    DEF Invariant, TypeOK, ActiveIsRunning, At, Dep, deploymentRows, runtimeRows,
        exposureRows, podman, caddy, KnowsRuntimes, Undecided, Activating, Early,
        Registered, Succeeding,
        BeforeUnit, RetirementSteps, Carries
<1>3. CASE StartCandidate(a)
  BY <1>3, GotoFields DEF StartCandidate, Advance, Transition, NonTerminal
<1>4. CASE ReservePort(a)
  BY <1>4, HoldFields, PortRangeAssumption DEF ReservePort, Ports
<1>5. CASE PortsExhausted(a)
  BY <1>5, GotoFields DEF PortsExhausted
<1>6. CASE WriteUnit(a)
  BY <1>6, HoldFields DEF WriteUnit
<1>7. CASE LaunchUnit(a)
  BY <1>7, GotoFields DEF LaunchUnit
<1>8. CASE ResolveContainer(a)
  BY <1>8, HoldFields DEF ResolveContainer
<1>9. CASE RegisterCandidate(a)
  BY <1>9, HoldFields DEF RegisterCandidate
<1>10. CASE ConsumeReservation(a)
  BY <1>10, GotoFields DEF ConsumeReservation
<1>11. CASE MarkVerifying(a)
  <2>1. PICK p \in Previous(a, d) \cup {None} :
          op' = [op EXCEPT ![a] = [op[a] EXCEPT !.step = "health", !.prev = p]]
    BY <1>11 DEF MarkVerifying
  <2>2. /\ op'[a].step = "health" /\ op'[a].dep = d /\ op'[a].held = op[a].held
        /\ op'[a].prev = p
    BY <2>1 DEF Operations
  <2> QED
    BY ZenonT(60), <1>11, <2>2 DEF MarkVerifying, Previous, Owned, Transition, NonTerminal
<1>12. CASE CandidateStepFails(a)
  BY <1>12, GotoFields DEF CandidateStepFails
<1>13. CASE CommandFailsSilently(a)
  BY <1>13, GotoFields DEF CommandFailsSilently
<1> QED
  BY <1>3, <1>4, <1>5, <1>6, <1>7, <1>8, <1>9, <1>10, <1>11, <1>12, <1>13

\* What the promotion transaction writes.
LEMMA PromotionWrites ==
    ASSUME Invariant, RuntimesFollow, NEW a \in Applications, NEW d \in Deployments,
           owner[d] = a, PromotionRows(a, d)
    PROVE  /\ status[d] \in NonTerminal /\ runtime[d] = "starting" /\ endpoint[d] # 0
           /\ active[a] # d /\ UNCHANGED <<owner, release, endpoint, reservation>>
           /\ active'[a] = d /\ status'[d] = "succeeded" /\ runtime'[d] = "running"
           /\ active[a] # None => runtime'[active[a]] = "stopped"
           /\ \A e \in Deployments :
                e # d => /\ status'[e] = status[e] /\ finished'[e] = finished[e]
                         /\ e # active[a] => runtime'[e] = runtime[e]
           /\ finished'[d] \in FinishTimes(a)
<1>1. /\ status[d] \in NonTerminal /\ runtime[d] = "starting" /\ endpoint[d] # 0
      /\ Transition(status[d], "activated") = "succeeded"
  BY DEF PromotionRows, IsPromotable, Transition, NonTerminal
<1>2. ActiveIsRunning(a)
  BY DEF RuntimesFollow
<1>3. active[a] # d /\ (active[a] # None => runtime[active[a]] = "running")
  BY <1>1, <1>2, NoneAssumption DEF ActiveIsRunning, Invariant, TypeOK
<1>4. \A e \in Deployments : e \in Previous(a, d) <=> e = active[a]
  BY <1>2, <1>3, NoneAssumption DEF ActiveIsRunning, Previous, Owned, Invariant, TypeOK
<1> QED
  BY <1>1, <1>2, <1>3, <1>4, NoneAssumption DEF PromotionRows, Invariant, TypeOK

\* The promotion moves the running runtime, and the active Deployment with it,
\* from the predecessor to a candidate whose unit is on disk.
LEMMA PromotionRuntimes ==
    ASSUME Invariant, RuntimesFollow, NEW a \in Applications,
           op[a].step \in {"health", "external"}, PromotionRows(a, Dep(a)),
           NEW step \in {"fail", "restore"}, AfterPromotion(a, step), UNCHANGED unit
    PROVE  ActiveIsRunning(a)' /\ KnowsRuntimes(op[a])'
<1> DEFINE d == op[a].dep
<1>1. d \in Deployments /\ owner[d] = a
  BY CandidateFacts DEF CandidateSteps, WithUnit, Dep
<1>2. ActiveIsRunning(a) /\ KnowsRuntimes(op[a])
  BY DEF RuntimesFollow
<1>3. unit[d] # 0 /\ "runtime" \in op[a].held
  BY <1>2 DEF KnowsRuntimes, Undecided, BeforeUnit, Registered
<1>4. /\ status[d] \in NonTerminal /\ runtime[d] = "starting" /\ endpoint[d] # 0
      /\ active[a] # d /\ UNCHANGED <<owner, release, endpoint, reservation>>
      /\ active'[a] = d /\ status'[d] = "succeeded" /\ runtime'[d] = "running"
      /\ active[a] # None => runtime'[active[a]] = "stopped"
      /\ \A e \in Deployments :
           e # d => status'[e] = status[e] /\ (e # active[a] => runtime'[e] = runtime[e])
  BY <1>1, PromotionWrites DEF Dep
<1>5. unit[d] = endpoint[d]
  BY <1>1, <1>3, <1>4 DEF Invariant, PortInvariant, EndpointIsPublished
<1>6. ActiveIsRunning(a)'
  BY <1>1, <1>2, <1>4, <1>5, NoneAssumption DEF ActiveIsRunning, Invariant, TypeOK
<1>7. CASE End(a)
  BY <1>6, <1>7, EndFields
     DEF KnowsRuntimes, Undecided, Activating, Early, Registered, Succeeding,
         BeforeUnit, RetirementSteps, Invariant
<1>8. CASE /\ op[a].prev # None /\ op'[a].step = "retire" /\ op'[a].prev = op[a].prev
  <2>1. op[a].prev \in Deployments /\ owner[op[a].prev] = a
    BY <1>8, CandidateFacts
       DEF CandidateSteps, WithUnit, Owns, Operations
  <2>2. runtime[op[a].prev] = "running"
    BY <1>2, <1>8 DEF KnowsRuntimes, Succeeding
  <2>3. op[a].prev = active[a]
    BY <1>2, <2>1, <2>2 DEF ActiveIsRunning
  <2> QED
    BY <1>4, <1>6, <1>8, <2>3
       DEF KnowsRuntimes, Undecided, Activating, Early, Registered, Succeeding,
           BeforeUnit, RetirementSteps
<1>9. CASE Goto(a, step)
  BY <1>3, <1>6, <1>9, GotoFields
     DEF KnowsRuntimes, Undecided, Activating, Early, Registered, Succeeding,
         BeforeUnit, RetirementSteps, Invariant
<1> QED BY <1>6, <1>7, <1>8, <1>9, AfterPromotionFields DEF Invariant

\* Public activation moves routes; only the promotion moves the running runtime.
LEMMA ActivationRuntimes ==
    ASSUME Invariant, RuntimesFollow, NEW a \in Applications,
           \/ PromoteInternal(a) \/ InternalUnhealthy(a) \/ PublicUnhealthy(a)
           \/ MarkActivating(a) \/ BeginPublicExposure(a) \/ ReplaceFragment(a)
           \/ ReplaceFragmentFails(a) \/ ValidationFails(a) \/ ReloadCaddy(a)
           \/ ReloadFails(a) \/ PromotePublic(a) \/ RejectPublicCandidate(a)
           \/ RestoreFragment(a) \/ ReloadRestored(a) \/ RecordFailedExposure(a)
           \/ RecordDivergedExposure(a)
    PROVE  ActiveIsRunning(a)' /\ KnowsRuntimes(op[a])'
<1>1. CASE PromoteInternal(a)
  BY <1>1, PromotionRuntimes DEF PromoteInternal, At, podman
<1>2. CASE PromotePublic(a)
  BY <1>2, PromotionRuntimes DEF PromotePublic, At, podman
<1> DEFINE d == op[a].dep
<1>3. op[a].step \in WithUnit => d \in Deployments /\ owner[d] = a
  BY CandidateFacts DEF CandidateSteps, Dep
<1>4. ActiveIsRunning(a) /\ KnowsRuntimes(op[a])
  BY DEF RuntimesFollow
<1> USE <1>3, <1>4
    DEF Invariant, TypeOK, ActiveIsRunning, At, Dep, deploymentRows, runtimeRows,
        exposureRows, podman, caddy, KnowsRuntimes, Undecided, Activating, Early,
        Registered, Succeeding,
        BeforeUnit, WithUnit, RetirementSteps, Carries
<1>5. CASE InternalUnhealthy(a) \/ MarkActivating(a)
  BY <1>5, GotoFields, NoneAssumption
     DEF InternalUnhealthy, MarkActivating, Advance, Transition, NonTerminal
<1>6. CASE PublicUnhealthy(a) \/ ReplaceFragmentFails(a) \/ ReloadFails(a)
           \/ RejectPublicCandidate(a)
  BY <1>6, GotoFields
     DEF PublicUnhealthy, ReplaceFragmentFails, ReloadFails, RejectPublicCandidate
<1>7. CASE BeginPublicExposure(a)
  BY <1>7, GotoFields DEF BeginPublicExposure
<1>8. CASE ReplaceFragment(a)
  <2>1. op' = [op EXCEPT ![a] = [op[a] EXCEPT !.step = "validate", !.saved = fragment[a]]]
    BY <1>8 DEF ReplaceFragment
  <2>2. /\ op'[a].step = "validate" /\ op'[a].dep = d /\ op'[a].held = op[a].held
        /\ op'[a].prev = op[a].prev
    BY <2>1 DEF Operations
  <2> QED BY <1>8, <2>2 DEF ReplaceFragment
<1>9. CASE ValidationFails(a) \/ RestoreFragment(a)
  BY <1>9, GotoFields DEF ValidationFails, RestoreFragment
<1>10. CASE ReloadCaddy(a) \/ ReloadRestored(a)
  BY <1>10, GotoFields DEF ReloadCaddy, ReloadRestored
<1>11. CASE RecordFailedExposure(a) \/ RecordDivergedExposure(a)
  BY <1>11, GotoFields, EndFields
     DEF RecordFailedExposure, RecordDivergedExposure, RecordExposureFailure
<1> QED
  BY <1>1, <1>2, <1>5, <1>6, <1>7, <1>8, <1>9, <1>10, <1>11

\* Failure, cleanup and retirement take units, containers and ports from
\* runtimes that are not the running one.
LEMMA CompensationRuntimes ==
    ASSUME Invariant, RuntimesFollow, NEW a \in Applications,
           \/ FailDeployment(a) \/ KeepPromoted(a) \/ StopCandidate(a)
           \/ NothingToStop(a) \/ RemoveCandidateUnit(a) \/ ProveCandidateRemoved(a)
           \/ TombstoneCandidate(a) \/ ReleasePort(a) \/ CompensationFails(a)
           \/ RetireStop(a) \/ RetireUnit(a) \/ ProvePreviousRemoved(a)
           \/ RetireRuntime(a) \/ SettleExposure(a)
    PROVE  ActiveIsRunning(a)' /\ KnowsRuntimes(op[a])'
<1>1. op[a].step \in CandidateSteps => Dep(a) \in Deployments /\ owner[Dep(a)] = a
  BY CandidateFacts
<1>2. op[a].step \in RetirementSteps =>
        op[a].prev \in Deployments /\ owner[op[a].prev] = a
  BY RetirementFacts
<1>3. ActiveIsRunning(a) /\ KnowsRuntimes(op[a])
  BY DEF RuntimesFollow
<1>4. /\ op[a].step \in {"remove", "prove", "tombstone", "release"} =>
           active[a] # Dep(a)
      /\ op[a].step \in RetirementSteps => active[a] # op[a].prev
  BY <1>1, <1>2, <1>3
     DEF ActiveIsRunning, KnowsRuntimes, CandidateSteps, Dep
<1> USE <1>1, <1>2, <1>3, <1>4
    DEF Invariant, TypeOK, ActiveIsRunning, At, Dep, deploymentRows, runtimeRows,
        exposureRows, podman, caddy, KnowsRuntimes, Undecided, Activating, Early,
        Registered, Succeeding,
        BeforeUnit, CandidateSteps, RetirementSteps, Carries
<1>5. CASE FailDeployment(a)
  BY <1>5, GotoFields, EndFields, NoneAssumption
     DEF FailDeployment, AfterFailure, Transition, NonTerminal
<1>6. CASE KeepPromoted(a) \/ CompensationFails(a)
  BY <1>6, EndFields DEF KeepPromoted, CompensationFails
<1>7. CASE NothingToStop(a)
  BY <1>7, GotoFields DEF NothingToStop, CleanupStarts
<1>8. CASE StopCandidate(a)
  BY <1>8, GotoFields DEF StopCandidate, CleanupStarts, StopUnit
<1>9. CASE RemoveCandidateUnit(a)
  BY <1>9, GotoFields, EndFields DEF RemoveCandidateUnit, RemoveUnit
<1>10. CASE ProveCandidateRemoved(a)
  BY <1>10, GotoFields DEF ProveCandidateRemoved
<1>11. CASE TombstoneCandidate(a)
  BY <1>11, GotoFields DEF TombstoneCandidate
<1>12. CASE ReleasePort(a)
  BY <1>12, EndFields DEF ReleasePort
<1>13. CASE RetireStop(a)
  BY <1>13, GotoFields DEF RetireStop, StopUnit
<1>14. CASE RetireUnit(a)
  BY <1>14, GotoFields, EndFields DEF RetireUnit, RemoveUnit
<1>15. CASE ProvePreviousRemoved(a)
  BY <1>15, GotoFields DEF ProvePreviousRemoved
<1>16. CASE RetireRuntime(a)
  BY <1>16, EndFields DEF RetireRuntime
<1>17. CASE SettleExposure(a)
  BY <1>17, EndFields DEF SettleExposure
<1> QED
  BY <1>10, <1>15, <1>5, <1>6, <1>7, <1>8, <1>9, <1>11, <1>12, <1>13, <1>14, <1>16, <1>17

\* What a recovery does to the command's record.
LEMMA RecoverFields ==
    ASSUME TypeOK, NEW a \in Applications, NEW d \in Deployments,
           NEW next \in RecoveryOps(d), Recover(a, d, NonTerminal, next)
    PROVE  /\ op[a].step = "idle" /\ op'[a] = next /\ status[d] \in NonTerminal
           /\ op'[a].step \in {"idle", "settle", "cleanup"} /\ op'[a].prev = None
           /\ op'[a].step # "idle" => op'[a].dep = d
           /\ op'[a].step = "cleanup" => "runtime" \in op'[a].held
           /\ status' = [status EXCEPT ![d] = "failed"]
<1>1. op'[a] = next /\ status[d] \in NonTerminal /\ op[a].step = "idle"
  BY DEF Recover, TypeOK, At, Blocking
<1>2. Transition(status[d], "fail") = "failed"
  BY <1>1 DEF Transition, NonTerminal
<1>3. CASE next = Idle
  <2>1. next.step = "idle" /\ next.prev = None
    BY <1>3 DEF Idle
  <2> QED BY <1>1, <1>2, <2>1 DEF Recover
<1>4. CASE next = [Idle EXCEPT !.step = "settle", !.dep = d]
  <2>1. next.step = "settle" /\ next.prev = None /\ next.dep = d
    BY <1>4 DEF Idle
  <2> QED BY <1>1, <1>2, <2>1 DEF Recover
<1>5. CASE next = [Idle EXCEPT !.step = "cleanup", !.dep = d,
                               !.held = Proven(d) \cup {"runtime"}]
  <2>1. /\ next.step = "cleanup" /\ next.dep = d /\ next.prev = None
        /\ next.held = Proven(d) \cup {"runtime"}
    BY <1>5 DEF Idle
  <2> QED BY <1>1, <1>2, <2>1 DEF Recover
<1> QED BY <1>3, <1>4, <1>5 DEF RecoveryOps

\* A request creates a row; a recovery fails a Deployment that is not the active
\* one; a command that dies leaves the rows as they are.
LEMMA OutsideRuntimes ==
    ASSUME Invariant, RuntimesFollow, NEW a \in Applications,
           Request(a) \/ Reconcile(a) \/ Crash(a)
    PROVE  ActiveIsRunning(a)' /\ KnowsRuntimes(op[a])'
<1>1. ActiveIsRunning(a) /\ KnowsRuntimes(op[a])
  BY DEF RuntimesFollow
<1> USE <1>1
    DEF Invariant, TypeOK, ActiveIsRunning, At, deploymentRows, runtimeRows,
        exposureRows, podman, caddy, KnowsRuntimes, Undecided, Activating, Early,
        Registered, Succeeding,
        BeforeUnit, RetirementSteps
<1>2. CASE Request(a)
  <2>1. PICK d \in Deployments, r \in Releases \cup {None} : CreateDeployment(a, d, r)
    BY <1>2, RequestCreates
  <2>2. owner[d] = None /\ runtime[d] = "none"
    BY <2>1
       DEF CreateDeployment, PortInvariant, UnbornIsClean, RuntimesFollow,
           UnownedIsUnborn
  <2>3. op' = [op EXCEPT ![a] = [op[a] EXCEPT !.step = "start", !.dep = d]]
    BY <2>1 DEF CreateDeployment
  <2>4. op'[a].step = "start" /\ op'[a].dep = d
    BY <2>3 DEF Operations
  <2>5. ActiveIsRunning(a)'
    BY <2>1, <2>2, NoneAssumption DEF CreateDeployment
  <2>6. KnowsRuntimes(op[a])'
    BY <2>1, <2>4 DEF CreateDeployment, NonTerminal
  <2> QED BY <2>5, <2>6
<1>3. CASE Reconcile(a)
  <2>1. PICK d \in Deployments :
          /\ owner[d] = a /\ status[d] \in NonTerminal
          /\ \E next \in RecoveryOps(d) : Recover(a, d, NonTerminal, next)
    BY <1>3, ReconcileRecovers
  <2>2. PICK next \in RecoveryOps(d) : Recover(a, d, NonTerminal, next)
    BY <2>1
  <2>3. /\ op'[a].step \in {"idle", "settle", "cleanup"}
        /\ op'[a].step = "cleanup" => "runtime" \in op'[a].held
        /\ status' = [status EXCEPT ![d] = "failed"] /\ status[d] # "succeeded"
        /\ UNCHANGED <<owner, active, runtime, endpoint, unit>>
    BY <2>2, RecoverFields DEF Recover, NonTerminal
  <2>4. ActiveIsRunning(a)'
    BY <2>3, NoneAssumption
  <2> QED BY <2>3, <2>4
<1>4. CASE Crash(a)
  BY <1>4, EndFields DEF Crash
<1> QED BY <1>2, <1>3, <1>4

\* A reboot and a recreated container write no row and no unit.
LEMMA EnvironmentRuntimes ==
    ASSUME Invariant, RuntimesFollow,
           (\E d \in Deployments : RestartContainer(d)) \/ Reboot \/ UNCHANGED vars
    PROVE  RuntimesFollow'
<1> USE DEF RuntimesFollow, UnownedIsUnborn, ActiveIsRunning, KnowsRuntimes, vars,
            deploymentRows, runtimeRows, podman
<1>1. CASE \E d \in Deployments : RestartContainer(d)
  BY <1>1 DEF RestartContainer
<1>2. CASE Reboot
  <2>1. \A a \in Applications : op'[a].step = "idle"
    BY <1>2 DEF Reboot, Idle
  <2> QED
    BY <1>2, <2>1
       DEF Reboot, Undecided, Activating, Early, Registered, Succeeding, BeforeUnit,
           RetirementSteps
<1>3. CASE UNCHANGED vars
  BY <1>3
<1> QED BY <1>1, <1>2, <1>3

\* Every step keeps the running runtimes those of the active Deployments.
LEMMA StepRuntimes ==
    ASSUME Invariant, RuntimesFollow, [Next]_vars
    PROVE  RuntimesFollow'
<1>1. ASSUME NEW a \in Applications,
             Request(a) \/ Command(a) \/ Reconcile(a) \/ Crash(a)
      PROVE  RuntimesFollow'
  <2>1. ActiveIsRunning(a)' /\ KnowsRuntimes(op[a])'
    BY <1>1, CandidateRuntimes, ActivationRuntimes, CompensationRuntimes,
       OutsideRuntimes DEF Command
  <2> QED BY <1>1, <2>1, CommandIsLocal, OtherRuntimes DEF RuntimesFollow
<1> QED BY <1>1, EnvironmentRuntimes DEF Next

\* The invariant of the rows, the units and the runtimes.
RuntimeInvariant == Invariant /\ RuntimesFollow

\* The invariant holds initially and every step keeps it.
THEOREM RuntimeInvariantHolds == Spec => []RuntimeInvariant
<1>1. Init => RuntimesFollow
  BY NoneAssumption
     DEF Init, RuntimesFollow, UnownedIsUnborn, ActiveIsRunning, KnowsRuntimes, Idle,
         Undecided, Activating, Early, Registered, Succeeding, BeforeUnit, RetirementSteps
<1>2. Invariant /\ RuntimesFollow /\ [Next]_vars => RuntimesFollow'
  BY StepRuntimes
<1> QED BY <1>1, <1>2, InvariantHolds, PTL DEF Spec, RuntimeInvariant

\* A runtime is running exactly when its Deployment is the active one, with its
\* unit on disk, whatever fails, dies or commits with an uncertain outcome.
THEOREM RunningIsCurrent == Spec => []CurrentRuntime
<1>1. RuntimeInvariant => CurrentRuntime
  <2> SUFFICES ASSUME RuntimeInvariant, NEW d \in Deployments
               PROVE  LET current == owner[d] # None /\ active[owner[d]] = d IN
                      /\ runtime[d] = "running" <=> current
                      /\ current => status[d] = "succeeded" /\ endpoint[d] # 0
                                    /\ unit[d] = endpoint[d]
    BY DEF CurrentRuntime
  <2>1. CASE owner[d] = None
    BY <2>1 DEF RuntimeInvariant, RuntimesFollow, UnownedIsUnborn
  <2>2. CASE owner[d] # None
    <3>1. owner[d] \in Applications /\ ActiveIsRunning(owner[d])
      BY <2>2 DEF RuntimeInvariant, RuntimesFollow, Invariant, TypeOK
    <3> QED BY <2>2, <3>1, NoneAssumption DEF ActiveIsRunning
  <2> QED BY <2>1, <2>2
<1> QED BY <1>1, RuntimeInvariantHolds, PTL

-------------------------------------------------------------------------------
(* The commands implement Activation *)

\* A Deployment of a, still under way, goes on or fails.
StatusMoves(a) ==
    \E d \in Deployments, s \in NonTerminal \cup {"failed"} :
        /\ owner[d] = a /\ status[d] \in NonTerminal /\ (s \in Early => status[d] \in Early)
        /\ status' = [status EXCEPT ![d] = s]

\* The command promotes its candidate.
Promotes(a) == op[a].step \in {"health", "external"} /\ PromotionRows(a, Dep(a))

\* What a step of one Application may do to the rows of the Deployments.
LEMMA RowSteps ==
    ASSUME Invariant, NEW a \in Applications, Command(a) \/ Reconcile(a) \/ Crash(a)
    PROVE  \/ /\ StatusMoves(a) \/ UNCHANGED status
              /\ UNCHANGED <<owner, release, finished, active>>
           \/ Promotes(a)
<1> USE DEF deploymentRows
<1>1. op[a].step \in CandidateSteps => Dep(a) \in Deployments /\ owner[Dep(a)] = a
  BY CandidateFacts
<1>2. ASSUME NEW event \in {"start", "runtime_running", "verified", "fail"},
             op[a].step \in CandidateSteps, Transition(status[Dep(a)], event) # "illegal",
             status' = [status EXCEPT ![Dep(a)] = Transition(@, event)]
      PROVE  StatusMoves(a)
  <2>1. /\ status[Dep(a)] \in NonTerminal
        /\ Transition(status[Dep(a)], event) \in NonTerminal \cup {"failed"}
        /\ Transition(status[Dep(a)], event) \in Early => status[Dep(a)] \in Early
    BY <1>2 DEF Transition, NonTerminal, Early
  <2> QED BY <1>1, <1>2, <2>1 DEF StatusMoves
<1>3. CASE StartCandidate(a) \/ MarkVerifying(a)
  BY <1>2, <1>3
     DEF StartCandidate, MarkVerifying, Advance, At, CandidateSteps, BeforeUnit, WithUnit
<1>4. CASE InternalUnhealthy(a) \/ MarkActivating(a)
  BY <1>2, <1>4
     DEF InternalUnhealthy, MarkActivating, Advance, At, CandidateSteps, WithUnit
<1>5. CASE FailDeployment(a)
  BY <1>2, <1>5 DEF FailDeployment, At, CandidateSteps
<1>6. CASE PromoteInternal(a) \/ PromotePublic(a)
  BY <1>6 DEF PromoteInternal, PromotePublic, At, Promotes
<1>7. CASE Reconcile(a)
  <2>1. PICK d \in Deployments :
          /\ owner[d] = a /\ status[d] \in NonTerminal
          /\ \E next \in RecoveryOps(d) : Recover(a, d, NonTerminal, next)
    BY <1>7, ReconcileRecovers DEF Invariant
  <2>2. Transition(status[d], "fail") = "failed"
    BY <2>1 DEF Transition, NonTerminal
  <2> QED BY <2>1, <2>2 DEF Recover, StatusMoves, Early
<1>8. CASE Crash(a)
  BY <1>8 DEF Crash
<1>9. CASE \/ ReservePort(a) \/ PortsExhausted(a) \/ WriteUnit(a) \/ LaunchUnit(a)
           \/ ResolveContainer(a) \/ RegisterCandidate(a) \/ ConsumeReservation(a)
           \/ CandidateStepFails(a) \/ CommandFailsSilently(a)
  BY <1>9
     DEF ReservePort, PortsExhausted, WriteUnit, LaunchUnit, ResolveContainer,
         RegisterCandidate, ConsumeReservation, CandidateStepFails, CommandFailsSilently
<1>10. CASE \/ PublicUnhealthy(a) \/ BeginPublicExposure(a) \/ ReplaceFragment(a)
            \/ ReplaceFragmentFails(a) \/ ValidationFails(a) \/ ReloadCaddy(a)
            \/ ReloadFails(a) \/ RejectPublicCandidate(a) \/ RestoreFragment(a)
            \/ ReloadRestored(a) \/ RecordFailedExposure(a) \/ RecordDivergedExposure(a)
  BY <1>10
     DEF PublicUnhealthy, BeginPublicExposure, ReplaceFragment, ReplaceFragmentFails,
         ValidationFails, ReloadCaddy, ReloadFails, RejectPublicCandidate,
         RestoreFragment, ReloadRestored, RecordFailedExposure, RecordDivergedExposure,
         RecordExposureFailure
<1>11. CASE \/ KeepPromoted(a) \/ StopCandidate(a) \/ NothingToStop(a)
            \/ RemoveCandidateUnit(a) \/ ProveCandidateRemoved(a)
            \/ TombstoneCandidate(a) \/ ReleasePort(a) \/ CompensationFails(a)
            \/ RetireStop(a) \/ RetireUnit(a) \/ ProvePreviousRemoved(a)
            \/ RetireRuntime(a) \/ SettleExposure(a)
  BY <1>11
     DEF KeepPromoted, StopCandidate, NothingToStop, RemoveCandidateUnit,
         ProveCandidateRemoved, TombstoneCandidate, ReleasePort, CompensationFails,
         RetireStop, RetireUnit, ProvePreviousRemoved, RetireRuntime, SettleExposure,
         StopUnit, RemoveUnit
<1> QED
  BY <1>3, <1>4, <1>5, <1>6, <1>7, <1>8, <1>9, <1>10, <1>11 DEF Command

\* Every Deployment that has a row has a phase and an Application.
LEMMA PhaseFacts ==
    ASSUME RuntimeInvariant, NEW d \in Deployments
    PROVE  /\ status[d] = "none" <=> Phase(d) = "unborn"
           /\ status[d] \in NonTerminal <=> Phase(d) = "candidate"
           /\ status[d] \in NonTerminal => owner[d] \in Applications
  BY DEF Phase, NonTerminal, RuntimeInvariant, RuntimesFollow, UnownedIsUnborn,
         Invariant, TypeOK, Statuses, Terminal

\* A Deployment that goes on is the same candidate; one that fails is rejected.
LEMMA MovesActivate ==
    ASSUME RuntimeInvariant, NEW a \in Applications, StatusMoves(a),
           UNCHANGED <<owner, active>>
    PROVE  [Abstract!Next]_(Abstract!avars)
<1>1. PICK d \in Deployments, s \in NonTerminal \cup {"failed"} :
        /\ owner[d] = a /\ status[d] \in NonTerminal
        /\ status' = [status EXCEPT ![d] = s]
  BY DEF StatusMoves
<1>2. /\ status'[d] = s /\ Phase(d) = "candidate"
      /\ \A e \in Deployments : e # d => Phase(e)' = Phase(e)
  BY <1>1, PhaseFacts DEF Phase, RuntimeInvariant, Invariant, TypeOK
<1>3. CASE s \in NonTerminal
  <2>1. \A e \in Deployments : Phase(e)' = Phase(e)
    BY <1>2, <1>3 DEF Phase, NonTerminal
  <2> QED BY <2>1 DEF Abstract!avars
<1>4. CASE s = "failed"
  <2>1. Phase(d)' = "rejected"
    BY <1>2, <1>4 DEF Phase, NonTerminal
  <2> QED BY <1>2, <2>1 DEF Abstract!Next, Abstract!Reject
<1> QED BY <1>3, <1>4

\* A promotion makes the candidate current and retires the predecessor.
LEMMA PromotionActivates ==
    ASSUME RuntimeInvariant, NEW a \in Applications, Promotes(a)
    PROVE  Abstract!Next
<1>1. PICK d \in Deployments :
        /\ owner[d] = a /\ PromotionRows(a, d)
        /\ active' = [active EXCEPT ![a] = d]
  BY CandidateFacts
     DEF RuntimeInvariant, Promotes, CandidateSteps, WithUnit, PromotionRows
<1>2. /\ status[d] \in NonTerminal /\ UNCHANGED owner
      /\ active'[a] = d /\ status'[d] = "succeeded"
      /\ \A e \in Deployments : e # d => status'[e] = status[e]
  BY <1>1, PromotionWrites DEF RuntimeInvariant
<1>3. Phase(d) = "candidate" /\ Phase(d)' = "current"
  <2>1. Phase(d) = "candidate"
    BY <1>1, <1>2, PhaseFacts
  <2>2. active'[owner'[d]] = d /\ status'[d] = "succeeded"
    BY <1>1, <1>2
  <2>3. Phase(d)' = "current"
    BY <2>2 DEF Phase, NonTerminal
  <2> QED BY <2>1, <2>3
<1>4. ASSUME NEW e \in Deployments, e # d
      PROVE  Phase(e)' = IF e = active[a] THEN "retired" ELSE Phase(e)
  <2>1. ActiveIsRunning(a) /\ (owner[e] = None => status[e] = "none")
    BY DEF RuntimeInvariant, RuntimesFollow, UnownedIsUnborn
  <2>2. CASE e = active[a]
    BY <1>1, <1>2, <1>4, <2>1, <2>2, NoneAssumption
       DEF ActiveIsRunning, Phase, NonTerminal
  <2>3. CASE e # active[a] /\ owner[e] = a
    BY <1>1, <1>2, <1>4, <2>3 DEF Phase, RuntimeInvariant, Invariant, TypeOK
  <2>4. CASE e # active[a] /\ owner[e] = None
    BY <1>1, <1>2, <1>4, <2>1, <2>4 DEF Phase
  <2>5. CASE owner[e] \in Applications \ {a}
    BY <1>1, <1>2, <1>4, <2>1, <2>5, NoneAssumption
       DEF Phase, ActiveIsRunning, RuntimeInvariant, Invariant, TypeOK
  <2> QED
    BY <2>2, <2>3, <2>4, <2>5 DEF RuntimeInvariant, Invariant, TypeOK
<1>5. [e \in Deployments |-> Phase(e)]' =
          [e \in Deployments |-> IF e = d THEN "current"
                                ELSE IF e = active[owner[d]] THEN "retired" ELSE Phase(e)]
  <2>1. \A e \in Deployments :
          Phase(e)' = IF e = d THEN "current"
                      ELSE IF e = active[owner[d]] THEN "retired" ELSE Phase(e)
    BY <1>1, <1>3, <1>4
  <2> QED BY <2>1
<1>6. Abstract!Promote(d)
  BY <1>1, <1>2, <1>3, <1>5 DEF Abstract!Promote
<1> QED BY <1>1, <1>6 DEF Abstract!Next

\* A request proposes a candidate where the Application has none.
LEMMA RequestActivates ==
    ASSUME RuntimeInvariant, NEW a \in Applications, Request(a)
    PROVE  Abstract!Next
<1>1. PICK d \in Deployments, r \in Releases \cup {None} : CreateDeployment(a, d, r)
  BY RequestCreates DEF RuntimeInvariant, Invariant
<1>2. /\ status[d] = "none" /\ Blocking(a) = {} /\ UNCHANGED active
      /\ status' = [status EXCEPT ![d] = "pending"] /\ owner' = [owner EXCEPT ![d] = a]
  BY <1>1 DEF CreateDeployment
<1>3. /\ status'[d] = "pending" /\ owner'[d] = a
      /\ \A e \in Deployments : e # d => status'[e] = status[e] /\ owner'[e] = owner[e]
  BY <1>2 DEF RuntimeInvariant, Invariant, TypeOK
<1>4. Phase(d) = "unborn" /\ Phase(d)' = "candidate"
  BY <1>2, <1>3 DEF Phase, NonTerminal
<1>5. \A e \in Deployments : e # d => Phase(e)' = Phase(e)
  BY <1>2, <1>3 DEF Phase
<1>6. \A e \in Deployments : owner[e] = a => Phase(e) # "candidate"
  BY <1>2, PhaseFacts DEF Blocking, Owned
<1>7. [e \in Deployments |-> Phase(e)]' =
          [[e \in Deployments |-> Phase(e)] EXCEPT ![d] = "candidate"]
  BY <1>4, <1>5
<1>8. Abstract!Propose(a, d)
  BY <1>2, <1>4, <1>6, <1>7 DEF Abstract!Propose
<1> QED BY <1>8 DEF Abstract!Next

\* Every step of the commands is a step of Activation or leaves it alone.
LEMMA StepActivates ==
    ASSUME RuntimeInvariant, [Next]_vars
    PROVE  [Abstract!Next]_(Abstract!avars)
<1>1. ASSUME UNCHANGED <<status, owner, active>>
      PROVE  UNCHANGED Abstract!avars
  BY <1>1 DEF Phase, Abstract!avars
<1>2. ASSUME NEW a \in Applications, Request(a)
      PROVE  Abstract!Next
  BY <1>2, RequestActivates
<1>3. ASSUME NEW a \in Applications, Command(a) \/ Reconcile(a) \/ Crash(a)
      PROVE  [Abstract!Next]_(Abstract!avars)
  <2>1. CASE StatusMoves(a) /\ UNCHANGED <<owner, active>>
    BY <2>1, MovesActivate
  <2>2. CASE UNCHANGED <<status, owner, active>>
    BY <1>1, <2>2
  <2>3. CASE Promotes(a)
    BY <2>3, PromotionActivates
  <2> QED BY <1>3, <2>1, <2>2, <2>3, RowSteps DEF RuntimeInvariant
<1>4. CASE (\E d \in Deployments : RestartContainer(d)) \/ Reboot \/ UNCHANGED vars
  BY <1>1, <1>4 DEF RestartContainer, Reboot, vars, deploymentRows
<1> QED BY <1>2, <1>3, <1>4 DEF Next

\* Deployment implements Activation, for every instance and whatever fails.
THEOREM DeploymentActivates == Spec => ImplementsActivation
<1>1. Init => Abstract!Init
  <2> SUFFICES ASSUME Init PROVE Abstract!Init
    OBVIOUS
  <2>1. \A d \in Deployments : status[d] = "none"
    BY DEF Init
  <2>2. \A d \in Deployments : Phase(d) = "unborn"
    BY <2>1 DEF Phase, NonTerminal
  <2> QED BY <2>2 DEF Init, Abstract!Init
<1>2. RuntimeInvariant /\ [Next]_vars => [Abstract!Next]_(Abstract!avars)
  BY StepActivates
<1> QED
  BY <1>1, <1>2, RuntimeInvariantHolds, PTL DEF Spec, ImplementsActivation, Abstract!Spec

-------------------------------------------------------------------------------
(* A runtime row is tombstoned after its container is gone *)

\* Steps of a command that has no runtime row yet.
Unregistered == BeforeUnit \cup {"idle", "launch", "resolve", "register"}

\* What a command knows of the container it would remove: it holds the recorded
\* identity from the resolution on, and a cleanup that does not hold it has seen
\* that the container is not the recorded one.  The proof of the removal comes
\* before the tombstone, and no container gets its recorded identity back.
KnowsContainer(o) ==
    /\ o.step \in Unregistered => "runtime" \notin o.held
    /\ o.step \in Registered \cup {"register"} => "container" \in o.held
    /\ o.step \in {"fail", "cleanup", "remove", "prove"} /\ "runtime" \in o.held =>
           "container" \in o.held \/ container[o.dep] # "known"
    /\ o.step = "tombstone" /\ "runtime" \in o.held => container[o.dep] # "known"
    /\ o.step = "retire_mark" => container[o.prev] # "known"

ContainersAreKnown == \A a \in Applications : KnowsContainer(op[a])

\* A command resolves no container but its own.
LEMMA OtherContainers ==
    ASSUME Invariant, ContainersAreKnown, NEW a \in Applications, OnlyMoves(a)
    PROVE  \A b \in Applications : b # a => KnowsContainer(op[b])'
<1>1. ASSUME NEW b \in Applications, b # a
      PROVE  KnowsContainer(op[b])'
  <2>1. Owns(b, op[b]) /\ op'[b] = op[b] /\ KnowsContainer(op[b]) /\ b # None
    BY <1>1, NoneAssumption
       DEF Invariant, PortInvariant, OpOwnsItsWork, OnlyMoves, ApplicationKeeps,
           ContainersAreKnown
  <2>2. op[b].step \in CandidateSteps => container'[op[b].dep] = container[op[b].dep]
    BY <1>1, <2>1 DEF Owns, OnlyMoves, DeploymentKeeps
  <2>3. op[b].step \in RetirementSteps =>
          container'[op[b].prev] = container[op[b].prev]
    BY <1>1, <2>1, RetirementFacts DEF OnlyMoves, DeploymentKeeps
  <2> QED BY <2>1, <2>2, <2>3 DEF KnowsContainer, CandidateSteps, RetirementSteps
<1> QED BY <1>1

\* The steps of the candidate and of its activation.
LEMMA ForwardContainers ==
    ASSUME Invariant, ContainersAreKnown, NEW a \in Applications,
           \/ StartCandidate(a) \/ ReservePort(a) \/ PortsExhausted(a) \/ WriteUnit(a)
           \/ LaunchUnit(a) \/ ResolveContainer(a) \/ RegisterCandidate(a)
           \/ ConsumeReservation(a) \/ MarkVerifying(a) \/ CandidateStepFails(a)
           \/ CommandFailsSilently(a)
           \/ PromoteInternal(a) \/ InternalUnhealthy(a) \/ PublicUnhealthy(a)
           \/ MarkActivating(a) \/ BeginPublicExposure(a) \/ ReplaceFragment(a)
           \/ ReplaceFragmentFails(a) \/ ValidationFails(a) \/ ReloadCaddy(a)
           \/ ReloadFails(a) \/ PromotePublic(a) \/ RejectPublicCandidate(a)
           \/ RestoreFragment(a) \/ ReloadRestored(a) \/ RecordFailedExposure(a)
           \/ RecordDivergedExposure(a)
    PROVE  KnowsContainer(op[a])'
<1> USE DEF Invariant, At, KnowsContainer, Registered, Unregistered, BeforeUnit
<1>1. KnowsContainer(op[a])
  BY DEF ContainersAreKnown
<1>2. CASE StartCandidate(a) \/ InternalUnhealthy(a) \/ MarkActivating(a)
  BY <1>1, <1>2, GotoFields DEF StartCandidate, InternalUnhealthy, MarkActivating, Advance
<1>3. CASE ReservePort(a) \/ WriteUnit(a)
  BY <1>1, <1>3, HoldFields DEF ReservePort, WriteUnit
<1>4. CASE ResolveContainer(a) \/ RegisterCandidate(a)
  BY <1>1, <1>4, HoldFields DEF ResolveContainer, RegisterCandidate
<1>5. CASE PortsExhausted(a) \/ LaunchUnit(a) \/ ConsumeReservation(a)
  BY <1>1, <1>5, GotoFields DEF PortsExhausted, LaunchUnit, ConsumeReservation
<1>6. CASE CandidateStepFails(a) \/ CommandFailsSilently(a)
  BY <1>1, <1>6, GotoFields DEF CandidateStepFails, CommandFailsSilently
<1>7. CASE MarkVerifying(a)
  <2>1. PICK p : op' = [op EXCEPT ![a] = [op[a] EXCEPT !.step = "health", !.prev = p]]
    BY <1>7 DEF MarkVerifying
  <2>2. op'[a].step = "health" /\ op'[a].held = op[a].held
    BY <2>1 DEF TypeOK, Operations
  <2> QED BY <1>1, <1>7, <2>2 DEF MarkVerifying
<1>8. CASE PromoteInternal(a) \/ PromotePublic(a)
  <2>1. PICK step \in {"fail", "restore"} : AfterPromotion(a, step)
    BY <1>8 DEF PromoteInternal, PromotePublic
  <2>2. op[a].step \in Registered
    BY <1>8 DEF PromoteInternal, PromotePublic
  <2> QED BY <1>1, <2>1, <2>2, AfterPromotionFields, EndFields, GotoFields
<1>9. CASE ReplaceFragment(a)
  <2>1. op' = [op EXCEPT ![a] = [op[a] EXCEPT !.step = "validate", !.saved = fragment[a]]]
    BY <1>9 DEF ReplaceFragment
  <2>2. op'[a].step = "validate" /\ op'[a].held = op[a].held
    BY <2>1 DEF TypeOK, Operations
  <2> QED BY <1>1, <1>9, <2>2 DEF ReplaceFragment
<1>10. CASE \/ PublicUnhealthy(a) \/ BeginPublicExposure(a) \/ ReplaceFragmentFails(a)
            \/ ReloadFails(a) \/ RejectPublicCandidate(a)
  BY <1>1, <1>10, GotoFields
     DEF PublicUnhealthy, BeginPublicExposure, ReplaceFragmentFails, ReloadFails,
         RejectPublicCandidate
<1>11. CASE ValidationFails(a) \/ ReloadCaddy(a) \/ RestoreFragment(a) \/ ReloadRestored(a)
  BY <1>1, <1>11, GotoFields
     DEF ValidationFails, ReloadCaddy, RestoreFragment, ReloadRestored
<1>12. CASE RecordFailedExposure(a) \/ RecordDivergedExposure(a)
  BY <1>1, <1>12, GotoFields, EndFields
     DEF RecordFailedExposure, RecordDivergedExposure, RecordExposureFailure
<1> QED
  BY <1>2, <1>3, <1>4, <1>5, <1>6, <1>7, <1>8, <1>9, <1>10, <1>11, <1>12

\* Failure, cleanup, retirement and recovery, requests and crashes.
LEMMA BackwardContainers ==
    ASSUME Invariant, ContainersAreKnown, NEW a \in Applications,
           \/ FailDeployment(a) \/ KeepPromoted(a) \/ StopCandidate(a)
           \/ NothingToStop(a) \/ RemoveCandidateUnit(a) \/ ProveCandidateRemoved(a)
           \/ TombstoneCandidate(a) \/ ReleasePort(a) \/ CompensationFails(a)
           \/ RetireStop(a) \/ RetireUnit(a) \/ ProvePreviousRemoved(a)
           \/ RetireRuntime(a) \/ SettleExposure(a)
           \/ Request(a) \/ Reconcile(a) \/ Crash(a)
    PROVE  KnowsContainer(op[a])'
<1> USE DEF Invariant, At, KnowsContainer, Registered, Unregistered, BeforeUnit, podman,
            Carries
<1>1. KnowsContainer(op[a])
  BY DEF ContainersAreKnown
<1>2. CASE FailDeployment(a)
  BY <1>1, <1>2, GotoFields, EndFields DEF FailDeployment, AfterFailure
<1>3. CASE \/ KeepPromoted(a) \/ ReleasePort(a) \/ CompensationFails(a)
           \/ RetireRuntime(a) \/ SettleExposure(a) \/ Crash(a)
  BY <1>3, EndFields
     DEF KeepPromoted, ReleasePort, CompensationFails, RetireRuntime, SettleExposure,
         Crash
<1>4. CASE StopCandidate(a)
  <2>1. Dep(a) \in Deployments
    BY <1>4, CandidateFacts DEF StopCandidate, CleanupStarts, CandidateSteps
  <2> QED
    BY <1>1, <1>4, <2>1, GotoFields
       DEF StopCandidate, StopUnit, CleanupStarts, TypeOK, Dep
<1>5. CASE NothingToStop(a)
  BY <1>1, <1>5, GotoFields DEF NothingToStop, CleanupStarts
<1>6. CASE RemoveCandidateUnit(a)
  BY <1>1, <1>6, GotoFields, EndFields DEF RemoveCandidateUnit, RemoveUnit
<1>7. CASE ProveCandidateRemoved(a)
  <2>1. Dep(a) \in Deployments /\ Dep(a) = op[a].dep
    BY <1>7, CandidateFacts DEF ProveCandidateRemoved, CandidateSteps, Dep
  <2>2. /\ op[a].step = "prove" /\ op'[a].step = "tombstone"
        /\ op'[a].dep = op[a].dep /\ op'[a].held = op[a].held
    BY <1>7, GotoFields DEF ProveCandidateRemoved
  <2>3. CASE "container" \in op[a].held
    BY <1>7, <2>1, <2>2, <2>3 DEF ProveCandidateRemoved, ProveRemoved, TypeOK
  <2>4. CASE "container" \notin op[a].held
    BY <1>7, <1>1, <2>2, <2>4 DEF ProveCandidateRemoved
  <2> QED BY <2>3, <2>4
<1>8. CASE ProvePreviousRemoved(a)
  <2>1. op[a].prev \in Deployments
    BY <1>8, RetirementFacts DEF ProvePreviousRemoved, RetirementSteps
  <2> QED
    BY <1>8, <2>1, GotoFields DEF ProvePreviousRemoved, ProveRemoved, TypeOK
<1>9. CASE TombstoneCandidate(a) \/ RetireStop(a)
  BY <1>9, GotoFields DEF TombstoneCandidate, RetireStop, StopUnit
<1>10. CASE RetireUnit(a)
  BY <1>10, GotoFields, EndFields DEF RetireUnit, RemoveUnit
<1>11. CASE Request(a)
  <2>1. PICK d \in Deployments, r \in Releases \cup {None} : CreateDeployment(a, d, r)
    BY <1>11, RequestCreates
  <2>2. /\ op' = [op EXCEPT ![a] = [op[a] EXCEPT !.step = "start", !.dep = d]]
        /\ op[a].step = "idle"
    BY <2>1 DEF CreateDeployment
  <2>3. op'[a].step = "start" /\ op'[a].held = op[a].held
    BY <2>2 DEF TypeOK, Operations
  <2> QED BY <1>1, <2>2, <2>3
<1>12. CASE Reconcile(a)
  <2>1. PICK d \in Deployments :
          \E next \in RecoveryOps(d) : Recover(a, d, NonTerminal, next)
    BY <1>12, ReconcileRecovers
  <2>2. PICK next \in RecoveryOps(d) : Recover(a, d, NonTerminal, next)
    BY <2>1
  <2>3. op'[a] = next /\ UNCHANGED container
    BY <2>2 DEF Recover, TypeOK
  <2>4. CASE next = Idle
    BY <2>3, <2>4 DEF Idle
  <2>5. CASE next = [Idle EXCEPT !.step = "settle", !.dep = d]
    <3>1. next.step = "settle"
      BY <2>5 DEF Idle
    <3> QED BY <2>3, <3>1
  <2>6. CASE next = [Idle EXCEPT !.step = "cleanup", !.dep = d,
                                 !.held = Proven(d) \cup {"runtime"}]
    <3>1. next.step = "cleanup" /\ next.dep = d /\ next.held = Proven(d) \cup {"runtime"}
      BY <2>6 DEF Idle
    <3>2. "container" \in Proven(d) <=> container[d] = "known"
      BY DEF Proven
    <3> QED BY <2>3, <3>1, <3>2
  <2> QED BY <2>4, <2>5, <2>6 DEF RecoveryOps
<1> QED
  BY <1>7, <1>8, <1>2, <1>3, <1>4, <1>5, <1>6, <1>9, <1>10, <1>11, <1>12

\* Every step keeps what commands know of containers; nobody but its command
\* gives a container a recorded identity.
LEMMA StepContainers ==
    ASSUME Invariant, ContainersAreKnown, [Next]_vars
    PROVE  ContainersAreKnown'
<1>1. ASSUME NEW a \in Applications,
             Request(a) \/ Command(a) \/ Reconcile(a) \/ Crash(a)
      PROVE  ContainersAreKnown'
  <2>1. KnowsContainer(op[a])'
    BY <1>1, ForwardContainers, BackwardContainers DEF Command
  <2> QED BY <1>1, <2>1, CommandIsLocal, OtherContainers DEF ContainersAreKnown
<1>2. CASE \E d \in Deployments : RestartContainer(d)
  <2>1. \A d \in Deployments : container'[d] = "known" => container[d] = "known"
    BY <1>2 DEF RestartContainer, Invariant, TypeOK
  <2>2. ASSUME NEW a \in Applications
        PROVE  KnowsContainer(op[a])'
    <3>1. op'[a] = op[a] /\ KnowsContainer(op[a])
      BY <1>2 DEF RestartContainer, ContainersAreKnown
    <3>2. op[a].step \in CandidateSteps => op[a].dep \in Deployments
      BY CandidateFacts DEF Dep
    <3>3. op[a].step \in RetirementSteps => op[a].prev \in Deployments
      BY RetirementFacts
    <3> QED
      BY <2>1, <3>1, <3>2, <3>3 DEF KnowsContainer, CandidateSteps, RetirementSteps
  <2> QED BY <2>2 DEF ContainersAreKnown
<1>3. CASE Reboot
  <2>1. \A a \in Applications : op'[a].step = "idle" /\ op'[a].held = {}
    BY <1>3 DEF Reboot, Idle
  <2> QED BY <2>1 DEF ContainersAreKnown, KnowsContainer, Registered
<1>4. CASE UNCHANGED vars
  BY <1>4 DEF vars, podman, ContainersAreKnown, KnowsContainer
<1> QED BY <1>1, <1>2, <1>3, <1>4 DEF Next

\* Only the registration of a candidate and the two tombstones write an endpoint.
LEMMA EndpointSteps ==
    ASSUME [Next]_vars
    PROVE  \/ UNCHANGED endpoint
           \/ \E a \in Applications :
                RegisterCandidate(a) \/ TombstoneCandidate(a) \/ RetireRuntime(a)
<1> USE DEF runtimeRows
<1>1. ASSUME NEW a \in Applications,
             Request(a) \/ Command(a) \/ Reconcile(a) \/ Crash(a)
      PROVE  \/ UNCHANGED endpoint
             \/ RegisterCandidate(a) \/ TombstoneCandidate(a) \/ RetireRuntime(a)
  <2>1. CASE \/ StartCandidate(a) \/ ReservePort(a) \/ PortsExhausted(a) \/ WriteUnit(a)
             \/ LaunchUnit(a) \/ ResolveContainer(a) \/ ConsumeReservation(a)
             \/ MarkVerifying(a) \/ CandidateStepFails(a) \/ CommandFailsSilently(a)
    BY <2>1
       DEF StartCandidate, ReservePort, PortsExhausted, WriteUnit, LaunchUnit,
           ResolveContainer, ConsumeReservation, MarkVerifying, CandidateStepFails,
           CommandFailsSilently, Advance
  <2>2. CASE \/ PromoteInternal(a) \/ InternalUnhealthy(a) \/ PublicUnhealthy(a)
             \/ MarkActivating(a) \/ BeginPublicExposure(a) \/ ReplaceFragment(a)
             \/ ReplaceFragmentFails(a) \/ ValidationFails(a) \/ ReloadCaddy(a)
             \/ ReloadFails(a) \/ PromotePublic(a) \/ RejectPublicCandidate(a)
             \/ RestoreFragment(a) \/ ReloadRestored(a) \/ RecordFailedExposure(a)
             \/ RecordDivergedExposure(a)
    BY <2>2
       DEF PromoteInternal, InternalUnhealthy, PublicUnhealthy, MarkActivating,
           BeginPublicExposure, ReplaceFragment, ReplaceFragmentFails, ValidationFails,
           ReloadCaddy, ReloadFails, PromotePublic, RejectPublicCandidate,
           RestoreFragment, ReloadRestored, RecordFailedExposure,
           RecordDivergedExposure, RecordExposureFailure, PromotionRows, Advance
  <2>3. CASE \/ FailDeployment(a) \/ KeepPromoted(a) \/ StopCandidate(a)
             \/ NothingToStop(a) \/ RemoveCandidateUnit(a)
             \/ ProveCandidateRemoved(a) \/ ReleasePort(a) \/ CompensationFails(a)
             \/ RetireStop(a) \/ RetireUnit(a) \/ ProvePreviousRemoved(a)
             \/ SettleExposure(a)
    BY <2>3
       DEF FailDeployment, KeepPromoted, StopCandidate, NothingToStop,
           RemoveCandidateUnit, ProveCandidateRemoved, ReleasePort, CompensationFails,
           RetireStop, RetireUnit, ProvePreviousRemoved, SettleExposure, StopUnit,
           RemoveUnit
  <2>4. CASE Request(a) \/ Reconcile(a) \/ Crash(a)
    BY <2>4
       DEF Request, Deploy, Rollback, CreateDeployment, Reconcile, RecoverPending,
           RecoverUnproven, RecoverCandidate, RecoverActivation, Recover, Crash
  <2> QED BY <1>1, <2>1, <2>2, <2>3, <2>4 DEF Command
<1> QED BY <1>1 DEF Next, RestartContainer, Reboot, vars

\* An endpoint is given up with its container gone.
LEMMA EndpointIsGivenUp ==
    ASSUME RuntimeInvariant, ContainersAreKnown, [Next]_vars, NEW d \in Deployments,
           endpoint[d] # 0, endpoint'[d] = 0
    PROVE  container'[d] # "known"
<1> USE DEF RuntimeInvariant, Invariant, TypeOK
<1>1. PICK a \in Applications :
        RegisterCandidate(a) \/ TombstoneCandidate(a) \/ RetireRuntime(a)
  BY EndpointSteps
<1>2. CASE RegisterCandidate(a)
  <2>1. /\ op[a].step = "register"
        /\ endpoint' = [endpoint EXCEPT ![op[a].dep] = unit[op[a].dep]]
    BY <1>2 DEF RegisterCandidate, At, Dep
  <2>2. unit[op[a].dep] # 0
    BY <2>1 DEF RuntimesFollow, KnowsRuntimes, Undecided, BeforeUnit
  <2> QED BY <2>1, <2>2
<1>3. CASE TombstoneCandidate(a)
  <2>1. /\ op[a].step = "tombstone" /\ d = op[a].dep /\ "runtime" \in op[a].held
        /\ UNCHANGED container
    BY <1>3 DEF TombstoneCandidate, At, Dep, podman
  <2> QED BY <2>1 DEF ContainersAreKnown, KnowsContainer
<1>4. CASE RetireRuntime(a)
  <2>1. op[a].step = "retire_mark" /\ d = op[a].prev /\ UNCHANGED container
    BY <1>4 DEF RetireRuntime, At, podman
  <2> QED BY <2>1 DEF ContainersAreKnown, KnowsContainer
<1> QED BY <1>1, <1>2, <1>3, <1>4

\* A runtime row is tombstoned, and its port free again, only after the recorded
\* container is gone, whatever failed before.
THEOREM RemovalAlwaysProven == Spec => RemovalIsProven
<1>1. Init => ContainersAreKnown
  BY DEF Init, ContainersAreKnown, KnowsContainer, Idle, Registered
<1>2. Invariant /\ ContainersAreKnown /\ [Next]_vars => ContainersAreKnown'
  BY StepContainers
<1>3. RuntimeInvariant /\ ContainersAreKnown /\ [Next]_vars =>
        [\A d \in Deployments :
           endpoint[d] # 0 /\ endpoint'[d] = 0 => container'[d] # "known"]_vars
  BY EndpointIsGivenUp
<1> QED
  BY <1>1, <1>2, <1>3, InvariantHolds, RuntimeInvariantHolds, PTL
     DEF Spec, RemovalIsProven

-------------------------------------------------------------------------------
(* A rollback changes the Release *)

\* An Application has one Deployment under way.
OneCandidate(a) ==
    \A d, e \in Deployments :
        owner[d] = a /\ status[d] \in NonTerminal
        /\ owner[e] = a /\ status[e] \in NonTerminal => d = e

\* A candidate is not of the Release that is active.
CandidateChanges(a) ==
    \A d \in Deployments :
        owner[d] = a /\ status[d] \in NonTerminal /\ active[a] # None =>
            release[d] # release[active[a]]

\* The active Deployment is the last that succeeded.
LatestIsActive(a) ==
    \A d \in Deployments :
        owner[d] = a /\ status[d] = "succeeded" =>
            active[a] # None /\ (d # active[a] => finished[d] < finished[active[a]])

\* The Deployment a rollback would redeploy is not of the active Release.
TargetChanges(a) ==
    active[a] # None =>
        \A target \in RollbackTargets(a) : release[target] # release[active[a]]

\* Clock seconds order the Deployments of an Application unless two succeed in one.
ReleasesFollow(a) ==
    /\ OneCandidate(a)
    /\ ~Can("same_second") =>
           LatestIsActive(a) /\ CandidateChanges(a) /\ TargetChanges(a)

ReleasesAreOrdered == \A a \in Applications : ReleasesFollow(a)
ReleaseInvariant == RuntimeInvariant /\ ReleasesAreOrdered

\* What an Application releases depends on its own rows.
LEMMA OtherReleases ==
    ASSUME ReleaseInvariant, NEW a \in Applications, OnlyMoves(a),
           NEW b \in Applications, b # a
    PROVE  ReleasesFollow(b)'
<1>1. ReleasesFollow(b) /\ ActiveIsRunning(b) /\ b # None /\ active'[b] = active[b]
  BY NoneAssumption
     DEF ReleaseInvariant, ReleasesAreOrdered, RuntimeInvariant, RuntimesFollow,
         OnlyMoves, ApplicationKeeps
<1>2. /\ \A d \in Deployments : owner'[d] = b <=> owner[d] = b
      /\ \A d \in Deployments : owner[d] = b =>
           /\ status'[d] = status[d] /\ release'[d] = release[d]
           /\ finished'[d] = finished[d]
  BY <1>1 DEF OnlyMoves, DeploymentKeeps
<1>3. active[b] # None => active[b] \in Deployments /\ owner[active[b]] = b
  BY <1>1
     DEF ActiveIsRunning, ReleaseInvariant, RuntimeInvariant, Invariant, TypeOK
<1>4. OneCandidate(b)'
  BY <1>1, <1>2 DEF ReleasesFollow, OneCandidate
<1>5. CASE ~Can("same_second")
  <2>1. LatestIsActive(b)' /\ CandidateChanges(b)'
    BY <1>1, <1>2, <1>3, <1>5 DEF ReleasesFollow, LatestIsActive, CandidateChanges
  <2>2. TargetChanges(b)'
    BY <1>1, <1>2, <1>3, <1>5 DEF ReleasesFollow, TargetChanges, RollbackTargets, Owned
  <2> QED BY <1>4, <2>1, <2>2 DEF ReleasesFollow
<1> QED BY <1>4, <1>5 DEF ReleasesFollow, Can

\* A Deployment that goes on, or fails, changes neither candidates nor targets.
LEMMA MovesKeepReleases ==
    ASSUME ReleaseInvariant, NEW a \in Applications,
           StatusMoves(a) \/ UNCHANGED status,
           UNCHANGED <<owner, release, finished, active>>
    PROVE  ReleasesFollow(a)'
<1>1. \A d \in Deployments :
        /\ status'[d] \in NonTerminal => status[d] \in NonTerminal
        /\ status'[d] = "succeeded" <=> status[d] = "succeeded"
  BY DEF StatusMoves, NonTerminal, ReleaseInvariant, RuntimeInvariant, Invariant, TypeOK
<1>2. ReleasesFollow(a)
  BY DEF ReleaseInvariant, ReleasesAreOrdered
<1>3. OneCandidate(a)'
  BY <1>1, <1>2 DEF ReleasesFollow, OneCandidate
<1>4. ~Can("same_second") => LatestIsActive(a)' /\ CandidateChanges(a)'
  BY <1>1, <1>2 DEF ReleasesFollow, LatestIsActive, CandidateChanges, Can
<1>5. RollbackTargets(a)' = RollbackTargets(a)
  BY <1>1 DEF RollbackTargets, Owned
<1>6. ~Can("same_second") => TargetChanges(a)'
  BY <1>2, <1>5 DEF ReleasesFollow, TargetChanges, Can
<1> QED BY <1>3, <1>4, <1>6 DEF ReleasesFollow, Can

\* The candidate succeeds later than all others; the target of a rollback is
\* then the predecessor, whose Release is another.
LEMMA PromotionReleases ==
    ASSUME ReleaseInvariant, NEW a \in Applications, Promotes(a)
    PROVE  ReleasesFollow(a)'
<1> USE DEF ReleaseInvariant, ReleasesAreOrdered, RuntimeInvariant, Invariant, TypeOK
<1>1. PICK d \in Deployments : owner[d] = a /\ PromotionRows(a, d)
  BY CandidateFacts DEF Promotes, CandidateSteps, WithUnit
<1>2. /\ status[d] \in NonTerminal /\ active[a] # d /\ UNCHANGED <<owner, release>>
      /\ active'[a] = d /\ status'[d] = "succeeded" /\ finished'[d] \in FinishTimes(a)
      /\ \A e \in Deployments :
           e # d => status'[e] = status[e] /\ finished'[e] = finished[e]
  BY <1>1, PromotionWrites
<1>3. ReleasesFollow(a) /\ ActiveIsRunning(a)
  BY DEF RuntimesFollow
<1>4. \A e \in Deployments : owner[e] = a /\ status'[e] \in NonTerminal => FALSE
  BY <1>1, <1>2, <1>3 DEF ReleasesFollow, OneCandidate, NonTerminal
<1>5. OneCandidate(a)' /\ CandidateChanges(a)'
  BY <1>2, <1>4 DEF OneCandidate, CandidateChanges
<1>6. CASE ~Can("same_second")
  <2>1. \A e \in Deployments : owner[e] = a /\ e # d => finished'[e] < finished'[d]
    BY <1>2, <1>6 DEF FinishTimes, Owned, Can
  <2>2. LatestIsActive(a)'
    BY <1>2, <2>1, NoneAssumption DEF LatestIsActive
  <2>3. ASSUME NEW target \in RollbackTargets(a)'
        PROVE  release[target] # release[d]
    <3>1. /\ target \in Deployments /\ owner[target] = a /\ target # d
          /\ status[target] = "succeeded"
          /\ \A e \in Deployments :
               owner[e] = a /\ status'[e] = "succeeded" /\ e # d =>
                   finished'[e] <= finished'[target]
      BY <1>2, <2>3 DEF RollbackTargets, Owned
    <3>2. /\ active[a] # None
          /\ target # active[a] => finished[target] < finished[active[a]]
      BY <1>3, <1>6, <3>1 DEF ReleasesFollow, LatestIsActive
    <3>3. active[a] \in Deployments /\ owner[active[a]] = a
          /\ status[active[a]] = "succeeded"
      BY <1>3, <3>2 DEF ActiveIsRunning
    <3>4. target = active[a]
      <4>1. finished[active[a]] <= finished[target]
        BY <1>2, <3>1, <3>3
      <4>2. finished[active[a]] \in Nat /\ finished[target] \in Nat
        BY <3>1, <3>3
      <4> QED BY <3>2, <4>1, <4>2
    <3> QED BY <1>1, <1>2, <1>3, <1>6, <3>2, <3>4 DEF ReleasesFollow, CandidateChanges
  <2>4. TargetChanges(a)'
    BY <1>2, <2>3 DEF TargetChanges
  <2> QED BY <1>5, <2>2, <2>4 DEF ReleasesFollow
<1> QED BY <1>5, <1>6 DEF ReleasesFollow, Can

\* A request creates the only candidate: a deploy is refused for the active
\* Release, and the target of a rollback has another.
LEMMA RequestReleases ==
    ASSUME ReleaseInvariant, NEW a \in Applications, Request(a)
    PROVE  ReleasesFollow(a)'
<1> USE DEF ReleaseInvariant, ReleasesAreOrdered, RuntimeInvariant, Invariant, TypeOK
<1>1. ReleasesFollow(a) /\ ActiveIsRunning(a)
  BY DEF RuntimesFollow
<1>2. PICK d \in Deployments, r \in Releases \cup {None} :
        /\ CreateDeployment(a, d, r)
        /\ ~Can("same_second") /\ active[a] # None => r # release[active[a]]
  <2>1. CASE \E d \in Deployments : \E r \in Releases : Deploy(a, d, r)
    <3>1. PICK d \in Deployments, r \in Releases : Deploy(a, d, r)
      BY <2>1
    <3>2. active[a] # None => r # release[active[a]]
      BY <1>1, <3>1, NoneAssumption DEF Deploy, ReleaseIsActive, Owned, ActiveIsRunning
    <3> QED BY <3>1, <3>2 DEF Deploy
  <2>2. CASE \E d \in Deployments : Rollback(a, d)
    <3>1. PICK d \in Deployments, target \in RollbackTargets(a) :
            CreateDeployment(a, d, release[target])
      BY <2>2 DEF Rollback
    <3>2. target \in Deployments
      BY DEF RollbackTargets, Owned
    <3>3. ~Can("same_second") /\ active[a] # None =>
            release[target] # release[active[a]]
      BY <1>1 DEF ReleasesFollow, TargetChanges
    <3> QED BY <3>1, <3>2, <3>3
  <2> QED BY <2>1, <2>2 DEF Request
<1>3. /\ status[d] = "none" /\ Blocking(a) = {} /\ UNCHANGED <<finished, active>>
      /\ status'[d] = "pending" /\ owner'[d] = a /\ release'[d] = r /\ owner[d] = None
      /\ \A e \in Deployments :
           e # d => /\ status'[e] = status[e] /\ owner'[e] = owner[e]
                    /\ release'[e] = release[e]
  BY <1>2 DEF CreateDeployment, PortInvariant, UnbornIsClean
<1>4. active[a] # None => active[a] \in Deployments /\ active[a] # d
  BY <1>1, <1>3, NoneAssumption DEF ActiveIsRunning
<1>5. \A e \in Deployments : e # d /\ owner'[e] = a => status'[e] \notin NonTerminal
  BY <1>3 DEF Blocking, Owned
<1>6. OneCandidate(a)'
  BY <1>5 DEF OneCandidate
<1>7. ~Can("same_second") => CandidateChanges(a)'
  BY <1>2, <1>3, <1>4, <1>5 DEF CandidateChanges
<1>8. ~Can("same_second") => LatestIsActive(a)'
  BY <1>1, <1>3 DEF ReleasesFollow, LatestIsActive
<1>9. RollbackTargets(a)' = RollbackTargets(a) /\ d \notin RollbackTargets(a)
  BY <1>3 DEF RollbackTargets, Owned
<1>10. ~Can("same_second") => TargetChanges(a)'
  BY <1>1, <1>3, <1>4, <1>9 DEF ReleasesFollow, TargetChanges, RollbackTargets, Owned
<1> QED BY <1>6, <1>7, <1>8, <1>10 DEF ReleasesFollow, Can

\* Every step keeps the order of releases.
LEMMA StepReleases ==
    ASSUME ReleaseInvariant, [Next]_vars
    PROVE  ReleasesAreOrdered'
<1>1. ASSUME NEW a \in Applications,
             Request(a) \/ Command(a) \/ Reconcile(a) \/ Crash(a)
      PROVE  ReleasesAreOrdered'
  <2>1. ReleasesFollow(a)'
    BY <1>1, RequestReleases, MovesKeepReleases, PromotionReleases, RowSteps
       DEF ReleaseInvariant, ReleasesAreOrdered, RuntimeInvariant
  <2> QED
    BY <1>1, <2>1, CommandIsLocal, OtherReleases
       DEF ReleaseInvariant, ReleasesAreOrdered, RuntimeInvariant
<1>2. CASE (\E d \in Deployments : RestartContainer(d)) \/ Reboot \/ UNCHANGED vars
  <2>1. UNCHANGED <<status, owner, release, finished, active>>
    BY <1>2 DEF RestartContainer, Reboot, vars, deploymentRows
  <2> QED BY <2>1, MovesKeepReleases DEF ReleasesAreOrdered
<1> QED BY <1>1, <1>2 DEF Next

\* An Application has one candidate at most and, unless two of its Deployments
\* succeed within one clock second, its successes are ordered.
THEOREM ReleaseInvariantHolds == Spec => []ReleaseInvariant
<1>1. Init => ReleasesAreOrdered
  BY NoneAssumption
     DEF Init, ReleasesAreOrdered, ReleasesFollow, OneCandidate, LatestIsActive,
         CandidateChanges, TargetChanges
<1>2. ReleaseInvariant /\ [Next]_vars => ReleasesAreOrdered'
  BY StepReleases
<1> QED
  BY <1>1, <1>2, RuntimeInvariantHolds, PTL DEF Spec, ReleaseInvariant

\* Rolling back never lands on the Release that already runs, as long as no two
\* Deployments of an Application succeed within one clock second.
THEOREM RollbackAlwaysChangesRelease ==
    ASSUME ~Can("same_second")
    PROVE  Spec => []RollbackChangesRelease
<1>1. ReleaseInvariant => RollbackChangesRelease
  BY DEF ReleaseInvariant, ReleasesAreOrdered, ReleasesFollow, TargetChanges,
         RollbackChangesRelease
<1> QED BY <1>1, ReleaseInvariantHolds, PTL

===============================================================================
