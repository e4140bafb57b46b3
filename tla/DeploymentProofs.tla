--------------------------- MODULE DeploymentProofs ---------------------------
(***************************************************************************)
(* Proofs about Deployment for every set of Applications, Deployments and  *)
(* Releases, every port range and every combination of failures: every     *)
(* variable keeps its type, and no two units publish one port.             *)
(*                                                                         *)
(* PortsExclusive is not inductive.  It holds because a unit publishes a   *)
(* port that its Deployment holds in the database (UnitHoldsItsPort) and a *)
(* port is held once (HeldOnce); and a port is given back only when the    *)
(* unit is gone, which needs what a command knows of its unit at each step *)
(* (UnitIsTracked) and that no other command works on it (OpOwnsItsWork).  *)
(***************************************************************************)
EXTENDS Deployment, TLAPS

-------------------------------------------------------------------------------
(* The inductive invariant *)

RetirementSteps == {"retire", "retire_remove", "retire_prove", "retire_mark"}

\* Steps of a command whose unit file is not written yet.
BeforeUnit == {"start", "reserve", "write"}

\* Steps of a command that would remove its unit if it failed now.
WithUnit ==
    {"launch", "resolve", "register", "consume", "verify", "health", "route",
     "materialize", "validate", "external", "restore", "reload",
     "record_failed", "record_diverged"}

CandidateSteps ==
    BeforeUnit \cup WithUnit \cup
    {"fail", "cleanup", "remove", "prove", "tombstone", "release", "settle"}

\* A command of a that stands as o says works on Deployments of a only.
Owns(a, o) ==
    /\ o.step \in CandidateSteps => o.dep \in Deployments /\ owner[o.dep] = a
    /\ o.step \in RetirementSteps => o.prev \in Deployments
    /\ o.prev # None => owner[o.prev] = a

\* What a command knows of its unit, and so what a cleanup that does not hold
\* the unit may assume when it gives the port back.
Tracks(o) ==
    /\ o.step \in BeforeUnit => unit[o.dep] = 0 /\ endpoint[o.dep] = 0
    /\ o.step \in WithUnit => "unit" \in o.held
    /\ o.step \in {"fail", "cleanup"} /\ "unit" \notin o.held => unit[o.dep] = 0
    /\ o.step \in {"prove", "tombstone", "release"} => unit[o.dep] = 0
    /\ o.step = "consume" => unit[o.dep] = endpoint[o.dep]
    /\ o.step \in {"retire_prove", "retire_mark"} => unit[o.prev] = 0

OpOwnsItsWork == \A a \in Applications : Owns(a, op[a])
UnitIsTracked == \A a \in Applications : Tracks(op[a])

\* An unborn Deployment belongs to nobody, and has no unit and no port.
UnbornIsClean ==
    \A d \in Deployments :
        status[d] = "none" => owner[d] = None /\ unit[d] = 0 /\ endpoint[d] = 0

\* A unit publishes a port that its Deployment still holds in the database.
UnitHoldsItsPort ==
    \A d \in Deployments : unit[d] # 0 => unit[d] \in {reservation[d], endpoint[d]}

\* The endpoint of a runtime row is the port of its unit while that is on disk.
EndpointIsPublished ==
    \A d \in Deployments : endpoint[d] # 0 => unit[d] \in {0, endpoint[d]}

\* No port is held by two Deployments.
HeldOnce ==
    \A d, e \in Deployments : d # e =>
        /\ reservation[d] # 0 => reservation[d] \notin {reservation[e], endpoint[e]}
        /\ endpoint[d] # 0 => endpoint[d] # endpoint[e]

PortInvariant ==
    /\ OpOwnsItsWork /\ UnitIsTracked /\ UnbornIsClean
    /\ UnitHoldsItsPort /\ EndpointIsPublished /\ HeldOnce

Invariant == TypeOK /\ PortInvariant

-------------------------------------------------------------------------------
(* Type correctness *)

\* A transition yields a status of a row that exists and is under way, or is illegal.
LEMMA TransitionType ==
    \A from, event :
        Transition(from, event) \in (Statuses \ {"none", "pending"}) \cup {"illegal"}
  BY DEF Transition, Statuses, Terminal, NonTerminal

\* The idle record is a record of a command.
LEMMA IdleType == Idle \in Operations
  BY DEF Operations, Idle, Steps, PortOrNone

\* A command goes on to any record of its type.
LEMMA MoveType ==
    ASSUME op \in [Applications -> Operations], NEW a \in Applications,
           NEW next \in Operations, op' = [op EXCEPT ![a] = next]
    PROVE  op' \in [Applications -> Operations]
  OBVIOUS

\* A command goes on to another step of the code.
LEMMA GotoType ==
    ASSUME op \in [Applications -> Operations], NEW a \in Applications,
           NEW step \in Steps, Goto(a, step)
    PROVE  op' \in [Applications -> Operations]
  BY DEF Goto, Operations

\* A command ends.
LEMMA EndType ==
    ASSUME op \in [Applications -> Operations], NEW a \in Applications, End(a)
    PROVE  op' \in [Applications -> Operations]
  BY IdleType DEF End

\* A command holds one more of the four resources.
LEMMA HoldType ==
    ASSUME op \in [Applications -> Operations], NEW a \in Applications,
           NEW step \in Steps, NEW resource \in Resources, Hold(a, resource, step)
    PROVE  op' \in [Applications -> Operations]
  BY DEF Hold, Operations

\* The step names, one fact for the leaves below.
LEMMA StepNames ==
    /\ "idle" \in Steps /\ "start" \in Steps /\ "reserve" \in Steps
    /\ "write" \in Steps /\ "launch" \in Steps /\ "resolve" \in Steps
    /\ "register" \in Steps /\ "consume" \in Steps /\ "verify" \in Steps
    /\ "health" \in Steps /\ "route" \in Steps /\ "materialize" \in Steps
    /\ "validate" \in Steps /\ "external" \in Steps /\ "restore" \in Steps
    /\ "reload" \in Steps /\ "record_failed" \in Steps
    /\ "record_diverged" \in Steps /\ "fail" \in Steps /\ "cleanup" \in Steps
    /\ "remove" \in Steps /\ "prove" \in Steps /\ "tombstone" \in Steps
    /\ "release" \in Steps /\ "retire" \in Steps /\ "retire_remove" \in Steps
    /\ "retire_prove" \in Steps /\ "retire_mark" \in Steps /\ "settle" \in Steps
  BY DEF Steps

\* An empty database on an empty host.
LEMMA InitType == Init => TypeOK
  BY IdleType
     DEF Init, TypeOK, Statuses, RuntimeStates, ExposureStates, PortOrNone, Routes,
         NoRoute

\* A command at a step of the candidate has one of its Application's Deployments.
LEMMA CandidateDep ==
    ASSUME OpOwnsItsWork, NEW a \in Applications, op[a].step \in CandidateSteps
    PROVE  Dep(a) \in Deployments /\ owner[Dep(a)] = a
  BY DEF OpOwnsItsWork, Owns, Dep

\* deploy and rollback differ only in the Release of the row they create.
LEMMA RequestCreates ==
    ASSUME TypeOK, NEW a \in Applications, Request(a)
    PROVE  \E d \in Deployments, r \in Releases \cup {None} : CreateDeployment(a, d, r)
<1>1. CASE \E d \in Deployments : \E r \in Releases : Deploy(a, d, r)
  BY <1>1 DEF Deploy
<1>2. CASE \E d \in Deployments : Rollback(a, d)
  BY <1>2 DEF Rollback, RollbackTargets, Owned, TypeOK
<1> QED BY <1>1, <1>2 DEF Request

\* The request of a deploy or rollback keeps the types.
LEMMA RequestType ==
    ASSUME TypeOK, NEW a \in Applications, Request(a)
    PROVE  TypeOK'
<1>1. PICK d \in Deployments, r \in Releases \cup {None} : CreateDeployment(a, d, r)
  BY RequestCreates
<1>2. op' = [op EXCEPT ![a] = [op[a] EXCEPT !.step = "start", !.dep = d]]
  BY <1>1 DEF CreateDeployment
<1>3. op[a] \in Operations
  BY DEF TypeOK
<1>4. [op[a] EXCEPT !.step = "start", !.dep = d] \in Operations
  BY <1>3, StepNames DEF Operations
<1>5. op' \in [Applications -> Operations]
  BY <1>2, <1>4, MoveType DEF TypeOK
<1> QED
  BY <1>1, <1>5 DEF CreateDeployment, TypeOK, runtimeRows, exposureRows, podman, caddy,
                    Statuses, NonTerminal
\* The steps of start_candidate keep the types.
LEMMA CandidateType ==
    ASSUME TypeOK, NEW a \in Applications,
           \/ StartCandidate(a) \/ ReservePort(a) \/ PortsExhausted(a) \/ WriteUnit(a)
           \/ LaunchUnit(a) \/ ResolveContainer(a) \/ RegisterCandidate(a)
           \/ ConsumeReservation(a) \/ MarkVerifying(a) \/ CandidateStepFails(a)
           \/ CommandFailsSilently(a)
    PROVE  TypeOK'
<1> USE DEF TypeOK, At, Dep, deploymentRows, runtimeRows, exposureRows, podman, caddy,
            PortOrNone
<1>1. Resources = {"port", "unit", "container", "runtime"}
  BY DEF Resources
<1>2. CASE StartCandidate(a)
  BY <1>2, StepNames, GotoType, TransitionType DEF StartCandidate, Advance
<1>3. CASE ReservePort(a)
  BY <1>3, StepNames, <1>1, HoldType DEF ReservePort
<1>4. CASE PortsExhausted(a)
  BY <1>4, StepNames, GotoType DEF PortsExhausted
<1>5. CASE WriteUnit(a)
  BY <1>5, StepNames, <1>1, HoldType DEF WriteUnit
<1>6. CASE LaunchUnit(a)
  BY <1>6, StepNames, GotoType DEF LaunchUnit
<1>7. CASE ResolveContainer(a)
  BY <1>7, StepNames, <1>1, HoldType DEF ResolveContainer
<1>8. CASE RegisterCandidate(a)
  BY <1>8, StepNames, <1>1, HoldType DEF RegisterCandidate, RuntimeStates
<1>9. CASE ConsumeReservation(a)
  BY <1>9, StepNames, GotoType DEF ConsumeReservation
<1>10. CASE MarkVerifying(a)
  <2>1. PICK p \in Deployments \cup {None} :
          op' = [op EXCEPT ![a] = [op[a] EXCEPT !.step = "health", !.prev = p]]
    BY ZenonT(60), <1>10 DEF MarkVerifying, Previous, Owned
  <2>2. op[a] \in Operations
    OBVIOUS
  <2>3. [op[a] EXCEPT !.step = "health", !.prev = p] \in Operations
    BY <2>2, StepNames DEF Operations
  <2>4. op' \in [Applications -> Operations]
    BY <2>1, <2>3, MoveType
  <2> QED BY <1>10, <2>4, TransitionType DEF MarkVerifying
<1>11. CASE CandidateStepFails(a)
  BY <1>11, StepNames, GotoType DEF CandidateStepFails
<1>12. CASE CommandFailsSilently(a)
  BY <1>12, StepNames, GotoType DEF CommandFailsSilently
<1> QED
  BY <1>2, <1>3, <1>4, <1>5, <1>6, <1>7, <1>8, <1>9, <1>10, <1>11, <1>12

\* The promotion transaction keeps the types of the rows it writes.
LEMMA PromotionType ==
    ASSUME TypeOK, NEW a \in Applications, NEW d \in Deployments, PromotionRows(a, d)
    PROVE  /\ status' \in [Deployments -> Statuses]
           /\ runtime' \in [Deployments -> RuntimeStates]
           /\ active' \in [Applications -> Deployments \cup {None}]
           /\ finished' \in [Deployments -> Nat]
           /\ UNCHANGED <<owner, release, endpoint, reservation>>
<1>1. \A t \in FinishTimes(a) : t \in Nat
  BY DEF FinishTimes, Owned, TypeOK
<1> QED
  BY <1>1, TransitionType DEF PromotionRows, TypeOK, RuntimeStates

\* Retirement, return or compensation after the promotion is a record of a command.
LEMMA AfterPromotionType ==
    ASSUME op \in [Applications -> Operations], NEW a \in Applications,
           NEW compensation \in Steps, AfterPromotion(a, compensation)
    PROVE  op' \in [Applications -> Operations]
<1>1. CASE Goto(a, compensation)
  BY <1>1, GotoType
<1>2. CASE op' = [op EXCEPT ![a] =
                    IF @.prev = None THEN Idle
                    ELSE [Idle EXCEPT !.step = "retire", !.prev = op[a].prev]]
  BY <1>2 DEF Idle, Operations, Steps, PortOrNone
<1> QED BY <1>1, <1>2 DEF AfterPromotion

\* Promotion and public activation keep the types.
LEMMA ActivationType ==
    ASSUME TypeOK, OpOwnsItsWork, NEW a \in Applications,
           \/ PromoteInternal(a) \/ InternalUnhealthy(a) \/ PublicUnhealthy(a)
           \/ MarkActivating(a) \/ BeginPublicExposure(a) \/ ReplaceFragment(a)
           \/ ReplaceFragmentFails(a) \/ ValidationFails(a) \/ ReloadCaddy(a)
           \/ ReloadFails(a) \/ PromotePublic(a) \/ RejectPublicCandidate(a)
           \/ RestoreFragment(a) \/ ReloadRestored(a) \/ RecordFailedExposure(a)
           \/ RecordDivergedExposure(a)
    PROVE  TypeOK'
<1> USE DEF TypeOK, At, Dep, deploymentRows, runtimeRows, exposureRows, podman, caddy
<1>1. CASE PromoteInternal(a)
  <2>1. Dep(a) \in Deployments
    BY <1>1, CandidateDep DEF PromoteInternal, CandidateSteps, WithUnit
  <2> QED
    BY <1>1, StepNames, <2>1, PromotionType, AfterPromotionType DEF PromoteInternal
<1>2. CASE InternalUnhealthy(a)
  BY <1>2, StepNames, GotoType, TransitionType DEF InternalUnhealthy, Advance
<1>3. CASE PublicUnhealthy(a)
  BY <1>3, StepNames, GotoType DEF PublicUnhealthy
<1>4. CASE MarkActivating(a)
  BY <1>4, StepNames, GotoType, TransitionType DEF MarkActivating, Advance
<1>5. CASE BeginPublicExposure(a)
  BY <1>5, StepNames, GotoType DEF BeginPublicExposure, ExposureStates
<1>6. CASE ReplaceFragment(a)
  <2>1. op' = [op EXCEPT ![a] = [op[a] EXCEPT !.step = "validate", !.saved = fragment[a]]]
    BY <1>6 DEF ReplaceFragment
  <2>2. op[a] \in Operations /\ fragment[a] \in PortOrNone
    OBVIOUS
  <2>3. [op[a] EXCEPT !.step = "validate", !.saved = fragment[a]] \in Operations
    BY <2>2, StepNames DEF Operations
  <2>4. op' \in [Applications -> Operations]
    BY <2>1, <2>3, MoveType
  <2>5. Dep(a) \in Deployments
    BY <1>6, CandidateDep DEF ReplaceFragment, CandidateSteps, WithUnit
  <2> QED BY <1>6, <2>4, <2>5 DEF ReplaceFragment
<1>7. CASE ReplaceFragmentFails(a)
  BY <1>7, StepNames, GotoType DEF ReplaceFragmentFails
<1>8. CASE ValidationFails(a)
  BY <1>8, StepNames, GotoType DEF ValidationFails, Operations
<1>9. CASE ReloadCaddy(a)
  BY <1>9, StepNames, GotoType DEF ReloadCaddy
<1>10. CASE ReloadFails(a)
  BY <1>10, StepNames, GotoType DEF ReloadFails
<1>11. CASE PromotePublic(a)
  <2>1. Dep(a) \in Deployments
    BY <1>11, CandidateDep DEF PromotePublic, CandidateSteps, WithUnit
  <2>2. confirmed' \in [Applications -> Routes]
    BY <1>11, <2>1 DEF PromotePublic, Routes
  <2>3. exposure' \in [Applications -> ExposureStates]
    BY <1>11 DEF PromotePublic, ExposureStates
  <2> QED
    BY <1>11, StepNames, <2>1, <2>2, <2>3, PromotionType, AfterPromotionType
       DEF PromotePublic
<1>12. CASE RejectPublicCandidate(a)
  BY <1>12, StepNames, GotoType DEF RejectPublicCandidate
<1>13. CASE RestoreFragment(a)
  BY <1>13, StepNames, GotoType DEF RestoreFragment, Operations
<1>14. CASE ReloadRestored(a)
  BY <1>14, StepNames, GotoType DEF ReloadRestored
<1>15. CASE RecordFailedExposure(a)
  BY <1>15, StepNames, GotoType, EndType
     DEF RecordFailedExposure, RecordExposureFailure, ExposureStates
<1>16. CASE RecordDivergedExposure(a)
  BY <1>16, StepNames, GotoType, EndType
     DEF RecordDivergedExposure, RecordExposureFailure, ExposureStates
<1> QED
  BY <1>1, <1>2, <1>3, <1>4, <1>5, <1>6, <1>7, <1>8, <1>9, <1>10, <1>11, <1>12, <1>13,
     <1>14, <1>15, <1>16

\* Failure, cleanup, retirement and the end of a recovery keep the types.
LEMMA CompensationType ==
    ASSUME TypeOK, NEW a \in Applications,
           \/ FailDeployment(a) \/ KeepPromoted(a) \/ StopCandidate(a)
           \/ NothingToStop(a) \/ RemoveCandidateUnit(a) \/ ProveCandidateRemoved(a)
           \/ TombstoneCandidate(a) \/ ReleasePort(a) \/ CompensationFails(a)
           \/ RetireStop(a) \/ RetireUnit(a) \/ ProvePreviousRemoved(a)
           \/ RetireRuntime(a) \/ SettleExposure(a)
    PROVE  TypeOK'
<1> USE DEF TypeOK, At, Dep, deploymentRows, runtimeRows, exposureRows, podman, caddy,
            PortOrNone
<1>1. CASE FailDeployment(a)
  BY <1>1, StepNames, GotoType, EndType, TransitionType DEF FailDeployment, AfterFailure
<1>2. CASE KeepPromoted(a)
  BY <1>2, EndType DEF KeepPromoted
<1>3. CASE StopCandidate(a)
  BY <1>3, StepNames, GotoType DEF StopCandidate, StopUnit
<1>4. CASE NothingToStop(a)
  BY <1>4, StepNames, GotoType DEF NothingToStop
<1>5. CASE RemoveCandidateUnit(a)
  BY <1>5, StepNames, GotoType, EndType DEF RemoveCandidateUnit, RemoveUnit
<1>6. CASE TombstoneCandidate(a)
  BY <1>6, StepNames, GotoType DEF TombstoneCandidate
<1>7. CASE ProveCandidateRemoved(a) \/ ProvePreviousRemoved(a)
  BY <1>7, StepNames, GotoType
     DEF ProveCandidateRemoved, ProvePreviousRemoved, ProveRemoved
<1>8. CASE ReleasePort(a)
  BY <1>8, EndType DEF ReleasePort
<1>9. CASE CompensationFails(a)
  BY <1>9, EndType DEF CompensationFails
<1>10. CASE RetireStop(a)
  BY <1>10, StepNames, GotoType DEF RetireStop, StopUnit
<1>11. CASE RetireUnit(a)
  BY <1>11, StepNames, GotoType, EndType DEF RetireUnit, RemoveUnit
<1>12. CASE RetireRuntime(a)
  BY <1>12, EndType DEF RetireRuntime
<1>13. CASE SettleExposure(a)
  BY <1>13, EndType DEF SettleExposure, ExposureStates
<1> QED
  BY <1>1, <1>2, <1>3, <1>4, <1>5, <1>6, <1>7, <1>8, <1>9, <1>10, <1>11, <1>12, <1>13

\* What a recovery of d may go on with.
RecoveryOps(d) ==
    {Idle, [Idle EXCEPT !.step = "settle", !.dep = d]} \cup
    (IF endpoint[d] = 0 THEN {}
     ELSE {[Idle EXCEPT !.step = "cleanup", !.dep = d,
                        !.held = Proven(d) \cup {"runtime"}]})

\* Whatever recovery goes on with, it first fails the interrupted Deployment.
LEMMA ReconcileRecovers ==
    ASSUME TypeOK, NEW a \in Applications, Reconcile(a)
    PROVE  \E d \in Deployments :
             /\ owner[d] = a /\ status[d] \in NonTerminal
             /\ \E next \in RecoveryOps(d) : Recover(a, d, NonTerminal, next)
  BY DEF Reconcile, RecoverPending, RecoverUnproven, RecoverCandidate,
         RecoverActivation, Recover, Blocking, Owned, RecoveryOps

\* What a recovery goes on with is a record of a command.
LEMMA RecoveryOpsType ==
    ASSUME NEW d \in Deployments
    PROVE  RecoveryOps(d) \subseteq Operations
<1>1. Proven(d) \cup {"runtime"} \subseteq Resources
  BY DEF Proven, Resources
<1>2. [Idle EXCEPT !.step = "settle", !.dep = d] \in Operations
  BY IdleType, StepNames DEF Operations
<1>3. [Idle EXCEPT !.step = "cleanup", !.dep = d, !.held = Proven(d) \cup {"runtime"}]
        \in Operations
  BY <1>1, IdleType, StepNames DEF Operations
<1> QED BY <1>2, <1>3, IdleType DEF RecoveryOps

\* The recovery of an interrupted Deployment keeps the types.
LEMMA ReconcileType ==
    ASSUME TypeOK, NEW a \in Applications, Reconcile(a)
    PROVE  TypeOK'
<1>1. PICK d \in Deployments :
        /\ owner[d] = a /\ status[d] \in NonTerminal
        /\ \E next \in RecoveryOps(d) : Recover(a, d, NonTerminal, next)
  BY ReconcileRecovers
<1>2. PICK next \in RecoveryOps(d) : Recover(a, d, NonTerminal, next)
  BY <1>1
<1>3. next \in Operations
  BY <1>2, RecoveryOpsType
<1>4. Transition(status[d], "fail") = "failed"
  BY <1>1 DEF Transition, NonTerminal
<1> QED
  BY <1>2, <1>3, <1>4
     DEF Recover, TypeOK, runtimeRows, exposureRows, podman, caddy, Statuses, Terminal

\* A crash, a reboot and a recreated container keep the types.
LEMMA EnvironmentType ==
    ASSUME TypeOK,
           \/ \E a \in Applications : Crash(a)
           \/ \E d \in Deployments : RestartContainer(d)
           \/ Reboot
    PROVE  TypeOK'
<1> USE DEF TypeOK, deploymentRows, runtimeRows, exposureRows, podman, caddy
<1>1. CASE \E a \in Applications : Crash(a)
  BY <1>1, EndType DEF Crash
<1>2. CASE \E d \in Deployments : RestartContainer(d)
  BY <1>2 DEF RestartContainer
<1>3. CASE Reboot
  BY <1>3, IdleType DEF Reboot
<1> QED BY <1>1, <1>2, <1>3

\* Every step keeps the types, given that commands work on their own Deployments.
LEMMA StepType ==
    ASSUME TypeOK, OpOwnsItsWork, [Next]_vars
    PROVE  TypeOK'
<1>1. CASE \E a \in Applications : Request(a)
  BY <1>1, RequestType
<1>2. CASE \E a \in Applications : Command(a)
  BY <1>2, CandidateType, ActivationType, CompensationType DEF Command
<1>3. CASE \E a \in Applications : Reconcile(a)
  BY <1>3, ReconcileType
<1>4. CASE \/ \E a \in Applications : Crash(a)
           \/ \E d \in Deployments : RestartContainer(d)
           \/ Reboot
  BY <1>4, EnvironmentType
<1>5. CASE UNCHANGED vars
  BY <1>5 DEF vars, TypeOK, deploymentRows, runtimeRows, exposureRows, podman, caddy
<1> QED BY <1>1, <1>2, <1>3, <1>4, <1>5 DEF Next


-------------------------------------------------------------------------------
(* Ports *)

\* Nothing is held and nothing runs at first.
LEMMA InitPorts == Init => PortInvariant
  BY DEF Init, PortInvariant, OpOwnsItsWork, Owns, UnitIsTracked, Tracks, UnbornIsClean,
         UnitHoldsItsPort, EndpointIsPublished, HeldOnce, Idle, CandidateSteps,
         RetirementSteps, BeforeUnit,
         WithUnit

\* A command of a that touches only Deployments of a disturbs no other command.
LEMMA OthersUndisturbed ==
    ASSUME Invariant, NEW a \in Applications, NEW next \in Operations,
           op' = [op EXCEPT ![a] = next], UNCHANGED owner,
           Owns(a, next), Tracks(next)',
           \A e \in Deployments :
               owner[e] # a => unit'[e] = unit[e] /\ endpoint'[e] = endpoint[e]
    PROVE  OpOwnsItsWork' /\ UnitIsTracked'
<1>1. op'[a] = next /\ \A b \in Applications : b # a => op'[b] = op[b]
  BY DEF Invariant, TypeOK
<1>2. \A b \in Applications : Owns(b, op'[b])
  BY <1>1 DEF Invariant, PortInvariant, OpOwnsItsWork
<1>3. OpOwnsItsWork'
  BY <1>2 DEF OpOwnsItsWork, Owns
<1>4. ASSUME NEW b \in Applications, b # a
      PROVE  Tracks(op[b])'
  <2>1. Owns(b, op[b]) /\ Tracks(op[b]) /\ op'[b] = op[b]
    BY <1>1, <1>4 DEF Invariant, PortInvariant, OpOwnsItsWork, UnitIsTracked
  <2>2. op[b].step \in CandidateSteps =>
          unit'[op[b].dep] = unit[op[b].dep] /\ endpoint'[op[b].dep] = endpoint[op[b].dep]
    BY <1>4, <2>1 DEF Owns
  <2>3. op[b].step \in RetirementSteps => unit'[op[b].prev] = unit[op[b].prev]
    BY <1>4, <2>1, NoneAssumption DEF Owns
  <2> QED
    BY <2>1, <2>2, <2>3 DEF Tracks, CandidateSteps, RetirementSteps, BeforeUnit, WithUnit
<1>5. UnitIsTracked'
  BY <1>1, <1>4 DEF UnitIsTracked
<1> QED BY <1>3, <1>5

\* A command goes on to `next`; only the status of born Deployments changes.
LEMMA CommandMoves ==
    ASSUME Invariant, NEW a \in Applications, NEW next \in Operations,
           op' = [op EXCEPT ![a] = next], Owns(a, next), Tracks(next),
           \A d \in Deployments : status'[d] = "none" => status[d] = "none",
           UNCHANGED <<owner, endpoint, reservation, unit>>
    PROVE  PortInvariant'
<1>1. Tracks(next)'
  BY DEF Tracks
<1>2. OpOwnsItsWork' /\ UnitIsTracked'
  BY <1>1, OthersUndisturbed
<1>3. UnbornIsClean' /\ UnitHoldsItsPort' /\ EndpointIsPublished' /\ HeldOnce'
  BY DEF Invariant, PortInvariant, UnbornIsClean, UnitHoldsItsPort, EndpointIsPublished,
         HeldOnce
<1> QED BY <1>2, <1>3 DEF PortInvariant

\* An idle command owns nothing and knows nothing.
LEMMA IdleOwns == \A a \in Applications : Owns(a, Idle) /\ Tracks(Idle)
  BY DEF Owns, Tracks, Idle, CandidateSteps, RetirementSteps, BeforeUnit, WithUnit

\* A command ends where it stands.
LEMMA CommandEnds ==
    ASSUME Invariant, NEW a \in Applications, End(a),
           \A d \in Deployments : status'[d] = "none" => status[d] = "none",
           UNCHANGED <<owner, endpoint, reservation, unit>>
    PROVE  PortInvariant'
  BY CommandMoves, IdleType, IdleOwns DEF End

\* Steps from which a command goes on with what it knows of its unit.
Continues(from, to) ==
    \/ from \in BeforeUnit /\ to \in BeforeUnit \cup {"fail"}
    \/ from \in WithUnit   /\ to \in (WithUnit \ {"consume"}) \cup {"fail", "cleanup"}
    \/ from = "fail"       /\ to = "cleanup"
    \/ from = "cleanup"    /\ to = "remove"

\* What a command knows of its unit is still known at the next step.
LEMMA ContinuesTracks ==
    ASSUME Invariant, NEW a \in Applications, NEW next \in Operations,
           Continues(op[a].step, next.step),
           next.dep = op[a].dep, op[a].held \subseteq next.held
    PROVE  Tracks(next)
<1>1. Tracks(op[a])
  BY DEF Invariant, PortInvariant, UnitIsTracked
<1>2. next.step \notin {"consume", "retire_prove", "retire_mark", "prove", "tombstone",
                        "release"}
  BY DEF Continues, BeforeUnit, WithUnit
<1>3. next.step \in BeforeUnit => unit[next.dep] = 0 /\ endpoint[next.dep] = 0
  BY <1>1 DEF Continues, Tracks, BeforeUnit, WithUnit
<1>4. next.step \in WithUnit => "unit" \in next.held
  BY <1>1 DEF Continues, Tracks, BeforeUnit, WithUnit
<1>5. next.step \in {"fail", "cleanup"} /\ "unit" \notin next.held => unit[next.dep] = 0
  BY <1>1 DEF Continues, Tracks, BeforeUnit, WithUnit
<1> QED BY <1>2, <1>3, <1>4, <1>5 DEF Tracks

\* The next step works on the same Deployments.
LEMMA ContinuesOwns ==
    ASSUME Invariant, NEW a \in Applications, NEW next \in Operations,
           Continues(op[a].step, next.step),
           next.dep = op[a].dep, next.prev = op[a].prev
    PROVE  Owns(a, next)
<1>1. Owns(a, op[a])
  BY DEF Invariant, PortInvariant, OpOwnsItsWork
<1>2. op[a].step \in CandidateSteps /\ next.step \notin RetirementSteps
  BY DEF Continues, CandidateSteps, BeforeUnit, WithUnit, RetirementSteps
<1> QED BY <1>1, <1>2 DEF Owns

\* The command of a candidate goes on to a step of which it knows as much.
LEMMA GotoMoves ==
    ASSUME Invariant, NEW a \in Applications, NEW step \in Steps,
           Goto(a, step), Continues(op[a].step, step)
    PROVE  \E next \in Operations :
             op' = [op EXCEPT ![a] = next] /\ Owns(a, next) /\ Tracks(next)
<1> DEFINE next == [op[a] EXCEPT !.step = step]
<1>1. op[a] \in Operations
  BY DEF Invariant, TypeOK
<1>2. /\ next \in Operations
      /\ next.step = step /\ next.dep = op[a].dep /\ next.prev = op[a].prev
      /\ next.held = op[a].held
  BY <1>1 DEF Operations
<1>3. op' = [op EXCEPT ![a] = next]
  BY DEF Goto
<1> HIDE DEF next
<1>4. Owns(a, next) /\ Tracks(next)
  BY <1>2, ContinuesOwns, ContinuesTracks
<1> QED BY <1>2, <1>3, <1>4

\* ... and if only the status of born Deployments changed, the invariant holds.
LEMMA CandidateGoes ==
    ASSUME Invariant, NEW a \in Applications, NEW step \in Steps,
           Goto(a, step), Continues(op[a].step, step),
           \A d \in Deployments : status'[d] = "none" => status[d] = "none",
           UNCHANGED <<owner, endpoint, reservation, unit>>
    PROVE  PortInvariant'
  BY GotoMoves, CommandMoves

\* A born Deployment stays born.
LEMMA StatusAdvances ==
    ASSUME Invariant, NEW d, NEW event,
           Transition(status[d], event) # "illegal",
           status' = [status EXCEPT ![d] = Transition(@, event)]
    PROVE  \A e \in Deployments : status'[e] = "none" => status[e] = "none"
<1>1. Transition(status[d], event) # "none"
  BY TransitionType
<1> QED BY <1>1 DEF Invariant, TypeOK

\* A new Deployment takes an identity that nobody owns and that has no unit.
LEMMA RequestPorts ==
    ASSUME Invariant, NEW a \in Applications, Request(a)
    PROVE  PortInvariant'
<1>1. PICK d \in Deployments, r \in Releases \cup {None} : CreateDeployment(a, d, r)
  BY RequestCreates DEF Invariant
<1> DEFINE next == [op[a] EXCEPT !.step = "start", !.dep = d]
<1>2. /\ op' = [op EXCEPT ![a] = next] /\ owner' = [owner EXCEPT ![d] = a]
      /\ status' = [status EXCEPT ![d] = "pending"] /\ status[d] = "none"
      /\ UNCHANGED <<endpoint, reservation, unit>>
  BY <1>1 DEF CreateDeployment, runtimeRows, podman
<1>3. /\ op[a] \in Operations /\ Owns(a, op[a])
      /\ owner[d] = None /\ unit[d] = 0 /\ endpoint[d] = 0
  BY <1>2 DEF Invariant, TypeOK, PortInvariant, OpOwnsItsWork, UnbornIsClean
<1>4. next.step = "start" /\ next.dep = d /\ next.prev = op[a].prev
  BY <1>3 DEF Operations
<1>5. op'[a] = next /\ \A b \in Applications : b # a => op'[b] = op[b]
  BY <1>2 DEF Invariant, TypeOK
<1> HIDE DEF next
<1>6. owner'[d] = a /\ \A e \in Deployments : e # d => owner'[e] = owner[e]
  BY <1>2 DEF Invariant, TypeOK
<1>7. \A b \in Applications : op[b].prev # None => op[b].prev \in Deployments
  BY DEF Invariant, TypeOK, Operations
<1>8. ASSUME NEW b \in Applications
      PROVE  Owns(b, op[b])'
  <2>1. CASE b = a
    BY <1>3, <1>4, <1>5, <1>6, <1>7, <2>1, NoneAssumption
       DEF Owns, CandidateSteps, RetirementSteps, BeforeUnit, WithUnit
  <2>2. CASE b # a
    <3>1. Owns(b, op[b]) /\ op'[b] = op[b]
      BY <1>5, <2>2 DEF Invariant, PortInvariant, OpOwnsItsWork
    <3> QED BY <1>3, <1>6, <1>7, <3>1, NoneAssumption DEF Owns
  <2> QED BY <2>1, <2>2
<1>9. ASSUME NEW b \in Applications
      PROVE  Tracks(op[b])'
  <2>1. CASE b = a
    BY <1>2, <1>3, <1>4, <1>5, <2>1 DEF Tracks, BeforeUnit, WithUnit
  <2>2. CASE b # a
    BY <1>2, <1>5, <2>2 DEF Invariant, PortInvariant, UnitIsTracked, Tracks
  <2> QED BY <2>1, <2>2
<1>10. OpOwnsItsWork' /\ UnitIsTracked'
  BY <1>8, <1>9 DEF OpOwnsItsWork, UnitIsTracked
<1>11. UnbornIsClean' /\ UnitHoldsItsPort' /\ EndpointIsPublished' /\ HeldOnce'
  BY <1>2, <1>6
     DEF Invariant, TypeOK, PortInvariant, UnbornIsClean, UnitHoldsItsPort,
         EndpointIsPublished, HeldOnce
<1> QED BY <1>10, <1>11 DEF PortInvariant

\* The actions of a candidate that change neither ports nor units.
LEMMA CandidatePorts ==
    ASSUME Invariant, NEW a \in Applications,
           \/ StartCandidate(a) \/ PortsExhausted(a) \/ LaunchUnit(a)
           \/ ResolveContainer(a) \/ MarkVerifying(a) \/ CandidateStepFails(a)
           \/ CommandFailsSilently(a)
    PROVE  PortInvariant'
<1> USE DEF At, Dep, deploymentRows, runtimeRows, podman, Continues, BeforeUnit, WithUnit
<1>1. CASE StartCandidate(a)
  BY <1>1, StepNames, StatusAdvances, CandidateGoes DEF StartCandidate, Advance
<1>2. CASE PortsExhausted(a)
  BY <1>2, StepNames, CandidateGoes DEF PortsExhausted
<1>3. CASE LaunchUnit(a)
  BY <1>3, StepNames, CandidateGoes DEF LaunchUnit
<1>4. CASE ResolveContainer(a)
  <2> DEFINE next == [op[a] EXCEPT !.step = "register", !.held = @ \cup {"container"}]
  <2>1. op[a] \in Operations /\ "container" \in Resources
    BY DEF Invariant, TypeOK, Resources
  <2>2. /\ next \in Operations
        /\ next.step = "register" /\ next.dep = op[a].dep /\ next.prev = op[a].prev
        /\ op[a].held \subseteq next.held
    BY <2>1, StepNames DEF Operations
  <2>3. op' = [op EXCEPT ![a] = next]
    BY <1>4 DEF ResolveContainer, Hold
  <2> HIDE DEF next
  <2>4. Continues(op[a].step, next.step)
    BY <1>4, <2>2 DEF ResolveContainer
  <2>5. Owns(a, next) /\ Tracks(next)
    BY <2>2, <2>4, ContinuesOwns, ContinuesTracks
  <2> QED
    BY <1>4, <2>2, <2>3, <2>5, CommandMoves DEF ResolveContainer
<1>5. CASE MarkVerifying(a)
  <2>1. PICK p \in Previous(a, Dep(a)) \cup {None} :
          op' = [op EXCEPT ![a] = [op[a] EXCEPT !.step = "health", !.prev = p]]
    BY <1>5 DEF MarkVerifying
  <2>2. p # None => p \in Deployments /\ owner[p] = a
    BY <2>1 DEF Previous, Owned
  <2> DEFINE next == [op[a] EXCEPT !.step = "health", !.prev = p]
  <2>3. op[a] \in Operations
    BY DEF Invariant, TypeOK
  <2>4. /\ next \in Operations
        /\ next.step = "health" /\ next.dep = op[a].dep /\ next.prev = p
        /\ op[a].held \subseteq next.held
    BY <2>2, <2>3, StepNames DEF Operations
  <2>5. op' = [op EXCEPT ![a] = next]
    BY <2>1
  <2> HIDE DEF next
  <2>6. Tracks(next)
    BY <1>5, <2>4, ContinuesTracks DEF MarkVerifying
  <2>7. Owns(a, op[a])
    BY DEF Invariant, PortInvariant, OpOwnsItsWork
  <2>8. Owns(a, next)
    BY <1>5, <2>2, <2>4, <2>7 DEF MarkVerifying, Owns, CandidateSteps, RetirementSteps
  <2>9. \A e \in Deployments : status'[e] = "none" => status[e] = "none"
    BY <1>5, StatusAdvances DEF MarkVerifying
  <2> QED
    BY <1>5, <2>4, <2>5, <2>6, <2>8, <2>9, CommandMoves DEF MarkVerifying
<1>6. CASE CandidateStepFails(a)
  BY <1>6, StepNames, CandidateGoes DEF CandidateStepFails
<1>7. CASE CommandFailsSilently(a)
  BY <1>7, StepNames, CandidateGoes DEF CommandFailsSilently
<1> QED
  BY <1>1, <1>2, <1>3, <1>4, <1>5, <1>6, <1>7

\* What every leaf about a candidate that changes a port or a unit starts from.
LEMMA CandidateFacts ==
    ASSUME Invariant, NEW a \in Applications, op[a].step \in CandidateSteps
    PROVE  /\ Dep(a) \in Deployments /\ owner[Dep(a)] = a /\ status[Dep(a)] # "none"
           /\ op[a] \in Operations /\ Owns(a, op[a]) /\ Tracks(op[a])
<1>1. Dep(a) \in Deployments /\ owner[Dep(a)] = a
  BY CandidateDep DEF Invariant, PortInvariant
<1>2. status[Dep(a)] # "none"
  BY <1>1, NoneAssumption DEF Invariant, PortInvariant, UnbornIsClean
<1>3. op[a] \in Operations /\ Owns(a, op[a]) /\ Tracks(op[a])
  BY DEF Invariant, TypeOK, PortInvariant, OpOwnsItsWork, UnitIsTracked
<1> QED BY <1>1, <1>2, <1>3

\* The command holds one more resource: what it owns does not change.
LEMMA HoldMoves ==
    ASSUME Invariant, NEW a \in Applications, op[a].step \in CandidateSteps,
           NEW step \in Steps \ RetirementSteps, NEW resource \in Resources,
           Hold(a, resource, step)
    PROVE  \E next \in Operations :
             /\ op' = [op EXCEPT ![a] = next] /\ Owns(a, next)
             /\ next.step = step /\ next.dep = Dep(a)
             /\ next.held = op[a].held \cup {resource}
<1> DEFINE next == [op[a] EXCEPT !.step = step, !.held = @ \cup {resource}]
<1>1. op[a] \in Operations /\ Owns(a, op[a])
  BY CandidateFacts
<1>2. /\ next \in Operations /\ next.step = step /\ next.dep = Dep(a)
      /\ next.prev = op[a].prev /\ next.held = op[a].held \cup {resource}
  BY <1>1 DEF Operations, Dep
<1>3. op' = [op EXCEPT ![a] = next]
  BY DEF Hold
<1> HIDE DEF next
<1>4. Owns(a, next)
  BY <1>1, <1>2 DEF Owns, Dep
<1> QED BY <1>2, <1>3, <1>4

\* The reserved port is free: neither reserved nor the endpoint of a live runtime.
LEMMA ReservePortPorts ==
    ASSUME Invariant, NEW a \in Applications, ReservePort(a)
    PROVE  PortInvariant'
<1> DEFINE d == Dep(a)
<1>1. PICK p \in Ports : FirstFree(p) /\ reservation' = [reservation EXCEPT ![d] = p]
  BY DEF ReservePort
<1>2. op[a].step = "reserve" /\ Hold(a, "port", "write")
      /\ UNCHANGED <<status, owner, endpoint, unit>>
  BY DEF ReservePort, At, deploymentRows, podman
<1>3. d \in Deployments /\ unit[d] = 0 /\ endpoint[d] = 0
  BY <1>2, CandidateFacts DEF CandidateSteps, BeforeUnit, Tracks, Dep
<1>4. PICK next \in Operations :
        /\ op' = [op EXCEPT ![a] = next] /\ Owns(a, next)
        /\ next.step = "write" /\ next.dep = d /\ next.held = op[a].held \cup {"port"}
  BY <1>2, StepNames, HoldMoves
     DEF CandidateSteps, BeforeUnit, RetirementSteps, Resources
<1>5. Tracks(next)'
  BY <1>2, <1>3, <1>4 DEF Tracks, BeforeUnit, WithUnit
<1>6. OpOwnsItsWork' /\ UnitIsTracked'
  BY <1>2, <1>4, <1>5, OthersUndisturbed
<1>7. \A e \in Deployments : reservation'[e] = IF e = d THEN p ELSE reservation[e]
  BY <1>1 DEF Invariant, TypeOK
<1> HIDE DEF d
<1>8. UnitHoldsItsPort' /\ EndpointIsPublished' /\ UnbornIsClean'
  BY <1>2, <1>3, <1>7
     DEF Invariant, PortInvariant, UnitHoldsItsPort, EndpointIsPublished, UnbornIsClean
<1>9. \A e \in Deployments : endpoint[e] # p /\ reservation[e] # p
  BY <1>1 DEF FirstFree, InUse
<1>10. HeldOnce'
  BY <1>2, <1>3, <1>7, <1>9 DEF Invariant, PortInvariant, HeldOnce
<1> QED BY <1>6, <1>8, <1>10 DEF PortInvariant

\* The unit publishes the reserved port.
LEMMA WriteUnitPorts ==
    ASSUME Invariant, NEW a \in Applications, WriteUnit(a)
    PROVE  PortInvariant'
<1> DEFINE d == Dep(a)
<1>1. /\ op[a].step = "write" /\ Hold(a, "unit", "launch")
      /\ unit' = [unit EXCEPT ![d] = reservation[d]]
      /\ UNCHANGED <<status, owner, endpoint, reservation>>
  BY DEF WriteUnit, At, deploymentRows, runtimeRows
<1>2. d \in Deployments /\ owner[d] = a /\ status[d] # "none" /\ endpoint[d] = 0
  BY <1>1, CandidateFacts DEF CandidateSteps, BeforeUnit, Tracks, Dep
<1>3. /\ op[a].step \in CandidateSteps /\ "launch" \in Steps \ RetirementSteps
      /\ "unit" \in Resources
  BY <1>1, StepNames DEF CandidateSteps, BeforeUnit, RetirementSteps, Resources
<1>4. PICK next \in Operations :
        /\ op' = [op EXCEPT ![a] = next] /\ Owns(a, next)
        /\ next.step = "launch" /\ next.dep = d /\ next.held = op[a].held \cup {"unit"}
  BY <1>1, <1>3, HoldMoves
<1>5. Tracks(next)'
  BY <1>4 DEF Tracks, BeforeUnit, WithUnit
<1>6. \A e \in Deployments : unit'[e] = IF e = d THEN reservation[d] ELSE unit[e]
  BY <1>1 DEF Invariant, TypeOK
<1> HIDE DEF d
<1>7. OpOwnsItsWork' /\ UnitIsTracked'
  <2>1. \A e \in Deployments :
          owner[e] # a => unit'[e] = unit[e] /\ endpoint'[e] = endpoint[e]
    BY <1>1, <1>2, <1>6
  <2> QED BY <1>1, <1>4, <1>5, <2>1, OthersUndisturbed
<1>8. UnitHoldsItsPort' /\ EndpointIsPublished' /\ UnbornIsClean' /\ HeldOnce'
  BY <1>1, <1>2, <1>6
     DEF Invariant, PortInvariant, UnitHoldsItsPort, EndpointIsPublished, UnbornIsClean,
         HeldOnce
<1> QED BY <1>7, <1>8 DEF PortInvariant

\* The runtime row takes the port of the unit, which the reservation still holds.
LEMMA RegisterCandidatePorts ==
    ASSUME Invariant, NEW a \in Applications, RegisterCandidate(a)
    PROVE  PortInvariant'
<1> DEFINE d == Dep(a)
<1>1. /\ op[a].step = "register" /\ Hold(a, "runtime", "consume")
      /\ \A e \in Deployments : endpoint[e] # unit[d]
      /\ endpoint' = [endpoint EXCEPT ![d] = unit[d]]
      /\ UNCHANGED <<status, owner, reservation, unit>>
  BY DEF RegisterCandidate, At, deploymentRows, podman
<1>2. /\ d \in Deployments /\ owner[d] = a /\ status[d] # "none"
      /\ "unit" \in op[a].held
  BY <1>1, CandidateFacts DEF CandidateSteps, WithUnit, Tracks
<1>3. PICK next \in Operations :
        /\ op' = [op EXCEPT ![a] = next] /\ Owns(a, next)
        /\ next.step = "consume" /\ next.dep = d
        /\ next.held = op[a].held \cup {"runtime"}
  BY <1>1, StepNames, HoldMoves
     DEF CandidateSteps, WithUnit, RetirementSteps, Resources
<1>4. \A e \in Deployments : endpoint'[e] = IF e = d THEN unit[d] ELSE endpoint[e]
  BY <1>1 DEF Invariant, TypeOK
<1> HIDE DEF d
<1>5. Tracks(next)'
  BY <1>1, <1>2, <1>3, <1>4 DEF Tracks, BeforeUnit, WithUnit
<1>6. OpOwnsItsWork' /\ UnitIsTracked'
  <2>1. \A e \in Deployments :
          owner[e] # a => unit'[e] = unit[e] /\ endpoint'[e] = endpoint[e]
    BY <1>1, <1>2, <1>4
  <2> QED BY <1>1, <1>3, <1>5, <2>1, OthersUndisturbed
<1>7. UnitHoldsItsPort' /\ EndpointIsPublished' /\ UnbornIsClean'
  BY <1>1, <1>2, <1>4
     DEF Invariant, PortInvariant, UnitHoldsItsPort, EndpointIsPublished, UnbornIsClean
<1>8. unit[d] # 0 => unit[d] = reservation[d]
  BY <1>1, <1>2 DEF Invariant, PortInvariant, UnitHoldsItsPort
<1>9. HeldOnce'
  BY <1>1, <1>2, <1>4, <1>8 DEF Invariant, PortInvariant, HeldOnce
<1> QED BY <1>6, <1>7, <1>9 DEF PortInvariant

\* The reservation is deleted when the runtime row holds the port of the unit.
LEMMA ConsumeReservationPorts ==
    ASSUME Invariant, NEW a \in Applications, ConsumeReservation(a)
    PROVE  PortInvariant'
<1> DEFINE d == Dep(a)
<1>1. /\ op[a].step = "consume" /\ Goto(a, "verify")
      /\ reservation' = [reservation EXCEPT ![d] = 0]
      /\ UNCHANGED <<status, owner, endpoint, unit>>
  BY DEF ConsumeReservation, At, deploymentRows, podman
<1>2. d \in Deployments /\ unit[d] = endpoint[d]
  BY <1>1, CandidateFacts DEF CandidateSteps, WithUnit, Tracks, Dep
<1>3. Continues(op[a].step, "verify")
  BY <1>1 DEF Continues, WithUnit
<1>4. PICK next \in Operations :
        op' = [op EXCEPT ![a] = next] /\ Owns(a, next) /\ Tracks(next)
  BY <1>1, <1>3, StepNames, GotoMoves
<1>5. Tracks(next)'
  BY <1>1, <1>4 DEF Tracks
<1>6. OpOwnsItsWork' /\ UnitIsTracked'
  BY <1>1, <1>4, <1>5, OthersUndisturbed
<1>7. \A e \in Deployments : reservation'[e] = IF e = d THEN 0 ELSE reservation[e]
  BY <1>1 DEF Invariant, TypeOK
<1> HIDE DEF d
<1>8. UnitHoldsItsPort' /\ EndpointIsPublished' /\ UnbornIsClean' /\ HeldOnce'
  BY <1>1, <1>2, <1>7
     DEF Invariant, PortInvariant, UnitHoldsItsPort, EndpointIsPublished, UnbornIsClean,
         HeldOnce
<1> QED BY <1>6, <1>8 DEF PortInvariant

\* Activation changes neither ports nor units.
LEMMA PromotedKeepsPorts ==
    ASSUME Invariant, NEW a \in Applications, NEW d \in Deployments,
           PromotionRows(a, d)
    PROVE  /\ \A e \in Deployments : status'[e] = "none" => status[e] = "none"
           /\ UNCHANGED <<owner, endpoint, reservation>>
  BY StatusAdvances DEF PromotionRows

\* The command retires the predecessor, returns or compensates.
LEMMA AfterPromotionPorts ==
    ASSUME Invariant, NEW a \in Applications, NEW compensation \in Steps,
           AfterPromotion(a, compensation), Continues(op[a].step, compensation),
           \A e \in Deployments : status'[e] = "none" => status[e] = "none",
           UNCHANGED <<owner, endpoint, reservation, unit>>
    PROVE  PortInvariant'
<1>1. CASE Goto(a, compensation)
  BY <1>1, CandidateGoes
<1>2. CASE op' = [op EXCEPT ![a] =
                    IF @.prev = None THEN Idle
                    ELSE [Idle EXCEPT !.step = "retire", !.prev = op[a].prev]]
  <2>1. CASE op[a].prev = None
    BY <1>2, <2>1, CommandEnds DEF End
  <2>2. CASE op[a].prev # None
    <3> DEFINE next == [Idle EXCEPT !.step = "retire", !.prev = op[a].prev]
    <3>1. op' = [op EXCEPT ![a] = next]
      BY <1>2, <2>2
    <3>2. op[a] \in Operations /\ Owns(a, op[a])
      BY DEF Invariant, TypeOK, PortInvariant, OpOwnsItsWork
    <3>3. op[a].prev \in Deployments /\ owner[op[a].prev] = a
      BY <2>2, <3>2 DEF Operations, Owns
    <3>4. next \in Operations /\ next.step = "retire" /\ next.prev = op[a].prev
      BY <3>2, IdleType, StepNames DEF Operations
    <3> HIDE DEF next
    <3>5. Owns(a, next) /\ Tracks(next)
      BY <3>3, <3>4
         DEF Owns, Tracks, CandidateSteps, RetirementSteps, BeforeUnit, WithUnit
    <3> QED BY <3>1, <3>4, <3>5, CommandMoves
  <2> QED BY <2>1, <2>2
<1> QED BY <1>1, <1>2 DEF AfterPromotion

\* Promotion and public activation keep the invariant.
LEMMA ActivationPorts ==
    ASSUME Invariant, NEW a \in Applications,
           \/ PromoteInternal(a) \/ InternalUnhealthy(a) \/ PublicUnhealthy(a)
           \/ MarkActivating(a) \/ BeginPublicExposure(a) \/ ReplaceFragment(a)
           \/ ReplaceFragmentFails(a) \/ ValidationFails(a) \/ ReloadCaddy(a)
           \/ ReloadFails(a) \/ PromotePublic(a) \/ RejectPublicCandidate(a)
           \/ RestoreFragment(a) \/ ReloadRestored(a) \/ RecordFailedExposure(a)
           \/ RecordDivergedExposure(a)
    PROVE  PortInvariant'
<1> USE DEF At, deploymentRows, runtimeRows, podman, Continues, BeforeUnit, WithUnit
<1>1. CASE PromoteInternal(a)
  <2>1. Dep(a) \in Deployments
    BY <1>1, CandidateFacts DEF PromoteInternal, CandidateSteps
  <2> QED
    BY <1>1, <2>1, StepNames, PromotedKeepsPorts, AfterPromotionPorts DEF PromoteInternal
<1>2. CASE InternalUnhealthy(a)
  BY <1>2, StepNames, StatusAdvances, CandidateGoes DEF InternalUnhealthy, Advance
<1>3. CASE PublicUnhealthy(a)
  BY <1>3, StepNames, CandidateGoes DEF PublicUnhealthy
<1>4. CASE MarkActivating(a)
  BY <1>4, StepNames, StatusAdvances, CandidateGoes DEF MarkActivating, Advance
<1>5. CASE BeginPublicExposure(a)
  BY <1>5, StepNames, CandidateGoes DEF BeginPublicExposure
<1>6. CASE ReplaceFragment(a)
  <2> DEFINE next == [op[a] EXCEPT !.step = "validate", !.saved = fragment[a]]
  <2>1. op[a] \in Operations /\ fragment[a] \in PortOrNone
    BY DEF Invariant, TypeOK
  <2>2. /\ next \in Operations
        /\ next.step = "validate" /\ next.dep = op[a].dep /\ next.prev = op[a].prev
        /\ op[a].held \subseteq next.held
    BY <2>1, StepNames DEF Operations
  <2>3. op' = [op EXCEPT ![a] = next]
    BY <1>6 DEF ReplaceFragment
  <2> HIDE DEF next
  <2>4. Continues(op[a].step, next.step)
    BY <1>6, <2>2 DEF ReplaceFragment
  <2>5. Owns(a, next) /\ Tracks(next)
    BY <2>2, <2>4, ContinuesOwns, ContinuesTracks
  <2> QED
    BY <1>6, <2>2, <2>3, <2>5, CommandMoves DEF ReplaceFragment
<1>7. CASE ReplaceFragmentFails(a)
  BY <1>7, StepNames, CandidateGoes DEF ReplaceFragmentFails
<1>8. CASE ValidationFails(a)
  BY <1>8, StepNames, CandidateGoes DEF ValidationFails
<1>9. CASE ReloadCaddy(a)
  BY <1>9, StepNames, CandidateGoes DEF ReloadCaddy
<1>10. CASE ReloadFails(a)
  BY <1>10, StepNames, CandidateGoes DEF ReloadFails
<1>11. CASE PromotePublic(a)
  <2>1. Dep(a) \in Deployments
    BY <1>11, CandidateFacts DEF PromotePublic, CandidateSteps
  <2> QED
    BY <1>11, <2>1, StepNames, PromotedKeepsPorts, AfterPromotionPorts DEF PromotePublic
<1>12. CASE RejectPublicCandidate(a)
  BY <1>12, StepNames, CandidateGoes DEF RejectPublicCandidate
<1>13. CASE RestoreFragment(a)
  BY <1>13, StepNames, CandidateGoes DEF RestoreFragment
<1>14. CASE ReloadRestored(a)
  BY <1>14, StepNames, CandidateGoes DEF ReloadRestored
<1>15. CASE RecordFailedExposure(a)
  BY <1>15, StepNames, CandidateGoes, CommandEnds
     DEF RecordFailedExposure, RecordExposureFailure
<1>16. CASE RecordDivergedExposure(a)
  BY <1>16, StepNames, CandidateGoes, CommandEnds
     DEF RecordDivergedExposure, RecordExposureFailure
<1> QED
  BY <1>1, <1>2, <1>3, <1>4, <1>5, <1>6, <1>7, <1>8, <1>9, <1>10, <1>11, <1>12, <1>13,
     <1>14, <1>15, <1>16

\* A command goes to the step it takes once a unit is gone.
LEMMA WithoutUnit ==
    ASSUME Invariant, NEW a \in Applications,
           NEW step \in {"prove", "tombstone", "release"}, Goto(a, step), op[a].step \in CandidateSteps
    PROVE  \E next \in Operations :
             /\ op' = [op EXCEPT ![a] = next] /\ Owns(a, next)
             /\ next.step = step /\ next.dep = op[a].dep
<1> DEFINE next == [op[a] EXCEPT !.step = step]
<1>1. op[a] \in Operations /\ Owns(a, op[a])
  BY CandidateFacts
<1>2. /\ next \in Operations
      /\ next.step = step /\ next.dep = op[a].dep /\ next.prev = op[a].prev
  BY <1>1, StepNames DEF Operations
<1>3. op' = [op EXCEPT ![a] = next]
  BY DEF Goto
<1> HIDE DEF next
<1>4. Owns(a, next)
  BY <1>1, <1>2 DEF Owns, RetirementSteps
<1> QED BY <1>2, <1>3, <1>4

\* A cleanup that does not hold the unit has none to remove.
LEMMA NothingToStopPorts ==
    ASSUME Invariant, NEW a \in Applications, NothingToStop(a)
    PROVE  PortInvariant'
<1>1. /\ op[a].step = "cleanup" /\ "unit" \notin op[a].held /\ Goto(a, "prove")
      /\ UNCHANGED <<status, owner, endpoint, reservation, unit>>
  BY DEF NothingToStop, CleanupStarts, At, deploymentRows, runtimeRows, podman
<1>2. op[a].step \in CandidateSteps
  BY <1>1 DEF CandidateSteps
<1>3. unit[op[a].dep] = 0
  BY <1>1, <1>2, CandidateFacts DEF Tracks
<1>4. PICK next \in Operations :
        /\ op' = [op EXCEPT ![a] = next] /\ Owns(a, next)
        /\ next.step = "prove" /\ next.dep = op[a].dep
  BY <1>1, <1>2, WithoutUnit
<1>5. Tracks(next)
  BY <1>3, <1>4 DEF Tracks, BeforeUnit, WithUnit
<1> QED BY <1>1, <1>4, <1>5, CommandMoves

\* The unit of a Deployment of a is removed and the command goes on or ends.
LEMMA UnitRemoved ==
    ASSUME Invariant, NEW a \in Applications, NEW d \in Deployments, owner[d] = a,
           unit' = [unit EXCEPT ![d] = 0],
           UNCHANGED <<status, owner, endpoint, reservation>>,
           NEW next \in Operations, op' = [op EXCEPT ![a] = next],
           Owns(a, next), Tracks(next)'
    PROVE  PortInvariant'
<1>1. \A e \in Deployments : unit'[e] = IF e = d THEN 0 ELSE unit[e]
  BY DEF Invariant, TypeOK
<1>2. \A e \in Deployments :
        owner[e] # a => unit'[e] = unit[e] /\ endpoint'[e] = endpoint[e]
  BY <1>1
<1>3. OpOwnsItsWork' /\ UnitIsTracked'
  BY <1>2, OthersUndisturbed
<1>4. UnitHoldsItsPort' /\ EndpointIsPublished' /\ UnbornIsClean' /\ HeldOnce'
  BY <1>1
     DEF Invariant, PortInvariant, UnitHoldsItsPort, EndpointIsPublished, UnbornIsClean,
         HeldOnce
<1> QED BY <1>3, <1>4 DEF PortInvariant

\* The cleanup removes the unit of the candidate.
LEMMA RemoveCandidateUnitPorts ==
    ASSUME Invariant, NEW a \in Applications, RemoveCandidateUnit(a)
    PROVE  PortInvariant'
<1> DEFINE d == op[a].dep
<1>1. /\ op[a].step = "remove" /\ unit' = [unit EXCEPT ![d] = 0]
      /\ Goto(a, "prove") \/ End(a)
      /\ UNCHANGED <<status, owner, endpoint, reservation>>
  BY DEF RemoveCandidateUnit, RemoveUnit, At, Dep, deploymentRows, runtimeRows
<1>2. op[a].step \in CandidateSteps
  BY <1>1 DEF CandidateSteps
<1>3. d \in Deployments /\ owner[d] = a
  BY <1>2, CandidateFacts DEF Dep
<1>4. CASE End(a)
  <2>1. op' = [op EXCEPT ![a] = Idle] /\ Owns(a, Idle)
    BY <1>4, IdleOwns DEF End
  <2>2. Tracks(Idle)'
    BY DEF Tracks, Idle, BeforeUnit, WithUnit
  <2> QED BY <1>1, <1>3, <2>1, <2>2, IdleType, UnitRemoved
<1>5. CASE Goto(a, "prove")
  <2>1. PICK next \in Operations :
          /\ op' = [op EXCEPT ![a] = next] /\ Owns(a, next)
          /\ next.step = "prove" /\ next.dep = d
    BY <1>2, <1>5, WithoutUnit
  <2>2. unit'[d] = 0
    BY <1>1, <1>3 DEF Invariant, TypeOK
  <2> HIDE DEF d
  <2>3. Tracks(next)'
    BY <2>1, <2>2 DEF Tracks, BeforeUnit, WithUnit
  <2> QED BY <1>1, <1>3, <2>1, <2>3, UnitRemoved
<1> QED BY <1>1, <1>4, <1>5

\* A Deployment without a unit gives up its endpoint or its reservation.
LEMMA PortGivenBack ==
    ASSUME Invariant, NEW a \in Applications, NEW d \in Deployments,
           owner[d] = a, unit[d] = 0, UNCHANGED <<status, owner, unit>>,
           endpoint' \in {endpoint, [endpoint EXCEPT ![d] = 0]},
           reservation' \in {reservation, [reservation EXCEPT ![d] = 0]},
           NEW next \in Operations, op' = [op EXCEPT ![a] = next],
           Owns(a, next), Tracks(next)'
    PROVE  PortInvariant'
<1>1. /\ endpoint'[d] \in {0, endpoint[d]} /\ reservation'[d] \in {0, reservation[d]}
      /\ \A e \in Deployments :
           e # d => endpoint'[e] = endpoint[e] /\ reservation'[e] = reservation[e]
  BY DEF Invariant, TypeOK
<1>2. \A e \in Deployments :
        owner[e] # a => unit'[e] = unit[e] /\ endpoint'[e] = endpoint[e]
  BY <1>1
<1>3. OpOwnsItsWork' /\ UnitIsTracked'
  BY <1>2, OthersUndisturbed
<1>4. UnitHoldsItsPort' /\ EndpointIsPublished' /\ UnbornIsClean' /\ HeldOnce'
  BY <1>1
     DEF Invariant, PortInvariant, UnitHoldsItsPort, EndpointIsPublished, UnbornIsClean,
         HeldOnce
<1> QED BY <1>3, <1>4 DEF PortInvariant

\* The container of the candidate is removed after its unit.
LEMMA ProveCandidateRemovedPorts ==
    ASSUME Invariant, NEW a \in Applications, ProveCandidateRemoved(a)
    PROVE  PortInvariant'
<1>1. /\ op[a].step = "prove" /\ Goto(a, "tombstone")
      /\ UNCHANGED <<status, owner, endpoint, reservation, unit>>
  BY DEF ProveCandidateRemoved, At, deploymentRows, runtimeRows
<1>2. op[a].step \in CandidateSteps
  BY <1>1 DEF CandidateSteps
<1>3. unit[op[a].dep] = 0
  BY <1>1, <1>2, CandidateFacts DEF Tracks
<1>4. PICK next \in Operations :
        /\ op' = [op EXCEPT ![a] = next] /\ Owns(a, next)
        /\ next.step = "tombstone" /\ next.dep = op[a].dep
  BY <1>1, <1>2, WithoutUnit
<1>5. Tracks(next)
  BY <1>3, <1>4 DEF Tracks, BeforeUnit, WithUnit
<1> QED BY <1>1, <1>4, <1>5, CommandMoves

\* The runtime row gives its port back after the unit is gone.
LEMMA TombstoneCandidatePorts ==
    ASSUME Invariant, NEW a \in Applications, TombstoneCandidate(a)
    PROVE  PortInvariant'
<1> DEFINE d == op[a].dep
<1>1. /\ op[a].step = "tombstone" /\ Goto(a, "release")
      /\ endpoint' \in {endpoint, [endpoint EXCEPT ![d] = 0]}
      /\ UNCHANGED <<status, owner, reservation, unit>>
  BY DEF TombstoneCandidate, At, Dep, deploymentRows, podman
<1>2. op[a].step \in CandidateSteps
  BY <1>1 DEF CandidateSteps
<1>3. /\ d \in Deployments /\ owner[d] = a /\ unit[d] = 0
      /\ op[a] \in Operations /\ Owns(a, op[a])
  BY <1>1, <1>2, CandidateFacts DEF Dep, Tracks
<1>4. PICK next \in Operations :
        /\ op' = [op EXCEPT ![a] = next] /\ Owns(a, next)
        /\ next.step = "release" /\ next.dep = d
  BY <1>1, <1>2, WithoutUnit
<1> HIDE DEF d
<1>5. Tracks(next)'
  BY <1>1, <1>3, <1>4 DEF Tracks, BeforeUnit, WithUnit
<1> QED BY <1>1, <1>3, <1>4, <1>5, PortGivenBack

\* The reservation is released after the unit is gone.
LEMMA ReleasePortPorts ==
    ASSUME Invariant, NEW a \in Applications, ReleasePort(a)
    PROVE  PortInvariant'
<1> DEFINE d == Dep(a)
<1>1. /\ op[a].step = "release" /\ op' = [op EXCEPT ![a] = Idle]
      /\ reservation' = [reservation EXCEPT ![d] = 0]
      /\ UNCHANGED <<status, owner, endpoint, unit>>
  BY DEF ReleasePort, End, At, deploymentRows, podman
<1>2. d \in Deployments /\ owner[d] = a /\ unit[d] = 0
  BY <1>1, CandidateFacts DEF CandidateSteps, Tracks, Dep
<1>3. Tracks(Idle)'
  BY DEF Tracks, Idle, BeforeUnit, WithUnit
<1> QED BY <1>1, <1>2, <1>3, IdleOwns, IdleType, PortGivenBack

\* What every leaf about the retirement of a predecessor starts from.
LEMMA RetirementFacts ==
    ASSUME Invariant, NEW a \in Applications, op[a].step \in RetirementSteps
    PROVE  /\ op[a].prev \in Deployments /\ owner[op[a].prev] = a
           /\ op[a] \in Operations /\ Owns(a, op[a]) /\ Tracks(op[a])
  BY NoneAssumption
     DEF Invariant, TypeOK, PortInvariant, OpOwnsItsWork, UnitIsTracked, Owns

\* The retirement goes on with the same predecessor.
LEMMA RetirementGoes ==
    ASSUME Invariant, NEW a \in Applications, op[a].step \in RetirementSteps,
           NEW step \in RetirementSteps, Goto(a, step)
    PROVE  \E next \in Operations :
             /\ op' = [op EXCEPT ![a] = next] /\ Owns(a, next)
             /\ next.step = step /\ next.prev = op[a].prev
<1> DEFINE next == [op[a] EXCEPT !.step = step]
<1>1. op[a] \in Operations /\ Owns(a, op[a])
  BY RetirementFacts
<1>2. next \in Operations /\ next.step = step /\ next.prev = op[a].prev
  BY <1>1, StepNames DEF Operations, RetirementSteps
<1>3. op' = [op EXCEPT ![a] = next]
  BY DEF Goto
<1> HIDE DEF next
<1>4. Owns(a, next)
  BY <1>1, <1>2 DEF Owns, RetirementSteps, CandidateSteps, BeforeUnit, WithUnit
<1> QED BY <1>2, <1>3, <1>4

\* The retirement stops the unit of the predecessor, which still publishes its port.
LEMMA RetireStopPorts ==
    ASSUME Invariant, NEW a \in Applications, RetireStop(a)
    PROVE  PortInvariant'
<1>1. /\ op[a].step = "retire" /\ Goto(a, "retire_remove")
      /\ UNCHANGED <<status, owner, endpoint, reservation, unit>>
  BY DEF RetireStop, StopUnit, At, deploymentRows, runtimeRows
<1>2. PICK next \in Operations :
        /\ op' = [op EXCEPT ![a] = next] /\ Owns(a, next)
        /\ next.step = "retire_remove" /\ next.prev = op[a].prev
  BY <1>1, RetirementGoes DEF RetirementSteps
<1>3. Tracks(next)
  BY <1>2 DEF Tracks, BeforeUnit, WithUnit
<1> QED BY <1>1, <1>2, <1>3, CommandMoves

\* The retirement removes the unit of the predecessor.
LEMMA RetireUnitPorts ==
    ASSUME Invariant, NEW a \in Applications, RetireUnit(a)
    PROVE  PortInvariant'
<1> DEFINE d == op[a].prev
<1>1. /\ op[a].step = "retire_remove" /\ unit' = [unit EXCEPT ![d] = 0]
      /\ Goto(a, "retire_prove") \/ End(a)
      /\ UNCHANGED <<status, owner, endpoint, reservation>>
  BY DEF RetireUnit, RemoveUnit, At, deploymentRows, runtimeRows
<1>2. op[a].step \in RetirementSteps /\ d \in Deployments /\ owner[d] = a
  BY <1>1, RetirementFacts DEF RetirementSteps
<1>3. CASE End(a)
  <2>1. op' = [op EXCEPT ![a] = Idle] /\ Owns(a, Idle)
    BY <1>3, IdleOwns DEF End
  <2>2. Tracks(Idle)'
    BY DEF Tracks, Idle, BeforeUnit, WithUnit
  <2> QED BY <1>1, <1>2, <2>1, <2>2, IdleType, UnitRemoved
<1>4. CASE Goto(a, "retire_prove")
  <2>1. PICK next \in Operations :
          /\ op' = [op EXCEPT ![a] = next] /\ Owns(a, next)
          /\ next.step = "retire_prove" /\ next.prev = d
    BY <1>2, <1>4, RetirementGoes DEF RetirementSteps
  <2>2. unit'[d] = 0
    BY <1>1, <1>2 DEF Invariant, TypeOK
  <2> HIDE DEF d
  <2>3. Tracks(next)'
    BY <2>1, <2>2 DEF Tracks, BeforeUnit, WithUnit
  <2> QED BY <1>1, <1>2, <2>1, <2>3, UnitRemoved
<1> QED BY <1>1, <1>3, <1>4

\* The retirement removes the container of the predecessor after its unit.
LEMMA ProvePreviousRemovedPorts ==
    ASSUME Invariant, NEW a \in Applications, ProvePreviousRemoved(a)
    PROVE  PortInvariant'
<1>1. /\ op[a].step = "retire_prove" /\ Goto(a, "retire_mark")
      /\ UNCHANGED <<status, owner, endpoint, reservation, unit>>
  BY DEF ProvePreviousRemoved, At, deploymentRows, runtimeRows
<1>2. op[a].step \in RetirementSteps /\ unit[op[a].prev] = 0
  BY <1>1, RetirementFacts DEF RetirementSteps, Tracks
<1>3. PICK next \in Operations :
        /\ op' = [op EXCEPT ![a] = next] /\ Owns(a, next)
        /\ next.step = "retire_mark" /\ next.prev = op[a].prev
  BY <1>1, <1>2, RetirementGoes DEF RetirementSteps
<1>4. Tracks(next)
  BY <1>2, <1>3 DEF Tracks, BeforeUnit, WithUnit
<1> QED BY <1>1, <1>3, <1>4, CommandMoves

\* The predecessor gives its port back after its unit is gone.
LEMMA RetireRuntimePorts ==
    ASSUME Invariant, NEW a \in Applications, RetireRuntime(a)
    PROVE  PortInvariant'
<1> DEFINE d == op[a].prev
<1>1. /\ op[a].step = "retire_mark" /\ op' = [op EXCEPT ![a] = Idle]
      /\ endpoint' = [endpoint EXCEPT ![d] = 0]
      /\ UNCHANGED <<status, owner, reservation, unit>>
  BY DEF RetireRuntime, End, At, deploymentRows, podman
<1>2. d \in Deployments /\ owner[d] = a /\ unit[d] = 0
  BY <1>1, RetirementFacts DEF RetirementSteps, Tracks
<1>3. Tracks(Idle)'
  BY DEF Tracks, Idle, BeforeUnit, WithUnit
<1> QED BY <1>1, <1>2, <1>3, IdleOwns, IdleType, PortGivenBack

\* Failure, cleanup, retirement and the end of a recovery.
LEMMA CompensationPorts ==
    ASSUME Invariant, NEW a \in Applications,
           \/ FailDeployment(a) \/ KeepPromoted(a) \/ StopCandidate(a)
           \/ NothingToStop(a) \/ RemoveCandidateUnit(a) \/ ProveCandidateRemoved(a)
           \/ TombstoneCandidate(a) \/ ReleasePort(a) \/ CompensationFails(a)
           \/ RetireStop(a) \/ RetireUnit(a) \/ ProvePreviousRemoved(a)
           \/ RetireRuntime(a) \/ SettleExposure(a)
    PROVE  PortInvariant'
<1> USE DEF At, deploymentRows, runtimeRows, podman, Continues, BeforeUnit, WithUnit
<1>1. CASE FailDeployment(a)
  <2>1. \A d \in Deployments : status'[d] = "none" => status[d] = "none"
    BY <1>1, StatusAdvances DEF FailDeployment
  <2>2. Goto(a, "cleanup") \/ End(a)
    BY <1>1 DEF FailDeployment, AfterFailure
  <2> QED
    BY <1>1, <2>1, <2>2, StepNames, CandidateGoes, CommandEnds DEF FailDeployment
<1>2. CASE KeepPromoted(a)
  BY <1>2, CommandEnds DEF KeepPromoted
<1>3. CASE StopCandidate(a)
  BY <1>3, StepNames, CandidateGoes DEF StopCandidate, StopUnit, CleanupStarts
<1>4. CASE CompensationFails(a)
  BY <1>4, CommandEnds DEF CompensationFails
<1>5. CASE SettleExposure(a)
  BY <1>5, CommandEnds DEF SettleExposure
<1> QED
  BY <1>1, <1>2, <1>3, <1>4, <1>5, NothingToStopPorts, RemoveCandidateUnitPorts,
     ProveCandidateRemovedPorts, TombstoneCandidatePorts, ReleasePortPorts,
     RetireStopPorts, RetireUnitPorts, ProvePreviousRemovedPorts, RetireRuntimePorts

\* A recovery that cleans a candidate up holds its unit if it is on disk under
\* the recorded port.
LEMMA RecoveryOpsFacts ==
    ASSUME NEW d \in Deployments, NEW next \in RecoveryOps(d)
    PROVE  /\ next.step \in {"idle", "settle", "cleanup"} /\ next.prev = None
           /\ next.step # "idle" => next.dep = d
           /\ next.step = "cleanup" =>
                endpoint[d] # 0 /\ ("unit" \in next.held <=> unit[d] = endpoint[d])
<1>1. "unit" \in Proven(d) <=> unit[d] = endpoint[d]
  BY DEF Proven
<1>2. CASE next = Idle
  BY <1>2 DEF Idle
<1>3. CASE next = [Idle EXCEPT !.step = "settle", !.dep = d]
  BY <1>3 DEF Idle
<1>4. CASE /\ endpoint[d] # 0
           /\ next = [Idle EXCEPT !.step = "cleanup", !.dep = d,
                                  !.held = Proven(d) \cup {"runtime"}]
  <2>1. /\ next.step = "cleanup" /\ next.dep = d /\ next.prev = None
        /\ next.held = Proven(d) \cup {"runtime"}
    BY <1>4 DEF Idle
  <2> QED BY <1>1, <1>4, <2>1
<1> QED BY <1>2, <1>3, <1>4 DEF RecoveryOps

\* A recovery cleans up only what it proved to be there: without a unit file
\* under the recorded port there is none, and the port may be given back.
LEMMA ReconcilePorts ==
    ASSUME Invariant, NEW a \in Applications, Reconcile(a)
    PROVE  PortInvariant'
<1>1. PICK d \in Deployments :
        /\ owner[d] = a /\ status[d] \in NonTerminal
        /\ \E next \in RecoveryOps(d) : Recover(a, d, NonTerminal, next)
  BY ReconcileRecovers DEF Invariant
<1>2. PICK next \in RecoveryOps(d) : Recover(a, d, NonTerminal, next)
  BY <1>1
<1>3. next \in Operations
  BY <1>2, RecoveryOpsType
<1>4. /\ next.step \in {"idle", "settle", "cleanup"} /\ next.prev = None
      /\ next.step # "idle" => next.dep = d
      /\ next.step = "cleanup" /\ "unit" \notin next.held =>
           endpoint[d] # 0 /\ unit[d] # endpoint[d]
  BY <1>2, RecoveryOpsFacts
<1>5. Owns(a, next)
  BY <1>1, <1>4 DEF Owns, CandidateSteps, RetirementSteps, BeforeUnit, WithUnit
<1>6. Tracks(next)
  BY <1>4
     DEF Tracks, BeforeUnit, WithUnit, Invariant, PortInvariant, EndpointIsPublished
<1>7. Transition(status[d], "fail") # "illegal"
  BY <1>1 DEF Transition, NonTerminal
<1>8. \A e \in Deployments : status'[e] = "none" => status[e] = "none"
  BY <1>2, <1>7, StatusAdvances DEF Recover
<1> QED
  BY <1>2, <1>3, <1>5, <1>6, <1>8, CommandMoves
     DEF Recover, runtimeRows, podman

\* A crash, a reboot and a recreated container leave ports and units alone.
LEMMA EnvironmentPorts ==
    ASSUME Invariant,
           \/ \E a \in Applications : Crash(a)
           \/ \E d \in Deployments : RestartContainer(d)
           \/ Reboot
    PROVE  PortInvariant'
<1> USE DEF deploymentRows, runtimeRows, podman
<1>1. CASE \E a \in Applications : Crash(a)
  BY <1>1, CommandEnds DEF Crash
<1>2. CASE \E d \in Deployments : RestartContainer(d)
  BY <1>2
     DEF RestartContainer, Invariant, PortInvariant, OpOwnsItsWork, Owns, UnitIsTracked,
         Tracks, UnbornIsClean, UnitHoldsItsPort, EndpointIsPublished, HeldOnce
<1>3. CASE Reboot
  <2>1. \A a \in Applications : op'[a] = Idle
    BY <1>3 DEF Reboot
  <2>2. \A a \in Applications : Owns(a, Idle)' /\ Tracks(Idle)'
    BY DEF Owns, Tracks, Idle, CandidateSteps, RetirementSteps, BeforeUnit, WithUnit
  <2>3. OpOwnsItsWork' /\ UnitIsTracked'
    BY <2>1, <2>2 DEF OpOwnsItsWork, UnitIsTracked
  <2>4. UnitHoldsItsPort' /\ EndpointIsPublished' /\ UnbornIsClean' /\ HeldOnce'
    BY <1>3
       DEF Reboot, Invariant, PortInvariant, UnitHoldsItsPort, EndpointIsPublished,
           UnbornIsClean, HeldOnce
  <2> QED BY <2>3, <2>4 DEF PortInvariant
<1> QED BY <1>1, <1>2, <1>3

\* Every step keeps the invariant.
LEMMA StepPorts ==
    ASSUME Invariant, [Next]_vars
    PROVE  PortInvariant'
<1>1. CASE \E a \in Applications : Request(a)
  BY <1>1, RequestPorts
<1>2. CASE \E a \in Applications : Command(a)
  BY <1>2, CandidatePorts, ReservePortPorts, WriteUnitPorts, RegisterCandidatePorts,
     ConsumeReservationPorts, ActivationPorts, CompensationPorts DEF Command
<1>3. CASE \E a \in Applications : Reconcile(a)
  BY <1>3, ReconcilePorts
<1>4. CASE \/ \E a \in Applications : Crash(a)
           \/ \E d \in Deployments : RestartContainer(d)
           \/ Reboot
  BY <1>4, EnvironmentPorts
<1>5. CASE UNCHANGED vars
  BY <1>5
     DEF vars, deploymentRows, runtimeRows, podman, Invariant, PortInvariant,
         OpOwnsItsWork, Owns, UnitIsTracked, Tracks, UnbornIsClean, UnitHoldsItsPort,
         EndpointIsPublished, HeldOnce
<1> QED BY <1>1, <1>2, <1>3, <1>4, <1>5 DEF Next

-------------------------------------------------------------------------------
(* Theorems *)

\* The strengthened invariant: every action of Next keeps it from the start.
THEOREM InvariantHolds == Spec => []Invariant
<1>1. Init => Invariant
  BY InitType, InitPorts DEF Invariant
<1>2. Invariant /\ [Next]_vars => Invariant'
  BY StepType, StepPorts DEF Invariant, PortInvariant
<1> QED BY <1>1, <1>2, PTL DEF Spec

\* The rows, the host and the command of every instance stay within their types.
THEOREM TypeCorrect == Spec => []TypeOK
<1>1. Invariant => TypeOK
  BY DEF Invariant
<1> QED BY <1>1, InvariantHolds, PTL

\* No two units on the host publish the same port, for every number of
\* Applications and Deployments and whatever fails, dies or restarts.
THEOREM UnitsNeverSharePort == Spec => []PortsExclusive
<1>1. Invariant => PortsExclusive
  BY DEF Invariant, TypeOK, PortInvariant, UnitHoldsItsPort, EndpointIsPublished,
         HeldOnce, PortsExclusive
<1> QED BY <1>1, InvariantHolds, PTL

===============================================================================
