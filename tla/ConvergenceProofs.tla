--------------------------- MODULE ConvergenceProofs ---------------------------
(***************************************************************************)
(* Proofs about Convergence for every set of container identities and any  *)
(* number of faults.                                                       *)
(***************************************************************************)
EXTENDS Convergence, TLAPS

-------------------------------------------------------------------------------
(* The inductive invariant *)

\* The state of the row says what the command under way may do to the route.
ReservationsHold ==
    /\ op.step \in {"inspect", "replace", "replaced", "health", "confirm"} =>
           row.state = "applying"
    /\ op.step \in {"remove", "removed", "withdraw"} => row.state = "removing"
    /\ op.step \in {"restore", "reload", "record_diverged"} =>
           row.state \in {"applying", "removing"}
    /\ op.step \in {"record_failed", "reserve_public", "reserve_removal"} =>
           row.state # "diverged"

\* Once Caddy was reloaded, only an edit by hand parts it from the fragment.
CaddyFollows ==
    /\ op.step \in {"replace", "replaced", "health", "confirm"} => op.route \in Specs
    /\ op.step \in {"health", "confirm"} /\ fragment = op.route => loaded = op.route
    /\ op.step \in {"removed", "withdraw"} => fragment = "missing"
    /\ At("withdraw") => loaded = "missing"

\* A container keeps the spec it was created with, and its id to itself.
Proven(id) ==
    /\ id \in ContainerIds
    /\ container # None /\ container.id = id => container.spec = "canonical"

IdentitiesHold ==
    /\ op.step \in {"adopt", "look_adopted"} => op.id \in ContainerIds
    /\ op.step \in {"see_source", "see_service", "decide"} /\ op.named = "proven" =>
           Proven(op.id)
    /\ op.step \in {"probe", "repair"} => Proven(op.id)

\* A container that appears after it was found missing runs under its service.
NothingToReplace ==
    container = None \/ ~container.running \/ service = "active"

StartIsClear ==
    /\ op.step \in {"see_source", "see_service", "decide"} /\ op.named = "missing" =>
           NothingToReplace
    /\ op.step \in {"write", "daemon_reload", "start"} =>
           NothingToReplace /\ row.desired = "running"

RouteInvariant ==
    ReservationsHold /\ CaddyFollows /\ ActiveRouteIsServed /\ WithdrawnRouteIsGone
RuntimeInvariant == IdentitiesHold /\ StartIsClear
ConvInvariant == ConvTypeOK /\ RouteInvariant /\ RuntimeInvariant

-------------------------------------------------------------------------------
(* Types *)

\* A container that is created gets an identity that nothing refers to.
LEMMA FreshIdIsFree ==
    ASSUME ConvTypeOK
    PROVE  FreshId \in ContainerIds /\ FreshId \notin InUse
<1>1. row.recorded \in ContainerIds /\ op.known \in ContainerIds \cup {None}
      /\ op.id \in ContainerIds \cup {None}
  BY DEF ConvTypeOK, RowType, OpType
<1>2. PICK d \in ContainerIds \cup {None} :
          InUse \subseteq {row.recorded, op.known, op.id, d}
  BY DEF ConvTypeOK, Containers, InUse
<1>3. PICK i \in ContainerIds : i \notin {row.recorded, op.known, op.id, d}
  BY <1>1, IdsAssumption
<1> QED BY <1>2, <1>3 DEF FreshId

\* The command that holds no lock is an operation.
LEMMA IdleType == Idle \in OpType
  BY DEF Idle, OpType, Steps, Observation, Specs, Units, Routes

\* What a container was created from is a unit, and a unit is a route.
LEMMA SpecsAreUnits == Specs \subseteq Units /\ Units \subseteq Routes
  BY DEF Specs, Units, Routes

\* Observing the runtime keeps its row, and what a command knows, typed.
LEMMA ObserveType ==
    ASSUME ConvTypeOK, NEW id
    PROVE  /\ Observe(id) \in Observation
           /\ Observe(id) \in Specs => Observe(id) \in Units
           /\ Seen(Observe(id)) \in {"running", "stopped", "missing"}
  BY DEF Observe, Observation, Seen, ConvTypeOK, Containers, Specs, Units

\* What a step may do to the command keeps its type.
LEMMA GotoType ==
    ASSUME op \in OpType, NEW s \in Steps, Goto(s)
    PROVE  op' \in OpType
  BY DEF OpType, Goto

\* Finding the container of the stable name keeps what the command knows typed.
LEMMA NamedType ==
    ASSUME op \in OpType, NEW v \in {"missing", "proven", "other"},
           NEW i \in ContainerIds \cup {None},
           op' = [op EXCEPT !.step = "see_source", !.named = v, !.id = i]
    PROVE  op' \in OpType
<1>1. "see_source" \in Steps
  BY DEF Steps
<1> QED BY <1>1 DEF OpType

\* Starting a unit keeps the host typed.
LEMMA StartUnitType ==
    ASSUME ConvTypeOK, StartUnit \/ Create
    PROVE  /\ unit' \in Units /\ generated' \in Units
           /\ container' \in Containers \cup {None}
           /\ service' \in {"inactive", "activating", "active"}
<1>1. CASE Create
  BY <1>1, FreshIdIsFree DEF Create, ConvTypeOK, Containers, Units, Specs
<1>2. CASE UNCHANGED systemd
  BY <1>2 DEF systemd, ConvTypeOK
<1> QED BY <1>1, <1>2 DEF StartUnit

\* A fault that happens is one less that may.
LEMMA BudgetType ==
    ASSUME ConvTypeOK, Spend
    PROVE  budget' \in 0..MaxFaults
<1>1. budget \in 0..MaxFaults
  BY DEF ConvTypeOK
<1>2. budget' = budget - 1 /\ budget > 0
  BY DEF Spend
<1> QED BY <1>1, <1>2, FaultsAssumption

\* A step of the command that only observes, or that records what it saw.
LEMMA ObservingType ==
    ASSUME ConvTypeOK, op' \in OpType,
           row' \in RowType, row'.state = row.state, row'.route = row.route,
           row'.visibility = row.visibility, row'.domain = row.domain,
           UNCHANGED <<unit, generated, container, service, fragment, loaded, budget>>
    PROVE  ConvTypeOK'
  BY DEF ConvTypeOK

\* A step that changes nothing but the operation keeps the types.
LEMMA ThinkingType ==
    ASSUME ConvTypeOK, op' \in OpType,
           UNCHANGED <<row, unit, generated, container, service, fragment, loaded, budget>>
    PROVE  ConvTypeOK'
<1>1. row \in RowType
  BY DEF ConvTypeOK
<1> QED BY <1>1, ObservingType

\* Every command begins typed.
LEMMA BeginType ==
    ASSUME ConvTypeOK, Begin
    PROVE  ConvTypeOK'
<1> USE DEF systemd, caddy
<1>1. row \in RowType /\ row.recorded \in ContainerIds
  BY DEF ConvTypeOK, RowType
<1>2. CASE BeginPublic
  <2>1. op' \in OpType
    <3>1. "inspect" \in Steps
      BY DEF Steps
    <3> QED BY <1>2, <3>1, IdleType DEF BeginPublic, OpType
  <2>2. row' \in RowType
    BY <1>1, <1>2 DEF BeginPublic, RowType, States
  <2> QED BY <1>1, <1>2, <2>1, <2>2 DEF BeginPublic, ConvTypeOK, RowType
<1>3. CASE BeginInternal
  <2>1. op' \in OpType
    <3>1. "remove" \in Steps
      BY DEF Steps
    <3> QED BY <1>3, <3>1, IdleType DEF BeginInternal, OpType
  <2>2. row' \in RowType
    BY <1>1, <1>3 DEF BeginInternal, RowType, States
  <2> QED BY <1>1, <1>3, <2>1, <2>2 DEF BeginInternal, ConvTypeOK, RowType
<1>6. ASSUME NEW k \in {"start", "stop"}, NEW d \in {"running", "stopped"},
             BeginLifecycle(k, d)
      PROVE  ConvTypeOK'
  <2>1. op' \in OpType
    <3>1. "look" \in Steps
      BY DEF Steps
    <3> QED BY <1>1, <1>6, <3>1, IdleType DEF BeginLifecycle, OpType
  <2>2. row' \in RowType
    BY <1>1, <1>6 DEF BeginLifecycle, RowType
  <2> QED BY <1>1, <1>6, <2>1, <2>2 DEF BeginLifecycle, ConvTypeOK, RowType
<1>4. CASE BeginStatus
  <2>1. op' \in OpType
    <3>1. "report" \in Steps
      BY DEF Steps
    <3> QED BY <1>1, <1>4, <3>1, IdleType DEF BeginStatus, OpType
  <2>2. UNCHANGED <<row, unit, generated, container, service, fragment, loaded, budget>>
    BY <1>4 DEF BeginStatus
  <2> QED BY <2>1, <2>2, ThinkingType
<1>5. CASE BeginReconcile
  <2>1. op' \in OpType
    <3>1. "see_recorded" \in Steps
      BY DEF Steps
    <3> QED BY <1>5, <3>1, IdleType DEF BeginReconcile, OpType
  <2>2. UNCHANGED <<row, unit, generated, container, service, fragment, loaded, budget>>
    BY <1>5 DEF BeginReconcile
  <2> QED BY <2>1, <2>2, ThinkingType
<1> QED BY <1>2, <1>3, <1>4, <1>5, <1>6 DEF Begin

\* Every step of a visibility change keeps the types.
LEMMA ExposureType ==
    ASSUME ConvInvariant, ExposureStep
    PROVE  ConvTypeOK'
<1> USE DEF systemd, caddy, ConvInvariant
<1>1. CASE InspectRuntime
  <2>1. CASE Observe(row.recorded) \in Specs
    <3>1. op' \in OpType
      <4>1. op \in OpType /\ Observe(row.recorded) \in Units
        BY <2>1, SpecsAreUnits DEF ConvTypeOK
      <4>2. op' = [op EXCEPT !.step = "replace", !.route = Observe(row.recorded)]
        BY <1>1, <2>1 DEF InspectRuntime
      <4> QED BY ZenonT(60), <4>1, <4>2 DEF OpType, Steps
    <3> QED BY <1>1, <3>1 DEF InspectRuntime, ConvTypeOK
  <2>2. CASE Observe(row.recorded) \notin Specs
    BY <1>1, <2>2 DEF InspectRuntime, Goto, ConvTypeOK, OpType, Steps
  <2> QED BY <2>1, <2>2
<1>2. CASE ReplaceFragment
  BY <1>2, SpecsAreUnits
     DEF ReplaceFragment, At, ConvTypeOK, OpType, Steps
<1>3. CASE RemoveFragment
  <2>1. op' \in OpType
    BY ZenonT(60), <1>3 DEF RemoveFragment, ConvTypeOK, OpType, Steps
  <2> QED BY <1>3, <2>1 DEF RemoveFragment, ConvTypeOK, Routes, Units
<1>4. CASE Reload
  BY <1>4
     DEF Reload, Goto, ConvTypeOK, OpType, Steps
<1>5. CASE Refused
  BY <1>5, BudgetType
     DEF Refused, Goto, ConvTypeOK, OpType, Steps
<1>6. CASE RestoreFile
  BY <1>6
     DEF RestoreFile, At, Goto, ConvTypeOK, OpType, Steps
<1>7. CASE ReloadRestored
  BY <1>7
     DEF ReloadRestored, Goto, ConvTypeOK, OpType, Steps
<1>8. CASE NotRestored
  BY <1>8, BudgetType
     DEF NotRestored, Goto, ConvTypeOK, OpType, Steps
<1>9. CASE CheckExternalHealth
  BY <1>9
     DEF CheckExternalHealth, Goto, ConvTypeOK, OpType, Steps
<1>10. CASE ConfirmPublic
  <2>1. op' \in OpType
    BY <1>10, IdleType DEF ConfirmPublic, End
  <2>2. op.route \in Units /\ op.route # "missing" /\ row \in RowType
    BY <1>10, SpecsAreUnits
       DEF ConfirmPublic, At, RouteInvariant, CaddyFollows, Specs, ConvTypeOK, RowType
  <2>3. row' \in RowType /\ row'.state = "active" /\ row'.route # "missing"
        /\ row'.visibility = row.visibility /\ row'.domain = row.domain
    BY <1>10, <2>2 DEF ConfirmPublic, RowType, States
  <2> QED BY <1>10, <2>1, <2>3 DEF ConfirmPublic, ConvTypeOK
<1>11. CASE ConfirmInternal
  <2>1. op' \in OpType
    BY <1>11, IdleType DEF ConfirmInternal, End
  <2>2. row \in RowType
    BY DEF ConvTypeOK
  <2>3. row' \in RowType /\ row'.state = "not_materialized" /\ row'.route = "missing"
        /\ row'.visibility = row.visibility /\ row'.domain = row.domain
    BY <1>11, <2>2 DEF ConfirmInternal, RowType, States, Units
  <2> QED BY <1>11, <2>1, <2>3 DEF ConfirmInternal, ConvTypeOK
<1>12. CASE NotConfirmed
  BY <1>12, BudgetType, IdleType
     DEF NotConfirmed, Goto, End, ConvTypeOK, OpType, Steps
<1>13. CASE RecordFailed
  BY <1>13, IdleType
     DEF RecordFailed, RecordFailure, End, RowType, States, ConvTypeOK, OpType, Steps
<1>14. CASE RecordDiverged
  BY <1>14, IdleType
     DEF RecordDiverged, RecordFailure, End, RowType, States, ConvTypeOK, OpType, Steps
<1>15. CASE NotStarted
  BY <1>15, BudgetType
     DEF NotStarted, Goto, ConvTypeOK, OpType, Steps
<1> QED
  BY <1>1, <1>2, <1>3, <1>4, <1>5, <1>6, <1>7, <1>8, <1>9, <1>10, <1>11, <1>12, <1>13,
     <1>14, <1>15
     DEF ExposureStep

\* Every step of start, stop and status keeps the types.
LEMMA LifecycleType ==
    ASSUME ConvInvariant, LifecycleStep
    PROVE  ConvTypeOK'
<1> USE DEF systemd, caddy, ConvInvariant
<1>1. CASE Look
  BY <1>1, ObserveType, IdleType
     DEF Look, ActOn, Report, Goto, End, RowType, ConvTypeOK, OpType, Steps
<1>2. CASE Resolve
  <2>1. CASE container = None
    BY <1>2, <2>1 DEF Resolve, Goto, ConvTypeOK, OpType, Steps
  <2>2. CASE container # None
    <3>1. container.id \in ContainerIds
      BY <2>2 DEF ConvTypeOK, Containers
    <3>2. op' \in OpType
      <4>1. op \in OpType /\ op' = [op EXCEPT !.step = "adopt", !.id = container.id]
        BY <1>2, <2>2 DEF Resolve, ConvTypeOK
      <4> QED BY ZenonT(60), <3>1, <4>1 DEF OpType, Steps
    <3> QED BY <1>2, <3>2 DEF Resolve, ConvTypeOK
  <2> QED BY <2>1, <2>2
<1>3. CASE ResolveFails
  BY <1>3, BudgetType
     DEF ResolveFails, Goto, ConvTypeOK, OpType, Steps
<1>4. CASE Adopt
  <2>1. op' \in OpType
    <3>1. op \in OpType /\ "look_adopted" \in Steps
      BY DEF ConvTypeOK, Steps
    <3>2. Goto("look_adopted") \/ End
      BY <1>4 DEF Adopt
    <3> QED BY <3>1, <3>2, GotoType, IdleType DEF End
  <2>2. op.id \in ContainerIds /\ row \in RowType
    BY <1>4 DEF Adopt, At, RuntimeInvariant, IdentitiesHold, ConvTypeOK
  <2>3. row' \in RowType /\ row'.state = row.state /\ row'.route = row.route
        /\ row'.visibility = row.visibility /\ row'.domain = row.domain
    <3>1. row' = row \/ row' = [row EXCEPT !.recorded = op.id, !.seen = "running"]
      BY <1>4 DEF Adopt
    <3> QED BY <2>2, <3>1 DEF RowType
  <2>4. UNCHANGED <<unit, generated, container, service, fragment, loaded, budget>>
    BY <1>4 DEF Adopt
  <2> QED BY <2>1, <2>3, <2>4, ObservingType
<1>5. CASE LookAdopted
  <2>1. op' \in OpType
    <3>1. op \in OpType /\ {"absent", "control"} \subseteq Steps
      BY DEF ConvTypeOK, Steps
    <3>2. Goto("absent") \/ Goto("control") \/ End
      BY <1>5 DEF LookAdopted, ActOn, Report
    <3> QED BY <3>1, <3>2, GotoType, IdleType DEF End
  <2>2. /\ row' \in RowType /\ row'.state = row.state /\ row'.route = row.route
        /\ row'.visibility = row.visibility /\ row'.domain = row.domain
    <3>1. row \in RowType /\ Seen(Observe(op.id)) \in {"running", "stopped", "missing"}
      BY ObserveType DEF ConvTypeOK
    <3>2. row' = row \/ row' = [row EXCEPT !.seen = Seen(Observe(op.id))]
      BY <1>5 DEF LookAdopted, ActOn, Report
    <3> QED BY <3>1, <3>2 DEF RowType
  <2>3. UNCHANGED <<unit, generated, container, service, fragment, loaded, budget>>
    BY <1>5 DEF LookAdopted
  <2> QED BY <2>1, <2>2, <2>3, ObservingType
<1>6. CASE Absent
  <2>1. op' \in OpType
    <3>1. op \in OpType /\ "recover" \in Steps
      BY DEF ConvTypeOK, Steps
    <3>2. Goto("recover") \/ End
      BY <1>6 DEF Absent, Report
    <3> QED BY <3>1, <3>2, GotoType, IdleType DEF End
  <2>2. /\ row' \in RowType /\ row'.state = row.state /\ row'.route = row.route
        /\ row'.visibility = row.visibility /\ row'.domain = row.domain
    <3>1. row \in RowType
      BY DEF ConvTypeOK
    <3>2. row' = row \/ row' = [row EXCEPT !.seen = "missing"]
      BY <1>6 DEF Absent, Report, Seen, Specs
    <3> QED BY <3>1, <3>2 DEF RowType
  <2>3. UNCHANGED <<unit, generated, container, service, fragment, loaded, budget>>
    BY <1>6 DEF Absent
  <2> QED BY <2>1, <2>2, <2>3, ObservingType
<1>7. CASE Recover
  <2>1. op' \in OpType
    <3>1. op \in OpType /\ "look" \in Steps
      BY DEF ConvTypeOK, Steps
    <3> QED BY <1>7, <3>1 DEF Recover, OpType
  <2>2. /\ unit' \in Units /\ generated' \in Units
        /\ container' \in Containers \cup {None}
        /\ service' \in {"inactive", "activating", "active"}
    BY <1>7, StartUnitType DEF Recover
  <2>3. UNCHANGED <<row, fragment, loaded, budget>>
    BY <1>7 DEF Recover
  <2> QED BY <2>1, <2>2, <2>3 DEF ConvTypeOK
<1>8. CASE Control
  <2>1. op' \in OpType
    BY <1>8 DEF Control, Goto, ConvTypeOK, OpType, Steps
  <2>2. /\ unit' \in Units /\ generated' \in Units
        /\ container' \in Containers \cup {None}
        /\ service' \in {"inactive", "activating", "active"}
    <3>1. CASE StartUnit
      BY <3>1, StartUnitType
    <3>2. CASE StopUnit
      BY <3>2 DEF StopUnit, ConvTypeOK
    <3>3. CASE PodmanStart
      BY <3>3 DEF PodmanStart, Observe, ConvTypeOK, Containers
    <3>4. CASE PodmanStop
      BY <3>4 DEF PodmanStop, Observe, ConvTypeOK, Containers
    <3> QED BY <1>8, <3>1, <3>2, <3>3, <3>4 DEF Control
  <2> QED BY <1>8, <2>1, <2>2 DEF Control, ConvTypeOK
<1>9. CASE ReportControlled
  BY <1>9, ObserveType, IdleType
     DEF ReportControlled, Report, End, RowType, ConvTypeOK, OpType, Steps
<1>10. CASE Refuse
  BY <1>10, IdleType
     DEF Refuse, End, ConvTypeOK, OpType, Steps
<1> QED BY <1>1, <1>2, <1>3, <1>4, <1>5, <1>6, <1>7, <1>8, <1>9, <1>10 DEF LifecycleStep

\* Every step of a reconciliation keeps the types.
LEMMA ReconcileType ==
    ASSUME ConvInvariant, ReconcileStep
    PROVE  ConvTypeOK'
<1> USE DEF systemd, caddy, ConvInvariant
<1>1. CASE SeeRecorded
  <2>1. op' \in OpType
    <3>1. op \in OpType /\ "see_named" \in Steps
      BY DEF ConvTypeOK, Steps
    <3>2. Observe(row.recorded) \in Observation
      BY ObserveType
    <3> QED BY <1>1, <3>1, <3>2 DEF SeeRecorded, OpType
  <2>2. UNCHANGED <<row, unit, generated, container, service, fragment, loaded, budget>>
    BY <1>1 DEF SeeRecorded
  <2> QED BY <2>1, <2>2, ThinkingType
<1>2. CASE SeeNamed
  <2>1. \E v \in {"missing", "proven", "other"}, i \in ContainerIds \cup {None} :
            op' = [op EXCEPT !.step = "see_source", !.named = v, !.id = i]
    BY <1>2 DEF SeeNamed, ConvTypeOK, Containers
  <2>2. op' \in OpType
    BY <2>1, NamedType DEF ConvTypeOK
  <2>3. UNCHANGED <<row, unit, generated, container, service, fragment, loaded, budget>>
    BY <1>2 DEF SeeNamed
  <2> QED BY <2>2, <2>3, ThinkingType
<1>3. CASE SeeSource
  <2>1. op' \in OpType
    <3>1. op \in OpType /\ "see_service" \in Steps /\ unit \in Units
      BY DEF ConvTypeOK, Steps
    <3> QED BY <1>3, <3>1 DEF SeeSource, OpType
  <2>2. UNCHANGED <<row, unit, generated, container, service, fragment, loaded, budget>>
    BY <1>3 DEF SeeSource
  <2> QED BY <2>1, <2>2, ThinkingType
<1>4. CASE SeeService
  <2>1. \E b \in BOOLEAN : op' = [op EXCEPT !.step = "decide", !.startable = b]
    BY <1>4, ZenonT(20) DEF SeeService
  <2>2. op' \in OpType
    <3>1. op \in OpType /\ "decide" \in Steps
      BY DEF ConvTypeOK, Steps
    <3> QED BY <2>1, <3>1 DEF OpType
  <2>3. UNCHANGED <<row, unit, generated, container, service, fragment, loaded, budget>>
    BY <1>4 DEF SeeService
  <2> QED BY <2>2, <2>3, ThinkingType
<1>5. CASE Decide
  <2>1. op' \in OpType
    <3>1. CASE Decision = "idle"
      BY <1>5, <3>1, IdleType DEF Decide
    <3>2. CASE Decision # "idle"
      <4>1. Decision \in Steps
        BY DEF Decision, ExposureDecision, PublicDecision, Steps
      <4>2. \E i \in ContainerIds \cup {None} :
                op' = [Idle EXCEPT !.kind = "reconcile", !.step = Decision, !.id = i]
        BY <1>5, <3>2 DEF Decide, ConvTypeOK, OpType
      <4> QED BY <4>1, <4>2, IdleType DEF OpType
    <3> QED BY <3>1, <3>2
  <2> QED BY <1>5, <2>1 DEF Decide, ConvTypeOK
<1>6. CASE ReservePublic
  <2>1. op' \in OpType
    <3>1. op \in OpType /\ op' = [op EXCEPT !.step = "replace", !.route = "canonical"]
      BY <1>6 DEF ReservePublic, ConvTypeOK
    <3>2. "canonical" \in Units
      BY DEF Units, Specs
    <3> QED BY ZenonT(60), <3>1, <3>2 DEF OpType, Steps
  <2>2. row' \in RowType /\ row'.state = "applying"
        /\ row'.visibility = row.visibility /\ row'.domain = row.domain
    BY <1>6 DEF ReservePublic, ConvTypeOK, RowType, States
  <2> QED BY <1>6, <2>1, <2>2 DEF ReservePublic, ConvTypeOK
<1>7. CASE ReserveRemoval
  BY <1>7
     DEF ReserveRemoval, RowType, States, Goto, ConvTypeOK, OpType, Steps
<1>8. CASE WriteUnit
  BY <1>8
     DEF WriteUnit, Goto, Units, Specs, ConvTypeOK, OpType, Steps
<1>9. CASE WriteFails
  BY <1>9, BudgetType, IdleType
     DEF WriteFails, End, Units, Specs, ConvTypeOK, OpType, Steps
<1>10. CASE ReloadUnits
  BY <1>10
     DEF ReloadUnits, Goto, ConvTypeOK, OpType, Steps
<1>11. CASE StartRematerialized
  BY <1>11, StartUnitType
     DEF StartRematerialized, Goto, ConvTypeOK, OpType, Steps
<1>12. CASE Identify
  <2>1. op' \in OpType
    <3>1. CASE IsProven
      <4>1. container.id \in ContainerIds
        BY <3>1 DEF IsProven, ConvTypeOK, Containers
      <4>2. op \in OpType /\ op' = [op EXCEPT !.step = "probe", !.id = container.id]
        BY <1>12, <3>1 DEF Identify, ConvTypeOK
      <4> QED BY ZenonT(60), <4>1, <4>2 DEF OpType, Steps
    <3>2. CASE ~IsProven
      BY <1>12, <3>2, IdleType DEF Identify, End
    <3> QED BY <3>1, <3>2
  <2> QED BY <1>12, <2>1 DEF Identify, ConvTypeOK
<1>13. CASE CheckInternalHealth
  BY <1>13, IdleType
     DEF CheckInternalHealth, Goto, End, ConvTypeOK, OpType, Steps
<1>14. CASE Repair
  <2>1. op' \in OpType
    BY <1>14, IdleType DEF Repair, End
  <2>2. op.id \in ContainerIds /\ row \in RowType
    BY <1>14 DEF Repair, At, RuntimeInvariant, IdentitiesHold, Proven, ConvTypeOK
  <2>3. row' \in RowType /\ row'.state = row.state /\ row'.route = row.route
        /\ row'.visibility = row.visibility /\ row'.domain = row.domain
    BY <1>14, <2>2 DEF Repair, RowType
  <2> QED BY <1>14, <2>1, <2>3 DEF Repair, ConvTypeOK
<1> QED
  BY <1>1, <1>2, <1>3, <1>4, <1>5, <1>6, <1>7, <1>8, <1>9, <1>10, <1>11, <1>12, <1>13,
     <1>14
     DEF ReconcileStep

\* Whatever the host, a neighbour or an editor does keeps the types.
LEMMA HostType ==
    ASSUME ConvInvariant, Host
    PROVE  ConvTypeOK'
<1> USE DEF systemd, caddy, ConvInvariant
<1>1. CASE SystemdStarts
  BY <1>1, StartUnitType
     DEF SystemdStarts, ConvTypeOK, OpType, Steps
<1>2. CASE ContainerExits
  <2>1. container' \in Containers \cup {None}
    BY <1>2 DEF ContainerExits, ConvTypeOK, Containers
  <2>2. service' \in {"inactive", "activating", "active"}
    BY <1>2 DEF ContainerExits, ConvTypeOK
  <2> QED BY <1>2, <2>1, <2>2, BudgetType DEF ContainerExits, ConvTypeOK
<1>3. CASE Drift
  BY <1>3, BudgetType
     DEF Drift, Units, Routes, Specs, ConvTypeOK, OpType, Steps
<1>4. CASE NeighbourReloadsCaddy
  BY <1>4
     DEF NeighbourReloadsCaddy, ConvTypeOK, OpType, Steps
<1>5. CASE NeighbourReloadsUnits
  BY <1>5
     DEF NeighbourReloadsUnits, ConvTypeOK, OpType, Steps
<1>6. CASE Crash
  BY <1>6, BudgetType, IdleType
     DEF Crash, End, Units, Specs, ConvTypeOK, OpType, Steps
<1>7. CASE Reboot
  <2>1. op' \in OpType
    BY <1>7, IdleType DEF Reboot, End
  <2>2. container' \in Containers \cup {None} /\ service' \in {"inactive", "active"}
    <3>1. FreshId \in ContainerIds /\ (unit # "missing" => unit \in Specs)
      BY FreshIdIsFree DEF ConvTypeOK, Units
    <3>2. CASE container' = [id |-> FreshId, spec |-> unit, running |-> TRUE]
               /\ service' = "active" /\ unit # "missing"
      BY <3>1, <3>2 DEF Containers
    <3>3. CASE container' = None /\ service' = "inactive"
      BY <3>3
    <3> QED BY <1>7, <3>2, <3>3 DEF Reboot, Boots
  <2> QED BY <1>7, <2>1, <2>2, BudgetType DEF Reboot, ConvTypeOK
<1> QED BY <1>1, <1>2, <1>3, <1>4, <1>5, <1>6, <1>7 DEF Host

\* So does a call that fails.
LEMMA FailsType ==
    ASSUME ConvInvariant, Fails
    PROVE  ConvTypeOK'
  BY IdleType, BudgetType DEF Fails, End, systemd, caddy, ConvInvariant, ConvTypeOK

\* Every step keeps the types.
LEMMA NextType ==
    ASSUME ConvInvariant, [ConvNext]_vars
    PROVE  ConvTypeOK'
<1>1. CASE UNCHANGED vars
  BY <1>1 DEF vars, systemd, caddy, ConvInvariant, ConvTypeOK
<1> QED
  BY <1>1, BeginType, ExposureType, LifecycleType, ReconcileType, FailsType, HostType
     DEF ConvNext, Step, ConvInvariant

-------------------------------------------------------------------------------
(* The route *)

\* The steps at which a command owes something to the route or to its row.
RouteSteps ==
    {"inspect", "replace", "replaced", "health", "confirm", "remove", "removed",
     "withdraw", "restore", "reload", "record_failed", "record_diverged",
     "reserve_public", "reserve_removal"}

\* A step that leaves the route alone and owes it nothing keeps its invariant.
LEMMA RouteFrame ==
    ASSUME RouteInvariant, UNCHANGED caddy,
           row'.state = row.state, row'.route = row.route,
           op'.step \notin RouteSteps
    PROVE  RouteInvariant'
  BY DEF RouteInvariant, ReservationsHold, CaddyFollows, ActiveRouteIsServed,
         WithdrawnRouteIsGone, RouteSteps, At, caddy

\* Who holds no lock is at no step that reserved a route.
LEMMA IdleStep == Idle.step = "idle" /\ Idle.step \notin RouteSteps
  BY DEF Idle, RouteSteps

\* A command that begins finds the route as it was left.
LEMMA BeginRoute ==
    ASSUME ConvInvariant, Begin
    PROVE  RouteInvariant'
<1>1. row \in RowType /\ op \in OpType /\ RouteInvariant
  BY DEF ConvInvariant, ConvTypeOK
<1>2. CASE BeginPublic
  <2>1. row'.state = "applying" /\ row'.route = row.route /\ op'.step = "inspect"
    BY <1>1, <1>2 DEF BeginPublic, RowType, Idle
  <2> QED
    BY <1>1, <1>2, <2>1 DEF BeginPublic, caddy, RouteInvariant, ReservationsHold,
       CaddyFollows, ActiveRouteIsServed, WithdrawnRouteIsGone, At
<1>3. CASE BeginInternal
  <2>1. row'.state = "removing" /\ row'.route = row.route /\ op'.step = "remove"
    BY <1>1, <1>3 DEF BeginInternal, RowType, Idle
  <2> QED
    BY <1>1, <1>3, <2>1 DEF BeginInternal, caddy, RouteInvariant, ReservationsHold,
       CaddyFollows, ActiveRouteIsServed, WithdrawnRouteIsGone, At
<1>4. ASSUME NEW k, NEW d, BeginLifecycle(k, d)
      PROVE  RouteInvariant'
  <2>1. op'.step = "look" /\ row'.state = row.state /\ row'.route = row.route
    BY <1>1, <1>4 DEF BeginLifecycle, RowType, Idle
  <2> QED BY <1>1, <1>4, <2>1, RouteFrame DEF BeginLifecycle, RouteSteps
<1>5. CASE BeginStatus \/ BeginReconcile
  <2>1. op'.step \in {"report", "see_recorded"} /\ UNCHANGED row
    BY <1>5 DEF BeginStatus, BeginReconcile, Idle
  <2> QED BY <1>1, <1>5, <2>1, RouteFrame DEF BeginStatus, BeginReconcile, RouteSteps
<1> QED BY <1>2, <1>3, <1>4, <1>5 DEF Begin

\* A visibility change follows its reservation.
LEMMA ExposureRoute ==
    ASSUME ConvInvariant, ExposureStep
    PROVE  RouteInvariant'
<1>1. row \in RowType /\ op \in OpType /\ RouteInvariant
  BY DEF ConvInvariant, ConvTypeOK
<1> USE DEF RouteInvariant, ReservationsHold, CaddyFollows, ActiveRouteIsServed,
            WithdrawnRouteIsGone, At, Goto, caddy
<1>2. CASE InspectRuntime
  BY ZenonT(60), <1>1, <1>2 DEF InspectRuntime, OpType
<1>3. CASE ReplaceFragment
  BY <1>1, <1>3 DEF ReplaceFragment, OpType
<1>4. CASE RemoveFragment
  BY <1>1, <1>4 DEF RemoveFragment, OpType
<1>5. CASE Reload
  BY <1>1, <1>5 DEF Reload, OpType
<1>6. CASE Refused
  BY <1>1, <1>6 DEF Refused, OpType
<1>7. CASE RestoreFile
  BY <1>1, <1>7 DEF RestoreFile, OpType
<1>8. CASE ReloadRestored
  BY <1>1, <1>8 DEF ReloadRestored, OpType
<1>9. CASE NotRestored
  BY <1>1, <1>9 DEF NotRestored, OpType
<1>10. CASE CheckExternalHealth
  BY <1>1, <1>10 DEF CheckExternalHealth, OpType
<1>11. CASE ConfirmPublic
  BY <1>1, <1>11, IdleStep DEF ConfirmPublic, End, RowType
<1>12. CASE ConfirmInternal
  BY <1>1, <1>12, IdleStep DEF ConfirmInternal, End, RowType
<1>13. CASE NotConfirmed
  BY <1>1, <1>13, IdleStep DEF NotConfirmed, End, OpType
<1>14. CASE RecordFailed \/ RecordDiverged
  BY <1>1, <1>14, IdleStep DEF RecordFailed, RecordDiverged, RecordFailure, End, RowType
<1>15. CASE NotStarted
  BY <1>1, <1>15 DEF NotStarted, OpType
<1> QED
  BY <1>2, <1>3, <1>4, <1>5, <1>6, <1>7, <1>8, <1>9, <1>10, <1>11, <1>12, <1>13, <1>14,
     <1>15
     DEF ExposureStep

\* Start, stop and status leave the route alone.
LEMMA LifecycleRoute ==
    ASSUME ConvInvariant, LifecycleStep
    PROVE  RouteInvariant'
<1>1. row \in RowType /\ op \in OpType /\ RouteInvariant
  BY DEF ConvInvariant, ConvTypeOK
<1>2. UNCHANGED caddy
  BY DEF LifecycleStep, Look, Resolve, ResolveFails, Adopt, LookAdopted, Absent, Recover,
         Control, ReportControlled, Refuse, caddy
<1>3. row'.state = row.state /\ row'.route = row.route
  BY <1>1
     DEF LifecycleStep, Look, Resolve, ResolveFails, Adopt, LookAdopted, Absent,
         Recover, Control, ReportControlled, Refuse, ActOn, Report, RowType
<1>4. op'.step \in {"idle", "control", "resolve", "absent", "adopt", "look_adopted",
                    "recover", "look", "report"}
  BY <1>1, IdleStep
     DEF LifecycleStep, Look, Resolve, ResolveFails, Adopt, LookAdopted, Absent,
         Recover, Control, ReportControlled, Refuse, ActOn, Report, Goto, End, OpType
<1> QED BY <1>1, <1>2, <1>3, <1>4, RouteFrame DEF RouteSteps

\* A decision that carries something out on the route is not taken of a
\* diverged row, and the others leave the route alone.
LEMMA DecisionIsAllowed ==
    /\ Decision \in {"idle", "repair", "start", "write", "record_failed",
                     "reserve_public", "reserve_removal"}
    /\ row.state = "diverged" => Decision \in {"idle", "repair", "start", "write"}
  BY DEF Decision, ExposureDecision, PublicDecision

\* A reconciliation follows its reservation.
LEMMA ReconcileRoute ==
    ASSUME ConvInvariant, ReconcileStep
    PROVE  RouteInvariant'
<1>1. row \in RowType /\ op \in OpType /\ RouteInvariant
  BY DEF ConvInvariant, ConvTypeOK
<1>2. UNCHANGED caddy
  BY DEF ReconcileStep, SeeRecorded, SeeNamed, SeeSource, SeeService, Decide,
         ReservePublic, ReserveRemoval, WriteUnit, WriteFails, ReloadUnits,
         StartRematerialized, Identify, CheckInternalHealth, Repair, caddy
<1>3. CASE Decide
  <2>1. op'.step = Decision
    BY <1>3, IdleStep DEF Decide, Idle
  <2> QED
    BY <1>1, <1>2, <1>3, <2>1, DecisionIsAllowed
       DEF Decide, RouteInvariant, ReservationsHold, CaddyFollows, ActiveRouteIsServed,
           WithdrawnRouteIsGone, At, caddy
<1>4. CASE ReservePublic
  <2>1. row'.state = "applying" /\ op'.step = "replace" /\ op'.route = "canonical"
    BY <1>1, <1>4 DEF ReservePublic, RowType, OpType
  <2> QED
    BY <1>1, <1>2, <2>1
       DEF RouteInvariant, ReservationsHold, CaddyFollows, ActiveRouteIsServed,
           WithdrawnRouteIsGone, At, caddy, Specs
<1>5. CASE ReserveRemoval
  <2>1. row'.state = "removing" /\ op'.step = "remove"
    BY <1>1, <1>5 DEF ReserveRemoval, Goto, RowType, OpType
  <2> QED
    BY <1>1, <1>2, <2>1
       DEF RouteInvariant, ReservationsHold, CaddyFollows, ActiveRouteIsServed,
           WithdrawnRouteIsGone, At, caddy
<1>6. CASE SeeRecorded \/ SeeNamed \/ SeeSource \/ SeeService
  <2>1. op'.step \in {"see_named", "see_source", "see_service", "decide"} /\ UNCHANGED row
    BY <1>1, <1>6 DEF SeeRecorded, SeeNamed, SeeSource, SeeService, OpType
  <2> QED BY <1>1, <1>2, <2>1, RouteFrame DEF RouteSteps
<1>7. CASE WriteUnit \/ WriteFails \/ ReloadUnits \/ StartRematerialized
  <2>1. op'.step \in {"daemon_reload", "start", "identify", "idle"} /\ UNCHANGED row
    BY <1>1, <1>7, IdleStep
       DEF WriteUnit, WriteFails, ReloadUnits, StartRematerialized, Goto, End, OpType
  <2> QED BY <1>1, <1>2, <2>1, RouteFrame DEF RouteSteps
<1>8. CASE Identify \/ CheckInternalHealth \/ Repair
  <2>1. op'.step \in {"probe", "repair", "idle"}
    BY <1>1, <1>8, IdleStep DEF Identify, CheckInternalHealth, Repair, Goto, End, OpType
  <2>2. row'.state = row.state /\ row'.route = row.route
    BY <1>1, <1>8 DEF Identify, CheckInternalHealth, Repair, RowType
  <2> QED BY <1>1, <1>2, <2>1, <2>2, RouteFrame DEF RouteSteps
<1> QED BY <1>3, <1>4, <1>5, <1>6, <1>7, <1>8 DEF ReconcileStep

\* A failure leaves the route to what the row says of it.
LEMMA FailsRoute ==
    ASSUME ConvInvariant, Fails
    PROVE  RouteInvariant'
  BY RouteFrame, IdleStep DEF Fails, End, ConvInvariant

\* Another reload and an edit by hand part no confirmed route from Caddy.
LEMMA HostRoute ==
    ASSUME ConvInvariant, Host
    PROVE  RouteInvariant'
<1>1. row \in RowType /\ op \in OpType /\ RouteInvariant /\ ConvTypeOK
  BY DEF ConvInvariant, ConvTypeOK
<1> USE DEF RouteInvariant, ReservationsHold, CaddyFollows, ActiveRouteIsServed,
            WithdrawnRouteIsGone, At, caddy
<1>2. CASE SystemdStarts \/ ContainerExits \/ NeighbourReloadsUnits
  BY <1>1, <1>2 DEF SystemdStarts, ContainerExits, NeighbourReloadsUnits
<1>3. CASE NeighbourReloadsCaddy
  BY <1>1, <1>3 DEF NeighbourReloadsCaddy
<1>4. CASE Drift
  BY <1>1, <1>4 DEF Drift, ConvTypeOK, RowType, Units, Specs
<1>5. CASE Crash
  BY <1>1, <1>5, IdleStep, RouteFrame DEF Crash, End
<1>6. CASE Reboot
  BY <1>1, <1>6, IdleStep DEF Reboot, End, RouteSteps
<1> QED BY <1>2, <1>3, <1>4, <1>5, <1>6 DEF Host

-------------------------------------------------------------------------------
(* The runtime *)

\* The steps of a command that trusts what it saw of a container.
RuntimeSteps ==
    {"adopt", "look_adopted", "see_source", "see_service", "decide",
     "write", "daemon_reload", "start", "probe", "repair"}

\* Only at these steps does a command rely on what it saw of the runtime.
LEMMA RuntimeFrame ==
    ASSUME op'.step \notin RuntimeSteps
    PROVE  RuntimeInvariant'
  BY DEF RuntimeInvariant, IdentitiesHold, StartIsClear, RuntimeSteps

\* Who holds no lock relies on nothing.
LEMMA IdleIsNoRuntimeStep == Idle.step \notin RuntimeSteps
  BY DEF Idle, RuntimeSteps

\* What a container can become: gone, the same one, or one with a fresh id.
Succeeds ==
    \/ container' = None
    \/ container # None /\ container'.id = container.id /\ container'.spec = container.spec
    \/ container'.id \notin InUse

\* An identity that is proven stays so while its container is.
LEMMA ProvenIsKept ==
    ASSUME Succeeds, Proven(op.id), op'.id = op.id
    PROVE  Proven(op.id)'
  BY DEF Succeeds, Proven, InUse

\* A container that systemd creates has a fresh identity, and its unit is active.
LEMMA CreateSucceeds ==
    ASSUME ConvTypeOK, Create
    PROVE  Succeeds /\ service' = "active"
  BY FreshIdIsFree DEF Create, Succeeds

\* A command that begins knows no container yet.
LEMMA BeginRuntime ==
    ASSUME ConvInvariant, Begin
    PROVE  RuntimeInvariant'
<1>1. op'.step \in {"inspect", "remove", "look", "report", "see_recorded"}
  BY DEF Begin, BeginPublic, BeginInternal, BeginLifecycle, BeginStatus, BeginReconcile,
         Idle
<1> QED BY <1>1, RuntimeFrame DEF RuntimeSteps

\* A visibility change leaves the runtime alone.
LEMMA ExposureRuntime ==
    ASSUME ConvInvariant, ExposureStep
    PROVE  RuntimeInvariant'
<1>1. op \in OpType
  BY DEF ConvInvariant, ConvTypeOK
<1>2. op'.step \in {"replace", "record_failed", "replaced", "removed", "health", "withdraw",
                    "record_diverged", "restore", "reload", "confirm", "idle"}
  BY <1>1, IdleStep
     DEF ExposureStep, InspectRuntime, ReplaceFragment, RemoveFragment, Reload, Refused,
         RestoreFile, ReloadRestored, NotRestored, CheckExternalHealth, ConfirmPublic,
         ConfirmInternal, NotConfirmed, RecordFailed, RecordDiverged, RecordFailure,
         NotStarted, Goto, End, OpType
<1> QED BY <1>2, RuntimeFrame DEF RuntimeSteps

\* Start, stop and status act on the container that they looked at.
LEMMA LifecycleRuntime ==
    ASSUME ConvInvariant, LifecycleStep
    PROVE  RuntimeInvariant'
<1>1. op \in OpType /\ container \in Containers \cup {None} /\ IdentitiesHold
  BY DEF ConvInvariant, ConvTypeOK, RuntimeInvariant
<1>2. CASE Resolve
  <2>1. op'.step = "absent" \/ (op'.step = "adopt" /\ op'.id \in ContainerIds)
    BY <1>1, <1>2 DEF Resolve, Goto, OpType, Containers
  <2> QED BY <2>1 DEF RuntimeInvariant, IdentitiesHold, StartIsClear
<1>3. CASE Adopt
  <2>1. op'.step = "idle" \/ (op'.step = "look_adopted" /\ op'.id \in ContainerIds)
    BY <1>1, <1>3, IdleStep DEF Adopt, At, Goto, End, OpType, IdentitiesHold
  <2> QED BY <2>1 DEF RuntimeInvariant, IdentitiesHold, StartIsClear
<1>4. CASE Look \/ ResolveFails \/ LookAdopted \/ Absent \/ Recover \/ Control
           \/ ReportControlled \/ Refuse
  <2>1. op'.step \in {"resolve", "absent", "recover", "control", "look", "report", "idle"}
    BY <1>1, <1>4, IdleStep
       DEF Look, ResolveFails, LookAdopted, Absent, Recover, Control, ReportControlled,
           Refuse, ActOn, Report, Goto, End, OpType
  <2> QED BY <2>1, RuntimeFrame DEF RuntimeSteps
<1> QED BY <1>2, <1>3, <1>4 DEF LifecycleStep

\* It repairs only the container it took for canonical, and starts one only when it found none.
LEMMA DecisionIsClear ==
    /\ Decision = "repair" => op.named = "proven"
    /\ Decision \in {"write", "start"} => op.named = "missing" /\ row.desired = "running"
  BY DEF Decision, ExposureDecision, PublicDecision, Repairable, Rematerializable

\* A reconciliation repairs only what it proved.
LEMMA ReconcileRuntime ==
    ASSUME ConvInvariant, ReconcileStep
    PROVE  RuntimeInvariant'
<1>1. /\ op \in OpType /\ container \in Containers \cup {None}
      /\ IdentitiesHold /\ StartIsClear
  BY DEF ConvInvariant, ConvTypeOK, RuntimeInvariant
<1> USE DEF RuntimeInvariant, IdentitiesHold, StartIsClear, At
<1>2. CASE SeeNamed
  <2>1. /\ op'.step = "see_source" /\ UNCHANGED <<container, service>>
        /\ op'.named = "proven" => IsProven /\ op'.id = container.id
        /\ op'.named = "missing" => container = None
    BY <1>1, <1>2 DEF SeeNamed, OpType, systemd
  <2> QED BY <1>1, <2>1 DEF Proven, IsProven, NothingToReplace, Containers
<1>3. CASE SeeSource \/ SeeService
  <2>1. /\ op.step \in {"see_source", "see_service"}
        /\ op'.step \in {"see_service", "decide"}
        /\ op'.named = op.named /\ op'.id = op.id
        /\ UNCHANGED <<container, service>>
    BY <1>1, <1>3 DEF SeeSource, SeeService, OpType, systemd
  <2> QED BY <1>1, <2>1 DEF Proven, NothingToReplace
<1>4. CASE Decide
  <2>1. /\ op.step = "decide" /\ UNCHANGED <<row, container, service>>
        /\ op'.step = Decision
        /\ Decision = "repair" => op'.id = op.id
    BY <1>4, IdleStep DEF Decide, Idle, systemd
  <2> QED BY <1>1, <2>1, DecisionIsClear, DecisionIsAllowed DEF Proven, NothingToReplace
<1>5. CASE WriteUnit \/ ReloadUnits
  <2>1. /\ op.step \in {"write", "daemon_reload"} /\ op'.step \in {"daemon_reload", "start"}
        /\ UNCHANGED <<row, container, service>>
    BY <1>1, <1>5 DEF WriteUnit, ReloadUnits, Goto, OpType
  <2> QED BY <1>1, <2>1 DEF NothingToReplace
<1>6. CASE Identify
  <2>1. /\ UNCHANGED container
        /\ \/ op'.step = "idle"
           \/ op'.step = "probe" /\ IsProven /\ op'.id = container.id
    BY <1>1, <1>6, IdleStep DEF Identify, End, OpType, systemd
  <2> QED BY <1>1, <2>1 DEF Proven, IsProven, Containers
<1>7. CASE CheckInternalHealth
  <2>1. /\ UNCHANGED container /\ op.step = "probe"
        /\ \/ op'.step = "idle"
           \/ op'.step = "repair" /\ op'.id = op.id
    BY <1>1, <1>7, IdleStep DEF CheckInternalHealth, Goto, End, OpType, systemd
  <2> QED BY <1>1, <2>1 DEF Proven
<1>8. CASE SeeRecorded \/ ReservePublic \/ ReserveRemoval \/ WriteFails
           \/ StartRematerialized \/ Repair
  <2>1. op'.step \in {"see_named", "replace", "remove", "idle", "identify"}
    BY <1>1, <1>8, IdleStep
       DEF SeeRecorded, ReservePublic, ReserveRemoval, WriteFails, StartRematerialized,
           Repair, Goto, End, OpType
  <2> QED BY <2>1, RuntimeFrame DEF RuntimeSteps
<1> QED BY <1>2, <1>3, <1>4, <1>5, <1>6, <1>7, <1>8 DEF ReconcileStep

\* systemd and the hands of others may replace the container meanwhile.
LEMMA HostRuntime ==
    ASSUME ConvInvariant, Host
    PROVE  RuntimeInvariant'
<1>1. /\ ConvTypeOK /\ container \in Containers \cup {None}
      /\ IdentitiesHold /\ StartIsClear
  BY DEF ConvInvariant, ConvTypeOK, RuntimeInvariant
<1>2. CASE Crash \/ Reboot
  BY <1>2, RuntimeFrame, IdleIsNoRuntimeStep DEF Crash, Reboot, End
<1>3. ASSUME UNCHANGED <<op, row>>, Succeeds, NothingToReplace => NothingToReplace'
      PROVE  RuntimeInvariant'
  BY <1>1, <1>3, ProvenIsKept DEF RuntimeInvariant, IdentitiesHold, StartIsClear
<1>4. CASE SystemdStarts
  <2>1. Succeeds /\ service' = "active"
    BY <1>1, <1>4, CreateSucceeds DEF SystemdStarts
  <2> QED BY <1>3, <1>4, <2>1 DEF SystemdStarts, NothingToReplace
<1>5. CASE ContainerExits
  <2>1. \/ container' = None
        \/ container # None /\ container' = [container EXCEPT !.running = FALSE]
    BY <1>5 DEF ContainerExits
  <2>2. Succeeds /\ NothingToReplace'
    BY <1>1, <2>1 DEF Succeeds, NothingToReplace, Containers
  <2> QED BY <1>3, <1>5, <2>2 DEF ContainerExits
<1>6. CASE Drift \/ NeighbourReloadsCaddy \/ NeighbourReloadsUnits
  <2>1. UNCHANGED <<op, row, container, service>>
    BY <1>6 DEF Drift, NeighbourReloadsCaddy, NeighbourReloadsUnits, systemd
  <2>2. Succeeds
    BY <1>1, <2>1 DEF Succeeds
  <2> QED BY <1>3, <2>1, <2>2 DEF NothingToReplace
<1> QED BY <1>2, <1>4, <1>5, <1>6 DEF Host

-------------------------------------------------------------------------------
(* The invariant is inductive *)

\* The invariant holds when the Application is first exposed.
LEMMA InitConvInvariant == ConvInit => ConvInvariant
<1> SUFFICES ASSUME ConvInit PROVE ConvInvariant
  OBVIOUS
<1> DEFINE i == CHOOSE j \in ContainerIds : TRUE
<1>1. i \in ContainerIds
  <2>1. \E j \in ContainerIds : TRUE
    BY IdsAssumption
  <2> QED BY <2>1
<1> HIDE DEF i
<1>2. PICK d \in BOOLEAN :
         /\ row = [desired |-> "running", visibility |-> "internal", domain |-> d,
                   state |-> "not_materialized", route |-> "missing",
                   recorded |-> i, seen |-> "running"]
         /\ container = [id |-> i, spec |-> "canonical", running |-> TRUE]
  BY DEF ConvInit, i
<1>3. /\ unit = "canonical" /\ generated = "canonical" /\ service = "active"
      /\ fragment = "missing" /\ loaded = "missing"
      /\ op = Idle /\ budget = MaxFaults
  BY DEF ConvInit
<1>4. row \in RowType /\ container \in Containers
  BY <1>1, <1>2 DEF RowType, States, Units, Containers, Specs
<1>5. ConvTypeOK
  <2>1. budget \in 0..MaxFaults
    BY <1>3, FaultsAssumption
  <2>2. op \in OpType
    BY <1>3, IdleType
  <2> QED BY <1>2, <1>3, <1>4, <2>1, <2>2 DEF ConvTypeOK, Units, Specs, Routes
<1>6. op.step = "idle"
  BY <1>3, IdleStep
<1>7. RouteInvariant
  BY <1>2, <1>3, <1>6 DEF RouteInvariant, ReservationsHold, CaddyFollows,
     ActiveRouteIsServed, WithdrawnRouteIsGone, At
<1>8. RuntimeInvariant
  BY <1>6 DEF RuntimeInvariant, IdentitiesHold, StartIsClear
<1> QED BY <1>5, <1>7, <1>8 DEF ConvInvariant

\* Every step keeps the invariant.
LEMMA NextConvInvariant ==
    ASSUME ConvInvariant, [ConvNext]_vars
    PROVE  ConvInvariant'
<1>1. CASE UNCHANGED vars
  BY <1>1 DEF vars, systemd, caddy, ConvInvariant, ConvTypeOK, RouteInvariant,
     ReservationsHold, CaddyFollows, ActiveRouteIsServed, WithdrawnRouteIsGone, At,
     RuntimeInvariant, IdentitiesHold, StartIsClear, Proven, NothingToReplace
<1>2. CASE Fails
  <2>1. RuntimeInvariant'
    BY <1>2, RuntimeFrame, IdleIsNoRuntimeStep DEF Fails, End
  <2> QED BY <1>2, <2>1, NextType, FailsRoute DEF ConvNext, Step, ConvInvariant
<1> QED
  BY <1>1, <1>2, NextType, BeginRoute, ExposureRoute, LifecycleRoute, ReconcileRoute,
     HostRoute, BeginRuntime, ExposureRuntime, LifecycleRuntime, ReconcileRuntime,
     HostRuntime
     DEF ConvNext, Step, ConvInvariant

\* Whatever commands, failures, crashes, reboots and hand edits come in any
\* order, the row of the Application says what may be done to its route, and a
\* command trusts only what it saw of containers that systemd may replace.
THEOREM ConvInvariantHolds == ConvSpec => []ConvInvariant
  BY InitConvInvariant, NextConvInvariant, PTL DEF ConvSpec

\* Rows, files, containers and the command under way keep their types, and the
\* evidence of a route is what exposure.rs lets a row hold.
THEOREM ConvTypeCorrect == ConvSpec => []ConvTypeOK
<1>1. ConvInvariant => ConvTypeOK
  BY DEF ConvInvariant
<1> QED BY <1>1, ConvInvariantHolds, PTL

\* What the no-op of decide reports of a public route, Caddy serves.
THEOREM ActiveRouteAlwaysServed == ConvSpec => []ActiveRouteIsServed
<1>1. ConvInvariant => ActiveRouteIsServed
  BY DEF ConvInvariant, RouteInvariant
<1> QED BY <1>1, ConvInvariantHolds, PTL

\* `expose internal` and the removal of reconciliation confirm only a route
\* that is gone from disk and from Caddy, and nothing brings it back.
THEOREM WithdrawnRouteAlwaysGone == ConvSpec => []WithdrawnRouteIsGone
<1>1. ConvInvariant => WithdrawnRouteIsGone
  BY DEF ConvInvariant, RouteInvariant
<1> QED BY <1>1, ConvInvariantHolds, PTL

-------------------------------------------------------------------------------
(* Action properties *)

\* The reservation of INV-REC-004 stands in the database whenever a command
\* writes, deletes or restores the fragment, or reloads Caddy.
THEOREM EffectsAlwaysReserved == ConvSpec => EffectsAreReserved
<1>1. ConvInvariant /\ [ConvNext]_vars =>
          [ExposureStep /\ caddy' # caddy => row.state \in {"applying", "removing"}]_vars
  <2> SUFFICES ASSUME ConvInvariant, ExposureStep, caddy' # caddy
               PROVE  row.state \in {"applying", "removing"}
    OBVIOUS
  <2>1. ReplaceFragment \/ RemoveFragment \/ Reload \/ Refused \/ RestoreFile \/ ReloadRestored
    BY DEF ExposureStep, InspectRuntime, NotRestored, CheckExternalHealth, ConfirmPublic,
           ConfirmInternal, NotConfirmed, RecordFailed, RecordDiverged, RecordFailure,
           NotStarted, caddy
  <2>2. op.step \in {"replace", "remove", "replaced", "removed", "restore", "reload"}
    BY <2>1 DEF ReplaceFragment, RemoveFragment, Reload, Refused, RestoreFile,
                ReloadRestored, At
  <2> QED BY <2>2 DEF ConvInvariant, RouteInvariant, ReservationsHold
<1> QED BY <1>1, ConvInvariantHolds, PTL DEF ConvSpec, EffectsAreReserved

\* No reconciliation, failure record or interrupted command takes a diverged
\* row for a settled one: only the operator's next visibility does.
THEOREM DivergedAlwaysNeedsOperator == ConvSpec => DivergedNeedsOperator
<1>1. ConvInvariant /\ [ConvNext]_vars =>
          [row.state = "diverged" /\ row'.state # "diverged" =>
               row'.visibility # row.visibility]_vars
  <2> SUFFICES ASSUME ConvInvariant, ConvNext, row.state = "diverged",
                      row'.visibility = row.visibility
               PROVE  row'.state = "diverged"
    OBVIOUS
  <2>1. row \in RowType /\ ReservationsHold
    BY DEF ConvInvariant, ConvTypeOK, RouteInvariant
  <2>2. CASE Begin
    BY <2>1, <2>2 DEF Begin, BeginPublic, BeginInternal, BeginLifecycle, BeginStatus,
       BeginReconcile, RowType
  <2>3. CASE ExposureStep
    BY <2>1, <2>3
       DEF ExposureStep, InspectRuntime, ReplaceFragment, RemoveFragment, Reload,
           Refused, RestoreFile, ReloadRestored, NotRestored, CheckExternalHealth,
           ConfirmPublic, ConfirmInternal, NotConfirmed, RecordFailed, RecordDiverged,
           RecordFailure, NotStarted, ReservationsHold, At, RowType
  <2>4. CASE LifecycleStep
    BY <2>1, <2>4
       DEF LifecycleStep, Look, Resolve, ResolveFails, Adopt, LookAdopted, Absent,
           Recover, Control, ReportControlled, Refuse, ActOn, Report, RowType
  <2>5. CASE ReconcileStep
    BY <2>1, <2>5
       DEF ReconcileStep, SeeRecorded, SeeNamed, SeeSource, SeeService, Decide,
           ReservePublic, ReserveRemoval, WriteUnit, WriteFails, ReloadUnits,
           StartRematerialized, Identify, CheckInternalHealth, Repair, ReservationsHold,
           At, RowType
  <2>6. CASE Fails \/ Host
    BY <2>6 DEF Fails, Host, SystemdStarts, ContainerExits, Drift, NeighbourReloadsCaddy,
       NeighbourReloadsUnits, Crash, Reboot
  <2> QED BY <2>2, <2>3, <2>4, <2>5, <2>6 DEF ConvNext, Step
<1> QED BY <1>1, ConvInvariantHolds, PTL DEF ConvSpec, DivergedNeedsOperator

\* However old its observations are when it acts, reconciliation starts only
\* what is not running and is meant to run.
THEOREM RunningAlwaysUndisturbed == ConvSpec => RunningIsUndisturbed
<1>1. ConvInvariant /\ [ConvNext]_vars =>
          [ReconcileStep /\ container' # container =>
              /\ container = None \/ ~container.running
              /\ row.desired = "running"]_vars
  <2> SUFFICES ASSUME ConvInvariant, ReconcileStep, container' # container
               PROVE  /\ container = None \/ ~container.running
                      /\ row.desired = "running"
    OBVIOUS
  <2>1. StartRematerialized
    BY DEF ReconcileStep, SeeRecorded, SeeNamed, SeeSource, SeeService, Decide,
           ReservePublic, ReserveRemoval, WriteUnit, WriteFails, ReloadUnits, Identify,
           CheckInternalHealth, Repair, systemd
  <2>2. op.step = "start" /\ service # "active"
    BY <2>1 DEF StartRematerialized, StartUnit, At, systemd
  <2>3. NothingToReplace /\ row.desired = "running"
    BY <2>2 DEF ConvInvariant, RuntimeInvariant, StartIsClear
  <2> QED BY <2>2, <2>3 DEF NothingToReplace
<1> QED BY <1>1, ConvInvariantHolds, PTL DEF ConvSpec, RunningIsUndisturbed

\* The container that appears between the observation and the swap never has
\* its identity recorded unless it is canonical itself.
THEOREM RepairedIdentityAlwaysProven == ConvSpec => RepairedIdentityIsProven
<1>1. ConvInvariant /\ [ConvNext]_vars =>
          [ReconcileStep /\ row'.recorded # row.recorded =>
              (Observe(row'.recorded) # "missing" => container.spec = "canonical")]_vars
  <2> SUFFICES ASSUME ConvInvariant, ReconcileStep, row'.recorded # row.recorded,
                      Observe(row'.recorded) # "missing"
               PROVE  container.spec = "canonical"
    OBVIOUS
  <2>1. row \in RowType /\ IdentitiesHold
    BY DEF ConvInvariant, ConvTypeOK, RuntimeInvariant
  <2>2. Repair
    BY <2>1 DEF ReconcileStep, SeeRecorded, SeeNamed, SeeSource, SeeService, Decide,
       ReservePublic, ReserveRemoval, WriteUnit, WriteFails, ReloadUnits,
       StartRematerialized, Identify, CheckInternalHealth, RowType
  <2>3. row'.recorded = op.id /\ Proven(op.id)
    BY <2>1, <2>2 DEF Repair, At, RowType, IdentitiesHold
  <2> QED BY <2>3 DEF Proven, Observe
<1> QED BY <1>1, ConvInvariantHolds, PTL DEF ConvSpec, RepairedIdentityIsProven

===============================================================================
