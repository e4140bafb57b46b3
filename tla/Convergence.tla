------------------------------ MODULE Convergence ------------------------------
(***************************************************************************)
(* An Application with an active runtime, between Deployments: visibility  *)
(* changes, start, stop, status and reconciliation against a host that     *)
(* systemd, other Applications and the operator change meanwhile.  The     *)
(* lock of the Application lets one command run at a time; every other     *)
(* Application is a neighbour whose commands reload Caddy and systemd.     *)
(***************************************************************************)
EXTENDS Integers

CONSTANTS
    ContainerIds,   \* container identities, reused once nothing refers to them
    None,
    MaxFaults       \* bound on failing calls, crashes, reboots and drift

\* No more than four identities are referred to at once.
ASSUME IdsAssumption ==
    /\ None \notin ContainerIds
    /\ \A a, b, c, d \in ContainerIds \cup {None} :
           \E i \in ContainerIds : i \notin {a, b, c, d}
ASSUME FaultsAssumption == MaxFaults \in Nat

VARIABLES
    row,        \* the Application's rows in SQLite
    unit,       \* its Quadlet source file
    generated,  \* what systemd made of that file at its last daemon-reload
    container,  \* the container of the stable name
    service,    \* the state of the generated unit
    fragment,   \* its Caddy fragment file
    loaded,     \* the route Caddy serves
    op,         \* the command that holds the Application's lock
    budget      \* faults left

systemd == <<unit, generated, container, service>>
caddy   == <<fragment, loaded>>
vars    == <<row, systemd, caddy, op, budget>>

\* Contents of a unit file, and so the identity and endpoint of a container.
Specs  == {"canonical", "edited"}
Units  == Specs \cup {"missing"}
\* A fragment names the endpoint of a container or was edited by hand.
Routes == Units \cup {"foreign"}

States == {"not_materialized", "applying", "active", "removing", "failed", "diverged"}

Containers == [id : ContainerIds, spec : Specs, running : BOOLEAN]

\* What the adapters report of one container id: a running one has its endpoint.
Observation == Specs \cup {"missing", "stopped"}

Observe(id) ==
    IF container = None \/ container.id # id THEN "missing"
    ELSE IF container.running THEN container.spec ELSE "stopped"

\* The column last_observed_state does not hold the endpoint.
Seen(o) == IF o \in Specs THEN "running" ELSE o

IsProven == container # None /\ container.running /\ container.spec = "canonical"

Idle == [kind |-> "none", step |-> "idle", known |-> None, id |-> None,
         again |-> FALSE, recorded |-> "missing", named |-> "missing",
         source |-> "missing", startable |-> FALSE,
         route |-> "missing", saved |-> "missing"]

At(step) == op.step = step
Goto(step) == op' = [op EXCEPT !.step = step]
End == op' = Idle

Spend == budget > 0 /\ budget' = budget - 1

(* Effects *)

InUse == {row.recorded, op.known, op.id}
             \cup (IF container = None THEN {} ELSE {container.id})

FreshId == CHOOSE i \in ContainerIds : i \notin InUse

\* Quadlet runs `podman run --replace` under the stable name, with a fresh id.
Create ==
    /\ generated # "missing"
    /\ container' = [id |-> FreshId, spec |-> generated, running |-> TRUE]
    /\ service' = "active"
    /\ UNCHANGED <<unit, generated>>

\* Mutation of StartUnit: `systemctl restart`.
RestartUnit == Create

\* `systemctl start` leaves an active service alone.
StartUnit ==
    \/ service = "active" /\ UNCHANGED systemd
    \/ service # "active" /\ Create

\* ExecStop removes the container, with its service.
StopUnit ==
    /\ generated # "missing" \/ service # "inactive"
    /\ service' = "inactive"
    /\ container' = IF service = "active" THEN None ELSE container
    /\ UNCHANGED <<unit, generated>>

\* Without a unit file the container itself is controlled.
PodmanStart ==
    /\ Observe(op.id) # "missing"
    /\ container' = [container EXCEPT !.running = TRUE]
    /\ UNCHANGED <<unit, generated, service>>

PodmanStop ==
    /\ Observe(op.id) # "missing"
    /\ container' \in {None, [container EXCEPT !.running = FALSE]}
    /\ service' = "inactive"
    /\ UNCHANGED <<unit, generated>>

(* change_exposure *)

\* The visibility the row already has, or a public one without a domain,
\* changes nothing.
BeginPublic ==
    /\ op = Idle
    /\ row.visibility = "internal" /\ row.domain
    /\ row' = [row EXCEPT !.visibility = "public", !.state = "applying"]
    /\ op' = [Idle EXCEPT !.kind = "public", !.step = "inspect"]
    /\ UNCHANGED <<systemd, caddy, budget>>

BeginInternal ==
    /\ op = Idle
    /\ row.visibility = "public"
    /\ row' = [row EXCEPT !.visibility = "internal", !.state = "removing"]
    /\ op' = [Idle EXCEPT !.kind = "internal", !.step = "remove"]
    /\ UNCHANGED <<systemd, caddy, budget>>

\* The route leads to the endpoint observed, whatever the row expects.
InspectRuntime ==
    LET o == Observe(row.recorded) IN
    /\ At("inspect")
    /\ IF o \in Specs
       THEN op' = [op EXCEPT !.step = "replace", !.route = o]
       ELSE Goto("record_failed")
    /\ UNCHANGED <<row, systemd, caddy, budget>>

(* The Caddy adapter, with the steps of both commands around it *)

ReplaceFragment ==
    /\ At("replace")
    /\ fragment' = op.route
    /\ op' = [op EXCEPT !.step = "replaced", !.saved = fragment]
    /\ UNCHANGED <<row, systemd, loaded, budget>>

\* Mutation of RemoveFragment: an absent file needs no reload.
RemovePresentFragment ==
    /\ At("remove")
    /\ fragment' = "missing"
    /\ op' = [op EXCEPT !.step = IF fragment = "missing" THEN "withdraw" ELSE "removed",
                        !.saved = fragment]
    /\ UNCHANGED <<row, systemd, loaded, budget>>

RemoveFragment ==
    /\ At("remove")
    /\ fragment' = "missing"
    /\ op' = [op EXCEPT !.step = "removed", !.saved = fragment]
    /\ UNCHANGED <<row, systemd, loaded, budget>>

\* The configuration is valid and Caddy takes it in.
Reload ==
    /\ op.step \in {"replaced", "removed"}
    /\ loaded' = fragment
    /\ Goto(IF op.step = "replaced" THEN "health" ELSE "withdraw")
    /\ UNCHANGED <<row, systemd, fragment, budget>>

\* A refused configuration was never loaded: only the file goes back.
Refused ==
    /\ op.step \in {"replaced", "removed"}
    /\ Spend
    /\ \/ fragment' = op.saved /\ Goto("record_failed")
       \/ UNCHANGED fragment /\ Goto("record_diverged")
       \/ UNCHANGED fragment /\ Goto("restore")
    /\ UNCHANGED <<row, systemd, loaded>>

\* recover_previous_configuration: the file, then a reload.
RestoreFile ==
    /\ At("restore")
    /\ fragment' = op.saved
    /\ Goto("reload")
    /\ UNCHANGED <<row, systemd, loaded, budget>>

ReloadRestored ==
    /\ At("reload")
    /\ loaded' = fragment
    /\ Goto("record_failed")
    /\ UNCHANGED <<row, systemd, fragment, budget>>

NotRestored ==
    /\ op.step \in {"restore", "reload"}
    /\ Spend
    /\ Goto("record_diverged")
    /\ UNCHANGED <<row, systemd, caddy>>

\* The public domain answers only when Caddy leads to the running container.
CheckExternalHealth ==
    /\ At("health")
    /\ \/ /\ container # None /\ container.running
          /\ loaded = op.route /\ container.spec = op.route
          /\ Goto("confirm")
       \/ Goto("restore")
    /\ UNCHANGED <<row, systemd, caddy, budget>>

ConfirmPublic ==
    /\ At("confirm")
    /\ row.visibility = "public" /\ row.state = "applying"
    /\ row' = [row EXCEPT !.state = "active", !.route = op.route]
    /\ End
    /\ UNCHANGED <<systemd, caddy, budget>>

\* Mutation of ConfirmInternal: the evidence of the route stays behind.
ConfirmKeepingRoute ==
    /\ At("withdraw")
    /\ row' = [row EXCEPT !.state = "not_materialized"]
    /\ End
    /\ UNCHANGED <<systemd, caddy, budget>>

ConfirmInternal ==
    /\ At("withdraw")
    /\ row.visibility = "internal" /\ row.state = "removing"
    /\ row' = [row EXCEPT !.state = "not_materialized", !.route = "missing"]
    /\ End
    /\ UNCHANGED <<systemd, caddy, budget>>

\* change_exposure compensates a confirmation it cannot write, and returns the
\* error when it cannot even begin the write; reconciliation returns every error
\* and leaves the reservation.
NotConfirmed ==
    /\ op.step \in {"confirm", "withdraw"}
    /\ Spend
    /\ \/ op.kind # "reconcile" /\ Goto("restore")
       \/ End
    /\ UNCHANGED <<row, systemd, caddy>>

RecordFailure(step, state) ==
    /\ At(step)
    /\ row' = [row EXCEPT !.state = state]
    /\ End
    /\ UNCHANGED <<systemd, caddy, budget>>

RecordFailed   == RecordFailure("record_failed", "failed")
RecordDiverged == RecordFailure("record_diverged", "diverged")

\* Neither Caddy nor its file was touched yet.
NotStarted ==
    /\ op.step \in {"inspect", "replace", "remove"}
    /\ Spend
    /\ Goto("record_failed")
    /\ UNCHANGED <<row, systemd, caddy>>

(* start, stop and status *)

\* Intent is written before anything is observed or controlled.
BeginLifecycle(kind, desired) ==
    /\ op = Idle
    /\ row' = [row EXCEPT !.desired = desired]
    /\ op' = [Idle EXCEPT !.kind = kind, !.step = "look",
                          !.known = row.recorded, !.id = row.recorded]
    /\ UNCHANGED <<systemd, caddy, budget>>

BeginStatus ==
    /\ op = Idle
    /\ op' = [Idle EXCEPT !.kind = "status", !.step = "report", !.id = row.recorded]
    /\ UNCHANGED <<row, systemd, caddy, budget>>

\* persist_observation
Report(o) ==
    /\ row' = [row EXCEPT !.seen = Seen(o)]
    /\ End

Target == IF op.kind = "start" THEN "running" ELSE "stopped"

\* After a recovery the observation is recorded; else it is compared with the
\* intent and controlled when it differs.
ActOn(o) ==
    IF op.again \/ Seen(o) = Target
    THEN Report(o)
    ELSE Goto("control") /\ UNCHANGED row

Look ==
    LET o == Observe(op.known) IN
    /\ At("look")
    /\ IF o = "missing" THEN Goto("resolve") /\ UNCHANGED row ELSE ActOn(o)
    /\ UNCHANGED <<systemd, caddy, budget>>

\* The stable name may lead to a container that systemd recreated.
Resolve ==
    /\ At("resolve")
    /\ IF container = None
       THEN Goto("absent")
       ELSE op' = [op EXCEPT !.step = "adopt", !.id = container.id]
    /\ UNCHANGED <<row, systemd, caddy, budget>>

\* An error of the lookup by name counts as absence.
ResolveFails ==
    /\ At("resolve") /\ Spend
    /\ Goto("absent")
    /\ UNCHANGED <<row, systemd, caddy>>

\* reconcile_external_runtime_id; a stale identity ends the command.
Adopt ==
    /\ At("adopt")
    /\ IF row.recorded = op.known
       THEN /\ row' = [row EXCEPT !.recorded = op.id, !.seen = "running"]
            /\ Goto("look_adopted")
       ELSE End /\ UNCHANGED row
    /\ UNCHANGED <<systemd, caddy, budget>>

LookAdopted ==
    LET o == Observe(op.id) IN
    /\ At("look_adopted")
    /\ IF o = "missing" THEN Goto("absent") /\ UNCHANGED row ELSE ActOn(o)
    /\ UNCHANGED <<systemd, caddy, budget>>

\* handle_missing_runtime: a stop is done, a start needs the unit, once.
Absent ==
    /\ At("absent")
    /\ IF op.kind = "start" /\ ~op.again /\ unit # "missing"
       THEN Goto("recover") /\ UNCHANGED row
       ELSE Report("missing")
    /\ UNCHANGED <<systemd, caddy, budget>>

Recover ==
    /\ At("recover")
    /\ StartUnit
    /\ op' = [op EXCEPT !.step = "look", !.again = TRUE]
    /\ UNCHANGED <<row, caddy, budget>>

Control ==
    /\ At("control")
    /\ IF unit # "missing"
       THEN (IF op.kind = "start" THEN StartUnit ELSE StopUnit)
       ELSE (IF op.kind = "start" THEN PodmanStart ELSE PodmanStop)
    /\ Goto("report")
    /\ UNCHANGED <<row, caddy, budget>>

\* The container controlled is observed again by the id it had before.
ReportControlled ==
    /\ At("report")
    /\ Report(Observe(op.id))
    /\ UNCHANGED <<systemd, caddy, budget>>

\* systemd does not know the unit, or the container is gone.
ControlRefused ==
    \/ /\ op.step \in {"recover", "start"}
       /\ service # "active" /\ generated = "missing"
    \/ /\ At("control")
       /\ IF unit = "missing" THEN Observe(op.id) = "missing"
          ELSE /\ generated = "missing"
               /\ IF op.kind = "start" THEN service # "active" ELSE service = "inactive"

Refuse ==
    /\ ControlRefused
    /\ End
    /\ UNCHANGED <<row, systemd, caddy, budget>>

(* reconcile_application *)

BeginReconcile ==
    /\ op = Idle
    /\ op' = [Idle EXCEPT !.kind = "reconcile", !.step = "see_recorded"]
    /\ UNCHANGED <<row, systemd, caddy, budget>>

\* observe_reconciliation_input, one authority after another.
SeeRecorded ==
    /\ At("see_recorded")
    /\ op' = [op EXCEPT !.step = "see_named", !.recorded = Observe(row.recorded)]
    /\ UNCHANGED <<row, systemd, caddy, budget>>

SeeNamed ==
    /\ At("see_named")
    /\ op' = [op EXCEPT !.step = "see_source",
                        !.named = IF container = None THEN "missing"
                                  ELSE IF IsProven THEN "proven" ELSE "other",
                        !.id = IF container = None THEN None ELSE container.id]
    /\ UNCHANGED <<row, systemd, caddy, budget>>

SeeSource ==
    /\ At("see_source")
    /\ op' = [op EXCEPT !.step = "see_service", !.source = unit]
    /\ UNCHANGED <<row, systemd, caddy, budget>>

SeeService ==
    /\ At("see_service")
    /\ op' = [op EXCEPT !.step = "decide", !.startable = service = "inactive"]
    /\ UNCHANGED <<row, systemd, caddy, budget>>

StoppedInSync ==
    /\ row.desired = "stopped"
    /\ op.recorded = "missing" /\ op.named = "missing" /\ fragment = "missing"

\* Mutation of Repairable: any container of the stable name is adopted.
RepairableByName ==
    /\ row.desired = "running" /\ fragment = "missing" /\ op.recorded = "missing"
    /\ op.named # "missing" /\ op.source = "canonical"

Repairable ==
    /\ row.desired = "running" /\ fragment = "missing" /\ op.recorded = "missing"
    /\ op.named = "proven" /\ op.source = "canonical"

Rematerializable ==
    /\ row.desired = "running"
    /\ op.recorded = "missing" /\ op.named = "missing"
    /\ op.source # "edited" /\ op.startable

\* classify_public_exposure.  Here, as in the next two, the step is what
\* carries the decision out; "idle" is a report that changes nothing.
PublicDecision ==
    IF row.desired # "running" \/ op.recorded # "canonical" THEN "record_failed"
    ELSE IF fragment = "canonical" /\ row.state = "active" /\ row.route = "canonical"
    THEN "idle"
    ELSE "reserve_public"

\* Mutation of ExposureDecision: a change under way is left to its command.
DecisionUnlessApplying ==
    IF row.state \in {"applying", "diverged"} THEN "idle"
    ELSE IF row.visibility = "public" THEN PublicDecision
    ELSE IF fragment = "missing" THEN "idle" ELSE "reserve_removal"

ExposureDecision ==
    IF row.state = "diverged" THEN "idle"
    ELSE IF row.visibility = "public" THEN PublicDecision
    ELSE IF fragment = "missing" THEN "idle" ELSE "reserve_removal"

Decision ==
    IF StoppedInSync THEN "idle"
    ELSE IF Repairable THEN "repair"
    ELSE IF Rematerializable
    THEN (IF op.source = "canonical" THEN "start" ELSE "write")
    ELSE ExposureDecision

\* The fragment is observed last, and the decision follows.
Decide ==
    /\ At("decide")
    /\ op' = IF Decision = "idle" THEN Idle
             ELSE [Idle EXCEPT !.kind = "reconcile", !.step = Decision,
                               !.id = IF Decision = "repair" THEN op.id ELSE None]
    /\ UNCHANGED <<row, systemd, caddy, budget>>

\* Mutation of ReservePublic: the row stays as it is until the confirmation.
ReserveNothing ==
    /\ At("reserve_public")
    /\ op' = [op EXCEPT !.step = "replace", !.route = "canonical"]
    /\ UNCHANGED <<row, systemd, caddy, budget>>

ReservePublic ==
    /\ At("reserve_public")
    /\ row' = [row EXCEPT !.state = "applying"]
    /\ op' = [op EXCEPT !.step = "replace", !.route = "canonical"]
    /\ UNCHANGED <<systemd, caddy, budget>>

\* Mutation of ReserveRemoval: the removal is confirmed only afterwards.
RemoveUnreserved ==
    /\ At("reserve_removal")
    /\ Goto("remove")
    /\ UNCHANGED <<row, systemd, caddy, budget>>

ReserveRemoval ==
    /\ At("reserve_removal")
    /\ row' = [row EXCEPT !.state = "removing"]
    /\ Goto("remove")
    /\ UNCHANGED <<systemd, caddy, budget>>

WriteUnit ==
    /\ At("write")
    /\ unit' = "canonical"
    /\ Goto("daemon_reload")
    /\ UNCHANGED <<row, generated, container, service, caddy, budget>>

\* The file is truncated and written in place.
WriteFails ==
    /\ At("write") /\ Spend
    /\ unit' \in {unit, "edited"}
    /\ End
    /\ UNCHANGED <<row, generated, container, service, caddy>>

ReloadUnits ==
    /\ At("daemon_reload")
    /\ generated' = unit
    /\ Goto("start")
    /\ UNCHANGED <<row, unit, container, service, caddy, budget>>

StartRematerialized ==
    /\ At("start")
    /\ StartUnit
    /\ Goto("identify")
    /\ UNCHANGED <<row, caddy, budget>>

\* observe_started_identity; anything unproven is left to the operator.
Identify ==
    /\ At("identify")
    /\ IF IsProven THEN op' = [op EXCEPT !.step = "probe", !.id = container.id] ELSE End
    /\ UNCHANGED <<row, systemd, caddy, budget>>

CheckInternalHealth ==
    /\ At("probe")
    /\ \/ IsProven /\ Goto("repair")
       \/ End
    /\ UNCHANGED <<row, systemd, caddy, budget>>

\* swap_recorded_container_id
Repair ==
    /\ At("repair")
    /\ row' = [row EXCEPT !.recorded = op.id, !.seen = "running"]
    /\ End
    /\ UNCHANGED <<systemd, caddy, budget>>

\* The steps whose error is returned with nothing else done.
Fails ==
    /\ \/ op.step \in {"inspect", "record_failed", "record_diverged", "look", "adopt",
                       "look_adopted", "absent", "recover", "control", "report",
                       "see_recorded", "see_named", "see_source", "see_service",
                       "decide", "reserve_public", "reserve_removal",
                       "daemon_reload", "start", "identify", "probe", "repair"}
       \/ At("health") /\ op.kind = "public"
    /\ Spend
    /\ End
    /\ UNCHANGED <<row, systemd, caddy>>

(* The host *)

\* A service that failed is started again after a delay, by hand at any time.
SystemdStarts ==
    /\ service # "active"
    /\ Create
    /\ UNCHANGED <<row, caddy, op, budget>>

\* The process ends, or is stopped or paused by hand.
ContainerExits ==
    /\ container # None /\ container.running
    /\ Spend
    /\ container' \in {None, [container EXCEPT !.running = FALSE]}
    /\ service' \in (IF service # "active" THEN {service}
                     ELSE IF container' = None THEN {"inactive", "activating"}
                     ELSE {"active", "inactive"})
    /\ UNCHANGED <<row, unit, generated, caddy, op>>

\* A file is edited or removed by hand.  A canonical fragment put back by hand
\* without a reload is left out: observation reads the file alone and takes such
\* a route for one in sync.
Drift ==
    /\ Spend
    /\ \/ unit' \in {"missing", "edited"} /\ UNCHANGED fragment
       \/ /\ fragment # "missing"
          /\ fragment' \in {"missing", "foreign"}
          /\ UNCHANGED unit
    /\ UNCHANGED <<row, generated, container, service, loaded, op>>

\* Reloads are global: a command for another Application takes in every file.
NeighbourReloadsCaddy ==
    /\ loaded' = fragment
    /\ UNCHANGED <<row, systemd, fragment, op, budget>>

NeighbourReloadsUnits ==
    /\ generated' = unit
    /\ UNCHANGED <<row, unit, container, service, caddy, op, budget>>

Crash ==
    /\ op # Idle /\ Spend
    /\ IF At("write") THEN unit' \in {unit, "edited"} ELSE UNCHANGED unit
    /\ End
    /\ UNCHANGED <<row, generated, container, service, caddy>>

\* [Install] starts the unit at boot; a file cut short may lack that section.
Boots ==
    \/ /\ unit # "missing"
       /\ container' = [id |-> FreshId, spec |-> unit, running |-> TRUE]
       /\ service' = "active"
    \/ /\ unit # "canonical"
       /\ container' = None /\ service' = "inactive"

Reboot ==
    /\ Spend
    /\ End
    /\ generated' = unit
    /\ Boots
    /\ loaded' = fragment
    /\ UNCHANGED <<row, unit, fragment>>

ConvInit ==
    /\ \E d \in BOOLEAN :
          LET i == CHOOSE j \in ContainerIds : TRUE IN
          /\ row = [desired |-> "running", visibility |-> "internal", domain |-> d,
                    state |-> "not_materialized", route |-> "missing",
                    recorded |-> i, seen |-> "running"]
          /\ container = [id |-> i, spec |-> "canonical", running |-> TRUE]
    /\ unit = "canonical" /\ generated = "canonical" /\ service = "active"
    /\ fragment = "missing" /\ loaded = "missing"
    /\ op = Idle
    /\ budget = MaxFaults

Begin ==
    \/ BeginPublic \/ BeginInternal
    \/ BeginLifecycle("start", "running") \/ BeginLifecycle("stop", "stopped")
    \/ BeginStatus \/ BeginReconcile

ExposureStep ==
    \/ InspectRuntime \/ ReplaceFragment \/ RemoveFragment \/ Reload \/ Refused
    \/ RestoreFile \/ ReloadRestored \/ NotRestored \/ CheckExternalHealth
    \/ ConfirmPublic \/ ConfirmInternal \/ NotConfirmed
    \/ RecordFailed \/ RecordDiverged \/ NotStarted

LifecycleStep ==
    \/ Look \/ Resolve \/ ResolveFails \/ Adopt \/ LookAdopted \/ Absent
    \/ Recover \/ Control \/ ReportControlled \/ Refuse

ReconcileStep ==
    \/ SeeRecorded \/ SeeNamed \/ SeeSource \/ SeeService \/ Decide
    \/ ReservePublic \/ ReserveRemoval
    \/ WriteUnit \/ WriteFails \/ ReloadUnits \/ StartRematerialized
    \/ Identify \/ CheckInternalHealth \/ Repair

Step == ExposureStep \/ LifecycleStep \/ ReconcileStep \/ Fails

Host ==
    \/ SystemdStarts \/ ContainerExits \/ Drift
    \/ NeighbourReloadsCaddy \/ NeighbourReloadsUnits
    \/ Crash \/ Reboot

ConvNext == Begin \/ Step \/ Host

ConvSpec == ConvInit /\ [][ConvNext]_vars

\* A command that runs goes on, and the operator keeps asking for reconciliation.
FairConvSpec == ConvSpec /\ WF_vars(Step) /\ SF_vars(BeginReconcile)

-------------------------------------------------------------------------------

RowType ==
    [desired : {"running", "stopped"}, visibility : {"public", "internal"},
     domain : BOOLEAN, state : States, route : Units, recorded : ContainerIds,
     seen : {"running", "stopped", "missing"}]

Steps ==
    {"idle", "inspect", "replace", "replaced", "health", "confirm", "remove", "removed",
     "withdraw", "restore", "reload", "record_failed", "record_diverged",
     "look", "resolve", "adopt", "look_adopted", "absent", "recover", "control", "report",
     "see_recorded", "see_named", "see_source", "see_service", "decide",
     "reserve_public", "reserve_removal", "write", "daemon_reload", "start", "identify",
     "probe", "repair"}

OpType ==
    [kind : {"none", "public", "internal", "start", "stop", "status", "reconcile"},
     step : Steps, known : ContainerIds \cup {None}, id : ContainerIds \cup {None},
     again : BOOLEAN, recorded : Observation, named : {"missing", "proven", "other"},
     source : Units, startable : BOOLEAN, route : Units, saved : Routes]

\* Types, with the combinations of evidence exposure.rs lets a row hold
\* (INV-EXP-002): an active route is named, and a withdrawn one is not.
ConvTypeOK ==
    /\ row \in RowType
    /\ row.state = "active" => row.route # "missing"
    /\ row.state = "not_materialized" => row.route = "missing"
    /\ row.visibility = "public" => row.domain
    /\ unit \in Units /\ generated \in Units
    /\ container \in Containers \cup {None}
    /\ service \in {"inactive", "activating", "active"}
    /\ fragment \in Routes /\ loaded \in Routes
    /\ op \in OpType
    /\ budget \in 0..MaxFaults

\* An active row whose fragment file holds the confirmed route is what Caddy
\* serves: the no-op of decision.rs reads the file and never asks Caddy.
ActiveRouteIsServed ==
    row.state = "active" /\ fragment = row.route => loaded = row.route

\* A route withdrawn is neither on disk nor served, whatever was interrupted,
\* refused or restored before the removal that was confirmed.
WithdrawnRouteIsGone ==
    row.state = "not_materialized" => fragment = "missing" /\ loaded = "missing"

\* A command touches the fragment or reloads Caddy only under a reservation
\* in the database, so that what a crash leaves is seen (INV-REC-004).
EffectsAreReserved ==
    [][ExposureStep /\ caddy' # caddy => row.state \in {"applying", "removing"}]_vars

\* A diverged route leaves that state by a visibility change and no other
\* way: reconciliation requires the operator.
DivergedNeedsOperator ==
    [][row.state = "diverged" /\ row'.state # "diverged" => row'.visibility # row.visibility]_vars

\* Reconciliation never replaces or removes a running container, nor starts
\* one the operator stopped, although its observations may be old by then.
RunningIsUndisturbed ==
    [][ReconcileStep /\ container' # container =>
          /\ container = None \/ ~container.running
          /\ row.desired = "running"]_vars

\* The identity reconciliation records is that of a canonical container,
\* whatever happened between its observation and the swap.
RepairedIdentityIsProven ==
    [][ReconcileStep /\ row'.recorded # row.recorded =>
          (Observe(row'.recorded) # "missing" => container.spec = "canonical")]_vars

\* A public route left half applied is settled by reconciling again, unless
\* the Application is stopped or systemd was never told of its unit file.
ApplyingIsSettled ==
    row.state = "applying" ~>
        (row.state # "applying" \/ row.desired # "running" \/ generated # unit)

===============================================================================
