------------------------------ MODULE Deployment ------------------------------
(***************************************************************************)
(* One deploy or rollback command per Application, from the pending row to *)
(* promotion and retirement of the predecessor, or to failure and cleanup, *)
(* with the crashes, reboots and failing commands the code must survive,   *)
(* and the recovery that `pneuma reconcile` runs on what a dead command    *)
(* left behind.  Commands on different Applications interleave; commands   *)
(* on one Application are serialized by its kernel lock, which is held     *)
(* exactly while op[a].step # "idle" and is released by process death.     *)
(*                                                                         *)
(* A Deployment, its candidate runtime row, its Quadlet unit and its       *)
(* container share one identity (`pneuma-<application>-<deployment>`), so  *)
(* all of them are functions of the Deployment.  A host port is a nonzero  *)
(* number; 0 says that there is none.  A Caddy fragment is its domain and  *)
(* endpoint; the domain never changes, so a fragment is its port.          *)
(***************************************************************************)
EXTENDS Naturals, FiniteSets

CONSTANTS
    Applications,          \* rows of `applications`
    PublicApplications,    \* those whose desired visibility is public
    Deployments,           \* identities the command line can generate
    Releases,              \* rows of `releases`, of every Application alike
    FirstPort, LastPort,   \* PNEUMA_RUNTIME_PORT_RANGE
    Faults,                \* the kinds of failure a run lets happen
    None                   \* no Deployment, no Application

FaultKinds ==
    {"store",        \* a SQLite statement or commit is refused (busy, I/O)
     "command",      \* systemctl, podman, caddy or a file operation fails
     "quiet",        \* a command fails and prints nothing at all
     "crash",        \* the process of a command dies
     "reboot",       \* the host goes down and comes back
     "restart",      \* systemd recreates a container (Restart=on-failure)
     "uncertain",    \* a commit takes effect and reports an error
     "same_second"}  \* two Deployments finish within one clock second

ASSUME ApplicationsAssumption == PublicApplications \subseteq Applications
ASSUME NoneAssumption == None \notin Deployments \cup Applications
ASSUME PortRangeAssumption ==
    FirstPort \in Nat \ {0} /\ LastPort \in Nat /\ FirstPort <= LastPort
ASSUME FaultsAssumption == Faults \subseteq FaultKinds

Ports == FirstPort..LastPort
PortOrNone == Ports \cup {0}

VARIABLES
    \* SQLite
    status,        \* deployments.status, "none" before the row exists
    owner,         \* deployments.application_id
    release,       \* deployments.release_id
    finished,      \* deployments.finished_at of a succeeded row, else 0
    active,        \* applications.active_deployment_id
    runtime,       \* runtime_instances.state, "none" before the row exists
    endpoint,      \* its host_port while removed_at IS NULL, else 0
    reservation,   \* runtime_port_reservations of the Deployment
    exposure,      \* exposures.materialization_state
    confirmed,     \* exposures.active_runtime_id and configuration_version
    \* the host
    unit,          \* port published by the Quadlet file, 0 without a file
    container,     \* the container: absent, or present under a known id or not
    fragment,      \* port routed by the Caddy fragment file, 0 without a file
    loaded,        \* port routed by the configuration Caddy runs with
    \* the process of the command
    op

deploymentRows == <<status, owner, release, finished, active>>
runtimeRows    == <<runtime, endpoint, reservation>>
exposureRows   == <<exposure, confirmed>>
podman         == <<unit, container>>
caddy          == <<fragment, loaded>>
vars == <<deploymentRows, runtimeRows, exposureRows, podman, caddy, op>>

-------------------------------------------------------------------------------
(* Lifecycle vocabulary *)

Terminal    == {"succeeded", "failed"}
NonTerminal == {"pending", "starting", "verifying", "activating"}
Statuses    == {"none"} \cup NonTerminal \cup Terminal

RuntimeStates == {"none", "starting", "running", "stopped"}
ExposureStates ==
    {"not_materialized", "applying", "active", "removing", "failed", "diverged"}

\* What a command releases when its candidate fails.
Resources == {"port", "unit", "container", "runtime"}
Routes == [runtime: Deployments \cup {None}, version: PortOrNone]
NoRoute == [runtime |-> None, version |-> 0]

Steps ==
    {"idle",
     \* candidate
     "start", "reserve", "write", "launch", "resolve", "register", "consume",
     "verify", "health",
     \* public activation
     "route", "materialize", "validate", "external", "restore", "reload",
     "record_failed", "record_diverged",
     \* failure and cleanup
     "fail", "cleanup", "remove", "prove", "tombstone", "release",
     \* retirement of the predecessor
     "retire", "retire_remove", "retire_prove", "retire_mark",
     \* recovery of an interrupted activation
     "settle"}

Idle == [step |-> "idle", dep |-> None, held |-> {}, prev |-> None, saved |-> 0]

Operations ==
    [step: Steps, dep: Deployments \cup {None}, held: SUBSET Resources,
     prev: Deployments \cup {None}, saved: PortOrNone]

\* DeploymentStatus::transition over DeploymentEvent.
Transition(from, event) ==
    CASE event = "start"           /\ from = "pending"   -> "starting"
      [] event = "runtime_running" /\ from = "starting"  -> "verifying"
      [] event = "verified"        /\ from = "verifying" -> "activating"
      [] event = "activated" /\ from \in {"verifying", "activating"} -> "succeeded"
      [] event = "fail"      /\ from \in NonTerminal -> "failed"
      [] OTHER -> "illegal"

-------------------------------------------------------------------------------
(* Helpers *)

Can(kind) == kind \in Faults
At(a, step) == op[a].step = step
Dep(a) == op[a].dep
Goto(a, step) == op' = [op EXCEPT ![a].step = step]
End(a) == op' = [op EXCEPT ![a] = Idle]

\* The command holds one more resource and goes on.
Hold(a, resource, step) ==
    op' = [op EXCEPT ![a].step = step, ![a].held = @ \cup {resource}]

Owned(a) == {d \in Deployments : owner[d] = a}

\* Mutation of Blocking: only a Pending Deployment counts.
PendingOnly(a) == {d \in Owned(a) : status[d] = "pending"}

\* deployment_store::load_nonterminal_deployment
Blocking(a) == {d \in Owned(a) : status[d] \in NonTerminal}

\* runtime_store::load_previous_runtime: another live running row.
Previous(a, candidate) ==
    {d \in Owned(a) \ {candidate} : runtime[d] = "running" /\ endpoint[d] # 0}

\* deployment_store::load_active_runtime_release_id
ReleaseIsActive(a, r) ==
    \E d \in Owned(a) :
        /\ d = active[a] /\ release[d] = r
        /\ runtime[d] \in {"running", "stopped"} /\ endpoint[d] # 0

\* Mutation of RollbackTargets: the earliest success first.
EarliestTargets(a) ==
    LET candidates == {d \in Owned(a) : status[d] = "succeeded" /\ d # active[a]}
    IN  {d \in candidates : \A e \in candidates : finished[d] <= finished[e]}

\* The rows `ORDER BY finished_at DESC LIMIT 1` may return: several when the
\* timestamps, which count seconds, are equal.
RollbackTargets(a) ==
    LET candidates == {d \in Owned(a) : status[d] = "succeeded" /\ d # active[a]}
    IN  {d \in candidates : \A e \in candidates : finished[e] <= finished[d]}

\* CURRENT_TIMESTAMP at a success: later than every earlier one, or the same
\* second as the latest.
FinishTimes(a) ==
    {t \in UNION {{finished[d], finished[d] + 1} : d \in Owned(a)} :
        t # 0 /\ \A d \in Owned(a) :
            finished[d] < t \/ (Can("same_second") /\ finished[d] = t)}

\* Mutation of InUse: the ports of live runtimes are not counted.
ReservedOnly(p) == \E d \in Deployments : reservation[d] = p

\* port_allocator::reserve_port's query for a port that is in use.
InUse(p) == \E d \in Deployments : endpoint[d] = p \/ reservation[d] = p

FirstFree(p) ==
    p \in Ports /\ ~InUse(p) /\ \A q \in Ports : q < p => InUse(q)

-------------------------------------------------------------------------------
Init ==
    /\ status      = [d \in Deployments |-> "none"]
    /\ owner       = [d \in Deployments |-> None]
    /\ release     = [d \in Deployments |-> None]
    /\ finished    = [d \in Deployments |-> 0]
    /\ active      = [a \in Applications |-> None]
    /\ runtime     = [d \in Deployments |-> "none"]
    /\ endpoint    = [d \in Deployments |-> 0]
    /\ reservation = [d \in Deployments |-> 0]
    /\ exposure    = [a \in Applications |-> "not_materialized"]
    /\ confirmed   = [a \in Applications |-> NoRoute]
    /\ unit        = [d \in Deployments |-> 0]
    /\ container   = [d \in Deployments |-> "absent"]
    /\ fragment    = [a \in Applications |-> 0]
    /\ loaded      = [a \in Applications |-> 0]
    /\ op          = [a \in Applications |-> Idle]

(* Creation: the lock is free, no Deployment of the Application is under way *)

CreateDeployment(a, d, r) ==
    /\ At(a, "idle") /\ status[d] = "none" /\ Blocking(a) = {}
    /\ status'  = [status EXCEPT ![d] = "pending"]
    /\ owner'   = [owner EXCEPT ![d] = a]
    /\ release' = [release EXCEPT ![d] = r]
    /\ op' = [op EXCEPT ![a].step = "start", ![a].dep = d]
    /\ UNCHANGED <<finished, active, runtimeRows, exposureRows, podman, caddy>>

Deploy(a, d, r) ==
    /\ ~ReleaseIsActive(a, r)
    /\ CreateDeployment(a, d, r)

\* A rollback is a new Deployment of an earlier Release; AlreadyActive does not
\* apply to it.
Rollback(a, d) ==
    \E target \in RollbackTargets(a) : CreateDeployment(a, d, release[target])

Advance(a, event, step) ==
    /\ Transition(status[Dep(a)], event) # "illegal"
    /\ status' = [status EXCEPT ![Dep(a)] = Transition(@, event)]
    /\ Goto(a, step)
    /\ UNCHANGED <<owner, release, finished, active, runtimeRows, exposureRows,
                   podman, caddy>>

(* The candidate, one step per call of start_candidate that changes state *)

StartCandidate(a) ==
    /\ At(a, "start")
    /\ Advance(a, "start", "reserve")

\* Mutation of ReservePort: the end of the range is taken to be exclusive.
ReservePastRange(a) ==
    /\ At(a, "reserve")
    /\ \E p \in FirstPort..(LastPort + 1) :
        /\ ~InUse(p) /\ \A q \in FirstPort..(p - 1) : InUse(q)
        /\ reservation' = [reservation EXCEPT ![Dep(a)] = p]
    /\ Hold(a, "port", "write")
    /\ UNCHANGED <<deploymentRows, runtime, endpoint, exposureRows, podman, caddy>>

ReservePort(a) ==
    /\ At(a, "reserve")
    /\ \E p \in Ports :
        /\ FirstFree(p)
        /\ reservation' = [reservation EXCEPT ![Dep(a)] = p]
    /\ Hold(a, "port", "write")
    /\ UNCHANGED <<deploymentRows, runtime, endpoint, exposureRows, podman, caddy>>

\* Mutation of PortsExhausted: the command waits until a port is free.
AwaitPort(a) ==
    /\ At(a, "reserve") /\ \A p \in Ports : InUse(p)
    /\ UNCHANGED vars

PortsExhausted(a) ==
    /\ At(a, "reserve") /\ \A p \in Ports : InUse(p)
    /\ Goto(a, "fail")
    /\ UNCHANGED <<deploymentRows, runtimeRows, exposureRows, podman, caddy>>

\* A file cut short by a failure has no [Install] section and is no unit yet.
WriteUnit(a) ==
    /\ At(a, "write")
    /\ unit' = [unit EXCEPT ![Dep(a)] = reservation[Dep(a)]]
    /\ Hold(a, "unit", "launch")
    /\ UNCHANGED <<deploymentRows, runtimeRows, exposureRows, container, caddy>>

\* daemon-reload and start; a failed start may leave the container behind.
LaunchUnit(a) ==
    /\ At(a, "launch")
    /\ container' = [container EXCEPT ![Dep(a)] = "unknown"]
    /\ \/ Goto(a, "resolve")
       \/ Can("command") /\ Goto(a, "fail")
    /\ UNCHANGED <<deploymentRows, runtimeRows, exposureRows, unit, caddy>>

ResolveContainer(a) ==
    /\ At(a, "resolve") /\ container[Dep(a)] # "absent"
    /\ container' = [container EXCEPT ![Dep(a)] = "known"]
    /\ Hold(a, "container", "register")
    /\ UNCHANGED <<deploymentRows, runtimeRows, exposureRows, unit, caddy>>

\* The resolved identity is observed running and becomes the runtime row.  The
\* reservation kept the endpoint for it: no live row has it, and the error of a
\* conflict is never returned.
RegisterCandidate(a) ==
    LET d == Dep(a) IN
    /\ At(a, "register") /\ container[d] = "known"
    /\ status[d] = "starting" /\ \A e \in Deployments : endpoint[e] # unit[d]
    /\ runtime'  = [runtime EXCEPT ![d] = "starting"]
    /\ endpoint' = [endpoint EXCEPT ![d] = unit[d]]
    /\ Hold(a, "runtime", "consume")
    /\ UNCHANGED <<deploymentRows, reservation, exposureRows, podman, caddy>>

ConsumeReservation(a) ==
    /\ At(a, "consume") /\ reservation[Dep(a)] # 0
    /\ reservation' = [reservation EXCEPT ![Dep(a)] = 0]
    /\ Goto(a, "verify")
    /\ UNCHANGED <<deploymentRows, runtime, endpoint, exposureRows, podman, caddy>>

\* Advances to Verifying and remembers the predecessor to retire.
MarkVerifying(a) ==
    LET d == Dep(a) IN
    /\ At(a, "verify")
    /\ Transition(status[d], "runtime_running") # "illegal"
    /\ status' = [status EXCEPT ![d] = Transition(@, "runtime_running")]
    /\ \E p \in Previous(a, d) \cup {None} :
        /\ p = None => Previous(a, d) = {}
        /\ op' = [op EXCEPT ![a].step = "health", ![a].prev = p]
    /\ UNCHANGED <<owner, release, finished, active, runtimeRows, exposureRows,
                   podman, caddy>>

\* Any of these steps may fail before it changes anything; what the command
\* holds by then is released by the finalizer.
CandidateStepFails(a) ==
    /\ Can("store") \/ Can("command") \/ Can("restart")
    /\ op[a].step \in {"start", "reserve", "write", "launch", "resolve",
                       "register", "consume", "verify", "health", "route"}
    /\ Goto(a, "fail")
    /\ UNCHANGED <<deploymentRows, runtimeRows, exposureRows, podman, caddy>>

\* systemctl or podman fails and prints nothing: the message that ends in its
\* diagnostic is refused as a failure message, and only the cleanup happens.
CommandFailsSilently(a) ==
    /\ Can("quiet")
    /\ op[a].step \in {"launch", "resolve", "register"}
    /\ Goto(a, "cleanup")
    /\ UNCHANGED <<deploymentRows, runtimeRows, exposureRows, podman, caddy>>

(* Promotion: one transaction that stops the predecessor's row, starts the *)
(* candidate's, succeeds the Deployment and makes it the active one.       *)

\* A candidate is observed running before its row is inserted as "starting".
IsPromotable(d) == runtime[d] = "starting" /\ endpoint[d] # 0

PromotionRows(a, d) ==
    /\ IsPromotable(d)
    /\ Transition(status[d], "activated") # "illegal"
    /\ runtime' = [e \in Deployments |->
                     IF e \in Previous(a, d) THEN "stopped"
                     ELSE IF e = d THEN "running" ELSE runtime[e]]
    /\ status' = [status EXCEPT ![d] = Transition(@, "activated")]
    /\ active' = [active EXCEPT ![a] = d]
    /\ \E t \in FinishTimes(a) : finished' = [finished EXCEPT ![d] = t]
    /\ UNCHANGED <<owner, release, endpoint, reservation>>

\* The commit succeeded and the command goes on to retire the predecessor, or
\* it reported an error after taking effect and the command compensates.
AfterPromotion(a, compensation) ==
    \/ op' = [op EXCEPT ![a] =
                IF @.prev = None THEN Idle
                ELSE [Idle EXCEPT !.step = "retire", !.prev = op[a].prev]]
    \/ Can("uncertain") /\ Goto(a, compensation)

PromoteInternal(a) ==
    /\ At(a, "health") /\ a \notin PublicApplications
    /\ container[Dep(a)] # "absent"
    /\ PromotionRows(a, Dep(a))
    /\ AfterPromotion(a, "fail")
    /\ UNCHANGED <<exposureRows, podman, caddy>>

\* The internal promotion records the failure of an unhealthy candidate itself.
InternalUnhealthy(a) ==
    /\ At(a, "health") /\ a \notin PublicApplications
    /\ Advance(a, "fail", "cleanup")

(* Public activation *)

\* The unhealthy public candidate is failed by the finalizer.
PublicUnhealthy(a) ==
    /\ At(a, "health") /\ a \in PublicApplications
    /\ Goto(a, "fail")
    /\ UNCHANGED <<deploymentRows, runtimeRows, exposureRows, podman, caddy>>

MarkActivating(a) ==
    /\ At(a, "health") /\ a \in PublicApplications
    /\ container[Dep(a)] # "absent"
    /\ Advance(a, "verified", "route")

\* Any earlier state, a diverged one included, becomes applying.
BeginPublicExposure(a) ==
    LET d == Dep(a) IN
    /\ At(a, "route")
    /\ status[d] = "activating" /\ runtime[d] = "starting" /\ endpoint[d] # 0
    /\ exposure' = [exposure EXCEPT ![a] = "applying"]
    /\ Goto(a, "materialize")
    /\ UNCHANGED <<deploymentRows, runtimeRows, confirmed, podman, caddy>>

\* The validated temporary file replaces the fragment.
ReplaceFragment(a) ==
    /\ At(a, "materialize")
    /\ fragment' = [fragment EXCEPT ![a] = endpoint[Dep(a)]]
    /\ op' = [op EXCEPT ![a].step = "validate", ![a].saved = fragment[a]]
    /\ UNCHANGED <<deploymentRows, runtimeRows, exposureRows, podman, loaded>>

\* Mutation of ReplaceFragmentFails: the error is returned at once.
ReplaceFragmentReturns(a) ==
    /\ Can("command")
    /\ At(a, "materialize")
    /\ End(a)
    /\ UNCHANGED <<deploymentRows, runtimeRows, exposureRows, podman, caddy>>

ReplaceFragmentFails(a) ==
    /\ Can("command")
    /\ At(a, "materialize")
    /\ Goto(a, "record_failed")
    /\ UNCHANGED <<deploymentRows, runtimeRows, exposureRows, podman, caddy>>

\* Validation of the whole configuration fails: the file goes back to its
\* previous contents and Caddy, which never saw it, is not reloaded.
ValidationFails(a) ==
    /\ Can("command")
    /\ At(a, "validate")
    /\ \/ /\ fragment' = [fragment EXCEPT ![a] = op[a].saved]
          /\ Goto(a, "record_failed")
       \/ /\ UNCHANGED fragment
          /\ Goto(a, "record_diverged")
    /\ UNCHANGED <<deploymentRows, runtimeRows, exposureRows, podman, loaded>>

\* A reload takes in the fragment files of every Application.
ReloadCaddy(a) ==
    /\ At(a, "validate")
    /\ loaded' = fragment
    /\ Goto(a, "external")
    /\ UNCHANGED <<deploymentRows, runtimeRows, exposureRows, podman, fragment>>

ReloadFails(a) ==
    /\ Can("command")
    /\ At(a, "validate")
    /\ Goto(a, "restore")
    /\ UNCHANGED <<deploymentRows, runtimeRows, exposureRows, podman, caddy>>

PromotePublic(a) ==
    LET d == Dep(a) IN
    /\ At(a, "external")
    /\ container[d] # "absent" /\ loaded[a] = endpoint[d]
    /\ exposure[a] = "applying"
    /\ PromotionRows(a, d)
    /\ exposure'  = [exposure EXCEPT ![a] = "active"]
    /\ confirmed' = [confirmed EXCEPT ![a] =
                       [runtime |-> d, version |-> endpoint[d]]]
    /\ AfterPromotion(a, "restore")
    /\ UNCHANGED <<podman, caddy>>

\* External health rejects the route, or the promotion rolls back.
RejectPublicCandidate(a) ==
    /\ At(a, "external")
    /\ Goto(a, "restore")
    /\ UNCHANGED <<deploymentRows, runtimeRows, exposureRows, podman, caddy>>

\* Mutation of RestoreFragment: Caddy is not reloaded after the file is back.
RestoreFileOnly(a) ==
    /\ At(a, "restore")
    /\ fragment' = [fragment EXCEPT ![a] = op[a].saved]
    /\ Goto(a, "record_failed")
    /\ UNCHANGED <<deploymentRows, runtimeRows, exposureRows, podman, loaded>>

\* recover_previous_configuration: the file first, then a reload.
RestoreFragment(a) ==
    /\ At(a, "restore")
    /\ \/ /\ fragment' = [fragment EXCEPT ![a] = op[a].saved]
          /\ Goto(a, "reload")
       \/ /\ Can("command")
          /\ UNCHANGED fragment
          /\ Goto(a, "record_diverged")
    /\ UNCHANGED <<deploymentRows, runtimeRows, exposureRows, podman, loaded>>

ReloadRestored(a) ==
    /\ At(a, "reload")
    /\ \/ /\ loaded' = fragment
          /\ Goto(a, "record_failed")
       \/ /\ Can("command")
          /\ UNCHANGED loaded
          /\ Goto(a, "record_diverged")
    /\ UNCHANGED <<deploymentRows, runtimeRows, exposureRows, podman, fragment>>

\* The exposure row records whether compensation was complete; the write may
\* fail, and the diagnostic of a command that printed nothing panics.
RecordExposureFailure(a, step, state) ==
    /\ At(a, step)
    /\ \/ /\ exposure' = [exposure EXCEPT ![a] = state]
          /\ Goto(a, "fail")
       \/ /\ Can("store")
          /\ UNCHANGED exposure
          /\ Goto(a, "fail")
       \/ /\ Can("quiet")
          /\ UNCHANGED exposure
          /\ End(a)
    /\ UNCHANGED <<deploymentRows, runtimeRows, confirmed, podman, caddy>>

RecordFailedExposure(a)   == RecordExposureFailure(a, "record_failed", "failed")
RecordDivergedExposure(a) == RecordExposureFailure(a, "record_diverged", "diverged")

(* Failure and cleanup *)

\* Mutation of AfterFailure: a reserved port alone needs no cleanup.
AfterFailureUnlessPort(a) ==
    IF op[a].held \subseteq {"port"} THEN End(a) ELSE Goto(a, "cleanup")

AfterFailure(a) == IF op[a].held = {} THEN End(a) ELSE Goto(a, "cleanup")

\* finish_failed_deployment cleans up whether or not the failure was recorded.
FailDeployment(a) ==
    LET d == Dep(a) IN
    /\ At(a, "fail")
    /\ AfterFailure(a)
    /\ \/ /\ Transition(status[d], "fail") # "illegal"
          /\ status' = [status EXCEPT ![d] = Transition(@, "fail")]
       \/ /\ Transition(status[d], "fail") = "illegal" \/ Can("store")
          /\ UNCHANGED status
    /\ UNCHANGED <<owner, release, finished, active, runtimeRows, exposureRows,
                   podman, caddy>>

\* An uncertain promotion may have made the candidate the running runtime.
KeepPromoted(a) ==
    /\ At(a, "cleanup") /\ "runtime" \in op[a].held
    /\ runtime[Dep(a)] # "starting"
    /\ End(a)
    /\ UNCHANGED <<deploymentRows, runtimeRows, exposureRows, podman, caddy>>

\* Mutation of CleanupStarts: the state of the runtime row is not read first.
CleanupRegardless(a) == At(a, "cleanup")

CleanupStarts(a) ==
    At(a, "cleanup") /\ ("runtime" \in op[a].held => runtime[Dep(a)] = "starting")

\* `systemctl stop` of a unit; its ExecStop removes the container, or ignores
\* that it could not.
StopUnit(a, d, next) ==
    /\ \/ container' = [container EXCEPT ![d] = "absent"]
       \/ Can("command") /\ UNCHANGED container
    /\ Goto(a, next)
    /\ UNCHANGED <<deploymentRows, runtimeRows, exposureRows, unit, caddy>>

StopCandidate(a) ==
    /\ CleanupStarts(a) /\ "unit" \in op[a].held
    /\ StopUnit(a, Dep(a), "remove")

NothingToStop(a) ==
    /\ CleanupStarts(a) /\ "unit" \notin op[a].held
    /\ Goto(a, "prove")
    /\ UNCHANGED <<deploymentRows, runtimeRows, exposureRows, podman, caddy>>

\* The file goes; a daemon-reload that fails afterwards ends the cleanup.
RemoveUnit(a, d, step, next) ==
    /\ At(a, step)
    /\ unit' = [unit EXCEPT ![d] = 0]
    /\ \/ Goto(a, next)
       \/ Can("command") /\ End(a)
    /\ UNCHANGED <<deploymentRows, runtimeRows, exposureRows, container, caddy>>

RemoveCandidateUnit(a) == RemoveUnit(a, Dep(a), "remove", "prove")

\* Mutation of ProveRemoved: the stop is believed.
BelieveStop(d) == UNCHANGED container

\* prove_container_removed: only the recorded container identity is removed.
ProveRemoved(d) ==
    container' = [container EXCEPT ![d] = IF @ = "known" THEN "absent" ELSE @]

ProveCandidateRemoved(a) ==
    /\ At(a, "prove")
    /\ IF "container" \in op[a].held THEN ProveRemoved(Dep(a)) ELSE UNCHANGED container
    /\ Goto(a, "tombstone")
    /\ UNCHANGED <<deploymentRows, runtimeRows, exposureRows, unit, caddy>>

TombstoneCandidate(a) ==
    LET d == Dep(a) IN
    /\ At(a, "tombstone")
    /\ IF "runtime" \in op[a].held
       THEN /\ runtime[d] = "starting" /\ endpoint[d] # 0
            /\ endpoint' = [endpoint EXCEPT ![d] = 0]
       ELSE UNCHANGED endpoint
    /\ Goto(a, "release")
    /\ UNCHANGED <<deploymentRows, runtime, reservation, exposureRows, podman, caddy>>

ReleasePort(a) ==
    /\ At(a, "release")
    /\ reservation' = [reservation EXCEPT ![Dep(a)] = 0]
    /\ End(a)
    /\ UNCHANGED <<deploymentRows, runtime, endpoint, exposureRows, podman, caddy>>

\* The first error ends a cleanup or a retirement where it stands.
CompensationFails(a) ==
    /\ \/ /\ Can("command")
          /\ op[a].step \in {"cleanup", "remove", "prove",
                             "retire", "retire_remove", "retire_prove"}
       \/ /\ Can("store")
          /\ op[a].step \in {"tombstone", "release", "retire_mark"}
    /\ End(a)
    /\ UNCHANGED <<deploymentRows, runtimeRows, exposureRows, podman, caddy>>

(* Best-effort retirement of the predecessor after promotion *)

RetireStop(a) == At(a, "retire") /\ StopUnit(a, op[a].prev, "retire_remove")

RetireUnit(a) == RemoveUnit(a, op[a].prev, "retire_remove", "retire_prove")

ProvePreviousRemoved(a) ==
    /\ At(a, "retire_prove")
    /\ ProveRemoved(op[a].prev)
    /\ Goto(a, "retire_mark")
    /\ UNCHANGED <<deploymentRows, runtimeRows, exposureRows, unit, caddy>>

RetireRuntime(a) ==
    LET d == op[a].prev IN
    /\ At(a, "retire_mark")
    /\ runtime[d] = "stopped" /\ endpoint[d] # 0
    /\ endpoint' = [endpoint EXCEPT ![d] = 0]
    /\ End(a)
    /\ UNCHANGED <<deploymentRows, runtime, reservation, exposureRows, podman, caddy>>

(* Recovery of an interrupted Deployment, under the lock its owner lost *)

\* recover_interrupted_deployment for one stage: the failure is recorded first.
\* `next` is what the recovery goes on with.
Recover(a, d, stages, next) ==
    /\ At(a, "idle") /\ d \in Blocking(a) /\ status[d] \in stages
    /\ status' = [status EXCEPT ![d] = Transition(@, "fail")]
    /\ op' = [op EXCEPT ![a] = next]
    /\ UNCHANGED <<owner, release, finished, active, runtimeRows, exposureRows,
                   podman, caddy>>

\* What the recovery can prove to be the candidate's own: the canonical unit
\* file, and the named container under the recorded identity and endpoint.
Proven(d) ==
    (IF unit[d] = endpoint[d] THEN {"unit"} ELSE {}) \cup
    (IF container[d] = "known" THEN {"container"} ELSE {})

RecoverPending(a, d) == Recover(a, d, {"pending"}, Idle)

\* Without a runtime row, or with nothing proven, no cleanup is attempted.
RecoverUnproven(a, d) ==
    /\ endpoint[d] = 0 \/ Proven(d) = {} \/ Can("command")
    /\ Recover(a, d, {"starting", "verifying"}, Idle)

\* Mutation of RecoverCandidate: an activating candidate is cleaned up as well.
RecoverAnyCandidate(a, d) ==
    /\ endpoint[d] # 0 /\ Proven(d) # {}
    /\ Recover(a, d, {"starting", "verifying", "activating"},
               [Idle EXCEPT !.step = "cleanup", !.dep = d,
                            !.held = Proven(d) \cup {"runtime"}])

RecoverCandidate(a, d) ==
    /\ endpoint[d] # 0 /\ Proven(d) # {}
    /\ Recover(a, d, {"starting", "verifying"},
               [Idle EXCEPT !.step = "cleanup", !.dep = d,
                            !.held = Proven(d) \cup {"runtime"}])

\* The candidate of an interrupted activation is not cleaned up.
RecoverActivation(a, d) ==
    Recover(a, d, {"activating"}, [Idle EXCEPT !.step = "settle", !.dep = d])

\* prior_canonical_route_is_present, from the fragment file alone.
PriorRouteIsPresent(a) ==
    \E d \in Owned(a) :
        /\ d = active[a] /\ runtime[d] \in {"running", "stopped"} /\ endpoint[d] # 0
        /\ confirmed[a].runtime = d
        /\ fragment[a] = confirmed[a].version

\* Mutation of SettleExposure: a preserved route is taken for a confirmed one.
SettleAsActive(a) ==
    /\ At(a, "settle") /\ exposure[a] = "applying"
    /\ exposure' = [exposure EXCEPT ![a] =
            IF PriorRouteIsPresent(a) THEN "active" ELSE "diverged"]
    /\ End(a)
    /\ UNCHANGED <<deploymentRows, runtimeRows, confirmed, podman, caddy>>

SettleExposure(a) ==
    /\ At(a, "settle")
    /\ \/ /\ exposure[a] = "applying"
          /\ exposure' = [exposure EXCEPT ![a] =
                IF PriorRouteIsPresent(a) THEN "failed" ELSE "diverged"]
       \/ /\ exposure[a] # "applying" \/ Can("store") \/ Can("command")
          /\ UNCHANGED exposure
    /\ End(a)
    /\ UNCHANGED <<deploymentRows, runtimeRows, confirmed, podman, caddy>>

(* The environment *)

Crash(a) ==
    /\ Can("crash")
    /\ ~At(a, "idle")
    /\ End(a)
    /\ UNCHANGED <<deploymentRows, runtimeRows, exposureRows, podman, caddy>>

\* Every Quadlet file is WantedBy=default.target and Caddy reads its fragments.
Reboot ==
    /\ Can("reboot")
    /\ op' = [a \in Applications |-> Idle]
    /\ container' = [d \in Deployments |->
                        IF unit[d] # 0 THEN "unknown" ELSE "absent"]
    /\ loaded' = fragment
    /\ UNCHANGED <<deploymentRows, runtimeRows, exposureRows, unit, fragment>>

\* Restart=on-failure gives a failed container a successor with a new identity.
RestartContainer(d) ==
    /\ Can("restart")
    /\ container[d] = "known" /\ unit[d] # 0
    /\ container' = [container EXCEPT ![d] = "unknown"]
    /\ UNCHANGED <<deploymentRows, runtimeRows, exposureRows, unit, caddy, op>>

-------------------------------------------------------------------------------

Command(a) ==
    \/ StartCandidate(a) \/ ReservePort(a) \/ PortsExhausted(a) \/ WriteUnit(a)
    \/ LaunchUnit(a) \/ ResolveContainer(a) \/ RegisterCandidate(a)
    \/ ConsumeReservation(a) \/ MarkVerifying(a) \/ CandidateStepFails(a)
    \/ CommandFailsSilently(a)
    \/ PromoteInternal(a) \/ InternalUnhealthy(a) \/ PublicUnhealthy(a)
    \/ MarkActivating(a) \/ BeginPublicExposure(a) \/ ReplaceFragment(a)
    \/ ReplaceFragmentFails(a) \/ ValidationFails(a) \/ ReloadCaddy(a)
    \/ ReloadFails(a) \/ PromotePublic(a) \/ RejectPublicCandidate(a)
    \/ RestoreFragment(a) \/ ReloadRestored(a) \/ RecordFailedExposure(a)
    \/ RecordDivergedExposure(a) \/ FailDeployment(a) \/ KeepPromoted(a)
    \/ StopCandidate(a) \/ NothingToStop(a) \/ RemoveCandidateUnit(a)
    \/ ProveCandidateRemoved(a) \/ TombstoneCandidate(a) \/ ReleasePort(a)
    \/ CompensationFails(a)
    \/ RetireStop(a) \/ RetireUnit(a) \/ ProvePreviousRemoved(a) \/ RetireRuntime(a)
    \/ SettleExposure(a)

Reconcile(a) ==
    \E d \in Deployments :
        \/ RecoverPending(a, d) \/ RecoverUnproven(a, d)
        \/ RecoverCandidate(a, d) \/ RecoverActivation(a, d)

Request(a) ==
    \E d \in Deployments :
        \/ \E r \in Releases : Deploy(a, d, r)
        \/ Rollback(a, d)

Next ==
    \/ \E a \in Applications : Request(a) \/ Command(a) \/ Reconcile(a) \/ Crash(a)
    \/ \E d \in Deployments : RestartContainer(d)
    \/ Reboot

Spec == Init /\ [][Next]_vars

\* A command runs its calls one after another, each bounded by a timeout, until
\* it returns or dies; an operator or CI keeps running `pneuma reconcile`.
FairSpec ==
    /\ Spec
    /\ \A a \in Applications : WF_vars(Command(a)) /\ WF_vars(Reconcile(a))

-------------------------------------------------------------------------------
(* Properties *)

\* Every variable has its type: rows hold domain values, a port is in the
\* configured range, and a command is at one of its steps.
TypeOK ==
    /\ status \in [Deployments -> Statuses]
    /\ owner \in [Deployments -> Applications \cup {None}]
    /\ release \in [Deployments -> Releases \cup {None}]
    /\ finished \in [Deployments -> Nat]
    /\ active \in [Applications -> Deployments \cup {None}]
    /\ runtime \in [Deployments -> RuntimeStates]
    /\ endpoint \in [Deployments -> PortOrNone]
    /\ reservation \in [Deployments -> PortOrNone]
    /\ exposure \in [Applications -> ExposureStates]
    /\ confirmed \in [Applications -> Routes]
    /\ unit \in [Deployments -> PortOrNone]
    /\ container \in [Deployments -> {"absent", "unknown", "known"}]
    /\ fragment \in [Applications -> PortOrNone]
    /\ loaded \in [Applications -> PortOrNone]
    /\ op \in [Applications -> Operations]

\* Two units on the host never publish the same port, whatever fails or dies
\* between the reservation of a port and the removal of the unit: cleanup gives
\* a port back only after the unit is gone, and a crash only leaks it.
PortsExclusive ==
    \A d, e \in Deployments : d # e /\ unit[d] # 0 => unit[d] # unit[e]

\* A runtime is running exactly when its Deployment is the active one of its
\* Application, and then its unit is on disk under its port: no cleanup,
\* retirement or recovery ever takes the active runtime, not even after a commit
\* whose outcome the command got wrong.
CurrentRuntime ==
    \A d \in Deployments :
        LET current == owner[d] # None /\ active[owner[d]] = d IN
        /\ runtime[d] = "running" <=> current
        /\ current => status[d] = "succeeded" /\ endpoint[d] # 0
                      /\ unit[d] = endpoint[d]

\* An active exposure is true of the database and of Caddy: the confirmed
\* runtime is the active one, and the fragment and the running configuration
\* both route to its endpoint.
RouteConfirmed ==
    \A a \in Applications :
        exposure[a] = "active" =>
            /\ active[a] # None /\ confirmed[a].runtime = active[a]
            /\ confirmed[a].version = endpoint[active[a]]
            /\ fragment[a] = confirmed[a].version
            /\ loaded[a] = confirmed[a].version

\* `failed` promises that compensation was complete: once the command has
\* ended, Caddy serves the route the last promotion confirmed, or none.
FailedKeepsRoute ==
    \A a \in Applications :
        exposure[a] = "failed" /\ At(a, "idle") => loaded[a] = confirmed[a].version

\* Caddy never sends an Application's domain to another Application's unit, even
\* though a port given back is soon reserved by someone else.
NoForeignRoute ==
    \A a \in Applications, d \in Deployments :
        loaded[a] # 0 /\ unit[d] = loaded[a] => owner[d] = a

\* A command that returns has ended its Deployment: the next deploy is not
\* blocked by it.
Settled ==
    \A a \in Applications : At(a, "idle") => Blocking(a) = {}

\* A runtime row is tombstoned, and its port free again, only after the recorded
\* container is gone.
RemovalIsProven ==
    [][\A d \in Deployments :
         endpoint[d] # 0 /\ endpoint'[d] = 0 => container'[d] # "known"]_vars

\* Compensation and retirement leave nothing: once the command has ended, a
\* Deployment that is not the active one has no port, no unit and no container.
NothingLeftBehind ==
    \A d \in Deployments :
        /\ owner[d] # None
        /\ At(owner[d], "idle") /\ active[owner[d]] # d
        => /\ status[d] \in Terminal
           /\ reservation[d] = 0 /\ endpoint[d] = 0
           /\ unit[d] = 0 /\ container[d] = "absent"

\* Rolling back never lands on the Release that already runs.
RollbackChangesRelease ==
    \A a \in Applications : active[a] # None =>
        \A target \in RollbackTargets(a) : release[target] # release[active[a]]

\* A reservation is consumed or released: none survives the end of its
\* Deployment's command and recovery.
ReservationsAreReturned ==
    \A d \in Deployments :
        status[d] \in Terminal /\ At(owner[d], "idle") => reservation[d] = 0

\* An exposure is `failed` with the confirmed fragment in place only when Caddy
\* also runs with it; recovery says so of an interrupted activation.
RestoredFileIsServed ==
    \A a \in Applications :
        /\ exposure[a] = "failed" /\ At(a, "idle")
        /\ fragment[a] = confirmed[a].version
        => loaded[a] = fragment[a]

\* A first Deployment whose activation failed and was compensated leaves Caddy
\* without a route for the domain.
FirstFailureServesNothing ==
    \A a \in Applications :
        /\ exposure[a] = "failed" /\ At(a, "idle") /\ Cardinality(Owned(a)) = 1
        => loaded[a] = 0

\* A command ends, in promotion or after compensation, or dies.
OperationsEnd ==
    \A a \in Applications : ~At(a, "idle") ~> At(a, "idle")

\* A Deployment under way reaches an outcome, its own command's or recovery's.
DeploymentsEnd ==
    \A d \in Deployments :
        status[d] \in NonTerminal ~> status[d] \in Terminal

-------------------------------------------------------------------------------
(* What the component promises its users *)

Phase(d) ==
    CASE status[d] = "none" -> "unborn"
      [] status[d] \in NonTerminal -> "candidate"
      [] status[d] = "failed" -> "rejected"
      [] OTHER -> IF active[owner[d]] = d THEN "current" ELSE "retired"

Abstract == INSTANCE Activation WITH
    phase   <- [d \in Deployments |-> Phase(d)],
    current <- active

\* Every behaviour of the commands, their failures and their recovery is one of
\* the abstract activation: an outcome is final, an Application has at most one
\* candidate, and the active Deployment changes only by promoting it.
ImplementsActivation == Abstract!Spec

===============================================================================
