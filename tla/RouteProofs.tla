----------------------------- MODULE RouteProofs -----------------------------
(***************************************************************************)
(* Proofs about the route of an Application: the row of its exposure, the  *)
(* fragment file, and the configuration Caddy runs with.                   *)
(*                                                                         *)
(* Each theorem names the failures it excludes, and TLC shows that it is   *)
(* false with them.  An active exposure is the route that Caddy serves     *)
(* unless a commit may take effect and report an error: compensation then  *)
(* takes the route of a promoted runtime away.  A domain is never sent to  *)
(* another Application's unit, and a failed exposure keeps the last        *)
(* confirmed route, unless compensation itself may fail or die.            *)
(***************************************************************************)
EXTENDS ActivationProofs

-------------------------------------------------------------------------------
(* Where routes change *)

\* Steps of a public activation that has begun, and those that may have changed
\* the fragment and not put it back.
Routing ==
    {"materialize", "validate", "external", "restore", "reload", "record_failed",
     "record_diverged"}
PublicSteps == Routing \cup {"route"}
Rerouting == {"validate", "external", "restore", "reload"}

\* A step that changes no route, neither within an activation nor into one.
OffRoute(a) ==
    /\ op[a].step \notin Routing /\ op'[a].step \notin PublicSteps
    /\ UNCHANGED <<exposure, confirmed, fragment, loaded>>
    /\ a \in PublicApplications => UNCHANGED active

\* The steps of start_candidate change no route.
LEMMA CandidateOffRoute ==
    ASSUME Invariant, NEW a \in Applications,
           \/ StartCandidate(a) \/ ReservePort(a) \/ PortsExhausted(a) \/ WriteUnit(a)
           \/ LaunchUnit(a) \/ ResolveContainer(a) \/ RegisterCandidate(a)
           \/ ConsumeReservation(a) \/ MarkVerifying(a) \/ CandidateStepFails(a)
           \/ CommandFailsSilently(a)
    PROVE  OffRoute(a)
<1> USE DEF Invariant, OffRoute, PublicSteps, Routing, At, exposureRows, caddy,
            deploymentRows
<1>1. CASE StartCandidate(a)
  BY <1>1, GotoFields DEF StartCandidate, Advance
<1>2. CASE ReservePort(a) \/ WriteUnit(a)
  BY <1>2, HoldFields DEF ReservePort, WriteUnit
<1>3. CASE ResolveContainer(a) \/ RegisterCandidate(a)
  BY <1>3, HoldFields DEF ResolveContainer, RegisterCandidate
<1>4. CASE PortsExhausted(a) \/ LaunchUnit(a) \/ ConsumeReservation(a)
  BY <1>4, GotoFields DEF PortsExhausted, LaunchUnit, ConsumeReservation
<1>5. CASE CandidateStepFails(a) \/ CommandFailsSilently(a)
  BY <1>5, GotoFields DEF CandidateStepFails, CommandFailsSilently
<1>6. CASE MarkVerifying(a)
  <2>1. PICK p : op' = [op EXCEPT ![a] = [op[a] EXCEPT !.step = "health", !.prev = p]]
    BY <1>6 DEF MarkVerifying
  <2>2. op'[a].step = "health"
    BY <2>1 DEF TypeOK, Operations
  <2> QED BY <1>6, <2>2 DEF MarkVerifying
<1> QED BY <1>1, <1>2, <1>3, <1>4, <1>5, <1>6

\* Neither do an internal promotion, failure, cleanup and retirement.
LEMMA CompensationOffRoute ==
    ASSUME Invariant, NEW a \in Applications,
           \/ PromoteInternal(a) \/ InternalUnhealthy(a) \/ PublicUnhealthy(a)
           \/ FailDeployment(a) \/ KeepPromoted(a) \/ StopCandidate(a)
           \/ NothingToStop(a) \/ RemoveCandidateUnit(a) \/ ProveCandidateRemoved(a)
           \/ TombstoneCandidate(a) \/ ReleasePort(a) \/ CompensationFails(a)
           \/ RetireStop(a) \/ RetireUnit(a) \/ ProvePreviousRemoved(a)
           \/ RetireRuntime(a)
    PROVE  OffRoute(a)
<1> USE DEF Invariant, OffRoute, PublicSteps, Routing, At, exposureRows, caddy,
            deploymentRows
<1>1. CASE PromoteInternal(a)
  <2>1. AfterPromotion(a, "fail")
    BY <1>1 DEF PromoteInternal
  <2>2. op'[a].step \in {"idle", "retire", "fail"}
    BY <2>1, AfterPromotionFields, EndFields, GotoFields
  <2> QED BY <1>1, <2>2 DEF PromoteInternal
<1>2. CASE InternalUnhealthy(a) \/ PublicUnhealthy(a)
  BY <1>2, GotoFields DEF InternalUnhealthy, PublicUnhealthy, Advance
<1>3. CASE FailDeployment(a)
  BY <1>3, GotoFields, EndFields DEF FailDeployment, AfterFailure
<1>4. CASE KeepPromoted(a) \/ ReleasePort(a) \/ CompensationFails(a) \/ RetireRuntime(a)
  BY <1>4, EndFields DEF KeepPromoted, ReleasePort, CompensationFails, RetireRuntime
<1>5. CASE StopCandidate(a) \/ NothingToStop(a)
  BY <1>5, GotoFields DEF StopCandidate, StopUnit, NothingToStop, CleanupStarts
<1>6. CASE RemoveCandidateUnit(a) \/ RetireUnit(a)
  BY <1>6, GotoFields, EndFields DEF RemoveCandidateUnit, RetireUnit, RemoveUnit
<1>7. CASE \/ ProveCandidateRemoved(a) \/ TombstoneCandidate(a) \/ RetireStop(a)
           \/ ProvePreviousRemoved(a)
  BY <1>7, GotoFields
     DEF ProveCandidateRemoved, TombstoneCandidate, RetireStop, StopUnit,
         ProvePreviousRemoved
<1> QED BY <1>1, <1>2, <1>3, <1>4, <1>5, <1>6, <1>7

\* Nor do a request and the first step of a recovery.
LEMMA RequestOffRoute ==
    ASSUME Invariant, NEW a \in Applications, Request(a) \/ Reconcile(a)
    PROVE  OffRoute(a)
<1> USE DEF Invariant, OffRoute, PublicSteps, Routing, At, exposureRows, caddy,
            deploymentRows
<1>1. CASE Request(a)
  <2>1. PICK d \in Deployments, r \in Releases \cup {None} : CreateDeployment(a, d, r)
    BY <1>1, RequestCreates
  <2>2. op' = [op EXCEPT ![a] = [op[a] EXCEPT !.step = "start", !.dep = d]]
    BY <2>1 DEF CreateDeployment
  <2>3. op'[a].step = "start"
    BY <2>2 DEF TypeOK, Operations
  <2> QED BY <2>1, <2>3 DEF CreateDeployment
<1>2. CASE Reconcile(a)
  <2>1. PICK d \in Deployments :
          \E next \in RecoveryOps(d) : Recover(a, d, NonTerminal, next)
    BY <1>2, ReconcileRecovers
  <2>2. PICK next \in RecoveryOps(d) : Recover(a, d, NonTerminal, next)
    BY <2>1
  <2>3. op[a].step = "idle" /\ op'[a].step \in {"idle", "settle", "cleanup"}
    BY <2>2, RecoverFields
  <2> QED BY <2>2, <2>3 DEF Recover
<1> QED BY <1>1, <1>2
\* A step of a public activation.
OnRoute(a) ==
    \/ MarkActivating(a) \/ BeginPublicExposure(a) \/ ReplaceFragment(a)
    \/ ReplaceFragmentFails(a) \/ ValidationFails(a) \/ ReloadCaddy(a)
    \/ ReloadFails(a) \/ PromotePublic(a) \/ RejectPublicCandidate(a)
    \/ RestoreFragment(a) \/ ReloadRestored(a) \/ RecordFailedExposure(a)
    \/ RecordDivergedExposure(a)

\* A recovery settles the exposure, or the command dies.
RouteEnds(a) == SettleExposure(a) \/ Crash(a)

\* Whatever moves an Application changes no route, is a step of a public
\* activation, or ends the command.
LEMMA RouteSteps ==
    ASSUME Invariant, NEW a \in Applications,
           Request(a) \/ Command(a) \/ Reconcile(a) \/ Crash(a)
    PROVE  OffRoute(a) \/ OnRoute(a) \/ RouteEnds(a)
  BY CandidateOffRoute, CompensationOffRoute, RequestOffRoute
     DEF Command, OnRoute, RouteEnds

\* A step of a public activation writes no endpoint, and only the promotion
\* moves the active Deployment.
LEMMA OnRouteRows ==
    ASSUME NEW a \in Applications, OnRoute(a) \/ RouteEnds(a)
    PROVE  /\ UNCHANGED <<owner, endpoint>>
           /\ PromotePublic(a) \/ UNCHANGED active
  BY DEF OnRoute, RouteEnds, MarkActivating, Advance, BeginPublicExposure,
         ReplaceFragment, ReplaceFragmentFails, ValidationFails, ReloadCaddy,
         ReloadFails, PromotePublic, RejectPublicCandidate, RestoreFragment,
         ReloadRestored, RecordFailedExposure, RecordDivergedExposure,
         RecordExposureFailure, SettleExposure, Crash, PromotionRows, deploymentRows,
         runtimeRows

\* The endpoint of an active runtime is kept until another is promoted: it is
\* neither a candidate's, to be registered or tombstoned, nor a predecessor's.
LEMMA ActiveKeepsEndpoint ==
    ASSUME RuntimeInvariant, [Next]_vars, NEW b \in Applications, active[b] # None
    PROVE  endpoint'[active[b]] = endpoint[active[b]]
<1>1. CASE UNCHANGED endpoint
  BY <1>1
<1>2. ASSUME NEW a \in Applications,
             RegisterCandidate(a) \/ TombstoneCandidate(a) \/ RetireRuntime(a)
      PROVE  endpoint'[active[b]] = endpoint[active[b]]
  <2>1. /\ active[b] \in Deployments /\ status[active[b]] = "succeeded"
        /\ runtime[active[b]] = "running"
    BY DEF RuntimeInvariant, RuntimesFollow, ActiveIsRunning, Invariant, TypeOK
  <2>2. CASE RegisterCandidate(a)
    <3>1. Dep(a) # active[b] /\ endpoint' = [endpoint EXCEPT ![Dep(a)] = unit[Dep(a)]]
      BY <2>1, <2>2 DEF RegisterCandidate
    <3> QED BY <2>1, <3>1 DEF RuntimeInvariant, Invariant, TypeOK
  <2>3. CASE TombstoneCandidate(a)
    <3>1. \/ UNCHANGED endpoint
          \/ Dep(a) # active[b] /\ endpoint' = [endpoint EXCEPT ![Dep(a)] = 0]
      BY <2>1, <2>3 DEF TombstoneCandidate
    <3> QED BY <2>1, <3>1 DEF RuntimeInvariant, Invariant, TypeOK
  <2>4. CASE RetireRuntime(a)
    <3>1. op[a].prev # active[b] /\ endpoint' = [endpoint EXCEPT ![op[a].prev] = 0]
      BY <2>1, <2>4 DEF RetireRuntime
    <3> QED BY <2>1, <3>1 DEF RuntimeInvariant, Invariant, TypeOK
  <2> QED BY <1>2, <2>2, <2>3, <2>4
<1> QED BY <1>1, <1>2, EndpointSteps

-------------------------------------------------------------------------------
(* An active exposure is what Caddy serves *)

\* Caddy serves the active runtime, which the exposure row confirms.
Serves(a) ==
    /\ active[a] # None /\ confirmed[a].runtime = active[a]
    /\ confirmed[a].version = endpoint[active[a]]
    /\ fragment[a] = confirmed[a].version
    /\ loaded[a] = confirmed[a].version

\* What an Application's command knows of its route, and, unless a commit may
\* report an error after taking effect, what the exposure row says of it.
RouteFollows(a) ==
    /\ op[a].step \in PublicSteps => a \in PublicApplications
    /\ op[a].step \in {"validate", "external"} => fragment[a] = endpoint[op[a].dep]
    /\ a \notin PublicApplications =>
           exposure[a] = "not_materialized" /\ fragment[a] = 0 /\ loaded[a] = 0
    /\ ~Can("uncertain") =>
           /\ op[a].step \in Routing => exposure[a] = "applying"
           /\ exposure[a] = "active" => Serves(a)

RoutesFollow == \A a \in Applications : RouteFollows(a)
RouteInvariant == RuntimeInvariant /\ RoutesFollow

\* A command leaves the routes of other Applications as they say: a reload takes
\* in a fragment that an active exposure names.
LEMMA OtherRoutes ==
    ASSUME RouteInvariant, [Next]_vars, NEW a \in Applications, OnlyMoves(a),
           NEW b \in Applications, b # a
    PROVE  RouteFollows(b)'
<1>1. ApplicationKeeps(b) /\ RouteFollows(b) /\ Owns(b, op[b]) /\ b # None
  BY NoneAssumption
     DEF OnlyMoves, RouteInvariant, RoutesFollow, RuntimeInvariant, Invariant,
         PortInvariant, OpOwnsItsWork
<1>2. op[b].step \in {"validate", "external"} =>
        endpoint'[op[b].dep] = endpoint[op[b].dep]
  <2>1. op[b].step \in {"validate", "external"} =>
          op[b].dep \in Deployments /\ owner[op[b].dep] = b
    BY <1>1 DEF Owns, CandidateSteps, WithUnit
  <2> QED BY <1>1, <2>1 DEF OnlyMoves, DeploymentKeeps
<1>3. active[b] # None => endpoint'[active[b]] = endpoint[active[b]]
  BY ActiveKeepsEndpoint DEF RouteInvariant
<1>4. ~Can("uncertain") => (exposure[b] = "active" => Serves(b))'
  BY <1>1, <1>3 DEF ApplicationKeeps, RouteFollows, Serves
<1> QED BY <1>1, <1>2, <1>4 DEF ApplicationKeeps, RouteFollows

\* Off the route, what is said of it stays true: the promotion of an internal
\* Application finds no active exposure.
LEMMA OffRouteFollows ==
    ASSUME RouteInvariant, [Next]_vars, NEW a \in Applications, OffRoute(a),
           Request(a) \/ Command(a) \/ Reconcile(a)
    PROVE  RouteFollows(a)'
<1>1. RouteFollows(a)
  BY DEF RouteInvariant, RoutesFollow
<1>2. exposure[a] = "active" => active'[a] = active[a]
  BY <1>1 DEF RouteFollows, OffRoute
<1>3. active[a] # None => endpoint'[active[a]] = endpoint[active[a]]
  BY ActiveKeepsEndpoint DEF RouteInvariant
<1>4. ~Can("uncertain") => (exposure[a] = "active" => Serves(a))'
  BY <1>1, <1>2, <1>3 DEF OffRoute, RouteFollows, Serves
<1> QED BY <1>1, <1>4 DEF OffRoute, RouteFollows, PublicSteps, Routing

\* An activation confirms the route that it has put in place, and its row is not
\* active before that.
LEMMA OnRouteFollows ==
    ASSUME RouteInvariant, NEW a \in Applications, OnRoute(a) \/ RouteEnds(a)
    PROVE  RouteFollows(a)'
<1>1. /\ RouteFollows(a) /\ TypeOK
      /\ op[a].step \in CandidateSteps => Dep(a) \in Deployments
  BY CandidateFacts DEF RouteInvariant, RoutesFollow, RuntimeInvariant, Invariant
<1>2. UNCHANGED endpoint /\ (PromotePublic(a) \/ UNCHANGED active)
  BY OnRouteRows
<1> USE <1>1, <1>2
    DEF RouteFollows, Serves, PublicSteps, Routing, TypeOK, At, Dep, Carries,
        CandidateSteps, WithUnit, exposureRows, caddy
<1>3. CASE MarkActivating(a)
  BY <1>3, GotoFields DEF MarkActivating, Advance
<1>4. CASE BeginPublicExposure(a)
  BY <1>4, GotoFields DEF BeginPublicExposure
<1>5. CASE ReplaceFragment(a)
  <2>1. op' = [op EXCEPT ![a] = [op[a] EXCEPT !.step = "validate", !.saved = fragment[a]]]
    BY <1>5 DEF ReplaceFragment
  <2>2. op'[a].step = "validate" /\ op'[a].dep = op[a].dep
    BY <2>1 DEF Operations
  <2> QED BY <1>5, <2>2 DEF ReplaceFragment
<1>6. CASE ReplaceFragmentFails(a) \/ ReloadFails(a) \/ RejectPublicCandidate(a)
  BY <1>6, GotoFields DEF ReplaceFragmentFails, ReloadFails, RejectPublicCandidate
<1>7. CASE ValidationFails(a)
  BY <1>7, GotoFields DEF ValidationFails
<1>8. CASE ReloadCaddy(a)
  BY <1>8, GotoFields DEF ReloadCaddy
<1>9. CASE PromotePublic(a)
  <2>1. AfterPromotion(a, "restore") /\ op[a].step = "external"
    BY <1>9 DEF PromotePublic
  <2>2. \/ op'[a].step \in {"idle", "retire"}
        \/ Can("uncertain") /\ op'[a].step = "restore"
    BY <2>1, AfterPromotionFields, EndFields, GotoFields
  <2>3. /\ exposure'[a] = "active" /\ active'[a] = Dep(a)
        /\ confirmed'[a].runtime = Dep(a) /\ confirmed'[a].version = endpoint[Dep(a)]
        /\ UNCHANGED <<fragment, loaded>> /\ loaded[a] = endpoint[Dep(a)]
    BY <1>9 DEF PromotePublic, PromotionRows
  <2>4. a \in PublicApplications /\ fragment[a] = endpoint[Dep(a)] /\ Dep(a) # None
    BY <2>1, NoneAssumption
  <2>5. Serves(a)'
    BY <2>3, <2>4
  <2> QED BY <2>2, <2>3, <2>4, <2>5
<1>10. CASE RestoreFragment(a)
  BY <1>10, GotoFields DEF RestoreFragment
<1>11. CASE ReloadRestored(a)
  BY <1>11, GotoFields DEF ReloadRestored
<1>12. CASE RecordFailedExposure(a) \/ RecordDivergedExposure(a)
  BY <1>12, GotoFields, EndFields
     DEF RecordFailedExposure, RecordDivergedExposure, RecordExposureFailure
<1>13. CASE SettleExposure(a)
  BY <1>13, EndFields DEF SettleExposure, deploymentRows
<1>14. CASE Crash(a)
  BY <1>14, EndFields DEF Crash, deploymentRows
<1> QED
  BY <1>3, <1>4, <1>5, <1>6, <1>7, <1>8, <1>9, <1>10, <1>11, <1>12, <1>13, <1>14
     DEF OnRoute, RouteEnds

\* Every step keeps what is known of the routes.
LEMMA StepRoutes ==
    ASSUME RouteInvariant, [Next]_vars
    PROVE  RoutesFollow'
<1>1. ASSUME NEW a \in Applications,
             Request(a) \/ Command(a) \/ Reconcile(a) \/ Crash(a)
      PROVE  RoutesFollow'
  <2>1. OnlyMoves(a)
    BY <1>1, CommandIsLocal DEF RouteInvariant, RuntimeInvariant
  <2>2. OffRoute(a) \/ OnRoute(a) \/ RouteEnds(a)
    BY <1>1, RouteSteps DEF RouteInvariant, RuntimeInvariant
  <2>3. CASE OffRoute(a) /\ ~RouteEnds(a)
    BY <1>1, <2>1, <2>3, OtherRoutes, OffRouteFollows DEF RoutesFollow, RouteEnds
  <2>4. CASE OnRoute(a) \/ RouteEnds(a)
    BY <2>1, <2>4, OtherRoutes, OnRouteFollows DEF RoutesFollow
  <2> QED BY <2>2, <2>3, <2>4
<1> USE DEF RouteInvariant, RoutesFollow, RouteFollows, Serves, exposureRows, caddy,
            deploymentRows, runtimeRows
<1>2. CASE \E d \in Deployments : RestartContainer(d)
  BY <1>2 DEF RestartContainer
<1>3. CASE Reboot
  <2>1. \A a \in Applications : op'[a].step = "idle"
    BY <1>3 DEF Reboot, Idle
  <2> QED BY <1>3, <2>1 DEF Reboot, PublicSteps, Routing
<1>4. CASE UNCHANGED vars
  BY <1>4 DEF vars
<1> QED BY <1>1, <1>2, <1>3, <1>4 DEF Next

\* The invariant of the routes holds initially and every step keeps it.
THEOREM RouteInvariantHolds == Spec => []RouteInvariant
<1>1. Init => RoutesFollow
  BY DEF Init, RoutesFollow, RouteFollows, PublicSteps, Routing, Idle
<1>2. RouteInvariant /\ [Next]_vars => RoutesFollow'
  BY StepRoutes
<1> QED BY <1>1, <1>2, RuntimeInvariantHolds, PTL DEF Spec, RouteInvariant

\* An active exposure is true of the database and of Caddy, as long as no commit
\* takes effect and reports an error.
THEOREM ActiveIsServed ==
    ASSUME ~Can("uncertain")
    PROVE  Spec => []RouteConfirmed
<1>1. RouteInvariant => RouteConfirmed
  BY DEF RouteInvariant, RoutesFollow, RouteFollows, Serves, RouteConfirmed
<1> QED BY <1>1, RouteInvariantHolds, PTL

-------------------------------------------------------------------------------
(* A domain is never sent to another Application's unit *)

\* A route is not that of d, nor is a route of a.
Avoids(port, d) == port = 0 \/ port # endpoint[d]
Unrouted(a, d) == Avoids(fragment[a], d) /\ Avoids(loaded[a], d)

\* A route is none, or the endpoint of a Deployment of a.
IsOwn(a, port) ==
    port # 0 => \E d \in Deployments : owner[d] = a /\ endpoint[d] = port

EarlyOf(a) == {d \in Deployments : owner[d] = a /\ status[d] \in Early}

\* Steps that lead to a tombstone of the candidate, or to its activation, with
\* no route to it.
WithoutRoute ==
    {"route", "materialize", "record_failed", "fail", "cleanup", "remove", "prove",
     "tombstone"}

\* The routes of an Application, and the one its command may restore, are to its
\* own runtimes, and none of them is to a runtime that is about to be given up.
OwnRoutes(a) ==
    /\ IsOwn(a, fragment[a]) /\ IsOwn(a, loaded[a])
    /\ \A d \in EarlyOf(a) : Unrouted(a, d)
    /\ op[a].step \in Rerouting =>
           /\ IsOwn(a, op[a].saved)
           /\ \A d \in EarlyOf(a) \cup {op[a].dep} : Avoids(op[a].saved, d)
    /\ op[a].step \in WithoutRoute => Unrouted(a, op[a].dep)
    /\ op[a].step = "reload" => Avoids(fragment[a], op[a].dep)
    /\ op[a].step # "record_diverged"
    /\ op[a].step \in RetirementSteps => Unrouted(a, op[a].prev)

RoutesAreOwn == ~Can("command") => \A a \in Applications : OwnRoutes(a)

\* A command gives up no runtime of another Application; a reload takes in a
\* fragment that is the other's own.
LEMMA OtherOwnRoutes ==
    ASSUME Invariant, NEW a \in Applications, OnlyMoves(a),
           NEW b \in Applications, b # a, OwnRoutes(b)
    PROVE  OwnRoutes(b)'
<1>1. ApplicationKeeps(b) /\ Owns(b, op[b]) /\ b # None
  BY NoneAssumption DEF OnlyMoves, Invariant, PortInvariant, OpOwnsItsWork
<1>2. \A d \in Deployments : owner[d] = b \/ owner'[d] = b =>
        owner[d] = owner'[d] /\ endpoint'[d] = endpoint[d] /\ status'[d] = status[d]
  BY <1>1 DEF OnlyMoves, DeploymentKeeps
<1>3. EarlyOf(b)' = EarlyOf(b)
  BY <1>2 DEF EarlyOf
<1>4. /\ op[b].step \in Rerouting \cup WithoutRoute =>
           endpoint'[op[b].dep] = endpoint[op[b].dep]
      /\ op[b].step \in RetirementSteps => endpoint'[op[b].prev] = endpoint[op[b].prev]
  BY <1>1, <1>2, NoneAssumption
     DEF Owns, Rerouting, WithoutRoute, CandidateSteps, WithUnit, RetirementSteps,
         Invariant, TypeOK, Operations
<1>5. \A port : IsOwn(b, port) => IsOwn(b, port)'
  BY <1>2 DEF IsOwn
<1> QED
  BY <1>1, <1>2, <1>3, <1>4, <1>5
     DEF OwnRoutes, ApplicationKeeps, Avoids, Unrouted, EarlyOf, Rerouting, WithoutRoute

\* A candidate is early only if it was.
LEMMA EarlierStays ==
    ASSUME Invariant, NEW a \in Applications, Command(a) \/ Reconcile(a) \/ Crash(a)
    PROVE  EarlyOf(a)' \subseteq EarlyOf(a)
<1>1. CASE Promotes(a)
  <2>1. UNCHANGED owner /\ \E s \in {"succeeded"} : status' = [status EXCEPT ![Dep(a)] = s]
    BY <1>1 DEF Promotes, PromotionRows, Transition
  <2> QED BY <2>1 DEF EarlyOf, Early, Invariant, TypeOK
<1>2. CASE (StatusMoves(a) \/ UNCHANGED status) /\ UNCHANGED owner
  BY <1>2 DEF StatusMoves, EarlyOf, Invariant, TypeOK
<1> QED BY <1>1, <1>2, RowSteps

\* A step that changes neither routes nor endpoints.
LEMMA RoutesKept ==
    ASSUME Invariant, NEW a \in Applications, OwnRoutes(a),
           Command(a) \/ Reconcile(a) \/ Crash(a),
           UNCHANGED <<owner, endpoint, fragment, loaded>>,
           op'[a].step \notin Rerouting \cup {"record_diverged"},
           op'[a].step \in WithoutRoute => Unrouted(a, op'[a].dep),
           op'[a].step \in RetirementSteps => Unrouted(a, op'[a].prev)
    PROVE  OwnRoutes(a)'
<1>1. EarlyOf(a)' \subseteq EarlyOf(a)
  BY EarlierStays
<1> QED BY <1>1 DEF OwnRoutes, IsOwn, Unrouted, Avoids, Rerouting
\* The steps of the candidate up to its outcome.
LEMMA CandidateOwnRoutes ==
    ASSUME RuntimeInvariant, NEW a \in Applications, OwnRoutes(a),
           \/ StartCandidate(a) \/ ReservePort(a) \/ PortsExhausted(a) \/ WriteUnit(a)
           \/ LaunchUnit(a) \/ ResolveContainer(a) \/ ConsumeReservation(a)
           \/ MarkVerifying(a) \/ CandidateStepFails(a) \/ CommandFailsSilently(a)
           \/ InternalUnhealthy(a) \/ PublicUnhealthy(a) \/ MarkActivating(a)
    PROVE  OwnRoutes(a)'
<1> USE DEF RuntimeInvariant, Invariant, At, Dep
<1>1. Dep(a) \in Deployments /\ owner[Dep(a)] = a /\ KnowsRuntimes(op[a])
  BY CandidateFacts
     DEF RuntimesFollow, CandidateSteps, BeforeUnit, WithUnit, At, StartCandidate,
         ReservePort, PortsExhausted, WriteUnit, LaunchUnit, ResolveContainer,
         ConsumeReservation, MarkVerifying, CandidateStepFails, CommandFailsSilently,
         InternalUnhealthy, PublicUnhealthy, MarkActivating, Advance
<1>2. op[a].step \in BeforeUnit \cup {"launch", "resolve", "register", "consume",
                                      "verify", "health", "route"}
      => Unrouted(a, op[a].dep)
  BY <1>1
     DEF OwnRoutes, EarlyOf, KnowsRuntimes, Undecided, Activating, WithoutRoute,
         BeforeUnit
<1>3. /\ op[a].step \in BeforeUnit \cup {"launch", "resolve", "register", "consume",
                                         "verify", "health", "route"}
      /\ op'[a].step \notin Rerouting \cup RetirementSteps \cup {"record_diverged"}
      /\ op'[a].dep = op[a].dep
      /\ UNCHANGED <<owner, endpoint, fragment, loaded>>
  <2> USE DEF Rerouting, RetirementSteps, Carries, deploymentRows, runtimeRows, caddy,
              BeforeUnit
  <2>1. CASE StartCandidate(a) \/ MarkActivating(a) \/ InternalUnhealthy(a)
    BY <2>1, GotoFields DEF StartCandidate, MarkActivating, InternalUnhealthy, Advance
  <2>2. CASE ReservePort(a) \/ WriteUnit(a) \/ ResolveContainer(a)
    BY <2>2, HoldFields DEF ReservePort, WriteUnit, ResolveContainer
  <2>3. CASE \/ PortsExhausted(a) \/ LaunchUnit(a) \/ ConsumeReservation(a)
             \/ PublicUnhealthy(a)
    BY <2>3, GotoFields
       DEF PortsExhausted, LaunchUnit, ConsumeReservation, PublicUnhealthy
  <2>4. CASE CandidateStepFails(a) \/ CommandFailsSilently(a)
    BY <2>4, GotoFields DEF CandidateStepFails, CommandFailsSilently
  <2>5. CASE MarkVerifying(a)
    <3>1. PICK p : op' = [op EXCEPT ![a] = [op[a] EXCEPT !.step = "health", !.prev = p]]
      BY <2>5 DEF MarkVerifying
    <3>2. op'[a].step = "health" /\ op'[a].dep = op[a].dep
      BY <3>1 DEF TypeOK, Operations
    <3> QED BY <2>5, <3>2 DEF MarkVerifying
  <2> QED BY <2>1, <2>2, <2>3, <2>4, <2>5
<1>4. Command(a)
  BY DEF Command
<1> QED BY <1>2, <1>3, <1>4, RoutesKept

\* The candidate is registered under a port that no runtime, and so no route, has.
LEMMA RegistrationOwnRoutes ==
    ASSUME RuntimeInvariant, NEW a \in Applications, OwnRoutes(a), RegisterCandidate(a)
    PROVE  OwnRoutes(a)'
<1> USE DEF RuntimeInvariant, Invariant, TypeOK
<1>1. PICK d \in Deployments : d = Dep(a) /\ owner[d] = a /\ d \in EarlyOf(a)
  BY CandidateFacts DEF RegisterCandidate, At, CandidateSteps, WithUnit, EarlyOf, Early
<1>2. /\ endpoint' = [endpoint EXCEPT ![d] = unit[d]]
      /\ \A e \in Deployments : endpoint[e] # unit[d]
      /\ UNCHANGED <<owner, status, fragment, loaded>> /\ op'[a].step = "consume"
  BY <1>1, HoldFields DEF RegisterCandidate, deploymentRows, caddy
<1>3. \A port \in {fragment[a], loaded[a]} :
        /\ IsOwn(a, port)'
        /\ \A e \in EarlyOf(a)' : Avoids(port, e)'
  <2> SUFFICES ASSUME NEW port \in {fragment[a], loaded[a]}
               PROVE  IsOwn(a, port)' /\ \A e \in EarlyOf(a)' : Avoids(port, e)'
    OBVIOUS
  <2>1. IsOwn(a, port) /\ \A e \in EarlyOf(a) : Avoids(port, e)
    BY DEF OwnRoutes, Unrouted
  <2>2. IsOwn(a, port)'
    BY <1>1, <1>2, <2>1 DEF IsOwn, Avoids
  <2>3. \A e \in EarlyOf(a)' : Avoids(port, e)'
    BY <1>1, <1>2, <2>1 DEF IsOwn, Avoids, EarlyOf
  <2> QED BY <2>2, <2>3
<1> QED BY <1>2, <1>3
           DEF OwnRoutes, Unrouted, Rerouting, WithoutRoute, RetirementSteps, Avoids,
               IsOwn

\* A runtime to which there is no route is given up.
LEMMA EndpointGivenUp ==
    ASSUME RuntimeInvariant, NEW a \in Applications, OwnRoutes(a),
           NEW d \in Deployments, Unrouted(a, d),
           endpoint' = [endpoint EXCEPT ![d] = 0],
           UNCHANGED <<owner, status, fragment, loaded>>,
           op'[a].step \in {"idle", "release"}
    PROVE  OwnRoutes(a)'
<1>1. \A port \in {fragment[a], loaded[a]} :
        /\ IsOwn(a, port)'
        /\ \A e \in EarlyOf(a)' : Avoids(port, e)'
  BY DEF OwnRoutes, Unrouted, IsOwn, Avoids, EarlyOf, RuntimeInvariant, Invariant, TypeOK
<1> QED BY <1>1
           DEF OwnRoutes, Unrouted, Rerouting, WithoutRoute, RetirementSteps, Avoids,
               IsOwn

\* Failure, cleanup and retirement give up runtimes to which there is no route.
LEMMA CompensationOwnRoutes ==
    ASSUME RuntimeInvariant, NEW a \in Applications, OwnRoutes(a),
           \/ FailDeployment(a) \/ KeepPromoted(a) \/ StopCandidate(a)
           \/ NothingToStop(a) \/ RemoveCandidateUnit(a) \/ ProveCandidateRemoved(a)
           \/ TombstoneCandidate(a) \/ ReleasePort(a) \/ CompensationFails(a)
           \/ RetireStop(a) \/ RetireUnit(a) \/ ProvePreviousRemoved(a)
           \/ RetireRuntime(a) \/ SettleExposure(a) \/ Crash(a)
    PROVE  OwnRoutes(a)'
<1> USE DEF RuntimeInvariant, Invariant, At, Dep
<1>1. ASSUME UNCHANGED <<owner, endpoint, fragment, loaded>>,
             Command(a) \/ Crash(a),
             op'[a].step \notin Rerouting \cup {"record_diverged"},
             op'[a].step \in WithoutRoute =>
                op[a].step \in WithoutRoute /\ op'[a].dep = op[a].dep,
             op'[a].step \in RetirementSteps =>
                op[a].step \in RetirementSteps /\ op'[a].prev = op[a].prev
      PROVE  OwnRoutes(a)'
  BY <1>1, RoutesKept DEF OwnRoutes
<1>2. CASE TombstoneCandidate(a)
  <2>1. /\ Unrouted(a, op[a].dep) /\ op'[a].step = "release" /\ op[a].dep \in Deployments
        /\ UNCHANGED <<owner, status, fragment, loaded>>
    BY <1>2, GotoFields, CandidateFacts
       DEF TombstoneCandidate, OwnRoutes, WithoutRoute, CandidateSteps, deploymentRows,
           caddy
  <2>2. CASE "runtime" \in op[a].held
    BY <1>2, <2>1, <2>2, EndpointGivenUp DEF TombstoneCandidate
  <2>3. CASE "runtime" \notin op[a].held
    BY <1>1, <1>2, <2>1, <2>3
       DEF TombstoneCandidate, Command, WithoutRoute, Rerouting, RetirementSteps
  <2> QED BY <2>2, <2>3
<1>3. CASE RetireRuntime(a)
  <2>1. /\ Unrouted(a, op[a].prev) /\ op'[a].step = "idle" /\ op[a].prev \in Deployments
        /\ UNCHANGED <<owner, status, fragment, loaded>>
        /\ endpoint' = [endpoint EXCEPT ![op[a].prev] = 0]
    BY <1>3, EndFields, RetirementFacts
       DEF RetireRuntime, OwnRoutes, RetirementSteps, deploymentRows, caddy
  <2> QED BY <2>1, EndpointGivenUp
<1> USE <1>1
    DEF Command, WithoutRoute, Rerouting, RetirementSteps, Carries, deploymentRows,
        runtimeRows, caddy
<1>4. CASE FailDeployment(a)
  BY <1>4, GotoFields, EndFields DEF FailDeployment, AfterFailure
<1>5. CASE \/ KeepPromoted(a) \/ ReleasePort(a) \/ CompensationFails(a)
           \/ SettleExposure(a) \/ Crash(a)
  BY <1>5, EndFields
     DEF KeepPromoted, ReleasePort, CompensationFails, SettleExposure, Crash
<1>6. CASE StopCandidate(a) \/ NothingToStop(a)
  BY <1>6, GotoFields DEF StopCandidate, StopUnit, NothingToStop, CleanupStarts
<1>7. CASE RemoveCandidateUnit(a) \/ RetireUnit(a)
  BY <1>7, GotoFields, EndFields DEF RemoveCandidateUnit, RetireUnit, RemoveUnit
<1>8. CASE RetireStop(a) \/ ProvePreviousRemoved(a) \/ ProveCandidateRemoved(a)
  BY <1>8, GotoFields
     DEF RetireStop, StopUnit, ProvePreviousRemoved, ProveCandidateRemoved
<1> QED BY <1>2, <1>3, <1>4, <1>5, <1>6, <1>7, <1>8

\* A new Deployment has no endpoint; a recovery cleans up a candidate that never
\* came to its activation.
LEMMA RequestOwnRoutes ==
    ASSUME RuntimeInvariant, NEW a \in Applications, OwnRoutes(a),
           Request(a) \/ Reconcile(a)
    PROVE  OwnRoutes(a)'
<1> USE DEF RuntimeInvariant, Invariant
<1>1. CASE Request(a)
  <2>1. PICK d \in Deployments, r \in Releases \cup {None} : CreateDeployment(a, d, r)
    BY <1>1, RequestCreates
  <2>2. owner[d] = None /\ endpoint[d] = 0
    BY <2>1 DEF CreateDeployment, PortInvariant, UnbornIsClean
  <2>3. op' = [op EXCEPT ![a] = [op[a] EXCEPT !.step = "start", !.dep = d]]
    BY <2>1 DEF CreateDeployment
  <2>4. op'[a].step = "start"
    BY <2>3 DEF TypeOK, Operations
  <2>5. UNCHANGED <<endpoint, fragment, loaded>> /\ owner' = [owner EXCEPT ![d] = a]
        /\ status' = [status EXCEPT ![d] = "pending"]
    BY <2>1 DEF CreateDeployment, runtimeRows, caddy
  <2>6. EarlyOf(a)' \subseteq EarlyOf(a) \cup {d}
    BY <2>5 DEF EarlyOf, TypeOK
  <2>7. \A port : IsOwn(a, port) => IsOwn(a, port)'
    BY <2>5 DEF IsOwn, TypeOK
  <2> QED
    BY <2>2, <2>4, <2>5, <2>6, <2>7
       DEF OwnRoutes, Unrouted, Avoids, Rerouting, WithoutRoute, RetirementSteps
<1>2. CASE Reconcile(a)
  <2>1. UNCHANGED <<owner, endpoint, fragment, loaded>>
    BY <1>2
       DEF Reconcile, RecoverPending, RecoverUnproven, RecoverCandidate,
           RecoverActivation, Recover, runtimeRows, caddy
  <2>2. /\ op'[a].step \in {"idle", "settle", "cleanup"}
        /\ op'[a].step = "cleanup" => op'[a].dep \in EarlyOf(a)
    <3>1. PICK d \in Deployments :
            \/ RecoverPending(a, d) \/ RecoverUnproven(a, d)
            \/ RecoverCandidate(a, d) \/ RecoverActivation(a, d)
      BY <1>2 DEF Reconcile
    <3>2. CASE RecoverPending(a, d) \/ RecoverUnproven(a, d)
      BY <3>2 DEF RecoverPending, RecoverUnproven, Recover, Idle, TypeOK
    <3>3. CASE RecoverActivation(a, d)
      BY <3>3 DEF RecoverActivation, Recover, Idle, TypeOK
    <3>4. CASE RecoverCandidate(a, d)
      BY <3>4 DEF RecoverCandidate, Recover, Idle, TypeOK, Blocking, Owned, EarlyOf, Early
    <3> QED BY <3>1, <3>2, <3>3, <3>4
  <2>3. op'[a].step \in WithoutRoute => Unrouted(a, op'[a].dep)
    BY <2>2 DEF OwnRoutes, WithoutRoute
  <2> QED BY <1>2, <2>1, <2>2, <2>3, RoutesKept DEF Rerouting, RetirementSteps
<1> QED BY <1>1, <1>2

\* An activation routes the domain to its candidate and, unless a command fails,
\* back to the previous route before the candidate is given up; after the
\* promotion nothing routes to the predecessor.
LEMMA OnRouteOwnRoutes ==
    ASSUME RouteInvariant, ~Can("command"), NEW a \in Applications, OwnRoutes(a),
           OnRoute(a)
    PROVE  OwnRoutes(a)'
<1> USE DEF RouteInvariant, RuntimeInvariant, Invariant, At, Dep
<1>1. PICK d \in Deployments : d = Dep(a)
  BY CandidateFacts
     DEF OnRoute, MarkActivating, Advance, BeginPublicExposure, ReplaceFragment,
         ReplaceFragmentFails, ValidationFails, ReloadCaddy, ReloadFails, PromotePublic,
         RejectPublicCandidate, RestoreFragment, ReloadRestored, RecordFailedExposure,
         RecordDivergedExposure, RecordExposureFailure, CandidateSteps, WithUnit
<1>2. UNCHANGED <<owner, endpoint>> /\ EarlyOf(a)' \subseteq EarlyOf(a)
  BY OnRouteRows, EarlierStays DEF OnRoute, Command
<1>3. CASE ReplaceFragment(a)
  <2>1. op' = [op EXCEPT ![a] = [op[a] EXCEPT !.step = "validate", !.saved = fragment[a]]]
    BY <1>3 DEF ReplaceFragment
  <2>2. /\ op'[a].step = "validate" /\ op'[a].dep = d /\ op'[a].saved = fragment[a]
        /\ op[a].step = "materialize" /\ loaded' = loaded /\ fragment'[a] = endpoint[d]
    BY <1>1, <1>3, <2>1 DEF ReplaceFragment, TypeOK, Operations, caddy
  <2>3. owner[d] = a /\ d \notin EarlyOf(a) /\ Unrouted(a, d)
    BY <1>1, <2>2, CandidateFacts
       DEF CandidateSteps, WithUnit, RuntimesFollow, KnowsRuntimes, Activating, EarlyOf,
           Early, OwnRoutes, WithoutRoute
  <2>4. \A e \in EarlyOf(a) : Avoids(endpoint[d], e)
    BY <2>3 DEF PortInvariant, HeldOnce, Avoids, EarlyOf
  <2> QED
    BY <1>2, <2>2, <2>3, <2>4
       DEF OwnRoutes, Unrouted, Avoids, IsOwn, Rerouting, WithoutRoute, RetirementSteps
<1>4. CASE PromotePublic(a)
  <2>1. /\ op[a].step = "external" /\ UNCHANGED <<fragment, loaded>>
        /\ loaded[a] = endpoint[d] /\ fragment[a] = endpoint[d]
        /\ runtime[d] = "starting" /\ endpoint[d] # 0 /\ AfterPromotion(a, "restore")
    BY <1>1, <1>4
       DEF PromotePublic, PromotionRows, IsPromotable, RoutesFollow, RouteFollows, caddy
  <2>2. CASE op'[a].step = "idle"
    BY <1>2, <2>1, <2>2
       DEF OwnRoutes, Unrouted, Avoids, IsOwn, Rerouting, WithoutRoute, RetirementSteps
  <2>3. CASE op[a].prev # None /\ op'[a].step = "retire" /\ op'[a].prev = op[a].prev
    <3>1. /\ runtime[op[a].prev] = "running" /\ op[a].prev \in Deployments
      BY <2>1, <2>3
         DEF RuntimesFollow, KnowsRuntimes, Succeeding, TypeOK, Operations
    <3>2. op[a].prev # d /\ endpoint[op[a].prev] # endpoint[d]
      BY <2>1, <3>1 DEF PortInvariant, HeldOnce
    <3> QED
      BY <1>2, <2>1, <2>3, <3>2
         DEF OwnRoutes, Unrouted, Avoids, IsOwn, Rerouting, WithoutRoute, RetirementSteps
  <2>4. CASE op'[a].step = "restore" /\ Carries(a)
    BY <1>2, <2>1, <2>4
       DEF OwnRoutes, Unrouted, Avoids, IsOwn, Rerouting, WithoutRoute, RetirementSteps,
           Carries
  <2> QED BY <2>1, <2>2, <2>3, <2>4, AfterPromotionFields, EndFields, GotoFields
<1> USE <1>2
    DEF OwnRoutes, Unrouted, Avoids, IsOwn, Rerouting, WithoutRoute, RetirementSteps,
        Carries, TypeOK, caddy
<1>5. CASE MarkActivating(a)
  BY <1>5, CandidateOwnRoutes
<1>6. CASE BeginPublicExposure(a)
  BY <1>6, GotoFields DEF BeginPublicExposure
<1>7. CASE ReloadCaddy(a) \/ RejectPublicCandidate(a)
  BY <1>7, GotoFields DEF ReloadCaddy, RejectPublicCandidate
<1>8. CASE RestoreFragment(a)
  BY <1>8, GotoFields DEF RestoreFragment
<1>9. CASE ReloadRestored(a)
  BY <1>9, GotoFields DEF ReloadRestored
<1>10. CASE RecordFailedExposure(a) \/ RecordDivergedExposure(a)
  BY <1>10, GotoFields, EndFields
     DEF RecordFailedExposure, RecordDivergedExposure, RecordExposureFailure
<1>11. CASE ReplaceFragmentFails(a) \/ ValidationFails(a) \/ ReloadFails(a)
  BY <1>11 DEF ReplaceFragmentFails, ValidationFails, ReloadFails
<1> QED
  BY <1>3, <1>4, <1>5, <1>6, <1>7, <1>8, <1>9, <1>10, <1>11 DEF OnRoute

\* Every step of a system whose commands do not fail keeps the routes its own.
LEMMA StepOwnRoutes ==
    ASSUME RouteInvariant, RouteInvariant', RoutesAreOwn, [Next]_vars
    PROVE  RoutesAreOwn'
<1> SUFFICES ASSUME ~Can("command"), \A b \in Applications : OwnRoutes(b)
             PROVE  \A b \in Applications : OwnRoutes(b)'
  BY DEF RoutesAreOwn, Can
<1> USE DEF RouteInvariant, RuntimeInvariant
<1>1. ASSUME NEW a \in Applications,
             Request(a) \/ Command(a) \/ Reconcile(a) \/ Crash(a)
      PROVE  \A b \in Applications : OwnRoutes(b)'
  <2>1. \A b \in Applications : b # a => OwnRoutes(b)'
    BY <1>1, CommandIsLocal, OtherOwnRoutes
  <2>2. CASE OnRoute(a)
    BY <2>1, <2>2, OnRouteOwnRoutes
  <2>3. CASE Request(a) \/ Reconcile(a)
    BY <2>1, <2>3, RequestOwnRoutes
  <2>4. CASE PromoteInternal(a)
    <3>1. a \notin PublicApplications /\ RouteFollows(a)'
      BY <2>4 DEF PromoteInternal, RoutesFollow
    <3>2. OwnRoutes(a)'
      BY <3>1 DEF RouteFollows, OwnRoutes, IsOwn, Unrouted, Avoids, PublicSteps, Routing,
                  Rerouting
    <3> QED BY <2>1, <3>2
  <2>5. CASE ~OnRoute(a) /\ ~PromoteInternal(a) /\ (Command(a) \/ Crash(a))
    <3>1. OwnRoutes(a)'
      BY <2>5, CandidateOwnRoutes, RegistrationOwnRoutes, CompensationOwnRoutes
         DEF Command, OnRoute
    <3> QED BY <2>1, <3>1
  <2> QED BY <1>1, <2>2, <2>3, <2>4, <2>5
<1> USE DEF OwnRoutes, IsOwn, Unrouted, Avoids, EarlyOf, deploymentRows, runtimeRows,
            caddy
<1>2. CASE \E d \in Deployments : RestartContainer(d)
  BY <1>2 DEF RestartContainer
<1>3. CASE Reboot
  <2>1. \A a \in Applications : op'[a].step = "idle"
    BY <1>3 DEF Reboot, Idle
  <2> QED BY <1>3, <2>1 DEF Reboot, Rerouting, WithoutRoute, RetirementSteps
<1>4. CASE UNCHANGED vars
  BY <1>4 DEF vars
<1> QED BY <1>1, <1>2, <1>3, <1>4 DEF Next

\* The domain of an Application is only ever sent to its own units, as long as no
\* command of systemd, Podman or Caddy fails.
THEOREM NeverForeignRoute ==
    ASSUME ~Can("command")
    PROVE  Spec => []NoForeignRoute
<1>1. Init => RoutesAreOwn
  BY DEF Init, RoutesAreOwn, OwnRoutes, IsOwn, Unrouted, Avoids, EarlyOf, Early, Idle,
         Rerouting, WithoutRoute, RetirementSteps
<1>2. RouteInvariant /\ RouteInvariant' /\ RoutesAreOwn /\ [Next]_vars => RoutesAreOwn'
  BY StepOwnRoutes
<1>3. RouteInvariant /\ RoutesAreOwn => NoForeignRoute
  <2> SUFFICES ASSUME RouteInvariant, RoutesAreOwn, NEW a \in Applications,
                      NEW d \in Deployments, loaded[a] # 0, unit[d] = loaded[a]
               PROVE  owner[d] = a
    BY DEF NoForeignRoute
  <2>1. PICK e \in Deployments : owner[e] = a /\ endpoint[e] = loaded[a]
    BY DEF RoutesAreOwn, OwnRoutes, IsOwn
  <2>2. unit[d] \in {reservation[d], endpoint[d]}
    BY DEF RouteInvariant, RuntimeInvariant, Invariant, PortInvariant, UnitHoldsItsPort
  <2>3. d = e
    BY <2>1, <2>2
       DEF RouteInvariant, RuntimeInvariant, Invariant, PortInvariant, HeldOnce
  <2> QED BY <2>1, <2>3
<1> QED BY <1>1, <1>2, <1>3, RouteInvariantHolds, PTL DEF Spec

-------------------------------------------------------------------------------
(* A failed exposure keeps the confirmed route *)

\* The failures that interrupt compensation or contradict its outcome.
Interrupting == {"command", "crash", "reboot", "uncertain"}

\* Outside an activation the fragment and Caddy have the confirmed route; within
\* one the command still has it, to restore.
KeepsConfirmed(a) ==
    /\ op[a].step \notin Rerouting =>
           fragment[a] = confirmed[a].version /\ loaded[a] = confirmed[a].version
    /\ op[a].step \in Rerouting \ {"reload"} => op[a].saved = confirmed[a].version
    /\ op[a].step = "reload" => fragment[a] = confirmed[a].version

ConfirmedIsKept ==
    Faults \cap Interrupting = {} => \A a \in Applications : KeepsConfirmed(a)

\* An activation replaces the confirmed route, restores it or confirms its own.
LEMMA OnRouteKeepsConfirmed ==
    ASSUME RouteInvariant, Faults \cap Interrupting = {}, NEW a \in Applications,
           KeepsConfirmed(a), OnRoute(a) \/ SettleExposure(a)
    PROVE  KeepsConfirmed(a)'
<1> USE DEF RouteInvariant, RuntimeInvariant, Invariant, TypeOK, At, Carries, caddy,
            exposureRows, KeepsConfirmed, Rerouting
<1>1. ~Can("command") /\ ~Can("uncertain")
  BY DEF Can, Interrupting
<1>2. CASE ReplaceFragment(a)
  <2>1. op' = [op EXCEPT ![a] = [op[a] EXCEPT !.step = "validate", !.saved = fragment[a]]]
    BY <1>2 DEF ReplaceFragment
  <2>2. op'[a].step = "validate" /\ op'[a].saved = fragment[a]
    BY <2>1 DEF Operations
  <2> QED BY <1>2, <2>2 DEF ReplaceFragment
<1>3. CASE PromotePublic(a)
  <2>1. op'[a].step \in {"idle", "retire"}
    BY <1>1, <1>3, AfterPromotionFields, EndFields DEF PromotePublic
  <2>2. fragment[a] = endpoint[Dep(a)]
    BY <1>3 DEF PromotePublic, RoutesFollow, RouteFollows, Dep
  <2> QED BY <1>3, <2>1, <2>2 DEF PromotePublic
<1>4. CASE MarkActivating(a) \/ BeginPublicExposure(a)
  BY <1>4, GotoFields DEF MarkActivating, Advance, BeginPublicExposure
<1>5. CASE ReloadCaddy(a) \/ RejectPublicCandidate(a)
  BY <1>5, GotoFields DEF ReloadCaddy, RejectPublicCandidate
<1>6. CASE RestoreFragment(a)
  BY <1>1, <1>6, GotoFields DEF RestoreFragment
<1>7. CASE ReloadRestored(a)
  BY <1>1, <1>7, GotoFields DEF ReloadRestored
<1>8. CASE RecordFailedExposure(a) \/ RecordDivergedExposure(a)
  BY <1>8, GotoFields, EndFields
     DEF RecordFailedExposure, RecordDivergedExposure, RecordExposureFailure
<1>9. CASE ReplaceFragmentFails(a) \/ ValidationFails(a) \/ ReloadFails(a)
  BY <1>1, <1>9 DEF ReplaceFragmentFails, ValidationFails, ReloadFails
<1>10. CASE SettleExposure(a)
  BY <1>10, EndFields DEF SettleExposure
<1> QED BY <1>2, <1>3, <1>4, <1>5, <1>6, <1>7, <1>8, <1>9, <1>10 DEF OnRoute

\* Without interruptions every step keeps the confirmed route, or the means to
\* restore it.
LEMMA StepKeepsConfirmed ==
    ASSUME RouteInvariant, ConfirmedIsKept, [Next]_vars
    PROVE  ConfirmedIsKept'
<1> SUFFICES ASSUME Faults \cap Interrupting = {}, \A b \in Applications : KeepsConfirmed(b)
             PROVE  \A b \in Applications : KeepsConfirmed(b)'
  BY DEF ConfirmedIsKept
<1>1. ~Can("crash") /\ ~Can("reboot")
  BY DEF Can, Interrupting
<1>2. ASSUME NEW a \in Applications, Request(a) \/ Command(a) \/ Reconcile(a)
      PROVE  \A b \in Applications : KeepsConfirmed(b)'
  <2>1. \A b \in Applications : b # a => KeepsConfirmed(b)'
    BY <1>2, CommandIsLocal
       DEF OnlyMoves, ApplicationKeeps, KeepsConfirmed, RouteInvariant, RuntimeInvariant
  <2>2. OffRoute(a) \/ OnRoute(a) \/ SettleExposure(a)
    BY <1>1, <1>2, RouteSteps DEF RouteInvariant, RuntimeInvariant, RouteEnds, Crash
  <2>3. CASE OffRoute(a)
    BY <2>1, <2>3 DEF OffRoute, KeepsConfirmed, PublicSteps, Routing, Rerouting
  <2>4. CASE OnRoute(a) \/ SettleExposure(a)
    BY <2>1, <2>4, OnRouteKeepsConfirmed
  <2> QED BY <2>2, <2>3, <2>4
<1>3. CASE (\E d \in Deployments : RestartContainer(d)) \/ UNCHANGED vars
  BY <1>3 DEF RestartContainer, vars, KeepsConfirmed, caddy, exposureRows
<1> QED BY <1>1, <1>2, <1>3 DEF Next, Crash, Reboot

\* `failed` keeps its promise when compensation is neither refused nor
\* interrupted: Caddy serves the route the last promotion confirmed.
THEOREM FailureKeepsRoute ==
    ASSUME Faults \cap Interrupting = {}
    PROVE  Spec => []FailedKeepsRoute
<1>1. Init => ConfirmedIsKept
  BY DEF Init, ConfirmedIsKept, KeepsConfirmed, Idle, NoRoute, Rerouting
<1>2. RouteInvariant /\ ConfirmedIsKept /\ [Next]_vars => ConfirmedIsKept'
  BY StepKeepsConfirmed
<1>3. ConfirmedIsKept => FailedKeepsRoute
  BY DEF ConfirmedIsKept, KeepsConfirmed, FailedKeepsRoute, At, Rerouting
<1> QED BY <1>1, <1>2, <1>3, RouteInvariantHolds, PTL DEF Spec

===============================================================================
