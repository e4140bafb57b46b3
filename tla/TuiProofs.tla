------------------------------- MODULE TuiProofs -------------------------------
(***************************************************************************)
(* Proofs about Tui: for any names, any number of keys and of events, and  *)
(* any size of the panel, the session knows the command that is on its way *)
(* at every moment, and what waits, is retained and is selected belongs to *)
(* what was asked for.                                                     *)
(*                                                                         *)
(* The functions of the session are followed one by one: each leads from a *)
(* session to a session and changes the fields that it names.  The queue   *)
(* needs most of the care: only functions that found nothing waiting, or   *)
(* no action waiting, append to it.                                        *)
(***************************************************************************)
EXTENDS Tui, SequenceTheorems, TLAPS

-------------------------------------------------------------------------------
(* Types *)

\* A request that names what its kind is about
Asked ==
    {request \in Requests :
        /\ request.kind \in ScopedKinds \cup {"import", "deployments", "status"} =>
               request.name \in AllApplications
        /\ request.kind \in {"create", "show"} => request.name \in AllSystems}

Entries == Seq(AllApplications) \cup Seq(AllSystems)

QueryStates ==
    [is : {"idle", "loading", "ready", "failed"}, of : Names \cup Entries]

Modes ==
    [is : {"normal", "confirm", "form", "deploy"}, request : Requests \cup {NoRequest}]

Logs ==
    [of : AllApplications \cup {None}, state : {"none", "running", "completed", "failed"},
     lines : Nat, scroll : Nat, follow : BOOLEAN]

Sessions ==
    [active : Asked \cup {NoRequest}, id : {0, 1}, queued : Seq(Asked),
     tab : Tabs, focus : {"listing", "log"}, mode : Modes,
     systems : QueryStates, selectedSystem : AllSystems \cup {None},
     details : QueryStates, detailsTarget : AllSystems \cup {None},
     catalog : QueryStates, selected : AllApplications \cup {None},
     observed : AllApplications \cup {None},
     deployments : QueryStates, runtime : QueryStates,
     log : Logs, quitting : BOOLEAN, phase : {"open", "leaving", "failed", "closed"}]

Executions ==
    [id : {0, 1}, request : Asked \cup {NoRequest}, events : Nat,
     result : {"idle", "pending", "ok", "error"}, entries : Entries]

\* A listing that is ready lists Applications, or Systems.
ListingsAreTyped(s) ==
    /\ s.catalog.is = "ready" => s.catalog.of \in Seq(AllApplications)
    /\ s.systems.is = "ready" => s.systems.of \in Seq(AllSystems)

\* What a confirmation or a form would execute; the form of an import or of a
\* System is open only while nothing runs and nothing waits.
ModeIsFounded(s) ==
    /\ s.mode.is \in {"confirm", "deploy"} =>
           s.mode.request \in Asked /\ s.mode.request.kind \in ScopedKinds
    /\ s.mode.is = "form" =>
           /\ s.mode.request \in Requests /\ s.mode.request.kind \in {"create", "import"}
           /\ ~IsBusy(s)

\* An action waits alone.
QueueIsFounded(s) == \A i \in DOMAIN s.queued : IsAction(s.queued[i]) => Len(s.queued) = 1

\* The log is that of the deployment that runs; who scrolled sees rows it has.
LogIsFounded(s) ==
    /\ s.log.state = "running" <=> IsDeployment(s.active)
    /\ s.log.state = "running" => s.log.of = s.active.name
    /\ ~s.log.follow => s.log.scroll <= MaxScroll(s.log)

Founded(s) ==
    /\ s \in Sessions /\ ListingsAreTyped(s)
    /\ ModeIsFounded(s) /\ QueueIsFounded(s) /\ LogIsFounded(s)

\* Something is on its way, or nothing waits.
NothingWaits(s) == s.active = NoRequest => s.queued = << >>

-------------------------------------------------------------------------------
(* The command that is on its way *)

Event(id) == [is |-> "event", id |-> id]
Answers(id) == [is : {"finished"}, id : {id}, result : {"ok", "error"}, entries : Entries]

\* What a listing that was read contains is what there is, until it is shown; a
\* System whose details were read is one that there is.
EntriesAreCurrent(request, result, entries) ==
    result = "ok" =>
        /\ request.kind = "catalog" =>
               entries \in Seq(AllApplications) /\ NamesOf(entries) = catalogued
        /\ request.kind = "systems" =>
               entries \in Seq(AllSystems) /\ NamesOf(entries) = grouped
        /\ request.kind = "show" => request.name \in grouped

NothingOnItsWay ==
    /\ session.active = NoRequest
    /\ requests = << >> /\ executing = NotExecuting /\ replies = << >>

CommandIsSent ==
    /\ session.active # NoRequest
    /\ requests = <<[id |-> session.id, request |-> session.active]>>
    /\ executing = NotExecuting /\ replies = << >>

CommandIsExecuted ==
    /\ session.active # NoRequest
    /\ requests = << >> /\ executing \in Executions
    /\ executing.id = session.id /\ executing.request = session.active
    /\ executing.result # "idle"
    /\ EntriesAreCurrent(executing.request, executing.result, executing.entries)
    /\ replies \in Seq({Event(session.id)})

CommandIsAnswered ==
    LET last == replies[Len(replies)] IN
    /\ session.active # NoRequest
    /\ requests = << >> /\ executing = NotExecuting
    /\ replies # << >> /\ replies \in Seq({Event(session.id)} \cup Answers(session.id))
    /\ \A i \in DOMAIN replies : i # Len(replies) => replies[i] = Event(session.id)
    /\ last \in Answers(session.id)
    /\ EntriesAreCurrent(session.active, last.result, last.entries)

OneCommandAtATime ==
    NothingOnItsWay \/ CommandIsSent \/ CommandIsExecuted \/ CommandIsAnswered

\* The result of the command that was on its way was sent, if there was one.
NothingIsOwed ==
    session.active # NoRequest =>
        \E i \in DOMAIN replies :
            replies[i].is = "finished" /\ replies[i].id = session.id

\* Once the loop is left the shutdown is the last message, behind the command
\* that was on its way.
ShutdownIsLast ==
    \/ /\ session.active # NoRequest /\ executing = NotExecuting
       /\ requests = <<[id |-> session.id, request |-> session.active], Shutdown>>
       /\ replies = << >>
    \/ /\ session.active # NoRequest /\ requests = <<Shutdown>>
       /\ executing.id = session.id /\ executing.request = session.active
       /\ executing.result \in {"pending", "ok", "error"}
       /\ replies \in Seq({Event(session.id)})
    \/ requests = <<Shutdown>> /\ executing = NotExecuting /\ NothingIsOwed
    \/ requests = << >> /\ executing = Ended /\ NothingIsOwed

RowsTyped == catalogued \subseteq AllApplications /\ grouped \subseteq AllSystems

TuiInvariant ==
    /\ Founded(session) /\ NothingWaits(session) /\ RowsTyped
    /\ IF Open THEN OneCommandAtATime ELSE ShutdownIsLast
    /\ session.phase = "closed" => executing = Ended

-------------------------------------------------------------------------------
(* Functions of the session *)

ActionWaits(s) == \E i \in DOMAIN s.queued : IsAction(s.queued[i])

\* The session t is s after reads: what runs, what the operator sees of it and
\* what is asked of him are the same, and if something was appended to the
\* queue then no action waits, nor did before.
AfterReads(s, t) ==
    /\ t \in Sessions
    /\ t.active = s.active /\ t.id = s.id /\ t.tab = s.tab /\ t.focus = s.focus
    /\ t.mode = s.mode /\ t.log = s.log /\ t.quitting = s.quitting /\ t.phase = s.phase
    /\ \/ t.queued = s.queued
       \/ ~ActionWaits(s) /\ ~ActionWaits(t)

\* Nothing that was asked for is NoRequest, and the kinds are distinct.
LEMMA KindsDiffer ==
    /\ NoRequest \notin Asked /\ ~IsAction(NoRequest) /\ ~IsDeployment(NoRequest)
    /\ \A request \in Asked : IsDeployment(request) => IsAction(request)
BY DEF NoRequest, Request, Asked, Requests, IsAction, IsDeployment, ActionKinds,
       ScopedKinds, ReadKinds

\* Reads that a listing, a System or an Application asks for.
LEMMA ReadsAreAsked ==
    /\ Request("systems", None) \in Asked /\ Request("catalog", None) \in Asked
    /\ \A n \in AllSystems : Request("show", n) \in Asked
    /\ \A n \in AllApplications :
           Request("deployments", n) \in Asked /\ Request("status", n) \in Asked
    /\ \A kind \in ReadKinds, n \in Names : ~IsAction(Request(kind, n))
BY DEF Request, Asked, Requests, IsAction, ActionKinds, ScopedKinds, ReadKinds, Names

\* A function that changes no more than queries leads to a session after reads.
LEMMA EnqueueReads ==
    ASSUME NEW s \in Sessions, NEW kind \in ReadKinds, NEW n \in Names,
           Request(kind, n) \in Asked,
           ~ActionWaits(s)
    PROVE  /\ AfterReads(s, Enqueue(s, kind, n))
           /\ Enqueue(s, kind, n) = [s EXCEPT !.queued = Append(s.queued, Request(kind, n))]
           /\ ~ActionWaits(Enqueue(s, kind, n))
<1> DEFINE t == Enqueue(s, kind, n)
           request == Request(kind, n)
<1>1. t = [s EXCEPT !.queued = Append(s.queued, request)]
  BY DEF Enqueue
<1>2. Append(s.queued, request) \in Seq(Asked)
  BY DEF Sessions
<1>3. t \in Sessions /\ t.queued = Append(s.queued, request)
  BY <1>1, <1>2 DEF Sessions
<1>4. ASSUME NEW i \in DOMAIN Append(s.queued, request)
      PROVE  ~IsAction(Append(s.queued, request)[i])
  BY ReadsAreAsked DEF ActionWaits, Sessions
<1> QED BY <1>1, <1>3, <1>4 DEF AfterReads, ActionWaits, Sessions

\* Reads after reads are reads.
LEMMA ReadsCompose ==
    ASSUME NEW s, NEW t, NEW u, AfterReads(s, t), AfterReads(t, u)
    PROVE  AfterReads(s, u)
BY DEF AfterReads, ActionWaits

\* Who is not busy has nothing waiting.
LEMMA NotBusy ==
    ASSUME NEW s \in Sessions, ~IsBusy(s)
    PROVE  s.active = NoRequest /\ s.queued = << >> /\ ~ActionWaits(s)
BY DEF IsBusy, ActionWaits

\* A query that becomes `loading`, or is of a name that failed, stays a query.
LEMMA QueriesTyped ==
    /\ Loading \in QueryStates /\ Loading.is = "loading"
    /\ \A n \in Names \cup Entries :
           /\ Ready(n) \in QueryStates /\ Ready(n).is = "ready" /\ Ready(n).of = n
           /\ Query("failed", n) \in QueryStates /\ Query("failed", n).is = "failed"
BY DEF Loading, Ready, Query, QueryStates, Names

\* The details of the selected System are asked for.
LEMMA LoadSystemDetailsReads ==
    ASSUME NEW s \in Sessions, s.selectedSystem # None,
           ~ActionWaits(s)
    PROVE  /\ AfterReads(s, LoadSystemDetails(s))
           /\ ListingsAreTyped(s) => ListingsAreTyped(LoadSystemDetails(s))
<1> DEFINE t == [s EXCEPT !.details = Loading, !.detailsTarget = s.selectedSystem]
<1>1. t \in Sessions /\ AfterReads(s, t) /\ t.queued = s.queued
      /\ t.catalog = s.catalog /\ t.systems = s.systems
  BY QueriesTyped DEF Sessions, AfterReads
<1>2. s.selectedSystem \in AllSystems /\ s.selectedSystem \in Names
  BY DEF Sessions, Names
<1>3. LoadSystemDetails(s) = Enqueue(t, "show", s.selectedSystem)
  BY DEF LoadSystemDetails
<1> HIDE DEF t
<1>4. /\ AfterReads(t, Enqueue(t, "show", s.selectedSystem))
      /\ Enqueue(t, "show", s.selectedSystem) =
             [t EXCEPT !.queued = Append(t.queued, Request("show", s.selectedSystem))]
  BY <1>1, <1>2, EnqueueReads, ReadsAreAsked DEF ActionWaits, ReadKinds
<1> QED BY <1>1, <1>3, <1>4, ReadsCompose DEF ListingsAreTyped, Sessions

\* So are the deployments and the runtime of an Application.
LEMMA LoadObservationsReads ==
    ASSUME NEW s \in Sessions, NEW n \in AllApplications,
           ~ActionWaits(s)
    PROVE  /\ AfterReads(s, LoadObservations(s, n))
           /\ ListingsAreTyped(s) => ListingsAreTyped(LoadObservations(s, n))
<1> DEFINE t == [s EXCEPT !.observed = n, !.deployments = Loading, !.runtime = Loading]
           u == Enqueue(t, "deployments", n)
           v == Enqueue(u, "status", n)
<1>1. t \in Sessions /\ AfterReads(s, t) /\ t.queued = s.queued
      /\ t.catalog = s.catalog /\ t.systems = s.systems
  BY QueriesTyped DEF Sessions, AfterReads
<1>2. LoadObservations(s, n) = v
  BY DEF LoadObservations
<1> HIDE DEF t
<1>3. /\ AfterReads(t, u)
      /\ u = [t EXCEPT !.queued = Append(t.queued, Request("deployments", n))]
      /\ ~ActionWaits(u)
  BY <1>1, EnqueueReads, ReadsAreAsked DEF ActionWaits, ReadKinds, Names
<1>4. u \in Sessions /\ u.catalog = s.catalog /\ u.systems = s.systems
  BY <1>1, <1>3 DEF AfterReads, Sessions
<1> HIDE DEF u
<1>5. AfterReads(u, v) /\ v = [u EXCEPT !.queued = Append(u.queued, Request("status", n))]
  BY <1>3, <1>4, EnqueueReads, ReadsAreAsked DEF ReadKinds, Names
<1>6. v.catalog = s.catalog /\ v.systems = s.systems
  BY <1>4, <1>5 DEF Sessions
<1> HIDE DEF v
<1> QED BY <1>1, <1>2, <1>3, <1>5, <1>6, ReadsCompose DEF ListingsAreTyped

\* What is selected is read if nothing else is going on.
LEMMA EnsureReads ==
    ASSUME NEW s \in Sessions
    PROVE  /\ AfterReads(s, EnsureSystemDetailsLoaded(s))
           /\ AfterReads(s, EnsureObservationsLoaded(s))
           /\ ListingsAreTyped(s) => /\ ListingsAreTyped(EnsureSystemDetailsLoaded(s))
                                     /\ ListingsAreTyped(EnsureObservationsLoaded(s))
<1>1. AfterReads(s, s)
  BY DEF AfterReads
<1>2. s.selected = None \/ s.selected \in AllApplications
  BY DEF Sessions
<1> QED
  BY <1>1, <1>2, NotBusy, LoadSystemDetailsReads, LoadObservationsReads
     DEF EnsureSystemDetailsLoaded, EnsureObservationsLoaded

\* Refreshes are reads.
LEMMA RefreshReads ==
    ASSUME NEW s \in Sessions
    PROVE  /\ \A listing \in {"systems", "catalog"} :
                  /\ AfterReads(s, RefreshListing(s, listing))
                  /\ ListingsAreTyped(s) => ListingsAreTyped(RefreshListing(s, listing))
           /\ AfterReads(s, RefreshSystemDetails(s))
           /\ AfterReads(s, RefreshDetails(s))
           /\ ListingsAreTyped(s) => /\ ListingsAreTyped(RefreshSystemDetails(s))
                                     /\ ListingsAreTyped(RefreshDetails(s))
<1>1. AfterReads(s, s)
  BY DEF AfterReads
<1>2. s.selected = None \/ s.selected \in AllApplications
  BY DEF Sessions
<1>3. ASSUME ~IsBusy(s)
      PROVE  /\ AfterReads(s, RefreshListing(s, "systems"))
             /\ ListingsAreTyped(s) => ListingsAreTyped(RefreshListing(s, "systems"))
  <2> DEFINE t == [s EXCEPT !.systems = Loading]
  <2>1. t \in Sessions /\ AfterReads(s, t) /\ t.queued = s.queued
        /\ t.catalog = s.catalog /\ t.systems = Loading
    BY QueriesTyped DEF Sessions, AfterReads
  <2>2. RefreshListing(s, "systems") = Enqueue(t, "systems", None)
    BY <1>3 DEF RefreshListing
  <2> HIDE DEF t
  <2>3. /\ AfterReads(t, Enqueue(t, "systems", None))
        /\ Enqueue(t, "systems", None) =
               [t EXCEPT !.queued = Append(t.queued, Request("systems", None))]
    BY <1>3, <2>1, NotBusy, EnqueueReads, ReadsAreAsked DEF ActionWaits, ReadKinds, Names
  <2> QED
    BY SMTT(30), <2>1, <2>2, <2>3, ReadsCompose, QueriesTyped
       DEF ListingsAreTyped, Sessions
<1>4. ASSUME ~IsBusy(s)
      PROVE  /\ AfterReads(s, RefreshListing(s, "catalog"))
             /\ ListingsAreTyped(s) => ListingsAreTyped(RefreshListing(s, "catalog"))
  <2> DEFINE t == [s EXCEPT !.catalog = Loading]
  <2>1. t \in Sessions /\ AfterReads(s, t) /\ t.queued = s.queued
        /\ t.catalog = Loading /\ t.systems = s.systems
    BY QueriesTyped DEF Sessions, AfterReads
  <2>2. RefreshListing(s, "catalog") = Enqueue(t, "catalog", None)
    BY <1>4 DEF RefreshListing
  <2> HIDE DEF t
  <2>3. /\ AfterReads(t, Enqueue(t, "catalog", None))
        /\ Enqueue(t, "catalog", None) =
               [t EXCEPT !.queued = Append(t.queued, Request("catalog", None))]
    BY <1>4, <2>1, NotBusy, EnqueueReads, ReadsAreAsked DEF ActionWaits, ReadKinds, Names
  <2> QED
    BY SMTT(30), <2>1, <2>2, <2>3, ReadsCompose, QueriesTyped
       DEF ListingsAreTyped, Sessions
<1>5. IsBusy(s) => RefreshListing(s, "systems") = s /\ RefreshListing(s, "catalog") = s
  BY DEF RefreshListing
<1>6. /\ AfterReads(s, RefreshSystemDetails(s))
      /\ ListingsAreTyped(s) => ListingsAreTyped(RefreshSystemDetails(s))
  BY <1>1, NotBusy, LoadSystemDetailsReads DEF RefreshSystemDetails
<1>7. /\ AfterReads(s, RefreshDetails(s))
      /\ ListingsAreTyped(s) => ListingsAreTyped(RefreshDetails(s))
  BY <1>1, <1>2, NotBusy, LoadObservationsReads DEF RefreshDetails
<1> QED BY <1>1, <1>3, <1>4, <1>5, <1>6, <1>7

\* A session t that reads what s did not, while no action waits.
Reading(s, t) ==
    /\ AfterReads(s, t) /\ ListingsAreTyped(t)
    /\ ~ActionWaits(t)

\* One more read is asked for.
LEMMA ReadOn ==
    ASSUME NEW s, NEW t, Reading(s, t), NEW kind \in ReadKinds, NEW n \in Names,
           Request(kind, n) \in Asked
    PROVE  Reading(s, Enqueue(t, kind, n))
<1>1. t \in Sessions
  BY DEF Reading, AfterReads
<1>2. /\ AfterReads(t, Enqueue(t, kind, n))
      /\ Enqueue(t, kind, n) = [t EXCEPT !.queued = Append(t.queued, Request(kind, n))]
      /\ ~ActionWaits(Enqueue(t, kind, n))
  BY <1>1, EnqueueReads DEF Reading
<1>3. ListingsAreTyped(Enqueue(t, kind, n))
  BY <1>1, <1>2 DEF ListingsAreTyped, Reading, Sessions
<1> QED BY <1>2, <1>3, ReadsCompose DEF Reading

\* What is asked for is shown as loading, and a new System is selected.
LEMMA LoadingIsReading ==
    ASSUME NEW s, NEW t, Reading(s, t)
    PROVE  /\ Reading(s, [t EXCEPT !.catalog = Loading])
           /\ Reading(s, [t EXCEPT !.systems = Loading])
           /\ Reading(s, [t EXCEPT !.details = Loading])
           /\ Reading(s, [t EXCEPT !.runtime = Loading])
           /\ Reading(s, [t EXCEPT !.deployments = Loading, !.runtime = Loading])
           /\ \A n \in AllSystems :
                  Reading(s, [t EXCEPT !.systems = Loading, !.selectedSystem = n])
<1>1. t \in Sessions
  BY DEF Reading, AfterReads
<1>2. Reading(s, [t EXCEPT !.catalog = Loading])
  BY <1>1, QueriesTyped DEF Reading, AfterReads, ActionWaits, ListingsAreTyped, Sessions
<1>3. Reading(s, [t EXCEPT !.systems = Loading])
  BY <1>1, QueriesTyped DEF Reading, AfterReads, ActionWaits, ListingsAreTyped, Sessions
<1>4. Reading(s, [t EXCEPT !.details = Loading])
  BY <1>1, QueriesTyped DEF Reading, AfterReads, ActionWaits, ListingsAreTyped, Sessions
<1>5. Reading(s, [t EXCEPT !.runtime = Loading])
  BY <1>1, QueriesTyped DEF Reading, AfterReads, ActionWaits, ListingsAreTyped, Sessions
<1>6. Reading(s, [t EXCEPT !.deployments = Loading, !.runtime = Loading])
  BY ZenonT(60), <1>1, QueriesTyped
     DEF Reading, AfterReads, ActionWaits, ListingsAreTyped, Sessions
<1>7. ASSUME NEW n \in AllSystems
      PROVE  Reading(s, [t EXCEPT !.systems = Loading, !.selectedSystem = n])
  BY ZenonT(60), <1>1, QueriesTyped
     DEF Reading, AfterReads, ActionWaits, ListingsAreTyped, Sessions
<1> QED BY <1>2, <1>3, <1>4, <1>5, <1>6, <1>7

\* What an import is followed by is read.
LEMMA RefreshAfterImportReads ==
    ASSUME NEW s, NEW t, Reading(s, t), NEW system \in AllSystems \cup {None}
    PROVE  Reading(s, RefreshAfterImport(t, system))
<1> DEFINE catalog == Enqueue([t EXCEPT !.catalog = Loading], "catalog", None)
           systems == Enqueue([catalog EXCEPT !.systems = Loading], "systems", None)
<1>1. None \in Names /\ AllSystems \subseteq Names
  BY DEF Names
<1>2. Reading(s, catalog)
  <2>1. Reading(s, [t EXCEPT !.catalog = Loading])
    BY LoadingIsReading
  <2> QED BY <1>1, <2>1, ReadOn, ReadsAreAsked DEF ReadKinds
<1>3. RefreshAfterImport(t, system) \in
          {catalog, systems, Enqueue([systems EXCEPT !.details = Loading], "show", system)}
  BY DEF RefreshAfterImport
<1>4. RefreshAfterImport(t, system) # catalog => system # None
  BY DEF RefreshAfterImport
<1> HIDE DEF catalog
<1>5. Reading(s, systems)
  <2>1. Reading(s, [catalog EXCEPT !.systems = Loading])
    BY <1>2, LoadingIsReading
  <2> QED BY <1>1, <2>1, ReadOn, ReadsAreAsked DEF ReadKinds
<1> HIDE DEF systems
<1>6. system # None =>
          Reading(s, Enqueue([systems EXCEPT !.details = Loading], "show", system))
  <2>1. Reading(s, [systems EXCEPT !.details = Loading])
    BY <1>5, LoadingIsReading
  <2> QED BY <1>1, <2>1, ReadOn, ReadsAreAsked DEF ReadKinds
<1> QED BY <1>2, <1>3, <1>4, <1>5, <1>6

\* So is what any other action is followed by.
LEMMA RefreshAfterActionReads ==
    ASSUME NEW s \in Sessions, ListingsAreTyped(s), NEW action \in Asked, IsAction(action)
    PROVE  /\ AfterReads(s, RefreshAfterAction(s, action))
           /\ ListingsAreTyped(RefreshAfterAction(s, action))
<1>1. AfterReads(s, s)
  BY DEF AfterReads
<1>2. CASE s.quitting \/ ActionIsPending(s)
  BY <1>1, <1>2 DEF RefreshAfterAction
<1>3. CASE ~(s.quitting \/ ActionIsPending(s))
  <2> DEFINE catalog == Enqueue([s EXCEPT !.catalog = Loading], "catalog", None)
  <2>1. Reading(s, s)
    BY <1>1, <1>3 DEF Reading, ActionWaits, ActionIsPending
  <2>2. None \in Names /\ AllApplications \subseteq Names
    BY DEF Names
  <2>3. Reading(s, catalog)
    <3>1. Reading(s, [s EXCEPT !.catalog = Loading])
      BY <2>1, LoadingIsReading
    <3> QED BY <2>2, <3>1, ReadOn, ReadsAreAsked DEF ReadKinds
  <2>4. CASE action.kind = "create"
    <3>1. action.name \in AllSystems
      BY <2>4 DEF Asked
    <3>2. Reading(s, [s EXCEPT !.systems = Loading, !.selectedSystem = action.name])
      BY <2>1, <3>1, LoadingIsReading
    <3>3. Reading(s, Enqueue([s EXCEPT !.systems = Loading, !.selectedSystem = action.name],
                             "systems", None))
      BY <2>2, <3>2, ReadOn, ReadsAreAsked DEF ReadKinds
    <3> QED BY <1>3, <2>4, <3>3 DEF RefreshAfterAction, Reading
  <2>5. CASE action.kind = "import"
    <3>1. action.system \in AllSystems \cup {None}
      BY DEF Asked, Requests
    <3>2. Reading(s, RefreshAfterImport(s, action.system))
      BY <2>1, <3>1, RefreshAfterImportReads
    <3> QED BY <1>3, <2>5, <3>2 DEF RefreshAfterAction, Reading
  <2>6. CASE action.kind \in ScopedKinds
    <3>1. action.name \in AllApplications
      BY <2>6 DEF Asked
    <3>2. Reading(s, Enqueue([catalog EXCEPT !.runtime = Loading], "status", action.name))
      <4> HIDE DEF catalog
      <4>1. Reading(s, [catalog EXCEPT !.runtime = Loading])
        BY <2>3, LoadingIsReading
      <4> QED BY <2>2, <3>1, <4>1, ReadOn, ReadsAreAsked DEF ReadKinds
    <3>3. Reading(s, Enqueue(Enqueue([catalog EXCEPT !.deployments = Loading,
                                                     !.runtime = Loading],
                                     "deployments", action.name),
                             "status", action.name))
      <4> HIDE DEF catalog
      <4>1. Reading(s, [catalog EXCEPT !.deployments = Loading, !.runtime = Loading])
        BY <2>3, LoadingIsReading
      <4>2. Reading(s, Enqueue([catalog EXCEPT !.deployments = Loading, !.runtime = Loading],
                               "deployments", action.name))
        BY <2>2, <3>1, <4>1, ReadOn, ReadsAreAsked DEF ReadKinds
      <4> QED BY <2>2, <3>1, <4>2, ReadOn, ReadsAreAsked DEF ReadKinds
    <3>4. RefreshAfterAction(s, action) \in
              {catalog, Enqueue([catalog EXCEPT !.runtime = Loading], "status", action.name),
               Enqueue(Enqueue([catalog EXCEPT !.deployments = Loading, !.runtime = Loading],
                               "deployments", action.name),
                       "status", action.name)}
      BY <1>3, <2>6 DEF RefreshAfterAction, ScopedKinds
    <3> HIDE DEF catalog
    <3> QED BY <2>3, <3>2, <3>3, <3>4 DEF Reading
  <2> QED BY <2>4, <2>5, <2>6 DEF IsAction, ActionKinds
<1> QED BY <1>2, <1>3

\* A selection stays among what can be selected.
LEMMA SelectionTyped ==
    ASSUME NEW S, NEW entries \in Seq(S), NEW name
    PROVE  /\ PreservedSelection(entries, name) \in NamesOf(entries) \cup {None}
           /\ NamesOf(entries) \subseteq S
           /\ \A movement \in {"up", "down"} :
                  NextSelection(entries, name, movement) \in NamesOf(entries) \cup {None}
<1>1. NamesOf(entries) \subseteq S
  BY DEF NamesOf
<1>2. entries # << >> => /\ entries[1] \in NamesOf(entries)
                         /\ entries[Len(entries)] \in NamesOf(entries)
                         /\ Head(entries) = entries[1]
  BY DEF NamesOf
<1>3. PreservedSelection(entries, name) \in NamesOf(entries) \cup {None}
  BY <1>2 DEF PreservedSelection
<1>4. ASSUME NEW movement \in {"up", "down"}
      PROVE  NextSelection(entries, name, movement) \in NamesOf(entries) \cup {None}
  <2> DEFINE index == CHOOSE i \in DOMAIN entries : entries[i] = name
             next == IF movement = "down" THEN index + 1 ELSE index - 1
  <2>1. CASE entries # << >> /\ name \in NamesOf(entries)
    <3>1. NextSelection(entries, name, movement) =
              IF next \in DOMAIN entries THEN entries[next] ELSE name
      BY <2>1 DEF NextSelection
    <3> HIDE DEF next
    <3> QED BY <2>1, <3>1 DEF NamesOf
  <2>2. CASE ~(entries # << >> /\ name \in NamesOf(entries))
    BY <1>2, <2>2 DEF NextSelection
  <2> QED BY <2>1, <2>2
<1> QED BY <1>1, <1>3, <1>4

\* A listing that was read is shown, and the details of what is selected in it
\* are asked for.
LEMMA ApplyListingReads ==
    ASSUME NEW s \in Sessions, ListingsAreTyped(s)
    PROVE  /\ \A entries \in Seq(AllSystems) :
                  /\ AfterReads(s, ApplySystems(s, entries))
                  /\ ListingsAreTyped(ApplySystems(s, entries))
           /\ \A entries \in Seq(AllApplications) :
                  /\ AfterReads(s, ApplyCatalog(s, entries))
                  /\ ListingsAreTyped(ApplyCatalog(s, entries))
<1>1. ASSUME NEW entries \in Seq(AllSystems)
      PROVE  /\ AfterReads(s, ApplySystems(s, entries))
             /\ ListingsAreTyped(ApplySystems(s, entries))
  <2> DEFINE name == PreservedSelection(entries, s.selectedSystem)
             t == [s EXCEPT !.selectedSystem = name, !.systems = Ready(entries)]
  <2>1. name \in AllSystems \cup {None}
    BY SelectionTyped
  <2>2. ApplySystems(s, entries) = EnsureSystemDetailsLoaded(t)
    BY DEF ApplySystems
  <2>3. Ready(entries) \in QueryStates /\ Ready(entries).of = entries
    BY QueriesTyped DEF Entries
  <2> HIDE DEF name
  <2>4. t.systems = Ready(entries) /\ t.catalog = s.catalog
    BY DEF Sessions
  <2>5. AfterReads(s, t)
    BY <2>1, <2>3 DEF AfterReads, Sessions
  <2> HIDE DEF t
  <2>6. ListingsAreTyped(t)
    BY <2>3, <2>4 DEF ListingsAreTyped
  <2> QED BY <2>2, <2>5, <2>6, EnsureReads, ReadsCompose DEF AfterReads
<1>2. ASSUME NEW entries \in Seq(AllApplications)
      PROVE  /\ AfterReads(s, ApplyCatalog(s, entries))
             /\ ListingsAreTyped(ApplyCatalog(s, entries))
  <2> DEFINE name == PreservedSelection(entries, s.selected)
             t == [s EXCEPT !.selected = name, !.catalog = Ready(entries)]
  <2>1. name \in AllApplications \cup {None}
    BY SelectionTyped
  <2>2. ApplyCatalog(s, entries) = EnsureObservationsLoaded(t)
    BY DEF ApplyCatalog
  <2>3. Ready(entries) \in QueryStates /\ Ready(entries).of = entries
    BY QueriesTyped DEF Entries
  <2> HIDE DEF name
  <2>4. t.catalog = Ready(entries) /\ t.systems = s.systems
    BY DEF Sessions
  <2>5. AfterReads(s, t)
    BY <2>1, <2>3 DEF AfterReads, Sessions
  <2> HIDE DEF t
  <2>6. ListingsAreTyped(t)
    BY <2>3, <2>4 DEF ListingsAreTyped
  <2> QED BY <2>2, <2>5, <2>6, EnsureReads, ReadsCompose DEF AfterReads
<1> QED BY <1>1, <1>2

\* Whatever the result, it is applied to a session that then reads, or does
\* nothing at all.
LEMMA ApplyReads ==
    ASSUME NEW s \in Sessions, ListingsAreTyped(s), NEW request \in Asked, NEW entries,
           request.kind = "catalog" => entries \in Seq(AllApplications),
           request.kind = "systems" => entries \in Seq(AllSystems)
    PROVE  /\ AfterReads(s, ApplySuccess(s, request, entries))
           /\ ListingsAreTyped(ApplySuccess(s, request, entries))
           /\ AfterReads(s, ApplyError(s, request))
           /\ ListingsAreTyped(ApplyError(s, request))
<1> DEFINE ready == Ready(request.name)
           failed == Query("failed", request.name)
<1>1. ready \in QueryStates /\ failed \in QueryStates /\ failed.is = "failed"
  BY QueriesTyped DEF Asked, Requests
<1> HIDE DEF ready, failed
<1>2. IsAction(request) => /\ AfterReads(s, RefreshAfterAction(s, request))
                           /\ ListingsAreTyped(RefreshAfterAction(s, request))
  BY RefreshAfterActionReads
<1>3. /\ AfterReads(s, ApplySuccess(s, request, entries))
      /\ ListingsAreTyped(ApplySuccess(s, request, entries))
  <2>1. CASE request.kind \in {"systems", "catalog"}
    BY <2>1, ApplyListingReads DEF ApplySuccess
  <2>2. CASE request.kind \in {"show", "deployments", "status"}
    <3>1. ApplySuccess(s, request, entries) \in
              {[s EXCEPT !.details = ready], [s EXCEPT !.deployments = ready],
               [s EXCEPT !.runtime = ready]}
      BY <2>2 DEF ApplySuccess, ready
    <3> QED BY <1>1, <3>1 DEF AfterReads, ListingsAreTyped, Sessions
  <2>3. CASE request.kind = "control"
    <3> DEFINE t == [s EXCEPT !.runtime = ready]
    <3>1. AfterReads(s, t) /\ ListingsAreTyped(t)
      BY <1>1 DEF AfterReads, ListingsAreTyped, Sessions
    <3>2. ApplySuccess(s, request, entries) = RefreshAfterAction(t, request)
      BY <2>3 DEF ApplySuccess, ready
    <3> HIDE DEF t
    <3>3. t \in Sessions /\ IsAction(request)
      BY <2>3, <3>1 DEF AfterReads, IsAction, ActionKinds, ScopedKinds
    <3> QED BY <3>1, <3>2, <3>3, RefreshAfterActionReads, ReadsCompose
  <2>4. CASE request.kind = "import"
    <3> DEFINE t == [s EXCEPT !.selected = request.name]
    <3>1. request.name \in AllApplications
      BY <2>4 DEF Asked
    <3>2. AfterReads(s, t) /\ ListingsAreTyped(t)
      BY <3>1 DEF AfterReads, ListingsAreTyped, Sessions
    <3>3. ApplySuccess(s, request, entries) = RefreshAfterAction(t, request)
      BY <2>4 DEF ApplySuccess
    <3> HIDE DEF t
    <3>4. t \in Sessions /\ IsAction(request)
      BY <2>4, <3>2 DEF AfterReads, IsAction, ActionKinds
    <3> QED BY <3>2, <3>3, <3>4, RefreshAfterActionReads, ReadsCompose
  <2>5. CASE request.kind \in {"create", "reconcile", "visibility", "deploy"}
    <3>1. ApplySuccess(s, request, entries) = RefreshAfterAction(s, request)
      BY <2>5 DEF ApplySuccess
    <3> QED BY <1>2, <2>5, <3>1 DEF IsAction, ActionKinds, ScopedKinds
  <2> QED
    BY <2>1, <2>2, <2>3, <2>4, <2>5
       DEF Asked, Requests, ReadKinds, ActionKinds, ScopedKinds
<1>4. /\ AfterReads(s, ApplyError(s, request))
      /\ ListingsAreTyped(ApplyError(s, request))
  <2>1. CASE IsAction(request)
    <3>1. ApplyError(s, request) = RefreshAfterAction(s, request)
      BY <2>1 DEF ApplyError, IsAction, ActionKinds, ScopedKinds
    <3> QED BY <1>2, <2>1, <3>1
  <2>2. CASE request.kind = "catalog"
    <3>1. ApplyError(s, request) = [s EXCEPT !.catalog = failed, !.selected = None]
      BY <2>2 DEF ApplyError, failed
    <3> QED BY ZenonT(60), <1>1, <3>1 DEF AfterReads, ListingsAreTyped, Sessions
  <2>3. CASE request.kind \in {"systems", "show", "deployments", "status"}
    <3>1. ApplyError(s, request) \in
              {[s EXCEPT !.systems = failed], [s EXCEPT !.details = failed],
               [s EXCEPT !.deployments = failed], [s EXCEPT !.runtime = failed]}
      BY <2>3 DEF ApplyError, failed
    <3> QED BY <1>1, <3>1 DEF AfterReads, ListingsAreTyped, Sessions
  <2> QED BY <2>1, <2>2, <2>3 DEF Asked, Requests, ReadKinds, IsAction
<1> QED BY <1>3, <1>4

-------------------------------------------------------------------------------
(* Dispatch *)

\* After reads a founded session is founded, unless they began over an open form.
LEMMA ReadsFounded ==
    ASSUME NEW s, NEW t, Founded(s), AfterReads(s, t), ListingsAreTyped(t),
           s.mode.is # "form" \/ t.queued = s.queued
    PROVE  Founded(t)
<1>1. QueueIsFounded(t)
  BY DEF QueueIsFounded, AfterReads, ActionWaits, Founded
<1>2. ModeIsFounded(t)
  BY DEF ModeIsFounded, AfterReads, Founded, IsBusy
<1>3. LogIsFounded(t)
  BY DEF LogIsFounded, AfterReads, Founded
<1> QED BY <1>1, <1>2, <1>3 DEF Founded, AfterReads

\* What the dispatch of a waiting request leads to.
LEMMA DispatchedFounded ==
    ASSUME NEW s, Founded(s)
    PROVE  /\ Founded(Dispatched(s)) /\ NothingWaits(Dispatched(s))
           /\ Dispatched(s).phase = s.phase /\ Dispatched(s).quitting = s.quitting
           /\ s.active # NoRequest \/ s.queued = << >> => Dispatched(s) = s
           /\ s.active = NoRequest /\ s.queued # << >> =>
                  Dispatched(s) # s /\ Dispatched(s).active # NoRequest
<1> DEFINE t == Dispatched(s)
<1>1. CASE s.active # NoRequest \/ s.queued = << >>
  BY <1>1 DEF Dispatched, NothingWaits
<1>2. CASE s.active = NoRequest /\ s.queued # << >>
  <2> DEFINE request == Head(s.queued)
             log == IF IsDeployment(request) THEN NewLog(request.name) ELSE s.log
  <2>1. s \in Sessions /\ s.queued \in Seq(Asked)
    BY DEF Founded, Sessions
  <2>2. request \in Asked /\ Tail(s.queued) \in Seq(Asked)
    BY <1>2, <2>1
  <2>3. log \in Logs
    <3>1. IsDeployment(request) => request.name \in AllApplications
      BY <2>2 DEF Asked, IsDeployment, ScopedKinds
    <3> QED BY <2>1, <3>1 DEF NewLog, NoLog, Logs, Sessions
  <2>4. t = [s EXCEPT !.active = request, !.queued = Tail(s.queued),
                      !.id = (s.id + 1) % 2, !.log = log]
    BY <1>2 DEF Dispatched
  <2>5. (s.id + 1) % 2 \in {0, 1}
    BY <2>1 DEF Sessions
  <2>6. request # NoRequest
    BY <2>2, KindsDiffer
  <2> HIDE DEF request, log, t
  <2>7. /\ t \in Sessions
        /\ t.active = request /\ t.queued = Tail(s.queued) /\ t.log = log
        /\ t.phase = s.phase /\ t.quitting = s.quitting /\ t.mode = s.mode
        /\ t.catalog = s.catalog /\ t.systems = s.systems
    <3>1. t \in Sessions
      BY <2>1, <2>2, <2>3, <2>4, <2>5 DEF Sessions
    <3>2. t.active = request /\ t.queued = Tail(s.queued) /\ t.log = log
      BY <2>1, <2>4 DEF Sessions
    <3>3. /\ t.phase = s.phase /\ t.quitting = s.quitting /\ t.mode = s.mode
          /\ t.catalog = s.catalog /\ t.systems = s.systems
      BY <2>1, <2>4 DEF Sessions
    <3> QED BY <3>1, <3>2, <3>3
  <2>8. QueueIsFounded(t)
    <3>1. ASSUME NEW i \in DOMAIN Tail(s.queued)
          PROVE  ~IsAction(Tail(s.queued)[i])
      <4>1. /\ Tail(s.queued)[i] = s.queued[i + 1] /\ i + 1 \in DOMAIN s.queued
            /\ Len(s.queued) # 1
        BY SMTT(30), <1>2, <2>1, <3>1
      <4> QED BY <4>1 DEF Founded, QueueIsFounded
    <3> QED BY <2>7, <3>1 DEF QueueIsFounded
  <2>9. ModeIsFounded(t)
    BY <1>2, <2>7 DEF Founded, ModeIsFounded, IsBusy
  <2>10. LogIsFounded(t)
    <3>1. CASE IsDeployment(request)
      BY <2>7, <3>1 DEF LogIsFounded, log, NewLog, NoLog
    <3>2. CASE ~IsDeployment(request)
      BY <1>2, <2>7, <3>2, KindsDiffer DEF LogIsFounded, log, Founded
    <3> QED BY <3>1, <3>2
  <2>11. Founded(t) /\ NothingWaits(t) /\ t # s
    BY <1>2, <2>1, <2>6, <2>7, <2>8, <2>9, <2>10
       DEF Founded, ListingsAreTyped, NothingWaits
  <2> QED BY <1>2, <2>6, <2>7, <2>11 DEF t
<1> QED BY <1>1, <1>2

\* A step that leads to a founded session while nothing is on its way hands
\* over what it dispatches: one command is on its way then, or none.
LEMMA ContinueInvariant ==
    ASSUME NEW s, Founded(s), Continue(s), s.active = NoRequest,
           requests = << >>, executing' = NotExecuting, replies' = << >>
    PROVE  /\ Founded(session)' /\ NothingWaits(session)' /\ OneCommandAtATime'
           /\ session'.phase = s.phase
<1>1. session' = Dispatched(s)
  BY DEF Continue
<1>2. Founded(session)' /\ NothingWaits(session)' /\ session'.phase = s.phase
  BY <1>1, DispatchedFounded DEF Founded, NothingWaits
<1>3. CASE s.queued = << >>
  BY <1>1, <1>3, DispatchedFounded DEF Continue, NothingOnItsWay, OneCommandAtATime
<1>4. CASE s.queued # << >>
  <2>1. requests' = Append(<< >>, [id |-> session'.id, request |-> session'.active])
    BY <1>1, <1>4, DispatchedFounded DEF Continue
  <2> QED BY <1>1, <1>4, <2>1, DispatchedFounded DEF CommandIsSent, OneCommandAtATime
<1> QED BY <1>2, <1>3, <1>4

\* A key changes nothing of the command that is on its way.
LEMMA PressInvariant ==
    ASSUME OneCommandAtATime, NEW s, Founded(s), Press(s),
           s.active = session.active, s.id = session.id
    PROVE  /\ Founded(session)' /\ NothingWaits(session)' /\ OneCommandAtATime'
           /\ session'.phase = s.phase
<1>1. CASE s.active = NoRequest
  <2>1. NothingOnItsWay
    BY <1>1
       DEF OneCommandAtATime, CommandIsSent, CommandIsExecuted, CommandIsAnswered
  <2> QED BY <1>1, <2>1, ContinueInvariant DEF NothingOnItsWay, Press
<1>2. CASE s.active # NoRequest
  <2>1. session' = s /\ UNCHANGED <<requests, executing, replies, rows>>
    BY <1>2, DispatchedFounded DEF Press, Continue
  <2>2. OneCommandAtATime'
    BY <1>2, <2>1
       DEF OneCommandAtATime, CommandIsSent, CommandIsExecuted, CommandIsAnswered,
           NothingOnItsWay, EntriesAreCurrent, rows, Event, Answers
  <2> QED BY <1>2, <2>1, <2>2 DEF Founded, NothingWaits
<1> QED BY <1>1, <1>2

\* A session whose command returned waits for nothing; a log that followed the
\* command is finished.
LEMMA TakenFounded ==
    ASSUME NEW s, Founded(s), s.active # NoRequest, NEW ok \in BOOLEAN
    PROVE  LET taken == FinishLog([s EXCEPT !.active = NoRequest], s.active, ok) IN
           /\ Founded(taken) /\ taken.active = NoRequest /\ taken.mode.is # "form"
           /\ taken.phase = s.phase /\ taken.queued = s.queued /\ taken.log \in Logs
           /\ taken.log.scroll = s.log.scroll /\ taken.log.follow = s.log.follow
<1> DEFINE t == [s EXCEPT !.active = NoRequest]
           log == IF IsDeployment(s.active) /\ s.log.of = s.active.name
                  THEN [s.log EXCEPT !.state = IF ok THEN "completed" ELSE "failed"]
                  ELSE s.log
           taken == FinishLog(t, s.active, ok)
<1>1. s \in Sessions /\ s.log \in Logs
  BY DEF Founded, Sessions
<1>2. log \in Logs /\ log.scroll = s.log.scroll /\ log.follow = s.log.follow
  BY <1>1 DEF Logs
<1>3. taken = [s EXCEPT !.active = NoRequest, !.log = log]
  <2>1. t.log = s.log
    BY <1>1 DEF Sessions
  <2> QED BY <1>1, <2>1 DEF FinishLog, Sessions
<1>4. log.state # "running"
  BY <1>1, KindsDiffer DEF Founded, LogIsFounded, Logs, Sessions
<1>5. ~log.follow => log.scroll <= MaxScroll(log)
  BY <1>1, BoundsAssumption DEF Founded, LogIsFounded, Logs, MaxScroll, Rows
<1> HIDE DEF log
<1>6. /\ taken \in Sessions /\ taken.active = NoRequest /\ taken.log = log
      /\ taken.queued = s.queued /\ taken.mode = s.mode /\ taken.phase = s.phase
      /\ taken.catalog = s.catalog /\ taken.systems = s.systems
  BY ZenonT(60), <1>1, <1>2, <1>3 DEF Sessions
<1>7. s.mode.is # "form"
  BY DEF Founded, ModeIsFounded, IsBusy
<1> QED
  BY <1>2, <1>4, <1>5, <1>6, <1>7, KindsDiffer
     DEF Founded, ListingsAreTyped, ModeIsFounded, QueueIsFounded, LogIsFounded

-------------------------------------------------------------------------------
(* What is selected, and what is shown of it *)

\* What runs and what waits
Awaited(s) == ({s.active} \cup NamesOf(s.queued)) \ {NoRequest}

AwaitsNo(s, kinds) == \A request \in Awaited(s) : request.kind \notin kinds

\* No more than one command runs or waits.
Alone(s) == Len(s.queued) <= 1 /\ (s.queued = << >> \/ s.active = NoRequest)

\* Who creates a System or imports an Application does not wait.
FormsRunNext(s) ==
    s.active # NoRequest =>
        \A i \in DOMAIN s.queued : s.queued[i].kind \notin {"create", "import"}

\* A selection that is not listed is that of an import, which an action that was
\* confirmed meanwhile kept from being read: the result of that action reads it.
SelectionIsFounded(s) ==
    \/ s.quitting \/ s.catalog.is # "ready"
    \/ s.selected \in NamesOf(s.catalog.of) \cup {None}
    \/ ~AwaitsNo(s, ScopedKinds)

\* Only a System that there is has details.
DetailsExist(s) ==
    s.details.is = "ready" => s.details.of \in grouped /\ s.selectedSystem # None

\* The Systems that are listed are those that there are, unless one is created.
SystemsAreCurrent(s) ==
    ~s.quitting /\ s.systems.is = "ready" /\ AwaitsNo(s, {"create"})
        => NamesOf(s.systems.of) = grouped

\* The details of another System stay on the screen only until the Systems are
\* listed again, and nothing else is read before.
Mismatched(s) ==
    /\ s.tab = "systems" /\ ~s.quitting
    /\ s.details.is = "ready" /\ s.details.of # s.selectedSystem

MismatchIsMended(s) ==
    Mismatched(s) =>
        /\ s.systems.is # "ready" /\ Alone(s)
        /\ \A request \in Awaited(s) : request.kind \in {"systems", "create", "import"}

\* What is read of a System is read for the one that is selected.
ReadsAreOfSelection(s) ==
    \A request \in Awaited(s) :
        request.kind = "show" /\ request.name \in grouped =>
            /\ s.selectedSystem # None
            /\ s.tab = "systems" => request.name = s.selectedSystem

\* Beside the Systems no Application is acted on; a System is created, and an
\* Application imported into the one that is selected, while nothing else goes on.
TabsAreFounded(s) ==
    /\ s.tab = "systems" => s.mode.is \notin {"confirm", "deploy"} /\ AwaitsNo(s, ScopedKinds)
    /\ ~AwaitsNo(s, {"create"}) => s.tab = "systems" /\ Alone(s)
    /\ s.mode.is = "form" /\ s.mode.request.kind = "create" => s.tab = "systems"
    /\ s.tab = "systems" =>
           \A request \in Awaited(s) : request.kind = "import" =>
               Alone(s) /\ request.system = s.selectedSystem /\ s.selectedSystem # None
    /\ s.tab = "systems" /\ s.mode.is = "form" /\ s.mode.request.kind = "import" =>
           s.mode.request.system = s.selectedSystem /\ s.selectedSystem # None

SystemsAreFounded(s) ==
    DetailsExist(s) /\ SystemsAreCurrent(s) /\ ReadsAreOfSelection(s) /\ TabsAreFounded(s)

Consistent(s) ==
    FormsRunNext(s) /\ SelectionIsFounded(s) /\ SystemsAreFounded(s) /\ MismatchIsMended(s)

\* What runs, where the operator is and what he is asked are the same; so is what
\* the listings show and what is selected of them.
SamePlace(s, t) ==
    t.active = s.active /\ t.tab = s.tab /\ t.mode = s.mode /\ t.quitting = s.quitting
SameSelection(s, t) == t.catalog = s.catalog /\ t.selected = s.selected
SameSystems(s, t) ==
    t.systems = s.systems /\ t.selectedSystem = s.selectedSystem /\ t.details = s.details

\* Reads that have nothing to do with Systems
OtherReads == {"catalog", "deployments", "status"}

\* The session t awaits what s does, and reads of these kinds besides.
AwaitsMore(s, t, kinds) ==
    /\ Awaited(s) \subseteq Awaited(t)
    /\ \A request \in Awaited(t) : request \in Awaited(s) \/ request.kind \in kinds

\* What is asked for is awaited.
LEMMA EnqueueEffect ==
    ASSUME NEW s \in Sessions, NEW kind \in ReadKinds, NEW n \in Names,
           Request(kind, n) \in Asked
    PROVE  LET t == Enqueue(s, kind, n) IN
           /\ t \in Sessions /\ SamePlace(s, t) /\ SameSelection(s, t) /\ SameSystems(s, t)
           /\ Awaited(t) = Awaited(s) \cup {Request(kind, n)}
           /\ t.queued = Append(s.queued, Request(kind, n))
<1> DEFINE t == Enqueue(s, kind, n)
           request == Request(kind, n)
<1>1. t = [s EXCEPT !.queued = Append(s.queued, request)] /\ request \in Asked
  BY DEF Enqueue
<1> HIDE DEF request, t
<1>2. s.queued \in Seq(Asked) /\ Append(s.queued, request) \in Seq(Asked)
  BY <1>1 DEF Sessions
<1>3. t \in Sessions /\ t.queued = Append(s.queued, request) /\ t.active = s.active
  BY <1>1, <1>2 DEF Sessions
<1>4. SamePlace(s, t)
  BY <1>1 DEF Sessions, SamePlace
<1>5. SameSelection(s, t) /\ SameSystems(s, t)
  BY <1>1 DEF Sessions, SameSelection, SameSystems
<1>6. NamesOf(t.queued) = NamesOf(s.queued) \cup {request}
  <2>1. /\ DOMAIN t.queued = DOMAIN s.queued \cup {Len(s.queued) + 1}
        /\ t.queued[Len(s.queued) + 1] = request
        /\ \A i \in DOMAIN s.queued : t.queued[i] = s.queued[i]
    BY <1>2, <1>3
  <2> QED BY <2>1 DEF NamesOf
<1>7. request # NoRequest
  BY <1>1, KindsDiffer
<1>8. Awaited(t) = Awaited(s) \cup {request}
  BY <1>3, <1>6, <1>7 DEF Awaited
<1> QED BY <1>3, <1>4, <1>5, <1>8 DEF t, request

\* The details of the selected System are awaited.
LEMMA LoadSystemDetailsEffect ==
    ASSUME NEW s \in Sessions, s.selectedSystem # None
    PROVE  LET t == LoadSystemDetails(s) IN
           /\ SamePlace(s, t) /\ SameSelection(s, t)
           /\ t.systems = s.systems /\ t.selectedSystem = s.selectedSystem
           /\ t.details = Loading
           /\ Awaited(t) = Awaited(s) \cup {Request("show", s.selectedSystem)}
           /\ t.queued = Append(s.queued, Request("show", s.selectedSystem))
<1> DEFINE u == [s EXCEPT !.details = Loading, !.detailsTarget = s.selectedSystem]
           t == LoadSystemDetails(s)
<1>1. u = [s EXCEPT !.details = Loading, !.detailsTarget = s.selectedSystem]
  OBVIOUS
<1>2. t = Enqueue(u, "show", s.selectedSystem)
  BY DEF LoadSystemDetails
<1> HIDE DEF u, t
<1>3. u \in Sessions /\ u.active = s.active /\ u.queued = s.queued
  BY <1>1, QueriesTyped DEF Sessions
<1>4. SamePlace(s, u)
  BY <1>1 DEF Sessions, SamePlace
<1>5. SameSelection(s, u) /\ u.systems = s.systems /\ u.details = Loading
      /\ u.selectedSystem = s.selectedSystem
  BY <1>1 DEF Sessions, SameSelection
<1>6. s.selectedSystem \in AllSystems /\ s.selectedSystem \in Names
  BY DEF Sessions, Names
<1>7. /\ SamePlace(u, t) /\ SameSelection(u, t) /\ SameSystems(u, t)
      /\ Awaited(t) = Awaited(u) \cup {Request("show", s.selectedSystem)}
      /\ t.queued = Append(u.queued, Request("show", s.selectedSystem))
  BY <1>2, <1>3, <1>6, EnqueueEffect, ReadsAreAsked DEF ReadKinds
<1>8. Awaited(u) = Awaited(s)
  BY <1>3 DEF Awaited
<1> QED BY <1>3, <1>4, <1>5, <1>7, <1>8 DEF SamePlace, SameSelection, SameSystems, t

\* What is read of an Application is read beside what is awaited.
LEMMA LoadObservationsEffect ==
    ASSUME NEW s \in Sessions, NEW n \in AllApplications
    PROVE  LET t == LoadObservations(s, n) IN
           /\ SamePlace(s, t) /\ SameSelection(s, t) /\ SameSystems(s, t)
           /\ AwaitsMore(s, t, OtherReads)
<1> DEFINE u == [s EXCEPT !.observed = n, !.deployments = Loading, !.runtime = Loading]
           v == Enqueue(u, "deployments", n)
           t == LoadObservations(s, n)
<1>1. u = [s EXCEPT !.observed = n, !.deployments = Loading, !.runtime = Loading]
  OBVIOUS
<1>2. t = Enqueue(v, "status", n)
  BY DEF LoadObservations
<1> HIDE DEF u, t
<1>3. u \in Sessions /\ u.active = s.active /\ u.queued = s.queued
  BY <1>1, QueriesTyped DEF Sessions
<1>4. SamePlace(s, u)
  BY <1>1 DEF Sessions, SamePlace
<1>5. SameSelection(s, u) /\ SameSystems(s, u)
  BY <1>1 DEF Sessions, SameSelection, SameSystems
<1>6. n \in Names /\ Request("deployments", n) \in Asked /\ Request("status", n) \in Asked
      /\ Request("deployments", n).kind = "deployments" /\ Request("status", n).kind = "status"
  BY ReadsAreAsked DEF Names, Request
<1>7. /\ v \in Sessions /\ SamePlace(u, v) /\ SameSelection(u, v) /\ SameSystems(u, v)
      /\ Awaited(v) = Awaited(u) \cup {Request("deployments", n)}
      /\ v.queued = Append(u.queued, Request("deployments", n))
  BY <1>3, <1>6, EnqueueEffect DEF ReadKinds
<1> HIDE DEF v
<1>8. /\ t \in Sessions /\ SamePlace(v, t) /\ SameSelection(v, t) /\ SameSystems(v, t)
      /\ Awaited(t) = Awaited(v) \cup {Request("status", n)}
      /\ t.queued = Append(v.queued, Request("status", n))
  BY <1>2, <1>6, <1>7, EnqueueEffect DEF ReadKinds
<1>9. Awaited(u) = Awaited(s)
  BY <1>3 DEF Awaited
<1>10. AwaitsMore(s, t, OtherReads)
  BY <1>6, <1>7, <1>8, <1>9 DEF AwaitsMore, OtherReads
<1>11. SamePlace(s, t) /\ SameSelection(s, t) /\ SameSystems(s, t)
  BY <1>4, <1>5, <1>7, <1>8 DEF SamePlace, SameSelection, SameSystems
<1> QED BY <1>10, <1>11 DEF t

\* The observations, and the refresh of them, read beside what is awaited.
LEMMA ObservationsEffect ==
    ASSUME NEW s \in Sessions, NEW t \in {EnsureObservationsLoaded(s), RefreshDetails(s)}
    PROVE  /\ SamePlace(s, t) /\ SameSelection(s, t) /\ SameSystems(s, t)
           /\ AwaitsMore(s, t, OtherReads) /\ (t.queued = s.queued \/ s.active = NoRequest)
<1>1. CASE t = s
  BY <1>1 DEF SamePlace, SameSelection, SameSystems, AwaitsMore
<1>2. CASE t # s
  <2>1. ~IsBusy(s) /\ s.selected # None /\ t = LoadObservations(s, s.selected)
    BY <1>2 DEF EnsureObservationsLoaded, RefreshDetails
  <2>2. s.selected \in AllApplications
    BY <2>1 DEF Sessions
  <2> QED BY <2>1, <2>2, LoadObservationsEffect DEF IsBusy
<1> QED BY <1>1, <1>2

\* A listing that is refreshed is loading, and is awaited.
LEMMA RefreshListingEffect ==
    ASSUME NEW s \in Sessions, ~IsBusy(s)
    PROVE  /\ LET t == RefreshListing(s, "catalog") IN
              /\ t \in Sessions /\ SamePlace(s, t) /\ SameSystems(s, t)
              /\ t.catalog = Loading /\ AwaitsMore(s, t, OtherReads)
           /\ LET t == RefreshListing(s, "systems") IN
              /\ SamePlace(s, t) /\ SameSelection(s, t)
              /\ t.systems = Loading /\ t.details = s.details
              /\ t.selectedSystem = s.selectedSystem
              /\ Awaited(t) = {Request("systems", None)} /\ Len(t.queued) = 1
<1>1. s.active = NoRequest /\ s.queued = << >> /\ Awaited(s) = {}
  <2>1. s.active = NoRequest /\ s.queued = << >>
    BY DEF IsBusy
  <2> QED BY <2>1 DEF Awaited, NamesOf
<1>2. /\ None \in Names /\ Request("catalog", None).kind = "catalog"
      /\ Request("catalog", None) \in Asked /\ Request("systems", None) \in Asked
  BY ReadsAreAsked DEF Names, Request
<1>3. /\ RefreshListing(s, "catalog") = Enqueue([s EXCEPT !.catalog = Loading], "catalog", None)
      /\ RefreshListing(s, "systems") = Enqueue([s EXCEPT !.systems = Loading], "systems", None)
  BY DEF RefreshListing
<1>4. ASSUME NEW u, u = [s EXCEPT !.catalog = Loading],
             NEW t, t = Enqueue(u, "catalog", None)
      PROVE  /\ t \in Sessions /\ SamePlace(s, t) /\ SameSystems(s, t)
             /\ t.catalog = Loading /\ AwaitsMore(s, t, OtherReads)
  <2>1. u \in Sessions /\ u.active = s.active /\ u.queued = s.queued /\ u.catalog = Loading
    BY <1>4, QueriesTyped DEF Sessions
  <2>2. SamePlace(s, u) /\ SameSystems(s, u)
    BY <1>4 DEF Sessions, SamePlace, SameSystems
  <2>3. /\ t \in Sessions /\ SamePlace(u, t) /\ SameSelection(u, t) /\ SameSystems(u, t)
        /\ Awaited(t) = Awaited(u) \cup {Request("catalog", None)}
    BY <1>2, <1>4, <2>1, EnqueueEffect DEF ReadKinds
  <2>4. Awaited(u) = Awaited(s)
    BY <2>1 DEF Awaited
  <2> QED BY <1>2, <2>1, <2>2, <2>3, <2>4
      DEF SamePlace, SameSelection, SameSystems, AwaitsMore, OtherReads
<1>5. ASSUME NEW u, u = [s EXCEPT !.systems = Loading],
             NEW t, t = Enqueue(u, "systems", None)
      PROVE  /\ SamePlace(s, t) /\ SameSelection(s, t)
             /\ t.systems = Loading /\ t.details = s.details
             /\ t.selectedSystem = s.selectedSystem
             /\ Awaited(t) = {Request("systems", None)} /\ Len(t.queued) = 1
  <2>1. u \in Sessions /\ u.active = s.active /\ u.queued = s.queued /\ u.systems = Loading
        /\ u.details = s.details /\ u.selectedSystem = s.selectedSystem
    BY <1>5, QueriesTyped DEF Sessions
  <2>2. SamePlace(s, u) /\ SameSelection(s, u)
    BY <1>5 DEF Sessions, SamePlace, SameSelection
  <2>3. /\ SamePlace(u, t) /\ SameSelection(u, t) /\ SameSystems(u, t)
        /\ Awaited(t) = Awaited(u) \cup {Request("systems", None)}
        /\ t.queued = Append(u.queued, Request("systems", None))
    BY ZenonT(60), <1>2, <1>5, <2>1, EnqueueEffect DEF ReadKinds
  <2>4. Awaited(u) = {}
    BY <1>1, <2>1 DEF Awaited
  <2>5. Len(t.queued) = 1
    BY <1>1, <2>1, <2>3
  <2> QED BY <2>1, <2>2, <2>3, <2>4, <2>5 DEF SamePlace, SameSelection, SameSystems
<1> QED BY <1>3, <1>4, <1>5

\* The selection is founded as long as what it waits for is awaited.
LEMMA SelectionUndisturbed ==
    ASSUME NEW s, NEW t, SelectionIsFounded(s), SameSelection(s, t),
           t.quitting = s.quitting, Awaited(s) \subseteq Awaited(t)
    PROVE  SelectionIsFounded(t)
BY DEF SelectionIsFounded, SameSelection, AwaitsNo

\* Reads of other things do not disturb what is shown of the Systems, but they
\* must not delay what mends it.
LEMMA SystemsUndisturbed ==
    ASSUME NEW s, NEW t, SystemsAreFounded(s), MismatchIsMended(s),
           SamePlace(s, t), SameSystems(s, t), AwaitsMore(s, t, OtherReads),
           \/ t.queued = s.queued
           \/ /\ ~Mismatched(s) /\ AwaitsNo(s, {"create"})
              /\ s.tab = "systems" => AwaitsNo(s, {"import"})
    PROVE  SystemsAreFounded(t) /\ MismatchIsMended(t)
<1>1. /\ t.active = s.active /\ t.tab = s.tab /\ t.mode = s.mode /\ t.quitting = s.quitting
      /\ t.systems = s.systems /\ t.selectedSystem = s.selectedSystem
      /\ t.details = s.details
  BY DEF SamePlace, SameSystems
<1>2. \A request \in Awaited(t) : request \in Awaited(s) \/ request.kind \in OtherReads
  BY DEF AwaitsMore
<1>3. Awaited(s) \subseteq Awaited(t)
  BY DEF AwaitsMore
<1>4. /\ "create" \notin OtherReads /\ "import" \notin OtherReads /\ "show" \notin OtherReads
      /\ OtherReads \cap ScopedKinds = {}
  BY DEF OtherReads, ScopedKinds
<1>5. DetailsExist(t)
  BY <1>1 DEF SystemsAreFounded, DetailsExist
<1>6. SystemsAreCurrent(t)
  BY <1>1, <1>3 DEF SystemsAreFounded, SystemsAreCurrent, AwaitsNo
<1>7. ReadsAreOfSelection(t)
  BY <1>1, <1>2, <1>4 DEF SystemsAreFounded, ReadsAreOfSelection
<1>8. Mismatched(t) <=> Mismatched(s)
  BY <1>1 DEF Mismatched
<1>9. t.queued = s.queued => Alone(t) = Alone(s) /\ Awaited(t) = Awaited(s)
  BY <1>1 DEF Alone, Awaited
<1>10. MismatchIsMended(t)
  BY <1>1, <1>8, <1>9 DEF MismatchIsMended
<1>11. TabsAreFounded(t)
  <2>1. CASE t.queued = s.queued
    BY <1>1, <1>9, <2>1 DEF SystemsAreFounded, TabsAreFounded, AwaitsNo
  <2>2. CASE /\ AwaitsNo(s, {"create"})
             /\ s.tab = "systems" => AwaitsNo(s, {"import"})
    <3>1. AwaitsNo(t, {"create"})
      BY <1>2, <1>4, <2>2 DEF AwaitsNo
    <3>2. s.tab = "systems" => AwaitsNo(t, {"import"})
      BY <1>2, <1>4, <2>2 DEF AwaitsNo
    <3>3. AwaitsNo(s, ScopedKinds) => AwaitsNo(t, ScopedKinds)
      BY <1>2, <1>4 DEF AwaitsNo
    <3> QED BY <1>1, <3>1, <3>2, <3>3 DEF SystemsAreFounded, TabsAreFounded, AwaitsNo
  <2> QED BY <2>1, <2>2
<1> QED BY <1>5, <1>6, <1>7, <1>10, <1>11 DEF SystemsAreFounded

\* Where nothing else goes on, the details of the selected System are loaded: what
\* is shown then is of that System.
LEMMA EnsureDetails ==
    ASSUME NEW s \in Sessions, SystemsAreFounded(s), MismatchIsMended(s) \/ ~IsBusy(s),
           NEW t, t = EnsureSystemDetailsLoaded(s)
    PROVE  /\ SystemsAreFounded(t) /\ MismatchIsMended(t)
           /\ SamePlace(s, t) /\ SameSelection(s, t) /\ Awaited(s) \subseteq Awaited(t)
           /\ t.queued = s.queued \/ s.active = NoRequest
<1>1. CASE t = s
  <2>1. ASSUME ~IsBusy(s), Mismatched(s) PROVE FALSE
    <3>1. s.selectedSystem # None
      BY <2>1 DEF SystemsAreFounded, DetailsExist, Mismatched
    <3>2. ~DetailsMatchSelection(s)
      BY <2>1 DEF DetailsMatchSelection, Mismatched, Ready, Loading, Query
    <3>3. t = LoadSystemDetails(s)
      BY <2>1, <3>1, <3>2 DEF EnsureSystemDetailsLoaded
    <3>4. t.details = Loading
      BY <3>1, <3>3, LoadSystemDetailsEffect
    <3> QED BY <1>1, <2>1, <3>4, QueriesTyped DEF Mismatched
  <2>2. MismatchIsMended(s)
    BY <2>1 DEF MismatchIsMended
  <2> QED BY <1>1, <2>2 DEF SamePlace, SameSelection
<1>2. CASE t # s
  <2>1. ~IsBusy(s) /\ s.selectedSystem # None /\ t = LoadSystemDetails(s)
    BY <1>2 DEF EnsureSystemDetailsLoaded
  <2>2. /\ SamePlace(s, t) /\ SameSelection(s, t)
        /\ t.systems = s.systems /\ t.selectedSystem = s.selectedSystem
        /\ t.details = Loading
        /\ Awaited(t) = Awaited(s) \cup {Request("show", s.selectedSystem)}
    BY <2>1, LoadSystemDetailsEffect
  <2>3. s.active = NoRequest /\ Awaited(s) = {}
    <3>1. s.active = NoRequest /\ s.queued = << >>
      BY <2>1 DEF IsBusy
    <3> QED BY <3>1 DEF Awaited, NamesOf
  <2>4. \A request \in Awaited(t) : request.kind = "show" /\ request.name = s.selectedSystem
    BY <2>2, <2>3 DEF Request
  <2>5. MismatchIsMended(t)
    BY <2>2, QueriesTyped DEF MismatchIsMended, Mismatched
  <2>6. t.tab = s.tab /\ t.mode = s.mode /\ t.quitting = s.quitting
    BY <2>2 DEF SamePlace
  <2>7. DetailsExist(t)
    BY <2>2, QueriesTyped DEF DetailsExist
  <2>8. SystemsAreCurrent(t)
    BY <2>2, <2>3, <2>6 DEF SystemsAreFounded, SystemsAreCurrent, AwaitsNo
  <2>9. ReadsAreOfSelection(t)
    BY <2>1, <2>2, <2>4 DEF ReadsAreOfSelection
  <2>10. TabsAreFounded(t)
    <3>1. AwaitsNo(t, ScopedKinds) /\ AwaitsNo(t, {"create"}) /\ AwaitsNo(t, {"import"})
      BY <2>4 DEF AwaitsNo, ScopedKinds
    <3> QED BY <2>2, <2>6, <3>1 DEF SystemsAreFounded, TabsAreFounded, AwaitsNo
  <2> QED BY <2>2, <2>3, <2>5, <2>7, <2>8, <2>9, <2>10 DEF SystemsAreFounded
<1> QED BY <1>1, <1>2

\* Who asks to quit leaves what is shown as it is.
LEMMA QuitConsistent ==
    ASSUME NEW s \in Sessions, Consistent(s), NEW t, t = RequestQuit(s)
    PROVE  Consistent(t)
<1>1. t = [s EXCEPT !.mode = Normal, !.queued = << >>, !.quitting = TRUE]
  BY DEF RequestQuit
<1>2. t.mode = Normal /\ t.queued = << >> /\ t.quitting /\ t.active = s.active
  BY <1>1 DEF Sessions
<1>3. SameSystems(s, t) /\ t.tab = s.tab
  BY <1>1 DEF Sessions, SameSystems
<1>4. Awaited(t) \subseteq Awaited(s)
  BY <1>2 DEF Awaited, NamesOf
<1>5. Alone(t) /\ Normal.is = "normal"
  BY <1>2 DEF Alone, Normal
<1>6. FormsRunNext(t) /\ SelectionIsFounded(t) /\ MismatchIsMended(t)
  BY <1>2 DEF FormsRunNext, SelectionIsFounded, MismatchIsMended, Mismatched
<1>7. DetailsExist(t) /\ SystemsAreCurrent(t) /\ ReadsAreOfSelection(t)
  BY <1>2, <1>3, <1>4
     DEF Consistent, SystemsAreFounded, DetailsExist, SystemsAreCurrent,
         ReadsAreOfSelection, SameSystems
<1>8. TabsAreFounded(t)
  BY <1>2, <1>3, <1>4, <1>5
     DEF Consistent, SystemsAreFounded, TabsAreFounded, AwaitsNo, SameSystems
<1> QED BY <1>6, <1>7, <1>8 DEF Consistent, SystemsAreFounded

\* What the operator is asked, and where he looks, is no selection.
LEMMA ModeConsistent ==
    ASSUME NEW s, NEW t, Consistent(s), SameSelection(s, t), SameSystems(s, t),
           t.active = s.active, t.queued = s.queued, t.quitting = s.quitting, t.tab = s.tab,
           \/ t.mode = s.mode \/ t.mode = Normal
           \/ t.mode.is \in {"confirm", "deploy"} /\ s.tab # "systems"
           \/ /\ t.mode.is = "form"
              /\ t.mode.request.kind = "create" => s.tab = "systems"
              /\ t.mode.request.kind = "import" /\ s.tab = "systems" =>
                     t.mode.request.system = s.selectedSystem /\ s.selectedSystem # None
    PROVE  Consistent(t)
<1>1. Awaited(t) = Awaited(s) /\ Alone(t) = Alone(s)
  BY DEF Awaited, Alone
<1>2. FormsRunNext(t)
  BY DEF Consistent, FormsRunNext
<1>3. SelectionIsFounded(t)
  BY <1>1, SelectionUndisturbed DEF Consistent
<1>4. DetailsExist(t) /\ SystemsAreCurrent(t) /\ ReadsAreOfSelection(t)
  BY <1>1
     DEF Consistent, SystemsAreFounded, DetailsExist, SystemsAreCurrent,
         ReadsAreOfSelection, SameSystems, AwaitsNo
<1>5. MismatchIsMended(t)
  BY <1>1 DEF Consistent, MismatchIsMended, Mismatched, SameSystems
<1>6. /\ AwaitsNo(t, {"create"}) = AwaitsNo(s, {"create"})
      /\ AwaitsNo(t, ScopedKinds) = AwaitsNo(s, ScopedKinds)
      /\ t.selectedSystem = s.selectedSystem
  BY <1>1 DEF AwaitsNo, SameSystems
<1>7. TabsAreFounded(s)
  BY DEF Consistent, SystemsAreFounded
<1>8. TabsAreFounded(t)
  <2>1. CASE t.mode = s.mode
    BY <1>1, <1>6, <1>7, <2>1 DEF TabsAreFounded
  <2>2. CASE t.mode = Normal
    BY <1>1, <1>6, <1>7, <2>2 DEF TabsAreFounded, Normal
  <2>3. CASE t.mode.is \in {"confirm", "deploy"} /\ s.tab # "systems"
    BY <1>1, <1>6, <1>7, <2>3 DEF TabsAreFounded
  <2>4. CASE /\ t.mode.is = "form"
             /\ t.mode.request.kind = "create" => s.tab = "systems"
             /\ t.mode.request.kind = "import" /\ s.tab = "systems" =>
                    t.mode.request.system = s.selectedSystem /\ s.selectedSystem # None
    BY <1>1, <1>6, <1>7, <2>4 DEF TabsAreFounded
  <2> QED BY <2>1, <2>2, <2>3, <2>4
<1> QED BY <1>2, <1>3, <1>4, <1>5, <1>8 DEF Consistent, SystemsAreFounded

\* What is confirmed or submitted takes the place of reads: it is an action on an
\* Application, away from the Systems, or nothing else was going on.
LEMMA ExecuteConsistent ==
    ASSUME NEW s \in Sessions, Consistent(s), NothingWaits(s), NEW request \in Asked,
           \/ request.kind \in ScopedKinds /\ s.tab # "systems"
           \/ /\ request.kind \in {"create", "import"} /\ ~IsBusy(s)
              /\ request.kind = "create" => s.tab = "systems"
              /\ request.kind = "import" /\ s.tab = "systems" =>
                     request.system = s.selectedSystem /\ s.selectedSystem # None,
           NEW t, t = ExecuteAction(s, request)
    PROVE  Consistent(t)
<1>1. t = [s EXCEPT !.mode = Normal, !.queued = <<request>>]
  BY DEF ExecuteAction
<1>2. t.mode = Normal /\ t.queued = <<request>> /\ t.active = s.active
  BY <1>1 DEF Sessions
<1>3. SameSystems(s, t) /\ SameSelection(s, t) /\ t.tab = s.tab /\ t.quitting = s.quitting
  BY <1>1 DEF Sessions, SameSystems, SameSelection
<1>4. Awaited(t) = {s.active, request} \ {NoRequest} /\ request \in Awaited(t)
  <2>1. NamesOf(t.queued) = {request}
    BY <1>2 DEF NamesOf
  <2> QED BY <1>2, <2>1, KindsDiffer DEF Awaited
<1>5. /\ request.kind \notin {"systems", "show", "catalog"} /\ Normal.is = "normal"
      /\ request.kind \in ScopedKinds => request.kind \notin {"create", "import"}
  BY DEF ScopedKinds, Normal
<1>6. ~IsBusy(s) => s.active = NoRequest /\ Awaited(s) = {} /\ Awaited(t) = {request}
  <2>1. ~IsBusy(s) => s.active = NoRequest /\ s.queued = << >>
    BY DEF IsBusy
  <2> QED BY <1>4, <2>1 DEF Awaited, NamesOf
<1>7. s.active \in Awaited(s) \/ s.active = NoRequest
  BY DEF Awaited
<1>8. SystemsAreFounded(s) /\ MismatchIsMended(s) /\ SelectionIsFounded(s) /\ FormsRunNext(s)
  BY DEF Consistent
<1>9. \A r \in Awaited(t) : r \in Awaited(s) \/ r = request
  BY <1>4, <1>7
<1>10. FormsRunNext(t)
  BY <1>2, <1>5, <1>6 DEF FormsRunNext
<1>11. SelectionIsFounded(t)
  <2>1. CASE request.kind \in ScopedKinds
    BY <1>4, <2>1 DEF SelectionIsFounded, AwaitsNo
  <2>2. CASE ~IsBusy(s)
    BY <1>3, <1>6, <1>8, <2>2 DEF SelectionIsFounded, AwaitsNo, SameSelection
  <2> QED BY <2>1, <2>2
<1>12. DetailsExist(t)
  BY <1>3, <1>8 DEF SystemsAreFounded, DetailsExist, SameSystems
<1>13. SystemsAreCurrent(t)
  <2>1. ASSUME ~AwaitsNo(s, {"create"}) PROVE ~AwaitsNo(t, {"create"})
    <3>1. PICK r \in Awaited(s) : r.kind = "create"
      BY <2>1 DEF AwaitsNo
    <3>2. s.active # NoRequest
      BY <3>1 DEF Awaited, NothingWaits, NamesOf
    <3>3. r = s.active
      BY <1>8, <3>1, <3>2 DEF Awaited, FormsRunNext, NamesOf
    <3> QED BY <1>4, <3>1, <3>2, <3>3 DEF AwaitsNo
  <2> QED BY <1>3, <1>8, <2>1 DEF SystemsAreFounded, SystemsAreCurrent, SameSystems
<1>14. MismatchIsMended(t)
  <2>1. ASSUME Mismatched(t)
        PROVE  /\ t.systems.is # "ready" /\ Alone(t)
               /\ \A r \in Awaited(t) : r.kind \in {"systems", "create", "import"}
    <3>1. Mismatched(s) /\ s.tab = "systems" /\ t.systems.is # "ready"
      BY <1>3, <1>8, <2>1 DEF Mismatched, MismatchIsMended, SameSystems
    <3>2. ~IsBusy(s) /\ request.kind \in {"create", "import"}
      BY <3>1
    <3>3. Alone(t)
      BY <1>2, <1>6, <3>2 DEF Alone
    <3> QED BY <1>6, <3>1, <3>2, <3>3
  <2> QED BY <2>1 DEF MismatchIsMended
<1>15. ReadsAreOfSelection(t)
  BY <1>3, <1>5, <1>8, <1>9 DEF SystemsAreFounded, ReadsAreOfSelection, SameSystems
<1>16. TabsAreFounded(t)
  <2>1. CASE ~IsBusy(s)
    <3>1. Alone(t)
      BY <1>2, <1>6, <2>1 DEF Alone
    <3>2. s.tab = "systems" => AwaitsNo(t, ScopedKinds)
      BY <1>5, <1>6, <2>1 DEF AwaitsNo
    <3>3. ~AwaitsNo(t, {"create"}) => s.tab = "systems"
      BY <1>5, <1>6, <2>1 DEF AwaitsNo
    <3>4. s.tab = "systems" => \A r \in Awaited(t) : r.kind = "import" =>
              r.system = s.selectedSystem /\ s.selectedSystem # None
      BY <1>5, <1>6, <2>1
    <3> QED BY <1>2, <1>3, <1>5, <3>1, <3>2, <3>3, <3>4 DEF TabsAreFounded, SameSystems
  <2>2. CASE request.kind \in ScopedKinds /\ s.tab # "systems"
    <3>1. AwaitsNo(t, {"create"})
      BY <1>5, <1>8, <1>9, <2>2 DEF SystemsAreFounded, TabsAreFounded, AwaitsNo
    <3> QED BY <1>2, <1>3, <1>5, <2>2, <3>1 DEF TabsAreFounded
  <2> QED BY <2>1, <2>2
<1> QED BY <1>10, <1>11, <1>12, <1>13, <1>14, <1>15, <1>16
    DEF Consistent, SystemsAreFounded

\* The dispatch takes what is awaited from the queue, and changes nothing else.
LEMMA DispatchedConsistent ==
    ASSUME NEW s, Founded(s), Consistent(s)
    PROVE  Consistent(Dispatched(s))
<1> DEFINE t == Dispatched(s)
<1>1. CASE s.active # NoRequest \/ s.queued = << >>
  BY <1>1 DEF Dispatched
<1>2. CASE s.active = NoRequest /\ s.queued # << >>
  <2> DEFINE request == Head(s.queued)
             log == IF IsDeployment(request) THEN NewLog(request.name) ELSE s.log
  <2>1. s \in Sessions /\ s.queued \in Seq(Asked)
    BY DEF Founded, Sessions
  <2>2. t = [s EXCEPT !.active = request, !.queued = Tail(s.queued),
                      !.id = (s.id + 1) % 2, !.log = log]
    BY <1>2 DEF Dispatched
  <2>3. request \in Asked /\ request = s.queued[1] /\ request # NoRequest
    BY <1>2, <2>1, KindsDiffer
  <2>4. /\ Len(s.queued) \in Nat /\ Len(s.queued) > 0 /\ 1 \in DOMAIN s.queued
        /\ Tail(s.queued) \in Seq(Asked) /\ Len(Tail(s.queued)) = Len(s.queued) - 1
        /\ \A i \in DOMAIN Tail(s.queued) :
               i + 1 \in DOMAIN s.queued /\ Tail(s.queued)[i] = s.queued[i + 1]
        /\ \A i \in DOMAIN s.queued : i # 1 =>
               i - 1 \in DOMAIN Tail(s.queued) /\ Tail(s.queued)[i - 1] = s.queued[i]
    <3>1. Len(s.queued) \in Nat /\ Len(s.queued) > 0 /\ DOMAIN s.queued = 1..Len(s.queued)
      BY <1>2, <2>1
    <3>2. Tail(s.queued) \in Seq(Asked) /\ Len(Tail(s.queued)) = Len(s.queued) - 1
      BY <1>2, <2>1, HeadTailProperties
    <3>3. \A i \in 1..Len(s.queued) - 1 : Tail(s.queued)[i] = s.queued[i + 1]
      BY <1>2, <2>1
    <3>4. DOMAIN Tail(s.queued) = 1..Len(s.queued) - 1
      BY <3>2
    <3>5. \A i \in 1..Len(s.queued) : i # 1 =>
              i - 1 \in 1..Len(s.queued) - 1 /\ (i - 1) + 1 = i
      BY <3>1
    <3>6. \A i \in 1..Len(s.queued) - 1 : i + 1 \in 1..Len(s.queued)
      BY <3>1
    <3> HIDE <1>2
    <3>7. \A i \in DOMAIN s.queued : i # 1 =>
              i - 1 \in DOMAIN Tail(s.queued) /\ Tail(s.queued)[i - 1] = s.queued[i]
      BY <3>1, <3>3, <3>4, <3>5
    <3> QED BY <3>1, <3>2, <3>3, <3>4, <3>6, <3>7
  <2> HIDE DEF request, log, t
  <2>5. t.active = request /\ t.queued = Tail(s.queued)
    BY <2>1, <2>2 DEF Sessions
  <2>6. t.tab = s.tab /\ t.mode = s.mode /\ t.quitting = s.quitting
    BY <2>1, <2>2 DEF Sessions
  <2>7. SameSelection(s, t) /\ SameSystems(s, t)
    BY <2>1, <2>2 DEF Sessions, SameSelection, SameSystems
  <2>8. NamesOf(s.queued) = {request} \cup NamesOf(Tail(s.queued))
    <3>1. ASSUME NEW i \in DOMAIN s.queued
          PROVE  s.queued[i] \in {request} \cup NamesOf(Tail(s.queued))
      <4>1. CASE i = 1
        BY <2>3, <4>1
      <4>2. CASE i # 1
        <5>1. i - 1 \in DOMAIN Tail(s.queued) /\ Tail(s.queued)[i - 1] = s.queued[i]
          BY <2>4, <4>2
        <5> QED BY <5>1 DEF NamesOf
      <4> QED BY <4>1, <4>2
    <3>2. ASSUME NEW i \in DOMAIN Tail(s.queued)
          PROVE  Tail(s.queued)[i] \in NamesOf(s.queued)
      <4>1. i + 1 \in DOMAIN s.queued /\ Tail(s.queued)[i] = s.queued[i + 1]
        BY <2>4
      <4> QED BY <4>1 DEF NamesOf
    <3>3. request \in NamesOf(s.queued)
      BY <2>3, <2>4 DEF NamesOf
    <3> QED BY <3>1, <3>2, <3>3 DEF NamesOf
  <2>9. Awaited(t) = Awaited(s)
    BY <1>2, <2>3, <2>5, <2>8 DEF Awaited
  <2>10. Alone(s) => Alone(t)
    <3>1. Len(s.queued) <= 1 => Tail(s.queued) = << >>
      <4>1. Len(s.queued) \in Nat /\ Len(s.queued) > 0
            /\ Len(Tail(s.queued)) = Len(s.queued) - 1
        BY <2>4
      <4>2. \A n \in Nat : n > 0 /\ n <= 1 => n - 1 = 0
        OBVIOUS
      <4>3. Len(s.queued) <= 1 => Len(Tail(s.queued)) = 0
        BY <4>1, <4>2
      <4> QED BY <2>4, <4>3, EmptySeq
    <3> QED BY <2>5, <3>1 DEF Alone
  <2>11. FormsRunNext(t)
    <3>1. ASSUME NEW i \in DOMAIN Tail(s.queued)
          PROVE  ~IsAction(Tail(s.queued)[i])
      <4>1. /\ Tail(s.queued)[i] = s.queued[i + 1] /\ i + 1 \in DOMAIN s.queued
            /\ i \in Nat \ {0}
        BY <2>4, <3>1
      <4>2. Len(s.queued) # 1
        BY <2>1, <4>1
      <4> QED BY <4>1, <4>2 DEF Founded, QueueIsFounded
    <3> QED BY <2>5, <3>1 DEF FormsRunNext, IsAction, ActionKinds
  <2>12. SelectionIsFounded(t)
    BY <2>6, <2>7, <2>9, SelectionUndisturbed DEF Consistent
  <2>13. DetailsExist(t) /\ SystemsAreCurrent(t) /\ ReadsAreOfSelection(t)
    BY <2>6, <2>7, <2>9
       DEF Consistent, SystemsAreFounded, DetailsExist, SystemsAreCurrent,
           ReadsAreOfSelection, SameSystems, AwaitsNo
  <2>14. MismatchIsMended(t)
    BY <2>6, <2>7, <2>9, <2>10
       DEF Consistent, MismatchIsMended, Mismatched, SameSystems
  <2>15. TabsAreFounded(t)
    <3>1. TabsAreFounded(s)
      BY DEF Consistent, SystemsAreFounded
    <3>2. \A kinds : AwaitsNo(t, kinds) = AwaitsNo(s, kinds)
      BY <2>9 DEF AwaitsNo
    <3> QED BY <2>6, <2>7, <2>9, <2>10, <3>1, <3>2 DEF TabsAreFounded, SameSystems
  <2> QED BY <2>11, <2>12, <2>13, <2>14, <2>15 DEF Consistent, SystemsAreFounded, t
<1> QED BY <1>1, <1>2

\* A reply is taken: what its command made the session wait for, it waits for no
\* longer.
LEMMA TakenEffect ==
    ASSUME NEW s, Founded(s), Consistent(s), s.active # NoRequest, NEW ok \in BOOLEAN,
           NEW t, t = FinishLog([s EXCEPT !.active = NoRequest], s.active, ok)
    PROVE  /\ t.active = NoRequest /\ t.queued = s.queued
           /\ t.tab = s.tab /\ t.mode = s.mode /\ t.quitting = s.quitting
           /\ SameSelection(s, t) /\ SameSystems(s, t)
           /\ Awaited(s) = Awaited(t) \cup {s.active}
           /\ AwaitsNo(t, {"create", "import"})
           /\ s.active.kind \notin ScopedKinds => SelectionIsFounded(t)
           /\ s.active.kind # "create" => SystemsAreFounded(t)
           /\ Mismatched(t) => t.queued = << >>
<1> DEFINE u == [s EXCEPT !.active = NoRequest]
           log == IF IsDeployment(s.active) /\ u.log.of = s.active.name
                  THEN [u.log EXCEPT !.state = IF ok THEN "completed" ELSE "failed"]
                  ELSE u.log
<1>1. s \in Sessions /\ s.queued \in Seq(Asked) /\ s.active \in Asked
  BY DEF Founded, Sessions
<1>2. t = [u EXCEPT !.log = log] /\ u = [s EXCEPT !.active = NoRequest]
  BY <1>1 DEF FinishLog, Sessions
<1> HIDE DEF u, log
<1>3. u \in Sessions /\ u.active = NoRequest /\ u.queued = s.queued
      /\ u.tab = s.tab /\ u.mode = s.mode /\ u.quitting = s.quitting
  BY <1>1, <1>2 DEF Sessions
<1>4. SameSelection(s, u) /\ SameSystems(s, u)
  BY <1>1, <1>2 DEF Sessions, SameSelection, SameSystems
<1>5. t.active = NoRequest /\ t.queued = s.queued
      /\ t.tab = s.tab /\ t.mode = s.mode /\ t.quitting = s.quitting
  BY <1>2, <1>3 DEF Sessions
<1>6. SameSelection(s, t) /\ SameSystems(s, t)
  BY <1>2, <1>3, <1>4 DEF Sessions, SameSelection, SameSystems
<1>7. Awaited(s) = Awaited(t) \cup {s.active}
  BY <1>1, <1>5, KindsDiffer DEF Awaited
<1>8. AwaitsNo(t, {"create", "import"})
  BY <1>5 DEF AwaitsNo, Awaited, NamesOf, Consistent, FormsRunNext
<1>9. s.active.kind \notin ScopedKinds => SelectionIsFounded(t)
  BY <1>5, <1>6, <1>7 DEF Consistent, SelectionIsFounded, SameSelection, AwaitsNo
<1>10. t.mode.is # "form"
  BY <1>5 DEF Founded, ModeIsFounded, IsBusy
<1>11. SystemsAreFounded(s) /\ MismatchIsMended(s)
  BY DEF Consistent
<1>12. ASSUME s.active.kind # "create" PROVE SystemsAreFounded(t)
  <2>1. DetailsExist(t) /\ ReadsAreOfSelection(t)
    BY <1>5, <1>6, <1>7, <1>11
       DEF SystemsAreFounded, DetailsExist, ReadsAreOfSelection, SameSystems
  <2>2. SystemsAreCurrent(t)
    BY <1>5, <1>6, <1>7, <1>11, <1>12
       DEF SystemsAreFounded, SystemsAreCurrent, SameSystems, AwaitsNo
  <2>3. TabsAreFounded(t)
    BY <1>5, <1>7, <1>8, <1>10, <1>11 DEF SystemsAreFounded, TabsAreFounded, AwaitsNo
  <2> QED BY <2>1, <2>2, <2>3 DEF SystemsAreFounded
<1>13. Mismatched(t) => t.queued = << >>
  BY <1>5, <1>6, <1>11 DEF MismatchIsMended, Mismatched, SameSystems, Alone
<1> QED BY <1>5, <1>6, <1>7, <1>8, <1>9, <1>12, <1>13

\* A session t that reads other things than Systems, besides what s does
ReadsOther(s, t) ==
    t \in Sessions /\ SamePlace(s, t) /\ SameSystems(s, t) /\ AwaitsMore(s, t, OtherReads)

\* What is shown of other things may change meanwhile.
LEMMA ShownOther ==
    ASSUME NEW s, NEW t, ReadsOther(s, t), NEW u \in Sessions,
           SamePlace(t, u), SameSystems(t, u), u.queued = t.queued
    PROVE  ReadsOther(s, u)
<1>1. Awaited(u) = Awaited(t)
  BY DEF Awaited, SamePlace
<1> QED BY <1>1 DEF ReadsOther, SamePlace, SameSystems, AwaitsMore

\* One more such read is asked for.
LEMMA ReadOther ==
    ASSUME NEW s, NEW t, ReadsOther(s, t), NEW kind \in OtherReads, NEW n \in Names,
           Request(kind, n) \in Asked, NEW u, u = Enqueue(t, kind, n)
    PROVE  ReadsOther(s, u) /\ u.catalog = t.catalog
<1>1. t \in Sessions
  BY DEF ReadsOther
<1>2. kind \in ReadKinds /\ Request(kind, n).kind = kind
  BY DEF OtherReads, ReadKinds, Request
<1>3. /\ u \in Sessions /\ SamePlace(t, u) /\ SameSelection(t, u) /\ SameSystems(t, u)
      /\ Awaited(u) = Awaited(t) \cup {Request(kind, n)}
  BY <1>1, <1>2, EnqueueEffect
<1> QED BY <1>2, <1>3 DEF ReadsOther, SamePlace, SameSystems, AwaitsMore, SameSelection

\* What a result finds, in a session s that has taken it: no form waits, and
\* whatever has to be mended is mended next.
ReplyIsTaken(s) ==
    /\ s \in Sessions /\ s.active = NoRequest /\ s.mode.is # "form"
    /\ AwaitsNo(s, {"create", "import"})
    /\ Mismatched(s) => s.queued = << >>

\* An action that waits for the result is an action on an Application.
LEMMA PendingIsScoped ==
    ASSUME NEW s, ReplyIsTaken(s), ActionIsPending(s)
    PROVE  ~AwaitsNo(s, ScopedKinds) /\ s.queued # << >>
<1>1. PICK i \in DOMAIN s.queued : IsAction(s.queued[i])
  BY KindsDiffer DEF ActionIsPending, ReplyIsTaken
<1>2. s.queued[i] \in Awaited(s)
  <2>1. s.queued[i] # NoRequest
    BY <1>1, KindsDiffer
  <2> QED BY <2>1 DEF Awaited, NamesOf
<1>3. s.queued[i].kind \in ScopedKinds
  BY <1>1, <1>2 DEF ReplyIsTaken, AwaitsNo, IsAction, ActionKinds
<1>4. s.queued # << >>
  <2>1. << >> \in Seq(Asked) /\ DOMAIN << >> = {}
    OBVIOUS
  <2> QED BY <2>1
<1> QED BY <1>2, <1>3, <1>4 DEF AwaitsNo

\* The Applications are read after an action on one of them.
LEMMA ScopedResult ==
    ASSUME NEW s, ReplyIsTaken(s), SystemsAreFounded(s), ~Mismatched(s),
           NEW action \in Asked, action.kind \in ScopedKinds,
           NEW t, t = RefreshAfterAction(s, action)
    PROVE  Consistent(t)
<1>1. s \in Sessions /\ s.active = NoRequest
  BY DEF ReplyIsTaken
<1>2. MismatchIsMended(s)
  BY DEF MismatchIsMended
<1>3. CASE s.quitting \/ ActionIsPending(s)
  <2>1. t = s
    BY <1>3 DEF RefreshAfterAction
  <2>2. SelectionIsFounded(s)
    BY <1>3, PendingIsScoped DEF SelectionIsFounded
  <2> QED BY <1>1, <1>2, <2>1, <2>2 DEF Consistent, FormsRunNext
<1>4. CASE ~(s.quitting \/ ActionIsPending(s))
  <2> DEFINE u == [s EXCEPT !.catalog = Loading]
             catalog == Enqueue(u, "catalog", None)
             v == [catalog EXCEPT !.runtime = Loading]
             w == [catalog EXCEPT !.deployments = Loading, !.runtime = Loading]
             x == Enqueue(w, "deployments", action.name)
  <2>1. t \in {catalog, Enqueue(v, "status", action.name), Enqueue(x, "status", action.name)}
    BY <1>4 DEF RefreshAfterAction, ScopedKinds
  <2>2. action.name \in AllApplications /\ action.name \in Names /\ None \in Names
    BY DEF Asked, Names
  <2>3. /\ Request("catalog", None) \in Asked
        /\ Request("deployments", action.name) \in Asked
        /\ Request("status", action.name) \in Asked
    BY <2>2, ReadsAreAsked
  <2>4. {"catalog", "deployments", "status"} = OtherReads
    BY DEF OtherReads
  <2>5. ReadsOther(s, s)
    BY <1>1 DEF ReadsOther, SamePlace, SameSystems, AwaitsMore
  <2>6. /\ u \in Sessions /\ u.catalog = Loading /\ u.queued = s.queued
        /\ SamePlace(s, u) /\ SameSystems(s, u)
    BY <1>1, QueriesTyped DEF Sessions, SamePlace, SameSystems
  <2> HIDE DEF u
  <2>7. ReadsOther(s, u)
    BY <2>5, <2>6, ShownOther
  <2>8. catalog = Enqueue(u, "catalog", None)
    OBVIOUS
  <2> HIDE DEF catalog
  <2>9. ReadsOther(s, catalog) /\ catalog.catalog = Loading
    BY <2>2, <2>3, <2>4, <2>7, <2>6, <2>8, ReadOther
  <2>10. /\ v \in Sessions /\ v.catalog = Loading /\ v.queued = catalog.queued
        /\ SamePlace(catalog, v) /\ SameSystems(catalog, v)
    BY <2>9, QueriesTyped DEF Sessions, SamePlace, SameSystems, ReadsOther
  <2>11. /\ w \in Sessions /\ w.catalog = Loading /\ w.queued = catalog.queued
        /\ SamePlace(catalog, w) /\ SameSystems(catalog, w)
    BY <2>9, QueriesTyped DEF Sessions, SamePlace, SameSystems, ReadsOther
  <2> HIDE DEF v, w
  <2>12. /\ ReadsOther(s, v) /\ v.catalog = Loading
        /\ ReadsOther(s, w) /\ w.catalog = Loading
    BY <2>9, <2>10, <2>11, ShownOther
  <2>13. ReadsOther(s, x) /\ x.catalog = Loading
    BY <2>2, <2>3, <2>4, <2>12, ReadOther
  <2> HIDE DEF x
  <2>14. ReadsOther(s, t) /\ t.catalog = Loading
    <3>1. CASE t = catalog
      BY <2>9, <3>1
    <3>2. CASE t = Enqueue(v, "status", action.name)
      BY <2>2, <2>3, <2>4, <2>12, <3>2, ReadOther
    <3>3. CASE t = Enqueue(x, "status", action.name)
      BY <2>2, <2>3, <2>4, <2>13, <3>3, ReadOther
    <3> QED BY <2>1, <3>1, <3>2, <3>3
  <2>15. SystemsAreFounded(t) /\ MismatchIsMended(t)
    <3>1. AwaitsNo(s, {"create"}) /\ AwaitsNo(s, {"import"})
      BY DEF ReplyIsTaken, AwaitsNo
    <3> QED BY <1>2, <2>14, <3>1, SystemsUndisturbed DEF ReadsOther
  <2> QED BY <1>1, <2>14, <2>15, QueriesTyped
      DEF Consistent, FormsRunNext, SelectionIsFounded, ReadsOther, SamePlace
<1> QED BY <1>3, <1>4

\* The Systems are listed after one was created, before anything else.
LEMMA CreateResult ==
    ASSUME NEW s, ReplyIsTaken(s), s.queued = << >>, s.tab = "systems",
           s.mode.is \notin {"confirm", "deploy"}, DetailsExist(s), SelectionIsFounded(s),
           NEW action \in Asked, action.kind = "create",
           NEW t, t = RefreshAfterAction(s, action)
    PROVE  Consistent(t)
<1>1. s \in Sessions /\ s.active = NoRequest /\ s.mode.is # "form"
  BY DEF ReplyIsTaken
<1>2. Awaited(s) = {}
  BY <1>1 DEF Awaited, NamesOf
<1>3. CASE s.quitting
  <2>1. t = s
    BY <1>3 DEF RefreshAfterAction
  <2>2. FormsRunNext(s) /\ MismatchIsMended(s) /\ SystemsAreCurrent(s) /\ ReadsAreOfSelection(s)
    BY <1>1, <1>2, <1>3
       DEF FormsRunNext, MismatchIsMended, Mismatched, SystemsAreCurrent, ReadsAreOfSelection
  <2>3. TabsAreFounded(s)
    BY <1>1, <1>2 DEF TabsAreFounded, AwaitsNo
  <2> QED BY <2>1, <2>2, <2>3 DEF Consistent, SystemsAreFounded
<1>4. CASE ~s.quitting
  <2> DEFINE u == [s EXCEPT !.systems = Loading, !.selectedSystem = action.name]
  <2>1. u = [s EXCEPT !.systems = Loading, !.selectedSystem = action.name]
    OBVIOUS
  <2>2. t = Enqueue(u, "systems", None)
    <3>1. ~ActionIsPending(s)
      BY PendingIsScoped
    <3> QED BY <1>4, <3>1 DEF RefreshAfterAction
  <2> HIDE DEF u
  <2>3. action.name \in AllSystems /\ action.name # None
    BY NamesAssumption DEF Asked
  <2>4. u \in Sessions /\ u.active = NoRequest /\ u.queued = << >> /\ u.mode = s.mode
        /\ u.tab = s.tab /\ u.quitting = s.quitting
    BY <1>1, <2>1, <2>3, QueriesTyped DEF Sessions
  <2>5. /\ u.systems = Loading /\ u.selectedSystem = action.name
        /\ u.details = s.details /\ SameSelection(s, u)
    BY <1>1, <2>1 DEF Sessions, SameSelection
  <2>6. /\ SamePlace(u, t) /\ SameSelection(u, t) /\ SameSystems(u, t)
        /\ Awaited(t) = Awaited(u) \cup {Request("systems", None)}
        /\ t.queued = Append(u.queued, Request("systems", None))
    <3>1. None \in Names /\ Request("systems", None) \in Asked
      BY ReadsAreAsked DEF Names
    <3> QED BY <2>2, <2>4, <3>1, EnqueueEffect DEF ReadKinds
  <2>7. \A request \in Awaited(t) : request.kind = "systems"
    BY <2>4, <2>6 DEF Awaited, NamesOf, Request
  <2>8. Alone(t) /\ FormsRunNext(t) /\ t.active = NoRequest
    BY <2>4, <2>6 DEF Alone, FormsRunNext, SamePlace
  <2>9. SelectionIsFounded(t)
    <3>1. SameSelection(s, t) /\ t.quitting = s.quitting
      BY <2>4, <2>5, <2>6 DEF SameSelection, SamePlace
    <3> QED BY <1>2, <3>1, SelectionUndisturbed
  <2>10. /\ t.tab = s.tab /\ t.mode = s.mode /\ t.details = s.details
         /\ t.systems = Loading /\ t.selectedSystem = action.name
    BY <2>4, <2>5, <2>6 DEF SamePlace, SameSystems
  <2>11. DetailsExist(t) /\ SystemsAreCurrent(t)
    BY <2>3, <2>10, QueriesTyped DEF DetailsExist, SystemsAreCurrent
  <2>12. ReadsAreOfSelection(t)
    BY <2>7 DEF ReadsAreOfSelection
  <2>13. MismatchIsMended(t)
    BY <2>7, <2>8, <2>10, QueriesTyped DEF MismatchIsMended
  <2>14. TabsAreFounded(t)
    BY <1>1, <2>7, <2>10 DEF TabsAreFounded, AwaitsNo, ScopedKinds
  <2> QED BY <2>8, <2>9, <2>11, <2>12, <2>13, <2>14 DEF Consistent, SystemsAreFounded
<1> QED BY <1>3, <1>4

\* What is shown of the Systems is read again after an import into one of them.
LEMMA ImportResult ==
    ASSUME NEW s, ReplyIsTaken(s), SystemsAreFounded(s),
           NEW action \in Asked, action.kind = "import",
           s.tab = "systems" =>
               action.system = s.selectedSystem /\ s.selectedSystem # None,
           NEW t, t = RefreshAfterAction(s, action)
    PROVE  Consistent(t)
<1>1. s \in Sessions /\ s.active = NoRequest /\ s.mode.is # "form"
  BY DEF ReplyIsTaken
<1>2. CASE s.quitting \/ ActionIsPending(s)
  <2>1. t = s
    BY <1>2 DEF RefreshAfterAction
  <2>2. SelectionIsFounded(s)
    BY <1>2, PendingIsScoped DEF SelectionIsFounded
  <2>3. ~Mismatched(s)
    BY <1>2, PendingIsScoped DEF Mismatched, ReplyIsTaken
  <2> QED BY <1>1, <2>1, <2>2, <2>3 DEF Consistent, FormsRunNext, MismatchIsMended
<1>3. CASE ~(s.quitting \/ ActionIsPending(s))
  <2> DEFINE u == [s EXCEPT !.catalog = Loading]
             catalog == Enqueue(u, "catalog", None)
             v == [catalog EXCEPT !.systems = Loading]
             systems == Enqueue(v, "systems", None)
             w == [systems EXCEPT !.details = Loading]
             show == Enqueue(w, "show", action.system)
  <2>1. t = IF action.system = None THEN catalog
            ELSE IF s.details.is # "ready" THEN systems ELSE show
    <3>1. t = RefreshAfterImport(s, action.system)
      BY <1>3 DEF RefreshAfterAction
    <3> QED BY <3>1 DEF RefreshAfterImport
  <2>2. None \in Names /\ Request("catalog", None) \in Asked
        /\ Request("systems", None) \in Asked
        /\ "catalog" \in ReadKinds /\ "systems" \in ReadKinds /\ "show" \in ReadKinds
    BY ReadsAreAsked DEF Names, ReadKinds
  <2>3. action.system # None => action.system \in AllSystems /\ action.system \in Names
            /\ Request("show", action.system) \in Asked
    BY ReadsAreAsked DEF Asked, Requests, Names
  <2>4. /\ u \in Sessions /\ u.catalog = Loading /\ u.queued = s.queued
        /\ SamePlace(s, u) /\ SameSystems(s, u)
    BY <1>1, QueriesTyped DEF Sessions, SamePlace, SameSystems
  <2>5. catalog = Enqueue(u, "catalog", None)
    OBVIOUS
  <2> HIDE DEF u, catalog
  <2>6. /\ catalog \in Sessions /\ SamePlace(u, catalog) /\ SameSelection(u, catalog)
        /\ SameSystems(u, catalog)
        /\ Awaited(catalog) = Awaited(u) \cup {Request("catalog", None)}
    BY <2>2, <2>4, <2>5, EnqueueEffect
  <2>7. Awaited(u) = Awaited(s)
    BY <2>4 DEF Awaited, SamePlace
  <2>8. catalog.catalog = Loading /\ SamePlace(s, catalog) /\ SameSystems(s, catalog)
    BY <2>4, <2>6 DEF SamePlace, SameSystems, SameSelection
  <2>9. /\ AwaitsNo(s, {"create"}) /\ AwaitsNo(s, {"import"})
    BY DEF ReplyIsTaken, AwaitsNo
  <2>10. CASE action.system = None
    <3>1. t = catalog /\ s.tab # "systems"
      BY <2>1, <2>10
    <3>2. AwaitsMore(s, catalog, OtherReads)
      BY <2>6, <2>7 DEF AwaitsMore, OtherReads, Request
    <3>3. ~Mismatched(s)
      BY <3>1 DEF Mismatched
    <3>4. SystemsAreFounded(t) /\ MismatchIsMended(t)
      BY <2>8, <2>9, <3>1, <3>2, <3>3, SystemsUndisturbed DEF MismatchIsMended
    <3> QED BY <1>1, <2>8, <3>1, <3>4, QueriesTyped
        DEF Consistent, FormsRunNext, SelectionIsFounded, SamePlace
  <2>11. CASE action.system # None
    <3>1. /\ v \in Sessions /\ v.systems = Loading /\ v.queued = catalog.queued
          /\ v.details = catalog.details /\ v.selectedSystem = catalog.selectedSystem
          /\ SamePlace(catalog, v) /\ SameSelection(catalog, v)
      BY <2>6, QueriesTyped DEF Sessions, SamePlace, SameSelection
    <3>2. systems = Enqueue(v, "systems", None)
      OBVIOUS
    <3> HIDE DEF v, systems
    <3>3. /\ systems \in Sessions /\ SamePlace(v, systems) /\ SameSelection(v, systems)
          /\ SameSystems(v, systems)
          /\ Awaited(systems) = Awaited(v) \cup {Request("systems", None)}
      BY <2>2, <3>1, <3>2, EnqueueEffect
    <3>4. Awaited(v) = Awaited(catalog)
      BY <3>1 DEF Awaited, SamePlace
    <3>5. /\ systems.catalog = Loading /\ SamePlace(s, systems)
          /\ systems.systems = Loading /\ systems.details = s.details
          /\ systems.selectedSystem = s.selectedSystem
      BY <2>8, <3>1, <3>3 DEF SamePlace, SameSystems, SameSelection
    <3>6. \A request \in Awaited(systems) :
              request \in Awaited(s) \/ request.kind \in {"catalog", "systems"}
      BY <2>6, <2>7, <3>3, <3>4 DEF Request
    <3>7. /\ w \in Sessions /\ w.details = Loading /\ w.queued = systems.queued
          /\ w.systems = systems.systems /\ w.selectedSystem = systems.selectedSystem
          /\ SamePlace(systems, w) /\ SameSelection(systems, w)
      BY <3>3, QueriesTyped DEF Sessions, SamePlace, SameSelection
    <3>8. show = Enqueue(w, "show", action.system)
      OBVIOUS
    <3> HIDE DEF w, show
    <3>9. /\ SamePlace(w, show) /\ SameSelection(w, show) /\ SameSystems(w, show)
          /\ Awaited(show) = Awaited(w) \cup {Request("show", action.system)}
      BY <2>2, <2>3, <2>11, <3>7, <3>8, EnqueueEffect
    <3>10. Awaited(w) = Awaited(systems)
      BY <3>7 DEF Awaited, SamePlace
    <3>11. /\ show.catalog = Loading /\ SamePlace(s, show) /\ show.systems = Loading
           /\ show.details = Loading /\ show.selectedSystem = s.selectedSystem
      BY <3>5, <3>7, <3>9 DEF SamePlace, SameSystems, SameSelection
    <3>12. /\ t.catalog = Loading /\ SamePlace(s, t) /\ t.systems = Loading
           /\ t.selectedSystem = s.selectedSystem
           /\ t.details.is # "ready"
      BY <2>1, <2>11, <3>5, <3>11, QueriesTyped
    <3>13. \A request \in Awaited(t) :
               \/ request \in Awaited(s) \/ request.kind \in {"catalog", "systems"}
               \/ /\ request.kind = "show" /\ request.name = action.system
                  /\ s.details.is = "ready"
      BY <2>1, <2>11, <3>6, <3>9, <3>10 DEF Request
    <3>14. FormsRunNext(t) /\ SelectionIsFounded(t) /\ MismatchIsMended(t)
           /\ DetailsExist(t) /\ SystemsAreCurrent(t)
      BY <1>1, <3>12, QueriesTyped
         DEF FormsRunNext, SelectionIsFounded, MismatchIsMended, Mismatched, DetailsExist,
             SystemsAreCurrent, SamePlace
    <3>15. ReadsAreOfSelection(t)
      <4>1. s.details.is = "ready" => s.selectedSystem # None
        BY DEF SystemsAreFounded, DetailsExist
      <4>2. t.tab = s.tab /\ t.selectedSystem = s.selectedSystem
        BY <3>12 DEF SamePlace
      <4> QED BY <3>13, <4>1, <4>2 DEF SystemsAreFounded, ReadsAreOfSelection
    <3>16. TabsAreFounded(t)
      <4>1. t.tab = s.tab /\ t.mode = s.mode
        BY <3>12 DEF SamePlace
      <4>2. AwaitsNo(t, {"create", "import"})
        BY <3>13 DEF ReplyIsTaken, AwaitsNo
      <4>3. AwaitsNo(s, ScopedKinds) => AwaitsNo(t, ScopedKinds)
        BY <3>13 DEF AwaitsNo, ScopedKinds
      <4> QED BY <1>1, <4>1, <4>2, <4>3 DEF SystemsAreFounded, TabsAreFounded, AwaitsNo
    <3> QED BY <3>14, <3>15, <3>16 DEF Consistent, SystemsAreFounded
  <2> QED BY <2>10, <2>11
<1> QED BY <1>2, <1>3

\* The Systems that were read are listed, and one of them is selected.
LEMMA SystemsResult ==
    ASSUME NEW s, ReplyIsTaken(s), SystemsAreFounded(s), SelectionIsFounded(s),
           NEW entries \in Seq(AllSystems), NamesOf(entries) = grouped,
           NEW t, t = ApplySystems(s, entries)
    PROVE  Consistent(t)
<1>1. s \in Sessions /\ s.active = NoRequest /\ s.mode.is # "form"
  BY DEF ReplyIsTaken
<1> DEFINE name == PreservedSelection(entries, s.selectedSystem)
           u == [s EXCEPT !.selectedSystem = name, !.systems = Ready(entries)]
<1>2. name \in AllSystems \cup {None} /\ (s.selectedSystem \in grouped => name = s.selectedSystem)
      /\ (grouped # {} => name \in grouped)
  <2>1. NamesOf(entries) \subseteq AllSystems /\ name \in NamesOf(entries) \cup {None}
    BY SelectionTyped
  <2>2. s.selectedSystem \in NamesOf(entries) => name = s.selectedSystem
    BY DEF PreservedSelection
  <2>3. entries # << >> => Head(entries) \in NamesOf(entries)
    BY DEF NamesOf
  <2>4. entries = << >> => NamesOf(entries) = {}
    BY DEF NamesOf
  <2> QED BY <2>1, <2>2, <2>3, <2>4 DEF PreservedSelection
<1>3. t = EnsureSystemDetailsLoaded(u)
  BY DEF ApplySystems
<1>4. Ready(entries) \in QueryStates /\ Ready(entries).of = entries /\ Ready(entries).is = "ready"
  BY QueriesTyped DEF Entries
<1> HIDE DEF name
<1>5. /\ u \in Sessions /\ SamePlace(s, u) /\ SameSelection(s, u)
      /\ u.queued = s.queued /\ u.details = s.details
      /\ u.selectedSystem = name /\ u.systems = Ready(entries)
  BY <1>1, <1>2, <1>4 DEF Sessions, SamePlace, SameSelection
<1> HIDE DEF u
<1>6. Awaited(u) = Awaited(s)
  BY <1>5 DEF Awaited, SamePlace
<1>7. u.tab = s.tab /\ u.mode = s.mode /\ u.quitting = s.quitting /\ u.active = NoRequest
  BY <1>1, <1>5 DEF SamePlace
<1>8. None \notin grouped
  <2>1. NamesOf(entries) \subseteq AllSystems
    BY SelectionTyped
  <2> QED BY <2>1, NamesAssumption
<1>9. DetailsExist(u)
  BY <1>2, <1>5, <1>8 DEF SystemsAreFounded, DetailsExist
<1>10. SystemsAreCurrent(u)
  BY <1>4, <1>5 DEF SystemsAreCurrent
<1>11. ReadsAreOfSelection(u)
  <2>1. ASSUME NEW request \in Awaited(u), request.kind = "show", request.name \in grouped
        PROVE  name # None /\ (u.tab = "systems" => request.name = name)
    <3>1. s.tab = "systems" => request.name = s.selectedSystem
      BY <1>6, <2>1 DEF SystemsAreFounded, ReadsAreOfSelection
    <3> QED BY <1>2, <1>7, <1>8, <2>1, <3>1
  <2> QED BY <1>5, <2>1 DEF ReadsAreOfSelection
<1>12. TabsAreFounded(u)
  <2>1. AwaitsNo(u, {"create", "import"})
    BY <1>6 DEF ReplyIsTaken, AwaitsNo
  <2>2. AwaitsNo(u, ScopedKinds) = AwaitsNo(s, ScopedKinds)
    BY <1>6 DEF AwaitsNo
  <2> QED BY <1>1, <1>7, <2>1, <2>2 DEF SystemsAreFounded, TabsAreFounded, AwaitsNo
<1>13. MismatchIsMended(u) \/ ~IsBusy(u)
  <2>1. CASE Mismatched(s)
    BY <1>5, <1>7, <2>1 DEF ReplyIsTaken, IsBusy
  <2>2. CASE ~Mismatched(s)
    <3>1. ASSUME Mismatched(u) PROVE FALSE
      <4>1. s.details.is = "ready" /\ s.details.of = s.selectedSystem /\ name # s.selectedSystem
        BY <1>5, <1>7, <2>2, <3>1 DEF Mismatched
      <4>2. s.details.of \in grouped
        BY <4>1 DEF SystemsAreFounded, DetailsExist
      <4> QED BY <1>2, <4>1, <4>2
    <3> QED BY <3>1 DEF MismatchIsMended
  <2> QED BY <2>1, <2>2
<1>14. /\ SystemsAreFounded(t) /\ MismatchIsMended(t)
       /\ SamePlace(u, t) /\ SameSelection(u, t) /\ Awaited(u) \subseteq Awaited(t)
  BY <1>3, <1>5, <1>9, <1>10, <1>11, <1>12, <1>13, EnsureDetails DEF SystemsAreFounded
<1>15. FormsRunNext(t)
  BY <1>7, <1>14 DEF FormsRunNext, SamePlace
<1>16. SelectionIsFounded(t)
  <2>1. SameSelection(s, t) /\ t.quitting = s.quitting /\ Awaited(s) \subseteq Awaited(t)
    BY <1>5, <1>6, <1>7, <1>14 DEF SameSelection, SamePlace
  <2> QED BY <2>1, SelectionUndisturbed
<1> QED BY <1>14, <1>15, <1>16 DEF Consistent

\* The Applications that were read are listed, and one of them is selected.
LEMMA CatalogResult ==
    ASSUME NEW s, ReplyIsTaken(s), SystemsAreFounded(s), ~Mismatched(s),
           NEW entries \in Seq(AllApplications),
           NEW t, t = ApplyCatalog(s, entries)
    PROVE  Consistent(t)
<1>1. s \in Sessions /\ s.active = NoRequest
  BY DEF ReplyIsTaken
<1> DEFINE name == PreservedSelection(entries, s.selected)
           u == [s EXCEPT !.selected = name, !.catalog = Ready(entries)]
<1>2. name \in AllApplications \cup {None} /\ name \in NamesOf(entries) \cup {None}
  BY SelectionTyped
<1>3. t = EnsureObservationsLoaded(u)
  BY DEF ApplyCatalog
<1>4. Ready(entries) \in QueryStates /\ Ready(entries).of = entries /\ Ready(entries).is = "ready"
  BY QueriesTyped DEF Entries
<1> HIDE DEF name
<1>5. /\ u \in Sessions /\ u.queued = s.queued /\ SamePlace(s, u) /\ SameSystems(s, u)
      /\ u.selected = name /\ u.catalog = Ready(entries)
  BY <1>1, <1>2, <1>4 DEF Sessions, SamePlace, SameSystems
<1> HIDE DEF u
<1>6. /\ SamePlace(u, t) /\ SameSelection(u, t) /\ SameSystems(u, t)
      /\ AwaitsMore(u, t, OtherReads)
  BY <1>3, <1>5, ObservationsEffect
<1>7. Awaited(u) = Awaited(s)
  BY <1>5 DEF Awaited, SamePlace
<1>8. /\ SamePlace(s, t) /\ SameSystems(s, t) /\ AwaitsMore(s, t, OtherReads)
      /\ t.selected = name /\ t.catalog = Ready(entries)
  BY <1>5, <1>6, <1>7 DEF SamePlace, SameSystems, SameSelection, AwaitsMore
<1>9. AwaitsNo(s, {"create"}) /\ AwaitsNo(s, {"import"}) /\ MismatchIsMended(s)
  BY DEF ReplyIsTaken, AwaitsNo, MismatchIsMended
<1>10. SystemsAreFounded(t) /\ MismatchIsMended(t)
  BY <1>8, <1>9, SystemsUndisturbed
<1>11. FormsRunNext(t)
  BY <1>1, <1>8 DEF FormsRunNext, SamePlace
<1>12. SelectionIsFounded(t)
  BY <1>2, <1>4, <1>8 DEF SelectionIsFounded
<1> QED BY <1>10, <1>11, <1>12 DEF Consistent

\* What is shown of other things changes nothing of what a result finds.
LEMMA TakenUndisturbed ==
    ASSUME NEW s, ReplyIsTaken(s), NEW t \in Sessions, t.queued = s.queued,
           SamePlace(s, t), SameSystems(s, t)
    PROVE  /\ ReplyIsTaken(t) /\ Awaited(t) = Awaited(s) /\ Alone(t) = Alone(s)
           /\ SystemsAreFounded(s) => SystemsAreFounded(t)
           /\ MismatchIsMended(s) => MismatchIsMended(t)
           /\ Mismatched(t) = Mismatched(s)
           /\ FormsRunNext(t)
<1>1. /\ t.active = s.active /\ t.tab = s.tab /\ t.mode = s.mode /\ t.quitting = s.quitting
      /\ t.systems = s.systems /\ t.selectedSystem = s.selectedSystem
      /\ t.details = s.details
  BY DEF SamePlace, SameSystems
<1>2. Awaited(t) = Awaited(s) /\ Alone(t) = Alone(s)
  BY <1>1 DEF Awaited, Alone
<1>3. Mismatched(t) = Mismatched(s)
  BY <1>1 DEF Mismatched
<1>4. \A kinds : AwaitsNo(t, kinds) = AwaitsNo(s, kinds)
  BY <1>2 DEF AwaitsNo
<1>5. ReplyIsTaken(t) /\ FormsRunNext(t)
  BY <1>1, <1>3, <1>4 DEF ReplyIsTaken, FormsRunNext
<1>6. ASSUME SystemsAreFounded(s) PROVE SystemsAreFounded(t)
  BY <1>1, <1>2, <1>4, <1>6
     DEF SystemsAreFounded, DetailsExist, SystemsAreCurrent, ReadsAreOfSelection,
         TabsAreFounded
<1>7. MismatchIsMended(s) => MismatchIsMended(t)
  BY <1>1, <1>2, <1>3 DEF MismatchIsMended
<1> QED BY <1>2, <1>3, <1>5, <1>6, <1>7

\* Details that were read are those of the selected System; a listing that could
\* not be read is not listed.
LEMMA ShownResult ==
    ASSUME NEW s, ReplyIsTaken(s), SystemsAreFounded(s), SelectionIsFounded(s),
           NEW t \in Sessions, t.queued = s.queued, SamePlace(s, t), SameSelection(s, t),
           t.selectedSystem = s.selectedSystem,
           \/ t.details = s.details /\ t.systems.is # "ready"
           \/ /\ t.systems = s.systems /\ ~Mismatched(t)
              /\ t.details.is = "ready" => t.details.of \in grouped /\ s.selectedSystem # None
    PROVE  Consistent(t)
<1>1. /\ t.active = s.active /\ t.tab = s.tab /\ t.mode = s.mode /\ t.quitting = s.quitting
      /\ s.active = NoRequest
  BY DEF SamePlace, ReplyIsTaken
<1>2. Awaited(t) = Awaited(s) /\ Alone(t) = Alone(s)
  BY <1>1 DEF Awaited, Alone
<1>3. \A kinds : AwaitsNo(t, kinds) = AwaitsNo(s, kinds)
  BY <1>2 DEF AwaitsNo
<1>4. DetailsExist(t)
  BY DEF SystemsAreFounded, DetailsExist
<1>5. SystemsAreCurrent(t)
  BY <1>1, <1>3 DEF SystemsAreFounded, SystemsAreCurrent
<1>6. ReadsAreOfSelection(t) /\ TabsAreFounded(t)
  BY <1>1, <1>2, <1>3 DEF SystemsAreFounded, ReadsAreOfSelection, TabsAreFounded
<1>7. MismatchIsMended(t)
  <2>1. CASE t.details = s.details /\ t.systems.is # "ready"
    <3>1. Mismatched(t) => t.queued = << >>
      BY <1>1, <2>1 DEF ReplyIsTaken, Mismatched
    <3>2. t.queued = << >> => Alone(t) /\ Awaited(t) = {}
      BY <1>1 DEF Alone, Awaited, NamesOf
    <3> QED BY <2>1, <3>1, <3>2 DEF MismatchIsMended
  <2>2. CASE ~Mismatched(t)
    BY <2>2 DEF MismatchIsMended
  <2> QED BY <2>1, <2>2
<1>8. FormsRunNext(t)
  BY <1>1 DEF FormsRunNext
<1>9. SelectionIsFounded(t)
  BY <1>1, <1>2, SelectionUndisturbed
<1> QED BY <1>4, <1>5, <1>6, <1>7, <1>8, <1>9 DEF Consistent, SystemsAreFounded

\* What was read, or could not be read, is shown.
LEMMA ReadResult ==
    ASSUME NEW s, ReplyIsTaken(s), SystemsAreFounded(s), SelectionIsFounded(s),
           NEW request \in Asked, request.kind \in ReadKinds,
           Mismatched(s) => request.kind = "systems",
           NEW ok \in BOOLEAN, NEW entries,
           ok /\ request.kind = "catalog" => entries \in Seq(AllApplications),
           ok /\ request.kind = "systems" =>
               entries \in Seq(AllSystems) /\ NamesOf(entries) = grouped,
           ok /\ request.kind = "show" =>
               /\ request.name \in grouped /\ s.selectedSystem # None
               /\ s.tab = "systems" => request.name = s.selectedSystem,
           NEW t,
           t = IF ok THEN ApplySuccess(s, request, entries) ELSE ApplyError(s, request)
    PROVE  Consistent(t)
<1>1. s \in Sessions
  BY DEF ReplyIsTaken
<1>2. PICK shown \in QueryStates :
          /\ shown = IF ok THEN Ready(request.name) ELSE Query("failed", request.name)
          /\ ok => shown.is = "ready" /\ shown.of = request.name
          /\ ~ok => shown.is = "failed"
  BY QueriesTyped DEF Asked, Requests
<1>3. CASE ok /\ request.kind = "systems"
  BY <1>3, SystemsResult DEF ApplySuccess
<1>4. CASE ok /\ request.kind = "catalog"
  BY <1>4, CatalogResult DEF ApplySuccess
<1>5. ASSUME t = [s EXCEPT !.deployments = shown] \/ t = [s EXCEPT !.runtime = shown],
             request.kind \in {"deployments", "status"}
      PROVE  Consistent(t)
  <2>1. t \in Sessions /\ t.queued = s.queued
    BY <1>1, <1>5 DEF Sessions
  <2>2. SamePlace(s, t) /\ SameSelection(s, t) /\ SameSystems(s, t)
    BY <1>1, <1>5 DEF Sessions, SamePlace, SameSelection, SameSystems
  <2>3. ~Mismatched(t)
    BY <1>5, <2>1, <2>2, TakenUndisturbed
  <2> QED BY <2>1, <2>2, <2>3, ShownResult
      DEF SameSystems, SystemsAreFounded, DetailsExist
<1>6. ASSUME t = [s EXCEPT !.details = shown], request.kind = "show"
      PROVE  Consistent(t)
  <2>1. t \in Sessions /\ t.queued = s.queued
    BY <1>1, <1>6 DEF Sessions
  <2>2. SamePlace(s, t) /\ SameSelection(s, t)
    BY <1>1, <1>6 DEF Sessions, SamePlace, SameSelection
  <2>3. t.selectedSystem = s.selectedSystem /\ t.systems = s.systems /\ t.details = shown
    BY <1>1, <1>6 DEF Sessions
  <2>4. ~Mismatched(t)
    BY <1>2, <1>6, <2>2, <2>3 DEF Mismatched, SamePlace
  <2>5. t.details.is = "ready" => t.details.of \in grouped /\ s.selectedSystem # None
    BY <1>2, <1>6, <2>3
  <2> QED BY <2>1, <2>2, <2>3, <2>4, <2>5, ShownResult
<1>7. ASSUME t = [s EXCEPT !.systems = shown], ~ok
      PROVE  Consistent(t)
  <2>1. t \in Sessions /\ t.queued = s.queued
    BY <1>1, <1>7 DEF Sessions
  <2>2. SamePlace(s, t) /\ SameSelection(s, t)
    BY <1>1, <1>7 DEF Sessions, SamePlace, SameSelection
  <2>3. t.selectedSystem = s.selectedSystem /\ t.systems = shown /\ t.details = s.details
    BY <1>1, <1>7 DEF Sessions
  <2> QED BY <1>2, <1>7, <2>1, <2>2, <2>3, ShownResult
<1>8. ASSUME t = [s EXCEPT !.catalog = shown, !.selected = None], ~ok,
             request.kind = "catalog"
      PROVE  Consistent(t)
  <2>1. t \in Sessions /\ t.queued = s.queued /\ t.catalog = shown
    BY ZenonT(60), <1>1, <1>8 DEF Sessions
  <2>2. SamePlace(s, t) /\ SameSystems(s, t)
    BY <1>1, <1>8 DEF Sessions, SamePlace, SameSystems
  <2>3. FormsRunNext(t) /\ SystemsAreFounded(t) /\ ~Mismatched(t)
    BY <1>8, <2>1, <2>2, TakenUndisturbed
  <2> QED BY <1>2, <1>8, <2>1, <2>3 DEF Consistent, SelectionIsFounded, MismatchIsMended
<1>9. CASE request.kind \in {"deployments", "status", "show"}
  <2>1. \/ /\ t = [s EXCEPT !.deployments = shown] \/ t = [s EXCEPT !.runtime = shown]
           /\ request.kind \in {"deployments", "status"}
        \/ t = [s EXCEPT !.details = shown] /\ request.kind = "show"
    BY <1>2, <1>9 DEF ApplySuccess, ApplyError
  <2> QED BY <1>5, <1>6, <2>1
<1>10. CASE ~ok /\ request.kind = "systems"
  <2>1. t = [s EXCEPT !.systems = shown]
    BY <1>2, <1>10 DEF ApplyError
  <2> QED BY <1>7, <1>10, <2>1
<1>11. CASE ~ok /\ request.kind = "catalog"
  <2>1. t = [s EXCEPT !.catalog = shown, !.selected = None]
    BY <1>2, <1>11 DEF ApplyError
  <2> QED BY <1>8, <1>11, <2>1
<1> QED BY <1>3, <1>4, <1>9, <1>10, <1>11 DEF ReadKinds

\* Every result leads to a consistent session.
LEMMA ResultConsistent ==
    ASSUME NEW s, Founded(s), Consistent(s), s.active # NoRequest, NEW ok \in BOOLEAN,
           NEW taken, taken = FinishLog([s EXCEPT !.active = NoRequest], s.active, ok),
           NEW entries,
           ok /\ s.active.kind = "catalog" => entries \in Seq(AllApplications),
           ok /\ s.active.kind = "systems" =>
               entries \in Seq(AllSystems) /\ NamesOf(entries) = grouped,
           ok /\ s.active.kind = "show" => s.active.name \in grouped,
           NEW t,
           t = IF ok THEN ApplySuccess(taken, s.active, entries)
               ELSE ApplyError(taken, s.active)
    PROVE  Consistent(t)
<1> DEFINE request == s.active
           ready == Ready(request.name)
<1>1. request \in Asked /\ SystemsAreFounded(s) /\ MismatchIsMended(s) /\ request \in Awaited(s)
  BY DEF Founded, Sessions, Consistent, Awaited
<1>2. /\ taken.active = NoRequest /\ taken.queued = s.queued
      /\ taken.tab = s.tab /\ taken.mode = s.mode /\ taken.quitting = s.quitting
      /\ SameSelection(s, taken) /\ SameSystems(s, taken)
      /\ AwaitsNo(taken, {"create", "import"})
      /\ request.kind \notin ScopedKinds => SelectionIsFounded(taken)
      /\ request.kind # "create" => SystemsAreFounded(taken)
      /\ Mismatched(taken) => taken.queued = << >>
  BY TakenEffect
<1>3. taken \in Sessions /\ ReplyIsTaken(taken)
  <2>1. Founded(taken) /\ taken.mode.is # "form"
    BY TakenFounded
  <2> QED BY <1>2, <2>1 DEF Founded, ReplyIsTaken
<1>4. Mismatched(taken) => request.kind \in {"systems", "create", "import"}
  BY <1>1, <1>2 DEF MismatchIsMended, Mismatched, SameSystems
<1>5. ready \in QueryStates
  BY <1>1, QueriesTyped DEF Asked, Requests
<1> HIDE DEF ready
<1>6. CASE request.kind \in ScopedKinds
  <2>1. /\ SystemsAreFounded(taken) /\ ~Mismatched(taken)
    BY <1>2, <1>4, <1>6 DEF ScopedKinds
  <2>2. CASE t = RefreshAfterAction(taken, request)
    BY <1>1, <1>3, <1>6, <2>1, <2>2, ScopedResult
  <2>3. CASE ok /\ request.kind = "control"
    <3> DEFINE u == [taken EXCEPT !.runtime = ready]
    <3>1. t = RefreshAfterAction(u, request)
      BY <2>3 DEF ApplySuccess, ready
    <3>2. u \in Sessions /\ u.queued = taken.queued /\ SamePlace(taken, u) /\ SameSystems(taken, u)
      BY <1>3, <1>5 DEF Sessions, SamePlace, SameSystems
    <3> HIDE DEF u
    <3>3. ReplyIsTaken(u) /\ SystemsAreFounded(u) /\ ~Mismatched(u)
      BY <1>3, <2>1, <3>2, TakenUndisturbed
    <3> QED BY <1>1, <1>6, <3>1, <3>3, ScopedResult
  <2> QED BY <1>6, <2>2, <2>3 DEF ApplySuccess, ApplyError, ScopedKinds
<1>7. CASE request.kind = "create"
  <2>1. t = RefreshAfterAction(taken, request)
    BY <1>7 DEF ApplySuccess, ApplyError
  <2>2. s.tab = "systems" /\ s.queued = << >> /\ s.mode.is \notin {"confirm", "deploy"}
    BY <1>1, <1>7 DEF SystemsAreFounded, TabsAreFounded, AwaitsNo, Alone
  <2>3. DetailsExist(taken)
    BY <1>1, <1>2 DEF SystemsAreFounded, DetailsExist, SameSystems
  <2>4. SelectionIsFounded(taken)
    BY <1>2, <1>7 DEF ScopedKinds
  <2> QED BY <1>1, <1>2, <1>3, <1>7, <2>1, <2>2, <2>3, <2>4, CreateResult
<1>8. CASE request.kind = "import"
  <2>1. s.tab = "systems" =>
            request.system = s.selectedSystem /\ s.selectedSystem # None
    BY <1>1, <1>8 DEF SystemsAreFounded, TabsAreFounded
  <2>2. CASE t = RefreshAfterAction(taken, request)
    <3>1. taken.selectedSystem = s.selectedSystem
      BY <1>2 DEF SameSystems
    <3> QED BY <1>1, <1>2, <1>3, <1>8, <2>1, <2>2, <3>1, ImportResult
  <2>3. CASE ok
    <3> DEFINE u == [taken EXCEPT !.selected = request.name]
    <3>1. t = RefreshAfterAction(u, request)
      BY <1>8, <2>3 DEF ApplySuccess
    <3>2. request.name \in AllApplications
      BY <1>1, <1>8 DEF Asked
    <3>3. u \in Sessions /\ u.queued = taken.queued /\ SamePlace(taken, u) /\ SameSystems(taken, u)
      BY <1>3, <3>2 DEF Sessions, SamePlace, SameSystems
    <3> HIDE DEF u
    <3>4. ReplyIsTaken(u) /\ SystemsAreFounded(u)
      BY <1>2, <1>3, <1>8, <3>3, TakenUndisturbed
    <3>5. u.tab = s.tab /\ u.selectedSystem = s.selectedSystem
      BY <1>2, <3>3 DEF SamePlace, SameSystems
    <3> QED BY <1>1, <1>8, <2>1, <3>1, <3>4, <3>5, ImportResult
  <2> QED BY <1>8, <2>2, <2>3 DEF ApplyError
<1>9. CASE request.kind \in ReadKinds
  <2>1. /\ SystemsAreFounded(taken) /\ SelectionIsFounded(taken)
    BY <1>2, <1>9 DEF ReadKinds, ScopedKinds
  <2>2. Mismatched(taken) => request.kind = "systems"
    BY <1>4, <1>9 DEF ReadKinds
  <2>3. ok /\ request.kind = "show" =>
            /\ taken.selectedSystem # None
            /\ taken.tab = "systems" => request.name = taken.selectedSystem
    BY <1>1, <1>2 DEF SystemsAreFounded, ReadsAreOfSelection, SameSystems
  <2> QED BY <1>1, <1>3, <1>9, <2>1, <2>2, <2>3, ReadResult
<1> QED BY <1>1, <1>6, <1>7, <1>8, <1>9 DEF Asked, Requests, ActionKinds

\* Reads of Applications away from the Systems, or of what else is shown there
\* while nothing goes on
LEMMA OtherReadsConsistent ==
    ASSUME NEW s, ~IsBusy(s), SystemsAreFounded(s), ~Mismatched(s),
           NEW t, SamePlace(s, t), SameSystems(s, t), AwaitsMore(s, t, OtherReads)
    PROVE  SystemsAreFounded(t) /\ MismatchIsMended(t) /\ FormsRunNext(t)
<1>1. s.active = NoRequest /\ s.queued = << >>
  BY DEF IsBusy
<1>2. Awaited(s) = {}
  BY <1>1 DEF Awaited, NamesOf
<1>3. AwaitsNo(s, {"create"}) /\ AwaitsNo(s, {"import"}) /\ MismatchIsMended(s)
  BY <1>2 DEF AwaitsNo, MismatchIsMended
<1> QED BY <1>1, <1>3, SystemsUndisturbed DEF FormsRunNext, SamePlace

\* Who comes to the Systems sees the details of the one that is selected.
LEMMA TabConsistent ==
    ASSUME NEW s \in Sessions, Consistent(s), ~IsBusy(s), s.mode.is = "normal",
           NEW there \in Sessions, SameSelection(s, there), SameSystems(s, there),
           there.active = s.active, there.queued = s.queued,
           there.quitting = s.quitting, there.mode = s.mode,
           NEW t,
           t = CASE there.tab = "systems" -> EnsureSystemDetailsLoaded(there)
                 [] there.tab = "deployments" -> EnsureObservationsLoaded(there)
                 [] OTHER -> there
    PROVE  Consistent(t)
<1>1. ~IsBusy(there) /\ there.active = NoRequest
  BY DEF IsBusy
<1>2. Awaited(there) = {} /\ Awaited(s) = {}
  BY DEF Awaited, NamesOf, IsBusy
<1>3. /\ SystemsAreFounded(there) /\ SelectionIsFounded(there)
  <2>1. DetailsExist(there) /\ SystemsAreCurrent(there) /\ ReadsAreOfSelection(there)
    BY <1>2
       DEF Consistent, SystemsAreFounded, DetailsExist, SystemsAreCurrent,
           ReadsAreOfSelection, SameSystems, AwaitsNo
  <2>2. TabsAreFounded(there)
    BY <1>2 DEF TabsAreFounded, AwaitsNo
  <2>3. SelectionIsFounded(there)
    BY <1>2, SelectionUndisturbed DEF Consistent
  <2> QED BY <2>1, <2>2, <2>3 DEF SystemsAreFounded
<1>4. CASE there.tab = "systems"
  <2>1. t = EnsureSystemDetailsLoaded(there)
    BY <1>4
  <2>2. /\ SystemsAreFounded(t) /\ MismatchIsMended(t)
        /\ SamePlace(there, t) /\ SameSelection(there, t) /\ Awaited(there) \subseteq Awaited(t)
    BY <1>1, <1>3, <2>1, EnsureDetails
  <2>3. FormsRunNext(t) /\ SelectionIsFounded(t)
    BY <1>1, <1>3, <2>2, SelectionUndisturbed DEF FormsRunNext, SamePlace
  <2> QED BY <2>2, <2>3 DEF Consistent
<1>5. CASE there.tab # "systems"
  <2>1. t = EnsureObservationsLoaded(there) \/ t = there
    BY <1>5
  <2>2. /\ SamePlace(there, t) /\ SameSelection(there, t) /\ SameSystems(there, t)
        /\ AwaitsMore(there, t, OtherReads)
    BY <2>1, ObservationsEffect DEF SamePlace, SameSelection, SameSystems, AwaitsMore
  <2>3. SystemsAreFounded(t) /\ MismatchIsMended(t) /\ FormsRunNext(t)
    BY <1>1, <1>3, <1>5, <2>2, OtherReadsConsistent DEF Mismatched
  <2>4. SelectionIsFounded(t)
    BY <1>3, <2>2, SelectionUndisturbed DEF SamePlace, AwaitsMore
  <2> QED BY <2>3, <2>4 DEF Consistent
<1> QED BY <1>4, <1>5

\* The details of the System that is selected next are loaded.
LEMMA SelectSystemConsistent ==
    ASSUME NEW s \in Sessions, Consistent(s), ~IsBusy(s), ~s.quitting, s.mode.is = "normal",
           s.systems.is = "ready", s.systems.of \in Seq(AllSystems),
           NEW movement \in {"up", "down"},
           NEW there \in Sessions, SamePlace(s, there), SameSelection(s, there),
           there.queued = s.queued, there.systems = s.systems, there.details = s.details,
           there.selectedSystem = NextSelection(s.systems.of, s.selectedSystem, movement),
           NEW t, t = EnsureSystemDetailsLoaded(there)
    PROVE  Consistent(t)
<1>1. s.active = NoRequest /\ s.queued = << >> /\ Awaited(s) = {}
  BY DEF IsBusy, Awaited, NamesOf
<1>2. ~IsBusy(there) /\ Awaited(there) = {} /\ there.active = NoRequest
      /\ there.mode = s.mode /\ there.tab = s.tab /\ there.quitting = s.quitting
  BY <1>1 DEF IsBusy, Awaited, SamePlace
<1>3. NamesOf(s.systems.of) = grouped /\ None \notin grouped
  <2>1. AwaitsNo(s, {"create"})
    BY <1>1 DEF AwaitsNo
  <2>2. NamesOf(s.systems.of) = grouped
    BY <2>1 DEF Consistent, SystemsAreFounded, SystemsAreCurrent
  <2>3. NamesOf(s.systems.of) \subseteq AllSystems
    BY SelectionTyped
  <2> QED BY <2>2, <2>3, NamesAssumption
<1>4. grouped # {} => there.selectedSystem \in grouped
  <2> DEFINE entries == s.systems.of
             index == CHOOSE i \in DOMAIN entries : entries[i] = s.selectedSystem
             next == IF movement = "down" THEN index + 1 ELSE index - 1
  <2>1. CASE entries = << >>
    BY <1>3, <2>1 DEF NamesOf
  <2>2. CASE entries # << >> /\ s.selectedSystem \in NamesOf(entries)
    <3>1. there.selectedSystem =
              IF next \in DOMAIN entries THEN entries[next] ELSE s.selectedSystem
      BY <2>2 DEF NextSelection
    <3> HIDE DEF next
    <3> QED BY <1>3, <2>2, <3>1 DEF NamesOf
  <2>3. CASE entries # << >> /\ s.selectedSystem \notin NamesOf(entries)
    <3>1. there.selectedSystem \in {entries[1], entries[Len(entries)]}
      BY <2>3 DEF NextSelection
    <3>2. entries[1] \in NamesOf(entries) /\ entries[Len(entries)] \in NamesOf(entries)
      BY <2>3 DEF NamesOf
    <3> QED BY <1>3, <3>1, <3>2
  <2> QED BY <2>1, <2>2, <2>3
<1>5. SystemsAreFounded(there)
  <2>1. DetailsExist(there)
    BY <1>3, <1>4 DEF Consistent, SystemsAreFounded, DetailsExist
  <2>2. SystemsAreCurrent(there) /\ ReadsAreOfSelection(there) /\ TabsAreFounded(there)
    BY <1>2, <1>3
       DEF SystemsAreCurrent, ReadsAreOfSelection, TabsAreFounded, AwaitsNo
  <2> QED BY <2>1, <2>2 DEF SystemsAreFounded
<1>6. /\ SystemsAreFounded(t) /\ MismatchIsMended(t)
      /\ SamePlace(there, t) /\ SameSelection(there, t) /\ Awaited(there) \subseteq Awaited(t)
  BY <1>2, <1>5, EnsureDetails
<1>7. SelectionIsFounded(t) /\ FormsRunNext(t)
  <2>1. SameSelection(s, t) /\ t.quitting = s.quitting /\ t.active = NoRequest
    BY <1>2, <1>6 DEF SameSelection, SamePlace
  <2> QED BY <1>1, <2>1, SelectionUndisturbed DEF Consistent, FormsRunNext
<1> QED BY <1>6, <1>7 DEF Consistent

\* So are the deployments of the Application that is selected next.
LEMMA SelectApplicationConsistent ==
    ASSUME NEW s \in Sessions, Consistent(s), ~IsBusy(s), s.tab # "systems",
           NEW there \in Sessions, SamePlace(s, there), SameSystems(s, there),
           there.queued = s.queued,
           there.selected \in NamesOf(there.catalog.of) \cup {None},
           NEW t, t = EnsureObservationsLoaded(there)
    PROVE  Consistent(t)
<1>1. ~IsBusy(there) /\ ~Mismatched(there)
  BY DEF IsBusy, Mismatched, SamePlace
<1>2. Awaited(there) = Awaited(s)
  BY DEF Awaited, SamePlace
<1>3. AwaitsMore(s, there, OtherReads)
  BY <1>2 DEF AwaitsMore
<1>4. SystemsAreFounded(there)
  BY <1>3, SystemsUndisturbed DEF Consistent
<1>5. /\ SamePlace(there, t) /\ SameSelection(there, t) /\ SameSystems(there, t)
      /\ AwaitsMore(there, t, OtherReads)
  BY ObservationsEffect
<1>6. SystemsAreFounded(t) /\ MismatchIsMended(t) /\ FormsRunNext(t)
  BY <1>1, <1>4, <1>5, OtherReadsConsistent
<1>7. SelectionIsFounded(t)
  BY <1>5 DEF SelectionIsFounded, SameSelection
<1> QED BY <1>6, <1>7 DEF Consistent

\* What is refreshed is loading.
LEMMA RefreshConsistent ==
    ASSUME NEW s \in Sessions, Consistent(s), ~IsBusy(s), s.mode.is = "normal",
           NEW t,
           t = IF s.tab = "systems" THEN RefreshSystemDetails(RefreshListing(s, "systems"))
               ELSE RefreshDetails(RefreshListing(s, "catalog"))
    PROVE  Consistent(t)
<1>1. s.active = NoRequest /\ Awaited(s) = {}
  BY DEF IsBusy, Awaited, NamesOf
<1>2. SystemsAreFounded(s) /\ SelectionIsFounded(s)
  BY DEF Consistent
<1>3. CASE s.tab # "systems"
  <2> DEFINE u == RefreshListing(s, "catalog")
  <2>1. t = RefreshDetails(u)
    BY <1>3
  <2>2. /\ u \in Sessions /\ SamePlace(s, u) /\ SameSystems(s, u)
        /\ u.catalog = Loading /\ AwaitsMore(s, u, OtherReads)
    BY RefreshListingEffect
  <2> HIDE DEF u
  <2>3. /\ SamePlace(u, t) /\ SameSelection(u, t) /\ SameSystems(u, t)
        /\ AwaitsMore(u, t, OtherReads)
    BY <2>1, <2>2, ObservationsEffect
  <2>4. SamePlace(s, t) /\ SameSystems(s, t) /\ t.catalog = Loading
    BY <2>2, <2>3 DEF SamePlace, SameSystems, SameSelection
  <2>5. AwaitsMore(s, t, OtherReads)
    BY <2>2, <2>3 DEF AwaitsMore
  <2>6. SystemsAreFounded(t) /\ MismatchIsMended(t) /\ FormsRunNext(t)
    BY <1>2, <1>3, <2>4, <2>5, OtherReadsConsistent DEF Mismatched
  <2> QED BY <2>4, <2>6, QueriesTyped DEF Consistent, SelectionIsFounded
<1>4. CASE s.tab = "systems"
  <2> DEFINE u == RefreshListing(s, "systems")
  <2>1. /\ SamePlace(s, u) /\ SameSelection(s, u) /\ u.systems = Loading
        /\ u.details = s.details /\ u.selectedSystem = s.selectedSystem
        /\ Awaited(u) = {Request("systems", None)} /\ Len(u.queued) = 1
    BY RefreshListingEffect
  <2>2. t = RefreshSystemDetails(u)
    BY <1>4
  <2> HIDE DEF u
  <2>3. u.queued # << >>
    <3>1. u.queued = << >> => Awaited(u) = {}
      BY <1>1, <2>1 DEF Awaited, NamesOf, SamePlace
    <3> QED BY <2>1, <3>1
  <2>4. t = u
    BY <2>2, <2>3 DEF RefreshSystemDetails, IsBusy
  <2>5. u.active = NoRequest /\ u.tab = s.tab /\ u.mode = s.mode /\ u.quitting = s.quitting
    BY <1>1, <2>1 DEF SamePlace
  <2>6. \A request \in Awaited(u) : request.kind = "systems"
    BY <2>1 DEF Request
  <2>7. FormsRunNext(u) /\ SelectionIsFounded(u)
    BY <1>1, <1>2, <2>1, <2>5, SelectionUndisturbed DEF FormsRunNext
  <2>8. DetailsExist(u) /\ SystemsAreCurrent(u)
    BY <1>2, <2>1, QueriesTyped DEF SystemsAreFounded, DetailsExist, SystemsAreCurrent
  <2>9. ReadsAreOfSelection(u)
    BY <2>6 DEF ReadsAreOfSelection
  <2>10. MismatchIsMended(u)
    BY <2>1, <2>5, <2>6, QueriesTyped DEF MismatchIsMended, Alone
  <2>11. TabsAreFounded(u)
    BY <1>2, <2>5, <2>6 DEF TabsAreFounded, AwaitsNo, ScopedKinds
  <2> QED BY <2>4, <2>7, <2>8, <2>9, <2>10, <2>11 DEF Consistent, SystemsAreFounded
<1> QED BY <1>3, <1>4

\* A session that is consistent stays so as long as the Systems are the same.
LEMMA ConsistentPrime ==
    ASSUME NEW s, Consistent(s), session' = s, grouped' = grouped
    PROVE  Consistent(session)'
<1>1. Awaited(session)' = Awaited(s) /\ Alone(session)' = Alone(s)
  BY DEF Awaited, Alone
<1>2. FormsRunNext(session)' /\ SelectionIsFounded(session)'
  BY <1>1 DEF Consistent, FormsRunNext, SelectionIsFounded, AwaitsNo
<1>3. DetailsExist(session)' /\ SystemsAreCurrent(session)' /\ ReadsAreOfSelection(session)'
  BY <1>1
     DEF Consistent, SystemsAreFounded, DetailsExist, SystemsAreCurrent,
         ReadsAreOfSelection, AwaitsNo
<1>4. MismatchIsMended(session)'
  BY <1>1 DEF Consistent, MismatchIsMended, Mismatched
<1>5. TabsAreFounded(session)'
  BY <1>1 DEF Consistent, SystemsAreFounded, TabsAreFounded, AwaitsNo
<1> QED BY <1>2, <1>3, <1>4, <1>5 DEF Consistent, SystemsAreFounded

-------------------------------------------------------------------------------
(* Replies *)

\* Replies are taken in the order in which they were sent.
LEMMA NextReplies ==
    ASSUME OneCommandAtATime, replies # << >>
    PROVE  /\ session.active # NoRequest /\ requests = << >>
           /\ NextReply = Event(session.id) \/ NextReply \in Answers(session.id)
           /\ NextReply \in Answers(session.id) =>
                  /\ executing = NotExecuting /\ Tail(replies) = << >>
                  /\ EntriesAreCurrent(session.active, NextReply.result, NextReply.entries)
           /\ NextReply = Event(session.id) =>
                  \/ CommandIsExecuted /\ Tail(replies) \in Seq({Event(session.id)})
                  \/ CommandIsAnswered /\ Len(replies) > 1
<1>1. ASSUME NEW reply \in Answers(session.id)
      PROVE  reply.is = "finished" /\ reply # Event(session.id)
  BY DEF Answers, Event
<1>2. CASE CommandIsExecuted
  <2>1. replies \in Seq({Event(session.id)}) /\ Head(replies) \in {Event(session.id)}
        /\ Tail(replies) \in Seq({Event(session.id)})
    BY <1>2 DEF CommandIsExecuted
  <2> QED BY <1>1, <1>2, <2>1 DEF CommandIsExecuted, NextReply
<1>3. CASE CommandIsAnswered
  <2>1. /\ replies \in Seq({Event(session.id)} \cup Answers(session.id)) /\ Len(replies) \in Nat
        /\ Len(replies) > 0 /\ NextReply = replies[1]
    BY <1>3 DEF CommandIsAnswered, NextReply
  <2>2. CASE Len(replies) = 1
    <3>1. Tail(replies) = << >>
      <4>1. replies # << >>
        BY <2>1
      <4>2. Tail(replies) \in Seq({Event(session.id)} \cup Answers(session.id))
            /\ Len(Tail(replies)) = Len(replies) - 1
        BY <2>1, <4>1, HeadTailProperties
      <4>3. Len(Tail(replies)) = 0
        BY <2>2, <4>2
      <4> QED BY <4>2, <4>3, EmptySeq
    <3> QED BY <1>1, <1>3, <2>1, <2>2, <3>1 DEF CommandIsAnswered
  <2>3. CASE Len(replies) > 1
    <3>1. NextReply = Event(session.id)
      BY <1>3, <2>1, <2>3 DEF CommandIsAnswered
    <3> QED BY <1>1, <1>3, <2>3, <3>1 DEF CommandIsAnswered
  <2>4. \A n \in Nat : n > 0 => n = 1 \/ n > 1
    OBVIOUS
  <2> QED BY <2>1, <2>2, <2>3, <2>4
<1> QED
  BY <1>2, <1>3 DEF OneCommandAtATime, NothingOnItsWay, CommandIsSent

\* An event of the command leaves it on its way.
LEMMA EventKeepsCommand ==
    ASSUME OneCommandAtATime, Founded(session), ReceiveEvent
    PROVE  OneCommandAtATime' /\ Founded(session)'
           /\ session'.active = session.active /\ session'.queued = session.queued
           /\ session'.phase = session.phase
<1>1. /\ session \in Sessions /\ session' \in Sessions
      /\ session' = session \/ session' = [session EXCEPT !.log = session'.log]
      /\ session'.log = session.log \/ session'.log = [session.log EXCEPT !.lines = @ + 1]
  <2>1. session \in Sessions /\ session.log \in Logs
    BY DEF Founded, Sessions
  <2>2. [session.log EXCEPT !.lines = @ + 1] \in Logs
    BY <2>1 DEF Logs
  <2>3. CASE session' = session
    BY <2>1, <2>3
  <2>4. CASE session' = [session EXCEPT !.log.lines = @ + 1]
    <3> DEFINE log == [session.log EXCEPT !.lines = @ + 1]
    <3>1. session' = [session EXCEPT !.log = log]
      BY <2>1, <2>4 DEF Sessions
    <3> HIDE DEF log
    <3>2. session' \in Sessions /\ session'.log = log
      BY <2>1, <2>2, <3>1 DEF Sessions, log
    <3> QED BY <2>1, <3>1, <3>2 DEF log
  <2> QED BY <2>3, <2>4 DEF ReceiveEvent
<1>2. /\ session'.active = session.active /\ session'.id = session.id
      /\ session'.queued = session.queued /\ session'.mode = session.mode
      /\ session'.catalog = session.catalog /\ session'.systems = session.systems
      /\ session'.phase = session.phase
  BY <1>1 DEF Sessions
<1>3. ~session'.log.follow => session'.log.scroll <= MaxScroll(session'.log)
  <2>1. session.log \in Logs /\ Viewport \in Nat
    BY <1>1, BoundsAssumption DEF Sessions
  <2> QED BY <1>1, <2>1 DEF Founded, LogIsFounded, Logs, MaxScroll, Rows
<1>4. session'.log.state = session.log.state /\ session'.log.of = session.log.of
  BY <1>1 DEF Sessions, Logs
<1>5. Founded(session)'
  BY <1>1, <1>2, <1>3, <1>4
     DEF Founded, ListingsAreTyped, ModeIsFounded, QueueIsFounded, LogIsFounded, IsBusy
<1>6. OneCommandAtATime'
  <2>1. /\ replies # << >> /\ NextReply.is = "event"
        /\ replies' = Tail(replies) /\ UNCHANGED <<requests, executing, rows>>
    BY DEF ReceiveEvent
  <2>2. NextReply = Event(session.id)
    BY <2>1, NextReplies DEF Answers
  <2>3. CASE CommandIsExecuted /\ Tail(replies) \in Seq({Event(session.id)})
    BY <1>2, <2>1, <2>3
       DEF CommandIsExecuted, OneCommandAtATime, EntriesAreCurrent, rows, Event
  <2>4. CASE CommandIsAnswered /\ Len(replies) > 1
    <3>1. /\ replies \in Seq({Event(session.id)} \cup Answers(session.id))
          /\ Tail(replies) \in Seq({Event(session.id)} \cup Answers(session.id))
          /\ Len(replies') = Len(replies) - 1 /\ Len(replies) \in Nat
          /\ \A i \in DOMAIN replies' :
                 i + 1 \in DOMAIN replies /\ replies'[i] = replies[i + 1]
      BY <2>1, <2>4 DEF CommandIsAnswered
    <3>2. replies' # << >> /\ replies'[Len(replies')] = replies[Len(replies)]
      BY <2>4, <3>1
    <3>3. \A i \in DOMAIN replies' : i # Len(replies') => replies'[i] = Event(session.id)
      BY <2>4, <3>1 DEF CommandIsAnswered
    <3>4. Answers(session.id)' = Answers(session.id) /\ Event(session.id)' = Event(session.id)
      BY <1>2 DEF Answers, Event
    <3> QED
      BY <1>2, <2>1, <2>4, <3>1, <3>2, <3>3, <3>4
         DEF CommandIsAnswered, OneCommandAtATime, EntriesAreCurrent, rows
  <2> QED BY <2>1, <2>2, <2>3, <2>4, NextReplies
<1> QED BY <1>2, <1>5, <1>6

\* What a result leads to before the next command is started: the log is that
\* of before, and so is the queue if an action waits in it.
Resulting(s) ==
    /\ Founded(s) /\ session' = Dispatched(s) /\ s.active = NoRequest /\ s.log \in Logs
    /\ s.log.scroll = session.log.scroll /\ s.log.follow = session.log.follow
    /\ ActionWaits(session) => s.queued = session.queued

\* The result of a command frees the session for the next one.
LEMMA FinishedStartsNext ==
    ASSUME OneCommandAtATime, Founded(session), ReceiveFinished
    PROVE  /\ OneCommandAtATime' /\ Founded(session)' /\ NothingWaits(session)'
           /\ session'.phase = session.phase
           /\ \E s : Resulting(s)
           /\ Consistent(session) => Consistent(session)'
<1> DEFINE request == session.active
           ok == NextReply.result = "ok"
           taken == FinishLog([session EXCEPT !.active = NoRequest], request, ok)
           applied == IF ok THEN ApplySuccess(taken, request, NextReply.entries)
                      ELSE ApplyError(taken, request)
<1>1. replies # << >> /\ NextReply.is = "finished" /\ executing' = executing
      /\ replies' = Tail(replies) /\ Continue(applied)
  BY DEF ReceiveFinished
<1>2. NextReply \in Answers(session.id)
  BY <1>1, NextReplies DEF Event
<1>3. /\ session.active # NoRequest /\ requests = << >> /\ executing = NotExecuting
      /\ Tail(replies) = << >>
      /\ EntriesAreCurrent(request, NextReply.result, NextReply.entries)
  BY <1>1, <1>2, NextReplies
<1>4. request \in Asked
  BY <1>3 DEF Founded, Sessions
<1>5. /\ Founded(taken) /\ taken.active = NoRequest /\ taken.mode.is # "form"
      /\ taken.phase = session.phase /\ taken.log \in Logs
      /\ taken.queued = session.queued
      /\ taken.log.scroll = session.log.scroll /\ taken.log.follow = session.log.follow
  BY <1>3, TakenFounded
<1>6. ASSUME Consistent(session) PROVE Consistent(applied)
  <2>1. ok \in BOOLEAN
    OBVIOUS
  <2>2. /\ ok /\ request.kind = "catalog" => NextReply.entries \in Seq(AllApplications)
        /\ ok /\ request.kind = "systems" =>
               NextReply.entries \in Seq(AllSystems) /\ NamesOf(NextReply.entries) = grouped
        /\ ok /\ request.kind = "show" => request.name \in grouped
    BY <1>3 DEF EntriesAreCurrent
  <2>3. /\ taken = FinishLog([session EXCEPT !.active = NoRequest], session.active, ok)
        /\ applied = IF ok THEN ApplySuccess(taken, session.active, NextReply.entries)
                     ELSE ApplyError(taken, session.active)
    OBVIOUS
  <2> HIDE DEF taken, applied, ok
  <2> QED BY <1>6, <1>3, <2>1, <2>2, <2>3, ResultConsistent
<1> HIDE DEF taken
<1>7. AfterReads(taken, applied) /\ ListingsAreTyped(applied)
  <2>1. taken \in Sessions /\ ListingsAreTyped(taken)
    BY <1>5 DEF Founded
  <2>2. CASE ok
    BY <1>3, <1>4, <2>1, <2>2, ApplyReads DEF EntriesAreCurrent
  <2>3. CASE ~ok
    <3>1. << >> \in Seq(AllApplications) /\ << >> \in Seq(AllSystems)
      OBVIOUS
    <3>2. AfterReads(taken, ApplyError(taken, request))
          /\ ListingsAreTyped(ApplyError(taken, request))
      BY <1>4, <2>1, <3>1, ApplyReads
    <3> QED BY <2>3, <3>2
  <2> QED BY <2>2, <2>3
<1> HIDE DEF applied, request
<1>8. /\ Founded(applied) /\ applied.active = NoRequest
      /\ applied.phase = session.phase /\ applied.log = taken.log
      /\ ActionWaits(session) => applied.queued = session.queued
  BY <1>5, <1>7, ReadsFounded DEF AfterReads, ActionWaits
<1>9. session' = Dispatched(applied)
  BY <1>1 DEF Continue
<1>10. ASSUME Consistent(session) PROVE Consistent(session)'
  <2>1. Consistent(Dispatched(applied))
    BY <1>8, <1>10, <1>6, DispatchedConsistent
  <2>2. grouped' = grouped
    BY DEF ReceiveFinished, rows
  <2> QED BY <1>9, <2>1, <2>2, ConsistentPrime
<1>11. Resulting(applied)
  BY <1>5, <1>8, <1>9 DEF Resulting
<1> QED BY <1>1, <1>3, <1>8, <1>10, <1>11, ContinueInvariant

-------------------------------------------------------------------------------
(* Keys *)

\* A key that reads, in a session with no form open.
LEMMA ReadingKey ==
    ASSUME NEW s, NEW t, Founded(s), AfterReads(s, t), ListingsAreTyped(t),
           s.mode.is = "normal"
    PROVE  /\ Founded(t) /\ t.active = s.active /\ t.id = s.id /\ t.phase = s.phase
           /\ t.log = s.log
BY ReadsFounded DEF AfterReads

\* What the operator confirms or submits waits alone.
LEMMA ExecuteFounded ==
    ASSUME NEW s, Founded(s), NEW request \in Asked
    PROVE  LET t == ExecuteAction(s, request) IN
           /\ Founded(t) /\ t.active = s.active /\ t.id = s.id /\ t.phase = s.phase
           /\ t.log = s.log /\ (IsAction(request) => ActionWaits(t))
<1> DEFINE t == ExecuteAction(s, request)
<1>1. s \in Sessions /\ Normal \in Modes /\ Normal.is = "normal"
  BY DEF Founded, Normal, Modes
<1>2. <<request>> \in Seq(Asked) /\ Len(<<request>>) = 1
  OBVIOUS
<1>3. t = [s EXCEPT !.mode = Normal, !.queued = <<request>>]
  BY DEF ExecuteAction
<1>4. /\ t \in Sessions /\ t.mode = Normal /\ t.queued = <<request>>
      /\ t.active = s.active /\ t.id = s.id /\ t.phase = s.phase /\ t.log = s.log
      /\ t.catalog = s.catalog /\ t.systems = s.systems
  BY ZenonT(60), <1>1, <1>2, <1>3 DEF Sessions
<1> HIDE DEF t
<1>5. ListingsAreTyped(t) /\ LogIsFounded(t)
  BY <1>4 DEF Founded, ListingsAreTyped, LogIsFounded
<1>6. ModeIsFounded(t)
  BY <1>1, <1>4 DEF ModeIsFounded
<1>7. QueueIsFounded(t)
  BY <1>2, <1>4 DEF QueueIsFounded
<1>8. IsAction(request) => ActionWaits(t)
  BY <1>4 DEF ActionWaits
<1> QED BY <1>4, <1>5, <1>6, <1>7, <1>8 DEF Founded, t

\* Another mode, or another focus, of a session that keeps its queue.
LEMMA ModeFounded ==
    ASSUME NEW s, Founded(s), NEW mode \in Modes, NEW focus \in {"listing", "log"},
           NEW tab \in Tabs,
           mode.is \in {"confirm", "deploy"} =>
               mode.request \in Asked /\ mode.request.kind \in ScopedKinds,
           mode.is = "form" =>
               /\ mode.request \in Requests /\ mode.request.kind \in {"create", "import"}
               /\ ~IsBusy(s),
           NEW t, t = [s EXCEPT !.mode = mode, !.tab = tab, !.focus = focus]
    PROVE  Founded(t) /\ t.active = s.active /\ t.id = s.id /\ t.phase = s.phase
<1>1. s \in Sessions
  BY DEF Founded
<1>2. /\ t \in Sessions /\ t.mode = mode /\ t.queued = s.queued
      /\ t.active = s.active /\ t.id = s.id /\ t.phase = s.phase /\ t.log = s.log
      /\ t.catalog = s.catalog /\ t.systems = s.systems
  BY <1>1 DEF Sessions
<1>3. ListingsAreTyped(t) /\ LogIsFounded(t)
  BY <1>2 DEF Founded, ListingsAreTyped, LogIsFounded
<1>4. ModeIsFounded(t)
  BY <1>2 DEF ModeIsFounded, IsBusy
<1>5. QueueIsFounded(t)
  BY <1>2 DEF QueueIsFounded, Founded
<1> QED BY <1>2, <1>3, <1>4, <1>5 DEF Founded

\* Whoever scrolls sees rows that the log has.
LEMMA ScrollFounded ==
    ASSUME NEW log \in Logs, ~log.follow => log.scroll <= MaxScroll(log),
           NEW direction \in {"up", "down", "home", "end"}
    PROVE  LET scrolled == Scrolled(log, direction) IN
           /\ scrolled \in Logs /\ Rows(scrolled) = Rows(log)
           /\ scrolled.state = log.state /\ scrolled.of = log.of
           /\ ~scrolled.follow => scrolled.scroll <= MaxScroll(scrolled)
<1>1. MaxScroll(log) \in Nat /\ Rows(log) \in Nat
  BY BoundsAssumption DEF MaxScroll, Rows, Logs
<1>2. ASSUME NEW scroll \in Nat, NEW follow \in BOOLEAN
      PROVE  LET t == [log EXCEPT !.follow = follow, !.scroll = scroll] IN
             /\ t \in Logs /\ Rows(t) = Rows(log) /\ MaxScroll(t) = MaxScroll(log)
             /\ t.state = log.state /\ t.of = log.of /\ t.scroll = scroll /\ t.follow = follow
  BY DEF Logs, Rows, MaxScroll
<1>3. PICK scroll \in Nat, follow \in BOOLEAN :
          /\ Scrolled(log, direction) = [log EXCEPT !.follow = follow, !.scroll = scroll]
          /\ ~follow => scroll <= MaxScroll(log)
  <2>1. CASE direction = "home"
    <3>1. Scrolled(log, direction) = [log EXCEPT !.follow = FALSE, !.scroll = 0]
      BY <2>1 DEF Scrolled
    <3>2. 0 <= MaxScroll(log)
      BY <1>1
    <3> QED BY <3>1, <3>2
  <2>2. CASE direction = "end"
    <3>1. Scrolled(log, direction) = [log EXCEPT !.follow = TRUE, !.scroll = MaxScroll(log)]
      BY <2>2 DEF Scrolled
    <3> QED BY <1>1, <3>1
  <2>3. CASE direction = "up"
    <3> DEFINE anchored == IF log.follow THEN MaxScroll(log) ELSE log.scroll
               scroll == IF anchored = 0 THEN 0 ELSE anchored - 1
    <3>1. anchored \in Nat /\ anchored <= MaxScroll(log)
      BY <1>1 DEF Logs
    <3>2. scroll \in Nat /\ scroll <= MaxScroll(log)
      BY <1>1, <3>1
    <3>3. Scrolled(log, direction) = [log EXCEPT !.follow = FALSE, !.scroll = scroll]
      BY <2>3 DEF Scrolled, ScrollUp
    <3> QED BY <3>2, <3>3
  <2>4. CASE direction = "down"
    <3>1. CASE log.follow
      <4>1. Scrolled(log, direction) = [log EXCEPT !.follow = TRUE, !.scroll = log.scroll]
        BY <2>4, <3>1 DEF Scrolled, ScrollDown, Logs
      <4> QED BY <4>1 DEF Logs
    <3>2. CASE ~log.follow /\ log.scroll + 1 < MaxScroll(log)
      <4>1. Scrolled(log, direction) = [log EXCEPT !.follow = FALSE, !.scroll = log.scroll + 1]
        BY <2>4, <3>2 DEF Scrolled, ScrollDown, Logs
      <4>2. log.scroll + 1 \in Nat /\ log.scroll + 1 <= MaxScroll(log)
        BY <1>1, <3>2 DEF Logs
      <4> QED BY <4>1, <4>2
    <3>3. CASE ~log.follow /\ ~(log.scroll + 1 < MaxScroll(log))
      <4>1. Scrolled(log, direction) = [log EXCEPT !.follow = TRUE, !.scroll = MaxScroll(log)]
        BY <2>4, <3>3 DEF Scrolled, ScrollDown, Logs
      <4> QED BY <1>1, <4>1
    <3> QED BY <3>1, <3>2, <3>3
  <2> QED BY <2>1, <2>2, <2>3, <2>4
<1> DEFINE scrolled == Scrolled(log, direction)
           t == [log EXCEPT !.follow = follow, !.scroll = scroll]
<1>4. /\ t \in Logs /\ Rows(t) = Rows(log) /\ MaxScroll(t) = MaxScroll(log)
      /\ t.state = log.state /\ t.of = log.of /\ t.scroll = scroll /\ t.follow = follow
  BY <1>2
<1>5. scrolled = t
  BY <1>3
<1> HIDE DEF t, scrolled
<1>6. /\ scrolled \in Logs /\ Rows(scrolled) = Rows(log)
      /\ MaxScroll(scrolled) = MaxScroll(log)
      /\ scrolled.state = log.state /\ scrolled.of = log.of
      /\ scrolled.scroll = scroll /\ scrolled.follow = follow
  BY <1>4, <1>5
<1> QED BY <1>3, <1>6 DEF scrolled

\* A session in which the same command runs, and in which an action waits if one
\* did, unless the operator quits
KeepsCommand(t) ==
    /\ Founded(t) /\ t.active = session.active /\ t.id = session.id
    /\ t.phase = session.phase /\ Rows(t.log) = Rows(session.log)
    /\ ActionWaits(session) => ActionWaits(t) \/ t.quitting

\* A session that differs in no more than where its operator is
Moved(t, mode, tab) ==
    /\ KeepsCommand(t) /\ SameSelection(session, t) /\ SameSystems(session, t)
    /\ t.queued = session.queued /\ t.quitting = session.quitting
    /\ t.mode = mode /\ t.tab = tab

\* The same command runs wherever the operator is.
LEMMA ModeKeepsCommand ==
    ASSUME NEW mode \in Modes, NEW focus \in {"listing", "log"}, NEW tab \in Tabs,
           Founded(session),
           mode.is \in {"confirm", "deploy"} =>
               mode.request \in Asked /\ mode.request.kind \in ScopedKinds,
           mode.is = "form" =>
               /\ mode.request \in Requests /\ mode.request.kind \in {"create", "import"}
               /\ ~IsBusy(session),
           NEW t, t = [session EXCEPT !.mode = mode, !.tab = tab, !.focus = focus]
    PROVE  Moved(t, mode, tab)
<1>1. Founded(t)
  BY ModeFounded
<1>2. session \in Sessions
  BY DEF Founded
<1>3. /\ t.active = session.active /\ t.id = session.id /\ t.phase = session.phase
      /\ t.log = session.log /\ t.queued = session.queued
      /\ t.quitting = session.quitting /\ t.mode = mode /\ t.tab = tab
  BY <1>2 DEF Sessions
<1>4. SameSelection(session, t) /\ SameSystems(session, t)
  BY <1>2 DEF Sessions, SameSelection, SameSystems
<1>5. ActionWaits(session) => ActionWaits(t)
  BY <1>3 DEF ActionWaits
<1> QED BY <1>1, <1>3, <1>4, <1>5 DEF Moved, KeepsCommand

\* What a consistent session leads to is consistent.
KeepsConsistent(t) == Consistent(session) /\ NothingWaits(session) => Consistent(t)

\* Every key leads to a founded session, consistent if it was, and leaves what
\* runs alone.
LEMMA KeyFounded ==
    ASSUME Founded(session), Key
    PROVE  \E s : Press(s) /\ KeepsCommand(s) /\ KeepsConsistent(s)
<1> DEFINE Goal == \E s : Press(s) /\ KeepsCommand(s) /\ KeepsConsistent(s)
<1>1. session \in Sessions /\ ListingsAreTyped(session) /\ session.mode \in Modes
      /\ session.tab \in Tabs /\ session.focus \in {"listing", "log"}
      /\ ModeIsFounded(session)
  BY DEF Founded, Sessions
<1>2. Normal \in Modes /\ Normal.is = "normal"
  BY DEF Normal, Modes
<1>3. CASE KeyQuit
  <2> DEFINE t == RequestQuit(session)
  <2>1. t = [session EXCEPT !.mode = Normal, !.queued = << >>, !.quitting = TRUE]
    BY DEF RequestQuit
  <2>2. Press(t)
    BY <1>3 DEF KeyQuit
  <2>3. t = RequestQuit(session)
    OBVIOUS
  <2> HIDE DEF t
  <2>4. << >> \in Seq(Asked)
    OBVIOUS
  <2>5. t \in Sessions
    BY <1>1, <1>2, <2>1, <2>4 DEF Sessions
  <2>6. /\ t.mode = Normal /\ t.queued = << >> /\ t.quitting
        /\ t.active = session.active /\ t.id = session.id /\ t.phase = session.phase
        /\ t.log = session.log /\ t.catalog = session.catalog /\ t.systems = session.systems
    BY <1>1, <2>1 DEF Sessions
  <2>7. ListingsAreTyped(t) /\ ModeIsFounded(t) /\ QueueIsFounded(t) /\ LogIsFounded(t)
    BY <1>2, <2>6
       DEF Founded, ListingsAreTyped, ModeIsFounded, QueueIsFounded, LogIsFounded
  <2>8. KeepsConsistent(t)
    BY <1>1, <2>3, QuitConsistent DEF KeepsConsistent
  <2> QED BY <2>6, <2>2, <2>7, <2>8, <2>5 DEF KeepsCommand, Founded
<1>4. CASE KeyConfirm \/ KeyDeploy
  <2> DEFINE request == session.mode.request
             t == ExecuteAction(session, request)
  <2>1. /\ session.mode.is \in {"confirm", "deploy"} /\ Press(t)
        /\ request \in Asked /\ request.kind \in ScopedKinds
    BY <1>4 DEF KeyConfirm, KeyDeploy, InMode, Founded, ModeIsFounded
  <2>2. KeepsCommand(t)
    BY <2>1, ExecuteFounded DEF KeepsCommand, IsAction, ActionKinds
  <2>3. ASSUME Consistent(session), NothingWaits(session) PROVE Consistent(t)
    <3>1. session.tab # "systems"
      BY <2>1, <2>3 DEF Consistent, SystemsAreFounded, TabsAreFounded
    <3> HIDE DEF request
    <3> QED BY <1>1, <2>1, <2>3, <3>1, ExecuteConsistent
  <2> QED BY <2>1, <2>2, <2>3 DEF KeepsConsistent
<1>5. ASSUME NEW name \in Names \ {None}, NEW system \in AllSystems \cup {None},
             KeySubmit(name, system)
      PROVE  Goal
  <2> DEFINE form == session.mode.request
             request == [form EXCEPT !.name = name, !.system = system]
  <2>1. form \in Requests /\ form.kind \in {"create", "import"}
    BY <1>5 DEF KeySubmit, InMode, Founded, ModeIsFounded
  <2>2. request \in Requests /\ request.kind = form.kind /\ request.name = name
    BY <2>1 DEF Requests
  <2>3. request \in Asked
    BY <1>5, <2>1, <2>2 DEF KeySubmit, Asked, ScopedKinds
  <2>4. Press(ExecuteAction(session, request))
    BY <1>5 DEF KeySubmit
  <2>5. /\ session.mode.is = "form" /\ ~IsBusy(session) /\ request.system = system
        /\ form.kind = "import" => form.system \in {None, system}
    BY <1>5, <2>1 DEF KeySubmit, InMode, Founded, ModeIsFounded, Requests
  <2> HIDE DEF request
  <2>6. KeepsCommand(ExecuteAction(session, request))
    BY <2>1, <2>2, <2>3, ExecuteFounded DEF KeepsCommand, IsAction, ActionKinds
  <2>7. ASSUME Consistent(session), NothingWaits(session)
        PROVE  Consistent(ExecuteAction(session, request))
    <3>1. /\ form.kind = "create" => session.tab = "systems"
          /\ form.kind = "import" /\ session.tab = "systems" =>
                 form.system = session.selectedSystem /\ session.selectedSystem # None
      BY <2>5, <2>7 DEF Consistent, SystemsAreFounded, TabsAreFounded
    <3>2. /\ request.kind = "create" => session.tab = "systems"
          /\ request.kind = "import" /\ session.tab = "systems" =>
                 request.system = session.selectedSystem /\ session.selectedSystem # None
      BY <2>2, <2>5, <3>1
    <3>3. request.kind \in {"create", "import"}
      BY <2>1, <2>2
    <3> QED BY <1>1, <2>3, <2>5, <2>7, <3>2, <3>3, ExecuteConsistent
  <2> QED BY <2>4, <2>6, <2>7 DEF KeepsConsistent
<1>6. CASE KeyCancel
  <2> DEFINE t == [session EXCEPT !.mode = Normal, !.tab = session.tab,
                                  !.focus = session.focus]
  <2>1. Press([session EXCEPT !.mode = Normal]) /\ t = [session EXCEPT !.mode = Normal]
    BY <1>6, <1>1 DEF KeyCancel, Sessions
  <2>2. t = [session EXCEPT !.mode = Normal, !.tab = session.tab, !.focus = session.focus]
    OBVIOUS
  <2> HIDE DEF t
  <2>3. Moved(t, Normal, session.tab)
    BY <1>1, <1>2, <2>2, ModeKeepsCommand
  <2>4. KeepsConsistent(t)
    BY <2>3, ModeConsistent DEF KeepsConsistent, KeepsCommand, Moved
  <2> QED BY <2>1, <2>3, <2>4 DEF Moved
<1>7. CASE KeyOpenLog \/ KeyLeaveLog
  <2>1. PICK focus \in {"listing", "log"} : Press([session EXCEPT !.focus = focus])
    BY <1>7 DEF KeyOpenLog, KeyLeaveLog
  <2> DEFINE t == [session EXCEPT !.mode = session.mode, !.tab = session.tab,
                                  !.focus = focus]
  <2>2. t = [session EXCEPT !.focus = focus]
    BY <1>1 DEF Sessions
  <2>3. t = [session EXCEPT !.mode = session.mode, !.tab = session.tab, !.focus = focus]
    OBVIOUS
  <2> HIDE DEF t
  <2>4. Moved(t, session.mode, session.tab)
    BY <1>1, <2>3, ModeKeepsCommand DEF ModeIsFounded
  <2>5. KeepsConsistent(t)
    BY <2>4, ModeConsistent DEF KeepsConsistent, KeepsCommand, Moved
  <2> QED BY <2>1, <2>2, <2>4, <2>5 DEF Moved
<1>8. ASSUME NEW tab \in Tabs, KeySwitchTab(tab)
      PROVE  Goal
  <2> DEFINE there == [session EXCEPT !.tab = tab, !.focus = "listing"]
             t == [session EXCEPT !.mode = session.mode, !.tab = tab, !.focus = "listing"]
             u == CASE tab = "systems" -> EnsureSystemDetailsLoaded(there)
                    [] tab = "deployments" -> EnsureObservationsLoaded(there)
                    [] OTHER -> there
  <2>1. there = t
    BY <1>1 DEF Sessions
  <2>2. t = [session EXCEPT !.mode = session.mode, !.tab = tab, !.focus = "listing"]
    OBVIOUS
  <2>3. /\ Press(u) /\ session.mode.is = "normal" /\ ~IsBusy(session)
    BY <1>8 DEF KeySwitchTab, InMode, Idle
  <2> HIDE DEF there, t
  <2>4. Moved(t, session.mode, tab)
    BY <1>1, <2>2, ModeKeepsCommand DEF ModeIsFounded
  <2>5. there.mode.is = "normal" /\ there \in Sessions /\ ListingsAreTyped(there)
    BY <2>1, <2>3, <2>4 DEF Moved, KeepsCommand, Founded
  <2>6. u \in {EnsureSystemDetailsLoaded(there), EnsureObservationsLoaded(there), there}
    OBVIOUS
  <2>7. u = CASE there.tab = "systems" -> EnsureSystemDetailsLoaded(there)
              [] there.tab = "deployments" -> EnsureObservationsLoaded(there)
              [] OTHER -> there
    BY <2>1, <2>4 DEF Moved
  <2> HIDE DEF u
  <2>8. /\ Founded(u) /\ u.active = there.active /\ u.id = there.id
        /\ u.phase = there.phase /\ u.log = there.log
    BY <2>1, <2>4, <2>5, <2>6, EnsureReads, ReadingKey DEF Moved, KeepsCommand
  <2>9. KeepsConsistent(u)
    BY <1>1, <2>1, <2>3, <2>4, <2>5, <2>7, TabConsistent
       DEF Moved, KeepsConsistent, KeepsCommand
  <2> QED BY <1>1, <2>1, <2>3, <2>4, <2>8, <2>9, NotBusy DEF Moved, KeepsCommand
<1>9. ASSUME NEW movement \in {"up", "down"}, KeySelectSystem(movement)
      PROVE  Goal
  <2> DEFINE name == NextSelection(session.systems.of, session.selectedSystem, movement)
             there == [session EXCEPT !.selectedSystem = name]
             u == EnsureSystemDetailsLoaded(there)
  <2>1. /\ session.mode.is = "normal" /\ session.systems.is = "ready"
        /\ session.systems.of \in Seq(AllSystems) /\ Press(u)
        /\ ~IsBusy(session) /\ ~session.quitting
    BY <1>9, <1>1
       DEF KeySelectSystem, InListing, InMode, ListingsAreTyped, Idle, Press, MayLeave
  <2>2. name \in AllSystems \cup {None}
    BY <2>1, SelectionTyped
  <2>3. name = NextSelection(session.systems.of, session.selectedSystem, movement)
    OBVIOUS
  <2> HIDE DEF name
  <2>4. AfterReads(session, there) /\ ListingsAreTyped(there)
    BY <1>1, <2>2 DEF AfterReads, ListingsAreTyped, Sessions
  <2>5. /\ there \in Sessions /\ there.queued = session.queued
        /\ there.systems = session.systems /\ there.details = session.details
        /\ there.selectedSystem = name
    BY <1>1, <2>2 DEF Sessions
  <2>6. SamePlace(session, there) /\ SameSelection(session, there)
    BY <1>1, <2>2 DEF Sessions, SamePlace, SameSelection
  <2>7. u = EnsureSystemDetailsLoaded(there)
    OBVIOUS
  <2> HIDE DEF there
  <2>8. AfterReads(session, u) /\ ListingsAreTyped(u)
    BY <2>4, EnsureReads, ReadsCompose DEF AfterReads
  <2> HIDE DEF u
  <2>9. KeepsConsistent(u)
    BY <1>1, <2>1, <2>3, <2>5, <2>6, <2>7, SelectSystemConsistent DEF KeepsConsistent
  <2> QED BY <1>1, <2>1, <2>8, <2>9, ReadingKey, NotBusy DEF KeepsCommand
<1>10. ASSUME NEW movement \in {"up", "down"}, KeySelectApplication(movement)
      PROVE  Goal
  <2> DEFINE name == NextSelection(session.catalog.of, session.selected, movement)
             there == [session EXCEPT !.selected = name]
             u == EnsureObservationsLoaded(there)
  <2>1. /\ session.mode.is = "normal" /\ session.tab # "systems" /\ ~IsBusy(session)
        /\ session.catalog.of \in Seq(AllApplications) /\ Press(u)
    BY <1>10, <1>1 DEF KeySelectApplication, InListing, InMode, ListingsAreTyped, Idle
  <2>2. /\ name \in AllApplications \cup {None}
        /\ name \in NamesOf(session.catalog.of) \cup {None}
    BY <2>1, SelectionTyped
  <2> HIDE DEF name
  <2>3. AfterReads(session, there) /\ ListingsAreTyped(there)
    BY <1>1, <2>2 DEF AfterReads, ListingsAreTyped, Sessions
  <2>4. /\ there \in Sessions /\ there.queued = session.queued
        /\ there.selected = name /\ there.catalog = session.catalog
    BY <1>1, <2>2 DEF Sessions
  <2>5. SamePlace(session, there) /\ SameSystems(session, there)
    BY <1>1, <2>2 DEF Sessions, SamePlace, SameSystems
  <2>6. u = EnsureObservationsLoaded(there)
    OBVIOUS
  <2> HIDE DEF there
  <2>7. AfterReads(session, u) /\ ListingsAreTyped(u)
    BY <2>3, EnsureReads, ReadsCompose DEF AfterReads
  <2> HIDE DEF u
  <2>8. KeepsConsistent(u)
    BY <1>1, <2>1, <2>2, <2>4, <2>5, <2>6, SelectApplicationConsistent DEF KeepsConsistent
  <2> QED BY <1>1, <2>1, <2>7, <2>8, ReadingKey, NotBusy DEF KeepsCommand
<1>11. CASE KeyRefresh
  <2> DEFINE u == RefreshListing(session, "systems")
             v == RefreshListing(session, "catalog")
             t == IF session.tab = "systems" THEN RefreshSystemDetails(u) ELSE RefreshDetails(v)
  <2>1. /\ AfterReads(session, u) /\ ListingsAreTyped(u)
        /\ AfterReads(session, v) /\ ListingsAreTyped(v)
    BY <1>1, RefreshReads
  <2>2. session.mode.is = "normal" /\ ~IsBusy(session) /\ Press(t)
    BY <1>11 DEF KeyRefresh, InListing, InMode, Idle
  <2>3. KeepsConsistent(t)
    BY <1>1, <2>2, RefreshConsistent DEF KeepsConsistent
  <2> HIDE DEF u, v
  <2>4. u \in Sessions /\ v \in Sessions
    BY <2>1 DEF AfterReads
  <2>5. /\ AfterReads(session, RefreshSystemDetails(u))
        /\ ListingsAreTyped(RefreshSystemDetails(u))
        /\ AfterReads(session, RefreshDetails(v)) /\ ListingsAreTyped(RefreshDetails(v))
    BY <2>1, <2>4, RefreshReads, ReadsCompose
  <2>6. AfterReads(session, t) /\ ListingsAreTyped(t)
    BY <2>5
  <2> HIDE DEF t
  <2> QED BY <1>1, <2>2, <2>3, <2>6, ReadingKey, NotBusy DEF KeepsCommand
<1>12. ASSUME NEW kind \in {"create", "import"}, NEW system \in AllSystems \cup {None},
              KeyOpenForm([Request(kind, None) EXCEPT !.system = system])
       PROVE  Goal
  <2> DEFINE form == [Request(kind, None) EXCEPT !.system = system]
             mode == [is |-> "form", request |-> form]
             t == [session EXCEPT !.mode = mode, !.tab = session.tab,
                                  !.focus = session.focus]
  <2>1. form \in Requests /\ form.kind \in {"create", "import"}
    BY DEF Request, Requests, Names, ActionKinds
  <2>2. Press([session EXCEPT !.mode = mode]) /\ ~IsBusy(session)
    BY <1>12 DEF KeyOpenForm, Idle
  <2>3. /\ form.kind = "create" => session.tab = "systems"
        /\ form.kind = "import" /\ session.tab = "systems" =>
               form.system = session.selectedSystem /\ session.selectedSystem # None
    <3>1. form.kind = kind /\ form.system = system
      BY DEF Request
    <3>2. CASE form = Request("create", None) /\ session.tab = "systems"
      BY <3>1, <3>2 DEF Request
    <3>3. CASE session.selectedSystem # None
               /\ form = [Request("import", None) EXCEPT !.system = session.selectedSystem]
      BY <3>1, <3>3 DEF Request
    <3>4. CASE form = Request("import", None) /\ session.tab = "applications"
      BY <3>1, <3>4 DEF Request
    <3> QED BY <1>12, <3>2, <3>3, <3>4 DEF KeyOpenForm, InListing
  <2> HIDE DEF form
  <2>4. mode \in Modes /\ mode.is = "form" /\ mode.request = form
    BY <2>1 DEF Modes
  <2> HIDE DEF mode
  <2>5. t = [session EXCEPT !.mode = mode]
    BY <1>1 DEF Sessions
  <2>6. t = [session EXCEPT !.mode = mode, !.tab = session.tab, !.focus = session.focus]
    OBVIOUS
  <2> HIDE DEF t
  <2>7. Moved(t, mode, session.tab)
    BY <1>1, <2>1, <2>2, <2>4, <2>6, ModeKeepsCommand
  <2>8. KeepsConsistent(t)
    BY <2>3, <2>4, <2>7, ModeConsistent DEF KeepsConsistent, KeepsCommand, Moved
  <2> QED BY <2>2, <2>5, <2>7, <2>8 DEF Moved
<1>13. ASSUME NEW kind \in ScopedKinds, NEW is \in {"confirm", "deploy"}, KeyAct(kind, is)
       PROVE  Goal
  <2> DEFINE request == Request(kind, session.selected)
             mode == [is |-> is, request |-> request]
             t == [session EXCEPT !.mode = mode, !.tab = session.tab,
                                  !.focus = session.focus]
  <2>1. session.selected \in AllApplications
    BY <1>13, <1>1 DEF KeyAct, Sessions
  <2>2. request \in Asked /\ request.kind \in ScopedKinds
    BY <2>1 DEF Request, Asked, Requests, Names, ActionKinds, ScopedKinds
  <2>3. Press([session EXCEPT !.mode = mode]) /\ session.tab # "systems"
    BY <1>13 DEF KeyAct, InListing
  <2> HIDE DEF request
  <2>4. mode \in Modes /\ mode.is = is /\ mode.request = request
    BY <2>2 DEF Modes, Asked
  <2> HIDE DEF mode
  <2>5. t = [session EXCEPT !.mode = mode]
    BY <1>1 DEF Sessions
  <2>6. t = [session EXCEPT !.mode = mode, !.tab = session.tab, !.focus = session.focus]
    OBVIOUS
  <2> HIDE DEF t
  <2>7. Moved(t, mode, session.tab)
    BY <1>1, <2>2, <2>4, <2>6, ModeKeepsCommand
  <2>8. KeepsConsistent(t)
    BY <2>3, <2>4, <2>7, ModeConsistent DEF KeepsConsistent, KeepsCommand, Moved
  <2> QED BY <2>3, <2>5, <2>7, <2>8 DEF Moved
<1>14. ASSUME NEW direction \in {"up", "down", "home", "end"}, KeyScroll(direction)
       PROVE  Goal
  <2> DEFINE log == Scrolled(session.log, direction)
             t == [session EXCEPT !.log = log]
  <2>1. /\ session.log \in Logs
        /\ ~session.log.follow => session.log.scroll <= MaxScroll(session.log)
    BY <1>1 DEF Sessions, Founded, LogIsFounded
  <2>2. /\ log \in Logs /\ Rows(log) = Rows(session.log)
        /\ log.state = session.log.state /\ log.of = session.log.of
        /\ ~log.follow => log.scroll <= MaxScroll(log)
    BY <2>1, ScrollFounded
  <2>3. Press(t)
    BY <1>14 DEF KeyScroll
  <2> HIDE DEF log
  <2>4. /\ t \in Sessions /\ t.mode = session.mode /\ t.queued = session.queued
        /\ t.active = session.active /\ t.id = session.id /\ t.phase = session.phase
        /\ t.log = log /\ t.catalog = session.catalog /\ t.systems = session.systems
    BY <1>1, <2>2 DEF Sessions
  <2>5. /\ SameSelection(session, t) /\ SameSystems(session, t)
        /\ t.quitting = session.quitting /\ t.tab = session.tab
    BY <1>1, <2>2 DEF Sessions, SameSelection, SameSystems
  <2> HIDE DEF t
  <2>6. ListingsAreTyped(t) /\ ModeIsFounded(t) /\ QueueIsFounded(t) /\ LogIsFounded(t)
    BY <2>2, <2>4
       DEF Founded, ListingsAreTyped, ModeIsFounded, QueueIsFounded, LogIsFounded, IsBusy
  <2>7. KeepsConsistent(t)
    BY <2>4, <2>5, ModeConsistent DEF KeepsConsistent
  <2>8. ActionWaits(session) => ActionWaits(t)
    BY <2>4 DEF ActionWaits
  <2> QED BY <2>2, <2>3, <2>4, <2>6, <2>7, <2>8 DEF KeepsCommand, Founded
<1> QED
  BY <1>3, <1>4, <1>5, <1>6, <1>7, <1>8, <1>9, <1>10, <1>11, <1>12, <1>13, <1>14 DEF Key

-------------------------------------------------------------------------------
(* The worker *)

\* A listing names what is present.
LEMMA ListingsListed ==
    ASSUME NEW order, NEW S, NEW present \in SUBSET S, NEW entries \in Listings(order, present)
    PROVE  entries \in Seq(S) /\ NamesOf(entries) = present
<1>1. NamesOf(entries) = present
  BY DEF Listings
<1>2. PICK n \in 0..Len(order) : entries \in [1..n -> present]
  BY DEF Listings
<1>3. n \in Nat
  OBVIOUS
<1>4. entries \in [1..n -> S]
  BY <1>2
<1> QED BY <1>1, <1>3, <1>4

\* Every step of the worker takes the command that is on its way one step on.
LEMMA WorkerKeepsCommand ==
    ASSUME TuiInvariant, Open, Worker
    PROVE  OneCommandAtATime' /\ RowsTyped' /\ session' = session
<1>1. /\ session \in Sessions /\ RowsTyped /\ OneCommandAtATime
      /\ session.active \in Asked \cup {NoRequest}
  BY DEF TuiInvariant, Founded, Sessions
<1>2. NotExecuting.result = "idle" /\ << >> \in Entries /\ << >> \in Seq({Event(session.id)})
  BY DEF NotExecuting, Entries
<1>3. executing.result # "idle" => CommandIsExecuted
  BY <1>1, <1>2 DEF OneCommandAtATime, NothingOnItsWay, CommandIsSent, CommandIsAnswered
<1>4. CASE WorkerReceives
  <2>1. CommandIsSent /\ UNCHANGED <<session, replies, rows>> /\ requests' = Tail(requests)
    BY <1>1, <1>2, <1>4
       DEF WorkerReceives, OneCommandAtATime, NothingOnItsWay, CommandIsExecuted,
           CommandIsAnswered
  <2>2. executing' = [NotExecuting EXCEPT !.id = session.id, !.request = session.active,
                                          !.result = "pending"]
    <3>1. Head(requests) = [id |-> session.id, request |-> session.active]
      BY <2>1 DEF CommandIsSent
    <3>2. Head(requests).id = session.id /\ Head(requests).request = session.active
      BY <3>1
    <3> QED BY <1>4, <3>2 DEF WorkerReceives
  <2>3. /\ executing' \in Executions /\ executing'.id = session.id
        /\ executing'.request = session.active /\ executing'.result = "pending"
    <3>1. session.id \in {0, 1}
      BY <1>1 DEF Sessions
    <3> QED BY <1>1, <1>2, <2>2, <3>1 DEF NotExecuting, Executions
  <2>4. requests' = << >>
    BY <2>1 DEF CommandIsSent
  <2>5. CommandIsExecuted'
    BY <1>2, <2>1, <2>3, <2>4
       DEF CommandIsSent, CommandIsExecuted, EntriesAreCurrent, Event
  <2> QED BY <1>1, <1>4, <2>1, <2>5
       DEF OneCommandAtATime, RowsTyped, rows
<1>5. CASE WorkerReportsEvent
  <2>1. CommandIsExecuted /\ UNCHANGED <<session, requests, rows>>
    BY <1>3, <1>5 DEF WorkerReportsEvent
  <2>2. /\ executing \in Executions
        /\ executing' = [executing EXCEPT !.events = executing.events + 1]
    BY <1>5, <2>1 DEF WorkerReportsEvent, CommandIsExecuted
  <2>3. /\ executing' \in Executions /\ executing'.id = executing.id
        /\ executing'.request = executing.request /\ executing'.result = executing.result
        /\ executing'.entries = executing.entries
    BY <2>2 DEF Executions
  <2>4. replies' = Append(replies, Event(session.id))
    BY <1>5, <2>1 DEF WorkerReportsEvent, CommandIsExecuted, Event
  <2>5. replies' \in Seq({Event(session.id)})
    BY <2>1, <2>4 DEF CommandIsExecuted
  <2>6. CommandIsExecuted'
    BY <2>1, <2>3, <2>5 DEF CommandIsExecuted, EntriesAreCurrent, Event, rows
  <2> QED BY <1>1, <1>2, <2>1, <2>6
       DEF OneCommandAtATime, RowsTyped, rows
<1>6. CASE WorkerSucceeds
  <2> DEFINE request == executing.request
  <2>1. CommandIsExecuted /\ UNCHANGED <<session, requests, replies>>
    BY <1>3, <1>6 DEF WorkerSucceeds
  <2>2. request \in Asked /\ executing \in Executions
    BY <1>1, <2>1 DEF CommandIsExecuted
  <2>3. PICK entries \in ListedBy(request) :
            executing' = [executing EXCEPT !.result = "ok", !.entries = entries]
    BY <1>6 DEF WorkerSucceeds
  <2>4. RowsTyped'
    <3>1. request.kind = "import" => request.name \in AllApplications
      BY <2>2 DEF Asked
    <3>2. request.kind = "create" => request.name \in AllSystems
      BY <2>2 DEF Asked
    <3> QED BY <1>1, <1>6, <3>1, <3>2 DEF WorkerSucceeds, RowsTyped
  <2>5. request.kind \in {"catalog", "systems", "show"} => UNCHANGED rows
    BY <1>6 DEF WorkerSucceeds, rows
  <2>6. entries \in Entries /\ EntriesAreCurrent(request, "ok", entries)
    <3>1. CASE request.kind = "catalog"
      <4>1. entries \in Listings(ApplicationOrder, catalogued)
            /\ catalogued \in SUBSET AllApplications
        BY <1>1, <2>3, <3>1 DEF ListedBy, RowsTyped
      <4>2. entries \in Seq(AllApplications) /\ NamesOf(entries) = catalogued
        BY <4>1, ListingsListed
      <4> QED BY <3>1, <4>2 DEF Entries, EntriesAreCurrent
    <3>2. CASE request.kind = "systems"
      <4>1. entries \in Listings(SystemOrder, grouped) /\ grouped \in SUBSET AllSystems
        BY <1>1, <2>3, <3>2 DEF ListedBy, RowsTyped
      <4>2. entries \in Seq(AllSystems) /\ NamesOf(entries) = grouped
        BY <4>1, ListingsListed
      <4> QED BY <3>2, <4>2 DEF Entries, EntriesAreCurrent
    <3>3. CASE request.kind = "show"
      <4>1. entries = << >> /\ request.name \in grouped
        BY <1>6, <2>3, <3>3 DEF ListedBy, WorkerSucceeds
      <4> QED BY <1>2, <3>3, <4>1 DEF EntriesAreCurrent
    <3>4. CASE request.kind \notin {"catalog", "systems", "show"}
      BY <1>2, <2>3, <3>4 DEF ListedBy, EntriesAreCurrent
    <3> QED BY <3>1, <3>2, <3>3, <3>4
  <2>7. /\ executing' \in Executions /\ executing'.id = executing.id
        /\ executing'.request = request /\ executing'.result = "ok"
        /\ executing'.entries = entries
    BY <2>2, <2>3, <2>6 DEF Executions
  <2> HIDE DEF request
  <2>8. CommandIsExecuted'
    <3>1. EntriesAreCurrent(executing.request, executing.result, executing.entries)'
      BY <2>5, <2>6, <2>7 DEF EntriesAreCurrent, rows
    <3> QED BY <2>1, <2>7, <3>1 DEF CommandIsExecuted, Event, request
  <2> QED BY <1>1, <1>2, <2>1, <2>4, <2>8
       DEF OneCommandAtATime
<1>7. CASE WorkerFails
  <2>1. CommandIsExecuted /\ UNCHANGED <<session, requests, replies, rows>>
    BY <1>3, <1>7 DEF WorkerFails
  <2>2. executing \in Executions /\ executing' = [executing EXCEPT !.result = "error"]
    BY <1>7, <2>1 DEF WorkerFails, CommandIsExecuted
  <2>3. /\ executing' \in Executions /\ executing'.id = executing.id
        /\ executing'.request = executing.request /\ executing'.result = "error"
    BY <2>2 DEF Executions
  <2>4. CommandIsExecuted'
    BY <2>1, <2>3 DEF CommandIsExecuted, EntriesAreCurrent, Event
  <2> QED BY <1>1, <1>2, <2>1, <2>4
       DEF OneCommandAtATime, RowsTyped, rows
<1>8. CASE WorkerReplies
  <2> DEFINE answer == [is |-> "finished", id |-> executing.id,
                        result |-> executing.result, entries |-> executing.entries]
             Sent == {Event(session.id)} \cup Answers(session.id)
  <2>1. CommandIsExecuted /\ UNCHANGED <<session, requests, rows>>
    BY <1>3, <1>8 DEF WorkerReplies
  <2>2. replies' = Append(replies, answer) /\ executing' = NotExecuting
    BY <1>8 DEF WorkerReplies
  <2>3. answer \in Answers(session.id)
    BY <1>8, <2>1 DEF WorkerReplies, CommandIsExecuted, Executions, Answers
  <2>4. answer.result = executing.result /\ answer.entries = executing.entries
    OBVIOUS
  <2> HIDE DEF answer
  <2>5. /\ replies \in Seq({Event(session.id)}) /\ replies \in Seq(Sent)
        /\ \A i \in DOMAIN replies : replies[i] = Event(session.id)
    BY <2>1 DEF CommandIsExecuted
  <2> HIDE DEF Sent
  <2>6. /\ replies' \in Seq(Sent) /\ replies' # << >> /\ Len(replies') = Len(replies) + 1
        /\ Len(replies) \in Nat /\ replies'[Len(replies')] = answer
        /\ \A i \in DOMAIN replies' :
               i # Len(replies') => i \in DOMAIN replies /\ replies'[i] = replies[i]
    BY <2>2, <2>3, <2>5 DEF Sent
  <2>7. \A i \in DOMAIN replies' : i # Len(replies') => replies'[i] = Event(session.id)
    BY <2>5, <2>6
  <2>8. EntriesAreCurrent(session.active, answer.result, answer.entries)
    BY <2>1, <2>4 DEF CommandIsExecuted
  <2>9. CommandIsAnswered'
    <3>1. Event(session.id)' = Event(session.id) /\ Answers(session.id)' = Answers(session.id)
      BY <2>1 DEF Event, Answers
    <3>2. EntriesAreCurrent(session.active, replies[Len(replies)].result,
                            replies[Len(replies)].entries)'
      BY <2>1, <2>6, <2>8 DEF EntriesAreCurrent, rows
    <3> QED BY <2>1, <2>2, <2>3, <2>6, <2>7, <3>1, <3>2
         DEF CommandIsExecuted, CommandIsAnswered, Sent
  <2> QED BY <1>1, <1>2, <2>1, <2>9
       DEF OneCommandAtATime, RowsTyped, rows
<1>9. CASE WorkerEnds
  <2>1. CommandIsSent /\ Head(requests) = Shutdown
    BY <1>1, <1>9
       DEF WorkerEnds, OneCommandAtATime, NothingOnItsWay, CommandIsExecuted,
           CommandIsAnswered
  <2>2. Head(requests).request = session.active /\ session.active # NoRequest
    BY <2>1 DEF CommandIsSent
  <2> QED BY <2>1, <2>2 DEF Shutdown
<1> QED BY <1>4, <1>5, <1>6, <1>7, <1>8, <1>9 DEF Worker

\* Once the loop is left, the worker finishes the command and takes the shutdown
\* for the last.
LEMMA WorkerKeepsShutdown ==
    ASSUME TuiInvariant, ~Open, Worker
    PROVE  /\ ShutdownIsLast' /\ RowsTyped' /\ session' = session
           /\ session.phase # "closed"
           /\ WorkerSucceeds => executing.request = session.active
           /\ WorkerSucceeds => session.active # NoRequest
<1>1. /\ session \in Sessions /\ RowsTyped /\ ShutdownIsLast
      /\ session.active \in Asked \cup {NoRequest} /\ session.id \in {0, 1}
      /\ session.phase = "closed" => executing = Ended
  BY DEF TuiInvariant, Founded, Sessions
<1>2. /\ NotExecuting.result = "idle" /\ Ended.result = "ended" /\ Ended # NotExecuting
      /\ << >> \in Seq({Event(session.id)})
  BY DEF NotExecuting, Ended
<1>3. executing.result \in {"pending", "ok", "error"} =>
        /\ session.active # NoRequest /\ requests = <<Shutdown>>
        /\ executing.id = session.id /\ executing.request = session.active
        /\ replies \in Seq({Event(session.id)})
  BY <1>1, <1>2 DEF ShutdownIsLast
<1>4. CASE WorkerReceives
  <2> DEFINE sent == [id |-> session.id, request |-> session.active]
  <2>1. /\ executing = NotExecuting /\ requests # << >> /\ Head(requests) # Shutdown
        /\ requests' = Tail(requests) /\ UNCHANGED <<session, replies, rows>>
    BY <1>4 DEF WorkerReceives
  <2>2. session.active # NoRequest /\ requests = <<sent, Shutdown>> /\ replies = << >>
    BY <1>1, <1>2, <2>1 DEF ShutdownIsLast
  <2>3. Head(requests) = sent /\ Tail(requests) = <<Shutdown>>
    BY <2>2
  <2>4. executing' = [NotExecuting EXCEPT !.id = session.id, !.request = session.active,
                                          !.result = "pending"]
    <3>1. Head(requests).id = session.id /\ Head(requests).request = session.active
      BY <2>3
    <3> QED BY <1>4, <3>1 DEF WorkerReceives
  <2>5. /\ executing'.id = session.id /\ executing'.request = session.active
        /\ executing'.result = "pending"
    BY <2>4 DEF NotExecuting
  <2>6. ShutdownIsLast'
    BY <1>2, <2>1, <2>2, <2>3, <2>5 DEF ShutdownIsLast, Event
  <2> QED BY <1>1, <1>2, <1>4, <2>1, <2>6
          DEF RowsTyped, rows, WorkerSucceeds
<1>5. CASE WorkerReportsEvent
  <2>1. /\ executing.result = "pending" /\ UNCHANGED <<session, requests, rows>>
        /\ executing' = [executing EXCEPT !.events = @ + 1]
        /\ replies' = Append(replies, Event(session.id))
    BY <1>3, <1>5 DEF WorkerReportsEvent, Event
  <2>2. /\ executing'.id = executing.id /\ executing'.request = executing.request
        /\ executing'.result = "pending"
    BY <2>1
  <2>3. replies' \in Seq({Event(session.id)})
    BY <1>3, <2>1
  <2>4. ShutdownIsLast'
    BY <1>3, <2>1, <2>2, <2>3 DEF ShutdownIsLast, Event
  <2> QED BY <1>1, <1>2, <1>3, <2>1, <2>4 DEF RowsTyped, rows
<1>6. CASE WorkerSucceeds
  <2>1. executing.result = "pending" /\ UNCHANGED <<session, requests, replies>>
    BY <1>6 DEF WorkerSucceeds
  <2>2. executing.request \in Asked
    BY <1>1, <1>3, <2>1
  <2>3. PICK entries : executing' = [executing EXCEPT !.result = "ok", !.entries = entries]
    BY <1>6 DEF WorkerSucceeds
  <2>4. RowsTyped'
    <3>1. executing.request.kind = "import" => executing.request.name \in AllApplications
      BY <2>2 DEF Asked
    <3>2. executing.request.kind = "create" => executing.request.name \in AllSystems
      BY <2>2 DEF Asked
    <3> QED BY <1>1, <1>6, <3>1, <3>2 DEF WorkerSucceeds, RowsTyped
  <2>5. ShutdownIsLast'
    <3>1. /\ executing'.id = executing.id /\ executing'.request = executing.request
          /\ executing'.result = "ok"
      BY <2>3
    <3> QED BY <1>3, <2>1, <3>1 DEF ShutdownIsLast, Event
  <2> QED BY <1>1, <1>2, <1>3, <2>1, <2>4, <2>5
<1>7. CASE WorkerFails
  <2>1. /\ executing.result = "pending" /\ UNCHANGED <<session, requests, replies, rows>>
        /\ executing' = [executing EXCEPT !.result = "error"]
    BY <1>7 DEF WorkerFails
  <2>2. /\ executing'.id = executing.id /\ executing'.request = executing.request
        /\ executing'.result = "error"
    BY <2>1
  <2>3. ShutdownIsLast'
    BY <1>3, <2>1, <2>2 DEF ShutdownIsLast, Event
  <2> QED BY <1>1, <1>2, <1>3, <2>1, <2>3 DEF RowsTyped, rows
<1>8. CASE WorkerReplies
  <2> DEFINE answer == [is |-> "finished", id |-> executing.id,
                        result |-> executing.result, entries |-> executing.entries]
  <2>1. /\ executing.result \in {"ok", "error"} /\ UNCHANGED <<session, requests, rows>>
        /\ executing' = NotExecuting /\ replies' = Append(replies, answer)
    BY <1>8 DEF WorkerReplies
  <2>2. answer.is = "finished" /\ answer.id = session.id
    BY <1>3, <2>1
  <2> HIDE DEF answer
  <2>3. Len(replies) + 1 \in DOMAIN replies' /\ replies'[Len(replies) + 1] = answer
    BY <1>3, <2>1
  <2>4. NothingIsOwed'
    BY <2>1, <2>2, <2>3 DEF NothingIsOwed
  <2>5. ShutdownIsLast'
    BY <1>3, <2>1, <2>4 DEF ShutdownIsLast
  <2> QED BY <1>1, <1>2, <1>3, <2>1, <2>5 DEF RowsTyped, rows, WorkerSucceeds
<1>9. CASE WorkerEnds
  <2>1. /\ executing = NotExecuting /\ requests # << >> /\ Head(requests) = Shutdown
        /\ executing' = Ended /\ requests' = Tail(requests)
        /\ UNCHANGED <<session, replies, rows>>
    BY <1>9 DEF WorkerEnds
  <2>2. requests = <<Shutdown>> /\ NothingIsOwed
    <3>1. CASE /\ session.active # NoRequest
               /\ requests = <<[id |-> session.id, request |-> session.active], Shutdown>>
      <4>1. Head(requests).request = session.active
        BY <3>1
      <4> QED BY <2>1, <3>1, <4>1 DEF Shutdown
    <3> QED BY <1>1, <1>2, <2>1, <3>1 DEF ShutdownIsLast
  <2>3. requests' = << >> /\ NothingIsOwed'
    BY <2>1, <2>2 DEF NothingIsOwed
  <2>4. ShutdownIsLast'
    BY <2>1, <2>3 DEF ShutdownIsLast
  <2> QED BY <1>1, <1>2, <2>1, <2>4 DEF RowsTyped, rows, WorkerSucceeds
<1> QED BY <1>4, <1>5, <1>6, <1>7, <1>8, <1>9 DEF Worker

-------------------------------------------------------------------------------
(* The inductive invariant *)

\* Every session starts with one listing on its way and one that waits.
LEMMA TuiInvariantInit ==
    ASSUME TuiInit
    PROVE  TuiInvariant /\ Consistent(session)
<1> DEFINE queue == <<Request("catalog", None), Request("systems", None)>>
           s == [active |-> NoRequest, id |-> 0, queued |-> queue,
                 tab |-> "applications", focus |-> "listing", mode |-> Normal,
                 systems |-> Loading, selectedSystem |-> None,
                 details |-> Query("idle", None), detailsTarget |-> None,
                 catalog |-> Loading, selected |-> None, observed |-> None,
                 deployments |-> Query("idle", None), runtime |-> Query("idle", None),
                 log |-> NoLog, quitting |-> FALSE, phase |-> "open"]
<1>1. /\ session = Dispatched(s)
      /\ requests = <<[id |-> session.id, request |-> session.active]>>
      /\ executing = NotExecuting /\ replies = << >>
      /\ catalogued = FirstApplications /\ grouped = FirstSystems
  BY DEF TuiInit
<1>2. queue \in Seq(Asked) /\ queue # << >>
      /\ \A i \in DOMAIN queue : ~IsAction(queue[i])
  <2>1. Request("catalog", None) \in Asked /\ Request("systems", None) \in Asked
    BY ReadsAreAsked
  <2>2. ~IsAction(Request("catalog", None)) /\ ~IsAction(Request("systems", None))
    BY ReadsAreAsked DEF ReadKinds, Names
  <2> QED BY <2>1, <2>2
<1> HIDE DEF queue
<1>3. Founded(s)
  <2>1. Query("idle", None) \in QueryStates /\ Loading \in QueryStates /\ Loading.is = "loading"
    BY QueriesTyped DEF Query, QueryStates, Names
  <2>2. NoLog \in Logs /\ Normal \in Modes /\ Normal.is = "normal"
        /\ NoLog.state = "none" /\ NoLog.follow
    BY DEF NoLog, Logs, Normal, Modes
  <2>3. s \in Sessions
    BY <1>2, <2>1, <2>2 DEF Sessions, Tabs
  <2> QED
    BY <1>2, <2>1, <2>2, <2>3, KindsDiffer
       DEF Founded, ListingsAreTyped, ModeIsFounded, QueueIsFounded, LogIsFounded
<1>4. s.active = NoRequest /\ s.queued # << >> /\ s.phase = "open"
  BY <1>2
<1>5. Consistent(s)
  <2>1. \A request \in Awaited(s) : request.kind \in {"catalog", "systems"}
    BY DEF Awaited, NamesOf, queue, Request
  <2>2. /\ s.catalog.is # "ready" /\ s.systems.is # "ready" /\ s.details.is # "ready"
        /\ s.mode.is = "normal" /\ s.tab # "systems"
    BY DEF Loading, Query, Normal
  <2>3. FormsRunNext(s) /\ SelectionIsFounded(s) /\ MismatchIsMended(s)
    BY <1>4, <2>2 DEF FormsRunNext, SelectionIsFounded, MismatchIsMended, Mismatched
  <2>4. DetailsExist(s) /\ SystemsAreCurrent(s) /\ ReadsAreOfSelection(s)
    BY <2>1, <2>2 DEF DetailsExist, SystemsAreCurrent, ReadsAreOfSelection
  <2>5. TabsAreFounded(s)
    BY <2>1, <2>2 DEF TabsAreFounded, AwaitsNo
  <2> QED BY <2>3, <2>4, <2>5 DEF Consistent, SystemsAreFounded
<1> HIDE DEF s
<1>6. Consistent(session)
  BY <1>1, <1>3, <1>5, DispatchedConsistent
<1>7. Founded(session) /\ NothingWaits(session) /\ session.active # NoRequest
      /\ session.phase = "open"
  BY <1>1, <1>3, <1>4, DispatchedFounded
<1>8. OneCommandAtATime /\ Open
  BY <1>1, <1>7 DEF OneCommandAtATime, CommandIsSent, Open
<1>9. RowsTyped
  BY <1>1, NamesAssumption DEF RowsTyped
<1> QED BY <1>6, <1>7, <1>8, <1>9 DEF TuiInvariant, Open

\* What is sent behind the only message is the second one.
LEMMA AppendToOne ==
    ASSUME NEW m, NEW n
    PROVE  Append(<<m>>, n) = <<m, n>>
<1> DEFINE S == {m, n}
           two == Append(<<m>>, n)
           pair == <<m, n>>
<1>1. <<m>> \in Seq(S) /\ n \in S /\ Len(<<m>>) = 1 /\ <<m>>[1] = m
  OBVIOUS
<1>2. two \in Seq(S) /\ Len(two) = 2 /\ two[1] = m /\ two[2] = n
  BY <1>1, AppendProperties
<1>3. pair \in Seq(S) /\ Len(pair) = 2 /\ pair[1] = m /\ pair[2] = n
  OBVIOUS
<1> HIDE DEF two, pair, S
<1>4. two = pair
  BY <1>2, <1>3, SeqEqual
<1> QED BY <1>4 DEF two, pair

\* Leaving changes only how far it got.
LEMMA PhaseKeepsFounded ==
    ASSUME Founded(session), NothingWaits(session),
           NEW phase \in {"leaving", "failed", "closed"},
           session' = [session EXCEPT !.phase = phase]
    PROVE  /\ Founded(session)' /\ NothingWaits(session)' /\ session'.phase = phase
           /\ session'.active = session.active /\ session'.id = session.id
           /\ session'.queued = session.queued /\ session'.log = session.log
<1>1. session \in Sessions
  BY DEF Founded
<1>2. /\ session' \in Sessions /\ session'.phase = phase
      /\ session'.active = session.active /\ session'.id = session.id
      /\ session'.queued = session.queued /\ session'.mode = session.mode
      /\ session'.catalog = session.catalog /\ session'.systems = session.systems
      /\ session'.log = session.log
  BY <1>1 DEF Sessions
<1> QED
  BY <1>2
     DEF Founded, NothingWaits, ListingsAreTyped, ModeIsFounded, QueueIsFounded,
         LogIsFounded, IsBusy

\* The loop is left between replies: what is on its way is in front of the
\* shutdown, or in the worker's hands, or nothing is.
LEMMA ShutDownInvariant ==
    ASSUME TuiInvariant, NEW phase \in {"leaving", "failed"}, ShutDown(phase)
    PROVE  TuiInvariant'
<1>1. /\ Founded(session) /\ NothingWaits(session) /\ RowsTyped
      /\ OneCommandAtATime /\ replies = << >>
      /\ session' = [session EXCEPT !.phase = phase]
      /\ requests' = Append(requests, Shutdown)
      /\ UNCHANGED <<executing, replies, rows>>
  BY DEF TuiInvariant, ShutDown
<1>2. /\ Founded(session)' /\ NothingWaits(session)' /\ session'.phase = phase
      /\ session'.active = session.active /\ session'.id = session.id
  BY <1>1, PhaseKeepsFounded
<1>3. ShutdownIsLast'
  <2>1. CASE NothingOnItsWay
    <3>1. requests' = <<Shutdown>> /\ executing' = NotExecuting
      BY <1>1, <2>1 DEF NothingOnItsWay
    <3>2. NothingIsOwed'
      BY <1>2, <2>1 DEF NothingOnItsWay, NothingIsOwed
    <3> QED BY <3>1, <3>2 DEF ShutdownIsLast
  <2>2. CASE CommandIsSent
    <3> DEFINE sent == [id |-> session.id, request |-> session.active]
    <3>1. requests = <<sent>>
      BY <2>2 DEF CommandIsSent
    <3>2. sent = [id |-> session'.id, request |-> session'.active]
      BY <1>2
    <3> HIDE DEF sent
    <3>3. requests' = <<sent, Shutdown>>
      BY <1>1, <3>1, AppendToOne
    <3> QED BY <1>1, <1>2, <2>2, <3>2, <3>3 DEF CommandIsSent, ShutdownIsLast
  <2>3. CASE CommandIsExecuted
    <3>1. requests' = <<Shutdown>>
      BY <1>1, <2>3 DEF CommandIsExecuted
    <3>2. executing.result \in {"pending", "ok", "error"}
      BY <2>3 DEF CommandIsExecuted, Executions
    <3> QED BY <1>1, <1>2, <2>3, <3>1, <3>2 DEF CommandIsExecuted, ShutdownIsLast, Event
  <2> QED BY <1>1, <2>1, <2>2, <2>3 DEF OneCommandAtATime, CommandIsAnswered
<1>4. RowsTyped'
  BY <1>1 DEF RowsTyped, rows
<1> QED BY <1>2, <1>3, <1>4 DEF TuiInvariant, Open

\* The worker is joined when it has ended.
LEMMA CloseInvariant ==
    ASSUME TuiInvariant, Close
    PROVE  TuiInvariant'
<1>1. /\ Founded(session) /\ NothingWaits(session) /\ RowsTyped
      /\ ShutdownIsLast /\ executing.result = "ended"
      /\ session' = [session EXCEPT !.phase = "closed"]
      /\ UNCHANGED <<requests, executing, replies, rows>>
  BY DEF TuiInvariant, Close, Open
<1>2. /\ Founded(session)' /\ NothingWaits(session)' /\ session'.phase = "closed"
      /\ session'.active = session.active /\ session'.id = session.id
  BY <1>1, PhaseKeepsFounded
<1>3. executing = Ended
  BY <1>1 DEF ShutdownIsLast, NotExecuting
<1>4. ShutdownIsLast' /\ RowsTyped'
  BY <1>1, <1>2 DEF ShutdownIsLast, NothingIsOwed, RowsTyped, Event, rows
<1> QED BY <1>1, <1>2, <1>3, <1>4 DEF TuiInvariant, Open

\* Every step keeps the invariant.
LEMMA TuiInvariantNext ==
    ASSUME TuiInvariant, [TuiNext]_tuiVars
    PROVE  TuiInvariant'
<1>1. Founded(session) /\ NothingWaits(session) /\ RowsTyped
      /\ (Open => OneCommandAtATime)
  BY DEF TuiInvariant
<1>2. ASSUME Open, session'.phase = session.phase,
             Founded(session)', NothingWaits(session)', OneCommandAtATime', UNCHANGED rows
      PROVE  TuiInvariant'
  BY <1>1, <1>2 DEF TuiInvariant, RowsTyped, Open, rows
<1>3. CASE ReceiveEvent
  <2>1. NothingWaits(session)'
    BY <1>1, <1>3, EventKeepsCommand DEF NothingWaits, ReceiveEvent
  <2>2. Open /\ UNCHANGED rows
    BY <1>3 DEF ReceiveEvent
  <2> QED BY <1>1, <1>2, <1>3, <2>1, <2>2, EventKeepsCommand
<1>4. CASE ReceiveFinished
  <2>1. Open /\ UNCHANGED rows
    BY <1>4 DEF ReceiveFinished
  <2> QED BY <1>1, <1>2, <1>4, <2>1, FinishedStartsNext
<1>5. CASE Key
  <2>1. PICK t : Press(t) /\ KeepsCommand(t) /\ KeepsConsistent(t)
    BY <1>1, <1>5, KeyFounded
  <2>2. /\ Founded(t) /\ t.active = session.active /\ t.id = session.id
        /\ t.phase = session.phase
    BY <2>1 DEF KeepsCommand
  <2>3. Open /\ UNCHANGED rows
    BY <2>1 DEF Press
  <2> QED BY <1>1, <1>2, <2>1, <2>2, <2>3, PressInvariant
<1>6. CASE Leave \/ TerminalFails \/ Close
  BY <1>6, ShutDownInvariant, CloseInvariant DEF Leave, TerminalFails
<1>7. CASE Worker
  <2>1. CASE Open
    <3>1. OneCommandAtATime' /\ RowsTyped' /\ session' = session
      BY <1>7, <2>1, WorkerKeepsCommand
    <3> QED BY <1>1, <2>1, <3>1 DEF TuiInvariant, Founded, NothingWaits, Open
  <2>2. CASE ~Open
    <3>1. ShutdownIsLast' /\ RowsTyped' /\ session' = session /\ session.phase # "closed"
      BY <1>7, <2>2, WorkerKeepsShutdown
    <3> QED BY <1>1, <2>2, <3>1 DEF TuiInvariant, Founded, NothingWaits, Open
  <2> QED BY <2>1, <2>2
<1>8. CASE UNCHANGED tuiVars
  BY <1>8
     DEF TuiInvariant, Founded, NothingWaits, RowsTyped, OneCommandAtATime,
         NothingOnItsWay, CommandIsSent, CommandIsExecuted, CommandIsAnswered,
         ShutdownIsLast, NothingIsOwed, EntriesAreCurrent, Event, Answers, Open,
         tuiVars, rows
<1> QED BY <1>3, <1>4, <1>5, <1>6, <1>7, <1>8 DEF TuiNext, Loop

\* What concerns neither what is shown nor what is awaited does not disturb it.
LEMMA OthersKeepConsistent ==
    ASSUME Consistent(session), grouped' = grouped, NEW t, session' = t,
           SameSelection(session, t), SameSystems(session, t),
           SamePlace(session, t), t.queued = session.queued
    PROVE  Consistent(session)'
<1>1. Consistent(t)
  BY ModeConsistent DEF SamePlace
<1> QED BY <1>1, ConsistentPrime

\* A System that is created while nothing else goes on is not listed yet.
LEMMA CreatedConsistent ==
    ASSUME Consistent(session), session' = session, grouped \subseteq grouped',
           session.active # NoRequest, session.active.kind = "create"
    PROVE  Consistent(session)'
<1>1. Awaited(session)' = Awaited(session) /\ Alone(session)' = Alone(session)
  BY DEF Awaited, Alone
<1>2. session.active \in Awaited(session)
  BY DEF Awaited
<1>3. ~AwaitsNo(session, {"create"})
  BY <1>2 DEF AwaitsNo
<1>4. session.queued = << >>
  BY <1>3 DEF Consistent, SystemsAreFounded, TabsAreFounded, Alone
<1>5. \A request \in Awaited(session) : request.kind = "create"
  BY <1>4 DEF Awaited, NamesOf
<1>6. FormsRunNext(session)' /\ SelectionIsFounded(session)' /\ MismatchIsMended(session)'
  BY <1>1
     DEF Consistent, FormsRunNext, SelectionIsFounded, AwaitsNo, MismatchIsMended, Mismatched
<1>7. DetailsExist(session)'
  BY DEF Consistent, SystemsAreFounded, DetailsExist
<1>8. SystemsAreCurrent(session)'
  BY <1>1, <1>3 DEF SystemsAreCurrent, AwaitsNo
<1>9. ReadsAreOfSelection(session)'
  BY <1>1, <1>5 DEF ReadsAreOfSelection
<1>10. TabsAreFounded(session)'
  BY <1>1 DEF Consistent, SystemsAreFounded, TabsAreFounded, AwaitsNo
<1> QED BY <1>6, <1>7, <1>8, <1>9, <1>10 DEF Consistent, SystemsAreFounded

SessionIsConsistent == Consistent(session)

\* Every step keeps what is selected and what is shown of it consistent.
LEMMA SessionIsConsistentNext ==
    ASSUME TuiInvariant, SessionIsConsistent, [TuiNext]_tuiVars
    PROVE  SessionIsConsistent'
<1> USE DEF SessionIsConsistent
<1>1. /\ Founded(session) /\ NothingWaits(session) /\ (Open => OneCommandAtATime)
      /\ session \in Sessions
  BY DEF TuiInvariant, Founded
<1>2. CASE ReceiveEvent
  <2>1. session' = session \/ session' = [session EXCEPT !.log = session'.log]
    <3>1. CASE session' = [session EXCEPT !.log.lines = @ + 1]
      BY <1>1, <3>1 DEF Sessions
    <3> QED BY <1>2, <3>1 DEF ReceiveEvent
  <2>2. PICK t : t = session'
    OBVIOUS
  <2>3. SamePlace(session, t) /\ t.queued = session.queued
    BY <1>1, <2>1, <2>2 DEF Sessions, SamePlace
  <2>4. SameSelection(session, t) /\ SameSystems(session, t)
    BY <1>1, <2>1, <2>2 DEF Sessions, SameSelection, SameSystems
  <2>5. grouped' = grouped
    BY <1>2 DEF ReceiveEvent, rows
  <2> QED BY <2>2, <2>3, <2>4, <2>5, OthersKeepConsistent
<1>3. CASE ReceiveFinished
  BY <1>1, <1>3, FinishedStartsNext DEF ReceiveFinished
<1>4. CASE Key
  <2>1. PICK t : Press(t) /\ KeepsCommand(t) /\ KeepsConsistent(t)
    BY <1>1, <1>4, KeyFounded
  <2>2. Consistent(Dispatched(t))
    BY <1>1, <2>1, DispatchedConsistent DEF KeepsCommand, KeepsConsistent
  <2>3. session' = Dispatched(t) /\ grouped' = grouped
    BY <2>1 DEF Press, Continue, rows
  <2> QED BY <2>2, <2>3, ConsistentPrime
<1>5. CASE Leave \/ TerminalFails \/ Close
  <2>1. PICK phase \in {"leaving", "failed", "closed"} :
            session' = [session EXCEPT !.phase = phase] /\ grouped' = grouped
    BY <1>5 DEF Leave, TerminalFails, ShutDown, Close, rows
  <2>2. PICK t : t = session'
    OBVIOUS
  <2>3. SamePlace(session, t) /\ t.queued = session.queued
    BY <1>1, <2>1, <2>2 DEF Sessions, SamePlace
  <2>4. SameSelection(session, t) /\ SameSystems(session, t)
    BY <1>1, <2>1, <2>2 DEF Sessions, SameSelection, SameSystems
  <2> QED BY <2>1, <2>2, <2>3, <2>4, OthersKeepConsistent
<1>6. CASE Worker
  <2>1. session' = session
    BY <1>6, WorkerKeepsCommand, WorkerKeepsShutdown
  <2>2. CASE grouped' = grouped
    BY <2>1, <2>2, ConsistentPrime
  <2>3. CASE WorkerSucceeds /\ executing.request.kind = "create"
    <3>1. NotExecuting.result = "idle" /\ executing.result = "pending"
      BY <2>3 DEF WorkerSucceeds, NotExecuting
    <3>2. Open => CommandIsExecuted
      BY <1>1, <3>1 DEF OneCommandAtATime, NothingOnItsWay, CommandIsSent, CommandIsAnswered
    <3>3. session.active # NoRequest /\ executing.request = session.active
      BY <1>6, <2>3, <3>2, WorkerKeepsShutdown DEF CommandIsExecuted
    <3>4. grouped \subseteq grouped'
      BY <2>3 DEF WorkerSucceeds
    <3> QED BY <2>1, <2>3, <3>3, <3>4, CreatedConsistent
  <2>4. grouped' = grouped \/ (WorkerSucceeds /\ executing.request.kind = "create")
    <3>1. CASE \/ WorkerReceives \/ WorkerReportsEvent \/ WorkerFails
               \/ WorkerReplies \/ WorkerEnds
      <4>1. UNCHANGED rows
        BY <3>1 DEF WorkerReceives, WorkerReportsEvent, WorkerFails, WorkerReplies, WorkerEnds
      <4> QED BY <4>1 DEF rows
    <3>2. CASE WorkerSucceeds
      <4>1. grouped' = grouped \cup (IF executing.request.kind = "create"
                                     THEN {executing.request.name} ELSE {})
        BY <3>2 DEF WorkerSucceeds
      <4>2. executing.request.kind # "create" => grouped' = grouped
        BY <4>1
      <4> QED BY <3>2, <4>2
    <3> QED BY <1>6, <3>1, <3>2 DEF Worker
  <2> QED BY <2>2, <2>3, <2>4
<1>7. CASE UNCHANGED tuiVars
  BY <1>7, ConsistentPrime DEF tuiVars, rows
<1> QED BY <1>2, <1>3, <1>4, <1>5, <1>6, <1>7 DEF TuiNext, Loop

\* One command at a time is on its way, whatever the operator types, whatever
\* the worker answers and wherever the terminal fails.
THEOREM TuiInvariantHolds == TuiSpec => []TuiInvariant
<1>1. TuiInit => TuiInvariant
  BY TuiInvariantInit
<1>2. TuiInvariant /\ [TuiNext]_tuiVars => TuiInvariant'
  BY TuiInvariantNext
<1> QED BY <1>1, <1>2, PTL DEF TuiSpec

\* What is selected and what is shown of it stay consistent, through every order
\* of keys, results and failures.
THEOREM SessionAlwaysConsistent == TuiSpec => []SessionIsConsistent
<1>1. TuiInit => SessionIsConsistent
  BY TuiInvariantInit DEF SessionIsConsistent
<1>2. TuiInvariant /\ SessionIsConsistent /\ [TuiNext]_tuiVars => SessionIsConsistent'
  BY SessionIsConsistentNext
<1> QED BY <1>1, <1>2, TuiInvariantHolds, PTL DEF TuiSpec

-------------------------------------------------------------------------------
(* What the operator can rely on *)

\* The session, its queue and its channels are always well formed: the channel
\* to the worker holds one request at most, and only the shutdown behind it.
THEOREM TuiTypeCorrect == TuiSpec => []TuiTypeOK
<1>1. ASSUME TuiInvariant PROVE TuiTypeOK
  <2>1. session \in Sessions
    BY <1>1 DEF TuiInvariant, Founded
  <2>2. session.active \in Requests \cup {NoRequest} /\ session.queued \in Seq(Requests)
    BY <2>1 DEF Sessions, Asked
  <2>3. session.mode.is \in {"normal", "confirm", "form", "deploy"}
    BY <2>1 DEF Sessions, Modes
  <2>4. session.log.of \in AllApplications \cup {None}
    BY <2>1 DEF Sessions, Logs
  <2>5. Len(requests) <= (IF Open THEN 1 ELSE 2)
    <3>1. CASE Open
      <4>1. Len(requests) = 0 \/ Len(requests) = 1
        BY <1>1, <3>1
           DEF TuiInvariant, OneCommandAtATime, NothingOnItsWay, CommandIsSent,
               CommandIsExecuted, CommandIsAnswered
      <4>2. Len(requests) <= 1
        BY <4>1
      <4> QED BY <3>1, <4>2
    <3>2. CASE ~Open
      <4>1. Len(requests) = 0 \/ Len(requests) = 1 \/ Len(requests) = 2
        BY <1>1, <3>2 DEF TuiInvariant, ShutdownIsLast
      <4>2. 0 <= 2 /\ 1 <= 2 /\ 2 <= 2
        OBVIOUS
      <4> QED BY <3>2, <4>1, <4>2, Zenon
    <3> QED BY <3>1, <3>2
  <2>6. /\ session.tab \in Tabs /\ session.focus \in {"listing", "log"}
        /\ session.selected \in AllApplications \cup {None}
        /\ session.selectedSystem \in AllSystems \cup {None}
        /\ session.phase \in {"open", "leaving", "failed", "closed"}
    BY <2>1 DEF Sessions
  <2>7. \A i \in DOMAIN session.queued : session.queued[i] \in Requests
    BY <2>2
  <2> QED BY <1>1, <2>2, <2>3, <2>4, <2>5, <2>6, <2>7
             DEF TuiTypeOK, TuiInvariant, RowsTyped
<1> QED BY <1>1, TuiInvariantHolds, PTL

\* No reply ever finds a session that does not wait for it: the errors for a
\* reply out of order cannot be reached.
THEOREM EveryReplyIsExpected == TuiSpec => []RepliesAreExpected
<1>1. ASSUME TuiInvariant PROVE RepliesAreExpected
  <2>1. ASSUME Open, replies # << >> PROVE IsExpected
    <3>1. session.active # NoRequest
          /\ (NextReply = Event(session.id) \/ NextReply \in Answers(session.id))
      BY <1>1, <2>1, NextReplies DEF TuiInvariant
    <3>2. NextReply.id = session.id
      BY <3>1 DEF Event, Answers
    <3> QED BY <3>1, <3>2 DEF IsExpected
  <2> QED BY <2>1 DEF RepliesAreExpected
<1> QED BY <1>1, TuiInvariantHolds, PTL

\* An action that was confirmed waits for the command that is on its way and
\* for nothing else.
THEOREM ActionAlwaysRunsNext == TuiSpec => []ActionRunsNext
<1>1. TuiInvariant => ActionRunsNext
  BY DEF TuiInvariant, Founded, QueueIsFounded, ActionRunsNext
<1> QED BY <1>1, TuiInvariantHolds, PTL

\* The retained log is running exactly while its deployment is.
THEOREM LogAlwaysFollows == TuiSpec => []LogFollowsDeployment
<1>1. TuiInvariant => LogFollowsDeployment
  BY DEF TuiInvariant, Founded, LogIsFounded, LogFollowsDeployment
<1> QED BY <1>1, TuiInvariantHolds, PTL

\* However the session ends, the worker meets the shutdown behind the command
\* that was on its way, and ends with its result sent.
THEOREM NeverAbandons == TuiSpec => []NoCommandAbandoned
<1>1. TuiInvariant => NoCommandAbandoned
  <2>1. Ended # NotExecuting /\ Ended.result = "ended"
    BY DEF Ended, NotExecuting
  <2> QED BY <2>1
    DEF TuiInvariant, ShutdownIsLast, NothingIsOwed, NoCommandAbandoned, Open
<1> QED BY <1>1, TuiInvariantHolds, PTL

\* When nothing is loading, the selected Application is one of those listed: the
\* one that was imported while an action was confirmed is read with its result.
THEOREM SelectionAlwaysListed == TuiSpec => []SelectionIsListed
<1>1. SessionIsConsistent => SelectionIsListed
  <2>1. Idle => Awaited(session) = {}
    BY DEF Idle, IsBusy, Awaited, NamesOf
  <2> QED BY <2>1
    DEF SessionIsConsistent, Consistent, SelectionIsFounded, SelectionIsListed, AwaitsNo
<1> QED BY <1>1, SessionAlwaysConsistent, PTL

\* When nothing is loading, the details beside the Systems are those of the one
\* that is selected.
THEOREM DetailsAlwaysOfSelection == TuiSpec => []DetailsAreOfSelection
<1>1. SessionIsConsistent => DetailsAreOfSelection
  BY DEF SessionIsConsistent, Consistent, MismatchIsMended, Mismatched,
         DetailsAreOfSelection
<1> QED BY <1>1, SessionAlwaysConsistent, PTL

\* What is dispatched keeps the log, or starts an empty one.
LEMMA DispatchedLog ==
    ASSUME NEW s, Founded(s)
    PROVE  Dispatched(s).log = s.log \/ Rows(Dispatched(s).log) = 0
<1>1. s \in Sessions
  BY DEF Founded
<1>2. CASE s.active # NoRequest \/ s.queued = << >>
  BY <1>2 DEF Dispatched
<1>3. CASE ~(s.active # NoRequest \/ s.queued = << >>)
  <2> DEFINE request == Head(s.queued)
             log == IF IsDeployment(request) THEN NewLog(request.name) ELSE s.log
  <2>1. Dispatched(s) = [s EXCEPT !.active = request, !.queued = Tail(s.queued),
                                  !.id = (s.id + 1) % 2, !.log = log]
    BY <1>3 DEF Dispatched
  <2>2. \A n : Rows(NewLog(n)) = 0
    BY DEF Rows, NewLog, NoLog
  <2>3. log = s.log \/ Rows(log) = 0
    BY <2>2
  <2> HIDE DEF request, log
  <2>4. Dispatched(s).log = log
    BY <1>1, <2>1 DEF Sessions
  <2> QED BY <2>3, <2>4
<1> QED BY <1>2, <1>3

\* A log that grows below an anchored view is rendered from the same row.
LEMMA AnchoredOffset ==
    ASSUME NEW old \in Logs, NEW new \in Logs, ~old.follow, ~new.follow,
           new.scroll = old.scroll, old.scroll <= MaxScroll(old), Rows(new) > Rows(old)
    PROVE  RenderOffset(new) = RenderOffset(old)
<1>1. Rows(old) \in Nat /\ Rows(new) \in Nat /\ Viewport \in Nat /\ old.scroll \in Nat
  BY BoundsAssumption DEF Rows, Logs
<1>2. MaxScroll(old) \in Nat /\ MaxScroll(new) \in Nat /\ MaxScroll(old) <= MaxScroll(new)
  BY <1>1 DEF MaxScroll
<1>3. Least(old.scroll, MaxScroll(old)) = old.scroll
      /\ Least(old.scroll, MaxScroll(new)) = old.scroll
  BY <1>1, <1>2 DEF Least
<1> QED BY <1>3 DEF RenderOffset

\* What scrolled up stays where it is, however many events arrive and however
\* the deployment ends.
THEOREM AnchoredViewAlwaysStays == TuiSpec => AnchoredViewStays
<1> DEFINE Grows == ~session.log.follow /\ Rows(session'.log) > Rows(session.log)
           Stays == RenderOffset(session'.log) = RenderOffset(session.log)
<1>1. ASSUME TuiInvariant, [TuiNext]_tuiVars, Grows PROVE Stays
  <2>1. /\ session \in Sessions /\ session.log \in Logs /\ Founded(session)
        /\ session.log.scroll <= MaxScroll(session.log)
        /\ Rows(session.log) \in Nat
    <3>1. session \in Sessions /\ session.log \in Logs /\ Founded(session)
      BY <1>1 DEF TuiInvariant, Founded, Sessions
    <3>2. session.log.scroll <= MaxScroll(session.log)
      BY <1>1, <3>1 DEF Founded, LogIsFounded
    <3> QED BY <3>1, <3>2 DEF Rows, Logs
  <2>2. session'.log # session.log /\ Rows(session'.log) # 0
    BY <1>1, <2>1
  <2>3. ASSUME NEW log \in Logs, log.scroll = session.log.scroll,
               log.follow = session.log.follow, session'.log = log
        PROVE  Stays
    BY <1>1, <2>1, <2>3, AnchoredOffset
  <2>4. CASE ReceiveEvent
    <3> DEFINE log == [session.log EXCEPT !.lines = @ + 1]
    <3>1. session' = session \/ session' = [session EXCEPT !.log = log]
      BY <2>1, <2>4 DEF ReceiveEvent, Sessions
    <3>2. log \in Logs /\ log.scroll = session.log.scroll /\ log.follow = session.log.follow
      BY <2>1 DEF Logs
    <3> HIDE DEF log
    <3>3. session'.log = log
      BY <2>1, <2>2, <3>1 DEF Sessions
    <3> QED BY <2>3, <3>2, <3>3
  <2>5. CASE ReceiveFinished
    <3>1. OneCommandAtATime
      BY <1>1, <2>5 DEF TuiInvariant, ReceiveFinished
    <3>2. PICK s : Resulting(s)
      BY <2>1, <2>5, <3>1, FinishedStartsNext
    <3>3. session'.log = s.log
      BY <2>2, <3>2, DispatchedLog DEF Resulting
    <3> QED BY <2>3, <3>2, <3>3 DEF Resulting
  <2>6. CASE Key
    <3>1. PICK t : Press(t) /\ KeepsCommand(t) /\ KeepsConsistent(t)
      BY <2>1, <2>6, KeyFounded
    <3>2. session' = Dispatched(t) /\ Rows(t.log) = Rows(session.log) /\ Founded(t)
      BY <3>1 DEF Press, Continue, KeepsCommand
    <3>3. Rows(session'.log) = Rows(session.log) \/ Rows(session'.log) = 0
      BY <3>2, DispatchedLog
    <3> QED BY <1>1, <2>1, <2>2, <3>3
  <2>7. CASE Leave \/ TerminalFails \/ Close
    <3>1. session'.log = session.log
      BY <2>1, <2>7 DEF Leave, TerminalFails, ShutDown, Close, Sessions
    <3> QED BY <2>2, <3>1
  <2>8. CASE Worker \/ UNCHANGED tuiVars
    <3>1. session' = session
      BY <2>8
         DEF Worker, WorkerReceives, WorkerReportsEvent, WorkerSucceeds, WorkerFails,
             WorkerReplies, WorkerEnds, tuiVars
    <3> QED BY <2>2, <3>1
  <2> QED BY <1>1, <2>4, <2>5, <2>6, <2>7, <2>8 DEF TuiNext, Loop
<1>2. TuiInvariant /\ [TuiNext]_tuiVars
          => [~session.log.follow /\ Rows(session'.log) > Rows(session.log)
                 => RenderOffset(session'.log) = RenderOffset(session.log)]_tuiVars
  BY <1>1
<1> QED BY <1>2, TuiInvariantHolds, PTL DEF TuiSpec, AnchoredViewStays

\* An action that was confirmed is started when the command on its way returns:
\* no read, no result and no key but a later action or a quit takes its place.
THEOREM NoActionEverLost == TuiSpec => NoActionIsLost
<1> DEFINE Kept(i) ==
               \/ session'.active = session.queued[i]
               \/ ActionWaits(session)'
               \/ session'.quitting
<1>1. ASSUME TuiInvariant, [TuiNext]_tuiVars, NEW i \in DOMAIN session.queued,
             IsAction(session.queued[i])
      PROVE  Kept(i)
  <2>1. /\ session \in Sessions /\ Founded(session) /\ ActionWaits(session)
        /\ Len(session.queued) = 1 /\ i = 1 /\ session.queued # << >>
    <3>1. session \in Sessions /\ Founded(session) /\ Len(session.queued) = 1
      BY <1>1 DEF TuiInvariant, Founded, QueueIsFounded
    <3>2. session.queued \in Seq(Asked)
      BY <3>1 DEF Sessions
    <3> QED BY <1>1, <3>1, <3>2 DEF ActionWaits
  <2>2. session.active # NoRequest
    BY <1>1, <2>1 DEF TuiInvariant, NothingWaits
  <2>3. CASE session'.queued = session.queued
    BY <2>1, <2>3 DEF ActionWaits
  <2>4. CASE ReceiveEvent
    BY <1>1, <2>1, <2>3, <2>4, EventKeepsCommand DEF TuiInvariant, ReceiveEvent
  <2>5. CASE ReceiveFinished
    <3>1. OneCommandAtATime
      BY <1>1, <2>5 DEF TuiInvariant, ReceiveFinished
    <3>2. PICK s : Resulting(s)
      BY <2>1, <2>5, <3>1, FinishedStartsNext
    <3>3. session'.active = Head(s.queued)
      BY <2>1, <3>2 DEF Resulting, Dispatched, Founded, Sessions
    <3> QED BY <2>1, <3>2, <3>3 DEF Resulting, Sessions
  <2>6. CASE Key
    <3>1. PICK t : Press(t) /\ KeepsCommand(t)
      BY <2>1, <2>6, KeyFounded
    <3>2. session' = t
      BY <2>2, <3>1 DEF Press, Continue, Dispatched, KeepsCommand
    <3> QED BY <2>1, <3>1, <3>2 DEF KeepsCommand
  <2>7. CASE Leave \/ TerminalFails \/ Close
    <3>1. session'.queued = session.queued
      BY <2>1, <2>7 DEF Leave, TerminalFails, ShutDown, Close, Sessions
    <3> QED BY <2>3, <3>1
  <2>8. CASE Worker \/ UNCHANGED tuiVars
    <3>1. session' = session
      BY <2>8
         DEF Worker, WorkerReceives, WorkerReportsEvent, WorkerSucceeds, WorkerFails,
             WorkerReplies, WorkerEnds, tuiVars
    <3> QED BY <2>3, <3>1
  <2> QED BY <1>1, <2>4, <2>5, <2>6, <2>7, <2>8 DEF TuiNext, Loop
<1>2. TuiInvariant /\ [TuiNext]_tuiVars
          => [\A i \in DOMAIN session.queued :
                  IsAction(session.queued[i]) =>
                      \/ session'.active = session.queued[i]
                      \/ \E j \in DOMAIN session'.queued : IsAction(session'.queued[j])
                      \/ session'.quitting]_tuiVars
  BY <1>1 DEF ActionWaits
<1> QED BY <1>2, TuiInvariantHolds, PTL DEF TuiSpec, NoActionIsLost

===============================================================================
