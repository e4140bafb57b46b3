---------------------------------- MODULE Tui ----------------------------------
(***************************************************************************)
(* `pneuma tui`: a presentation thread that owns the session (what is      *)
(* selected, loaded, queued and asked of the operator) and one worker      *)
(* thread that executes one command at a time.  They talk over two         *)
(* channels: `requests` to the worker, `replies` back.                     *)
(*                                                                         *)
(* The loop of the presentation thread drains the replies, leaves if it    *)
(* may, draws, and handles at most one key.  A reply that arrives between  *)
(* the drain and the key commutes with the key, which does not look at the *)
(* channel, so a key is handled only when the channel is empty, and the    *)
(* dispatch the next drain begins with is part of the key's step.          *)
(*                                                                         *)
(* A request is its command, its Application or System, and for an import  *)
(* the System of the form.  What a form's text says is its valid values.   *)
(* `start` and `stop` are "control", the two visibilities "visibility",    *)
(* the deployment of a branch, of an image and a rollback "deploy".        *)
(***************************************************************************)
EXTENDS Naturals, Sequences, FiniteSets

CONSTANTS
    ApplicationOrder,   \* the names of all Applications, as a listing sorts them
    SystemOrder,        \* the names of all Systems
    FirstApplications,  \* registered when the session starts
    FirstSystems,
    MaxEvents,          \* deployment events of one command
    Viewport,           \* rows of the log panel
    MaxKeys,            \* keys the operator presses
    None                \* no Application, no System

NamesOf(order) == {order[i] : i \in DOMAIN order}
AllApplications == NamesOf(ApplicationOrder)
AllSystems == NamesOf(SystemOrder)

ASSUME NamesAssumption ==
    /\ None \notin AllApplications \cup AllSystems
    /\ FirstApplications \subseteq AllApplications
    /\ FirstSystems \subseteq AllSystems
ASSUME OrdersAssumption ==
    ApplicationOrder \in Seq(AllApplications) /\ SystemOrder \in Seq(AllSystems)
ASSUME BoundsAssumption == {MaxEvents, MaxKeys} \subseteq Nat /\ Viewport \in Nat \ {0}

VARIABLES
    session,     \* Session
    requests,    \* Worker::requests, the channel to the worker
    executing,   \* what the worker thread executes
    replies,     \* Worker::replies, the channel back
    catalogued,  \* the rows of `applications`, by name
    grouped,     \* the rows of `systems`, by name
    pressed      \* how many keys so far

rows == <<catalogued, grouped>>
tuiVars == <<session, requests, executing, replies, rows, pressed>>

-------------------------------------------------------------------------------
(* Requests, query states, modes and the log *)

Tabs == {"systems", "applications", "deployments"}
ReadKinds == {"systems", "show", "catalog", "deployments", "status"}
ScopedKinds == {"control", "reconcile", "visibility", "deploy"}
ActionKinds == ScopedKinds \cup {"create", "import"}

Names == AllApplications \cup AllSystems \cup {None}
Requests == [kind: ReadKinds \cup ActionKinds, name: Names, system: AllSystems \cup {None}]
Request(kind, name) == [kind |-> kind, name |-> name, system |-> None]
NoRequest == Request("none", None)

\* WorkerRequest::Shutdown, the last message to the worker.
Shutdown == [id |-> 0, request |-> NoRequest]

IsAction(request) == request.kind \in ActionKinds
IsDeployment(request) == request.kind = "deploy"

\* QueryState: what is ready is a listing or what belongs to a name.
Query(is, of) == [is |-> is, of |-> of]
Loading == Query("loading", None)
Ready(of) == Query("ready", of)

Normal == [is |-> "normal", request |-> NoRequest]

NoLog == [of |-> None, state |-> "none", lines |-> 0, scroll |-> 0, follow |-> TRUE]
NewLog(application) == [NoLog EXCEPT !.of = application, !.state = "running"]

\* A failed log has one more row, its error.
Rows(log) == log.lines + (IF log.state = "failed" THEN 1 ELSE 0)
MaxScroll(log) == IF Rows(log) > Viewport THEN Rows(log) - Viewport ELSE 0

\* Mutation of RenderOffset: the panel always follows.
FollowOffset(log) == MaxScroll(log)

Least(m, n) == IF m < n THEN m ELSE n
RenderOffset(log) ==
    IF log.follow THEN MaxScroll(log) ELSE Least(log.scroll, MaxScroll(log))

\* The names that are present, in their order.
Before(order, m, n) == \E i, j \in DOMAIN order : i < j /\ order[i] = m /\ order[j] = n
Listings(order, present) ==
    {entries \in UNION {[1..n -> present] : n \in 0..Len(order)} :
        /\ NamesOf(entries) = present
        /\ \A i, j \in DOMAIN entries : i < j => Before(order, entries[i], entries[j])}

-------------------------------------------------------------------------------
(* The session *)

Enqueue(s, kind, name) == [s EXCEPT !.queued = Append(@, Request(kind, name))]

IsBusy(s) == s.active # NoRequest \/ s.queued # << >>

ActionIsPending(s) ==
    IsAction(s.active) \/ \E i \in DOMAIN s.queued : IsAction(s.queued[i])

\* Mutation of Dispatched: the worker's channel may hold the queue.
DispatchedAnyway(s) ==
    IF s.queued = << >> THEN s
    ELSE [s EXCEPT !.active = Head(s.queued), !.queued = Tail(s.queued), !.id = (@ + 1) % 2]

\* Mutation of Dispatched: nothing is started once the session is quitting.
DispatchedUnlessQuitting(s) ==
    IF s.active # NoRequest \/ s.queued = << >> \/ s.quitting THEN s
    ELSE [s EXCEPT !.active = Head(s.queued), !.queued = Tail(s.queued), !.id = (@ + 1) % 2]

\* dispatch_next, with the log of a deployment
Dispatched(s) ==
    IF s.active # NoRequest \/ s.queued = << >> THEN s
    ELSE [s EXCEPT !.active = Head(s.queued), !.queued = Tail(s.queued),
                   !.id = (@ + 1) % 2,
                   !.log = IF IsDeployment(Head(s.queued))
                           THEN NewLog(Head(s.queued).name) ELSE @]

\* The step leads to session s and hands its next request to the worker.
Continue(s) ==
    /\ session' = Dispatched(s)
    /\ requests' = IF Dispatched(s) = s THEN requests
                   ELSE Append(requests, [id |-> Dispatched(s).id,
                                          request |-> Dispatched(s).active])

LoadObservations(s, application) ==
    LET loading == [s EXCEPT !.observed = application,
                             !.deployments = Loading, !.runtime = Loading]
    IN  Enqueue(Enqueue(loading, "deployments", application), "status", application)

EnsureObservationsLoaded(s) ==
    IF IsBusy(s) \/ s.selected \in {None, s.observed} THEN s
    ELSE LoadObservations(s, s.selected)

LoadSystemDetails(s) ==
    Enqueue([s EXCEPT !.details = Loading, !.detailsTarget = s.selectedSystem],
            "show", s.selectedSystem)

DetailsMatchSelection(s) ==
    \/ s.details = Ready(s.selectedSystem)
    \/ s.details = Loading /\ s.detailsTarget = s.selectedSystem

\* Mutation of EnsureSystemDetailsLoaded: details are loaded once.
LoadDetailsOnce(s) ==
    IF IsBusy(s) \/ s.selectedSystem = None \/ s.details.is # "idle" THEN s
    ELSE LoadSystemDetails(s)

EnsureSystemDetailsLoaded(s) ==
    IF IsBusy(s) \/ s.selectedSystem = None \/ DetailsMatchSelection(s) THEN s
    ELSE LoadSystemDetails(s)

RefreshListing(s, listing) ==
    IF IsBusy(s) THEN s
    ELSE IF listing = "systems" THEN Enqueue([s EXCEPT !.systems = Loading], "systems", None)
    ELSE Enqueue([s EXCEPT !.catalog = Loading], "catalog", None)

RefreshSystemDetails(s) ==
    IF IsBusy(s) \/ s.selectedSystem = None THEN s ELSE LoadSystemDetails(s)

RefreshDetails(s) ==
    IF IsBusy(s) \/ s.selected = None THEN s ELSE LoadObservations(s, s.selected)

\* Mutation of ExecuteAction: a confirmed action waits for its turn.
QueueAction(s, request) == [s EXCEPT !.mode = Normal, !.queued = Append(@, request)]

\* A confirmed action takes the place of everything that waits.
ExecuteAction(s, request) == [s EXCEPT !.mode = Normal, !.queued = <<request>>]

RequestQuit(s) == [s EXCEPT !.mode = Normal, !.queued = << >>, !.quitting = TRUE]

PreservedSelection(entries, previous) ==
    IF previous \in NamesOf(entries) THEN previous
    ELSE IF entries = << >> THEN None ELSE Head(entries)

NextSelection(entries, current, movement) ==
    IF entries = << >> THEN None
    ELSE IF current \in NamesOf(entries) THEN
        LET index == CHOOSE i \in DOMAIN entries : entries[i] = current
            next == IF movement = "down" THEN index + 1 ELSE index - 1
        IN  IF next \in DOMAIN entries THEN entries[next] ELSE current
    ELSE IF movement = "down" THEN entries[1] ELSE entries[Len(entries)]

-------------------------------------------------------------------------------
(* Results of the worker *)

ApplySystems(s, entries) ==
    EnsureSystemDetailsLoaded(
        [s EXCEPT !.selectedSystem = PreservedSelection(entries, @),
                  !.systems = Ready(entries)])

ApplyCatalog(s, entries) ==
    EnsureObservationsLoaded(
        [s EXCEPT !.selected = PreservedSelection(entries, @),
                  !.catalog = Ready(entries)])

\* Mutation of RefreshAfterImport: only the System that gained a member is read.
RefreshGroupAfterImport(s, system) ==
    Enqueue([s EXCEPT !.systems = Loading], "systems", None)

RefreshAfterImport(s, system) ==
    LET catalog == Enqueue([s EXCEPT !.catalog = Loading], "catalog", None)
        systems == Enqueue([catalog EXCEPT !.systems = Loading], "systems", None)
    IN  IF system = None THEN catalog
        ELSE IF s.details.is # "ready" THEN systems
        ELSE Enqueue([systems EXCEPT !.details = Loading], "show", system)

\* Mutation of RefreshAfterAction: a refresh starts from an empty queue.
RefreshFromScratch(s, action) ==
    IF s.quitting THEN s
    ELSE Enqueue([s EXCEPT !.queued = << >>, !.catalog = Loading], "catalog", None)

RefreshAfterAction(s, action) ==
    LET catalog == Enqueue([s EXCEPT !.catalog = Loading], "catalog", None)
    IN  IF s.quitting \/ ActionIsPending(s) THEN s
        ELSE CASE action.kind = "create" ->
                    Enqueue([s EXCEPT !.systems = Loading, !.selectedSystem = action.name],
                            "systems", None)
               [] action.kind = "import" -> RefreshAfterImport(s, action.system)
               [] action.kind = "control" ->
                    Enqueue([catalog EXCEPT !.runtime = Loading], "status", action.name)
               [] action.kind = "visibility" -> catalog
               [] OTHER ->
                    Enqueue(Enqueue([catalog EXCEPT !.deployments = Loading,
                                                    !.runtime = Loading],
                                    "deployments", action.name),
                            "status", action.name)

ApplySuccess(s, request, entries) ==
    CASE request.kind = "systems"     -> ApplySystems(s, entries)
      [] request.kind = "catalog"     -> ApplyCatalog(s, entries)
      [] request.kind = "show"        -> [s EXCEPT !.details = Ready(request.name)]
      [] request.kind = "deployments" -> [s EXCEPT !.deployments = Ready(request.name)]
      [] request.kind = "status"      -> [s EXCEPT !.runtime = Ready(request.name)]
      [] request.kind = "control"     ->
            RefreshAfterAction([s EXCEPT !.runtime = Ready(request.name)], request)
      [] request.kind = "import"      ->
            RefreshAfterAction([s EXCEPT !.selected = request.name], request)
      [] OTHER                        -> RefreshAfterAction(s, request)

ApplyError(s, request) ==
    LET failed == Query("failed", request.name)
    IN  CASE request.kind = "systems"     -> [s EXCEPT !.systems = failed]
          [] request.kind = "catalog"     -> [s EXCEPT !.catalog = failed, !.selected = None]
          [] request.kind = "show"        -> [s EXCEPT !.details = failed]
          [] request.kind = "deployments" -> [s EXCEPT !.deployments = failed]
          [] request.kind = "status"      -> [s EXCEPT !.runtime = failed]
          [] OTHER                        -> RefreshAfterAction(s, request)

\* Mutation of FinishLog: a failed deployment leaves its log open.
FinishLogOfSuccess(s, request, ok) ==
    IF IsDeployment(request) /\ ok THEN [s EXCEPT !.log.state = "completed"] ELSE s

FinishLog(s, request, ok) ==
    IF IsDeployment(request) /\ s.log.of = request.name
    THEN [s EXCEPT !.log.state = IF ok THEN "completed" ELSE "failed"]
    ELSE s

-------------------------------------------------------------------------------
(* The presentation thread: replies *)

Open == session.phase = "open"
MayLeave == session.quitting /\ ~IsBusy(session)
NextReply == Head(replies)
IsExpected == session.active # NoRequest /\ NextReply.id = session.id

ReceiveEvent ==
    /\ Open /\ replies # << >> /\ NextReply.is = "event" /\ IsExpected
    /\ replies' = Tail(replies)
    /\ session' = IF IsDeployment(session.active) /\ session.log # NoLog
                  THEN [session EXCEPT !.log.lines = @ + 1] ELSE session
    /\ UNCHANGED <<requests, executing, rows, pressed>>

ReceiveFinished ==
    /\ Open /\ replies # << >> /\ NextReply.is = "finished" /\ IsExpected
    /\ LET request == session.active
           ok == NextReply.result = "ok"
           taken == FinishLog([session EXCEPT !.active = NoRequest], request, ok)
       IN  Continue(IF ok THEN ApplySuccess(taken, request, NextReply.entries)
                          ELSE ApplyError(taken, request))
    /\ replies' = Tail(replies)
    /\ UNCHANGED <<executing, rows, pressed>>

\* Session::shutdown sends the last message, behind whatever waits.
ShutDown(phase) ==
    /\ Open /\ replies = << >>
    /\ session' = [session EXCEPT !.phase = phase]
    /\ requests' = Append(requests, Shutdown)
    /\ UNCHANGED <<executing, replies, rows, pressed>>

\* The loop returns an error: the terminal cannot be drawn on or read from.  So
\* it would for a reply nobody waits for, which RepliesAreExpected excludes.
TerminalFails == ShutDown("failed")

Leave == MayLeave /\ ShutDown("leaving")

\* The worker thread is joined.
Close ==
    /\ session.phase \in {"leaving", "failed"} /\ executing.result = "ended"
    /\ session' = [session EXCEPT !.phase = "closed"]
    /\ UNCHANGED <<requests, executing, replies, rows, pressed>>

-------------------------------------------------------------------------------
(* The presentation thread: keys *)

Idle == ~IsBusy(session)
InMode(mode) == session.mode.is = mode
InListing(tabs) == InMode("normal") /\ session.focus = "listing" /\ session.tab \in tabs

\* The loop reads a key that takes the session to s.
Press(s) ==
    /\ Open /\ replies = << >> /\ ~MayLeave
    /\ pressed < MaxKeys /\ pressed' = pressed + 1
    /\ Continue(s)
    /\ UNCHANGED <<executing, replies, rows>>

\* A confirmation swallows Ctrl-C.
KeyQuit == ~InMode("confirm") /\ Press(RequestQuit(session))

KeySwitchTab(tab) ==
    /\ InMode("normal") /\ Idle /\ session.tab # tab
    /\ LET there == [session EXCEPT !.tab = tab, !.focus = "listing"]
       IN  Press(CASE tab = "systems" -> EnsureSystemDetailsLoaded(there)
                   [] tab = "deployments" -> EnsureObservationsLoaded(there)
                   [] OTHER -> there)

KeySelectSystem(movement) ==
    /\ InListing({"systems"}) /\ Idle /\ session.systems.is = "ready"
    /\ Press(EnsureSystemDetailsLoaded(
           [session EXCEPT !.selectedSystem = NextSelection(session.systems.of, @, movement)]))

KeySelectApplication(movement) ==
    /\ InListing({"applications", "deployments"}) /\ Idle /\ session.catalog.is = "ready"
    /\ Press(EnsureObservationsLoaded(
           [session EXCEPT !.selected = NextSelection(session.catalog.of, @, movement)]))

KeyRefresh ==
    /\ InListing(Tabs) /\ Idle
    /\ Press(IF session.tab = "systems"
             THEN RefreshSystemDetails(RefreshListing(session, "systems"))
             ELSE RefreshDetails(RefreshListing(session, "catalog")))

\* `n` in Systems, `a` in Systems, `n` in Applications.
KeyOpenForm(form) ==
    /\ Idle
    /\ \/ form = Request("create", None) /\ InListing({"systems"})
       \/ /\ session.selectedSystem # None /\ InListing({"systems"})
          /\ form = [Request("import", None) EXCEPT !.system = session.selectedSystem]
       \/ form = Request("import", None) /\ InListing({"applications"})
    /\ Press([session EXCEPT !.mode = [is |-> "form", request |-> form]])

\* `s`, `x`, `c`, `b`, `p` and `i` ask for a confirmation, `d` opens a form.
KeyAct(kind, mode) ==
    /\ InListing({"applications"}) /\ session.selected # None
    /\ mode = "deploy" => kind = "deploy"
    /\ Press([session EXCEPT !.mode =
           [is |-> mode, request |-> Request(kind, session.selected)]])

KeyConfirm == InMode("confirm") /\ Press(ExecuteAction(session, session.mode.request))

\* A form without a branch or an image is not submitted.
KeyDeploy == InMode("deploy") /\ Press(ExecuteAction(session, session.mode.request))

\* A form is submitted with the System it is bound to, or with any.
KeySubmit(name, system) ==
    /\ InMode("form")
    /\ LET form == session.mode.request
       IN  /\ form.kind = "create" => name \in AllSystems /\ system = None
           /\ form.kind = "import" =>
                name \in AllApplications /\ form.system \in {None, system}
           /\ Press(ExecuteAction(session, [form EXCEPT !.name = name, !.system = system]))

KeyCancel == ~InMode("normal") /\ Press([session EXCEPT !.mode = Normal])

LogIsShown == session.log # NoLog /\ session.log.of = session.selected

KeyOpenLog ==
    /\ InListing({"applications"}) /\ LogIsShown
    /\ Press([session EXCEPT !.focus = "log"])

KeyLeaveLog ==
    /\ InMode("normal") /\ session.focus = "log"
    /\ Press([session EXCEPT !.focus = "listing"])

ScrollUp(log) ==
    LET anchored == IF log.follow THEN MaxScroll(log) ELSE log.scroll
    IN  [log EXCEPT !.follow = FALSE, !.scroll = IF anchored = 0 THEN 0 ELSE anchored - 1]

ScrollDown(log) ==
    IF log.follow THEN log
    ELSE IF log.scroll + 1 < MaxScroll(log) THEN [log EXCEPT !.scroll = @ + 1]
    ELSE [log EXCEPT !.scroll = MaxScroll(log), !.follow = TRUE]

Scrolled(log, direction) ==
    CASE direction = "up"   -> ScrollUp(log)
      [] direction = "down" -> ScrollDown(log)
      [] direction = "home" -> [log EXCEPT !.follow = FALSE, !.scroll = 0]
      [] direction = "end"  -> [log EXCEPT !.follow = TRUE, !.scroll = MaxScroll(log)]

KeyScroll(direction) ==
    /\ InMode("normal") /\ session.focus = "log" /\ LogIsShown
    /\ Press([session EXCEPT !.log = Scrolled(@, direction)])

Key ==
    \/ KeyQuit \/ KeyConfirm \/ KeyDeploy \/ KeyCancel \/ KeyRefresh
    \/ KeyOpenLog \/ KeyLeaveLog
    \/ \E tab \in Tabs : KeySwitchTab(tab)
    \/ \E movement \in {"up", "down"} :
           KeySelectSystem(movement) \/ KeySelectApplication(movement)
    \/ \E kind \in {"create", "import"}, system \in AllSystems \cup {None} :
           KeyOpenForm([Request(kind, None) EXCEPT !.system = system])
    \/ \E kind \in ScopedKinds, mode \in {"confirm", "deploy"} : KeyAct(kind, mode)
    \/ \E name \in Names \ {None}, system \in AllSystems \cup {None} : KeySubmit(name, system)
    \/ \E direction \in {"up", "down", "home", "end"} : KeyScroll(direction)

-------------------------------------------------------------------------------
(* The worker thread *)

NotExecuting ==
    [id |-> 0, request |-> NoRequest, events |-> 0, result |-> "idle", entries |-> << >>]

WorkerReceives ==
    /\ executing = NotExecuting /\ requests # << >> /\ Head(requests) # Shutdown
    /\ executing' = [NotExecuting EXCEPT !.id = Head(requests).id,
                                         !.request = Head(requests).request,
                                         !.result = "pending"]
    /\ requests' = Tail(requests)
    /\ UNCHANGED <<session, replies, rows, pressed>>

WorkerReportsEvent ==
    /\ executing.result = "pending" /\ IsDeployment(executing.request)
    /\ executing.events < MaxEvents
    /\ executing' = [executing EXCEPT !.events = @ + 1]
    /\ replies' = Append(replies, [is |-> "event", id |-> executing.id])
    /\ UNCHANGED <<session, requests, rows, pressed>>

ListedBy(request) ==
    CASE request.kind = "catalog" -> Listings(ApplicationOrder, catalogued)
      [] request.kind = "systems" -> Listings(SystemOrder, grouped)
      [] OTHER -> {<< >>}

\* The rows the command reads or adds.
WorkerSucceeds ==
    /\ executing.result = "pending"
    /\ LET request == executing.request
       IN  /\ request.name \in AllApplications /\ request.kind # "import" =>
                request.name \in catalogued
           /\ request.kind = "show" => request.name \in grouped
           /\ request.kind = "import" => request.system \in grouped \cup {None}
           /\ catalogued' = catalogued \cup
                (IF request.kind = "import" THEN {request.name} ELSE {})
           /\ grouped' = grouped \cup
                (IF request.kind = "create" THEN {request.name} ELSE {})
           /\ \E entries \in ListedBy(request) :
                  executing' = [executing EXCEPT !.result = "ok", !.entries = entries]
    /\ UNCHANGED <<session, requests, replies, pressed>>

WorkerFails ==
    /\ executing.result = "pending"
    /\ executing' = [executing EXCEPT !.result = "error"]
    /\ UNCHANGED <<session, requests, replies, rows, pressed>>

WorkerReplies ==
    /\ executing.result \in {"ok", "error"}
    /\ replies' = Append(replies, [is |-> "finished", id |-> executing.id,
                                   result |-> executing.result,
                                   entries |-> executing.entries])
    /\ executing' = NotExecuting
    /\ UNCHANGED <<session, requests, rows, pressed>>

Ended == [NotExecuting EXCEPT !.result = "ended"]

\* Mutation of WorkerEnds: the shutdown overtakes what waits.
WorkerEndsAtOnce ==
    /\ executing = NotExecuting /\ Shutdown \in {requests[i] : i \in DOMAIN requests}
    /\ executing' = Ended /\ requests' = << >>
    /\ UNCHANGED <<session, replies, rows, pressed>>

WorkerEnds ==
    /\ executing = NotExecuting /\ requests # << >> /\ Head(requests) = Shutdown
    /\ executing' = Ended /\ requests' = Tail(requests)
    /\ UNCHANGED <<session, replies, rows, pressed>>

-------------------------------------------------------------------------------

TuiInit ==
    /\ session = Dispatched(
           [active |-> NoRequest, id |-> 0,
            queued |-> <<Request("catalog", None), Request("systems", None)>>,
            tab |-> "applications", focus |-> "listing", mode |-> Normal,
            systems |-> Loading, selectedSystem |-> None,
            details |-> Query("idle", None), detailsTarget |-> None,
            catalog |-> Loading, selected |-> None, observed |-> None,
            deployments |-> Query("idle", None), runtime |-> Query("idle", None),
            log |-> NoLog, quitting |-> FALSE, phase |-> "open"])
    /\ requests = <<[id |-> session.id, request |-> session.active]>>
    /\ executing = NotExecuting /\ replies = << >>
    /\ catalogued = FirstApplications /\ grouped = FirstSystems /\ pressed = 0

Loop == ReceiveEvent \/ ReceiveFinished \/ Leave \/ Close
Worker ==
    \/ WorkerReceives \/ WorkerReportsEvent \/ WorkerSucceeds \/ WorkerFails
    \/ WorkerReplies \/ WorkerEnds
TuiNext == Loop \/ TerminalFails \/ Key \/ Worker

\* The loop comes round every 50 ms and the worker's commands end.
TuiSpec ==
    /\ TuiInit /\ [][TuiNext]_tuiVars
    /\ WF_tuiVars(Loop) /\ WF_tuiVars(Worker)

-------------------------------------------------------------------------------
(* Properties *)

\* At most one command is on its way, and the session knows which; only the
\* shutdown is sent behind it.
TuiTypeOK ==
    /\ session.active \in Requests \cup {NoRequest}
    /\ session.tab \in Tabs /\ session.focus \in {"listing", "log"}
    /\ session.mode.is \in {"normal", "confirm", "form", "deploy"}
    /\ session.selected \in AllApplications \cup {None}
    /\ session.selectedSystem \in AllSystems \cup {None}
    /\ session.phase \in {"open", "leaving", "failed", "closed"}
    /\ session.log.of \in AllApplications \cup {None}
    /\ \A i \in DOMAIN session.queued : session.queued[i] \in Requests
    /\ Len(requests) <= (IF Open THEN 1 ELSE 2)
    /\ catalogued \subseteq AllApplications /\ grouped \subseteq AllSystems

\* tui.rs:1079-1104 answers an unexpected reply, or one out of order, by ending
\* the session: the worker must never give it the occasion.
RepliesAreExpected == Open /\ replies # << >> => IsExpected

\* "A new confirmed action replaces queued refresh reads and runs after the
\* active command": nothing waits in front of it or behind it.
ActionRunsNext ==
    \A i \in DOMAIN session.queued :
        IsAction(session.queued[i]) => Len(session.queued) = 1

\* The retained log is the log of the deployment that is running, and of no
\* other command; once that one returned, the log says so.
LogFollowsDeployment ==
    Open => (session.log.state = "running" <=> IsDeployment(session.active))
            /\ (session.log.state = "running" => session.log.of = session.active.name)

\* When nothing is loading, the selected Application is one of those listed.
SelectionIsListed ==
    Open /\ Idle /\ ~session.quitting /\ session.catalog.is = "ready"
        => session.selected \in NamesOf(session.catalog.of) \cup {None}

\* A terminal that fails while a command is on its way, even one the worker has
\* not yet received, does not undo the operator's order: when the session is
\* closed the command was executed to its end, and its result was sent.
NoCommandAbandoned ==
    session.phase = "closed" /\ session.active # NoRequest =>
        \E i \in DOMAIN replies :
            replies[i].is = "finished" /\ replies[i].id = session.id

\* A confirmed action that waits is started next; it is given up only for one
\* that the operator confirmed after it, or for a quit.
NoActionIsLost ==
    [][\A i \in DOMAIN session.queued :
           IsAction(session.queued[i]) =>
               \/ session'.active = session.queued[i]
               \/ \E j \in DOMAIN session'.queued : IsAction(session'.queued[j])
               \/ session'.quitting]_tuiVars

\* Events that arrive while the operator has scrolled up do not move the rows.
AnchoredViewStays ==
    [][~session.log.follow /\ Rows(session'.log) > Rows(session.log)
           => RenderOffset(session'.log) = RenderOffset(session.log)]_tuiVars

\* Who asks to quit is let go, after the command that runs and the reads that
\* its result starts.
QuitEnds == session.quitting ~> session.phase = "closed"

\* A system's details are shown beside its own name.
DetailsAreOfSelection ==
    Open /\ Idle /\ ~session.quitting /\ session.tab = "systems"
       /\ session.systems.is = "ready" /\ session.details.is = "ready"
        => session.details.of = session.selectedSystem

===============================================================================
