# Verification of Pneuma

TLA+ models of Pneuma, the TLC runs that check them on small instances, and
TLAPS proofs about them for every instance. Pneuma deploys containerized
applications on one Linux host: a command reads and writes SQLite, writes
Quadlet units that systemd turns into Podman containers, writes Caddy fragments,
and exits. Nothing of Pneuma runs between commands, so every partial effect of a
command that failed or died stays until another command repairs it. That is what
the models are about.

Paths below are relative to the repository, whose crate is in `src/`.

## Inventory

| Component | Code | State it keeps | Operations | What makes it correct | Module |
|---|---|---|---|---|---|
| Deployment workflow | `use_cases/deployment` | `deployments`, `runtime_instances`, `applications.active_deployment_id`; in memory the resources a command holds | create, start the candidate, promote (internal, public), fail, clean up, retire the predecessor, roll back | one candidate per Application; the active runtime survives a failed candidate; a failed candidate leaves nothing behind; a command ends its Deployment | `Deployment` |
| Recovery | `use_cases/reconciliation/recover.rs` | none of its own | fails an interrupted Deployment, cleans up what it can prove to be the candidate's | nothing that cannot be proved is touched; the exposure row says what is true | `Deployment` |
| Port allocator | `adapters/port_allocator.rs` | `runtime_port_reservations` | reserve, consume, release | no port twice; every reservation consumed or released once | `Deployment` |
| Reconciliation | `use_cases/reconciliation`, `domain/reconciliation` | none | observe, decide, apply to runtimes and exposures | convergence; no effect on uncertain evidence | `Convergence` |
| Exposure change | `use_cases/exposure` | `exposures` | make public, make internal | an active exposure is true; effects follow a reservation | `Convergence` |
| Runtime lifecycle | `use_cases/application/runtime.rs` | `applications.desired_runtime_state`, the recorded container | start, stop, status | desired and observed state stay apart; a recreated container is adopted once | `Convergence` |
| Quadlet, Podman and Caddy adapters | `adapters/systemd_quadlet.rs`, `local_runtime.rs`, `caddy_exposure.rs` | unit files, containers, fragment files, the configuration Caddy runs | write, reload, start, stop, remove, observe; materialize, validate, restore | a unit is removed before its port is given back; removal is proved; a failed route is compensated or reported as diverged | `Deployment`, `Convergence` |
| Locks | `adapters/application_lock.rs`, `adapters/database.rs` | kernel file locks | shared and exclusive, released by process death | commands on one Application exclude each other; a restore excludes every command | all of them |
| Database | `adapters/database.rs`, `migrations` | the file and its sidecars | open, back up, restore | a restore is atomic or reported, and loses nothing it did not keep | `Database` |
| Import | `use_cases/application/import.rs`, `remote_import.rs`, `adapters/git_source.rs` | `systems`, `applications`, `exposures` | check out, parse, import in one transaction | whole or not at all; idempotent | `Delivery` |
| Releases and delivery | `use_cases/release`, `use_cases/deployment/deploy.rs`, `adapters/oci_image.rs`, `use_cases/ci` | `releases`, pulled images | resolve a branch, pull, inspect, record | a Release is a permitted, verified digest; a delivery is current | `Delivery` |
| Control and TUI | `control`, `cli/tui.rs` | none durable; a session of two threads | select, load, queue, confirm, follow a log, quit | replies match requests; nothing is shown under another name; quitting abandons nothing | `Tui` |
| Health checks | `adapters/health_check_*.rs` | none | bounded probes | a candidate is promoted only after it answered | one outcome |
| CLI, doctor, scripts | `cli`, `scripts` | none | parse, present, diagnose, bootstrap | - | - |

Components interact through calls of one process (use case to adapter), through
rows that commands leave for later commands, and through the host: all
Applications share one port range, one systemd user manager and one Caddy, whose
reload takes in every Application's fragment. The TUI's two threads talk over two
channels.

What is hard:

- Commands on different Applications hold different locks and interleave over
  the shared port range, the shared Caddy, systemd, and the database.
- A process may die between any two effects. Its locks are released; its rows,
  units, containers, fragments, journal and temporaries are not. Later commands
  see only those.
- Reconciliation and delivery read several sources one after another and act on
  the union of what they saw, while systemd recreates containers, branches and
  tags move and operators edit files.
- Compensation is itself a sequence of commands that fail. The first error ends
  it and the order decides what is left.
- A commit may take effect and report an error; a reboot starts every unit that
  is on disk and loads every fragment that is on disk.

`PROJECT.json` lists each hazard at its line, with the properties that watch it, or
why none does.

## Modules and plan

| Module | Status |
|---|---|
| `Deployment`, `MCDeployment` | deploy, rollback and recovery for several Applications; five of the runs, and the four that find a divergence |
| `Activation` | abstract: what the workflow promises of its rows; `Deployment` refines it (checked and proved) |
| `DeploymentProofs` | types and exclusive ports |
| `ActivationProofs` | the running runtime is the active one, the refinement of `Activation`, removal, rollback |
| `RouteProofs` | what Caddy serves: the active route, no foreign route, the route a failure leaves |
| `OutcomeProofs` | what a command leaves behind when it returns |
| `Convergence`, `MCConvergence` | visibility changes, start, stop, status and reconciliation of one Application beside its neighbours |
| `ConvergenceProofs` | types and all of the safety and action properties of `Convergence` |
| `Database` | commands, backup and restore over the file, its lock and its journal |
| `DurableRows` | abstract: what an operator may rely on; `Database` refines it (checked and proved) |
| `DatabaseProofs` | safety of `Database`, and the refinement |
| `Delivery` | Systems, imports, and deliveries up to the Release they deploy |
| `DeliveryProofs` | all of the safety properties of `Delivery` |
| `MCDatabase` | an instance of `Database` and `Delivery` |
| `Tui`, `MCTui` | one session: event loop, worker, keys |
| `TuiProofs` | all of the safety and action properties of `Tui` |

The proofs about `Deployment` build on each other: `RouteProofs` and
`OutcomeProofs` extend `ActivationProofs`, which extends `DeploymentProofs`.

What is left: a composition of `Deployment` and `Convergence` over one
Application, which a Deployment beside a restored database would need. Every
invariant and every action property that a passing run checks is also a theorem.

## What is modelled

### `Deployment`

State and code:

| Variable | Stands for |
|---|---|
| `status`, `owner`, `release`, `finished` | the row of a Deployment; `finished` is `finished_at` in clock ticks |
| `active` | `applications.active_deployment_id` |
| `runtime`, `endpoint` | the runtime row of the Deployment: its state, and its port until `removed_at` is set |
| `reservation` | its row in `runtime_port_reservations` |
| `exposure`, `confirmed` | the materialization state, and the confirmed runtime and version, of an Application's exposure |
| `unit` | the port its Quadlet file publishes |
| `container` | absent, present under the identity the command recorded, or present under one it never saw |
| `fragment`, `loaded` | the port routed by the fragment file, and by the configuration Caddy runs with |
| `op` | the command that holds the lock of an Application: its step, its Deployment, the `CandidateResources` it holds, its predecessor and the fragment it saved |

A Deployment, its runtime row, its unit and its container have one identity in
the code (`pneuma-<application>-<deployment>`), hence functions of the
Deployment. The domain of an Application never changes in the workflow, so a
fragment is its port.

Actions follow `deploy_release_reporting`: `Deploy` and `Rollback` insert the
pending row; `StartCandidate` to `MarkVerifying` are the calls of
`start_candidate`, in its order; `PromoteInternal` is the internal promotion
transaction; `MarkActivating` to `PromotePublic` are `activate_public_candidate`;
`RestoreFragment` to `RecordDivergedExposure` its compensation; `FailDeployment`
to `ReleasePort` are `finish_failed_deployment` and `cleanup_failed_candidate`;
`RetireStop` to `RetireRuntime` are `retire_previous_runtime` (in both, `podman rm`
and the tombstone are separate steps, `ProveCandidateRemoved` and
`ProvePreviousRemoved` before `TombstoneCandidate` and `RetireRuntime`, so that a
process may die between them); the `Recover...`
actions and `SettleExposure` are `recover_interrupted_deployment`. `Crash`,
`Reboot` and `RestartContainer` are the host. A step is atomic where the code has
one SQLite transaction, one systemctl or podman command, or one rename.

`Faults` says which failures an instance allows: refused statements, failing
commands, commands that fail and print nothing, crashes, reboots, recreated
containers, promotions whose commit takes effect and reports an error, and
Deployments that finish within one second. Unhealthy probes and a full port range
need no fault: they are always possible.

Simplifications, with their reason:

- Building an image and publishing a Release precede the row and touch none of
  these variables.
- Releases are shared by all Applications; the workflow never compares those of
  two Applications.
- A unit file is written in one step: one cut short has no `[Install]` section
  and the command that wrote it never starts it.
- `daemon-reload` and `systemctl start` are one step, since the first changes
  nothing that another step reads; either of them may fail.
- An uncertain commit is modelled at the promotion, where the command
  compensates what may have happened. Elsewhere a statement either takes effect
  or is refused.
- `ReloadCaddy` replaces every Application's loaded route: that is what a reload
  of the one Caddyfile does.
- A stop that reports an error may or may not have removed the container.
- `register_candidate_runtime` returns an error when the port is another live
  runtime's. It is not: the command holds the reservation of that port, and a
  reserved port is never given to another. `RegisterCandidate` has the condition as
  a guard, and no step stands for a return that cannot happen.
- Recovery recognises a unit file by its recorded port (its canonical text under
  the current version of Pneuma) and a container by its recorded identity. One
  that a failed stop left behind is observed with its recorded endpoint.

### `Activation`

The abstract promise: a Deployment is proposed, then rejected or promoted, once;
promotion retires the predecessor in the same step; an Application has at most one
candidate. `Deployment` maps its rows to phases (`Phase`) and is checked to
implement it (`ImplementsActivation`): every one of its many steps is one of
those three or leaves them alone, across crashes and recoveries.

### `Convergence`

An Application whose active runtime exists, between Deployments. Deployments are
left to `Deployment`; here the lock of the Application is held by one visibility
change, `start`, `stop`, `status` or `reconcile` at a time (`op`), and everything
else is the host.

| Variable | Stands for |
|---|---|
| `row` | desired state, visibility, exposure state and confirmed route, recorded container identity and last observed state, in SQLite |
| `unit`, `generated` | the Quadlet file, and what systemd made of it at its last `daemon-reload` |
| `container`, `service` | the container of the stable name with its identity and content; the state of the unit |
| `fragment`, `loaded` | the fragment file, and the route Caddy serves |
| `op` | the command: its step and everything it observed so far, which may be old by the time it is used |
| `budget` | how many more calls may fail, processes die, hosts reboot, files and containers drift |

A file or container is `canonical` (the text and endpoint Pneuma would write),
`edited`, or `missing`; a fragment may also be `foreign`. Actions follow the
files: `BeginPublic` to `NotConfirmed` are `change_exposure` and `caddy_exposure`;
`BeginLifecycle` to `Refuse` are `start_application`, `stop_application`,
`report_application_status` and the adoption of a recreated container;
`SeeRecorded` to `SeeService` are the four observations of `reconcile`, each a
step; `Decision` is the pure `decide`; `ReserveNothing` to
`Repair` are the effects it selects. `Fails` is any call that returns an error.
`NeighbourReloadsCaddy` and `NeighbourReloadsUnits` are other Applications'
commands; `SystemdStarts`, `ContainerExits`, `Drift`, `Crash` and `Reboot` are
the host.

Simplifications: an observation and the row it is persisted to are one step;
identities are reused once nothing refers to them (`FreshId`), so that they are
few; a `status` reads and persists; a health probe is one answer. `Drift` is the
operator who removes or edits a file. One who puts the canonical
text of a fragment back by hand, without a reload, is not generated: a
reconciliation takes that file for the route Caddy serves, and
`ActiveRouteIsServed` is shown only where nobody does that. A visibility change whose `BEGIN IMMEDIATE`
or confirmation is refused compensates, or returns without doing so where the code
does (`NotConfirmed`).

### `Database`

`live`, `journal`, `temporary`, `backups` and `snapshots` are the files, by
content; `inode` counts replacements, so that a connection (`opened`) can outlive
the file it was opened on; `step`, `lock`, `work` and `path` are the processes.
`Share` to `Finish` are `open` and a command of several transactions,
`BeginBackup` and `FinishBackup` the online backup, `TakeExclusive` to `Verify`
the calls of `restore_and_verify` in their order. `Fail`, `FailHoldingLock` and
`Crash` end a process anywhere. SQLite is external: a transaction that writes has
a hot journal beside the file; who opens the file for writing after its writer
died rolls the journal back, into whatever file is there, which is what
`JournalBelongs` watches. A content is one value: rows matter only as a whole.

`DurableRows` is what an operator may rely on: rows change by a whole transaction
or a whole restore, a restore only replaces rows that were kept in a snapshot, a
crash changes nothing. `RowsAsRead` is the mapping: what the next command reads.

### `Delivery`

Which rows commands write into that file before a Deployment exists. `systems`,
`applications`, `exposures` and `releases` are rows; `heads`, `tags` and `local`
are the Git repositories, the registry and Podman's store, which move
(`PushCommit`, `PushImage`); `client` is what each process holds. `BeginImport`
to `CleanUp` are `import_remote_application` and `import_application`;
`DeliverImage`, `DeliverBranch` and
`DeliverForCi` begin a delivery from the CLI, control or the CI;
`ResolveBranch`, `PullTag`, `PullMissingTag`, `PullAnyway`, `InspectTag`,
`PullImage` and `CreateRelease` are its calls; a process may fail or die between
any of them. A delivery that reaches `"deploy"` has the Release with which `Deploy`
of module `Deployment` begins. A manifest is a record of the fields that import
and delivery decide on; the grammar of names, domains and paths is one bit
(`valid`). An import transaction is deferred, so that of two importers that have
read, the second to write is refused at once: one step, `Import`, or `ImportFails`.

`MCDatabase` instantiates `Database` and `Delivery` together. They share no
variable and no property reads both, so each moves while the other is in its
initial state; interleaving them would only multiply the states.

### `Tui`

`session` is the presentation thread's: the tab, the selections, what is loaded
(`QueryState`), the queue, the active request and its id, the retained deployment
log, the mode (a confirmation, a form) and the phase; `requests` and `replies` are
the channels, `executing` the worker; `catalogued` and `grouped` the rows the
listings return. `Receive...`, `Leave`, `Close` and `TerminalFails` are the loop
and `Session::shutdown`; `Key...` the key handlers, by effect; `Worker...` the
worker thread. Whoever leaves the loop sends the shutdown behind whatever was sent
before (`ShutDown`); the worker takes the messages in order and ends at the shutdown
(`WorkerEnds`), and `Close` joins the worker that has ended. The helpers have the names of the methods they model
(`QueueAction`, `ExecuteAction`, `ApplySuccess`, `RefreshAfterAction`, ...). A reply
that arrives between the drain and the key commutes with the key, so a key is
handled only when the channel is empty. `ORDER BY name` of the two listings is
`Listings`: any sequence that names what is present, in the order of the names.

## Runs

`MCDeployment`, `MCConvergence`, `MCDatabase` and `MCTui` give the sets.

| Run | Instance | What it shows |
|---|---|---|
| `faults` | 1 public Application, 3 Deployments, 2 Releases, 2 ports; statements, commands, silent commands, crashes, reboots | `TypeOK`; `PortsExclusive`; `RouteConfirmed`; `RemovalIsProven`; `ImplementsActivation` |
| `applications` | 2 Applications, one public, 3 Deployments, 2 ports; crashes, reboots | `NoForeignRoute`: ports change hands, routes do not follow |
| `rejections` | 2 Applications, one public, 3 Deployments, 2 ports; restarts | without failing commands a rejection, for want of a port too, leaves nothing and restores the route; a rollback changes the Release |
| `commands` | 1 Application, 3 Deployments, 2 ports; commands, restarts, uncertain commits, ties | every command ends its Deployment; the active runtime is never taken down |
| `liveness` | 1 Application, 3 Deployments, 2 ports; reboots, which end commands anywhere; `FairSpec`, no symmetry | every command ends, when the range is full as well; every Deployment becomes terminal |
| `converge` | 1 Application, 5 container identities, 2 faults | effects are reserved, active routes served, withdrawn ones gone; running containers are left alone; only proven identities are recorded; a reserved route is settled |
| `database` | 2 processes, 2 contents, 1 backup path, 2 transactions a command, 2 restores; then 2 clients, 2 names, 2 commits, 2 images, 2 digests, 3 manifests, 1 push, 3 requests | connections are current, journals belong, restores are true, locks are given back, `DurableRows` is implemented; imports are whole, Releases permitted, deliveries current |
| `tui` | 2 Applications and 2 Systems (one of each at first), 2 events a deployment, a log of 1 row, 4 keys | replies are expected, a confirmed action is next and gives way to nothing but another or a quit; logs, details and selections belong together; quitting ends, and only over a worker that sent its result |
| `interrupted` | a crash | violates `RestoredFileIsServed` |
| `reservation` | a crash | violates `ReservationsAreReturned` |
| `validation` | 2 public Applications, failing commands | violates `FirstFailureServesNothing` |
| `quiet` | commands that print nothing | violates `Settled` |

Deployments and Releases are symmetric in `MCDeployment` where no liveness is
checked. Deadlock is not checked there, nor in `tui`: when all identities of an
instance are used and its commands have ended, or the session is closed, it stops.

Why the bounds are enough:

- Deployments. Three are an active one, its failed or stale predecessor and a
  candidate: no action relates more than a candidate, the active Deployment and
  one to retire. Two ports make a third Deployment wait for a port that is given
  back, or find none; that is where reuse goes wrong. Two Applications are what a
  shared Caddy and a shared range need to interfere. In `rejections` an active
  runtime and the candidates of both Applications want three ports of two, and in
  `liveness` a reservation that a dead process left takes one, so that a command
  meets a full range (`PortsExhausted`). Two Releases tell a
  rollback from a redeployment.
- Convergence. At most four identities are referred to at once (recorded, known
  to the command, found by name, present), so a fifth is always free. Two faults
  are a first one and one that hits its compensation or recovery; a reboot and an
  edited file are faults too. `ConvergenceProofs` lifts the safety part to any
  number.
- Database. Two processes are a restore and any other user of the file; two
  restores meet what the first left; two transactions let a command commit before
  and after something else; two contents tell rows from other rows.
  `DatabaseProofs` lifts all of it to any number.
- Delivery. Two names compete for one domain and one name has two manifests; the
  second commit's image is unbuilt or has another digest; one push moves a branch
  or tag between any two reads; three requests are two deliveries beside an import.
- TUI. A second Application or System appears by an import during the session,
  which is what moves a selection; four keys open, fill and confirm a form and do
  one thing more while its command runs; two events and a one-row panel make a
  log that scrolls.

Fairness, and what justifies it:

- `Deployment` (`FairSpec`): weak fairness of an Application's command and of its
  recovery. A command is one process that runs its calls in sequence, and each
  call is bounded: SQLite has a busy timeout, probes and external commands have
  deadlines. Nothing in the repository runs `pneuma reconcile` periodically: its
  fairness is the operator's, or a CI job's, and `DeploymentsEnd` says no more
  than that repeated reconciliation suffices.
- `Convergence` (`FairConvSpec`): weak fairness of the command's steps, for the
  same reason. Strong fairness of `BeginReconcile` is an assumption about the
  operator: other commands may take the Application's lock in between, so one who
  keeps asking is admitted again and again, not continuously. `ApplyingIsSettled`
  depends on it.
- `Database`: weak fairness of each process's own steps, without the rolling
  back of a journal that nobody is obliged to do, and without beginnings.
- `Tui`: weak fairness of the loop, which comes round every 50 ms, and of the
  worker, whose commands end. None of keys or of a failing terminal.

No fairness is assumed of requests, crashes, reboots, restarts or pushes.

## Findings

Each is a run that violates what the repository says of itself.

- `interrupted`: `recover.rs:113` judges the prior route from the fragment file
  and records `failed`, that is, complete compensation. A process that dies after
  `restore_fragment` and before the reload leaves Caddy on the candidate's route.
  `docs/core-concepts.md:122` calls an unconfirmed compensation `diverged`.
- `reservation`: a process that dies between `reserve_port` and the runtime row
  leaves its reservation; recovery returns at `recover.rs:39` without releasing
  it. `docs/architecture/invariants.md:67` says that reservations are consumed or
  released exactly once. Enough such crashes exhaust the range.
- `validation`: `caddy_exposure.rs:234` restores a fragment that failed validation
  and does not reload, on the premise that Caddy never saw it. The reload of
  another Application may have loaded it in between.
- `quiet`: the message of a command that fails without output ends in `": "`;
  `validate_details` in `domain/deployment.rs:70` refuses it, so the Deployment
  is not failed, and where activation records a diagnostic the `expect` panics.

Met while modelling, without a run of their own: a runtime is registered and its
reservation consumed in two transactions where `docs/architecture/data-model.md`
describes one; a `diverged` exposure becomes `applying` at the next deployment
and may then be recorded as `failed`; two Deployments that finish within one
second tie in the query for the rollback target.

Also without a run, from the other modules:

- Unit files. A process that dies, or a `daemon-reload` that fails, between
  `write_unit` and `daemon_reload` (`runtime_effects.rs`) leaves a canonical file
  that systemd never loaded. Later reconciliations find the file canonical, skip
  the reload, and fail to start the unit until something else reloads systemd.
  Hence the exemption `generated # unit` in `ApplyingIsSettled`. A process that
  dies after it deleted the fragment and before Caddy's reload leaves a row that
  says `removing`, and the retry finds no file to remove.
- Lifecycle. `status` observes only the recorded identity. The recreated container
  of a public Application is adopted by `app start`, never by `reconcile`. After
  a recovery, the second observation uses the old identity and may report a
  change of the runtime that did not happen. `reconcile` sends a healthy running
  internal Application to manual intervention (`tests/cli/reconciliation.rs:96`
  expects this). A reboot starts the unit of a stopped Application.
- Database. A restore is refused while the journal of a dead writer is hot, until
  another command has opened the database; a restore onto a missing database
  fails, since its snapshot is taken through a read-only connection.
- Delivery. Of two concurrent imports one is refused at once, though
  `import.rs:59` calls repeated imports idempotent. An import of an existing name
  returns the old row, whatever the new manifest says. A Release is looked up by
  its digest alone: this is safe because an Application's repository never changes
  and the artifact was checked against it. A process that dies between checkout
  and cleanup leaves its directory for ever.
- TUI. The runtime panel can show the observation of one Application beside
  another: a confirmation that is open while an import changes the selection
  leaves the runtime that was loaded before (`tui.rs:2259`), though
  `docs/getting-started.md:442` says that "an observation from another selection
  is never reused". `r` does not reload the details of a System. A confirmed
  action clears the queue (`tui.rs:1496`), which can leave a panel loading, and drops
  without a word an action that was confirmed before it and waits. Lines 444 and 472
  of the guide say that Enter or `y` executes an action and that it replaces queued
  refresh reads. `NoActionIsLost` is what holds: nothing but another action or a quit
  drops one.

## Proofs

All theorems hold for every value of the constants that meets the named
assumptions of the modules. Each is a safety property: an invariant, an action
property or a refinement.

| Module | Theorems | Inductive invariant |
|---|---|---|
| `DeploymentProofs` | `TypeCorrect`, `UnitsNeverSharePort` | `Invariant` |
| `ActivationProofs` | `RunningIsCurrent`, `DeploymentActivates`, `RemovalAlwaysProven`, `RollbackAlwaysChangesRelease` | `RuntimeInvariant`, with `ContainersAreKnown` and with `ReleasesAreOrdered` |
| `RouteProofs` | `ActiveIsServed`, `NeverForeignRoute`, `FailureKeepsRoute` | `RouteInvariant`, with `RoutesAreOwn` and with `ConfirmedIsKept` |
| `OutcomeProofs` | `ReturnsSettled`, `ReturnsTidy` | `OutcomesAreDecided`, `EverythingIsTidy` |
| `ConvergenceProofs` | `ConvTypeCorrect` and six more | `ConvInvariant` |
| `DatabaseProofs` | `DbTypeCorrect`, `RestoreExcludesCommands`, `JournalsBelong`, `RestoresAreTrue`, `DatabaseIsDurable` | the one of `DbInvariantHolds` |
| `DeliveryProofs` | `DeliveryTypeCorrect`, `CatalogueStaysWhole`, `ReleasesStayPermitted`, `DeliveriesAreCurrent` | `DeliveryInvariant` |
| `TuiProofs` | `TuiTypeCorrect`, `EveryReplyIsExpected`, `ActionAlwaysRunsNext`, `LogAlwaysFollows`, `NoActionEverLost`, `NeverAbandons`, `AnchoredViewAlwaysStays`; `SelectionAlwaysListed`, `DetailsAlwaysOfSelection` | `TuiInvariant`; with `SessionIsConsistent` |

### What the theorems about `Deployment` assume

All of them assume what the module assumes of its constants: public Applications
are Applications; `None` is neither a Deployment nor an Application; the port
range is not empty and does not start at 0 (`parse_range` rejects both); `Faults`
are kinds of failure. Some hold for every set of `Faults`. The others name the
faults they exclude as a hypothesis, and no more than they must: TLC refutes the
property on an instance that allows any single one of the excluded faults. The
rest of the faults, and unhealthy probes and a full port range, remain possible.

| Theorem | Failures it excludes | Why it is false with them |
|---|---|---|
| `TypeCorrect`, `UnitsNeverSharePort`, `RunningIsCurrent`, `DeploymentActivates`, `RemovalAlwaysProven` | none | - |
| `RollbackAlwaysChangesRelease` | two Deployments that finish within one second | `ORDER BY finished_at` then picks either |
| `ActiveIsServed` | a commit that takes effect and reports an error | compensation takes away the route of a runtime that was promoted |
| `NeverForeignRoute` | an external command that fails | a diverged route stays loaded when its port is given back |
| `FailureKeepsRoute` | a failing command, a death, a reboot, an uncertain commit | compensation is cut short, or contradicts what it compensates |
| `ReturnsSettled` | refused statements, failures without a message, deaths, reboots | nobody is left who could record the outcome |
| `ReturnsTidy` | all but recreated containers and ties | the cleanup itself fails, or nobody is left to do it |

### `DeploymentProofs`

`PortsExclusive` is about units on disk, which no transaction reads, so it is not
inductive. Ports are exclusive because the database holds each of them once
(`HeldOnce`: a reservation excludes other reservations and other live endpoints)
and because a unit publishes only a port its Deployment still holds
(`UnitHoldsItsPort`). The second needs that a port is given back only after the
unit is gone. That depends on how the command got to that point, hence
`UnitIsTracked`: before the unit is written there is none; from then on the
command holds it; a cleanup that does not hold it has none to remove; and at the
steps that give a port back it is gone. Recovery is the interesting case: it may
clean up on the evidence of the container alone, without holding the unit. Then
the unit is gone, because a unit on disk publishes the recorded port
(`EndpointIsPublished`) and would have been proved too. Finally no other command may disturb this, hence
`OpOwnsItsWork` and `UnbornIsClean`. `TypeOK` alone is not inductive either: what
a promotion or a new fragment writes has its type because the command has a
Deployment (`OpOwnsItsWork`). The conjunction (`Invariant`) holds initially and is
preserved by each action; one lemma per group of actions, one step per action,
and a lemma for each action that changes a port or a unit.

### `ActivationProofs`

A command reads and writes the rows of its own Application, except that a reload
of Caddy takes in every fragment (`CommandIsLocal`). So everything in this module
and the next two is said Application by Application: one lemma says that an
invariant of an Application is kept by the commands of the others, and the steps
are proved for its own command alone.

`RunningIsCurrent` states `CurrentRuntime`: a runtime is running exactly when its
Deployment is the active one, with its unit on disk under its port. No single
step could establish that: promotion, the retirement of the predecessor and the
cleanup are different transactions. `RuntimesFollow` therefore says what the
command knows at each step of the runtimes it works on: the candidate's is not
the running one until it is promoted, and never once its cleanup began; the
predecessor's runs until the promotion and is stopped from then on. An uncertain
promotion is the hard case: the command compensates as if it had failed, and must
not tombstone what runs.

`DeploymentActivates` is the refinement. The initial states map to initial
states. A step creates a Deployment, promotes one (`Promotes`), moves a single
status on or to `failed` (`StatusMoves`), or touches none of these rows; under
`Phase` each of them is a `Propose`, `Promote` or `Reject` of `Activation`, or leaves the
phases alone, and `RuntimeInvariant` supplies the guards of the abstract actions.

`RemovalAlwaysProven`: a runtime row is tombstoned after its container is gone,
because a cleanup that does not hold the container has seen that it is not the
recorded one (`ContainersAreKnown`). `RollbackAlwaysChangesRelease` needs that the
active Deployment is the last that succeeded (`LatestIsActive`), that a candidate
differs from it, and that hence the one before it differs too (`TargetChanges`).

### `RouteProofs`

`ActiveIsServed` (`RouteConfirmed`): between the reload and the transaction that
records the route the row says `applying`, the only moment at which the fragment
and Caddy may part (`RouteFollows`); everywhere else the fragment, Caddy and the
confirmed endpoint are one. Other Applications reload Caddy at any moment, which
takes in this one's fragment as it is just then; that is harmless exactly because
of the `applying`.

`NeverForeignRoute` (`NoForeignRoute`): ports are reused, so a route that outlives
its runtime may become another Application's. `OwnRoutes` says that the fragment,
what Caddy has loaded and what the command saved are endpoints of the
Application's own live runtimes, and that none of them is one the command is
about to give up (`WithoutRoute`, `Rerouting`). With `PortsExclusive` nobody else
can then publish it. It holds across crashes and reboots, because recovery cleans
up only a candidate that was not yet activating, to which nothing can be routed
(`EarlyOf`), and leaves the port of an interrupted activation taken.

`FailureKeepsRoute` (`FailedKeepsRoute`): outside an activation the confirmed route
is on disk and served; within one the command holds it (`KeepsConfirmed`).

### `OutcomeProofs`

`ReturnsSettled` (`Settled`): a Deployment under way is that of a command which
has still to decide it (`IsDecided`), and such a command either goes on to a step
at which it still has to, or records the outcome.

`ReturnsTidy` (`NothingLeftBehind`): every Deployment of an Application is over and
clean, the active one, or in the hands of the command (`AllAccounted`). That is
inductive only with an account of what the command has made and would remove
(`HoldsCandidate`), of what a cleanup finds (`HoldsFailure`) and of what is known
of the predecessor (`HoldsPredecessor`). A container that systemd recreated under
another identity is the case to watch: it is not the recorded one, and the cleanup
must still leave nothing.

### `ConvergenceProofs`

`ConvTypeCorrect`, `ActiveRouteAlwaysServed`, `WithdrawnRouteAlwaysGone`,
`EffectsAlwaysReserved`, `DivergedAlwaysNeedsOperator`,
`RunningAlwaysUndisturbed` and `RepairedIdentityAlwaysProven`: all of the safety
and action properties of `Convergence`, for any number of faults and any set of
identities with one to spare (`IdsAssumption`). `DivergedNeedsOperator` is proved
only: no run repeats it.

The invariant (`ConvInvariant`) relates the row, the step and the host. What the
row must say at a step (`ReservationsHold`) makes an effect follow its
reservation. Between a reload and its confirmation the fragment and Caddy may
part only by a hand's edit (`CaddyFollows`), so a confirmation records what is
true. An identity a reconciliation took for canonical stays so, or is gone,
because a container keeps the content it was created with (`IdentitiesHold`); and
once it saw that nothing runs, only systemd starts something, under its unit,
whose state is read later (`StartIsClear`). That last pair is where observations
are old by the time they are used, and where the invariant is more than the
property. Types are proved for each group of actions; the route part and the
runtime part each have a frame lemma for the steps that do not touch them.

### `DatabaseProofs`

`DbTypeCorrect`, `RestoreExcludesCommands`, `JournalsBelong` and `RestoresAreTrue`
are invariants of `Database`; `DatabaseIsDurable` proves that it implements `DurableRows`. The
argument: a step implies its lock (`LocksMatchSteps`), an exclusive lock is alone
(`RestoreIsAlone`), so no connection is open while the file is replaced
(`ConnectionsShare`); a journal is hot exactly while the file is torn
(`JournalIsOfFile`), and a restore passes its snapshot only beside a cold one, so
the old journal never meets the new file, whatever dies; at each step a restore
knows what it staged and kept (`RestoreIsPrepared`). For the refinement the
initial states map to initial states, and each step is a `Write`, `Keep` or
`Restore` of `DurableRows` or leaves what a command reads alone (`StepRefines`).

### `DeliveryProofs`

For any manifests, repositories, tags, processes and bounds. `Delivery` assumes
that what a repository holds are manifests, that the first commit and digest are
some, that the bounds are numbers, and that the absence of a row is not a row
(`NothingAssumption`, which is what `Option` is).

`CatalogueStaysWhole`: a row of `applications` and its exposure are written in one
transaction, and a domain is taken by a public exposure only while it is free,
whoever else imports or changes a visibility in between.
`ReleasesStayPermitted`: what was pulled stays pulled and an Application's
repository never changes, so that what a process permitted and pulled is still
permitted when it records it stages later (`TaskIsKnown`).
`DeliveriesAreCurrent`: branches and tags move while a delivery reads them one
after the other. `TaskIsCurrent` says of each stage that what it has read was a
fact since the delivery was asked for: `since` only grows while the delivery runs,
and another process may move the local tag this one is about to inspect, but only
to a digest the registry had meanwhile, which is a fact of that time as well.

### `TuiProofs`

For any names, any number of keys, events and rows of the panel.

`TuiInvariant` says where the one command is: nothing is on its way, or it is in
the channel, with the worker, or answered, and in each case the session, the
channels and the worker have the same request under the same identifier
(`OneCommandAtATime`). Hence every reply is expected (`EveryReplyIsExpected`: the
session's errors for replies out of order are unreachable). Identifiers alternate
between 0 and 1, which is enough because of it.

`NeverAbandons`: the loop may be left, by a quit or by a terminal that fails, while a
command is in the channel or with the worker, and `Close` looks at neither. It joins
a worker that has ended, and that the worker ended with the result sent is a matter of
order. `ShutdownIsLast` says so of each stage: the shutdown was sent behind the command
and is last in the channel; while the worker executes, the shutdown is all the
channel holds; and once the worker could take it, the result is among the replies
(`NothingIsOwed`).

`ActionAlwaysRunsNext` needs that an action waits alone (`QueueIsFounded`). Most
functions of the session append to the queue, and those are safe only because the
caller found nothing waiting, or no action; an open form of an import or a System
is safe only because it is open while nothing runs (`ModeIsFounded`). Each function
has a lemma that says which fields it changes and what it appends (`AfterReads`,
`Reading`), so that no key and no reply has to expand another's.
`NoActionEverLost` is the step from there: the only functions that take a request off
the queue are `ExecuteAction`, a quit, a refresh, which the session refuses while
anything runs or waits, and the dispatch, which starts the action that waits alone;
results and reads only append to it.
`LogAlwaysFollows`: the retained log is the running deployment's (`LogIsFounded`).
`AnchoredViewAlwaysStays` is an action property: while the operator has scrolled
up, events and a failing deployment leave the rows on view where they are, since
the offset of one who does not follow never exceeds what the log has.

`SelectionAlwaysListed` and `DetailsAlwaysOfSelection` say of a session at rest that
what is selected is listed, and that details stand beside their own System. Neither
holds while something is awaited, so `SessionIsConsistent` says what is then still
going to happen (`Consistent`, over the requests that run or wait, `Awaited`):

- `SelectionIsFounded`: a selection that is not listed is that of an import whose
  reads an action that was confirmed meanwhile kept away, and that action, whose
  result reads the catalogue, is still awaited.
- `MismatchIsMended`: details of another System stay in the Systems tab only while
  the listing of the Systems is not ready, and what is awaited is that listing or a
  command whose result reads it, alone; its result finds nothing else waiting, which
  is when `ensure_system_details_loaded` may load. Hence `FormsRunNext` and
  `TabsAreFounded`: a System is created, and an Application imported into the
  selected one, from the Systems tab and while nothing else goes on, and there no
  Application is acted on; the tab cannot be left until the command returns.
- `ReadsAreOfSelection`: details that are awaited are those of the selected System
  as long as the Systems tab is shown, or of a System there is not, which is not
  shown. `DetailsExist` and `SystemsAreCurrent` exclude that the listing comes back
  without the System the details are of: Systems are only added, and one that is
  being created is why the listing may lag behind.

Who asked to quit is exempt: his results no longer start reads. Each key and each
result has a lemma (`...Consistent`, `...Result`), over lemmas that say what a
function appends to what is awaited (`...Effect`). The instance of `tui`, and one
with more keys, had `SessionIsConsistent` as an invariant before the proof.

### Model-checked only

`ApplyingIsSettled`, `LocksAreReleased`, `QuitEnds`, `OperationsEnd` and
`DeploymentsEnd` are liveness: they depend on fairness and so on ENABLED, which
the prover does not handle. The four properties the finding runs violate are false
and have no theorem.

## Not modelled

Parsing of arguments and wording of output (CLI), `doctor` and the host
diagnostics, and drawing in the TUI but for the offset of the log: they read and
print, and a model would restate the code. The grammar of names, domains,
manifests and revisions, which unit tests cover. Migrations and the hydration of
corrupt rows: a file is current, foreign or unusable. Health probes and external
commands retry within a deadline, which only delays their one outcome. Bootstrap,
release and test machine scripts, which an operator runs alone. A Deployment
during a visibility change or a reconciliation of the same Application is excluded
by its lock. One version of Pneuma runs: a unit written by another version is
`edited`.
