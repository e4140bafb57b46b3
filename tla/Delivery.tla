------------------------------- MODULE Delivery -------------------------------
(***************************************************************************)
(* What precedes a Deployment: the catalogue of Systems and Applications,  *)
(* imports of manifests, and deliveries that turn a branch or a digest     *)
(* into a Release.  Git repositories and the image registry belong to      *)
(* others and change while a command reads them in several steps; tags and *)
(* branches move, digests do not.                                          *)
(*                                                                         *)
(* A transaction of SQLite is one step: SQLite refuses the second of two   *)
(* writers that both began by reading (both are deferred), and a refused   *)
(* transaction leaves no row.  A delivery that reaches "deploy" has the    *)
(* Release that the workflow of module Deployment starts with.             *)
(***************************************************************************)
EXTENDS Naturals, FiniteSets, Sequences

CONSTANTS
    Clients,      \* processes: the CLI, a session of the TUI, a job of the CI
    Names,        \* of Applications
    Urls,         \* of Git repositories
    Branches,     \* or tags of theirs
    Commits,
    FirstCommit,  \* that every branch names at first
    Images,       \* OCI repositories
    Digests,
    FirstDigest,  \* of its image; other commits may have one, or none yet
    SystemNames,
    Documents,    \* manifests that a checkout may contain
    CiRequests,   \* SSH_ORIGINAL_COMMAND, as words
    MaxPushes,    \* to the repositories and the registry together
    MaxRequests,  \* imports and deliveries in one behaviour
    Nothing

\* A manifest as parsed; a field that no value object accepts makes it invalid.
Manifests ==
    [valid : BOOLEAN, name : Names, system : SystemNames \cup {Nothing}, image : Images,
     visibility : {"internal", "public"}, domain : {d.domain : d \in Documents}]

Rows == [system : SystemNames, url : Urls, image : Images]
Exposures ==
    [visibility : {"internal", "public"}, domain : {d.domain : d \in Documents}]

ASSUME DocumentsAssumption == Documents \subseteq Manifests
ASSUME FirstAssumption == FirstCommit \in Commits /\ FirstDigest \in Digests
ASSUME BoundsAssumption == MaxPushes \in Nat /\ MaxRequests \in Nat
\* None of an Option is not a value that Some holds.
ASSUME NothingAssumption == Nothing \notin Rows \cup Exposures \cup Digests

VARIABLES
    \* rows
    systems,       \* names of the Systems
    applications,  \* of every name: the row of its Application, else Nothing
    exposures,     \* of every name: its visibility and domain, else Nothing
    releases,      \* of every name: the artifacts of its Releases
    \* the world
    heads,         \* of every url and branch: the commit it names
    tags,          \* of every image and commit: the digest its tag names in the registry
    local,         \* and in Podman's store on the host
    pulled,        \* artifacts that a pull verified
    pushes,
    \* processes
    requests,      \* how many commands began
    client,        \* what every process does
    since          \* what branches and tags named since it began to deliver a branch

rows == <<systems, applications, exposures, releases>>
world == <<heads, tags, local, pulled, pushes>>
deliveryVars == <<rows, world, requests, client, since>>

Artifacts == [image : Images, digest : Digests]

Resting ==
    [at |-> "rest", name |-> Nothing, url |-> Nothing, flag |-> Nothing,
     document |-> Nothing, branch |-> Nothing, revision |-> Nothing,
     artifact |-> Nothing, release |-> Nothing]

ImportStages == {"clone", "import", "cleanup"}
DeliveryStages == {"resolve", "pull tag", "inspect", "pull", "record", "deploy"}

-------------------------------------------------------------------------------

Starts == requests < MaxRequests /\ requests' = requests + 1
Stands(p, stage) == client[p].at = stage
Rests(p) ==
    /\ client' = [client EXCEPT ![p] = Resting]
    /\ since' = [since EXCEPT ![p] = {}] /\ UNCHANGED requests
CleansUp(p) ==
    /\ client' = [client EXCEPT ![p] = [Resting EXCEPT !.at = "cleanup"]]
    /\ UNCHANGED <<requests, since>>
Reaches(p, stage) == client' = [client EXCEPT ![p].at = stage] /\ UNCHANGED <<requests, since>>

IsImported(n) == applications[n] # Nothing
ApplicationsOf(s) == {n \in Names : IsImported(n) /\ applications[n].system = s}

\* The lock of an Application is held while a delivery of it is under way.
IsBusyWith(n) == \E p \in Clients : client[p].at \in DeliveryStages /\ client[p].name = n

\* Unique index over the domains of public exposures.
DomainIsFree(n, exposure) ==
    exposure.visibility = "public" =>
        \A m \in Names \ {n} :
            exposures[m] # Nothing /\ exposures[m].visibility = "public"
                => exposures[m].domain # exposure.domain

\* What every branch and every tag of the registry names now.
Facts ==
    {<<u, b, heads[u][b]>> : u \in Urls, b \in Branches}
        \cup {<<i, c, tags[i][c]>> : i \in Images, c \in Commits}

-------------------------------------------------------------------------------
(* The catalogue *)

\* create_system: an existing System is returned as it is.
CreateSystem(s) ==
    /\ systems' = systems \cup {s}
    /\ UNCHANGED <<applications, exposures, releases, world, requests, client, since>>

\* begin_change: the row part of a change of visibility (module Convergence
\* has the rest).
ChangeVisibility(n, visibility) ==
    /\ IsImported(n) /\ ~IsBusyWith(n)
    /\ exposures[n].visibility # visibility
    /\ visibility = "public" => exposures[n].domain # Nothing
    /\ DomainIsFree(n, [exposures[n] EXCEPT !.visibility = visibility])
    /\ exposures' = [exposures EXCEPT ![n].visibility = visibility]
    /\ UNCHANGED <<systems, applications, releases, world, requests, client, since>>

\* import_remote_application, before its checkout
BeginImport(p, url, flag) ==
    /\ Stands(p, "rest") /\ Starts
    /\ client' = [client EXCEPT ![p] =
           [Resting EXCEPT !.at = "clone", !.url = url, !.flag = flag]]
    /\ UNCHANGED <<rows, world, since>>

\* The checkout holds whatever manifest the repository has at that moment.
Clone(p, document) ==
    /\ Stands(p, "clone")
    /\ client' = [client EXCEPT ![p].at = "import", ![p].document = document]
    /\ UNCHANGED <<rows, world, requests, since>>

CloneFails(p) ==
    /\ Stands(p, "clone") /\ CleansUp(p)
    /\ UNCHANGED <<rows, world>>

\* ExposureIntent::new
IsIntent(exposure) == exposure.visibility = "public" => exposure.domain # Nothing

\* parse_manifest accepts it.
IsSpecification(d) == d.valid /\ IsIntent(d)

\* The System of an import: that of the command line before that of the manifest.
SystemOf(c) == IF c.flag # Nothing THEN c.flag ELSE c.document.system

ImportedRow(c) == [system |-> SystemOf(c), url |-> c.url, image |-> c.document.image]
ImportedExposure(d) == [visibility |-> d.visibility, domain |-> d.domain]

\* import_application, its one transaction
Import(p) ==
    LET c == client[p]
        n == c.document.name
    IN
    /\ Stands(p, "import")
    /\ IsSpecification(c.document) /\ SystemOf(c) # Nothing
    /\ \/ IsImported(n) /\ UNCHANGED rows
       \/ /\ ~IsImported(n) /\ DomainIsFree(n, ImportedExposure(c.document))
          /\ systems' = systems \cup {SystemOf(c)}
          /\ applications' = [applications EXCEPT ![n] = ImportedRow(c)]
          /\ exposures' = [exposures EXCEPT ![n] = ImportedExposure(c.document)]
          /\ UNCHANGED releases
    /\ CleansUp(p)
    /\ UNCHANGED world

\* Mutation of ImportFails: what preceded the refused exposure is kept.
ImportFailsInPart(p) ==
    LET c == client[p]
        n == c.document.name
    IN
    /\ Stands(p, "import")
    /\ IF IsSpecification(c.document) /\ SystemOf(c) # Nothing /\ ~IsImported(n)
       THEN /\ systems' = systems \cup {SystemOf(c)}
            /\ applications' = [applications EXCEPT ![n] = ImportedRow(c)]
            /\ UNCHANGED <<exposures, releases>>
       ELSE UNCHANGED rows
    /\ CleansUp(p)
    /\ UNCHANGED world

\* A manifest or a System that is missing or invalid, a domain that is taken, a
\* statement that is refused.
ImportFails(p) ==
    /\ Stands(p, "import") /\ CleansUp(p)
    /\ UNCHANGED <<rows, world>>

\* The checkout is removed after success and failure alike; its removal may fail.
CleanUp(p) ==
    /\ Stands(p, "cleanup") /\ Rests(p)
    /\ UNCHANGED <<rows, world>>

-------------------------------------------------------------------------------
(* Deliveries *)

\* resolve_application, ApplicationLock::try_acquire_for_connection: an
\* unknown or a busy Application is reported, and nothing changes.
IsDeliverable(p, n) == Stands(p, "rest") /\ IsImported(n) /\ ~IsBusyWith(n)

\* Mutation of Permits: the image may come from anywhere.
PermitsAny(n, artifact) == artifact \in Artifacts /\ IsImported(n)

\* DeliverySpecification::permits
Permits(n, artifact) == artifact.image = applications[n].image

\* deploy_oci_reporting
DeliverImage(p, n, artifact) ==
    /\ IsDeliverable(p, n) /\ Permits(n, artifact) /\ Starts
    /\ client' = [client EXCEPT ![p] =
           [Resting EXCEPT !.at = "pull", !.name = n, !.artifact = artifact]]
    /\ UNCHANGED <<rows, world, since>>

\* deploy_branch_reporting
DeliverBranch(p, n, branch) ==
    /\ IsDeliverable(p, n) /\ Starts
    /\ client' = [client EXCEPT ![p] =
           [Resting EXCEPT !.at = "resolve", !.name = n, !.branch = branch]]
    /\ since' = [since EXCEPT ![p] = Facts]
    /\ UNCHANGED <<rows, world>>

\* parse_ci_command: anything else a CI job sends is refused.
IsDeployRequest(words) ==
    /\ Len(words) = 3 /\ words[1] = "deploy"
    /\ words[2] \in Names /\ words[3] \in Branches

DeliverForCi(p, words) ==
    IsDeployRequest(words) /\ DeliverBranch(p, words[2], words[3])

\* load_source
SourceOf(n) == applications[n].url

\* resolve_branch: the commit that the name has at this moment
ResolveBranch(p) ==
    LET commit == heads[SourceOf(client[p].name)][client[p].branch] IN
    /\ Stands(p, "resolve") /\ commit # Nothing
    /\ client' = [client EXCEPT ![p].at = "pull tag", ![p].revision = commit]
    /\ UNCHANGED <<rows, world, requests, since>>

\* Mutation of PullTag: an image that the host has is not pulled again.
PullMissingTag(p) ==
    LET i == applications[client[p].name].image
        c == client[p].revision
    IN
    /\ Stands(p, "pull tag") /\ (tags[i][c] # Nothing \/ local[i][c] # Nothing)
    /\ local' = [local EXCEPT ![i][c] = IF @ = Nothing THEN tags[i][c] ELSE @]
    /\ Reaches(p, "inspect")
    /\ UNCHANGED <<rows, heads, tags, pulled, pushes>>

\* Mutation of PullTag: a pull that failed goes unnoticed.
PullAnyway(p) ==
    LET i == applications[client[p].name].image
        c == client[p].revision
    IN
    /\ Stands(p, "pull tag")
    /\ local' = [local EXCEPT ![i][c] = tags[i][c]]
    /\ Reaches(p, "inspect")
    /\ UNCHANGED <<rows, heads, tags, pulled, pushes>>

\* resolve_image_digest: podman pull, then podman image inspect of the same tag,
\* which the pull of another process may have moved in between.
PullTag(p) ==
    LET i == applications[client[p].name].image
        c == client[p].revision
    IN
    /\ Stands(p, "pull tag") /\ tags[i][c] # Nothing
    /\ local' = [local EXCEPT ![i][c] = tags[i][c]]
    /\ Reaches(p, "inspect")
    /\ UNCHANGED <<rows, heads, tags, pulled, pushes>>

InspectTag(p) ==
    LET i == applications[client[p].name].image
        artifact == [image |-> i, digest |-> local[i][client[p].revision]]
    IN
    /\ Stands(p, "inspect") /\ Permits(client[p].name, artifact)
    /\ client' = [client EXCEPT ![p].at = "pull", ![p].artifact = artifact]
    /\ UNCHANGED <<rows, world, requests, since>>

\* pull_image: by digest, and what was pulled has that digest
PullImage(p) ==
    /\ Stands(p, "pull")
    /\ pulled' = pulled \cup {client[p].artifact}
    /\ Reaches(p, "record")
    /\ UNCHANGED <<rows, heads, tags, local, pushes>>

\* load_release_by_digest, on the rows of one Application: the repository is not
\* part of the query.
OfDigest(rs, digest) == {r \in rs : r.digest = digest}

\* create_release_while_locked: the artifact is inserted unless its reference is
\* there, then its Release is looked up.
CreateRelease(p) ==
    LET c == client[p] IN
    /\ Stands(p, "record")
    /\ releases' = [releases EXCEPT ![c.name] = @ \cup {c.artifact}]
    /\ \E release \in OfDigest(releases'[c.name], c.artifact.digest) :
           client' = [client EXCEPT ![p].at = "deploy", ![p].release = release]
    /\ UNCHANGED <<systems, applications, exposures, world, requests, since>>

\* deploy_release_reporting takes over, and returns.
Deliver(p) ==
    /\ Stands(p, "deploy") /\ Rests(p)
    /\ UNCHANGED <<rows, world>>

\* A branch or a tag that names nothing, a failing command, a refused statement.
DeliveryFails(p) ==
    /\ client[p].at \in DeliveryStages \ {"deploy"} /\ Rests(p)
    /\ UNCHANGED <<rows, world>>

\* The process dies: its lock is released, its checkout is left.
Dies(p) ==
    /\ ~Stands(p, "rest") /\ Rests(p)
    /\ UNCHANGED <<rows, world>>

-------------------------------------------------------------------------------
(* Developers push commits, build jobs push images. *)

Witnessed(fact) ==
    since' = [p \in Clients |-> IF since[p] = {} THEN {} ELSE since[p] \cup {fact}]

PushCommit(u, b, c) ==
    /\ pushes < MaxPushes /\ heads[u][b] # c
    /\ heads' = [heads EXCEPT ![u][b] = c] /\ pushes' = pushes + 1
    /\ Witnessed(<<u, b, c>>)
    /\ UNCHANGED <<rows, tags, local, pulled, requests, client>>

PushImage(i, c, d) ==
    /\ pushes < MaxPushes /\ tags[i][c] # d
    /\ tags' = [tags EXCEPT ![i][c] = d] /\ pushes' = pushes + 1
    /\ Witnessed(<<i, c, d>>)
    /\ UNCHANGED <<rows, heads, local, pulled, requests, client>>

-------------------------------------------------------------------------------

DeliveryInit ==
    /\ systems = {}
    /\ applications = [n \in Names |-> Nothing]
    /\ exposures = [n \in Names |-> Nothing]
    /\ releases = [n \in Names |-> {}]
    /\ heads = [u \in Urls |-> [b \in Branches |-> FirstCommit]]
    /\ \E d \in (Digests \cup {Nothing}) \ {FirstDigest} :
           tags = [i \in Images |->
               [c \in Commits |-> IF c = FirstCommit THEN FirstDigest ELSE d]]
    /\ local = [i \in Images |-> [c \in Commits |-> Nothing]]
    /\ pulled = {} /\ pushes = 0 /\ requests = 0
    /\ client = [p \in Clients |-> Resting]
    /\ since = [p \in Clients |-> {}]

Ask(p) ==
    \/ \E u \in Urls, f \in SystemNames \cup {Nothing} : BeginImport(p, u, f)
    \/ \E n \in Names, a \in Artifacts : DeliverImage(p, n, a)
    \/ \E n \in Names, b \in Branches : DeliverBranch(p, n, b)
    \/ \E words \in CiRequests : DeliverForCi(p, words)

Proceed(p) ==
    \/ \E d \in Documents : Clone(p, d)
    \/ CloneFails(p) \/ Import(p) \/ ImportFails(p) \/ CleanUp(p)
    \/ ResolveBranch(p) \/ PullTag(p) \/ InspectTag(p) \/ PullImage(p)
    \/ CreateRelease(p) \/ Deliver(p) \/ DeliveryFails(p) \/ Dies(p)

World ==
    \/ \E u \in Urls, b \in Branches, c \in Commits : PushCommit(u, b, c)
    \/ \E i \in Images, c \in Commits, d \in Digests : PushImage(i, c, d)

DeliveryNext ==
    \/ \E s \in SystemNames : CreateSystem(s)
    \/ \E n \in Names, v \in {"internal", "public"} : ChangeVisibility(n, v)
    \/ \E p \in Clients : Ask(p) \/ Proceed(p)
    \/ World

DeliverySpec == DeliveryInit /\ [][DeliveryNext]_deliveryVars

-------------------------------------------------------------------------------
(* Properties *)

\* Every variable keeps its type.
DeliveryTypeOK ==
    /\ systems \subseteq SystemNames
    /\ \A n \in Names :
        /\ applications[n] \in Rows \cup {Nothing} /\ exposures[n] \in Exposures \cup {Nothing}
        /\ releases[n] \subseteq Artifacts
    /\ heads \in [Urls -> [Branches -> Commits \cup {Nothing}]]
    /\ {tags, local} \subseteq [Images -> [Commits -> Digests \cup {Nothing}]]
    /\ pulled \subseteq Artifacts /\ pushes \in 0..MaxPushes /\ requests \in 0..MaxRequests
    /\ \A p \in Clients : client[p].at \in {"rest"} \cup ImportStages \cup DeliveryStages

\* An import creates its Application, exposure and System together or not at
\* all, whichever of two imports comes first and whatever is refused: every
\* Application has an exposure and is listed under one System that exists, and
\* no domain has two public owners.
CatalogueIsWhole ==
    \A n \in Names :
        /\ IsImported(n) <=> exposures[n] # Nothing
        /\ IsImported(n) => Cardinality({s \in systems : n \in ApplicationsOf(s)}) = 1
        /\ IsImported(n) =>
               IsIntent(exposures[n]) /\ DomainIsFree(n, exposures[n])

\* A Release of an Application was pulled by its digest from the repository that
\* the Application was imported with, although imports of its name go on with
\* other manifests, and the Release that is found by its digest alone is the one
\* of the artifact that was verified.
ReleasesArePermitted ==
    /\ \A n \in Names : \A r \in releases[n] :
           IsImported(n) /\ r.image = applications[n].image /\ r \in pulled
    /\ \A p \in Clients :
           Stands(p, "deploy") => client[p].release = client[p].artifact

\* A delivery of a branch deploys a commit that the branch named, and a digest
\* that the tag of this commit named, at a moment since the delivery was asked
\* for: nothing older is deployed, whatever moves while it is under way.
DeliveredIsCurrent ==
    \A p \in Clients : LET c == client[p] IN
        Stands(p, "deploy") /\ c.branch # Nothing =>
            /\ <<applications[c.name].url, c.branch, c.revision>> \in since[p]
            /\ <<c.release.image, c.revision, c.release.digest>> \in since[p]

===============================================================================
