--------------------------- MODULE DeliveryProofs ----------------------------
(***************************************************************************)
(* Proofs about Delivery: for any number of processes, repositories, tags, *)
(* manifests and bounds, the catalogue is whole, every Release is of the   *)
(* repository that its Application was imported with and was verified, and *)
(* a branch is delivered as it was at some moment since the delivery was   *)
(* asked for.                                                              *)
(*                                                                         *)
(* The inductive invariant says of every stage of a command what the       *)
(* stages before it established, and that nobody else takes it back: an    *)
(* imported row never changes, what was pulled stays pulled, and the tag   *)
(* that a process inspects may have been moved by another one, but only to *)
(* a digest that the registry had meanwhile.                               *)
(***************************************************************************)
EXTENDS Delivery, FiniteSetTheorems, TLAPS

OfBranch == {"resolve", "pull tag", "inspect"}
OfArtifact == {"pull", "record", "deploy"}

Tasks ==
    [at : {"rest"} \cup ImportStages \cup DeliveryStages,
     name : Names \cup {Nothing}, url : Urls \cup {Nothing},
     flag : SystemNames \cup {Nothing}, document : Documents \cup {Nothing},
     branch : Branches \cup {Nothing}, revision : Commits \cup {Nothing},
     artifact : Artifacts \cup {Nothing}, release : Artifacts \cup {Nothing}]

CatalogueTyped ==
    /\ systems \subseteq SystemNames
    /\ applications \in [Names -> Rows \cup {Nothing}]
    /\ exposures \in [Names -> Exposures \cup {Nothing}]
    /\ releases \in [Names -> SUBSET Artifacts]

WorldTyped ==
    /\ heads \in [Urls -> [Branches -> Commits \cup {Nothing}]]
    /\ tags \in [Images -> [Commits -> Digests \cup {Nothing}]]
    /\ local \in [Images -> [Commits -> Digests \cup {Nothing}]]
    /\ pulled \subseteq Artifacts
    /\ pushes \in 0..MaxPushes

ClientsTyped ==
    /\ requests \in 0..MaxRequests
    /\ client \in [Clients -> Tasks]
    /\ since = [p \in Clients |-> since[p]]

\* An Application, its exposure and its System.
ApplicationIsWhole(n) ==
    /\ IsImported(n) <=> exposures[n] # Nothing
    /\ IsImported(n) =>
        /\ applications[n].system \in systems
        /\ IsIntent(exposures[n])
        /\ DomainIsFree(n, exposures[n])

ReleasesAreVerified ==
    \A n \in Names : \A r \in releases[n] :
        IsImported(n) /\ r.image = applications[n].image /\ r \in pulled

\* The image and the commit whose tag a delivery of a branch pulls
TaggedBy(p) == applications[client[p].name].image

\* What the stages before the present one established
TaskIsKnown(p) ==
    LET c == client[p] IN
    /\ c.at \in {"clone", "import"} => c.url \in Urls
    /\ c.at = "import" => c.document \in Documents
    /\ c.at \in DeliveryStages => c.name \in Names /\ IsImported(c.name)
    /\ c.at \in OfBranch => c.branch \in Branches
    /\ c.at \in {"pull tag", "inspect"} => c.revision \in Commits
    /\ c.at = "inspect" => local[TaggedBy(p)][c.revision] # Nothing
    /\ c.at \in OfArtifact => c.artifact \in Artifacts /\ Permits(c.name, c.artifact)
    /\ c.at \in {"record", "deploy"} => c.artifact \in pulled
    /\ c.at = "deploy" => c.release = c.artifact

\* What a delivery of a branch has seen so far was so since it began.
TaskIsCurrent(p) ==
    LET c == client[p] IN
    /\ c.at \in OfBranch => Facts \subseteq since[p]
    /\ c.at \in {"pull tag", "inspect"} \/ (c.at \in OfArtifact /\ c.branch # Nothing) =>
           <<SourceOf(c.name), c.branch, c.revision>> \in since[p]
    /\ c.at = "inspect" =>
           <<TaggedBy(p), c.revision, local[TaggedBy(p)][c.revision]>> \in since[p]
    /\ c.at \in OfArtifact /\ c.branch # Nothing =>
           <<c.artifact.image, c.revision, c.artifact.digest>> \in since[p]

CatalogueInvariant == \A n \in Names : ApplicationIsWhole(n)
TasksAreKnown == \A p \in Clients : TaskIsKnown(p)
TasksAreCurrent == \A p \in Clients : TaskIsCurrent(p)

Typed == CatalogueTyped /\ WorldTyped /\ ClientsTyped

DeliveryInvariant ==
    /\ Typed /\ CatalogueInvariant /\ ReleasesAreVerified
    /\ TasksAreKnown /\ TasksAreCurrent
-------------------------------------------------------------------------------
(* Types *)

USE DEF rows, world

\* A process at rest, or about to clean up, is a task.
LEMMA RestingIsTask ==
    Resting \in Tasks /\ [Resting EXCEPT !.at = "cleanup"] \in Tasks
BY DEF Resting, Tasks, ImportStages, DeliveryStages

\* A command is refused a second start past the bound.
LEMMA StartsTyped ==
    ASSUME ClientsTyped, Starts
    PROVE  requests' \in 0..MaxRequests
BY BoundsAssumption DEF ClientsTyped, Starts

\* Of the three ways in which a step leaves a process, each keeps the types.
LEMMA LeavesTyped ==
    ASSUME ClientsTyped, NEW p \in Clients,
           \/ Rests(p) \/ CleansUp(p)
           \/ \E stage \in {"rest"} \cup ImportStages \cup DeliveryStages :
                  Reaches(p, stage)
    PROVE  ClientsTyped'
BY RestingIsTask DEF ClientsTyped, Rests, CleansUp, Reaches, Tasks

\* A task that reaches its next stage with a new field is a task.
LEMMA StagesTyped ==
    ASSUME NEW task \in Tasks
    PROVE  /\ \A d \in Documents :
                  [task EXCEPT !.at = "import", !.document = d] \in Tasks
           /\ \A commit \in Commits \cup {Nothing} :
                  [task EXCEPT !.at = "pull tag", !.revision = commit] \in Tasks
           /\ \A artifact \in Artifacts :
                  /\ [task EXCEPT !.at = "pull", !.artifact = artifact] \in Tasks
                  /\ [task EXCEPT !.at = "deploy", !.release = artifact] \in Tasks
<1>1. {"import", "pull tag", "pull", "deploy"}
          \subseteq {"rest"} \cup ImportStages \cup DeliveryStages
  BY DEF ImportStages, DeliveryStages
<1>2. ASSUME NEW d \in Documents
      PROVE  [task EXCEPT !.at = "import", !.document = d] \in Tasks
  BY <1>1 DEF Tasks
<1>3. ASSUME NEW commit \in Commits \cup {Nothing}
      PROVE  [task EXCEPT !.at = "pull tag", !.revision = commit] \in Tasks
  BY ZenonT(60), <1>1 DEF Tasks
<1>4. ASSUME NEW artifact \in Artifacts
      PROVE  /\ [task EXCEPT !.at = "pull", !.artifact = artifact] \in Tasks
             /\ [task EXCEPT !.at = "deploy", !.release = artifact] \in Tasks
  <2>1. [task EXCEPT !.at = "pull", !.artifact = artifact] \in Tasks
    BY <1>1 DEF Tasks
  <2>2. [task EXCEPT !.at = "deploy", !.release = artifact] \in Tasks
    BY <1>1 DEF Tasks
  <2> QED BY <2>1, <2>2
<1> QED BY <1>2, <1>3, <1>4

\* So does a step that gives a process another task and starts nothing.
LEMMA TaskTyped ==
    ASSUME ClientsTyped, NEW p \in Clients, NEW task \in Tasks,
           client' = [client EXCEPT ![p] = task], UNCHANGED <<requests, since>>
    PROVE  ClientsTyped'
BY DEF ClientsTyped

\* The catalogue keeps its type.
LEMMA StepCatalogueTyped ==
    ASSUME Typed, CatalogueInvariant, TasksAreKnown, [DeliveryNext]_deliveryVars
    PROVE  CatalogueTyped'
<1> USE DEF Typed, CatalogueTyped
<1>1. CASE UNCHANGED rows
  BY <1>1
<1>2. ASSUME NEW s \in SystemNames, CreateSystem(s)
      PROVE  CatalogueTyped'
  BY <1>2 DEF CreateSystem
<1>3. ASSUME NEW n \in Names, NEW v \in {"internal", "public"}, ChangeVisibility(n, v)
      PROVE  CatalogueTyped'
  <2>1. exposures[n] \in Exposures
    BY <1>3 DEF ChangeVisibility, CatalogueInvariant, ApplicationIsWhole
  <2> QED BY <1>3, <2>1 DEF ChangeVisibility, Exposures
<1>4. ASSUME NEW p \in Clients, Import(p)
      PROVE  CatalogueTyped'
  <2> DEFINE c == client[p]
  <2>1. c.url \in Urls /\ c.document \in Manifests /\ c.document \in Documents
    BY <1>4, DocumentsAssumption DEF TasksAreKnown, TaskIsKnown, Import, Stands
  <2>2. SystemOf(c) # Nothing => SystemOf(c) \in SystemNames
    BY <2>1 DEF SystemOf, Manifests, ClientsTyped, Tasks
  <2>3. SystemOf(c) # Nothing => ImportedRow(c) \in Rows
    BY <2>1, <2>2 DEF ImportedRow, Rows, Manifests
  <2>4. ImportedExposure(c.document) \in Exposures
    BY <2>1 DEF ImportedExposure, Exposures, Manifests
  <2> QED BY <1>4, <2>2, <2>3, <2>4 DEF Import
<1>5. ASSUME NEW p \in Clients, CreateRelease(p)
      PROVE  CatalogueTyped'
  <2>1. client[p].artifact \in Artifacts
    BY <1>5 DEF TasksAreKnown, TaskIsKnown, CreateRelease, Stands, OfArtifact
  <2> QED BY <1>5, <2>1 DEF CreateRelease
<1> QED
  BY <1>1, <1>2, <1>3, <1>4, <1>5
     DEF DeliveryNext, deliveryVars, Ask, Proceed, World, BeginImport, DeliverImage,
         DeliverBranch, DeliverForCi, Clone, CloneFails, ImportFails, CleanUp,
         ResolveBranch, PullTag, InspectTag, PullImage, Deliver, DeliveryFails, Dies,
         PushCommit, PushImage

\* What belongs to others keeps its type.
LEMMA StepWorldTyped ==
    ASSUME Typed, TasksAreKnown, [DeliveryNext]_deliveryVars
    PROVE  WorldTyped'
<1> USE DEF Typed, WorldTyped
<1>1. CASE UNCHANGED world
  BY <1>1
<1>2. ASSUME NEW p \in Clients, PullTag(p)
      PROVE  WorldTyped'
  <2> DEFINE i == TaggedBy(p)
             c == client[p].revision
  <2>1. i \in Images /\ c \in Commits
    BY <1>2
       DEF TasksAreKnown, TaskIsKnown, TaggedBy, PullTag, Stands, DeliveryStages,
           IsImported, CatalogueTyped, Rows
  <2>2. tags[i][c] \in Digests \cup {Nothing}
    BY <2>1
  <2>3. local' = [local EXCEPT ![i][c] = tags[i][c]]
    BY <1>2 DEF PullTag, TaggedBy
  <2> HIDE DEF i, c
  <2>4. local' \in [Images -> [Commits -> Digests \cup {Nothing}]]
    BY <2>1, <2>2, <2>3
  <2> QED BY <1>2, <2>4 DEF PullTag
<1>3. ASSUME NEW p \in Clients, PullImage(p)
      PROVE  WorldTyped'
  <2>1. client[p].artifact \in Artifacts
    BY <1>3 DEF TasksAreKnown, TaskIsKnown, PullImage, Stands, OfArtifact
  <2> QED BY <1>3, <2>1 DEF PullImage
<1>4. ASSUME NEW u \in Urls, NEW b \in Branches, NEW c \in Commits, PushCommit(u, b, c)
      PROVE  WorldTyped'
  <2>1. heads' \in [Urls -> [Branches -> Commits \cup {Nothing}]]
    BY <1>4 DEF PushCommit
  <2> QED BY <1>4, <2>1, BoundsAssumption DEF PushCommit
<1>5. ASSUME NEW i \in Images, NEW c \in Commits, NEW d \in Digests, PushImage(i, c, d)
      PROVE  WorldTyped'
  <2>1. tags' \in [Images -> [Commits -> Digests \cup {Nothing}]]
    BY <1>5 DEF PushImage
  <2> QED BY <1>5, <2>1, BoundsAssumption DEF PushImage
<1> QED
  BY <1>1, <1>2, <1>3, <1>4, <1>5
     DEF World, DeliveryNext, deliveryVars, Ask, Proceed, CreateSystem, ChangeVisibility,
         BeginImport, DeliverImage, DeliverBranch, DeliverForCi, Clone, CloneFails,
         Import, ImportFails, CleanUp, ResolveBranch, InspectTag, CreateRelease,
         Deliver, DeliveryFails, Dies

\* A tag that was pulled and is inspected names an artifact.
LEMMA InspectsArtifact ==
    ASSUME Typed, TasksAreKnown, NEW p \in Clients, InspectTag(p)
    PROVE  [image |-> TaggedBy(p), digest |-> local[TaggedBy(p)][client[p].revision]]
               \in Artifacts
<1>1. TaggedBy(p) \in Images /\ client[p].revision \in Commits
  BY DEF TasksAreKnown, TaskIsKnown, TaggedBy, InspectTag, Stands, DeliveryStages,
         IsImported, Typed, CatalogueTyped, Rows
<1>2. local[TaggedBy(p)][client[p].revision] \in Digests \cup {Nothing}
  BY <1>1 DEF Typed, WorldTyped
<1>3. local[TaggedBy(p)][client[p].revision] # Nothing
  BY DEF TasksAreKnown, TaskIsKnown, InspectTag, Stands
<1> QED BY <1>1, <1>2, <1>3 DEF Artifacts

\* The Release that is found by its digest alone is that of the artifact: all
\* Releases of an Application are of one repository.
LEMMA FindsItsRelease ==
    ASSUME Typed, TasksAreKnown, ReleasesAreVerified, NEW p \in Clients, CreateRelease(p),
           NEW release \in OfDigest(releases'[client[p].name], client[p].artifact.digest)
    PROVE  release = client[p].artifact /\ release \in Artifacts
<1> DEFINE n == client[p].name
           artifact == client[p].artifact
<1>1. n \in Names /\ artifact \in Artifacts /\ artifact.image = applications[n].image
  BY DEF TasksAreKnown, TaskIsKnown, CreateRelease, Stands, OfArtifact, DeliveryStages,
         Permits
<1>2. releases'[n] = releases[n] \cup {artifact}
  BY <1>1 DEF CreateRelease, Typed, CatalogueTyped
<1>3. release \in releases[n] \cup {artifact} /\ release.digest = artifact.digest
  BY <1>2 DEF OfDigest
<1>4. release \in Artifacts /\ release.image = artifact.image
  BY <1>1, <1>3 DEF ReleasesAreVerified, Typed, CatalogueTyped
<1> QED BY <1>1, <1>3, <1>4 DEF Artifacts

\* Commands keep their type.
LEMMA StepClientsTyped ==
    ASSUME Typed, TasksAreKnown, ReleasesAreVerified, [DeliveryNext]_deliveryVars
    PROVE  ClientsTyped'
<1> USE DEF Typed
<1>1. CASE UNCHANGED <<requests, client, since>>
  BY <1>1 DEF ClientsTyped
<1>2. ASSUME NEW p \in Clients, Ask(p)
      PROVE  ClientsTyped'
  <2>1. PICK task \in Tasks : client' = [client EXCEPT ![p] = task]
    <3>1. ASSUME NEW url \in Urls, NEW flag \in SystemNames \cup {Nothing},
                 BeginImport(p, url, flag)
          PROVE  \E task \in Tasks : client' = [client EXCEPT ![p] = task]
      BY <3>1 DEF BeginImport, Resting, Tasks, ImportStages
    <3>2. ASSUME NEW n \in Names, NEW a \in Artifacts, DeliverImage(p, n, a)
          PROVE  \E task \in Tasks : client' = [client EXCEPT ![p] = task]
      BY <3>2 DEF DeliverImage, Resting, Tasks, DeliveryStages
    <3>3. ASSUME NEW n \in Names, NEW b \in Branches, DeliverBranch(p, n, b)
          PROVE  \E task \in Tasks : client' = [client EXCEPT ![p] = task]
      BY <3>3 DEF DeliverBranch, Resting, Tasks, DeliveryStages
    <3> QED BY <1>2, <3>1, <3>2, <3>3 DEF Ask, DeliverForCi, IsDeployRequest
  <2>2. Starts
    BY <1>2 DEF Ask, BeginImport, DeliverImage, DeliverBranch, DeliverForCi
  <2>3. since' = [q \in Clients |-> since'[q]]
    BY <1>2
       DEF Ask, BeginImport, DeliverImage, DeliverBranch, DeliverForCi, ClientsTyped
  <2> QED BY <2>1, <2>2, <2>3, StartsTyped DEF ClientsTyped
<1>3. ASSUME NEW p \in Clients, Proceed(p)
      PROVE  ClientsTyped'
  <2>1. CASE \/ CloneFails(p) \/ Import(p) \/ ImportFails(p) \/ CleanUp(p)
             \/ Deliver(p) \/ DeliveryFails(p) \/ Dies(p)
    BY <2>1, LeavesTyped
       DEF CloneFails, Import, ImportFails, CleanUp, Deliver, DeliveryFails, Dies
  <2>2. CASE PullTag(p) \/ PullImage(p)
    BY <2>2, LeavesTyped DEF PullTag, PullImage, DeliveryStages
  <2>3. ASSUME NEW d \in Documents, Clone(p, d)
        PROVE  ClientsTyped'
    <3> DEFINE task == [client[p] EXCEPT !.at = "import", !.document = d]
    <3>1. task \in Tasks
      BY StagesTyped DEF ClientsTyped
    <3>2. client' = [client EXCEPT ![p] = task] /\ UNCHANGED <<requests, since>>
      BY <2>3 DEF Clone, ClientsTyped
    <3> HIDE DEF task
    <3> QED BY <3>1, <3>2, TaskTyped
  <2>4. CASE ResolveBranch(p)
    <3>1. /\ client[p].name \in Names /\ IsImported(client[p].name)
          /\ client[p].branch \in Branches
      BY <2>4
         DEF TasksAreKnown, TaskIsKnown, ResolveBranch, Stands, DeliveryStages, OfBranch
    <3>2. SourceOf(client[p].name) \in Urls
      BY <3>1 DEF SourceOf, CatalogueTyped, IsImported, Rows
    <3> DEFINE commit == heads[SourceOf(client[p].name)][client[p].branch]
    <3>3. commit \in Commits \cup {Nothing}
      BY <3>1, <3>2 DEF WorldTyped
    <3>4. client' = [client EXCEPT ![p].at = "pull tag", ![p].revision = commit]
      BY <2>4 DEF ResolveBranch
    <3> HIDE DEF commit
    <3> DEFINE task == [client[p] EXCEPT !.at = "pull tag", !.revision = commit]
    <3>5. task \in Tasks
      BY <3>3, StagesTyped DEF ClientsTyped
    <3>6. client' = [client EXCEPT ![p] = task] /\ UNCHANGED <<requests, since>>
      BY <2>4, <3>4 DEF ResolveBranch, ClientsTyped
    <3> HIDE DEF task
    <3> QED BY <3>5, <3>6, TaskTyped
  <2>5. CASE InspectTag(p)
    <3> DEFINE artifact ==
                   [image |-> TaggedBy(p), digest |-> local[TaggedBy(p)][client[p].revision]]
    <3>1. artifact \in Artifacts
      BY <2>5, InspectsArtifact
    <3>2. client' = [client EXCEPT ![p].at = "pull", ![p].artifact = artifact]
      BY <2>5 DEF InspectTag, TaggedBy
    <3> HIDE DEF artifact
    <3> DEFINE task == [client[p] EXCEPT !.at = "pull", !.artifact = artifact]
    <3>3. task \in Tasks
      BY <3>1, StagesTyped DEF ClientsTyped
    <3>4. client' = [client EXCEPT ![p] = task] /\ UNCHANGED <<requests, since>>
      BY <2>5, <3>2 DEF InspectTag, ClientsTyped
    <3> HIDE DEF task
    <3> QED BY <3>3, <3>4, TaskTyped
  <2>6. CASE CreateRelease(p)
    <3>1. PICK release \in OfDigest(releases'[client[p].name], client[p].artifact.digest) :
             client' = [client EXCEPT ![p].at = "deploy", ![p].release = release]
      BY <2>6 DEF CreateRelease
    <3>2. release = client[p].artifact /\ release \in Artifacts
      BY <2>6, <3>1, FindsItsRelease
    <3> DEFINE task == [client[p] EXCEPT !.at = "deploy", !.release = release]
    <3>3. task \in Tasks
      BY <3>2, StagesTyped DEF ClientsTyped
    <3>4. client' = [client EXCEPT ![p] = task] /\ UNCHANGED <<requests, since>>
      BY <2>6, <3>1 DEF CreateRelease, ClientsTyped
    <3> HIDE DEF task
    <3> QED BY <3>3, <3>4, TaskTyped
  <2> QED BY <1>3, <2>1, <2>2, <2>3, <2>4, <2>5, <2>6 DEF Proceed
<1>4. CASE World
  BY <1>4 DEF World, PushCommit, PushImage, Witnessed, ClientsTyped
<1> QED
  BY <1>1, <1>2, <1>3, <1>4
     DEF DeliveryNext, deliveryVars, CreateSystem, ChangeVisibility

-------------------------------------------------------------------------------
(* What no step takes back *)

\* The row of an imported Application never changes: an import of its name with
\* another manifest leaves it as it is.
LEMMA ApplicationsStay ==
    ASSUME Typed, [DeliveryNext]_deliveryVars, NEW n \in Names, IsImported(n)
    PROVE  applications'[n] = applications[n] /\ IsImported(n)'
<1>1. applications'[n] = applications[n]
  <2>1. CASE applications' = applications
    BY <2>1
  <2>2. ASSUME NEW p \in Clients, Import(p)
        PROVE  applications'[n] = applications[n]
    BY <2>2 DEF Import, Typed, CatalogueTyped
  <2> QED
    BY ZenonT(60), <2>1, <2>2
       DEF DeliveryNext, deliveryVars, CreateSystem, ChangeVisibility, Ask, Proceed,
           World, BeginImport, DeliverImage, DeliverBranch, DeliverForCi, Clone,
           CloneFails, ImportFails, CleanUp, ResolveBranch, PullTag, InspectTag,
           PullImage, CreateRelease, Deliver, DeliveryFails, Dies, PushCommit, PushImage
<1> QED BY <1>1 DEF IsImported

\* What was pulled stays pulled, a System stays.
LEMMA PulledStays ==
    ASSUME [DeliveryNext]_deliveryVars
    PROVE  pulled \subseteq pulled' /\ systems \subseteq systems'
BY ZenonT(60)
   DEF DeliveryNext, deliveryVars, CreateSystem, ChangeVisibility, Ask, Proceed, World,
       BeginImport, DeliverImage, DeliverBranch, DeliverForCi, Clone, CloneFails, Import,
       ImportFails, CleanUp, ResolveBranch, PullTag, InspectTag, PullImage, CreateRelease,
       Deliver, DeliveryFails, Dies, PushCommit, PushImage

\* A tag in Podman's store moves to what it names in the registry, and nowhere
\* else; it is never removed.
LEMMA LocalFollows ==
    ASSUME Typed, [DeliveryNext]_deliveryVars, NEW i \in Images, NEW c \in Commits
    PROVE  \/ local'[i][c] = local[i][c]
           \/ local'[i][c] = tags[i][c] /\ tags[i][c] # Nothing
<1>1. CASE local' = local
  BY <1>1
<1>2. ASSUME NEW p \in Clients, PullTag(p)
      PROVE  \/ local'[i][c] = local[i][c]
             \/ local'[i][c] = tags[i][c] /\ tags[i][c] # Nothing
  <2> DEFINE j == TaggedBy(p)
             d == client[p].revision
  <2>1. local' = [local EXCEPT ![j][d] = tags[j][d]] /\ tags[j][d] # Nothing
    BY <1>2 DEF PullTag, TaggedBy
  <2> HIDE DEF j, d
  <2>2. local \in [Images -> [Commits -> Digests \cup {Nothing}]]
    BY DEF Typed, WorldTyped
  <2> QED BY <2>1, <2>2
<1> QED
  BY ZenonT(60), <1>1, <1>2
     DEF DeliveryNext, deliveryVars, CreateSystem, ChangeVisibility, Ask, Proceed,
         World, BeginImport, DeliverImage, DeliverBranch, DeliverForCi, Clone,
         CloneFails, Import, ImportFails, CleanUp, ResolveBranch, InspectTag, PullImage,
         CreateRelease, Deliver, DeliveryFails, Dies, PushCommit, PushImage

\* A delivery of a branch is told of every move of a branch or a tag.
LEMMA NothingGoesUnseen ==
    ASSUME Typed, [DeliveryNext]_deliveryVars, NEW p \in Clients,
           since[p] # {}, client'[p] = client[p], client[p].at \in DeliveryStages
    PROVE  /\ since[p] \subseteq since'[p]
           /\ Facts \subseteq since[p] => Facts' \subseteq since'[p]
<1> USE DEF Typed, ClientsTyped
<1>1. CASE UNCHANGED <<heads, tags, since>>
  BY <1>1 DEF Facts
<1>2. ASSUME NEW q \in Clients, since' = [since EXCEPT ![q] = since'[q]],
             UNCHANGED <<heads, tags>>, client'[q] # client[q]
      PROVE  /\ since[p] \subseteq since'[p]
             /\ Facts \subseteq since[p] => Facts' \subseteq since'[p]
  <2>1. p # q
    BY <1>2
  <2> QED BY <1>2, <2>1 DEF Facts
<1>3. ASSUME NEW u \in Urls, NEW b \in Branches, NEW c \in Commits, PushCommit(u, b, c)
      PROVE  /\ since[p] \subseteq since'[p]
             /\ Facts \subseteq since[p] => Facts' \subseteq since'[p]
  <2>1. since'[p] = since[p] \cup {<<u, b, c>>}
    BY <1>3 DEF PushCommit, Witnessed
  <2>2. ASSUME NEW v \in Urls, NEW a \in Branches
        PROVE  heads'[v][a] = heads[v][a] \/ (v = u /\ a = b /\ heads'[v][a] = c)
    BY <1>3 DEF PushCommit, WorldTyped
  <2>3. Facts' \subseteq Facts \cup {<<u, b, c>>}
    BY <1>3, <2>2 DEF Facts, PushCommit
  <2> QED BY <2>1, <2>3
<1>4. ASSUME NEW i \in Images, NEW c \in Commits, NEW d \in Digests, PushImage(i, c, d)
      PROVE  /\ since[p] \subseteq since'[p]
             /\ Facts \subseteq since[p] => Facts' \subseteq since'[p]
  <2>1. since'[p] = since[p] \cup {<<i, c, d>>}
    BY <1>4 DEF PushImage, Witnessed
  <2>2. ASSUME NEW j \in Images, NEW e \in Commits
        PROVE  tags'[j][e] = tags[j][e] \/ (j = i /\ e = c /\ tags'[j][e] = d)
    BY <1>4 DEF PushImage, WorldTyped
  <2>3. Facts' \subseteq Facts \cup {<<i, c, d>>}
    BY <1>4, <2>2 DEF Facts, PushImage
  <2> QED BY <2>1, <2>3
<1>5. ASSUME NEW q \in Clients, Ask(q)
      PROVE  \/ UNCHANGED <<heads, tags, since>>
             \/ /\ since' = [since EXCEPT ![q] = since'[q]]
                /\ UNCHANGED <<heads, tags>> /\ client'[q] # client[q]
  <2>1. client'[q].at # client[q].at /\ UNCHANGED <<heads, tags>>
    BY ZenonT(60), <1>5
       DEF Ask, BeginImport, DeliverImage, DeliverBranch, DeliverForCi, IsDeliverable,
           Stands, Resting
  <2>2. since' = since \/ since' = [since EXCEPT ![q] = since'[q]]
    BY <1>5 DEF Ask, BeginImport, DeliverImage, DeliverBranch, DeliverForCi
  <2> QED BY <2>1, <2>2
<1>6. ASSUME NEW q \in Clients, Proceed(q)
      PROVE  \/ UNCHANGED <<heads, tags, since>>
             \/ /\ since' = [since EXCEPT ![q] = since'[q]]
                /\ UNCHANGED <<heads, tags>> /\ client'[q] # client[q]
  <2>1. UNCHANGED <<heads, tags>>
    BY <1>6
       DEF Proceed, Clone, CloneFails, Import, ImportFails, CleanUp, ResolveBranch,
           PullTag, InspectTag, PullImage, CreateRelease, Deliver, DeliveryFails, Dies
  <2>2. since' = since \/ (Rests(q) /\ ~Stands(q, "rest"))
    BY <1>6
       DEF Proceed, Clone, CloneFails, Import, ImportFails, CleanUp, ResolveBranch,
           PullTag, InspectTag, PullImage, CreateRelease, Deliver, DeliveryFails, Dies,
           CleansUp, Reaches, Stands, ImportStages, DeliveryStages
  <2>3. Rests(q) /\ ~Stands(q, "rest") =>
            client'[q] # client[q] /\ since' = [since EXCEPT ![q] = since'[q]]
    BY DEF Rests, Stands, Resting
  <2> QED BY <2>1, <2>2, <2>3
<1> QED
  BY <1>1, <1>2, <1>3, <1>4, <1>5, <1>6
     DEF DeliveryNext, deliveryVars, World, CreateSystem, ChangeVisibility

-------------------------------------------------------------------------------
(* The catalogue and its Releases *)

\* A change of one exposure, to one whose domain is free, leaves every domain
\* with one public owner.
LEMMA DomainsStayFree ==
    ASSUME Typed, CatalogueInvariant, NEW n \in Names, NEW exposure \in Exposures,
           IsIntent(exposure), DomainIsFree(n, exposure),
           exposures' = [exposures EXCEPT ![n] = exposure],
           applications' = applications \/ \E row \in Rows :
                                              applications' = [applications EXCEPT ![n] = row],
           IsImported(n)', systems \subseteq systems', applications'[n].system \in systems'
    PROVE  CatalogueInvariant'
<1> USE DEF Typed, CatalogueTyped
<1>1. exposures'[n] = exposure /\ \A m \in Names \ {n} : exposures'[m] = exposures[m]
  OBVIOUS
<1>2. \A m \in Names \ {n} : applications'[m] = applications[m]
  OBVIOUS
<1>3. ApplicationIsWhole(n)'
  <2>1. exposure # Nothing
    BY NothingAssumption
  <2>2. DomainIsFree(n, exposures[n])'
    BY <1>1 DEF DomainIsFree
  <2> QED BY <1>1, <2>1, <2>2 DEF ApplicationIsWhole
<1>4. ASSUME NEW m \in Names \ {n}
      PROVE  ApplicationIsWhole(m)'
  <2>1. ApplicationIsWhole(m)
    BY DEF CatalogueInvariant
  <2>2. IsImported(m)' <=> IsImported(m)
    BY <1>2 DEF IsImported
  <2>3. IsImported(m) => DomainIsFree(m, exposures[m])'
    BY <1>1, <2>1 DEF ApplicationIsWhole, DomainIsFree
  <2> QED BY <1>1, <1>2, <2>1, <2>2, <2>3 DEF ApplicationIsWhole
<1> QED BY <1>3, <1>4 DEF CatalogueInvariant

\* The catalogue stays whole.
LEMMA StepCatalogue ==
    ASSUME Typed, CatalogueInvariant, TasksAreKnown, [DeliveryNext]_deliveryVars
    PROVE  CatalogueInvariant'
<1>1. CASE UNCHANGED <<applications, exposures>>
  <2>1. ASSUME NEW n \in Names
        PROVE  ApplicationIsWhole(n)'
    <3>1. ApplicationIsWhole(n)
      BY DEF CatalogueInvariant
    <3>2. DomainIsFree(n, exposures[n])' <=> DomainIsFree(n, exposures[n])
      BY <1>1 DEF DomainIsFree
    <3> QED BY <1>1, <3>1, <3>2, PulledStays DEF ApplicationIsWhole, IsImported
  <2> QED BY <2>1 DEF CatalogueInvariant
<1>2. ASSUME NEW n \in Names, NEW v \in {"internal", "public"}, ChangeVisibility(n, v)
      PROVE  CatalogueInvariant'
  <2> DEFINE exposure == [exposures[n] EXCEPT !.visibility = v]
  <2>1. ApplicationIsWhole(n) /\ IsImported(n)
    BY <1>2 DEF CatalogueInvariant, ChangeVisibility
  <2>2. exposures[n] \in Exposures
    BY <2>1 DEF ApplicationIsWhole, Typed, CatalogueTyped
  <2>3. exposure \in Exposures /\ IsIntent(exposure)
    BY <1>2, <2>2 DEF ChangeVisibility, IsIntent, Exposures
  <2>4. DomainIsFree(n, exposure) /\ UNCHANGED <<systems, applications>>
    BY <1>2 DEF ChangeVisibility
  <2>5. exposures' = [exposures EXCEPT ![n] = exposure]
    BY <1>2 DEF ChangeVisibility, Typed, CatalogueTyped
  <2>6. applications[n].system \in systems /\ IsImported(n)'
    BY <2>1, <2>4 DEF ApplicationIsWhole, IsImported
  <2> HIDE DEF exposure
  <2> QED BY <2>3, <2>4, <2>5, <2>6, DomainsStayFree
<1>3. ASSUME NEW p \in Clients, Import(p), ~UNCHANGED rows
      PROVE  CatalogueInvariant'
  <2>1. client[p].url \in Urls /\ client[p].document \in Manifests
    BY <1>3, DocumentsAssumption DEF TasksAreKnown, TaskIsKnown, Import, Stands
  <2>2. PICK n \in Names : n = client[p].document.name
    BY <2>1 DEF Manifests
  <2>3. SystemOf(client[p]) \in SystemNames
    BY <1>3, <2>1 DEF Import, SystemOf, Manifests, Typed, ClientsTyped, Tasks
  <2>4. PICK row \in Rows :
          row = ImportedRow(client[p]) /\ row.system = SystemOf(client[p])
    <3>1. ImportedRow(client[p]) \in Rows
      BY <2>1, <2>3 DEF ImportedRow, Rows, Manifests
    <3>2. ImportedRow(client[p]).system = SystemOf(client[p])
      BY DEF ImportedRow
    <3> QED BY <3>1, <3>2
  <2>5. client[p].document \in Documents
    BY <1>3 DEF TasksAreKnown, TaskIsKnown, Import, Stands
  <2>6. PICK exposure \in Exposures :
          exposure = ImportedExposure(client[p].document) /\ IsIntent(exposure)
    BY <1>3, <2>1, <2>5
       DEF Import, IsSpecification, ImportedExposure, Exposures, Manifests, IsIntent
  <2>7. /\ DomainIsFree(n, exposure)
        /\ systems' = systems \cup {row.system}
        /\ applications' = [applications EXCEPT ![n] = row]
        /\ exposures' = [exposures EXCEPT ![n] = exposure]
    BY <1>3, <2>2, <2>4, <2>6 DEF Import
  <2>8. applications'[n] = row /\ row # Nothing
    BY <2>7, NothingAssumption DEF Typed, CatalogueTyped
  <2>9. IsImported(n)' /\ applications'[n].system \in systems'
    BY <2>7, <2>8 DEF IsImported
  <2> QED BY <2>6, <2>7, <2>9, DomainsStayFree
<1> QED
  BY ZenonT(60), <1>1, <1>2, <1>3
     DEF DeliveryNext, deliveryVars, CreateSystem, Ask, Proceed, World, BeginImport,
         DeliverImage, DeliverBranch, DeliverForCi, Clone, CloneFails, Import,
         ImportFails, CleanUp, ResolveBranch, PullTag, InspectTag, PullImage,
         CreateRelease, Deliver, DeliveryFails, Dies, PushCommit, PushImage

\* A Release is recorded only of an artifact that was pulled, and of the
\* repository of its Application.
LEMMA StepReleases ==
    ASSUME Typed, ReleasesAreVerified, TasksAreKnown, [DeliveryNext]_deliveryVars
    PROVE  ReleasesAreVerified'
<1>1. ASSUME NEW n \in Names, NEW r \in releases'[n], r \in releases[n]
      PROVE  (IsImported(n) /\ r.image = applications[n].image /\ r \in pulled)'
  BY <1>1, ApplicationsStay, PulledStays DEF ReleasesAreVerified
<1>2. ASSUME NEW p \in Clients, CreateRelease(p),
             NEW n \in Names, NEW r \in releases'[n], r \notin releases[n]
      PROVE  (IsImported(n) /\ r.image = applications[n].image /\ r \in pulled)'
  <2>1. n = client[p].name /\ r = client[p].artifact
    BY <1>2 DEF CreateRelease, Typed, CatalogueTyped
  <2>2. IsImported(n) /\ r.image = applications[n].image /\ r \in pulled
    BY <1>2, <2>1
       DEF TasksAreKnown, TaskIsKnown, CreateRelease, Stands, DeliveryStages,
           OfArtifact, Permits
  <2> QED BY <2>2, ApplicationsStay, PulledStays
<1>3. releases' = releases \/ \E p \in Clients : CreateRelease(p)
  BY ZenonT(60) DEF DeliveryNext, deliveryVars, CreateSystem, ChangeVisibility, Ask, Proceed,
         World, BeginImport, DeliverImage, DeliverBranch, DeliverForCi, Clone,
         CloneFails, Import, ImportFails, CleanUp, ResolveBranch, PullTag, InspectTag,
         PullImage, Deliver, DeliveryFails, Dies, PushCommit, PushImage
<1> QED BY <1>1, <1>2, <1>3 DEF ReleasesAreVerified

-------------------------------------------------------------------------------
(* What a command knows *)

\* A process that a step leaves alone knows what it knew.
LEMMA OthersKnow ==
    ASSUME Typed, TasksAreKnown, [DeliveryNext]_deliveryVars,
           NEW q \in Clients, client'[q] = client[q]
    PROVE  TaskIsKnown(q)'
<1> USE DEF DeliveryStages, OfBranch, OfArtifact
<1> DEFINE c == client[q]
<1>1. TaskIsKnown(q)
  BY DEF TasksAreKnown
<1>2. c.at \in DeliveryStages =>
          /\ c.name \in Names /\ IsImported(c.name) /\ applications'[c.name] # Nothing
          /\ applications'[c.name] = applications[c.name]
  BY <1>1, ApplicationsStay DEF TaskIsKnown, IsImported
<1>3. c.at \in OfArtifact => applications'[c.name].image = c.artifact.image
  BY <1>1, <1>2 DEF TaskIsKnown, Permits
<1>4. ASSUME c.at = "inspect"
      PROVE  local'[TaggedBy(q)'][c.revision] # Nothing
  <2>1. TaggedBy(q)' = TaggedBy(q) /\ TaggedBy(q) \in Images
    BY <1>2, <1>4 DEF TaggedBy, IsImported, Typed, CatalogueTyped, Rows
  <2>2. c.revision \in Commits /\ local[TaggedBy(q)][c.revision] # Nothing
    BY <1>1, <1>4 DEF TaskIsKnown
  <2> QED BY <2>1, <2>2, LocalFollows
<1>5. c.at \in DeliveryStages => IsImported(client[q].name)'
  BY <1>2 DEF IsImported
<1>6. c.artifact \in pulled => c.artifact \in pulled'
  BY PulledStays
<1> QED BY <1>1, <1>2, <1>3, <1>4, <1>5, <1>6 DEF TaskIsKnown, Permits, TaggedBy

\* A process at rest, or one about to clean up, knows nothing.
LEMMA LeavesKnown ==
    ASSUME Typed, NEW p \in Clients, Rests(p) \/ CleansUp(p)
    PROVE  TaskIsKnown(p)'
<1>1. client'[p].at \in {"rest", "cleanup"}
  BY DEF Typed, ClientsTyped, Rests, CleansUp, Resting
<1> QED BY <1>1 DEF TaskIsKnown, DeliveryStages, OfBranch, OfArtifact

\* Who asks knows what he asks for.
LEMMA AskKnown ==
    ASSUME Typed, TasksAreKnown, [DeliveryNext]_deliveryVars, NEW p \in Clients, Ask(p)
    PROVE  TaskIsKnown(p)'
<1> USE DEF DeliveryStages, OfBranch, OfArtifact, Typed, ClientsTyped, Resting, TaskIsKnown
<1>1. ASSUME NEW url \in Urls, NEW flag \in SystemNames \cup {Nothing},
             BeginImport(p, url, flag)
      PROVE  TaskIsKnown(p)'
  BY <1>1 DEF BeginImport
<1>2. ASSUME NEW n \in Names, NEW a \in Artifacts, DeliverImage(p, n, a)
      PROVE  TaskIsKnown(p)'
  <2>1. client'[p] = [Resting EXCEPT !.at = "pull", !.name = n, !.artifact = a]
    BY <1>2 DEF DeliverImage
  <2>2. applications'[n] = applications[n] /\ IsImported(n)'
    BY <1>2, ApplicationsStay DEF DeliverImage, IsDeliverable
  <2>3. client'[p].at = "pull" /\ client'[p].name = n /\ client'[p].artifact = a
    BY <2>1
  <2> QED BY <1>2, <2>2, <2>3 DEF DeliverImage, Permits, IsImported
<1>3. ASSUME NEW n \in Names, NEW b \in Branches, DeliverBranch(p, n, b)
      PROVE  TaskIsKnown(p)'
  <2>1. client'[p] = [Resting EXCEPT !.at = "resolve", !.name = n, !.branch = b]
    BY <1>3 DEF DeliverBranch
  <2>2. IsImported(n)'
    BY <1>3, ApplicationsStay DEF DeliverBranch, IsDeliverable
  <2>3. client'[p].at = "resolve" /\ client'[p].name = n /\ client'[p].branch = b
    BY <2>1
  <2> QED BY <2>2, <2>3 DEF IsImported
<1> QED BY <1>1, <1>2, <1>3 DEF Ask, DeliverForCi, IsDeployRequest

\* Every stage establishes what the next one relies on.
LEMMA ProceedKnown ==
    ASSUME Typed, TasksAreKnown, ReleasesAreVerified, [DeliveryNext]_deliveryVars,
           NEW p \in Clients, Proceed(p)
    PROVE  TaskIsKnown(p)'
<1> USE DEF DeliveryStages, OfBranch, OfArtifact, Stands
<1> DEFINE c == client[p]
<1>a. client \in [Clients -> Tasks] /\ TaskIsKnown(p)
  BY DEF Typed, ClientsTyped, TasksAreKnown
<1>b. c.at \in DeliveryStages =>
          /\ c.name \in Names /\ IsImported(c.name) /\ applications'[c.name] # Nothing
          /\ applications'[c.name] = applications[c.name]
  BY <1>a, ApplicationsStay DEF TaskIsKnown, IsImported
<1>1. CASE \/ CloneFails(p) \/ Import(p) \/ ImportFails(p) \/ CleanUp(p)
           \/ Deliver(p) \/ DeliveryFails(p) \/ Dies(p)
  BY <1>1, LeavesKnown
     DEF CloneFails, Import, ImportFails, CleanUp, Deliver, DeliveryFails, Dies
<1>2. ASSUME NEW d \in Documents, Clone(p, d)
      PROVE  TaskIsKnown(p)'
  <2>1. client'[p] = [c EXCEPT !.at = "import", !.document = d]
    BY <1>a, <1>2 DEF Clone
  <2>2. client'[p].at = "import" /\ client'[p].url = c.url /\ client'[p].document = d
    BY <1>a, <2>1 DEF Tasks
  <2> QED BY <1>a, <1>2, <2>2 DEF Clone, TaskIsKnown
<1>3. CASE ResolveBranch(p)
  <2>1. PICK commit : /\ commit = heads[SourceOf(c.name)][c.branch] /\ commit # Nothing
                      /\ client' = [client EXCEPT ![p].at = "pull tag", ![p].revision = commit]
    BY <1>3 DEF ResolveBranch
  <2>2. client'[p] = [c EXCEPT !.at = "pull tag", !.revision = commit]
    BY <1>a, <2>1
  <2>3. /\ client'[p].at = "pull tag" /\ client'[p].revision = commit
        /\ client'[p].name = c.name /\ client'[p].branch = c.branch
    BY <1>a, <2>2 DEF Tasks
  <2>4. c.branch \in Branches /\ SourceOf(c.name) \in Urls
    BY <1>a, <1>b, <1>3
       DEF ResolveBranch, TaskIsKnown, SourceOf, IsImported, Typed, CatalogueTyped, Rows
  <2>5. heads[SourceOf(c.name)][c.branch] \in Commits \cup {Nothing}
    BY <2>4 DEF Typed, WorldTyped
  <2>6. commit \in Commits
    BY <2>1, <2>5
  <2> QED BY <1>b, <1>3, <2>3, <2>4, <2>6 DEF ResolveBranch, TaskIsKnown, IsImported
<1>4. CASE PullTag(p)
  <2> DEFINE i == TaggedBy(p)
  <2>1. client'[p] = [c EXCEPT !.at = "inspect"]
    BY <1>a, <1>4 DEF PullTag, Reaches
  <2>2. /\ client'[p].at = "inspect" /\ client'[p].revision = c.revision
        /\ client'[p].name = c.name /\ client'[p].branch = c.branch
    BY ZenonT(60), <1>a, <2>1 DEF Tasks
  <2>3. i \in Images /\ c.revision \in Commits /\ TaggedBy(p)' = i
    BY <1>a, <1>b, <1>4, <2>2
       DEF PullTag, TaskIsKnown, TaggedBy, IsImported, Typed, CatalogueTyped, Rows
  <2>4. local'[i][c.revision] # Nothing
    BY <1>4, <2>3 DEF PullTag, TaggedBy, Typed, WorldTyped
  <2> QED
    BY <1>a, <1>b, <1>4, <2>2, <2>3, <2>4 DEF PullTag, TaskIsKnown, IsImported
<1>5. CASE InspectTag(p)
  <2>1. PICK artifact \in Artifacts :
            /\ Permits(c.name, artifact)
            /\ client' = [client EXCEPT ![p].at = "pull", ![p].artifact = artifact]
    BY <1>5, InspectsArtifact DEF InspectTag, TaggedBy
  <2>2. client'[p] = [c EXCEPT !.at = "pull", !.artifact = artifact]
    BY <1>a, <2>1
  <2>3. /\ client'[p].at = "pull" /\ client'[p].artifact = artifact
        /\ client'[p].name = c.name
    BY <1>a, <2>2 DEF Tasks
  <2> QED BY <1>b, <1>5, <2>1, <2>3 DEF InspectTag, TaskIsKnown, IsImported, Permits
<1>6. CASE PullImage(p)
  <2>1. client'[p] = [c EXCEPT !.at = "record"]
    BY <1>a, <1>6 DEF PullImage, Reaches
  <2>2. /\ client'[p].at = "record" /\ client'[p].artifact = c.artifact
        /\ client'[p].name = c.name
    BY ZenonT(60), <1>a, <2>1 DEF Tasks
  <2> QED BY <1>a, <1>b, <1>6, <2>2 DEF PullImage, TaskIsKnown, IsImported, Permits
<1>7. CASE CreateRelease(p)
  <2>1. client' = [client EXCEPT ![p].at = "deploy", ![p].release = c.artifact]
    BY <1>7, FindsItsRelease DEF CreateRelease
  <2>2. client'[p] = [c EXCEPT !.at = "deploy", !.release = c.artifact]
    BY <1>a, <2>1
  <2>3. /\ client'[p].at = "deploy" /\ client'[p].artifact = c.artifact
        /\ client'[p].name = c.name /\ client'[p].release = c.artifact
    BY ZenonT(60), <1>a, <2>2 DEF Tasks
  <2>4. pulled' = pulled
    BY <1>7 DEF CreateRelease
  <2> QED BY <1>a, <1>b, <1>7, <2>3, <2>4
             DEF CreateRelease, TaskIsKnown, IsImported, Permits
<1> QED BY <1>1, <1>2, <1>3, <1>4, <1>5, <1>6, <1>7 DEF Proceed

\* A step of one process leaves the tasks of the others alone.
LEMMA OnlyItsOwnTask ==
    ASSUME NEW p \in Clients, Ask(p) \/ Proceed(p), NEW q \in Clients, q # p, Typed
    PROVE  client'[q] = client[q]
BY DEF Ask, Proceed, BeginImport, DeliverImage, DeliverBranch, DeliverForCi, Clone,
       CloneFails, Import, ImportFails, CleanUp, ResolveBranch, PullTag, InspectTag,
       PullImage, CreateRelease, Deliver, DeliveryFails, Dies, Rests, CleansUp, Reaches,
       Typed, ClientsTyped

\* Every task stays known.
LEMMA StepTasks ==
    ASSUME Typed, TasksAreKnown, ReleasesAreVerified, [DeliveryNext]_deliveryVars
    PROVE  TasksAreKnown'
<1>1. ASSUME NEW q \in Clients
      PROVE  TaskIsKnown(q)'
  <2>1. CASE client' = client
    BY <2>1, OthersKnow
  <2>2. ASSUME NEW p \in Clients, Ask(p) \/ Proceed(p)
        PROVE  TaskIsKnown(q)'
    BY <2>2, AskKnown, ProceedKnown, OthersKnow, OnlyItsOwnTask
  <2> QED
    BY <2>1, <2>2
       DEF DeliveryNext, deliveryVars, CreateSystem, ChangeVisibility, World, PushCommit,
           PushImage
<1> QED BY <1>1 DEF TasksAreKnown

-------------------------------------------------------------------------------
(* What a command has seen *)

\* What every branch and every tag names is a fact.
LEMMA WhatIsNamed ==
    /\ \A u \in Urls, b \in Branches : <<u, b, heads[u][b]>> \in Facts
    /\ \A i \in Images, c \in Commits : <<i, c, tags[i][c]>> \in Facts
BY DEF Facts

\* Facts change with the world alone.
LEMMA FactsStay ==
    ASSUME UNCHANGED <<heads, tags>>
    PROVE  Facts' = Facts
BY DEF Facts

\* What a process that a step leaves alone has seen was so since it began: what
\* it knows of the world moves with the world, and it is told.
LEMMA OthersCurrent ==
    ASSUME Typed, TasksAreKnown, TasksAreCurrent, [DeliveryNext]_deliveryVars,
           NEW q \in Clients, client'[q] = client[q]
    PROVE  TaskIsCurrent(q)'
<1> USE DEF DeliveryStages, OfBranch, OfArtifact
<1> DEFINE c == client[q]
<1>1. TaskIsKnown(q) /\ TaskIsCurrent(q)
  BY DEF TasksAreKnown, TasksAreCurrent
<1>2. c.at \in DeliveryStages =>
          /\ c.name \in Names /\ IsImported(c.name)
          /\ applications'[c.name] = applications[c.name]
  BY <1>1, ApplicationsStay DEF TaskIsKnown
<1>3. c.at \in OfBranch => Facts # {}
  <2>1. c.at \in OfBranch => SourceOf(c.name) \in Urls /\ c.branch \in Branches
    BY <1>1, <1>2 DEF TaskIsKnown, SourceOf, IsImported, Typed, CatalogueTyped, Rows
  <2> QED BY <2>1, WhatIsNamed
<1>4. c.at \in DeliveryStages /\ (c.at \in OfBranch \/ c.branch # Nothing) => since[q] # {}
  BY <1>1, <1>3 DEF TaskIsCurrent
<1>5. c.at \in DeliveryStages /\ (c.at \in OfBranch \/ c.branch # Nothing) =>
          /\ since[q] \subseteq since'[q]
          /\ Facts \subseteq since[q] => Facts' \subseteq since'[q]
  BY <1>4, NothingGoesUnseen
<1>6. ASSUME c.at = "inspect"
      PROVE  <<TaggedBy(q)', c.revision, local'[TaggedBy(q)'][c.revision]>> \in since'[q]
  <2> DEFINE i == TaggedBy(q)
  <2>1. TaggedBy(q)' = i /\ i \in Images /\ c.revision \in Commits
    BY <1>1, <1>2, <1>6
       DEF TaggedBy, TaskIsKnown, IsImported, Typed, CatalogueTyped, Rows
  <2>2. <<i, c.revision, tags[i][c.revision]>> \in since[q]
    BY <1>1, <1>6, <2>1 DEF TaskIsCurrent, Facts
  <2>3. <<i, c.revision, local[i][c.revision]>> \in since[q]
    BY <1>1, <1>6 DEF TaskIsCurrent
  <2>4. \/ local'[i][c.revision] = local[i][c.revision]
        \/ local'[i][c.revision] = tags[i][c.revision]
    BY <2>1, LocalFollows
  <2> QED BY <1>5, <1>6, <2>1, <2>2, <2>3, <2>4
<1>7. c.at \in DeliveryStages => SourceOf(client[q].name)' = SourceOf(c.name)
  BY <1>2 DEF SourceOf
<1> QED BY <1>1, <1>5, <1>6, <1>7 DEF TaskIsCurrent

\* Who asks for a branch sees all of the world at that moment.
LEMMA AskCurrent ==
    ASSUME Typed, NEW p \in Clients, Ask(p)
    PROVE  TaskIsCurrent(p)'
<1> USE DEF OfBranch, OfArtifact, Typed, ClientsTyped, Resting
<1>1. CASE \E url \in Urls, flag \in SystemNames \cup {Nothing} : BeginImport(p, url, flag)
  <2>1. client'[p].at = "clone"
    BY <1>1 DEF BeginImport
  <2> QED BY <2>1 DEF TaskIsCurrent
<1>2. CASE \E n \in Names, a \in Artifacts : DeliverImage(p, n, a)
  <2>1. client'[p].at = "pull" /\ client'[p].branch = Nothing
    BY <1>2 DEF DeliverImage
  <2> QED BY <2>1 DEF TaskIsCurrent
<1>3. CASE \E n \in Names, b \in Branches : DeliverBranch(p, n, b)
  <2>1. client'[p].at = "resolve" /\ since'[p] = Facts /\ UNCHANGED <<heads, tags>>
    BY <1>3 DEF DeliverBranch
  <2>2. Facts' = Facts
    BY <2>1 DEF Facts
  <2> QED BY <2>1, <2>2 DEF TaskIsCurrent
<1> QED BY <1>1, <1>2, <1>3 DEF Ask, DeliverForCi, IsDeployRequest

\* What a stage reads of the world is of this moment, or was when it was read.
LEMMA ProceedCurrent ==
    ASSUME Typed, TasksAreKnown, TasksAreCurrent, ReleasesAreVerified,
           [DeliveryNext]_deliveryVars, NEW p \in Clients, Proceed(p)
    PROVE  TaskIsCurrent(p)'
<1> USE DEF DeliveryStages, OfBranch, OfArtifact, Stands
<1> DEFINE c == client[p]
<1>a. client \in [Clients -> Tasks] /\ TaskIsKnown(p) /\ TaskIsCurrent(p)
  BY DEF Typed, ClientsTyped, TasksAreKnown, TasksAreCurrent
<1>b. c.at \in DeliveryStages =>
          /\ c.name \in Names /\ IsImported(c.name)
          /\ applications'[c.name] = applications[c.name]
  BY <1>a, ApplicationsStay DEF TaskIsKnown
<1>1. CASE \/ CloneFails(p) \/ Import(p) \/ ImportFails(p) \/ CleanUp(p)
           \/ Deliver(p) \/ DeliveryFails(p) \/ Dies(p)
           \/ \E d \in Documents : Clone(p, d)
  <2>1. CASE Rests(p) \/ CleansUp(p)
    <3>1. client'[p].at \in {"rest", "cleanup"}
      BY <1>a, <2>1 DEF Rests, CleansUp, Resting
    <3> QED BY <3>1 DEF TaskIsCurrent
  <2>2. ASSUME NEW d \in Documents, Clone(p, d)
        PROVE  TaskIsCurrent(p)'
    <3>1. client'[p] = [c EXCEPT !.at = "import", !.document = d]
      BY <1>a, <2>2 DEF Clone
    <3>2. client[p] \in Tasks
      BY <1>a
    <3>3. client'[p].at = "import"
      BY <3>1, <3>2 DEF Tasks
    <3> QED BY <3>3 DEF TaskIsCurrent
  <2> QED
    BY <1>1, <2>1, <2>2
       DEF CloneFails, Import, ImportFails, CleanUp, Deliver, DeliveryFails, Dies
<1>2. CASE ResolveBranch(p)
  <2>1. PICK commit : /\ commit = heads[SourceOf(c.name)][c.branch]
                      /\ client' = [client EXCEPT ![p].at = "pull tag", ![p].revision = commit]
    BY <1>2 DEF ResolveBranch
  <2>2. client'[p] = [c EXCEPT !.at = "pull tag", !.revision = commit]
    BY <1>a, <2>1
  <2>3. /\ client'[p].at = "pull tag" /\ client'[p].revision = commit
        /\ client'[p].name = c.name /\ client'[p].branch = c.branch
    BY <1>a, <2>2 DEF Tasks
  <2>4. UNCHANGED <<applications, heads, tags, since>> /\ c.at = "resolve"
    BY <1>2 DEF ResolveBranch
  <2>5. <<SourceOf(c.name), c.branch, commit>> \in Facts
    <3>1. SourceOf(c.name) \in Urls /\ c.branch \in Branches
      BY <1>a, <1>b, <2>4
         DEF TaskIsKnown, SourceOf, IsImported, Typed, CatalogueTyped, Rows
    <3> QED BY <2>1, <3>1, WhatIsNamed
  <2>6. Facts \subseteq since'[p] /\ Facts' = Facts
    BY <1>a, <2>4 DEF TaskIsCurrent, Facts
  <2> QED BY <2>3, <2>4, <2>5, <2>6 DEF TaskIsCurrent, SourceOf
<1>3. CASE PullTag(p)
  <2> DEFINE i == TaggedBy(p)
  <2>1. client'[p] = [c EXCEPT !.at = "inspect"]
    BY <1>a, <1>3 DEF PullTag, Reaches
  <2>2. /\ client'[p].at = "inspect" /\ client'[p].revision = c.revision
        /\ client'[p].name = c.name /\ client'[p].branch = c.branch
    BY ZenonT(60), <1>a, <2>1 DEF Tasks
  <2>3. UNCHANGED <<applications, heads, tags, since>> /\ c.at = "pull tag"
    BY <1>3 DEF PullTag, Reaches
  <2>4. i \in Images /\ c.revision \in Commits /\ TaggedBy(p)' = i
    BY <1>a, <1>b, <2>2, <2>3
       DEF TaskIsKnown, TaggedBy, IsImported, Typed, CatalogueTyped, Rows
  <2>5. local'[i][c.revision] = tags[i][c.revision]
    BY <1>3, <2>4 DEF PullTag, TaggedBy, Typed, WorldTyped
  <2>6. <<i, c.revision, tags[i][c.revision]>> \in Facts
    BY <2>4 DEF Facts
  <2>7. Facts \subseteq since'[p] /\ Facts' = Facts
    <3>1. Facts \subseteq since[p]
      BY <1>a, <2>3 DEF TaskIsCurrent
    <3> QED BY <2>3, <3>1, FactsStay
  <2>8. <<SourceOf(c.name), c.branch, c.revision>> \in since'[p]
    BY <1>a, <2>3 DEF TaskIsCurrent
  <2>9. SourceOf(client[p].name)' = SourceOf(c.name)
    BY <2>2, <2>3 DEF SourceOf
  <2> QED BY <2>2, <2>4, <2>5, <2>6, <2>7, <2>8, <2>9 DEF TaskIsCurrent
<1>4. CASE InspectTag(p)
  <2>1. PICK artifact \in Artifacts :
            /\ artifact = [image |-> TaggedBy(p), digest |-> local[TaggedBy(p)][c.revision]]
            /\ client' = [client EXCEPT ![p].at = "pull", ![p].artifact = artifact]
    BY <1>4, InspectsArtifact DEF InspectTag, TaggedBy
  <2>2. client'[p] = [c EXCEPT !.at = "pull", !.artifact = artifact]
    BY <1>a, <2>1
  <2>3. /\ client'[p].at = "pull" /\ client'[p].artifact = artifact
        /\ client'[p].name = c.name /\ client'[p].branch = c.branch
        /\ client'[p].revision = c.revision
    BY <1>a, <2>2 DEF Tasks
  <2>4. UNCHANGED <<applications, since>> /\ c.at = "inspect"
    BY <1>4 DEF InspectTag
  <2>5. <<artifact.image, c.revision, artifact.digest>> \in since'[p]
    BY <1>a, <2>1, <2>4 DEF TaskIsCurrent
  <2>6. <<SourceOf(c.name), c.branch, c.revision>> \in since'[p]
    BY <1>a, <2>4 DEF TaskIsCurrent
  <2> QED BY <2>3, <2>4, <2>5, <2>6 DEF TaskIsCurrent, SourceOf
<1>5. CASE PullImage(p) \/ CreateRelease(p)
  <2>1. PICK stage \in {"record", "deploy"} :
            \E release : client'[p] = [c EXCEPT !.at = stage, !.release = release]
    <3>1. CASE PullImage(p)
      <4>1. client'[p] = [c EXCEPT !.at = "record", !.release = c.release]
        BY <1>a, <3>1 DEF PullImage, Reaches, Tasks
      <4> QED BY <4>1
    <3>2. CASE CreateRelease(p)
      BY <1>a, <3>2 DEF CreateRelease
    <3> QED BY <1>5, <3>1, <3>2
  <2>3. /\ client'[p].at \in {"record", "deploy"} /\ client'[p].artifact = c.artifact
        /\ client'[p].name = c.name /\ client'[p].branch = c.branch
        /\ client'[p].revision = c.revision
    BY <1>a, <2>1 DEF Tasks
  <2>4. c.at \in {"pull", "record"}
    BY <1>5 DEF PullImage, CreateRelease
  <2>2. UNCHANGED <<applications, since>>
    BY <1>5 DEF PullImage, CreateRelease, Reaches
  <2> QED BY <1>a, <2>2, <2>3, <2>4 DEF TaskIsCurrent, SourceOf
<1> QED BY <1>1, <1>2, <1>3, <1>4, <1>5 DEF Proceed

\* Every task stays current.
LEMMA StepCurrent ==
    ASSUME Typed, TasksAreKnown, TasksAreCurrent, ReleasesAreVerified,
           [DeliveryNext]_deliveryVars
    PROVE  TasksAreCurrent'
<1>1. ASSUME NEW q \in Clients
      PROVE  TaskIsCurrent(q)'
  <2>1. CASE client' = client
    BY <2>1, OthersCurrent
  <2>2. ASSUME NEW p \in Clients, Ask(p) \/ Proceed(p)
        PROVE  TaskIsCurrent(q)'
    BY <2>2, AskCurrent, ProceedCurrent, OthersCurrent, OnlyItsOwnTask
  <2> QED
    BY <2>1, <2>2
       DEF DeliveryNext, deliveryVars, CreateSystem, ChangeVisibility, World, PushCommit,
           PushImage
<1> QED BY <1>1 DEF TasksAreCurrent

-------------------------------------------------------------------------------
(* Theorems *)

\* In the initial state nothing is imported and nobody asks.
LEMMA InitialDelivery ==
    ASSUME DeliveryInit
    PROVE  DeliveryInvariant
<1> USE DEF DeliveryInit, Resting, DeliveryInvariant
<1>1. Typed
  <2>1. CatalogueTyped
    BY DEF CatalogueTyped
  <2>2. WorldTyped
    BY FirstAssumption, BoundsAssumption DEF WorldTyped
  <2>3. ClientsTyped
    BY RestingIsTask, BoundsAssumption DEF ClientsTyped
  <2> QED BY <2>1, <2>2, <2>3 DEF Typed
<1>2. CatalogueInvariant /\ ReleasesAreVerified
  BY DEF CatalogueInvariant, ApplicationIsWhole, IsImported, ReleasesAreVerified
<1>3. TasksAreKnown
  BY DEF TasksAreKnown, TaskIsKnown, DeliveryStages, OfBranch, OfArtifact
<1>4. TasksAreCurrent
  BY DEF TasksAreCurrent, TaskIsCurrent, OfBranch, OfArtifact
<1> QED BY <1>1, <1>2, <1>3, <1>4

\* The inductive invariant of the catalogue, imports and deliveries.
THEOREM DeliveryInvariantHolds == DeliverySpec => []DeliveryInvariant
<1>1. DeliveryInit => DeliveryInvariant
  BY InitialDelivery
<1>2. DeliveryInvariant /\ [DeliveryNext]_deliveryVars => DeliveryInvariant'
  BY StepCatalogueTyped, StepWorldTyped, StepClientsTyped, StepCatalogue, StepReleases,
     StepTasks, StepCurrent DEF DeliveryInvariant, Typed
<1> QED BY <1>1, <1>2, PTL DEF DeliverySpec

\* Every variable keeps its type.
THEOREM DeliveryTypeCorrect == DeliverySpec => []DeliveryTypeOK
<1>1. DeliveryInvariant => DeliveryTypeOK
  BY DEF DeliveryInvariant, DeliveryTypeOK, Typed, CatalogueTyped, WorldTyped,
         ClientsTyped, Tasks
<1> QED BY <1>1, DeliveryInvariantHolds, PTL

\* Whatever two imports of one name or of one domain do to each other, every
\* Application has its exposure and exactly one System, and a domain has one
\* public owner.
THEOREM CatalogueStaysWhole == DeliverySpec => []CatalogueIsWhole
<1>1. ASSUME Typed, CatalogueInvariant, NEW n \in Names, IsImported(n)
      PROVE  Cardinality({s \in systems : n \in ApplicationsOf(s)}) = 1
  <2> DEFINE s == applications[n].system
  <2>1. s \in systems
    BY <1>1 DEF CatalogueInvariant, ApplicationIsWhole
  <2>2. {t \in systems : n \in ApplicationsOf(t)} = {s}
    BY <1>1, <2>1 DEF ApplicationsOf
  <2> QED BY <2>2, FS_Singleton
<1>2. DeliveryInvariant => CatalogueIsWhole
  BY <1>1 DEF DeliveryInvariant, CatalogueInvariant, ApplicationIsWhole, CatalogueIsWhole
<1> QED BY <1>2, DeliveryInvariantHolds, PTL

\* Every Release was pulled by its digest from the repository of its
\* Application, and the one that a delivery deploys is of the artifact it pulled.
THEOREM ReleasesStayPermitted == DeliverySpec => []ReleasesArePermitted
<1>1. DeliveryInvariant => ReleasesArePermitted
  BY DEF DeliveryInvariant, ReleasesAreVerified, ReleasesArePermitted, TasksAreKnown,
         TaskIsKnown, Stands
<1> QED BY <1>1, DeliveryInvariantHolds, PTL

\* A branch is delivered as it was at some moment since the delivery was asked
\* for, the commit as well as its image.
THEOREM DeliveriesAreCurrent == DeliverySpec => []DeliveredIsCurrent
<1>1. DeliveryInvariant => DeliveredIsCurrent
  BY DEF DeliveryInvariant, TasksAreKnown, TaskIsKnown, TasksAreCurrent, TaskIsCurrent,
         DeliveredIsCurrent, Stands, SourceOf, OfArtifact, DeliveryStages
<1> QED BY <1>1, DeliveryInvariantHolds, PTL

===============================================================================
