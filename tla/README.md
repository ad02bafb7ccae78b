# TLA+ models of Solution Arsenal

Solution Arsenal (SolAr) deploys packaged applications to clusters. An aggregated
API server stores its objects, a controller manager turns them into OCI charts in a
registry, a discovery service fills the catalogue from registries, and a UI shows it.
This directory models the parts where things happen concurrently and where an error is
hard to find by testing. Ten modules are specifications of components, one is an
abstract specification that a component implements, eight hold proofs. `TargetBounds`
declares the bounds and counters that `ArtifactGC` and `Bootstrap` have in common.

| Module | Models | Proofs |
|---|---|---|
| `RenderTask` | RenderTask controller, render Job, renderer pod | `RenderTaskProofs` |
| `ArtifactGC` | Target controller (release charts) with RenderArtifact controller | `TargetProofs` |
| `Bootstrap` | Target controller (bootstrap chart of a Target) | `TargetProofs` |
| `ReleaseResolver` | `resolveReleaseConflicts` of the Target controller | `TargetProofs` |
| `RegistryProtection` | Target controller (registry gate) with RegistryBinding controller | `RegistryProtectionProofs` |
| `ProfileBindings` | Profile controller as the keeper of ReleaseBindings | `ProfileBindingsProofs` |
| `ReleaseProtection` | Profile, ReleaseBinding and Release controllers on one Release | `ReleaseProtectionProofs` |
| `Catalog` | ComponentVersion and Release controllers with the API writer of discovery | `CatalogProofs` |
| `Discovery` | the discovery pipeline; implements `Delivery` | `DiscoveryProofs` |
| `UIBackend` | sessions, previews, access reviews and event streams of the UI backend | `UIBackendProofs` |

`MC<Module>` extends a module with the symmetry sets and constants for TLC; every
`.cfg` is one run. `PROJECT.json` maps each definition to its lines.

## The system

| Component | State it keeps | Operations | What makes it correct |
|---|---|---|---|
| RenderTask controller (`pkg/controller/rendertask_controller.go`) | conditions and chartURL of a RenderTask; config Secret and Job named after it | ensure Secret, ensure Job, copy the Job's status, clean up | success means a pushed chart; cleanup never hits what is needed; every RenderTask gets on |
| Renderer (`cmd/solar-renderer`, `pkg/renderer`) | charts in the registry | look for the tag, render, push | a success means that the tag is there |
| Target controller (`target_controller.go`) | RenderTasks, RenderBindings, RenderArtifacts, `status.bootstrapVersion`, finalizers | registry gate, resolve bindings, ensure RenderTasks, bind, number bootstrap versions, stale cleanup, deletion | what is wanted is rendered and bound; what is not wanted goes; versions only grow; no wake-up is lost |
| Release resolver (same file) | none (pure) | deduplicate by unique name, walk by priority | what is deployed is compatible; what is not has a reason |
| RenderArtifact controller (`renderartifact_controller.go`) | RenderArtifact, its finalizer, charts in the registry | collect artifacts without bindings, OCI cleanup | nothing that is bound goes; what is unbound goes |
| RegistryBinding, ReleaseBinding, Release, ComponentVersion controllers | own finalizers, and protection finalizers on what they reference | add and remove finalizers, conditions | what is referenced cannot go; deletion never gets stuck |
| Profile controller (`profile_controller.go`) | ReleaseBindings with generated names, `status.matchedTargets` | select Targets, create and delete bindings | a binding for each selected Target and for no other |
| Discovery (`pkg/discovery`) | bounded channels between stages; Components and ComponentVersions | scan, webhooks, qualify, filter, handle, write | what is in the registry ends up in the catalogue; events are not reordered; Stop returns and nothing writes after it |
| UI backend (`pkg/ui`) | sessions, cached access reviews, event streams | login, preview, proxying | a cached answer belongs to the right identity; streams end |
| API server (`api/solar`, `cmd/solar-apiserver`) | objects in etcd | validation, storage | (library code, but for validation) |

How they interact: discovery creates ComponentVersions; Releases refer to them; users, or
Profiles, create ReleaseBindings; the Target controller passes its registry gate, resolves
the bindings, creates a RenderTask per release and, when all succeeded, one for the
bootstrap chart; the RenderTask controller runs the renderer in a Job and reports
success; the Target controller then creates a RenderBinding and a RenderArtifact; the
RenderArtifact controller removes artifact and chart when the last binding is gone. Each
reference (Target or RegistryBinding to Registry, Profile or ReleaseBinding to Release,
Release to ComponentVersion, ComponentVersion to Component) is protected by a finalizer on
the object referred to.

What is hard in it:

* **Stale reads.** `r.Get` and `r.List` read informer caches, which lag the API server
  and each other; only `APIReader` reads the API server. Objects are addressed by name,
  so a reconcile may act on a successor of what it read.
* **Several writes per reconcile**, any of which may fail, with restarts in between.
  `Status().Update` is refused when the copy is stale, and so is a patch with the
  optimistic lock; a plain merge patch or a `Delete` is not, and a merge patch of
  finalizers replaces the whole list.
* **Reference counting by several controllers** without a transaction.
* **Names and versions that are used again**, and a renderer that skips the push when a
  tag exists.
* **Channels that drop** when they are full, and errors that are only logged.
* **Answers cached in a session** while other requests of the session change it.

## Modules

Common to the controller models: a controller has one worker (the default
concurrency of controller-runtime, which the manager does not change); a reconcile is
the program counter of that worker and its locals; each call that writes is one action,
reads go with the step that uses them. There is a cache for the objects that are read
through the informers, and a `Sync...` action per object, so caches lag in any order. A
crash ends the reconcile and lists the caches anew. Early returns go back to `idle`. Call
failures and crashes are bounded by `MaxFaults`, changes by users by `MaxChanges`; where
there is only `MaxChanges` it bounds both together.

### RenderTask

State: `rt`, `secret`, `job` by name, `pods`, `registry` (the config under each
reference), `expired` (failed for longer than `failedJobTTL`), the caches, the worker
`rec`. Uids tell a RenderTask from its successor of the same name. Actions:

| Action | Code |
|---|---|
| `Fetch` | Get, and return when gone or JobSucceeded |
| `EnsureConfigSecret`, `EnsureRenderJob` | Get or create Secret and Job and record the reference |
| `UpdateStatus` | `updateResourceStatusFromJob`, `Status().Update`, and the switch that follows |
| `CleanupSecrets`, `DeleteRenderJob` | cleanup after success, or of the Secret after the TTL |
| `CallFails`, `Crash`, `Sync...` | errors, restarts, informers |
| `CreateTask`, `DeleteTask` | the Target controller, as seen from here |
| `StartPod`, `PodFails`, `JobTTL`, `GCJob`, `GCSecret` | Kubernetes (external) |
| `RendererSkips`, `RendererProceeds`, `RendererPushes` | the renderer: tag exists; does not, or cannot be listed; push |

The history field `by` records whose Job a success was read from. A pod may outlive
its Job (`orphan`). Status fields that are not modelled may make an update be refused
although the modelled ones agree: an update is always allowed to be refused. The TTL is
positive: with `failedJobTTL: 0` the cleanup happens in the same reconcile.

JobFailed is set when a pod fails, although the Job has retries left. If `failedJobTTL` ends
before the next pod has its Secret, every reconcile creates the Secret and deletes it again,
and the pod starts only if it comes in between. No fairness the scheduling justifies
makes it, so `EventuallySucceeds` says that a RenderTask succeeds or is stuck in exactly this
way (`RetriesWithoutSecret`); without that exception TLC shows the loop.

### ArtifactGC

Both controllers and the informers in one module, for several Targets in a namespace
(Targets with the same Release and Registry share a chart, hence an artifact). `wants`
stands for the resolved ReleaseBindings. `T...` actions are the Target controller's
(finalizer, deletion, the loop over releases, `ensureRenderBinding`,
`ensureRenderArtifact`, stale cleanup of RenderTasks, which lists the cache, and of
RenderBindings, which lists the API server), `A...` those of the RenderArtifact
controller (finalizer, confirmation, Delete, OCI cleanup, removal of the finalizer). A
RenderTask is its stage: what is behind it is `RenderTask`. The bootstrap chart is ready
or not, at each reconcile. On spec drift the RenderTask is deleted by `TEnsureTask` and created
again by `TRecreateTask`, with failures and crashes in between. `older` is a history variable: bindings that were there
before the artifact was created.

### Bootstrap

One Target whose releases are rendered. `input` is what the bootstrap chart should
contain, `None` when there is no ReleaseBinding. The worker's `base` is the status as
read or last written, which decides whether an update is refused. Actions follow the
code: `SetReleasesRendered`, `Plan` (is there a RenderTask of the current version, and
for this input), `Create` (with AlreadyExists), `Persist` (the version in the status),
`Report`, `EnsureRenderBinding`, `EnsureRenderArtifact`, `DeleteStaleRenderTasks`,
`DeleteStaleRenderBindings` (one call at a time). `Collect` is the outcome of ArtifactGC.
`EventuallyOnlyCurrent` is about RenderTasks, bindings and artifacts. It does not say that
charts go: a version that is pushed and superseded before a reconcile gets to
`ensureRenderBinding` has no RenderArtifact, and nothing in the code deletes its chart.

### ReleaseResolver

`Deduplicate` is Step A for one unique name, `Walk` Step B for one release. A binding is
its key (only the order counts). The labels of a release are one member of `LabelSets`, having
none at all included, and a selector is the set of the members it matches, so empty and negative
selectors are among them; an absent selector matches nothing and an invalid one filters its
release. Init ranges over all
releases of all sets of bindings.

### RegistryProtection, ProfileBindings, ReleaseProtection, Catalog

These four have the same frame. `obj` is the API server (a record per object, or `None`;
an object that is marked deleted goes with its last finalizer, `Stored`), `cache` the
informers' copies, `current` the objects whose copy is of the stored version, `queue` the
work queues, `work` the workers. `Put` is a write, which makes all copies stale; `Fail`
ends a reconcile and puts its request back. `Mapped` and the `map...To...` operators are the
watches. The history variable `settled` records the referencers that found or put the
protection finalizer while they were active, and `before` of a worker what was settled when its
reconcile began.

* `RegistryProtection`: the gate that opens every reconcile of a Target (ReferenceGrant,
  Registry, protection, solarSecretRef, condition, requeue after an interval), the
  RegistryBinding controller, and `removeRegistryRefFinalizer` of both. Both patches of
  registry-ref carry the optimistic lock.
* `ProfileBindings`: bindings have generated names, so a Profile that does not see its own
  binding yet makes a second one; `List` decides from the caches, `DeleteBinding` and
  `CreateBinding` are single calls, `UpdateStatus` writes only what changed. The
  ReleaseBinding controller and the garbage collector are one action each.
* `ReleaseProtection`: three controllers write one list of finalizers. The two that protect use
  the optimistic lock; the Release controller's own finalizer goes on with a plain
  patch of the list. A deleted Profile waits for its binding, and the binding leaves the
  protection to a Profile that still has its finalizer. The code looks that Profile up by
  name (`releasebinding_controller.go:63`); a Profile that is created again under the name of
  a deleted one while a binding of the old one is still there is left out.
* `Catalog`: Release to ComponentVersion and ComponentVersion to Component, which the code
  handles alike, in one set of actions (`Parent`); all patches are plain. The API writer is
  a process of its own that reads the API server: `W...` actions are its calls,
  `UpdateWith` the typed client's Update with an object that has no finalizers.

### Discovery and Delivery

The OCI registry (`images`, `notices` under way), the four `Runner`s (`stage`) with their
bounded channels (`chan`), the scanner, and the life of the process (`Start`, `StartFails`,
`Stop`, `ShutdownReturns`, `StopNext` for each goroutine that Stop waits for, `Restart`,
`Crash`). `Stop` shuts the webhook server down: `requests` are those it had taken, any of which
may be served while the server shuts down, while the stages stop, or after that, since Shutdown
waits for five seconds at most. `Publish` is the non-blocking send. The processors are operators (`QualifierProcess`, `FilterProcess`,
`HandlerProcess`, `WriterProcess`); the first and the third read the OCI registry as it is when they
run. The registry may answer in any order: a scan takes the repositories, and the qualifier the
versions, in every order there is. The content of an image is the number of its push. zot sends
"updated" for a push, and "created" too for the first of a repository. The catalogue is keyed by
`ComponentVersionName`, any function of the images: the code leaves the registry out, replaces
characters and cuts at 63, so that images may share an entry, which they then overwrite in turn
(`img` is the one it describes) and which holds back the scans of all of them. Every registry is scanned (`scanInterval` is
set); one that is only notified has no retry at all.

`Delivery` is what the pipeline promises about accepted events: they stand in one line; an
event may be lost at any place or be replaced in place by events that stem from it, none
overtakes another or is applied twice, and the catalogue only changes by applying the head
of the line. `Discovery` implements it with `line <- InFlight`, the concatenation of what
the stages hold and what is in their channels.

### UIBackend

The session store (`sessions`; every call is atomic under its mutex), the browser (`cookie`,
`state`, `redirects`), the requests under way (`req`, several at a time) and one event
stream (`watch`, `queue`, `connected`). `CanImpersonate`, `ReviewAdmin`,
`SetCanImpersonate` are the three calls of `handler.CanImpersonate`, with other requests
in between; likewise for `CanListAllNamespaces`. `SetImpersonation` and
`ClearImpersonation` are previews, `ClientFor` fixes the identity a request is forwarded
under, `HasSolarAccess` is one access review of the namespace list. RBAC does not change.

## Runs

| Run | Shows | Bounds |
|---|---|---|
| `RenderTask` | `OwnSuccessIsPushed`, `CleanupSparesUnfinished`, `ConditionsAreKept`, `EventuallySucceeds` | one name, two uids, one config, one retry, one fault, one orphan pod |
| `ArtifactGCOne` | `NoDanglingBindings`, `FreshArtifactsAreKept`, `EventuallyBound`, `EventuallyCollected` | one Target, one release, two charts, two changes, one fault |
| `ArtifactGCShared` | `EventuallyBound`, `EventuallyCollected` | two Targets, one chart, three changes, no fault; starts with the chart bound by both |
| `Bootstrap` | `VersionNeverDecreases`, `EventuallyRendersDesired`, `EventuallyOnlyCurrent` | two inputs, versions 0 and 1, two changes, one fault |
| `ReleaseResolver` | `ResolvedAreCompatible`, `FilteredForAReason`, `EveryBindingDecided` | three bindings, two names, two label sets (one of them may be the empty one), two priorities |
| `RegistryProtection` | `TypeOK`, `QuietTargetsAreRight`, `SparesSettled`, `DeletionCompletes`, `ComesToRest` | two Targets (one in another namespace), one RegistryBinding, three changes and faults |
| `ProfileBindings` | `QuietProfilesMatch`, `DeletionCompletes`, `ComesToRest` | one Profile, two Targets (one in another namespace), two suffixes, two bindings at a time, two changes and faults |
| `ReleaseProtection` | `QuietNothingIsStuck`, `SparesSettled` | one Profile, its binding, one manual binding, two changes and faults |
| `Catalog` | `QuietIsRight`, `QuietNothingIsStuck`, `UnprotectsForTheLast` | two ComponentVersions, two Releases (one in another namespace), one event, two changes and faults; at the start both ComponentVersions are there or none, and any of the Releases |
| `Discovery` | `TypeOK`, `DeliversInOrder`, `SpecNeverRegresses`, `QuietAfterStop`, `StopReturns`, `EventuallyDiscovered` | two repositories with the same names, two versions, one image not deployable, channels of one, one, one and two, two events in flight when a notification comes, one when the scanner publishes, one change or fault |
| `UIBackend` | `CanImpersonateIsReal`, `PreviewedByAdmin`, `ShownAreAccessible`, `LoggedOutStaysOut`, `StreamsEnd` | an admin and a user, two namespaces, one session id, three requests of which two at a time, two logins, a channel of one, two watch events |
| `CatalogVersion` | finds that `ReferencedVersionStays` does not hold | as `Catalog` |

The meaning of each property is with its definition. Those with `Quiet` in the name are about
states in which queues are empty, workers idle and caches up to date: they say that no
wake-up is lost, since nothing would happen any more. `ComesToRest` says that such states
are reached again and again, so that `Quiet...` properties are not empty and the controllers
do not keep each other busy by their own writes.

Deadlock is checked for the resolver and for Discovery; the controllers and the UI backend may rest
when all caches are in sync and the bounds are used up.

Why the bounds are enough to be of interest. Two uids under one name give every mixture
of a RenderTask with Job, Secret, pod and cache entries of its predecessor, and one retry a Job
that has failed pods and is not finished. In `ArtifactGCOne`
two changes, at any time during either controller's reconcile, give a Target a release and replace
it by another, drop it or delete the Target, with a failed call, rendering or crash anywhere.
`ArtifactGCShared` starts (`SharedInit`) when two Targets have taken up one chart and all is in
sync, a state of the system that two changes lead to, so that its three changes let both give
the chart up, in either way and order, and one want it again while it is collected. Of the version number only "current, next"
matters to a reconcile, and a stale one is of the version before. The resolver is a function
of at most pairs of releases and the order among them; three bindings have all
combinations of a winner, its victim, and what the victim would have kept out. In the
protection models the changes are of the kind "another referencer appears", "it goes",
"the protected object is deleted", "the manager restarts" or "a call fails"; the two or three of them
may fall between any two calls of reconciles that are already under way. One change in Discovery
comes on top of an image that is there at the start, so that a push, a removal, a failing call,
a shutdown or a crash meets events in every stage. Every channel gets full and drops events; the
image that is not deployable is sent again by every scan, and the two repositories rewrite
each other's entry. `MaxInFlight` and `MaxBacklog` hold back only what would make the line longer:
a send to a full channel, which drops, and a scan after the qualifier has ended are not
held back (`Fits`). Two requests of one session give all interleavings of a review with a preview or a logout.
Runs with larger constants are possible for most modules, but not within a few minutes.

### Where documents and code differ

`CatalogVersion` is a run of its own: `docs/developer-guide/componentversion_controller.md:50`
says that "a ComponentVersion cannot be deleted while a Release references it". The API
writer updates a ComponentVersion that exists with an object that has no finalizers. One
that is marked deleted while a Release uses it loses componentversion-ref, and its own finalizer
if it had one, and is gone when its image is pushed again.

The modules state further claims of documents, comments and tests that TLC refutes. They are in
no run; to see a counterexample, put the property into the module's `.cfg`.

| Property | The claim | What happens |
|---|---|---|
| `RenderTask!SuccessIsPushed` | "ChartURL represents the URL of where the rendered chart was pushed to." (`api/solar/v1alpha1/rendertask_types.go:74`) | a recreated RenderTask takes the success of its predecessor's Job for its own and reports a chart that was never pushed |
| `ArtifactGC!BoundIsNotDeleted` | "should NOT delete the RenderArtifact while RenderBindings reference it" (`renderartifact_controller_test.go:182`) | a binding is created between the confirming list and the Delete |
| `ArtifactGC!BoundIsPushed` | "RenderArtifact represents a successfully pushed OCI artifact produced by a RenderTask." (`renderartifact_types.go:57`) | an artifact is created again for a chart that was collected while its RenderTask stayed JobSucceeded |
| `Bootstrap!ContentIsCurrent` | "This ensures a new chart version is pushed to the registry whenever the bootstrap content changes." (`docs/developer-guide/rendering-pipeline.md:80`) | a version is used again for another input, whose tag still holds the old chart |
| `Bootstrap!CleanupSparesCurrent` | "Stale RenderTasks from prior versions are cleaned up after the current bootstrap succeeds." (`docs/developer-guide/target_controller.md:113`) | a reconcile with a stale status deletes the RenderTask of the current version |
| `RegistryProtection!QuietBindingsAreProtected` | the comment in `removeRegistryRefFinalizer` (`pkg/controller/helpers.go:464`): a referencer that the cache does not show yet puts the protection back | a RegistryBinding hears of no Registry event, so it does not |
| `ReleaseProtection!UnprotectsAfterBindings` | a deleted Profile blocks "until every owned ReleaseBinding is fully gone from the API" (`docs/developer-guide/profile_controller.md:51`) | it looks at the cache, which may not show a binding yet |
| `ProfileBindings!OneBindingPerTarget` | "Build set of desired ReleaseBindings (one per matching target, keyed by namespace/name)" (`profile_controller.go:285`) | names are generated and the list is from the cache, so a second one is made and stays |
| `Discovery!DeletionsFindTheirVersion` | the digest label is there to find the ComponentVersion of a removed image (`pkg/discovery/apiwriter/apiwriter.go:166`) | the label is of the notification and the content of a later push; the event of a scan has no digest |
| `UIBackend!CanListAllIsCurrent` | "Cached per session and invalidated when impersonation changes." (`pkg/ui/api/handler.go:139`) | an answer that was asked for before a preview is stored after it |

Five smaller disagreements need no model checker and are only noted here. JobFailed is
set at the first failed pod and stays when a retry succeeds, so JobFailed and JobSucceeded
are not alternatives. A cleanup cut short after the success was recorded is never resumed.
The Secret deleted after `failedJobTTL` is created again by the next reconcile. A RenderTask
that is not yet in the cache survives the deletion of its Target. A deleted referencer whose
cached copy of the object referred to does not show the protection finalizer skips its
removal, and nobody else removes it.

`OwnSuccessIsPushed`, `FreshArtifactsAreKept`, `QuietTargetsAreRight`, `SparesSettled`,
`QuietProfilesMatch`, `UnprotectsForTheLast`, `CanImpersonateIsReal` and the liveness properties are
what the code does guarantee in the same places.

### Fairness

* Workers: a running reconcile goes on (WF). An object is reconciled again and again:
  Targets are requeued after 30 seconds, errors are retried with backoff, each change of
  an owned object enqueues its owner, and the informers resync. Where two objects compete
  for a worker, SF says that the queue is served in turn.
* Status updates are not refused for ever (SF, in `RenderTask` of the update that records a
  condition, in `Bootstrap` of some update that changes the status): the copy that
  was read is current again and again once changes stop. In `RegistryProtection` and
  `ProfileBindings`, which have the versions of copies, this needs no assumption.
* Informers catch up (WF per object), Kubernetes' controllers do their work (WF).
* Renderers: in `RenderTask`, if pods of a RenderTask run again and again, some of them
  render; without it the code's only promise would be that it keeps trying. In the other
  modules renderings end (WF); JobFailed is final for the Target, so the liveness
  properties assume that no rendering has failed for good.
* Discovery: goroutines run and a pod that ended is started again (WF, `Progress`). No
  fairness for webhooks, which may never arrive, and no assumption that the stages keep up with the
  scans: the handler takes one event per second, the interval between scans is configured, and
  versions that are not deployable come again with each scan. `EventuallyDiscovered` says instead
  that the only thing that keeps an image out is that full channels drop its events again and
  again (`Dropped`).
* UI backend: goroutines run, a watch whose context ended is closed by the client library, and
  Go's `select` does not pass over a ready case for ever.
* Nothing is assumed of users, failures, timers and crashes, which are bounded.

`Settles` in `Bootstrap` excludes behaviours that stop at the bound `MaxVersion`, and
`Starved` in `ProfileBindings` those where the bound `MaxBindings` keeps the controller
from making a binding; the code has neither bound. `Polls` in `RegistryProtection` is a Target that
waits for a Registry or a grant and comes back by its timer for as long as that is missing.

## Proofs

Theorems hold for all values of the constants that satisfy the modules' assumptions: any
number of names, configs, uids, Targets, charts, users, requests, faults and changes. None of
the properties is inductive alone; each specification has an inductive invariant, in general
`IInv`, with a lemma per action that it is kept, and the theorems follow from it. What holds when
the manager is at rest has a second one, `WakeInv`, and `Discovery` has three.

**RenderTaskProofs.** `TypeCorrect`, `OwnSuccess`, `SafeCleanup`, `ConditionsKept`.
That a recorded success means a pushed chart needs to know of every Job, and of every cached or
local view of a Job, that its success implies the push of its owner's config
(`SuccessesPushed`), which needs that a Job carries its owner's reference
(`JobsRenderOwner`) and that pods belong to Jobs (`PodsOfJobs`). That the cleanup is safe
needs that uids are given once (`UidsGiven`), that copies of the same uid agree in what does
not change (`CopiesAgree`) and that a copy never has a success that the RenderTask in the API
server lacks (`NotYetSucceeded`). `ConditionsAreKept` follows from `IInv` and a look at the
only action that writes conditions, since the update is refused unless the copy is current.

**TargetProofs** extends the three models of the Target controller. Each has its own
specification (`Spec`, `BootstrapSpec`, `ResolverSpec`), and each theorem is about one of them.

*ArtifactGC.* `TypeCorrect`, `BindingsHaveTargets`, `BoundArtifactsStay`. That no
binding outlives its Target needs that a reconcile reaches the Target's finalizer only when
none of its bindings is left, and makes none after that (`TWorkerInv`), and how far the
informer may be behind a Target (`TargetInv`). That an artifact is not deleted under bindings
older than itself needs the same of artifacts (`ArtifactInv`, `AWorkerInv`) and that the
confirming list, which is read from the API server, holds for those bindings until the Delete
(`OlderInv`).

*Bootstrap.* `BootstrapTypeCorrect`, `VersionIsMonotone`. The version a reconcile settles on
is not before the one it read (`PlanInv`), and an update is refused unless what it read is what is
stored. The one assumption they need is `VersionAssumption`, that `MaxVersion` is a natural number.

*ReleaseResolver.* `ResolverTypeCorrect`, `Compatible`, `Reasoned`, `Decided`. The invariant
says where each binding is (`Split`, `Disjoint`, `StepsInOrder`), that at most one per name
was accepted (`OnePerName`) and that what is resolved ranks before what is still to be walked
(`RankOrder`); the last is what makes a conflict a reason of higher rank.

**UIBackendProofs.** `TypeCorrect`, `CachedAnswerIsReal`, `PreviewNeedsAdmin`,
`NamespacesAreAccessible`, `LogoutIsFinal`. The invariant is about what each request under way
holds on to (`Good`): the identity it has a review of, the answer, the permission to change the
preview stay right for its session as long as that exists, because a session keeps its user and an
id is not issued twice (`Evolves`).

**DiscoveryProofs.** `TypeCorrect`, `NoWriteAfterStop`, `StagesAreOneLine`, `SpecsNeverRegress`.
There are three inductive invariants.

* `Types` has, beside the types, what each stage may be handed (`EventsAt`: behind the
  qualifier every event but a deletion names a version, behind the handler it has a content), and
  that a stage holds an event only while it is busy, and outputs only while it publishes.
* `StopInv`: Stop goes through the stages in order, and those it has passed have ended; only
  the last stage's goroutine writes, so nothing is written when Stop has returned.
* `SpecOrder`, which rests on `Types`, is why the catalogue never goes back to an earlier push
  although the handler reads the registry long before the write: along the line from the writer
  back to the handler's outputs the contents of one image only grow, the catalogue's entry, if it is
  of that image, comes before all of them and the image in the registry after them. It needs that the line is one: if a stage could pass on a
  later event first, it would be false.

`StagesAreOneLine` is the refinement: `Promise!Init` holds initially and each step is a step of
`Delivery` or leaves `line` and `cvs` alone. The line is a concatenation of eight sequences (what a
stage holds and what is in its channel, four times), and a step changes one or two neighbours. `Replaced`
says that one event of a sequence is replaced by several in its place, `Led` that the first one
is taken away; lemmas about these two (what stands before or behind does not matter)
carry a step of a stage to the whole line. The constants: each channel has room for at least one event,
of the names of images nothing is assumed, images and versions are finitely many, the pushes there are at the start are numbered from 1, and
`None` is none of the values.

**RegistryProtectionProofs.** `TypeCorrect`, `SettledAreSpared`, `NoWakeUpIsLost`. That the lists of
`removeRegistryRefFinalizer` miss only newcomers although they are read from the cache needs how
far the informer may be behind a referencer (`Near`): a copy with the finalizer and without a
deletion mark is of an object that still has the finalizer, so a referencer that is settled is
shown (`Shown`). It also needs what a worker relies on between its calls (`WorkerOK`): while it
takes the finalizer off a referencer nobody puts one on, while it protects the Registry for a
referencer nobody takes that one's finalizer away, and after each list none of the kind it
looked for is left among those that were settled before. The assumptions say that the names of
the objects are distinct and that `None` is not a record.

That Targets are right at rest has an inductive invariant of its own, `WakeInv`: of every active
Target one can say at any moment why it will be, or is, right. Either it is `Pending` (its
request is in the queue, or the informer has yet to see an event that puts it there), or the
worker is on it and has `Handled` it so far from the stored version and from the cache as it is
now, or it is `Right` by the cache. A step of somebody else
can change what is right of a Target only by an event that makes it pending; the lemmas
`UserPutWakes`, `SyncWakes` and `OwnWriteWakes` say so, and `GateKept` that what the gate finds
depends on nothing else. The worker's own steps have a lemma each.

**CatalogProofs.** `TypeCorrect`, `UnprotectedForTheLast`, `DroppedIsPutBack`,
`NothingIsStuck`. That the protection is taken away only for the last Release, although the list
comes from a cache, needs that an active Release whose condition was ever set is shown by the cache,
and as active (`Named`): its condition was written from a copy that was the stored version. Between
the list and the patch no other Release can become resolved, since only this worker sets conditions
(`Last`). What holds at rest again has an inductive invariant of its own, `WakeInv`, with the same
three cases as above for Releases and for ComponentVersions. A plain patch that drops somebody's finalizer
is no exception: it changes the object, so its copy is stale and an event that queues it is to
come. Every step of a worker either leaves such an event behind, or fails and is queued again, or
finds nothing to change in a cached copy that is the stored version (`MergeMoves`). The assumptions
say that the names of the objects are distinct and that `None` is not a record.

**ReleaseProtectionProofs.** `TypeCorrect`, `SettledAreSpared`, `NothingIsStuck`. The argument is
that of `RegistryProtection` with a third controller: `Near` and `Shown` for Profiles and
bindings, `WorkerOK` for what a worker relies on between its calls, `Sees` for what it has looked
at. New is that a generated binding does not count once its Profile has come to its end, so that a
list may leave it out (`Ended`): this needs that a UID is not used again and that a binding only
exists after the cache has shown its Profile (`Known`). The Release itself may be deleted and made
again under its name while a copy shows the old one; until that copy is replaced the new one has
no finalizer that a patch computed from the copy could drop (`Fresh`, `Closing`). `WakeInv` says
of every Profile or binding marked deleted that its request is pending, that its Profile waits for
the event of a binding on its way out, or that the worker is at removing its finalizer. The
assumptions say that the names of the objects are distinct and that `None` is not a record.

**ProfileBindingsProofs.** `TypeCorrect`, `ProfilesMatch`. `IInv` has little to say here: copies
that count as current, and the worker's own while it is fresh, are what is stored. The work is in
`WakeInv`. An active Profile with a valid selector is `Pending`, or the worker has its stored
version in hand and, from its lists on, knows of every selected Target that it has a binding or is
to get one (`Placed`), and of every other binding that it is on its way out or to be deleted
(`Cleaned`); or the same holds with nothing left to make or delete, and the number in the
status is right. Every object belongs to one Profile, so a write disturbs nobody else
(`PutWakes`), and a Target that comes or goes changes what is selected only of Profiles that are
told (`ToggleWakes`): one in a namespace without a grant is selected by nobody. That bindings have
generated names does not matter, since nothing is claimed of how many there are for a Target; that
there may be two is what `OneBindingPerTarget` is about. The assumptions: finitely many Targets,
names of objects distinct, `None` not a record.

Only model-checked: the liveness properties, which need fairness and `ENABLED`, beyond what the
prover handles. Every invariant and every action property that a passing run checks is stated by a
theorem. The type invariants are proved and, but for those of `RegistryProtection` and
`Discovery`, in no run.

## Not modelled

* Rendering itself (templates), parsing of component descriptors and Helm charts, formats of
  names, tags and messages, credentials, pull secrets: pure functions of their input.
* The Target controller's lookups of Releases and ComponentVersions and the functions that map
  events of these to Targets: `ArtifactGC` and `Bootstrap` take the references as resolved. They
  wait by requeue, as the registry gate does, which is modelled.
* A Profile's change of its releaseRef (existing bindings keep theirs).
* The generic webhook handler, which no binary links: `cmd/solar-discovery` imports zot's only.
* The length of the dependency backoff, a pure function of the age of a condition.
* API server: validation, table printing and storage strategies; the storage is library code.
* The manager's flags and wiring, and leader election: two managers at a time.
* Generated clients, conversions, deep copies and OpenAPI definitions, and the web frontend.

About 13,000 of the repository's 47,700 lines are Go code written by hand; the rest is generated,
or is the frontend's. Of the hand-written lines much is declarative (API types, flags, table
columns, chart templates). What has state and runs concurrently, the controllers, the discovery
pipeline, the renderer's decision to push and the UI backend, is modelled, so the share of all
lines that `PROJECT.json` maps is small and would only grow by mapping code in which there
is nothing to check.
