------------------------------ MODULE Bootstrap ------------------------------
(***************************************************************************)
(* The bootstrap chart of one Target: how the Target controller            *)
(* (pkg/controller/target_controller.go) numbers its versions, creates a   *)
(* RenderTask for each, and cleans up after the one that succeeded.        *)
(*                                                                         *)
(* The releases of the Target are rendered; what matters of them, and of   *)
(* the Target's userdata, is the bootstrap input they yield.  The chart of *)
(* version v is stored under the reference v0.0.v.  The controller has one *)
(* worker and reads the Target and its RenderTasks from informer caches;   *)
(* every write is an action of its own.  Of the RenderArtifact controller  *)
(* only the outcome is kept: a chart without RenderBinding is collected at *)
(* some time (see ArtifactGC for the rest).                                *)
(***************************************************************************)
EXTENDS TargetBounds, FiniteSets

CONSTANTS
    Inputs,      \* bootstrap inputs: releases with their charts, and userdata
    MaxVersion,  \* bound: of status.bootstrapVersion
    Failed       \* condition BootstrapReady, False

ASSUME VersionAssumption == MaxVersion \in Nat

Versions == 0..MaxVersion

VARIABLES
    input,       \* the input the Target's ReleaseBindings and userdata ask for
    status,      \* API server: the Target's status
    tasks,       \* API server: the bootstrap RenderTask of each version
    bound,       \* API server: versions with a RenderBinding
    arts,        \* API server: versions with a RenderArtifact
    charts,      \* the input whose chart is stored for each version
    statusCache, \* informer caches
    taskCache,
    bw           \* the worker

bootstrapApi == <<input, status, tasks, bound, arts, charts>>
bootstrapVars == <<input, status, tasks, bound, arts, charts, statusCache,
                   taskCache, bw, changes, faults>>

-----------------------------------------------------------------------------
(* Objects.                                                                *)

\* bootstrapVersion; condition ReleasesRendered: AllRendered or not; condition
\* BootstrapReady: absent, Failed, or Ready with the chart of a version.
Statuses == [ver: Versions, rendered: BOOLEAN,
             ready: Versions \cup {None, Failed}]

NewStatus == [ver |-> 0, rendered |-> FALSE, ready |-> None]

BootstrapTasks == [input: Inputs,
                stage: {"check", "push", "succeeded", "failed"}]

\* base: the status as read, or as last written by this reconcile; ver and
\* stage: version and stage of the RenderTask it settled on.
Idle == [pc |-> "idle", base |-> NewStatus, want |-> None, ver |-> 0,
         stage |-> "check", todo |-> {}]

BootstrapInit ==
    /\ input \in Inputs \cup {None}
    /\ status = NewStatus
    /\ tasks = [v \in Versions |-> None]
    /\ bound = {}
    /\ arts = {}
    /\ charts = [v \in Versions |-> None]
    /\ statusCache = status
    /\ taskCache = tasks
    /\ bw = Idle
    /\ changes = 0
    /\ faults = 0

-----------------------------------------------------------------------------

ChangeInput(i) ==
    /\ changes < MaxChanges
    /\ i # input
    /\ input' = i
    /\ changes' = changes + 1
    /\ UNCHANGED <<status, tasks, bound, arts, charts, statusCache, taskCache,
                   bw, faults>>

-----------------------------------------------------------------------------
(* Reconcile.                                                              *)

Return == bw' = Idle

CachedVersions == {v \in Versions : taskCache[v] # None}

\* Mutant: a patch without the resource version.
PatchStatus(new, next) ==
    /\ status' = IF new = bw.base THEN status ELSE new
    /\ bw' = [next EXCEPT !.base = IF next = Idle THEN @ ELSE new]

\* Status().Update(new): no call if nothing changed; refused if the status was
\* changed since it was read, or is stale in conditions left out here.
UpdateStatus(new, next) ==
    \/ /\ new = bw.base
       /\ bw' = next
       /\ UNCHANGED status
    \/ /\ new # bw.base
       /\ status = bw.base
       /\ status' = new
       /\ bw' = [next EXCEPT !.base = IF next = Idle THEN @ ELSE new]
    \/ /\ new # bw.base
       /\ Return
       /\ UNCHANGED status

Fetch ==
    /\ bw.pc = "idle"
    /\ bw' = [Idle EXCEPT !.pc = "rendered", !.base = statusCache,
                          !.want = input]
    /\ UNCHANGED <<bootstrapApi, statusCache, taskCache, changes, faults>>

\* Mutant: without ReleaseBindings nothing is cleaned up.
SetReleasesRenderedOnly ==
    /\ bw.pc = "rendered"
    /\ UpdateStatus([bw.base EXCEPT !.rendered = (bw.want # None)],
                    IF bw.want = None THEN Idle ELSE [bw EXCEPT !.pc = "plan"])
    /\ UNCHANGED <<input, tasks, bound, arts, charts, statusCache, taskCache,
                   changes, faults>>

\* Without ReleaseBindings everything of the Target is stale.
SetReleasesRendered ==
    /\ bw.pc = "rendered"
    /\ \/ /\ bw.want = None
          /\ UpdateStatus([bw.base EXCEPT !.rendered = FALSE],
                          [bw EXCEPT !.pc = "tasks", !.todo = CachedVersions])
       \/ /\ bw.want # None
          /\ UpdateStatus([bw.base EXCEPT !.rendered = TRUE],
                          [bw EXCEPT !.pc = "plan"])
    /\ UNCHANGED <<input, tasks, bound, arts, charts, statusCache, taskCache,
                   changes, faults>>

\* Mutant: the input of an existing RenderTask is not compared.
PlanIfMissing ==
    LET seen == taskCache[bw.base.ver] IN
    /\ bw.pc = "plan"
    /\ bw' = IF seen = None
             THEN [bw EXCEPT !.pc = "create", !.ver = bw.base.ver]
             ELSE [bw EXCEPT !.pc = "report", !.ver = bw.base.ver,
                             !.stage = seen.stage]
    /\ UNCHANGED <<bootstrapApi, statusCache, taskCache, changes, faults>>

\* Is the RenderTask of the current version there, and for the desired input?
Plan ==
    LET v == bw.base.ver
        seen == taskCache[v]
    IN
    /\ bw.pc = "plan"
    /\ \/ /\ seen = None
          /\ bw' = [bw EXCEPT !.pc = "create", !.ver = v]
       \/ /\ seen # None
          /\ seen.input # bw.want
          /\ v < MaxVersion
          /\ bw' = [bw EXCEPT !.pc = "create", !.ver = v + 1]
       \/ /\ seen # None
          /\ seen.input = bw.want
          /\ bw' = [bw EXCEPT !.pc = "report", !.ver = v,
                              !.stage = seen.stage]
    /\ UNCHANGED <<bootstrapApi, statusCache, taskCache, changes, faults>>

\* A RenderTask that exists already is taken as it is, if the cache has it.
Create ==
    LET v == bw.ver IN
    /\ bw.pc = "create"
    /\ \/ /\ tasks[v] = None
          /\ tasks' = [tasks EXCEPT ![v] = [input |-> bw.want,
                                           stage |-> "check"]]
          /\ bw' = [bw EXCEPT !.pc = "persist", !.stage = "check"]
       \/ /\ tasks[v] # None
          /\ UNCHANGED tasks
          /\ IF taskCache[v] = None
             THEN Return
             ELSE bw' = [bw EXCEPT !.pc = "persist",
                                   !.stage = taskCache[v].stage]
    /\ UNCHANGED <<input, status, bound, arts, charts, statusCache, taskCache,
                   changes, faults>>

Persist ==
    /\ bw.pc = "persist"
    /\ UpdateStatus([bw.base EXCEPT !.ver = bw.ver],
                    [bw EXCEPT !.pc = "report"])
    /\ UNCHANGED <<input, tasks, bound, arts, charts, statusCache, taskCache,
                   changes, faults>>

Report ==
    /\ bw.pc = "report"
    /\ \/ /\ bw.stage = "failed"
          /\ UpdateStatus([bw.base EXCEPT !.ready = Failed], Idle)
       \/ /\ bw.stage = "succeeded"
          /\ UpdateStatus([bw.base EXCEPT !.ready = bw.ver],
                          [bw EXCEPT !.pc = "bind"])
       \/ /\ bw.stage \in {"check", "push"}
          /\ Return
          /\ UNCHANGED status
    /\ UNCHANGED <<input, tasks, bound, arts, charts, statusCache, taskCache,
                   changes, faults>>

\* The binding first, so that the artifact is never without one.
EnsureRenderBinding ==
    /\ bw.pc = "bind"
    /\ bound' = bound \cup {bw.ver}
    /\ bw' = [bw EXCEPT !.pc = "artifact"]
    /\ UNCHANGED <<input, status, tasks, arts, charts, statusCache, taskCache,
                   changes, faults>>

EnsureRenderArtifact ==
    /\ bw.pc = "artifact"
    /\ arts' = arts \cup {bw.ver}
    /\ bw' = [bw EXCEPT !.pc = "tasks", !.todo = CachedVersions \ {bw.ver}]
    /\ UNCHANGED <<input, status, tasks, bound, charts, statusCache, taskCache,
                   changes, faults>>

DeleteStaleRenderTasks ==
    /\ bw.pc = "tasks"
    /\ IF bw.todo = {}
       THEN bw' = [bw EXCEPT !.pc = "bindings"] /\ UNCHANGED tasks
       ELSE \E v \in bw.todo :
                /\ tasks' = [tasks EXCEPT ![v] = None]
                /\ bw' = [bw EXCEPT !.todo = @ \ {v}]
    /\ UNCHANGED <<input, status, bound, arts, charts, statusCache, taskCache,
                   changes, faults>>

\* The API server lists the bindings, and they are deleted one by one.
DeleteStaleRenderBindings ==
    LET stale == IF bw.want = None THEN bound ELSE bound \ {bw.ver} IN
    /\ bw.pc = "bindings"
    /\ IF stale = {}
       THEN Return /\ UNCHANGED bound
       ELSE \E v \in stale : bound' = bound \ {v} /\ UNCHANGED bw
    /\ UNCHANGED <<input, status, tasks, arts, charts, statusCache, taskCache,
                   changes, faults>>

\* A call fails: the reconcile ends, but for the cleanup after a success.
CallFails ==
    /\ bw.pc # "idle"
    /\ faults < MaxFaults
    /\ faults' = faults + 1
    /\ IF bw.pc = "tasks" /\ bw.want # None
       THEN bw' = [bw EXCEPT !.pc = "bindings", !.todo = {}]
       ELSE Return
    /\ UNCHANGED <<bootstrapApi, statusCache, taskCache, changes>>

-----------------------------------------------------------------------------
(* Renderers, the collection of charts, informers, restarts.               *)

\* The renderer skips a chart the registry has; it pushes one that the
\* registry lacks or cannot list.
RenderVersion(v) ==
    /\ tasks[v] # None
    /\ \/ /\ tasks[v].stage = "check"
          /\ charts[v] # None
          /\ tasks' = [tasks EXCEPT ![v].stage = "succeeded"]
          /\ UNCHANGED charts
       \/ /\ tasks[v].stage = "check"
          /\ tasks' = [tasks EXCEPT ![v].stage = "push"]
          /\ UNCHANGED charts
       \/ /\ tasks[v].stage = "push"
          /\ tasks' = [tasks EXCEPT ![v].stage = "succeeded"]
          /\ charts' = [charts EXCEPT ![v] = tasks[v].input]
    /\ UNCHANGED <<input, status, bound, arts, statusCache, taskCache, bw,
                   changes, faults>>

RenderVersionFails(v) ==
    /\ tasks[v] # None
    /\ tasks[v].stage \in {"check", "push"}
    /\ faults < MaxFaults
    /\ faults' = faults + 1
    /\ tasks' = [tasks EXCEPT ![v].stage = "failed"]
    /\ UNCHANGED <<input, status, bound, arts, charts, statusCache, taskCache,
                   bw, changes>>

Collect(v) ==
    /\ v \in arts
    /\ v \notin bound
    /\ arts' = arts \ {v}
    /\ charts' = [charts EXCEPT ![v] = None]
    /\ UNCHANGED <<input, status, tasks, bound, statusCache, taskCache, bw,
                   changes, faults>>

SyncStatus ==
    /\ statusCache # status
    /\ statusCache' = status
    /\ UNCHANGED <<bootstrapApi, taskCache, bw, changes, faults>>

SyncVersion(v) ==
    /\ taskCache[v] # tasks[v]
    /\ taskCache' = [taskCache EXCEPT ![v] = tasks[v]]
    /\ UNCHANGED <<bootstrapApi, statusCache, bw, changes, faults>>

Restart ==
    /\ faults < MaxFaults
    /\ faults' = faults + 1
    /\ Return
    /\ statusCache' = status
    /\ taskCache' = tasks
    /\ UNCHANGED <<bootstrapApi, changes>>

-----------------------------------------------------------------------------

Step ==
    \/ SetReleasesRendered
    \/ Plan
    \/ Create
    \/ Persist
    \/ Report
    \/ EnsureRenderBinding
    \/ EnsureRenderArtifact
    \/ DeleteStaleRenderTasks
    \/ DeleteStaleRenderBindings

BootstrapNext ==
    \/ \E i \in Inputs \cup {None} : ChangeInput(i)
    \/ Fetch
    \/ Step
    \/ CallFails
    \/ \E v \in Versions :
        \/ RenderVersion(v)
        \/ RenderVersionFails(v)
        \/ Collect(v)
        \/ SyncVersion(v)
    \/ SyncStatus
    \/ Restart

BootstrapSpec == BootstrapInit /\ [][BootstrapNext]_bootstrapVars

(* Fairness.  The Target is requeued after 30 seconds, and on errors; where  *)
(* its status could be updated again and again, some update is not refused;  *)
(* informers catch up, renderers end and charts without binding are          *)
(* collected.                                                                *)
BootstrapFairness ==
    /\ WF_bootstrapVars(Fetch)
    /\ WF_bootstrapVars(Step)
    /\ SF_bootstrapVars(Step /\ status' # status)
    /\ WF_bootstrapVars(SyncStatus)
    /\ \A v \in Versions :
        /\ WF_bootstrapVars(RenderVersion(v))
        /\ WF_bootstrapVars(Collect(v))
        /\ WF_bootstrapVars(SyncVersion(v))

BootstrapFairSpec == BootstrapSpec /\ BootstrapFairness

-----------------------------------------------------------------------------
(* Properties.                                                             *)

Workers ==
    [pc: {"idle", "rendered", "plan", "create", "persist", "report", "bind",
          "artifact", "tasks", "bindings"},
     base: Statuses, want: Inputs \cup {None}, ver: Versions,
     stage: {"check", "push", "succeeded", "failed"}, todo: SUBSET Versions]

(* The objects, the caches and the worker's locals have their types.         *)
BootstrapTypeOK ==
    /\ input \in Inputs \cup {None}
    /\ status \in Statuses /\ statusCache \in Statuses
    /\ tasks \in [Versions -> BootstrapTasks \cup {None}]
    /\ taskCache \in [Versions -> BootstrapTasks \cup {None}]
    /\ bound \cup arts \subseteq Versions
    /\ charts \in [Versions -> Inputs \cup {None}]
    /\ bw \in Workers
    /\ changes \in Nat
    /\ faults \in Nat

(* status.bootstrapVersion is "a monotonically increasing counter": no       *)
(* reconcile, however stale the Target it read, sets it back.                *)
VersionNeverDecreases == [][status'.ver >= status.ver]_bootstrapVars

\* The desired input stays i, renderings do not fail (JobFailed is final for
\* the Target), and the bound on versions does not stop the worker.
Settles(i) ==
    <>[](/\ input = i
         /\ \A v \in Versions : tasks[v] # None => tasks[v].stage # "failed"
         /\ bw.pc # "plan" \/ ENABLED Plan)

(* Once the desired input stays what it is, the current version's RenderTask *)
(* renders it, and it is reported ready and keeps its RenderBinding.         *)
EventuallyRendersDesired ==
    \A i \in Inputs :
        Settles(i) =>
            <>[](/\ tasks[status.ver] # None
                 /\ tasks[status.ver].input = i
                 /\ status.ready = status.ver
                 /\ status.ver \in bound)

(* Once the ReleaseBindings stay what they are, the objects of all other     *)
(* versions are cleaned up: RenderTasks, RenderBindings and RenderArtifacts. *)
(* Not their charts: a chart is removed with its RenderArtifact, and one     *)
(* that was pushed for a version superseded before it was bound has none.    *)
EventuallyOnlyCurrent ==
    \A i \in Inputs \cup {None} :
        Settles(i) =>
            <>[](\A v \in Versions :
                    \/ v = status.ver /\ i # None
                    \/ tasks[v] = None /\ v \notin bound \cup arts)

-----------------------------------------------------------------------------
(* What the documents promise and the code does not keep.                  *)

(* A new version is pushed whenever the bootstrap content changes: the chart *)
(* of a version, where RenderTask and chart are there, has the RenderTask's  *)
(* input.                                                                    *)
ContentIsCurrent ==
    \A v \in Versions :
        /\ tasks[v] # None
        /\ tasks[v].stage = "succeeded"
        /\ charts[v] # None
        => charts[v] = tasks[v].input

(* The cleanup after a success deletes "RenderTasks from prior versions":    *)
(* never the one of the current version.                                     *)
CleanupSparesCurrent ==
    [][bw.pc = "tasks" /\ bw.want # None /\ tasks[status.ver] # None
        => tasks'[status.ver] # None]_bootstrapVars

=============================================================================
