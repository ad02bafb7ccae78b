----------------------------- MODULE RenderTask -----------------------------
(***************************************************************************)
(* The RenderTask controller (pkg/controller/rendertask_controller.go),    *)
(* the render Job it starts and the renderer the Job's pods run            *)
(* (cmd/solar-renderer, pkg/renderer/push_chart.go).                       *)
(*                                                                         *)
(* The controller has one worker.  A reconcile is a sequence of calls to   *)
(* the API server; every call that writes is an action of its own, so the  *)
(* other actors interleave between them: the Target controller, which      *)
(* deletes and recreates a RenderTask under the same name when its spec    *)
(* drifts; the Job controller and the pods; the TTL controller; and the    *)
(* garbage collector.  Reads go through the informer caches, which lag the *)
(* API server independently of each other.                                 *)
(*                                                                         *)
(* Time is abstracted to two events: a failed RenderTask's failedJobTTL    *)
(* elapses (TTLExpires, taken to be positive) and a finished Job's         *)
(* ttlSecondsAfterFinished elapses (JobTTL).                               *)
(***************************************************************************)
EXTENDS Naturals, FiniteSets

CONSTANTS
    Tasks,        \* RenderTask names; Job and Secret are named after them
    Configs,      \* values of spec.rendererConfig
    Tags,         \* OCI references baseURL/repository:tag
    TagOf,        \* the reference the Target controller derives for a config
    BackoffLimit, \* backoffLimit of the render Job (3 in the code)
    MaxUid,       \* bound: RenderTasks ever created
    MaxFaults,    \* bound: failed calls, crashes and late observations
    MaxOrphans,   \* bound: pods that outlive their Job at the same time
    None          \* an absent object

ASSUME ConstantsAssumption ==
    /\ TagOf \in [Configs -> Tags]
    /\ BackoffLimit \in Nat
    /\ MaxUid \in Nat
    /\ MaxFaults \in Nat
    /\ MaxOrphans \in Nat

VARIABLES
    rt,          \* API server: the RenderTask of each name
    secret,      \* API server: the config Secret of each name
    job,         \* API server: the render Job of each name
    pods,        \* renderer pods that are running
    registry,    \* the config whose chart is stored under each reference
    expired,     \* uids of RenderTasks that failed failedJobTTL ago
    rtCache,     \* informer caches of the controller manager
    secretCache,
    jobCache,
    rec,         \* the worker: where its reconcile is, and its locals
    nextUid,     \* uid of the next RenderTask
    faults       \* faults so far

objects == <<rt, secret, job, pods, registry, expired, nextUid>>
caches == <<rtCache, secretCache, jobCache>>
vars == <<rt, secret, job, pods, registry, expired, rtCache, secretCache,
          jobCache, rec, nextUid, faults>>

-----------------------------------------------------------------------------
(* Objects.                                                                *)

Uid == Nat \ {0}

\* Conditions JobFailed and JobSucceeded.  by is a history field: the owner of
\* the Job whose success was recorded (0: no success recorded).
RenderTasks ==
    [uid: Uid, cfg: Configs, failed: BOOLEAN, succeeded: BOOLEAN, by: Nat]

Secrets == [owner: Uid, cfg: Configs]

\* args --url=<tag>; status.failed and status.succeeded
Jobs == [owner: Uid, tag: Tags, failed: Nat, succeeded: BOOLEAN]

\* What Reconcile looks at in a Job; owner is history only.
JobViews == [owner: Nat, failed: BOOLEAN, succeeded: BOOLEAN]

Pods == [task: Tasks, tag: Tags, cfg: Configs, stage: {"check", "push"},
         orphan: BOOLEAN]

View(j) == [owner |-> j.owner, failed |-> j.failed > 0,
            succeeded |-> j.succeeded]

\* The local job of Reconcile when Get found none: the zero value.
EmptyJob == [owner |-> 0, failed |-> FALSE, succeeded |-> FALSE]

\* res, of a reconcile's locals, is the RenderTask as read from the cache.
Idle == [pc |-> "idle", task |-> None, res |-> None, seen |-> EmptyJob]

Finished(j) == j.succeeded \/ j.failed > BackoffLimit

Owned(o, n) == rt[n] # None /\ rt[n].uid = o.owner

ASSUME NoneAssumption ==
    /\ None \notin Configs
    /\ None \notin RenderTasks
    /\ None \notin Jobs

Init ==
    /\ rt = [n \in Tasks |-> None]
    /\ secret = [n \in Tasks |-> None]
    /\ job = [n \in Tasks |-> None]
    /\ pods = {}
    /\ registry = [t \in Tags |-> None]
    /\ expired = {}
    /\ rtCache = [n \in Tasks |-> None]
    /\ secretCache = [n \in Tasks |-> FALSE]
    /\ jobCache = [n \in Tasks |-> None]
    /\ rec = Idle
    /\ nextUid = 1
    /\ faults = 0

-----------------------------------------------------------------------------
(* The Target controller creates a RenderTask, and deletes it when it is   *)
(* stale, when its spec drifts or when the Target is deleted.  RenderTasks *)
(* have no finalizer, so a deleted one is gone at once.                    *)

CreateTask(n, c) ==
    /\ rt[n] = None
    /\ nextUid <= MaxUid
    /\ rt' = [rt EXCEPT ![n] = [uid |-> nextUid, cfg |-> c, failed |-> FALSE,
                                succeeded |-> FALSE, by |-> 0]]
    /\ nextUid' = nextUid + 1
    /\ UNCHANGED <<secret, job, pods, registry, expired, caches, rec, faults>>

DeleteTask(n) ==
    /\ rt[n] # None
    /\ rt' = [rt EXCEPT ![n] = None]
    /\ UNCHANGED <<secret, job, pods, registry, expired, caches, rec, nextUid,
                   faults>>

-----------------------------------------------------------------------------
(* Reconcile.                                                              *)

\* Mutant of Fetch: JobFailed is taken for final, as JobSucceeded is.
FetchUnfailed(n) ==
    /\ rec.pc = "idle"
    /\ rtCache[n] # None
    /\ ~rtCache[n].succeeded
    /\ ~rtCache[n].failed
    /\ rec' = [pc |-> "secret", task |-> n, res |-> rtCache[n],
               seen |-> EmptyJob]
    /\ UNCHANGED <<objects, caches, faults>>

\* Get the RenderTask; nothing to do when it is gone or JobSucceeded.
Fetch(n) ==
    /\ rec.pc = "idle"
    /\ rtCache[n] # None
    /\ ~rtCache[n].succeeded
    /\ rec' = [pc |-> "secret", task |-> n, res |-> rtCache[n],
               seen |-> EmptyJob]
    /\ UNCHANGED <<objects, caches, faults>>

Return == rec' = Idle

\* Status().Update(res) carries the resourceVersion that was read.  It is
\* refused if res is not what the API server holds, and also if res is stale
\* in a part of the status that is left out here (the references to Secret and
\* Job, JobScheduled): where Current holds it may still be refused.
Current == rt[rec.task] = rec.res

\* Get the config Secret, or create it and record its reference in the
\* status.  AlreadyExists and a refused update end the reconcile.
EnsureConfigSecret ==
    LET n == rec.task IN
    /\ rec.pc = "secret"
    /\ \/ /\ secretCache[n]
          /\ rec' = [rec EXCEPT !.pc = "job"]
          /\ UNCHANGED secret
       \/ /\ ~secretCache[n]
          /\ secret[n] = None
          /\ secret' = [secret EXCEPT ![n] = [owner |-> rec.res.uid,
                                              cfg |-> rec.res.cfg]]
          /\ \/ Current /\ rec' = [rec EXCEPT !.pc = "job"]
             \/ Return
       \/ /\ ~secretCache[n]
          /\ secret[n] # None
          /\ Return
          /\ UNCHANGED secret
    /\ UNCHANGED <<rt, job, pods, registry, expired, nextUid, caches, faults>>

\* Get the Job by name, whoever owns it, or create it.
EnsureRenderJob ==
    LET n == rec.task IN
    /\ rec.pc = "job"
    /\ \/ /\ jobCache[n] # None
          /\ rec' = [rec EXCEPT !.pc = "status", !.seen = jobCache[n]]
          /\ UNCHANGED job
       \/ /\ jobCache[n] = None
          /\ job[n] = None
          /\ job' = [job EXCEPT ![n] = [owner |-> rec.res.uid,
                                        tag |-> TagOf[rec.res.cfg],
                                        failed |-> 0, succeeded |-> FALSE]]
          /\ \/ Current /\ rec' = [rec EXCEPT !.pc = "status"]
             \/ Return
       \/ /\ jobCache[n] = None
          /\ job[n] # None
          /\ Return
          /\ UNCHANGED job
    /\ UNCHANGED <<rt, secret, pods, registry, expired, nextUid, caches,
                   faults>>

\* Mutant of UpdateResourceStatusFromJob: JobFailed follows the Job.
ConditionsFromJob(res, seen) ==
    IF seen.succeeded
    THEN [res EXCEPT !.succeeded = TRUE, !.by = seen.owner]
    ELSE [res EXCEPT !.failed = seen.failed]

\* The conditions to record: success wins over failure, and neither is ever
\* withdrawn.
UpdateResourceStatusFromJob(res, seen) ==
    IF seen.succeeded
    THEN [res EXCEPT !.succeeded = TRUE, !.by = seen.owner]
    ELSE [res EXCEPT !.failed = res.failed \/ seen.failed]

\* Mutant of UpdateStatus: a refused status update does not end the reconcile.
UpdateStatusAnyway ==
    LET n == rec.task
        new == UpdateResourceStatusFromJob(rec.res, rec.seen)
    IN
    /\ rec.pc = "status"
    /\ rt' = IF new = rec.res \/ ~Current THEN rt ELSE [rt EXCEPT ![n] = new]
    /\ IF rec.seen.succeeded
       THEN rec' = [pc |-> "cleanup", task |-> n, res |-> new,
                    seen |-> rec.seen]
       ELSE Return
    /\ UNCHANGED <<secret, job, pods, registry, expired, nextUid, caches,
                   faults>>

\* Record the conditions, then clean up: after a success the Secret and the
\* Job, after a failure and its TTL the Secret.
UpdateStatus ==
    LET n == rec.task
        res == rec.res
        seen == rec.seen
        new == UpdateResourceStatusFromJob(res, seen)
    IN
    /\ rec.pc = "status"
    /\ \/ /\ new # res
          /\ Return
          /\ UNCHANGED rt
       \/ /\ new = res \/ Current
          /\ rt' = IF new = res THEN rt ELSE [rt EXCEPT ![n] = new]
          /\ \/ /\ seen.succeeded
                /\ rec' = [pc |-> "cleanup", task |-> n, res |-> new,
                           seen |-> seen]
             \/ /\ ~seen.succeeded
                /\ seen.failed
                /\ res.uid \in expired
                /\ rec' = [pc |-> "cleanupSecrets", task |-> n, res |-> new,
                           seen |-> seen]
             \/ /\ ~seen.succeeded
                /\ ~(seen.failed /\ res.uid \in expired)
                /\ Return
    /\ UNCHANGED <<secret, job, pods, registry, expired, nextUid, caches,
                   faults>>

AsOrphan(p) == [p EXCEPT !.orphan = TRUE]

\* A Job is deleted in the background: its pod ends with it or runs on.
RemoveJob(n) ==
    LET orphans == {p \in pods : p.orphan}
        running == {p \in pods : ~p.orphan /\ p.task = n}
    IN
    /\ job' = [job EXCEPT ![n] = None]
    /\ \/ pods' = pods \ running
       \/ /\ running # {}
          /\ Cardinality(orphans) < MaxOrphans
          /\ pods' = (pods \ running) \cup {AsOrphan(p) : p \in running}

\* Deletions are by name, of what the cache still shows.
CleanupSecrets ==
    LET n == rec.task IN
    /\ rec.pc \in {"cleanup", "cleanupSecrets"}
    /\ secret' = IF secretCache[n] THEN [secret EXCEPT ![n] = None] ELSE secret
    /\ IF rec.pc = "cleanup" THEN rec' = [rec EXCEPT !.pc = "cleanupJob"]
                             ELSE Return
    /\ UNCHANGED <<rt, job, pods, registry, expired, nextUid, caches, faults>>

DeleteRenderJob ==
    LET n == rec.task IN
    /\ rec.pc = "cleanupJob"
    /\ IF jobCache[n] # None THEN RemoveJob(n) ELSE UNCHANGED <<job, pods>>
    /\ Return
    /\ UNCHANGED <<rt, secret, registry, expired, nextUid, caches, faults>>

\* A call fails.  Before the cleanup the error ends the reconcile, which is
\* retried; in the cleanup it is only logged.
CallFails ==
    /\ rec.pc # "idle"
    /\ faults < MaxFaults
    /\ faults' = faults + 1
    /\ IF rec.pc = "cleanup" THEN rec' = [rec EXCEPT !.pc = "cleanupJob"]
                             ELSE Return
    /\ UNCHANGED <<objects, caches>>

\* The controller manager restarts and lists everything anew.
Crash ==
    /\ faults < MaxFaults
    /\ faults' = faults + 1
    /\ Return
    /\ rtCache' = rt
    /\ secretCache' = [n \in Tasks |-> secret[n] # None]
    /\ jobCache' = [n \in Tasks |-> IF job[n] = None THEN None
                                                     ELSE View(job[n])]
    /\ UNCHANGED objects

TTLExpires(n) ==
    /\ rt[n] # None
    /\ rt[n].failed
    /\ rt[n].uid \notin expired
    /\ expired' = expired \cup {rt[n].uid}
    /\ UNCHANGED <<rt, secret, job, pods, registry, nextUid, caches, rec,
                   faults>>

-----------------------------------------------------------------------------
(* The informers.                                                          *)

SyncTask(n) ==
    /\ rtCache[n] # rt[n]
    /\ rtCache' = [rtCache EXCEPT ![n] = rt[n]]
    /\ UNCHANGED <<objects, secretCache, jobCache, rec, faults>>

SyncSecret(n) ==
    /\ secretCache[n] # (secret[n] # None)
    /\ secretCache' = [secretCache EXCEPT ![n] = (secret[n] # None)]
    /\ UNCHANGED <<objects, rtCache, jobCache, rec, faults>>

SyncJob(n) ==
    LET v == IF job[n] = None THEN None ELSE View(job[n]) IN
    /\ jobCache[n] # v
    /\ jobCache' = [jobCache EXCEPT ![n] = v]
    /\ UNCHANGED <<objects, rtCache, secretCache, rec, faults>>

-----------------------------------------------------------------------------
(* Kubernetes: the Job controller, the TTL controller and the garbage      *)
(* collector.                                                              *)

\* A pod mounts the config Secret (by name) as it starts.
StartPod(n) ==
    /\ job[n] # None
    /\ ~Finished(job[n])
    /\ secret[n] # None
    /\ \A p \in pods : p.task = n => p.orphan
    /\ pods' = pods \cup {[task |-> n, tag |-> job[n].tag,
                           cfg |-> secret[n].cfg, stage |-> "check",
                           orphan |-> FALSE]}
    /\ UNCHANGED <<rt, secret, job, registry, expired, nextUid, caches, rec,
                   faults>>

\* A pod ends; its Job's status, if it still has one, becomes j.
PodEnds(p, j) ==
    /\ pods' = pods \ {p}
    /\ job' = IF p.orphan THEN job ELSE [job EXCEPT ![p.task] = j]

PodFails(p) ==
    /\ PodEnds(p, [job[p.task] EXCEPT !.failed = @ + 1])
    /\ UNCHANGED <<rt, secret, registry, expired, nextUid, caches, rec, faults>>

PodSucceeds(p) == PodEnds(p, [job[p.task] EXCEPT !.succeeded = TRUE])

\* ttlSecondsAfterFinished.  A success removed before the controller recorded
\* it counts as a fault.
JobTTL(n) ==
    /\ job[n] # None
    /\ Finished(job[n])
    /\ IF job[n].succeeded /\ Owned(job[n], n) /\ ~rt[n].succeeded
       THEN faults < MaxFaults /\ faults' = faults + 1
       ELSE UNCHANGED faults
    /\ RemoveJob(n)
    /\ UNCHANGED <<rt, secret, registry, expired, nextUid, caches, rec>>

GCJob(n) ==
    /\ job[n] # None
    /\ ~Owned(job[n], n)
    /\ RemoveJob(n)
    /\ UNCHANGED <<rt, secret, registry, expired, nextUid, caches, rec, faults>>

GCSecret(n) ==
    /\ secret[n] # None
    /\ ~Owned(secret[n], n)
    /\ secret' = [secret EXCEPT ![n] = None]
    /\ UNCHANGED <<rt, job, pods, registry, expired, nextUid, caches, rec,
                   faults>>

-----------------------------------------------------------------------------
(* The renderer, in a pod.                                                 *)

\* Mutant of RendererSkips: an answer without the tag is taken for a chart.
RendererSkipsUnseen(p) ==
    /\ p.stage = "check"
    /\ PodSucceeds(p)
    /\ UNCHANGED <<rt, secret, registry, expired, nextUid, caches, rec, faults>>

\* The chart exists: nothing is rendered, the pod exits with success.
RendererSkips(p) ==
    /\ p.stage = "check"
    /\ registry[p.tag] # None
    /\ PodSucceeds(p)
    /\ UNCHANGED <<rt, secret, registry, expired, nextUid, caches, rec, faults>>

\* The chart does not exist, or its repository's tags cannot be listed.
RendererProceeds(p) ==
    /\ p.stage = "check"
    /\ pods' = (pods \ {p}) \cup {[p EXCEPT !.stage = "push"]}
    /\ UNCHANGED <<rt, secret, job, registry, expired, nextUid, caches, rec,
                   faults>>

RendererPushes(p) ==
    /\ p.stage = "push"
    /\ registry' = [registry EXCEPT ![p.tag] = p.cfg]
    /\ PodSucceeds(p)
    /\ UNCHANGED <<rt, secret, expired, nextUid, caches, rec, faults>>

-----------------------------------------------------------------------------

Controller ==
    \/ \E n \in Tasks : Fetch(n)
    \/ EnsureConfigSecret
    \/ EnsureRenderJob
    \/ UpdateStatus
    \/ CleanupSecrets
    \/ DeleteRenderJob

Environment ==
    \/ \E n \in Tasks, c \in Configs : CreateTask(n, c)
    \/ \E n \in Tasks : DeleteTask(n)
    \/ \E n \in Tasks : TTLExpires(n)
    \/ CallFails
    \/ Crash

Informers == \E n \in Tasks : SyncTask(n) \/ SyncSecret(n) \/ SyncJob(n)

Cluster ==
    \/ \E n \in Tasks : StartPod(n) \/ JobTTL(n) \/ GCJob(n) \/ GCSecret(n)
    \/ \E p \in pods : \/ PodFails(p)
                       \/ RendererSkips(p)
                       \/ RendererProceeds(p)
                       \/ RendererPushes(p)

Next == Controller \/ Environment \/ Informers \/ Cluster

Spec == Init /\ [][Next]_vars

(* Fairness.  The work queue serves every RenderTask again and again (every  *)
(* change of it, of its Job or of its Secret enqueues it, and so does the    *)
(* informers' resync), a running reconcile goes on, its update of the        *)
(* conditions is not refused for ever (the copy it read is current again and *)
(* again), the informers catch up, and the cluster's controllers do their    *)
(* work.  Rendering is retried by the Job and by Jobs that replace it: if    *)
(* pods of the RenderTask run again and again, some of them render.          *)
Reconciling ==
    EnsureConfigSecret \/ EnsureRenderJob \/ UpdateStatus \/ CleanupSecrets
        \/ DeleteRenderJob

JobPods(n) == {p \in pods : p.task = n /\ ~p.orphan}

Renders(n) == \E p \in JobPods(n) : RendererSkips(p) \/ RendererPushes(p)

Fairness ==
    /\ WF_vars(Reconciling)
    /\ SF_vars(UpdateStatus /\ rt' # rt)
    /\ \A n \in Tasks :
        /\ SF_vars(Fetch(n))
        /\ WF_vars(SyncTask(n))
        /\ WF_vars(SyncSecret(n))
        /\ WF_vars(SyncJob(n))
        /\ WF_vars(JobTTL(n))
        /\ WF_vars(GCJob(n))
        /\ WF_vars(GCSecret(n))
        /\ WF_vars(StartPod(n))
        /\ []<>(JobPods(n) # {}) => []<><<Renders(n)>>_vars

FairSpec == Spec /\ Fairness

-----------------------------------------------------------------------------
(* Properties.                                                             *)

ObjectsTypeOK ==
    /\ rt \in [Tasks -> RenderTasks \cup {None}]
    /\ secret \in [Tasks -> Secrets \cup {None}]
    /\ job \in [Tasks -> Jobs \cup {None}]
    /\ pods \subseteq Pods
    /\ registry \in [Tags -> Configs \cup {None}]
    /\ expired \subseteq Uid
    /\ nextUid \in Uid
    /\ faults \in Nat

CachesTypeOK ==
    /\ rtCache \in [Tasks -> RenderTasks \cup {None}]
    /\ secretCache \in [Tasks -> BOOLEAN]
    /\ jobCache \in [Tasks -> JobViews \cup {None}]

WorkerTypeOK ==
    \/ rec = Idle
    \/ rec \in [pc: {"secret", "job", "status", "cleanup", "cleanupSecrets",
                     "cleanupJob"},
                task: Tasks, res: RenderTasks, seen: JobViews]

(* The objects, the caches and the worker's locals have their types; a       *)
(* reconcile under way always holds the RenderTask it fetched.               *)
TypeOK == ObjectsTypeOK /\ CachesTypeOK /\ WorkerTypeOK

Succeeded(n) == rt[n] # None /\ rt[n].succeeded

(* A RenderTask that was marked JobSucceeded on account of a Job of its own  *)
(* has its chart in the registry, whatever was deleted, recreated, collected *)
(* or read from a stale cache in between (updateResourceStatusFromJob sets   *)
(* status.chartURL from the RenderTask's spec, not from what was pushed).    *)
OwnSuccessIsPushed ==
    \A n \in Tasks :
        Succeeded(n) /\ rt[n].by = rt[n].uid
            => registry[TagOf[rt[n].cfg]] # None

(* cleanupRenderResources deletes the Job and the Secret by name, without a  *)
(* precondition: they never belong to a RenderTask that still needs them,    *)
(* even if the RenderTask was recreated since its success was recorded.      *)
CleanupSparesUnfinished ==
    rec.pc \in {"cleanup", "cleanupJob"} =>
        LET n == rec.task IN
        /\ job[n] # None /\ Owned(job[n], n) => rt[n].succeeded
        /\ secret[n] # None /\ Owned(secret[n], n) => rt[n].succeeded

SameTask(n) == rt[n] # None /\ rt'[n] # None /\ rt'[n].uid = rt[n].uid

(* Status().Update writes the whole status as the reconcile computed it from *)
(* a cached copy; a condition that was recorded is never withdrawn by it.    *)
ConditionsAreKept ==
    [][\A n \in Tasks : SameTask(n) =>
          /\ rt[n].succeeded => rt'[n].succeeded
          /\ rt[n].failed => rt'[n].failed]_vars

(* A pod of the Job has failed, a retry is left, and failedJobTTL is over:   *)
(* every reconcile creates the Secret that the next pod has to mount and     *)
(* deletes it again, since JobFailed and its TTL do not wait for the last    *)
(* retry.                                                                    *)
RetriesWithoutSecret(n) ==
    /\ rt[n] # None /\ rt[n].uid \in expired
    /\ job[n] # None /\ job[n].failed > 0 /\ ~Finished(job[n])

(* A RenderTask that is not deleted becomes JobSucceeded and stays so: a     *)
(* Reconcile that met stale caches, a refused update, a Job or Secret left   *)
(* by its predecessor, failed pods or an expired TTL is always followed by   *)
(* one that gets further.  The code leaves one way to be stuck, and no       *)
(* other: a Job that has a retry left when failedJobTTL ends may wait for    *)
(* ever for a Secret that is there only between two calls of a reconcile.    *)
EventuallySucceeds ==
    \A n \in Tasks :
        <>[](rt[n] # None) => <>[]Succeeded(n) \/ <>[]RetriesWithoutSecret(n)

-----------------------------------------------------------------------------
(* What the documentation says of the RenderTask, and the code does not do. *)

(* api/solar/v1alpha1/rendertask_types.go: status.chartURL is where the      *)
(* rendered chart was pushed to.                                             *)
SuccessIsPushed ==
    \A n \in Tasks : Succeeded(n) => registry[TagOf[rt[n].cfg]] # None

=============================================================================
