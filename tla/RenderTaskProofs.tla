-------------------------- MODULE RenderTaskProofs --------------------------
(***************************************************************************)
(* Proofs about RenderTask, for every set of names and configs, every      *)
(* BackoffLimit and every bound.                                           *)
(***************************************************************************)
EXTENDS RenderTask, TLAPS

(* A pod that is not an orphan belongs to the Job of its name, and pushes    *)
(* where that Job says.                                                      *)
PodsOfJobs ==
    \A p \in pods :
        ~p.orphan => job[p.task] # None /\ p.tag = job[p.task].tag

(* No object and no copy of one carries a uid that is still to be given.     *)
UidsGiven ==
    /\ \A n \in Tasks :
        /\ rt[n] # None => rt[n].uid < nextUid
        /\ rtCache[n] # None => rtCache[n].uid < nextUid
        /\ secret[n] # None => secret[n].owner < nextUid
        /\ job[n] # None => job[n].owner < nextUid
        /\ jobCache[n] # None => jobCache[n].owner < nextUid
    /\ rec.pc # "idle" => rec.res.uid < nextUid /\ rec.seen.owner < nextUid

(* A copy of the RenderTask that exists has its config.                      *)
CopiesAgree ==
    \A n \in Tasks : rt[n] # None =>
        /\ rtCache[n] # None /\ rtCache[n].uid = rt[n].uid
              => rtCache[n].cfg = rt[n].cfg
        /\ rec.pc # "idle" /\ rec.task = n /\ rec.res.uid = rt[n].uid
              => rec.res.cfg = rt[n].cfg

(* A Job pushes to the reference of the RenderTask that owns it.             *)
JobsRenderOwner ==
    \A n \in Tasks :
        job[n] # None /\ Owned(job[n], n) => job[n].tag = TagOf[rt[n].cfg]

Pushed(n) == registry[TagOf[rt[n].cfg]] # None

(* A success, where it happened and where it has been read, means that the   *)
(* chart was pushed.                                                         *)
SuccessesPushed ==
    /\ \A n \in Tasks :
        /\ job[n] # None /\ job[n].succeeded => registry[job[n].tag] # None
        /\ /\ rt[n] # None
           /\ jobCache[n] # None
           /\ jobCache[n].succeeded
           /\ jobCache[n].owner = rt[n].uid
           => Pushed(n)
    /\ /\ rec.pc # "idle"
       /\ rt[rec.task] # None
       /\ rec.seen.succeeded
       /\ rec.seen.owner = rt[rec.task].uid
       => Pushed(rec.task)

(* A reconcile that has not recorded a success started from none.            *)
NotYetSucceeded ==
    rec.pc \in {"secret", "job", "status"} => ~rec.res.succeeded

IInv ==
    /\ TypeOK
    /\ PodsOfJobs
    /\ UidsGiven
    /\ CopiesAgree
    /\ JobsRenderOwner
    /\ SuccessesPushed
    /\ NotYetSucceeded
    /\ OwnSuccessIsPushed
    /\ CleanupSparesUnfinished

-----------------------------------------------------------------------------
(* Facts the steps share.                                                  *)

(* A reconcile under way has a RenderTask and its locals have their types.   *)
LEMMA WorkerFacts ==
    ASSUME WorkerTypeOK, rec.pc # "idle"
    PROVE  /\ rec.task \in Tasks
           /\ rec.res \in RenderTasks
           /\ rec.seen \in JobViews
           /\ rec = [pc |-> rec.pc, task |-> rec.task, res |-> rec.res,
                     seen |-> rec.seen]
           /\ rec.pc \in {"secret", "job", "status", "cleanup",
                          "cleanupSecrets", "cleanupJob"}
BY DEF WorkerTypeOK, Idle

(* What the informer shows of a Job is a view.                               *)
LEMMA ViewType ==
    ASSUME NEW j \in Jobs
    PROVE  /\ View(j) \in JobViews
           /\ View(j).owner = j.owner
           /\ View(j).succeeded = j.succeeded
BY DEF View, JobViews, Jobs, Uid

(* Removing a Job, by the controller or the cluster, leaves no pod behind    *)
(* that still counts as the Job's.                                           *)
LEMMA RemoveJobFacts ==
    ASSUME ObjectsTypeOK, PodsOfJobs, NEW n \in Tasks, RemoveJob(n)
    PROVE  /\ job' = [job EXCEPT ![n] = None]
           /\ job' \in [Tasks -> Jobs \cup {None}]
           /\ pods' \subseteq Pods
           /\ PodsOfJobs'
<1> DEFINE running == {p \in pods : ~p.orphan /\ p.task = n}
<1>1. job' = [job EXCEPT ![n] = None]
  BY DEF RemoveJob
<1>2. job' \in [Tasks -> Jobs \cup {None}]
  BY <1>1 DEF ObjectsTypeOK
<1>3. \A p \in running : AsOrphan(p) \in Pods /\ AsOrphan(p).orphan
  BY Zenon DEF ObjectsTypeOK, Pods, AsOrphan
<1>4. \A p \in pods' : p \in pods \ running \/ (p \in Pods /\ p.orphan)
  BY <1>3 DEF RemoveJob
<1>5. pods' \subseteq Pods
  BY <1>4 DEF ObjectsTypeOK
<1>6. PodsOfJobs'
  BY <1>1, <1>4 DEF PodsOfJobs, ObjectsTypeOK, Pods
<1> QED
  BY <1>1, <1>2, <1>5, <1>6

(* A Job keeps its owner and its reference when its pod ends.                *)
LEMMA PodEndsFacts ==
    ASSUME ObjectsTypeOK, PodsOfJobs, NEW p \in pods, NEW j, PodEnds(p, j),
           ~p.orphan => /\ j \in Jobs
                        /\ j.owner = job[p.task].owner
                        /\ j.tag = job[p.task].tag
    PROVE  /\ job' \in [Tasks -> Jobs \cup {None}]
           /\ pods' \subseteq Pods
           /\ PodsOfJobs'
           /\ \A n \in Tasks :
                \/ job'[n] = job[n]
                \/ /\ ~p.orphan /\ n = p.task
                   /\ job[n] # None
                   /\ job'[n] = j
                   /\ job'[n].owner = job[n].owner
                   /\ job'[n].tag = job[n].tag
<1>1. p.task \in Tasks /\ pods' \subseteq Pods
  BY DEF ObjectsTypeOK, Pods, PodEnds
<1>2. CASE p.orphan
  BY <1>1, <1>2 DEF ObjectsTypeOK, PodsOfJobs, PodEnds
<1>3. CASE ~p.orphan
  BY <1>1, <1>3, NoneAssumption DEF ObjectsTypeOK, PodsOfJobs, PodEnds, Pods
<1> QED
  BY <1>2, <1>3

-----------------------------------------------------------------------------
(* What most actions have in common.                                       *)

(* The reconcile stays where it is, returns, or goes on to the Job in the    *)
(* cleanup.                                                                  *)
GoesOn ==
    \/ rec' = rec
    \/ rec' = Idle
    \/ rec.pc = "cleanup" /\ rec' = [rec EXCEPT !.pc = "cleanupJob"]

(* A worker that goes on keeps its locals.                                   *)
LEMMA GoesOnFacts ==
    ASSUME WorkerTypeOK, GoesOn
    PROVE  /\ WorkerTypeOK'
           /\ rec'.pc # "idle" =>
                /\ rec.pc # "idle" /\ rec.task \in Tasks
                /\ rec'.task = rec.task /\ rec'.res = rec.res /\ rec'.seen = rec.seen
                /\ rec'.pc = rec.pc \/ (rec.pc = "cleanup" /\ rec'.pc = "cleanupJob")
<1>1. CASE rec' = rec
  BY <1>1, WorkerFacts DEF WorkerTypeOK
<1>2. CASE rec' = Idle
  BY <1>2 DEF WorkerTypeOK, Idle
<1>3. CASE rec.pc = "cleanup" /\ rec' = [rec EXCEPT !.pc = "cleanupJob"]
  <2>1. /\ rec.task \in Tasks /\ rec.res \in RenderTasks /\ rec.seen \in JobViews
        /\ rec = [pc |-> rec.pc, task |-> rec.task, res |-> rec.res, seen |-> rec.seen]
    BY <1>3, WorkerFacts
  <2>2. rec' = [pc |-> "cleanupJob", task |-> rec.task, res |-> rec.res, seen |-> rec.seen]
    BY <1>3, <2>1
  <2> QED
    BY <1>3, <2>1, <2>2 DEF WorkerTypeOK
<1> QED
  BY <1>1, <1>2, <1>3 DEF GoesOn

(* Every reference the invariant looks up in the registry is one.            *)
LEMMA TagFacts ==
    ASSUME ObjectsTypeOK, NEW n \in Tasks
    PROVE  /\ rt[n] # None => TagOf[rt[n].cfg] \in Tags
           /\ job[n] # None => job[n].tag \in Tags
BY ConstantsAssumption DEF ObjectsTypeOK, RenderTasks, Jobs

(* Steps that take Jobs and Secrets away or finish Jobs, and add charts,     *)
(* while RenderTasks and caches stay.                                        *)
LEMMA ObjectsKeep ==
    ASSUME IInv, ObjectsTypeOK', PodsOfJobs', GoesOn,
           UNCHANGED <<rt, nextUid, rtCache, secretCache, jobCache>>,
           \A t \in Tags : registry[t] # None => registry'[t] # None,
           \A n \in Tasks : secret'[n] = secret[n] \/ secret'[n] = None,
           \A n \in Tasks : job'[n] # None =>
              /\ job[n] # None
              /\ job'[n].owner = job[n].owner
              /\ job'[n].tag = job[n].tag
              /\ job'[n].succeeded => job[n].succeeded \/ registry'[job[n].tag] # None
    PROVE  IInv'
<1>1. /\ WorkerTypeOK'
      /\ rec'.pc # "idle" =>
           /\ rec.pc # "idle" /\ rec.task \in Tasks
           /\ rec'.task = rec.task /\ rec'.res = rec.res /\ rec'.seen = rec.seen
           /\ rec'.pc = rec.pc \/ (rec.pc = "cleanup" /\ rec'.pc = "cleanupJob")
  BY GoesOnFacts DEF IInv, TypeOK
<1>2. CachesTypeOK'
  BY DEF IInv, TypeOK, CachesTypeOK
<1>3. UidsGiven'
  BY <1>1 DEF IInv, UidsGiven
<1>4. CopiesAgree'
  BY <1>1 DEF IInv, CopiesAgree
<1>5. JobsRenderOwner'
  BY DEF IInv, JobsRenderOwner, Owned
<1>6. \A n \in Tasks : rt[n] # None /\ Pushed(n) => Pushed(n)'
  BY TagFacts DEF IInv, TypeOK, Pushed
<1>7. SuccessesPushed'
  <2>1. ASSUME NEW n \in Tasks
        PROVE  job'[n] # None /\ job'[n].succeeded => registry'[job'[n].tag] # None
    BY TagFacts DEF IInv, TypeOK, SuccessesPushed
  <2>2. ASSUME NEW n \in Tasks, rt'[n] # None, jobCache'[n] # None,
               jobCache'[n].succeeded, jobCache'[n].owner = rt'[n].uid
        PROVE  Pushed(n)'
    BY <1>6, <2>2 DEF IInv, SuccessesPushed
  <2>3. ASSUME rec'.pc # "idle", rt'[rec'.task] # None, rec'.seen.succeeded,
               rec'.seen.owner = rt'[rec'.task].uid
        PROVE  Pushed(rec.task)' /\ rec'.task = rec.task
    BY <1>1, <1>6, <2>3 DEF IInv, SuccessesPushed
  <2> QED
    BY <2>1, <2>2, <2>3 DEF SuccessesPushed, Pushed
<1>8. NotYetSucceeded'
  BY <1>1 DEF IInv, NotYetSucceeded
<1>9. OwnSuccessIsPushed'
  BY TagFacts DEF IInv, TypeOK, OwnSuccessIsPushed, Succeeded
<1>10. CleanupSparesUnfinished'
  BY <1>1 DEF IInv, CleanupSparesUnfinished, Owned
<1> QED
  BY <1>1, <1>2, <1>3, <1>4, <1>5, <1>7, <1>8, <1>9, <1>10 DEF IInv, TypeOK

(* Steps that bring caches up to date and change nothing else.               *)
LEMMA CachesKeep ==
    ASSUME IInv, CachesTypeOK', GoesOn, faults' \in Nat,
           UNCHANGED <<rt, secret, job, pods, registry, expired, nextUid>>,
           \A n \in Tasks : rtCache'[n] = rtCache[n] \/ rtCache'[n] = rt[n],
           \A n \in Tasks : jobCache'[n] # None /\ jobCache'[n] # jobCache[n] =>
              /\ job[n] # None
              /\ jobCache'[n].owner = job[n].owner
              /\ jobCache'[n].succeeded = job[n].succeeded
    PROVE  IInv'
<1>1. /\ WorkerTypeOK'
      /\ rec'.pc # "idle" =>
           /\ rec.pc # "idle" /\ rec.task \in Tasks
           /\ rec'.task = rec.task /\ rec'.res = rec.res /\ rec'.seen = rec.seen
           /\ rec'.pc = rec.pc \/ (rec.pc = "cleanup" /\ rec'.pc = "cleanupJob")
  BY GoesOnFacts DEF IInv, TypeOK
<1>2. ObjectsTypeOK'
  BY DEF IInv, TypeOK, ObjectsTypeOK
<1>3. UidsGiven'
  BY <1>1 DEF IInv, UidsGiven
<1>4. CopiesAgree'
  BY <1>1 DEF IInv, CopiesAgree
<1>5. PodsOfJobs' /\ JobsRenderOwner' /\ OwnSuccessIsPushed'
  BY DEF IInv, PodsOfJobs, JobsRenderOwner, OwnSuccessIsPushed, Owned, Succeeded
<1>6. SuccessesPushed'
  <2>1. ASSUME NEW n \in Tasks, rt'[n] # None, jobCache'[n] # None,
               jobCache'[n].succeeded, jobCache'[n].owner = rt'[n].uid
        PROVE  Pushed(n)'
    <3>1. CASE jobCache'[n] = jobCache[n]
      BY <2>1, <3>1 DEF IInv, SuccessesPushed, Pushed
    <3>2. CASE jobCache'[n] # jobCache[n]
      BY <2>1, <3>2 DEF IInv, SuccessesPushed, Pushed, JobsRenderOwner, Owned
    <3> QED
      BY <3>1, <3>2
  <2>2. ASSUME rec'.pc # "idle", rt'[rec'.task] # None, rec'.seen.succeeded,
               rec'.seen.owner = rt'[rec'.task].uid
        PROVE  Pushed(rec.task)' /\ rec'.task = rec.task
    BY <1>1, <2>2 DEF IInv, SuccessesPushed, Pushed
  <2>3. \A n \in Tasks : job'[n] # None /\ job'[n].succeeded => registry'[job'[n].tag] # None
    BY DEF IInv, SuccessesPushed
  <2> QED
    BY <2>1, <2>2, <2>3 DEF SuccessesPushed, Pushed
<1>7. NotYetSucceeded'
  BY <1>1 DEF IInv, NotYetSucceeded
<1>8. CleanupSparesUnfinished'
  BY <1>1 DEF IInv, CleanupSparesUnfinished, Owned
<1> QED
  BY <1>1, <1>2, <1>3, <1>4, <1>5, <1>6, <1>7, <1>8 DEF IInv, TypeOK

-----------------------------------------------------------------------------
(* Every action preserves the inductive invariant.                         *)

(* A new RenderTask has a fresh uid: no copy, Job or success is its own yet. *)
LEMMA CreateTaskStep ==
    ASSUME IInv, NEW n \in Tasks, NEW c \in Configs, CreateTask(n, c)
    PROVE  IInv'
<1>1. ObjectsTypeOK'
  BY DEF IInv, TypeOK, ObjectsTypeOK, Uid, RenderTasks, Secrets, Jobs,
         CreateTask
<1>2. UidsGiven'
  BY DEF IInv, TypeOK, ObjectsTypeOK, CachesTypeOK, WorkerTypeOK, UidsGiven, Idle,
     EmptyJob, Uid, RenderTasks, Secrets, Jobs, JobViews, CreateTask, caches
<1>3. CopiesAgree'
  BY DEF IInv, TypeOK, CopiesAgree, UidsGiven, ObjectsTypeOK, Uid,
         RenderTasks, Idle, CreateTask, caches
<1>4. JobsRenderOwner'
  BY DEF IInv, TypeOK, JobsRenderOwner, ObjectsTypeOK, UidsGiven,
         CopiesAgree, Owned, Uid, RenderTasks, Jobs, CreateTask
<1>5. SuccessesPushed'
  BY DEF IInv, TypeOK, SuccessesPushed, ObjectsTypeOK, UidsGiven, Uid,
         RenderTasks, JobViews, Pushed, Idle, CreateTask, caches
<1>6. OwnSuccessIsPushed'
  BY DEF IInv, TypeOK, OwnSuccessIsPushed, ObjectsTypeOK, Succeeded,
         CreateTask
<1>7. CleanupSparesUnfinished'
  BY DEF IInv, TypeOK, CleanupSparesUnfinished, ObjectsTypeOK, UidsGiven,
         Owned, Uid, RenderTasks, Jobs, Secrets, Idle, CreateTask
<1>8. CachesTypeOK' /\ WorkerTypeOK' /\ PodsOfJobs' /\ NotYetSucceeded'
  BY DEF IInv, TypeOK, CachesTypeOK, WorkerTypeOK, PodsOfJobs,
         NotYetSucceeded, CreateTask, caches
<1> QED
  BY <1>1, <1>2, <1>3, <1>4, <1>5, <1>6, <1>7, <1>8
     DEF IInv, TypeOK

(* A deleted RenderTask has nothing left to protect. *)
LEMMA DeleteTaskStep ==
    ASSUME IInv, NEW n \in Tasks, DeleteTask(n)
    PROVE  IInv'
<1>1. ObjectsTypeOK'
  BY DEF IInv, TypeOK, ObjectsTypeOK, Uid, RenderTasks, Secrets, Jobs,
         DeleteTask
<1>2. UidsGiven'
  BY DEF IInv, TypeOK, UidsGiven, ObjectsTypeOK, Uid, RenderTasks, Jobs,
         Idle, DeleteTask, caches
<1>3. CopiesAgree'
  BY DEF IInv, TypeOK, CopiesAgree, UidsGiven, ObjectsTypeOK, Uid,
         RenderTasks, Idle, DeleteTask, caches
<1>4. JobsRenderOwner'
  BY Zenon DEF IInv, TypeOK, JobsRenderOwner, ObjectsTypeOK, UidsGiven,
         CopiesAgree, Owned, Uid, RenderTasks, Jobs, DeleteTask
<1>5. SuccessesPushed'
  BY DEF IInv, TypeOK, SuccessesPushed, ObjectsTypeOK, UidsGiven, Uid,
         RenderTasks, JobViews, Pushed, Idle, DeleteTask, caches
<1>6. OwnSuccessIsPushed'
  BY DEF IInv, TypeOK, OwnSuccessIsPushed, ObjectsTypeOK, Succeeded,
         DeleteTask
<1>7. CleanupSparesUnfinished'
  BY DEF IInv, TypeOK, CleanupSparesUnfinished, ObjectsTypeOK, UidsGiven,
         Owned, Uid, RenderTasks, Jobs, Secrets, Idle, DeleteTask
<1>8. CachesTypeOK' /\ WorkerTypeOK' /\ PodsOfJobs' /\ NotYetSucceeded'
  BY DEF IInv, TypeOK, CachesTypeOK, WorkerTypeOK, PodsOfJobs,
         NotYetSucceeded, DeleteTask, caches
<1> QED
  BY <1>1, <1>2, <1>3, <1>4, <1>5, <1>6, <1>7, <1>8
     DEF IInv, TypeOK

(* A reconcile starts from a cached RenderTask that is not JobSucceeded. *)
LEMMA FetchStep ==
    ASSUME IInv, NEW n \in Tasks, Fetch(n)
    PROVE  IInv'
<1>1. WorkerTypeOK'
  BY DEF IInv, TypeOK, CachesTypeOK, WorkerTypeOK, EmptyJob, JobViews, Fetch
<1>2. UidsGiven'
  BY DEF IInv, TypeOK, UidsGiven, ObjectsTypeOK, Uid, RenderTasks, Jobs,
         Idle, Fetch, EmptyJob, caches, objects
<1>3. CopiesAgree'
  BY Zenon DEF IInv, TypeOK, CopiesAgree, UidsGiven, ObjectsTypeOK, Uid,
         RenderTasks, Idle, Fetch, EmptyJob, caches, objects
<1>4. SuccessesPushed'
  BY DEF IInv, TypeOK, SuccessesPushed, ObjectsTypeOK, UidsGiven, Uid,
         RenderTasks, JobViews, Pushed, Idle, Fetch, EmptyJob, caches,
         objects
<1>5. NotYetSucceeded'
  BY Zenon DEF IInv, TypeOK, NotYetSucceeded, Idle, Fetch, EmptyJob, objects
<1>6. CleanupSparesUnfinished'
  BY Zenon DEF IInv, TypeOK, CleanupSparesUnfinished, ObjectsTypeOK, UidsGiven,
         Owned, Uid, RenderTasks, Jobs, Secrets, Idle, Fetch, EmptyJob,
         objects
<1>7. ObjectsTypeOK' /\ CachesTypeOK' /\ PodsOfJobs' /\ JobsRenderOwner' /\
      OwnSuccessIsPushed'
  BY DEF IInv, TypeOK, ObjectsTypeOK, CachesTypeOK, PodsOfJobs,
         JobsRenderOwner, OwnSuccessIsPushed, Owned, Succeeded, Fetch,
         caches, objects
<1> QED
  BY <1>1, <1>2, <1>3, <1>4, <1>5, <1>6, <1>7
     DEF IInv, TypeOK

(* The Secret is created for the RenderTask that was read. *)
LEMMA EnsureConfigSecretStep ==
    ASSUME IInv, EnsureConfigSecret
    PROVE  IInv'
<1>1. /\ rec.task \in Tasks /\ rec.res \in RenderTasks /\ rec.seen \in JobViews
      /\ rec = [pc |-> rec.pc, task |-> rec.task, res |-> rec.res,
                seen |-> rec.seen]
  BY WorkerFacts DEF IInv, TypeOK, EnsureConfigSecret
<1>2. ObjectsTypeOK'
  BY <1>1
     DEF IInv, TypeOK, ObjectsTypeOK, Uid, RenderTasks, Secrets, Jobs,
         EnsureConfigSecret, Return, Current
<1>3. WorkerTypeOK'
  BY <1>1
     DEF IInv, TypeOK, WorkerTypeOK, Idle, RenderTasks, JobViews, Uid,
         EnsureConfigSecret, Return, Current
<1>4. UidsGiven'
  BY <1>1
     DEF IInv, TypeOK, UidsGiven, ObjectsTypeOK, Uid, RenderTasks, Jobs,
         Idle, EnsureConfigSecret, Return, Current, caches
<1>5. CopiesAgree'
  BY <1>1
     DEF IInv, TypeOK, CopiesAgree, UidsGiven, ObjectsTypeOK, Uid,
         RenderTasks, Idle, EnsureConfigSecret, Return, Current, caches
<1>6. SuccessesPushed'
  BY <1>1
     DEF IInv, TypeOK, SuccessesPushed, ObjectsTypeOK, UidsGiven, Uid,
         RenderTasks, JobViews, Pushed, Idle, EnsureConfigSecret, Return,
         Current, caches
<1>7. NotYetSucceeded'
  BY <1>1
     DEF IInv, TypeOK, NotYetSucceeded, Idle, EnsureConfigSecret, Return,
         Current
<1>8. CleanupSparesUnfinished'
  BY <1>1
     DEF IInv, TypeOK, CleanupSparesUnfinished, ObjectsTypeOK, UidsGiven,
         Owned, Uid, RenderTasks, Jobs, Secrets, Idle, EnsureConfigSecret,
         Return, Current
<1>9. CachesTypeOK' /\ PodsOfJobs' /\ JobsRenderOwner' /\
      OwnSuccessIsPushed'
  BY DEF IInv, TypeOK, CachesTypeOK, PodsOfJobs, JobsRenderOwner,
         OwnSuccessIsPushed, Owned, Succeeded, EnsureConfigSecret, Return,
         caches
<1> QED
  BY <1>2, <1>3, <1>4, <1>5, <1>6, <1>7, <1>8, <1>9
     DEF IInv, TypeOK

(* The Job is created for the RenderTask that was read, or its view taken.   *)
LEMMA EnsureRenderJobStep ==
    ASSUME IInv, EnsureRenderJob
    PROVE  IInv'
<1>1. /\ rec.task \in Tasks /\ rec.res \in RenderTasks /\ rec.seen \in JobViews
      /\ rec = [pc |-> rec.pc, task |-> rec.task, res |-> rec.res,
                seen |-> rec.seen]
  BY WorkerFacts DEF IInv, TypeOK, EnsureRenderJob
<1>2. /\ rec.pc = "job"
      /\ UNCHANGED <<rt, secret, pods, registry, expired, nextUid, faults,
                     rtCache, secretCache, jobCache>>
  BY DEF EnsureRenderJob, caches
<1>3. \/ job' = job
      \/ /\ job[rec.task] = None
         /\ job' = [job EXCEPT ![rec.task] =
                      [owner |-> rec.res.uid, tag |-> TagOf[rec.res.cfg],
                       failed |-> 0, succeeded |-> FALSE]]
  BY DEF EnsureRenderJob
<1>4. \/ rec' = Idle
      \/ \E v \in JobViews :
            /\ v = rec.seen \/ (jobCache[rec.task] # None /\ v = jobCache[rec.task])
            /\ rec' = [pc |-> "status", task |-> rec.task, res |-> rec.res,
                       seen |-> v]
  BY Zenon, <1>1 DEF IInv, TypeOK, CachesTypeOK, EnsureRenderJob, Return
<1>5. ObjectsTypeOK'
  <2>1. TagOf[rec.res.cfg] \in Tags
    BY <1>1, ConstantsAssumption DEF RenderTasks
  <2>2. [owner |-> rec.res.uid, tag |-> TagOf[rec.res.cfg], failed |-> 0,
         succeeded |-> FALSE] \in Jobs
    BY <1>1, <2>1 DEF RenderTasks, Jobs
  <2> QED
    BY Zenon, <1>1, <1>2, <1>3, <2>2 DEF IInv, TypeOK, ObjectsTypeOK
<1>6. WorkerTypeOK'
  BY <1>1, <1>4
     DEF IInv, TypeOK, WorkerTypeOK, Idle, RenderTasks, JobViews, Uid
<1>7. PodsOfJobs'
  BY <1>1, <1>2, <1>3 DEF IInv, TypeOK, ObjectsTypeOK, PodsOfJobs, Pods
<1>8. UidsGiven'
  BY <1>1, <1>2, <1>3, <1>4
     DEF IInv, TypeOK, UidsGiven, ObjectsTypeOK, Uid, RenderTasks, Jobs,
         Idle
<1>9. CopiesAgree'
  BY <1>1, <1>2, <1>3, <1>4
     DEF IInv, TypeOK, CopiesAgree, UidsGiven, ObjectsTypeOK, Uid,
         RenderTasks, Idle
<1>10. JobsRenderOwner'
  BY <1>1, <1>2, <1>3, <1>4
     DEF IInv, TypeOK, JobsRenderOwner, ObjectsTypeOK, UidsGiven,
         CopiesAgree, Owned, Uid, RenderTasks, Jobs
<1>11. SuccessesPushed'
  BY <1>1, <1>2, <1>3, <1>4
     DEF IInv, TypeOK, SuccessesPushed, ObjectsTypeOK, UidsGiven, Uid,
         RenderTasks, JobViews, Pushed, Idle
<1>12. NotYetSucceeded'
  BY <1>1, <1>2, <1>3, <1>4
     DEF IInv, TypeOK, NotYetSucceeded, Idle
<1>13. CleanupSparesUnfinished'
  BY <1>1, <1>2, <1>3, <1>4
     DEF IInv, TypeOK, CleanupSparesUnfinished, ObjectsTypeOK, UidsGiven,
         Owned, Uid, RenderTasks, Jobs, Secrets, Idle
<1>14. CachesTypeOK' /\ OwnSuccessIsPushed'
  BY <1>2
     DEF IInv, TypeOK, CachesTypeOK, OwnSuccessIsPushed, Succeeded,
         EnsureRenderJob, Return, caches
<1> QED
  BY <1>5, <1>6, <1>7, <1>8, <1>9, <1>10, <1>11, <1>12, <1>13, <1>14
     DEF IInv, TypeOK

(* A success is recorded only on the RenderTask that was read, before        *)
(* cleanup.                                                                  *)
LEMMA UpdateStatusStep ==
    ASSUME IInv, UpdateStatus
    PROVE  IInv'
<1> DEFINE new == UpdateResourceStatusFromJob(rec.res, rec.seen)
<1>1. /\ rec.task \in Tasks /\ rec.res \in RenderTasks /\ rec.seen \in JobViews
      /\ rec = [pc |-> rec.pc, task |-> rec.task, res |-> rec.res,
                seen |-> rec.seen]
  BY WorkerFacts DEF IInv, TypeOK, UpdateStatus
<1>2. /\ rec.pc = "status"
      /\ UNCHANGED <<secret, job, pods, registry, expired, nextUid, faults,
                     rtCache, secretCache, jobCache>>
  BY DEF UpdateStatus, caches
<1>3. /\ new \in RenderTasks
      /\ new.uid = rec.res.uid
      /\ new.cfg = rec.res.cfg
      /\ IF rec.seen.succeeded
         THEN new.succeeded /\ new.by = rec.seen.owner
         ELSE new.succeeded = rec.res.succeeded /\ new.by = rec.res.by
  BY Zenon, <1>1 DEF UpdateResourceStatusFromJob, RenderTasks, JobViews
<1>4. \/ rt' = rt /\ rec' = Idle
      \/ /\ \/ rt' = rt /\ new = rec.res
            \/ rt' = [rt EXCEPT ![rec.task] = new] /\ rt[rec.task] = rec.res
         /\ \/ rec' = Idle
            \/ \E pc \in {"cleanup", "cleanupSecrets"} :
                 /\ pc = "cleanup" => rec.seen.succeeded
                 /\ rec' = [pc |-> pc, task |-> rec.task, res |-> new,
                             seen |-> rec.seen]
  BY DEF UpdateStatus, Return, Current
<1> HIDE DEF new
<1>5. \A n \in Tasks : rt'[n] # None =>
         /\ rt[n] # None
         /\ rt'[n].uid = rt[n].uid
         /\ rt'[n].cfg = rt[n].cfg
         /\ \/ rt'[n] = rt[n]
            \/ n = rec.task /\ rt[n] = rec.res /\ rt'[n] = new
  BY <1>1, <1>3, <1>4, NoneAssumption DEF IInv, TypeOK, ObjectsTypeOK
<1>6. ObjectsTypeOK'
  BY <1>1, <1>2, <1>3, <1>4, <1>5
     DEF IInv, TypeOK, ObjectsTypeOK, Uid, RenderTasks, Secrets, Jobs
<1>7. WorkerTypeOK'
  BY <1>1, <1>2, <1>3, <1>4, <1>5
     DEF IInv, TypeOK, WorkerTypeOK, Idle, RenderTasks, JobViews, Uid
<1>8. UidsGiven'
  BY <1>1, <1>2, <1>3, <1>4, <1>5
     DEF IInv, TypeOK, UidsGiven, ObjectsTypeOK, Uid, RenderTasks, Jobs,
         Idle
<1>9. CopiesAgree'
  BY <1>1, <1>2, <1>3, <1>4, <1>5 DEF IInv, CopiesAgree, Idle
<1>10. JobsRenderOwner'
  BY <1>2, <1>5 DEF IInv, JobsRenderOwner, Owned
<1>11. SuccessesPushed'
  BY <1>1, <1>2, <1>4, <1>5 DEF IInv, SuccessesPushed, Pushed, Idle
<1>12. NotYetSucceeded'
  BY <1>1, <1>2, <1>3, <1>4, <1>5
     DEF IInv, TypeOK, NotYetSucceeded, Idle
<1>13. OwnSuccessIsPushed'
  BY <1>1, <1>2, <1>3, <1>5
     DEF IInv, OwnSuccessIsPushed, Succeeded, SuccessesPushed, NotYetSucceeded,
         Pushed
<1>14. CleanupSparesUnfinished'
  BY <1>1, <1>2, <1>3, <1>4
     DEF IInv, TypeOK, CleanupSparesUnfinished, ObjectsTypeOK, UidsGiven,
         Owned, Uid, RenderTasks, Jobs, Secrets, Idle, NotYetSucceeded
<1>15. CachesTypeOK' /\ PodsOfJobs'
  BY DEF IInv, TypeOK, CachesTypeOK, PodsOfJobs, UpdateStatus, Return,
         caches
<1> QED
  BY <1>6, <1>7, <1>8, <1>9, <1>10, <1>11, <1>12, <1>13, <1>14, <1>15
     DEF IInv, TypeOK

(* Deleting the Secret takes nothing the invariant needs. *)
LEMMA CleanupSecretsStep ==
    ASSUME IInv, CleanupSecrets
    PROVE  IInv'
<1>1. rec.task \in Tasks
  BY WorkerFacts DEF IInv, TypeOK, CleanupSecrets
<1>2. GoesOn /\ UNCHANGED <<rt, job, pods, registry, expired, nextUid, rtCache,
                            secretCache, jobCache, faults>>
  BY DEF CleanupSecrets, GoesOn, Return, caches
<1>3. /\ secret' \in [Tasks -> Secrets \cup {None}]
      /\ \A n \in Tasks : secret'[n] = secret[n] \/ secret'[n] = None
  BY <1>1 DEF CleanupSecrets, IInv, TypeOK, ObjectsTypeOK
<1>4. ObjectsTypeOK' /\ PodsOfJobs'
  BY <1>2, <1>3 DEF IInv, TypeOK, ObjectsTypeOK, PodsOfJobs
<1> QED
  BY <1>2, <1>3, <1>4, ObjectsKeep

(* Removing a Job, whoever does it, ends or orphans its pod and takes        *)
(* nothing the invariant needs.                                              *)
LEMMA RemoveJobStep ==
    ASSUME IInv, NEW n \in Tasks, RemoveJob(n), GoesOn, faults' \in Nat,
           UNCHANGED <<rt, secret, registry, expired, nextUid, rtCache,
                       secretCache, jobCache>>
    PROVE  IInv'
<1>1. /\ job' = [job EXCEPT ![n] = None]
      /\ job' \in [Tasks -> Jobs \cup {None}]
      /\ pods' \subseteq Pods
      /\ PodsOfJobs'
  BY RemoveJobFacts DEF IInv, TypeOK
<1>2. ObjectsTypeOK'
  BY <1>1 DEF IInv, TypeOK, ObjectsTypeOK
<1>3. \A m \in Tasks : job'[m] # None => job'[m] = job[m]
  BY <1>1 DEF IInv, TypeOK, ObjectsTypeOK
<1> QED
  BY <1>1, <1>2, <1>3, ObjectsKeep

(* The controller deletes the Job after a success. *)
LEMMA DeleteRenderJobStep ==
    ASSUME IInv, DeleteRenderJob
    PROVE  IInv'
<1>1. rec.task \in Tasks
  BY WorkerFacts DEF IInv, TypeOK, DeleteRenderJob
<1>2. /\ GoesOn /\ faults' \in Nat
      /\ UNCHANGED <<rt, secret, registry, expired, nextUid, rtCache,
                     secretCache, jobCache>>
  BY DEF DeleteRenderJob, GoesOn, Return, caches, IInv, TypeOK, ObjectsTypeOK
<1>3. CASE RemoveJob(rec.task)
  BY <1>1, <1>2, <1>3, RemoveJobStep
<1>4. CASE UNCHANGED <<job, pods>>
  <2>1. ObjectsTypeOK' /\ PodsOfJobs'
    BY <1>2, <1>4 DEF IInv, TypeOK, ObjectsTypeOK, PodsOfJobs
  <2> QED
    BY <1>2, <1>4, <2>1, ObjectsKeep
<1> QED
  BY <1>3, <1>4 DEF DeleteRenderJob

(* A failed call ends the reconcile, or skips to the Job in the cleanup. *)
LEMMA CallFailsStep ==
    ASSUME IInv, CallFails
    PROVE  IInv'
<1>1. /\ GoesOn /\ faults' \in Nat
      /\ UNCHANGED <<rt, secret, job, pods, registry, expired, nextUid, rtCache,
                     secretCache, jobCache>>
  BY DEF CallFails, GoesOn, Return, objects, caches, IInv, TypeOK, ObjectsTypeOK
<1>2. CachesTypeOK'
  BY <1>1 DEF IInv, TypeOK, CachesTypeOK
<1> QED
  BY <1>1, <1>2, CachesKeep

(* A restart forgets the reconcile and reads everything anew. *)
LEMMA CrashStep ==
    ASSUME IInv, Crash
    PROVE  IInv'
<1>1. /\ jobCache' \in [Tasks -> JobViews \cup {None}]
      /\ \A n \in Tasks : jobCache'[n] # None =>
            /\ job[n] # None
            /\ jobCache'[n].owner = job[n].owner
            /\ jobCache'[n].succeeded = job[n].succeeded
  BY ViewType DEF IInv, TypeOK, ObjectsTypeOK, Crash
<1>2. /\ UNCHANGED <<rt, secret, job, pods, registry, expired, nextUid>>
      /\ rec' = Idle /\ rtCache' = rt /\ faults' \in Nat
      /\ secretCache' \in [Tasks -> BOOLEAN]
  BY DEF IInv, TypeOK, ObjectsTypeOK, Crash, objects, Return
<1>3. CachesTypeOK'
  BY <1>1, <1>2 DEF IInv, TypeOK, ObjectsTypeOK, CachesTypeOK
<1>4. GoesOn
  BY <1>2 DEF GoesOn
<1> QED
  BY <1>1, <1>2, <1>3, <1>4, CachesKeep

(* The TTL is only a clock. *)
LEMMA TTLExpiresStep ==
    ASSUME IInv, NEW n \in Tasks, TTLExpires(n)
    PROVE  IInv'
<1>1. GoesOn /\ UNCHANGED <<rt, secret, job, pods, registry, nextUid, rtCache,
                            secretCache, jobCache, faults>>
  BY DEF TTLExpires, GoesOn, caches
<1>2. expired' \subseteq Uid
  BY DEF TTLExpires, IInv, TypeOK, ObjectsTypeOK, RenderTasks
<1>3. ObjectsTypeOK' /\ PodsOfJobs'
  BY Zenon, <1>1, <1>2 DEF IInv, TypeOK, ObjectsTypeOK, PodsOfJobs
<1> QED
  BY <1>1, <1>3, ObjectsKeep

(* The RenderTask informer catches up. *)
LEMMA SyncTaskStep ==
    ASSUME IInv, NEW n \in Tasks, SyncTask(n)
    PROVE  IInv'
<1>1. GoesOn /\ UNCHANGED <<rt, secret, job, pods, registry, expired, nextUid,
                            secretCache, jobCache, faults>>
  BY DEF SyncTask, GoesOn, objects
<1>2. /\ rtCache' \in [Tasks -> RenderTasks \cup {None}]
      /\ \A m \in Tasks : rtCache'[m] = rtCache[m] \/ rtCache'[m] = rt[m]
  BY DEF SyncTask, IInv, TypeOK, ObjectsTypeOK, CachesTypeOK
<1>3. CachesTypeOK' /\ faults' \in Nat
  BY Zenon, <1>1, <1>2 DEF IInv, TypeOK, ObjectsTypeOK, CachesTypeOK
<1> QED
  BY <1>1, <1>2, <1>3, CachesKeep

(* The Secret informer catches up. *)
LEMMA SyncSecretStep ==
    ASSUME IInv, NEW n \in Tasks, SyncSecret(n)
    PROVE  IInv'
<1>1. GoesOn /\ UNCHANGED <<rt, secret, job, pods, registry, expired, nextUid,
                            rtCache, jobCache, faults>>
  BY Zenon DEF SyncSecret, GoesOn, objects
<1> DEFINE there == (secret[n] # None)
<1>2. there \in BOOLEAN /\ secretCache' = [secretCache EXCEPT ![n] = there]
  BY DEF SyncSecret
<1> HIDE DEF there
<1>3. CachesTypeOK' /\ faults' \in Nat
  BY Zenon, <1>1, <1>2 DEF IInv, TypeOK, ObjectsTypeOK, CachesTypeOK
<1> QED
  BY <1>1, <1>3, CachesKeep

(* The Job informer shows a success only of a Job that pushed. *)
LEMMA SyncJobStep ==
    ASSUME IInv, NEW n \in Tasks, SyncJob(n)
    PROVE  IInv'
<1>1. PICK v \in JobViews \cup {None} :
        /\ jobCache' = [jobCache EXCEPT ![n] = v]
        /\ v # None => /\ job[n] # None
                       /\ v.owner = job[n].owner
                       /\ v.succeeded = job[n].succeeded
  BY Zenon, ViewType DEF IInv, TypeOK, ObjectsTypeOK, SyncJob
<1>2. GoesOn /\ UNCHANGED <<rt, secret, job, pods, registry, expired, nextUid,
                            rtCache, secretCache, faults>>
  BY DEF SyncJob, GoesOn, objects
<1>3. CachesTypeOK' /\ faults' \in Nat
  BY <1>1, <1>2 DEF IInv, TypeOK, ObjectsTypeOK, CachesTypeOK
<1>4. \A m \in Tasks : jobCache'[m] = jobCache[m] \/ (m = n /\ jobCache'[m] = v)
  BY <1>1 DEF IInv, TypeOK, CachesTypeOK
<1> QED
  BY <1>1, <1>2, <1>3, <1>4, CachesKeep

(* A pod takes its reference from its Job. *)
LEMMA StartPodStep ==
    ASSUME IInv, NEW n \in Tasks, StartPod(n)
    PROVE  IInv'
<1> DEFINE pod == [task |-> n, tag |-> job[n].tag, cfg |-> secret[n].cfg,
                   stage |-> "check", orphan |-> FALSE]
<1>1. GoesOn /\ UNCHANGED <<rt, secret, job, registry, expired, nextUid, rtCache,
                            secretCache, jobCache, faults>>
  BY DEF StartPod, GoesOn, caches
<1>2. pods' = pods \cup {pod} /\ job[n] \in Jobs /\ secret[n] \in Secrets
  BY Zenon DEF StartPod, IInv, TypeOK, ObjectsTypeOK
<1>3. pod \in Pods /\ pod.task = n /\ pod.tag = job[n].tag
  BY <1>2 DEF Jobs, Secrets, Pods
<1> HIDE DEF pod
<1>4. ObjectsTypeOK'
  BY <1>1, <1>2, <1>3 DEF IInv, TypeOK, ObjectsTypeOK
<1>5. PodsOfJobs'
  <2> SUFFICES ASSUME NEW p \in pods', ~p.orphan
               PROVE  job[p.task] # None /\ p.tag = job[p.task].tag
    BY <1>1 DEF PodsOfJobs
  <2>1. CASE p \in pods
    BY <2>1 DEF IInv, PodsOfJobs
  <2>2. CASE p = pod
    BY Zenon, <1>2, <1>3, <2>2, NoneAssumption
  <2> QED
    BY <1>2, <2>1, <2>2
<1> QED
  BY <1>1, <1>4, <1>5, ObjectsKeep

(* A pod that ends leaves its Job with its owner and its reference; the Job  *)
(* has succeeded only if a chart is where it says.                           *)
LEMMA PodEndsStep ==
    ASSUME IInv, NEW p \in pods, NEW j, PodEnds(p, j),
           ~p.orphan => /\ j \in Jobs
                        /\ j.owner = job[p.task].owner
                        /\ j.tag = job[p.task].tag
                        /\ j.succeeded => job[p.task].succeeded \/ registry'[p.tag] # None,
           registry' \in [Tags -> Configs \cup {None}],
           \A t \in Tags : registry[t] # None => registry'[t] # None,
           UNCHANGED <<rt, secret, expired, nextUid, rtCache, secretCache, jobCache,
                       rec, faults>>
    PROVE  IInv'
<1>1. /\ job' \in [Tasks -> Jobs \cup {None}]
      /\ pods' \subseteq Pods
      /\ PodsOfJobs'
      /\ \A n \in Tasks :
           \/ job'[n] = job[n]
           \/ /\ ~p.orphan /\ n = p.task
              /\ job[n] # None
              /\ job'[n] = j
              /\ job'[n].owner = job[n].owner
              /\ job'[n].tag = job[n].tag
  BY Zenon, PodEndsFacts DEF IInv, TypeOK
<1>2. ~p.orphan => p.tag = job[p.task].tag
  BY DEF IInv, PodsOfJobs
<1>3. ObjectsTypeOK'
  BY <1>1 DEF IInv, TypeOK, ObjectsTypeOK
<1>4. GoesOn
  BY DEF GoesOn
<1> QED
  BY Zenon, <1>1, <1>2, <1>3, <1>4, ObjectsKeep

(* A pod that counts as its Job's has one.                                   *)
LEMMA JobOfPod ==
    ASSUME IInv, NEW p \in pods, ~p.orphan
    PROVE  job[p.task] \in Jobs
BY Zenon DEF IInv, TypeOK, ObjectsTypeOK, PodsOfJobs, Pods

(* A failed pod is counted. *)
LEMMA PodFailsStep ==
    ASSUME IInv, NEW p \in pods, PodFails(p)
    PROVE  IInv'
<1> DEFINE j == [job[p.task] EXCEPT !.failed = @ + 1]
<1>1. PodEnds(p, j) /\ UNCHANGED <<rt, secret, registry, expired, nextUid, rtCache,
                                   secretCache, jobCache, rec, faults>>
  BY DEF PodFails, caches
<1>2. ~p.orphan => /\ j \in Jobs
                   /\ j.owner = job[p.task].owner
                   /\ j.tag = job[p.task].tag
                   /\ j.succeeded = job[p.task].succeeded
  BY JobOfPod DEF Jobs
<1>3. registry \in [Tags -> Configs \cup {None}]
  BY DEF IInv, TypeOK, ObjectsTypeOK
<1> HIDE DEF j
<1> QED
  BY <1>1, <1>2, <1>3, PodEndsStep

(* The TTL controller removes a finished Job. *)
LEMMA JobTTLStep ==
    ASSUME IInv, NEW n \in Tasks, JobTTL(n)
    PROVE  IInv'
BY RemoveJobStep DEF JobTTL, GoesOn, caches, IInv, TypeOK, ObjectsTypeOK

(* The garbage collector removes a Job without owner. *)
LEMMA GCJobStep ==
    ASSUME IInv, NEW n \in Tasks, GCJob(n)
    PROVE  IInv'
BY RemoveJobStep DEF GCJob, GoesOn, caches, IInv, TypeOK, ObjectsTypeOK

(* The garbage collector removes a Secret without owner. *)
LEMMA GCSecretStep ==
    ASSUME IInv, NEW n \in Tasks, GCSecret(n)
    PROVE  IInv'
<1>1. GoesOn /\ UNCHANGED <<rt, job, pods, registry, expired, nextUid, rtCache,
                            secretCache, jobCache, faults>>
  BY DEF GCSecret, GoesOn, caches
<1>2. /\ secret' \in [Tasks -> Secrets \cup {None}]
      /\ \A m \in Tasks : secret'[m] = secret[m] \/ secret'[m] = None
  BY DEF GCSecret, IInv, TypeOK, ObjectsTypeOK
<1>3. ObjectsTypeOK' /\ PodsOfJobs'
  BY <1>1, <1>2 DEF IInv, TypeOK, ObjectsTypeOK, PodsOfJobs
<1> QED
  BY <1>1, <1>2, <1>3, ObjectsKeep

(* The Job of a pod that succeeded.                                          *)
LEMMA SucceededJob ==
    ASSUME NEW j \in Jobs
    PROVE  LET s == [j EXCEPT !.succeeded = TRUE] IN
           s \in Jobs /\ s.owner = j.owner /\ s.tag = j.tag
BY ZenonT(40) DEF Jobs

(* A skipped render succeeds where a chart is. *)
LEMMA RendererSkipsStep ==
    ASSUME IInv, NEW p \in pods, RendererSkips(p)
    PROVE  IInv'
<1> DEFINE j == [job[p.task] EXCEPT !.succeeded = TRUE]
<1>1. /\ PodEnds(p, j) /\ registry[p.tag] # None
      /\ UNCHANGED <<rt, secret, registry, expired, nextUid, rtCache, secretCache,
                     jobCache, rec, faults>>
  BY DEF RendererSkips, PodSucceeds, caches
<1>2. ~p.orphan => j \in Jobs /\ j.owner = job[p.task].owner /\ j.tag = job[p.task].tag
  BY JobOfPod, SucceededJob
<1>3. registry \in [Tags -> Configs \cup {None}]
  BY DEF IInv, TypeOK, ObjectsTypeOK
<1> HIDE DEF j
<1> QED
  BY <1>1, <1>2, <1>3, PodEndsStep

(* The renderer goes on to push. *)
LEMMA RendererProceedsStep ==
    ASSUME IInv, NEW p \in pods, RendererProceeds(p)
    PROVE  IInv'
<1> DEFINE q == [p EXCEPT !.stage = "push"]
<1>1. /\ GoesOn /\ pods' = (pods \ {p}) \cup {q}
      /\ UNCHANGED <<rt, secret, job, registry, expired, nextUid, rtCache,
                     secretCache, jobCache, faults>>
  BY DEF RendererProceeds, GoesOn, caches
<1>2. q \in Pods /\ q.task = p.task /\ q.tag = p.tag /\ q.orphan = p.orphan
  BY DEF IInv, TypeOK, ObjectsTypeOK, Pods
<1> HIDE DEF q
<1>3. ObjectsTypeOK'
  BY Zenon, <1>1, <1>2 DEF IInv, TypeOK, ObjectsTypeOK
<1>4. PodsOfJobs'
  BY <1>1, <1>2 DEF IInv, PodsOfJobs
<1> QED
  BY <1>1, <1>3, <1>4, ObjectsKeep

(* A push puts a chart where the Job says, and takes none away. *)
LEMMA RendererPushesStep ==
    ASSUME IInv, NEW p \in pods, RendererPushes(p)
    PROVE  IInv'
<1> DEFINE j == [job[p.task] EXCEPT !.succeeded = TRUE]
<1>1. PodEnds(p, j) /\ UNCHANGED <<rt, secret, expired, nextUid, rtCache, secretCache,
                                   jobCache, rec, faults>>
  BY DEF RendererPushes, PodSucceeds, caches
<1>2. ~p.orphan => j \in Jobs /\ j.owner = job[p.task].owner /\ j.tag = job[p.task].tag
  BY JobOfPod, SucceededJob
<1>3. /\ registry' \in [Tags -> Configs \cup {None}]
      /\ registry'[p.tag] # None
      /\ \A t \in Tags : registry[t] # None => registry'[t] # None
  BY NoneAssumption DEF IInv, TypeOK, ObjectsTypeOK, Pods, RendererPushes
<1> HIDE DEF j
<1> QED
  BY <1>1, <1>2, <1>3, PodEndsStep

-----------------------------------------------------------------------------
(* The inductive invariant.                                                *)

(* Nothing is there at the start.                                            *)
LEMMA InitIInv == Init => IInv
<1> SUFFICES ASSUME Init PROVE IInv
  OBVIOUS
<1>1. ObjectsTypeOK
  BY DEF Init, ObjectsTypeOK, Uid
<1>2. CachesTypeOK /\ WorkerTypeOK
  BY DEF Init, CachesTypeOK, WorkerTypeOK
<1>3. PodsOfJobs /\ CopiesAgree /\ JobsRenderOwner /\ OwnSuccessIsPushed
  BY DEF Init, PodsOfJobs, CopiesAgree, JobsRenderOwner, OwnSuccessIsPushed, Succeeded
<1>4. rec.pc = "idle"
  BY DEF Init, Idle
<1>5. UidsGiven
  BY <1>4 DEF Init, UidsGiven
<1>6. \A n \in Tasks : job[n] = None /\ jobCache[n] = None
  BY DEF Init
<1>7. SuccessesPushed
  BY <1>4, <1>6 DEF SuccessesPushed
<1>8. NotYetSucceeded /\ CleanupSparesUnfinished
  BY SMTT(30), <1>4 DEF NotYetSucceeded, CleanupSparesUnfinished
<1> QED
  BY <1>1, <1>2, <1>3, <1>5, <1>7, <1>8 DEF IInv, TypeOK

(* A step that changes nothing keeps the invariant.                          *)
LEMMA StutterStep ==
    ASSUME IInv, UNCHANGED vars
    PROVE  IInv'
BY ZenonT(40) DEF vars, IInv, TypeOK, ObjectsTypeOK, CachesTypeOK, WorkerTypeOK,
       PodsOfJobs, UidsGiven, CopiesAgree, JobsRenderOwner, SuccessesPushed,
       NotYetSucceeded, OwnSuccessIsPushed, Succeeded, CleanupSparesUnfinished,
       Pushed, Owned

(* Every step keeps the invariant.                                            *)
LEMMA NextIInv ==
    ASSUME IInv, [Next]_vars
    PROVE  IInv'
<1>1. CASE Controller
  BY <1>1, FetchStep, EnsureConfigSecretStep, EnsureRenderJobStep,
     UpdateStatusStep, CleanupSecretsStep, DeleteRenderJobStep DEF Controller
<1>2. CASE Environment
  BY <1>2, CreateTaskStep, DeleteTaskStep, TTLExpiresStep, CallFailsStep,
     CrashStep DEF Environment
<1>3. CASE Informers
  BY <1>3, SyncTaskStep, SyncSecretStep, SyncJobStep DEF Informers
<1>4. CASE Cluster
  BY <1>4, StartPodStep, JobTTLStep, GCJobStep, GCSecretStep, PodFailsStep,
     RendererSkipsStep, RendererProceedsStep, RendererPushesStep DEF Cluster
<1>5. CASE UNCHANGED vars
  BY <1>5, StutterStep
<1> QED
  BY <1>1, <1>2, <1>3, <1>4, <1>5 DEF Next

(* The inductive invariant holds in every reachable state.                    *)
LEMMA Invariance == Spec => []IInv
<1>1. Init => IInv
  BY InitIInv
<1>2. IInv /\ [Next]_vars => IInv'
  BY NextIInv
<1> QED
  BY <1>1, <1>2, PTL DEF Spec

-----------------------------------------------------------------------------
(* The theorems.                                                           *)

(* The objects, caches and locals of Reconcile always have their types.      *)
THEOREM TypeCorrect == Spec => []TypeOK
<1>1. IInv => TypeOK
  BY DEF IInv
<1> QED
  BY <1>1, Invariance, PTL

(* JobSucceeded, recorded by updateResourceStatusFromJob on account of a Job *)
(* of the RenderTask's own, means that the chart is in the registry.         *)
THEOREM OwnSuccess == Spec => []OwnSuccessIsPushed
<1>1. IInv => OwnSuccessIsPushed
  BY DEF IInv
<1> QED
  BY <1>1, Invariance, PTL

(* cleanupRenderResources, deleting by name, never takes a Job or a Secret   *)
(* from a RenderTask that has not succeeded.                                 *)
THEOREM SafeCleanup == Spec => []CleanupSparesUnfinished
<1>1. IInv => CleanupSparesUnfinished
  BY DEF IInv
<1> QED
  BY <1>1, Invariance, PTL

(* What ConditionsAreKept says of one step.                                  *)
Kept ==
    \A n \in Tasks : SameTask(n) =>
        /\ rt[n].succeeded => rt'[n].succeeded
        /\ rt[n].failed => rt'[n].failed

(* Only three actions write a RenderTask, and only UpdateStatus writes one   *)
(* that exists: it adds to the conditions of the copy it read, and is        *)
(* refused unless that copy is what the API server holds.                    *)
LEMMA StepKeepsConditions ==
    ASSUME IInv, [Next]_vars
    PROVE  Kept
<1>1. CASE UpdateStatus
  <2>1. rec.res \in RenderTasks /\ rec.seen \in JobViews
    BY <1>1, WorkerFacts DEF IInv, TypeOK, UpdateStatus
  <2> DEFINE new == UpdateResourceStatusFromJob(rec.res, rec.seen)
  <2>2. /\ rec.res.succeeded => new.succeeded
        /\ rec.res.failed => new.failed
    BY <2>1 DEF UpdateResourceStatusFromJob, RenderTasks, JobViews
  <2>3. \/ rt' = rt
        \/ rt' = [rt EXCEPT ![rec.task] = new] /\ rt[rec.task] = rec.res
    BY <1>1 DEF UpdateStatus, Current
  <2> HIDE DEF new
  <2> QED
    BY <2>2, <2>3 DEF Kept, SameTask, IInv, TypeOK, ObjectsTypeOK
<1>2. ASSUME NEW n \in Tasks, NEW c \in Configs, CreateTask(n, c)
      PROVE  Kept
  BY <1>2 DEF CreateTask, Kept, SameTask, IInv, TypeOK, ObjectsTypeOK
<1>3. ASSUME NEW n \in Tasks, DeleteTask(n)
      PROVE  Kept
  BY <1>3 DEF DeleteTask, Kept, SameTask, IInv, TypeOK, ObjectsTypeOK
<1>4. CASE UNCHANGED rt
  BY <1>4 DEF Kept
<1>5. CASE Controller
  BY <1>1, <1>4, <1>5 DEF Controller, Fetch, EnsureConfigSecret,
     EnsureRenderJob, CleanupSecrets, DeleteRenderJob, objects
<1>6. CASE Environment
  BY Zenon, <1>2, <1>3, <1>4, <1>6 DEF Environment, TTLExpires, CallFails, Crash,
     objects
<1>7. CASE Informers
  BY <1>4, <1>7 DEF Informers, SyncTask, SyncSecret, SyncJob, objects
<1>8. CASE Cluster
  BY Zenon, <1>4, <1>8 DEF Cluster, StartPod, JobTTL, GCJob, GCSecret, PodFails,
     RendererSkips, RendererProceeds, RendererPushes
<1>9. CASE UNCHANGED vars
  BY <1>4, <1>9 DEF vars
<1> QED
  BY <1>5, <1>6, <1>7, <1>8, <1>9 DEF Next

(* A condition recorded by a status update is never withdrawn by a later one *)
(* computed from a stale copy.                                               *)
THEOREM ConditionsKept == Spec => ConditionsAreKept
<1>1. IInv /\ [Next]_vars => [Kept]_vars
  BY StepKeepsConditions
<1> QED
  BY <1>1, Invariance, PTL DEF Spec, ConditionsAreKept, Kept

=============================================================================
