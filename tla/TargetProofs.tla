---------------------------- MODULE TargetProofs ----------------------------
(***************************************************************************)
(* Proofs about the three models of the Target controller                  *)
(* (pkg/controller/target_controller.go), for every set of objects and     *)
(* every bound: how it shares rendered charts with the RenderArtifact      *)
(* controller (ArtifactGC), how it numbers the versions of the bootstrap   *)
(* chart (Bootstrap), and which of the bound releases it deploys           *)
(* (ReleaseResolver).  Each has its own variables, and theorems about its  *)
(* own specification.                                                      *)
(***************************************************************************)
EXTENDS ArtifactGC, Bootstrap, ReleaseResolver, TLAPS

(* What a reconcile of a Target carries along: one that looks at releases    *)
(* has charts for them; one of a Target that is deleted wants nothing, and   *)
(* comes to the finalizer when no binding of the Target is left.             *)
TWorkerInv ==
    /\ tw.pc \in {"loop", "recreate", "bind", "artifact"} =>
          ~tw.del /\ \A n \in tw.todo : tw.want[n] # None
    /\ tw.pc \in {"recreate", "bind", "artifact"} =>
          tw.n \in Names /\ tw.want[tw.n] # None
    /\ tw.del => tw.want = NoWants
    /\ tw.pc = "finalizer" => tw.del /\ \A b \in bindings : b[1] # tw.t

(* How far the informer and the worker may be behind a Target.               *)
TargetInv ==
    /\ \A t \in Targets :
        /\ targetCache[t] = "live" => target[t] \in {"live", "deleting"}
        /\ targetCache[t] = "deleting" => target[t] # "live"
    /\ tw.pc # "idle" =>
        IF tw.del
        THEN /\ target[tw.t] # "live"
             /\ target[tw.t] = "deleting" => targetCache[tw.t] = "deleting"
        ELSE target[tw.t] \in {"live", "deleting"}

(* How far the informer may be behind an artifact: a copy that is not        *)
(* terminating is of the artifact that exists, and after a copy that is, no  *)
(* finalizer has been added.                                                 *)
ArtifactInv ==
    \A c \in Charts : artCache[c] # None =>
        IF artCache[c].term
        THEN art[c] # None /\ ~art[c].term => ~art[c].fin
        ELSE art[c] # None /\ (artCache[c].fin => art[c].fin)

(* And the worker: what it is about to delete exists and has the finalizer;  *)
(* what it cleans up is terminating, or was created since.                   *)
AWorkerInv ==
    /\ aw.pc \in {"confirm", "delete"} => art[aw.c] # None /\ art[aw.c].fin
    /\ aw.pc \in {"cleanup", "unfinalize"} /\ art[aw.c] # None =>
        IF art[aw.c].term THEN artCache[aw.c] # None /\ artCache[aw.c].term
                          ELSE ~art[aw.c].fin

(* Only bindings have a history, and none of an artifact about to be deleted. *)
OlderInv ==
    /\ older \subseteq bindings
    /\ aw.pc = "delete" => \A b \in older : b[2] # aw.c

IInv ==
    /\ TypeOK
    /\ TWorkerInv
    /\ TargetInv
    /\ ArtifactInv
    /\ AWorkerInv
    /\ OlderInv
    /\ NoDanglingBindings
    /\ FreshArtifactsAreKept

-----------------------------------------------------------------------------
(* Facts the steps share.                                                  *)

(* A reconcile under way has its locals, of their types.                     *)
LEMMA TWorkerFacts ==
    ASSUME TypeOK, tw.pc # "idle"
    PROVE  /\ tw \in TWorkers
           /\ tw.t \in Targets /\ tw.want \in Wants /\ tw.todo \subseteq Names
BY DEF TypeOK, TIdle, TWorkers

(* And so has one of a RenderArtifact.                                       *)
LEMMA AWorkerFacts ==
    ASSUME TypeOK, aw.pc # "idle"
    PROVE  aw \in AWorkers /\ aw.c \in Charts
BY DEF TypeOK, AIdle, AWorkers

(* An idle worker is the one that no reconcile has begun with.               *)
LEMMA IdleFacts ==
    ASSUME TypeOK
    PROVE  /\ tw.pc = "idle" <=> tw = TIdle
           /\ aw.pc = "idle" <=> aw = AIdle
           /\ TIdle.pc = "idle" /\ ~TIdle.del /\ AIdle.pc = "idle"
BY DEF TypeOK, TIdle, AIdle, TWorkers, AWorkers

(* Changing one RenderTask.                                                  *)
LEMMA TaskType ==
    ASSUME TypeOK, NEW t \in Targets, NEW n \in Names,
           NEW x \in RenderTasks \cup {None}
    PROVE  /\ rt \in [Targets -> [Names -> RenderTasks \cup {None}]]
           /\ [rt EXCEPT ![t][n] = x] \in [Targets -> [Names -> RenderTasks \cup {None}]]
BY DEF TypeOK

-----------------------------------------------------------------------------
(* Every action keeps the invariant.                                       *)

(* A Target that is created is nobody's yet.                                 *)
LEMMA CreateTargetKeeps ==
    ASSUME IInv, NEW t \in Targets, CreateTarget(t)
    PROVE  IInv'
<1>1. TypeOK'
  BY IdleFacts, NoneAssumption DEF IInv, TypeOK, CreateTarget, Change,
     caches, Life
<1>2. TargetInv'
  BY IdleFacts, NoneAssumption DEF IInv, TypeOK, TWorkerInv, TargetInv,
     CreateTarget, Change, caches, Life
<1>3. NoDanglingBindings'
  BY IdleFacts, NoneAssumption DEF IInv, TypeOK, TWorkerInv, TargetInv,
     NoDanglingBindings, CreateTarget, Change, caches, Life
<1>4. (TWorkerInv /\ ArtifactInv /\ AWorkerInv /\ OlderInv /\
      FreshArtifactsAreKept)'
  BY DEF IInv, TWorkerInv, ArtifactInv, AWorkerInv, OlderInv,
     FreshArtifactsAreKept, CreateTarget, caches
<1> QED
  BY <1>1, <1>2, <1>3, <1>4 DEF IInv

(* A Target without finalizer has no bindings; one with it is only marked.   *)
LEMMA DeleteTargetKeeps ==
    ASSUME IInv, NEW t \in Targets, DeleteTarget(t)
    PROVE  IInv'
<1>1. TypeOK'
  <2>1. target' \in [Targets -> Life]
    BY DEF IInv, TypeOK, DeleteTarget, Life
  <2> QED
    BY <2>1 DEF IInv, TypeOK, DeleteTarget, Change, caches
<1>2. TargetInv'
  <2>1. \A u \in Targets :
           \/ target'[u] = target[u]
           \/ target[u] = "new" /\ target'[u] = "gone"
           \/ target[u] = "live" /\ target'[u] = "deleting"
    <3>1. CASE target[t] = "new" /\ target' = [target EXCEPT ![t] = "gone"]
      BY <3>1 DEF IInv, TypeOK
    <3>2. CASE target[t] = "live" /\ target' = [target EXCEPT ![t] = "deleting"]
      BY <3>2 DEF IInv, TypeOK
    <3> QED
      BY <3>1, <3>2 DEF DeleteTarget
  <2>2. tw.pc # "idle" => tw.t \in Targets
    BY TWorkerFacts DEF IInv
  <2> QED
    BY <2>1, <2>2 DEF IInv, TargetInv, DeleteTarget, caches
<1>3. NoDanglingBindings'
  BY Zenon, IdleFacts, NoneAssumption DEF IInv, TypeOK, TWorkerInv, TargetInv,
     NoDanglingBindings, DeleteTarget, Change, caches, Life
<1>4. (TWorkerInv /\ ArtifactInv /\ AWorkerInv /\ OlderInv /\
      FreshArtifactsAreKept)'
  BY DEF IInv, TWorkerInv, ArtifactInv, AWorkerInv, OlderInv,
     FreshArtifactsAreKept, DeleteTarget, caches
<1> QED
  BY <1>1, <1>2, <1>3, <1>4 DEF IInv

(* What a Target wants is read once per reconcile.                           *)
LEMMA ChangeWantsKeeps ==
    ASSUME IInv, NEW t \in Targets, NEW n \in Names,
           NEW c \in Charts \cup {None}, ChangeWants(t, n, c)
    PROVE  IInv'
<1>1. TypeOK'
  BY IdleFacts, NoneAssumption DEF IInv, TypeOK, ChangeWants, Change, caches,
     Wants
<1>2. (TWorkerInv /\ TargetInv /\ ArtifactInv /\ AWorkerInv /\ OlderInv /\
      NoDanglingBindings /\ FreshArtifactsAreKept)'
  BY DEF IInv, TWorkerInv, TargetInv, ArtifactInv, AWorkerInv, OlderInv,
     NoDanglingBindings, FreshArtifactsAreKept, ChangeWants, caches
<1> QED
  BY <1>1, <1>2 DEF IInv

(* The informer does not show the Target as being deleted.                   *)
LEMMA TAddFinalizerKeeps ==
    ASSUME IInv, NEW t \in Targets, TAddFinalizer(t)
    PROVE  IInv'
<1>1. TypeOK'
  BY IdleFacts, NoneAssumption DEF IInv, TypeOK, TAddFinalizer, caches, Life
<1>2. TargetInv'
  BY IdleFacts, NoneAssumption DEF IInv, TypeOK, TWorkerInv, TargetInv,
     TAddFinalizer, caches, Life
<1>3. NoDanglingBindings'
  BY IdleFacts, NoneAssumption DEF IInv, TypeOK, TWorkerInv, TargetInv,
     NoDanglingBindings, TAddFinalizer, caches, Life
<1>4. (TWorkerInv /\ ArtifactInv /\ AWorkerInv /\ OlderInv /\
      FreshArtifactsAreKept)'
  BY DEF IInv, TWorkerInv, ArtifactInv, AWorkerInv, OlderInv,
     FreshArtifactsAreKept, TAddFinalizer, caches
<1> QED
  BY <1>1, <1>2, <1>3, <1>4 DEF IInv

(* A reconcile begins with what the copy of its Target says.                 *)
LEMMA TBeginKeeps ==
    ASSUME IInv, NEW w \in TWorkers, tw' = w,
           UNCHANGED <<api, caches, aw, changes, faults>>,
           w.pc \in {"tasks", "loop"},
           w.pc = "loop" => ~w.del /\ \A n \in w.todo : w.want[n] # None,
           w.del => w.want = NoWants,
           targetCache[w.t] = IF w.del THEN "deleting" ELSE "live"
    PROVE  IInv'
<1>1. w.t \in Targets /\ w.del \in BOOLEAN
  BY DEF TWorkers
<1>2. UNCHANGED <<target, wants, rt, bindings, art, registry, older, targetCache,
                  rtCache, bindingCache, artCache, aw, changes, faults>>
  BY DEF api, caches
<1>3. TypeOK'
  BY <1>2 DEF IInv, TypeOK
<1>4. TWorkerInv'
  BY DEF TWorkerInv
<1>5. TargetInv'
  <2>1. \A t \in Targets :
          /\ targetCache'[t] = "live" => target'[t] \in {"live", "deleting"}
          /\ targetCache'[t] = "deleting" => target'[t] # "live"
    BY <1>2 DEF IInv, TargetInv
  <2>2. IF tw'.del
        THEN /\ target'[tw'.t] # "live"
             /\ target'[tw'.t] = "deleting" => targetCache'[tw'.t] = "deleting"
        ELSE target'[tw'.t] \in {"live", "deleting"}
    BY <1>1, <1>2, <2>1
  <2> QED
    BY <2>1, <2>2 DEF TargetInv
<1>6. (ArtifactInv /\ AWorkerInv /\ OlderInv /\ NoDanglingBindings /\
      FreshArtifactsAreKept)'
  BY <1>2 DEF IInv, ArtifactInv, AWorkerInv, OlderInv, NoDanglingBindings,
     FreshArtifactsAreKept
<1> QED
  BY <1>3, <1>4, <1>5, <1>6 DEF IInv

(* What a reconcile begins with has its type.                                *)
LEMMA TBeginType ==
    ASSUME NEW pc \in {"tasks", "loop"}, NEW t \in Targets, NEW del \in BOOLEAN,
           NEW want \in Wants, NEW todo \in SUBSET Names
    PROVE  [pc |-> pc, t |-> t, del |-> del, want |-> want, todo |-> todo, n |-> None,
            all |-> TRUE] \in TWorkers
BY DEF TWorkers

(* A copy marked deleted is never of a live Target.                          *)
LEMMA TFetchDeletingKeeps ==
    ASSUME IInv, NEW t \in Targets, TFetchDeleting(t)
    PROVE  IInv'
<1> DEFINE todo == CachedTasks(t)
           w == [pc |-> "tasks", t |-> t, del |-> TRUE, want |-> NoWants,
                 todo |-> todo, n |-> None, all |-> TRUE]
<1>1. todo \in SUBSET Names
  BY DEF CachedTasks
<1>2. NoWants \in Wants
  BY DEF NoWants, Wants
<1>3. targetCache[t] = "deleting" /\ UNCHANGED <<api, caches, aw, changes, faults>>
  BY DEF TFetchDeleting
<1>4. tw' = w
  BY Zenon DEF TFetchDeleting, TIdle
<1> HIDE DEF todo
<1>5. w \in TWorkers
  BY Zenon, <1>1, <1>2, TBeginType
<1>6. w.pc = "tasks" /\ w.t = t /\ w.del = TRUE /\ w.want = NoWants
  OBVIOUS
<1> HIDE DEF w
<1> QED
  BY <1>3, <1>4, <1>5, <1>6, TBeginKeeps

(* A live copy is of a Target that still has its finalizer.                  *)
LEMMA TFetchKeeps ==
    ASSUME IInv, NEW t \in Targets, TFetch(t)
    PROVE  IInv'
<1> DEFINE named == {n \in Names : wants[t][n] # None}
           pc == IF named = {} THEN "tasks" ELSE "loop"
           want == IF named = {} THEN NoWants ELSE wants[t]
           todo == IF named = {} THEN CachedTasks(t) ELSE named
           w == [pc |-> pc, t |-> t, del |-> FALSE, want |-> want, todo |-> todo,
                 n |-> None, all |-> TRUE]
<1>1. targetCache[t] = "live" /\ UNCHANGED <<api, caches, aw, changes, faults>>
  BY DEF TFetch
<1>2. CASE named = {}
  <2>1. pc = "tasks" /\ want = NoWants /\ todo = CachedTasks(t)
    BY <1>2
  <2>2. tw' = [TIdle EXCEPT !.pc = "tasks", !.t = t, !.todo = CachedTasks(t)]
    BY <1>2 DEF TFetch
  <2>3. want \in Wants /\ todo \in SUBSET Names
    BY <2>1 DEF CachedTasks, NoWants, Wants
  <2> HIDE DEF pc, want, todo, named
  <2>4. tw' = w
    BY Zenon, <2>1, <2>2 DEF TIdle
  <2>5. w \in TWorkers
    BY Zenon, <2>1, <2>3, TBeginType
  <2>6. w.pc = "tasks" /\ w.t = t /\ w.del = FALSE
    BY <2>1
  <2> HIDE DEF w
  <2> QED
    BY <1>1, <2>4, <2>5, <2>6, TBeginKeeps
<1>3. CASE named # {}
  <2>1. pc = "loop" /\ want = wants[t] /\ todo = named
    BY <1>3
  <2>2. tw' = [TIdle EXCEPT !.pc = "loop", !.t = t, !.want = wants[t], !.todo = named]
    BY <1>3 DEF TFetch
  <2>3. want \in Wants /\ todo \in SUBSET Names
    BY <2>1 DEF IInv, TypeOK
  <2>4. \A n \in todo : want[n] # None
    BY <2>1
  <2> HIDE DEF pc, want, todo, named
  <2>5. tw' = w
    BY Zenon, <2>1, <2>2 DEF TIdle
  <2>6. w \in TWorkers
    BY Zenon, <2>1, <2>3, TBeginType
  <2>7. w.pc = "loop" /\ w.t = t /\ w.del = FALSE /\ w.want = want /\ w.todo = todo
    BY <2>1
  <2> HIDE DEF w
  <2> QED
    BY <1>1, <2>4, <2>5, <2>6, <2>7, TBeginKeeps
<1> QED
  BY <1>2, <1>3

(* The charts of the releases still to do are known.                         *)
LEMMA TEnsureTaskKeeps ==
    ASSUME IInv, NEW n \in Names, TEnsureTask(n)
    PROVE  IInv'
<1> DEFINE again == [tw EXCEPT !.todo = @ \ {n}, !.all = FALSE]
<1>a. tw \in TWorkers /\ tw.t \in Targets /\ tw.pc = "loop"
  BY TWorkerFacts DEF IInv, TEnsureTask
<1>b. NewTask(tw.want[n]) \in RenderTasks
  BY <1>a DEF IInv, TEnsureTask, TWorkerInv, TWorkers, Wants, NewTask,
     RenderTasks
<1>c. \/ tw' = TIdle
      \/ tw' = [tw EXCEPT !.todo = @ \ {n}, !.all = FALSE]
      \/ tw' = [tw EXCEPT !.pc = "bind", !.todo = @ \ {n}, !.n = n] /\ n \in tw.todo
      \/ tw' = [again EXCEPT !.pc = "recreate", !.n = n] /\ n \in tw.todo
  BY DEF TEnsureTask, TReturn
<1>1. TypeOK'
  <2>1. \/ rt' = rt
        \/ rt' = [rt EXCEPT ![tw.t][n] = NewTask(tw.want[n])]
        \/ rt' = [rt EXCEPT ![tw.t][n] = None]
    BY DEF TEnsureTask
  <2>2. rt' \in [Targets -> [Names -> RenderTasks \cup {None}]]
    BY <1>a, <1>b, <2>1, TaskType DEF IInv
  <2>3. tw' \in TWorkers \cup {TIdle}
    <3>1. [tw EXCEPT !.todo = @ \ {n}, !.all = FALSE] \in TWorkers
      BY Zenon, <1>a DEF TWorkers
    <3>2. [tw EXCEPT !.pc = "bind", !.todo = @ \ {n}, !.n = n] \in TWorkers
      BY Zenon, <1>a DEF TWorkers
    <3>3. [again EXCEPT !.pc = "recreate", !.n = n] \in TWorkers
      BY Zenon, <3>1 DEF TWorkers
    <3> QED
      BY <1>c, <3>1, <3>2, <3>3
  <2> QED
    BY <2>2, <2>3 DEF IInv, TypeOK, TEnsureTask, caches
<1>d. \/ tw'.pc = "idle" /\ ~tw'.del
      \/ /\ tw'.pc \in {"loop", "recreate", "bind"} /\ tw'.t = tw.t
         /\ tw'.del = tw.del
         /\ tw'.want = tw.want /\ tw'.todo = tw.todo \ {n}
         /\ tw'.pc \in {"recreate", "bind"} => tw'.n = n /\ n \in tw.todo
  BY ZenonT(40), <1>a, <1>c, IdleFacts DEF IInv, TWorkers
<1>2. TWorkerInv'
  BY <1>a, <1>d DEF IInv, TWorkerInv, TWorkers
<1>3. TargetInv'
  BY Zenon, <1>a, <1>d DEF IInv, TargetInv, TEnsureTask, caches
<1>4. (ArtifactInv /\ AWorkerInv /\ OlderInv /\ NoDanglingBindings /\
      FreshArtifactsAreKept)'
  BY DEF IInv, ArtifactInv, AWorkerInv, OlderInv, NoDanglingBindings,
     FreshArtifactsAreKept, TEnsureTask, caches
<1> QED
  BY <1>1, <1>2, <1>3, <1>4 DEF IInv

(* The RenderTask that is created again is of a release still to do.         *)
LEMMA TRecreateTaskKeeps ==
    ASSUME IInv, TRecreateTask
    PROVE  IInv'
<1>a. tw \in TWorkers /\ tw.t \in Targets /\ tw.pc = "recreate"
  BY TWorkerFacts DEF IInv, TRecreateTask
<1>b. tw.n \in Names /\ NewTask(tw.want[tw.n]) \in RenderTasks
  BY <1>a DEF IInv, TWorkerInv, TWorkers, Wants, NewTask, RenderTasks
<1>c. tw' = [tw EXCEPT !.pc = "loop", !.n = None] /\ tw' \in TWorkers
  BY Zenon, <1>a DEF TRecreateTask, TWorkers
<1>1. TypeOK'
  <2>1. rt' \in [Targets -> [Names -> RenderTasks \cup {None}]]
    BY <1>a, <1>b, TaskType DEF IInv, TRecreateTask
  <2> QED
    BY <1>c, <2>1 DEF IInv, TypeOK, TRecreateTask, caches
<1>d. /\ tw'.pc = "loop" /\ tw'.t = tw.t /\ tw'.del = tw.del
      /\ tw'.want = tw.want /\ tw'.todo = tw.todo
  BY <1>a, <1>c DEF TWorkers
<1>2. TWorkerInv'
  BY <1>a, <1>d DEF IInv, TWorkerInv
<1>3. TargetInv'
  BY Zenon, <1>a, <1>d DEF IInv, TargetInv, TRecreateTask, caches
<1>4. (ArtifactInv /\ AWorkerInv /\ OlderInv /\ NoDanglingBindings /\
      FreshArtifactsAreKept)'
  BY DEF IInv, ArtifactInv, AWorkerInv, OlderInv, NoDanglingBindings,
     FreshArtifactsAreKept, TRecreateTask, caches
<1> QED
  BY <1>1, <1>2, <1>3, <1>4 DEF IInv

(* A binding is only made for a Target with its finalizer.                   *)
LEMMA TEnsureBindingKeeps ==
    ASSUME IInv, TEnsureBinding
    PROVE  IInv'
<1>a. tw \in TWorkers /\ tw.t \in Targets /\ tw.pc = "bind"
  BY TWorkerFacts DEF IInv, TEnsureBinding
<1>b. tw.want[tw.n] \in Charts
  BY <1>a DEF IInv, TWorkerInv, TWorkers, Wants
<1>1. TypeOK'
  <2>1. bindings' \subseteq Targets \X Charts
    BY <1>a, <1>b DEF IInv, TypeOK, TEnsureBinding
  <2>2. tw' \in TWorkers
    BY <1>a DEF TEnsureBinding, TWorkers
  <2> QED
    BY <2>1, <2>2 DEF IInv, TypeOK, TEnsureBinding, caches
<1>2. TWorkerInv'
  BY <1>a DEF IInv, TWorkerInv, TWorkers, TEnsureBinding
<1>3. TargetInv'
  BY <1>a DEF IInv, TargetInv, TWorkers, TEnsureBinding, caches
<1>4. OlderInv'
  BY DEF IInv, OlderInv, TEnsureBinding
<1>5. NoDanglingBindings'
  BY <1>a, <1>b DEF IInv, TargetInv, TWorkerInv, NoDanglingBindings,
     TEnsureBinding
<1>6. (ArtifactInv /\ AWorkerInv /\ FreshArtifactsAreKept)'
  BY DEF IInv, ArtifactInv, AWorkerInv, FreshArtifactsAreKept,
     TEnsureBinding, caches
<1> QED
  BY <1>1, <1>2, <1>3, <1>4, <1>5, <1>6 DEF IInv

(* A new artifact has the history of its bindings, and nobody is about to    *)
(* delete it.                                                                *)
LEMMA TEnsureArtifactKeeps ==
    ASSUME IInv, TEnsureArtifact
    PROVE  IInv'
<1> DEFINE c == tw.want[tw.n]
<1> DEFINE new == [fin |-> FALSE, term |-> FALSE]
<1>a. tw \in TWorkers /\ tw.t \in Targets /\ tw.pc = "artifact"
  BY TWorkerFacts DEF IInv, TEnsureArtifact
<1>b. c \in Charts
  BY <1>a DEF IInv, TWorkerInv, TWorkers, Wants
<1>c. tw' = TIdle \/ tw' = [tw EXCEPT !.pc = "loop", !.n = None]
  BY DEF TEnsureArtifact, TReturn
<1>d. \/ art' = art /\ older' = older
      \/ /\ artCache[c] = None /\ art[c] = None
         /\ art' = [art EXCEPT ![c] = new]
         /\ older' = older \cup {b \in bindings : b[2] = c}
  BY DEF TEnsureArtifact
<1>e. new # None /\ ~new.term /\ ~new.fin /\ new \in Artifacts
  <2>1. new \in Artifacts
    BY DEF Artifacts
  <2> QED
    BY Zenon, <2>1, NoneAssumption
<1>1. TypeOK'
  <2>1. art' \in [Charts -> Artifacts \cup {None}]
    BY Zenon, <1>b, <1>d, <1>e DEF IInv, TypeOK
  <2>2. older' \subseteq Targets \X Charts
    BY <1>d DEF IInv, TypeOK
  <2>3. tw' \in TWorkers \cup {TIdle}
    BY Zenon, <1>a, <1>c DEF TWorkers
  <2> QED
    BY Zenon, <2>1, <2>2, <2>3 DEF IInv, TypeOK, TEnsureArtifact, caches
<1>f. \/ tw'.pc = "idle" /\ ~tw'.del
      \/ /\ tw'.pc = "loop" /\ tw'.t = tw.t /\ tw'.del = tw.del
         /\ tw'.want = tw.want /\ tw'.todo = tw.todo
  BY ZenonT(40), <1>a, <1>c, IdleFacts DEF IInv, TWorkers
<1>2. TWorkerInv'
  BY <1>a, <1>f DEF IInv, TWorkerInv, TWorkers
<1>3. TargetInv'
  BY Zenon, <1>a, <1>f DEF IInv, TargetInv, TEnsureArtifact, caches
<1>4. ArtifactInv'
  BY Zenon, <1>b, <1>d DEF IInv, TypeOK, ArtifactInv, TEnsureArtifact, caches
<1>5. AWorkerInv'
  BY Zenon, <1>b, <1>d, <1>e, AWorkerFacts, NoneAssumption DEF IInv, TypeOK,
     AWorkerInv, AIdle, TEnsureArtifact, caches
<1>6. OlderInv'
  BY Zenon, <1>b, <1>d DEF IInv, AWorkerInv, OlderInv, TEnsureArtifact
<1>7. FreshArtifactsAreKept'
  BY <1>b, <1>d, <1>e DEF IInv, TypeOK, FreshArtifactsAreKept
<1>8. (NoDanglingBindings)'
  BY DEF IInv, NoDanglingBindings, TEnsureArtifact, caches
<1> QED
  BY <1>1, <1>2, <1>3, <1>4, <1>5, <1>6, <1>7, <1>8 DEF IInv

(* The reconcile ends.                                                       *)
LEMMA TWaitKeeps ==
    ASSUME IInv, TWait
    PROVE  IInv'
<1>1. TypeOK'
  BY Zenon, IdleFacts, NoneAssumption DEF IInv, TypeOK, TWait, TReturn, api,
     caches,
     TWorkers
<1>2. TWorkerInv'
  BY Zenon, IdleFacts, NoneAssumption DEF IInv, TypeOK, TWorkerInv, TWait,
     TReturn,
     api, caches, TWorkers
<1>3. TargetInv'
  BY Zenon, IdleFacts, NoneAssumption DEF IInv, TypeOK, TWorkerInv, TargetInv,
     TWait, TReturn, api, caches, TWorkers
<1>4. (ArtifactInv /\ AWorkerInv /\ OlderInv /\ NoDanglingBindings /\
      FreshArtifactsAreKept)'
  BY DEF IInv, ArtifactInv, AWorkerInv, OlderInv, NoDanglingBindings,
     FreshArtifactsAreKept, TWait, api, caches
<1> QED
  BY Zenon, <1>1, <1>2, <1>3, <1>4 DEF IInv

(* The reconcile goes on to what is stale.                                   *)
LEMMA TBootstrapReadyKeeps ==
    ASSUME IInv, TBootstrapReady
    PROVE  IInv'
<1>a. tw \in TWorkers /\ tw.t \in Targets /\ tw.pc = "loop"
  BY TWorkerFacts DEF IInv, TBootstrapReady
<1>1. TypeOK'
  <2> DEFINE todo == {n \in CachedTasks(tw.t) : tw.want[n] = None}
  <2>1. todo \in SUBSET Names /\ tw' = [tw EXCEPT !.pc = "tasks", !.todo = todo]
    BY DEF TBootstrapReady, CachedTasks
  <2> HIDE DEF todo
  <2>2. tw' \in TWorkers
    BY Zenon, <1>a, <2>1 DEF TWorkers
  <2> QED
    BY <2>2 DEF IInv, TypeOK, TBootstrapReady, api, caches
<1>2. TWorkerInv'
  BY <1>a DEF IInv, TWorkerInv, TWorkers, TBootstrapReady, api
<1>3. TargetInv'
  BY <1>a DEF IInv, TargetInv, TWorkers, TBootstrapReady, api, caches
<1>4. (ArtifactInv /\ AWorkerInv /\ OlderInv /\ NoDanglingBindings /\
      FreshArtifactsAreKept)'
  BY DEF IInv, ArtifactInv, AWorkerInv, OlderInv, NoDanglingBindings,
     FreshArtifactsAreKept, TBootstrapReady, api, caches
<1> QED
  BY <1>1, <1>2, <1>3, <1>4 DEF IInv

(* Only a RenderTask goes.                                                   *)
LEMMA TDeleteTaskKeeps ==
    ASSUME IInv, TDeleteTask
    PROVE  IInv'
<1>a. tw \in TWorkers /\ tw.t \in Targets /\ tw.pc = "tasks"
  BY TWorkerFacts DEF IInv, TDeleteTask
<1>b. \/ tw' = [tw EXCEPT !.pc = "bindings"]
      \/ \E n \in tw.todo : tw' = [tw EXCEPT !.todo = @ \ {n}]
  BY Zenon DEF TDeleteTask
<1>1. TypeOK'
  <2>1. rt' = rt \/ \E n \in Names : rt' = [rt EXCEPT ![tw.t][n] = None]
    BY <1>a DEF TDeleteTask, TWorkers
  <2>2. rt' \in [Targets -> [Names -> RenderTasks \cup {None}]]
    <3>1. CASE rt' = rt
      BY <3>1 DEF IInv, TypeOK
    <3>2. CASE \E n \in Names : rt' = [rt EXCEPT ![tw.t][n] = None]
      BY <1>a, <3>2, TaskType DEF IInv
    <3> QED
      BY <2>1, <3>1, <3>2
  <2>3. tw' \in TWorkers
    BY <1>a, <1>b DEF TWorkers
  <2> QED
    BY <2>2, <2>3 DEF IInv, TypeOK, TDeleteTask, caches
<1>2. TWorkerInv'
  BY <1>a, <1>b DEF IInv, TWorkerInv, TWorkers, TDeleteTask
<1>3. TargetInv'
  BY <1>a, <1>b DEF IInv, TargetInv, TWorkers, TDeleteTask, caches
<1>4. (ArtifactInv /\ AWorkerInv /\ OlderInv /\ NoDanglingBindings /\
      FreshArtifactsAreKept)'
  BY DEF IInv, ArtifactInv, AWorkerInv, OlderInv, NoDanglingBindings,
     FreshArtifactsAreKept, TDeleteTask, caches
<1> QED
  BY <1>1, <1>2, <1>3, <1>4 DEF IInv

(* The finalizer is reached when the API server lists no binding any more.   *)
LEMMA TDeleteBindingKeeps ==
    ASSUME IInv, TDeleteBinding
    PROVE  IInv'
<1>a. tw \in TWorkers /\ tw.t \in Targets /\ tw.pc = "bindings"
  BY TWorkerFacts DEF IInv, TDeleteBinding
<1>b. \/ /\ tw' = [tw EXCEPT !.pc = "finalizer"] /\ tw.del
         /\ bindings' = bindings /\ older' = older /\ StaleBindings = {}
      \/ tw' = TIdle /\ bindings' = bindings /\ older' = older
      \/ /\ tw' = tw
         /\ \E b \in bindings : bindings' = bindings \ {b} /\ older' = older \ {b}
  BY DEF TDeleteBinding, StaleBindings, TReturn
<1>1. TypeOK'
  <2>1. tw' \in TWorkers \cup {TIdle}
    BY <1>a, <1>b DEF TWorkers
  <2> QED
    BY <1>b, <2>1 DEF IInv, TypeOK, TDeleteBinding, caches
<1>2. TWorkerInv'
  <2>1. CASE tw' = tw
    BY Zenon, <1>a, <1>b, <2>1 DEF IInv, TWorkerInv
  <2>2. CASE tw' = TIdle
    BY <2>2, IdleFacts DEF IInv, TWorkerInv, TIdle
  <2>3. CASE /\ tw' = [tw EXCEPT !.pc = "finalizer"] /\ tw.del
             /\ bindings' = bindings /\ StaleBindings = {}
    <3>1. \A n \in Names : tw.want[n] = None
      BY <2>3 DEF IInv, TWorkerInv, NoWants
    <3>2. \A b \in bindings : b[1] # tw.t
      BY <2>3, <3>1, NoneAssumption DEF IInv, TypeOK, StaleBindings
    <3> QED
      BY <1>a, <2>3, <3>2 DEF IInv, TWorkerInv, TWorkers
  <2> QED
    BY <1>b, <2>1, <2>2, <2>3
<1>3. TargetInv'
  BY <1>a, <1>b, IdleFacts DEF IInv, TargetInv, TWorkers, TDeleteBinding,
     caches
<1>4. OlderInv'
  BY <1>b DEF IInv, OlderInv, TDeleteBinding
<1>5. NoDanglingBindings'
  BY <1>b DEF IInv, NoDanglingBindings, TDeleteBinding
<1>6. FreshArtifactsAreKept'
  BY <1>b DEF IInv, FreshArtifactsAreKept, TDeleteBinding
<1>7. (ArtifactInv /\ AWorkerInv)'
  BY DEF IInv, ArtifactInv, AWorkerInv, TDeleteBinding, caches
<1> QED
  BY <1>1, <1>2, <1>3, <1>4, <1>5, <1>6, <1>7 DEF IInv

(* The Target goes, without bindings, and the informer still shows it        *)
(* deleted.                                                                  *)
LEMMA TRemoveFinalizerKeeps ==
    ASSUME IInv, TRemoveFinalizer
    PROVE  IInv'
<1>a. tw.t \in Targets /\ tw.pc = "finalizer"
  BY TWorkerFacts DEF IInv, TRemoveFinalizer
<1>b. \A t \in Targets :
        target'[t] = IF t = tw.t /\ target[t] = "deleting" THEN "gone" ELSE target[t]
  BY DEF IInv, TypeOK, TRemoveFinalizer
<1>1. TypeOK'
  <2>1. target' \in [Targets -> Life]
    BY Zenon, <1>a DEF IInv, TypeOK, Life, TRemoveFinalizer
  <2> QED
    BY <2>1 DEF IInv, TypeOK, TRemoveFinalizer, TReturn, caches
<1>2. TWorkerInv'
  BY Zenon, IdleFacts DEF IInv, TWorkerInv, TIdle, TRemoveFinalizer, TReturn
<1>3. TargetInv'
  BY <1>a, <1>b, IdleFacts DEF IInv, TWorkerInv, TargetInv, TRemoveFinalizer,
     TReturn, caches
<1>4. NoDanglingBindings'
  BY Zenon, <1>a, <1>b DEF IInv, TypeOK, TWorkerInv, NoDanglingBindings,
     TRemoveFinalizer
<1>5. (ArtifactInv /\ AWorkerInv /\ OlderInv /\ FreshArtifactsAreKept)'
  BY DEF IInv, ArtifactInv, AWorkerInv, OlderInv, FreshArtifactsAreKept,
     TRemoveFinalizer, caches
<1> QED
  BY <1>1, <1>2, <1>3, <1>4, <1>5 DEF IInv

(* No copy is terminating, so the artifact is the one that was seen.         *)
LEMMA AAddFinalizerKeeps ==
    ASSUME IInv, NEW c \in Charts, AAddFinalizer(c)
    PROVE  IInv'
<1> DEFINE a == [art[c] EXCEPT !.fin = TRUE]
<1>a. a \in Artifacts /\ a.fin /\ a.term = art[c].term
  BY Zenon DEF IInv, TypeOK, Artifacts, AAddFinalizer
<1>b. \A d \in Charts : art'[d] = IF d = c THEN a ELSE art[d]
  BY DEF IInv, TypeOK, AAddFinalizer
<1>1. TypeOK'
  <2>1. art' \in [Charts -> Artifacts \cup {None}]
    BY <1>a DEF IInv, TypeOK, AAddFinalizer
  <2> QED
    BY <2>1 DEF IInv, TypeOK, AAddFinalizer, caches
<1>2. ArtifactInv'
  <2>1. artCache' = artCache /\ (artCache[c] # None => ~artCache[c].term) /\ art[c] # None
    BY DEF AAddFinalizer, caches
  <2> HIDE DEF a
  <2>2. a # None
    BY <1>a, NoneAssumption
  <2> QED
    BY <1>a, <1>b, <2>1, <2>2 DEF IInv, ArtifactInv
<1>3. AWorkerInv'
  BY IdleFacts DEF IInv, AWorkerInv, AAddFinalizer
<1>4. FreshArtifactsAreKept'
  BY ZenonT(40), <1>a, <1>b, NoneAssumption DEF IInv, TypeOK,
     FreshArtifactsAreKept,
     AAddFinalizer
<1>5. (TWorkerInv /\ TargetInv /\ OlderInv /\ NoDanglingBindings)'
  BY DEF IInv, TWorkerInv, TargetInv, OlderInv, NoDanglingBindings,
     AAddFinalizer, caches
<1> QED
  BY <1>1, <1>2, <1>3, <1>4, <1>5 DEF IInv

(* What is deleted or cleaned up is what the informer shows.                 *)
LEMMA AFetchKeeps ==
    ASSUME IInv, NEW c \in Charts, AFetch(c)
    PROVE  IInv'
<1>1. TypeOK'
  BY SMTT(30), IdleFacts, NoneAssumption DEF IInv, TypeOK, AFetch, api,
     caches, AWorkers
<1>2. AWorkerInv'
  BY SMTT(30), IdleFacts, NoneAssumption DEF IInv, TypeOK, ArtifactInv,
     AWorkerInv,
     AFetch, api, caches, AWorkers
<1>3. OlderInv'
  BY SMTT(30), IdleFacts, NoneAssumption DEF IInv, TypeOK, AWorkerInv,
     OlderInv,
     AFetch, api, caches, AWorkers
<1>4. (TWorkerInv /\ TargetInv /\ ArtifactInv /\ NoDanglingBindings /\
      FreshArtifactsAreKept)'
  BY DEF IInv, TWorkerInv, TargetInv, ArtifactInv, NoDanglingBindings,
     FreshArtifactsAreKept, AFetch, api, caches
<1> QED
  BY Zenon, <1>1, <1>2, <1>3, <1>4 DEF IInv

(* No binding at the API server: no binding older than the artifact.         *)
LEMMA AConfirmKeeps ==
    ASSUME IInv, AConfirm
    PROVE  IInv'
<1>a. aw \in AWorkers /\ aw.c \in Charts /\ aw.pc = "confirm"
  BY AWorkerFacts DEF IInv, AConfirm
<1>b. \/ aw' = AIdle
      \/ /\ aw' \in AWorkers /\ aw'.pc = "delete" /\ aw'.c = aw.c
         /\ \A t \in Targets : <<t, aw.c>> \notin bindings
  BY <1>a DEF AConfirm, AReturn, AWorkers
<1>1. TypeOK'
  BY <1>a, <1>b DEF IInv, TypeOK, AConfirm, api, caches
<1>2. AWorkerInv'
  BY <1>a, <1>b, IdleFacts DEF IInv, AWorkerInv, AConfirm, api, caches
<1>3. OlderInv'
  BY <1>a, <1>b, IdleFacts DEF IInv, TypeOK, OlderInv, AConfirm, api
<1>4. (TWorkerInv /\ TargetInv /\ ArtifactInv /\ NoDanglingBindings /\
      FreshArtifactsAreKept)'
  BY DEF IInv, TWorkerInv, TargetInv, ArtifactInv, NoDanglingBindings,
     FreshArtifactsAreKept, AConfirm, api, caches
<1> QED
  BY <1>1, <1>2, <1>3, <1>4 DEF IInv

(* The artifact is marked: it has the finalizer and no older binding.        *)
LEMMA ADeleteKeeps ==
    ASSUME IInv, ADelete
    PROVE  IInv'
<1> DEFINE a == [art[aw.c] EXCEPT !.term = TRUE]
<1>a. aw.c \in Charts /\ aw.pc = "delete" /\ art[aw.c] # None /\ art[aw.c].fin
  BY AWorkerFacts DEF IInv, AWorkerInv, ADelete
<1>b. a \in Artifacts /\ a.fin = art[aw.c].fin /\ a.term
  BY Zenon, <1>a DEF IInv, TypeOK, Artifacts
<1>c. /\ \A d \in Charts : art'[d] = IF d = aw.c THEN a ELSE art[d]
      /\ older' = older
  BY Zenon, <1>a, <1>b, NoneAssumption DEF IInv, TypeOK, ADelete, SetArtifact
<1>1. TypeOK'
  <2>1. art' \in [Charts -> Artifacts \cup {None}]
    BY <1>a, <1>b DEF IInv, TypeOK, ADelete, SetArtifact
  <2> QED
    BY <1>c, <2>1 DEF IInv, TypeOK, ADelete, AReturn, caches
<1>2. ArtifactInv'
  BY Zenon, <1>a, <1>b, <1>c, NoneAssumption DEF IInv, ArtifactInv, ADelete,
     caches
<1>3. AWorkerInv'
  BY IdleFacts DEF IInv, AWorkerInv, ADelete, AReturn
<1>4. OlderInv'
  BY <1>c, IdleFacts DEF IInv, OlderInv, ADelete, AReturn
<1>5. FreshArtifactsAreKept'
  BY <1>a, <1>c DEF IInv, TypeOK, OlderInv, FreshArtifactsAreKept
<1>6. (TWorkerInv /\ TargetInv /\ NoDanglingBindings)'
  BY DEF IInv, TWorkerInv, TargetInv, NoDanglingBindings, ADelete, caches
<1> QED
  BY <1>1, <1>2, <1>3, <1>4, <1>5, <1>6 DEF IInv

(* Only the registry changes.                                                *)
LEMMA ACleanupKeeps ==
    ASSUME IInv, ACleanup
    PROVE  IInv'
<1>1. TypeOK'
  BY IdleFacts, NoneAssumption DEF IInv, TypeOK, ACleanup, AWorkers, caches
<1>2. AWorkerInv'
  BY IdleFacts, NoneAssumption DEF IInv, TypeOK, ArtifactInv, AWorkerInv,
     ACleanup, AWorkers, caches
<1>3. OlderInv'
  BY IdleFacts, NoneAssumption DEF IInv, TypeOK, AWorkerInv, OlderInv,
     ACleanup, AWorkers, caches
<1>4. (TWorkerInv /\ TargetInv /\ ArtifactInv /\ NoDanglingBindings /\
      FreshArtifactsAreKept)'
  BY DEF IInv, TWorkerInv, TargetInv, ArtifactInv, NoDanglingBindings,
     FreshArtifactsAreKept, ACleanup, caches
<1> QED
  BY <1>1, <1>2, <1>3, <1>4 DEF IInv

(* A terminating artifact goes; one created since had no finalizer.          *)
LEMMA AUnfinalizeKeeps ==
    ASSUME IInv, AUnfinalize
    PROVE  IInv'
<1> DEFINE a == [art[aw.c] EXCEPT !.fin = FALSE]
<1>a. aw.c \in Charts /\ aw.pc = "unfinalize"
  BY AWorkerFacts DEF IInv, AUnfinalize
<1>b. art[aw.c] # None => a \in Artifacts /\ ~a.fin /\ a.term = art[aw.c].term
  BY Zenon, <1>a DEF IInv, TypeOK, Artifacts
<1>c. /\ \A d \in Charts : d # aw.c => art'[d] = art[d]
      /\ older' \subseteq older
      /\ IF art[aw.c] = None \/ art[aw.c].term
         THEN art'[aw.c] = None /\ \A b \in older' : b[2] # aw.c
         ELSE art'[aw.c] = a
  BY Zenon, <1>a, <1>b, NoneAssumption DEF IInv, TypeOK, AUnfinalize,
     SetArtifact
<1>1. TypeOK'
  <2>1. art' \in [Charts -> Artifacts \cup {None}]
    BY <1>a, <1>b DEF IInv, TypeOK, AUnfinalize, SetArtifact
  <2>2. older' \subseteq older
    BY DEF AUnfinalize, SetArtifact
  <2> QED
    BY <2>1, <2>2 DEF IInv, TypeOK, AUnfinalize, AReturn, caches
<1>2. ArtifactInv'
  <2>1. CASE art[aw.c] = None \/ art[aw.c].term
    BY <1>a, <1>c, <2>1 DEF IInv, ArtifactInv, AWorkerInv, AUnfinalize, caches
  <2>2. CASE art[aw.c] # None /\ ~art[aw.c].term
    <3>1. art'[aw.c] # None /\ ~art'[aw.c].fin /\ ~art[aw.c].fin
      BY Zenon, <1>a, <1>b, <1>c, <2>2, NoneAssumption DEF IInv, AWorkerInv
    <3> QED
      BY <1>a, <1>c, <2>2, <3>1 DEF IInv, ArtifactInv, AUnfinalize, caches
  <2> QED
    BY <2>1, <2>2
<1>3. AWorkerInv'
  BY IdleFacts DEF IInv, AWorkerInv, AUnfinalize, AReturn
<1>4. OlderInv'
  BY <1>c, IdleFacts DEF IInv, OlderInv, AUnfinalize, AReturn
<1>5. FreshArtifactsAreKept'
  <2>1. \A b \in older : b[2] \in Charts /\ art[b[2]] # None /\ ~art[b[2]].term
    BY DEF IInv, TypeOK, FreshArtifactsAreKept
  <2>2. \A b \in older' : b[2] = aw.c => art'[b[2]] # None /\ ~art'[b[2]].term
    BY Zenon, <1>b, <1>c, <2>1, NoneAssumption
  <2> QED
    BY <1>c, <2>1, <2>2 DEF FreshArtifactsAreKept
<1>6. (TWorkerInv /\ TargetInv /\ NoDanglingBindings)'
  BY DEF IInv, TWorkerInv, TargetInv, NoDanglingBindings, AUnfinalize, caches
<1> QED
  BY <1>1, <1>2, <1>3, <1>4, <1>5, <1>6 DEF IInv

(* Renderers only change RenderTasks and the registry.                       *)
LEMMA RenderKeeps ==
    ASSUME IInv, NEW t \in Targets, NEW n \in Names, Render(t, n)
    PROVE  IInv'
<1>1. TypeOK'
  <2>1. rt[t][n] \in RenderTasks
    BY DEF IInv, TypeOK, Render
  <2>2. \E s \in {"push", "succeeded", "failed"} : rt' = [rt EXCEPT ![t][n].stage = s]
    BY DEF Render
  <2>3. \E x \in RenderTasks : rt' = [rt EXCEPT ![t][n] = x]
    BY Zenon, <2>1, <2>2 DEF RenderTasks
  <2>4. rt' \in [Targets -> [Names -> RenderTasks \cup {None}]]
    BY <2>3, TaskType DEF IInv
  <2> QED
    BY <2>1, <2>4 DEF IInv, TypeOK, RenderTasks, Render, caches
<1>2. (TWorkerInv /\ TargetInv /\ ArtifactInv /\ AWorkerInv /\ OlderInv /\
      NoDanglingBindings /\ FreshArtifactsAreKept)'
  BY DEF IInv, TWorkerInv, TargetInv, ArtifactInv, AWorkerInv, OlderInv,
     NoDanglingBindings, FreshArtifactsAreKept, Render, caches
<1> QED
  BY <1>1, <1>2 DEF IInv

(* Only a RenderTask changes.                                                *)
LEMMA RenderFailsKeeps ==
    ASSUME IInv, NEW t \in Targets, NEW n \in Names, RenderFails(t, n)
    PROVE  IInv'
<1>1. TypeOK'
  <2>1. rt[t][n] \in RenderTasks
    BY DEF IInv, TypeOK, RenderFails
  <2>2. \E s \in {"push", "succeeded", "failed"} : rt' = [rt EXCEPT ![t][n].stage = s]
    BY Zenon DEF RenderFails
  <2>3. \E x \in RenderTasks : rt' = [rt EXCEPT ![t][n] = x]
    BY Zenon, <2>1, <2>2 DEF RenderTasks
  <2>4. rt' \in [Targets -> [Names -> RenderTasks \cup {None}]]
    BY <2>3, TaskType DEF IInv
  <2> QED
    BY <2>1, <2>4 DEF IInv, TypeOK, RenderTasks, RenderFails, caches
<1>2. (TWorkerInv /\ TargetInv /\ ArtifactInv /\ AWorkerInv /\ OlderInv /\
      NoDanglingBindings /\ FreshArtifactsAreKept)'
  BY DEF IInv, TWorkerInv, TargetInv, ArtifactInv, AWorkerInv, OlderInv,
     NoDanglingBindings, FreshArtifactsAreKept, RenderFails, caches
<1> QED
  BY <1>1, <1>2 DEF IInv

(* The informers catch up.                                                   *)
LEMMA SyncTargetKeeps ==
    ASSUME IInv, NEW t \in Targets, SyncTarget(t)
    PROVE  IInv'
<1>1. TypeOK'
  BY Zenon, IdleFacts, NoneAssumption DEF IInv, TypeOK, SyncTarget, api
<1>2. TargetInv'
  BY IdleFacts, NoneAssumption DEF IInv, TypeOK, TWorkerInv, TargetInv,
     SyncTarget, api
<1>3. (TWorkerInv /\ ArtifactInv /\ AWorkerInv /\ OlderInv /\
      NoDanglingBindings /\ FreshArtifactsAreKept)'
  BY Zenon DEF IInv, TWorkerInv, ArtifactInv, AWorkerInv, OlderInv,
     NoDanglingBindings, FreshArtifactsAreKept, SyncTarget, api
<1> QED
  BY Zenon, <1>1, <1>2, <1>3 DEF IInv

(* No part of the invariant is about the copies of RenderTasks.              *)
LEMMA SyncTaskKeeps ==
    ASSUME IInv, NEW t \in Targets, NEW n \in Names, SyncTask(t, n)
    PROVE  IInv'
<1>1. TypeOK'
  BY Zenon, IdleFacts, NoneAssumption DEF IInv, TypeOK, SyncTask, api
<1>2. (TWorkerInv /\ TargetInv /\ ArtifactInv /\ AWorkerInv /\ OlderInv /\
      NoDanglingBindings /\ FreshArtifactsAreKept)'
  BY DEF IInv, TWorkerInv, TargetInv, ArtifactInv, AWorkerInv, OlderInv,
     NoDanglingBindings, FreshArtifactsAreKept, SyncTask, api
<1> QED
  BY <1>1, <1>2 DEF IInv

(* Nor about those of RenderBindings.                                        *)
LEMMA SyncBindingKeeps ==
    ASSUME IInv, NEW b \in Targets \X Charts, SyncBinding(b)
    PROVE  IInv'
<1>1. TypeOK'
  BY ZenonT(40), IdleFacts, NoneAssumption DEF IInv, TypeOK, SyncBinding, api
<1>2. (TWorkerInv /\ TargetInv /\ ArtifactInv /\ AWorkerInv /\ OlderInv /\
      NoDanglingBindings /\ FreshArtifactsAreKept)'
  BY DEF IInv, TWorkerInv, TargetInv, ArtifactInv, AWorkerInv, OlderInv,
     NoDanglingBindings, FreshArtifactsAreKept, SyncBinding, api
<1> QED
  BY Zenon, <1>1, <1>2 DEF IInv

(* The copy is that of the artifact that exists.                             *)
LEMMA SyncArtifactKeeps ==
    ASSUME IInv, NEW c \in Charts, SyncArtifact(c)
    PROVE  IInv'
<1>1. TypeOK'
  BY Zenon, IdleFacts, NoneAssumption DEF IInv, TypeOK, SyncArtifact, api
<1>2. ArtifactInv'
  BY ZenonT(40), IdleFacts, NoneAssumption DEF IInv, TypeOK, ArtifactInv,
     AWorkerInv,
     SyncArtifact, api
<1>3. AWorkerInv'
  BY SMTT(30), IdleFacts, NoneAssumption DEF IInv, TypeOK, ArtifactInv,
     AWorkerInv,
     SyncArtifact, api
<1>4. (TWorkerInv /\ TargetInv /\ OlderInv /\ NoDanglingBindings /\
      FreshArtifactsAreKept)'
  BY DEF IInv, TWorkerInv, TargetInv, OlderInv, NoDanglingBindings,
     FreshArtifactsAreKept, SyncArtifact, api
<1> QED
  BY Zenon, <1>1, <1>2, <1>3, <1>4 DEF IInv

(* A failed call ends a reconcile, or goes on with less to do.               *)
LEMMA TCallFailsKeeps ==
    ASSUME IInv, TCallFails
    PROVE  IInv'
<1>a. tw \in TWorkers
  BY TWorkerFacts DEF IInv, TCallFails
<1>b. \/ tw' = TIdle
      \/ tw' = [tw EXCEPT !.pc = "bindings", !.todo = {}]
  BY DEF TCallFails, TReturn
<1>1. TypeOK'
  <2>1. tw' \in TWorkers \cup {TIdle}
    BY ZenonT(40), <1>a, <1>b DEF TWorkers
  <2> QED
    BY <2>1 DEF IInv, TypeOK, TCallFails, api, caches
<1>2. TWorkerInv'
  BY Zenon, <1>a, <1>b, IdleFacts DEF IInv, TWorkerInv, TWorkers, TIdle,
     TCallFails,
     api
<1>3. TargetInv'
  BY ZenonT(40), <1>a, <1>b, IdleFacts DEF IInv, TargetInv, TWorkers,
     TCallFails, api,
     caches
<1>4. (ArtifactInv /\ AWorkerInv /\ OlderInv /\ NoDanglingBindings /\
      FreshArtifactsAreKept)'
  BY DEF IInv, ArtifactInv, AWorkerInv, OlderInv, NoDanglingBindings,
     FreshArtifactsAreKept, TCallFails, api, caches
<1> QED
  BY <1>1, <1>2, <1>3, <1>4 DEF IInv

(* The reconcile ends.                                                       *)
LEMMA ACallFailsKeeps ==
    ASSUME IInv, ACallFails
    PROVE  IInv'
<1>1. TypeOK'
  BY IdleFacts, NoneAssumption DEF IInv, TypeOK, ACallFails, AReturn, api,
     caches
<1>2. AWorkerInv'
  BY Zenon, IdleFacts, NoneAssumption DEF IInv, TypeOK, ArtifactInv,
     AWorkerInv,
     ACallFails, AReturn, api, caches
<1>3. OlderInv'
  BY Zenon, IdleFacts, NoneAssumption DEF IInv, TypeOK, AWorkerInv, OlderInv,
     ACallFails, AReturn, api, caches
<1>4. (TWorkerInv /\ TargetInv /\ ArtifactInv /\ NoDanglingBindings /\
      FreshArtifactsAreKept)'
  BY DEF IInv, TWorkerInv, TargetInv, ArtifactInv, NoDanglingBindings,
     FreshArtifactsAreKept, ACallFails, api, caches
<1> QED
  BY <1>1, <1>2, <1>3, <1>4 DEF IInv

(* A restart forgets the workers and refreshes every copy.                   *)
LEMMA CrashKeeps ==
    ASSUME IInv, Crash
    PROVE  IInv'
<1>1. /\ tw' = TIdle /\ aw' = AIdle /\ tw'.pc = "idle" /\ ~tw'.del /\ aw'.pc = "idle"
      /\ UNCHANGED <<target, wants, rt, bindings, art, registry, older, changes>>
      /\ targetCache' = target /\ rtCache' = rt /\ bindingCache' = bindings
      /\ artCache' = art /\ faults' \in Nat
  BY IdleFacts DEF IInv, TypeOK, Crash, TReturn, AReturn, api
<1>2. TypeOK'
  BY Zenon, <1>1 DEF IInv, TypeOK
<1>3. TWorkerInv' /\ AWorkerInv' /\ OlderInv'
  BY Zenon, <1>1 DEF IInv, TWorkerInv, AWorkerInv, OlderInv
<1>4. TargetInv'
  BY Zenon, <1>1 DEF TargetInv
<1>5. ArtifactInv'
  BY <1>1 DEF ArtifactInv
<1>6. (NoDanglingBindings /\ FreshArtifactsAreKept)'
  BY <1>1 DEF IInv, NoDanglingBindings, FreshArtifactsAreKept
<1> QED
  BY Zenon, <1>1, <1>2, <1>3, <1>4, <1>5, <1>6 DEF IInv

-----------------------------------------------------------------------------
(* A step of the specification keeps the invariant.                          *)
LEMMA NextKeeps == IInv /\ [Next]_vars => IInv'
<1> SUFFICES ASSUME IInv, [Next]_vars
             PROVE  IInv'
  OBVIOUS
<1>1. CASE Users
  BY <1>1, CreateTargetKeeps, DeleteTargetKeeps, ChangeWantsKeeps DEF Users
<1>2. CASE \E t \in Targets : TReconcile(t)
  BY <1>2, TAddFinalizerKeeps, TFetchDeletingKeeps, TFetchKeeps DEF TReconcile
<1>3. CASE TStep
  BY <1>3, TEnsureTaskKeeps, TRecreateTaskKeeps, TEnsureBindingKeeps,
     TEnsureArtifactKeeps, TWaitKeeps,
     TBootstrapReadyKeeps, TDeleteTaskKeeps, TDeleteBindingKeeps,
     TRemoveFinalizerKeeps DEF TStep
<1>4. CASE \E c \in Charts : AReconcile(c)
  BY <1>4, AAddFinalizerKeeps, AFetchKeeps DEF AReconcile
<1>5. CASE AStep
  BY <1>5, AConfirmKeeps, ADeleteKeeps, ACleanupKeeps, AUnfinalizeKeeps
     DEF AStep
<1>6. CASE \E t \in Targets, n \in Names : Render(t, n) \/ RenderFails(t, n)
  BY <1>6, RenderKeeps, RenderFailsKeeps
<1>7. CASE Informers
  BY <1>7, SyncTargetKeeps, SyncTaskKeeps, SyncBindingKeeps, SyncArtifactKeeps
     DEF Informers
<1>8. CASE TCallFails \/ ACallFails \/ Crash
  BY Zenon, <1>8, TCallFailsKeeps, ACallFailsKeeps, CrashKeeps
<1>9. CASE UNCHANGED vars
  BY ZenonT(40), <1>9 DEF IInv, TypeOK, TWorkerInv, TargetInv, ArtifactInv,
     AWorkerInv,
     OlderInv, NoDanglingBindings, FreshArtifactsAreKept, vars
<1> QED
  BY <1>1, <1>2, <1>3, <1>4, <1>5, <1>6, <1>7, <1>8, <1>9 DEF Next

(* At the start nothing exists.                                              *)
LEMMA InitHolds == Init => IInv
<1> SUFFICES ASSUME Init
             PROVE  IInv
  OBVIOUS
<1>1. TypeOK
  BY Zenon, BoundsAssumption DEF Init, TypeOK, Life, Wants, NoWants
<1>2. TWorkerInv /\ TargetInv /\ ArtifactInv /\ AWorkerInv /\ OlderInv
  BY DEF Init, TWorkerInv, TargetInv, ArtifactInv, AWorkerInv, OlderInv, TIdle,
     AIdle
<1>3. NoDanglingBindings /\ FreshArtifactsAreKept
  BY DEF Init, NoDanglingBindings, FreshArtifactsAreKept
<1> QED
  BY <1>1, <1>2, <1>3 DEF IInv

(* The inductive invariant holds throughout.                                 *)
THEOREM Invariance == Spec => []IInv
BY InitHolds, NextKeeps, PTL DEF Spec

(* The state of the two controllers, of the caches and of the API server     *)
(* always has its type.                                                      *)
THEOREM TypeCorrect == Spec => []TypeOK
<1>1. IInv => TypeOK
  BY DEF IInv
<1> QED
  BY <1>1, Invariance, PTL

(* handleDeletion: however stale the copies it works from, the finalizer of  *)
(* a Target goes only when no RenderBinding of the Target is left.           *)
THEOREM BindingsHaveTargets == Spec => []NoDanglingBindings
<1>1. IInv => NoDanglingBindings
  BY DEF IInv
<1> QED
  BY <1>1, Invariance, PTL

(* The RenderArtifact controller never collects an artifact that has been    *)
(* bound since before it was created.                                        *)
THEOREM BoundArtifactsStay == Spec => []FreshArtifactsAreKept
<1>1. IInv => FreshArtifactsAreKept
  BY Zenon DEF IInv
<1> QED
  BY <1>1, Invariance, PTL

-----------------------------------------------------------------------------
(* The bootstrap chart of a Target: its version is never set back.         *)

USE VersionAssumption

(* A reconcile that plans or creates has an input to render, and the version *)
(* it settles on is not before the one it read.                              *)
PlanInv ==
    /\ bw.pc \in {"plan", "create"} => bw.want # None
    /\ bw.pc \in {"create", "persist"} => bw.ver >= bw.base.ver

BootstrapInv == BootstrapTypeOK /\ PlanInv

-----------------------------------------------------------------------------
(* Facts the steps share.                                                  *)

(* The worker that no reconcile has begun with.                              *)
LEMMA BootstrapIdle ==
    Idle \in Workers /\ Idle.pc = "idle"
BY DEF Idle, Workers, NewStatus, Statuses, Versions

(* Status().Update, with what the worker goes on to: the status and the      *)
(* worker keep their types, the worker is as told or has ended, and what it  *)
(* goes on from is what it sent.                                             *)
LEMMA UpdateStatusFacts ==
    ASSUME BootstrapTypeOK, NEW new \in Statuses, NEW next \in Workers,
           UpdateStatus(new, next)
    PROVE  /\ status' \in Statuses
           /\ bw' \in Workers
           /\ \/ bw' = Idle
              \/ /\ bw'.pc = next.pc /\ bw'.want = next.want
                 /\ bw'.ver = next.ver /\ bw'.base \in {next.base, new}
           /\ \/ status' = status
              \/ status = bw.base /\ status' = new
<1>1. \/ status' = status
      \/ status = bw.base /\ status' = new
  BY DEF UpdateStatus
<1>2. bw' = next \/ bw' = Idle \/ bw' = [next EXCEPT !.base = new]
  BY DEF UpdateStatus, Return, Workers
<1>3. LET e == [next EXCEPT !.base = new] IN
      /\ e \in Workers /\ e.pc = next.pc /\ e.want = next.want
      /\ e.ver = next.ver /\ e.base = new
  BY DEF Workers
<1>4. status' \in Statuses
  BY <1>1 DEF BootstrapTypeOK
<1>5. bw' \in Workers
  BY <1>2, <1>3, BootstrapIdle
<1> QED
  BY Zenon, <1>1, <1>2, <1>3, <1>4, <1>5

-----------------------------------------------------------------------------
(* Every action keeps the invariant, and no action sets the version back.  *)

Grows == status'.ver >= status.ver

(* A status written with the version it had.                                 *)
LEMMA SameVersion ==
    ASSUME BootstrapTypeOK, status'.ver = status.ver
    PROVE  Grows
BY DEF BootstrapTypeOK, Statuses, Versions, Grows

(* A status that is not written has its version.                             *)
LEMMA SameStatus ==
    ASSUME BootstrapTypeOK, status' = status
    PROVE  Grows
BY Zenon, SameVersion

(* The two conditions of the ReleasesRendered update leave the version.      *)
LEMMA SetReleasesRenderedKeeps ==
    ASSUME BootstrapInv, SetReleasesRendered
    PROVE  BootstrapInv' /\ Grows
<1> DEFINE new(b) == [bw.base EXCEPT !.rendered = b]
<1>1. \A b \in BOOLEAN : new(b) \in Statuses /\ new(b).ver = bw.base.ver
  BY DEF BootstrapInv, BootstrapTypeOK, Workers, Statuses
<1>2. CASE bw.want = None /\ UpdateStatus(new(FALSE),
                 [bw EXCEPT !.pc = "tasks", !.todo = CachedVersions])
  <2> DEFINE next == [bw EXCEPT !.pc = "tasks", !.todo = CachedVersions]
  <2>1. next \in Workers /\ next.pc = "tasks"
    BY Zenon DEF BootstrapInv, BootstrapTypeOK, Workers, CachedVersions
  <2>2. /\ status' \in Statuses /\ bw' \in Workers
        /\ bw' = Idle \/ bw'.pc = "tasks"
        /\ status' = status \/ (status = bw.base /\ status' = new(FALSE))
    BY Zenon, <1>1, <1>2, <2>1, UpdateStatusFacts DEF BootstrapInv
  <2>3. BootstrapTypeOK'
    BY <2>2 DEF BootstrapInv, BootstrapTypeOK, SetReleasesRendered
  <2>4. PlanInv'
    BY <2>2, BootstrapIdle DEF PlanInv
  <2>5. Grows
    BY Zenon, <1>1, <2>2, SameVersion DEF BootstrapInv
  <2> QED
    BY <2>3, <2>4, <2>5 DEF BootstrapInv
<1>3. CASE bw.want # None /\ UpdateStatus(new(TRUE), [bw EXCEPT !.pc = "plan"])
  <2> DEFINE next == [bw EXCEPT !.pc = "plan"]
  <2>1. next \in Workers /\ next.pc = "plan" /\ next.want = bw.want
    BY DEF BootstrapInv, BootstrapTypeOK, Workers
  <2>2. /\ status' \in Statuses /\ bw' \in Workers
        /\ bw' = Idle \/ (bw'.pc = "plan" /\ bw'.want = bw.want)
        /\ status' = status \/ (status = bw.base /\ status' = new(TRUE))
    BY Zenon, <1>1, <1>3, <2>1, UpdateStatusFacts DEF BootstrapInv
  <2>3. BootstrapTypeOK'
    BY <2>2 DEF BootstrapInv, BootstrapTypeOK, SetReleasesRendered
  <2>4. PlanInv'
    BY <1>3, <2>2, BootstrapIdle DEF PlanInv
  <2>5. Grows
    BY Zenon, <1>1, <2>2, SameVersion DEF BootstrapInv
  <2> QED
    BY <2>3, <2>4, <2>5 DEF BootstrapInv
<1> QED
  BY <1>2, <1>3 DEF SetReleasesRendered

(* The RenderTask of the version read, or of the next one.                   *)
LEMMA PlanKeeps ==
    ASSUME BootstrapInv, Plan
    PROVE  BootstrapInv' /\ Grows
<1> DEFINE v == bw.base.ver
<1>1. v \in Versions /\ (v < MaxVersion => v + 1 \in Versions)
  BY DEF BootstrapInv, BootstrapTypeOK, Workers, Statuses, Versions
<1>2. \/ bw' = [bw EXCEPT !.pc = "create", !.ver = v]
      \/ v < MaxVersion /\ bw' = [bw EXCEPT !.pc = "create", !.ver = v + 1]
      \/ /\ taskCache[v] \in BootstrapTasks
         /\ bw' = [bw EXCEPT !.pc = "report", !.ver = v, !.stage = taskCache[v].stage]
  BY <1>1 DEF BootstrapInv, BootstrapTypeOK, Plan
<1>3. bw' \in Workers
  BY ZenonT(40), <1>1, <1>2 DEF BootstrapInv, BootstrapTypeOK, Workers,
     BootstrapTasks
<1>4. BootstrapTypeOK'
  BY <1>3 DEF BootstrapInv, BootstrapTypeOK, Plan, bootstrapApi
<1>5. PlanInv'
  <2>1. /\ bw'.base = bw.base /\ bw'.want = bw.want
        /\ \/ bw'.pc = "create" /\ bw'.ver \in {v, v + 1}
           \/ bw'.pc = "report"
    BY Zenon, <1>2 DEF BootstrapInv, BootstrapTypeOK, Workers
  <2> QED
    BY <1>1, <2>1 DEF BootstrapInv, PlanInv, Plan, Versions
<1>6. Grows
  BY SameStatus DEF BootstrapInv, Plan, bootstrapApi
<1> QED
  BY <1>4, <1>5, <1>6 DEF BootstrapInv

(* A new RenderTask is for the desired input; an existing one is read.       *)
LEMMA CreateKeeps ==
    ASSUME BootstrapInv, Create
    PROVE  BootstrapInv' /\ Grows
<1> DEFINE v == bw.ver
<1> DEFINE new == [input |-> bw.want, stage |-> "check"]
<1>1. v \in Versions /\ new \in BootstrapTasks
  BY DEF BootstrapInv, BootstrapTypeOK, PlanInv, Create, Workers,
     BootstrapTasks
<1>2. tasks' = tasks \/ tasks' = [tasks EXCEPT ![v] = new]
  BY DEF Create
<1>3. \/ bw' = Idle
      \/ bw' = [bw EXCEPT !.pc = "persist", !.stage = "check"]
      \/ /\ taskCache[v] \in BootstrapTasks
         /\ bw' = [bw EXCEPT !.pc = "persist", !.stage = taskCache[v].stage]
  BY <1>1 DEF BootstrapInv, BootstrapTypeOK, Create, Return
<1>4. tasks' \in [Versions -> BootstrapTasks \cup {None}]
  BY <1>1, <1>2 DEF BootstrapInv, BootstrapTypeOK
<1>5. bw' \in Workers
  BY ZenonT(40), <1>3, BootstrapIdle DEF BootstrapInv, BootstrapTypeOK,
     Workers, BootstrapTasks
<1>6. BootstrapTypeOK'
  BY <1>4, <1>5 DEF BootstrapInv, BootstrapTypeOK, Create
<1>7. PlanInv'
  <2>1. \/ bw'.pc = "idle"
        \/ bw'.base = bw.base /\ bw'.pc = "persist" /\ bw'.ver = bw.ver
    BY Zenon, <1>3, BootstrapIdle DEF BootstrapInv, BootstrapTypeOK, Workers
  <2> QED
    BY <2>1 DEF BootstrapInv, PlanInv, Create
<1>8. Grows
  BY SameStatus DEF BootstrapInv, Create
<1> QED
  BY <1>6, <1>7, <1>8 DEF BootstrapInv

(* The version written is the one settled on, which is not before the one    *)
(* read; and the update is refused unless that is still the stored one.      *)
LEMMA PersistKeeps ==
    ASSUME BootstrapInv, Persist
    PROVE  BootstrapInv' /\ Grows
<1> DEFINE new == [bw.base EXCEPT !.ver = bw.ver]
<1> DEFINE next == [bw EXCEPT !.pc = "report"]
<1>1. new \in Statuses /\ new.ver = bw.ver /\ next \in Workers /\ next.pc = "report"
  BY DEF BootstrapInv, BootstrapTypeOK, Workers, Statuses
<1>2. /\ status' \in Statuses /\ bw' \in Workers
      /\ bw' = Idle \/ bw'.pc = "report"
      /\ status' = status \/ (status = bw.base /\ status' = new)
  BY Zenon, <1>1, UpdateStatusFacts DEF BootstrapInv, Persist
<1>3. BootstrapTypeOK'
  BY <1>2 DEF BootstrapInv, BootstrapTypeOK, Persist
<1>4. PlanInv'
  BY <1>2, BootstrapIdle DEF PlanInv
<1>5. Grows
  BY <1>1, <1>2 DEF BootstrapInv, BootstrapTypeOK, PlanInv, Persist, Statuses,
     Versions, Grows
<1> QED
  BY <1>3, <1>4, <1>5 DEF BootstrapInv

(* The BootstrapReady condition leaves the version.                          *)
LEMMA ReportKeeps ==
    ASSUME BootstrapInv, Report
    PROVE  BootstrapInv' /\ Grows
<1> DEFINE new(r) == [bw.base EXCEPT !.ready = r]
<1> DEFINE next == [bw EXCEPT !.pc = "bind"]
<1>1. /\ new(Failed) \in Statuses /\ new(Failed).ver = bw.base.ver
      /\ new(bw.ver) \in Statuses /\ new(bw.ver).ver = bw.base.ver
      /\ next \in Workers /\ next.pc = "bind"
  BY DEF BootstrapInv, BootstrapTypeOK, Workers, Statuses
<1>2. /\ status' \in Statuses /\ bw' \in Workers
      /\ bw' = Idle \/ bw'.pc \in {"bind", "idle"}
      /\ \/ status' = status
         \/ status = bw.base /\ status'.ver = bw.base.ver
  <2>1. CASE UpdateStatus(new(Failed), Idle)
    BY Zenon, <1>1, <2>1, UpdateStatusFacts, BootstrapIdle DEF BootstrapInv
  <2>2. CASE UpdateStatus(new(bw.ver), next)
    BY Zenon, <1>1, <2>2, UpdateStatusFacts DEF BootstrapInv
  <2>3. CASE bw' = Idle /\ status' = status
    BY <2>3, BootstrapIdle DEF BootstrapInv, BootstrapTypeOK
  <2> QED
    BY <2>1, <2>2, <2>3 DEF Report, Return
<1>3. BootstrapTypeOK'
  BY <1>2 DEF BootstrapInv, BootstrapTypeOK, Report
<1>4. PlanInv'
  BY Zenon, <1>2, BootstrapIdle DEF PlanInv
<1>5. Grows
  BY Zenon, <1>2, SameVersion DEF BootstrapInv
<1> QED
  BY <1>3, <1>4, <1>5 DEF BootstrapInv

(* The reconcile after a success writes no status.                           *)
LEMMA CleanupKeeps ==
    ASSUME BootstrapInv,
           \/ EnsureRenderBinding \/ EnsureRenderArtifact
           \/ DeleteStaleRenderTasks \/ DeleteStaleRenderBindings
    PROVE  BootstrapInv' /\ Grows
<1>0. CASE EnsureRenderBinding
  <2>1. bw' \in Workers /\ bw'.pc = "artifact"
    BY Zenon, <1>0 DEF BootstrapInv, BootstrapTypeOK, EnsureRenderBinding,
       Workers
  <2>2. BootstrapTypeOK'
    BY <1>0, <2>1 DEF BootstrapInv, BootstrapTypeOK, EnsureRenderBinding,
       Workers
  <2> QED
    BY <1>0, <2>1, <2>2, SameStatus DEF BootstrapInv, PlanInv,
       EnsureRenderBinding
<1>1. CASE EnsureRenderArtifact
  <2>1. bw' \in Workers /\ bw'.pc = "tasks"
    BY Zenon, <1>1 DEF BootstrapInv, BootstrapTypeOK, EnsureRenderArtifact,
       Workers, CachedVersions
  <2>2. BootstrapTypeOK'
    BY <1>1, <2>1 DEF BootstrapInv, BootstrapTypeOK, EnsureRenderArtifact,
       Workers
  <2> QED
    BY <1>1, <2>1, <2>2, SameStatus DEF BootstrapInv, PlanInv,
       EnsureRenderArtifact
<1>2. CASE DeleteStaleRenderTasks
  <2>1. bw' \in Workers /\ bw'.pc \in {"tasks", "bindings"}
    BY <1>2 DEF BootstrapInv, BootstrapTypeOK, DeleteStaleRenderTasks, Workers
  <2>2. tasks' \in [Versions -> BootstrapTasks \cup {None}]
    BY <1>2 DEF BootstrapInv, BootstrapTypeOK, DeleteStaleRenderTasks, Workers
  <2>3. BootstrapTypeOK'
    BY Zenon, <1>2, <2>1, <2>2 DEF BootstrapInv, BootstrapTypeOK,
       DeleteStaleRenderTasks
  <2> QED
    BY <1>2, <2>1, <2>3, SameStatus DEF BootstrapInv, PlanInv,
       DeleteStaleRenderTasks
<1>3. CASE DeleteStaleRenderBindings
  <2>1. /\ bw' = Idle \/ (bw' = bw /\ bw.pc = "bindings")
        /\ bound' \subseteq bound
    BY <1>3 DEF DeleteStaleRenderBindings, Return
  <2>2. BootstrapTypeOK'
    BY <1>3, <2>1, BootstrapIdle DEF BootstrapInv, BootstrapTypeOK,
       DeleteStaleRenderBindings
  <2> QED
    BY <1>3, <2>1, <2>2, SameStatus, BootstrapIdle DEF BootstrapInv, PlanInv,
       DeleteStaleRenderBindings
<1> QED
  BY <1>0, <1>1, <1>2, <1>3

(* Outside the reconcile only a restart touches the worker, and nothing the  *)
(* status.                                                                   *)
LEMMA OthersKeep ==
    ASSUME BootstrapInv,
           \/ \E i \in Inputs \cup {None} : ChangeInput(i)
           \/ Fetch \/ CallFails \/ SyncStatus \/ Restart
           \/ \E v \in Versions :
                 \/ RenderVersion(v) \/ RenderVersionFails(v)
                 \/ Collect(v) \/ SyncVersion(v)
    PROVE  BootstrapInv' /\ Grows
<1>1. status' = status
  BY DEF ChangeInput, Fetch, CallFails, SyncStatus, Restart, RenderVersion,
     RenderVersionFails,
     Collect, SyncVersion, bootstrapApi
<1>2. Grows
  BY ZenonT(40), <1>1, SameStatus DEF BootstrapInv
<1>3. ASSUME NEW i \in Inputs \cup {None}, ChangeInput(i)
      PROVE  BootstrapInv'
  BY <1>3 DEF BootstrapInv, BootstrapTypeOK, PlanInv, ChangeInput
<1>4. CASE Fetch
  <2>1. bw' \in Workers /\ bw'.pc = "rendered"
    BY Zenon, <1>4, BootstrapIdle DEF BootstrapInv, BootstrapTypeOK, Fetch,
       Workers
  <2>2. BootstrapTypeOK'
    BY <1>4, <2>1 DEF BootstrapInv, BootstrapTypeOK, Fetch, bootstrapApi
  <2> QED
    BY <1>2, <2>1, <2>2 DEF BootstrapInv, PlanInv
<1>5. CASE CallFails
  <2>1. bw' \in Workers /\ bw'.pc \in {"idle", "bindings"}
    BY ZenonT(40), <1>5, BootstrapIdle DEF BootstrapInv, BootstrapTypeOK,
       CallFails, Return,
       Workers
  <2>2. BootstrapTypeOK'
    BY <1>5, <2>1 DEF BootstrapInv, BootstrapTypeOK, CallFails, bootstrapApi
  <2> QED
    BY <1>2, <2>1, <2>2 DEF BootstrapInv, PlanInv
<1>6. CASE SyncStatus
  <2>1. BootstrapTypeOK'
    BY Zenon, <1>6 DEF BootstrapInv, BootstrapTypeOK, SyncStatus, bootstrapApi
  <2> QED
    BY Zenon, <1>2, <1>6, <2>1 DEF BootstrapInv, PlanInv, SyncStatus
<1>7. CASE Restart
  <2>1. BootstrapTypeOK'
    BY <1>7, BootstrapIdle DEF BootstrapInv, BootstrapTypeOK, Restart, Return,
       bootstrapApi
  <2> QED
    BY Zenon, <1>2, <1>7, <2>1, BootstrapIdle DEF BootstrapInv, PlanInv,
       Restart,
       Return
<1>8. ASSUME NEW v \in Versions, RenderVersion(v) \/ RenderVersionFails(v)
      PROVE  BootstrapInv'
  <2>1. tasks[v] \in BootstrapTasks
    BY <1>8 DEF BootstrapInv, BootstrapTypeOK, RenderVersion,
       RenderVersionFails
  <2>2. \E s \in {"push", "succeeded", "failed"} : tasks' = [tasks EXCEPT ![v].stage = s]
    BY <1>8 DEF RenderVersion, RenderVersionFails
  <2>3. tasks' \in [Versions -> BootstrapTasks \cup {None}]
    BY <2>1, <2>2 DEF BootstrapInv, BootstrapTypeOK, BootstrapTasks
  <2>4. charts' = charts \/ charts' = [charts EXCEPT ![v] = tasks[v].input]
    BY Zenon, <1>8 DEF RenderVersion, RenderVersionFails
  <2>5. charts' \in [Versions -> Inputs \cup {None}]
    BY Zenon, <2>1, <2>4 DEF BootstrapInv, BootstrapTypeOK, BootstrapTasks
  <2> QED
    BY <1>8, <2>3, <2>5 DEF BootstrapInv, BootstrapTypeOK, PlanInv,
       RenderVersion, RenderVersionFails
<1>9. ASSUME NEW v \in Versions, Collect(v) \/ SyncVersion(v)
      PROVE  BootstrapInv'
  BY ZenonT(40), <1>9 DEF BootstrapInv, BootstrapTypeOK, PlanInv, Collect,
     SyncVersion,
     bootstrapApi
<1> QED
  BY Zenon, <1>2, <1>3, <1>4, <1>5, <1>6, <1>7, <1>8, <1>9

-----------------------------------------------------------------------------
(* A step keeps the invariant and does not set the version back.             *)
LEMMA BootstrapKeeps ==
    BootstrapInv /\ [BootstrapNext]_bootstrapVars => BootstrapInv' /\ Grows
<1> SUFFICES ASSUME BootstrapInv, [BootstrapNext]_bootstrapVars
             PROVE  BootstrapInv' /\ Grows
  OBVIOUS
<1>1. CASE Step
  BY <1>1, SetReleasesRenderedKeeps, PlanKeeps, CreateKeeps, PersistKeeps,
     ReportKeeps, CleanupKeeps DEF Step
<1>2. CASE UNCHANGED bootstrapVars
  <2>1. BootstrapTypeOK' /\ PlanInv'
    BY <1>2 DEF BootstrapInv, BootstrapTypeOK, PlanInv, bootstrapVars
  <2>2. Grows
    BY <1>2, SameStatus DEF BootstrapInv, bootstrapVars
  <2> QED
    BY <2>1, <2>2 DEF BootstrapInv
<1> QED
  BY <1>1, <1>2, OthersKeep DEF BootstrapNext

(* The inductive invariant holds throughout.                                 *)
THEOREM BootstrapInvariance == BootstrapSpec => []BootstrapInv
<1>1. BootstrapInit => BootstrapInv
  BY BootstrapIdle DEF BootstrapInit, BootstrapInv, BootstrapTypeOK, PlanInv,
     NewStatus,
     Statuses, Versions
<1> QED
  BY <1>1, BootstrapKeeps, PTL DEF BootstrapSpec

(* The Target's status, its bootstrap RenderTasks, the caches and the worker *)
(* always have their types.                                                  *)
THEOREM BootstrapTypeCorrect == BootstrapSpec => []BootstrapTypeOK
<1>1. BootstrapInv => BootstrapTypeOK
  BY DEF BootstrapInv
<1> QED
  BY <1>1, BootstrapInvariance, PTL

(* status.bootstrapVersion is never set back, however many versions there    *)
(* are and however stale the Target and the RenderTasks were that a          *)
(* reconcile read.                                                           *)
THEOREM VersionIsMonotone == BootstrapSpec => VersionNeverDecreases
<1>1. BootstrapInv /\ [BootstrapNext]_bootstrapVars
      => [status'.ver >= status.ver]_bootstrapVars
  BY BootstrapKeeps DEF Grows
<1> QED
  BY <1>1, BootstrapInvariance, PTL DEF BootstrapSpec, VersionNeverDecreases

HIDE VersionAssumption

-----------------------------------------------------------------------------
(* resolveReleaseConflicts: what is deployed is compatible, what is not has  *)
(* a reason, and every binding is decided.  The inductive invariant says how *)
(* far the two steps have come: a binding is untouched while its name is to  *)
(* be deduplicated, at most one binding of a name is left after that, and    *)
(* whatever is resolved outranks what is still to be walked.                 *)

\* A binding is in none of the sets before its group was deduplicated, and in
\* one of them afterwards.
Split ==
    \A b \in Bound :
        UniqueName(b) \in names <=> b \notin accepted \cup resolved \cup skipped

Disjoint ==
    /\ accepted \cap resolved = {}
    /\ accepted \cap skipped = {}
    /\ resolved \cap skipped = {}

\* Step B starts when Step A has ended.
StepsInOrder == names # {} => resolved = {}

OnePerName ==
    \A a, b \in accepted \cup resolved :
        a # b => UniqueName(a) # UniqueName(b)

RankOrder == \A a \in resolved, b \in accepted : byPriority(a, b)

NoConflict == \A a, b \in resolved : a # b => ~conflict(a, b)

ResolveInv ==
    /\ ResolverTypeOK
    /\ Split
    /\ Disjoint
    /\ StepsInOrder
    /\ OnePerName
    /\ RankOrder
    /\ NoConflict
    /\ FilteredForAReason

-----------------------------------------------------------------------------

(* conflict is symmetric: both directions of anti-affinity are considered.   *)
LEMMA ConflictSymmetric ==
    ASSUME NEW a, NEW b
    PROVE  conflict(a, b) <=> conflict(b, a)
  BY DEF conflict

(* Initially nothing is decided and every name in use is to be deduplicated. *)
LEMMA ResolveInit == ResolverInit => ResolveInv
  <1>. SUFFICES ASSUME ResolverInit PROVE ResolveInv
    OBVIOUS
  <1>1. names \subseteq ReleaseNames
    <2>1. PICK D \in SUBSET Bindings : releases \in [D -> Release]
      BY DEF ResolverInit
    <2>2. \A b \in Bound : releases[b] \in Release
      BY Zenon, <2>1 DEF Bound
    <2>3. \A b \in Bound : UniqueName(b) \in ReleaseNames
      BY <2>2 DEF Release, UniqueName, effectiveUniqueName
    <2>. QED
      BY <2>3 DEF ResolverInit
  <1>2. ResolverTypeOK
    BY <1>1 DEF ResolverInit, ResolverTypeOK
  <1>3. Split
    BY DEF ResolverInit, Split
  <1>4. Disjoint /\ StepsInOrder /\ OnePerName /\ RankOrder
    BY DEF ResolverInit, Disjoint, StepsInOrder, OnePerName, RankOrder
  <1>5. NoConflict /\ FilteredForAReason
    BY Zenon DEF ResolverInit, NoConflict, FilteredForAReason
  <1>. QED
    BY Zenon, <1>2, <1>3, <1>4, <1>5 DEF ResolveInv

(* resolveReleaseConflicts does not change the releases it is given.         *)
LEMMA ReleasesKept ==
    ASSUME releases' = releases
    PROVE  /\ Bound' = Bound
           /\ \A b : UniqueName(b)' = UniqueName(b)
           /\ \A n : Group(n)' = Group(n)
           /\ \A a, b : byPriority(a, b)' <=> byPriority(a, b)
           /\ \A a, b : conflict(a, b)' <=> conflict(a, b)
  BY DEF Bound, UniqueName, Group, byPriority, conflict

(* Step A for one name: its group is split into one accepted binding and     *)
(* the losers, each outranked by it.                                         *)
LEMMA DeduplicateStep ==
    ASSUME ResolveInv, NEW n \in ReleaseNames, Deduplicate(n)
    PROVE  ResolveInv'
  <1>1. PICK b \in Group(n) :
            /\ FirstOf(b, Group(n))
            /\ accepted' = accepted \cup {b}
            /\ skipped' = skipped \cup (Group(n) \ {b})
    BY DEF Deduplicate
  <1>2. /\ n \in names
        /\ names' = names \ {n}
        /\ releases' = releases
        /\ resolved' = resolved
        /\ resolved = {}
    BY DEF Deduplicate, ResolveInv, StepsInOrder
  <1>3. Group(n) \subseteq Bound /\ \A c \in Group(n) : UniqueName(c) = n
    BY DEF Group
  <1>4. \A c \in Group(n) : c \notin accepted \cup resolved \cup skipped
    BY Zenon, <1>2, <1>3 DEF ResolveInv, Split
  <1>5. ResolverTypeOK'
    BY Zenon, <1>1, <1>2, <1>3, ReleasesKept DEF ResolveInv, ResolverTypeOK
  <1>6. Split'
    <2>. SUFFICES ASSUME NEW c \in Bound
                  PROVE  UniqueName(c) \in names' <=>
                            c \notin accepted' \cup resolved' \cup skipped'
      BY <1>2, ReleasesKept DEF Split
    <2>1. UniqueName(c) = n <=> c \in Group(n)
      BY DEF Group
    <2>2. UniqueName(c) \in names <=> c \notin accepted \cup resolved \cup skipped
      BY Zenon DEF ResolveInv, Split
    <2>. QED
      BY Zenon, <1>1, <1>2, <2>1, <2>2
  <1>7. Disjoint'
    BY <1>1, <1>2, <1>4 DEF ResolveInv, Disjoint
  <1>8. StepsInOrder'
    BY Zenon, <1>2 DEF StepsInOrder
  <1>9. OnePerName'
    <2>1. \A a \in accepted : a \in Bound /\ UniqueName(a) # n
      BY <1>2 DEF ResolveInv, ResolverTypeOK, Split
    <2>2. \A a, c \in accepted : a # c => UniqueName(a) # UniqueName(c)
      BY DEF ResolveInv, OnePerName
    <2>3. UniqueName(b) = n
      BY Zenon, <1>3
    <2>4. \A a, c \in accepted' : a # c => UniqueName(a) # UniqueName(c)
      BY <1>1, <2>1, <2>2, <2>3
    <2>. QED
      BY <1>2, <2>4, ReleasesKept DEF OnePerName
  <1>10. RankOrder' /\ NoConflict'
    BY Zenon, <1>2 DEF RankOrder, NoConflict
  <1>11. FilteredForAReason'
    <2>. SUFFICES ASSUME NEW c \in skipped'
                  PROVE  \/ \E d \in Group(UniqueName(c)) : byPriority(d, c)
                         \/ releases[c].antiAffinity = Invalid
      BY Zenon, <1>2, ReleasesKept DEF FilteredForAReason
    <2>1. CASE c \in skipped
      BY <2>1, <1>2 DEF ResolveInv, FilteredForAReason
    <2>2. CASE c \in Group(n) \ {b}
      <3>1. byPriority(b, c)
        BY <1>1, <2>2 DEF FirstOf
      <3>. QED
        BY <3>1, <2>2, <1>3
    <2>. QED
      BY Zenon, <1>1, <2>1, <2>2
  <1>. QED
    BY Zenon, <1>5, <1>6, <1>7, <1>8, <1>9, <1>10, <1>11 DEF ResolveInv

(* Step B for one binding: all resolved ones outrank it, and it outranks the *)
(* ones still to be walked.                                                  *)
LEMMA WalkStep ==
    ASSUME ResolveInv, NEW b \in Bindings, Walk(b)
    PROVE  ResolveInv'
  <1>1. /\ names = {}
        /\ names' = names
        /\ releases' = releases
        /\ b \in accepted
        /\ b \in Bound
        /\ accepted' = accepted \ {b}
    BY Zenon DEF Walk, FirstOf, ResolveInv, ResolverTypeOK
  <1>2. \A c \in accepted' : byPriority(b, c)
    BY Zenon, <1>1 DEF Walk, FirstOf
  <1>3. \/ /\ \/ releases[b].antiAffinity = Invalid
              \/ \E other \in resolved : conflict(b, other)
           /\ skipped' = skipped \cup {b}
           /\ resolved' = resolved
        \/ /\ \A other \in resolved : ~conflict(b, other)
           /\ resolved' = resolved \cup {b}
           /\ skipped' = skipped
    BY Zenon DEF Walk
  <1>4. ResolverTypeOK'
    BY Zenon, <1>1, <1>3, ReleasesKept DEF ResolveInv, ResolverTypeOK
  <1>5. Split'
    <2>1. accepted' \cup resolved' \cup skipped' =
            accepted \cup resolved \cup skipped
      BY Zenon, <1>1, <1>3
    <2>. QED
      BY Zenon, <1>1, <2>1, ReleasesKept DEF ResolveInv, Split
  <1>6. Disjoint'
    BY <1>1, <1>3 DEF ResolveInv, Disjoint
  <1>7. StepsInOrder'
    BY Zenon, <1>1 DEF StepsInOrder
  <1>8. OnePerName'
    <2>1. accepted' \cup resolved' \subseteq accepted \cup resolved
      BY Zenon, <1>1, <1>3
    <2>. QED
      BY <1>1, <2>1, ReleasesKept DEF ResolveInv, OnePerName
  <1>9. RankOrder'
    <2>1. \A a \in resolved, c \in accepted : byPriority(a, c)
      BY DEF ResolveInv, RankOrder
    <2>2. \A a \in resolved', c \in accepted' : byPriority(a, c)
      BY Zenon, <1>1, <1>2, <1>3, <2>1
    <2>. QED
      BY <1>1, <2>2, ReleasesKept DEF RankOrder
  <1>10. NoConflict'
    <2>1. \A a, c \in resolved : a # c => ~conflict(a, c)
      BY DEF ResolveInv, NoConflict
    <2>2. \A a, c \in resolved' : a # c => ~conflict(a, c)
      BY Zenon, <1>3, <2>1, ConflictSymmetric
    <2>. QED
      BY <1>1, <2>2, ReleasesKept DEF NoConflict
  <1>11. FilteredForAReason'
    <2>. SUFFICES ASSUME NEW c \in skipped'
                  PROVE  \/ \E d \in Group(UniqueName(c)) : byPriority(d, c)
                         \/ releases[c].antiAffinity = Invalid
                         \/ \E d \in resolved' : byPriority(d, c)
                                                 /\ conflict(c, d)
      BY Zenon, <1>1, ReleasesKept DEF FilteredForAReason
    <2>1. CASE c \in skipped
      BY Zenon, <2>1, <1>3 DEF ResolveInv, FilteredForAReason
    <2>2. CASE c = b /\ c \notin skipped
      <3>1. \A d \in resolved : byPriority(d, b)
        BY <1>1 DEF ResolveInv, RankOrder
      <3>. QED
        BY <1>3, <2>2, <3>1
    <2>. QED
      BY Zenon, <1>3, <2>1, <2>2
  <1>. QED
    BY Zenon, <1>4, <1>5, <1>6, <1>7, <1>8, <1>9, <1>10, <1>11 DEF ResolveInv

(* The invariant of resolveReleaseConflicts is inductive.                    *)
LEMMA ResolveNext == ResolveInv /\ [ResolverNext]_resolverVars => ResolveInv'
  <1>. SUFFICES ASSUME ResolveInv, [ResolverNext]_resolverVars PROVE ResolveInv'
    OBVIOUS
  <1>1. ASSUME NEW n \in ReleaseNames, Deduplicate(n) PROVE ResolveInv'
    BY <1>1, DeduplicateStep
  <1>2. ASSUME NEW b \in Bindings, Walk(b) PROVE ResolveInv'
    BY Zenon, <1>2, WalkStep
  <1>3. CASE UNCHANGED resolverVars
    <2>1. /\ names' = names /\ accepted' = accepted /\ resolved' = resolved
          /\ skipped' = skipped /\ releases' = releases
      BY <1>3 DEF resolverVars
    <2>2. ResolverTypeOK' /\ StepsInOrder' /\ Disjoint'
      BY <2>1 DEF ResolveInv, ResolverTypeOK, StepsInOrder, Disjoint, Bound
    <2>3. Split' /\ OnePerName'
      BY <2>1, ReleasesKept DEF ResolveInv, Split, OnePerName
    <2>4. RankOrder' /\ NoConflict'
      BY <2>1, ReleasesKept DEF ResolveInv, RankOrder, NoConflict
    <2>5. FilteredForAReason'
      <3>. SUFFICES ASSUME NEW c \in skipped
                    PROVE  \/ \E d \in Group(UniqueName(c)) : byPriority(d, c)
                           \/ releases[c].antiAffinity = Invalid
                           \/ \E d \in resolved : byPriority(d, c)
                                                  /\ conflict(c, d)
        BY Zenon, <2>1, ReleasesKept DEF FilteredForAReason
      <3>. QED
        BY Zenon DEF ResolveInv, FilteredForAReason
    <2>. QED
      BY <2>2, <2>3, <2>4, <2>5 DEF ResolveInv
  <1>. QED
    BY <1>1, <1>2, <1>3 DEF ResolverNext

(* It holds throughout resolveReleaseConflicts.                              *)
LEMMA ResolveInvariance == ResolverSpec => []ResolveInv
  BY ResolveInit, ResolveNext, PTL DEF ResolverSpec

-----------------------------------------------------------------------------

(* What resolveReleaseConflicts has kept, filtered and still to look at      *)
(* always has its type.                                                      *)
THEOREM ResolverTypeCorrect == ResolverSpec => []ResolverTypeOK
  <1>1. ResolveInv => ResolverTypeOK
    BY DEF ResolveInv
  <1>. QED
    BY <1>1, ResolveInvariance, PTL

(* resolveReleaseConflicts never deploys two releases that share a unique    *)
(* name or exclude one another by anti-affinity.                             *)
THEOREM Compatible == ResolverSpec => []ResolvedAreCompatible
  <1>1. ResolveInv => ResolvedAreCompatible
    BY DEF ResolveInv, OnePerName, NoConflict, ResolvedAreCompatible
  <1>. QED
    BY <1>1, ResolveInvariance, PTL

(* Whatever resolveReleaseConflicts filters is outranked by a release of its *)
(* name or by a deployed one in conflict with it, or has an invalid selector.*)
THEOREM Reasoned == ResolverSpec => []FilteredForAReason
  <1>1. ResolveInv => FilteredForAReason
    BY DEF ResolveInv
  <1>. QED
    BY <1>1, ResolveInvariance, PTL

(* When resolveReleaseConflicts returns, every binding is deployed or has a  *)
(* filter message, and none both.                                            *)
THEOREM Decided == ResolverSpec => []EveryBindingDecided
  <1>1. ResolveInv => EveryBindingDecided
    BY DEF ResolveInv, ResolverTypeOK, Split, Disjoint, Done,
       EveryBindingDecided
  <1>. QED
    BY <1>1, ResolveInvariance, PTL

=============================================================================
