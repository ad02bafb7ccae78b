------------------------------ MODULE ArtifactGC ------------------------------
(***************************************************************************)
(* Reference counting of rendered charts: the Target controller            *)
(* (pkg/controller/target_controller.go), which binds a Target to the      *)
(* RenderArtifact of every chart it uses, and the RenderArtifact           *)
(* controller (pkg/controller/renderartifact_controller.go), which deletes *)
(* an artifact without bindings and removes its chart from the registry.   *)
(*                                                                         *)
(* Each controller has one worker, and both read the informer caches of    *)
(* the one controller manager unless the code goes to the API server       *)
(* (APIReader).  Everything is in one namespace, so Targets that use the   *)
(* same Release and Registry share a chart and its artifact.               *)
(*                                                                         *)
(* The Registry, Releases and ComponentVersions of a Target are resolved,  *)
(* so that what the Target wants is a function from the names of its       *)
(* release RenderTasks to charts.  A release's RenderTask is followed from *)
(* its creation to its success or failure, with the renderer's two steps   *)
(* (see RenderTask for what is behind them); the bootstrap RenderTask is   *)
(* ready or not at each reconcile.                                         *)
(***************************************************************************)
EXTENDS TargetBounds, FiniteSets

CONSTANTS
    Targets,
    Names,       \* of release RenderTasks, within a Target
    Charts       \* OCI references, and the RenderArtifacts named after them

VARIABLES
    target,      \* API server: the life of each Target
    wants,       \* the charts its ReleaseBindings ask for
    rt,          \* API server: release RenderTasks of each Target
    bindings,    \* API server: RenderBindings, as <<Target, chart>>
    art,         \* API server: RenderArtifacts
    registry,    \* charts in the registry
    targetCache, \* informer caches
    rtCache,
    bindingCache,
    artCache,
    tw,          \* the Target controller's worker
    aw,          \* the RenderArtifact controller's worker
    older        \* history: <<t, c>> bound since before artifact c was created

api == <<target, wants, rt, bindings, art, registry, older>>
caches == <<targetCache, rtCache, bindingCache, artCache>>
vars == <<target, wants, rt, bindings, art, registry, targetCache, rtCache,
          bindingCache, artCache, tw, aw, older, changes, faults>>

-----------------------------------------------------------------------------
(* Objects.                                                                *)

\* "new": without the Target's own finalizer; "gone": does not exist.
Life == {"gone", "new", "live", "deleting"}

Wants == [Names -> Charts \cup {None}]
NoWants == [n \in Names |-> None]

\* The renderer has yet to look for the chart, is about to push it, or has
\* ended: the RenderTask is JobSucceeded or JobFailed.
RenderTasks == [chart: Charts,
                stage: {"check", "push", "succeeded", "failed"}]

\* The finalizer of the RenderArtifact controller; a DeletionTimestamp.
Artifacts == [fin: BOOLEAN, term: BOOLEAN]

ASSUME NoneAssumption ==
    /\ None \notin Charts
    /\ None \notin Names
    /\ None \notin RenderTasks
    /\ None \notin Artifacts

TIdle == [pc |-> "idle", t |-> None, del |-> FALSE, want |-> NoWants,
          todo |-> {}, n |-> None, all |-> TRUE]
AIdle == [pc |-> "idle", c |-> None]

(* The Targets were just created, and nothing is bound to them yet.        *)
Init ==
    /\ target = [t \in Targets |-> "new"]
    /\ wants = [t \in Targets |-> NoWants]
    /\ rt = [t \in Targets |-> [n \in Names |-> None]]
    /\ bindings = {}
    /\ art = [c \in Charts |-> None]
    /\ registry = {}
    /\ targetCache = target
    /\ rtCache = rt
    /\ bindingCache = {}
    /\ artCache = art
    /\ tw = TIdle
    /\ aw = AIdle
    /\ older = {}
    /\ changes = 0
    /\ faults = 0

-----------------------------------------------------------------------------
(* Users.                                                                  *)

Change == changes < MaxChanges /\ changes' = changes + 1

CreateTarget(t) ==
    /\ Change
    /\ target[t] = "gone"
    /\ target' = [target EXCEPT ![t] = "new"]
    /\ UNCHANGED <<wants, rt, bindings, art, registry, older, caches, tw, aw,
                   faults>>

DeleteTarget(t) ==
    /\ Change
    /\ \/ target[t] = "new" /\ target' = [target EXCEPT ![t] = "gone"]
       \/ target[t] = "live" /\ target' = [target EXCEPT ![t] = "deleting"]
    /\ UNCHANGED <<wants, rt, bindings, art, registry, older, caches, tw, aw,
                   faults>>

\* A Release is bound or unbound, or another chart is derived for it (its
\* resources' pull secrets changed).
ChangeWants(t, n, c) ==
    /\ Change
    /\ wants[t][n] # c
    /\ wants' = [wants EXCEPT ![t][n] = c]
    /\ UNCHANGED <<target, rt, bindings, art, registry, older, caches, tw, aw,
                   faults>>

-----------------------------------------------------------------------------
(* The Target controller.                                                  *)

TReturn == tw' = TIdle

CachedTasks(t) == {n \in Names : rtCache[t][n] # None}

\* A Target without finalizer gets it, and the reconcile ends.
TAddFinalizer(t) ==
    /\ tw.pc = "idle"
    /\ targetCache[t] = "new"
    /\ target[t] = "new"
    /\ target' = [target EXCEPT ![t] = "live"]
    /\ UNCHANGED <<wants, rt, bindings, art, registry, older, caches, tw, aw,
                   changes, faults>>

\* A Target that is being deleted gives up its RenderTasks, as the cache lists
\* them, then its RenderBindings, then its finalizer.
TFetchDeleting(t) ==
    /\ tw.pc = "idle"
    /\ targetCache[t] = "deleting"
    /\ tw' = [TIdle EXCEPT !.pc = "tasks", !.t = t, !.del = TRUE,
                           !.todo = CachedTasks(t)]
    /\ UNCHANGED <<api, caches, aw, changes, faults>>

\* Mutant of TFetch: without ReleaseBindings there is nothing to do.
TFetchNoCleanup(t) ==
    /\ tw.pc = "idle"
    /\ targetCache[t] = "live"
    /\ wants[t] # NoWants
    /\ tw' = [TIdle EXCEPT !.pc = "loop", !.t = t, !.want = wants[t],
                           !.todo = {n \in Names : wants[t][n] # None}]
    /\ UNCHANGED <<api, caches, aw, changes, faults>>

\* The ReleaseBindings are listed at the API server.  Without any, what is
\* left of earlier ones is cleaned up.
TFetch(t) ==
    /\ tw.pc = "idle"
    /\ targetCache[t] = "live"
    /\ LET want == wants[t]
           bound == {n \in Names : want[n] # None}
       IN tw' = IF bound = {}
                THEN [TIdle EXCEPT !.pc = "tasks", !.t = t,
                                   !.todo = CachedTasks(t)]
                ELSE [TIdle EXCEPT !.pc = "loop", !.t = t, !.want = want,
                                   !.todo = bound]
    /\ UNCHANGED <<api, caches, aw, changes, faults>>

NewTask(c) == [chart |-> c, stage |-> "check"]

\* The RenderTask of one release: created when the cache has none, deleted
\* (to be created again) when its spec drifted, else looked at.  AlreadyExists
\* and NotFound are errors here.
TEnsureTask(n) ==
    LET t == tw.t
        seen == rtCache[t][n]
        c == tw.want[n]
        next == [tw EXCEPT !.todo = @ \ {n}, !.all = FALSE]
    IN
    /\ tw.pc = "loop"
    /\ n \in tw.todo
    /\ \/ /\ seen = None
          /\ IF rt[t][n] = None
             THEN rt' = [rt EXCEPT ![t][n] = NewTask(c)] /\ tw' = next
             ELSE UNCHANGED rt /\ TReturn
       \/ /\ seen # None
          /\ seen.chart # c
          /\ IF rt[t][n] # None
             THEN /\ rt' = [rt EXCEPT ![t][n] = None]
                  /\ tw' = [next EXCEPT !.pc = "recreate", !.n = n]
             ELSE UNCHANGED rt /\ TReturn
       \/ /\ seen # None
          /\ seen.chart = c
          /\ UNCHANGED rt
          /\ CASE seen.stage = "failed"    -> TReturn
               [] seen.stage = "succeeded" ->
                    tw' = [tw EXCEPT !.pc = "bind", !.todo = @ \ {n}, !.n = n]
               [] OTHER                    -> tw' = next
    /\ UNCHANGED <<target, wants, bindings, art, registry, older, caches, aw,
                   changes, faults>>

\* The RenderTask whose spec drifted is created again.  Only this worker
\* creates RenderTasks of its Target, so there is none.
TRecreateTask ==
    /\ tw.pc = "recreate"
    /\ rt' = [rt EXCEPT ![tw.t][tw.n] = NewTask(tw.want[tw.n])]
    /\ tw' = [tw EXCEPT !.pc = "loop", !.n = None]
    /\ UNCHANGED <<target, wants, bindings, art, registry, older, caches, aw,
                   changes, faults>>

\* Mutant of TEnsureBinding: an artifact that exists is taken for a bound one.
TEnsureBindingOnce ==
    LET b == <<tw.t, tw.want[tw.n]>> IN
    /\ tw.pc = "bind"
    /\ bindings' = IF artCache[b[2]] # None THEN bindings
                                            ELSE bindings \cup {b}
    /\ tw' = [tw EXCEPT !.pc = "artifact"]
    /\ UNCHANGED <<target, wants, rt, art, registry, older, caches, aw,
                   changes, faults>>

\* Mutant of TEnsureBinding: only a binding that the cache has is created.
TEnsureBindingSwapped ==
    LET b == <<tw.t, tw.want[tw.n]>> IN
    /\ tw.pc = "bind"
    /\ bindings' = IF b \in bindingCache THEN bindings \cup {b} ELSE bindings
    /\ tw' = [tw EXCEPT !.pc = "artifact"]
    /\ UNCHANGED <<target, wants, rt, art, registry, older, caches, aw,
                   changes, faults>>

\* A binding the cache lacks is created; AlreadyExists is fine.
TEnsureBinding ==
    LET b == <<tw.t, tw.want[tw.n]>> IN
    /\ tw.pc = "bind"
    /\ bindings' = IF b \in bindingCache THEN bindings ELSE bindings \cup {b}
    /\ tw' = [tw EXCEPT !.pc = "artifact"]
    /\ UNCHANGED <<target, wants, rt, art, registry, older, caches, aw,
                   changes, faults>>

\* An artifact the cache lacks is created; AlreadyExists is fine.  One that is
\* terminating is an error.
TEnsureArtifact ==
    LET c == tw.want[tw.n]
        next == [tw EXCEPT !.pc = "loop", !.n = None]
    IN
    /\ tw.pc = "artifact"
    /\ \/ /\ artCache[c] # None
          /\ IF artCache[c].term THEN TReturn ELSE tw' = next
          /\ UNCHANGED <<art, older>>
       \/ /\ artCache[c] = None
          /\ tw' = next
          /\ IF art[c] = None
             THEN /\ art' = [art EXCEPT ![c] = [fin |-> FALSE, term |-> FALSE]]
                  /\ older' = older \cup {b \in bindings : b[2] = c}
             ELSE UNCHANGED <<art, older>>
    /\ UNCHANGED <<target, wants, rt, bindings, registry, caches, aw, changes,
                   faults>>

\* Every release was looked at.  Some are not rendered, or the bootstrap chart
\* is not: the reconcile ends.
TWait ==
    /\ tw.pc = "loop"
    /\ tw.todo = {}
    /\ TReturn
    /\ UNCHANGED <<api, caches, aw, changes, faults>>

\* The bootstrap RenderTask succeeded: RenderTasks and RenderBindings that are
\* not part of this reconcile are stale.
TBootstrapReady ==
    /\ tw.pc = "loop"
    /\ tw.todo = {}
    /\ tw.all
    /\ tw' = [tw EXCEPT !.pc = "tasks",
                        !.todo = {n \in CachedTasks(tw.t) : tw.want[n] = None}]
    /\ UNCHANGED <<api, caches, aw, changes, faults>>

\* RenderTasks are deleted one by one; NotFound is fine.
TDeleteTask ==
    /\ tw.pc = "tasks"
    /\ IF tw.todo = {}
       THEN tw' = [tw EXCEPT !.pc = "bindings"] /\ UNCHANGED rt
       ELSE \E n \in tw.todo :
                /\ rt' = [rt EXCEPT ![tw.t][n] = None]
                /\ tw' = [tw EXCEPT !.todo = @ \ {n}]
    /\ UNCHANGED <<target, wants, bindings, art, registry, older, caches, aw,
                   changes, faults>>

\* Mutant of StaleBindings: as the cache lists them.
StaleCachedBindings ==
    {b \in bindingCache : b[1] = tw.t /\ \A n \in Names : tw.want[n] # b[2]}

\* Mutant of StaleBindings: a chart that is bound by others too counts as used.
StaleUnsharedBindings ==
    {b \in bindings : /\ b[1] = tw.t /\ \A n \in Names : tw.want[n] # b[2]
                      /\ \A o \in bindings : o[2] = b[2] => o = b}

\* The bindings to give up, as the API server lists them.
StaleBindings ==
    {b \in bindings : b[1] = tw.t /\ \A n \in Names : tw.want[n] # b[2]}

\* Bindings are deleted one by one.
TDeleteBinding ==
    /\ tw.pc = "bindings"
    /\ IF StaleBindings = {}
       THEN /\ IF tw.del THEN tw' = [tw EXCEPT !.pc = "finalizer"] ELSE TReturn
            /\ UNCHANGED <<bindings, older>>
       ELSE \E b \in StaleBindings :
                /\ bindings' = bindings \ {b}
                /\ older' = older \ {b}
                /\ UNCHANGED tw
    /\ UNCHANGED <<target, wants, rt, art, registry, caches, aw, changes,
                   faults>>

\* The merge patch names the Target only: it fails if that is gone.
TRemoveFinalizer ==
    /\ tw.pc = "finalizer"
    /\ target' = [target EXCEPT ![tw.t] = IF @ = "deleting" THEN "gone" ELSE @]
    /\ TReturn
    /\ UNCHANGED <<wants, rt, bindings, art, registry, older, caches, aw,
                   changes, faults>>

\* A call fails.  Only the cleanup of stale RenderTasks after a bootstrap goes
\* on regardless.
TCallFails ==
    /\ tw.pc # "idle"
    /\ faults < MaxFaults
    /\ faults' = faults + 1
    /\ IF tw.pc = "tasks" /\ tw.want # NoWants
       THEN tw' = [tw EXCEPT !.pc = "bindings", !.todo = {}]
       ELSE TReturn
    /\ UNCHANGED <<api, caches, aw, changes>>

-----------------------------------------------------------------------------
(* The RenderArtifact controller.                                          *)

AReturn == aw' = AIdle

\* A merge patch by name; the reconcile ends.
AAddFinalizer(c) ==
    /\ aw.pc = "idle"
    /\ artCache[c] # None
    /\ ~artCache[c].term
    /\ ~artCache[c].fin
    /\ art[c] # None
    /\ ~art[c].fin
    /\ art' = [art EXCEPT ![c].fin = TRUE]
    /\ UNCHANGED <<target, wants, rt, bindings, registry, older, caches, tw,
                   aw, changes, faults>>

\* A terminating artifact is cleaned up; another one is a candidate for
\* collection if the cache lists no binding of it.
AFetch(c) ==
    /\ aw.pc = "idle"
    /\ artCache[c] # None
    /\ artCache[c].fin
    /\ \/ /\ artCache[c].term
          /\ aw' = [pc |-> "cleanup", c |-> c]
       \/ /\ ~artCache[c].term
          /\ \A t \in Targets : <<t, c>> \notin bindingCache
          /\ aw' = [pc |-> "confirm", c |-> c]
    /\ UNCHANGED <<api, caches, tw, changes, faults>>

\* Mutant of AConfirm: the cache is believed.
AConfirmCached ==
    /\ aw.pc = "confirm"
    /\ aw' = [aw EXCEPT !.pc = "delete"]
    /\ UNCHANGED <<api, caches, tw, changes, faults>>

\* The API server must list none either.
AConfirm ==
    /\ aw.pc = "confirm"
    /\ IF \E t \in Targets : <<t, aw.c>> \in bindings
       THEN AReturn
       ELSE aw' = [aw EXCEPT !.pc = "delete"]
    /\ UNCHANGED <<api, caches, tw, changes, faults>>

\* Artifact c becomes a: its history ends with it.
SetArtifact(c, a) ==
    /\ art' = [art EXCEPT ![c] = a]
    /\ older' = IF a = None THEN {b \in older : b[2] # c} ELSE older

\* The finalizer turns the deletion into a DeletionTimestamp.
ADelete ==
    LET a == art[aw.c] IN
    /\ aw.pc = "delete"
    /\ SetArtifact(aw.c, IF a # None /\ a.fin THEN [a EXCEPT !.term = TRUE]
                                              ELSE None)
    /\ AReturn
    /\ UNCHANGED <<target, wants, rt, bindings, registry, caches, tw, changes,
                   faults>>

\* cleanupOCIArtifact; a tag that is not there is fine.
ACleanup ==
    /\ aw.pc = "cleanup"
    /\ registry' = registry \ {aw.c}
    /\ aw' = [aw EXCEPT !.pc = "unfinalize"]
    /\ UNCHANGED <<target, wants, rt, bindings, art, older, caches, tw,
                   changes, faults>>

\* Without its finalizer a terminating artifact is gone.
AUnfinalize ==
    LET a == art[aw.c] IN
    /\ aw.pc = "unfinalize"
    /\ SetArtifact(aw.c, IF a = None \/ a.term THEN None
                                               ELSE [a EXCEPT !.fin = FALSE])
    /\ AReturn
    /\ UNCHANGED <<target, wants, rt, bindings, registry, caches, tw, changes,
                   faults>>

ACallFails ==
    /\ aw.pc # "idle"
    /\ faults < MaxFaults
    /\ faults' = faults + 1
    /\ AReturn
    /\ UNCHANGED <<api, caches, tw, changes>>

-----------------------------------------------------------------------------
(* The renderers, the informers, and restarts of the controller manager.   *)

\* The renderer skips a chart the registry has; it pushes one that the
\* registry lacks or cannot list.
Render(t, n) ==
    LET r == rt[t][n] IN
    /\ r # None
    /\ \/ /\ r.stage = "check"
          /\ r.chart \in registry
          /\ rt' = [rt EXCEPT ![t][n].stage = "succeeded"]
          /\ UNCHANGED registry
       \/ /\ r.stage = "check"
          /\ rt' = [rt EXCEPT ![t][n].stage = "push"]
          /\ UNCHANGED registry
       \/ /\ r.stage = "push"
          /\ rt' = [rt EXCEPT ![t][n].stage = "succeeded"]
          /\ registry' = registry \cup {r.chart}
    /\ UNCHANGED <<target, wants, bindings, art, older, caches, tw, aw,
                   changes, faults>>

RenderFails(t, n) ==
    /\ rt[t][n] # None
    /\ rt[t][n].stage \in {"check", "push"}
    /\ faults < MaxFaults
    /\ faults' = faults + 1
    /\ rt' = [rt EXCEPT ![t][n].stage = "failed"]
    /\ UNCHANGED <<target, wants, bindings, art, registry, older, caches, tw,
                   aw, changes>>

SyncTarget(t) ==
    /\ targetCache[t] # target[t]
    /\ targetCache' = [targetCache EXCEPT ![t] = target[t]]
    /\ UNCHANGED <<api, rtCache, bindingCache, artCache, tw, aw, changes,
                   faults>>

SyncTask(t, n) ==
    /\ rtCache[t][n] # rt[t][n]
    /\ rtCache' = [rtCache EXCEPT ![t][n] = rt[t][n]]
    /\ UNCHANGED <<api, targetCache, bindingCache, artCache, tw, aw, changes,
                   faults>>

SyncBinding(b) ==
    /\ b \in bindings <=> b \notin bindingCache
    /\ bindingCache' = IF b \in bindings THEN bindingCache \cup {b}
                                         ELSE bindingCache \ {b}
    /\ UNCHANGED <<api, targetCache, rtCache, artCache, tw, aw, changes,
                   faults>>

SyncArtifact(c) ==
    /\ artCache[c] # art[c]
    /\ artCache' = [artCache EXCEPT ![c] = art[c]]
    /\ UNCHANGED <<api, targetCache, rtCache, bindingCache, tw, aw, changes,
                   faults>>

Crash ==
    /\ faults < MaxFaults
    /\ faults' = faults + 1
    /\ TReturn
    /\ AReturn
    /\ targetCache' = target
    /\ rtCache' = rt
    /\ bindingCache' = bindings
    /\ artCache' = art
    /\ UNCHANGED <<api, changes>>

-----------------------------------------------------------------------------

TStep ==
    \/ \E n \in Names : TEnsureTask(n)
    \/ TRecreateTask
    \/ TEnsureBinding
    \/ TEnsureArtifact
    \/ TWait
    \/ TBootstrapReady
    \/ TDeleteTask
    \/ TDeleteBinding
    \/ TRemoveFinalizer

TReconcile(t) == TAddFinalizer(t) \/ TFetchDeleting(t) \/ TFetch(t)

AStep == AConfirm \/ ADelete \/ ACleanup \/ AUnfinalize

AReconcile(c) == AAddFinalizer(c) \/ AFetch(c)

Users ==
    \E t \in Targets :
        \/ CreateTarget(t)
        \/ DeleteTarget(t)
        \/ \E n \in Names, c \in Charts \cup {None} : ChangeWants(t, n, c)

Informers ==
    \/ \E t \in Targets : SyncTarget(t)
    \/ \E t \in Targets, n \in Names : SyncTask(t, n)
    \/ \E b \in Targets \X Charts : SyncBinding(b)
    \/ \E c \in Charts : SyncArtifact(c)

Next ==
    \/ Users
    \/ \E t \in Targets : TReconcile(t)
    \/ TStep
    \/ \E c \in Charts : AReconcile(c)
    \/ AStep
    \/ \E t \in Targets, n \in Names : Render(t, n) \/ RenderFails(t, n)
    \/ Informers
    \/ TCallFails
    \/ ACallFails
    \/ Crash

Spec == Init /\ [][Next]_vars

(* Fairness.  Every Target is reconciled again and again (requeued after 30  *)
(* seconds, on errors, and on the informers' resync), and so is every        *)
(* RenderArtifact; reconciles go on, informers catch up, renderers end, and  *)
(* the bootstrap chart of a Target that is reconciled again and again is     *)
(* rendered in the end.                                                      *)
Fairness ==
    /\ WF_vars(TStep)
    /\ WF_vars(AStep)
    /\ SF_vars(TBootstrapReady)
    /\ \A t \in Targets :
        /\ SF_vars(TReconcile(t))
        /\ WF_vars(SyncTarget(t))
    /\ \A t \in Targets, n \in Names :
        /\ WF_vars(SyncTask(t, n))
        /\ WF_vars(Render(t, n))
    /\ \A b \in Targets \X Charts : WF_vars(SyncBinding(b))
    /\ \A c \in Charts :
        /\ SF_vars(AReconcile(c))
        /\ WF_vars(SyncArtifact(c))

FairSpec == Spec /\ Fairness

-----------------------------------------------------------------------------
(* Properties.                                                             *)

TWorkers == [pc: {"loop", "recreate", "bind", "artifact", "tasks", "bindings",
                  "finalizer"},
             t: Targets, del: BOOLEAN, want: Wants, todo: SUBSET Names,
             n: Names \cup {None}, all: BOOLEAN]

AWorkers == [pc: {"confirm", "delete", "cleanup", "unfinalize"}, c: Charts]

(* The objects, their cached copies and the workers' locals have their       *)
(* types.                                                                    *)
TypeOK ==
    /\ target \in [Targets -> Life] /\ targetCache \in [Targets -> Life]
    /\ wants \in [Targets -> Wants]
    /\ rt \in [Targets -> [Names -> RenderTasks \cup {None}]]
    /\ rtCache \in [Targets -> [Names -> RenderTasks \cup {None}]]
    /\ bindings \cup bindingCache \cup older \subseteq Targets \X Charts
    /\ art \in [Charts -> Artifacts \cup {None}]
    /\ artCache \in [Charts -> Artifacts \cup {None}]
    /\ registry \subseteq Charts
    /\ tw \in TWorkers \cup {TIdle}
    /\ aw \in AWorkers \cup {AIdle}
    /\ changes \in Nat
    /\ faults \in Nat

(* The Target controller removes its finalizer only when no RenderBinding of *)
(* the Target is left: a binding without an owner would keep its artifact,   *)
(* and the chart in the registry, for ever.                                  *)
NoDanglingBindings ==
    \A b \in bindings : target[b[1]] \in {"live", "deleting"}

(* The RenderArtifact controller never collects an artifact that has been    *)
(* bound ever since it was created, however stale its caches are (the Target *)
(* controller creates the RenderBinding before the RenderArtifact for this). *)
FreshArtifactsAreKept ==
    \A b \in older : art[b[2]] # None /\ ~art[b[2]].term

Wanted(t, n, c) == target[t] = "live" /\ wants[t][n] = c

NoFailures ==
    \A t \in Targets, n \in Names :
        rt[t][n] # None => rt[t][n].stage # "failed"

(* A chart that a Target wants is in the end bound, with an artifact that is *)
(* not being collected, whatever collection was under way.                   *)
EventuallyBound ==
    \A t \in Targets, n \in Names, c \in Charts :
        <>[](Wanted(t, n, c) /\ NoFailures) =>
            <>[](<<t, c>> \in bindings /\ art[c] # None /\ ~art[c].term)

(* A chart that no Target wants any more loses its artifact.                 *)
EventuallyCollected ==
    \A c \in Charts :
        <>[](NoFailures /\ \A t \in Targets, n \in Names :
                wants[t][n] = c => target[t] = "gone")
        => <>[](art[c] = None)

-----------------------------------------------------------------------------
(* What comments, docs and tests say, and the code does not guarantee.     *)

(* pkg/controller/renderartifact_controller_test.go: the RenderArtifact is   *)
(* not deleted while RenderBindings reference it.                            *)
BoundIsNotDeleted ==
    [][\A c \in Charts :
          /\ art[c] # None
          /\ ~art[c].term
          /\ art'[c] = None \/ art'[c].term
          => \A b \in bindings : b[2] # c]_vars

(* api/solar/v1alpha1/renderartifact_types.go: a RenderArtifact represents a *)
(* successfully pushed OCI artifact; here: one that stays bound.             *)
BoundIsPushed ==
    \A t \in Targets, n \in Names, c \in Charts :
        <>[](Wanted(t, n, c) /\ NoFailures) => <>[](c \in registry)

=============================================================================
