------------------------- MODULE RegistryProtection -------------------------
(***************************************************************************)
(* A Registry, the Targets and RegistryBindings that reference it, and the *)
(* two controllers that keep the registry-ref finalizer on it: the Target  *)
(* controller (with the registry gate that opens every reconcile of a      *)
(* Target, including the ReferenceGrant a Registry of another namespace    *)
(* needs) and the RegistryBinding controller.  Both run in one manager,    *)
(* with one worker each, and read the manager's informer caches.           *)
(*                                                                         *)
(* What a Target's reconcile does after the gate (RenderTasks,             *)
(* RenderBindings) is the subject of ArtifactGC and Bootstrap.             *)
(***************************************************************************)
EXTENDS Naturals, FiniteSets

CONSTANTS
    Targets,      \* they all name the Registry in spec.renderRegistryRef
    Cross,        \* those of another namespace
    Bindings,     \* RegistryBindings
    Registry,
    Grant,        \* the ReferenceGrant from the Targets' to the Registry's namespace
    MaxChanges,   \* bound on what users do, on failing calls and on crashes
    None

ASSUME RegistryAssumption ==
    /\ Cross \subseteq Targets /\ MaxChanges \in Nat
    /\ Targets \cap Bindings = {} /\ Registry # Grant
    /\ {Registry, Grant, None} \cap (Targets \cup Bindings) = {}

Refs == Targets \cup Bindings
Objects == Refs \cup {Registry, Grant}
Controllers == {Targets, Bindings}

VARIABLES
    obj,      \* the API server
    cache,    \* the informers' copies
    current,  \* the objects whose copy is of the stored version
    queue,    \* the requests in the two work queues
    timers,   \* Targets with a RequeueAfter running
    work,     \* the worker of each controller
    settled,  \* history: the active Refs that found or put the finalizer
    changes

vars == <<obj, cache, current, queue, timers, work, settled, changes>>

(* fin is the object's own finalizer, or registry-ref on the Registry; info is
   the reason of a Target's RegistryResolved condition, or whether the Registry
   has a solarSecretRef. *)
Reasons == {"Unknown", "NotGranted", "NotFound", "MissingSolarSecretRef", "Resolved"}

Recs == [fin : BOOLEAN, del : BOOLEAN, info : Reasons \cup {"secret", "none"}]

ASSUME NoneAssumption == None \notin Recs

New(o) ==
    [fin |-> FALSE, del |-> FALSE,
     info |-> IF o \in Targets THEN "Unknown" ELSE IF o = Registry THEN "secret" ELSE "none"]

Idle == [pc |-> "idle", ref |-> None, seen |-> None, fresh |-> FALSE,
         goal |-> "Unknown", before |-> {}]

(* A manager at rest: the Registry and the grant are there, and some Targets
   and RegistryBindings, which their controllers have dealt with. *)
Init ==
    /\ \E there \in SUBSET Refs :
         /\ settled = there
         /\ obj = [o \in Objects |->
                     IF o \in Refs \ there THEN None
                     ELSE [New(o) EXCEPT !.fin = o # Grant /\ there # {},
                                         !.info = IF o \in Targets THEN "Resolved" ELSE @]]
    /\ cache = obj /\ current = Objects
    /\ queue = {} /\ timers = {} /\ changes = 0
    /\ work = [c \in Controllers |-> Idle]

-----------------------------------------------------------------------------
(* The API server: an object marked deleted goes with its last finalizer. *)

Stored(rec) == IF rec.del /\ ~rec.fin THEN None ELSE rec

Active(o) == obj[o] # None /\ ~obj[o].del

(* Every write makes the copies of the object stale: the informer's and the
   one a worker holds. *)
Put(o, rec) ==
    /\ obj' = [obj EXCEPT ![o] = rec]
    /\ current' = current \ {o}
    /\ settled' = IF rec = None \/ rec.del THEN settled \ {o} ELSE settled

Stale(o, w) ==
    [c \in Controllers |->
        [w[c] EXCEPT !.fresh = @ /\ w[c].ref # o,
                     !.before = IF o \in settled' THEN @ ELSE @ \ {o}]]

Change == changes < MaxChanges /\ changes' = changes + 1

UserPut(o, rec) ==
    /\ Change /\ Put(o, rec)
    /\ work' = Stale(o, work)
    /\ UNCHANGED <<cache, queue, timers>>

Create(o) == obj[o] = None /\ UserPut(o, New(o))

Delete(o) == Active(o) /\ UserPut(o, Stored([obj[o] EXCEPT !.del = TRUE]))

SetSolarSecretRef(v) ==
    /\ Active(Registry) /\ obj[Registry].info # v
    /\ UserPut(Registry, [obj[Registry] EXCEPT !.info = v])

-----------------------------------------------------------------------------
(* The informers and the watches *)

\* Mutant of mapRegistryToTargets: Targets of other namespaces are forgotten.
mapRegistryToOwnTargets == {t \in Targets \ Cross : cache[t] # None}

(* The Targets a Registry event is mapped to: those of the grantee namespace
   only while the cache has the grant. *)
mapRegistryToTargets ==
    {t \in Targets : cache[t] # None /\ (t \in Cross => cache[Grant] # None)}

mapReferenceGrantToTargets == {t \in Cross : cache[t] # None}

Mapped(o) ==
    IF o = Registry THEN mapRegistryToTargets
    ELSE IF o = Grant THEN mapReferenceGrantToTargets
    ELSE {o}

Sync(o) ==
    /\ o \notin current
    /\ cache' = [cache EXCEPT ![o] = obj[o]]
    /\ current' = current \cup {o}
    /\ queue' = queue \cup Mapped(o)
    /\ UNCHANGED <<obj, timers, work, settled, changes>>

RequeueAfter(t) ==
    /\ t \in timers
    /\ timers' = timers \ {t}
    /\ queue' = queue \cup {t}
    /\ UNCHANGED <<obj, cache, current, work, settled, changes>>

-----------------------------------------------------------------------------
(* A reconcile: every step is one call that may fail, with the reads of the
   cache before it. *)

Goto(c, pc) == work' = [work EXCEPT ![c].pc = pc]
Done(c) == work' = [work EXCEPT ![c] = Idle]

(* An error puts the request back into the queue. *)
Fail(c) ==
    /\ Done(c)
    /\ queue' = queue \cup {work[c].ref}
    /\ UNCHANGED <<obj, cache, current, timers, settled>>

(* A write of the controller, after which the reconcile goes on at pc. *)
Write(c, o, rec, pc) ==
    /\ Put(o, rec)
    /\ work' = Stale(o, [work EXCEPT ![c] = IF pc = "idle" THEN Idle
                                            ELSE [@ EXCEPT !.pc = pc]])
    /\ UNCHANGED <<cache, queue, timers>>

NoWrite == UNCHANGED <<obj, cache, current, queue, timers, settled>>

Fetch(c, x) ==
    LET copy == cache[x]
        pc == IF copy.del THEN "getRegistry"
              ELSE IF ~copy.fin THEN "addFinalizer" ELSE "protect"
    IN
    /\ work[c].pc = "idle" /\ x \in queue \cap c
    /\ queue' = queue \ {x}
    /\ work' = IF copy = None THEN work
               ELSE [work EXCEPT ![c] = [Idle EXCEPT
                        !.pc = pc, !.ref = x, !.seen = copy,
                        !.fresh = x \in current, !.before = settled \ {x}]]
    /\ UNCHANGED <<obj, cache, current, timers, settled, changes>>

(* The Target controller returns after adding its finalizer and is called
   again by the event; the RegistryBinding controller goes on. *)
AddFinalizer(c) ==
    LET x == work[c].ref
        next == IF c = Targets THEN "idle" ELSE "protect"
    IN
    /\ work[c].pc = "addFinalizer"
    /\ IF cache[x] = None \/ (~cache[x].fin /\ obj[x] = None) THEN Fail(c)
       ELSE IF cache[x].fin
            THEN (IF next = "idle" THEN Done(c) ELSE Goto(c, next)) /\ NoWrite
       ELSE Write(c, x, [obj[x] EXCEPT !.fin = TRUE], next)
    /\ UNCHANGED changes

\* Mutant of Gate: a reason no reader of the condition knows.
GateOther(x) ==
    IF x \in Cross /\ cache[Grant] = None THEN "NotGranted"
    ELSE IF cache[Registry] = None THEN "NotFound"
    ELSE IF cache[Registry].info # "secret" THEN "Failed"
    ELSE "Resolved"

(* The gate of a Target: grant, Registry, protection, solarSecretRef; of a
   RegistryBinding: Registry and protection.  The patch that adds the finalizer
   is refused if the copy is stale, and if the Registry is being deleted. *)
Gate(x) ==
    IF x \in Cross /\ cache[Grant] = None THEN "NotGranted"
    ELSE IF cache[Registry] = None THEN "NotFound"
    ELSE IF cache[Registry].info # "secret" THEN "MissingSolarSecretRef"
    ELSE "Resolved"

Blocked(x) == Gate(x) \in {"NotGranted", "NotFound"}

Pass(c, x) ==
    work' = [work EXCEPT ![c] = IF c = Bindings THEN Idle
                                ELSE [@ EXCEPT !.pc = "setCondition", !.goal = Gate(x)]]

Protect(c) ==
    LET x == work[c].ref
        settles == IF Active(x) THEN settled \cup {x} ELSE settled
    IN
    /\ work[c].pc = "protect"
    /\ IF Blocked(x) THEN Pass(c, x) /\ NoWrite
       ELSE IF cache[Registry].fin
       THEN Pass(c, x) /\ settled' = settles /\ UNCHANGED <<obj, cache, current, queue, timers>>
       ELSE IF Registry \notin current \/ obj[Registry].del THEN Fail(c)
       ELSE /\ obj' = [obj EXCEPT ![Registry].fin = TRUE]
            /\ current' = current \ {Registry}
            /\ Pass(c, x) /\ settled' = settles
            /\ UNCHANGED <<cache, queue, timers>>
    /\ UNCHANGED changes

\* Mutant of SetCondition: the status is written although nothing changes.
SetConditionAlways ==
    LET w == work[Targets]
        again == IF w.goal \in {"NotGranted", "NotFound"} THEN {w.ref} ELSE {}
    IN
    /\ w.pc = "setCondition"
    /\ IF ~w.fresh THEN Fail(Targets)
       ELSE /\ obj' = [obj EXCEPT ![w.ref].info = w.goal]
            /\ current' = current \ {w.ref}
            /\ Done(Targets)
            /\ timers' = timers \cup again
            /\ UNCHANGED <<cache, queue, settled>>
    /\ UNCHANGED changes

(* Status().Update with the Target read at the start, if the condition
   changes; while a dependency is missing the request comes again later. *)
SetCondition ==
    LET c == Targets
        w == work[c]
        again == IF w.goal \in {"NotGranted", "NotFound"} THEN {w.ref} ELSE {}
    IN
    /\ w.pc = "setCondition"
    /\ IF w.seen.info = w.goal
       THEN Done(c) /\ timers' = timers \cup again /\ UNCHANGED <<obj, cache, current, queue, settled>>
       ELSE IF ~w.fresh THEN Fail(c)
       ELSE /\ obj' = [obj EXCEPT ![w.ref].info = w.goal]
            /\ current' = current \ {w.ref}
            /\ Done(c)
            /\ timers' = timers \cup again
            /\ UNCHANGED <<cache, queue, settled>>
    /\ UNCHANGED changes

-----------------------------------------------------------------------------
(* Deletion of a Target or a RegistryBinding: removeRegistryRefFinalizer *)

\* Mutant of GetRegistry: a Registry that is gone is an error.
GetRegistryStrict(c) ==
    /\ work[c].pc = "getRegistry"
    /\ IF cache[Registry] = None THEN Fail(c)
       ELSE /\ Goto(c, IF cache[Registry].fin THEN "listTargets" ELSE "removeFinalizer")
            /\ NoWrite
    /\ UNCHANGED changes

GetRegistry(c) ==
    /\ work[c].pc = "getRegistry"
    /\ Goto(c, IF cache[Registry] # None /\ cache[Registry].fin
               THEN "listTargets" ELSE "removeFinalizer")
    /\ NoWrite /\ UNCHANGED changes

(* Another referencer that the cache shows, and not as deleted, keeps the
   protection. *)
Keeps(c, kind) ==
    \E y \in kind \ {work[c].ref} : cache[y] # None /\ ~cache[y].del

ListTargets(c) ==
    /\ work[c].pc = "listTargets"
    /\ Goto(c, IF Keeps(c, Targets) THEN "removeFinalizer" ELSE "listBindings")
    /\ NoWrite /\ UNCHANGED changes

\* Mutant of ListBindings: only Targets count as referencers.
ListNoBindings(c) ==
    /\ work[c].pc = "listBindings"
    /\ Goto(c, "unprotect")
    /\ NoWrite /\ UNCHANGED changes

ListBindings(c) ==
    /\ work[c].pc = "listBindings"
    /\ Goto(c, IF Keeps(c, Bindings) THEN "removeFinalizer" ELSE "unprotect")
    /\ NoWrite /\ UNCHANGED changes

Unprotect(c) ==
    /\ work[c].pc = "unprotect"
    /\ IF cache[Registry] = None THEN Goto(c, "removeFinalizer") /\ NoWrite
       ELSE IF Registry \notin current THEN Fail(c)
       ELSE IF ~obj[Registry].fin THEN Goto(c, "removeFinalizer") /\ NoWrite
       ELSE Write(c, Registry, Stored([obj[Registry] EXCEPT !.fin = FALSE]), "removeFinalizer")
    /\ UNCHANGED changes

RemoveFinalizer(c) ==
    LET x == work[c].ref IN
    /\ work[c].pc = "removeFinalizer"
    /\ IF ~work[c].seen.fin THEN Done(c) /\ NoWrite
       ELSE IF cache[x] = None \/ obj[x] = None THEN Fail(c)
       ELSE Write(c, x, Stored([obj[x] EXCEPT !.fin = FALSE]), "idle")
    /\ UNCHANGED changes

-----------------------------------------------------------------------------
(* Any call may fail, and the manager may be restarted: its informers then
   list everything and every object is reconciled. *)

CallFails(c) == work[c].pc # "idle" /\ Fail(c) /\ Change

Restart ==
    /\ Change
    /\ cache' = obj /\ current' = Objects
    /\ queue' = {x \in Refs : obj[x] # None}
    /\ timers' = {}
    /\ work' = [c \in Controllers |-> Idle]
    /\ UNCHANGED <<obj, settled>>

-----------------------------------------------------------------------------
Step(c) ==
    \/ \E x \in c : Fetch(c, x)
    \/ AddFinalizer(c) \/ Protect(c)
    \/ GetRegistry(c) \/ ListTargets(c) \/ ListBindings(c)
    \/ Unprotect(c) \/ RemoveFinalizer(c)
    \/ c = Targets /\ SetCondition

Next ==
    \/ \E o \in Objects : Create(o) \/ Delete(o) \/ Sync(o)
    \/ \E v \in {"secret", "none"} : SetSolarSecretRef(v)
    \/ \E t \in Targets : RequeueAfter(t)
    \/ \E c \in Controllers : Step(c) \/ CallFails(c)
    \/ Restart

Spec == Init /\ [][Next]_vars

(* The informers keep up and the workers keep working; nothing is assumed of
   users, faults and timers. *)
FairSpec ==
    /\ Spec
    /\ \A o \in Objects : WF_vars(Sync(o))
    /\ \A c \in Controllers : WF_vars(Step(c))
    /\ \A x \in Refs : SF_vars(Fetch(IF x \in Targets THEN Targets ELSE Bindings, x))

-----------------------------------------------------------------------------
(* Properties *)

(* Objects, queues and workers have their types; a copy the informer counts as
   current is what is stored, and only active referencers count as settled. *)
TypeOK ==
    /\ obj \in [Objects -> Recs \cup {None}]
    /\ \A o \in Objects : obj[o] # None /\ obj[o].del => obj[o].fin
    /\ \A t \in Targets : obj[t] # None => obj[t].info \in Reasons
    /\ current \subseteq Objects /\ queue \subseteq Refs /\ timers \subseteq Targets
    /\ \A o \in current : cache[o] = obj[o]
    /\ settled \subseteq {x \in Refs : Active(x)}
    /\ \A c \in Controllers : work[c].ref \in c \cup {None} /\ work[c].before \subseteq settled

(* Nothing is left to do: queues empty, workers idle, caches up to date.
   Timers do not count. *)
Quiet ==
    /\ queue = {} /\ current = Objects
    /\ \A c \in Controllers : work[c].pc = "idle"

Wanted(t) ==
    IF t \in Cross /\ obj[Grant] = None THEN "NotGranted"
    ELSE IF obj[Registry] = None THEN "NotFound"
    ELSE IF obj[Registry].info # "secret" THEN "MissingSolarSecretRef" ELSE "Resolved"

(* No wake-up of a Target is lost: whenever the manager comes to rest, the
   condition of every active Target says what is the case with its Registry,
   and a Registry that an active Target may use and that is not being deleted
   is protected, whatever other referencers did to the finalizer. *)
QuietTargetsAreRight ==
    Quiet => \A t \in Targets : Active(t) =>
        /\ obj[t].fin /\ obj[t].info = Wanted(t)
        /\ Active(Registry) /\ Wanted(t) # "NotGranted" => obj[Registry].fin

(* The protection is never taken away under a referencer whose own reconcile
   had found or put it before the reconcile that takes it away began:
   the lists of removeRegistryRefFinalizer miss only newcomers. *)
SparesSettled ==
    [][\A c \in Controllers :
         work[c].pc = "unprotect" /\ obj[Registry] # None /\ obj[Registry].fin
           /\ (obj'[Registry] = None \/ ~obj'[Registry].fin)
           => work[c].before = {}]_vars

(* A deleted Target or RegistryBinding goes, and is never seen deleted for
   ever: its own finalizer never waits for the Registry's, whatever conflicts
   and failures come in between. *)
DeletionCompletes ==
    \A x \in Refs : []<>(obj[x] = None \/ ~obj[x].del)

Polls(t) == Active(t) /\ Wanted(t) \in {"NotGranted", "NotFound"}

(* The two controllers do not keep each other, or themselves, busy: the
   manager comes to rest again and again, unless a Target polls for a Registry
   or a grant that is missing. *)
ComesToRest == []<>(Quiet \/ \E t \in Targets : Polls(t))

(* What the comment in removeRegistryRefFinalizer says of every referencer: its
   own reconcile puts the protection back that was removed because the cache
   did not show it yet. *)
QuietBindingsAreProtected ==
    Quiet => \A b \in Bindings : Active(b) /\ Active(Registry) => obj[Registry].fin
=============================================================================
