-------------------------- MODULE ProfileBindings --------------------------
(***************************************************************************)
(* The Profile controller as the keeper of ReleaseBindings: one for every  *)
(* Target, of the Profile's namespace or of a namespace that grants it,    *)
(* that the Profile's targetSelector selects.  Bindings get generated      *)
(* names, are found again by listing the informer cache, and have a        *)
(* finalizer that the ReleaseBinding controller puts and removes.          *)
(*                                                                         *)
(* What the two controllers do with the Release is the subject of          *)
(* ReleaseProtection.                                                      *)
(***************************************************************************)
EXTENDS Naturals, FiniteSets

CONSTANTS
    Profiles,     \* a member is a UID
    Suffixes,     \* what GenerateName can append to a name
    Targets,      \* present while they exist with labels that Profiles select
    Cross,        \* those of another namespace
    Grant,        \* the ReferenceGrant from the Profiles' to the Cross namespace
    MaxBindings,  \* bound on the bindings there are at a time
    MaxChanges,   \* bound on what users do, on failing calls and on crashes
    None

(* The name of a ReleaseBinding: profile.Name-target.Name-suffix. *)
Names == [owner : Profiles, target : Targets, suffix : Suffixes]

Objects == Profiles \cup Names

ASSUME ProfileAssumption ==
    /\ IsFiniteSet(Targets) /\ Cross \subseteq Targets /\ MaxChanges \in Nat
    /\ Profiles \cap Names = {} /\ None \notin Objects

VARIABLES
    there,    \* the Targets and the grant that exist
    obj,      \* the API server
    cache,    \* the informers' copies
    current,  \* the objects whose copy is of the stored version
    queue,    \* the requests of the Profile controller
    work,     \* its worker
    gone,     \* Profiles that were deleted: a UID is not used again
    changes

vars == <<there, obj, cache, current, queue, work, gone, changes>>

(* A Profile, whose status has the number of its matched Targets, and a
   ReleaseBinding. *)
ProfileRecs == [fin : BOOLEAN, del : BOOLEAN, valid : BOOLEAN, matched : Nat]
BindingRecs == [fin : BOOLEAN, del : BOOLEAN]

ASSUME NoneAssumption == None \notin ProfileRecs \cup BindingRecs

NewProfile == [fin |-> FALSE, del |-> FALSE, valid |-> TRUE, matched |-> 0]
NewBinding == [fin |-> FALSE, del |-> FALSE]

Idle == [pc |-> "idle", ref |-> None, seen |-> None, fresh |-> FALSE,
         want |-> {}, kill |-> {}, make |-> {}]

(* Some Profiles were just made. *)
Init ==
    /\ there \in SUBSET (Targets \cup {Grant})
    /\ cache = [o \in Objects |-> None]
    /\ \E made \in SUBSET Profiles :
         /\ obj = [o \in Objects |-> IF o \in made THEN NewProfile ELSE None]
         /\ current = Objects \ made
    /\ queue = {} /\ work = Idle /\ gone = {} /\ changes = 0

-----------------------------------------------------------------------------
(* The API server: an object marked deleted goes with its finalizer. *)

Stored(rec) == IF rec.del /\ ~rec.fin THEN None ELSE rec

Active(o) == obj[o] # None /\ ~obj[o].del

(* A write makes the copies of the object stale, the informer's and the one
   the worker holds. *)
Put(o, rec, w) ==
    /\ obj' = [obj EXCEPT ![o] = rec]
    /\ current' = current \ {o}
    /\ gone' = IF rec = None THEN gone \cup ({o} \cap Profiles) ELSE gone
    /\ work' = [w EXCEPT !.fresh = @ /\ w.ref # o]
    /\ UNCHANGED <<there, cache, queue>>

Change == changes < MaxChanges /\ changes' = changes + 1

Create(p) == obj[p] = None /\ p \notin gone /\ Put(p, NewProfile, work) /\ Change

Delete(o) == Active(o) /\ Put(o, Stored([obj[o] EXCEPT !.del = TRUE]), work) /\ Change

(* A targetSelector that cannot be parsed, or that can again. *)
SetSelector(p) == Active(p) /\ Put(p, [obj[p] EXCEPT !.valid = ~@], work) /\ Change

(* The cluster's garbage collector deletes what has lost its owner. *)
CollectGarbage(b) ==
    /\ Active(b) /\ b.owner \in gone
    /\ Put(b, Stored([obj[b] EXCEPT !.del = TRUE]), work)
    /\ UNCHANGED changes

(* The ReleaseBinding controller: a reconcile of a binding puts its finalizer,
   or removes it once the binding is deleted, with a patch by name. *)
ReconcileBinding(b) ==
    /\ cache[b] # None /\ obj[b] # None
    /\ cache[b].fin = cache[b].del /\ obj[b].fin = cache[b].fin
    /\ Put(b, Stored([obj[b] EXCEPT !.fin = ~@]), work)
    /\ UNCHANGED changes

-----------------------------------------------------------------------------
(* The informers and the watches *)

\* Mutant of mapTargetToProfiles: Profiles of other namespaces are forgotten.
mapTargetToOwnProfiles(t) ==
    {p \in Profiles : cache[p] # None /\ cache[p].valid /\ t \notin Cross}

mapTargetToProfiles(t) ==
    {p \in Profiles : cache[p] # None /\ cache[p].valid /\ (t \in Cross => Grant \in there)}

mapReferenceGrantToProfiles == {p \in Profiles : cache[p] # None}

(* A Target or the grant appears or goes.  No controller here writes these, so
   the lag of their informers is only a later change: they have none. *)
Toggle(o) ==
    /\ Change
    /\ there' = IF o \in there THEN there \ {o} ELSE there \cup {o}
    /\ queue' = queue \cup (IF o = Grant THEN mapReferenceGrantToProfiles
                            ELSE mapTargetToProfiles(o))
    /\ UNCHANGED <<obj, cache, current, work, gone>>

(* The Profile controller also hears of the bindings that Profiles own. *)
Owner(o) == IF o \in Profiles THEN o ELSE o.owner

Sync(o) ==
    /\ o \notin current
    /\ cache' = [cache EXCEPT ![o] = obj[o]]
    /\ current' = current \cup {o}
    /\ queue' = queue \cup {Owner(o)}
    /\ UNCHANGED <<there, obj, work, gone, changes>>

-----------------------------------------------------------------------------
(* Reconcile of a Profile: every step is one call, with the reads before it *)

Goto(pc) ==
    /\ work' = IF pc = "idle" THEN Idle ELSE [work EXCEPT !.pc = pc]
    /\ UNCHANGED <<there, obj, cache, current, queue, gone>>

(* An error puts the request back into the queue. *)
Fail ==
    /\ work' = Idle /\ queue' = queue \cup {work.ref}
    /\ UNCHANGED <<there, obj, cache, current, gone>>

Fetch(p) ==
    LET copy == cache[p] IN
    /\ work.pc = "idle" /\ p \in queue
    /\ queue' = queue \ {p}
    /\ work' = IF copy = None THEN Idle
               ELSE [Idle EXCEPT !.pc = IF copy.del THEN "listOwned"
                                        ELSE IF copy.fin THEN "list" ELSE "addFinalizer",
                                 !.ref = p, !.seen = copy, !.fresh = p \in current]
    /\ UNCHANGED <<there, obj, cache, current, gone, changes>>

AddFinalizer ==
    LET p == work.ref IN
    /\ work.pc = "addFinalizer"
    /\ IF cache[p] = None \/ (~cache[p].fin /\ obj[p] = None) THEN Fail
       ELSE IF cache[p].fin THEN Goto("list")
       ELSE Put(p, [obj[p] EXCEPT !.fin = TRUE], [work EXCEPT !.pc = "list"])
    /\ UNCHANGED changes

DesiredTargets == {t \in Targets \cap there : t \in Cross => Grant \in there}

Owned(p) == {b \in Names : cache[b] # None /\ b.owner = p}

(* The Targets, the grants and the bindings are listed, and with them is
   decided which bindings to delete and for which Targets to make one.  A
   binding that is being deleted still counts for its Target. *)
List ==
    LET owned == Owned(work.ref) IN
    /\ work.pc = "list"
    /\ IF ~work.seen.valid THEN Goto("idle")
       ELSE /\ work' = [work EXCEPT
                   !.pc = "sync", !.want = DesiredTargets,
                   !.kill = {b \in owned : b.target \notin DesiredTargets},
                   !.make = DesiredTargets \ {b.target : b \in owned}]
            /\ UNCHANGED <<there, obj, cache, current, queue, gone>>
    /\ UNCHANGED changes

(* r.Delete of a binding, by name; one that is gone is no error. *)
DeleteBinding(b) ==
    LET w == [work EXCEPT !.kill = @ \ {b}] IN
    /\ work.pc \in {"sync", "clear"} /\ b \in work.kill
    /\ IF Active(b) THEN Put(b, Stored([obj[b] EXCEPT !.del = TRUE]), w)
       ELSE work' = w /\ UNCHANGED <<there, obj, cache, current, queue, gone>>
    /\ UNCHANGED changes

(* r.Create; the API server makes up the suffix.  Beyond the model's bound the
   call fails. *)
Full == Cardinality({b \in Names : obj[b] # None \/ b \notin current}) >= MaxBindings

Free(p, t) ==
    {b \in Names : b.owner = p /\ b.target = t /\ obj[b] = None /\ b \in current /\ ~Full}

CreateBinding(t) ==
    LET free == Free(work.ref, t) IN
    /\ work.pc = "sync" /\ work.kill = {} /\ t \in work.make
    /\ IF free = {} THEN Fail
       ELSE Put(CHOOSE b \in free : TRUE, NewBinding, [work EXCEPT !.make = @ \ {t}])
    /\ UNCHANGED changes

\* Mutant of UpdateStatus: the status is written although nothing changes.
UpdateStatusAlways ==
    LET matched == Cardinality(work.want) IN
    /\ work.pc = "sync" /\ work.kill = {} /\ work.make = {}
    /\ IF ~work.fresh THEN Fail
       ELSE Put(work.ref, [obj[work.ref] EXCEPT !.matched = matched], Idle)
    /\ UNCHANGED changes

UpdateStatus ==
    LET matched == Cardinality(work.want) IN
    /\ work.pc = "sync" /\ work.kill = {} /\ work.make = {}
    /\ IF work.seen.matched = matched THEN Goto("idle")
       ELSE IF ~work.fresh THEN Fail
       ELSE Put(work.ref, [obj[work.ref] EXCEPT !.matched = matched], Idle)
    /\ UNCHANGED changes

\* Mutant of ListOwned: the bindings are left to the garbage collector.
ListOwnedWait ==
    /\ work.pc = "listOwned"
    /\ work' = IF Owned(work.ref) = {} THEN [work EXCEPT !.pc = "removeFinalizer"]
               ELSE [work EXCEPT !.pc = "clear"]
    /\ UNCHANGED <<there, obj, cache, current, queue, gone, changes>>

(* A deleted Profile deletes its bindings and waits until the cache shows none. *)
ListOwned ==
    LET owned == Owned(work.ref) IN
    /\ work.pc = "listOwned"
    /\ work' = IF owned = {} THEN [work EXCEPT !.pc = "removeFinalizer"]
               ELSE [work EXCEPT !.pc = "clear", !.kill = {b \in owned : ~cache[b].del}]
    /\ UNCHANGED <<there, obj, cache, current, queue, gone, changes>>

Cleared == work.pc = "clear" /\ work.kill = {} /\ Goto("idle") /\ UNCHANGED changes

RemoveFinalizer ==
    LET p == work.ref IN
    /\ work.pc = "removeFinalizer"
    /\ IF ~work.seen.fin THEN Goto("idle")
       ELSE IF cache[p] = None \/ obj[p] = None THEN Fail
       ELSE Put(p, Stored([obj[p] EXCEPT !.fin = FALSE]), Idle)
    /\ UNCHANGED changes

-----------------------------------------------------------------------------
(* Any call may fail, and the manager may be restarted: its informers then
   list everything and every Profile is reconciled. *)

CallFails == work.pc # "idle" /\ Fail /\ Change

Restart ==
    /\ Change
    /\ cache' = obj /\ current' = Objects
    /\ queue' = {p \in Profiles : obj[p] # None}
    /\ work' = Idle
    /\ UNCHANGED <<there, obj, gone>>

Step ==
    \/ \E p \in Profiles : Fetch(p)
    \/ AddFinalizer \/ List \/ UpdateStatus
    \/ ListOwned \/ Cleared \/ RemoveFinalizer
    \/ \E b \in Names : DeleteBinding(b)
    \/ \E t \in Targets : CreateBinding(t)

Next ==
    \/ \E p \in Profiles : Create(p) \/ SetSelector(p)
    \/ \E o \in Objects : Delete(o) \/ Sync(o)
    \/ \E o \in Targets \cup {Grant} : Toggle(o)
    \/ \E b \in Names : CollectGarbage(b) \/ ReconcileBinding(b)
    \/ Step \/ CallFails \/ Restart

Spec == Init /\ [][Next]_vars

(* The informers keep up, both controllers keep working and the garbage
   collector runs; nothing is assumed of users and faults. *)
FairSpec ==
    /\ Spec
    /\ \A o \in Objects : WF_vars(Sync(o))
    /\ \A b \in Names : WF_vars(CollectGarbage(b) \/ ReconcileBinding(b))
    /\ WF_vars(Step)
    /\ \A p \in Profiles : SF_vars(Fetch(p))

-----------------------------------------------------------------------------
(* Properties *)

(* Objects, queue and worker have their types; a copy the informer counts as
   current is what is stored, and bindings are only made for selected Targets. *)
TypeOK ==
    /\ there \subseteq Targets \cup {Grant}
    /\ \A o \in Objects : obj[o] = None \/ (obj[o].del => obj[o].fin)
    /\ \A o \in current : cache[o] = obj[o]
    /\ queue \subseteq Profiles /\ gone \subseteq {p \in Profiles : obj[p] = None}
    /\ work.want \subseteq Targets /\ work.make \subseteq work.want /\ work.kill \subseteq Names

(* Nothing is left to do: the queue empty, the worker idle, caches up to date
   and no binding waiting for its finalizer to be put or removed. *)
Quiet ==
    /\ queue = {} /\ current = Objects /\ work.pc = "idle"
    /\ \A b \in Names : obj[b] # None => obj[b].fin /\ ~obj[b].del

(* No wake-up of a Profile is lost: whenever the manager comes to rest, every
   active Profile with a valid selector has a binding for each Target it
   selects, of its own namespace or a granted one, none for any other Target,
   and reports their number right, whatever users deleted and however stale
   the lists were that it worked from. *)
QuietProfilesMatch ==
    Quiet => \A p \in Profiles : Active(p) /\ obj[p].valid =>
        /\ {b.target : b \in {n \in Names : obj[n] # None /\ n.owner = p}}
             = DesiredTargets
        /\ obj[p].matched = Cardinality(DesiredTargets)

(* A deleted Profile goes for good, and so do its bindings, those that it never
   saw included. *)
DeletionCompletes ==
    \A p \in Profiles :
        <>[](p \in gone \/ (obj[p] # None /\ obj[p].del))
          => <>[](obj[p] = None /\ \A b \in Names : obj[b] # None => b.owner # p)

Starved ==
    /\ Full
    /\ \E p \in Profiles, t \in DesiredTargets :
         Active(p) /\ \A b \in Names : b.owner = p /\ b.target = t => obj[b] = None

(* The Profile controller does not keep itself busy: its own writes (finalizer,
   bindings, status) come back as events, and yet the manager comes to rest
   again and again, unless the model's bound keeps it from making a binding. *)
ComesToRest == []<>(Quiet \/ Starved)

(* What the comment at the desired set says: one binding per matching Target. *)
OneBindingPerTarget ==
    Quiet => \A b, n \in Names : obj[b] # None /\ obj[n] # None =>
        (b.owner = n.owner /\ b.target = n.target => b = n)
=============================================================================
