------------------------- MODULE ReleaseProtection -------------------------
(***************************************************************************)
(* A Release, the Profiles and ReleaseBindings that reference it, and the  *)
(* three controllers that write its finalizers: the Profile controller,    *)
(* the ReleaseBinding controller, and the Release controller, whose own    *)
(* finalizer shares the list with release-ref.  They run in one manager    *)
(* with one worker each and read the manager's informer caches.            *)
(*                                                                         *)
(* A Profile here selects one Target, or none; how it keeps a binding for  *)
(* every Target it selects is the subject of ProfileBindings, and what a   *)
(* Release's reconcile does with its ComponentVersion that of Catalog.     *)
(***************************************************************************)
EXTENDS Naturals, FiniteSets

CONSTANTS
    Profiles,     \* their releaseRef is the Release; a member is a UID
    Manual,       \* ReleaseBindings that users make
    Release,
    MaxChanges,   \* bound on what users do, on failing calls and on crashes
    None

Generated == [owner : Profiles]    \* the ReleaseBinding that a Profile makes

ASSUME ReleaseAssumption ==
    /\ MaxChanges \in Nat
    /\ Profiles \cap Manual = {} /\ Generated \cap (Profiles \cup Manual) = {}
    /\ {Release, None} \cap (Profiles \cup Manual \cup Generated) = {} /\ Release # None

Bindings == Manual \cup Generated
Refs == Profiles \cup Bindings
Objects == Refs \cup {Release}
Controllers == {Profiles, Bindings, {Release}}

Owner(b) == IF b \in Generated THEN b.owner ELSE None

VARIABLES
    obj,      \* the API server
    cache,    \* the informers' copies
    current,  \* the objects whose copy is of the stored version
    queue,    \* the requests in the three work queues
    work,     \* the worker of each controller
    selects,  \* the Profiles that select their Target
    settled,  \* history: the active Refs that found or put release-ref
    gone,     \* Profiles that were deleted: a UID is not used again
    changes

vars == <<obj, cache, current, queue, work, selects, settled, gone, changes>>

(* "self" is an object's own finalizer, "ref" is release-ref. *)
Recs == [fin : SUBSET {"self", "ref"}, del : BOOLEAN]

ASSUME NoneAssumption == None \notin Recs

New == [fin |-> {}, del |-> FALSE]

Idle == [pc |-> "idle", ref |-> None, own |-> FALSE, before |-> {}]

(* A manager at rest.  Either manual bindings protect the Release, or it was
   just made together with its Profiles. *)
Init ==
    /\ selects \in SUBSET Profiles
    /\ \E made \in {{}, Profiles} : LET bound == IF made = {} THEN Manual ELSE {} IN
         /\ obj = [o \in Objects |->
                     IF o \in made THEN New
                     ELSE IF o \in bound THEN [New EXCEPT !.fin = {"self"}]
                     ELSE IF o # Release THEN None
                     ELSE IF made # {} THEN New
                     ELSE [New EXCEPT !.fin = {"self", "ref"}]]
         /\ cache = [o \in Objects |-> IF o \in made THEN None ELSE obj[o]]
         /\ current = Objects \ made
         /\ settled = bound
         /\ queue = IF made # {} THEN {Release} ELSE {}
    /\ gone = {} /\ changes = 0
    /\ work = [c \in Controllers |-> Idle]

-----------------------------------------------------------------------------
(* The API server: an object marked deleted goes with its last finalizer. *)

Stored(rec) == IF rec.del /\ rec.fin = {} THEN None ELSE rec

Active(o) == obj[o] # None /\ ~obj[o].del

(* A write makes the informer's copy of the object stale; one that changes
   nothing makes no new version. *)
Put(o, rec, w) ==
    /\ obj' = [obj EXCEPT ![o] = rec]
    /\ current' = IF rec = obj[o] THEN current ELSE current \ {o}
    /\ settled' = IF rec = None \/ rec.del THEN settled \ {o} ELSE settled
    /\ gone' = IF rec = None THEN gone \cup ({o} \cap Profiles) ELSE gone
    /\ work' = [c \in Controllers |-> [w[c] EXCEPT !.before = @ \cap settled']]
    /\ UNCHANGED <<cache, queue, selects>>

Deleted(o) == Stored([obj[o] EXCEPT !.del = TRUE])

Change == changes < MaxChanges /\ changes' = changes + 1

Create(o) == obj[o] = None /\ o \notin gone \cup Generated /\ Put(o, New, work) /\ Change

Delete(o) == Active(o) /\ Put(o, Deleted(o), work) /\ Change

(* The cluster's garbage collector deletes what has lost its owner. *)
CollectGarbage(b) == Active(b) /\ Owner(b) \in gone /\ Put(b, Deleted(b), work) /\ UNCHANGED changes

-----------------------------------------------------------------------------
(* The informers and the watches; nobody but the Release controller hears of
   the Release. *)

Mapped(o) == {o} \cup (IF o \in Generated THEN {Owner(o)} ELSE {})

Sync(o) ==
    /\ o \notin current
    /\ cache' = [cache EXCEPT ![o] = obj[o]]
    /\ current' = current \cup {o}
    /\ queue' = queue \cup Mapped(o)
    /\ UNCHANGED <<obj, work, selects, settled, gone, changes>>

(* The Target's labels change. *)
Toggle(p) ==
    /\ Change
    /\ selects' = IF p \in selects THEN selects \ {p} ELSE selects \cup {p}
    /\ queue' = IF cache[p] = None THEN queue ELSE queue \cup {p}
    /\ UNCHANGED <<obj, cache, current, work, settled, gone>>

-----------------------------------------------------------------------------
(* A reconcile: every step is one call that may fail, or one read of a cache *)

After(c, pc) ==
    [work EXCEPT ![c] = IF pc = "idle" THEN Idle ELSE [@ EXCEPT !.pc = pc]]

Goto(c, pc) ==
    work' = After(c, pc) /\ UNCHANGED <<obj, cache, current, queue, selects, settled, gone>>

(* An error puts the request back into the queue. *)
Fail(c) ==
    /\ work' = [work EXCEPT ![c] = Idle]
    /\ queue' = queue \cup {work[c].ref}
    /\ UNCHANGED <<obj, cache, current, selects, settled, gone>>

(* Patch with the whole list of finalizers, computed from the cached copy and
   addressed by name: whatever was put on the list since is lost, and if the
   list is the same nothing is sent of it.  The API server refuses new
   finalizers on an object that is being deleted. *)
MergeFrom(c, o, fins, pc) ==
    IF cache[o] = None THEN Fail(c)
    ELSE IF obj[o] = None THEN Fail(c)
    ELSE IF fins = cache[o].fin THEN Goto(c, pc)
    ELSE IF obj[o].del /\ ~(fins \subseteq obj[o].fin) THEN Fail(c)
    ELSE Put(o, Stored([obj[o] EXCEPT !.fin = fins]), After(c, pc))

(* The same patch, refused if the cached copy is not of the stored version. *)
MergeFromWithOptimisticLock(c, o, fins, pc) ==
    IF o \in current THEN MergeFrom(c, o, fins, pc) ELSE Fail(c)

(* Nothing but the Release's own finalizer is of interest here when the
   Release controller is called. *)
Fetch(c, x) ==
    LET copy == cache[x]
        pc == IF copy = None THEN "idle"
              ELSE IF copy.del
              THEN IF x \in Profiles THEN "listOwned"
                   ELSE IF x \in Bindings THEN "getOwner" ELSE "removeFinalizer"
              ELSE IF "self" \notin copy.fin THEN "addFinalizer"
              ELSE IF x = Release THEN "idle" ELSE "protect"
    IN
    /\ work[c].pc = "idle" /\ x \in queue \cap c
    /\ queue' = queue \ {x}
    /\ work' = [work EXCEPT ![c] =
                  IF pc = "idle" THEN Idle
                  ELSE [pc |-> pc, ref |-> x, own |-> "self" \in copy.fin,
                        before |-> settled \ {x}]]
    /\ UNCHANGED <<obj, cache, current, selects, settled, gone, changes>>

AddFinalizer(c) ==
    LET x == work[c].ref
        next == IF x = Release THEN "idle" ELSE "protect"
    IN
    /\ work[c].pc = "addFinalizer"
    /\ IF cache[x] # None /\ "self" \in cache[x].fin THEN Goto(c, next)
       ELSE MergeFrom(c, x, cache[x].fin \cup {"self"}, next)
    /\ UNCHANGED changes

(* A binding whose Profile is gone or going does not protect the Release. *)
Orphaned(b) ==
    b \in Generated /\ (cache[Owner(b)] = None \/ cache[Owner(b)].del)

Protect(c) ==
    LET x == work[c].ref
        next == IF x \in Profiles THEN "bind" ELSE "idle"
        settles == settled' = IF Active(x) THEN settled \cup {x} ELSE settled
    IN
    /\ work[c].pc = "protect"
    /\ IF cache[Release] = None THEN Goto(c, next)
       ELSE IF "ref" \in cache[Release].fin
       THEN /\ work' = After(c, next) /\ settles
            /\ UNCHANGED <<obj, cache, current, queue, selects, gone>>
       ELSE IF Orphaned(x) THEN Goto(c, "idle")
       ELSE IF Release \notin current \/ obj[Release].del THEN Fail(c)
       ELSE /\ obj' = [obj EXCEPT ![Release].fin = @ \cup {"ref"}]
            /\ current' = current \ {Release}
            /\ work' = After(c, next) /\ settles
            /\ UNCHANGED <<cache, queue, selects, gone>>
    /\ UNCHANGED changes

(* A Profile makes or deletes its binding: ProfileBindings has the details. *)
Bind ==
    LET c == Profiles
        p == work[c].ref
        b == [owner |-> p]
    IN
    /\ work[c].pc = "bind"
    /\ IF p \in selects /\ cache[b] = None /\ obj[b] = None
       THEN Put(b, New, After(c, "idle"))
       ELSE IF p \notin selects /\ cache[b] # None /\ Active(b)
       THEN Put(b, Deleted(b), After(c, "idle"))
       ELSE Goto(c, "idle")
    /\ UNCHANGED changes

-----------------------------------------------------------------------------
(* Deletion *)

\* Mutant of ListOwned: the binding is left to the garbage collector.
ListOwnedWait ==
    LET c == Profiles
        b == [owner |-> work[c].ref]
    IN
    /\ work[c].pc = "listOwned"
    /\ Goto(c, IF cache[b] = None THEN "getRelease" ELSE "idle")
    /\ UNCHANGED changes

(* A deleted Profile waits until the cache no longer shows its binding. *)
ListOwned ==
    LET c == Profiles
        b == [owner |-> work[c].ref]
    IN
    /\ work[c].pc = "listOwned"
    /\ IF cache[b] = None THEN Goto(c, "getRelease")
       ELSE IF ~cache[b].del /\ Active(b) THEN Put(b, Deleted(b), After(c, "idle"))
       ELSE Goto(c, "idle")
    /\ UNCHANGED changes

(* A binding leaves release-ref to a Profile that has its finalizer. The code
   looks the owner up by name. A member of Profiles is one UID and no two have
   one name: a Profile created again under the name of a deleted one, while a
   binding of the deleted one is still there, is left out. *)
GetOwner ==
    LET c == Bindings
        owner == Owner(work[c].ref)
    IN
    /\ work[c].pc = "getOwner"
    /\ Goto(c, IF owner # None /\ cache[owner] # None /\ "self" \in cache[owner].fin
               THEN "removeFinalizer" ELSE "getRelease")
    /\ UNCHANGED changes

GetRelease(c) ==
    /\ work[c].pc = "getRelease"
    /\ Goto(c, IF cache[Release] # None /\ "ref" \in cache[Release].fin
               THEN "listProfiles" ELSE "removeFinalizer")
    /\ UNCHANGED changes

(* For the ReleaseBinding controller a Profile that is being deleted and still
   has its finalizer counts too. *)
ListProfiles(c) ==
    LET others == {p \in Profiles \ {work[c].ref} :
                     /\ cache[p] # None
                     /\ cache[p].del => c = Bindings /\ "self" \in cache[p].fin}
    IN
    /\ work[c].pc = "listProfiles"
    /\ Goto(c, IF others = {} THEN "listReferrers" ELSE "removeFinalizer")
    /\ UNCHANGED changes

\* Mutant of ListReferrers: only bindings of Profiles count.
ListReferrersOwned(c) ==
    LET others == {b \in Bindings \ {work[c].ref} :
                     cache[b] # None /\ ~cache[b].del /\ b \in Generated /\ ~Orphaned(b)}
    IN
    /\ work[c].pc = "listReferrers"
    /\ Goto(c, IF others = {} THEN "unprotect" ELSE "removeFinalizer")
    /\ UNCHANGED changes

ListReferrers(c) ==
    LET others == {b \in Bindings \ {work[c].ref} :
                     cache[b] # None /\ ~cache[b].del /\ ~Orphaned(b)}
    IN
    /\ work[c].pc = "listReferrers"
    /\ Goto(c, IF others = {} THEN "unprotect" ELSE "removeFinalizer")
    /\ UNCHANGED changes

Unprotect(c) ==
    /\ work[c].pc = "unprotect"
    /\ IF cache[Release] = None THEN Goto(c, "removeFinalizer")
       ELSE MergeFromWithOptimisticLock(c, Release, cache[Release].fin \ {"ref"}, "removeFinalizer")
    /\ UNCHANGED changes

RemoveFinalizer(c) ==
    LET x == work[c].ref IN
    /\ work[c].pc = "removeFinalizer"
    /\ IF ~work[c].own THEN Goto(c, "idle")
       ELSE MergeFrom(c, x, cache[x].fin \ {"self"}, "idle")
    /\ UNCHANGED changes

-----------------------------------------------------------------------------
(* Any call may fail, and the manager may be restarted: its informers then
   list everything and every object is reconciled. *)

CallFails(c) == work[c].pc # "idle" /\ Fail(c) /\ Change

Restart ==
    /\ Change
    /\ cache' = obj /\ current' = Objects
    /\ queue' = {x \in Objects : obj[x] # None}
    /\ work' = [c \in Controllers |-> Idle]
    /\ UNCHANGED <<obj, selects, settled, gone>>

-----------------------------------------------------------------------------
Step(c) ==
    \/ \E x \in c : Fetch(c, x)
    \/ AddFinalizer(c) \/ Protect(c)
    \/ GetRelease(c) \/ ListProfiles(c) \/ ListReferrers(c)
    \/ Unprotect(c) \/ RemoveFinalizer(c)
    \/ c = Profiles /\ (Bind \/ ListOwned)
    \/ c = Bindings /\ GetOwner

Next ==
    \/ \E o \in Objects : Create(o) \/ Delete(o) \/ Sync(o)
    \/ \E p \in Profiles : Toggle(p)
    \/ \E b \in Generated : CollectGarbage(b)
    \/ \E c \in Controllers : Step(c) \/ CallFails(c)
    \/ Restart

Spec == Init /\ [][Next]_vars

-----------------------------------------------------------------------------
(* Properties *)

(* Objects, queues and workers have their types; release-ref is on nothing but
   the Release, and only active referencers count as settled. *)
TypeOK ==
    /\ \A o \in Objects : obj[o] = None \/
         (obj[o].fin \subseteq {"self", "ref"} /\ (obj[o].del => obj[o].fin # {}))
    /\ \A o \in Objects \ {Release} : obj[o] = None \/ "ref" \notin obj[o].fin
    /\ \A o \in current : cache[o] = obj[o]
    /\ queue \subseteq Objects /\ settled \subseteq {x \in Refs : Active(x)}
    /\ \A c \in Controllers : work[c].ref \in c \cup {None} /\ work[c].before \subseteq settled

(* Nothing is left to do: queues empty, workers idle, caches up to date. *)
Quiet ==
    /\ queue = {} /\ current = Objects
    /\ \A c \in Controllers : work[c].pc = "idle"
    /\ \A b \in Generated : Active(b) => Owner(b) \notin gone

(* The referencers that a removal of release-ref must not disturb: a binding
   whose Profile is gone or going is the garbage collector's. *)
Counts(x) == x \in Bindings => Owner(x) = None \/ Active(Owner(x))

(* Once the Release's own finalizer is in the cache, release-ref never goes
   from it under an active Profile or binding whose reconcile had found or put
   it before the reconcile that removes it began: the plain patches of the
   Release controller drop nothing then, and the lists of the other two miss
   only newcomers. *)
SparesSettled ==
    [][Active(Release) /\ cache[Release] # None /\ "self" \in cache[Release].fin
         /\ "ref" \in obj[Release].fin
         /\ (obj'[Release] = None \/ "ref" \notin obj'[Release].fin)
         => \E c \in Controllers : work[c].pc = "unprotect"
                                    /\ \A x \in work[c].before : ~Counts(x)]_vars

(* Deletion never gets stuck: the Profile waits for its binding and the binding
   leaves release-ref to the Profile, and yet no Profile or binding is marked
   deleted once nothing is left to do. *)
QuietNothingIsStuck == Quiet => \A x \in Refs : obj[x] = None \/ Active(x)

(* What the documentation says of a deleted Profile: it takes release-ref away
   only after all its bindings are gone from the API server. *)
UnprotectsAfterBindings ==
    [][\A p \in Profiles :
         work[Profiles].pc = "unprotect" /\ work[Profiles].ref = p
           /\ obj[Release] # None /\ "ref" \in obj[Release].fin
           /\ (obj'[Release] = None \/ "ref" \notin obj'[Release].fin)
         => obj[[owner |-> p]] = None]_vars
=============================================================================
