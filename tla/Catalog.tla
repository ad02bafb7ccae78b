------------------------------ MODULE Catalog ------------------------------
(***************************************************************************)
(* The catalog: a Component, its ComponentVersions, the Releases that      *)
(* reference them, and the three that write them: the API writer at the    *)
(* end of the discovery pipeline (a process of its own, without informers) *)
(* and the ComponentVersion and Release controllers, which run in one      *)
(* manager with one worker each and read its informer caches.              *)
(*                                                                         *)
(* A Release refers to a ComponentVersion as a ComponentVersion does to    *)
(* its Component: the referrer's controller keeps a finalizer on what is   *)
(* referred to.  Every patch of the two controllers is a plain merge patch *)
(* of the whole list of finalizers.                                        *)
(***************************************************************************)
EXTENDS Naturals, FiniteSets

CONSTANTS
    Component,
    Versions,     \* ComponentVersions of the Component
    Releases,
    Cross,        \* Releases in another namespace, which need a ReferenceGrant
    Wanted,       \* the ComponentVersion all Releases reference
    MaxEvents,    \* bound on the events the API writer gets
    MaxChanges,   \* bound on what users do, on failing calls and on crashes
    None

ASSUME CatalogAssumption ==
    /\ Cross \subseteq Releases /\ Wanted \in Versions /\ {MaxEvents, MaxChanges} \subseteq Nat
    /\ Versions \cap Releases = {} /\ Component # None
    /\ {Component, None} \cap (Versions \cup Releases) = {}

Referrers == Versions \cup Releases
Objects == Referrers \cup {Component}
Controllers == {Versions, Releases}

Parent(x) == IF x \in Versions THEN Component ELSE Wanted

VARIABLES
    obj,      \* the API server
    cache,    \* the informers' copies
    current,  \* the objects whose copy is of the stored version
    queue,    \* the requests in the two work queues
    work,     \* the worker of each controller
    granted,  \* is there a ReferenceGrant
    writer,   \* the API writer
    events, changes

vars == <<obj, cache, current, queue, work, granted, writer, events, changes>>

(* "self" is an object's own finalizer, "ref" the one that protects it
   (component-ref, componentversion-ref); cond is a Release's
   ComponentVersionResolved condition, which the others do not have. *)
Reasons == {"Unknown", "NotGranted", "NotFound", "Resolved"}

Recs == [fin : SUBSET {"self", "ref"}, del : BOOLEAN, cond : Reasons]

ASSUME NoneAssumption == None \notin Recs

New == [fin |-> {}, del |-> FALSE, cond |-> "Unknown"]

Idle == [pc |-> "idle", ref |-> None, seen |-> None, fresh |-> FALSE, goal |-> "Unknown"]

Rest == [pc |-> "idle", v |-> None, fresh |-> FALSE]

(* What the gate of a Release's reconcile finds. *)
Gate(r, grant, version) ==
    IF r \in Cross /\ ~grant THEN "NotGranted"
    ELSE IF version = None THEN "NotFound" ELSE "Resolved"

(* A manager at rest: some Releases, all ComponentVersions or none, and a grant. *)
Init ==
    /\ granted = TRUE
    /\ \E there \in {s \in SUBSET Referrers : s \cap Versions \in {{}, Versions}} :
         LET reason(r) == Gate(r, granted, IF Wanted \in there THEN Wanted ELSE None)
             referred(o) == IF o = Component THEN there \cap Versions # {}
                            ELSE o = Wanted /\ \E r \in there \cap Releases : reason(r) = "Resolved"
         IN obj = [o \in Objects |->
                     IF o \notin there /\ ~referred(o) THEN None
                     ELSE [fin |-> {f \in {"self", "ref"} : IF f = "self" THEN o # Component
                                                            ELSE referred(o)},
                           del |-> FALSE,
                           cond |-> IF o \in Releases THEN reason(o) ELSE "Unknown"]]
    /\ cache = obj /\ current = Objects /\ queue = {}
    /\ work = [c \in Controllers |-> Idle] /\ writer = Rest
    /\ events = 0 /\ changes = 0

-----------------------------------------------------------------------------
(* The API server: an object marked deleted goes with its last finalizer. *)

Stored(rec) == IF rec.del /\ rec.fin = {} THEN None ELSE rec

Active(o) == obj[o] # None /\ ~obj[o].del

(* The object the API writer is about to update. *)
Holds(wr) == IF wr.pc = "updateComponent" THEN Component ELSE wr.v

(* A write makes every copy of the object stale: the informer's, a worker's and
   the API writer's; one that changes nothing makes no new version. *)
Put(o, rec, w, wr) ==
    LET same == rec = obj[o] IN
    /\ obj' = [obj EXCEPT ![o] = rec]
    /\ current' = IF same THEN current ELSE current \ {o}
    /\ work' = [c \in Controllers |-> [w[c] EXCEPT !.fresh = @ /\ (w[c].ref = o => same)]]
    /\ writer' = IF o = Holds(wr) /\ ~same THEN [wr EXCEPT !.fresh = FALSE] ELSE wr
    /\ UNCHANGED <<cache, queue, granted>>

Deleted(o) == Stored([obj[o] EXCEPT !.del = TRUE])

Change == changes < MaxChanges /\ changes' = changes + 1 /\ UNCHANGED events

(* Users make and delete Releases, and delete ComponentVersions. *)
Create(r) == obj[r] = None /\ Put(r, New, work, writer) /\ Change

Delete(o) == Active(o) /\ Put(o, Deleted(o), work, writer) /\ Change

-----------------------------------------------------------------------------
(* The API writer: every step is one call.  Without a configured backoff a
   failed call ends the work on the event. *)

Call(wr) ==
    writer' = wr /\ UNCHANGED <<obj, cache, current, queue, work, granted>>

Keep == UNCHANGED <<events, changes>>

(* An event of an image that was pushed, or removed, is at the writer. *)
Receive(v, pc) ==
    /\ writer.pc = "idle" /\ events < MaxEvents
    /\ events' = events + 1 /\ UNCHANGED changes
    /\ Call([pc |-> pc, v |-> v, fresh |-> FALSE])

At(pc) == IF pc = "idle" THEN Rest ELSE [writer EXCEPT !.pc = pc]

(* Create the object o, or Get the one there is and go on to update it. *)
CreateOr(o, update, next) ==
    IF obj[o] = None THEN Put(o, New, work, At(next))
    ELSE Call([writer EXCEPT !.pc = update, !.fresh = TRUE])

(* Update with what the image says and the resourceVersion just read: the
   object that is sent has no finalizers. *)
UpdateWith(o, next) ==
    IF ~writer.fresh THEN Call(Rest)
    ELSE Put(o, Stored([obj[o] EXCEPT !.fin = {}]), work, At(next))

WCreateComponent ==
    writer.pc = "createComponent" /\ CreateOr(Component, "updateComponent", "createVersion") /\ Keep

WUpdateComponent ==
    writer.pc = "updateComponent" /\ UpdateWith(Component, "createVersion") /\ Keep

WCreateVersion ==
    writer.pc = "createVersion" /\ CreateOr(writer.v, "updateVersion", "idle") /\ Keep

WUpdateVersion ==
    writer.pc = "updateVersion" /\ UpdateWith(writer.v, "idle") /\ Keep

(* A removed image: its ComponentVersion is found by its digest and deleted. *)
WDeleteVersion ==
    /\ writer.pc = "deleteVersion"
    /\ IF obj[writer.v] = None THEN Call(Rest)
       ELSE Put(writer.v, Deleted(writer.v), work, At("listVersions"))
    /\ Keep

(* The Component goes with its last ComponentVersion that is not going. *)
WListVersions ==
    /\ writer.pc = "listVersions"
    /\ Call(At(IF \E v \in Versions \ {writer.v} : Active(v) THEN "idle" ELSE "deleteComponent"))
    /\ Keep

WDeleteComponent ==
    /\ writer.pc = "deleteComponent"
    /\ IF Active(Component) THEN Put(Component, Deleted(Component), work, Rest) ELSE Call(Rest)
    /\ Keep

WFails == writer.pc # "idle" /\ Call(Rest) /\ Change

-----------------------------------------------------------------------------
(* The informers and the watches; nobody hears of the Component. *)

\* Mutant of mapComponentVersionToReleases: only Releases of its namespace.
mapComponentVersionToOwnReleases(v) ==
    {r \in Releases \ Cross : v = Wanted /\ cache[r] # None}

mapComponentVersionToReleases(v) == {r \in Releases : v = Wanted /\ cache[r] # None}

mapReferenceGrantToReleases == {r \in Cross : cache[r] # None}

Mapped(o) ==
    IF o = Component THEN {} ELSE {o} \cup mapComponentVersionToReleases(o)

Sync(o) ==
    /\ o \notin current
    /\ cache' = [cache EXCEPT ![o] = obj[o]]
    /\ current' = current \cup {o}
    /\ queue' = queue \cup Mapped(o)
    /\ UNCHANGED <<obj, work, granted, writer, events, changes>>

(* A user makes or deletes the grant.  No controller writes it, so the lag of
   its informer is only a later change: it has none. *)
ToggleGrant ==
    /\ Change
    /\ granted' = ~granted
    /\ queue' = queue \cup mapReferenceGrantToReleases
    /\ UNCHANGED <<obj, cache, current, work, writer>>

-----------------------------------------------------------------------------
(* A reconcile: every step is one call that may fail, or one read of a cache *)

After(c, pc) ==
    [work EXCEPT ![c] = IF pc = "idle" THEN Idle ELSE [@ EXCEPT !.pc = pc]]

Goto(w) ==
    work' = w /\ UNCHANGED <<obj, cache, current, queue, granted, writer>>

(* An error puts the request back into the queue. *)
Fail(c) ==
    /\ work' = [work EXCEPT ![c] = Idle]
    /\ queue' = queue \cup {work[c].ref}
    /\ UNCHANGED <<obj, cache, current, granted, writer>>

(* Patch with the whole list of finalizers, computed from the cached copy and
   addressed by name: whatever was put on the list since is lost, and if the
   list is the same nothing is sent of it.  The API server refuses new
   finalizers on an object that is being deleted. *)
MergeFrom(c, o, fins, w) ==
    IF cache[o] = None THEN Fail(c)
    ELSE IF obj[o] = None THEN Fail(c)
    ELSE IF fins = cache[o].fin THEN Goto(w)
    ELSE IF obj[o].del /\ ~(fins \subseteq obj[o].fin) THEN Fail(c)
    ELSE Put(o, Stored([obj[o] EXCEPT !.fin = fins]), w, writer)

Fetch(c, x) ==
    LET copy == cache[x]
        pc == IF copy.del THEN "getParent"
              ELSE IF "self" \in copy.fin THEN "protect" ELSE "addFinalizer"
    IN
    /\ work[c].pc = "idle" /\ x \in queue \cap c
    /\ queue' = queue \ {x}
    /\ work' = IF copy = None THEN work
               ELSE [work EXCEPT ![c] = [Idle EXCEPT !.pc = pc, !.ref = x, !.seen = copy,
                                                     !.fresh = x \in current]]
    /\ UNCHANGED <<obj, cache, current, granted, writer, events, changes>>

AddFinalizer(c) ==
    LET x == work[c].ref IN
    /\ work[c].pc = "addFinalizer"
    /\ IF cache[x] # None /\ "self" \in cache[x].fin THEN Goto(After(c, "protect"))
       ELSE MergeFrom(c, x, cache[x].fin \cup {"self"}, After(c, "protect"))
    /\ Keep

(* A Release's gate, then the finalizer on what is referred to; a
   ComponentVersion only has the second. *)
Protect(c) ==
    LET x == work[c].ref
        parent == cache[Parent(x)]
        goal == Gate(x, granted, parent)
        next == IF x \in Versions THEN After(c, "idle")
                ELSE [work EXCEPT ![c].pc = "status", ![c].goal = goal]
    IN
    /\ work[c].pc = "protect"
    /\ IF goal # "Resolved" \/ "ref" \in parent.fin THEN Goto(next)
       ELSE MergeFrom(c, Parent(x), parent.fin \cup {"ref"}, next)
    /\ Keep

(* Status().Update with the Release read at the start, if the condition
   changes. *)
UpdateStatus ==
    LET c == Releases
        w == work[c]
    IN
    /\ w.pc = "status"
    /\ IF w.seen.cond = w.goal THEN Goto(After(c, "idle"))
       ELSE IF ~w.fresh THEN Fail(c)
       ELSE Put(w.ref, [obj[w.ref] EXCEPT !.cond = w.goal], After(c, "idle"), writer)
    /\ Keep

-----------------------------------------------------------------------------
(* Deletion of a Release or a ComponentVersion *)

\* Mutant of GetParent: nothing more is done if there is no parent.
GetParentStrict(c) ==
    LET parent == cache[Parent(work[c].ref)] IN
    /\ work[c].pc = "getParent"
    /\ Goto(After(c, IF parent = None THEN "idle"
                     ELSE IF "ref" \in parent.fin THEN "listReferrers" ELSE "removeFinalizer"))
    /\ Keep

GetParent(c) ==
    LET parent == cache[Parent(work[c].ref)] IN
    /\ work[c].pc = "getParent"
    /\ Goto(After(c, IF parent # None /\ "ref" \in parent.fin
                     THEN "listReferrers" ELSE "removeFinalizer"))
    /\ Keep

\* Mutant of ListReferrers: Releases of other namespaces are not listed.
ListOwnReferrers(c) ==
    LET x == work[c].ref
        others == {y \in (c \ Cross) \ {x} : cache[y] # None /\ ~cache[y].del}
    IN
    /\ work[c].pc = "listReferrers"
    /\ Goto(After(c, IF others = {} THEN "unprotect" ELSE "removeFinalizer"))
    /\ Keep

(* Another referrer that the cache shows, and not as deleted, keeps the
   protection. *)
ListReferrers(c) ==
    LET x == work[c].ref
        others == {y \in c \ {x} : cache[y] # None /\ ~cache[y].del}
    IN
    /\ work[c].pc = "listReferrers"
    /\ Goto(After(c, IF others = {} THEN "unprotect" ELSE "removeFinalizer"))
    /\ Keep

Unprotect(c) ==
    LET parent == Parent(work[c].ref) IN
    /\ work[c].pc = "unprotect"
    /\ IF cache[parent] = None THEN Goto(After(c, "removeFinalizer"))
       ELSE MergeFrom(c, parent, cache[parent].fin \ {"ref"}, After(c, "removeFinalizer"))
    /\ Keep

RemoveFinalizer(c) ==
    LET x == work[c].ref IN
    /\ work[c].pc = "removeFinalizer"
    /\ IF "self" \notin work[c].seen.fin THEN Goto(After(c, "idle"))
       ELSE MergeFrom(c, x, cache[x].fin \ {"self"}, After(c, "idle"))
    /\ Keep

-----------------------------------------------------------------------------
(* Any call may fail, and the manager may be restarted: its informers then
   list everything and every object is reconciled. *)

CallFails(c) == work[c].pc # "idle" /\ Fail(c) /\ Change

Restart ==
    /\ Change
    /\ cache' = obj /\ current' = Objects
    /\ queue' = {x \in Referrers : obj[x] # None}
    /\ work' = [c \in Controllers |-> Idle]
    /\ UNCHANGED <<obj, granted, writer>>

-----------------------------------------------------------------------------
Writer ==
    \/ \E v \in Versions, pc \in {"createComponent", "deleteVersion"} : Receive(v, pc)
    \/ WCreateComponent \/ WUpdateComponent \/ WCreateVersion \/ WUpdateVersion
    \/ WDeleteVersion \/ WListVersions \/ WDeleteComponent
    \/ WFails

Step(c) ==
    \/ \E x \in c : Fetch(c, x)
    \/ AddFinalizer(c) \/ Protect(c)
    \/ GetParent(c) \/ ListReferrers(c) \/ Unprotect(c) \/ RemoveFinalizer(c)
    \/ c = Releases /\ UpdateStatus

Next ==
    \/ Writer
    \/ \E r \in Releases : Create(r)
    \/ \E o \in Referrers : Delete(o)
    \/ \E o \in Objects : Sync(o)
    \/ ToggleGrant
    \/ \E c \in Controllers : Step(c) \/ CallFails(c)
    \/ Restart

Spec == Init /\ [][Next]_vars

-----------------------------------------------------------------------------
(* Properties *)

(* Objects, queues, workers and writer have their types: nobody protects a
   Release, and a Component has no finalizer of its own. *)
TypeOK ==
    /\ \A o \in Objects : obj[o] = None \/
         (obj[o].fin \subseteq {"self", "ref"} /\ (obj[o].del => obj[o].fin # {}))
    /\ \A r \in Releases : obj[r] = None \/ (obj[r].cond \in Reasons /\ "ref" \notin obj[r].fin)
    /\ obj[Component] = None \/ "self" \notin obj[Component].fin
    /\ \A o \in current : cache[o] = obj[o]
    /\ queue \subseteq Referrers
    /\ writer.pc = "idle" <=> writer.v = None
    /\ \A c \in Controllers : work[c].ref \in c \cup {None}

(* Nothing is left to do: the writer and the workers idle, the queues empty,
   the caches up to date. *)
Quiet ==
    /\ queue = {} /\ current = Objects /\ writer.pc = "idle"
    /\ \A c \in Controllers : work[c].pc = "idle"

(* Whatever the plain patches of the two controllers and the writer's updates
   drop from each other's lists of finalizers is put back: whenever everything
   is at rest, a ComponentVersion has its own finalizer, and one that an active
   Release may use is protected; and the Release's condition says what is the
   case with it. *)
QuietIsRight ==
    Quiet =>
      /\ \A v \in Versions : Active(v) => "self" \in obj[v].fin
      /\ \A r \in Releases : Active(r) =>
           /\ "self" \in obj[r].fin
           /\ obj[r].cond = Gate(r, granted, obj[Wanted])
           /\ obj[r].cond = "Resolved" /\ Active(Wanted) => "ref" \in obj[Wanted].fin

(* Deletion never gets stuck on a conflict or a stale copy: at rest no Release
   is marked deleted, and a ComponentVersion only waits with nothing but
   componentversion-ref on it. *)
QuietNothingIsStuck ==
    Quiet =>
      /\ \A r \in Releases : obj[r] = None \/ Active(r)
      /\ \A v \in Versions : obj[v] = None \/ Active(v) \/ obj[v].fin = {"ref"}

(* The Release controller takes componentversion-ref off only for the last
   Release: never while another active one has the ComponentVersion resolved,
   however old the list it looked at. *)
UnprotectsForTheLast ==
    [][work[Releases].pc = "unprotect" /\ obj'[Wanted] # obj[Wanted]
         /\ work'[Releases].pc # "unprotect"
         => \A r \in Releases \ {work[Releases].ref} : Active(r) => obj[r].cond # "Resolved"]_vars

(* What the documentation says: a ComponentVersion cannot be deleted while a
   Release references it.  One that is protected does not go while an active
   Release has it resolved. *)
ReferencedVersionStays ==
    [][obj[Wanted] # None /\ "ref" \in obj[Wanted].fin /\ obj'[Wanted] = None
         => \A r \in Releases : Active(r) => obj[r].cond # "Resolved"]_vars
=============================================================================
