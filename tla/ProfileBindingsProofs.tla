----------------------- MODULE ProfileBindingsProofs -----------------------
(***************************************************************************)
(* Proofs about ProfileBindings, for every set of Profiles and Targets,    *)
(* every bound on the bindings and every number of changes and faults.     *)
(***************************************************************************)
EXTENDS ProfileBindings, FiniteSetTheorems, TLAPS

Removal == {"listOwned", "clear", "removeFinalizer"}

Workers ==
    [pc : {"idle", "addFinalizer", "list", "sync"} \cup Removal,
     ref : Profiles \cup {None}, seen : ProfileRecs \cup {None}, fresh : BOOLEAN,
     want : SUBSET Targets, kill : SUBSET Names, make : SUBSET Targets]

(* What is stored of an object, and shown of it in a cache.                   *)
Kind(o) == IF o \in Profiles THEN ProfileRecs ELSE BindingRecs

Store(f) ==
    /\ f \in [Objects -> ProfileRecs \cup BindingRecs \cup {None}]
    /\ \A o \in Objects : f[o] \in Kind(o) \cup {None}

Types ==
    /\ there \subseteq Targets \cup {Grant}
    /\ Store(obj) /\ Store(cache)
    /\ current \subseteq Objects /\ queue \subseteq Profiles /\ gone \subseteq Profiles
    /\ work \in Workers

(* What is marked deleted has its finalizer, a copy that counts as current is *)
(* what is stored, and no UID comes back.                                     *)
ObjectsInv ==
    /\ \A o \in Objects : obj[o] # None /\ obj[o].del => obj[o].fin
    /\ \A o \in current : cache[o] = obj[o]
    /\ \A p \in gone : obj[p] = None

(* The copy that the worker holds is fresh only while nobody writes.          *)
WorkerOK(w) ==
    /\ IF w.pc = "idle" THEN w.ref = None ELSE w.ref \in Profiles /\ w.seen # None
    /\ w.make \subseteq w.want
    /\ w.fresh => w.ref \in Profiles /\ w.seen # None /\ obj[w.ref] = w.seen

IInv == Types /\ ObjectsInv /\ WorkerOK(work)

-----------------------------------------------------------------------------
(* Facts the steps share.                                                  *)

(* Kinds of objects are told apart, and None is none of them.                 *)
LEMMA Kinds ==
    /\ None \notin ProfileRecs /\ None \notin BindingRecs
    /\ None \notin Profiles /\ None \notin Names
    /\ Profiles \subseteq Objects /\ Names \subseteq Objects
    /\ \A o \in Objects : o \in Profiles <=> o \notin Names
BY ProfileAssumption, NoneAssumption DEF Objects

(* Every object is a Profile's, and tells it of its changes.                  *)
LEMMA OwnerFacts ==
    /\ \A o \in Objects : Owner(o) \in Profiles
    /\ \A p \in Profiles : Owner(p) = p
    /\ \A b \in Names : Owner(b) = b.owner /\ b.owner \in Profiles /\ b.target \in Targets
<1>1. \A b \in Names : b.owner \in Profiles /\ b.target \in Targets
  BY DEF Names
<1> QED
  BY <1>1, Kinds DEF Owner

(* A worker that no reconcile has begun with.                                 *)
LEMMA IdleFacts ==
    /\ Idle \in Workers /\ WorkerOK(Idle)
    /\ Idle.pc = "idle" /\ Idle.ref = None /\ ~Idle.fresh
<1>1. /\ Idle \in Workers /\ Idle.pc = "idle" /\ Idle.ref = None /\ Idle.fresh = FALSE
      /\ Idle.make = {} /\ Idle.want = {}
  BY DEF Idle, Workers, Removal
<1> QED
  BY <1>1 DEF WorkerOK

(* New objects.                                                               *)
LEMMA NewFacts ==
    /\ NewProfile \in ProfileRecs /\ NewProfile # None /\ ~NewProfile.del
    /\ NewBinding \in BindingRecs /\ NewBinding # None /\ ~NewBinding.del
<1>1. NewProfile \in ProfileRecs /\ NewBinding \in BindingRecs
  BY DEF NewProfile, NewBinding, ProfileRecs, BindingRecs
<1>2. ~NewProfile.del /\ ~NewBinding.del
  BY DEF NewProfile, NewBinding
<1> QED
  BY Zenon, <1>1, <1>2, Kinds

(* A record with another finalizer, marked deleted, or with another selector. *)
LEMMA RecFacts ==
    ASSUME NEW o \in Objects, NEW r \in Kind(o), NEW f \in BOOLEAN
    PROVE  /\ [r EXCEPT !.fin = f] \in Kind(o)
           /\ [r EXCEPT !.fin = f].fin = f /\ [r EXCEPT !.fin = f].del = r.del
           /\ [r EXCEPT !.del = TRUE] \in Kind(o)
           /\ [r EXCEPT !.del = TRUE].fin = r.fin /\ [r EXCEPT !.del = TRUE].del
<1>1. CASE o \in Profiles
  BY Zenon, <1>1 DEF Kind, ProfileRecs
<1>2. CASE o \notin Profiles
  BY Zenon, <1>2 DEF Kind, BindingRecs
<1> QED
  BY <1>1, <1>2

(* What the API server keeps of a record that is marked deleted.              *)
LEMMA StoredFacts ==
    ASSUME NEW o \in Objects, NEW r \in Kind(o)
    PROVE  /\ Stored(r) \in Kind(o) \cup {None}
           /\ Stored(r) # None => Stored(r) = r /\ (r.del => r.fin)
BY DEF Stored

(* A write of the object o, after which the worker is w, but that its copy of *)
(* o is not fresh.                                                            *)
LEMMA PutKeeps ==
    ASSUME IInv, NEW o \in Objects, NEW rec \in Kind(o) \cup {None}, NEW w \in Workers,
           Put(o, rec, w), rec # None /\ rec.del => rec.fin, o \in gone => rec = None,
           WorkerOK(w)
    PROVE  IInv'
<1>1. /\ obj' = [obj EXCEPT ![o] = rec] /\ current' = current \ {o}
      /\ gone' = IF rec = None THEN gone \cup ({o} \cap Profiles) ELSE gone
      /\ work' = [w EXCEPT !.fresh = @ /\ w.ref # o]
      /\ there' = there /\ cache' = cache /\ queue' = queue
  BY DEF Put
<1>2. /\ obj'[o] = rec /\ (\A y \in Objects \ {o} : obj'[y] = obj[y]) /\ Store(obj')
  BY <1>1 DEF IInv, Types, Store, Kind
<1>3. /\ work' \in Workers /\ work'.pc = w.pc /\ work'.ref = w.ref /\ work'.seen = w.seen
      /\ work'.make = w.make /\ work'.want = w.want
      /\ work'.fresh => w.fresh /\ w.ref # o
  <2> DEFINE f == w.fresh /\ w.ref # o
  <2>1. f \in BOOLEAN /\ work' = [w EXCEPT !.fresh = f]
    BY <1>1 DEF Workers
  <2> HIDE DEF f
  <2>2. /\ work' \in Workers /\ work'.pc = w.pc /\ work'.ref = w.ref /\ work'.seen = w.seen
        /\ work'.make = w.make /\ work'.want = w.want /\ work'.fresh = f
    BY <2>1 DEF Workers
  <2> QED
    BY Zenon, <2>2 DEF f
<1>4. Types'
  BY <1>1, <1>2, <1>3, Kinds DEF IInv, Types
<1>5. ObjectsInv'
  BY <1>1, <1>2, Kinds DEF IInv, ObjectsInv, Types
<1>6. WorkerOK(work)'
  BY <1>2, <1>3, Kinds DEF WorkerOK
<1> QED
  BY <1>4, <1>5, <1>6 DEF IInv

(* A step that writes nothing.                                                *)
LEMMA MoveKeeps ==
    ASSUME IInv, NEW w \in Workers, work' = w, WorkerOK(w),
           UNCHANGED <<obj, cache, current, gone>>,
           there' \subseteq Targets \cup {Grant}, queue' \subseteq Profiles
    PROVE  IInv'
<1>1. Types'
  BY DEF IInv, Types
<1>2. ObjectsInv' /\ WorkerOK(work)'
  BY DEF IInv, ObjectsInv, WorkerOK
<1> QED
  BY <1>1, <1>2 DEF IInv

(* A failed call.                                                             *)
LEMMA FailKeeps ==
    ASSUME IInv, work.pc # "idle", Fail
    PROVE  IInv'
<1>1. work.ref \in Profiles
  BY DEF IInv, WorkerOK
<1> QED
  BY <1>1, IdleFacts, MoveKeeps DEF Fail, IInv, Types

(* The worker at pc.                                                          *)
LEMMA AtFacts ==
    ASSUME IInv, work.pc # "idle",
           NEW pc \in {"addFinalizer", "list", "sync"} \cup Removal
    PROVE  /\ [work EXCEPT !.pc = pc] \in Workers /\ WorkerOK([work EXCEPT !.pc = pc])
           /\ [work EXCEPT !.pc = pc].pc = pc /\ [work EXCEPT !.pc = pc].ref = work.ref
           /\ [work EXCEPT !.pc = pc].seen = work.seen
<1> DEFINE w == [work EXCEPT !.pc = pc]
<1>1. work \in Workers /\ pc # "idle"
  BY DEF IInv, Types, Removal
<1>2. /\ w \in Workers /\ w.pc = pc /\ w.ref = work.ref /\ w.seen = work.seen
      /\ w.fresh = work.fresh /\ w.make = work.make /\ w.want = work.want
  BY <1>1 DEF Workers
<1> HIDE DEF w
<1>3. WorkerOK(w)
  BY <1>1, <1>2 DEF IInv, WorkerOK
<1> QED
  BY <1>2, <1>3 DEF w

(* The worker goes on.                                                        *)
LEMMA GotoKeeps ==
    ASSUME IInv, work.pc # "idle",
           NEW pc \in {"idle", "addFinalizer", "list", "sync"} \cup Removal, Goto(pc)
    PROVE  IInv'
<1>1. CASE pc = "idle"
  BY <1>1, IdleFacts, MoveKeeps DEF Goto, IInv, Types
<1>2. CASE pc # "idle"
  BY <1>2, AtFacts, MoveKeeps DEF Goto, IInv, Types
<1> QED
  BY <1>1, <1>2

-----------------------------------------------------------------------------
(* Users, the garbage collector, the ReleaseBinding controller, informers. *)

(* A user makes a Profile.                                                    *)
LEMMA CreateKeeps ==
    ASSUME IInv, NEW p \in Profiles, Create(p)
    PROVE  IInv'
BY Kinds, NewFacts, PutKeeps DEF Create, Kind, IInv, Types

(* An active object is deleted.                                               *)
LEMMA DeleteKeeps ==
    ASSUME IInv, NEW o \in Objects, Active(o), NEW w \in Workers, WorkerOK(w),
           Put(o, Stored([obj[o] EXCEPT !.del = TRUE]), w)
    PROVE  IInv'
<1> DEFINE r == [obj[o] EXCEPT !.del = TRUE]
<1>1. obj[o] \in Kind(o) /\ o \notin gone
  BY DEF Active, IInv, Types, Store, ObjectsInv
<1>2. r \in Kind(o)
  BY Zenon, <1>1, RecFacts
<1> HIDE DEF r
<1>3. Stored(r) \in Kind(o) \cup {None} /\ (Stored(r) # None /\ Stored(r).del => Stored(r).fin)
  BY <1>2, StoredFacts
<1> QED
  BY <1>1, <1>3, PutKeeps DEF r

(* The selector of a Profile is changed.                                      *)
LEMMA SetSelectorKeeps ==
    ASSUME IInv, NEW p \in Profiles, SetSelector(p)
    PROVE  IInv'
<1> DEFINE r == [obj[p] EXCEPT !.valid = ~@]
<1>1. obj[p] \in ProfileRecs /\ p \notin gone /\ ~obj[p].del /\ p \in Objects
  BY Kinds DEF SetSelector, Active, IInv, Types, Store, ObjectsInv, Kind
<1>2. r \in ProfileRecs /\ r.del = obj[p].del
  BY Zenon, <1>1 DEF ProfileRecs
<1> HIDE DEF r
<1> QED
  BY Zenon, <1>1, <1>2, PutKeeps DEF r, SetSelector, Kind, IInv, Types

(* The ReleaseBinding controller puts or removes a finalizer.                 *)
LEMMA ReconcileBindingKeeps ==
    ASSUME IInv, NEW b \in Names, ReconcileBinding(b)
    PROVE  IInv'
<1> DEFINE f == ~obj[b].fin
           r == [obj[b] EXCEPT !.fin = f]
<1>1. obj[b] \in Kind(b) /\ b \in Objects /\ b \notin gone
  BY Kinds DEF ReconcileBinding, IInv, Types, Store, ObjectsInv
<1>2. f \in BOOLEAN
  OBVIOUS
<1> HIDE DEF f
<1>3. r \in Kind(b)
  BY Zenon, <1>1, <1>2, RecFacts
<1>4. Put(b, Stored(r), work)
  BY DEF ReconcileBinding, f
<1> HIDE DEF r
<1>5. Stored(r) \in Kind(b) \cup {None} /\ (Stored(r) # None /\ Stored(r).del => Stored(r).fin)
  BY <1>1, <1>3, StoredFacts
<1> QED
  BY <1>1, <1>4, <1>5, PutKeeps DEF IInv, Types

(* A Target or the grant appears or goes.                                     *)
LEMMA ToggleKeeps ==
    ASSUME IInv, NEW o \in Targets \cup {Grant}, Toggle(o)
    PROVE  IInv'
<1>1. mapReferenceGrantToProfiles \subseteq Profiles /\ mapTargetToProfiles(o) \subseteq Profiles
  BY DEF mapReferenceGrantToProfiles, mapTargetToProfiles
<1> QED
  BY <1>1, MoveKeeps DEF Toggle, IInv, Types

(* An informer catches up with an object.                                     *)
LEMMA SyncKeeps ==
    ASSUME IInv, NEW o \in Objects, Sync(o)
    PROVE  IInv'
<1>1. /\ cache' = [cache EXCEPT ![o] = obj[o]] /\ current' = current \cup {o}
      /\ queue' = queue \cup {Owner(o)}
      /\ UNCHANGED <<there, obj, work, gone>>
  BY DEF Sync
<1>2. cache'[o] = obj[o] /\ (\A y \in Objects \ {o} : cache'[y] = cache[y]) /\ Store(cache')
  BY <1>1 DEF IInv, Types, Store, Kind
<1>3. Types'
  BY <1>1, <1>2, OwnerFacts DEF IInv, Types
<1>4. ObjectsInv' /\ WorkerOK(work)'
  BY <1>1, <1>2 DEF IInv, ObjectsInv, WorkerOK, Types
<1> QED
  BY <1>3, <1>4 DEF IInv

(* The manager is started again.                                              *)
LEMMA RestartKeeps ==
    ASSUME IInv, Restart
    PROVE  IInv'
<1>1. /\ cache' = obj /\ current' = Objects /\ queue' \subseteq Profiles
      /\ work' = Idle /\ UNCHANGED <<there, obj, gone>>
  BY DEF Restart
<1>2. Types' /\ ObjectsInv'
  BY <1>1, IdleFacts DEF IInv, Types, ObjectsInv
<1>3. WorkerOK(work)'
  BY <1>1, IdleFacts DEF WorkerOK
<1> QED
  BY <1>2, <1>3 DEF IInv

-----------------------------------------------------------------------------
(* The Profile controller.                                                 *)

(* What a worker that is not idle holds.                                      *)
LEMMA Holding ==
    ASSUME IInv, work.pc # "idle"
    PROVE  /\ work \in Workers /\ work.ref \in Profiles /\ work.ref \in Objects
           /\ work.seen \in ProfileRecs /\ work.seen # None
           /\ work.fresh => obj[work.ref] = work.seen
           /\ work.make \subseteq work.want /\ work.want \subseteq Targets
           /\ work.kill \subseteq Names
<1>1. work \in Workers /\ WorkerOK(work)
  BY DEF IInv, Types
<1> QED
  BY <1>1, Kinds DEF Workers, WorkerOK

(* A reconcile begins.                                                        *)
LEMMA FetchKeeps ==
    ASSUME IInv, NEW p \in Profiles, Fetch(p)
    PROVE  IInv'
<1> DEFINE copy == cache[p]
           pc == IF copy.del THEN "listOwned" ELSE IF copy.fin THEN "list" ELSE "addFinalizer"
           f == p \in current
           w == [Idle EXCEPT !.pc = pc, !.ref = p, !.seen = copy, !.fresh = f]
<1>1. queue' \subseteq Profiles /\ UNCHANGED <<there, obj, cache, current, gone>>
  BY DEF Fetch, IInv, Types
<1>2. CASE copy = None
  <2>1. work' = Idle
    BY <1>2 DEF Fetch
  <2> QED
    BY <2>1, <1>1, IdleFacts, MoveKeeps DEF IInv, Types
<1>3. CASE copy # None
  <2>1. work' = w
    BY <1>3 DEF Fetch
  <2>2. /\ copy \in ProfileRecs /\ pc \in {"addFinalizer", "list", "listOwned"}
        /\ f \in BOOLEAN /\ (f => obj[p] = copy)
    BY <1>3, Kinds DEF IInv, Types, Store, Kind, ObjectsInv
  <2> HIDE DEF copy, pc, f
  <2>3. /\ w.pc = pc /\ w.ref = p /\ w.seen = copy /\ w.fresh = f
        /\ w.make = {} /\ w.want = {} /\ w.kill = {}
    BY DEF Idle
  <2>4. w \in Workers
    BY Zenon, <2>2 DEF Idle, Workers, Removal
  <2> HIDE DEF w
  <2>5. WorkerOK(w)
    BY <2>2, <2>3, Kinds DEF WorkerOK
  <2> QED
    BY <2>1, <2>4, <2>5, <1>1, MoveKeeps DEF IInv, Types
<1> QED
  BY <1>2, <1>3

(* The own finalizer is put.                                                  *)
LEMMA AddFinalizerKeeps ==
    ASSUME IInv, AddFinalizer
    PROVE  IInv'
<1> DEFINE p == work.ref
           r == [obj[p] EXCEPT !.fin = TRUE]
           w == [work EXCEPT !.pc = "list"]
<1>1. work.pc = "addFinalizer" /\ work.pc # "idle"
  BY DEF AddFinalizer
<1>2. CASE Fail
  BY <1>1, <1>2, FailKeeps
<1>3. CASE Goto("list")
  BY <1>1, <1>3, GotoKeeps
<1>4. CASE obj[p] # None /\ Put(p, r, w)
  <2>1. p \in Objects /\ p \notin gone /\ obj[p] \in Kind(p)
    BY <1>1, <1>4, Holding DEF IInv, ObjectsInv, Types, Store
  <2>2. r \in Kind(p) /\ r.fin
    BY Zenon, <2>1, RecFacts
  <2>3. w \in Workers /\ WorkerOK(w)
    BY <1>1, AtFacts
  <2> HIDE DEF r, w
  <2> QED
    BY <2>1, <2>2, <2>3, <1>4, PutKeeps
<1> QED
  BY <1>2, <1>3, <1>4 DEF AddFinalizer

(* The lists are read.                                                        *)
LEMMA ListKeeps ==
    ASSUME IInv, List
    PROVE  IInv'
<1> DEFINE kill == {b \in Owned(work.ref) : b.target \notin DesiredTargets}
           make == DesiredTargets \ {b.target : b \in Owned(work.ref)}
           want == DesiredTargets
           w == [work EXCEPT !.pc = "sync", !.want = want, !.kill = kill, !.make = make]
<1>1. work.pc = "list" /\ work.pc # "idle"
  BY DEF List
<1>2. CASE Goto("idle")
  BY <1>1, <1>2, GotoKeeps
<1>3. CASE work' = w /\ UNCHANGED <<there, obj, cache, current, queue, gone>>
  <2>1. want \subseteq Targets /\ kill \subseteq Names /\ make \subseteq want
    BY DEF DesiredTargets, Owned
  <2> HIDE DEF want, kill, make
  <2>2. work \in Workers
    BY DEF IInv, Types
  <2>3. /\ w \in Workers /\ w.pc = "sync" /\ w.ref = work.ref /\ w.seen = work.seen
        /\ w.fresh = work.fresh /\ w.make = make /\ w.want = want
    BY Zenon, <2>1, <2>2 DEF Workers
  <2> HIDE DEF w
  <2>4. WorkerOK(w)
    BY <2>1, <2>3, <1>1 DEF IInv, WorkerOK
  <2> QED
    BY <2>3, <2>4, <1>3, MoveKeeps DEF IInv, Types
<1> QED
  BY <1>2, <1>3 DEF List

(* A binding is deleted.                                                      *)
LEMMA DeleteBindingKeeps ==
    ASSUME IInv, NEW b \in Names, DeleteBinding(b)
    PROVE  IInv'
<1> DEFINE kill == work.kill \ {b}
           w == [work EXCEPT !.kill = kill]
<1>1. work \in Workers /\ work.kill \subseteq Names
  BY DEF IInv, Types, Workers
<1>2. kill \subseteq Names
  BY <1>1
<1>3. IF Active(b) THEN Put(b, Stored([obj[b] EXCEPT !.del = TRUE]), w)
      ELSE work' = w /\ UNCHANGED <<there, obj, cache, current, queue, gone>>
  BY DEF DeleteBinding
<1> HIDE DEF kill
<1>4. /\ w \in Workers /\ w.pc = work.pc /\ w.ref = work.ref /\ w.seen = work.seen
      /\ w.fresh = work.fresh /\ w.make = work.make /\ w.want = work.want
  BY <1>1, <1>2 DEF Workers
<1> HIDE DEF w
<1>5. WorkerOK(w)
  BY <1>4 DEF IInv, WorkerOK
<1>6. CASE Active(b)
  BY <1>3, <1>4, <1>5, <1>6, Kinds, DeleteKeeps
<1>7. CASE ~Active(b)
  BY <1>3, <1>4, <1>5, <1>7, MoveKeeps DEF IInv, Types
<1> QED
  BY <1>6, <1>7

(* A binding is made.                                                         *)
LEMMA CreateBindingKeeps ==
    ASSUME IInv, NEW t \in Targets, CreateBinding(t)
    PROVE  IInv'
<1> DEFINE free == Free(work.ref, t)
           b == CHOOSE n \in free : TRUE
           make == work.make \ {t}
           w == [work EXCEPT !.make = make]
<1>1. work.pc = "sync" /\ work.pc # "idle" /\ work \in Workers
  BY DEF CreateBinding, IInv, Types
<1>2. CASE free = {}
  BY <1>1, <1>2, FailKeeps DEF CreateBinding
<1>3. CASE free # {}
  <2>1. Put(b, NewBinding, w)
    BY <1>3 DEF CreateBinding
  <2>2. b \in Names
    <3>1. b \in free
      BY <1>3
    <3> QED
      BY <3>1 DEF Free
  <2>3. make \subseteq work.make /\ make \subseteq Targets
    BY <1>1 DEF Workers
  <2> HIDE DEF make, b
  <2>4. /\ w \in Workers /\ w.pc = work.pc /\ w.ref = work.ref /\ w.seen = work.seen
        /\ w.fresh = work.fresh /\ w.make = make /\ w.want = work.want
    BY <2>3, <1>1 DEF Workers
  <2> HIDE DEF w
  <2>5. WorkerOK(w)
    BY <2>3, <2>4 DEF IInv, WorkerOK
  <2>6. b \in Objects /\ NewBinding \in Kind(b) /\ b \notin gone
    BY <2>2, Kinds, NewFacts DEF Kind, IInv, Types
  <2> QED
    BY <2>1, <2>4, <2>5, <2>6, NewFacts, PutKeeps
<1> QED
  BY <1>2, <1>3

(* The number of matched Targets is written.                                  *)
LEMMA UpdateStatusKeeps ==
    ASSUME IInv, UpdateStatus
    PROVE  IInv'
<1> DEFINE p == work.ref
           matched == Cardinality(work.want)
           r == [obj[p] EXCEPT !.matched = matched]
<1>1. work.pc = "sync" /\ work.pc # "idle"
  BY DEF UpdateStatus
<1>2. CASE Fail \/ Goto("idle")
  BY <1>1, <1>2, FailKeeps, GotoKeeps
<1>3. CASE work.fresh /\ Put(p, r, Idle)
  <2>1. /\ p \in Objects /\ p \in Profiles /\ obj[p] \in ProfileRecs /\ obj[p] # None
        /\ work.want \subseteq Targets
    BY <1>1, <1>3, Holding
  <2>2. matched \in Nat
    BY <2>1, ProfileAssumption, FS_Subset, FS_CardinalityType
  <2> HIDE DEF matched
  <2>3. r \in ProfileRecs /\ r.fin = obj[p].fin /\ r.del = obj[p].del
    BY <2>1, <2>2 DEF ProfileRecs
  <2>4. p \notin gone /\ (obj[p].del => obj[p].fin)
    BY <2>1 DEF IInv, ObjectsInv
  <2> HIDE DEF r
  <2> QED
    BY <2>1, <2>3, <2>4, <1>3, IdleFacts, PutKeeps DEF Kind
<1> QED
  BY <1>2, <1>3 DEF UpdateStatus

(* A deleted Profile lists its bindings, and is done or deletes them.         *)
LEMMA ListOwnedKeeps ==
    ASSUME IInv, ListOwned
    PROVE  IInv'
<1> DEFINE kill == {b \in Owned(work.ref) : ~cache[b].del}
           w == [work EXCEPT !.pc = "clear", !.kill = kill]
<1>1. /\ work.pc = "listOwned" /\ work.pc # "idle" /\ work \in Workers
      /\ UNCHANGED <<there, obj, cache, current, queue, gone>>
  BY DEF ListOwned, IInv, Types
<1>2. CASE work' = [work EXCEPT !.pc = "removeFinalizer"]
  BY <1>1, <1>2, AtFacts, MoveKeeps DEF Removal, IInv, Types
<1>3. CASE work' = w
  <2>1. kill \subseteq Names
    BY DEF Owned
  <2> HIDE DEF kill
  <2>2. /\ w \in Workers /\ w.pc = "clear" /\ w.ref = work.ref /\ w.seen = work.seen
        /\ w.fresh = work.fresh /\ w.make = work.make /\ w.want = work.want
    BY Zenon, <2>1, <1>1 DEF Workers, Removal
  <2> HIDE DEF w
  <2>3. WorkerOK(w)
    BY <2>2, <1>1 DEF IInv, WorkerOK
  <2> QED
    BY <2>2, <2>3, <1>1, <1>3, MoveKeeps DEF IInv, Types
<1> QED
  BY <1>2, <1>3 DEF ListOwned

(* The own finalizer is removed.                                              *)
LEMMA RemoveFinalizerKeeps ==
    ASSUME IInv, RemoveFinalizer
    PROVE  IInv'
<1> DEFINE p == work.ref
           r == [obj[p] EXCEPT !.fin = FALSE]
<1>1. work.pc = "removeFinalizer" /\ work.pc # "idle"
  BY DEF RemoveFinalizer
<1>2. CASE Fail \/ Goto("idle")
  BY <1>1, <1>2, FailKeeps, GotoKeeps
<1>3. CASE obj[p] # None /\ Put(p, Stored(r), Idle)
  <2>1. p \in Objects /\ p \notin gone /\ obj[p] \in Kind(p)
    BY <1>1, <1>3, Holding DEF IInv, ObjectsInv, Types, Store
  <2>2. r \in Kind(p)
    BY Zenon, <2>1, RecFacts
  <2> HIDE DEF r
  <2>3. Stored(r) \in Kind(p) \cup {None} /\ (Stored(r) # None /\ Stored(r).del => Stored(r).fin)
    BY <2>1, <2>2, StoredFacts
  <2> QED
    BY <2>1, <2>3, <1>3, IdleFacts, PutKeeps
<1> QED
  BY <1>2, <1>3 DEF RemoveFinalizer

-----------------------------------------------------------------------------
(* The invariant holds initially.                                             *)
LEMMA InitHolds == Init => IInv
<1> SUFFICES ASSUME Init PROVE IInv
  OBVIOUS
<1>1. PICK made \in SUBSET Profiles :
         /\ obj = [o \in Objects |-> IF o \in made THEN NewProfile ELSE None]
         /\ current = Objects \ made
  BY DEF Init
<1>2. Store(obj) /\ Store(cache)
  BY <1>1, NewFacts DEF Init, Store, Kind
<1>3. Types
  BY <1>1, <1>2, IdleFacts DEF Init, Types
<1>4. ObjectsInv
  BY <1>1, NewFacts DEF Init, ObjectsInv
<1> QED
  BY <1>3, <1>4, IdleFacts DEF IInv, Init

(* Every step keeps the invariant.                                            *)
LEMMA NextKeeps == IInv /\ [Next]_vars => IInv'
<1> SUFFICES ASSUME IInv, [Next]_vars PROVE IInv'
  OBVIOUS
<1>1. CASE \E p \in Profiles : Create(p) \/ SetSelector(p)
  BY <1>1, CreateKeeps, SetSelectorKeeps
<1>2. ASSUME NEW o \in Objects, Delete(o) \/ CollectGarbage(o) PROVE IInv'
  BY <1>2, DeleteKeeps DEF Delete, CollectGarbage, IInv, Types
<1>3. CASE \E o \in Objects : Sync(o)
  BY <1>3, SyncKeeps
<1>4. CASE \E o \in Targets \cup {Grant} : Toggle(o)
  BY <1>4, ToggleKeeps
<1>5. CASE \E b \in Names : ReconcileBinding(b)
  BY <1>5, ReconcileBindingKeeps
<1>6. CASE Step
  <2>1. CASE Cleared
    BY <2>1, GotoKeeps DEF Cleared
  <2> QED
    BY <2>1, <1>6, FetchKeeps, AddFinalizerKeeps, ListKeeps, UpdateStatusKeeps, ListOwnedKeeps,
       RemoveFinalizerKeeps, DeleteBindingKeeps, CreateBindingKeeps DEF Step
<1>7. CASE CallFails
  BY <1>7, FailKeeps DEF CallFails
<1>8. CASE Restart
  BY <1>8, RestartKeeps
<1>9. CASE UNCHANGED vars
  BY <1>9, MoveKeeps DEF vars, IInv, Types
<1> QED
  BY <1>1, <1>2, <1>3, <1>4, <1>5, <1>6, <1>7, <1>8, <1>9, Kinds DEF Next

(* The inductive invariant: copies that count as current are what is stored,  *)
(* and so is the copy the worker holds while it is fresh.                     *)
THEOREM Invariance == Spec => []IInv
  BY InitHolds, NextKeeps, PTL DEF Spec

(* Objects, queue and worker keep their types, and bindings are only made for *)
(* Targets that were selected.                                                *)
THEOREM TypeCorrect == Spec => []TypeOK
<1>1. IInv => TypeOK
  <2> SUFFICES ASSUME IInv PROVE TypeOK
    OBVIOUS
  <2>1. work.want \subseteq Targets /\ work.make \subseteq work.want /\ work.kill \subseteq Names
    BY DEF IInv, Types, Workers, WorkerOK
  <2> QED
    BY <2>1 DEF IInv, Types, ObjectsInv, TypeOK
<1> QED
  BY <1>1, Invariance, PTL

-----------------------------------------------------------------------------
(* No wake-up of a Profile is lost.                                        *)

(* A request for p is in the queue, or comes with the next event of p or of   *)
(* one of its bindings.                                                       *)
Pending(p) ==
    \/ p \in queue \/ p \notin current
    \/ \E b \in Names : b.owner = p /\ b \notin current

Ending(b) == obj[b] # None /\ obj[b].del

(* Every selected Target has a binding, or is among those that get one; and   *)
(* every binding of another Target is on its way out, or among those that     *)
(* are to be deleted.                                                         *)
Placed(p, make) == \A t \in DesiredTargets : t \in make \/ \E b \in Owned(p) : b.target = t
Cleaned(p, kill) == \A b \in Owned(p) : b.target \in DesiredTargets \/ b \in kill \/ Ending(b)

(* The worker w deals with p, of which it has the stored version, and has     *)
(* listed what there is.                                                      *)
Handled(p, w) ==
    /\ w.pc \in {"addFinalizer", "list", "sync"} /\ w.seen = obj[p]
    /\ w.pc = "sync" => w.want = DesiredTargets /\ Placed(p, w.make) /\ Cleaned(p, w.kill)

(* All is done for p, as far as the cache shows.                              *)
Right(p) == obj[p].matched = Cardinality(DesiredTargets) /\ Placed(p, {}) /\ Cleaned(p, {})

Awake(p, w) ==
    Active(p) /\ obj[p].valid /\ ~Pending(p)
      => IF w.ref = p THEN Handled(p, w) ELSE Right(p)

WakeInv == \A p \in Profiles : Awake(p, work)

(* A step that does not concern p, its bindings and its Targets.              *)
Apart(p) ==
    /\ obj'[p] = obj[p] /\ (p \in current' => p \in current) /\ (p \in queue => p \in queue')
    /\ \A b \in Names : b.owner = p =>
         obj'[b] = obj[b] /\ cache'[b] = cache[b] /\ (b \in current' => b \in current)
    /\ DesiredTargets' = DesiredTargets

(* It leaves p in order.                                                      *)
LEMMA ApartAwake ==
    ASSUME NEW p \in Profiles, Apart(p), NEW w, NEW v, Awake(p, w),
           IF v.ref = p THEN /\ w.ref = p /\ v.pc = w.pc /\ v.seen = w.seen
                             /\ v.want = w.want /\ v.make = w.make
                             /\ \A b \in Names : b.owner = p /\ b \in w.kill => b \in v.kill
           ELSE w.ref # p
    PROVE  Awake(p, v)'
<1>1. SUFFICES ASSUME Active(p)', obj'[p].valid, ~Pending(p)'
               PROVE  (IF v.ref = p THEN Handled(p, v) ELSE Right(p))'
  BY DEF Awake
<1>2. Active(p) /\ obj[p].valid /\ ~Pending(p)
  BY <1>1 DEF Active, Pending, Apart
<1>3. Owned(p)' = Owned(p)
  BY DEF Owned, Apart
<1>4. \A b \in Owned(p) : Ending(b)' <=> Ending(b)
  BY DEF Owned, Ending, Apart
<1>5. ASSUME NEW s PROVE Placed(p, s) => Placed(p, s)'
  BY <1>3 DEF Placed, Apart
<1>6. ASSUME NEW s, NEW k, \A b \in Names : b.owner = p /\ b \in s => b \in k
      PROVE  Cleaned(p, s) => Cleaned(p, k)'
  <2>1. Owned(p) \subseteq {b \in Names : b.owner = p}
    BY DEF Owned
  <2> QED
    BY <2>1, <1>3, <1>4, <1>6 DEF Cleaned, Apart
<1>7. CASE v.ref = p
  <2>1. Handled(p, w)
    BY ZenonT(40), <1>2, <1>7 DEF Awake
  <2> QED
    BY <2>1, <1>5, <1>6, <1>7 DEF Handled, Apart
<1>8. CASE v.ref # p
  <2>1. Right(p)
    BY <1>2, <1>8 DEF Awake
  <2>2. Placed(p, {})' /\ Cleaned(p, {})'
    BY <2>1, <1>5, <1>6 DEF Right
  <2> QED
    BY <2>1, <2>2, <1>8 DEF Right, Apart
<1> QED
  BY <1>7, <1>8

(* What is pending needs nothing else.                                        *)
LEMMA PendingAwake ==
    ASSUME NEW p, NEW v, Pending(p)'
    PROVE  Awake(p, v)'
BY DEF Awake

(* A write tells the Profile of the object.  It leaves the other Profiles     *)
(* alone, if the worker deals with that one or is not concerned.              *)
LEMMA PutWakes ==
    ASSUME IInv, WakeInv, NEW o \in Objects, NEW rec, NEW w \in Workers, Put(o, rec, w),
           \/ w = work \/ w = [work EXCEPT !.kill = @ \ {o}]
           \/ work.ref = Owner(o) /\ w.ref \in {work.ref, None}
    PROVE  WakeInv'
<1>1. /\ obj' = [obj EXCEPT ![o] = rec] /\ current' = current \ {o}
      /\ work' = [w EXCEPT !.fresh = @ /\ w.ref # o]
      /\ there' = there /\ cache' = cache /\ queue' = queue
  BY DEF Put
<1>2. /\ work'.pc = w.pc /\ work'.ref = w.ref /\ work'.seen = w.seen
      /\ work'.want = w.want /\ work'.make = w.make /\ work'.kill = w.kill
  BY <1>1 DEF Workers
<1>3. ASSUME w = [work EXCEPT !.kill = @ \ {o}]
      PROVE  /\ w.pc = work.pc /\ w.ref = work.ref /\ w.seen = work.seen
             /\ w.want = work.want /\ w.make = work.make /\ w.kill = work.kill \ {o}
  BY <1>3 DEF IInv, Types, Workers
<1>4. ASSUME NEW p \in Profiles, NEW v, v = work' PROVE Awake(p, v)'
  <2>1. CASE p = Owner(o)
    <3>1. Pending(p)'
      BY <2>1, <1>1, OwnerFacts, Kinds DEF Pending
    <3> QED
      BY <3>1, PendingAwake
  <2>2. CASE p # Owner(o)
    <3>1. p # o /\ \A b \in Names : b.owner = p => b # o
      BY <2>2, OwnerFacts
    <3>2. Apart(p)
      BY <3>1, <1>1, Kinds DEF Apart, DesiredTargets, IInv, Types, Store
    <3>3. Awake(p, work)
      BY DEF WakeInv
    <3>4. IF v.ref = p THEN /\ work.ref = p /\ v.pc = work.pc /\ v.seen = work.seen
                            /\ v.want = work.want /\ v.make = work.make
                            /\ \A b \in Names : b.owner = p /\ b \in work.kill => b \in v.kill
          ELSE work.ref # p
      BY <3>1, <2>2, <1>2, <1>3, <1>4, Kinds
    <3> QED
      BY <3>2, <3>3, <3>4, ApartAwake
  <2> QED
    BY <2>1, <2>2
<1> QED
  BY <1>4 DEF WakeInv

(* A step of the worker that writes nothing: only the Profile y it deals with *)
(* is concerned.                                                              *)
LEMMA MoveWakes ==
    ASSUME WakeInv, NEW w, work' = w, UNCHANGED <<there, obj, cache, current>>,
           NEW y, work.ref \in {y, None}, w.ref \in {y, None}, None \notin Profiles,
           \A p \in queue \ {y} : p \in queue', y \in Profiles => Awake(y, w)'
    PROVE  WakeInv'
<1>1. ASSUME NEW p \in Profiles, p # y PROVE Awake(p, w)'
  <2>1. Apart(p)
    BY <1>1 DEF Apart, DesiredTargets
  <2>2. Awake(p, work)
    BY DEF WakeInv
  <2> QED
    BY <2>1, <2>2, <1>1, ApartAwake
<1>2. \A p \in Profiles : Awake(p, w)'
  BY <1>1
<1> QED
  BY <1>2 DEF WakeInv

(* The request of a failed call is in the queue again.                        *)
LEMMA FailWakes ==
    ASSUME IInv, WakeInv, work.pc # "idle", Fail
    PROVE  WakeInv'
<1> SUFFICES ASSUME NEW y, y = work.ref PROVE WakeInv'
  OBVIOUS
<1>1. y \in Profiles /\ y \in queue'
  BY Holding DEF Fail
<1>2. Awake(y, Idle)'
  BY <1>1, PendingAwake DEF Pending
<1> QED
  BY <1>2, IdleFacts, Kinds, MoveWakes DEF Fail

(* Before the worker's copy of y is known to be the stored one nothing is     *)
(* claimed of y: the request for it, or an event, is yet to come.             *)
LEMMA StillAwake ==
    ASSUME NEW y, NEW w, ~(Active(y) /\ obj[y].valid /\ ~Pending(y)),
           UNCHANGED <<obj, current>>, queue \subseteq queue'
    PROVE  Awake(y, w)'
BY DEF Awake, Active, Pending

(* What the worker has of the Profile it deals with.                          *)
LEMMA WorkAwake ==
    ASSUME IInv, WakeInv, work.pc # "idle"
    PROVE  Active(work.ref) /\ obj[work.ref].valid /\ ~Pending(work.ref)
             => Handled(work.ref, work)
BY Holding DEF WakeInv, Awake

-----------------------------------------------------------------------------
(* A Profile or a binding is made, deleted or changed by others.              *)
LEMMA OthersWake ==
    ASSUME IInv, WakeInv, NEW o \in Objects,
           \/ o \in Profiles /\ (Create(o) \/ SetSelector(o))
           \/ Delete(o) \/ CollectGarbage(o) \/ ReconcileBinding(o)
    PROVE  WakeInv'
<1>1. PICK rec : Put(o, rec, work)
  BY DEF Create, SetSelector, Delete, CollectGarbage, ReconcileBinding
<1> QED
  BY <1>1, PutWakes DEF IInv, Types

(* An event tells the Profile of the object.                                  *)
LEMMA SyncWakes ==
    ASSUME IInv, WakeInv, NEW o \in Objects, Sync(o)
    PROVE  WakeInv'
<1>1. /\ cache' = [cache EXCEPT ![o] = obj[o]] /\ current' = current \cup {o}
      /\ queue' = queue \cup {Owner(o)}
      /\ UNCHANGED <<there, obj, work>>
  BY DEF Sync
<1>2. ASSUME NEW p \in Profiles, NEW v, v = work PROVE Awake(p, v)'
  <2>1. CASE p = Owner(o)
    BY <2>1, <1>1, PendingAwake DEF Pending
  <2>2. CASE p # Owner(o)
    <3>1. p # o /\ \A b \in Names : b.owner = p => b # o
      BY <2>2, OwnerFacts
    <3>2. Apart(p)
      BY <3>1, <1>1, Kinds DEF Apart, DesiredTargets, IInv, Types, Store
    <3> QED
      BY <3>2, <1>2, ApartAwake DEF WakeInv
  <2> QED
    BY <2>1, <2>2
<1> QED
  BY <1>1, <1>2 DEF WakeInv

(* A Target or the grant changes what a Profile selects only if the Profile   *)
(* is told: a Target of a namespace without a grant is nobody's.              *)
LEMMA ToggleWakes ==
    ASSUME IInv, WakeInv, NEW o \in Targets \cup {Grant}, Toggle(o)
    PROVE  WakeInv'
<1>1. /\ there' = IF o \in there THEN there \ {o} ELSE there \cup {o}
      /\ queue' = queue \cup (IF o = Grant THEN mapReferenceGrantToProfiles
                              ELSE mapTargetToProfiles(o))
      /\ UNCHANGED <<obj, cache, current, work>>
  BY DEF Toggle
<1>2. ASSUME NEW p \in Profiles, NEW v, v = work PROVE Awake(p, v)'
  <2>1. CASE DesiredTargets' = DesiredTargets
    <3>1. Apart(p)
      BY <2>1, <1>1 DEF Apart
    <3> QED
      BY Zenon, <3>1, <1>2, ApartAwake DEF WakeInv
  <2>2. CASE DesiredTargets' # DesiredTargets
    <3>1. o = Grant \/ (o \in Cross => Grant \in there)
      BY ZenonT(40), <2>2, <1>1 DEF DesiredTargets
    <3>2. SUFFICES ASSUME Active(p), obj[p].valid, p \in current PROVE Pending(p)'
      BY <1>1, PendingAwake DEF Awake, Active, Pending
    <3>3. cache[p] # None /\ cache[p].valid
      BY <3>2 DEF IInv, ObjectsInv, Active
    <3> QED
      BY <3>1, <3>3, <1>1 DEF Pending, mapReferenceGrantToProfiles, mapTargetToProfiles
  <2> QED
    BY <2>1, <2>2
<1> QED
  BY <1>1, <1>2 DEF WakeInv

(* A started manager reconciles every Profile.                                *)
LEMMA RestartWakes ==
    ASSUME IInv, Restart
    PROVE  WakeInv'
BY DEF Restart, WakeInv, Awake, Active, Pending

-----------------------------------------------------------------------------
(* The worker takes the request of a Profile that has no event to come: its   *)
(* copy is the stored one.                                                    *)
LEMMA FetchWakes ==
    ASSUME IInv, WakeInv, NEW p \in Profiles, Fetch(p)
    PROVE  WakeInv'
<1> SUFFICES ASSUME NEW w, w = work' PROVE WakeInv'
  OBVIOUS
<1>1. work.ref = None /\ queue' = queue \ {p} /\ UNCHANGED <<there, obj, cache, current>>
  BY DEF Fetch, IInv, WorkerOK
<1>2. CASE cache[p] = None
  <2>1. w = Idle
    BY <1>2 DEF Fetch
  <2>2. Active(p)' => Pending(p)'
    BY <1>1, <1>2 DEF Active, Pending, IInv, ObjectsInv
  <2> QED
    BY <2>1, <2>2, <1>1, IdleFacts, Kinds, MoveWakes DEF Awake
<1>3. CASE cache[p] # None
  <2> DEFINE pc == IF cache[p].del THEN "listOwned"
                   ELSE IF cache[p].fin THEN "list" ELSE "addFinalizer"
  <2>1. w.pc = pc /\ w.ref = p /\ w.seen = cache[p]
    BY <1>3 DEF Fetch, Idle
  <2>2. SUFFICES ASSUME Active(p)', ~Pending(p)' PROVE Handled(p, w)'
    BY <2>1, <1>1, Kinds, MoveWakes DEF Awake
  <2>3. cache[p] = obj[p] /\ ~cache[p].del
    BY <2>2, <1>1 DEF Active, Pending, IInv, ObjectsInv
  <2> QED
    BY <2>1, <2>3, <1>1 DEF Handled
<1> QED
  BY <1>2, <1>3

(* The finalizer is put, or shown already.                                    *)
LEMMA AddFinalizerWakes ==
    ASSUME IInv, WakeInv, AddFinalizer
    PROVE  WakeInv'
<1>0. SUFFICES ASSUME NEW y, y = work.ref, NEW w, w = [work EXCEPT !.pc = "list"] PROVE WakeInv'
  BY Zenon
<1>1. work.pc = "addFinalizer" /\ y \in Profiles /\ y \in Objects
  BY <1>0, Holding DEF AddFinalizer
<1>2. w \in Workers /\ w.pc = "list" /\ w.ref = y /\ work.ref = y /\ w.seen = work.seen
  BY <1>0, <1>1, AtFacts
<1>3. CASE Fail
  BY <1>1, <1>3, FailWakes
<1>4. CASE Goto("list")
  <2>1. work' = w /\ UNCHANGED <<there, obj, cache, current, queue>>
    BY <1>0, <1>4 DEF Goto
  <2>2. CASE Active(y) /\ obj[y].valid /\ ~Pending(y)
    <3>1. w.seen = obj[y]
      BY <2>2, <1>1, <1>2, WorkAwake DEF Handled
    <3>2. Handled(y, w)'
      BY <3>1, <2>1, <1>2 DEF Handled
    <3>3. Awake(y, w)'
      BY <3>2, <1>2 DEF Awake
    <3> QED
      BY <3>3, <2>1, <1>2, Kinds, MoveWakes
  <2>3. CASE ~(Active(y) /\ obj[y].valid /\ ~Pending(y))
    <3>1. Awake(y, w)'
      BY <2>1, <2>3, StillAwake
    <3> QED
      BY <3>1, <2>1, <1>2, Kinds, MoveWakes
  <2> QED
    BY <2>2, <2>3
<1>5. CASE Put(y, [obj[y] EXCEPT !.fin = TRUE], w)
  BY <1>1, <1>2, <1>5, OwnerFacts, PutWakes
<1> QED
  BY <1>0, <1>1, <1>3, <1>4, <1>5 DEF AddFinalizer

(* What is listed is what the Profile selects and, with no event to come,     *)
(* what there is of its bindings.                                             *)
LEMMA ListWakes ==
    ASSUME IInv, WakeInv, List
    PROVE  WakeInv'
<1> SUFFICES ASSUME NEW y, y = work.ref, NEW w, w = work' PROVE WakeInv'
  OBVIOUS
<1>1. work.pc = "list" /\ y \in Profiles /\ work \in Workers
  BY Holding DEF List
<1>2. UNCHANGED <<there, obj, cache, current, queue>>
  BY DEF List, Goto
<1>3. w.ref \in {y, None} /\ (work.seen.valid => w.ref = y)
  BY Zenon, <1>1, IdleFacts DEF List, Goto, Workers
<1>4. CASE Active(y) /\ obj[y].valid /\ ~Pending(y)
  <2>1. work.seen = obj[y]
    BY <1>1, <1>4, WorkAwake DEF Handled
  <2>2. /\ w.pc = "sync" /\ w.seen = work.seen /\ w.want = DesiredTargets
        /\ w.kill = {b \in Owned(y) : b.target \notin DesiredTargets}
        /\ w.make = DesiredTargets \ {b.target : b \in Owned(y)}
    BY Zenon, <2>1, <1>1, <1>4 DEF List, Workers
  <2>3. Placed(y, w.make) /\ Cleaned(y, w.kill)
    BY <2>2 DEF Placed, Cleaned
  <2>4. /\ DesiredTargets' = DesiredTargets /\ Owned(y)' = Owned(y)
        /\ \A b : Ending(b)' <=> Ending(b)
    BY <1>2 DEF DesiredTargets, Owned, Ending
  <2>5. Placed(y, w.make)' /\ Cleaned(y, w.kill)'
    BY <2>3, <2>4 DEF Placed, Cleaned
  <2>6. Handled(y, w)'
    BY <2>1, <2>2, <2>4, <2>5, <1>2 DEF Handled
  <2>7. Awake(y, w)'
    BY ZenonT(40), <2>6, <2>1, <1>3, <1>4 DEF Awake
  <2> QED
    BY <2>7, <1>2, <1>3, Kinds, MoveWakes
<1>5. CASE ~(Active(y) /\ obj[y].valid /\ ~Pending(y))
  <2>1. Awake(y, w)'
    BY <1>2, <1>5, StillAwake
  <2> QED
    BY <2>1, <1>2, <1>3, Kinds, MoveWakes
<1> QED
  BY <1>4, <1>5

(* A binding that need not be deleted any more is on its way out.             *)
LEMMA DeleteBindingWakes ==
    ASSUME IInv, WakeInv, NEW b \in Names, DeleteBinding(b)
    PROVE  WakeInv'
<1>0. SUFFICES ASSUME NEW y, y = work.ref, NEW w, w = [work EXCEPT !.kill = @ \ {b}]
               PROVE  WakeInv'
  BY Zenon
<1>1. work.pc \in {"sync", "clear"} /\ y \in Profiles /\ work \in Workers
  BY <1>0, Holding DEF DeleteBinding
<1>2. /\ w \in Workers /\ w.pc = work.pc /\ w.ref = y /\ work.ref = y /\ w.seen = work.seen
      /\ w.want = work.want /\ w.make = work.make /\ w.kill = work.kill \ {b}
  BY <1>0, <1>1 DEF Workers
<1>3. CASE Active(b)
  <2>1. PICK rec : Put(b, rec, w)
    BY <1>0, <1>3 DEF DeleteBinding
  <2> QED
    BY <1>0, <2>1, <1>2, Kinds, PutWakes
<1>4. CASE ~Active(b)
  <2>1. work' = w /\ UNCHANGED <<there, obj, cache, current, queue>>
    BY <1>0, <1>4 DEF DeleteBinding
  <2>2. CASE Active(y) /\ obj[y].valid /\ ~Pending(y)
    <3>1. /\ work.pc = "sync" /\ work.seen = obj[y] /\ work.want = DesiredTargets
          /\ Placed(y, work.make) /\ Cleaned(y, work.kill)
      BY <2>2, <1>1, <1>2, WorkAwake DEF Handled
    <3>2. b \in Owned(y) => Ending(b)
      BY <2>2, <1>4 DEF Owned, Ending, Active, Pending, IInv, ObjectsInv
    <3>3. Cleaned(y, w.kill)
      BY <3>1, <3>2, <1>2 DEF Cleaned
    <3>4. /\ DesiredTargets' = DesiredTargets /\ Owned(y)' = Owned(y)
          /\ \A n : Ending(n)' <=> Ending(n)
      BY <2>1 DEF DesiredTargets, Owned, Ending
    <3>5. Placed(y, w.make)' /\ Cleaned(y, w.kill)'
      BY Zenon, <3>1, <3>3, <3>4, <1>2 DEF Placed, Cleaned
    <3>6. Handled(y, w)'
      BY Zenon, <3>1, <3>4, <3>5, <2>1, <1>2 DEF Handled
    <3>7. Awake(y, w)'
      BY Zenon, <3>6, <1>2 DEF Awake
    <3> QED
      BY <3>7, <2>1, <1>2, Kinds, MoveWakes
  <2>3. CASE ~(Active(y) /\ obj[y].valid /\ ~Pending(y))
    <3>1. Awake(y, w)'
      BY <2>1, <2>3, StillAwake
    <3> QED
      BY <3>1, <2>1, <1>2, Kinds, MoveWakes
  <2> QED
    BY <2>2, <2>3
<1> QED
  BY <1>3, <1>4

(* A binding is made: its event is to come.                                   *)
LEMMA CreateBindingWakes ==
    ASSUME IInv, WakeInv, NEW t \in Targets, CreateBinding(t)
    PROVE  WakeInv'
<1> DEFINE w == [work EXCEPT !.make = @ \ {t}]
           b == CHOOSE n \in Free(work.ref, t) : TRUE
<1>1. work.pc = "sync" /\ work.ref \in Profiles /\ work \in Workers
  BY Holding DEF CreateBinding
<1>2. CASE Free(work.ref, t) = {}
  BY <1>1, <1>2, FailWakes DEF CreateBinding
<1>3. CASE Free(work.ref, t) # {}
  <2>1. w \in Workers /\ w.ref = work.ref
    BY <1>1 DEF Workers
  <2>2. b \in Names /\ b.owner = work.ref
    BY <1>3 DEF Free
  <2>3. Put(b, NewBinding, w)
    BY <1>3 DEF CreateBinding
  <2> HIDE DEF w, b
  <2> QED
    BY <2>1, <2>2, <2>3, OwnerFacts, Kinds, PutWakes
<1> QED
  BY <1>2, <1>3

(* The status is written, or right already.                                   *)
LEMMA UpdateStatusWakes ==
    ASSUME IInv, WakeInv, UpdateStatus
    PROVE  WakeInv'
<1> SUFFICES ASSUME NEW y, y = work.ref PROVE WakeInv'
  OBVIOUS
<1>1. work.pc = "sync" /\ y \in Profiles /\ y \in Objects /\ work.kill = {} /\ work.make = {}
  BY Holding DEF UpdateStatus
<1>2. CASE Fail
  BY <1>1, <1>2, FailWakes
<1>3. CASE work.seen.matched = Cardinality(work.want) /\ Goto("idle")
  <2>1. work' = Idle /\ UNCHANGED <<there, obj, cache, current, queue>>
    BY <1>3 DEF Goto
  <2>2. CASE Active(y) /\ obj[y].valid /\ ~Pending(y)
    <3>1. Right(y)
      BY Zenon, <2>2, <1>1, <1>3, WorkAwake DEF Handled, Right
    <3>2. Right(y)'
      BY Zenon, <3>1, <2>1 DEF Right, Placed, Cleaned, Owned, Ending,
         DesiredTargets
    <3>3. Awake(y, Idle)'
      BY Zenon, <3>2, <1>1, IdleFacts, Kinds DEF Awake
    <3> QED
      BY <3>3, <2>1, IdleFacts, Kinds, MoveWakes
  <2>3. CASE ~(Active(y) /\ obj[y].valid /\ ~Pending(y))
    <3>1. Awake(y, Idle)'
      BY <2>1, <2>3, StillAwake
    <3> QED
      BY <3>1, <2>1, IdleFacts, Kinds, MoveWakes
  <2> QED
    BY <2>2, <2>3
<1>4. CASE \E rec : Put(y, rec, Idle)
  BY <1>1, <1>4, IdleFacts, OwnerFacts, PutWakes
<1> QED
  BY <1>2, <1>3, <1>4 DEF UpdateStatus

(* The steps for a deleted Profile.                                           *)
LEMMA RemovalWakes ==
    ASSUME IInv, WakeInv, ListOwned \/ Cleared \/ RemoveFinalizer
    PROVE  WakeInv'
<1> SUFFICES ASSUME NEW y, y = work.ref, NEW w, w = work' PROVE WakeInv'
  OBVIOUS
<1>1. work.pc \in Removal /\ work.pc # "idle"
  BY DEF ListOwned, Cleared, RemoveFinalizer, Removal
<1>2. y \in Profiles /\ y \in Objects /\ work \in Workers
  BY <1>1, Holding
<1>3. ~(Active(y) /\ obj[y].valid /\ ~Pending(y))
  BY <1>1, WorkAwake DEF Handled, Removal
<1>4. CASE w.ref \in {y, None} /\ UNCHANGED <<there, obj, cache, current, queue>>
  <2>1. Awake(y, w)'
    BY <1>3, <1>4, StillAwake
  <2> QED
    BY <2>1, <1>4, Kinds, MoveWakes
<1>5. CASE ListOwned \/ Cleared
  <2>1. w.ref \in {y, None}
    BY ZenonT(40), <1>2, <1>5, IdleFacts DEF ListOwned, Cleared, Goto, Workers
  <2> QED
    BY <2>1, <1>4, <1>5 DEF ListOwned, Cleared, Goto
<1>6. CASE RemoveFinalizer /\ Goto("idle")
  BY <1>4, <1>6, IdleFacts DEF Goto
<1>7. CASE Fail
  BY <1>1, <1>7, FailWakes
<1>8. CASE \E rec : Put(y, rec, Idle)
  BY <1>2, <1>8, IdleFacts, OwnerFacts, PutWakes
<1> QED
  BY <1>5, <1>6, <1>7, <1>8 DEF RemoveFinalizer

-----------------------------------------------------------------------------
(* Every step keeps every Profile awake.                                      *)
LEMMA NextWakes == IInv /\ WakeInv /\ [Next]_vars => WakeInv'
<1> SUFFICES ASSUME IInv, WakeInv, [Next]_vars PROVE WakeInv'
  OBVIOUS
<1>1. CASE \/ \E p \in Profiles : Create(p) \/ SetSelector(p)
           \/ \E o \in Objects : Delete(o)
           \/ \E b \in Names : CollectGarbage(b) \/ ReconcileBinding(b)
  BY <1>1, OthersWake, Kinds
<1>2. CASE \E o \in Objects : Sync(o)
  BY <1>2, SyncWakes
<1>3. CASE \E o \in Targets \cup {Grant} : Toggle(o)
  BY <1>3, ToggleWakes
<1>4. CASE Step
  BY Zenon, <1>4, FetchWakes, AddFinalizerWakes, ListWakes, UpdateStatusWakes,
     RemovalWakes,
     DeleteBindingWakes, CreateBindingWakes DEF Step
<1>5. CASE CallFails
  BY <1>5, FailWakes DEF CallFails
<1>6. CASE Restart
  BY Zenon, <1>6, RestartWakes
<1>7. CASE UNCHANGED vars
  BY <1>7 DEF vars, WakeInv, Awake, Active, Pending, Handled, Right, Placed, Cleaned, Owned,
              Ending, DesiredTargets
<1> QED
  BY <1>1, <1>2, <1>3, <1>4, <1>5, <1>6, <1>7 DEF Next

(* At first no informer has seen a Profile.                                   *)
LEMMA InitWakes == Init => WakeInv
<1> SUFFICES ASSUME Init, NEW p \in Profiles, Active(p) PROVE p \notin current
  BY DEF WakeInv, Awake, Pending
<1> QED
  BY Kinds DEF Init, Active

(* No wake-up of a Profile is lost, at any moment: for an active Profile with *)
(* a valid selector a request is queued, an event is to come, the worker has  *)
(* its stored version in hand, or its bindings and its status are right.      *)
THEOREM WakeInvariance == Spec => [](IInv /\ WakeInv)
<1>1. Init => IInv /\ WakeInv
  BY InitHolds, InitWakes
<1>2. IInv /\ WakeInv /\ [Next]_vars => (IInv /\ WakeInv)'
  BY NextKeeps, NextWakes
<1> QED
  BY <1>1, <1>2, PTL DEF Spec

(* Whenever the manager comes to rest, every active Profile with a valid      *)
(* selector has bindings for exactly the Targets it selects, and reports      *)
(* their number.                                                              *)
THEOREM ProfilesMatch == Spec => []QuietProfilesMatch
<1>1. IInv /\ WakeInv => QuietProfilesMatch
  <2> SUFFICES ASSUME IInv, WakeInv, Quiet, NEW p \in Profiles, Active(p), obj[p].valid
               PROVE  /\ {b.target : b \in {n \in Names : obj[n] # None /\ n.owner = p}}
                           = DesiredTargets
                      /\ obj[p].matched = Cardinality(DesiredTargets)
    BY DEF QuietProfilesMatch
  <2>1. ~Pending(p) /\ work.ref # p
    BY Kinds DEF Quiet, Pending, IInv, WorkerOK
  <2>2. Right(p)
    BY <2>1 DEF WakeInv, Awake
  <2>3. Owned(p) = {n \in Names : obj[n] # None /\ n.owner = p}
    BY Zenon, Kinds DEF Owned, Quiet, IInv, ObjectsInv
  <2>4. \A b \in Owned(p) : b.target \in DesiredTargets
    BY <2>2 DEF Right, Cleaned, Ending, Quiet, Owned
  <2>5. \A t \in DesiredTargets : \E b \in Owned(p) : b.target = t
    BY <2>2 DEF Right, Placed
  <2> QED
    BY ZenonT(40), <2>2, <2>3, <2>4, <2>5 DEF Right
<1> QED
  BY <1>1, WakeInvariance, PTL
=============================================================================
