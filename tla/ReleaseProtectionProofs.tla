---------------------- MODULE ReleaseProtectionProofs ----------------------
(***************************************************************************)
(* Proofs about ReleaseProtection, for every set of Profiles and           *)
(* ReleaseBindings and every number of changes and faults.                 *)
(***************************************************************************)
EXTENDS ReleaseProtection, TLAPS

Removal == {"listOwned", "getOwner", "getRelease", "listProfiles", "listReferrers",
            "unprotect", "removeFinalizer"}

Workers ==
    [pc : {"idle", "addFinalizer", "protect", "bind"} \cup Removal,
     ref : Objects \cup {None}, own : BOOLEAN, before : SUBSET Refs]

Types ==
    /\ obj \in [Objects -> Recs \cup {None}]
    /\ cache \in [Objects -> Recs \cup {None}]
    /\ current \subseteq Objects /\ queue \subseteq Objects
    /\ settled \subseteq Refs /\ gone \subseteq Profiles
    /\ work \in [Controllers -> Workers]

(* The API server and the informers: what is marked deleted has a finalizer,  *)
(* release-ref is the Release's alone, and a copy that counts as current is   *)
(* what is stored.                                                            *)
Valid(o, rec) ==
    rec # None =>
      /\ rec.del => rec.fin # {}
      /\ o # Release => "ref" \notin rec.fin

ObjectsInv ==
    /\ \A o \in Objects : Valid(o, obj[o]) /\ Valid(o, cache[o])
    /\ \A o \in current : cache[o] = obj[o]

Has(rec) == rec # None /\ "self" \in rec.fin
Marked(rec) == rec # None /\ rec.del
Leaving(rec) == rec = None \/ rec.del \/ "self" \notin rec.fin

(* How far the informer may be behind a referencer: after a copy that is      *)
(* marked deleted no successor has got its finalizer, and a copy that has the *)
(* finalizer and is not marked is of an object that still has it.  One that   *)
(* is settled is active, and its copy shows it so.                            *)
Near(rec, copy) ==
    /\ Marked(copy) => Leaving(rec)
    /\ Has(copy) /\ ~copy.del => Has(rec)

Shown(x) == Active(x) /\ Has(obj[x]) /\ cache[x] # None /\ ~cache[x].del

RefsInv ==
    /\ \A x \in Refs : Near(obj[x], cache[x])
    /\ \A x \in settled : Shown(x)

(* A Profile that a cache shows as deleted or that the cache of one of its    *)
(* bindings outlives has really come to its end: UIDs are not used again.     *)
Ended(p) == p \in gone \/ Marked(obj[p])

Known(p) == cache[p] # None \/ p \in gone

ProfilesInv ==
    /\ \A p \in gone : obj[p] = None
    /\ \A p \in Profiles : cache[p] # None => obj[p] # None \/ p \in gone
    /\ \A p \in Profiles : Marked(cache[p]) => Ended(p)
    /\ \A b \in Generated : obj[b] # None => Known(Owner(b))

(* The Release may be made again under its name while a copy shows the one    *)
(* that was deleted; it has no finalizer until that copy is replaced.         *)
Fresh(rec, copy) ==
    /\ Has(copy) /\ copy.del /\ rec # None /\ ~rec.del => rec.fin = {}
    /\ Has(copy) /\ copy.del /\ "ref" \in copy.fin => Marked(rec)

Closing(rec, copy) ==
    rec # None /\ ~rec.del => "self" \notin rec.fin /\ (Has(copy) => rec.fin = {})

(* A worker.  While it removes the finalizer of x nobody puts one on x; while *)
(* it protects the Release for x, nobody takes that of x away.                *)
WorkerOK(c, w, rec, copy) ==
    /\ IF w.pc = "idle" THEN w.ref = None ELSE w.ref \in c
    /\ c = {Release} => w.pc \in {"idle", "addFinalizer", "removeFinalizer"}
    /\ w.pc \in {"bind", "listOwned"} => c = Profiles
    /\ w.pc = "getOwner" => c = Bindings
    /\ w.ref \in Refs /\ w.pc \in Removal => w.own /\ Leaving(rec) /\ Leaving(copy)
    /\ w.ref \in Refs /\ w.pc = "addFinalizer" /\ Has(copy) => Has(rec)
    /\ w.pc = "protect" => Has(rec) /\ copy # None
    /\ w.ref = Release /\ w.pc = "removeFinalizer" /\ w.own => Closing(rec, copy)

WorkerInv(c) == WorkerOK(c, work[c], obj[work[c].ref], cache[work[c].ref])

(* What was settled when the worker began, and still is, is in the lists it   *)
(* looks at, but for bindings whose Profile has come to its end.              *)
Sees(w) ==
    /\ w.before \subseteq settled /\ w.ref \notin w.before
    /\ w.ref \in Profiles => Known(w.ref)
    /\ w.pc \in {"listReferrers", "unprotect"} => w.before \cap Profiles = {}
    /\ w.pc = "unprotect" => \A x \in w.before : x \in Generated /\ Ended(Owner(x))

IInv ==
    /\ Types
    /\ ObjectsInv
    /\ RefsInv
    /\ ProfilesInv
    /\ Fresh(obj[Release], cache[Release])
    /\ \A c \in Controllers : WorkerInv(c) /\ Sees(work[c])

-----------------------------------------------------------------------------
(* Facts the steps share.                                                  *)

(* Kinds of objects are told apart, and None is none of them.                 *)
LEMMA Kinds ==
    /\ None \notin Recs /\ None \notin Objects
    /\ Release \in Objects /\ Release \notin Refs /\ Refs \subseteq Objects
    /\ Profiles \subseteq Refs /\ Bindings \subseteq Refs /\ Generated \subseteq Bindings
    /\ Profiles \cap Bindings = {}
    /\ \A c, d \in Controllers : c # d => c \cap d = {}
    /\ \A c \in Controllers : c \subseteq Objects
    /\ Profiles \in Controllers /\ Bindings \in Controllers /\ {Release} \in Controllers
BY ReleaseAssumption, NoneAssumption DEF Refs, Objects, Controllers, Bindings

(* The binding of a Profile and the Profile of a binding.                     *)
LEMMA Owners ==
    /\ \A b \in Generated : Owner(b) \in Profiles /\ b = [owner |-> Owner(b)]
    /\ \A p \in Profiles : [owner |-> p] \in Generated /\ Owner([owner |-> p]) = p
BY DEF Owner, Generated

(* A worker that no reconcile has begun with.                                 *)
LEMMA IdleFacts ==
    /\ Idle \in Workers
    /\ Idle.pc = "idle" /\ Idle.before = {} /\ Idle.ref = None
BY DEF Idle, Workers, Removal

(* It satisfies the invariant, whatever the objects are.                      *)
LEMMA IdleInv ==
    ASSUME NEW c \in Controllers, NEW rec, NEW copy
    PROVE  WorkerOK(c, Idle, rec, copy) /\ Sees(Idle)
BY IdleFacts, Kinds DEF WorkerOK, Sees, Removal

(* The record of a new object.                                                *)
LEMMA NewFacts == New \in Recs /\ New # None /\ New.fin = {} /\ ~New.del
<1>1. New \in Recs
  BY DEF New, Recs
<1> QED
  BY Zenon, <1>1, Kinds DEF New

(* Records with other finalizers, or marked deleted.                          *)
LEMMA RecFacts ==
    ASSUME NEW r \in Recs, NEW f \in SUBSET {"self", "ref"}
    PROVE  /\ [r EXCEPT !.fin = f] \in Recs
           /\ [r EXCEPT !.fin = f].fin = f /\ [r EXCEPT !.fin = f].del = r.del
           /\ [r EXCEPT !.del = TRUE] \in Recs
           /\ [r EXCEPT !.del = TRUE].fin = r.fin /\ [r EXCEPT !.del = TRUE].del
BY Zenon DEF Recs

(* What the API server keeps of a record that is marked deleted.              *)
LEMMA StoredFacts ==
    ASSUME NEW r \in Recs
    PROVE  /\ Stored(r) \in Recs \cup {None}
           /\ Stored(r) = None <=> r.del /\ r.fin = {}
           /\ Stored(r) # None => Stored(r) = r
BY Kinds DEF Stored, Recs

(* A record that may be written to o.                                         *)
Written(o, rec) ==
    /\ rec \in Recs \cup {None} /\ Valid(o, rec)
    /\ Marked(obj[o]) => rec = None \/ rec.del
    /\ o \in gone => rec = None
    /\ o \in Generated /\ rec # None => Known(Owner(o))
    /\ o \in Refs => Near(rec, cache[o])
    /\ o \in settled => rec = None \/ rec.del \/ Has(rec)
    /\ o = Release => Fresh(rec, cache[o])

(* What only grows: the Profiles that are gone, those that came to their end, *)
(* and those that were seen.                                                  *)
Forward ==
    /\ gone \subseteq gone'
    /\ \A p \in Profiles : (Ended(p) => Ended(p)') /\ (Known(p) => Known(p)')

(* What a worker sees stays true.                                             *)
LEMMA SeesOn ==
    ASSUME Forward, NEW w \in Workers, NEW u, Sees(w), u.pc = w.pc, u.ref = w.ref,
           u.before \subseteq w.before, u.before \subseteq settled'
    PROVE  Sees(u)'
BY Owners DEF Forward, Sees

(* The object o is written, and the workers move.                             *)
LEMMA WriteKeeps ==
    ASSUME IInv, NEW o \in Objects, NEW rec, Written(o, rec),
           obj' = [obj EXCEPT ![o] = rec], cache' = cache,
           current' \subseteq current, o \in current' => rec = obj[o],
           gone' = IF rec = None THEN gone \cup ({o} \cap Profiles) ELSE gone,
           queue' \subseteq Objects, settled' \subseteq Refs, \A x \in settled' : Shown(x)',
           work' \in [Controllers -> Workers],
           \A c \in Controllers :
              /\ WorkerOK(c, work'[c], IF work'[c].ref = o THEN rec ELSE obj[work'[c].ref],
                          cache[work'[c].ref])
              /\ Sees(work[c])'
    PROVE  IInv'
<1>1. obj'[o] = rec /\ (\A y \in Objects \ {o} : obj'[y] = obj[y])
      /\ obj' \in [Objects -> Recs \cup {None}]
  BY DEF IInv, Types, Written
<1>2. Types'
  BY <1>1, Kinds DEF IInv, Types
<1>3. ObjectsInv'
  BY <1>1 DEF IInv, ObjectsInv, Types, Written
<1>4. RefsInv'
  BY <1>1, Kinds DEF IInv, RefsInv, Written
<1>5. ProfilesInv'
  <2>1. \A p \in gone' : obj'[p] = None
    BY <1>1, Kinds DEF IInv, ProfilesInv, Types, Written
  <2>2. \A p \in Profiles : cache'[p] # None => obj'[p] # None \/ p \in gone'
    BY <1>1, Kinds DEF IInv, ProfilesInv
  <2>3. \A p \in Profiles : Marked(cache'[p]) => Ended(p)'
    BY <1>1, Kinds DEF IInv, ProfilesInv, Ended, Marked, Written
  <2>4. \A b \in Generated : obj'[b] # None => Known(Owner(b))'
    BY <1>1, Kinds, Owners DEF IInv, ProfilesInv, Known, Written
  <2> QED
    BY <2>1, <2>2, <2>3, <2>4 DEF ProfilesInv
<1>6. Fresh(obj[Release], cache[Release])'
  BY <1>1, Kinds DEF IInv, Written
<1>7. ASSUME NEW c \in Controllers PROVE WorkerInv(c)'
  <2> DEFINE u == work'[c]
  <2>1. WorkerOK(c, u, IF u.ref = o THEN rec ELSE obj[u.ref], cache[u.ref])
    OBVIOUS
  <2>2. CASE u.pc = "idle"
    BY <2>1, <2>2, Kinds DEF WorkerInv, WorkerOK, Removal
  <2>3. CASE u.pc # "idle"
    <3>1. u.ref \in Objects
      BY <2>1, <2>3, Kinds DEF WorkerOK
    <3>2. obj'[u.ref] = IF u.ref = o THEN rec ELSE obj[u.ref]
      BY <3>1, <1>1
    <3> QED
      BY <2>1, <3>2 DEF WorkerInv
  <2> QED
    BY <2>2, <2>3
<1> QED
  BY <1>2, <1>3, <1>4, <1>5, <1>6, <1>7 DEF IInv

(* A write keeps what only grows.                                             *)
LEMMA WriteForward ==
    ASSUME IInv, NEW o \in Objects, NEW rec, Written(o, rec),
           obj' = [obj EXCEPT ![o] = rec], cache' = cache,
           gone' = IF rec = None THEN gone \cup ({o} \cap Profiles) ELSE gone
    PROVE  Forward
<1>1. obj'[o] = rec /\ \A y \in Objects \ {o} : obj'[y] = obj[y]
  BY DEF IInv, Types
<1> QED
  BY <1>1, Kinds DEF Forward, Ended, Known, Marked, Written

(* A write through the API server, after which the workers are w but for what *)
(* is not settled any more.                                                   *)
LEMMA PutKeeps ==
    ASSUME IInv, NEW o \in Objects, NEW rec, Written(o, rec),
           NEW w \in [Controllers -> Workers], Put(o, rec, w),
           \A c \in Controllers :
              /\ WorkerOK(c, w[c], IF w[c].ref = o THEN rec ELSE obj[w[c].ref], cache[w[c].ref])
              /\ Sees(w[c])
    PROVE  IInv'
<1>1. /\ obj' = [obj EXCEPT ![o] = rec]
      /\ current' = IF rec = obj[o] THEN current ELSE current \ {o}
      /\ settled' = IF rec = None \/ rec.del THEN settled \ {o} ELSE settled
      /\ gone' = IF rec = None THEN gone \cup ({o} \cap Profiles) ELSE gone
      /\ work' = [c \in Controllers |-> [w[c] EXCEPT !.before = @ \cap settled']]
      /\ cache' = cache /\ queue' = queue
  BY DEF Put
<1>2. obj'[o] = rec /\ \A y \in Objects \ {o} : obj'[y] = obj[y]
  BY <1>1 DEF IInv, Types
<1>3. Forward
  BY Zenon, <1>1, WriteForward
<1>4. settled' \subseteq settled /\ settled' \subseteq Refs
  BY <1>1 DEF IInv, Types
<1>5. ASSUME NEW x \in settled' PROVE Shown(x)'
  <2>1. x \in settled /\ Shown(x) /\ x \in Objects
    BY <1>4, Kinds DEF IInv, RefsInv
  <2>2. CASE x # o
    BY <2>1, <2>2, <1>1, <1>2 DEF Shown, Active
  <2>3. CASE x = o
    BY <2>1, <2>3, <1>1, <1>2 DEF Shown, Active, Written, Has
  <2> QED
    BY <2>2, <2>3
<1>6. ASSUME NEW c \in Controllers
      PROVE  /\ work'[c] \in Workers
             /\ WorkerOK(c, work'[c], IF work'[c].ref = o THEN rec ELSE obj[work'[c].ref],
                         cache[work'[c].ref])
             /\ Sees(work[c])'
  <2> SUFFICES ASSUME NEW u, u = work'[c]
               PROVE  /\ u \in Workers
                      /\ WorkerOK(c, u, IF u.ref = o THEN rec ELSE obj[u.ref], cache[u.ref])
                      /\ Sees(u)'
    OBVIOUS
  <2>1. w[c] \in Workers /\ u = [w[c] EXCEPT !.before = @ \cap settled']
    BY <1>1
  <2>2. /\ u \in Workers /\ u.pc = w[c].pc /\ u.ref = w[c].ref /\ u.own = w[c].own
        /\ u.before = w[c].before \cap settled'
    BY <2>1, <1>4 DEF Workers
  <2>3. Sees(u)'
    BY Zenon, <2>1, <2>2, <1>3, SeesOn
  <2>4. WorkerOK(c, u, IF u.ref = o THEN rec ELSE obj[u.ref], cache[u.ref])
    BY <2>2 DEF WorkerOK
  <2> QED
    BY <2>2, <2>3, <2>4
<1>7. work' \in [Controllers -> Workers]
  BY <1>1, <1>6
<1>8. current' \subseteq current /\ (o \in current' => rec = obj[o]) /\ queue' \subseteq Objects
  BY <1>1 DEF IInv, Types
<1> QED
  BY Zenon, <1>1, <1>4, <1>5, <1>6, <1>7, <1>8, WriteKeeps

(* A step that writes nothing and moves one worker to v.                      *)
LEMMA MoveKeeps ==
    ASSUME IInv, NEW c \in Controllers, NEW v \in Workers,
           work' = [work EXCEPT ![c] = v],
           WorkerOK(c, v, obj[v.ref], cache[v.ref]), Sees(v),
           UNCHANGED <<obj, cache, current, gone>>, queue' \subseteq Objects,
           settled \subseteq settled', settled' \subseteq Refs, \A x \in settled' : Shown(x)
    PROVE  IInv'
<1> DEFINE rec == obj[Release]
<1>1. Written(Release, rec)
  BY Kinds DEF IInv, Types, ObjectsInv, Written, Marked
<1>2. obj' = [obj EXCEPT ![Release] = rec]
      /\ gone' = IF rec = None THEN gone \cup ({Release} \cap Profiles) ELSE gone
  BY Kinds DEF IInv, Types
<1>3. Forward /\ \A x \in settled' : Shown(x)'
  BY DEF Forward, Ended, Known, Shown, Active
<1>4. ASSUME NEW d \in Controllers
      PROVE  /\ work'[d] \in Workers
             /\ WorkerOK(d, work'[d], obj[work'[d].ref], cache[work'[d].ref])
             /\ Sees(work[d])'
  <2> SUFFICES ASSUME NEW u, u = work'[d]
               PROVE  u \in Workers /\ WorkerOK(d, u, obj[u.ref], cache[u.ref]) /\ Sees(u)'
    OBVIOUS
  <2>1. u \in Workers /\ WorkerOK(d, u, obj[u.ref], cache[u.ref]) /\ Sees(u)
    BY DEF IInv, Types, WorkerInv
  <2>2. u.before \subseteq settled'
    BY <2>1 DEF Sees
  <2> QED
    BY <2>1, <2>2, <1>3, SeesOn
<1>5. work' \in [Controllers -> Workers] /\ current' \subseteq current
  BY DEF IInv, Types
<1>6. ASSUME NEW d \in Controllers
      PROVE  WorkerOK(d, work'[d], IF work'[d].ref = Release THEN rec ELSE obj[work'[d].ref],
                      cache[work'[d].ref])
  <2>1. (IF work'[d].ref = Release THEN rec ELSE obj[work'[d].ref]) = obj[work'[d].ref]
    OBVIOUS
  <2> QED
    BY <2>1, <1>4
<1>7. cache' = cache /\ rec = obj[Release] /\ Release \in Objects
  BY Kinds
<1> HIDE DEF rec
<1> QED
  BY Zenon, <1>1, <1>2, <1>3, <1>4, <1>5, <1>6, <1>7, WriteKeeps

(* A failed call.                                                             *)
LEMMA FailKeeps ==
    ASSUME IInv, NEW c \in Controllers, work[c].pc # "idle", Fail(c)
    PROVE  IInv'
<1>1. work[c].ref \in Objects
  BY Kinds DEF IInv, WorkerInv, WorkerOK
<1>2. queue' \subseteq Objects /\ \A x \in settled : Shown(x)
  BY <1>1 DEF Fail, IInv, Types, RefsInv
<1> QED
  BY Zenon, <1>2, MoveKeeps, IdleFacts, IdleInv DEF Fail, IInv, Types

(* The worker of c when it goes on at pc.                                     *)
Moved(c, pc) == IF pc = "idle" THEN Idle ELSE [work[c] EXCEPT !.pc = pc]

(* What a worker holds when it goes on at pc: it is Idle when the reconcile   *)
(* ends, and keeps its locals otherwise; the others are not touched.          *)
LEMMA AfterFacts ==
    ASSUME IInv, NEW c \in Controllers, NEW pc,
           pc \in {"idle", "addFinalizer", "protect", "bind"} \cup Removal
    PROVE  /\ After(c, pc) = [work EXCEPT ![c] = Moved(c, pc)]
           /\ After(c, pc) \in [Controllers -> Workers]
           /\ Moved(c, pc) \in Workers
           /\ After(c, pc)[c] = Moved(c, pc)
           /\ \A d \in Controllers \ {c} : After(c, pc)[d] = work[d]
           /\ pc = "idle" => Moved(c, pc) = Idle
           /\ pc # "idle" => /\ Moved(c, pc).pc = pc /\ Moved(c, pc).ref = work[c].ref
                             /\ Moved(c, pc).own = work[c].own
                             /\ Moved(c, pc).before = work[c].before
<1>1. After(c, pc) = [work EXCEPT ![c] = Moved(c, pc)]
  BY DEF After, Moved, IInv, Types
<1>2. work[c] \in Workers
  BY DEF IInv, Types
<1>3. /\ pc # "idle" => /\ Moved(c, pc) \in Workers
                        /\ Moved(c, pc).pc = pc /\ Moved(c, pc).ref = work[c].ref
                        /\ Moved(c, pc).own = work[c].own
                        /\ Moved(c, pc).before = work[c].before
  BY <1>2 DEF Moved, Workers
<1>4. pc = "idle" => Moved(c, pc) = Idle /\ Moved(c, pc) \in Workers
  BY IdleFacts DEF Moved
<1> QED
  BY <1>1, <1>3, <1>4 DEF IInv, Types

(* The worker goes on and nothing is written.                                 *)
LEMMA GotoKeeps ==
    ASSUME IInv, NEW c \in Controllers, NEW pc,
           pc \in {"idle", "addFinalizer", "protect", "bind"} \cup Removal, Goto(c, pc),
           pc # "idle" => /\ WorkerOK(c, Moved(c, pc), obj[work[c].ref], cache[work[c].ref])
                          /\ Sees(Moved(c, pc))
    PROVE  IInv'
<1> DEFINE v == Moved(c, pc)
<1>1. v \in Workers /\ work' = [work EXCEPT ![c] = v]
  BY AfterFacts DEF Goto
<1>2. WorkerOK(c, v, obj[v.ref], cache[v.ref]) /\ Sees(v)
  BY AfterFacts, IdleInv
<1>3. \A x \in settled : Shown(x)
  BY DEF IInv, RefsInv
<1> HIDE DEF v
<1> QED
  BY Zenon, <1>1, <1>2, <1>3, MoveKeeps DEF Goto, IInv, Types

-----------------------------------------------------------------------------
(* Users, the garbage collector, informers and restarts.                   *)

(* An object is made, or an active one is deleted, by other than its own      *)
(* controller.                                                                *)
Outside(o, rec) ==
    \/ obj[o] = None /\ rec = New /\ o \notin gone /\ (o \in Generated => Known(Owner(o)))
    \/ Active(o) /\ rec = Deleted(o)

(* Such a write keeps or marks what is there.                                 *)
LEMMA OutsideFacts ==
    ASSUME IInv, NEW o \in Objects, NEW rec, Outside(o, rec)
    PROVE  /\ rec \in Recs \cup {None}
           /\ obj[o] = None => rec = New
           /\ obj[o] # None =>
                 /\ ~obj[o].del
                 /\ rec = None <=> obj[o].fin = {}
                 /\ rec # None => rec.del /\ rec.fin = obj[o].fin
<1>1. CASE obj[o] = None
  BY <1>1, NewFacts DEF Outside, Active
<1>2. CASE obj[o] # None
  <2> DEFINE r == [obj[o] EXCEPT !.del = TRUE]
  <2>1. obj[o] \in Recs /\ ~obj[o].del /\ rec = Stored(r)
    BY <1>2 DEF Outside, Active, Deleted, IInv, Types
  <2>2. r \in Recs /\ r.fin = obj[o].fin /\ r.del
    BY Zenon, <2>1, RecFacts
  <2> HIDE DEF r
  <2> QED
    BY <2>1, <2>2, <1>2, StoredFacts
<1> QED
  BY <1>1, <1>2

(* What a user or the garbage collector leaves of an object respects what the *)
(* controllers rely on, like any other write.                                 *)
LEMMA OutsideWritten ==
    ASSUME IInv, NEW o \in Objects, NEW rec, Outside(o, rec)
    PROVE  Written(o, rec)
<1>1. /\ rec \in Recs \cup {None} /\ (obj[o] = None => rec = New)
      /\ obj[o] # None => /\ ~obj[o].del /\ (rec = None <=> obj[o].fin = {})
                          /\ rec # None => rec.del /\ rec.fin = obj[o].fin
  BY OutsideFacts
<1>2. Valid(o, rec) /\ (Marked(obj[o]) => rec = None \/ rec.del)
  BY <1>1, NewFacts DEF IInv, ObjectsInv, Valid, Marked
<1>3. o \in gone => rec = None
  BY <1>1 DEF Outside, Active, IInv, ProfilesInv
<1>4. o \in Generated /\ rec # None => Known(Owner(o))
  BY DEF Outside, Active, IInv, ProfilesInv
<1>5. o \in Refs => Near(rec, cache[o])
  BY <1>1, NewFacts DEF IInv, RefsInv, Near, Leaving, Has
<1>6. o \in settled => rec = None \/ rec.del \/ Has(rec)
  BY <1>1 DEF IInv, RefsInv, Shown, Active
<1>7. o = Release => Fresh(rec, cache[o])
  BY <1>1, NewFacts DEF IInv, Fresh, Marked
<1> QED
  BY <1>1, <1>2, <1>3, <1>4, <1>5, <1>6, <1>7 DEF Written

(* No worker is disturbed by it.                                              *)
LEMMA OutsideKeeps ==
    ASSUME IInv, NEW o \in Objects, NEW rec, Outside(o, rec),
           NEW w \in [Controllers -> Workers], Put(o, rec, w),
           \A c \in Controllers : WorkerOK(c, w[c], obj[w[c].ref], cache[w[c].ref]) /\ Sees(w[c])
    PROVE  IInv'
<1>1. /\ rec \in Recs \cup {None} /\ (obj[o] = None => rec = New)
      /\ obj[o] # None => /\ ~obj[o].del /\ (rec = None <=> obj[o].fin = {})
                          /\ rec # None => rec.del /\ rec.fin = obj[o].fin
  BY OutsideFacts
<1>2. ASSUME NEW c \in Controllers
      PROVE  WorkerOK(c, w[c], IF w[c].ref = o THEN rec ELSE obj[w[c].ref], cache[w[c].ref])
  <2>1. WorkerOK(c, w[c], obj[w[c].ref], cache[w[c].ref])
    OBVIOUS
  <2>2. CASE w[c].ref # o
    BY <2>1, <2>2
  <2>3. CASE w[c].ref = o
    <3>1. WorkerOK(c, w[c], rec, cache[o])
      BY ZenonT(40), <2>1, <2>3, <1>1, NewFacts DEF WorkerOK, Leaving, Has,
         Closing
    <3> QED
      BY Zenon, <3>1, <2>3
  <2> QED
    BY <2>2, <2>3
<1> QED
  BY <1>2, OutsideWritten, PutKeeps

(* A user makes an object.                                                    *)
LEMMA CreateKeeps ==
    ASSUME IInv, NEW o \in Objects, Create(o)
    PROVE  IInv'
<1>1. Outside(o, New) /\ Put(o, New, work)
  BY Zenon DEF Create, Outside
<1> QED
  BY <1>1, OutsideKeeps DEF IInv, Types, WorkerInv

(* A user deletes an object, or the garbage collector does.                   *)
LEMMA DeleteKeeps ==
    ASSUME IInv, NEW o \in Objects, Delete(o) \/ CollectGarbage(o)
    PROVE  IInv'
<1>1. Outside(o, Deleted(o)) /\ Put(o, Deleted(o), work)
  BY Zenon DEF Delete, CollectGarbage, Outside
<1> QED
  BY <1>1, OutsideKeeps DEF IInv, Types, WorkerInv

(* An informer catches up with an object.                                     *)
LEMMA SyncKeeps ==
    ASSUME IInv, NEW o \in Objects, Sync(o)
    PROVE  IInv'
<1>1. /\ cache' = [cache EXCEPT ![o] = obj[o]] /\ current' = current \cup {o}
      /\ queue' = queue \cup Mapped(o)
      /\ UNCHANGED <<obj, work, settled, gone>>
  BY DEF Sync
<1>2. /\ cache'[o] = obj[o] /\ (\A y \in Objects \ {o} : cache'[y] = cache[y])
      /\ cache' \in [Objects -> Recs \cup {None}]
  BY <1>1 DEF IInv, Types
<1>3. Mapped(o) \subseteq Objects
  BY Kinds, Owners DEF Mapped
<1>4. Types'
  BY <1>1, <1>2, <1>3 DEF IInv, Types
<1>5. ObjectsInv'
  BY Zenon, <1>1, <1>2 DEF IInv, ObjectsInv, Types
<1>6. RefsInv'
  BY <1>1, <1>2, Kinds DEF IInv, RefsInv, Shown, Active, Near, Has, Leaving, Marked, Types
<1>7. ProfilesInv' /\ Forward
  BY ZenonT(40), <1>1, <1>2, Kinds, Owners DEF IInv, ProfilesInv, Ended,
     Known, Marked, Forward
<1>8. Fresh(obj[Release], cache[Release])'
  BY Zenon, <1>1, <1>2, Kinds DEF IInv, Fresh, Has, Marked
<1>9. ASSUME NEW c \in Controllers PROVE WorkerInv(c)' /\ Sees(work[c])'
  <2> SUFFICES ASSUME NEW u, u = work[c]
               PROVE  WorkerOK(c, u, obj[u.ref], cache'[u.ref]) /\ Sees(u)'
    BY <1>1 DEF WorkerInv
  <2>1. WorkerOK(c, u, obj[u.ref], cache[u.ref]) /\ Sees(u) /\ u \in Workers
    BY Zenon DEF IInv, WorkerInv, Types
  <2>2. Sees(u)'
    BY Zenon, <2>1, <1>1, <1>7, SeesOn DEF Sees
  <2>3. CASE u.pc = "idle"
    BY Zenon, <2>1, <2>2, <2>3, Kinds DEF WorkerOK, Removal
  <2>4. CASE u.pc # "idle" /\ u.ref = o
    BY Zenon, <2>1, <2>2, <2>4, <1>2 DEF WorkerOK, Leaving, Has, Closing
  <2>5. CASE u.pc # "idle" /\ u.ref # o
    <3>1. u.ref \in Objects \ {o}
      BY Zenon, <2>1, <2>5, Kinds DEF WorkerOK
    <3> QED
      BY Zenon, <3>1, <2>1, <2>2, <1>2
  <2> QED
    BY <2>3, <2>4, <2>5
<1> QED
  BY <1>4, <1>5, <1>6, <1>7, <1>8, <1>9 DEF IInv

(* Only requests are added to the queue.                                      *)
LEMMA QueueKeeps ==
    ASSUME IInv, UNCHANGED <<obj, cache, current, work, settled, gone>>, queue' \subseteq Objects
    PROVE  IInv'
<1>1. Types' /\ ObjectsInv' /\ RefsInv'
  BY Zenon DEF IInv, Types, ObjectsInv, RefsInv, Shown, Active
<1>2. ProfilesInv' /\ Fresh(obj[Release], cache[Release])'
  BY Zenon DEF IInv, ProfilesInv, Ended, Known
<1>3. \A c \in Controllers : WorkerInv(c)' /\ Sees(work[c])'
  BY DEF IInv, WorkerInv, Sees, Ended, Known
<1> QED
  BY <1>1, <1>2, <1>3 DEF IInv

(* The labels of a Target change.                                             *)
LEMMA ToggleKeeps ==
    ASSUME IInv, NEW p \in Profiles, Toggle(p)
    PROVE  IInv'
BY SMTT(30), Kinds, QueueKeeps DEF Toggle, IInv, Types

(* The manager is started again.                                              *)
LEMMA RestartKeeps ==
    ASSUME IInv, Restart
    PROVE  IInv'
<1>1. /\ cache' = obj /\ current' = Objects
      /\ queue' = {x \in Objects : obj[x] # None}
      /\ work' = [c \in Controllers |-> Idle]
      /\ UNCHANGED <<obj, settled, gone>>
  BY DEF Restart
<1>2. Types' /\ ObjectsInv'
  BY Zenon, <1>1, IdleFacts DEF IInv, Types, ObjectsInv
<1>3. RefsInv'
  BY Zenon, <1>1, Kinds DEF IInv, RefsInv, Shown, Active, Near, Has, Leaving,
     Marked
<1>4. ProfilesInv' /\ Fresh(obj[Release], cache[Release])'
  BY Zenon, <1>1, Owners DEF IInv, ProfilesInv, Ended, Known, Marked, Fresh, Has
<1>5. ASSUME NEW c \in Controllers PROVE WorkerInv(c)' /\ Sees(work[c])'
  <2>1. work'[c] = Idle
    BY Zenon, <1>1
  <2> QED
    BY <2>1, IdleFacts, Kinds DEF WorkerInv, WorkerOK, Sees, Removal
<1> QED
  BY <1>2, <1>3, <1>4, <1>5 DEF IInv

-----------------------------------------------------------------------------
(* The three controllers.                                                  *)

(* What a worker that is not idle holds.                                      *)
LEMMA Holding ==
    ASSUME IInv, NEW c \in Controllers, work[c].pc # "idle"
    PROVE  /\ work[c] \in Workers /\ work[c].ref \in c /\ work[c].ref \in Objects
           /\ WorkerOK(c, work[c], obj[work[c].ref], cache[work[c].ref]) /\ Sees(work[c])
           /\ work[c].ref = Release <=> c = {Release}
           /\ work[c].ref \in Profiles <=> c = Profiles
           /\ work[c].ref \in Bindings <=> c = Bindings
           /\ \A d \in Controllers \ {c} :
                /\ WorkerOK(d, work[d], obj[work[d].ref], cache[work[d].ref])
                /\ Sees(work[d])
                /\ work[d].ref # work[c].ref
<1>1. /\ work[c] \in Workers
      /\ WorkerOK(c, work[c], obj[work[c].ref], cache[work[c].ref]) /\ Sees(work[c])
  BY Zenon DEF IInv, Types, WorkerInv
<1>2. work[c].ref \in c /\ work[c].ref \in Objects
  BY <1>1, Kinds DEF WorkerOK
<1>3. /\ work[c].ref = Release <=> c = {Release}
      /\ work[c].ref \in Profiles <=> c = Profiles
      /\ work[c].ref \in Bindings <=> c = Bindings
  BY Zenon, <1>2, Kinds DEF Controllers
<1>4. ASSUME NEW d \in Controllers \ {c}
      PROVE  /\ WorkerOK(d, work[d], obj[work[d].ref], cache[work[d].ref])
             /\ Sees(work[d])
             /\ work[d].ref # work[c].ref
  <2>1. WorkerOK(d, work[d], obj[work[d].ref], cache[work[d].ref]) /\ Sees(work[d])
    BY DEF IInv, WorkerInv
  <2> QED
    BY ZenonT(40), <2>1, <1>2, Kinds DEF WorkerOK
<1> QED
  BY Zenon, <1>1, <1>2, <1>3, <1>4

(* A reconcile begins.                                                        *)
LEMMA FetchKeeps ==
    ASSUME IInv, NEW c \in Controllers, NEW x \in c, Fetch(c, x)
    PROVE  IInv'
<1> DEFINE copy == cache[x]
           pc == IF copy = None THEN "idle"
                 ELSE IF copy.del
                 THEN IF x \in Profiles THEN "listOwned"
                      ELSE IF x \in Bindings THEN "getOwner" ELSE "removeFinalizer"
                 ELSE IF "self" \notin copy.fin THEN "addFinalizer"
                 ELSE IF x = Release THEN "idle" ELSE "protect"
           own == "self" \in copy.fin
           others == settled \ {x}
           v == IF pc = "idle" THEN Idle
                ELSE [pc |-> pc, ref |-> x, own |-> own, before |-> others]
<1>1. /\ x \in Objects /\ queue' \subseteq Objects
      /\ UNCHANGED <<obj, cache, current, settled, gone>>
  BY Zenon, Kinds DEF Fetch, IInv, Types
<1>2. work' = [work EXCEPT ![c] = v]
  BY DEF Fetch
<1>3. settled \subseteq Refs /\ \A y \in settled : Shown(y)
  BY SMTT(30) DEF IInv, Types, RefsInv
<1>4. CASE pc = "idle"
  <2>1. v = Idle
    BY <1>4
  <2> QED
    BY Zenon, <2>1, <1>1, <1>2, <1>3, IdleFacts, IdleInv, MoveKeeps
<1>5. CASE pc # "idle"
  <2>1. v.pc = pc /\ v.ref = x /\ v.own = own /\ v.before = others /\ copy # None
    BY <1>5
  <2>2. v \in Workers
    <3>1. /\ pc \in {"addFinalizer", "protect"} \cup Removal
          /\ own \in BOOLEAN /\ others \subseteq Refs
      BY <1>3, <1>5 DEF Removal
    <3>2. v = [pc |-> pc, ref |-> x, own |-> own, before |-> others]
      BY SMTT(30), <1>5
    <3> HIDE DEF pc, own, others, v
    <3> QED
      BY Zenon, <3>1, <3>2, <1>1 DEF Workers
  <2>3. copy \in Recs /\ Valid(x, copy)
    BY Zenon, <2>1, <1>1 DEF IInv, Types, ObjectsInv
  <2>4. (x \in Refs => Near(obj[x], copy)) /\ (x = Release => Fresh(obj[x], copy))
    BY SMTT(30) DEF IInv, RefsInv
  <2>5. Sees(v)
    BY Zenon, <2>1, <1>3 DEF Sees, Known
  <2>6. /\ c = {Release} => x = Release
        /\ x \in Profiles => c = Profiles
        /\ x \in Bindings => c = Bindings
        /\ x \in Refs <=> x # Release
        /\ x \in Refs => x \in Profiles \cup Bindings
    BY ZenonT(40), <1>1, Kinds DEF Objects, Refs
  <2>7. WorkerOK(c, v, obj[x], copy)
    <3>1. CASE x = Release
      <4>1. pc \in {"addFinalizer", "removeFinalizer"} /\ (pc = "removeFinalizer" => copy.del)
        BY <3>1, <2>6, <1>5, Kinds
      <4>2. own <=> "self" \in copy.fin
        BY Zenon
      <4> HIDE DEF pc, v, own, copy
      <4> QED
        BY Zenon, <4>1, <4>2, <3>1, <2>1, <2>4, <2>6 DEF WorkerOK, Closing,
           Fresh, Has, Removal
    <3>2. CASE x \in Refs
      <4>1. /\ pc = "addFinalizer" => ~copy.del /\ "self" \notin copy.fin
            /\ pc = "protect" => ~copy.del /\ "self" \in copy.fin
            /\ pc \in {"addFinalizer", "protect"} \/ (copy.del /\ pc \in {"listOwned", "getOwner"})
            /\ pc = "listOwned" => x \in Profiles
            /\ pc = "getOwner" => x \in Bindings
        BY ZenonT(40), <3>2, <2>6, <1>5
      <4>2. (own <=> "self" \in copy.fin) /\ (copy.del => "self" \in copy.fin)
        BY <3>2, <2>1, <2>3, <2>6 DEF Valid, Recs
      <4> HIDE DEF pc, v, own, copy
      <4> QED
        BY Zenon, <4>1, <4>2, <3>2, <2>1, <2>4, <2>6 DEF WorkerOK, Near, Has,
           Leaving,
           Marked, Removal
    <3> QED
      BY <3>1, <3>2, <2>6
  <2> HIDE DEF v
  <2> QED
    BY ZenonT(40), <2>1, <2>2, <2>5, <2>7, <1>1, <1>2, <1>3, MoveKeeps
<1> QED
  BY Zenon, <1>4, <1>5

(* What a patch of the finalizers leaves of o.                                *)
Merged(o, fins) == Stored([obj[o] EXCEPT !.fin = fins])

(* A patch that leaves no finalizer of a deleted object removes it; any other *)
(* changes the finalizers alone.                                              *)
LEMMA MergedFacts ==
    ASSUME IInv, NEW o \in Objects, obj[o] # None, NEW fins \in SUBSET {"self", "ref"}
    PROVE  /\ Merged(o, fins) \in Recs \cup {None}
           /\ Merged(o, fins) = None <=> obj[o].del /\ fins = {}
           /\ Merged(o, fins) # None =>
                 Merged(o, fins).fin = fins /\ Merged(o, fins).del = obj[o].del
<1> DEFINE r == [obj[o] EXCEPT !.fin = fins]
<1>1. obj[o] \in Recs
  BY DEF IInv, Types
<1>2. r \in Recs /\ r.fin = fins /\ r.del = obj[o].del
  BY ZenonT(40), <1>1, RecFacts
<1>3. Merged(o, fins) = Stored(r)
  BY DEF Merged
<1> HIDE DEF r
<1> QED
  BY Zenon, <1>2, <1>3, StoredFacts

(* The finalizers of o are patched by c, which then is at pc.                 *)
LEMMA MergeKeeps ==
    ASSUME IInv, NEW c \in Controllers, work[c].pc # "idle",
           NEW o \in Objects, NEW fins,
           NEW pc, pc \in {"idle", "addFinalizer", "protect", "bind"} \cup Removal,
           MergeFrom(c, o, fins, pc),
           pc # "idle" => Sees(Moved(c, pc)),
           cache[o] # None /\ obj[o] # None /\ fins = cache[o].fin /\ pc # "idle"
              => WorkerOK(c, Moved(c, pc), obj[work[c].ref], cache[work[c].ref]),
           cache[o] # None /\ obj[o] # None /\ fins # cache[o].fin
              => /\ Written(o, Merged(o, fins))
                 /\ \A d \in Controllers \ {c} :
                       work[d].ref = o => WorkerOK(d, work[d], Merged(o, fins), cache[o])
                 /\ pc # "idle" => WorkerOK(c, Moved(c, pc),
                       IF work[c].ref = o THEN Merged(o, fins) ELSE obj[work[c].ref],
                       cache[work[c].ref])
    PROVE  IInv'
<1>1. CASE Fail(c)
  BY Zenon, <1>1, FailKeeps
<1>2. CASE cache[o] # None /\ obj[o] # None /\ fins = cache[o].fin
  <2>1. Goto(c, pc)
    BY Zenon, <1>2 DEF MergeFrom
  <2> QED
    BY <2>1, <1>2, GotoKeeps
<1>3. CASE cache[o] # None /\ obj[o] # None /\ fins # cache[o].fin
           /\ Put(o, Merged(o, fins), After(c, pc))
  <2> DEFINE w == After(c, pc)
             rec == Merged(o, fins)
  <2>1. /\ w \in [Controllers -> Workers] /\ w[c] = Moved(c, pc)
        /\ \A d \in Controllers \ {c} : w[d] = work[d]
    BY SMTT(30), AfterFacts
  <2>2. ASSUME NEW d \in Controllers
        PROVE  /\ WorkerOK(d, w[d], IF w[d].ref = o THEN rec ELSE obj[w[d].ref], cache[w[d].ref])
               /\ Sees(w[d])
    <3>1. CASE d # c
      <4>1. WorkerOK(d, work[d], obj[work[d].ref], cache[work[d].ref]) /\ Sees(work[d])
        BY Zenon DEF IInv, WorkerInv
      <4>2. w[d] = work[d]
        BY Zenon, <3>1, <2>1
      <4>3. work[d].ref = o => WorkerOK(d, work[d], rec, cache[o])
        BY ZenonT(40), <3>1, <1>3
      <4> HIDE DEF w, rec
      <4> QED
        BY Zenon, <4>1, <4>2, <4>3
    <3>2. CASE d = c /\ pc = "idle"
      BY SMTT(30), <3>2, <2>1, AfterFacts, IdleInv
    <3>3. CASE d = c /\ pc # "idle"
      <4>1. w[d] = Moved(c, pc) /\ Moved(c, pc).ref = work[c].ref
        BY Zenon, <3>3, <2>1, AfterFacts
      <4>2. /\ WorkerOK(c, Moved(c, pc), IF work[c].ref = o THEN rec ELSE obj[work[c].ref],
                        cache[work[c].ref])
            /\ Sees(Moved(c, pc))
        BY Zenon, <3>3, <1>3
      <4> HIDE DEF w, rec
      <4> QED
        BY Zenon, <4>1, <4>2, <3>3
    <3> QED
      BY Zenon, <3>1, <3>2, <3>3
  <2> HIDE DEF w, rec
  <2>3. Put(o, rec, w) /\ Written(o, rec)
    BY Zenon, <1>3 DEF w, rec
  <2> QED
    BY ZenonT(40), <2>1, <2>2, <2>3, PutKeeps
<1> QED
  BY Zenon, <1>1, <1>2, <1>3 DEF MergeFrom, Merged

(* The own finalizer is put.                                                  *)
LEMMA AddFinalizerKeeps ==
    ASSUME IInv, NEW c \in Controllers, AddFinalizer(c)
    PROVE  IInv'
<1> DEFINE x == work[c].ref
           next == IF x = Release THEN "idle" ELSE "protect"
           fins == cache[x].fin \cup {"self"}
           rec == Merged(x, fins)
           v == Moved(c, next)
<1>1. work[c].pc = "addFinalizer" /\ work[c].pc # "idle"
  BY SMTT(30) DEF AddFinalizer
<1>2. /\ x \in c /\ x \in Objects /\ Sees(work[c])
      /\ WorkerOK(c, work[c], obj[x], cache[x])
      /\ x = Release <=> c = {Release}
      /\ \A d \in Controllers \ {c} : work[d].ref # x
  BY Zenon, <1>1, Holding
<1>3. x \in Refs <=> x # Release
  BY <1>2, Kinds DEF Objects
<1>4. next # "idle" => v.pc = "protect" /\ v.ref = x /\ v.own = work[c].own
                       /\ v.before = work[c].before
  BY ZenonT(40), AfterFacts
<1>5. next # "idle" => Sees(v)
  BY Zenon, <1>2, <1>4 DEF Sees
<1>6. ASSUME NEW r, Has(r), cache[x] # None, next # "idle"
      PROVE  WorkerOK(c, v, r, cache[x])
  <2> HIDE DEF v
  <2> QED
    BY Zenon, <1>2, <1>3, <1>4, <1>6 DEF WorkerOK, Removal
<1>7. CASE cache[x] # None /\ "self" \in cache[x].fin
  <2>1. Goto(c, next)
    BY Zenon, <1>7 DEF AddFinalizer
  <2>2. next # "idle" => Has(obj[x])
    BY SMTT(30), <1>1, <1>2, <1>3, <1>7 DEF WorkerOK, Has
  <2> HIDE DEF v
  <2> QED
    BY Zenon, <2>1, <2>2, <1>5, <1>6, <1>7, GotoKeeps DEF v
<1>8. CASE ~(cache[x] # None /\ "self" \in cache[x].fin)
  <2>1. MergeFrom(c, x, fins, next)
    BY Zenon, <1>8 DEF AddFinalizer
  <2>2. ASSUME cache[x] # None, obj[x] # None PROVE Written(x, rec) /\ Has(rec)
    <3>1. cache[x] \in Recs /\ "self" \notin cache[x].fin /\ Valid(x, cache[x])
      BY Zenon, <2>2, <1>2, <1>8 DEF IInv, Types, ObjectsInv
    <3>2. fins \in SUBSET {"self", "ref"} /\ "self" \in fins
          /\ (x # Release => "ref" \notin fins /\ ~cache[x].del)
      BY ZenonT(40), <3>1, <2>2 DEF Recs, Valid
    <3> HIDE DEF fins
    <3>3. rec \in Recs /\ rec # None /\ rec.fin = fins /\ rec.del = obj[x].del
      BY <3>2, <2>2, <1>2, MergedFacts
    <3> HIDE DEF rec
    <3>4. Has(rec) /\ Valid(x, rec) /\ (Marked(obj[x]) => rec.del)
      BY Zenon, <3>2, <3>3 DEF Has, Valid, Marked
    <3>5. x \notin gone /\ (x \in Generated => Known(Owner(x)))
      BY Zenon, <2>2 DEF IInv, ProfilesInv
    <3>6. (x \in Refs => Near(rec, cache[x])) /\ (x = Release => Fresh(rec, cache[x]))
      BY Zenon, <3>1, <3>2, <1>3 DEF Near, Fresh, Marked, Has
    <3> QED
      BY Zenon, <3>3, <3>4, <3>5, <3>6 DEF Written
  <2>3. cache[x] # None /\ obj[x] # None /\ next # "idle"
          => WorkerOK(c, v, IF x = x THEN rec ELSE obj[x], cache[x])
    BY Zenon, <2>2, <1>6
  <2>4. cache[x] # None => fins # cache[x].fin
    BY <1>8
  <2>5. next \in {"idle", "addFinalizer", "protect", "bind"} \cup Removal
    OBVIOUS
  <2> HIDE DEF v, fins, next
  <2> QED
    BY ZenonT(40), <2>1, <2>2, <2>3, <2>4, <2>5, <1>1, <1>2, <1>5,
       MergeKeeps DEF v
<1> QED
  BY <1>7, <1>8

(* The own finalizer is removed.                                              *)
LEMMA RemoveFinalizerKeeps ==
    ASSUME IInv, NEW c \in Controllers, RemoveFinalizer(c)
    PROVE  IInv'
<1> DEFINE x == work[c].ref
           fins == cache[x].fin \ {"self"}
           rec == Merged(x, fins)
<1>1. work[c].pc = "removeFinalizer" /\ work[c].pc # "idle"
  BY SMTT(30) DEF RemoveFinalizer
<1>2. /\ x \in c /\ x \in Objects
      /\ WorkerOK(c, work[c], obj[x], cache[x])
      /\ \A d \in Controllers \ {c} : work[d].ref # x
  BY Zenon, <1>1, Holding
<1>3. x \in Refs <=> x # Release
  BY Zenon, <1>2, Kinds DEF Objects
<1>4. CASE ~work[c].own
  BY <1>4, GotoKeeps DEF RemoveFinalizer
<1>5. CASE work[c].own
  <2>1. MergeFrom(c, x, fins, "idle")
    BY SMTT(30), <1>5 DEF RemoveFinalizer
  <2>2. ASSUME cache[x] # None, obj[x] # None, fins # cache[x].fin PROVE Written(x, rec)
    <3>1. cache[x] \in Recs /\ Has(cache[x]) /\ Valid(x, cache[x])
      BY Zenon, <2>2, <1>2 DEF IInv, Types, ObjectsInv, Has
    <3>2. fins \in SUBSET {"self", "ref"} /\ "self" \notin fins /\ fins \subseteq cache[x].fin
          /\ (x # Release => fins = {})
          /\ (fins # {} => "ref" \in cache[x].fin /\ "ref" \in fins)
          /\ ("ref" \in cache[x].fin => fins # {})
      BY Zenon, <3>1, <2>2 DEF Recs, Valid
    <3> HIDE DEF fins
    <3>3. /\ rec \in Recs \cup {None} /\ (rec = None <=> obj[x].del /\ fins = {})
          /\ rec # None => rec.fin = fins /\ rec.del = obj[x].del
      BY Zenon, <3>2, <2>2, <1>2, MergedFacts
    <3> HIDE DEF rec
    <3>4. Valid(x, rec) /\ (Marked(obj[x]) => rec = None \/ rec.del)
      BY <3>2, <3>3 DEF Valid, Marked
    <3>5. x \notin gone /\ (x \in Generated => Known(Owner(x)))
      BY <2>2 DEF IInv, ProfilesInv
    <3>6. ASSUME x \in Refs PROVE Near(rec, cache[x]) /\ x \notin settled
      <4>1. Leaving(obj[x]) /\ Leaving(cache[x])
        BY Zenon, <3>6, <1>1, <1>2 DEF WorkerOK, Removal
      <4>2. Near(rec, cache[x])
        BY Zenon, <4>1, <3>1, <3>2, <3>3 DEF Near, Leaving, Has, Marked
      <4>3. x \notin settled
        BY ZenonT(40), <4>1 DEF IInv, RefsInv, Shown, Active, Leaving, Has
      <4> QED
        BY Zenon, <4>2, <4>3
    <3>7. ASSUME x = Release PROVE Fresh(rec, cache[x])
      BY <3>1, <3>2, <3>3, <3>7, <2>2 DEF Fresh, Marked, Has, IInv
    <3>8. x \in settled => x \in Refs
      BY DEF IInv, Types
    <3> QED
      BY ZenonT(40), <3>3, <3>4, <3>5, <3>6, <3>7, <3>8 DEF Written
  <2> HIDE DEF fins
  <2> QED
    BY ZenonT(40), <2>1, <2>2, <1>1, <1>2, MergeKeeps
<1> QED
  BY <1>4, <1>5

(* The protection is taken away.                                              *)
LEMMA UnprotectKeeps ==
    ASSUME IInv, NEW c \in Controllers, Unprotect(c)
    PROVE  IInv'
<1> DEFINE x == work[c].ref
           fins == cache[Release].fin \ {"ref"}
           rec == Merged(Release, fins)
           next == "removeFinalizer"
           v == Moved(c, next)
<1>1. work[c].pc = "unprotect" /\ work[c].pc # "idle"
  BY SMTT(30) DEF Unprotect
<1>2. /\ x \in c /\ x \in Objects /\ Sees(work[c])
      /\ WorkerOK(c, work[c], obj[x], cache[x])
      /\ c # {Release} /\ x # Release /\ x \in Refs
  BY ZenonT(40), <1>1, Holding DEF WorkerOK, Objects
<1>3. v.pc = next /\ v.ref = x /\ v.own = work[c].own /\ v.before = work[c].before
  BY ZenonT(40), AfterFacts DEF Removal
<1>4. WorkerOK(c, v, obj[x], cache[x]) /\ Sees(v)
  <2> HIDE DEF v
  <2> QED
    BY <1>1, <1>2, <1>3 DEF WorkerOK, Sees, Removal
<1>5. next \in {"idle", "addFinalizer", "protect", "bind"} \cup Removal /\ next # "idle"
  BY Zenon DEF Removal
<1>6. CASE cache[Release] = None
  <2>1. Goto(c, next)
    BY <1>6 DEF Unprotect
  <2> HIDE DEF next, v
  <2> QED
    BY Zenon, <2>1, <1>4, <1>5, GotoKeeps DEF v
<1>7. CASE cache[Release] # None /\ Release \notin current
  BY SMTT(30), <1>1, <1>7, FailKeeps DEF Unprotect, MergeFromWithOptimisticLock
<1>8. CASE cache[Release] # None /\ Release \in current
  <2>1. MergeFrom(c, Release, fins, next) /\ cache[Release] = obj[Release]
    BY ZenonT(40), <1>8 DEF Unprotect, MergeFromWithOptimisticLock, IInv,
       ObjectsInv
  <2>2. cache[Release] \in Recs /\ obj[Release] # None
    BY SMTT(30), <2>1, <1>8, Kinds DEF IInv, Types
  <2>3. fins \in SUBSET {"self", "ref"} /\ fins \subseteq obj[Release].fin
        /\ ("self" \in obj[Release].fin => "self" \in fins)
    BY Zenon, <2>1, <2>2 DEF Recs
  <2> HIDE DEF fins
  <2>4. /\ rec \in Recs \cup {None} /\ (rec = None <=> obj[Release].del /\ fins = {})
        /\ rec # None => rec.fin = fins /\ rec.del = obj[Release].del
    BY SMTT(30), <2>2, <2>3, Kinds, MergedFacts
  <2> HIDE DEF rec
  <2>5. Written(Release, rec)
    BY ZenonT(40), <2>1, <2>2, <2>3, <2>4, Kinds DEF Written, Valid, Marked,
       Fresh, Has,
       IInv, Types
  <2>6. ASSUME NEW d \in Controllers \ {c}, work[d].ref = Release
        PROVE  WorkerOK(d, work[d], rec, cache[Release])
    <3>1. WorkerOK(d, work[d], obj[Release], cache[Release]) /\ work[d].pc # "idle"
      BY ZenonT(40), <2>6, Kinds DEF IInv, WorkerInv, WorkerOK
    <3>2. d = {Release}
      BY ZenonT(40), <3>1, <2>6, Holding
    <3> QED
      BY ZenonT(40), <3>1, <3>2, <2>2, <2>3, <2>4, <2>6, Kinds DEF WorkerOK,
         Closing
  <2>7. WorkerOK(c, v, IF x = Release THEN rec ELSE obj[x], cache[x])
    BY <1>2, <1>4
  <2> HIDE DEF v, next
  <2> QED
    BY ZenonT(40), <2>1, <2>5, <2>6, <2>7, <1>1, <1>4, <1>5, Kinds,
       MergeKeeps DEF v, rec
<1> QED
  BY <1>6, <1>7, <1>8

(* The Release is looked up and protected.                                    *)
LEMMA ProtectKeeps ==
    ASSUME IInv, NEW c \in Controllers, Protect(c)
    PROVE  IInv'
<1> DEFINE x == work[c].ref
           next == IF x \in Profiles THEN "bind" ELSE "idle"
           settles == IF Active(x) THEN settled \cup {x} ELSE settled
           v == Moved(c, next)
<1>1. work[c].pc = "protect" /\ work[c].pc # "idle"
  BY SMTT(30) DEF Protect
<1>2. /\ x \in c /\ x \in Objects /\ Sees(work[c])
      /\ WorkerOK(c, work[c], obj[x], cache[x])
      /\ c # {Release} /\ x # Release /\ x \in Refs
      /\ x \in Profiles <=> c = Profiles
  BY Zenon, <1>1, Holding DEF WorkerOK, Objects
<1>3. next \in {"idle", "addFinalizer", "protect", "bind"} \cup Removal
  BY Zenon
<1>4. /\ v \in Workers /\ After(c, next) = [work EXCEPT ![c] = v]
      /\ next = "idle" => v = Idle
      /\ next # "idle" => v.pc = next /\ v.ref = x /\ v.before = work[c].before
  BY ZenonT(40), <1>3, AfterFacts
<1>5. WorkerOK(c, v, obj[v.ref], cache[v.ref]) /\ Sees(v)
  <2>1. CASE next = "idle"
    BY SMTT(30), <2>1, <1>4, IdleInv
  <2>2. CASE next # "idle"
    <3>1. x \in Profiles /\ v.pc = "bind"
      BY <2>2, <1>4
    <3> HIDE DEF v, next
    <3> QED
      BY <3>1, <2>2, <1>2, <1>4 DEF WorkerOK, Sees, Removal
  <2> QED
    BY Zenon, <2>1, <2>2
<1>6. settled \subseteq settles /\ settles \subseteq Refs /\ \A y \in settles : Shown(y)
  <2>1. Active(x) => Shown(x)
    BY ZenonT(40), <1>1, <1>2 DEF Active, Shown, WorkerOK, IInv, RefsInv,
       Near, Has,
       Leaving, Marked
  <2> QED
    BY SMTT(30), <2>1, <1>2 DEF IInv, Types, RefsInv
<1>7. CASE cache[Release] = None
  <2>1. Goto(c, next) /\ (next # "idle" => v.ref = x)
    BY SMTT(30), <1>4, <1>7 DEF Protect
  <2> HIDE DEF next, v
  <2> QED
    BY Zenon, <2>1, <1>3, <1>5, GotoKeeps DEF v
<1>8. CASE cache[Release] # None /\ "ref" \in cache[Release].fin
  <2>1. /\ work' = [work EXCEPT ![c] = v] /\ settled' = settles
        /\ UNCHANGED <<obj, cache, current, queue, gone>>
    BY Zenon, <1>4, <1>8 DEF Protect
  <2> HIDE DEF next, v, settles
  <2> QED
    BY ZenonT(40), <2>1, <1>4, <1>5, <1>6, MoveKeeps DEF IInv, Types
<1>9. CASE Goto(c, "idle")
  BY Zenon, <1>9, GotoKeeps
<1>10. CASE Fail(c)
  BY <1>1, <1>10, FailKeeps
<1>11. CASE /\ cache[Release] # None /\ "ref" \notin cache[Release].fin
            /\ Release \in current /\ ~obj[Release].del
            /\ obj' = [obj EXCEPT ![Release].fin = @ \cup {"ref"}]
            /\ current' = current \ {Release}
            /\ work' = After(c, next) /\ settled' = settles
            /\ UNCHANGED <<cache, queue, gone>>
  <2> DEFINE fins == obj[Release].fin \cup {"ref"}
             rec == [obj[Release] EXCEPT !.fin = fins]
  <2>1. cache[Release] = obj[Release] /\ obj[Release] \in Recs /\ obj[Release] # None
    BY <1>11, Kinds DEF IInv, Types, ObjectsInv
  <2>2. rec \in Recs /\ rec # None /\ rec.fin = fins /\ ~rec.del
    <3>1. fins \in SUBSET {"self", "ref"}
      BY <2>1 DEF Recs
    <3> HIDE DEF fins
    <3>2. rec \in Recs /\ rec.fin = fins /\ rec.del = obj[Release].del
      BY Zenon, <3>1, <2>1, RecFacts
    <3> QED
      BY Zenon, <3>2, <1>11, Kinds
  <2>3. obj' = [obj EXCEPT ![Release] = rec]
    BY <1>11
  <2> HIDE DEF rec
  <2>4. Written(Release, rec)
    BY <2>1, <2>2, <1>11, Kinds DEF Written, Valid, Marked, Fresh, IInv, Types
  <2>5. Forward
    BY Zenon, <2>2, <2>3, <2>4, <1>11, Kinds, WriteForward
  <2>6. \A y \in settled' : Shown(y)'
    <3> SUFFICES ASSUME NEW y \in settled' PROVE Shown(y)'
      OBVIOUS
    <3>1. Shown(y) /\ y \in Objects /\ y # Release
      BY <1>6, <1>11, Kinds
    <3>2. obj'[y] = obj[y]
      BY <3>1, <2>3 DEF IInv, Types
    <3> QED
      BY <3>1, <3>2, <1>11 DEF Shown, Active
  <2>7. work' = [work EXCEPT ![c] = v] /\ work' \in [Controllers -> Workers]
    BY ZenonT(40), <1>4, <1>11 DEF IInv, Types
  <2>8. ASSUME NEW d \in Controllers
        PROVE  /\ WorkerOK(d, work'[d], IF work'[d].ref = Release THEN rec ELSE obj[work'[d].ref],
                           cache[work'[d].ref])
               /\ Sees(work[d])'
    <3> SUFFICES ASSUME NEW u, u = work'[d]
                 PROVE  /\ WorkerOK(d, u, IF u.ref = Release THEN rec ELSE obj[u.ref], cache[u.ref])
                        /\ Sees(u)'
      BY Zenon
    <3>1. u \in Workers /\ WorkerOK(d, u, obj[u.ref], cache[u.ref]) /\ Sees(u)
      <4> HIDE DEF v
      <4> QED
        BY <2>7, <1>4, <1>5 DEF IInv, Types, WorkerInv
    <3>2. u.before \subseteq settled'
      BY ZenonT(40), <3>1, <1>6, <1>11 DEF Sees
    <3>3. Sees(u)'
      BY <3>1, <3>2, <2>5, SeesOn
    <3>4. CASE u.ref # Release
      BY <3>1, <3>3, <3>4
    <3>5. CASE u.ref = Release
      <4>1. d = {Release}
        BY SMTT(30), <3>1, <3>5, Kinds DEF WorkerOK
      <4>2. WorkerOK(d, u, rec, cache[Release])
        BY ZenonT(40), <4>1, <3>1, <3>5, <2>1, <2>2, <1>11, Kinds
           DEF WorkerOK, Closing, Has
      <4> QED
        BY Zenon, <4>2, <3>3, <3>5
    <3> QED
      BY <3>4, <3>5
  <2>9. /\ current' \subseteq current /\ Release \notin current' /\ queue' \subseteq Objects
        /\ settled' \subseteq Refs
        /\ gone' = IF rec = None THEN gone \cup ({Release} \cap Profiles) ELSE gone
    BY <2>2, <1>6, <1>11 DEF IInv, Types
  <2>10. cache' = cache /\ Release \in Objects /\ (Release \in current' => rec = obj[Release])
    BY Zenon, <2>9, <1>11, Kinds
  <2> QED
    BY ZenonT(40), <2>3, <2>4, <2>6, <2>7, <2>8, <2>9, <2>10, WriteKeeps
<1> QED
  BY <1>7, <1>8, <1>9, <1>10, <1>11 DEF Protect

(* A Profile's worker makes or deletes the binding b and is done.             *)
LEMMA PutBinding ==
    ASSUME IInv, NEW b \in Generated, NEW rec, Outside(b, rec),
           Put(b, rec, After(Profiles, "idle"))
    PROVE  IInv'
<1> DEFINE w == After(Profiles, "idle")
<1>1. /\ w \in [Controllers -> Workers] /\ w[Profiles] = Idle
      /\ \A d \in Controllers \ {Profiles} : w[d] = work[d]
  BY SMTT(30), Kinds, AfterFacts
<1>2. ASSUME NEW d \in Controllers
      PROVE  WorkerOK(d, w[d], obj[w[d].ref], cache[w[d].ref]) /\ Sees(w[d])
  <2>1. CASE d = Profiles
    BY ZenonT(40), <2>1, <1>1, IdleInv
  <2>2. CASE d # Profiles
    BY <2>2, <1>1 DEF IInv, WorkerInv
  <2> QED
    BY Zenon, <2>1, <2>2
<1>3. b \in Objects
  BY Zenon, Kinds
<1> HIDE DEF w
<1> QED
  BY <1>1, <1>2, <1>3, OutsideKeeps DEF w

(* What a Profile's reconcile does with the binding.                          *)
LEMMA BindKeeps ==
    ASSUME IInv, Bind
    PROVE  IInv'
<1> DEFINE p == work[Profiles].ref
           b == [owner |-> p]
<1>1. p \in Profiles /\ Sees(work[Profiles])
  BY ZenonT(40), Holding, Kinds DEF Bind
<1>2. b \in Generated /\ Owner(b) = p /\ b \notin Profiles /\ Known(p)
  BY <1>1, Owners, Kinds DEF Sees
<1>3. b \notin gone
  BY Zenon, <1>2 DEF IInv, Types
<1>4. CASE obj[b] = None /\ Put(b, New, After(Profiles, "idle"))
  BY Zenon, <1>2, <1>3, <1>4, PutBinding DEF Outside
<1>5. CASE Active(b) /\ Put(b, Deleted(b), After(Profiles, "idle"))
  BY <1>2, <1>5, PutBinding DEF Outside
<1>6. CASE Goto(Profiles, "idle")
  BY Zenon, <1>6, Kinds, GotoKeeps
<1> QED
  BY SMTT(30), <1>4, <1>5, <1>6 DEF Bind

(* What the reconcile of a deleted Profile does with the binding.             *)
LEMMA ListOwnedKeeps ==
    ASSUME IInv, ListOwned
    PROVE  IInv'
<1> DEFINE c == Profiles
           p == work[c].ref
           b == [owner |-> p]
           v == Moved(c, "getRelease")
<1>1. work[c].pc = "listOwned" /\ work[c].pc # "idle" /\ c \in Controllers
  BY SMTT(30), Kinds DEF ListOwned
<1>2. p \in Profiles /\ Sees(work[c]) /\ WorkerOK(c, work[c], obj[p], cache[p])
      /\ c # {Release} /\ p # Release
  BY ZenonT(40), <1>1, Holding, Kinds DEF WorkerOK
<1>3. b \in Generated
  BY ZenonT(40), <1>2, Owners
<1>4. CASE Goto(c, "getRelease")
  <2>1. v.pc = "getRelease" /\ v.ref = p /\ v.own = work[c].own /\ v.before = work[c].before
    BY Zenon, <1>1, AfterFacts DEF Removal
  <2> HIDE DEF v
  <2>2. WorkerOK(c, v, obj[p], cache[p]) /\ Sees(v)
    BY Zenon, <2>1, <1>1, <1>2 DEF WorkerOK, Sees, Removal
  <2> QED
    BY ZenonT(40), <2>2, <1>1, <1>4, GotoKeeps DEF v, Removal
<1>5. CASE Active(b) /\ Put(b, Deleted(b), After(c, "idle"))
  BY Zenon, <1>3, <1>5, PutBinding DEF Outside
<1>6. CASE Goto(c, "idle")
  BY Zenon, <1>6, Kinds, GotoKeeps
<1> QED
  BY ZenonT(40), <1>4, <1>5, <1>6 DEF ListOwned

(* A worker that removes goes on to the next read, or to the end.             *)
LEMMA ReadKeeps ==
    ASSUME IInv, NEW c \in Controllers, work[c].pc \in Removal \ {"removeFinalizer"},
           NEW pc \in Removal \ {"listOwned", "getOwner"}, Goto(c, pc),
           pc \in {"listReferrers", "unprotect"} => work[c].before \cap Profiles = {},
           pc = "unprotect" => \A x \in work[c].before : x \in Generated /\ Ended(Owner(x))
    PROVE  IInv'
<1> DEFINE x == work[c].ref
           v == Moved(c, pc)
<1>1. work[c].pc # "idle" /\ pc # "idle"
  BY SMTT(30) DEF Removal
<1>2. x \in Objects /\ Sees(work[c]) /\ WorkerOK(c, work[c], obj[x], cache[x])
      /\ c # {Release} /\ x # Release /\ x \in c
  BY ZenonT(40), <1>1, Holding DEF WorkerOK, Removal
<1>3. v.pc = pc /\ v.ref = x /\ v.own = work[c].own /\ v.before = work[c].before
  BY SMTT(30), <1>1, AfterFacts
<1> HIDE DEF v
<1>4. WorkerOK(c, v, obj[x], cache[x]) /\ Sees(v)
  BY Zenon, <1>1, <1>2, <1>3 DEF WorkerOK, Sees, Removal
<1> QED
  BY <1>4, GotoKeeps DEF v

(* What is settled stays in the lists.                                        *)
LEMMA ReadsKeep ==
    ASSUME IInv, NEW c \in Controllers,
           \/ c = Bindings /\ GetOwner
           \/ GetRelease(c) \/ ListProfiles(c) \/ ListReferrers(c)
    PROVE  IInv'
<1> DEFINE x == work[c].ref
<1>1. work[c].pc \in Removal \ {"removeFinalizer"} /\ work[c].pc # "idle"
  BY Zenon DEF GetOwner, GetRelease, ListProfiles, ListReferrers, Removal
<1>2. Sees(work[c])
  BY SMTT(30), <1>1, Holding
<1>3. \A y \in work[c].before : y # x /\ Shown(y) /\ y \in Refs
  BY ZenonT(40), <1>2 DEF Sees, IInv, RefsInv, Types
<1>4. CASE c = Bindings /\ GetOwner
  BY ZenonT(40), <1>1, <1>4, ReadKeeps DEF GetOwner, Removal
<1>5. CASE GetRelease(c)
  BY <1>1, <1>5, ReadKeeps DEF GetRelease, Removal
<1>6. CASE ListProfiles(c)
  <2> DEFINE others == {p \in Profiles \ {x} :
                          /\ cache[p] # None
                          /\ cache[p].del => c = Bindings /\ "self" \in cache[p].fin}
  <2>1. others = {} => work[c].before \cap Profiles = {}
    BY Zenon, <1>3 DEF Shown
  <2>2. Goto(c, IF others = {} THEN "listReferrers" ELSE "removeFinalizer")
    BY <1>6 DEF ListProfiles
  <2> HIDE DEF others
  <2> QED
    BY <2>1, <2>2, <1>1, ReadKeeps DEF Removal
<1>7. CASE ListReferrers(c)
  <2> DEFINE others == {b \in Bindings \ {x} : cache[b] # None /\ ~cache[b].del /\ ~Orphaned(b)}
  <2>1. work[c].before \cap Profiles = {}
    BY Zenon, <1>2, <1>7 DEF Sees, ListReferrers
  <2>2. ASSUME others = {}, NEW y \in work[c].before PROVE y \in Generated /\ Ended(Owner(y))
    <3>1. y \in Bindings \ {x} /\ cache[y] # None /\ ~cache[y].del /\ obj[y] # None
      BY Zenon, <2>1, <1>3 DEF Shown, Active, Refs
    <3>2. y \in Generated /\ (cache[Owner(y)] = None \/ cache[Owner(y)].del)
      BY Zenon, <3>1, <2>2 DEF Orphaned
    <3>3. Owner(y) \in Profiles /\ Known(Owner(y))
      BY Zenon, <3>1, <3>2, Owners DEF IInv, ProfilesInv
    <3> QED
      BY Zenon, <3>2, <3>3 DEF IInv, ProfilesInv, Known, Marked, Ended
  <2>3. Goto(c, IF others = {} THEN "unprotect" ELSE "removeFinalizer")
    BY Zenon, <1>7 DEF ListReferrers
  <2> HIDE DEF others
  <2> QED
    BY Zenon, <2>1, <2>2, <2>3, <1>1, ReadKeeps DEF Removal
<1> QED
  BY Zenon, <1>4, <1>5, <1>6, <1>7

-----------------------------------------------------------------------------
(* The invariant holds initially.                                             *)
LEMMA InitHolds == Init => IInv
<1> SUFFICES ASSUME Init PROVE IInv
  OBVIOUS
<1>1. PICK made \in {{}, Profiles} : LET bound == IF made = {} THEN Manual ELSE {} IN
         /\ obj = [o \in Objects |->
                     IF o \in made THEN New
                     ELSE IF o \in bound THEN [New EXCEPT !.fin = {"self"}]
                     ELSE IF o # Release THEN None
                     ELSE IF made # {} THEN New
                     ELSE [New EXCEPT !.fin = {"self", "ref"}]]
         /\ cache = [o \in Objects |-> IF o \in made THEN None ELSE obj[o]]
         /\ current = Objects \ made
         /\ settled = bound
         /\ queue = IF made # {} THEN {Release} ELSE {}
  BY DEF Init
<1> DEFINE bound == IF made = {} THEN Manual ELSE {}
           mine == [New EXCEPT !.fin = {"self"}]
           both == [New EXCEPT !.fin = {"self", "ref"}]
<1>2. /\ mine \in Recs /\ mine.fin = {"self"} /\ ~mine.del
      /\ both \in Recs /\ both.fin = {"self", "ref"} /\ ~both.del
  BY ZenonT(40), NewFacts, RecFacts
<1>3. /\ work = [c \in Controllers |-> Idle] /\ gone = {}
      /\ made \subseteq Profiles /\ bound \subseteq Manual /\ Manual \subseteq Bindings
      /\ settled = bound /\ queue \subseteq Objects
      /\ current = Objects \ made
  BY <1>1, Kinds DEF Init, Bindings
<1>4. ASSUME NEW o \in Objects
      PROVE  /\ obj[o] \in Recs \cup {None} /\ cache[o] = IF o \in made THEN None ELSE obj[o]
             /\ obj[o] # None => ~obj[o].del
             /\ obj[o] # None /\ o # Release => "ref" \notin obj[o].fin
             /\ obj[o] # None => o \in made \cup bound \cup {Release}
             /\ o \in bound => obj[o] = mine /\ o \notin made
  <2>1. o \in bound => o \notin made /\ o # Release
    BY <1>3, Kinds
  <2>2. o \in made => o # Release
    BY <1>3, Kinds
  <2>3. /\ o \in made => obj[o] = New
        /\ o \in bound => obj[o] = mine
        /\ o \notin made \cup bound /\ o # Release => obj[o] = None
        /\ o = Release => obj[o] = New \/ obj[o] = both
        /\ cache[o] = IF o \in made THEN None ELSE obj[o]
    BY Zenon, <2>1, <2>2, <1>1
  <2> HIDE DEF mine, both, bound
  <2> QED
    BY <2>1, <2>2, <2>3, <1>2, NewFacts
<1>5. obj \in [Objects -> Recs \cup {None}] /\ cache \in [Objects -> Recs \cup {None}]
  <2>1. obj = [o \in Objects |-> obj[o]] /\ cache = [o \in Objects |-> cache[o]]
    BY Zenon, <1>1
  <2> QED
    BY <2>1, <1>4
<1> HIDE DEF mine, both, bound
<1>6. Types
  BY Zenon, <1>3, <1>5, IdleFacts, Kinds DEF Types
<1>7. ObjectsInv
  BY <1>3, <1>4 DEF ObjectsInv, Valid
<1>8. RefsInv
  <2>1. \A x \in Refs : Near(obj[x], cache[x])
    BY Zenon, <1>4, Kinds DEF Near, Marked, Has
  <2>2. \A x \in settled : Shown(x)
    BY SMTT(30), <1>2, <1>3, <1>4, Kinds DEF Shown, Active, Has
  <2> QED
    BY Zenon, <2>1, <2>2 DEF RefsInv
<1>9. ProfilesInv
  <2>1. \A b \in Generated : obj[b] = None
    BY <1>3, <1>4, ReleaseAssumption, Kinds
  <2>2. \A p \in Profiles : (cache[p] # None => obj[p] # None) /\ ~Marked(cache[p])
    BY Zenon, <1>4, Kinds DEF Marked
  <2> QED
    BY Zenon, <2>1, <2>2, <1>3 DEF ProfilesInv
<1>10. Fresh(obj[Release], cache[Release])
  BY Zenon, <1>3, <1>4, Kinds DEF Fresh, Has
<1>11. \A c \in Controllers : WorkerInv(c) /\ Sees(work[c])
  BY <1>3, IdleInv DEF WorkerInv
<1> QED
  BY <1>6, <1>7, <1>8, <1>9, <1>10, <1>11 DEF IInv

(* Every step keeps the invariant.                                            *)
LEMMA NextKeeps == IInv /\ [Next]_vars => IInv'
<1> SUFFICES ASSUME IInv, [Next]_vars PROVE IInv'
  OBVIOUS
<1>1. CASE \E o \in Objects : Create(o) \/ Delete(o) \/ Sync(o)
  BY <1>1, CreateKeeps, DeleteKeeps, SyncKeeps
<1>2. CASE \E p \in Profiles : Toggle(p)
  BY <1>2, ToggleKeeps
<1>3. CASE \E b \in Generated : CollectGarbage(b)
  BY <1>3, Kinds, DeleteKeeps
<1>4. ASSUME NEW c \in Controllers, Step(c) PROVE IInv'
  BY Zenon, <1>4, FetchKeeps, AddFinalizerKeeps, ProtectKeeps, ReadsKeep,
     UnprotectKeeps,
     RemoveFinalizerKeeps, BindKeeps, ListOwnedKeeps DEF Step
<1>5. ASSUME NEW c \in Controllers, CallFails(c) PROVE IInv'
  BY <1>5, FailKeeps DEF CallFails
<1>6. CASE Restart
  BY Zenon, <1>6, RestartKeeps
<1>7. CASE UNCHANGED vars
  BY <1>7, QueueKeeps DEF vars, IInv, Types
<1> QED
  BY <1>1, <1>2, <1>3, <1>4, <1>5, <1>6, <1>7 DEF Next

(* The inductive invariant: caches and workers are behind the API server only *)
(* so far, and what was settled before a reconcile is in its lists unless its *)
(* Profile has come to its end.                                               *)
THEOREM Invariance == Spec => []IInv
  BY InitHolds, NextKeeps, PTL DEF Spec

(* Objects, caches, queues and workers keep their types; release-ref is on    *)
(* nothing but the Release, and only active referencers count as settled.     *)
THEOREM TypeCorrect == Spec => []TypeOK
<1>1. IInv => TypeOK
  <2> SUFFICES ASSUME IInv PROVE TypeOK
    BY Zenon
  <2>1. \A c \in Controllers : work[c].ref \in c \cup {None} /\ work[c].before \subseteq settled
    BY DEF IInv, WorkerInv, WorkerOK, Sees
  <2>2. \A o \in Objects : obj[o] = None \/
          (obj[o].fin \subseteq {"self", "ref"} /\ (obj[o].del => obj[o].fin # {}))
    BY ZenonT(40) DEF IInv, Types, ObjectsInv, Valid, Recs
  <2>3. \A o \in Objects \ {Release} : obj[o] = None \/ "ref" \notin obj[o].fin
    BY DEF IInv, ObjectsInv, Valid
  <2>4. /\ \A o \in current : cache[o] = obj[o]
        /\ queue \subseteq Objects /\ settled \subseteq {x \in Refs : Active(x)}
    BY DEF IInv, Types, ObjectsInv, RefsInv, Shown
  <2> QED
    BY <2>1, <2>2, <2>3, <2>4 DEF TypeOK
<1> QED
  BY <1>1, Invariance, PTL

-----------------------------------------------------------------------------
(* Settled referencers are spared.                                         *)

(* The Release is protected.                                                  *)
Protected(rec) == rec # None /\ "ref" \in rec.fin

(* A patch of another object leaves the Release alone.                        *)
LEMMA MergeElsewhere ==
    ASSUME IInv, NEW c \in Controllers, NEW o \in Objects \ {Release}, NEW fins, NEW pc,
           MergeFrom(c, o, fins, pc)
    PROVE  obj'[Release] = obj[Release]
BY Kinds DEF MergeFrom, Fail, Goto, Put, IInv, Types

(* Once its own finalizer is in the cache, no patch of the Release controller *)
(* drops release-ref.                                                         *)
LEMMA OwnPatches ==
    ASSUME IInv, NEW c \in Controllers, AddFinalizer(c) \/ RemoveFinalizer(c),
           Active(Release), Has(cache[Release]), Protected(obj[Release])
    PROVE  Protected(obj'[Release])
<1> DEFINE x == work[c].ref
<1>1. work[c].pc # "idle"
  BY ZenonT(40) DEF AddFinalizer, RemoveFinalizer
<1>2. x \in Objects /\ WorkerOK(c, work[c], obj[x], cache[x])
  BY SMTT(30), <1>1, Holding
<1>3. CASE x # Release
  <2>1. UNCHANGED obj \/ \E fins, pc : MergeFrom(c, x, fins, pc)
    BY Zenon DEF AddFinalizer, RemoveFinalizer, Goto
  <2> QED
    BY ZenonT(40), <2>1, <1>2, <1>3, MergeElsewhere
<1>4. CASE x = Release /\ AddFinalizer(c)
  BY Zenon, <1>4 DEF AddFinalizer, Goto, Has
<1>5. CASE x = Release /\ RemoveFinalizer(c)
  <2>1. ~work[c].own
    BY ZenonT(40), <1>2, <1>5 DEF WorkerOK, Closing, RemoveFinalizer, Active,
       Protected
  <2> QED
    BY Zenon, <2>1, <1>5 DEF RemoveFinalizer, Goto
<1> QED
  BY Zenon, <1>3, <1>4, <1>5

(* Nor does any other step but unprotect.                                     *)
LEMMA OnlyUnprotect ==
    ASSUME IInv, [Next]_vars, \A c \in Controllers : ~Unprotect(c),
           Active(Release), Has(cache[Release]), Protected(obj[Release])
    PROVE  Protected(obj'[Release])
<1>1. ASSUME NEW o \in Objects, NEW rec, NEW w, Outside(o, rec), Put(o, rec, w)
      PROVE  Protected(obj'[Release])
  <2>1. obj' = [obj EXCEPT ![o] = rec]
    BY Zenon, <1>1 DEF Put
  <2>2. CASE o # Release
    BY SMTT(30), <2>1, <2>2, Kinds DEF IInv, Types
  <2>3. CASE o = Release
    <3>1. obj'[Release] = rec
      BY Zenon, <2>1, <2>3 DEF IInv, Types
    <3>2. ~obj[Release].del /\ obj[Release] # None /\ obj[Release].fin # {}
      BY Zenon DEF Active, Protected
    <3>3. rec # None /\ rec.fin = obj[Release].fin
      BY Zenon, <3>2, <2>3, <1>1, OutsideFacts
    <3> QED
      BY Zenon, <3>1, <3>3 DEF Protected
  <2> QED
    BY Zenon, <2>2, <2>3
<1>2. ASSUME NEW o \in Objects, Create(o) \/ Delete(o) \/ CollectGarbage(o)
      PROVE  Protected(obj'[Release])
  BY Zenon, <1>1, <1>2 DEF Create, Delete, CollectGarbage, Outside
<1>3. ASSUME UNCHANGED obj PROVE Protected(obj'[Release])
  BY Zenon, <1>3
<1>4. ASSUME NEW c \in Controllers, Step(c) PROVE Protected(obj'[Release])
  <2>1. CASE AddFinalizer(c) \/ RemoveFinalizer(c)
    BY <2>1, OwnPatches
  <2>2. CASE Protect(c)
    <3>1. CASE UNCHANGED obj
      BY <3>1
    <3>2. CASE obj' = [obj EXCEPT ![Release].fin = @ \cup {"ref"}]
      <4> DEFINE fins == obj[Release].fin \cup {"ref"}
                 r == [obj[Release] EXCEPT !.fin = fins]
      <4>1. obj'[Release] = r /\ obj[Release] \in Recs
        BY <3>2, Kinds DEF IInv, Types, Protected
      <4>2. fins \in SUBSET {"self", "ref"} /\ "ref" \in fins
        BY <4>1 DEF Recs
      <4> HIDE DEF fins
      <4>3. r \in Recs /\ r.fin = fins
        BY ZenonT(40), <4>1, <4>2, RecFacts
      <4> QED
        BY Zenon, <4>1, <4>2, <4>3, Kinds DEF Protected
    <3> QED
      BY <2>2, <3>1, <3>2 DEF Protect, Goto, Fail
  <2>3. CASE c = Profiles /\ (Bind \/ ListOwned)
    <3> DEFINE b == [owner |-> work[Profiles].ref]
    <3>1. work[Profiles].pc # "idle"
      BY Zenon, <2>3 DEF Bind, ListOwned
    <3>2. b \in Generated /\ b \in Objects /\ b # Release
      BY <3>1, Holding, Owners, Kinds
    <3>3. UNCHANGED obj \/ \E rec, w : Put(b, rec, w)
      BY <2>3 DEF Bind, ListOwned, Goto
    <3> HIDE DEF b
    <3>4. ASSUME NEW rec, NEW w, Put(b, rec, w) PROVE obj'[Release] = obj[Release]
      BY SMTT(30), <3>2, <3>4, Kinds DEF Put, IInv, Types
    <3> QED
      BY <3>3, <3>4
  <2>4. CASE \E x \in c : Fetch(c, x)
    BY ZenonT(40), <2>4 DEF Fetch
  <2>5. CASE GetRelease(c) \/ ListProfiles(c) \/ ListReferrers(c) \/ GetOwner
    BY Zenon, <2>5 DEF GetRelease, ListProfiles, ListReferrers, GetOwner, Goto
  <2> QED
    BY ZenonT(40), <2>1, <2>2, <2>3, <2>4, <2>5, <1>4 DEF Step
<1>5. CASE \E o \in Objects : Sync(o)
  BY Zenon, <1>5 DEF Sync
<1>6. CASE (\E p \in Profiles : Toggle(p)) \/ Restart \/ \E c \in Controllers : CallFails(c)
  BY <1>6 DEF Toggle, Restart, CallFails, Fail
<1> QED
  BY ZenonT(40), <1>2, <1>4, <1>5, <1>6, Kinds DEF Next, vars

(* Once the Release's own finalizer is in the cache, release-ref only goes by *)
(* removeReleaseRefFinalizer of a Profile or ReleaseBinding, and never under  *)
(* an active referencer that had found or put it before that reconcile began, *)
(* but for bindings that their Profile leaves to the garbage collector.       *)
THEOREM SettledAreSpared == Spec => SparesSettled
<1>1. ASSUME IInv, [Next]_vars, Active(Release), Has(cache[Release]), Protected(obj[Release]),
             ~Protected(obj'[Release])
      PROVE  \E c \in Controllers : work[c].pc = "unprotect"
                                     /\ \A x \in work[c].before : ~Counts(x)
  <2>1. PICK c \in Controllers : Unprotect(c)
    BY Zenon, <1>1, OnlyUnprotect
  <2>2. work[c].pc = "unprotect"
    BY Zenon, <2>1 DEF Unprotect
  <2>3. ASSUME NEW x \in work[c].before PROVE ~Counts(x)
    <3>1. x \in Generated /\ Ended(Owner(x))
      BY Zenon, <2>2, <2>3, <1>1 DEF IInv, Sees
    <3>2. x \in Bindings /\ Owner(x) \in Profiles /\ Owner(x) # None
      BY ZenonT(40), <3>1, Kinds, Owners
    <3>3. ~Active(Owner(x))
      BY Zenon, <3>1, <1>1 DEF IInv, ProfilesInv, Ended, Marked, Active
    <3> QED
      BY Zenon, <3>2, <3>3 DEF Counts
  <2> QED
    BY Zenon, <2>2, <2>3
<1>2. IInv /\ [Next]_vars =>
        [Active(Release) /\ cache[Release] # None /\ "self" \in cache[Release].fin
           /\ "ref" \in obj[Release].fin
           /\ (obj'[Release] = None \/ "ref" \notin obj'[Release].fin)
           => \E c \in Controllers : work[c].pc = "unprotect"
                                      /\ \A x \in work[c].before : ~Counts(x)]_vars
  BY <1>1 DEF Active, Has, Protected
<1> QED
  BY <1>2, Invariance, PTL DEF Spec, SparesSettled

-----------------------------------------------------------------------------
(* No wake-up of a deleted Profile or binding is lost.                     *)

Mine(x) == IF x \in Profiles THEN Profiles ELSE Bindings

(* A deleted Profile waits for an event of its binding.                       *)
Waits(x) ==
    x \in Profiles /\ LET b == [owner |-> x] IN b \notin current \/ Marked(cache[b])

(* A request for x is in the queue or comes with the next event of x, or x is *)
(* a Profile that waits.                                                      *)
Pending(x) == x \in queue \/ x \notin current \/ Waits(x)

Removes(x, w) == w.ref = x /\ w.pc \in Removal

WakeInv == \A x \in Refs : Marked(obj[x]) => Pending(x) \/ Removes(x, work[Mine(x)])

(* Requests that are pending stay so while no copy is replaced and nothing is *)
(* taken from the queue.                                                      *)
LEMMA PendingOn ==
    ASSUME NEW x, Pending(x), cache' = cache, current' \subseteq current, queue \subseteq queue'
    PROVE  Pending(x)'
BY DEF Pending, Waits

(* The worker of x is that of the controller whose kind x is.                 *)
LEMMA MineFacts ==
    ASSUME NEW x \in Refs
    PROVE  /\ Mine(x) \in Controllers /\ x \in Mine(x) /\ x \in Objects
           /\ \A c \in Controllers : x \in c => c = Mine(x)
BY Zenon, Kinds DEF Mine, Refs

(* The workers of the other controllers do not remove x.                      *)
LEMMA OthersDoNot ==
    ASSUME IInv, NEW x \in Refs, NEW c \in Controllers, work[c].ref = x
    PROVE  c = Mine(x)
<1>1. x # None /\ WorkerOK(c, work[c], obj[x], cache[x])
  BY Zenon, Kinds DEF IInv, WorkerInv
<1> QED
  BY Zenon, <1>1, MineFacts DEF WorkerOK

(* A write: a marked object is new to the cache, or stays as it was.          *)
LEMMA PutWakes ==
    ASSUME IInv, WakeInv, NEW o \in Objects, NEW rec, NEW w \in [Controllers -> Workers],
           Put(o, rec, w),
           \A x \in Refs : Marked(obj[x]) /\ x # o /\ Removes(x, work[Mine(x)])
                             => Removes(x, w[Mine(x)]) \/ Pending(x)',
           o \in Refs /\ Marked(obj[o]) /\ rec = obj[o] => Pending(o)' \/ Removes(o, w[Mine(o)])
    PROVE  WakeInv'
<1>1. /\ obj' = [obj EXCEPT ![o] = rec]
      /\ current' = IF rec = obj[o] THEN current ELSE current \ {o}
      /\ work' = [c \in Controllers |-> [w[c] EXCEPT !.before = @ \cap settled']]
      /\ cache' = cache /\ queue' = queue
  BY DEF Put
<1>2. \A c \in Controllers : work'[c].pc = w[c].pc /\ work'[c].ref = w[c].ref
  BY Zenon, <1>1 DEF Workers
<1>3. ASSUME NEW x \in Refs, Marked(obj'[x]) PROVE Pending(x)' \/ Removes(x, work'[Mine(x)])
  <2>1. Removes(x, w[Mine(x)]) => Removes(x, work'[Mine(x)])
    BY <1>2, MineFacts DEF Removes
  <2>2. CASE x = o /\ rec # obj[o]
    BY <2>2, <1>1 DEF Pending
  <2>3. CASE x = o /\ rec = obj[o]
    BY SMTT(30), <2>1, <2>3, <1>1, <1>3
  <2>4. CASE x # o
    <3>1. Marked(obj[x])
      BY <2>4, <1>1, <1>3, MineFacts DEF IInv, Types
    <3>2. Pending(x) => Pending(x)'
      BY Zenon, <1>1, PendingOn
    <3> QED
      BY <3>1, <3>2, <2>1, <2>4 DEF WakeInv
  <2> QED
    BY ZenonT(40), <2>2, <2>3, <2>4
<1> QED
  BY <1>3 DEF WakeInv, Removes, Mine

(* A step of the worker of c, which deals with y, that writes no referencer.  *)
LEMMA MoveWakes ==
    ASSUME IInv, WakeInv, NEW c \in Controllers, NEW v, NEW y, y = work[c].ref,
           work' = [work EXCEPT ![c] = v], \A x \in Refs : obj'[x] = obj[x],
           cache' = cache, current' \subseteq current, queue \subseteq queue',
           y \in Refs /\ Marked(obj[y]) /\ work[c].pc \in Removal
             => Removes(y, v) \/ Pending(y)'
    PROVE  WakeInv'
<1>1. ASSUME NEW x \in Refs, Marked(obj[x]) PROVE Pending(x)' \/ Removes(x, work'[Mine(x)])
  <2>1. Pending(x) => Pending(x)'
    BY ZenonT(40), PendingOn
  <2>2. CASE Removes(x, work[Mine(x)]) /\ c = Mine(x)
    <3>1. x = y /\ work[c].pc \in Removal /\ work'[c] = v
      BY Zenon, <2>2 DEF Removes, IInv, Types
    <3> QED
      BY Zenon, <3>1, <2>2, <1>1
  <2>3. CASE Removes(x, work[Mine(x)]) /\ c # Mine(x)
    BY SMTT(30), <2>3, MineFacts DEF IInv, Types
  <2> QED
    BY SMTT(30), <2>1, <2>2, <2>3, <1>1 DEF WakeInv
<1> QED
  BY Zenon, <1>1 DEF WakeInv, Removes, Mine

(* A failed call is tried again.                                              *)
LEMMA FailWakes ==
    ASSUME IInv, WakeInv, NEW c \in Controllers, Fail(c)
    PROVE  WakeInv'
<1> SUFFICES ASSUME NEW y, y = work[c].ref PROVE WakeInv'
  OBVIOUS
<1>1. Pending(y)'
  BY SMTT(30) DEF Fail, Pending
<1> QED
  BY Zenon, <1>1, MoveWakes DEF Fail

(* The worker goes on.                                                        *)
LEMMA GotoWakes ==
    ASSUME IInv, WakeInv, NEW c \in Controllers, NEW pc,
           pc \in {"idle", "addFinalizer", "protect", "bind"} \cup Removal, Goto(c, pc),
           work[c].ref \in Refs /\ Marked(obj[work[c].ref]) /\ work[c].pc \in Removal
             => pc \in Removal \/ Pending(work[c].ref)
    PROVE  WakeInv'
<1> SUFFICES ASSUME NEW y, y = work[c].ref, NEW v, v = Moved(c, pc) PROVE WakeInv'
  BY Zenon
<1>1. work' = [work EXCEPT ![c] = v] /\ UNCHANGED <<obj, cache, current, queue>>
  BY Zenon, AfterFacts DEF Goto
<1>2. pc \in Removal => Removes(y, v)
  BY ZenonT(40), AfterFacts DEF Removes, Removal
<1>3. Pending(y) => Pending(y)'
  BY <1>1, PendingOn
<1> QED
  BY ZenonT(40), <1>1, <1>2, <1>3, MoveWakes

(* The finalizers of o are patched by c, which then is at pc.                 *)
LEMMA MergeWakes ==
    ASSUME IInv, WakeInv, NEW c \in Controllers, NEW o \in Objects, NEW fins,
           NEW pc, pc \in {"idle", "addFinalizer", "protect", "bind"} \cup Removal,
           MergeFrom(c, o, fins, pc),
           cache[o] # None => fins \in SUBSET {"self", "ref"},
           work[c].ref # o => pc \in Removal,
           cache[o] # None /\ obj[o] # None /\ fins = cache[o].fin
             /\ work[c].ref \in Refs /\ Marked(obj[work[c].ref]) /\ work[c].pc \in Removal
             => pc \in Removal \/ Pending(work[c].ref)
    PROVE  WakeInv'
<1>0. /\ After(c, pc) \in [Controllers -> Workers] /\ After(c, pc)[c] = Moved(c, pc)
      /\ \A d \in Controllers \ {c} : After(c, pc)[d] = work[d]
      /\ pc # "idle" => Moved(c, pc).pc = pc /\ Moved(c, pc).ref = work[c].ref
  BY SMTT(30), AfterFacts
<1>1. CASE Fail(c)
  BY Zenon, <1>1, FailWakes
<1>2. CASE cache[o] # None /\ obj[o] # None /\ fins = cache[o].fin
  BY SMTT(30), <1>2, GotoWakes DEF MergeFrom
<1>3. CASE cache[o] # None /\ obj[o] # None /\ fins # cache[o].fin
           /\ Put(o, Merged(o, fins), After(c, pc))
  <2> SUFFICES ASSUME NEW w, w = After(c, pc), NEW rec, rec = Merged(o, fins) PROVE WakeInv'
    BY ZenonT(40)
  <2>1. /\ w \in [Controllers -> Workers] /\ w[c] = Moved(c, pc)
        /\ \A d \in Controllers \ {c} : w[d] = work[d]
    BY Zenon, <1>0
  <2>2. ASSUME NEW x \in Refs, x # o, Removes(x, work[Mine(x)]) PROVE Removes(x, w[Mine(x)])
    <3>1. CASE c = Mine(x)
      <4>1. pc \in Removal /\ pc # "idle"
        BY Zenon, <3>1, <2>2 DEF Removes, Removal
      <4> QED
        BY Zenon, <4>1, <3>1, <2>1, <2>2, <1>0 DEF Removes
    <3>2. CASE c # Mine(x)
      BY ZenonT(40), <3>2, <2>1, <2>2, MineFacts
    <3> QED
      BY ZenonT(40), <3>1, <3>2
  <2>3. ASSUME rec = obj[o] PROVE o \notin current
    <3>1. rec # None => rec.fin = fins
      BY ZenonT(40), <1>3, MergedFacts
    <3> QED
      BY ZenonT(40), <3>1, <2>3, <1>3 DEF IInv, ObjectsInv
  <2>4. Put(o, rec, w)
    BY Zenon, <1>3
  <2>5. rec = obj[o] => Pending(o)'
    BY Zenon, <2>3, <2>4 DEF Put, Pending
  <2> QED
    BY ZenonT(40), <2>1, <2>2, <2>4, <2>5, PutWakes
<1> QED
  BY Zenon, <1>1, <1>2, <1>3 DEF MergeFrom, Merged

(* The own finalizer is put.                                                  *)
LEMMA AddFinalizerWakes ==
    ASSUME IInv, WakeInv, NEW c \in Controllers, AddFinalizer(c)
    PROVE  WakeInv'
<1> DEFINE x == work[c].ref
           next == IF x = Release THEN "idle" ELSE "protect"
           fins == cache[x].fin \cup {"self"}
<1>1. work[c].pc = "addFinalizer" /\ work[c].pc # "idle" /\ work[c].pc \notin Removal
  BY ZenonT(40) DEF AddFinalizer, Removal
<1>2. x \in Objects
  BY <1>1, Holding
<1>3. cache[x] # None => fins \in SUBSET {"self", "ref"}
  BY Zenon, <1>2 DEF IInv, Types, Recs
<1>4. CASE Goto(c, next)
  BY ZenonT(40), <1>1, <1>4, GotoWakes
<1>5. CASE MergeFrom(c, x, fins, next)
  <2>1. next \in {"idle", "addFinalizer", "protect", "bind"} \cup Removal
    OBVIOUS
  <2> HIDE DEF fins, next
  <2> QED
    BY <2>1, <1>1, <1>2, <1>3, <1>5, MergeWakes
<1> QED
  BY Zenon, <1>4, <1>5 DEF AddFinalizer

(* The own finalizer is removed.                                              *)
LEMMA RemoveFinalizerWakes ==
    ASSUME IInv, WakeInv, NEW c \in Controllers, RemoveFinalizer(c)
    PROVE  WakeInv'
<1> DEFINE x == work[c].ref
           fins == cache[x].fin \ {"self"}
<1>1. work[c].pc = "removeFinalizer" /\ work[c].pc # "idle" /\ work[c].pc \in Removal
  BY Zenon DEF RemoveFinalizer, Removal
<1>2. x \in Objects /\ WorkerOK(c, work[c], obj[x], cache[x])
  BY Zenon, <1>1, Holding
<1>3. cache[x] # None => fins \in SUBSET {"self", "ref"}
  BY SMTT(30), <1>2 DEF IInv, Types, Recs
<1>4. CASE ~work[c].own
  <2>1. x \notin Refs
    BY SMTT(30), <1>1, <1>2, <1>4 DEF WorkerOK
  <2> QED
    BY ZenonT(40), <2>1, <1>4, GotoWakes DEF RemoveFinalizer
<1>5. CASE work[c].own
  <2>1. MergeFrom(c, x, fins, "idle")
    BY SMTT(30), <1>5 DEF RemoveFinalizer
  <2>2. ASSUME cache[x] # None, fins = cache[x].fin, x \in Refs, Marked(obj[x])
        PROVE  Pending(x)
    <3>1. x \in Objects /\ x # Release /\ obj[x] # None /\ obj[x].del
      BY Zenon, <2>2, Kinds DEF Marked
    <3>2. obj[x] \in Recs /\ obj[x].fin # {} /\ "ref" \notin obj[x].fin
      BY Zenon, <3>1 DEF IInv, Types, ObjectsInv, Valid
    <3>3. "self" \in obj[x].fin /\ "self" \notin cache[x].fin
      BY Zenon, <3>2, <2>2 DEF Recs
    <3> QED
      BY Zenon, <3>3 DEF Pending, IInv, ObjectsInv
  <2> HIDE DEF fins
  <2> QED
    BY ZenonT(40), <2>1, <2>2, <1>1, <1>2, <1>3, MergeWakes
<1> QED
  BY Zenon, <1>4, <1>5

(* The protection is taken away.                                              *)
LEMMA UnprotectWakes ==
    ASSUME IInv, WakeInv, NEW c \in Controllers, Unprotect(c)
    PROVE  WakeInv'
<1> DEFINE fins == cache[Release].fin \ {"ref"}
           next == "removeFinalizer"
<1>1. next \in Removal
  BY Zenon DEF Removal
<1>2. cache[Release] # None => fins \in SUBSET {"self", "ref"}
  BY Zenon, Kinds DEF IInv, Types, Recs
<1>3. Goto(c, next) \/ Fail(c) \/ MergeFrom(c, Release, fins, next)
  BY DEF Unprotect, MergeFromWithOptimisticLock
<1> HIDE DEF fins, next
<1> QED
  BY Zenon, <1>1, <1>2, <1>3, GotoWakes, FailWakes, MergeWakes, Kinds

(* The Release is looked up and protected.                                    *)
LEMMA ProtectWakes ==
    ASSUME IInv, WakeInv, NEW c \in Controllers, Protect(c)
    PROVE  WakeInv'
<1> DEFINE next == IF work[c].ref \in Profiles THEN "bind" ELSE "idle"
<1>1. /\ work[c].pc \notin Removal
      /\ next \in {"idle", "addFinalizer", "protect", "bind"} \cup Removal
  BY SMTT(30) DEF Protect, Removal
<1>2. CASE Goto(c, next) \/ Goto(c, "idle") \/ Fail(c)
  BY ZenonT(40), <1>1, <1>2, GotoWakes, FailWakes
<1>3. CASE /\ work' = After(c, next) /\ (\A x \in Refs : obj'[x] = obj[x])
           /\ cache' = cache /\ current' \subseteq current /\ queue' = queue
  <2> SUFFICES ASSUME NEW y, y = work[c].ref, NEW v, v = Moved(c, next) PROVE WakeInv'
    BY Zenon
  <2>1. work' = [work EXCEPT ![c] = v]
    BY <1>1, <1>3, AfterFacts
  <2> QED
    BY Zenon, <2>1, <1>1, <1>3, MoveWakes
<1>4. obj' = [obj EXCEPT ![Release].fin = @ \cup {"ref"}] => \A x \in Refs : obj'[x] = obj[x]
  BY ZenonT(40), Kinds DEF IInv, Types
<1> QED
  BY <1>2, <1>3, <1>4 DEF Protect

(* An object is made, or an active one deleted, by somebody else.             *)
LEMMA OutsideWakes ==
    ASSUME IInv, WakeInv, NEW o \in Objects, NEW rec, Outside(o, rec),
           NEW w \in [Controllers -> Workers], Put(o, rec, w),
           \A x \in Refs : Marked(obj[x]) /\ x # o /\ Removes(x, work[Mine(x)])
                             => Removes(x, w[Mine(x)]) \/ Pending(x)'
    PROVE  WakeInv'
<1>1. ~Marked(obj[o])
  BY OutsideFacts DEF Marked
<1> QED
  BY Zenon, <1>1, PutWakes

(* Whatever a user or the garbage collector does is followed by an event for  *)
(* whoever may have to act on it.                                             *)
LEMMA UsersWake ==
    ASSUME IInv, WakeInv, NEW o \in Objects, Create(o) \/ Delete(o) \/ CollectGarbage(o)
    PROVE  WakeInv'
<1>1. work \in [Controllers -> Workers]
  BY DEF IInv, Types
<1>2. CASE Create(o)
  BY Zenon, <1>1, <1>2, OutsideWakes DEF Create, Outside
<1>3. CASE Delete(o) \/ CollectGarbage(o)
  BY <1>1, <1>3, OutsideWakes DEF Delete, CollectGarbage, Outside
<1> QED
  BY <1>2, <1>3

(* What a Profile's reconcile does with the binding.  A deleted Profile that  *)
(* has deleted its binding, or sees it deleted, hears of its end.             *)
LEMMA BindingWakes ==
    ASSUME IInv, WakeInv, Bind \/ ListOwned
    PROVE  WakeInv'
<1> SUFFICES ASSUME NEW p, p = work[Profiles].ref, NEW b, b = [owner |-> p] PROVE WakeInv'
  BY ZenonT(40)
<1>1. work[Profiles].pc \in {"bind", "listOwned"} /\ work[Profiles].pc # "idle"
      /\ Profiles \in Controllers
  BY Zenon, Kinds DEF Bind, ListOwned
<1>2. p \in Profiles /\ Sees(work[Profiles])
  BY ZenonT(40), <1>1, Holding
<1>3. b \in Generated /\ Owner(b) = p /\ b \notin Profiles /\ b \in Objects /\ Known(p)
  BY SMTT(30), <1>2, Owners, Kinds DEF Sees
<1>4. ASSUME NEW rec, Outside(b, rec), Put(b, rec, After(Profiles, "idle")) PROVE WakeInv'
  <2> SUFFICES ASSUME NEW w, w = After(Profiles, "idle") PROVE WakeInv'
    BY Zenon
  <2>1. /\ w \in [Controllers -> Workers]
        /\ \A d \in Controllers \ {Profiles} : w[d] = work[d]
    BY SMTT(30), <1>1, AfterFacts
  <2>2. ASSUME NEW x \in Refs, Removes(x, work[Mine(x)])
        PROVE  Removes(x, w[Mine(x)]) \/ Pending(x)'
    <3>1. CASE x \notin Profiles
      BY Zenon, <3>1, <2>1, <2>2, <1>1, Kinds, MineFacts DEF Mine
    <3>2. CASE x \in Profiles
      <4>1. x = p
        BY ZenonT(40), <3>2, <2>2 DEF Removes, Mine
      <4>2. rec # obj[b]
        BY <1>3, <1>4, OutsideFacts, NewFacts
      <4>3. b \notin current'
        BY Zenon, <4>2, <1>4 DEF Put
      <4> QED
        BY Zenon, <4>1, <4>3, <1>2 DEF Pending, Waits
    <3> QED
      BY ZenonT(40), <3>1, <3>2
  <2> QED
    BY ZenonT(40), <2>1, <2>2, <1>3, <1>4, OutsideWakes
<1>5. ASSUME Active(b), Put(b, Deleted(b), After(Profiles, "idle")) PROVE WakeInv'
  BY SMTT(30), <1>4, <1>5 DEF Outside
<1>6. CASE Bind
  <2>1. work[Profiles].pc \notin Removal
    BY ZenonT(40), <1>6 DEF Bind, Removal
  <2>2. CASE Goto(Profiles, "idle")
    BY ZenonT(40), <2>1, <2>2, <1>1, GotoWakes
  <2>3. CASE obj[b] = None /\ Put(b, New, After(Profiles, "idle"))
    BY Zenon, <2>3, <1>3, <1>4 DEF Outside, IInv, Types
  <2> QED
    BY ZenonT(40), <2>2, <2>3, <1>5, <1>6 DEF Bind
<1>7. CASE ListOwned
  <2>1. CASE cache[b] = None
    BY ZenonT(40), <2>1, <1>1, <1>7, GotoWakes DEF ListOwned, Removal
  <2>2. CASE cache[b] # None /\ ~cache[b].del /\ Active(b)
    BY ZenonT(40), <2>2, <1>5, <1>7 DEF ListOwned
  <2>3. CASE cache[b] # None /\ ~(~cache[b].del /\ Active(b))
    <3>1. b \notin current \/ Marked(cache[b])
      BY Zenon, <2>3, <1>3 DEF Marked, Active, IInv, ObjectsInv
    <3>2. Pending(p)
      BY SMTT(30), <3>1, <1>2 DEF Pending, Waits
    <3>3. Goto(Profiles, "idle")
      BY ZenonT(40), <2>3, <1>7 DEF ListOwned
    <3> QED
      BY Zenon, <3>2, <3>3, <1>1, GotoWakes
  <2> QED
    BY SMTT(30), <2>1, <2>2, <2>3
<1> QED
  BY <1>6, <1>7

(* An informer catches up: the Profile of a binding is told too.              *)
LEMMA SyncWakes ==
    ASSUME IInv, WakeInv, NEW o \in Objects, Sync(o)
    PROVE  WakeInv'
<1>1. /\ cache' = [cache EXCEPT ![o] = obj[o]] /\ current' = current \cup {o}
      /\ queue' = queue \cup Mapped(o) /\ UNCHANGED <<obj, work>>
  BY DEF Sync
<1>2. ASSUME NEW x \in Refs, Pending(x) PROVE Pending(x)'
  <2> SUFFICES ASSUME NEW b, b = [owner |-> x] PROVE Pending(x)'
    BY ZenonT(40)
  <2>1. CASE x = o
    BY Zenon, <2>1, <1>1 DEF Pending, Mapped
  <2>2. CASE x \in Profiles /\ o = b
    BY Zenon, <2>2, <1>1, Owners DEF Pending, Mapped
  <2>3. CASE x # o /\ ~(x \in Profiles /\ o = b)
    <3>1. x \in Profiles => cache'[b] = cache[b] /\ (b \in current' <=> b \in current)
      BY ZenonT(40), <2>3, <1>1, Owners, Kinds DEF IInv, Types
    <3> QED
      BY Zenon, <3>1, <2>3, <1>1, <1>2 DEF Pending, Waits
  <2> QED
    BY <2>1, <2>2, <2>3
<1> QED
  BY Zenon, <1>1, <1>2 DEF WakeInv, Removes, Mine

(* A reconcile begins: a copy that is up to date shows that x is deleted.     *)
LEMMA FetchWakes ==
    ASSUME IInv, WakeInv, NEW c \in Controllers, NEW y \in c, Fetch(c, y)
    PROVE  WakeInv'
<1>1. /\ work[c].pc = "idle" /\ queue' = queue \ {y} /\ UNCHANGED <<obj, cache, current>>
      /\ \A d \in Controllers \ {c} : work'[d] = work[d]
  BY ZenonT(40) DEF Fetch, IInv, Types
<1>2. ASSUME NEW x \in Refs, Marked(obj[x]) PROVE Pending(x)' \/ Removes(x, work'[Mine(x)])
  <2>1. CASE x # y
    <3>1. Pending(x) => Pending(x)'
      BY Zenon, <2>1, <1>1 DEF Pending, Waits
    <3>2. CASE Removes(x, work[Mine(x)])
      <4>1. c # Mine(x)
        BY Zenon, <3>2, <1>1 DEF Removes, Removal
      <4> QED
        BY Zenon, <4>1, <3>2, <1>1, MineFacts
    <3> QED
      BY Zenon, <3>1, <3>2, <1>2 DEF WakeInv
  <2>2. CASE x = y /\ x \notin current
    BY <2>2, <1>1 DEF Pending
  <2>3. CASE x = y /\ x \in current
    <3>1. cache[x] # None /\ cache[x].del /\ c = Mine(x)
      BY SMTT(30), <2>3, <1>2, MineFacts DEF IInv, ObjectsInv, Marked
    <3>2. CASE x \in Profiles
      BY ZenonT(40), <3>1, <3>2, <2>3 DEF Fetch, Removes, Removal, IInv, Types
    <3>3. CASE x \in Bindings /\ x \notin Profiles
      BY ZenonT(40), <3>1, <3>3, <2>3 DEF Fetch, Removes, Removal, IInv, Types
    <3> QED
      BY Zenon, <3>2, <3>3 DEF Refs
  <2> QED
    BY Zenon, <2>1, <2>2, <2>3
<1> QED
  BY SMTT(30), <1>1, <1>2 DEF WakeInv, Removes, Mine

(* The reads.                                                                 *)
LEMMA ReadsWake ==
    ASSUME IInv, WakeInv, NEW c \in Controllers,
           \/ c = Bindings /\ GetOwner
           \/ GetRelease(c) \/ ListProfiles(c) \/ ListReferrers(c)
    PROVE  WakeInv'
<1>1. PICK pc \in Removal : Goto(c, pc)
  BY DEF GetOwner, GetRelease, ListProfiles, ListReferrers, Removal
<1> QED
  BY Zenon, <1>1, GotoWakes

(* Nothing is deleted initially.                                              *)
LEMMA InitWakes == Init => WakeInv
<1> SUFFICES ASSUME Init, NEW x \in Refs PROVE ~Marked(obj[x])
  BY DEF WakeInv
<1> DEFINE mine == [New EXCEPT !.fin = {"self"}]
<1>1. ~New.del /\ ~mine.del
  BY NewFacts, RecFacts
<1>2. obj[x] \in {New, mine, None}
  BY Kinds DEF Init
<1> HIDE DEF mine
<1> QED
  BY <1>1, <1>2 DEF Marked

(* No step loses a wake-up.                                                   *)
LEMMA NextWakes == IInv /\ WakeInv /\ [Next]_vars => WakeInv'
<1> SUFFICES ASSUME IInv, WakeInv, [Next]_vars PROVE WakeInv'
  OBVIOUS
<1>1. CASE \E o \in Objects : Create(o) \/ Delete(o) \/ Sync(o)
  BY <1>1, UsersWake, SyncWakes
<1>2. CASE \E b \in Generated : CollectGarbage(b)
  BY Zenon, <1>2, Kinds, UsersWake
<1>3. ASSUME NEW c \in Controllers, Step(c) PROVE WakeInv'
  BY Zenon, <1>3, FetchWakes, AddFinalizerWakes, ProtectWakes, ReadsWake,
     UnprotectWakes,
     RemoveFinalizerWakes, BindingWakes DEF Step
<1>4. ASSUME NEW c \in Controllers, CallFails(c) PROVE WakeInv'
  BY Zenon, <1>4, FailWakes DEF CallFails
<1>5. CASE (\E p \in Profiles : Toggle(p)) \/ UNCHANGED vars
  <2>1. UNCHANGED <<obj, cache, current, work>> /\ queue \subseteq queue'
    BY <1>5 DEF Toggle, vars
  <2>2. \A x \in Refs : Pending(x) => Pending(x)'
    BY Zenon, <2>1, PendingOn
  <2> QED
    BY Zenon, <2>1, <2>2 DEF WakeInv, Removes, Mine
<1>6. CASE Restart
  BY <1>6, MineFacts DEF Restart, WakeInv, Pending, Marked
<1> QED
  BY <1>1, <1>2, <1>3, <1>4, <1>5, <1>6 DEF Next

(* No wake-up is lost: a Profile or binding that is marked deleted has a      *)
(* request on its way or a worker that removes its finalizer, or it is a      *)
(* Profile whose binding has an event to come.                                *)
THEOREM WakeInvariance == Spec => []WakeInv
  BY InitWakes, NextWakes, Invariance, PTL DEF Spec

(* Deletion never gets stuck: although a Profile waits for its binding and    *)
(* the binding leaves release-ref to the Profile, nothing is marked deleted   *)
(* once nothing is left to do.                                                *)
THEOREM NothingIsStuck == Spec => []QuietNothingIsStuck
<1>1. IInv /\ WakeInv => QuietNothingIsStuck
  <2> SUFFICES ASSUME IInv, WakeInv, Quiet, NEW x \in Refs, Marked(obj[x]) PROVE FALSE
    BY DEF QuietNothingIsStuck, Active, Marked
  <2>1. ASSUME NEW y \in Refs, Marked(obj[y])
        PROVE  y \in Profiles /\ Marked(obj[[owner |-> y]]) /\ [owner |-> y] \in Bindings
    <3>1. Waits(y)
      BY Zenon, <2>1, MineFacts DEF WakeInv, Quiet, Pending, Removes, Removal
    <3>2. y \in Profiles /\ [owner |-> y] \in Bindings
      BY <3>1, Owners, Kinds DEF Waits
    <3> QED
      BY <3>1, <3>2, Kinds DEF Waits, Quiet, IInv, ObjectsInv
  <2> QED
    BY ZenonT(40), <2>1, Kinds
<1> QED
  BY <1>1, Invariance, WakeInvariance, PTL

=============================================================================
