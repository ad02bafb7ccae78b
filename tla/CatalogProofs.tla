--------------------------- MODULE CatalogProofs ---------------------------
(***************************************************************************)
(* Proofs about Catalog, for every set of ComponentVersions and Releases   *)
(* and every number of events, changes and faults.                         *)
(***************************************************************************)
EXTENDS Catalog, TLAPS

Removal == {"getParent", "listReferrers", "unprotect", "removeFinalizer"}

Workers ==
    [pc : {"idle", "addFinalizer", "protect", "status"} \cup Removal,
     ref : Referrers \cup {None}, seen : Recs \cup {None}, fresh : BOOLEAN, goal : Reasons]

Updates == {"updateComponent", "updateVersion"}

Writers ==
    [pc : {"idle", "createComponent", "createVersion", "deleteVersion", "listVersions",
           "deleteComponent"} \cup Updates,
     v : Versions \cup {None}, fresh : BOOLEAN]

Types ==
    /\ obj \in [Objects -> Recs \cup {None}]
    /\ cache \in [Objects -> Recs \cup {None}]
    /\ current \subseteq Objects /\ queue \subseteq Referrers
    /\ granted \in BOOLEAN
    /\ work \in [Controllers -> Workers]
    /\ writer \in Writers

(* What an object, or a copy of it, may be: marked deleted it has a finalizer. *)
Valid(o, rec) ==
    rec # None =>
      /\ rec.del => rec.fin # {}
      /\ o \in Releases => "ref" \notin rec.fin
      /\ o = Component => "self" \notin rec.fin

(* A copy that counts as current is what is stored; one of an active Release  *)
(* whose condition was once set shows it, and shows it active.                *)
ObjectsInv ==
    /\ \A o \in Objects : Valid(o, obj[o]) /\ Valid(o, cache[o])
    /\ \A o \in current : cache[o] = obj[o]

Shown(r) == cache[r] # None /\ ~cache[r].del

Named == \A r \in Releases : Active(r) /\ obj[r].cond # "Unknown" => Shown(r)

(* The API writer updates what it has read, if that is still what is stored.  *)
WriterOK(wr) ==
    /\ wr.pc = "idle" <=> wr.v = None
    /\ wr.pc \in Updates /\ wr.fresh => obj[Holds(wr)] # None

(* A worker; one whose copy is fresh has what is stored.                      *)
WorkerOK(c, w) ==
    /\ IF w.pc = "idle" THEN w.ref = None ELSE w.ref \in c /\ w.seen # None
    /\ w.pc = "idle" => ~w.fresh
    /\ w.fresh => w.ref \in current /\ w.seen = obj[w.ref]
    /\ w.pc \in {"addFinalizer", "protect", "status"} => ~w.seen.del

(* About to take the protection away, the worker has seen that no other      *)
(* Release has the ComponentVersion resolved.                                 *)
Last(w) ==
    w.pc = "unprotect" =>
      \A r \in Releases \ {w.ref} : Active(r) => obj[r].cond # "Resolved"

IInv ==
    /\ Types
    /\ ObjectsInv
    /\ Named
    /\ WriterOK(writer)
    /\ \A c \in Controllers : WorkerOK(c, work[c])
    /\ Last(work[Releases])

-----------------------------------------------------------------------------
(* Facts the steps share.                                                     *)

(* Kinds of objects are told apart, and None is none of them.                 *)
LEMMA Kinds ==
    /\ None \notin Recs /\ None \notin Objects
    /\ Component \notin Referrers /\ Component \in Objects /\ Referrers \subseteq Objects
    /\ Wanted \in Versions /\ Wanted \notin Releases /\ Wanted \in Objects /\ Wanted # Component
    /\ Versions \in Controllers /\ Releases \in Controllers /\ Versions # Releases
    /\ \A c \in Controllers : c \subseteq Referrers /\ c \subseteq Objects
    /\ \A c, d \in Controllers : c # d => c \cap d = {}
    /\ \A c \in Controllers : c # Releases => c = Versions
BY CatalogAssumption, NoneAssumption DEF Referrers, Objects, Controllers

(* A worker and a writer that nothing has begun with.                         *)
LEMMA IdleFacts ==
    /\ Idle \in Workers /\ Idle.pc = "idle" /\ Idle.ref = None /\ Idle.fresh = FALSE
    /\ Rest \in Writers /\ Rest.pc = "idle" /\ Rest.v = None
BY DEF Idle, Rest, Workers, Writers, Reasons, Removal, Updates

(* They satisfy the invariant, whatever the objects are.                      *)
LEMMA IdleInv == (\A c \in Controllers : WorkerOK(c, Idle)) /\ Last(Idle) /\ WriterOK(Rest)
BY IdleFacts DEF WorkerOK, WriterOK, Last, Updates, Removal

(* Records that one field of is changed, and new ones.                        *)
LEMMA RecFacts ==
    /\ New \in Recs /\ New.fin = {} /\ New.del = FALSE /\ New.cond = "Unknown"
    /\ \A rec \in Recs, fins \in SUBSET {"self", "ref"} :
         LET new == [rec EXCEPT !.fin = fins]
         IN  new \in Recs /\ new.fin = fins /\ new.del = rec.del /\ new.cond = rec.cond
    /\ \A rec \in Recs :
         LET new == [rec EXCEPT !.del = TRUE]
         IN  new \in Recs /\ new.fin = rec.fin /\ new.del = TRUE /\ new.cond = rec.cond
    /\ \A rec \in Recs, goal \in Reasons :
         LET new == [rec EXCEPT !.cond = goal]
         IN  new \in Recs /\ new.fin = rec.fin /\ new.del = rec.del /\ new.cond = goal
BY Zenon DEF Recs, New, Reasons

(* What the API server keeps of a record.                                     *)
LEMMA StoredFacts ==
    ASSUME NEW rec \in Recs
    PROVE  /\ Stored(rec) \in Recs \cup {None}
           /\ Stored(rec) = None <=> rec.del /\ rec.fin = {}
           /\ Stored(rec) # None => Stored(rec) = rec
BY Kinds DEF Stored

(* What a write of o does: only o is changed, the copy of a new version is    *)
(* stale.                                                                     *)
Written(o, rec) ==
    /\ obj' \in [Objects -> Recs \cup {None}] /\ obj'[o] = rec
    /\ \A p \in Objects : p # o => obj'[p] = obj[p]
    /\ current' \subseteq current /\ (o \in current' => rec = obj[o])
    /\ \A p \in current : p # o \/ rec = obj[o] => p \in current'
    /\ UNCHANGED <<cache, queue, granted>>

(* The workers are w, but for copies of o that are stale now.                 *)
Aged(o, rec, w) ==
    /\ work' \in [Controllers -> Workers]
    /\ \A c \in Controllers :
         /\ work'[c].pc = w[c].pc /\ work'[c].ref = w[c].ref
         /\ work'[c].seen = w[c].seen /\ work'[c].goal = w[c].goal
         /\ work'[c].fresh => w[c].fresh /\ (w[c].ref = o => rec = obj[o])

(* The API writer is wr, but for the same.                                    *)
WriterAged(o, rec, wr) ==
    /\ writer' \in Writers /\ writer'.pc = wr.pc /\ writer'.v = wr.v
    /\ writer'.fresh => wr.fresh /\ (o = Holds(wr) => rec = obj[o])

(* A write makes the copies of what it changes stale, and leaves the rest.    *)
LEMMA PutFacts ==
    ASSUME Types, NEW o \in Objects, NEW rec \in Recs \cup {None},
           NEW w \in [Controllers -> Workers], NEW wr \in Writers, Put(o, rec, w, wr)
    PROVE  Written(o, rec) /\ Aged(o, rec, w) /\ WriterAged(o, rec, wr)
<1>1. Written(o, rec)
  BY DEF Written, Put, Types
<1>2. Aged(o, rec, w)
  <2>1. \A c \in Controllers :
          work'[c] = [w[c] EXCEPT !.fresh = w[c].fresh /\ (w[c].ref = o => rec = obj[o])]
    BY DEF Put
  <2>2. work' = [c \in Controllers |-> work'[c]]
    BY DEF Put
  <2>3. ASSUME NEW c \in Controllers
        PROVE  /\ work'[c] \in Workers
               /\ work'[c].pc = w[c].pc /\ work'[c].ref = w[c].ref
               /\ work'[c].seen = w[c].seen /\ work'[c].goal = w[c].goal
               /\ work'[c].fresh => w[c].fresh /\ (w[c].ref = o => rec = obj[o])
    <3>1. w[c] \in Workers
      OBVIOUS
    <3> QED
      BY ZenonT(40), <2>1, <3>1 DEF Workers
  <2> QED
    BY <2>2, <2>3 DEF Aged
<1>3. WriterAged(o, rec, wr)
  <2>1. CASE o = Holds(wr) /\ rec # obj[o]
    <3>1. writer' = [wr EXCEPT !.fresh = FALSE]
      BY <2>1 DEF Put
    <3> QED
      BY Zenon, <3>1 DEF WriterAged, Writers
  <2>2. CASE ~(o = Holds(wr) /\ rec # obj[o])
    <3>1. writer' = wr
      BY <2>2 DEF Put
    <3> QED
      BY <2>2, <3>1 DEF WriterAged, Writers
  <2> QED
    BY <2>1, <2>2
<1> QED
  BY <1>1, <1>2, <1>3

-----------------------------------------------------------------------------
(* The steps the actions are made of keep the invariant.                      *)

(* A write that is not of a condition, or of a Release that the cache shows.  *)
Calm(o, rec, w) ==
    o \in Releases /\ rec # None /\ ~rec.del /\ rec.cond # "Unknown" =>
      \/ Active(o) /\ rec.cond = obj[o].cond
      \/ Shown(o) /\ w[Releases].pc # "unprotect"

(* A write of o after which the workers are w and the API writer is wr, but   *)
(* for what is stale now.                                                     *)
LEMMA PutKeeps ==
    ASSUME IInv, NEW o \in Objects, NEW rec \in Recs \cup {None}, Valid(o, rec),
           NEW w \in [Controllers -> Workers], NEW wr \in Writers, Put(o, rec, w, wr),
           Calm(o, rec, w), \A c \in Controllers : WorkerOK(c, w[c]), Last(w[Releases]), WriterOK(wr)
    PROVE  IInv'
<1>1. Written(o, rec) /\ Aged(o, rec, w) /\ WriterAged(o, rec, wr)
  BY PutFacts DEF IInv
<1>2. Types'
  BY <1>1 DEF IInv, Types, Written, Aged, WriterAged
<1>3. ObjectsInv'
  <2>1. \A p \in Objects : Valid(p, obj'[p])
    BY <1>1 DEF IInv, ObjectsInv, Written
  <2>2. \A p \in Objects : Valid(p, cache'[p])
    BY <1>1 DEF IInv, ObjectsInv, Written
  <2>3. \A p \in current' : cache'[p] = obj'[p]
    BY <1>1 DEF IInv, Types, ObjectsInv, Written
  <2> QED
    BY <2>1, <2>2, <2>3 DEF ObjectsInv, Valid
<1>4. ASSUME NEW r \in Releases, Active(r)', obj'[r].cond # "Unknown"
      PROVE  \/ Active(r) /\ obj'[r].cond = obj[r].cond
             \/ Shown(r) /\ w[Releases].pc # "unprotect"
  BY <1>1, <1>4, Kinds DEF Active, Calm, Written
<1>5. Named'
  BY <1>1, <1>4 DEF IInv, Named, Shown, Written
<1>6. WriterOK(writer)'
  <2>1. CASE writer'.pc \in Updates /\ writer'.fresh
    <3>1. Holds(wr) \in Objects /\ Holds(writer)' = Holds(wr) /\ obj[Holds(wr)] # None
      BY <1>1, <2>1, Kinds DEF WriterAged, WriterOK, Writers, Holds, Updates, Referrers
    <3> QED
      BY <1>1, <2>1, <3>1 DEF WriterAged, WriterOK, Written
  <2>2. CASE ~(writer'.pc \in Updates /\ writer'.fresh)
    BY <1>1, <2>2 DEF WriterAged, WriterOK
  <2> QED
    BY <2>1, <2>2
<1>7. ASSUME NEW c \in Controllers PROVE WorkerOK(c, work[c])'
  <2>1. WorkerOK(c, w[c])
    OBVIOUS
  <2>2. work'[c].fresh => work'[c].ref \in current' /\ work'[c].seen = obj'[work'[c].ref]
    BY <1>1, <2>1 DEF Aged, WorkerOK, Written, IInv, Types
  <2>3. work'[c].pc = "idle" => ~work'[c].fresh
    BY Zenon, <1>1, <2>1 DEF Aged, WorkerOK
  <2> QED
    BY <1>1, <2>1, <2>2, <2>3 DEF Aged, WorkerOK
<1>8. Last(work[Releases])'
  BY <1>1, <1>4, Kinds DEF Last, Aged
<1> QED
  BY <1>2, <1>3, <1>5, <1>6, <1>7, <1>8 DEF IInv

(* No object and no copy changes.                                             *)
LEMMA StillKeeps ==
    ASSUME IInv, UNCHANGED <<obj, cache, current, writer>>, queue' \subseteq Referrers,
           granted' \in BOOLEAN, work' \in [Controllers -> Workers],
           \A c \in Controllers : WorkerOK(c, work'[c]), Last(work'[Releases])
    PROVE  IInv'
<1>1. Types'
  BY DEF IInv, Types
<1>2. ObjectsInv' /\ Named' /\ WriterOK(writer)'
  BY DEF IInv, ObjectsInv, Named, WriterOK, Valid, Shown, Active, Holds
<1>3. \A c \in Controllers : WorkerOK(c, work[c])'
  BY DEF WorkerOK
<1>4. Last(work[Releases])'
  BY DEF Last, Active
<1> QED
  BY <1>1, <1>2, <1>3, <1>4 DEF IInv

(* One worker moves.                                                          *)
LEMMA OneWorker ==
    ASSUME IInv, NEW c \in Controllers, NEW v \in Workers, WorkerOK(c, v),
           c = Releases => Last(v)
    PROVE  LET w == [work EXCEPT ![c] = v]
           IN  /\ w \in [Controllers -> Workers] /\ w[c] = v
               /\ \A d \in Controllers : WorkerOK(d, w[d])
               /\ \A d \in Controllers : d # c => w[d] = work[d]
               /\ Last(w[Releases])
<1> DEFINE w == [work EXCEPT ![c] = v]
<1>1. w \in [Controllers -> Workers] /\ w[c] = v /\ \A d \in Controllers : d # c => w[d] = work[d]
  BY DEF IInv, Types
<1> HIDE DEF w
<1>2. \A d \in Controllers : WorkerOK(d, w[d])
  BY <1>1 DEF IInv
<1>3. Last(w[Releases])
  BY <1>1, Kinds DEF IInv
<1> QED
  BY <1>1, <1>2, <1>3 DEF w

(* A reconcile that fails, or a call that does.                               *)
LEMMA FailKeeps ==
    ASSUME IInv, NEW c \in Controllers, work[c].pc # "idle", Fail(c)
    PROVE  IInv'
<1>1. work[c].ref \in Referrers
  BY Kinds DEF IInv, WorkerOK
<1>2. WorkerOK(c, Idle) /\ Last(Idle) /\ Idle \in Workers
  BY IdleFacts, IdleInv
<1> DEFINE w == [work EXCEPT ![c] = Idle]
<1>3. w \in [Controllers -> Workers] /\ Last(w[Releases]) /\ \A d \in Controllers : WorkerOK(d, w[d])
  BY <1>2, OneWorker
<1>4. work' = w /\ UNCHANGED <<obj, cache, current, writer, granted>> /\ queue' \subseteq Referrers
  BY <1>1 DEF Fail, IInv, Types
<1> HIDE DEF w
<1> QED
  BY <1>3, <1>4, StillKeeps DEF IInv, Types

(* A read, or a call that changes nothing.                                    *)
LEMMA GotoKeeps ==
    ASSUME IInv, NEW w \in [Controllers -> Workers], Goto(w),
           \A c \in Controllers : WorkerOK(c, w[c]), Last(w[Releases])
    PROVE  IInv'
BY StillKeeps DEF Goto, IInv, Types

(* A call of the API writer that writes nothing.                              *)
LEMMA CallKeeps ==
    ASSUME IInv, NEW wr \in Writers, WriterOK(wr), Call(wr)
    PROVE  IInv'
<1>1. UNCHANGED <<obj, cache, current, queue, work, granted>> /\ writer' = wr
  BY DEF Call
<1>2. Types'
  BY <1>1 DEF IInv, Types
<1>3. ObjectsInv' /\ Named' /\ WriterOK(writer)'
  BY <1>1 DEF IInv, ObjectsInv, Named, WriterOK, Valid, Shown, Active, Holds
<1>4. (\A c \in Controllers : WorkerOK(c, work[c])') /\ Last(work[Releases])'
  BY <1>1 DEF IInv, WorkerOK, Last, Active
<1> QED
  BY <1>2, <1>3, <1>4 DEF IInv

(* The patch of the finalizers of o.                                          *)
LEMMA MergeKeeps ==
    ASSUME IInv, NEW c \in Controllers, work[c].pc # "idle", NEW o \in Objects, NEW fins,
           NEW w \in [Controllers -> Workers], MergeFrom(c, o, fins, w),
           \A d \in Controllers : WorkerOK(d, w[d]), Last(w[Releases]),
           cache[o] # None =>
             /\ fins \subseteq {"self", "ref"}
             /\ o \in Releases => "ref" \notin fins
             /\ o = Component => "self" \notin fins
    PROVE  IInv'
<1>1. CASE Fail(c)
  BY <1>1, FailKeeps
<1>2. CASE Goto(w)
  BY <1>2, GotoKeeps
<1>3. CASE cache[o] # None /\ obj[o] # None /\ Put(o, Stored([obj[o] EXCEPT !.fin = fins]), w, writer)
  <2> DEFINE new == [obj[o] EXCEPT !.fin = fins]
  <2>1. obj[o] \in Recs /\ fins \in SUBSET {"self", "ref"}
    BY <1>3 DEF IInv, Types
  <2>2. new \in Recs /\ new.fin = fins /\ new.del = obj[o].del /\ new.cond = obj[o].cond
    BY <2>1, RecFacts
  <2> HIDE DEF new
  <2>3. Stored(new) \in Recs \cup {None} /\ Valid(o, Stored(new)) /\ Calm(o, Stored(new), w)
    BY <1>3, <2>2, StoredFacts DEF Valid, Calm, Active
  <2>4. Put(o, Stored(new), w, writer) /\ writer \in Writers /\ WriterOK(writer)
    BY <1>3 DEF new, IInv, Types
  <2> QED
    BY <2>3, <2>4, PutKeeps
<1> QED
  BY <1>1, <1>2, <1>3 DEF MergeFrom

-----------------------------------------------------------------------------
(* The workers.                                                               *)

(* The worker goes on, or ends.                                               *)
LEMMA AfterFacts ==
    ASSUME IInv, NEW c \in Controllers, work[c].pc # "idle",
           NEW pc \in {"idle", "protect"} \cup Removal,
           pc = "protect" => ~work[c].seen.del,
           pc = "unprotect" /\ c = Releases =>
             \A r \in Releases \ {work[c].ref} : Active(r) => obj[r].cond # "Resolved"
    PROVE  LET w == After(c, pc)
           IN  /\ w \in [Controllers -> Workers] /\ w[c].pc = pc
               /\ pc # "idle" => w[c].ref = work[c].ref /\ w[c].seen = work[c].seen
               /\ pc = "idle" => w[c] = Idle
               /\ \A d \in Controllers : WorkerOK(d, w[d])
               /\ \A d \in Controllers : d # c => w[d] = work[d]
               /\ Last(w[Releases])
<1> DEFINE v == IF pc = "idle" THEN Idle ELSE [work[c] EXCEPT !.pc = pc]
<1>1. work[c] \in Workers /\ WorkerOK(c, work[c]) /\ After(c, pc) = [work EXCEPT ![c] = v]
  BY DEF IInv, Types, After
<1>2. CASE pc = "idle"
  BY <1>1, <1>2, IdleFacts, IdleInv, OneWorker
<1>3. CASE pc # "idle"
  <2>1. /\ v \in Workers /\ v.pc = pc /\ v.ref = work[c].ref /\ v.seen = work[c].seen
        /\ v.fresh = work[c].fresh
    BY <1>1, <1>3 DEF Workers
  <2> HIDE DEF v
  <2>2. WorkerOK(c, v)
    BY <1>1, <1>3, <2>1 DEF WorkerOK, Removal
  <2>3. c = Releases => Last(v)
    BY <2>1 DEF Last
  <2> QED
    BY <1>1, <1>3, <2>1, <2>2, <2>3, OneWorker
<1> QED
  BY <1>2, <1>3

(* Who works on what, and the parent of it.                                   *)
LEMMA WorkFacts ==
    ASSUME IInv, NEW c \in Controllers, work[c].pc # "idle"
    PROVE  LET x == work[c].ref
           IN  /\ x \in c /\ x \in Objects /\ x \in Referrers /\ x # Component
               /\ Parent(x) \in Objects /\ Parent(x) \notin Releases /\ Parent(x) # x
               /\ Parent(x) = IF c = Releases THEN Wanted ELSE Component
               /\ work[c].seen # None /\ work[c].seen \in Recs
<1>1. work[c].ref \in c /\ work[c].seen # None /\ work[c].seen \in Recs \cup {None}
  BY DEF IInv, WorkerOK, Types, Workers
<1> QED
  BY <1>1, Kinds, CatalogAssumption DEF Parent, Referrers

(* A reconcile begins.                                                        *)
LEMMA FetchKeeps ==
    ASSUME IInv, NEW c \in Controllers, NEW x \in c, Fetch(c, x)
    PROVE  IInv'
<1>1. UNCHANGED <<obj, cache, current, granted, writer>> /\ queue' \subseteq Referrers
  BY DEF Fetch, IInv, Types
<1>2. x \in Objects /\ x \in Referrers /\ x # None
  BY Kinds
<1>3. CASE cache[x] = None
  <2>1. work' = work
    BY <1>3 DEF Fetch
  <2> QED
    BY <1>1, <2>1, StillKeeps DEF IInv, Types
<1>4. CASE cache[x] # None
  <2> DEFINE pc == IF cache[x].del THEN "getParent"
                   ELSE IF "self" \in cache[x].fin THEN "protect" ELSE "addFinalizer"
  <2> DEFINE isCurrent == x \in current
  <2> DEFINE v == [Idle EXCEPT !.pc = pc, !.ref = x, !.seen = cache[x], !.fresh = isCurrent]
  <2>1. work' = [work EXCEPT ![c] = v]
    BY <1>4 DEF Fetch
  <2>2. pc \in {"getParent", "protect", "addFinalizer"} /\ (pc # "getParent" => ~cache[x].del)
    OBVIOUS
  <2>3. cache[x] \in Recs /\ (x \in current => cache[x] = obj[x])
    BY <1>2, <1>4 DEF IInv, Types, ObjectsInv
  <2> HIDE DEF pc
  <2>4. isCurrent \in BOOLEAN /\ (isCurrent <=> x \in current)
    OBVIOUS
  <2> HIDE DEF isCurrent
  <2>5. v.pc = pc /\ v.ref = x /\ v.seen = cache[x] /\ v.fresh = isCurrent
    BY DEF Idle
  <2>6. v \in Workers
    BY ZenonT(40), <1>2, <2>2, <2>3, <2>4, IdleFacts DEF Workers, Removal
  <2> HIDE DEF v
  <2>7. WorkerOK(c, v) /\ Last(v)
    BY <1>4, <2>2, <2>3, <2>4, <2>5 DEF WorkerOK, Last
  <2>8. /\ work' \in [Controllers -> Workers] /\ Last(work'[Releases])
        /\ \A d \in Controllers : WorkerOK(d, work'[d])
    BY <2>1, <2>6, <2>7, OneWorker
  <2> QED
    BY <1>1, <2>8, StillKeeps DEF IInv, Types
<1> QED
  BY <1>3, <1>4

(* The own finalizer is put on the object.                                    *)
LEMMA AddFinalizerKeeps ==
    ASSUME IInv, NEW c \in Controllers, AddFinalizer(c)
    PROVE  IInv'
<1> DEFINE x == work[c].ref
<1> DEFINE w == After(c, "protect")
<1>1. work[c].pc = "addFinalizer" /\ work[c].pc # "idle" /\ ~work[c].seen.del
  BY DEF AddFinalizer, IInv, WorkerOK
<1>2. /\ w \in [Controllers -> Workers] /\ Last(w[Releases])
      /\ \A d \in Controllers : WorkerOK(d, w[d])
  BY <1>1, AfterFacts
<1>3. x \in Objects /\ x # Component
  BY <1>1, WorkFacts
<1>4. cache[x] # None => cache[x].fin \subseteq {"self", "ref"}
                         /\ (x \in Releases => "ref" \notin cache[x].fin)
  BY <1>3 DEF IInv, Types, ObjectsInv, Valid, Recs
<1>5. Goto(w) \/ MergeFrom(c, x, cache[x].fin \cup {"self"}, w)
  BY DEF AddFinalizer
<1> HIDE DEF x, w
<1>6. CASE Goto(w)
  BY <1>2, <1>6, GotoKeeps
<1>7. CASE MergeFrom(c, x, cache[x].fin \cup {"self"}, w)
  <2> DEFINE fins == cache[x].fin \cup {"self"}
  <2>1. cache[x] # None => /\ fins \subseteq {"self", "ref"}
                           /\ x \in Releases => "ref" \notin fins
                           /\ x = Component => "self" \notin fins
    BY <1>3, <1>4
  <2>2. MergeFrom(c, x, fins, w)
    BY <1>7
  <2> HIDE DEF fins
  <2> QED
    BY <1>1, <1>2, <1>3, <2>1, <2>2, MergeKeeps
<1> QED
  BY Zenon, <1>5, <1>6, <1>7

(* The worker of the Releases goes on to the condition.                       *)
LEMMA StatusFacts ==
    ASSUME IInv, NEW c \in Controllers, work[c].pc = "protect", NEW goal \in Reasons,
           NEW w, w = [work EXCEPT ![c].pc = "status", ![c].goal = goal]
    PROVE  /\ w \in [Controllers -> Workers]
           /\ w[c].pc = "status" /\ w[c].ref = work[c].ref /\ w[c].seen = work[c].seen
           /\ w[c].goal = goal
           /\ \A d \in Controllers : WorkerOK(d, w[d])
           /\ \A d \in Controllers : d # c => w[d] = work[d]
           /\ Last(w[Releases])
<1> DEFINE v == [work[c] EXCEPT !.pc = "status", !.goal = goal]
<1>1. work[c] \in Workers /\ WorkerOK(c, work[c])
  BY DEF IInv, Types
<1>2. w = [work EXCEPT ![c] = v]
  BY Zenon DEF IInv, Types, Workers
<1>3. /\ v \in Workers /\ v.pc = "status" /\ v.ref = work[c].ref /\ v.seen = work[c].seen
      /\ v.fresh = work[c].fresh /\ v.goal = goal
  BY Zenon, <1>1 DEF Workers
<1> HIDE DEF v
<1>4. WorkerOK(c, v) /\ Last(v)
  BY <1>1, <1>3 DEF WorkerOK, Last, Removal
<1>5. LET u == [work EXCEPT ![c] = v]
      IN  /\ u \in [Controllers -> Workers] /\ u[c] = v /\ Last(u[Releases])
          /\ \A d \in Controllers : WorkerOK(d, u[d]) /\ (d # c => u[d] = work[d])
  BY <1>3, <1>4, OneWorker
<1> QED
  BY Zenon, <1>2, <1>3, <1>5

(* The gate, and the protection of what is referred to.                       *)
LEMMA ProtectKeeps ==
    ASSUME IInv, NEW c \in Controllers, Protect(c)
    PROVE  IInv'
<1> DEFINE x == work[c].ref
<1> DEFINE o == Parent(x)
<1> DEFINE goal == Gate(x, granted, cache[o])
<1> DEFINE w == IF x \in Versions THEN After(c, "idle")
                ELSE [work EXCEPT ![c].pc = "status", ![c].goal = goal]
<1> DEFINE fins == cache[o].fin \cup {"ref"}
<1>1. work[c].pc = "protect" /\ work[c].pc # "idle"
  BY DEF Protect
<1>2. o \in Objects /\ o \notin Releases
  BY <1>1, WorkFacts
<1>3. Goto(w) \/ MergeFrom(c, o, fins, w)
  BY DEF Protect
<1>4. goal \in Reasons
  BY DEF Gate, Reasons
<1>5. cache[o] # None => /\ fins \subseteq {"self", "ref"}
                         /\ o \in Releases => "ref" \notin fins
                         /\ o = Component => "self" \notin fins
  BY <1>2 DEF IInv, Types, ObjectsInv, Valid, Recs
<1> HIDE DEF x, o, goal, fins
<1>6. /\ w \in [Controllers -> Workers] /\ Last(w[Releases])
      /\ \A d \in Controllers : WorkerOK(d, w[d])
  <2>1. CASE x \in Versions
    BY <1>1, <2>1, AfterFacts
  <2>2. CASE x \notin Versions
    <3>1. w = [work EXCEPT ![c].pc = "status", ![c].goal = goal]
      BY <2>2
    <3> HIDE DEF w
    <3> QED
      BY ZenonT(40), <1>1, <1>4, <3>1, StatusFacts
  <2> QED
    BY Zenon, <2>1, <2>2
<1> HIDE DEF w
<1>7. CASE Goto(w)
  BY <1>6, <1>7, GotoKeeps
<1>8. CASE MergeFrom(c, o, fins, w)
  BY <1>1, <1>2, <1>5, <1>6, <1>8, MergeKeeps
<1> QED
  BY <1>3, <1>7, <1>8

(* A removal looks for what is referred to.                                   *)
LEMMA GetParentKeeps ==
    ASSUME IInv, NEW c \in Controllers, GetParent(c)
    PROVE  IInv'
<1>1. PICK pc \in {"listReferrers", "removeFinalizer"} : Goto(After(c, pc))
  BY DEF GetParent
<1>2. work[c].pc # "idle"
  BY DEF GetParent
<1>3. LET w == After(c, pc)
      IN  /\ w \in [Controllers -> Workers] /\ Last(w[Releases])
          /\ \A d \in Controllers : WorkerOK(d, w[d])
  BY <1>2, AfterFacts DEF Removal
<1> QED
  BY <1>1, <1>3, GotoKeeps

(* A Release that has the ComponentVersion resolved is in the list.           *)
LEMMA ListReferrersKeeps ==
    ASSUME IInv, NEW c \in Controllers, ListReferrers(c)
    PROVE  IInv'
<1> DEFINE x == work[c].ref
<1> DEFINE others == {y \in c \ {x} : cache[y] # None /\ ~cache[y].del}
<1> DEFINE pc == IF others = {} THEN "unprotect" ELSE "removeFinalizer"
<1>1. work[c].pc # "idle" /\ Goto(After(c, pc))
  BY DEF ListReferrers
<1>2. pc = "unprotect" /\ c = Releases =>
        \A r \in Releases \ {x} : Active(r) => obj[r].cond # "Resolved"
  BY DEF IInv, Named, Shown
<1>3. pc \in Removal /\ pc # "protect"
  BY DEF Removal
<1> HIDE DEF pc
<1>4. LET w == After(c, pc)
      IN  /\ w \in [Controllers -> Workers] /\ Last(w[Releases])
          /\ \A d \in Controllers : WorkerOK(d, w[d])
  BY Zenon, <1>1, <1>2, <1>3, AfterFacts
<1> QED
  BY <1>1, <1>4, GotoKeeps

(* The protection is taken away.                                              *)
LEMMA UnprotectKeeps ==
    ASSUME IInv, NEW c \in Controllers, Unprotect(c)
    PROVE  IInv'
<1> DEFINE o == Parent(work[c].ref)
<1> DEFINE w == After(c, "removeFinalizer")
<1> DEFINE fins == cache[o].fin \ {"ref"}
<1>1. work[c].pc # "idle" /\ (Goto(w) \/ MergeFrom(c, o, fins, w))
  BY DEF Unprotect
<1>2. o \in Objects /\ o \notin Releases
  BY <1>1, WorkFacts
<1>3. /\ w \in [Controllers -> Workers] /\ Last(w[Releases])
      /\ \A d \in Controllers : WorkerOK(d, w[d])
  BY <1>1, AfterFacts DEF Removal
<1>4. cache[o] # None => /\ fins \subseteq {"self", "ref"}
                         /\ o \in Releases => "ref" \notin fins
                         /\ o = Component => "self" \notin fins
  BY <1>2 DEF IInv, Types, ObjectsInv, Valid, Recs
<1> HIDE DEF o, fins, w
<1> QED
  BY <1>1, <1>2, <1>3, <1>4, GotoKeeps, MergeKeeps

(* The own finalizer is taken off.                                            *)
LEMMA RemoveFinalizerKeeps ==
    ASSUME IInv, NEW c \in Controllers, RemoveFinalizer(c)
    PROVE  IInv'
<1> DEFINE o == work[c].ref
<1> DEFINE w == After(c, "idle")
<1> DEFINE fins == cache[o].fin \ {"self"}
<1>1. work[c].pc # "idle" /\ (Goto(w) \/ MergeFrom(c, o, fins, w))
  BY DEF RemoveFinalizer
<1>2. o \in Objects
  BY Zenon, <1>1, WorkFacts
<1>3. /\ w \in [Controllers -> Workers] /\ Last(w[Releases])
      /\ \A d \in Controllers : WorkerOK(d, w[d])
  BY <1>1, AfterFacts
<1>4. cache[o] # None => /\ fins \subseteq {"self", "ref"}
                         /\ o \in Releases => "ref" \notin fins
                         /\ o = Component => "self" \notin fins
  BY <1>2 DEF IInv, Types, ObjectsInv, Valid, Recs
<1> HIDE DEF o, fins, w
<1> QED
  BY <1>1, <1>2, <1>3, <1>4, GotoKeeps, MergeKeeps

(* A condition is only written of a Release that the cache shows.             *)
LEMMA UpdateStatusKeeps ==
    ASSUME IInv, UpdateStatus
    PROVE  IInv'
<1> DEFINE c == Releases
<1> DEFINE u == work[c]
<1> DEFINE w == After(c, "idle")
<1>1. c \in Controllers /\ u.pc = "status" /\ u.pc # "idle" /\ WorkerOK(c, u) /\ u \in Workers
  BY Zenon, Kinds DEF UpdateStatus, IInv, Types
<1>2. /\ w \in [Controllers -> Workers] /\ Last(w[Releases]) /\ w[Releases] = Idle
      /\ \A d \in Controllers : WorkerOK(d, w[d])
  BY <1>1, AfterFacts
<1>3. CASE Goto(w)
  BY <1>2, <1>3, GotoKeeps
<1>4. CASE Fail(c)
  BY Zenon, <1>1, <1>4, FailKeeps
<1>5. CASE u.fresh /\ Put(u.ref, [obj[u.ref] EXCEPT !.cond = u.goal], w, writer)
  <2> DEFINE o == u.ref
  <2> DEFINE rec == [obj[o] EXCEPT !.cond = u.goal]
  <2>1. o \in Releases /\ o \in Objects /\ o \in current /\ u.seen = obj[o] /\ u.seen # None
    BY <1>1, <1>5, Kinds DEF WorkerOK
  <2>2. obj[o] \in Recs /\ ~obj[o].del /\ u.goal \in Reasons
    BY <1>1, <2>1 DEF WorkerOK, IInv, Types, Workers
  <2>3. rec \in Recs /\ rec.fin = obj[o].fin /\ rec.del = obj[o].del
    BY <2>2, RecFacts
  <2>4. cache[o] = obj[o] /\ Valid(o, rec)
    BY <2>1, <2>2, <2>3 DEF IInv, ObjectsInv, Valid
  <2>5. writer \in Writers /\ WriterOK(writer) /\ Types
    BY DEF IInv, Types
  <2>6. Put(o, rec, w, writer)
    BY <1>5
  <2> HIDE DEF o, rec, w, u
  <2>7. Calm(o, rec, w)
    BY <1>2, <2>1, <2>2, <2>4, IdleFacts DEF Calm, Shown
  <2> QED
    BY <1>2, <2>1, <2>3, <2>4, <2>5, <2>6, <2>7, PutKeeps
<1> QED
  BY <1>3, <1>4, <1>5 DEF UpdateStatus

-----------------------------------------------------------------------------
(* The API writer, users, informers and restarts.                             *)

(* The writer goes on to a step that is not an update, or ends.               *)
LEMMA AtFacts ==
    ASSUME IInv, writer.pc # "idle",
           NEW pc \in {"idle", "createVersion", "listVersions", "deleteComponent"}
    PROVE  At(pc) \in Writers /\ WriterOK(At(pc))
<1>1. CASE pc = "idle"
  BY <1>1, IdleFacts, IdleInv DEF At
<1>2. CASE pc # "idle"
  <2>1. writer \in Writers /\ writer.v # None
    BY DEF IInv, Types, WriterOK
  <2> DEFINE wr == [writer EXCEPT !.pc = pc]
  <2>2. At(pc) = wr /\ wr \in Writers /\ wr.pc = pc /\ wr.v = writer.v
    BY <1>2, <2>1 DEF At, Writers
  <2> HIDE DEF wr
  <2> QED
    BY <1>2, <2>1, <2>2 DEF WriterOK, Updates
<1> QED
  BY <1>1, <1>2

(* What the users and the API writer write.                                   *)
LEMMA NewOK ==
    ASSUME NEW o \in Objects
    PROVE  Valid(o, New) /\ New \in Recs \cup {None} /\ Calm(o, New, work)
BY RecFacts DEF Valid, Calm

(* A deletion marks the object, or removes it.                                *)
LEMMA DeletedOK ==
    ASSUME IInv, NEW o \in Objects, obj[o] # None
    PROVE  /\ Valid(o, Deleted(o)) /\ Deleted(o) \in Recs \cup {None}
           /\ Calm(o, Deleted(o), work)
<1> DEFINE new == [obj[o] EXCEPT !.del = TRUE]
<1>1. obj[o] \in Recs /\ Valid(o, obj[o])
  BY DEF IInv, Types, ObjectsInv
<1>2. new \in Recs /\ new.fin = obj[o].fin /\ new.del = TRUE
  BY <1>1, RecFacts
<1>3. Deleted(o) = Stored(new)
  BY DEF Deleted
<1> HIDE DEF new
<1> QED
  BY <1>1, <1>2, <1>3, StoredFacts DEF Valid, Calm

(* A write of a user or the API writer leaves the workers as they are.        *)
LEMMA OutsideKeeps ==
    ASSUME IInv, NEW o \in Objects, NEW rec \in Recs \cup {None}, Valid(o, rec),
           Calm(o, rec, work), NEW wr \in Writers, WriterOK(wr), Put(o, rec, work, wr)
    PROVE  IInv'
<1>1. /\ work \in [Controllers -> Workers] /\ Last(work[Releases])
      /\ \A c \in Controllers : WorkerOK(c, work[c])
  BY DEF IInv, Types
<1> QED
  BY <1>1, PutKeeps

(* Users make Releases and delete.                                            *)
LEMMA UserKeeps ==
    ASSUME IInv, NEW o \in Objects, Create(o) \/ Delete(o)
    PROVE  IInv'
<1>1. writer \in Writers /\ WriterOK(writer)
  BY DEF IInv, Types
<1>2. CASE Create(o)
  BY <1>1, <1>2, NewOK, OutsideKeeps DEF Create
<1>3. CASE Delete(o)
  BY <1>1, <1>3, DeletedOK, OutsideKeeps DEF Delete, Active
<1> QED
  BY <1>2, <1>3

(* The API writer creates, or reads what there is.                            *)
LEMMA CreateOrKeeps ==
    ASSUME IInv, writer.pc # "idle", NEW o \in Objects, NEW update \in Updates,
           NEW next \in {"idle", "createVersion"}, CreateOr(o, update, next),
           o = IF update = "updateComponent" THEN Component ELSE writer.v
    PROVE  IInv'
<1>1. CASE obj[o] = None
  BY <1>1, NewOK, AtFacts, OutsideKeeps DEF CreateOr
<1>2. CASE obj[o] # None
  <2> DEFINE wr == [writer EXCEPT !.pc = update, !.fresh = TRUE]
  <2>1. writer \in Writers /\ writer.v # None /\ Call(wr)
    BY <1>2 DEF IInv, Types, WriterOK, CreateOr
  <2>2. wr \in Writers /\ wr.pc = update /\ wr.v = writer.v
    BY Zenon, <2>1 DEF Writers
  <2> HIDE DEF wr
  <2>3. WriterOK(wr)
    BY <1>2, <2>1, <2>2 DEF WriterOK, Holds, Updates
  <2> QED
    BY <2>1, <2>2, <2>3, CallKeeps
<1> QED
  BY <1>1, <1>2

(* The API writer updates what it has read.                                   *)
LEMMA UpdateWithKeeps ==
    ASSUME IInv, writer.pc \in Updates, NEW o \in Objects, o = Holds(writer), o \notin Releases,
           NEW next \in {"idle", "createVersion"}, UpdateWith(o, next)
    PROVE  IInv'
<1>1. CASE ~writer.fresh
  BY <1>1, IdleFacts, IdleInv, CallKeeps DEF UpdateWith
<1>2. CASE writer.fresh
  <2> DEFINE new == [obj[o] EXCEPT !.fin = {}]
  <2>1. obj[o] \in Recs
    BY <1>2 DEF IInv, Types, WriterOK
  <2>2. new \in Recs /\ new.fin = {}
    BY <2>1, RecFacts
  <2>3. Put(o, Stored(new), work, At(next))
    BY <1>2 DEF UpdateWith
  <2> HIDE DEF new
  <2>4. Stored(new) \in Recs \cup {None} /\ Valid(o, Stored(new)) /\ Calm(o, Stored(new), work)
    BY <2>2, StoredFacts DEF Valid, Calm
  <2>5. writer.pc # "idle"
    BY DEF Updates
  <2> QED
    BY <2>3, <2>4, <2>5, AtFacts, OutsideKeeps
<1> QED
  BY <1>1, <1>2

(* Every step of the API writer.                                              *)
LEMMA WriterKeeps ==
    ASSUME IInv, Writer
    PROVE  IInv'
<1>1. writer \in Writers /\ WriterOK(writer) /\ Component \in Objects /\ Component \notin Releases
  BY Kinds DEF IInv, Types, Referrers
<1>2. writer.pc # "idle" => writer.v \in Objects /\ writer.v \notin Releases
  BY <1>1, CatalogAssumption DEF WriterOK, Writers, Objects, Referrers
<1>3. ASSUME NEW v \in Versions, NEW pc \in {"createComponent", "deleteVersion"}, Receive(v, pc)
      PROVE  IInv'
  <2> DEFINE wr == [pc |-> pc, v |-> v, fresh |-> FALSE]
  <2>1. wr \in Writers /\ WriterOK(wr)
    BY Kinds DEF Writers, WriterOK, Updates, Objects, Referrers
  <2> QED
    BY <1>3, <2>1, CallKeeps DEF Receive
<1>4. CASE WCreateComponent
  BY <1>1, <1>4, CreateOrKeeps DEF WCreateComponent, Updates
<1>5. CASE WUpdateComponent
  BY <1>1, <1>5, UpdateWithKeeps DEF WUpdateComponent, Updates, Holds
<1>6. CASE WCreateVersion
  BY <1>1, <1>2, <1>6, CreateOrKeeps DEF WCreateVersion, Updates
<1>7. CASE WUpdateVersion
  BY <1>1, <1>2, <1>7, UpdateWithKeeps DEF WUpdateVersion, Updates, Holds
<1>8. CASE WDeleteVersion
  <2>1. CASE obj[writer.v] = None
    BY Zenon, <1>8, <2>1, IdleFacts, IdleInv, CallKeeps DEF WDeleteVersion
  <2>2. CASE obj[writer.v] # None
    BY <1>2, <1>8, <2>2, DeletedOK, AtFacts, OutsideKeeps DEF WDeleteVersion
  <2> QED
    BY Zenon, <2>1, <2>2
<1>9. CASE WListVersions
  <2>1. PICK pc \in {"idle", "deleteComponent"} : Call(At(pc))
    BY <1>9 DEF WListVersions
  <2>2. writer.pc # "idle"
    BY <1>9 DEF WListVersions
  <2> QED
    BY <2>1, <2>2, AtFacts, CallKeeps
<1>10. CASE WDeleteComponent
  <2>1. CASE Active(Component)
    BY Zenon, <1>1, <1>10, <2>1, DeletedOK, IdleFacts, IdleInv,
       OutsideKeeps DEF WDeleteComponent, Active
  <2>2. CASE ~Active(Component)
    BY <1>10, <2>2, IdleFacts, IdleInv, CallKeeps DEF WDeleteComponent
  <2> QED
    BY Zenon, <2>1, <2>2
<1>11. CASE WFails
  BY <1>11, IdleFacts, IdleInv, CallKeeps DEF WFails
<1> QED
  BY <1>3, <1>4, <1>5, <1>6, <1>7, <1>8, <1>9, <1>10, <1>11 DEF Writer

(* The informer catches up with one object.                                   *)
LEMMA SyncKeeps ==
    ASSUME IInv, NEW o \in Objects, Sync(o)
    PROVE  IInv'
<1>1. /\ o \notin current /\ cache' = [cache EXCEPT ![o] = obj[o]]
      /\ current' = current \cup {o} /\ queue' = queue \cup Mapped(o)
      /\ UNCHANGED <<obj, work, granted, writer>>
  BY DEF Sync
<1>2. Mapped(o) \subseteq Referrers
  BY DEF Mapped, mapComponentVersionToReleases, Objects, Referrers
<1>3. Types'
  BY ZenonT(40), <1>1, <1>2 DEF IInv, Types
<1>4. ObjectsInv'
  BY <1>1 DEF IInv, Types, ObjectsInv, Valid
<1>5. Named'
  BY <1>1 DEF IInv, Types, Named, Shown, Active, Objects, Referrers
<1>6. WriterOK(writer)'
  BY ZenonT(40), <1>1 DEF IInv, WriterOK, Holds
<1>7. \A c \in Controllers : WorkerOK(c, work[c])'
  BY <1>1 DEF IInv, WorkerOK
<1>8. Last(work[Releases])'
  BY <1>1 DEF IInv, Last, Active
<1> QED
  BY <1>3, <1>4, <1>5, <1>6, <1>7, <1>8 DEF IInv

(* The grant comes or goes.                                                   *)
LEMMA GrantKeeps ==
    ASSUME IInv, ToggleGrant
    PROVE  IInv'
<1>1. /\ UNCHANGED <<obj, cache, current, work, writer>> /\ granted' \in BOOLEAN
      /\ queue' \subseteq Referrers
  BY CatalogAssumption
     DEF ToggleGrant, mapReferenceGrantToReleases, IInv, Types, Referrers
<1> QED
  BY <1>1, StillKeeps DEF IInv, Types

(* The manager starts anew.                                                   *)
LEMMA RestartKeeps ==
    ASSUME IInv, Restart
    PROVE  IInv'
<1>1. /\ cache' = obj /\ current' = Objects /\ queue' \subseteq Referrers
      /\ work' = [c \in Controllers |-> Idle] /\ UNCHANGED <<obj, granted, writer>>
  BY DEF Restart
<1>2. work' \in [Controllers -> Workers] /\ \A c \in Controllers : work'[c] = Idle
  BY <1>1, IdleFacts
<1>3. Types'
  BY Zenon, <1>1, <1>2 DEF IInv, Types
<1>4. ObjectsInv'
  BY <1>1 DEF IInv, ObjectsInv, Valid
<1>5. Named'
  BY <1>1 DEF Named, Shown, Active
<1>6. WriterOK(writer)'
  BY <1>1 DEF IInv, WriterOK, Holds
<1>7. \A c \in Controllers : WorkerOK(c, work[c])'
  BY <1>2, IdleFacts DEF WorkerOK, Removal
<1>8. Last(work[Releases])'
  BY <1>2, IdleFacts, Kinds DEF Last
<1> QED
  BY <1>3, <1>4, <1>5, <1>6, <1>7, <1>8 DEF IInv

(* What is there at the start: what is referred to is there and protected.    *)
LEMMA InitFacts ==
    ASSUME Init
    PROVE  /\ granted = TRUE /\ cache = obj /\ current = Objects /\ queue = {}
           /\ work = [c \in Controllers |-> Idle] /\ writer = Rest
           /\ obj \in [Objects -> Recs \cup {None}]
           /\ \A o \in Objects : obj[o] # None =>
                /\ ~obj[o].del
                /\ "self" \in obj[o].fin <=> o # Component
                /\ o \in Releases => "ref" \notin obj[o].fin
                /\ o \in Releases => obj[o].cond = Gate(o, granted, obj[Wanted])
                /\ o \in Releases /\ obj[o].cond = "Resolved" => "ref" \in obj[Wanted].fin
<1>1. PICK there \in SUBSET Referrers :
        LET reason(r) == Gate(r, granted, IF Wanted \in there THEN Wanted ELSE None)
            referred(o) == IF o = Component THEN there \cap Versions # {}
                           ELSE o = Wanted /\ \E r \in there \cap Releases : reason(r) = "Resolved"
        IN obj = [o \in Objects |->
                    IF o \notin there /\ ~referred(o) THEN None
                    ELSE [fin |-> {f \in {"self", "ref"} : IF f = "self" THEN o # Component
                                                           ELSE referred(o)},
                          del |-> FALSE,
                          cond |-> IF o \in Releases THEN reason(o) ELSE "Unknown"]]
  BY Zenon DEF Init
<1> DEFINE reason(r) == Gate(r, granted, IF Wanted \in there THEN Wanted ELSE None)
<1> DEFINE referred(o) == IF o = Component THEN there \cap Versions # {}
                          ELSE o = Wanted /\ \E r \in there \cap Releases : reason(r) = "Resolved"
<1> DEFINE fins(o) == {f \in {"self", "ref"} : IF f = "self" THEN o # Component ELSE referred(o)}
<1> DEFINE rec(o) == [fin |-> fins(o), del |-> FALSE,
                      cond |-> IF o \in Releases THEN reason(o) ELSE "Unknown"]
<1>2. \A o : /\ fins(o) \in SUBSET {"self", "ref"}
             /\ "self" \in fins(o) <=> o # Component
             /\ "ref" \in fins(o) <=> referred(o)
  OBVIOUS
<1>3. \A r : reason(r) \in Reasons
  BY DEF Gate, Reasons
<1>4. Wanted \notin there => \A r : reason(r) # "Resolved"
  BY DEF Gate
<1>5. \A r \in there : r \in Releases /\ reason(r) = "Resolved" => referred(Wanted)
  BY Kinds
<1>6. \A o \in Referrers : referred(o) => o \in there
  BY <1>4, Kinds
<1>7. \A o \in Releases : ~referred(o)
  BY Kinds
<1>8. obj = [o \in Objects |-> IF o \notin there /\ ~referred(o) THEN None ELSE rec(o)]
  BY <1>1
<1> HIDE DEF reason, referred, fins
<1>9. \A o \in Objects : /\ rec(o) \in Recs /\ rec(o).fin = fins(o) /\ rec(o).del = FALSE
                         /\ o \in Releases => rec(o).cond = reason(o)
  BY <1>2, <1>3 DEF Recs, Reasons
<1> HIDE DEF rec
<1>10. /\ obj \in [Objects -> Recs \cup {None}]
       /\ \A o \in Objects : obj[o] = IF o \notin there /\ ~referred(o) THEN None ELSE rec(o)
  BY <1>8, <1>9
<1>11. obj[Wanted] = None <=> Wanted \notin there
  BY <1>6, <1>9, <1>10, Kinds DEF Referrers
<1>12. \A r : reason(r) = Gate(r, granted, obj[Wanted])
  BY ZenonT(40), <1>11, Kinds DEF reason, Gate
<1>13. ASSUME NEW o \in Objects, obj[o] # None
       PROVE  /\ ~obj[o].del
              /\ "self" \in obj[o].fin <=> o # Component
              /\ o \in Releases => "ref" \notin obj[o].fin
              /\ o \in Releases => obj[o].cond = Gate(o, granted, obj[Wanted])
              /\ o \in Releases /\ obj[o].cond = "Resolved" => "ref" \in obj[Wanted].fin
  <2>1. obj[o] = rec(o)
    BY <1>10, <1>13
  <2>2. o \in Releases => o \in there
    BY <1>7, <1>10, <1>13
  <2>3. referred(Wanted) => obj[Wanted] = rec(Wanted)
    BY <1>10, Kinds
  <2> QED
    BY <1>2, <1>5, <1>7, <1>9, <1>12, <2>1, <2>2, <2>3, Kinds
<1> QED
  BY Zenon, <1>10, <1>13 DEF Init

(* The invariant holds initially.                                             *)
LEMMA InitInv == Init => IInv
<1> SUFFICES ASSUME Init PROVE IInv
  OBVIOUS
<1>1. \A c \in Controllers : work[c] = Idle
  BY InitFacts
<1>2. Types
  BY InitFacts, IdleFacts DEF Types
<1>3. ObjectsInv /\ Named
  BY ZenonT(40), InitFacts, Kinds DEF ObjectsInv, Named, Valid, Shown, Active,
     Objects, Referrers
<1>4. WriterOK(writer) /\ Last(work[Releases]) /\ \A c \in Controllers : WorkerOK(c, work[c])
  BY <1>1, InitFacts, IdleInv, Kinds
<1> QED
  BY <1>2, <1>3, <1>4 DEF IInv

(* Every step keeps it.                                                       *)
LEMMA NextInv == IInv /\ [Next]_vars => IInv'
<1> SUFFICES ASSUME IInv, [Next]_vars PROVE IInv'
  OBVIOUS
<1>1. CASE Writer
  BY <1>1, WriterKeeps
<1>2. ASSUME NEW o \in Referrers, Create(o) \/ Delete(o) PROVE IInv'
  BY <1>2, UserKeeps, Kinds
<1>3. ASSUME NEW o \in Objects, Sync(o) PROVE IInv'
  BY <1>3, SyncKeeps
<1>4. CASE ToggleGrant
  BY <1>4, GrantKeeps
<1>5. ASSUME NEW c \in Controllers, Step(c) PROVE IInv'
  BY ZenonT(40), <1>5, FetchKeeps, AddFinalizerKeeps, ProtectKeeps,
     GetParentKeeps, ListReferrersKeeps,
     UnprotectKeeps, RemoveFinalizerKeeps, UpdateStatusKeeps DEF Step
<1>6. ASSUME NEW c \in Controllers, CallFails(c) PROVE IInv'
  BY <1>6, FailKeeps DEF CallFails
<1>7. CASE Restart
  BY <1>7, RestartKeeps
<1>8. CASE UNCHANGED vars
  <2>1. UNCHANGED <<obj, cache, current, queue, work, granted, writer>>
    BY <1>8 DEF vars
  <2> QED
    BY <2>1, StillKeeps DEF IInv, Types
<1> QED
  BY <1>1, <1>2, <1>3, <1>4, <1>5, <1>6, <1>7, <1>8 DEF Next, Referrers

-----------------------------------------------------------------------------
(* IInv holds in every reachable state, whatever the writer, the users and    *)
(* the two controllers do and wherever a call fails or the manager restarts.  *)
THEOREM Invariance == Spec => []IInv
BY InitInv, NextInv, PTL DEF Spec

(* Objects, queues, workers and writer keep their types, for every set of     *)
(* ComponentVersions and Releases: nobody protects a Release, a Component has *)
(* no finalizer of its own, what is marked deleted and there has a finalizer. *)
THEOREM TypeCorrect == Spec => []TypeOK
<1>1. IInv => TypeOK
  <2> SUFFICES ASSUME IInv PROVE TypeOK
    OBVIOUS
  <2>1. \A o \in Objects : obj[o] \in Recs \cup {None} /\ Valid(o, obj[o])
    BY DEF IInv, Types, ObjectsInv
  <2>2. \A o \in Objects : obj[o] = None \/
          (obj[o].fin \subseteq {"self", "ref"} /\ (obj[o].del => obj[o].fin # {}))
    BY <2>1 DEF Valid, Recs
  <2>3. \A r \in Releases :
          obj[r] = None \/ (obj[r].cond \in Reasons /\ "ref" \notin obj[r].fin)
    BY <2>1, Kinds DEF Valid, Recs
  <2>4. obj[Component] = None \/ "self" \notin obj[Component].fin
    BY <2>1, Kinds DEF Valid
  <2>5. \A c \in Controllers : work[c].ref \in c \cup {None}
    BY DEF IInv, WorkerOK
  <2>6. (\A o \in current : cache[o] = obj[o]) /\ queue \subseteq Referrers
    BY DEF IInv, Types, ObjectsInv
  <2>7. writer.pc = "idle" <=> writer.v = None
    BY DEF IInv, WriterOK
  <2> QED
    BY <2>2, <2>3, <2>4, <2>5, <2>6, <2>7 DEF TypeOK
<1> QED
  BY <1>1, Invariance, PTL

(* The Release controller takes componentversion-ref off a ComponentVersion   *)
(* only for the last Release: its list of Releases comes from the cache, but  *)
(* one whose condition is Resolved is in it.                                  *)
THEOREM UnprotectedForTheLast == Spec => UnprotectsForTheLast
<1> DEFINE Kept ==
      work[Releases].pc = "unprotect" /\ obj'[Wanted] # obj[Wanted]
        /\ work'[Releases].pc # "unprotect"
      => \A r \in Releases \ {work[Releases].ref} : Active(r) => obj[r].cond # "Resolved"
<1>1. IInv => Kept
  BY DEF IInv, Last
<1>2. IInv /\ [Next]_vars => [Kept]_vars
  BY <1>1
<1> QED
  BY <1>2, Invariance, PTL DEF Spec, UnprotectsForTheLast

-----------------------------------------------------------------------------
(* At rest.  Of every Release and ComponentVersion one can say why it is, or  *)
(* will be, as it should.                                                     *)

(* What the gate of r finds in the cache, and the protection that asks for:   *)
(* it is there, or the informer has still to see a change of the              *)
(* ComponentVersion.                                                          *)
Found(r) == Gate(r, granted, cache[Wanted])

Guarded(r) ==
    Found(r) = "Resolved" => "ref" \in cache[Wanted].fin \/ Wanted \notin current

(* A request for x is in the queue, or comes with the next event of x.        *)
Pending(x) == x \in queue \/ x \notin current

(* The worker w deals with x, of which it has the stored version: it is not   *)
(* about to end without having done what is missing.                          *)
Handled(x, w) ==
    /\ w.seen = obj[x]
    /\ w.pc \in Removal <=> obj[x].del
    /\ w.pc = "addFinalizer" => "self" \notin obj[x].fin
    /\ w.pc \in {"protect", "status"} => "self" \in obj[x].fin
    /\ w.pc = "status" => x \in Releases /\ w.goal = Found(x) /\ Guarded(x)

(* All is done for x, as far as the cache shows.                              *)
Right(x) ==
    obj[x] # None =>
      /\ "self" \in obj[x].fin <=> ~obj[x].del
      /\ x \in Releases /\ ~obj[x].del => obj[x].cond = Found(x) /\ Guarded(x)

Awake(x, w) == ~Pending(x) => IF w.ref = x THEN Handled(x, w) ELSE Right(x)

WakeInv == \A c \in Controllers : \A x \in c : Awake(x, work[c])

(* A step that makes copies stale, and no other change of what they show.     *)
Drift ==
    /\ UNCHANGED <<cache, granted>> /\ current' \subseteq current
    /\ \A o \in current' : obj'[o] = obj[o]

(* The workers are w in all but freshness.                                    *)
Moved(w) ==
    /\ Drift /\ queue' = queue
    /\ \A c \in Controllers :
         /\ work'[c].pc = w[c].pc /\ work'[c].ref = w[c].ref
         /\ work'[c].seen = w[c].seen /\ work'[c].goal = w[c].goal

(* The gate finds the same.                                                   *)
LEMMA DriftFound ==
    ASSUME Drift, NEW x
    PROVE  Found(x)' = Found(x) /\ (Guarded(x) => Guarded(x)')
BY Zenon DEF Drift, Found, Guarded, Gate

(* A step that is not about x: its worker holds on to what it has of x, or    *)
(* has nothing to do with it.                                                 *)
LEMMA AwakeFrame ==
    ASSUME NEW c \in Controllers, NEW x \in c, Awake(x, work[c]),
           x \in current' => x \in current /\ obj'[x] = obj[x],
           x \in queue => x \in queue',
           x \in Releases => Found(x)' = Found(x) /\ (Guarded(x) => Guarded(x)'),
           \/ work[c].ref # x /\ work'[c].ref # x
           \/ /\ work'[c].pc = work[c].pc /\ work'[c].ref = work[c].ref
              /\ work'[c].seen = work[c].seen /\ work'[c].goal = work[c].goal
    PROVE  Awake(x, work[c])'
<1> SUFFICES ASSUME ~Pending(x)'
             PROVE  IF work'[c].ref = x THEN Handled(x, work[c])' ELSE Right(x)'
  BY Zenon DEF Awake
<1>1. ~Pending(x) /\ obj'[x] = obj[x]
  BY Zenon DEF Pending
<1>2. CASE work'[c].ref = x
  <2>1. Handled(x, work[c])
    BY Zenon, <1>1, <1>2 DEF Awake
  <2> QED
    BY Zenon, <1>1, <1>2, <2>1 DEF Handled
<1>3. CASE work'[c].ref # x
  <2>1. Right(x)
    BY Zenon, <1>1, <1>3 DEF Awake
  <2> QED
    BY Zenon, <1>1, <1>3, <2>1 DEF Right
<1> QED
  BY Zenon, <1>2, <1>3

(* Nothing there, and known so: no worker is on it.                           *)
LEMMA AbsentAwake ==
    ASSUME IInv, NEW c \in Controllers, NEW x \in c, Awake(x, work[c]), cache[x] = None,
           x \in current' => x \in current, obj'[x] = obj[x],
           x \in queue => x \in queue', work' = work
    PROVE  Awake(x, work[c])'
<1> SUFFICES ASSUME ~Pending(x)'
             PROVE  IF work'[c].ref = x THEN Handled(x, work[c])' ELSE Right(x)'
  BY DEF Awake
<1>1. ~Pending(x) /\ obj[x] = None
  BY ZenonT(40) DEF Pending, IInv, ObjectsInv
<1>2. work[c].ref # x
  BY <1>1, Kinds DEF Awake, Handled, IInv, WorkerOK
<1> QED
  BY Zenon, <1>1, <1>2 DEF Right

-----------------------------------------------------------------------------
(* Writes, reads and failing calls.                                           *)

(* A write only makes stale.                                                  *)
LEMMA PutMoves ==
    ASSUME IInv, NEW o \in Objects, NEW rec \in Recs \cup {None},
           NEW w \in [Controllers -> Workers], NEW wr \in Writers, Put(o, rec, w, wr)
    PROVE  Moved(w) /\ (o \in current' => rec = obj[o])
<1>1. Written(o, rec) /\ Aged(o, rec, w)
  BY PutFacts DEF IInv
<1> QED
  BY <1>1 DEF Written, Aged, Moved, Drift, IInv, Types

(* So does a read.                                                            *)
LEMMA GotoMoves ==
    ASSUME NEW w, Goto(w)
    PROVE  Moved(w)
BY DEF Goto, Moved, Drift

(* A patch of finalizers fails, or leaves the copy stale that it was made     *)
(* from, unless it changed nothing.                                           *)
LEMMA MergeMoves ==
    ASSUME IInv, NEW c \in Controllers, NEW o \in Objects, NEW fins,
           NEW w \in [Controllers -> Workers], MergeFrom(c, o, fins, w),
           cache[o] # None => fins \subseteq {"self", "ref"}
    PROVE  Fail(c) \/ (Moved(w) /\ cache[o] # None /\ (o \in current' => fins = cache[o].fin))
<1>1. CASE cache[o] # None /\ Goto(w) /\ fins = cache[o].fin
  BY <1>1, GotoMoves
<1>2. CASE cache[o] # None /\ obj[o] # None /\ Put(o, Stored([obj[o] EXCEPT !.fin = fins]), w, writer)
  <2> DEFINE new == [obj[o] EXCEPT !.fin = fins]
  <2>1. obj[o] \in Recs /\ fins \in SUBSET {"self", "ref"} /\ writer \in Writers
    BY <1>2 DEF IInv, Types
  <2>2. new \in Recs /\ new.fin = fins
    BY SMTT(30), <2>1, RecFacts
  <2>3. Put(o, Stored(new), w, writer)
    BY <1>2
  <2> HIDE DEF new
  <2>4. Stored(new) \in Recs \cup {None} /\ (Stored(new) = obj[o] => fins = obj[o].fin)
    BY Zenon, <1>2, <2>2, StoredFacts
  <2>5. Moved(w) /\ (o \in current' => Stored(new) = obj[o])
    BY Zenon, <2>1, <2>3, <2>4, PutMoves
  <2>6. o \in current' => cache[o] = obj[o]
    BY ZenonT(40), <2>5 DEF Moved, Drift, IInv, ObjectsInv
  <2> QED
    BY <1>2, <2>4, <2>5, <2>6
<1> QED
  BY <1>1, <1>2 DEF MergeFrom

(* A write of a user or the API writer.                                       *)
LEMMA OutsideWakes ==
    ASSUME WakeInv, Moved(work)
    PROVE  WakeInv'
<1> SUFFICES ASSUME NEW c \in Controllers, NEW x \in c PROVE Awake(x, work[c])'
  BY DEF WakeInv
<1>1. Awake(x, work[c]) /\ Drift /\ queue' = queue
  BY DEF WakeInv, Moved
<1>2. Found(x)' = Found(x) /\ (Guarded(x) => Guarded(x)')
  BY <1>1, DriftFound
<1>3. x \in current' => x \in current /\ obj'[x] = obj[x]
  BY <1>1 DEF Drift
<1>4. /\ work'[c].pc = work[c].pc /\ work'[c].ref = work[c].ref
      /\ work'[c].seen = work[c].seen /\ work'[c].goal = work[c].goal
  BY Zenon DEF Moved
<1> QED
  BY <1>1, <1>2, <1>3, <1>4, AwakeFrame

(* A step of the worker of c on x leaves the other objects as awake as they   *)
(* were.                                                                      *)
LEMMA StepWakes ==
    ASSUME WakeInv, Drift, NEW c \in Controllers, NEW x \in c, Awake(x, work[c])',
           work[c].ref \in {x, None}, work'[c].ref \in {x, None},
           \A y \in queue : y # x => y \in queue',
           \A d \in Controllers : d # c =>
             /\ work'[d].pc = work[d].pc /\ work'[d].ref = work[d].ref
             /\ work'[d].seen = work[d].seen /\ work'[d].goal = work[d].goal
    PROVE  WakeInv'
<1> SUFFICES ASSUME NEW d \in Controllers, NEW y \in d PROVE Awake(y, work[d])'
  BY Zenon DEF WakeInv
<1>1. CASE y = x
  BY Zenon, <1>1, Kinds
<1>2. CASE y # x
  <2>1. Awake(y, work[d]) /\ Found(y)' = Found(y) /\ (Guarded(y) => Guarded(y)')
    BY Zenon, DriftFound DEF WakeInv
  <2>2. y \in current' => y \in current /\ obj'[y] = obj[y]
    BY Zenon DEF Drift
  <2>3. CASE d = c
    <3>1. y # None
      BY Kinds
    <3>2. work[d].ref # y /\ work'[d].ref # y
      BY Zenon, <1>2, <2>3, <3>1
    <3> QED
      BY ZenonT(40), <1>2, <2>1, <2>2, <3>2, AwakeFrame
  <2>4. CASE d # c
    BY ZenonT(40), <1>2, <2>1, <2>2, <2>4, AwakeFrame
  <2> QED
    BY Zenon, <2>3, <2>4
<1> QED
  BY Zenon, <1>1, <1>2

(* A failing call puts the request back.                                      *)
LEMMA FailWakes ==
    ASSUME IInv, WakeInv, NEW c \in Controllers, work[c].pc # "idle", Fail(c)
    PROVE  WakeInv'
<1> SUFFICES ASSUME NEW x, x = work[c].ref PROVE WakeInv'
  OBVIOUS
<1>1. x \in c /\ x \in queue' /\ queue \subseteq queue'
  BY WorkFacts DEF Fail
<1>2. /\ work'[c] = Idle /\ \A d \in Controllers : d # c => work'[d] = work[d]
      /\ UNCHANGED <<obj, cache, current, granted>>
  BY DEF Fail, IInv, Types
<1>3. Drift /\ work'[c].ref = None
  BY <1>2, IdleFacts DEF Drift
<1>4. Awake(x, work[c])'
  BY Zenon, <1>1 DEF Awake, Pending
<1> QED
  BY <1>1, <1>2, <1>3, <1>4, StepWakes

(* The worker of c ends its step as w; that x is awake then is left to show,  *)
(* from what the worker knew of it.                                           *)
LEMMA MovedWakes ==
    ASSUME IInv, WakeInv, NEW c \in Controllers, NEW x \in c, work[c].ref = x,
           NEW w, Moved(w), w[c].ref \in {x, None},
           \A d \in Controllers : d # c => w[d] = work[d],
           /\ x \in current' /\ cache[x] = obj[x] /\ obj'[x] = obj[x] /\ Handled(x, work[c])
           => IF work'[c].ref = x THEN Handled(x, work[c])' ELSE Right(x)'
    PROVE  WakeInv'
<1>1. Drift /\ queue' = queue /\ work'[c].ref = w[c].ref
  BY Zenon DEF Moved
<1>2. Awake(x, work[c])'
  <2> SUFFICES ASSUME ~Pending(x)' PROVE IF work'[c].ref = x THEN Handled(x, work[c])' ELSE Right(x)'
    BY Zenon DEF Awake
  <2>1. x \in current' /\ x \in current /\ obj'[x] = obj[x] /\ ~Pending(x)
    BY Zenon, <1>1 DEF Pending, Drift
  <2>2. cache[x] = obj[x]
    BY Zenon, <2>1 DEF IInv, ObjectsInv
  <2>3. Handled(x, work[c])
    BY ZenonT(40), <2>1 DEF WakeInv, Awake
  <2> QED
    BY Zenon, <2>1, <2>2, <2>3
<1>3. \A d \in Controllers : d # c =>
        /\ work'[d].pc = work[d].pc /\ work'[d].ref = work[d].ref
        /\ work'[d].seen = work[d].seen /\ work'[d].goal = work[d].goal
  BY DEF Moved
<1> QED
  BY Zenon, <1>1, <1>2, <1>3, StepWakes

-----------------------------------------------------------------------------
(* The steps of a reconcile.                                                  *)

(* A reconcile takes its request out of the queue, and the cached copy.       *)
LEMMA FetchWakes ==
    ASSUME IInv, WakeInv, NEW c \in Controllers, NEW x \in c, Fetch(c, x)
    PROVE  WakeInv'
<1>1. /\ UNCHANGED <<obj, cache, current, granted>> /\ queue' = queue \ {x}
      /\ work[c].pc = "idle"
  BY Zenon DEF Fetch
<1>2. Drift /\ work[c].ref = None /\ x # None
  BY ZenonT(40), <1>1, Kinds DEF Drift, IInv, WorkerOK
<1>3. x \in current => cache[x] = obj[x]
  BY DEF IInv, ObjectsInv
<1>4. \A d \in Controllers : d # c => work'[d] = work[d]
  BY Zenon DEF Fetch, IInv, Types
<1>5. CASE cache[x] = None
  <2>1. work' = work
    BY Zenon, <1>5 DEF Fetch
  <2>2. Awake(x, work[c])'
    BY Zenon, <1>1, <1>2, <1>3, <1>5, <2>1 DEF Awake, Pending, Right
  <2> QED
    BY <1>1, <1>2, <1>4, <2>1, <2>2, StepWakes
<1>6. CASE cache[x] # None
  <2> DEFINE pc == IF cache[x].del THEN "getParent"
                   ELSE IF "self" \in cache[x].fin THEN "protect" ELSE "addFinalizer"
  <2> DEFINE isCurrent == x \in current
  <2> DEFINE v == [Idle EXCEPT !.pc = pc, !.ref = x, !.seen = cache[x], !.fresh = isCurrent]
  <2>1. work'[c] = v
    BY <1>6 DEF Fetch, IInv, Types
  <2>2. v.pc = pc /\ v.ref = x /\ v.seen = cache[x]
    BY DEF Idle
  <2> HIDE DEF v
  <2>3. work'[c].pc = pc /\ work'[c].ref = x /\ work'[c].seen = cache[x]
    BY Zenon, <2>1, <2>2
  <2>4. Awake(x, work[c])'
    <3> SUFFICES ASSUME ~Pending(x)' PROVE Handled(x, work[c])'
      BY <2>3 DEF Awake
    <3>1. cache[x] = obj[x] /\ obj'[x] = obj[x]
      BY <1>1, <1>3 DEF Pending
    <3> QED
      BY Zenon, <2>3, <3>1 DEF Handled, Removal
  <2> QED
    BY <1>1, <1>2, <1>4, <2>3, <2>4, StepWakes
<1> QED
  BY <1>5, <1>6

(* The own finalizer is put on: an event of the object is to come.            *)
LEMMA AddFinalizerWakes ==
    ASSUME IInv, WakeInv, NEW c \in Controllers, AddFinalizer(c)
    PROVE  WakeInv'
<1> SUFFICES ASSUME NEW x, x = work[c].ref PROVE WakeInv'
  BY Zenon
<1> DEFINE w == After(c, "protect")
<1> DEFINE fins == cache[x].fin \cup {"self"}
<1>1. work[c].pc = "addFinalizer" /\ work[c].pc # "idle" /\ ~work[c].seen.del
  BY ZenonT(40) DEF AddFinalizer, IInv, WorkerOK
<1>2. /\ w \in [Controllers -> Workers] /\ w[c].pc = "protect" /\ w[c].ref = x
      /\ \A d \in Controllers : d # c => w[d] = work[d]
  BY <1>1, AfterFacts
<1>3. x \in c /\ x \in Objects /\ work[c].seen # None
  BY <1>1, WorkFacts
<1>4. cache[x] # None => fins \subseteq {"self", "ref"}
  BY ZenonT(40), <1>3 DEF IInv, Types, Recs
<1>5. \/ cache[x] # None /\ "self" \in cache[x].fin /\ Goto(w)
      \/ MergeFrom(c, x, fins, w)
  BY DEF AddFinalizer
<1>6. "self" \in fins
  BY Zenon
<1> HIDE DEF w, fins
<1>7. Fail(c) \/ (Moved(w) /\ (x \in current' => "self" \in cache[x].fin))
  BY ZenonT(40), <1>2, <1>3, <1>4, <1>5, <1>6, GotoMoves, MergeMoves
<1>8. CASE Fail(c)
  BY Zenon, <1>1, <1>8, FailWakes
<1>9. CASE Moved(w) /\ (x \in current' => "self" \in cache[x].fin)
  <2>1. ~(x \in current' /\ cache[x] = obj[x] /\ Handled(x, work[c]))
    BY <1>1, <1>9 DEF Handled
  <2> QED
    BY Zenon, <1>2, <1>3, <1>9, <2>1, MovedWakes
<1> QED
  BY <1>7, <1>8, <1>9

(* The gate is as the worker finds it until the next event; the protection    *)
(* is there or an event of the ComponentVersion is to come.                   *)
LEMMA ProtectWakes ==
    ASSUME IInv, WakeInv, NEW c \in Controllers, Protect(c)
    PROVE  WakeInv'
<1> SUFFICES ASSUME NEW x, x = work[c].ref PROVE WakeInv'
  OBVIOUS
<1> DEFINE o == Parent(x)
<1> DEFINE goal == Gate(x, granted, cache[o])
<1> DEFINE w == IF x \in Versions THEN After(c, "idle")
                ELSE [work EXCEPT ![c].pc = "status", ![c].goal = goal]
<1> DEFINE fins == cache[o].fin \cup {"ref"}
<1>1. work[c].pc = "protect" /\ work[c].pc # "idle"
  BY ZenonT(40) DEF Protect
<1>2. /\ x \in c /\ x \in Referrers /\ x # None /\ o \in Objects
      /\ (x \in Versions <=> x \notin Releases) /\ (x \in Releases => o = Wanted)
  BY <1>1, WorkFacts, Kinds, CatalogAssumption DEF Referrers, Parent
<1>3. \/ (goal # "Resolved" \/ "ref" \in cache[o].fin) /\ Goto(w)
      \/ MergeFrom(c, o, fins, w)
  BY DEF Protect
<1>4. goal \in Reasons
  BY DEF Gate, Reasons
<1>5. cache[o] # None => fins \subseteq {"self", "ref"}
  BY Zenon, <1>2 DEF IInv, Types, Recs
<1>6. "ref" \in fins
  BY Zenon
<1>7. x \in Releases => goal = Found(x)
  BY Zenon, <1>2 DEF Found
<1> HIDE DEF goal, fins, o
<1>8. /\ w \in [Controllers -> Workers] /\ w[c].ref \in {x, None}
      /\ \A d \in Controllers : d # c => w[d] = work[d]
      /\ x \in Versions => w[c].ref = None
      /\ x \notin Versions =>
           w[c].ref = x /\ w[c].pc = "status" /\ w[c].goal = goal /\ w[c].seen = work[c].seen
  <2>1. CASE x \in Versions
    BY <1>1, <2>1, AfterFacts, IdleFacts
  <2>2. CASE x \notin Versions
    <3>1. w = [work EXCEPT ![c].pc = "status", ![c].goal = goal]
      BY Zenon, <2>2
    <3> HIDE DEF w
    <3> QED
      BY <1>1, <1>4, <2>2, <3>1, StatusFacts
  <2> QED
    BY <2>1, <2>2
<1> HIDE DEF w
<1>9. Fail(c) \/ (Moved(w) /\ (goal = "Resolved" /\ o \in current' => "ref" \in cache[o].fin))
  BY Zenon, <1>2, <1>3, <1>5, <1>6, <1>8, GotoMoves, MergeMoves
<1>10. CASE Fail(c)
  BY Zenon, <1>1, <1>10, FailWakes
<1>11. CASE Moved(w) /\ (goal = "Resolved" /\ o \in current' => "ref" \in cache[o].fin)
  <2> SUFFICES ASSUME x \in current', obj'[x] = obj[x], Handled(x, work[c])
               PROVE  IF work'[c].ref = x THEN Handled(x, work[c])' ELSE Right(x)'
    BY Zenon, <1>2, <1>8, <1>11, MovedWakes
  <2>1. /\ work[c].seen = obj[x] /\ ~obj[x].del /\ "self" \in obj[x].fin
    BY Zenon, <1>1 DEF Handled, Removal
  <2>2. CASE x \in Versions
    <3>1. work'[c].ref # x
      BY Zenon, <1>2, <1>8, <1>11, <2>2 DEF Moved
    <3> QED
      BY Zenon, <1>2, <2>1, <2>2, <3>1 DEF Right
  <2>3. CASE x \notin Versions
    <3>1. /\ work'[c].ref = x /\ work'[c].pc = "status" /\ work'[c].goal = goal
          /\ work'[c].seen = work[c].seen
      BY Zenon, <1>8, <1>11, <2>3 DEF Moved
    <3>2. Drift /\ x \in Releases /\ o = Wanted
      BY Zenon, <1>2, <1>11, <2>3 DEF Moved
    <3>3. Found(x)' = goal
      BY Zenon, <1>7, <3>2, DriftFound
    <3>4. Guarded(x)'
      BY ZenonT(40), <1>11, <3>2, <3>3 DEF Guarded, Drift
    <3> QED
      BY Zenon, <2>1, <3>1, <3>2, <3>3, <3>4 DEF Handled, Removal
  <2> QED
    BY Zenon, <2>2, <2>3
<1> QED
  BY <1>9, <1>10, <1>11

(* The steps of a removal that leave the own finalizer where it is.           *)
LEMMA RemovalWakes ==
    ASSUME IInv, WakeInv, NEW c \in Controllers, work[c].pc \in Removal, NEW pc \in Removal,
           Moved(After(c, pc))
    PROVE  WakeInv'
<1> SUFFICES ASSUME NEW x, x = work[c].ref PROVE WakeInv'
  BY Zenon
<1> DEFINE w == After(c, pc)
<1>1. work[c].pc # "idle" /\ pc # "idle" /\ pc # "protect"
  BY ZenonT(40) DEF Removal
<1>2. x \in c
  BY <1>1, WorkFacts
<1>3. w[c].ref = x /\ w[c].pc = pc /\ w[c].seen = work[c].seen
      /\ \A d \in Controllers : d # c => w[d] = work[d]
  <2>1. work[c] \in Workers /\ w = [work EXCEPT ![c] = [work[c] EXCEPT !.pc = pc]]
    BY <1>1 DEF After, IInv, Types
  <2> QED
    BY <2>1 DEF IInv, Types, Workers
<1>4. Moved(w)
  BY Zenon
<1> HIDE DEF w
<1> SUFFICES ASSUME obj'[x] = obj[x], Handled(x, work[c])
             PROVE  IF work'[c].ref = x THEN Handled(x, work[c])' ELSE Right(x)'
  BY Zenon, <1>2, <1>3, <1>4, MovedWakes
<1>5. work'[c].ref = x /\ work'[c].pc = pc /\ work'[c].seen = work[c].seen
  BY <1>3, <1>4 DEF Moved
<1> QED
  BY <1>5 DEF Handled, Removal

(* The reads of a removal.                                                    *)
LEMMA LookWakes ==
    ASSUME IInv, WakeInv, NEW c \in Controllers, GetParent(c) \/ ListReferrers(c)
    PROVE  WakeInv'
<1>1. PICK pc \in Removal : Goto(After(c, pc))
  BY Zenon DEF GetParent, ListReferrers, Removal
<1>2. work[c].pc \in Removal /\ Moved(After(c, pc))
  BY Zenon, <1>1, GotoMoves DEF GetParent, ListReferrers, Removal
<1> QED
  BY Zenon, <1>2, RemovalWakes

(* The protection is taken away; the removal goes on.                         *)
LEMMA UnprotectWakes ==
    ASSUME IInv, WakeInv, NEW c \in Controllers, Unprotect(c)
    PROVE  WakeInv'
<1> DEFINE o == Parent(work[c].ref)
<1> DEFINE w == After(c, "removeFinalizer")
<1> DEFINE fins == cache[o].fin \ {"ref"}
<1>1. work[c].pc # "idle" /\ work[c].pc \in Removal /\ (Goto(w) \/ MergeFrom(c, o, fins, w))
  BY Zenon DEF Unprotect, Removal
<1>2. o \in Objects
  BY ZenonT(40), <1>1, WorkFacts
<1>3. w \in [Controllers -> Workers]
  BY <1>1, AfterFacts DEF Removal
<1>4. cache[o] # None => fins \subseteq {"self", "ref"}
  BY Zenon, <1>2 DEF IInv, Types, Recs
<1> HIDE DEF o, fins, w
<1>5. Fail(c) \/ Moved(w)
  BY Zenon, <1>1, <1>2, <1>3, <1>4, GotoMoves, MergeMoves
<1> QED
  BY Zenon, <1>1, <1>5, FailWakes, RemovalWakes DEF w, Removal

(* The own finalizer is off, or an event of the object is to come.            *)
LEMMA RemoveFinalizerWakes ==
    ASSUME IInv, WakeInv, NEW c \in Controllers, RemoveFinalizer(c)
    PROVE  WakeInv'
<1> SUFFICES ASSUME NEW x, x = work[c].ref PROVE WakeInv'
  OBVIOUS
<1> DEFINE w == After(c, "idle")
<1> DEFINE fins == cache[x].fin \ {"self"}
<1>1. work[c].pc = "removeFinalizer" /\ work[c].pc # "idle"
  BY Zenon DEF RemoveFinalizer
<1>2. x \in c /\ x \in Objects /\ x # None
  BY SMTT(30), <1>1, WorkFacts, Kinds
<1>3. w \in [Controllers -> Workers] /\ w[c].ref = None
      /\ \A d \in Controllers : d # c => w[d] = work[d]
  BY <1>1, AfterFacts, IdleFacts
<1>4. cache[x] # None => fins \subseteq {"self", "ref"}
  BY Zenon, <1>2 DEF IInv, Types, Recs
<1>5. \/ "self" \notin work[c].seen.fin /\ Goto(w)
      \/ MergeFrom(c, x, fins, w)
  BY DEF RemoveFinalizer
<1>6. "self" \notin fins
  BY SMTT(30)
<1> HIDE DEF fins, w
<1>7. \/ Fail(c)
      \/ /\ Moved(w)
         /\ x \in current' => "self" \notin work[c].seen.fin \/ "self" \notin cache[x].fin
  BY ZenonT(40), <1>2, <1>3, <1>4, <1>5, <1>6, GotoMoves, MergeMoves
<1>8. CASE Fail(c)
  BY Zenon, <1>1, <1>8, FailWakes
<1>9. CASE /\ Moved(w)
           /\ x \in current' => "self" \notin work[c].seen.fin \/ "self" \notin cache[x].fin
  <2> SUFFICES ASSUME x \in current', cache[x] = obj[x], obj'[x] = obj[x], Handled(x, work[c])
               PROVE  IF work'[c].ref = x THEN Handled(x, work[c])' ELSE Right(x)'
    BY ZenonT(40), <1>2, <1>3, <1>9, MovedWakes
  <2>1. work'[c].ref # x
    BY Zenon, <1>2, <1>3, <1>9 DEF Moved
  <2>2. obj[x].del /\ "self" \notin obj[x].fin
    BY <1>1, <1>9 DEF Handled, Removal
  <2> QED
    BY Zenon, <2>1, <2>2 DEF Right
<1> QED
  BY Zenon, <1>7, <1>8, <1>9

(* The condition is right, or an event of the Release is to come.             *)
LEMMA UpdateStatusWakes ==
    ASSUME IInv, WakeInv, UpdateStatus
    PROVE  WakeInv'
<1> SUFFICES ASSUME NEW c, c = Releases, NEW x, x = work[c].ref PROVE WakeInv'
  OBVIOUS
<1> DEFINE w == After(c, "idle")
<1> DEFINE rec == [obj[x] EXCEPT !.cond = work[c].goal]
<1>1. c \in Controllers /\ work[c].pc = "status" /\ work[c].pc # "idle"
  BY Zenon, Kinds DEF UpdateStatus
<1>2. x \in c /\ x \in Objects /\ x # None /\ work[c].seen # None
  BY ZenonT(40), <1>1, WorkFacts, Kinds
<1>3. w \in [Controllers -> Workers] /\ w[c].ref = None
      /\ \A d \in Controllers : d # c => w[d] = work[d]
  BY <1>1, AfterFacts, IdleFacts
<1>4. \/ work[c].seen.cond = work[c].goal /\ Goto(w)
      \/ Fail(c)
      \/ work[c].fresh /\ Put(x, rec, w, writer)
  BY DEF UpdateStatus
<1>5. work[c].fresh => obj[x] \in Recs
  BY Zenon, <1>1, <1>2 DEF IInv, Types, WorkerOK
<1>6. work[c].goal \in Reasons /\ writer \in Writers
  BY <1>1 DEF IInv, Types, Workers
<1>7. work[c].fresh => rec \in Recs /\ rec.cond = work[c].goal
  BY ZenonT(40), <1>5, <1>6, RecFacts
<1> HIDE DEF rec, w
<1>8. \/ Fail(c)
      \/ Moved(w) /\ (x \in current' => work[c].seen.cond = work[c].goal \/ obj[x].cond = work[c].goal)
  BY Zenon, <1>2, <1>3, <1>4, <1>6, <1>7, GotoMoves, PutMoves
<1>9. CASE Fail(c)
  BY Zenon, <1>1, <1>9, FailWakes
<1>10. CASE Moved(w) /\ (x \in current' => work[c].seen.cond = work[c].goal \/ obj[x].cond = work[c].goal)
  <2> SUFFICES ASSUME x \in current', obj'[x] = obj[x], Handled(x, work[c])
               PROVE  IF work'[c].ref = x THEN Handled(x, work[c])' ELSE Right(x)'
    BY Zenon, <1>1, <1>2, <1>3, <1>10, MovedWakes
  <2>1. work'[c].ref # x /\ Drift
    BY Zenon, <1>1, <1>2, <1>3, <1>10 DEF Moved
  <2>2. ~obj[x].del /\ "self" \in obj[x].fin /\ obj[x].cond = Found(x) /\ Guarded(x)
    BY ZenonT(40), <1>1, <1>10 DEF Handled, Removal
  <2>3. Found(x)' = Found(x) /\ Guarded(x)'
    BY <2>1, <2>2, DriftFound
  <2> QED
    BY Zenon, <2>1, <2>2, <2>3 DEF Right
<1> QED
  BY <1>8, <1>9, <1>10

-----------------------------------------------------------------------------
(* Everybody else.                                                            *)

(* Users make Releases and delete.                                            *)
LEMMA UserWakes ==
    ASSUME IInv, WakeInv, NEW o \in Objects, Create(o) \/ Delete(o)
    PROVE  WakeInv'
<1>1. work \in [Controllers -> Workers] /\ writer \in Writers
  BY DEF IInv, Types
<1>2. CASE Create(o)
  BY Zenon, <1>1, <1>2, NewOK, PutMoves, OutsideWakes DEF Create
<1>3. CASE Delete(o)
  BY <1>1, <1>3, DeletedOK, PutMoves, OutsideWakes DEF Delete, Active
<1> QED
  BY <1>2, <1>3

(* All the API writer does is calls and writes.                               *)
LEMMA WriterWakes ==
    ASSUME IInv, WakeInv, Writer
    PROVE  WakeInv'
<1>1. work \in [Controllers -> Workers] /\ writer \in Writers /\ WriterOK(writer)
      /\ Component \in Objects
  BY Kinds DEF IInv, Types
<1>2. writer.pc # "idle" => writer.v \in Objects
  BY <1>1 DEF WriterOK, Writers, Objects, Referrers
<1>3. ASSUME NEW wr, Call(wr) PROVE WakeInv'
  <2>1. Moved(work)
    BY <1>3 DEF Call, Moved, Drift
  <2> QED
    BY <2>1, OutsideWakes
<1>4. ASSUME NEW o \in Objects, NEW rec \in Recs \cup {None}, NEW wr \in Writers,
             Put(o, rec, work, wr)
      PROVE  WakeInv'
  BY <1>1, <1>4, PutMoves, OutsideWakes
<1>5. ASSUME NEW o \in Objects, NEW update, NEW next \in {"idle", "createVersion"},
             writer.pc # "idle", CreateOr(o, update, next)
      PROVE  WakeInv'
  BY <1>3, <1>4, <1>5, NewOK, AtFacts DEF CreateOr
<1>6. ASSUME NEW o \in Objects, NEW next \in {"idle", "createVersion"},
             writer.pc \in Updates, o = Holds(writer), UpdateWith(o, next)
      PROVE  WakeInv'
  <2>1. CASE ~writer.fresh
    BY <1>3, <1>6, <2>1 DEF UpdateWith
  <2>2. CASE writer.fresh
    <3> DEFINE new == [obj[o] EXCEPT !.fin = {}]
    <3>1. obj[o] \in Recs
      BY <1>1, <1>6, <2>2 DEF IInv, Types, WriterOK
    <3>2. new \in Recs
      BY Zenon, <3>1, RecFacts
    <3>3. Put(o, Stored(new), work, At(next))
      BY <1>6, <2>2 DEF UpdateWith
    <3> HIDE DEF new
    <3>4. writer.pc # "idle" /\ Stored(new) \in Recs \cup {None}
      BY <1>6, <3>2, StoredFacts DEF Updates
    <3> QED
      BY ZenonT(40), <1>4, <3>3, <3>4, AtFacts
  <2> QED
    BY <2>1, <2>2
<1>7. ASSUME NEW v \in Versions, NEW pc, Receive(v, pc) PROVE WakeInv'
  BY <1>3, <1>7 DEF Receive
<1>8. CASE WCreateComponent \/ WCreateVersion
  BY Zenon, <1>1, <1>2, <1>5, <1>8 DEF WCreateComponent, WCreateVersion
<1>9. CASE WUpdateComponent \/ WUpdateVersion
  BY <1>1, <1>2, <1>6, <1>9 DEF WUpdateComponent, WUpdateVersion, Updates, Holds
<1>10. CASE WDeleteVersion
  <2>1. CASE obj[writer.v] = None
    BY Zenon, <1>3, <1>10, <2>1 DEF WDeleteVersion
  <2>2. CASE obj[writer.v] # None
    BY Zenon, <1>2, <1>4, <1>10, <2>2, DeletedOK, AtFacts DEF WDeleteVersion
  <2> QED
    BY Zenon, <2>1, <2>2
<1>11. CASE WListVersions \/ WFails
  BY <1>3, <1>11 DEF WListVersions, WFails
<1>12. CASE WDeleteComponent
  <2>1. CASE Active(Component)
    BY <1>1, <1>4, <1>12, <2>1, DeletedOK, IdleFacts DEF WDeleteComponent, Active
  <2>2. CASE ~Active(Component)
    BY Zenon, <1>3, <1>12, <2>2 DEF WDeleteComponent
  <2> QED
    BY ZenonT(40), <2>1, <2>2
<1> QED
  BY Zenon, <1>7, <1>8, <1>9, <1>10, <1>11, <1>12 DEF Writer

(* The informer sees a new version of o: o itself is queued, and the Releases *)
(* with the ComponentVersion.                                                 *)
LEMMA SyncWakes ==
    ASSUME IInv, WakeInv, NEW o \in Objects, Sync(o)
    PROVE  WakeInv'
<1> SUFFICES ASSUME NEW c \in Controllers, NEW x \in c PROVE Awake(x, work[c])'
  BY DEF WakeInv
<1>1. /\ cache' = [cache EXCEPT ![o] = obj[o]] /\ current' = current \cup {o}
      /\ queue' = queue \cup Mapped(o) /\ UNCHANGED <<obj, work, granted>>
  BY ZenonT(40) DEF Sync
<1>2. x \in Referrers /\ x \in Objects /\ x # Component /\ Awake(x, work[c])
  BY Kinds DEF WakeInv
<1>3. CASE x = o
  <2>1. x \in queue'
    BY <1>1, <1>2, <1>3 DEF Mapped
  <2> QED
    BY Zenon, <2>1 DEF Awake, Pending
<1>4. CASE x # o /\ o = Wanted /\ x \in Releases
  <2>1. CASE cache[x] = None
    BY Zenon, <1>1, <1>2, <1>4, <2>1, AbsentAwake
  <2>2. CASE cache[x] # None
    <3>1. x \in queue'
      BY Zenon, <1>1, <1>4, <2>2, Kinds DEF Mapped, mapComponentVersionToReleases
    <3> QED
      BY <3>1 DEF Awake, Pending
  <2> QED
    BY Zenon, <2>1, <2>2
<1>5. CASE x # o /\ ~(o = Wanted /\ x \in Releases)
  <2>1. x \in Releases => Found(x)' = Found(x) /\ (Guarded(x) => Guarded(x)')
    <3> SUFFICES ASSUME x \in Releases PROVE Found(x)' = Found(x) /\ (Guarded(x) => Guarded(x)')
      BY Zenon
    <3>1. cache'[Wanted] = cache[Wanted] /\ granted' = granted
          /\ (Wanted \in current' => Wanted \in current)
      BY <1>1, <1>5, Kinds DEF IInv, Types
    <3> QED
      BY <3>1 DEF Found, Guarded, Gate
  <2> QED
    BY Zenon, <1>1, <1>2, <1>5, <2>1, AwakeFrame
<1> QED
  BY Zenon, <1>3, <1>4, <1>5

(* The grant comes or goes: the Releases that need it are queued.             *)
LEMMA GrantWakes ==
    ASSUME IInv, WakeInv, ToggleGrant
    PROVE  WakeInv'
<1> SUFFICES ASSUME NEW c \in Controllers, NEW x \in c PROVE Awake(x, work[c])'
  BY DEF WakeInv
<1>1. /\ UNCHANGED <<obj, cache, current, work>> /\ queue' = queue \cup mapReferenceGrantToReleases
      /\ Awake(x, work[c])
  BY DEF ToggleGrant, WakeInv
<1>2. CASE x \in Cross /\ cache[x] # None
  <2>1. x \in queue'
    BY Zenon, <1>1, <1>2 DEF mapReferenceGrantToReleases
  <2> QED
    BY Zenon, <2>1 DEF Awake, Pending
<1>3. CASE cache[x] = None
  BY Zenon, <1>1, <1>3, AbsentAwake
<1>4. CASE x \notin Cross
  <2>1. Found(x)' = Found(x) /\ (Guarded(x) => Guarded(x)')
    BY Zenon, <1>1, <1>4 DEF Found, Guarded, Gate
  <2> QED
    BY Zenon, <1>1, <2>1, AwakeFrame
<1> QED
  BY <1>2, <1>3, <1>4

(* A manager that starts queues all there is.                                 *)
LEMMA RestartWakes ==
    ASSUME IInv, WakeInv, Restart
    PROVE  WakeInv'
<1> SUFFICES ASSUME NEW c \in Controllers, NEW x \in c PROVE Awake(x, work[c])'
  BY DEF WakeInv
<1>1. x \in Referrers /\ x # None /\ work'[c].ref = None
  BY ZenonT(40), Kinds, IdleFacts DEF Restart
<1>2. x \in queue' \/ obj'[x] = None
  BY Zenon, <1>1 DEF Restart
<1> QED
  BY Zenon, <1>1, <1>2 DEF Awake, Pending, Right

(* At the start all is right.                                                 *)
LEMMA InitAwake == Init => WakeInv
<1> SUFFICES ASSUME Init, NEW c \in Controllers, NEW x \in c PROVE Awake(x, work[c])
  BY Zenon DEF WakeInv
<1>1. work[c].ref = None /\ x # None /\ x # Component /\ x \in Objects
  BY SMTT(30), InitFacts, IdleFacts, Kinds
<1>2. Right(x)
  BY ZenonT(40), <1>1, InitFacts DEF Right, Found, Guarded
<1> QED
  BY Zenon, <1>1, <1>2 DEF Awake

(* Every step keeps the second invariant, given the first.                    *)
LEMMA NextWakes == IInv /\ WakeInv /\ [Next]_vars => WakeInv'
<1> SUFFICES ASSUME IInv, WakeInv, [Next]_vars PROVE WakeInv'
  OBVIOUS
<1>1. CASE Writer
  BY <1>1, WriterWakes
<1>2. ASSUME NEW o \in Referrers, Create(o) \/ Delete(o) PROVE WakeInv'
  BY <1>2, UserWakes, Kinds
<1>3. ASSUME NEW o \in Objects, Sync(o) PROVE WakeInv'
  BY <1>3, SyncWakes
<1>4. CASE ToggleGrant
  BY <1>4, GrantWakes
<1>5. ASSUME NEW c \in Controllers, Step(c) PROVE WakeInv'
  BY Zenon, <1>5, FetchWakes, AddFinalizerWakes, ProtectWakes, LookWakes,
     UnprotectWakes,
     RemoveFinalizerWakes, UpdateStatusWakes DEF Step
<1>6. ASSUME NEW c \in Controllers, CallFails(c) PROVE WakeInv'
  BY Zenon, <1>6, FailWakes DEF CallFails
<1>7. CASE Restart
  BY <1>7, RestartWakes
<1>8. CASE UNCHANGED vars
  <2>1. Moved(work)
    BY <1>8 DEF vars, Moved, Drift
  <2> QED
    BY <2>1, OutsideWakes
<1> QED
  BY <1>1, <1>2, <1>3, <1>4, <1>5, <1>6, <1>7, <1>8 DEF Next, Referrers

(* At any moment every Release and every ComponentVersion is right by the     *)
(* cache, or in the hands of a worker that has its stored version, or has a   *)
(* request or an event to come: no finalizer that somebody's list of          *)
(* finalizers drops, and no change of the gate, goes unnoticed.               *)
THEOREM WakeInvariance == Spec => []WakeInv
BY InitAwake, NextWakes, Invariance, PTL DEF Spec

(* What holds of the stored objects when nothing is left to do.               *)
LEMMA QuietIsAwake ==
    ASSUME IInv, WakeInv, Quiet, NEW c \in Controllers, NEW x \in c
    PROVE  Right(x) /\ cache = obj /\ current = Objects /\ x \in Objects /\ Valid(x, obj[x])
<1>1. x # None /\ x \in Objects /\ work[c].ref = None
  BY Kinds DEF Quiet, IInv, WorkerOK
<1>2. queue = {} /\ current = Objects /\ cache = obj
  BY DEF Quiet, IInv, Types, ObjectsInv
<1>3. Right(x)
  BY <1>1, <1>2 DEF WakeInv, Awake, Pending
<1> QED
  BY ZenonT(40), <1>1, <1>2, <1>3 DEF IInv, ObjectsInv

(* Whatever the controllers and the API writer drop from each other's lists   *)
(* of finalizers is put back by the time everything is at rest, and the       *)
(* conditions of the Releases are true then.                                  *)
THEOREM DroppedIsPutBack == Spec => []QuietIsRight
<1>1. IInv /\ WakeInv => QuietIsRight
  <2> SUFFICES ASSUME IInv, WakeInv, Quiet
               PROVE  /\ \A v \in Versions : Active(v) => "self" \in obj[v].fin
                      /\ \A r \in Releases : Active(r) =>
                           /\ "self" \in obj[r].fin
                           /\ obj[r].cond = Gate(r, granted, obj[Wanted])
                           /\ obj[r].cond = "Resolved" /\ Active(Wanted) => "ref" \in obj[Wanted].fin
    BY Zenon DEF QuietIsRight
  <2>1. ASSUME NEW v \in Versions, Active(v) PROVE "self" \in obj[v].fin
    BY Zenon, <2>1, QuietIsAwake, Kinds DEF Right, Active
  <2>2. ASSUME NEW r \in Releases, Active(r)
        PROVE  /\ "self" \in obj[r].fin /\ obj[r].cond = Gate(r, granted, obj[Wanted])
               /\ obj[r].cond = "Resolved" => "ref" \in obj[Wanted].fin
    <3>1. Right(r) /\ cache = obj /\ Wanted \in current
      BY Zenon, QuietIsAwake, Kinds
    <3> QED
      BY Zenon, <2>2, <3>1 DEF Right, Active, Found, Guarded
  <2> QED
    BY Zenon, <2>1, <2>2
<1> QED
  BY <1>1, Invariance, WakeInvariance, PTL

(* No deletion is stuck on a conflict or a stale copy: at rest no Release is  *)
(* marked deleted, and a ComponentVersion waits only for its Releases.        *)
THEOREM NothingIsStuck == Spec => []QuietNothingIsStuck
<1>1. IInv /\ WakeInv => QuietNothingIsStuck
  <2> SUFFICES ASSUME IInv, WakeInv, Quiet
               PROVE  /\ \A r \in Releases : obj[r] = None \/ Active(r)
                      /\ \A v \in Versions : obj[v] = None \/ Active(v) \/ obj[v].fin = {"ref"}
    BY Zenon DEF QuietNothingIsStuck
  <2>1. ASSUME NEW c \in Controllers, NEW x \in c, obj[x] # None, ~Active(x)
        PROVE  /\ obj[x].fin \subseteq {"self", "ref"} /\ obj[x].fin # {}
               /\ "self" \notin obj[x].fin /\ (x \in Releases => "ref" \notin obj[x].fin)
    <3>1. Right(x) /\ Valid(x, obj[x]) /\ x \in Objects
      BY QuietIsAwake
    <3>2. obj[x] \in Recs
      BY Zenon, <2>1, <3>1 DEF IInv, Types
    <3> QED
      BY <2>1, <3>1, <3>2 DEF Right, Valid, Active, Recs
  <2>2. \A r \in Releases : obj[r] = None \/ Active(r)
    BY <2>1, Kinds
  <2>3. \A v \in Versions : obj[v] = None \/ Active(v) \/ obj[v].fin = {"ref"}
    BY <2>1, Kinds
  <2> QED
    BY Zenon, <2>2, <2>3
<1> QED
  BY <1>1, Invariance, WakeInvariance, PTL
=============================================================================
