---------------------- MODULE RegistryProtectionProofs ----------------------
(***************************************************************************)
(* Proofs about RegistryProtection, for every set of Targets and           *)
(* RegistryBindings and every number of changes and faults.                *)
(***************************************************************************)
EXTENDS RegistryProtection, TLAPS

Removal == {"getRegistry", "listTargets", "listBindings", "unprotect", "removeFinalizer"}

Workers ==
    [pc : {"idle", "addFinalizer", "protect", "setCondition"} \cup Removal,
     ref : Refs \cup {None}, seen : Recs \cup {None}, fresh : BOOLEAN,
     goal : Reasons, before : SUBSET Refs]

Types ==
    /\ obj \in [Objects -> Recs \cup {None}]
    /\ cache \in [Objects -> Recs \cup {None}]
    /\ current \subseteq Objects /\ queue \subseteq Refs /\ timers \subseteq Targets
    /\ settled \subseteq Refs
    /\ work \in [Controllers -> Workers]

(* The API server and the informers: what is marked deleted has a finalizer,  *)
(* and a copy that counts as current is what is stored.                       *)
ObjectsInv ==
    /\ \A o \in Objects : obj[o] # None /\ obj[o].del => obj[o].fin
    /\ \A o \in Objects : cache[o] # None /\ cache[o].del => cache[o].fin
    /\ \A t \in Targets : obj[t] # None => obj[t].info \in Reasons
    /\ \A o \in current : cache[o] = obj[o]

(* How far the informer may be behind a referencer: after a copy that is      *)
(* marked deleted no successor has got its finalizer, and a copy that has the *)
(* finalizer and is not marked is of an object that still has it.  One that   *)
(* is settled is active, and its copy shows it so.                            *)
Near(x, rec, copy) ==
    /\ copy # None /\ copy.del => rec = None \/ rec.del \/ ~rec.fin
    /\ copy # None /\ ~copy.del /\ copy.fin => rec # None /\ rec.fin

Shown(x) ==
    /\ obj[x] # None /\ ~obj[x].del /\ obj[x].fin
    /\ cache[x] # None /\ ~cache[x].del

RefsInv ==
    /\ \A x \in Refs : Near(x, obj[x], cache[x])
    /\ \A x \in settled : Shown(x)

(* A worker.  While it removes the finalizer of x nobody puts one on x; while *)
(* it protects the Registry for x, nobody takes that of x away.  What was     *)
(* settled when it began, and still is, is in the lists it looks at.          *)
Leaving(rec) == rec = None \/ rec.del \/ ~rec.fin

WorkerOK(c, w, rec, copy) ==
    /\ IF w.pc = "idle" THEN w.ref = None ELSE w.ref \in c /\ w.seen # None
    /\ w.before \subseteq settled /\ w.ref \notin w.before
    /\ w.pc \in Removal => Leaving(rec) /\ Leaving(copy)
    /\ w.pc = "addFinalizer" /\ copy # None /\ copy.fin => rec # None /\ rec.fin
    /\ w.pc = "protect" => rec # None /\ rec.fin /\ copy # None
    /\ w.pc \in {"listBindings", "unprotect"} => w.before \cap Targets = {}
    /\ w.pc = "unprotect" => w.before = {}

WorkerInv(c) == WorkerOK(c, work[c], obj[work[c].ref], cache[work[c].ref])

(* The object a fresh copy is of is there.                                    *)
FreshOK(c, w) == w.fresh => w.ref \in c /\ obj[w.ref] # None

IInv ==
    /\ Types
    /\ ObjectsInv
    /\ RefsInv
    /\ \A c \in Controllers : WorkerInv(c) /\ FreshOK(c, work[c])

-----------------------------------------------------------------------------
(* Facts the steps share.                                                  *)

(* Kinds of objects are told apart, and None is none of them.                 *)
LEMMA Kinds ==
    /\ None \notin Recs /\ None \notin Refs
    /\ Registry \notin Refs /\ Grant \notin Refs
    /\ Registry \in Objects /\ Grant \in Objects /\ Refs \subseteq Objects
    /\ \A c, d \in Controllers : c # d => c \cap d = {}
    /\ \A c \in Controllers : c \subseteq Refs
    /\ Targets \in Controllers /\ Bindings \in Controllers
BY RegistryAssumption, NoneAssumption DEF Refs, Objects, Controllers

(* A worker that no reconcile has begun with.                                 *)
LEMMA IdleFacts ==
    /\ Idle \in Workers
    /\ Idle.pc = "idle" /\ Idle.fresh = FALSE /\ Idle.before = {} /\ Idle.ref = None
BY DEF Idle, Workers, Reasons, Removal

(* It satisfies the invariant, whatever the objects are.                      *)
LEMMA IdleInv ==
    ASSUME NEW c \in Controllers, NEW rec, NEW copy
    PROVE  WorkerOK(c, Idle, rec, copy) /\ FreshOK(c, Idle)
BY IdleFacts, Kinds DEF WorkerOK, FreshOK, Removal

(* Records of new objects.                                                    *)
LEMMA NewFacts ==
    ASSUME NEW o \in Objects
    PROVE  /\ New(o) \in Recs /\ New(o) # None
           /\ ~New(o).fin /\ ~New(o).del
           /\ o \in Targets => New(o).info \in Reasons
<1>1. New(o) \in Recs
  BY DEF New, Recs, Reasons
<1> QED
  BY Zenon, <1>1, Kinds DEF New, Reasons

(* What Put leaves of a record that is marked deleted.                        *)
LEMMA StoredFacts ==
    ASSUME NEW r \in Recs
    PROVE  /\ Stored(r) \in Recs \cup {None}
           /\ Stored(r) = None <=> r.del /\ ~r.fin
           /\ Stored(r) # None => Stored(r) = r
BY Kinds DEF Stored, Recs

(* The workers are w, but for what a write of o makes stale.                  *)
Aged(o, w) ==
    /\ work' \in [Controllers -> Workers]
    /\ \A c \in Controllers :
         /\ work'[c].pc = w[c].pc /\ work'[c].ref = w[c].ref
         /\ work'[c].seen = w[c].seen /\ work'[c].goal = w[c].goal
         /\ work'[c].fresh => w[c].fresh /\ w[c].ref # o
         /\ work'[c].before \subseteq w[c].before
         /\ o \in work'[c].before => o \in settled'

(* What Stale does to the workers when o is written.                          *)
LEMMA StaleFacts ==
    ASSUME NEW o \in Objects, NEW w \in [Controllers -> Workers], work' = Stale(o, w)
    PROVE  Aged(o, w)
BY ZenonT(40) DEF Stale, Workers, Aged

(* A write of the object o, after which the workers are w but for what is     *)
(* stale now.                                                                 *)
LEMMA WriteKeeps ==
    ASSUME IInv, NEW o \in Objects, NEW rec \in Recs \cup {None},
           NEW w \in [Controllers -> Workers],
           Put(o, rec), Aged(o, w), UNCHANGED <<cache, queue, timers>>,
           rec # None /\ rec.del => rec.fin,
           o \in Targets /\ rec # None => rec.info \in Reasons,
           o \in Refs => Near(o, rec, cache[o]),
           o \in settled /\ rec # None /\ ~rec.del => rec.fin,
           \A c \in Controllers :
              /\ WorkerOK(c, w[c], IF w[c].ref = o THEN rec ELSE obj[w[c].ref],
                          cache[w[c].ref])
              /\ FreshOK(c, w[c])
    PROVE  IInv'
<1>1. /\ obj' = [obj EXCEPT ![o] = rec] /\ current' = current \ {o}
      /\ settled' = IF rec = None \/ rec.del THEN settled \ {o} ELSE settled
      /\ cache' = cache /\ queue' = queue /\ timers' = timers
  BY DEF Put
<1>2. obj'[o] = rec /\ \A y \in Objects \ {o} : obj'[y] = obj[y]
  BY <1>1 DEF IInv, Types
<1>3. Types'
  BY <1>1 DEF IInv, Types, Aged
<1>4. ObjectsInv'
  BY <1>1, <1>2, Kinds DEF IInv, Types, ObjectsInv, Refs
<1>5. RefsInv'
  <2>1. \A x \in Refs : Near(x, obj[x], cache[x])'
    BY <1>1, <1>2, Kinds DEF IInv, RefsInv, Near
  <2>2. ASSUME NEW x \in settled' PROVE Shown(x)'
    <3>1. x \in settled /\ Shown(x) /\ x \in Objects
      BY <1>1, Kinds DEF IInv, RefsInv, Types
    <3>2. CASE x # o
      BY <3>1, <3>2, <1>1, <1>2 DEF Shown
    <3>3. CASE x = o
      BY <3>1, <3>3, <1>1, <1>2 DEF Shown
    <3> QED
      BY <3>2, <3>3
  <2> QED
    BY <2>1, <2>2 DEF RefsInv
<1>6. ASSUME NEW c \in Controllers PROVE WorkerInv(c)' /\ FreshOK(c, work[c])'
  <2> DEFINE v == w[c]
             u == work'[c]
  <2>1. /\ u.pc = v.pc /\ u.ref = v.ref /\ u.seen = v.seen
        /\ u.fresh => v.fresh /\ v.ref # o
        /\ u.before \subseteq v.before
        /\ o \in u.before => o \in settled'
    BY DEF Aged
  <2>2. WorkerOK(c, v, IF v.ref = o THEN rec ELSE obj[v.ref], cache[v.ref]) /\ FreshOK(c, v)
    OBVIOUS
  <2>3. u.before \subseteq settled'
    BY <2>1, <2>2, <1>1 DEF WorkerOK
  <2>4. u.pc # "idle" => obj'[u.ref] = IF v.ref = o THEN rec ELSE obj[v.ref]
    BY <2>1, <2>2, <1>2, Kinds DEF WorkerOK
  <2>5. WorkerInv(c)'
    <3>1. CASE u.pc = "idle"
      BY Zenon, <3>1, <2>1, <2>2, <2>3 DEF WorkerInv, WorkerOK, Removal
    <3>2. CASE u.pc # "idle"
      BY <3>2, <2>1, <2>2, <2>3, <2>4, <1>1 DEF WorkerInv, WorkerOK
    <3> QED
      BY <3>1, <3>2
  <2>6. FreshOK(c, work[c])'
    BY <2>1, <2>2, <1>2, Kinds DEF FreshOK
  <2> QED
    BY <2>5, <2>6
<1> QED
  BY <1>3, <1>4, <1>5, <1>6 DEF IInv

(* A step that leaves the referencers alone and moves one worker to v.        *)
LEMMA WorkKeeps ==
    ASSUME IInv, NEW c \in Controllers, NEW v \in Workers,
           work' = [work EXCEPT ![c] = v],
           WorkerOK(c, v, obj[v.ref], cache[v.ref]), FreshOK(c, v),
           obj' \in [Objects -> Recs \cup {None}],
           \A x \in Refs : obj'[x] = obj[x],
           cache' = cache, current' \subseteq Objects, ObjectsInv',
           queue' \subseteq Refs, timers' \subseteq Targets,
           settled \subseteq settled', settled' \subseteq Refs,
           \A x \in settled' : Shown(x)
    PROVE  IInv'
<1>1. Types'
  BY DEF IInv, Types
<1>2. RefsInv'
  BY DEF IInv, RefsInv, Shown, Near
<1>3. ASSUME NEW d \in Controllers PROVE WorkerInv(d)' /\ FreshOK(d, work[d])'
  <2> DEFINE u == work'[d]
  <2>1. WorkerOK(d, u, obj[u.ref], cache[u.ref]) /\ FreshOK(d, u)
    BY DEF IInv, WorkerInv, Types
  <2>2. u.ref \in d => obj'[u.ref] = obj[u.ref]
    BY Kinds
  <2>3. WorkerInv(d)'
    <3>1. CASE u.pc = "idle"
      BY Zenon, <3>1, <2>1 DEF WorkerInv, WorkerOK, Removal
    <3>2. CASE u.pc # "idle"
      BY <3>2, <2>1, <2>2 DEF WorkerInv, WorkerOK
    <3> QED
      BY Zenon, <3>1, <3>2
  <2>4. FreshOK(d, work[d])'
    BY <2>1, <2>2 DEF FreshOK
  <2> QED
    BY <2>3, <2>4
<1> QED
  BY <1>1, <1>2, <1>3 DEF IInv

(* The same, when no object changes at all.                                   *)
LEMMA OnlyWorkKeeps ==
    ASSUME IInv, NEW c \in Controllers, NEW v \in Workers,
           work' = [work EXCEPT ![c] = v],
           WorkerOK(c, v, obj[v.ref], cache[v.ref]), FreshOK(c, v),
           UNCHANGED <<obj, cache, current, settled>>,
           queue' \subseteq Refs, timers' \subseteq Targets
    PROVE  IInv'
<1>1. ObjectsInv'
  BY DEF IInv, ObjectsInv
<1> QED
  BY Zenon, <1>1, WorkKeeps DEF IInv, Types, RefsInv

(* A failed call.                                                             *)
LEMMA FailKeeps ==
    ASSUME IInv, NEW c \in Controllers, work[c].pc # "idle", Fail(c)
    PROVE  IInv'
<1>1. work[c].ref \in Refs
  BY Kinds DEF IInv, WorkerInv, WorkerOK
<1> QED
  BY Zenon, <1>1, OnlyWorkKeeps, IdleFacts, IdleInv DEF Fail, Done, IInv, Types

(* The end of a reconcile.                                                    *)
LEMMA DoneKeeps ==
    ASSUME IInv, NEW c \in Controllers, Done(c),
           UNCHANGED <<obj, cache, current, queue, settled>>, timers' \subseteq Targets
    PROVE  IInv'
BY Zenon, OnlyWorkKeeps, IdleFacts, IdleInv DEF Done, IInv, Types

(* The worker goes on at pc.                                                  *)
LEMMA GotoKeeps ==
    ASSUME IInv, NEW c \in Controllers, NEW pc, pc \in {"protect"} \cup Removal,
           Goto(c, pc), NoWrite,
           WorkerOK(c, [work[c] EXCEPT !.pc = pc], obj[work[c].ref], cache[work[c].ref])
    PROVE  IInv'
<1> DEFINE v == [work[c] EXCEPT !.pc = pc]
<1>1. work[c] \in Workers /\ FreshOK(c, work[c])
  BY DEF IInv, Types
<1>2. v \in Workers /\ v.ref = work[c].ref /\ v.fresh = work[c].fresh
  BY <1>1 DEF Workers
<1>3. FreshOK(c, v)
  BY <1>1, <1>2 DEF FreshOK
<1>4. work' = [work EXCEPT ![c] = v]
  BY DEF Goto, IInv, Types
<1> QED
  BY Zenon, <1>2, <1>3, <1>4, OnlyWorkKeeps DEF NoWrite, IInv, Types

-----------------------------------------------------------------------------
(* Users, informers, timers and restarts.                                  *)

(* A user's write that keeps the finalizer of an object that stays.           *)
LEMMA UserPutKeeps ==
    ASSUME IInv, NEW o \in Objects, NEW rec \in Recs \cup {None}, UserPut(o, rec),
           rec # None /\ rec.del => rec.fin,
           o \in Targets /\ rec # None => rec.info \in Reasons,
           IF obj[o] = None THEN rec = None \/ (~rec.fin /\ ~rec.del)
           ELSE IF rec = None THEN ~obj[o].fin
           ELSE rec.fin = obj[o].fin /\ (obj[o].del => rec.del)
    PROVE  IInv'
<1>1. Aged(o, work) /\ Put(o, rec) /\ UNCHANGED <<cache, queue, timers>>
  BY StaleFacts DEF UserPut, IInv, Types
<1>2. o \in Refs => Near(o, rec, cache[o])
  BY DEF IInv, RefsInv, Near
<1>3. o \in settled => obj[o] # None /\ obj[o].fin
  BY DEF IInv, RefsInv, Shown
<1>4. ASSUME NEW c \in Controllers
      PROVE  /\ WorkerOK(c, work[c], IF work[c].ref = o THEN rec ELSE obj[work[c].ref],
                         cache[work[c].ref])
             /\ FreshOK(c, work[c])
  <2>1. WorkerOK(c, work[c], obj[work[c].ref], cache[work[c].ref]) /\ FreshOK(c, work[c])
    BY DEF IInv, WorkerInv
  <2>2. CASE work[c].ref # o
    BY <2>1, <2>2
  <2>3. CASE work[c].ref = o
    BY <2>1, <2>3 DEF WorkerOK, Leaving, Removal
  <2> QED
    BY <2>1, <2>2, <2>3
<1>5. work \in [Controllers -> Workers]
  BY DEF IInv, Types
<1> QED
  BY <1>1, <1>2, <1>3, <1>4, <1>5, WriteKeeps

(* A user makes an object.                                                    *)
LEMMA CreateKeeps ==
    ASSUME IInv, NEW o \in Objects, Create(o)
    PROVE  IInv'
BY NewFacts, UserPutKeeps DEF Create

(* A user deletes an object: it is marked, or goes when it has no finalizer.  *)
LEMMA DeleteKeeps ==
    ASSUME IInv, NEW o \in Objects, Delete(o)
    PROVE  IInv'
<1> DEFINE rec == [obj[o] EXCEPT !.del = TRUE]
<1>1. obj[o] \in Recs /\ obj[o] # None /\ UserPut(o, Stored(rec))
  BY DEF Delete, Active, IInv, Types
<1>2. rec \in Recs /\ rec.fin = obj[o].fin /\ rec.del /\ rec.info = obj[o].info
  BY Zenon, <1>1 DEF Recs
<1>3. o \in Targets => rec.info \in Reasons
  BY <1>1, <1>2 DEF IInv, ObjectsInv
<1> QED
  BY Zenon, <1>1, <1>2, <1>3, StoredFacts, UserPutKeeps

(* A user gives the Registry a solarSecretRef or takes it away.               *)
LEMMA SetSolarSecretRefKeeps ==
    ASSUME IInv, NEW v \in {"secret", "none"}, SetSolarSecretRef(v)
    PROVE  IInv'
<1> DEFINE rec == [obj[Registry] EXCEPT !.info = v]
<1>1. obj[Registry] \in Recs /\ obj[Registry] # None /\ UserPut(Registry, rec)
  BY Kinds DEF SetSolarSecretRef, Active, IInv, Types
<1>2. rec \in Recs /\ rec.fin = obj[Registry].fin /\ rec.del = obj[Registry].del
  BY <1>1 DEF Recs
<1>3. obj[Registry].del => obj[Registry].fin
  BY <1>1, Kinds DEF IInv, ObjectsInv
<1>4. Registry \in Objects /\ Registry \notin Targets
  BY Kinds DEF Refs
<1> HIDE DEF rec
<1> QED
  BY <1>1, <1>2, <1>3, <1>4, Kinds, UserPutKeeps

(* An informer catches up with an object.                                     *)
LEMMA SyncKeeps ==
    ASSUME IInv, NEW o \in Objects, Sync(o)
    PROVE  IInv'
<1>1. /\ cache' = [cache EXCEPT ![o] = obj[o]] /\ current' = current \cup {o}
      /\ queue' = queue \cup Mapped(o)
      /\ UNCHANGED <<obj, timers, work, settled>>
  BY DEF Sync
<1>2. cache'[o] = obj[o] /\ \A y \in Objects \ {o} : cache'[y] = cache[y]
  BY <1>1 DEF IInv, Types
<1>3. Mapped(o) \subseteq Refs
  BY RegistryAssumption DEF Mapped, mapRegistryToTargets, mapReferenceGrantToTargets, Refs, Objects
<1>4. Types'
  BY <1>1, <1>3 DEF IInv, Types
<1>5. ObjectsInv'
  BY <1>1, <1>2 DEF IInv, ObjectsInv, Types
<1>6. RefsInv'
  BY ZenonT(40), <1>1, <1>2, Kinds DEF IInv, RefsInv, Shown, Near, Types
<1>7. ASSUME NEW c \in Controllers PROVE WorkerInv(c)' /\ FreshOK(c, work[c])'
  <2>1. WorkerOK(c, work[c], obj[work[c].ref], cache[work[c].ref]) /\ FreshOK(c, work[c])
    BY DEF IInv, WorkerInv
  <2>2. work[c].pc # "idle" => work[c].ref \in Objects
    BY <2>1, Kinds DEF WorkerOK
  <2>3. WorkerInv(c)'
    <3>1. CASE work[c].pc = "idle"
      BY Zenon, <3>1, <2>1, <1>1 DEF WorkerInv, WorkerOK, Removal
    <3>2. CASE work[c].pc # "idle" /\ work[c].ref = o
      BY Zenon, <3>2, <2>1, <1>1, <1>2 DEF WorkerInv, WorkerOK, Leaving
    <3>3. CASE work[c].pc # "idle" /\ work[c].ref # o
      BY ZenonT(40), <3>3, <2>1, <2>2, <1>1, <1>2 DEF WorkerInv, WorkerOK, Leaving
    <3> QED
      BY Zenon, <3>1, <3>2, <3>3
  <2> QED
    BY <2>1, <2>3, <1>1 DEF FreshOK
<1> QED
  BY <1>4, <1>5, <1>6, <1>7 DEF IInv

(* A timer that fires.                                                        *)
LEMMA RequeueAfterKeeps ==
    ASSUME IInv, NEW t \in Targets, RequeueAfter(t)
    PROVE  IInv'
<1>1. UNCHANGED <<obj, cache, current, work, settled>>
  BY DEF RequeueAfter
<1>2. Types'
  BY <1>1 DEF RequeueAfter, IInv, Types, Refs
<1> QED
  BY <1>1, <1>2 DEF IInv, ObjectsInv, RefsInv, Near, Shown, WorkerInv, WorkerOK, FreshOK

(* The manager is started again.                                              *)
LEMMA RestartKeeps ==
    ASSUME IInv, Restart
    PROVE  IInv'
<1>1. /\ cache' = obj /\ current' = Objects /\ timers' = {}
      /\ queue' = {x \in Refs : obj[x] # None}
      /\ work' = [c \in Controllers |-> Idle]
      /\ UNCHANGED <<obj, settled>>
  BY DEF Restart
<1>2. Types'
  BY <1>1, IdleFacts DEF IInv, Types
<1>3. ObjectsInv'
  BY <1>1 DEF IInv, ObjectsInv
<1>4. RefsInv'
  BY <1>1, Kinds DEF IInv, RefsInv, Shown, Near, ObjectsInv, Types
<1>5. ASSUME NEW c \in Controllers PROVE WorkerInv(c)' /\ FreshOK(c, work[c])'
  <2>1. work'[c] = Idle
    BY <1>1
  <2> QED
    BY <2>1, <1>1, IdleFacts, Kinds DEF WorkerInv, WorkerOK, FreshOK, Removal
<1> QED
  BY <1>2, <1>3, <1>4, <1>5 DEF IInv

-----------------------------------------------------------------------------
(* The two controllers.                                                    *)

(* A reconcile begins.                                                        *)
LEMMA FetchKeeps ==
    ASSUME IInv, NEW c \in Controllers, NEW x \in c, Fetch(c, x)
    PROVE  IInv'
<1> DEFINE copy == cache[x]
           pc == IF copy.del THEN "getRegistry"
                 ELSE IF ~copy.fin THEN "addFinalizer" ELSE "protect"
           isCurrent == x \in current
           others == settled \ {x}
           v == [Idle EXCEPT !.pc = pc, !.ref = x, !.seen = copy,
                             !.fresh = isCurrent, !.before = others]
<1>1. x \in Refs /\ x \in Objects /\ queue' = queue \ {x}
      /\ UNCHANGED <<obj, cache, current, timers, settled>>
  BY Kinds DEF Fetch
<1>2. CASE copy = None
  BY <1>1, <1>2 DEF Fetch, IInv, Types, ObjectsInv, RefsInv, Near, Shown, WorkerInv,
     WorkerOK, FreshOK
<1>3. CASE copy # None
  <2>1. copy \in Recs
    BY <1>1, <1>3 DEF IInv, Types
  <2>2. v.pc = pc /\ v.ref = x /\ v.seen = copy /\ v.fresh = isCurrent
        /\ v.before = others
    BY DEF Idle
  <2>3. v \in Workers
    <3>1. pc \in {"addFinalizer", "protect", "getRegistry"} /\ others \in SUBSET Refs
      BY DEF IInv, Types
    <3>2. isCurrent \in BOOLEAN
      OBVIOUS
    <3> HIDE DEF pc, copy, isCurrent, others
    <3> QED
      BY ZenonT(40), <3>1, <3>2, <2>1, <1>1, IdleFacts DEF Workers, Removal
  <2>4. Near(x, obj[x], copy) /\ (copy.del => copy.fin)
    BY <1>1, <1>3 DEF IInv, RefsInv, ObjectsInv
  <2>5. WorkerOK(c, v, obj[v.ref], cache[v.ref])
    BY <2>1, <2>2, <2>4, <1>3 DEF WorkerOK, Near, Leaving, Removal, Recs
  <2>6. FreshOK(c, v)
    BY ZenonT(40), <2>2, <1>1, <1>3 DEF FreshOK, IInv, ObjectsInv
  <2>7. work' = [work EXCEPT ![c] = v]
    BY <1>3 DEF Fetch
  <2> QED
    BY Zenon, <2>3, <2>5, <2>6, <2>7, <1>1, OnlyWorkKeeps DEF IInv, Types
<1> QED
  BY <1>2, <1>3

(* What a worker that is not idle holds.                                      *)
LEMMA Holding ==
    ASSUME IInv, NEW c \in Controllers, work[c].pc # "idle"
    PROVE  /\ work[c] \in Workers
           /\ work[c].ref \in c /\ work[c].ref \in Refs /\ work[c].ref \in Objects
           /\ work[c].seen \in Recs
           /\ WorkerOK(c, work[c], obj[work[c].ref], cache[work[c].ref])
           /\ FreshOK(c, work[c])
           /\ \A d \in Controllers \ {c} :
                /\ WorkerOK(d, work[d], obj[work[d].ref], cache[work[d].ref])
                /\ FreshOK(d, work[d])
                /\ work[d].pc # "idle" => work[d].ref # work[c].ref
                /\ work[d].fresh => work[d].ref # work[c].ref
<1>1. work[c] \in Workers /\ WorkerOK(c, work[c], obj[work[c].ref], cache[work[c].ref])
  BY DEF IInv, Types, WorkerInv
<1>2. work[c].ref \in c /\ work[c].ref \in Refs /\ work[c].ref \in Objects
      /\ work[c].seen \in Recs
  BY <1>1, Kinds DEF WorkerOK, Workers
<1>3. FreshOK(c, work[c])
  BY DEF IInv
<1>4. ASSUME NEW d \in Controllers \ {c}
      PROVE  /\ WorkerOK(d, work[d], obj[work[d].ref], cache[work[d].ref])
             /\ FreshOK(d, work[d])
             /\ work[d].pc # "idle" => work[d].ref # work[c].ref
             /\ work[d].fresh => work[d].ref # work[c].ref
  <2>1. WorkerOK(d, work[d], obj[work[d].ref], cache[work[d].ref]) /\ FreshOK(d, work[d])
    BY DEF IInv, WorkerInv
  <2> QED
    BY <2>1, <1>2, Kinds DEF WorkerOK, FreshOK
<1> QED
  BY <1>1, <1>2, <1>3, <1>4

(* A write of the worker's own object, after which it is at pc: the other     *)
(* workers are not concerned.                                                 *)
LEMMA OwnWriteKeeps ==
    ASSUME IInv, NEW c \in Controllers, work[c].pc # "idle",
           NEW rec \in Recs \cup {None}, NEW v \in Workers,
           Put(work[c].ref, rec), Aged(work[c].ref, [work EXCEPT ![c] = v]),
           UNCHANGED <<cache, queue, timers>>,
           rec # None /\ rec.del => rec.fin,
           work[c].ref \in Targets /\ rec # None => rec.info \in Reasons,
           Near(work[c].ref, rec, cache[work[c].ref]),
           work[c].ref \in settled /\ rec # None /\ ~rec.del => rec.fin,
           WorkerOK(c, v, IF v.ref = work[c].ref THEN rec ELSE obj[v.ref], cache[v.ref]),
           FreshOK(c, v)
    PROVE  IInv'
<1> DEFINE w == [work EXCEPT ![c] = v]
           x == work[c].ref
<1>1. w \in [Controllers -> Workers] /\ w[c] = v /\ \A d \in Controllers \ {c} : w[d] = work[d]
  BY Zenon DEF IInv, Types
<1>2. ASSUME NEW d \in Controllers
      PROVE  /\ WorkerOK(d, w[d], IF w[d].ref = x THEN rec ELSE obj[w[d].ref], cache[w[d].ref])
             /\ FreshOK(d, w[d])
  <2>1. CASE d = c
    BY Zenon, <2>1, <1>1
  <2>2. CASE d # c
    <3>1. /\ WorkerOK(d, work[d], obj[work[d].ref], cache[work[d].ref])
          /\ FreshOK(d, work[d])
          /\ work[d].pc # "idle" => work[d].ref # x
      BY Zenon, <2>2, Holding
    <3>2. CASE work[d].pc # "idle"
      BY Zenon, <3>1, <3>2, <2>2, <1>1
    <3>3. CASE work[d].pc = "idle"
      BY Zenon, <3>1, <3>3, <2>2, <1>1 DEF WorkerOK, Removal
    <3> QED
      BY Zenon, <3>2, <3>3
  <2> QED
    BY Zenon, <2>1, <2>2
<1>3. x \in Objects
  BY Holding
<1> HIDE DEF w
<1> QED
  BY Zenon, <1>1, <1>2, <1>3, WriteKeeps DEF w

(* The own finalizer is put.                                                  *)
LEMMA AddFinalizerKeeps ==
    ASSUME IInv, NEW c \in Controllers, AddFinalizer(c)
    PROVE  IInv'
<1> DEFINE x == work[c].ref
           next == IF c = Targets THEN "idle" ELSE "protect"
           rec == [obj[x] EXCEPT !.fin = TRUE]
           v == IF next = "idle" THEN Idle ELSE [work[c] EXCEPT !.pc = next]
<1>1. work[c].pc = "addFinalizer"
  BY DEF AddFinalizer
<1>2. /\ work[c] \in Workers /\ x \in c /\ x \in Refs /\ x \in Objects
      /\ WorkerOK(c, work[c], obj[x], cache[x]) /\ FreshOK(c, work[c])
  BY <1>1, Holding
<1>3. CASE cache[x] = None \/ (~cache[x].fin /\ obj[x] = None)
  BY <1>1, <1>3, FailKeeps DEF AddFinalizer
<1>4. CASE cache[x] # None /\ cache[x].fin
  <2>1. CASE c = Targets
    BY <2>1, <1>4, DoneKeeps DEF AddFinalizer, NoWrite, IInv, Types
  <2>2. CASE c # Targets
    <3>1. WorkerOK(c, [work[c] EXCEPT !.pc = "protect"], obj[x], cache[x])
      BY ZenonT(40), <1>1, <1>2, <1>4 DEF WorkerOK, Removal, Workers
    <3> QED
      BY <3>1, <2>2, <1>4, GotoKeeps DEF AddFinalizer
  <2> QED
    BY <2>1, <2>2
<1>5. CASE cache[x] # None /\ ~cache[x].fin /\ obj[x] # None
  <2>1. obj[x] \in Recs /\ cache[x] \in Recs
    BY <1>2, <1>5 DEF IInv, Types
  <2>2. rec \in Recs /\ rec.fin /\ rec.del = obj[x].del /\ rec.info = obj[x].info
    BY Zenon, <2>1 DEF Recs
  <2>3. Near(x, rec, cache[x])
    BY <2>1, <2>2, <1>2, <1>5, Kinds DEF Near, IInv, ObjectsInv
  <2>4. x \in Targets => rec.info \in Reasons
    BY <2>2, <1>5 DEF IInv, ObjectsInv
  <2>5. v \in Workers /\ FreshOK(c, v)
    BY <1>2, IdleFacts, IdleInv DEF Workers, FreshOK
  <2>6. WorkerOK(c, v, IF v.ref = x THEN rec ELSE obj[v.ref], cache[v.ref])
    <3>1. CASE c = Targets
      BY <3>1, IdleInv
    <3>2. CASE c # Targets
      BY ZenonT(40), <3>2, <2>2, <1>1, <1>2, <1>5, Kinds DEF WorkerOK,
         Removal, Workers
    <3> QED
      BY <3>1, <3>2
  <2>7. Put(x, rec) /\ work' = Stale(x, [work EXCEPT ![c] = v])
        /\ UNCHANGED <<cache, queue, timers>>
    BY <1>5 DEF AddFinalizer, Write
  <2>8. Aged(x, [work EXCEPT ![c] = v])
    <3> HIDE DEF v
    <3>1. [work EXCEPT ![c] = v] \in [Controllers -> Workers]
      BY <2>5 DEF IInv, Types
    <3> QED
      BY Zenon, <3>1, <2>7, <1>2, StaleFacts
  <2> HIDE DEF v, rec
  <2> QED
    BY <2>2, <2>3, <2>4, <2>5, <2>6, <2>7, <2>8, <1>1, OwnWriteKeeps
<1> QED
  BY <1>3, <1>4, <1>5

(* The own finalizer is removed.                                              *)
LEMMA RemoveFinalizerKeeps ==
    ASSUME IInv, NEW c \in Controllers, RemoveFinalizer(c)
    PROVE  IInv'
<1> DEFINE x == work[c].ref
           r == [obj[x] EXCEPT !.fin = FALSE]
           rec == Stored(r)
<1>1. work[c].pc = "removeFinalizer"
  BY DEF RemoveFinalizer
<1>2. /\ work[c] \in Workers /\ x \in c /\ x \in Refs /\ x \in Objects
      /\ WorkerOK(c, work[c], obj[x], cache[x])
  BY <1>1, Holding
<1>3. CASE ~work[c].seen.fin
  BY <1>3, DoneKeeps DEF RemoveFinalizer, NoWrite, IInv, Types
<1>4. CASE work[c].seen.fin /\ (cache[x] = None \/ obj[x] = None)
  BY <1>1, <1>4, FailKeeps DEF RemoveFinalizer
<1>5. CASE work[c].seen.fin /\ cache[x] # None /\ obj[x] # None
  <2>1. obj[x] \in Recs /\ cache[x] \in Recs
    BY <1>2, <1>5 DEF IInv, Types
  <2>2. r \in Recs /\ ~r.fin /\ r.del = obj[x].del /\ r.info = obj[x].info
    BY Zenon, <2>1 DEF Recs
  <2>3. rec \in Recs \cup {None} /\ (rec # None => rec = r /\ ~r.del)
    BY Zenon, <2>2, StoredFacts
  <2>4. Leaving(obj[x]) /\ Leaving(cache[x])
    BY <1>1, <1>2 DEF WorkerOK, Removal
  <2>5. Near(x, rec, cache[x])
    BY Zenon, <2>2, <2>3, <2>4 DEF Near, Leaving
  <2>6. x \notin settled
    BY <2>4 DEF IInv, RefsInv, Shown, Leaving
  <2>7. x \in Targets /\ rec # None => rec.info \in Reasons
    BY Zenon, <2>2, <2>3, <1>5 DEF IInv, ObjectsInv
  <2>8. Put(x, rec) /\ work' = Stale(x, [work EXCEPT ![c] = Idle])
        /\ UNCHANGED <<cache, queue, timers>>
    BY <1>5 DEF RemoveFinalizer, Write
  <2>9. Aged(x, [work EXCEPT ![c] = Idle])
    <3>1. [work EXCEPT ![c] = Idle] \in [Controllers -> Workers]
      BY IdleFacts DEF IInv, Types
    <3> QED
      BY ZenonT(40), <3>1, <2>8, <1>2, StaleFacts
  <2>10. WorkerOK(c, Idle, IF Idle.ref = x THEN rec ELSE obj[Idle.ref], cache[Idle.ref])
         /\ FreshOK(c, Idle)
    BY IdleInv
  <2> HIDE DEF rec
  <2> QED
    BY Zenon, <2>2, <2>3, <2>5, <2>6, <2>7, <2>8, <2>9, <2>10, <1>1,
       IdleFacts, OwnWriteKeeps
<1> QED
  BY <1>3, <1>4, <1>5

(* The Registry is looked up and protected.                                   *)
LEMMA ProtectKeeps ==
    ASSUME IInv, NEW c \in Controllers, Protect(c)
    PROVE  IInv'
<1> DEFINE x == work[c].ref
           settles == IF Active(x) THEN settled \cup {x} ELSE settled
           goal == Gate(x)
           v == IF c = Bindings THEN Idle
                ELSE [work[c] EXCEPT !.pc = "setCondition", !.goal = goal]
<1>1. work[c].pc = "protect"
  BY DEF Protect
<1>2. /\ work[c] \in Workers /\ x \in c /\ x \in Refs /\ x \in Objects
      /\ WorkerOK(c, work[c], obj[x], cache[x]) /\ FreshOK(c, work[c])
  BY <1>1, Holding
<1>3. goal \in Reasons
  BY DEF Gate, Reasons
<1>4. v \in Workers /\ WorkerOK(c, v, obj[v.ref], cache[v.ref]) /\ FreshOK(c, v)
  <2>1. CASE c = Bindings
    BY <2>1, IdleFacts, IdleInv
  <2>2. CASE c # Bindings
    <3> HIDE DEF goal
    <3> QED
      BY Zenon, <2>2, <1>1, <1>2, <1>3 DEF Workers, WorkerOK, FreshOK, Removal
  <2> QED
    BY <2>1, <2>2
<1>5. Pass(c, x) => work' = [work EXCEPT ![c] = v]
  BY DEF Pass, IInv, Types
<1>6. settled \subseteq settles /\ settles \subseteq Refs /\ \A y \in settles : Shown(y)
  <2>1. Active(x) => Shown(x)
    BY <1>1, <1>2 DEF Active, Shown, WorkerOK, IInv, RefsInv, Near
  <2> QED
    BY ZenonT(40), <2>1, <1>2 DEF IInv, Types, RefsInv
<1>7. ASSUME Pass(c, x), UNCHANGED <<obj, cache, current, queue, timers>>,
             settled' = settled \/ settled' = settles
      PROVE  IInv'
  <2>1. settled \subseteq settled' /\ settled' \subseteq Refs /\ \A y \in settled' : Shown(y)
    BY <1>6, <1>7 DEF IInv, Types, RefsInv
  <2>2. work' = [work EXCEPT ![c] = v] /\ ObjectsInv'
    BY <1>5, <1>7 DEF IInv, ObjectsInv
  <2> HIDE DEF v, settles
  <2> QED
    BY Zenon, <2>1, <2>2, <1>4, <1>7, WorkKeeps DEF IInv, Types
<1>8. CASE Blocked(x)
  BY <1>7, <1>8 DEF Protect, NoWrite
<1>9. CASE ~Blocked(x) /\ cache[Registry].fin
  BY <1>7, <1>9 DEF Protect
<1>10. CASE ~Blocked(x) /\ ~cache[Registry].fin /\ (Registry \notin current \/ obj[Registry].del)
  BY <1>1, <1>10, FailKeeps DEF Protect
<1>11. CASE ~Blocked(x) /\ ~cache[Registry].fin /\ Registry \in current /\ ~obj[Registry].del
  <2>1. /\ obj' = [obj EXCEPT ![Registry].fin = TRUE]
        /\ current' = current \ {Registry} /\ Pass(c, x) /\ settled' = settles
        /\ UNCHANGED <<cache, queue, timers>>
    BY <1>11 DEF Protect
  <2>2. cache[Registry] # None
    BY <1>11 DEF Blocked, Gate
  <2>3. obj[Registry] \in Recs
    BY <2>2, <1>11, Kinds DEF IInv, Types, ObjectsInv
  <2>4. /\ obj'[Registry] \in Recs /\ obj'[Registry].fin
        /\ \A y \in Objects \ {Registry} : obj'[y] = obj[y]
        /\ obj' \in [Objects -> Recs \cup {None}]
    BY ZenonT(40), <2>1, <2>3, Kinds DEF IInv, Types, Recs
  <2>5. \A y \in Refs : obj'[y] = obj[y]
    BY <2>4, Kinds
  <2>6. ObjectsInv'
    BY <2>1, <2>4, <2>5, Kinds DEF IInv, ObjectsInv, Types, Refs
  <2>7. work' = [work EXCEPT ![c] = v]
    BY <2>1, <1>5
  <2> HIDE DEF v, settles
  <2> QED
    BY Zenon, <2>1, <2>4, <2>5, <2>6, <2>7, <1>4, <1>6, WorkKeeps DEF IInv, Types
<1> QED
  BY <1>8, <1>9, <1>10, <1>11

(* The condition of a Target is written.                                      *)
LEMMA SetConditionKeeps ==
    ASSUME IInv, SetCondition
    PROVE  IInv'
<1> DEFINE c == Targets
           x == work[c].ref
           rec == [obj[x] EXCEPT !.info = work[c].goal]
<1>1. c \in Controllers /\ work[c].pc = "setCondition"
  BY Kinds DEF SetCondition
<1>2. /\ work[c] \in Workers /\ x \in c /\ x \in Refs /\ x \in Objects
      /\ FreshOK(c, work[c])
  BY <1>1, Holding
<1>3. CASE work[c].seen.info = work[c].goal
  <2>1. Done(c) /\ timers' \subseteq Targets /\ UNCHANGED <<obj, cache, current, queue, settled>>
    BY <1>2, <1>3 DEF SetCondition, IInv, Types
  <2> QED
    BY <2>1, <1>1, DoneKeeps
<1>4. CASE work[c].seen.info # work[c].goal /\ ~work[c].fresh
  BY <1>1, <1>4, FailKeeps DEF SetCondition
<1>5. CASE work[c].seen.info # work[c].goal /\ work[c].fresh
  <2>1. /\ obj' = [obj EXCEPT ![x].info = work[c].goal] /\ current' = current \ {x}
        /\ work' = [work EXCEPT ![c] = Idle] /\ UNCHANGED <<cache, queue, settled>>
        /\ timers' \subseteq Targets
    BY <1>2, <1>5 DEF SetCondition, Done, IInv, Types
  <2>2. obj[x] # None /\ obj[x] \in Recs
    BY <1>2, <1>5 DEF FreshOK, IInv, Types
  <2>3. /\ rec \in Recs /\ rec.info \in Reasons
        /\ rec.fin = obj[x].fin /\ rec.del = obj[x].del
    BY <2>2, <1>2 DEF Workers, Recs
  <2>4. /\ obj' \in [Objects -> Recs \cup {None}] /\ obj'[x] = rec
        /\ \A y \in Objects \ {x} : obj'[y] = obj[y]
    BY <2>1, <2>3, <1>2 DEF IInv, Types
  <2> HIDE DEF rec
  <2>5. Types'
    BY Zenon, <2>1, <2>4, IdleFacts DEF IInv, Types
  <2>6. ObjectsInv'
    BY ZenonT(40), <2>1, <2>2, <2>3, <2>4, <1>2, Kinds DEF IInv, ObjectsInv,
       Types, Refs
  <2>7. RefsInv'
    <3>1. \A y \in Refs : Near(y, obj[y], cache[y])'
      BY <2>1, <2>2, <2>3, <2>4, Kinds DEF IInv, RefsInv, Near
    <3>2. \A y \in settled' : Shown(y)'
      BY <2>1, <2>2, <2>3, <2>4, Kinds DEF IInv, RefsInv, Shown, Types
    <3> QED
      BY <3>1, <3>2 DEF RefsInv
  <2>8. ASSUME NEW d \in Controllers PROVE WorkerInv(d)' /\ FreshOK(d, work[d])'
    <3>1. CASE d = c
      <4>1. work'[d] = Idle
        BY <3>1, <2>1, <1>1 DEF IInv, Types
      <4> QED
        BY <4>1, IdleFacts, Kinds DEF WorkerInv, WorkerOK, FreshOK, Removal
    <3>2. CASE d # c
      <4>1. /\ WorkerOK(d, work[d], obj[work[d].ref], cache[work[d].ref])
            /\ FreshOK(d, work[d])
            /\ work[d].pc # "idle" => work[d].ref # x
            /\ work[d].fresh => work[d].ref # x
        BY <3>2, <1>1, Holding
      <4>2. work'[d] = work[d]
        BY ZenonT(40), <3>2, <2>1, <1>1 DEF IInv, Types
      <4>3. FreshOK(d, work[d])'
        BY <4>1, <4>2, <2>4, Kinds DEF FreshOK
      <4>4. CASE work[d].pc = "idle"
        BY Zenon, <4>1, <4>2, <4>3, <4>4, <2>1 DEF WorkerInv, WorkerOK, Removal
      <4>5. CASE work[d].pc # "idle"
        <5>1. work[d].ref \in Objects \ {x}
          BY <4>1, <4>5, Kinds DEF WorkerOK
        <5> QED
          BY ZenonT(40), <5>1, <4>1, <4>2, <4>3, <4>5, <2>1, <2>4
             DEF WorkerInv, WorkerOK
      <4> QED
        BY Zenon, <4>4, <4>5
    <3> QED
      BY Zenon, <3>1, <3>2
  <2> QED
    BY <2>5, <2>6, <2>7, <2>8 DEF IInv
<1> QED
  BY <1>3, <1>4, <1>5

(* The reads of a reconcile that removes.  What is settled is in the lists,   *)
(* so that it stops a worker before it comes to unprotect.                    *)
LEMMA ReadsKeep ==
    ASSUME IInv, NEW c \in Controllers, GetRegistry(c) \/ ListTargets(c) \/ ListBindings(c)
    PROVE  IInv'
<1> DEFINE x == work[c].ref
<1>1. work[c].pc \in Removal /\ work[c].pc # "idle" /\ NoWrite
  BY Zenon DEF GetRegistry, ListTargets, ListBindings, Removal
<1>2. work[c] \in Workers /\ x \in Refs /\ WorkerOK(c, work[c], obj[x], cache[x])
  BY Zenon, <1>1, Holding
<1>3. \A y \in work[c].before : y # x /\ cache[y] # None /\ ~cache[y].del
  BY <1>2 DEF WorkerOK, IInv, RefsInv, Shown
<1>4. ASSUME NEW pc \in Removal, Goto(c, pc),
             pc \in {"listBindings", "unprotect"} => work[c].before \cap Targets = {},
             pc = "unprotect" => work[c].before = {}
      PROVE  IInv'
  <2>1. WorkerOK(c, [work[c] EXCEPT !.pc = pc], obj[x], cache[x])
    BY <1>1, <1>2, <1>4 DEF WorkerOK, Workers, Removal
  <2> QED
    BY <2>1, <1>1, <1>4, GotoKeeps
<1>5. CASE GetRegistry(c)
  BY <1>4, <1>5 DEF GetRegistry, Removal
<1>6. CASE ListTargets(c)
  <2>1. ~Keeps(c, Targets) => work[c].before \cap Targets = {}
    BY <1>3 DEF Keeps
  <2>2. CASE Keeps(c, Targets)
    BY <2>2, <1>4, <1>6 DEF ListTargets, Removal
  <2>3. CASE ~Keeps(c, Targets)
    BY ZenonT(40), <2>1, <2>3, <1>4, <1>6 DEF ListTargets, Removal
  <2> QED
    BY <2>2, <2>3
<1>7. CASE ListBindings(c)
  <2>1. work[c].before \cap Targets = {}
    BY <1>2, <1>7 DEF WorkerOK, ListBindings
  <2>2. ~Keeps(c, Bindings) => work[c].before = {}
    <3>1. work[c].before \subseteq Targets \cup Bindings
      BY <1>2 DEF Workers, Refs
    <3> QED
      BY <3>1, <2>1, <1>3 DEF Keeps
  <2>3. CASE Keeps(c, Bindings)
    BY <2>3, <1>4, <1>7 DEF ListBindings, Removal
  <2>4. CASE ~Keeps(c, Bindings)
    BY <2>1, <2>2, <2>4, <1>4, <1>7 DEF ListBindings, Removal
  <2> QED
    BY <2>3, <2>4
<1> QED
  BY <1>5, <1>6, <1>7

(* The protection is taken away.                                              *)
LEMMA UnprotectKeeps ==
    ASSUME IInv, NEW c \in Controllers, Unprotect(c)
    PROVE  IInv'
<1> DEFINE x == work[c].ref
           r == [obj[Registry] EXCEPT !.fin = FALSE]
           rec == Stored(r)
           v == [work[c] EXCEPT !.pc = "removeFinalizer"]
           w == [work EXCEPT ![c] = v]
<1>1. work[c].pc = "unprotect"
  BY Zenon DEF Unprotect
<1>2. /\ work[c] \in Workers /\ x \in c /\ x \in Refs
      /\ WorkerOK(c, work[c], obj[x], cache[x]) /\ FreshOK(c, work[c])
  BY <1>1, Holding
<1>3. /\ v \in Workers /\ v.ref = x /\ WorkerOK(c, v, obj[x], cache[x]) /\ FreshOK(c, v)
  BY <1>1, <1>2 DEF WorkerOK, FreshOK, Workers, Removal
<1>4. ASSUME Goto(c, "removeFinalizer"), NoWrite PROVE IInv'
  BY <1>3, <1>4, GotoKeeps DEF Removal
<1>5. CASE cache[Registry] = None
  BY <1>4, <1>5 DEF Unprotect
<1>6. CASE cache[Registry] # None /\ Registry \notin current
  BY <1>1, <1>6, FailKeeps DEF Unprotect
<1>7. CASE cache[Registry] # None /\ Registry \in current /\ ~obj[Registry].fin
  BY <1>4, <1>7 DEF Unprotect
<1>8. CASE cache[Registry] # None /\ Registry \in current /\ obj[Registry].fin
  <2>1. Put(Registry, rec) /\ work' = Stale(Registry, w) /\ UNCHANGED <<cache, queue, timers>>
    BY <1>8 DEF Unprotect, Write
  <2>2. obj[Registry] \in Recs
    BY <1>8, Kinds DEF IInv, Types, ObjectsInv
  <2>3. r \in Recs /\ ~r.fin
    BY Zenon, <2>2 DEF Recs
  <2>4. rec \in Recs \cup {None} /\ (rec # None => ~rec.del)
    BY Zenon, <2>3, StoredFacts
  <2>5. /\ w \in [Controllers -> Workers] /\ w[c] = v
        /\ \A d \in Controllers \ {c} : w[d] = work[d]
    BY <1>3 DEF IInv, Types
  <2>6. ASSUME NEW d \in Controllers
        PROVE  /\ WorkerOK(d, w[d], IF w[d].ref = Registry THEN rec ELSE obj[w[d].ref],
                           cache[w[d].ref])
               /\ FreshOK(d, w[d])
    <3>1. WorkerOK(d, w[d], obj[w[d].ref], cache[w[d].ref]) /\ FreshOK(d, w[d])
      BY Zenon, <2>5, <1>3 DEF IInv, WorkerInv
    <3>2. CASE w[d].pc = "idle"
      BY <3>1, <3>2 DEF WorkerOK, Removal
    <3>3. CASE w[d].pc # "idle"
      <4>1. w[d].ref # Registry
        BY <3>1, <3>3, Kinds DEF WorkerOK
      <4> QED
        BY <4>1, <3>1
    <3> QED
      BY <3>2, <3>3
  <2>7. Registry \in Objects /\ Registry \notin Refs /\ Registry \notin Targets
        /\ Registry \notin settled
    BY Kinds DEF Refs, IInv, Types
  <2> HIDE DEF w, rec
  <2>8. Aged(Registry, w)
    BY <2>1, <2>5, <2>7, StaleFacts
  <2> QED
    BY <2>1, <2>4, <2>5, <2>6, <2>7, <2>8, WriteKeeps
<1> QED
  BY <1>5, <1>6, <1>7, <1>8

-----------------------------------------------------------------------------
(* The invariant holds initially.                                             *)
LEMMA InitHolds == Init => IInv
<1> SUFFICES ASSUME Init PROVE IInv
  BY SMTT(30)
<1>1. PICK there \in SUBSET Refs :
         /\ settled = there
         /\ obj = [o \in Objects |->
                     IF o \in Refs \ there THEN None
                     ELSE [New(o) EXCEPT !.fin = o # Grant /\ there # {},
                                         !.info = IF o \in Targets THEN "Resolved" ELSE @]]
  BY Zenon DEF Init
<1>2. ASSUME NEW o \in Objects, obj[o] # None
      PROVE  /\ obj[o] \in Recs /\ ~obj[o].del
             /\ o \in Targets => obj[o].info \in Reasons
             /\ o \in there => obj[o].fin
  <2> DEFINE fin == o # Grant /\ there # {}
             info == IF o \in Targets THEN "Resolved" ELSE New(o).info
  <2>1. New(o) \in Recs /\ ~New(o).del
    BY NewFacts
  <2>2. fin \in BOOLEAN /\ info \in Reasons \cup {"secret", "none"}
        /\ (o \in Targets => info \in Reasons) /\ (o \in there => fin)
    BY <2>1, Kinds DEF Reasons, Recs
  <2>3. obj[o] = [New(o) EXCEPT !.fin = fin, !.info = info]
    BY Zenon, <1>1, <1>2, <2>1
  <2> HIDE DEF fin, info
  <2> QED
    BY ZenonT(40), <2>1, <2>2, <2>3 DEF Recs
<1>3. \A o \in Refs : o \in there <=> obj[o] # None
  <2> SUFFICES ASSUME NEW o \in Refs, o \in there PROVE obj[o] # None
    BY Zenon, <1>1, Kinds
  <2>1. New(o) \in Recs
    BY SMTT(30), NewFacts, Kinds
  <2> DEFINE fin == o # Grant /\ there # {}
             info == IF o \in Targets THEN "Resolved" ELSE New(o).info
  <2>2. obj[o] = [New(o) EXCEPT !.fin = fin, !.info = info]
    BY Zenon, <2>1, <1>1, Kinds
  <2>3. fin \in BOOLEAN /\ info \in Reasons \cup {"secret", "none"}
    BY <2>1 DEF Reasons, Recs
  <2> HIDE DEF fin, info
  <2>4. obj[o] \in Recs
    BY ZenonT(40), <2>1, <2>2, <2>3 DEF Recs
  <2> QED
    BY <2>4, Kinds
<1>4. /\ cache = obj /\ current = Objects /\ queue = {} /\ timers = {}
      /\ work = [c \in Controllers |-> Idle]
  BY Zenon DEF Init
<1>5. Types
  BY ZenonT(40), <1>1, <1>2, <1>4, IdleFacts DEF Types
<1>6. ObjectsInv
  BY SMTT(30), <1>2, <1>4, Kinds DEF ObjectsInv, Refs
<1>7. RefsInv
  BY Zenon, <1>1, <1>2, <1>3, <1>4, Kinds DEF RefsInv, Near, Shown
<1>8. \A c \in Controllers : WorkerInv(c) /\ FreshOK(c, work[c])
  BY <1>4, IdleInv DEF WorkerInv
<1> QED
  BY <1>5, <1>6, <1>7, <1>8 DEF IInv

(* Every step keeps the invariant.                                            *)
LEMMA NextKeeps == IInv /\ [Next]_vars => IInv'
<1> SUFFICES ASSUME IInv, [Next]_vars PROVE IInv'
  OBVIOUS
<1>1. CASE \E o \in Objects : Create(o) \/ Delete(o) \/ Sync(o)
  BY <1>1, CreateKeeps, DeleteKeeps, SyncKeeps
<1>2. CASE \E v \in {"secret", "none"} : SetSolarSecretRef(v)
  BY <1>2, SetSolarSecretRefKeeps
<1>3. CASE \E t \in Targets : RequeueAfter(t)
  BY <1>3, RequeueAfterKeeps
<1>4. ASSUME NEW c \in Controllers, Step(c) PROVE IInv'
  BY <1>4, FetchKeeps, AddFinalizerKeeps, ProtectKeeps, SetConditionKeeps, ReadsKeep,
     UnprotectKeeps, RemoveFinalizerKeeps DEF Step
<1>5. ASSUME NEW c \in Controllers, CallFails(c) PROVE IInv'
  BY <1>5, FailKeeps DEF CallFails
<1>6. CASE Restart
  BY ZenonT(40), <1>6, RestartKeeps
<1>7. CASE UNCHANGED vars
  BY <1>7 DEF vars, IInv, Types, ObjectsInv, RefsInv, Near, Shown, WorkerInv, WorkerOK, FreshOK
<1> QED
  BY <1>1, <1>2, <1>3, <1>4, <1>5, <1>6, <1>7 DEF Next

(* The inductive invariant: caches and workers are behind the API server only *)
(* so far, and what was settled before a reconcile is in its lists.           *)
THEOREM Invariance == Spec => []IInv
  BY InitHolds, NextKeeps, PTL DEF Spec

(* Objects, caches, queues and workers keep their types; only active          *)
(* referencers count as settled.                                              *)
THEOREM TypeCorrect == Spec => []TypeOK
<1>1. IInv => TypeOK
  <2> SUFFICES ASSUME IInv PROVE TypeOK
    BY Zenon
  <2>1. \A c \in Controllers : work[c].ref \in c \cup {None} /\ work[c].before \subseteq settled
    <3> SUFFICES ASSUME NEW c \in Controllers
                 PROVE  work[c].ref \in c \cup {None} /\ work[c].before \subseteq settled
      OBVIOUS
    <3> QED
      BY DEF IInv, WorkerInv, WorkerOK
  <2> QED
    BY <2>1, Kinds DEF IInv, Types, ObjectsInv, RefsInv, Shown, Active, TypeOK
<1> QED
  BY <1>1, Invariance, PTL

(* removeRegistryRefFinalizer never takes the protection away under a         *)
(* referencer that had found or put it before the reconcile began.            *)
THEOREM SettledAreSpared == Spec => SparesSettled
<1>1. IInv /\ [Next]_vars =>
        [\A c \in Controllers :
           work[c].pc = "unprotect" /\ obj[Registry] # None /\ obj[Registry].fin
             /\ (obj'[Registry] = None \/ ~obj'[Registry].fin)
             => work[c].before = {}]_vars
  BY DEF IInv, WorkerInv, WorkerOK
<1> QED
  BY <1>1, Invariance, PTL DEF Spec, SparesSettled

-----------------------------------------------------------------------------
(* No wake-up of a Target is lost.                                         *)

(* The Registry is protected if t may use it, or the cache does not show yet  *)
(* that it is.                                                                *)
Guarded(t) == Blocked(t) \/ cache[Registry].fin \/ Registry \notin current

(* A request for t is in the queue, or comes with the next event of t.        *)
Pending(t) == t \in queue \/ t \notin current

(* The worker w deals with t, of which it has the stored version: it is not   *)
(* about to end without having done what is missing.                          *)
Handled(t, w) ==
    /\ w.pc \notin Removal
    /\ w.pc = "addFinalizer" => ~obj[t].fin
    /\ w.pc \in {"protect", "setCondition"} => w.seen = obj[t] /\ obj[t].fin
    /\ w.pc = "setCondition" => w.goal = Gate(t) /\ Guarded(t)

(* All is done for t, as far as the cache shows.                              *)
Right(t) == obj[t].fin /\ obj[t].info = Gate(t) /\ Guarded(t)

Awake(t, w) ==
    Active(t) /\ ~Pending(t) => IF w.ref = t THEN Handled(t, w) ELSE Right(t)

WakeInv == \A t \in Targets : Awake(t, work[Targets])

(* The gate only looks at the cached grant and Registry.                      *)
LEMMA GateKept ==
    ASSUME NEW t, cache'[Registry] = cache[Registry], cache'[Grant] = cache[Grant],
           Registry \in current' => Registry \in current
    PROVE  Gate(t)' = Gate(t) /\ (Guarded(t) => Guarded(t)')
BY Zenon DEF Gate, Guarded, Blocked

(* A step that is not about t: the worker holds on to what it has of t, or    *)
(* has nothing to do with it.                                                 *)
LEMMA AwakeFrame ==
    ASSUME WakeInv, NEW t \in Targets, obj'[t] = obj[t],
           t \in current' => t \in current, t \in queue => t \in queue',
           Gate(t)' = Gate(t), Guarded(t) => Guarded(t)',
           LET w == work[Targets]
               u == work'[Targets]
           IN  \/ w.ref # t /\ u.ref # t
               \/ u.pc = w.pc /\ u.ref = w.ref /\ u.seen = w.seen /\ u.goal = w.goal
    PROVE  Awake(t, work[Targets])'
<1> DEFINE w == work[Targets]
           u == work'[Targets]
<1>1. Awake(t, w)
  BY DEF WakeInv
<1>2. Active(t)' = Active(t) /\ (Pending(t) => Pending(t)')
  BY DEF Active, Pending
<1>3. Right(t) => Right(t)'
  BY Zenon DEF Right
<1>4. CASE w.ref # t /\ u.ref # t
  BY Zenon, <1>1, <1>2, <1>3, <1>4 DEF Awake
<1>5. CASE u.pc = w.pc /\ u.ref = w.ref /\ u.seen = w.seen /\ u.goal = w.goal
  <2>1. Handled(t, w) => Handled(t, work[Targets])'
    BY <1>5 DEF Handled
  <2> QED
    BY ZenonT(40), <1>1, <1>2, <1>3, <1>5, <2>1 DEF Awake
<1> QED
  BY Zenon, <1>4, <1>5

(* A request that is in the queue, or will be.                                *)
LEMMA AwakePending ==
    ASSUME NEW t, t \in queue' \/ t \notin current'
    PROVE  Awake(t, work[Targets])'
BY DEF Awake, Pending

(* A user's write makes the copy of the object stale.                         *)
LEMMA UserPutWakes ==
    ASSUME IInv, WakeInv, NEW o \in Objects, NEW rec, UserPut(o, rec)
    PROVE  WakeInv'
<1>1. /\ obj' = [obj EXCEPT ![o] = rec] /\ current' = current \ {o}
      /\ UNCHANGED <<cache, queue, timers>> /\ work' = Stale(o, work)
  BY DEF UserPut, Put
<1>2. Aged(o, work) /\ Targets \in Controllers
  BY <1>1, StaleFacts, Kinds DEF IInv, Types
<1>3. ASSUME NEW t \in Targets PROVE Awake(t, work[Targets])'
  <2>1. CASE t = o
    BY ZenonT(40), <2>1, <1>1, AwakePending
  <2>2. CASE t # o
    <3>1. obj'[t] = obj[t]
      BY <2>2, <1>1 DEF IInv, Types
    <3>2. Gate(t)' = Gate(t) /\ (Guarded(t) => Guarded(t)')
      BY Zenon, <1>1, GateKept
    <3>3. LET w == work[Targets]
              u == work'[Targets]
          IN  u.pc = w.pc /\ u.ref = w.ref /\ u.seen = w.seen /\ u.goal = w.goal
      BY <1>2 DEF Aged
    <3> QED
      BY <3>1, <3>2, <3>3, <1>1, AwakeFrame
  <2> QED
    BY <2>1, <2>2
<1> QED
  BY <1>3 DEF WakeInv

(* An event of an object wakes the Targets it is about.  The Registry's wakes *)
(* no Target without a grant, for which the Registry makes no difference.     *)
LEMMA SyncWakes ==
    ASSUME IInv, WakeInv, NEW o \in Objects, Sync(o)
    PROVE  WakeInv'
<1>1. /\ cache' = [cache EXCEPT ![o] = obj[o]] /\ current' = current \cup {o}
      /\ queue' = queue \cup Mapped(o)
      /\ UNCHANGED <<obj, timers, work, settled>>
  BY DEF Sync
<1>2. \A y \in Objects \ {o} : cache'[y] = cache[y]
  BY <1>1 DEF IInv, Types
<1>3. ASSUME NEW t \in Targets PROVE Awake(t, work[Targets])'
  <2>1. t \in Refs /\ t # Registry /\ t # Grant /\ Registry # Grant
    BY Zenon, Kinds, RegistryAssumption DEF Refs
  <2>2. CASE t \in Mapped(o)
    BY Zenon, <2>2, <1>1, AwakePending
  <2>3. CASE t \notin Mapped(o)
    <3>1. t # o
      BY Zenon, <2>1, <2>3 DEF Mapped
    <3>2. CASE cache[t] = None /\ o \in {Registry, Grant}
      <4>1. Active(t)' => t \notin current'
        BY ZenonT(40), <3>1, <3>2, <1>1 DEF Active, IInv, ObjectsInv
      <4> QED
        BY <4>1 DEF Awake, Pending
    <3>3. CASE cache[t] # None \/ o \notin {Registry, Grant}
      <4>1. Gate(t)' = Gate(t) /\ (Guarded(t) => Guarded(t)')
        <5>1. CASE o = Registry
          <6>1. t \in Cross /\ cache[Grant] = None
            BY <5>1, <3>3, <2>3 DEF Mapped, mapRegistryToTargets
          <6>2. cache'[Grant] = None
            BY Zenon, <6>1, <5>1, <2>1, <1>2, Kinds
          <6> QED
            BY <6>1, <6>2 DEF Gate, Guarded, Blocked
        <5>2. CASE o = Grant
          <6>1. t \notin Cross
            BY <5>2, <3>3, <2>1, <2>3 DEF Mapped, mapReferenceGrantToTargets
          <6>2. /\ cache'[Registry] = cache[Registry]
                /\ Registry \in current' => Registry \in current
            BY Zenon, <5>2, <2>1, <1>1, <1>2, Kinds
          <6> QED
            BY <6>1, <6>2 DEF Gate, Guarded, Blocked
        <5>3. CASE o \notin {Registry, Grant}
          BY <5>3, <1>1, <1>2, Kinds, GateKept
        <5> QED
          BY Zenon, <5>1, <5>2, <5>3
      <4> QED
        BY <4>1, <3>1, <1>1, AwakeFrame
    <3> QED
      BY <3>2, <3>3
  <2> QED
    BY <2>2, <2>3
<1> QED
  BY <1>3 DEF WakeInv

(* A timer puts a request into the queue, a restart one for every object.     *)
LEMMA TimersWake ==
    ASSUME IInv, WakeInv, Restart \/ \E t \in Targets : RequeueAfter(t)
    PROVE  WakeInv'
<1>1. CASE Restart
  BY ZenonT(40), <1>1, AwakePending DEF Restart, WakeInv, Awake, Active,
     Pending, Refs
<1>2. ASSUME NEW s \in Targets, RequeueAfter(s) PROVE WakeInv'
  <2>1. UNCHANGED <<obj, cache, current, work>> /\ queue \subseteq queue'
    BY <1>2 DEF RequeueAfter
  <2>2. \A t \in Targets : Gate(t)' = Gate(t) /\ (Guarded(t) => Guarded(t)')
    BY Zenon, <2>1, GateKept
  <2> QED
    BY <2>1, <2>2, AwakeFrame DEF WakeInv
<1> QED
  BY Zenon, <1>1, <1>2


(* A step of a worker on x that leaves the other Targets alone: they are as   *)
(* they were, because it takes no request and no object of theirs.            *)
LEMMA OthersAwake ==
    ASSUME IInv, WakeInv, NEW c \in Controllers, NEW x \in c, NEW t \in Targets, t # x,
           work[c].ref \in {x, None},
           obj'[t] = obj[t], cache' = cache, current' \subseteq current,
           t \in queue => t \in queue',
           c # Targets => work'[Targets].pc = work[Targets].pc
                           /\ work'[Targets].ref = work[Targets].ref
                           /\ work'[Targets].seen = work[Targets].seen
                           /\ work'[Targets].goal = work[Targets].goal,
           work'[c].ref \in {x, None}
    PROVE  Awake(t, work[Targets])'
<1>1. Gate(t)' = Gate(t) /\ (Guarded(t) => Guarded(t)')
  BY Zenon, GateKept
<1>2. t # None
  BY SMTT(30), Kinds DEF Refs
<1>3. CASE c = Targets
  BY ZenonT(40), <1>1, <1>2, <1>3, AwakeFrame
<1>4. CASE c # Targets
  BY ZenonT(40), <1>1, <1>4, AwakeFrame
<1> QED
  BY Zenon, <1>3, <1>4

(* A step of a worker leaves the workers of the other controllers at their    *)
(* places.                                                                    *)
Aside(c, x) ==
    /\ work'[c].ref \in {x, None}
    /\ \A d \in Controllers \ {c} :
         /\ work'[d].pc = work[d].pc /\ work'[d].ref = work[d].ref
         /\ work'[d].seen = work[d].seen /\ work'[d].goal = work[d].goal

(* So does the one that makes copies stale.                                   *)
LEMMA AsideAges ==
    ASSUME IInv, NEW c \in Controllers, NEW x, NEW v \in Workers, v.ref \in {x, None},
           NEW o, Aged(o, [work EXCEPT ![c] = v])
    PROVE  Aside(c, x)
<1> DEFINE w == [work EXCEPT ![c] = v]
<1>1. w[c] = v /\ \A d \in Controllers \ {c} : w[d] = work[d]
  BY DEF IInv, Types
<1> HIDE DEF w
<1> QED
  BY <1>1 DEF Aside, Aged, w

(* For the Target controller what matters is the Target x it deals with; for  *)
(* the other one nothing does.                                                *)
LEMMA StepWakes ==
    ASSUME IInv, WakeInv, NEW c \in Controllers, NEW x \in c,
           work[c].ref \in {x, None}, Aside(c, x),
           \A y \in Refs \ {x} : obj'[y] = obj[y],
           cache' = cache, current' \subseteq current, queue \ {x} \subseteq queue',
           c = Targets => Awake(x, work[Targets])'
    PROVE  WakeInv'
<1>1. ASSUME NEW t \in Targets PROVE Awake(t, work[Targets])'
  <2>1. CASE t = x
    <3>1. c = Targets
      BY Zenon, <2>1, Kinds
    <3> QED
      BY Zenon, <3>1, <2>1
  <2>2. CASE t # x
    <3>1. obj'[t] = obj[t] /\ (t \in queue => t \in queue')
      BY Zenon, <2>2 DEF Refs
    <3>2. Targets \in Controllers
      BY Kinds
    <3> QED
      BY <3>1, <3>2, <2>2, OthersAwake DEF Aside
  <2> QED
    BY <2>1, <2>2
<1> QED
  BY <1>1 DEF WakeInv

(* An error puts the request back.                                            *)
LEMMA FailWakes ==
    ASSUME IInv, WakeInv, NEW c \in Controllers, work[c].pc # "idle", Fail(c)
    PROVE  WakeInv'
<1> SUFFICES ASSUME NEW x, x = work[c].ref PROVE WakeInv'
  BY Zenon
<1>1. x \in c
  BY Holding
<1>2. /\ UNCHANGED <<obj, cache, current>> /\ queue' = queue \cup {x}
      /\ work' = [work EXCEPT ![c] = Idle]
  BY ZenonT(40) DEF Fail, Done
<1>3. Aside(c, x)
  BY <1>2, IdleFacts DEF Aside, IInv, Types
<1>4. Awake(x, work[Targets])'
  BY Zenon, <1>2, AwakePending
<1> QED
  BY Zenon, <1>1, <1>2, <1>3, <1>4, StepWakes

(* So does a write of the object itself, by the event that follows.           *)
LEMMA OwnWriteWakes ==
    ASSUME IInv, WakeInv, NEW c \in Controllers, work[c].pc # "idle",
           NEW rec, NEW v \in Workers, v.ref \in {work[c].ref, None},
           Put(work[c].ref, rec), Aged(work[c].ref, [work EXCEPT ![c] = v]),
           UNCHANGED <<cache, queue>>
    PROVE  WakeInv'
<1> SUFFICES ASSUME NEW x, x = work[c].ref PROVE WakeInv'
  BY Zenon
<1>1. x \in c /\ x \in Objects
  BY Zenon, Holding
<1>2. obj' = [obj EXCEPT ![x] = rec] /\ current' = current \ {x}
  BY Zenon DEF Put
<1>3. \A y \in Refs \ {x} : obj'[y] = obj[y]
  BY <1>2, Kinds DEF IInv, Types
<1>4. Aside(c, x)
  BY AsideAges
<1>5. Awake(x, work[Targets])'
  BY Zenon, <1>2, AwakePending
<1> QED
  BY <1>1, <1>2, <1>3, <1>4, <1>5, StepWakes


(* A reconcile takes its request out of the queue and deals with it.          *)
LEMMA FetchWakes ==
    ASSUME IInv, WakeInv, NEW c \in Controllers, NEW x \in c, Fetch(c, x)
    PROVE  WakeInv'
<1> DEFINE copy == cache[x]
           pc == IF copy.del THEN "getRegistry"
                 ELSE IF ~copy.fin THEN "addFinalizer" ELSE "protect"
           isCurrent == x \in current
           others == settled \ {x}
           v == IF copy = None THEN work[c]
                ELSE [Idle EXCEPT !.pc = pc, !.ref = x, !.seen = copy,
                                  !.fresh = isCurrent, !.before = others]
<1>1. /\ x \in Refs /\ x \in Objects /\ queue' = queue \ {x} /\ work[c].pc = "idle"
      /\ UNCHANGED <<obj, cache, current>>
  BY ZenonT(40), Kinds DEF Fetch
<1>2. work[c].ref = None
  BY <1>1 DEF IInv, WorkerInv, WorkerOK
<1>3. work' = [work EXCEPT ![c] = v]
  BY ZenonT(40) DEF Fetch, IInv, Types
<1>4. copy # None => v.pc = pc /\ v.ref = x /\ v.seen = copy
  BY DEF Idle
<1>5. v.ref \in {x, None}
  BY <1>2, <1>4
<1>6. Aside(c, x) /\ work'[c] = v
  <2> HIDE DEF v
  <2> QED
    BY ZenonT(40), <1>3, <1>5 DEF Aside, IInv, Types
<1>7. ASSUME c = Targets PROVE Awake(x, work[Targets])'
  <2> SUFFICES ASSUME Active(x), x \in current
               PROVE  work'[Targets].ref = x /\ Handled(x, work[Targets])'
    BY ZenonT(40), <1>1 DEF Awake, Pending, Active
  <2>1. copy = obj[x] /\ copy # None /\ ~copy.del
    BY DEF IInv, ObjectsInv, Active
  <2>2. v.pc = (IF ~copy.fin THEN "addFinalizer" ELSE "protect") /\ v.ref = x /\ v.seen = copy
    BY <2>1, <1>4
  <2>3. obj'[x] = copy /\ work'[Targets] = v
    BY <2>1, <1>1, <1>6, <1>7
  <2> HIDE DEF v, copy
  <2> QED
    BY <2>2, <2>3 DEF Handled, Removal
<1> HIDE DEF v
<1> QED
  BY <1>1, <1>2, <1>6, <1>7, StepWakes

(* The own finalizer: it was missing in the copy that was read, so that there *)
(* is a write or an event on its way.                                         *)
LEMMA AddFinalizerWakes ==
    ASSUME IInv, WakeInv, NEW c \in Controllers, AddFinalizer(c)
    PROVE  WakeInv'
<1> SUFFICES ASSUME NEW x, x = work[c].ref PROVE WakeInv'
  OBVIOUS
<1> DEFINE next == IF c = Targets THEN "idle" ELSE "protect"
           rec == [obj[x] EXCEPT !.fin = TRUE]
           v == IF next = "idle" THEN Idle ELSE [work[c] EXCEPT !.pc = next]
<1>1. work[c].pc = "addFinalizer"
  BY ZenonT(40) DEF AddFinalizer
<1>2. work[c] \in Workers /\ x \in c /\ x \in Objects
  BY <1>1, Holding
<1>3. v \in Workers /\ v.ref \in {x, None}
  BY <1>2, IdleFacts DEF Workers
<1>4. CASE cache[x] = None \/ (~cache[x].fin /\ obj[x] = None)
  BY <1>1, <1>4, FailWakes DEF AddFinalizer
<1>5. CASE cache[x] # None /\ cache[x].fin
  <2>1. work' = [work EXCEPT ![c] = v] /\ UNCHANGED <<obj, cache, current, queue>>
    BY Zenon, <1>5 DEF AddFinalizer, Goto, Done, NoWrite, IInv, Types
  <2>2. Aside(c, x)
    <3> HIDE DEF v
    <3> QED
      BY <2>1, <1>3 DEF Aside, IInv, Types
  <2>3. ASSUME c = Targets PROVE Awake(x, work[Targets])'
    <3>1. Active(x) /\ ~Pending(x) => ~obj[x].fin
      BY Zenon, <2>3, <1>1, <1>2 DEF WakeInv, Awake, Handled
    <3>2. ~(Active(x) /\ ~Pending(x))
      BY <3>1, <1>5 DEF Pending, IInv, ObjectsInv
    <3> QED
      BY Zenon, <3>2, <2>1 DEF Awake, Active, Pending
  <2> HIDE DEF v
  <2> QED
    BY <2>1, <2>2, <2>3, <1>2, StepWakes
<1>6. CASE cache[x] # None /\ ~cache[x].fin /\ obj[x] # None
  <2>1. Put(x, rec) /\ work' = Stale(x, [work EXCEPT ![c] = v])
        /\ UNCHANGED <<cache, queue, timers>>
    BY <1>6 DEF AddFinalizer, Write
  <2> HIDE DEF v, rec
  <2>2. [work EXCEPT ![c] = v] \in [Controllers -> Workers]
    BY <1>3 DEF IInv, Types
  <2>3. Aged(x, [work EXCEPT ![c] = v])
    BY Zenon, <2>1, <2>2, <1>2, StaleFacts
  <2> QED
    BY <2>1, <2>3, <1>1, <1>3, OwnWriteWakes
<1> QED
  BY <1>4, <1>5, <1>6

(* The gate and the protection: what comes of it is right for what the cache  *)
(* shows.                                                                     *)
LEMMA ProtectWakes ==
    ASSUME IInv, WakeInv, NEW c \in Controllers, Protect(c)
    PROVE  WakeInv'
<1> SUFFICES ASSUME NEW x, x = work[c].ref PROVE WakeInv'
  OBVIOUS
<1> DEFINE goal == Gate(x)
           v == IF c = Bindings THEN Idle
                ELSE [work[c] EXCEPT !.pc = "setCondition", !.goal = goal]
<1>1. work[c].pc = "protect"
  BY Zenon DEF Protect
<1>2. work[c] \in Workers /\ x \in c /\ x \in Refs /\ x \in Objects
  BY <1>1, Holding
<1>3. Pass(c, x) => work' = [work EXCEPT ![c] = v]
  BY DEF Pass, IInv, Types
<1>4. v.ref \in {x, None}
        /\ (c = Targets => v.pc = "setCondition" /\ v.goal = goal /\ v.ref = x
                            /\ v.seen = work[c].seen)
  <2>1. Targets # Bindings \/ c = {}
    BY Zenon, RegistryAssumption DEF Controllers
  <2> HIDE DEF goal
  <2> QED
    BY <2>1, <1>2, IdleFacts DEF Workers
<1>5. ASSUME Pass(c, x), \A y \in Refs : obj'[y] = obj[y],
             cache' = cache, current' \subseteq current, queue' = queue,
             Blocked(x) \/ cache[Registry].fin \/ Registry \notin current'
      PROVE  WakeInv'
  <2>1. Aside(c, x) /\ work'[c] = v
    <3> HIDE DEF v
    <3> QED
      BY SMTT(30), <1>3, <1>4, <1>5 DEF Aside, IInv, Types
  <2>2. ASSUME c = Targets PROVE Awake(x, work[Targets])'
    <3>1. Gate(x)' = Gate(x) /\ Guarded(x)'
      BY Zenon, <1>5 DEF Gate, Guarded, Blocked
    <3>2. Active(x)' = Active(x) /\ (Pending(x) => Pending(x)') /\ obj'[x] = obj[x]
      BY ZenonT(40), <1>2, <1>5 DEF Active, Pending
    <3>3. Active(x) /\ ~Pending(x) => work[c].seen = obj[x] /\ obj[x].fin
      BY <2>2, <1>1, <1>2 DEF WakeInv, Awake, Handled
    <3>4. LET u == work'[Targets]
          IN  u.ref = x /\ u.pc = "setCondition" /\ u.goal = Gate(x) /\ u.seen = work[c].seen
      BY ZenonT(40), <2>1, <2>2, <1>4
    <3> HIDE DEF v
    <3>5. Active(x) /\ ~Pending(x) => Handled(x, work[Targets])'
      BY <3>1, <3>2, <3>3, <3>4 DEF Handled, Removal
    <3> QED
      BY Zenon, <3>2, <3>4, <3>5 DEF Awake
  <2> HIDE DEF v
  <2> QED
    BY ZenonT(40), <2>1, <2>2, <1>2, <1>5, StepWakes
<1>6. CASE Blocked(x)
  BY <1>5, <1>6 DEF Protect, NoWrite
<1>7. CASE ~Blocked(x) /\ cache[Registry].fin
  BY <1>5, <1>7 DEF Protect
<1>8. CASE ~Blocked(x) /\ ~cache[Registry].fin /\ (Registry \notin current \/ obj[Registry].del)
  BY <1>1, <1>8, FailWakes DEF Protect
<1>9. CASE ~Blocked(x) /\ ~cache[Registry].fin /\ Registry \in current /\ ~obj[Registry].del
  <2>1. /\ obj' = [obj EXCEPT ![Registry].fin = TRUE]
        /\ current' = current \ {Registry} /\ Pass(c, x)
        /\ UNCHANGED <<cache, queue, timers>>
    BY <1>9 DEF Protect
  <2>2. \A y \in Refs : obj'[y] = obj[y]
    BY <2>1, Kinds DEF IInv, Types
  <2> QED
    BY Zenon, <2>1, <2>2, <1>5
<1> QED
  BY <1>6, <1>7, <1>8, <1>9


(* The condition: an update that is not needed leaves a Target that is right, *)
(* and any other one wakes it again.                                          *)
LEMMA SetConditionWakes ==
    ASSUME IInv, WakeInv, SetCondition
    PROVE  WakeInv'
<1> SUFFICES ASSUME NEW x, x = work[Targets].ref PROVE WakeInv'
  OBVIOUS
<1> DEFINE c == Targets
<1>1. c \in Controllers /\ work[c].pc = "setCondition"
  BY ZenonT(40), Kinds DEF SetCondition
<1>2. work[c] \in Workers /\ x \in c /\ x \in Refs /\ x \in Objects
  BY <1>1, Holding
<1>3. CASE work[c].seen.info = work[c].goal
  <2>1. work' = [work EXCEPT ![c] = Idle] /\ UNCHANGED <<obj, cache, current, queue>>
    BY Zenon, <1>3 DEF SetCondition, Done
  <2>2. Aside(c, x) /\ work'[c] = Idle
    BY Zenon, <2>1, <1>1, IdleFacts DEF Aside, IInv, Types
  <2>3. Awake(x, work[Targets])'
    <3>1. Active(x) /\ ~Pending(x) =>
            /\ work[c].seen = obj[x] /\ obj[x].fin
            /\ work[c].goal = Gate(x) /\ Guarded(x)
      BY <1>1, <1>2 DEF WakeInv, Awake, Handled
    <3>2. Active(x) /\ ~Pending(x) => Right(x)
      BY Zenon, <3>1, <1>3 DEF Right
    <3>3. work'[Targets].ref # x
      BY ZenonT(40), <2>2, <1>2, IdleFacts, Kinds
    <3>4. Right(x) => Right(x)'
      BY <2>1 DEF Right, Gate, Guarded, Blocked
    <3> QED
      BY ZenonT(40), <3>2, <3>3, <3>4, <2>1 DEF Awake, Active, Pending
  <2> QED
    BY <2>1, <2>2, <2>3, <1>1, <1>2, StepWakes
<1>4. CASE work[c].seen.info # work[c].goal /\ ~work[c].fresh
  BY <1>1, <1>4, FailWakes DEF SetCondition
<1>5. CASE work[c].seen.info # work[c].goal /\ work[c].fresh
  <2>1. /\ obj' = [obj EXCEPT ![x].info = work[c].goal] /\ current' = current \ {x}
        /\ work' = [work EXCEPT ![c] = Idle] /\ UNCHANGED <<cache, queue>>
    BY <1>5 DEF SetCondition, Done
  <2>2. \A y \in Refs \ {x} : obj'[y] = obj[y]
    BY <2>1, Kinds DEF IInv, Types
  <2>3. Aside(c, x)
    BY <2>1, <1>1, IdleFacts DEF Aside, IInv, Types
  <2>4. Awake(x, work[Targets])'
    BY Zenon, <2>1, AwakePending
  <2> QED
    BY <2>1, <2>2, <2>3, <2>4, <1>1, <1>2, StepWakes
<1> QED
  BY <1>3, <1>4, <1>5

(* A reconcile that removes is of a Target that is going, or that was made    *)
(* anew since and has a request of its own.                                   *)
LEMMA RemovalWakes ==
    ASSUME IInv, WakeInv, NEW c \in Controllers, work[c].pc \in Removal,
           Aside(c, work[c].ref),
           \A y \in Refs : obj'[y] = obj[y],
           cache' = cache, current' \subseteq current, queue' = queue
    PROVE  WakeInv'
<1> SUFFICES ASSUME NEW x, x = work[c].ref PROVE WakeInv'
  BY Zenon
<1>1. x \in c /\ x \in Refs
  <2>1. work[c].pc # "idle"
    BY Zenon DEF Removal
  <2> QED
    BY Zenon, <2>1, Holding
<1>2. ASSUME c = Targets PROVE Awake(x, work[Targets])'
  <2>1. ~(Active(x) /\ ~Pending(x))
    BY <1>1, <1>2 DEF WakeInv, Awake, Handled
  <2> QED
    BY ZenonT(40), <2>1, <1>1 DEF Awake, Active, Pending
<1> QED
  BY Zenon, <1>1, <1>2, StepWakes

(* The worker goes on.                                                        *)
LEMMA GotoWakes ==
    ASSUME IInv, WakeInv, NEW c \in Controllers, work[c].pc \in Removal,
           NEW pc \in Removal, Goto(c, pc), NoWrite
    PROVE  WakeInv'
<1> DEFINE v == [work[c] EXCEPT !.pc = pc]
<1>1. work[c] \in Workers
  BY DEF IInv, Types
<1>2. v.ref = work[c].ref /\ v.pc = pc
  BY <1>1 DEF Workers
<1>3. work' = [work EXCEPT ![c] = v] /\ UNCHANGED <<obj, cache, current, queue>>
  BY DEF Goto, NoWrite, IInv, Types
<1> HIDE DEF v
<1>4. Aside(c, work[c].ref)
  BY <1>2, <1>3 DEF Aside, IInv, Types
<1> QED
  BY <1>2, <1>3, <1>4, RemovalWakes

(* The reads of a removal, and the removal of the protection.                 *)
LEMMA UnprotectWakes ==
    ASSUME IInv, WakeInv, NEW c \in Controllers,
           GetRegistry(c) \/ ListTargets(c) \/ ListBindings(c) \/ Unprotect(c)
    PROVE  WakeInv'
<1>1. CASE GetRegistry(c)
  BY Zenon, <1>1, GotoWakes DEF GetRegistry, Removal
<1>2. CASE ListTargets(c)
  BY ZenonT(40), <1>2, GotoWakes DEF ListTargets, Removal
<1>3. CASE ListBindings(c)
  BY <1>3, GotoWakes DEF ListBindings, Removal
<1>4. CASE Unprotect(c)
  <2> DEFINE rec == Stored([obj[Registry] EXCEPT !.fin = FALSE])
             v == [work[c] EXCEPT !.pc = "removeFinalizer"]
  <2>1. work[c].pc = "unprotect" /\ work[c].pc \in Removal /\ work[c].pc # "idle"
    BY <1>4 DEF Unprotect, Removal
  <2>2. ASSUME Goto(c, "removeFinalizer"), NoWrite PROVE WakeInv'
    BY Zenon, <2>1, <2>2, GotoWakes DEF Removal
  <2>3. ASSUME Write(c, Registry, rec, "removeFinalizer") PROVE WakeInv'
    <3>1. work[c] \in Workers
      BY DEF IInv, Types
    <3>2. v \in Workers /\ v.ref = work[c].ref /\ v.pc = "removeFinalizer" /\ v.pc \in Removal
      BY <3>1 DEF Workers, Removal
    <3>3. /\ obj' = [obj EXCEPT ![Registry] = rec] /\ current' = current \ {Registry}
          /\ UNCHANGED <<cache, queue>> /\ work' = Stale(Registry, [work EXCEPT ![c] = v])
      BY <2>3 DEF Write, Put
    <3> HIDE DEF v, rec
    <3>4. /\ [work EXCEPT ![c] = v] \in [Controllers -> Workers]
          /\ [work EXCEPT ![c] = v][c] = v
      BY <3>2 DEF IInv, Types
    <3>5. Aged(Registry, [work EXCEPT ![c] = v])
      BY Zenon, <3>3, <3>4, StaleFacts, Kinds
    <3>6. Aside(c, work[c].ref)
      BY Zenon, <3>2, <3>5, AsideAges
    <3>7. \A y \in Refs : obj'[y] = obj[y]
      BY Zenon, <3>3, Kinds DEF IInv, Types
    <3> QED
      BY <3>3, <3>6, <3>7, <2>1, RemovalWakes
  <2> HIDE DEF rec
  <2> QED
    BY <1>4, <2>1, <2>2, <2>3, FailWakes DEF Unprotect, rec
<1> QED
  BY Zenon, <1>1, <1>2, <1>3, <1>4

(* The own finalizer is removed, or need not be.                              *)
LEMMA RemoveFinalizerWakes ==
    ASSUME IInv, WakeInv, NEW c \in Controllers, RemoveFinalizer(c)
    PROVE  WakeInv'
<1> SUFFICES ASSUME NEW x, x = work[c].ref PROVE WakeInv'
  OBVIOUS
<1> DEFINE rec == Stored([obj[x] EXCEPT !.fin = FALSE])
<1>1. work[c].pc = "removeFinalizer" /\ work[c].pc \in Removal /\ work[c].pc # "idle"
  BY ZenonT(40) DEF RemoveFinalizer, Removal
<1>2. x \in Objects
  BY <1>1, Holding
<1>3. CASE ~work[c].seen.fin
  <2>1. work' = [work EXCEPT ![c] = Idle] /\ UNCHANGED <<obj, cache, current, queue>>
    BY Zenon, <1>3 DEF RemoveFinalizer, Done, NoWrite
  <2>2. Aside(c, x)
    BY <2>1, IdleFacts DEF Aside, IInv, Types
  <2> QED
    BY <2>1, <2>2, <1>1, RemovalWakes
<1>4. CASE work[c].seen.fin /\ (cache[x] = None \/ obj[x] = None)
  BY <1>1, <1>4, FailWakes DEF RemoveFinalizer
<1>5. CASE work[c].seen.fin /\ cache[x] # None /\ obj[x] # None
  <2>1. Put(x, rec) /\ work' = Stale(x, [work EXCEPT ![c] = Idle])
        /\ UNCHANGED <<cache, queue, timers>>
    BY Zenon, <1>5 DEF RemoveFinalizer, Write
  <2>2. [work EXCEPT ![c] = Idle] \in [Controllers -> Workers]
    BY IdleFacts DEF IInv, Types
  <2>3. Aged(x, [work EXCEPT ![c] = Idle])
    BY Zenon, <2>1, <2>2, <1>2, StaleFacts
  <2> HIDE DEF rec
  <2> QED
    BY Zenon, <2>1, <2>3, <1>1, IdleFacts, OwnWriteWakes
<1> QED
  BY <1>3, <1>4, <1>5

(* At the start every Target that is there is right.                          *)
LEMMA InitAwake == Init => WakeInv
<1> SUFFICES ASSUME Init, NEW t \in Targets, Active(t)
             PROVE  Right(t) /\ work[Targets].ref # t
  BY DEF WakeInv, Awake
<1>1. PICK there \in SUBSET Refs :
         obj = [o \in Objects |->
                  IF o \in Refs \ there THEN None
                  ELSE [New(o) EXCEPT !.fin = o # Grant /\ there # {},
                                      !.info = IF o \in Targets THEN "Resolved" ELSE @]]
  BY Zenon DEF Init
<1>2. cache = obj /\ work[Targets] = Idle
  BY Zenon, Kinds DEF Init
<1>3. t \in Refs /\ t \in Objects /\ Registry \notin Targets /\ Registry # Grant /\ t # Grant
  BY SMTT(30), Kinds, RegistryAssumption DEF Refs
<1>4. t \in there
  BY ZenonT(40), <1>1, <1>3 DEF Active
<1>5. obj[t] = [New(t) EXCEPT !.fin = TRUE, !.info = "Resolved"]
  BY Zenon, <1>1, <1>3, <1>4
<1>6. obj[t].fin /\ obj[t].info = "Resolved"
  BY SMTT(30), <1>5 DEF New
<1>7. obj[Registry] = [New(Registry) EXCEPT !.fin = TRUE, !.info = New(Registry).info]
  BY Zenon, <1>1, <1>3, <1>4, Kinds DEF New
<1>8. obj[Registry].fin /\ obj[Registry].info = "secret" /\ obj[Registry] \in Recs
  BY Zenon, <1>3, <1>7 DEF New, Recs, Reasons
<1>9. obj[Grant] # None
  <2>1. obj[Grant] = [New(Grant) EXCEPT !.fin = FALSE, !.info = New(Grant).info]
    BY Zenon, <1>1, <1>3, Kinds DEF New, Refs
  <2>2. obj[Grant] \in Recs
    BY ZenonT(40), <2>1 DEF New, Recs, Reasons
  <2> QED
    BY <2>2, Kinds
<1>10. Gate(t) = "Resolved"
  BY <1>2, <1>8, <1>9, Kinds DEF Gate
<1> QED
  BY ZenonT(40), <1>2, <1>3, <1>6, <1>8, <1>10, IdleFacts, Kinds DEF Right,
     Guarded

(* Every step keeps the Targets awake.                                        *)
LEMMA NextWakes == IInv /\ WakeInv /\ [Next]_vars => WakeInv'
<1> SUFFICES ASSUME IInv, WakeInv, [Next]_vars PROVE WakeInv'
  OBVIOUS
<1>1. CASE \E o \in Objects : Create(o) \/ Delete(o) \/ Sync(o)
  BY <1>1, UserPutWakes, SyncWakes DEF Create, Delete
<1>2. CASE \E v \in {"secret", "none"} : SetSolarSecretRef(v)
  BY <1>2, UserPutWakes, Kinds DEF SetSolarSecretRef
<1>3. CASE Restart \/ \E t \in Targets : RequeueAfter(t)
  BY <1>3, TimersWake
<1>4. ASSUME NEW c \in Controllers, Step(c) PROVE WakeInv'
  BY Zenon, <1>4, FetchWakes, AddFinalizerWakes, ProtectWakes,
     SetConditionWakes, UnprotectWakes,
     RemoveFinalizerWakes DEF Step
<1>5. ASSUME NEW c \in Controllers, CallFails(c) PROVE WakeInv'
  BY ZenonT(40), <1>5, FailWakes DEF CallFails
<1>6. CASE UNCHANGED vars
  BY <1>6 DEF vars, WakeInv, Awake, Active, Pending, Handled, Right, Guarded, Blocked, Gate
<1> QED
  BY <1>1, <1>2, <1>3, <1>4, <1>5, <1>6 DEF Next

(* For every Target there is a request, an event or a worker that will see to *)
(* it, or it is right.                                                        *)
THEOREM WakeInvariance == Spec => []WakeInv
  BY InitAwake, NextWakes, Invariance, PTL DEF Spec

(* No wake-up of a Target is lost: when the manager is at rest, the condition *)
(* of every active Target is what is the case with its Registry, and the      *)
(* Registry is protected.                                                     *)
THEOREM NoWakeUpIsLost == Spec => []QuietTargetsAreRight
<1>1. IInv /\ WakeInv => QuietTargetsAreRight
  <2> SUFFICES ASSUME IInv, WakeInv, Quiet, NEW t \in Targets, Active(t)
               PROVE  /\ obj[t].fin /\ obj[t].info = Wanted(t)
                      /\ Active(Registry) /\ Wanted(t) # "NotGranted" => obj[Registry].fin
    BY DEF QuietTargetsAreRight
  <2>1. t \in Refs /\ t \in Objects /\ Targets \in Controllers
    BY Zenon, Kinds DEF Refs
  <2>2. work[Targets].ref = None /\ t # None
    BY Zenon, <2>1, Kinds DEF Quiet, IInv, WorkerInv, WorkerOK
  <2>3. \A o \in Objects : cache[o] = obj[o]
    BY Zenon DEF Quiet, IInv, ObjectsInv
  <2>4. Right(t)
    BY Zenon, <2>1, <2>2 DEF WakeInv, Awake, Pending, Quiet
  <2>5. Gate(t) = Wanted(t)
    BY ZenonT(40), <2>3, Kinds DEF Gate, Wanted
  <2>6. Active(Registry) /\ Wanted(t) # "NotGranted" => obj[Registry].fin
    BY <2>3, <2>4, <2>5, Kinds DEF Right, Guarded, Blocked, Wanted, Active, Quiet
  <2> QED
    BY Zenon, <2>4, <2>5, <2>6 DEF Right
<1> QED
  BY <1>1, Invariance, WakeInvariance, PTL
=============================================================================
