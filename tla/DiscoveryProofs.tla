-------------------------- MODULE DiscoveryProofs ---------------------------
(***************************************************************************)
(* Proofs about Discovery, for every finite set of repositories and        *)
(* versions, every capacity of the channels and every number of changes    *)
(* and faults: the types, that a pipeline that was stopped does not write  *)
(* any more, that the four stages implement the one line of events of      *)
(* Delivery, and that the catalog never goes back to an earlier content.   *)
(***************************************************************************)
EXTENDS Discovery, TLAPS

-----------------------------------------------------------------------------
(* Lines of events                                                           *)

(* Concatenation is associative.                                             *)
LEMMA Associative ==
    ASSUME NEW S
    PROVE  \A s, t, u \in Seq(S) : (s \o t) \o u = s \o (t \o u)
OBVIOUS

(* A sequence over a set is one over a larger set.                           *)
LEMMA SeqLarger ==
    ASSUME NEW S, NEW T, S \subseteq T
    PROVE  Seq(S) \subseteq Seq(T)
OBVIOUS

(* Sequences with the same elements are the same.                            *)
LEMMA EqualSeqs ==
    ASSUME NEW S, NEW s \in Seq(S), NEW t \in Seq(S), NEW n, Len(s) = n, Len(t) = n,
           \A k \in 1 .. n : s[k] = t[k]
    PROVE  s = t
OBVIOUS

(* Only the empty sequence has no element.                                   *)
LEMMA NonEmpty ==
    ASSUME NEW S, NEW s \in Seq(S)
    PROVE  Len(s) \in Nat /\ (Len(s) = 0 <=> s = <<>>)
OBVIOUS

(* The empty sequence adds nothing.                                          *)
LEMMA ConcatEmpty ==
    ASSUME NEW S, NEW s \in Seq(S)
    PROVE  s \o <<>> = s /\ <<>> \o s = s /\ <<>> \o <<>> = <<>>
OBVIOUS

(* To append an element is to concatenate it.                                *)
LEMMA AppendConcat ==
    ASSUME NEW S, NEW s \in Seq(S), NEW e \in S
    PROVE  Append(s, e) = s \o <<e>>
OBVIOUS

(* The n elements from the place i on.                                       *)
LEMMA PartFacts ==
    ASSUME NEW S, NEW s, NEW i \in Int, NEW n \in Nat, NEW j, j = i + n - 1,
           \A k \in i .. j : s[k] \in S
    PROVE  /\ SubSeq(s, i, j) \in Seq(S) /\ Len(SubSeq(s, i, j)) = n
           /\ \A k \in 1 .. n : SubSeq(s, i, j)[k] = s[i + k - 1]
OBVIOUS

(* A sequence is its head and its tail.                                      *)
LEMMA HeadTail ==
    ASSUME NEW S, NEW s \in Seq(S), s # <<>>
    PROVE  s = <<Head(s)>> \o Tail(s) /\ Head(s) \in S /\ Tail(s) \in Seq(S)
<1>1. Head(s) \in S /\ Tail(s) \in Seq(S) /\ Len(s) \in Nat /\ <<Head(s)>> \in Seq(S)
  OBVIOUS
<1>2. Len(s) = Len(<<Head(s)>> \o Tail(s))
  BY <1>1
<1>3. \A i \in 1 .. Len(s) : s[i] = (<<Head(s)>> \o Tail(s))[i]
  BY <1>1
<1> QED
  BY <1>1, <1>2, <1>3, EqualSeqs

(* Taking the head of s into the hand leaves the line as it was.             *)
LEMMA RecvSame ==
    ASSUME NEW S, NEW A \in Seq(S), NEW s \in Seq(S), s # <<>>
    PROVE  (A \o <<>>) \o s = (A \o <<Head(s)>>) \o Tail(s)
<1>1. Head(s) \in S /\ Tail(s) \in Seq(S) /\ s = <<Head(s)>> \o Tail(s)
  BY HeadTail
<1>2. A \o <<>> = A
  BY ConcatEmpty
<1>3. <<Head(s)>> \in Seq(S)
  BY <1>1
<1>4. (A \o <<Head(s)>>) \o Tail(s) = A \o (<<Head(s)>> \o Tail(s))
  BY SMTT(30), <1>1, <1>3, Associative
<1> QED
  BY SMTT(30), <1>1, <1>2, <1>4

(* Moving the first output o to the channel c leaves the line as it was.     *)
LEMMA MoveSame ==
    \A A, c, o \in Seq(Events) :
        o # <<>> => (A \o Append(c, Head(o))) \o Tail(o) = (A \o c) \o o
<1> SUFFICES ASSUME NEW A \in Seq(Events), NEW c \in Seq(Events), NEW o \in Seq(Events),
                    o # <<>>
             PROVE  (A \o Append(c, Head(o))) \o Tail(o) = (A \o c) \o o
  BY Zenon
<1>1. Head(o) \in Events /\ Tail(o) \in Seq(Events) /\ o = <<Head(o)>> \o Tail(o)
  BY HeadTail
<1>2. <<Head(o)>> \in Seq(Events) /\ A \o c \in Seq(Events)
  BY <1>1
<1>3. Append(c, Head(o)) = c \o <<Head(o)>>
  BY <1>1, AppendConcat
<1>4. A \o Append(c, Head(o)) = (A \o c) \o <<Head(o)>>
  BY SMTT(30), <1>2, <1>3, Associative
<1>5. ((A \o c) \o <<Head(o)>>) \o Tail(o) = (A \o c) \o (<<Head(o)>> \o Tail(o))
  BY SMTT(30), <1>1, <1>2, Associative
<1> QED
  BY Zenon, <1>1, <1>4, <1>5

(* In l one event e stands where m has the events out.                       *)
Replaced(l, m, e, out) ==
    \E A, B \in Seq(Events) : l = (A \o <<e>>) \o B /\ m = (A \o out) \o B

(* So is that of lines of events.                                            *)
LEMMA AssociativeEvents == \A s, t, u \in Seq(Events) : (s \o t) \o u = s \o (t \o u)
BY SMTT(30), Associative

(* More events behind do not matter.                                         *)
LEMMA ReplacedRight ==
    ASSUME NEW e \in Events, NEW out \in Seq(Events), NEW l, NEW m,
           Replaced(l, m, e, out), NEW C \in Seq(Events)
    PROVE  Replaced(l \o C, m \o C, e, out)
<1> DEFINE Cat(s, t) == s \o t
<1>1. PICK A \in Seq(Events), B \in Seq(Events) :
         l = Cat(Cat(A, <<e>>), B) /\ m = Cat(Cat(A, out), B)
  BY Zenon DEF Replaced
<1>2. \A s, t, u \in Seq(Events) : Cat(Cat(s, t), u) = Cat(s, Cat(t, u))
  BY Zenon, AssociativeEvents
<1>3. <<e>> \in Seq(Events) /\ \A s, t \in Seq(Events) : Cat(s, t) \in Seq(Events)
  OBVIOUS
<1> DEFINE one == <<e>>
           P == Cat(A, one)
           Q == Cat(A, out)
           D == Cat(B, C)
<1>4. Cat(P, D) = (A \o <<e>>) \o D /\ Cat(Q, D) = (A \o out) \o D
  BY Zenon
<1>5. l \o C = Cat(l, C) /\ m \o C = Cat(m, C)
  BY Zenon
<1> HIDE DEF Cat
<1>6. P \in Seq(Events) /\ Q \in Seq(Events) /\ D \in Seq(Events)
  BY Zenon, <1>3
<1>7. l = Cat(P, B) /\ m = Cat(Q, B)
  BY Zenon, <1>1
<1> HIDE DEF P, Q, D
<1>8. Cat(l, C) = Cat(P, D)
  BY <1>2, <1>6, <1>7 DEF D
<1>9. Cat(m, C) = Cat(Q, D)
  BY <1>2, <1>6, <1>7 DEF D
<1>10. l \o C = (A \o <<e>>) \o D /\ m \o C = (A \o out) \o D
  BY Zenon, <1>4, <1>5, <1>8, <1>9
<1> QED
  BY Zenon, <1>6, <1>10 DEF Replaced

(* The last event is replaced.                                               *)
LEMMA ReplacedLast ==
    ASSUME NEW e \in Events, NEW out \in Seq(Events), NEW A \in Seq(Events)
    PROVE  Replaced(A \o <<e>>, A \o out, e, out)
<1>1. <<>> \in Seq(Events) /\ A \o <<e>> \in Seq(Events) /\ A \o out \in Seq(Events)
  OBVIOUS
<1>2. (A \o <<e>>) \o <<>> = A \o <<e>> /\ (A \o out) \o <<>> = A \o out
  BY <1>1, ConcatEmpty
<1> QED
  BY Zenon, <1>1, <1>2 DEF Replaced

(* The elements of a concatenation.                                          *)
LEMMA ConcatFacts ==
    ASSUME NEW s \in Seq(Events), NEW t \in Seq(Events), NEW p, p = Len(s), NEW q, q = Len(t),
           NEW l, l = s \o t
    PROVE  /\ l \in Seq(Events) /\ Len(l) = p + q
           /\ \A k \in 1 .. p + q : l[k] = IF k <= p THEN s[k] ELSE t[k - p]
OBVIOUS

(* The event e at place i of l is replaced by the n events out.              *)
Rewritten(l, m, e, out, i, n) ==
    /\ n = Len(out) /\ l[i] = e /\ i \in Nat
    /\ Len(m) = Len(l) - 1 + n
    /\ SubSeq(m, 1, i - 1) = SubSeq(l, 1, i - 1)
    /\ SubSeq(m, i + n, Len(m)) = SubSeq(l, i + 1, Len(l))
    /\ \A j \in i .. i + n - 1 : m[j] = out[j - i + 1]

(* The places of a line in which one event is replaced.                      *)
LEMMA ReplacedPlaces ==
    ASSUME NEW e \in Events, NEW out \in Seq(Events), NEW l, NEW m, Replaced(l, m, e, out)
    PROVE  \E i \in 1 .. Len(l), n \in 0 .. Len(m) : Rewritten(l, m, e, out, i, n)
<1>a. PICK A \in Seq(Events), B \in Seq(Events) :
         l = (A \o <<e>>) \o B /\ m = (A \o out) \o B
  BY Zenon DEF Replaced
<1> DEFINE i == Len(A) + 1
           n == Len(out)
           a == Len(A)
           b == Len(B)
           P == A \o <<e>>
           Q == A \o out
<1>1. a \in Nat /\ n \in Nat /\ b \in Nat
  OBVIOUS
<1>2. P \in Seq(Events) /\ Len(P) = a + 1 /\ P[a + 1] = e /\ \A k \in 1 .. a : P[k] = A[k]
  OBVIOUS
<1>b. /\ Q \in Seq(Events) /\ Len(Q) = a + n /\ \A k \in 1 .. a : Q[k] = A[k]
      /\ \A k \in a + 1 .. a + n : Q[k] = out[k - a]
  OBVIOUS
<1>c. l = P \o B /\ m = Q \o B
  BY Zenon, <1>a
<1> HIDE DEF P, Q, a, n, b
<1>d. /\ l \in Seq(Events) /\ Len(l) = a + 1 + b
      /\ \A k \in 1 .. a + 1 + b : l[k] = IF k <= a + 1 THEN P[k] ELSE B[k - (a + 1)]
  <2>1. /\ l \in Seq(Events) /\ Len(l) = Len(P) + b
        /\ \A k \in 1 .. Len(P) + b : l[k] = IF k <= Len(P) THEN P[k] ELSE B[k - Len(P)]
    <3>1. P \in Seq(Events) /\ l = P \o B
      BY <1>2, <1>c
    <3> QED
      BY <3>1, ConcatFacts DEF b
  <2>2. Len(P) = a + 1
    BY <1>2
  <2> QED
    BY Zenon, <2>1, <2>2
<1>e. /\ m \in Seq(Events) /\ Len(m) = a + n + b
      /\ \A k \in 1 .. a + n + b : m[k] = IF k <= a + n THEN Q[k] ELSE B[k - (a + n)]
  <2>1. /\ m \in Seq(Events) /\ Len(m) = Len(Q) + b
        /\ \A k \in 1 .. Len(Q) + b : m[k] = IF k <= Len(Q) THEN Q[k] ELSE B[k - Len(Q)]
    <3>1. Q \in Seq(Events) /\ m = Q \o B
      BY <1>b, <1>c
    <3> QED
      BY <3>1, ConcatFacts DEF b
  <2>2. Len(Q) = a + n
    BY <1>b
  <2> QED
    BY Zenon, <2>1, <2>2
<1>3. l \in Seq(Events) /\ Len(l) = a + 1 + b /\ m \in Seq(Events) /\ Len(m) = a + n + b
  BY <1>d, <1>e
<1>4. /\ \A k \in 1 .. a : l[k] = A[k] /\ m[k] = A[k]
      /\ l[a + 1] = e
      /\ \A k \in a + 1 .. a + n : m[k] = out[k - a]
      /\ \A k \in 1 .. b : l[a + 1 + k] = B[k] /\ m[a + n + k] = B[k]
  <2>1. ASSUME NEW k \in 1 .. a PROVE l[k] = A[k] /\ m[k] = A[k]
    <3>1. k \in 1 .. a + 1 + b /\ k \in 1 .. a + n + b /\ k <= a + 1 /\ k <= a + n
      BY <1>1
    <3> QED
      BY SMTT(30), <3>1, <1>2, <1>b, <1>d, <1>e
  <2>2. l[a + 1] = e
    <3>1. a + 1 \in 1 .. a + 1 + b /\ a + 1 <= a + 1
      BY <1>1
    <3> QED
      BY <3>1, <1>2, <1>d
  <2>3. ASSUME NEW k \in a + 1 .. a + n PROVE m[k] = out[k - a]
    <3>1. k \in 1 .. a + n + b /\ k <= a + n
      BY <1>1
    <3> QED
      BY <3>1, <1>b, <1>e
  <2>4. ASSUME NEW k \in 1 .. b PROVE l[a + 1 + k] = B[k]
    <3>1. a + 1 + k \in 1 .. a + 1 + b /\ ~(a + 1 + k <= a + 1) /\ (a + 1 + k) - (a + 1) = k
      BY <1>1
    <3> QED
      BY <3>1, <1>d
  <2>5. ASSUME NEW k \in 1 .. b PROVE m[a + n + k] = B[k]
    <3>1. a + n + k \in 1 .. a + n + b /\ ~(a + n + k <= a + n) /\ (a + n + k) - (a + n) = k
      BY <1>1
    <3> QED
      BY <3>1, <1>e
  <2> QED
    BY Zenon, <2>1, <2>2, <2>3, <2>4, <2>5
<1>5. SubSeq(m, 1, a) = SubSeq(l, 1, a)
  <2>1. (\A k \in 1 .. a : m[k] \in Events) /\ (\A k \in 1 .. a : l[k] \in Events)
    BY <1>1, <1>3
  <2>2. /\ SubSeq(m, 1, a) \in Seq(Events) /\ SubSeq(l, 1, a) \in Seq(Events)
        /\ Len(SubSeq(m, 1, a)) = Len(SubSeq(l, 1, a))
        /\ Len(SubSeq(m, 1, a)) = a
        /\ \A k \in 1 .. a : SubSeq(m, 1, a)[k] = m[k] /\ SubSeq(l, 1, a)[k] = l[k]
    BY <1>1, <2>1, PartFacts
  <2> QED
    BY <1>4, <2>2, EqualSeqs
<1>6. SubSeq(m, a + 1 + n, Len(m)) = SubSeq(l, a + 2, Len(l))
  <2>1. /\ \A k \in a + 1 + n .. Len(m) : m[k] \in Events
        /\ \A k \in a + 2 .. Len(l) : l[k] \in Events
    BY SMTT(30), <1>1, <1>3
  <2>2. /\ SubSeq(m, a + 1 + n, Len(m)) \in Seq(Events)
        /\ Len(SubSeq(m, a + 1 + n, Len(m))) = b
        /\ \A k \in 1 .. b : SubSeq(m, a + 1 + n, Len(m))[k] = m[a + n + k]
    <3>1. a + 1 + n \in Int /\ b \in Nat /\ Len(m) = (a + 1 + n) + b - 1
      BY <1>1, <1>3
    <3>2. \A k \in 1 .. b : (a + 1 + n) + k - 1 = a + n + k
      BY <1>1
    <3> DEFINE p == a + 1 + n
               q == Len(m)
    <3>3. p \in Int /\ q = p + b - 1 /\ \A k \in p .. q : m[k] \in Events
      BY Zenon, <2>1, <3>1
    <3> HIDE DEF p, q
    <3>4. /\ SubSeq(m, p, q) \in Seq(Events) /\ Len(SubSeq(m, p, q)) = b
          /\ \A k \in 1 .. b : SubSeq(m, p, q)[k] = m[p + k - 1]
      BY <3>1, <3>3, PartFacts
    <3> QED
      BY Zenon, <3>2, <3>4 DEF p, q
  <2>3. /\ SubSeq(l, a + 2, Len(l)) \in Seq(Events)
        /\ Len(SubSeq(l, a + 2, Len(l))) = b
        /\ \A k \in 1 .. b : SubSeq(l, a + 2, Len(l))[k] = l[a + 1 + k]
    <3>1. a + 2 \in Int /\ b \in Nat /\ Len(l) = (a + 2) + b - 1
      BY <1>1, <1>3
    <3>2. \A k \in 1 .. b : (a + 2) + k - 1 = a + 1 + k
      BY <1>1
    <3> DEFINE p == a + 2
               q == Len(l)
    <3>3. p \in Int /\ q = p + b - 1 /\ \A k \in p .. q : l[k] \in Events
      BY Zenon, <2>1, <3>1
    <3> HIDE DEF p, q
    <3>4. /\ SubSeq(l, p, q) \in Seq(Events) /\ Len(SubSeq(l, p, q)) = b
          /\ \A k \in 1 .. b : SubSeq(l, p, q)[k] = l[p + k - 1]
      BY <3>1, <3>3, PartFacts
    <3> QED
      BY Zenon, <3>2, <3>4 DEF p, q
  <2> DEFINE u == SubSeq(m, a + 1 + n, Len(m))
             w == SubSeq(l, a + 2, Len(l))
  <2>4. u \in Seq(Events) /\ w \in Seq(Events) /\ Len(u) = b /\ Len(w) = b
        /\ \A k \in 1 .. b : u[k] = w[k]
    BY Zenon, <1>4, <2>2, <2>3
  <2> HIDE DEF u, w
  <2>5. u = w
    BY <2>4, EqualSeqs
  <2> QED
    BY Zenon, <2>5 DEF u, w
<1>7. i = a + 1 /\ i - 1 = a /\ i + n = a + 1 + n /\ i + 1 = a + 2
  BY <1>1 DEF a
<1>f. n = Len(out)
  BY DEF n
<1> HIDE DEF i
<1>8. i \in 1 .. Len(l) /\ n \in 0 .. Len(m) /\ l[i] = e /\ Len(m) = Len(l) - 1 + n
      /\ i \in Nat
  BY <1>1, <1>3, <1>4, <1>7
<1>9. SubSeq(m, 1, i - 1) = SubSeq(l, 1, i - 1)
  BY Zenon, <1>5, <1>7
<1>10. SubSeq(m, i + n, Len(m)) = SubSeq(l, i + 1, Len(l))
  BY Zenon, <1>6, <1>7
<1>11. \A j \in i .. i + n - 1 : m[j] = out[j - i + 1]
  BY SMTT(30), <1>1, <1>4, <1>7
<1> QED
  BY Zenon, <1>f, <1>8, <1>9, <1>10, <1>11 DEF Rewritten
-----------------------------------------------------------------------------
(* What a stage may receive: the qualifier gives every event but a deletion  *)
(* its version, the handler the content it read.                             *)
EventsAt(i) ==
    {e \in Events : e.type # "deleted" =>
        (i > Qualifier => e.ver \in Versions) /\ (i > Handler => e.spec \in Deployable)}

StageRecs ==
    [pc : {"off", "idle", "busy", "out", "done"}, ev : Events \cup {None},
     out : Seq(Events)]

StageOK(i, s) ==
    /\ s.ev \in EventsAt(i) \cup {None} /\ s.out \in Seq(EventsAt(i + 1))
    /\ s.pc = "busy" <=> s.ev # None
    /\ s.pc = "out" <=> s.out # <<>>
    /\ i = Writer => s.out = <<>>
    /\ i = Handler => Len(s.out) <= 1

PipeTypes ==
    /\ chan \in [Stages -> Seq(Events)] /\ stage \in [Stages -> StageRecs]
    /\ \A i \in Stages :
         chan[i] \in Seq(EventsAt(i)) /\ Len(chan[i]) <= Cap[i] /\ StageOK(i, stage[i])

(* Every entry of the catalog c has the name of the image it describes.      *)
Named(c) == \A n \in Names : c[n] # None => ComponentVersionName[c[n].img] = n

RestTypes ==
    /\ images \in [Images -> Digests \cup {None}] /\ notices \subseteq Events
    /\ scan \in [pc : {"off", "started", "first", "ticking", "done"}, locked : BOOLEAN,
                 todo : SUBSET Repos]
    /\ cvs \in [Names -> Entries \cup {None}] /\ Named(cvs)
    /\ pushes \in Nat /\ changes \in 0 .. MaxChanges /\ pushes <= FirstPushes + changes

Taken == requests \subseteq notices

Types == PipeTypes /\ RestTypes /\ Taken

(* There are finitely many images.                                           *)
LEMMA FirstPushesType == FirstPushes \in Nat /\ Digests \subseteq Nat
<1>1. {x \in Images : Initial[x] # None} \in SUBSET Images
  OBVIOUS
<1>2. FirstPushes \in Nat
  BY <1>1, DiscoveryAssumption DEF FirstPushes
<1> QED
  BY <1>2, DiscoveryAssumption DEF Digests

(* An event has its type.                                                    *)
LEMMA EventType ==
    ASSUME NEW t \in {"created", "updated", "deleted"}, NEW r \in Repos,
           NEW v \in Versions \cup {None}, NEW d \in Digests \cup {None}
    PROVE  Event(t, r, v, d) \in EventsAt(Qualifier)
BY DEF Event, Events, EventsAt, Qualifier, Handler

(* The types of the stages are nested.                                       *)
LEMMA EventsAtFacts ==
    ASSUME NEW i \in Stages
    PROVE  EventsAt(i) \subseteq Events /\ EventsAt(i + 1) \subseteq EventsAt(i)
BY DEF EventsAt, Stages, Qualifier, Handler, Writer

(* An event is forwarded with the type the next stage expects.               *)
LEMMA QualifierOutput ==
    ASSUME RestTypes, NEW e \in EventsAt(Qualifier), NEW out \in QualifierProcess(e)
    PROVE  /\ out \in Seq(EventsAt(Filter))
           /\ \A k \in 1 .. Len(out) : Promise!Stems(out[k], e)
<1>1. CASE e.type = "deleted" \/ e.ver # None
  <2>1. out = <<e>>
    BY <1>1 DEF QualifierProcess
  <2>2. e \in EventsAt(Filter)
    BY <1>1 DEF EventsAt, Events, Filter, Qualifier, Handler
  <2>3. Promise!Stems(e, e)
    BY DEF Promise!Stems
  <2> QED
    BY <2>1, <2>2, <2>3
<1>2. CASE ~(e.type = "deleted" \/ e.ver # None)
  <2> DEFINE V == VersionsOf(e.repo)
             n == Cardinality(V)
  <2>1. PICK q \in Bijection(1 .. n, V) : out = [k \in 1 .. n |-> [e EXCEPT !.ver = q[k]]]
    BY <1>2 DEF QualifierProcess
  <2>2. V \in SUBSET Versions
    BY DEF VersionsOf
  <2> HIDE DEF V
  <2>3. n \in Nat /\ q \in [1 .. n -> V]
    <3>1. n \in Nat
      <4>1. \A S \in (SUBSET Images) \cup (SUBSET Versions) : Cardinality(S) \in Nat
        BY Zenon, DiscoveryAssumption
      <4>2. V \in (SUBSET Images) \cup (SUBSET Versions)
        BY <2>2
      <4> QED
        BY Zenon, <4>1, <4>2
    <3> HIDE DEF n
    <3>2. q \in [1 .. n -> V]
      BY DEF Bijection, Injection
    <3> QED
      BY Zenon, <3>1, <3>2
  <2> HIDE DEF n
  <2>4. ASSUME NEW k \in 1 .. n
        PROVE  /\ [e EXCEPT !.ver = q[k]] \in EventsAt(Filter)
               /\ Promise!Stems([e EXCEPT !.ver = q[k]], e)
    <3>1. q[k] \in Versions
      BY <2>2, <2>3
    <3>2. e \in Events /\ e.ver = None
      BY <1>2 DEF EventsAt
    <3> QED
      BY <3>1, <3>2 DEF EventsAt, Events, Promise!Stems, Filter, Qualifier, Handler
  <2> QED
    BY SMTT(30), <2>1, <2>3, <2>4
<1> QED
  BY <1>1, <1>2

(* The handler gives an event the content it reads.                          *)
LEMMA HandlerOutput ==
    ASSUME RestTypes, NEW e \in EventsAt(Handler), NEW out \in HandlerProcess(e)
    PROVE  \/ out = <<>>
           \/ /\ e.type = "deleted" /\ e \in EventsAt(Writer) /\ out = <<e>>
           \/ /\ e.type # "deleted" /\ <<e.repo, e.ver>> \in Images
              /\ images[<<e.repo, e.ver>>] \in Digests
              /\ [e EXCEPT !.spec = images[<<e.repo, e.ver>>]] \in EventsAt(Writer)
              /\ out = <<[e EXCEPT !.spec = images[<<e.repo, e.ver>>]]>>
<1>1. CASE e.type = "deleted"
  BY <1>1 DEF HandlerProcess, EventsAt
<1>2. CASE e.type # "deleted"
  <2>1. e \in Events /\ e.repo \in Repos /\ e.ver \in Versions
    BY <1>2 DEF EventsAt, Events, Handler, Qualifier
  <2> DEFINE d == images[<<e.repo, e.ver>>]
  <2>2. <<e.repo, e.ver>> \in Images /\ d \in Digests \cup {None}
    BY <2>1 DEF RestTypes, Images
  <2>3. CASE d \in Deployable
    <3>1. d \in Digests
      BY <2>2, <2>3, NoneAssumption
    <3>2. out = <<[e EXCEPT !.spec = d]>>
      BY <1>2, <2>3 DEF HandlerProcess
    <3> HIDE DEF d
    <3>3. [e EXCEPT !.spec = d] \in EventsAt(Writer)
      BY <2>1, <2>3, <3>1 DEF EventsAt, Events
    <3> QED
      BY <1>2, <2>2, <3>1, <3>2, <3>3 DEF d
  <2>4. CASE d \notin Deployable
    BY <1>2, <2>4 DEF HandlerProcess
  <2> QED
    BY <2>3, <2>4
<1> QED
  BY <1>1, <1>2

(* At most one event is passed on.                                           *)
LEMMA ForwardFacts ==
    ASSUME NEW e, NEW S, NEW out, out = <<>> \/ \E f \in S : out = <<f>> /\ Promise!Stems(f, e)
    PROVE  /\ out \in Seq(S) /\ Len(out) <= 1
           /\ \A k \in 1 .. Len(out) : Promise!Stems(out[k], e)
<1>1. CASE out = <<>>
  BY <1>1
<1>2. CASE \E f \in S : out = <<f>> /\ Promise!Stems(f, e)
  <2>1. PICK f \in S : out = <<f>> /\ Promise!Stems(f, e)
    BY <1>2
  <2>2. Len(out) = 1 /\ out[1] = f /\ out \in Seq(S)
    BY <2>1
  <2> QED
    BY <2>1, <2>2
<1> QED
  BY <1>1, <1>2

(* What a Processor returns has the type the next stage expects and stems    *)
(* from its input.                                                           *)
LEMMA OutputFacts ==
    ASSUME RestTypes, NEW i \in Stages, NEW e \in EventsAt(i), NEW out \in Output(i, e)
    PROVE  /\ out \in Seq(EventsAt(i + 1))
           /\ \A k \in 1 .. Len(out) : Promise!Stems(out[k], e)
           /\ i = Writer => out = <<>>
           /\ i = Handler => Len(out) <= 1
<1>1. CASE i = Qualifier
  BY <1>1, QualifierOutput DEF Output, Qualifier, Filter, Handler, Writer
<1>2. CASE i = Filter
  <2>1. e \in EventsAt(Handler) /\ Promise!Stems(e, e)
    BY <1>2 DEF EventsAt, Filter, Qualifier, Handler, Promise!Stems
  <2>2. out = <<>> \/ out = <<e>>
    BY <1>2 DEF Output, FilterProcess, Qualifier, Filter, Handler, Writer
  <2>3. i + 1 = Handler /\ i # Writer /\ i # Handler
    BY <1>2 DEF Filter, Handler, Writer
  <2> QED
    BY <2>1, <2>2, <2>3, ForwardFacts
<1>3. CASE i = Handler
  <2>1. out \in HandlerProcess(e) /\ i + 1 = Writer /\ i # Writer
    BY <1>3 DEF Output, Qualifier, Filter, Handler, Writer
  <2>2. \/ out = <<>>
        \/ \E f \in EventsAt(Writer) : out = <<f>> /\ Promise!Stems(f, e)
    <3>1. CASE e.type = "deleted"
      BY Zenon, <1>3, <2>1, <3>1, HandlerOutput DEF Promise!Stems
    <3>2. CASE e.type # "deleted"
      <4> DEFINE f == [e EXCEPT !.spec = images[<<e.repo, e.ver>>]]
      <4>1. e \in Events
        BY <1>3 DEF EventsAt
      <4>2. Promise!Stems(f, e)
        BY <4>1 DEF Promise!Stems, Events
      <4>3. out = <<>> \/ (f \in EventsAt(Writer) /\ out = <<f>>)
        BY <1>3, <2>1, <3>2, HandlerOutput
      <4> QED
        BY Zenon, <4>2, <4>3
    <3> QED
      BY <3>1, <3>2
  <2> QED
    BY <2>1, <2>2, ForwardFacts
<1>4. CASE i = Writer
  BY <1>4 DEF Output, Qualifier, Filter, Handler, Writer
<1> QED
  BY <1>1, <1>2, <1>3, <1>4 DEF Stages, Qualifier, Filter, Handler, Writer

(* A channel takes an event if it has room, and no other channel changes.    *)
LEMMA PublishFacts ==
    ASSUME PipeTypes, NEW i \in Stages, NEW e \in EventsAt(i), chan' = Publish(i, e)
    PROVE  /\ chan' \in [Stages -> Seq(Events)]
           /\ \A j \in Stages : chan'[j] \in Seq(EventsAt(j)) /\ Len(chan'[j]) <= Cap[j]
           /\ \A j \in Stages \ {i} : chan'[j] = chan[j]
           /\ chan'[i] = IF HasRoom(i) THEN Append(chan[i], e) ELSE chan[i]
<1>1. e \in Events /\ Cap[i] \in Nat
  BY EventsAtFacts, DiscoveryAssumption
<1>2. CASE HasRoom(i)
  <2>1. chan' = [chan EXCEPT ![i] = Append(chan[i], e)]
    BY <1>2 DEF Publish
  <2>2. Append(chan[i], e) \in Seq(EventsAt(i)) /\ Append(chan[i], e) \in Seq(Events)
    BY <1>1 DEF PipeTypes
  <2>3. Len(Append(chan[i], e)) <= Cap[i]
    BY <1>1, <1>2 DEF PipeTypes, HasRoom
  <2> QED
    BY <1>2, <2>1, <2>2, <2>3 DEF PipeTypes
<1>3. CASE ~HasRoom(i)
  BY <1>3 DEF Publish, PipeTypes
<1> QED
  BY <1>2, <1>3

(* What a stage is left with after a step.                                   *)
LEMMA PipeStep ==
    ASSUME PipeTypes, NEW i \in Stages, NEW s \in StageRecs, StageOK(i, s),
           stage' = [stage EXCEPT ![i] = s], chan' \in [Stages -> Seq(Events)],
           \A j \in Stages : chan'[j] \in Seq(EventsAt(j)) /\ Len(chan'[j]) <= Cap[j]
    PROVE  PipeTypes'
BY Zenon DEF PipeTypes

(* The events of one stage.                                                  *)
LEMMA HeldFacts ==
    ASSUME PipeTypes, NEW i \in Stages
    PROVE  /\ Held(i) \in Seq(Events)
           /\ stage[i].pc = "busy" => stage[i].ev \in EventsAt(i) /\ Held(i) = <<stage[i].ev>>
                                      /\ stage[i].out = <<>>
           /\ stage[i].pc = "out" => stage[i].ev = None /\ Held(i) = stage[i].out
                                     /\ stage[i].out # <<>> /\ i # Writer
           /\ stage[i].pc \notin {"busy", "out"} =>
                stage[i].ev = None /\ stage[i].out = <<>> /\ Held(i) = <<>>
<1>1. stage[i] \in StageRecs /\ StageOK(i, stage[i])
  BY DEF PipeTypes
<1>2. stage[i].ev \in Events \cup {None} /\ stage[i].out \in Seq(Events)
  BY <1>1 DEF StageRecs
<1> QED
  BY <1>1, <1>2 DEF StageOK, Held

(* A stage with nothing to do, and one with an event or outputs.             *)
LEMMA StageForms ==
    ASSUME NEW i \in Stages
    PROVE  /\ \A pc \in {"off", "idle", "done"} :
                LET s == [pc |-> pc, ev |-> None, out |-> <<>>]
                IN  s \in StageRecs /\ StageOK(i, s)
           /\ \A e \in EventsAt(i) :
                LET s == [pc |-> "busy", ev |-> e, out |-> <<>>]
                IN  s \in StageRecs /\ StageOK(i, s)
           /\ \A out \in Seq(EventsAt(i + 1)) :
                out # <<>> /\ i # Writer /\ (i = Handler => Len(out) <= 1) =>
                LET s == [pc |-> "out", ev |-> None, out |-> out]
                IN  s \in StageRecs /\ StageOK(i, s)
<1>1. /\ EventsAt(i) \subseteq Events /\ EventsAt(i + 1) \subseteq Events
      /\ None \notin EventsAt(i) /\ i \in Nat
      /\ <<>> \in Seq(Events) /\ <<>> \in Seq(EventsAt(i + 1)) /\ Len(<<>>) = 0
  BY EventsAtFacts, NoneAssumption DEF Stages, Qualifier, Writer
<1>2. ASSUME NEW pc \in {"off", "idle", "done"}
      PROVE  LET s == [pc |-> pc, ev |-> None, out |-> <<>>]
             IN  s \in StageRecs /\ StageOK(i, s)
  BY <1>1 DEF StageRecs, StageOK
<1>3. ASSUME NEW e \in EventsAt(i)
      PROVE  LET s == [pc |-> "busy", ev |-> e, out |-> <<>>]
             IN  s \in StageRecs /\ StageOK(i, s)
  BY <1>1 DEF StageRecs, StageOK
<1>4. ASSUME NEW out \in Seq(EventsAt(i + 1)), out # <<>>, i # Writer,
             i = Handler => Len(out) <= 1
      PROVE  LET s == [pc |-> "out", ev |-> None, out |-> out]
             IN  s \in StageRecs /\ StageOK(i, s)
  <2>1. out \in Seq(Events)
    BY <1>1, SeqLarger
  <2> QED
    BY <1>1, <1>4, <2>1 DEF StageRecs, StageOK
<1> QED
  BY Zenon, <1>2, <1>3, <1>4

(* The record of a stage that takes an event.                                *)
LEMMA FieldsBusy ==
    ASSUME NEW s \in StageRecs, NEW e \in Events
    PROVE  LET t == [s EXCEPT !.pc = "busy", !.ev = e]
           IN  t \in StageRecs /\ t.pc = "busy" /\ t.ev = e /\ t.out = s.out
BY Zenon DEF StageRecs

(* The record of a stage that ends.                                          *)
LEMMA FieldsDone ==
    ASSUME NEW P, NEW E, NEW O, NEW s \in [pc : P, ev : E, out : O]
    PROVE  [s EXCEPT !.pc = "done"] = [pc |-> "done", ev |-> s.ev, out |-> s.out]
OBVIOUS

(* What Yield leaves a stage with.                                           *)
LEMMA YieldTypes ==
    ASSUME PipeTypes, NEW i \in Stages, NEW out \in Seq(EventsAt(i + 1)), Yield(i, out),
           i = Writer => out = <<>>, i = Handler => Len(out) <= 1,
           chan' \in [Stages -> Seq(Events)],
           \A j \in Stages : chan'[j] \in Seq(EventsAt(j)) /\ Len(chan'[j]) <= Cap[j]
    PROVE  PipeTypes' /\ Held(i)' = out /\ stage'[i].out = out
           /\ \A j \in Stages \ {i} : stage'[j] = stage[j]
<1>1. CASE out = <<>>
  <2> DEFINE s == [pc |-> "idle", ev |-> None, out |-> <<>>]
  <2>1. s \in StageRecs /\ StageOK(i, s)
    BY StageForms
  <2>2. stage' = [stage EXCEPT ![i] = s]
    BY <1>1 DEF Yield
  <2>3. PipeTypes'
    <3> HIDE DEF s
    <3> QED
      BY Zenon, <2>1, <2>2, PipeStep
  <2> QED
    BY SMTT(30), <1>1, <2>2, <2>3 DEF PipeTypes, Held
<1>2. CASE out # <<>>
  <2> DEFINE s == [pc |-> "out", ev |-> None, out |-> out]
  <2>1. s \in StageRecs /\ StageOK(i, s)
    BY <1>2, StageForms
  <2>2. stage' = [stage EXCEPT ![i] = s]
    BY SMTT(30), <1>2 DEF Yield
  <2>3. PipeTypes'
    <3> HIDE DEF s
    <3> QED
      BY Zenon, <2>1, <2>2, PipeStep
  <2> QED
    BY SMTT(30), <1>2, <2>2, <2>3 DEF PipeTypes, Held
<1> QED
  BY SMTT(30), <1>1, <1>2

(* What Receive does to the stage and its channel.                           *)
LEMMA ReceiveTypes ==
    ASSUME PipeTypes, NEW i \in Stages, Receive(i)
    PROVE  /\ PipeTypes'
           /\ chan[i] # <<>> /\ chan[i] \in Seq(Events) /\ chan'[i] = Tail(chan[i])
           /\ Held(i) = <<>> /\ Held(i)' = <<Head(chan[i])>> /\ stage'[i].out = stage[i].out
           /\ \A j \in Stages \ {i} : stage'[j] = stage[j] /\ chan'[j] = chan[j]
<1> DEFINE e == Head(chan[i])
           s == [stage[i] EXCEPT !.pc = "busy", !.ev = e]
<1>1. /\ chan[i] # <<>> /\ chan[i] \in Seq(Events) /\ chan[i] \in Seq(EventsAt(i))
      /\ stage[i].pc = "idle" /\ chan' = [chan EXCEPT ![i] = Tail(chan[i])]
      /\ stage' = [stage EXCEPT ![i].pc = "busy", ![i].ev = e]
  BY DEF Receive, PipeTypes
<1>2. stage[i].ev = None /\ stage[i].out = <<>> /\ Held(i) = <<>>
  BY <1>1, HeldFacts
<1>3. e \in EventsAt(i) /\ Tail(chan[i]) \in Seq(EventsAt(i)) /\ Tail(chan[i]) \in Seq(Events)
      /\ Len(Tail(chan[i])) <= Cap[i]
  <2>1. Len(chan[i]) <= Cap[i] /\ Cap[i] \in Nat
    BY DiscoveryAssumption DEF PipeTypes
  <2> QED
    BY <1>1, <2>1
<1>4. e \in Events /\ e # None
  BY <1>3, NoneAssumption, EventsAtFacts
<1> HIDE DEF e
<1>5. /\ s \in StageRecs /\ s.pc = "busy" /\ s.ev = e /\ s.out = <<>>
      /\ stage' = [stage EXCEPT ![i] = s]
  <2>1. stage[i] \in StageRecs
    BY DEF PipeTypes
  <2>2. s \in StageRecs /\ s.pc = "busy" /\ s.ev = e /\ s.out = stage[i].out
    BY Zenon, <1>4, <2>1, FieldsBusy
  <2> QED
    BY Zenon, <1>1, <1>2, <2>2
<1> HIDE DEF s
<1>a. StageOK(i, s)
  <2>1. i \in Nat /\ <<>> \in Seq(EventsAt(i + 1)) /\ Len(<<>>) = 0
    BY DEF Stages, Qualifier, Writer
  <2> QED
    BY <1>3, <1>4, <1>5, <2>1 DEF StageOK
<1>6. PipeTypes'
  <2>1. chan' \in [Stages -> Seq(Events)]
        /\ \A j \in Stages : chan'[j] \in Seq(EventsAt(j)) /\ Len(chan'[j]) <= Cap[j]
    BY <1>1, <1>3 DEF PipeTypes
  <2> QED
    BY Zenon, <1>5, <1>a, <2>1, PipeStep
<1>8. Held(i)' = <<e>> /\ stage'[i].out = <<>>
  BY <1>4, <1>5 DEF PipeTypes, Held
<1> QED
  BY <1>1, <1>2, <1>5, <1>6, <1>8 DEF PipeTypes, e

(* Leaving the loop changes nothing but the pc.                              *)
LEMMA LeaveLoopTypes ==
    ASSUME PipeTypes, NEW i \in Stages, LeaveLoop(i)
    PROVE  /\ PipeTypes' /\ chan' = chan
           /\ \A j \in Stages : Held(j)' = Held(j) /\ stage'[j].out = stage[j].out
<1> DEFINE s == [pc |-> "done", ev |-> None, out |-> <<>>]
<1>1. stage[i].pc = "idle" /\ chan' = chan /\ stage' = [stage EXCEPT ![i].pc = "done"]
  BY DEF LeaveLoop
<1>2. stage[i].ev = None /\ stage[i].out = <<>>
  BY SMTT(30), <1>1, HeldFacts
<1>3. s \in StageRecs /\ StageOK(i, s)
  BY StageForms
<1>4. stage' = [stage EXCEPT ![i] = s]
  <2>1. [stage[i] EXCEPT !.pc = "done"] = s
    <3>1. stage[i] \in StageRecs
      BY DEF PipeTypes
    <3>2. [stage[i] EXCEPT !.pc = "done"]
            = [pc |-> "done", ev |-> stage[i].ev, out |-> stage[i].out]
      BY <3>1, FieldsDone DEF StageRecs
    <3> QED
      BY Zenon, <1>2, <3>2
  <2> HIDE DEF s
  <2> QED
    BY Zenon, <1>1, <2>1
<1>5. PipeTypes'
  <2> HIDE DEF s
  <2> QED
    BY Zenon, <1>1, <1>3, <1>4, PipeStep DEF PipeTypes
<1>6. \A j \in Stages : stage'[j].ev = stage[j].ev /\ stage'[j].out = stage[j].out
  BY <1>2, <1>4 DEF PipeTypes
<1> QED
  BY <1>1, <1>5, <1>6 DEF Held

(* A counted change leaves room for the number of its push.                  *)
LEMMA ChangeFacts ==
    ASSUME RestTypes, Change \/ UNCHANGED changes
    PROVE  changes' \in 0 .. MaxChanges /\ changes' \in Nat /\ changes <= changes'
           /\ (Change => changes' = changes + 1)
BY DiscoveryAssumption DEF RestTypes, Change

(* The rest of the state is as it was but for the count of changes.          *)
LEMMA RestFrame ==
    ASSUME RestTypes, UNCHANGED <<env, scan, cvs>>, Change \/ UNCHANGED changes
    PROVE  RestTypes'
<1>1. UNCHANGED <<images, notices, pushes, scan, cvs>>
  BY DEF env
<1>2. changes' \in 0 .. MaxChanges /\ pushes <= FirstPushes + changes'
  BY SMTT(30), ChangeFacts, FirstPushesType DEF RestTypes
<1> QED
  BY <1>1, <1>2 DEF RestTypes

(* The name and the content of the ComponentVersion an event writes.         *)
Name(e) == ComponentVersionName[<<e.repo, e.ver>>]
Entry(e) == [img |-> <<e.repo, e.ver>>, label |-> e.dig, spec |-> e.spec]

(* What the writer writes has its type.                                      *)
LEMMA WriterTypes ==
    ASSUME RestTypes, NEW e \in EventsAt(Writer)
    PROVE  /\ WriterProcess(e) \in [Names -> Entries \cup {None}] /\ Named(WriterProcess(e))
           /\ e.type = "deleted" =>
                \A n \in Names : WriterProcess(e)[n] =
                    IF e.dig # None /\ cvs[n] # None /\ cvs[n].label = e.dig
                    THEN None ELSE cvs[n]
           /\ e.type # "deleted" =>
                /\ <<e.repo, e.ver>> \in Images /\ Name(e) \in Names
                /\ e.spec \in Digests \cap Deployable /\ Entry(e) \in Entries
                /\ \A n \in Names : WriterProcess(e)[n] =
                    IF n = Name(e) THEN Entry(e) ELSE cvs[n]
<1>1. cvs \in [Names -> Entries \cup {None}] /\ Named(cvs)
  BY DEF RestTypes
<1>2. CASE e.type = "deleted"
  <2>1. WriterProcess(e) = deleteComponentVersion(e)
    BY <1>2 DEF WriterProcess
  <2>2. /\ WriterProcess(e) \in [Names -> Entries \cup {None}]
        /\ \A n \in Names : WriterProcess(e)[n] =
               IF e.dig # None /\ cvs[n] # None /\ cvs[n].label = e.dig
               THEN None ELSE cvs[n]
    BY <1>1, <2>1 DEF deleteComponentVersion
  <2>3. Named(WriterProcess(e))
    BY Zenon, <1>1, <2>2 DEF Named
  <2> QED
    BY <1>2, <2>2, <2>3
<1>3. CASE e.type # "deleted"
  <2>1. /\ e.repo \in Repos /\ e.ver \in Versions /\ e.spec \in Deployable
        /\ e.dig \in Digests \cup {None}
        /\ e.spec \in Digests \cup {None}
    BY <1>3 DEF EventsAt, Events, Qualifier, Handler, Writer
  <2>2. <<e.repo, e.ver>> \in Images /\ e.spec \in Digests
    BY <2>1, NoneAssumption DEF Images
  <2>3. Entry(e) \in Entries
    BY <2>1, <2>2 DEF Entry, Entries
  <2>4. Name(e) \in Names
    BY <2>2 DEF Name, Names
  <2>5. WriterProcess(e) = [cvs EXCEPT ![Name(e)] = Entry(e)]
    BY <1>3 DEF WriterProcess, ensureComponentVersion, Name, Entry
  <2>6. /\ WriterProcess(e) \in [Names -> Entries \cup {None}]
        /\ \A n \in Names : WriterProcess(e)[n] = IF n = Name(e) THEN Entry(e) ELSE cvs[n]
    BY <1>1, <2>3, <2>4, <2>5
  <2>7. Entry(e).img = <<e.repo, e.ver>>
    BY DEF Entry
  <2>8. Named(WriterProcess(e))
    BY Zenon, <1>1, <2>6, <2>7 DEF Named, Name
  <2> QED
    BY SMTT(30), <1>3, <2>1, <2>2, <2>3, <2>4, <2>6, <2>8
<1> QED
  BY <1>2, <1>3

(* Process replaces the event of a stage by its outputs.                     *)
LEMMA ProcessTypes ==
    ASSUME PipeTypes, RestTypes, NEW i \in Stages, Process(i)
    PROVE  /\ PipeTypes' /\ RestTypes' /\ stage[i].pc = "busy" /\ chan' = chan
           /\ stage[i].ev \in EventsAt(i) /\ Held(i) = <<stage[i].ev>> /\ stage[i].out = <<>>
           /\ Held(i)' \in Output(i, stage[i].ev) /\ stage'[i].out = Held(i)'
           /\ \A j \in Stages \ {i} : stage'[j] = stage[j]
<1>1. stage[i].pc = "busy" /\ chan' = chan
      /\ UNCHANGED <<images, notices, pushes, scan, changes>>
  BY DEF Process, env
<1>2. stage[i].ev \in EventsAt(i) /\ Held(i) = <<stage[i].ev>> /\ stage[i].out = <<>>
  BY <1>1, HeldFacts
<1>a. PICK out \in Output(i, stage[i].ev) : Yield(i, out)
  BY DEF Process
<1>3. /\ out \in Seq(EventsAt(i + 1)) /\ (i = Writer => out = <<>>)
      /\ (i = Handler => Len(out) <= 1)
  BY <1>2, OutputFacts
<1>4. /\ chan' \in [Stages -> Seq(Events)]
      /\ \A j \in Stages : chan'[j] \in Seq(EventsAt(j)) /\ Len(chan'[j]) <= Cap[j]
  BY <1>1 DEF PipeTypes
<1>5. PipeTypes' /\ Held(i)' = out /\ stage'[i].out = out
      /\ \A j \in Stages \ {i} : stage'[j] = stage[j]
  BY <1>a, <1>3, <1>4, YieldTypes
<1>6. cvs' \in [Names -> Entries \cup {None}] /\ Named(cvs')
  <2>1. CASE i = Writer
    BY Zenon, <1>2, <2>1, WriterTypes DEF Process
  <2>2. CASE i # Writer
    BY <2>2 DEF Process, RestTypes
  <2> QED
    BY <2>1, <2>2
<1>7. RestTypes'
  BY SMTT(30), <1>1, <1>6 DEF RestTypes
<1> QED
  BY Zenon, <1>1, <1>2, <1>5, <1>7

(* A failed Process forgets the event.                                       *)
LEMMA ProcessFailsTypes ==
    ASSUME PipeTypes, RestTypes, NEW i \in Stages, ProcessFails(i)
    PROVE  /\ PipeTypes' /\ RestTypes' /\ chan' = chan /\ UNCHANGED <<images, pushes, cvs>>
           /\ stage[i].ev \in EventsAt(i) /\ Held(i) = <<stage[i].ev>> /\ Held(i)' = <<>>
           /\ stage[i].out = <<>> /\ stage'[i].out = <<>>
           /\ \A j \in Stages \ {i} : stage'[j] = stage[j]
<1>1. stage[i].pc = "busy" /\ chan' = chan /\ Yield(i, <<>>)
      /\ UNCHANGED <<env, scan, cvs>> /\ (Change \/ UNCHANGED changes)
  BY DEF ProcessFails
<1>2. stage[i].ev \in EventsAt(i) /\ Held(i) = <<stage[i].ev>> /\ stage[i].out = <<>>
  BY <1>1, HeldFacts
<1>3. /\ chan' \in [Stages -> Seq(Events)]
      /\ \A j \in Stages : chan'[j] \in Seq(EventsAt(j)) /\ Len(chan'[j]) <= Cap[j]
  BY <1>1 DEF PipeTypes
<1>4. PipeTypes' /\ Held(i)' = <<>> /\ stage'[i].out = <<>>
      /\ \A j \in Stages \ {i} : stage'[j] = stage[j]
  <2>1. <<>> \in Seq(EventsAt(i + 1)) /\ Len(<<>>) <= 1
    OBVIOUS
  <2> QED
    BY Zenon, <1>1, <1>3, <2>1, YieldTypes
<1>5. RestTypes'
  BY <1>1, RestFrame
<1> QED
  BY <1>1, <1>2, <1>4, <1>5 DEF env

(* PublishOutput moves the first output to the next channel or drops it.     *)
LEMMA PublishOutputTypes ==
    ASSUME PipeTypes, RestTypes, NEW i \in Stages, PublishOutput(i)
    PROVE  /\ PipeTypes' /\ RestTypes' /\ UNCHANGED <<images, pushes, cvs>>
           /\ i # Writer /\ i + 1 \in Stages
           /\ stage[i].out \in Seq(Events) /\ stage[i].out # <<>> /\ Held(i) = stage[i].out
           /\ Held(i)' = Tail(stage[i].out) /\ stage'[i].out = Tail(stage[i].out)
           /\ \A j \in Stages \ {i} : stage'[j] = stage[j]
           /\ \A j \in Stages \ {i + 1} : chan'[j] = chan[j]
           /\ chan'[i + 1] \in {chan[i + 1], Append(chan[i + 1], Head(stage[i].out))}
<1> DEFINE out == stage[i].out
<1>1. stage[i].pc = "out" /\ chan' = Publish(i + 1, Head(out)) /\ Yield(i, Tail(out))
      /\ UNCHANGED <<env, scan, cvs, changes>>
  BY DEF PublishOutput
<1>2. Held(i) = out /\ out # <<>> /\ i # Writer
  BY <1>1, HeldFacts
<1>3. out \in Seq(EventsAt(i + 1)) /\ out \in Seq(Events) /\ (i = Handler => Len(out) <= 1)
  BY DEF PipeTypes, StageOK, StageRecs
<1> HIDE DEF out
<1>4. i + 1 \in Stages
  BY <1>2 DEF Stages, Qualifier, Writer
<1>5. Head(out) \in EventsAt(i + 1) /\ Tail(out) \in Seq(EventsAt(i + 1))
      /\ Len(Tail(out)) = Len(out) - 1 /\ Len(out) \in Nat
  BY SMTT(30), <1>2, <1>3
<1>6. /\ chan' \in [Stages -> Seq(Events)]
      /\ \A j \in Stages : chan'[j] \in Seq(EventsAt(j)) /\ Len(chan'[j]) <= Cap[j]
      /\ \A j \in Stages \ {i + 1} : chan'[j] = chan[j]
      /\ chan'[i + 1] = IF HasRoom(i + 1) THEN Append(chan[i + 1], Head(out)) ELSE chan[i + 1]
  BY <1>1, <1>4, <1>5, PublishFacts
<1>7. PipeTypes' /\ Held(i)' = Tail(out) /\ stage'[i].out = Tail(out)
      /\ \A j \in Stages \ {i} : stage'[j] = stage[j]
  <2>1. i = Handler => Len(Tail(out)) <= 1
    BY SMTT(30), <1>3, <1>5
  <2> QED
    BY Zenon, <1>1, <1>2, <1>5, <1>6, <2>1, YieldTypes
<1>8. RestTypes'
  BY SMTT(30), <1>1, RestFrame
<1> QED
  BY Zenon, <1>1, <1>2, <1>3, <1>4, <1>6, <1>7, <1>8 DEF env, out

(* An accepted event goes to the qualifier's channel or is dropped.          *)
LEMMA EnterTypes ==
    ASSUME PipeTypes, NEW e \in Events, chan' = Publish(Qualifier, e), stage' = stage
    PROVE  /\ PipeTypes' /\ \A j \in Stages \ {Qualifier} : chan'[j] = chan[j]
           /\ chan'[Qualifier] \in {chan[Qualifier], Append(chan[Qualifier], e)}
<1>1. Qualifier \in Stages /\ e \in EventsAt(Qualifier)
  BY DEF Stages, EventsAt, Qualifier, Handler, Writer
<1>2. /\ chan' \in [Stages -> Seq(Events)]
      /\ \A j \in Stages : chan'[j] \in Seq(EventsAt(j)) /\ Len(chan'[j]) <= Cap[j]
      /\ \A j \in Stages \ {Qualifier} : chan'[j] = chan[j]
      /\ chan'[Qualifier] = IF HasRoom(Qualifier) THEN Append(chan[Qualifier], e)
                            ELSE chan[Qualifier]
  BY SMTT(30), <1>1, PublishFacts
<1>3. PipeTypes'
  BY <1>2 DEF PipeTypes
<1> QED
  BY <1>2, <1>3

(* Nothing happens to the pipeline.                                          *)
LEMMA PipeFrame ==
    ASSUME PipeTypes, UNCHANGED <<chan, stage>>
    PROVE  PipeTypes' /\ InFlight' = InFlight
BY DEF PipeTypes, InFlight, Held

(* Stages that just started or are not there, and empty channels.            *)
LEMMA EmptyTypes ==
    ASSUME NEW pc \in {"off", "idle", "done"},
           stage' = [i \in Stages |-> [pc |-> pc, ev |-> None, out |-> <<>>]],
           chan' \in [Stages -> Seq(Events)],
           \A j \in Stages : chan'[j] \in Seq(EventsAt(j)) /\ Len(chan'[j]) <= Cap[j]
    PROVE  PipeTypes' /\ \A i \in Stages : Held(i)' = <<>> /\ stage'[i].out = <<>>
<1> DEFINE s == [pc |-> pc, ev |-> None, out |-> <<>>]
<1>1. \A i \in Stages : s \in StageRecs /\ StageOK(i, s)
  BY StageForms
<1>2. s.ev = None /\ s.out = <<>>
  OBVIOUS
<1>3. stage' = [i \in Stages |-> s]
  OBVIOUS
<1> HIDE DEF s
<1>4. stage' \in [Stages -> StageRecs] /\ \A i \in Stages : stage'[i] = s
  BY SMTT(30), <1>1, <1>3
<1>5. PipeTypes'
  BY <1>1, <1>4 DEF PipeTypes
<1> QED
  BY SMTT(30), <1>2, <1>4, <1>5 DEF Held

(* Start leaves the channels alone.                                          *)
LEMMA StartTypes ==
    ASSUME PipeTypes, RestTypes, Start
    PROVE  /\ PipeTypes' /\ RestTypes' /\ UNCHANGED <<chan, images, pushes, cvs>>
           /\ \A i \in Stages : Held(i)' = <<>> /\ stage'[i].out = <<>>
<1>1. stage' = [i \in Stages |-> [pc |-> "idle", ev |-> None, out |-> <<>>]]
  BY DEF Start, Off
<1>2. UNCHANGED <<chan, images, notices, pushes, cvs, changes>>
  BY DEF Start, env
<1>3. /\ chan' \in [Stages -> Seq(Events)]
      /\ \A j \in Stages : chan'[j] \in Seq(EventsAt(j)) /\ Len(chan'[j]) <= Cap[j]
  BY <1>2 DEF PipeTypes
<1>4. PipeTypes' /\ \A i \in Stages : Held(i)' = <<>> /\ stage'[i].out = <<>>
  BY <1>1, <1>3, EmptyTypes
<1>5. RestTypes'
  <2>1. scan' \in [pc : {"off", "started", "first", "ticking", "done"}, locked : BOOLEAN,
                   todo : SUBSET Repos]
    <3>1. scan' = [pc |-> "started", locked |-> FALSE, todo |-> {}]
      BY Zenon DEF Start, ScanOff
    <3>2. <<>> \in Seq(Repos)
      OBVIOUS
    <3> QED
      BY <3>1, <3>2
  <2> QED
    BY SMTT(30), <1>2, <2>1 DEF RestTypes
<1> QED
  BY <1>2, <1>4, <1>5

(* A process that ends forgets its channels.                                 *)
LEMMA DieTypes ==
    ASSUME RestTypes, Die, Change \/ UNCHANGED changes
    PROVE  /\ PipeTypes' /\ RestTypes' /\ UNCHANGED <<images, pushes, cvs>>
           /\ \A i \in Stages : Held(i)' = <<>> /\ stage'[i].out = <<>> /\ chan'[i] = <<>>
<1>1. stage' = [i \in Stages |-> [pc |-> "off", ev |-> None, out |-> <<>>]]
  BY DEF Die, Off
<1>2. /\ chan' = [i \in Stages |-> <<>>] /\ scan' = ScanOff
      /\ UNCHANGED <<images, notices, pushes, cvs>>
  BY DEF Die, env
<1>3. /\ chan' \in [Stages -> Seq(Events)]
      /\ \A j \in Stages :
             chan'[j] = <<>> /\ chan'[j] \in Seq(EventsAt(j)) /\ Len(chan'[j]) <= Cap[j]
  <2>1. \A j \in Stages : Cap[j] \in Nat
    BY DiscoveryAssumption
  <2> QED
    BY <1>2, <2>1
<1>4. PipeTypes' /\ \A i \in Stages : Held(i)' = <<>> /\ stage'[i].out = <<>>
  BY SMTT(30), <1>1, <1>3, EmptyTypes
<1>5. RestTypes'
  <2>1. scan' \in [pc : {"off", "started", "first", "ticking", "done"}, locked : BOOLEAN,
                   todo : SUBSET Repos]
    BY <1>2 DEF ScanOff
  <2>2. changes' \in 0 .. MaxChanges /\ pushes <= FirstPushes + changes'
    BY ChangeFacts, FirstPushesType DEF RestTypes
  <2> QED
    BY SMTT(30), <1>2, <2>1, <2>2 DEF RestTypes
<1> QED
  BY SMTT(30), <1>2, <1>3, <1>4, <1>5

(* The number of a push is new and within its bound.                         *)
LEMMA PushTypes ==
    ASSUME RestTypes, NEW r \in Repos, NEW v \in Versions, PushImage(r, v)
    PROVE  RestTypes'
<1>1. pushes + 1 \in Digests /\ changes' \in 0 .. MaxChanges
      /\ pushes' \in Nat /\ pushes' <= FirstPushes + changes'
  BY ChangeFacts, FirstPushesType, DiscoveryAssumption
     DEF PushImage, Change, RestTypes, Digests
<1>2. Pushed(r, v, pushes + 1) \subseteq Events
  <2>1. \A t \in {"created", "updated"} : Event(t, r, v, pushes + 1) \in Events
    BY <1>1, EventType, EventsAtFacts DEF Stages, Qualifier, Writer
  <2> QED
    BY <2>1 DEF Pushed
<1>3. <<r, v>> \in Images /\ images' = [images EXCEPT ![<<r, v>>] = pushes + 1]
  BY DEF Images, PushImage
<1>4. images' \in [Images -> Digests \cup {None}]
  BY SMTT(30), <1>1, <1>3 DEF RestTypes
<1>5. notices' \subseteq Events
  BY <1>2 DEF RestTypes, PushImage
<1>6. UNCHANGED <<scan, cvs>>
  BY DEF PushImage, proc
<1> QED
  BY SMTT(30), <1>1, <1>4, <1>5, <1>6 DEF RestTypes

(* A removal is notified with the digest there was.                          *)
LEMMA RemoveTypes ==
    ASSUME RestTypes, NEW r \in Repos, NEW v \in Versions, RemoveImage(r, v)
    PROVE  RestTypes'
<1>1. <<r, v>> \in Images /\ images[<<r, v>>] \in Digests
      /\ images' = [images EXCEPT ![<<r, v>>] = None]
  BY DEF Images, RemoveImage, RestTypes
<1>2. Removed(r, images[<<r, v>>]) \in Events
  BY SMTT(30), <1>1, EventType, EventsAtFacts DEF Removed, Stages, Qualifier, Writer
<1>3. images' \in [Images -> Digests \cup {None}]
  BY <1>1 DEF RestTypes
<1>4. notices' \subseteq Events
  BY <1>2 DEF RestTypes, RemoveImage
<1>5. UNCHANGED <<scan, cvs, pushes>>
  BY DEF RemoveImage, proc
<1>6. changes' \in 0 .. MaxChanges /\ pushes <= FirstPushes + changes'
  BY ChangeFacts, FirstPushesType DEF RemoveImage, RestTypes
<1> QED
  BY SMTT(30), <1>3, <1>4, <1>5, <1>6 DEF RestTypes

(* The requests the webhook server has taken carry notifications.            *)
LEMMA NextTaken ==
    ASSUME Taken, [Next]_vars
    PROVE  Taken'
<1>1. CASE \E r \in Repos, v \in Versions : PushImage(r, v) \/ RemoveImage(r, v)
  BY <1>1 DEF Taken, PushImage, RemoveImage, proc
<1>2. CASE \E n \in notices \cup requests : ServeHTTP(n)
  BY <1>2 DEF Taken, ServeHTTP
<1>3. CASE \/ \E r \in scan.todo : ScanRepo(r)
           \/ BeginScan \/ ScanFails \/ EndScan \/ EndScanLoop
  BY <1>3 DEF Taken, BeginScan, ScanRepo, ScanFails, EndScan, EndScanLoop, env
<1>4. CASE \E i \in Stages : StageStep(i)
  BY <1>4 DEF Taken, StageStep, Receive, LeaveLoop, Process, ProcessFails, PublishOutput, env
<1>5. CASE Start \/ StartFails \/ Stop(TRUE) \/ Stop(FALSE) \/ ShutdownReturns \/ StopNext
  BY <1>5 DEF Taken, Start, StartFails, Stop, ShutdownReturns, StopNext, env
<1>6. CASE Restart \/ Crash
  BY <1>6 DEF Taken, Restart, Crash, Die, env
<1>7. CASE UNCHANGED vars
  BY SMTT(30), <1>7 DEF Taken, vars, env, proc
<1> QED
  BY ZenonT(40), <1>1, <1>2, <1>3, <1>4, <1>5, <1>6, <1>7 DEF Next

(* A notification that is delivered leaves the OCI registry.                 *)
LEMMA ServeTypes ==
    ASSUME RestTypes, Taken, NEW n \in notices \cup requests, ServeHTTP(n)
    PROVE  RestTypes' /\ n \in Events
BY DEF RestTypes, Taken, ServeHTTP

(* The scanner lists repositories.                                           *)
LEMMA ScanTypes ==
    ASSUME RestTypes,
           \/ \E r \in scan.todo : ScanRepo(r)
           \/ BeginScan \/ ScanFails \/ EndScan \/ EndScanLoop
    PROVE  RestTypes'
<1> DEFINE PCs == {"off", "started", "first", "ticking", "done"}
           Scans == [pc : PCs, locked : BOOLEAN, todo : SUBSET Repos]
<1>1. scan \in Scans /\ UNCHANGED <<images, notices, pushes, cvs>>
      /\ (Change \/ UNCHANGED changes)
  BY DEF RestTypes, BeginScan, ScanRepo, ScanFails, EndScan, EndScanLoop, env
<1>2. scan' \in Scans
  <2>1. CASE BeginScan
    <3>1. Listing \in SUBSET Repos
      BY DEF Listing
    <3> QED
      BY <2>1, <3>1 DEF BeginScan
  <2>2. CASE \E r \in scan.todo : ScanRepo(r)
    BY <1>1, <2>2 DEF ScanRepo
  <2>3. CASE ScanFails
    BY <1>1, <2>3 DEF ScanFails
  <2>4. CASE EndScan \/ EndScanLoop
    BY Zenon, <1>1, <2>4 DEF EndScan, EndScanLoop
  <2> QED
    BY SMTT(30), <2>1, <2>2, <2>3, <2>4
<1>3. changes' \in 0 .. MaxChanges /\ pushes <= FirstPushes + changes'
  BY SMTT(30), <1>1, ChangeFacts, FirstPushesType DEF RestTypes
<1> QED
  BY SMTT(30), <1>1, <1>2, <1>3 DEF RestTypes

(* The event of a scanned repository.                                        *)
LEMMA ScanRepoEvent ==
    ASSUME RestTypes, NEW r \in scan.todo
    PROVE  Event("created", r, None, None) \in Events
<1>1. r \in Repos
  BY SMTT(30) DEF RestTypes
<1> QED
  BY <1>1, EventType, EventsAtFacts DEF Stages, Qualifier, Writer

(* Initially the pipeline is empty.                                          *)
LEMMA InitTypes ==
    Init => /\ PipeTypes /\ RestTypes
            /\ \A i \in Stages : Held(i) = <<>> /\ stage[i].out = <<>> /\ chan[i] = <<>>
<1> SUFFICES ASSUME Init
             PROVE  /\ PipeTypes /\ RestTypes
                    /\ \A i \in Stages : Held(i) = <<>> /\ stage[i].out = <<>> /\ chan[i] = <<>>
  OBVIOUS
<1> DEFINE s == [pc |-> "off", ev |-> None, out |-> <<>>]
<1>1. \A i \in Stages : s \in StageRecs /\ StageOK(i, s)
  BY StageForms
<1>2. s.ev = None /\ s.out = <<>>
  OBVIOUS
<1>3. stage = [i \in Stages |-> s] /\ chan = [i \in Stages |-> <<>>]
  BY DEF Init, Off
<1> HIDE DEF s
<1>4. stage \in [Stages -> StageRecs] /\ \A i \in Stages : stage[i] = s
  BY <1>1, <1>3
<1>5. /\ chan \in [Stages -> Seq(Events)]
      /\ \A j \in Stages : chan[j] = <<>> /\ chan[j] \in Seq(EventsAt(j)) /\ Len(chan[j]) <= Cap[j]
  <2>1. \A j \in Stages : Cap[j] \in Nat
    BY DiscoveryAssumption
  <2> QED
    BY <1>3, <2>1
<1>6. PipeTypes
  BY SMTT(30), <1>1, <1>4, <1>5 DEF PipeTypes
<1>7. images \in [Images -> Digests \cup {None}]
  <2>1. 1 .. FirstPushes \subseteq Digests
    BY SMTT(30), FirstPushesType, DiscoveryAssumption DEF Digests
  <2> QED
    BY <2>1, DiscoveryAssumption DEF Init
<1>8. notices \subseteq Events
  <2> SUFFICES ASSUME NEW x \in Images, Initial[x] # None
               PROVE  Event("updated", x[1], x[2], Initial[x]) \in Events
    BY DiscoveryAssumption DEF Init
  <2>1. x[1] \in Repos /\ x[2] \in Versions /\ Initial[x] \in Digests
    BY SMTT(30), <1>7 DEF Init, Images
  <2> QED
    BY SMTT(30), <2>1, EventType, EventsAtFacts DEF Stages, Qualifier, Writer
<1>9. scan \in [pc : {"off", "started", "first", "ticking", "done"}, locked : BOOLEAN,
                todo : SUBSET Repos]
  BY DEF Init, ScanOff
<1>a. cvs \in [Names -> Entries \cup {None}] /\ Named(cvs)
  BY SMTT(30) DEF Init, Named
<1>10. RestTypes
  BY SMTT(30), <1>7, <1>8, <1>9, <1>a, FirstPushesType, DiscoveryAssumption DEF Init, RestTypes
<1> QED
  BY SMTT(30), <1>2, <1>4, <1>5, <1>6, <1>10 DEF Held

(* Every step keeps the types.                                               *)
LEMMA NextTypes ==
    ASSUME PipeTypes, RestTypes, Taken, [Next]_vars
    PROVE  PipeTypes' /\ RestTypes'
<1>1. CASE \E r \in Repos, v \in Versions : PushImage(r, v) \/ RemoveImage(r, v)
  BY Zenon, <1>1, PushTypes, RemoveTypes, PipeFrame DEF PushImage,
     RemoveImage, proc
<1>2. CASE \E n \in notices \cup requests : ServeHTTP(n)
  BY SMTT(30), <1>2, ServeTypes, EnterTypes DEF ServeHTTP
<1>3. CASE BeginScan \/ ScanFails \/ EndScan \/ EndScanLoop
  BY <1>3, ScanTypes, PipeFrame DEF BeginScan, ScanFails, EndScan, EndScanLoop
<1>4. CASE \E r \in scan.todo : ScanRepo(r)
  BY Zenon, <1>4, ScanTypes, ScanRepoEvent, EnterTypes DEF ScanRepo
<1>5. ASSUME NEW i \in Stages, Receive(i) \/ LeaveLoop(i)
      PROVE  PipeTypes' /\ RestTypes'
  BY ZenonT(40), <1>5, ReceiveTypes, LeaveLoopTypes, RestFrame DEF Receive,
     LeaveLoop
<1>6. ASSUME NEW i \in Stages, Process(i) \/ ProcessFails(i) \/ PublishOutput(i)
      PROVE  PipeTypes' /\ RestTypes'
  BY SMTT(30), <1>6, ProcessTypes, ProcessFailsTypes, PublishOutputTypes
<1>7. CASE Start
  BY SMTT(30), <1>7, StartTypes
<1>8. CASE Restart \/ Crash
  BY SMTT(30), <1>8, DieTypes DEF Restart, Crash
<1>9. CASE StartFails \/ Stop(TRUE) \/ Stop(FALSE) \/ ShutdownReturns \/ StopNext
  BY SMTT(30), <1>9, PipeFrame, RestFrame DEF StartFails, Stop, ShutdownReturns, StopNext
<1>10. CASE UNCHANGED vars
  BY SMTT(30), <1>10, PipeFrame, RestFrame DEF vars, proc
<1> QED
  BY ZenonT(40), <1>1, <1>2, <1>3, <1>4, <1>5, <1>6, <1>7, <1>8, <1>9,
     <1>10 DEF Next, StageStep

-----------------------------------------------------------------------------
Asleep(i) == stage[i].pc \in {"off", "done"}

(* Pipeline.Stop goes through the stages in their order; those it has passed *)
(* have ended.  A process that is new has no goroutine yet.                  *)
StopInv ==
    /\ DOMAIN stage = Stages
    /\ \A i \in Stages : DOMAIN stage[i] = {"pc", "ev", "out"}
    /\ life \in {"new", "running", "shutdown", "stopping", "stopped"}
    /\ halt \in 0 .. Writer
    /\ life \in {"new", "running", "shutdown"} => halt = 0
    /\ life = "new" => \A i \in Stages : Asleep(i)
    /\ life = "stopping" => \A i \in Stages : i < halt => Asleep(i)
    /\ life = "stopped" => \A i \in Stages : Asleep(i)

(* A stage that has ended takes no step.                                     *)
LEMMA AsleepRests ==
    ASSUME NEW i \in Stages, StageStep(i)
    PROVE  ~Asleep(i)
BY DEF StageStep, Receive, LeaveLoop, Process, ProcessFails, PublishOutput, Asleep

(* A step of one stage leaves the others and the process's life alone.       *)
LEMMA StageStepFrame ==
    ASSUME StopInv, NEW i \in Stages, StageStep(i)
    PROVE  /\ DOMAIN stage' = Stages
           /\ \A j \in Stages : DOMAIN stage'[j] = {"pc", "ev", "out"}
           /\ \A j \in Stages \ {i} : stage'[j] = stage[j]
           /\ life' = life /\ halt' = halt
BY SMTT(30) DEF StopInv, StageStep, Receive, LeaveLoop, Process, ProcessFails,
       PublishOutput, Yield

(* The invariant holds initially.                                            *)
LEMMA StopInit == Init => StopInv
BY DEF Init, StopInv, Off, Asleep, Writer

(* Every step keeps the invariant.                                           *)
LEMMA StopKeeps == StopInv /\ [Next]_vars => StopInv'
<1> SUFFICES ASSUME StopInv, [Next]_vars PROVE StopInv'
  OBVIOUS
<1>1. ASSUME UNCHANGED <<stage, life, halt>> PROVE StopInv'
  BY SMTT(30), <1>1 DEF StopInv, Asleep
<1>2. CASE \E i \in Stages : StageStep(i)
  <2>1. PICK i \in Stages : StageStep(i)
    BY <1>2
  <2>2. ~Asleep(i)
    BY SMTT(30), <2>1, AsleepRests
  <2>3. life # "new" /\ life # "stopped" /\ (life = "stopping" => ~(i < halt))
    BY <2>2 DEF StopInv
  <2> QED
    BY SMTT(30), <2>1, <2>3, StageStepFrame DEF StopInv, Asleep
<1>3. CASE Start
  BY SMTT(30), <1>3 DEF Start, StopInv, Off
<1>4. CASE StartFails
  BY SMTT(30), <1>4 DEF StartFails, StopInv, Asleep
<1>5. ASSUME NEW c \in BOOLEAN, Stop(c) PROVE StopInv'
  BY SMTT(30), <1>5 DEF Stop, StopInv, Asleep
<1>12. CASE ShutdownReturns
  BY <1>12 DEF ShutdownReturns, StopInv, Asleep, Stages, Qualifier, Writer
<1>6. CASE StopNext
  <2>1. stage' = stage /\ life = "stopping" /\ Ended(halt)
    BY <1>6 DEF StopNext
  <2>2. halt \in Stages => Asleep(halt)
    BY SMTT(30), <2>1 DEF Ended, Asleep, Stages, Qualifier
  <2>3. CASE halt < Writer
    BY SMTT(30), <1>6, <2>1, <2>2, <2>3 DEF StopNext, StopInv, Asleep, Stages, Qualifier, Writer
  <2>4. CASE ~(halt < Writer)
    BY SMTT(30), <1>6, <2>1, <2>2, <2>4 DEF StopNext, StopInv, Asleep, Stages, Qualifier, Writer
  <2> QED
    BY SMTT(30), <2>3, <2>4
<1>7. CASE Restart \/ Crash
  BY SMTT(30), <1>7 DEF Restart, Crash, Die, StopInv, Asleep, Off, Writer
<1>8. CASE \E r \in Repos, v \in Versions : PushImage(r, v) \/ RemoveImage(r, v)
  BY SMTT(30), <1>1, <1>8 DEF PushImage, RemoveImage, proc
<1>9. CASE \E n \in notices \cup requests : ServeHTTP(n)
  BY <1>1, <1>9 DEF ServeHTTP
<1>10. CASE \/ \E r \in scan.todo : ScanRepo(r)
            \/ BeginScan \/ ScanFails \/ EndScan \/ EndScanLoop
  BY <1>1, <1>10 DEF BeginScan, ScanRepo, ScanFails, EndScan, EndScanLoop
<1>11. CASE UNCHANGED vars
  BY <1>1, <1>11 DEF vars, proc
<1> QED
  BY ZenonT(40), <1>2, <1>3, <1>4, <1>5, <1>6, <1>7, <1>8, <1>9, <1>10,
     <1>11, <1>12 DEF Next

(* The inductive invariant: Stop has ended the stages it has passed.         *)
THEOREM StopInvariance == Spec => []StopInv
  BY StopInit, StopKeeps, PTL DEF Spec

(* Once Pipeline.Stop has returned, nothing of the pipeline writes to the    *)
(* catalog: the writer's goroutine has ended, and only it writes.            *)
THEOREM NoWriteAfterStop == Spec => QuietAfterStop
<1>1. StopInv /\ [Next]_vars => [life = "stopped" => UNCHANGED cvs]_vars
  <2> SUFFICES ASSUME StopInv, Next, life = "stopped" PROVE UNCHANGED cvs
    BY DEF vars
  <2>1. \A i \in Stages : ~StageStep(i)
    BY AsleepRests DEF StopInv
  <2> QED
    BY Zenon, <2>1 DEF Next, PushImage, RemoveImage, ServeHTTP, BeginScan,
       ScanRepo,
       ScanFails, EndScan, EndScanLoop, Start, StartFails, Stop, ShutdownReturns, StopNext,
       Restart, Crash, Die
<1> QED
  BY <1>1, StopInvariance, PTL DEF Spec, QuietAfterStop

-----------------------------------------------------------------------------
(* The stages implement one line of events.                                  *)

(* What the writer, the handler and the filter have, oldest first.           *)
Line4 == Held(Writer) \o chan[Writer]
Line3 == (Line4 \o Held(Handler)) \o chan[Handler]
Line2 == (Line3 \o Held(Filter)) \o chan[Filter]

LineStep == [Promise!Next]_<<InFlight, cvs>>

(* The line is made of what the stages and the channels hold.                *)
LEMMA LineTypes ==
    ASSUME PipeTypes
    PROVE  /\ Line4 \in Seq(Events) /\ Line3 \in Seq(Events) /\ Line2 \in Seq(Events)
           /\ InFlight = (Line2 \o Held(Qualifier)) \o chan[Qualifier]
           /\ InFlight \in Seq(Events)
<1>1. Qualifier \in Stages /\ Filter \in Stages /\ Handler \in Stages /\ Writer \in Stages
  BY SMTT(30) DEF Stages, Qualifier, Filter, Handler, Writer
<1>2. \A i \in Stages : Held(i) \in Seq(Events) /\ chan[i] \in Seq(Events)
  BY HeldFacts DEF PipeTypes
<1>3. Line4 \in Seq(Events)
  BY <1>1, <1>2 DEF Line4
<1>4. Line3 \in Seq(Events)
  BY SMTT(30), <1>1, <1>2, <1>3 DEF Line3
<1>5. Line2 \in Seq(Events)
  BY <1>1, <1>2, <1>4 DEF Line2
<1>6. InFlight = (Line2 \o Held(Qualifier)) \o chan[Qualifier]
  BY Zenon DEF InFlight, Line4, Line3, Line2
<1>7. (Line2 \o Held(Qualifier)) \o chan[Qualifier] \in Seq(Events)
  BY SMTT(30), <1>1, <1>2, <1>5
<1> QED
  BY Zenon, <1>3, <1>4, <1>5, <1>6, <1>7

(* A stage that is left alone holds the same events.                         *)
LEMMA HeldSame ==
    ASSUME NEW i \in Stages, stage'[i] = stage[i]
    PROVE  Held(i)' = Held(i)
BY DEF Held

(* In a well-typed next state a stage holds events.                          *)
LEMMA PrimedHeld ==
    ASSUME PipeTypes', NEW i \in Stages
    PROVE  Held(i)' \in Seq(Events)
<1>1. (stage[i])' \in StageRecs
  BY DEF PipeTypes
<1>2. (stage[i].out)' \in Seq(Events) /\ (stage[i].ev)' \in Events \cup {None}
  BY SMTT(30), <1>1 DEF StageRecs
<1> QED
  BY <1>2 DEF Held

(* The four stages.                                                          *)
LEMMA StageCases ==
    /\ Qualifier \in Stages /\ Filter \in Stages /\ Handler \in Stages /\ Writer \in Stages
    /\ Qualifier # Filter /\ Qualifier # Handler /\ Qualifier # Writer
    /\ Filter # Handler /\ Filter # Writer /\ Handler # Writer
    /\ Qualifier + 1 = Filter /\ Filter + 1 = Handler /\ Handler + 1 = Writer
    /\ \A i \in Stages : i = Qualifier \/ i = Filter \/ i = Handler \/ i = Writer
BY DEF Stages, Qualifier, Filter, Handler, Writer

(* An event that is replaced in the line by others that stem from it is a    *)
(* Rewrite.                                                                  *)
LEMMA RewriteStep ==
    ASSUME NEW e \in Events, NEW out \in Seq(Events),
           Replaced(InFlight, InFlight', e, out),
           \A k \in 1 .. Len(out) : Promise!Stems(out[k], e), cvs' = cvs
    PROVE  LineStep
<1> DEFINE l == InFlight
           m == InFlight'
<1>1. PICK i \in 1 .. Len(l), n \in 0 .. Len(m) : Rewritten(l, m, e, out, i, n)
  BY SMTT(30), ReplacedPlaces
<1> HIDE DEF l, m
<1>a. i \in Nat /\ n = Len(out) /\ n \in Nat
  BY <1>1 DEF Rewritten
<1>2. /\ l[i] = e
      /\ Len(m) = Len(l) - 1 + n
      /\ SubSeq(m, 1, i - 1) = SubSeq(l, 1, i - 1)
      /\ SubSeq(m, i + n, Len(m)) = SubSeq(l, i + 1, Len(l))
      /\ \A j \in i .. i + n - 1 : m[j] = out[j - i + 1]
  BY Zenon, <1>1 DEF Rewritten
<1>3. ASSUME NEW j \in i .. i + n - 1 PROVE Promise!Stems(m[j], l[i])
  <2>1. j - i + 1 \in 1 .. Len(out)
    BY <1>a
  <2> QED
    BY SMTT(30), <1>2, <2>1
<1>4. Promise!Rewrite(i, n)
  BY Zenon, <1>2, <1>3 DEF Promise!Rewrite, l, m
<1>5. Promise!Next
  BY Zenon, <1>2, <1>4 DEF Promise!Next, l, m
<1> QED
  BY Zenon, <1>5 DEF LineStep

(* A lost event is replaced by none.                                         *)
LEMMA LossStep ==
    ASSUME NEW e \in Events, Replaced(InFlight, InFlight', e, <<>>), cvs' = cvs
    PROVE  LineStep
<1>1. <<>> \in Seq(Events) /\ \A k \in 1 .. Len(<<>>) : Promise!Stems(<<>>[k], e)
  OBVIOUS
<1> QED
  BY ZenonT(40), <1>1, RewriteStep

(* The line stays as it was.                                                 *)
LEMMA SameStep ==
    ASSUME InFlight' = InFlight, cvs' = cvs
    PROVE  LineStep
BY Zenon DEF LineStep

(* The event at the stage i is replaced in the whole line.                   *)
LEMMA ReplacedAt ==
    ASSUME PipeTypes, PipeTypes', NEW i \in Stages, NEW e \in Events, NEW out \in Seq(Events),
           \A A \in Seq(Events) : Replaced(A \o Held(i), A \o Held(i)', e, out),
           \A j \in Stages \ {i} : Held(j)' = Held(j),
           \A j \in Stages : chan'[j] = chan[j]
    PROVE  Replaced(InFlight, InFlight', e, out)
<1>1. \A j \in Stages : Held(j) \in Seq(Events) /\ chan[j] \in Seq(Events)
  BY Zenon, HeldFacts DEF PipeTypes
<1>a. Held(i)' \in Seq(Events)
  BY Zenon, PrimedHeld
<1>2. ASSUME NEW l, NEW m, Replaced(l, m, e, out), NEW C \in Seq(Events)
      PROVE  Replaced(l \o C, m \o C, e, out)
  BY SMTT(30), <1>2, ReplacedRight
<1>3. ASSUME Replaced(Line4, Line4', e, out), i # Handler
      PROVE  Replaced(Line3, Line3', e, out)
  <2>1. Held(Handler)' = Held(Handler) /\ chan'[Handler] = chan[Handler]
    BY SMTT(30), <1>3, StageCases
  <2>2. Replaced(Line4 \o Held(Handler), Line4' \o Held(Handler), e, out)
    BY Zenon, <1>1, <1>2, <1>3, StageCases
  <2>3. Replaced((Line4 \o Held(Handler)) \o chan[Handler],
                 (Line4' \o Held(Handler)) \o chan[Handler], e, out)
    BY ZenonT(40), <1>1, <1>2, <2>2, StageCases
  <2> QED
    BY ZenonT(40), <2>1, <2>3 DEF Line3
<1>4. ASSUME Replaced(Line3, Line3', e, out), i # Filter
      PROVE  Replaced(Line2, Line2', e, out)
  <2>1. Held(Filter)' = Held(Filter) /\ chan'[Filter] = chan[Filter]
    BY SMTT(30), <1>4, StageCases
  <2>2. Replaced(Line3 \o Held(Filter), Line3' \o Held(Filter), e, out)
    BY Zenon, <1>1, <1>2, <1>4, StageCases
  <2>3. Replaced((Line3 \o Held(Filter)) \o chan[Filter],
                 (Line3' \o Held(Filter)) \o chan[Filter], e, out)
    BY Zenon, <1>1, <1>2, <2>2, StageCases
  <2> QED
    BY Zenon, <2>1, <2>3 DEF Line2
<1>5. InFlight = (Line2 \o Held(Qualifier)) \o chan[Qualifier]
  BY Zenon, LineTypes
<1>6. InFlight' = (Line2' \o Held(Qualifier)') \o chan'[Qualifier]
  BY Zenon DEF InFlight, Line4, Line3, Line2
<1>7. ASSUME Replaced(Line2, Line2', e, out), i # Qualifier
      PROVE  Replaced(InFlight, InFlight', e, out)
  <2>1. Held(Qualifier)' = Held(Qualifier) /\ chan'[Qualifier] = chan[Qualifier]
    BY <1>7, StageCases
  <2>2. Replaced(Line2 \o Held(Qualifier), Line2' \o Held(Qualifier), e, out)
    BY Zenon, <1>1, <1>2, <1>7, StageCases
  <2>3. Replaced((Line2 \o Held(Qualifier)) \o chan[Qualifier],
                 (Line2' \o Held(Qualifier)) \o chan[Qualifier], e, out)
    BY ZenonT(40), <1>1, <1>2, <2>2, StageCases
  <2> QED
    BY ZenonT(40), <1>5, <1>6, <2>1, <2>3
<1>8. i # Writer => Line4' = Line4
  BY ZenonT(40), StageCases DEF Line4
<1>9. i # Writer /\ i # Handler => Line3' = Line3
  BY Zenon, <1>8, StageCases DEF Line3
<1>10. i # Writer /\ i # Handler /\ i # Filter => Line2' = Line2
  BY Zenon, <1>9, StageCases DEF Line2
<1>11. CASE i = Writer
  <2>1. Replaced(<<>> \o Held(Writer), <<>> \o Held(Writer)', e, out)
    <3>1. <<>> \in Seq(Events)
      OBVIOUS
    <3> QED
      BY Zenon, <1>11, <3>1
  <2>2. <<>> \o Held(Writer) = Held(Writer) /\ <<>> \o Held(Writer)' = Held(Writer)'
    <3>1. Held(Writer) \in Seq(Events) /\ Held(Writer)' \in Seq(Events)
      BY Zenon, <1>1, <1>a, StageCases
    <3> QED
      BY <3>1, ConcatEmpty
  <2>3. Replaced(Held(Writer) \o chan[Writer], Held(Writer)' \o chan[Writer], e, out)
    BY Zenon, <1>1, <1>2, <2>1, <2>2, StageCases
  <2>4. Replaced(Line4, Line4', e, out)
    BY Zenon, <2>3, StageCases DEF Line4
  <2> QED
    BY Zenon, <1>3, <1>4, <1>7, <1>11, <2>4, StageCases
<1>12. CASE i = Handler
  <2>1. Replaced(Line4 \o Held(Handler), Line4 \o Held(Handler)', e, out)
    BY Zenon, <1>12, LineTypes
  <2>2. Replaced((Line4 \o Held(Handler)) \o chan[Handler],
                 (Line4 \o Held(Handler)') \o chan[Handler], e, out)
    BY Zenon, <1>1, <1>2, <2>1, StageCases
  <2>3. Replaced(Line3, Line3', e, out)
    BY Zenon, <1>8, <1>12, <2>2, StageCases DEF Line3
  <2> QED
    BY Zenon, <1>4, <1>7, <1>12, <2>3, StageCases
<1>13. CASE i = Filter
  <2>1. Replaced(Line3 \o Held(Filter), Line3 \o Held(Filter)', e, out)
    BY Zenon, <1>13, LineTypes
  <2>2. Replaced((Line3 \o Held(Filter)) \o chan[Filter],
                 (Line3 \o Held(Filter)') \o chan[Filter], e, out)
    BY Zenon, <1>1, <1>2, <2>1, StageCases
  <2>3. Replaced(Line2, Line2', e, out)
    BY Zenon, <1>9, <1>13, <2>2, StageCases DEF Line2
  <2> QED
    BY Zenon, <1>7, <1>13, <2>3, StageCases
<1>14. CASE i = Qualifier
  <2>1. Replaced(Line2 \o Held(Qualifier), Line2 \o Held(Qualifier)', e, out)
    BY Zenon, <1>14, LineTypes
  <2>2. Replaced((Line2 \o Held(Qualifier)) \o chan[Qualifier],
                 (Line2 \o Held(Qualifier)') \o chan[Qualifier], e, out)
    BY Zenon, <1>1, <1>2, <2>1, StageCases
  <2> QED
    BY Zenon, <1>5, <1>6, <1>10, <1>14, <2>2, StageCases
<1> QED
  BY Zenon, <1>11, <1>12, <1>13, <1>14, StageCases

(* To receive the head of a channel, with names for what there is before     *)
(* and after.                                                                *)
LEMMA RecvNamed ==
    ASSUME NEW A \in Seq(Events), NEW s \in Seq(Events), s # <<>>,
           NEW h, NEW g, NEW t, h = <<>>, g = <<Head(s)>>, t = Tail(s)
    PROVE  (A \o g) \o t = (A \o h) \o s
BY Zenon, RecvSame

(* The parts of the line before and behind a place, when nothing else moves. *)
LEMMA LineFrame ==
    ASSUME NEW i \in Stages, \A j \in Stages \ {i} : Held(j)' = Held(j),
           NEW k \in Stages, \A j \in Stages \ {k} : chan'[j] = chan[j]
    PROVE  /\ i # Writer /\ k # Writer => Line4' = Line4
           /\ Line4' = Line4 /\ i # Handler /\ k # Handler => Line3' = Line3
           /\ Line3' = Line3 /\ i # Filter /\ k # Filter => Line2' = Line2
           /\ Line2' = Line2 /\ i # Qualifier /\ k # Qualifier => InFlight' = InFlight
<1>1. \A j \in Stages : (i # j => Held(j)' = Held(j)) /\ (k # j => chan'[j] = chan[j])
  OBVIOUS
<1>2. i # Writer /\ k # Writer => Line4' = Line4
  BY Zenon, <1>1, StageCases DEF Line4
<1>3. Line4' = Line4 /\ i # Handler /\ k # Handler => Line3' = Line3
  BY Zenon, <1>1, StageCases DEF Line3
<1>4. Line3' = Line3 /\ i # Filter /\ k # Filter => Line2' = Line2
  BY Zenon, <1>1, StageCases DEF Line2
<1>5. /\ InFlight = (Line2 \o Held(Qualifier)) \o chan[Qualifier]
      /\ InFlight' = (Line2' \o Held(Qualifier)') \o chan'[Qualifier]
  BY Zenon DEF InFlight, Line4, Line3, Line2
<1>6. Line2' = Line2 /\ i # Qualifier /\ k # Qualifier => InFlight' = InFlight
  BY Zenon, <1>1, <1>5, StageCases
<1> QED
  BY Zenon, <1>2, <1>3, <1>4, <1>6

(* To receive an event from the channel moves nothing.                       *)
LEMMA ReceiveStep ==
    ASSUME PipeTypes, NEW i \in Stages, Receive(i)
    PROVE  InFlight' = InFlight /\ Line4' = Line4
<1>1. /\ chan[i] # <<>> /\ chan[i] \in Seq(Events) /\ chan'[i] = Tail(chan[i])
      /\ Held(i) = <<>> /\ Held(i)' = <<Head(chan[i])>>
      /\ \A j \in Stages \ {i} : stage'[j] = stage[j] /\ chan'[j] = chan[j]
  BY SMTT(30), ReceiveTypes
<1>2. \A j \in Stages \ {i} : Held(j)' = Held(j)
  BY <1>1, HeldSame
<1>3. ASSUME NEW A \in Seq(Events)
      PROVE  (A \o Held(i)') \o chan'[i] = (A \o Held(i)) \o chan[i]
  <2> DEFINE h == Held(i)
             g == Held(i)'
             s == chan[i]
             t == chan'[i]
  <2>1. s # <<>> /\ s \in Seq(Events) /\ h = <<>> /\ g = <<Head(s)>> /\ t = Tail(s)
    BY Zenon, <1>1
  <2> HIDE DEF h, g, s, t
  <2>2. (A \o g) \o t = (A \o h) \o s
    BY SMTT(30), <2>1, RecvNamed
  <2> QED
    BY Zenon, <2>2 DEF h, g, s, t
<1>4. i = Writer => Line4' = Line4
  <2>1. /\ <<>> \o <<>> = <<>> /\ <<>> \in Seq(Events)
        /\ <<>> \o <<Head(chan[i])>> = <<Head(chan[i])>>
    <3>1. Head(chan[i]) \in Events
      BY <1>1, HeadTail
    <3> QED
      BY SMTT(30), <3>1, ConcatEmpty
  <2>2. (<<>> \o Held(i)') \o chan'[i] = (<<>> \o Held(i)) \o chan[i]
    BY Zenon, <1>3, <2>1
  <2> QED
    BY Zenon, <1>1, <2>1, <2>2 DEF Line4
<1>5. i = Handler => Line3' = Line3
  BY Zenon, <1>1, <1>2, <1>3, LineTypes, LineFrame, StageCases DEF Line3
<1>6. i = Filter => Line2' = Line2
  BY ZenonT(40), <1>1, <1>2, <1>3, LineTypes, LineFrame, StageCases DEF Line2
<1>7. InFlight' = (Line2' \o Held(Qualifier)') \o chan'[Qualifier]
  BY Zenon DEF InFlight, Line4, Line3, Line2
<1>8. i = Qualifier => InFlight' = InFlight
  BY ZenonT(40), <1>1, <1>2, <1>3, <1>7, LineTypes, LineFrame, StageCases
<1>9. /\ i # Writer => Line4' = Line4
      /\ Line4' = Line4 /\ i # Handler => Line3' = Line3
      /\ Line3' = Line3 /\ i # Filter => Line2' = Line2
      /\ Line2' = Line2 /\ i # Qualifier => InFlight' = InFlight
  BY Zenon, <1>1, <1>2, LineFrame
<1> QED
  BY ZenonT(40), <1>4, <1>5, <1>6, <1>8, <1>9, StageCases

(* An output event that finds room in the next channel stays where it is.    *)
LEMMA MoveStep ==
    ASSUME PipeTypes, NEW i \in Stages, i # Writer, NEW o \in Seq(Events), o # <<>>,
           Held(i) = o, Held(i)' = Tail(o), chan'[i + 1] = Append(chan[i + 1], Head(o)),
           \A j \in Stages \ {i} : Held(j)' = Held(j),
           \A j \in Stages \ {i + 1} : chan'[j] = chan[j]
    PROVE  InFlight' = InFlight
<1>1. i + 1 \in Stages /\ chan[i + 1] \in Seq(Events)
  BY SMTT(30) DEF PipeTypes, Stages, Qualifier, Filter, Handler, Writer
<1>2. ASSUME NEW A \in Seq(Events)
      PROVE  (A \o chan'[i + 1]) \o Held(i)' = (A \o chan[i + 1]) \o Held(i)
  <2> DEFINE c == chan[i + 1]
             d == chan'[i + 1]
             p == Held(i)'
  <2>1. c \in Seq(Events) /\ d = Append(c, Head(o)) /\ p = Tail(o)
    BY Zenon, <1>1
  <2> HIDE DEF c, d, p
  <2>2. (A \o d) \o p = (A \o c) \o o
    <3>1. Append(c, Head(o)) = d /\ Tail(o) = p
      BY Zenon, <2>1
    <3>2. (A \o Append(c, Head(o))) \o Tail(o) = (A \o c) \o o
      BY ZenonT(40), <2>1, MoveSame
    <3> QED
      BY Zenon, <3>1, <3>2
  <2> QED
    BY Zenon, <2>2 DEF c, d, p
<1>3. \A j \in Stages : Held(j) \in Seq(Events) /\ chan[j] \in Seq(Events)
  BY HeldFacts DEF PipeTypes
<1>4. i = Handler => Line3' = Line3
  <2>1. SUFFICES ASSUME i = Handler PROVE Line3' = Line3
    BY Zenon
  <2>2. Held(Writer)' = Held(Writer) /\ chan'[Handler] = chan[Handler]
    BY <2>1, StageCases
  <2>3. (Held(Writer) \o chan'[Writer]) \o Held(Handler)'
            = (Held(Writer) \o chan[Writer]) \o Held(Handler)
    BY Zenon, <1>2, <1>3, <2>1, StageCases
  <2> QED
    BY Zenon, <2>2, <2>3 DEF Line3, Line4
<1>5. i = Filter => Line2' = Line2
  <2>1. SUFFICES ASSUME i = Filter PROVE Line2' = Line2
    OBVIOUS
  <2>2. Held(Handler)' = Held(Handler) /\ chan'[Filter] = chan[Filter] /\ Line4' = Line4
    BY Zenon, <1>1, <2>1, StageCases DEF Line4
  <2>a. Line4 \o Held(Handler) \in Seq(Events)
    BY SMTT(30), <1>3, LineTypes, StageCases
  <2>3. ((Line4 \o Held(Handler)) \o chan'[Handler]) \o Held(Filter)'
            = ((Line4 \o Held(Handler)) \o chan[Handler]) \o Held(Filter)
    BY Zenon, <1>2, <2>1, <2>a, StageCases
  <2> QED
    BY Zenon, <2>2, <2>3 DEF Line3, Line2
<1>6. i = Qualifier => InFlight' = InFlight
  <2>1. SUFFICES ASSUME i = Qualifier PROVE InFlight' = InFlight
    OBVIOUS
  <2>2. Held(Filter)' = Held(Filter) /\ chan'[Qualifier] = chan[Qualifier] /\ Line4' = Line4
    BY Zenon, <1>1, <2>1, StageCases DEF Line4
  <2>b. Line3' = Line3
    BY Zenon, <2>1, <2>2, StageCases DEF Line3
  <2>a. Line3 \o Held(Filter) \in Seq(Events)
    BY SMTT(30), <1>3, LineTypes, StageCases
  <2>3. ((Line3 \o Held(Filter)) \o chan'[Filter]) \o Held(Qualifier)'
            = ((Line3 \o Held(Filter)) \o chan[Filter]) \o Held(Qualifier)
    BY Zenon, <1>2, <2>1, <2>a, StageCases
  <2>4. InFlight' = (Line2' \o Held(Qualifier)') \o chan'[Qualifier]
    BY Zenon DEF InFlight, Line4, Line3, Line2
  <2> QED
    BY ZenonT(40), <2>2, <2>b, <2>3, <2>4, LineTypes DEF Line2
<1>7. /\ Line3' = Line3 /\ i = Handler => Line2' = Line2
      /\ Line2' = Line2 /\ i # Qualifier => InFlight' = InFlight
  BY Zenon, <1>1, LineFrame, StageCases
<1> QED
  BY ZenonT(40), <1>4, <1>5, <1>6, <1>7, StageCases

(* An event at the end of the last channel is at the end of the line.        *)
LEMMA AppendFacts ==
    ASSUME NEW s \in Seq(Events), NEW t \in Seq(Events), NEW e \in Events
    PROVE  /\ s \o Append(t, e) = Append(s \o t, e)
           /\ Len(Append(s, e)) = Len(s) + 1
           /\ SubSeq(Append(s, e), 1, Len(s)) = s
<1>1. <<e>> \in Seq(Events) /\ s \o t \in Seq(Events)
  OBVIOUS
<1>2. Append(t, e) = t \o <<e>> /\ Append(s \o t, e) = (s \o t) \o <<e>>
  BY SMTT(30), <1>1, AppendConcat
<1>3. (s \o t) \o <<e>> = s \o (t \o <<e>>)
  BY ZenonT(40), <1>1, AssociativeEvents
<1>4. s \o Append(t, e) = Append(s \o t, e)
  BY Zenon, <1>2, <1>3
<1>5. Len(Append(s, e)) = Len(s) + 1 /\ SubSeq(Append(s, e), 1, Len(s)) = s
  <2> DEFINE u == Append(s, e)
  <2>1. u \in Seq(Events) /\ Len(u) = Len(s) + 1 /\ Len(s) \in Nat
        /\ \A k \in 1 .. Len(s) : u[k] = s[k]
    OBVIOUS
  <2> HIDE DEF u
  <2>2. /\ SubSeq(u, 1, Len(s)) \in Seq(Events) /\ Len(SubSeq(u, 1, Len(s))) = Len(s)
        /\ \A k \in 1 .. Len(s) : SubSeq(u, 1, Len(s))[k] = s[k]
    BY SMTT(30), <2>1
  <2>3. SubSeq(u, 1, Len(s)) = s
    BY <2>2, EqualSeqs
  <2> QED
    BY Zenon, <2>1, <2>3 DEF u
<1> QED
  BY Zenon, <1>4, <1>5

(* An accepted event joins the line, one that finds no room changes nothing. *)
LEMMA EnterStep ==
    ASSUME PipeTypes, NEW e \in Events, chan' = Publish(Qualifier, e), stage' = stage,
           cvs' = cvs
    PROVE  LineStep
<1>1. /\ \A j \in Stages \ {Qualifier} : chan'[j] = chan[j]
      /\ chan'[Qualifier] \in {chan[Qualifier], Append(chan[Qualifier], e)}
  BY SMTT(30), EnterTypes
<1>2. \A j \in Stages : Held(j)' = Held(j)
  BY HeldSame
<1>3. Line4' = Line4 /\ Line3' = Line3 /\ Line2' = Line2
  <2>1. Line4' = Line4
    BY Zenon, <1>1, <1>2, StageCases DEF Line4
  <2>2. Line3' = Line3
    BY Zenon, <1>1, <1>2, <2>1, StageCases DEF Line3
  <2> QED
    BY Zenon, <1>1, <1>2, <2>1, <2>2, StageCases DEF Line2
<1>4. InFlight = (Line2 \o Held(Qualifier)) \o chan[Qualifier] /\ InFlight \in Seq(Events)
  BY Zenon, LineTypes
<1>5. InFlight' = (Line2 \o Held(Qualifier)) \o chan'[Qualifier]
  <2>1. InFlight' = (Line2' \o Held(Qualifier)') \o chan'[Qualifier]
    BY Zenon DEF InFlight, Line4, Line3, Line2
  <2> QED
    BY Zenon, <1>2, <1>3, <2>1, StageCases
<1>6. CASE chan'[Qualifier] = chan[Qualifier]
  BY Zenon, <1>4, <1>5, <1>6, SameStep
<1>7. CASE chan'[Qualifier] = Append(chan[Qualifier], e)
  <2> DEFINE s == Line2 \o Held(Qualifier)
             t == chan[Qualifier]
  <2>1. s \in Seq(Events) /\ t \in Seq(Events)
    BY SMTT(30), LineTypes, HeldFacts, StageCases DEF PipeTypes
  <2>2. InFlight = s \o t /\ InFlight' = s \o Append(t, e)
    BY Zenon, <1>4, <1>5, <1>7
  <2> HIDE DEF s, t
  <2>3. InFlight' = Append(InFlight, e)
    BY Zenon, <2>1, <2>2, AppendFacts
  <2>4. Len(InFlight') = Len(InFlight) + 1 /\ SubSeq(InFlight', 1, Len(InFlight)) = InFlight
    BY Zenon, <1>4, <2>3, AppendFacts
  <2>5. Promise!Accept
    BY Zenon, <2>4 DEF Promise!Accept
  <2> QED
    BY ZenonT(40), <2>5 DEF LineStep, Promise!Next
<1> QED
  BY Zenon, <1>1, <1>6, <1>7

(* l is the event e and then m.                                              *)
Led(l, m, e) == m \in Seq(Events) /\ l = <<e>> \o m

(* More events behind do not matter.                                         *)
LEMMA LedRight ==
    ASSUME NEW e \in Events, NEW l, NEW m, Led(l, m, e), NEW C \in Seq(Events)
    PROVE  Led(l \o C, m \o C, e)
<1>1. m \in Seq(Events) /\ l = <<e>> \o m
  BY Zenon DEF Led
<1>2. <<e>> \in Seq(Events) /\ m \o C \in Seq(Events)
  BY <1>1
<1>3. (<<e>> \o m) \o C = <<e>> \o (m \o C)
  BY ZenonT(40), <1>1, <1>2, AssociativeEvents
<1> QED
  BY Zenon, <1>1, <1>2, <1>3 DEF Led

(* It is the head, and what follows the tail.                                *)
LEMMA LedFacts ==
    ASSUME NEW e \in Events, NEW l, NEW m, Led(l, m, e)
    PROVE  l # <<>> /\ Head(l) = e /\ m = Tail(l)
<1>1. m \in Seq(Events) /\ l = <<e>> \o m
  BY Zenon DEF Led
<1>2. <<e>> \in Seq(Events) /\ Len(<<e>>) = 1 /\ <<e>>[1] = e
  OBVIOUS
<1> DEFINE n == Len(m)
<1>3. n \in Nat /\ m \in Seq(Events) /\ n = Len(m)
  BY <1>1
<1>4. l \in Seq(Events) /\ Len(l) = 1 + n
      /\ \A k \in 1 .. 1 + n : l[k] = IF k <= 1 THEN <<e>>[k] ELSE m[k - 1]
  BY SMTT(30), <1>1, <1>2, ConcatFacts
<1> HIDE DEF n
<1>5. l # <<>> /\ Head(l) = l[1] /\ l[1] = e
  BY SMTT(30), <1>2, <1>3, <1>4
<1>6. /\ Tail(l) \in Seq(Events) /\ Len(Tail(l)) = n
      /\ \A k \in 1 .. n : Tail(l)[k] = l[k + 1]
  BY SMTT(30), <1>3, <1>4
<1>7. \A k \in 1 .. n : Tail(l)[k] = m[k]
  BY SMTT(30), <1>3, <1>4, <1>6
<1>8. Tail(l) = m
  BY SMTT(30), <1>3, <1>6, <1>7, EqualSeqs
<1> QED
  BY Zenon, <1>5, <1>8

(* The event that the writer is done with was the first of Line4.            *)
LEMMA WriterLed ==
    ASSUME PipeTypes, NEW e \in Events, Held(Writer) = <<e>>, Held(Writer)' = <<>>,
           chan'[Writer] = chan[Writer]
    PROVE  Led(Line4, Line4', e)
<1>1. Held(Writer) \in Seq(Events) /\ chan[Writer] \in Seq(Events)
  BY SMTT(30), HeldFacts, StageCases DEF PipeTypes
<1>2. Led(<<e>>, <<>>, e)
  <2>1. <<>> \in Seq(Events) /\ <<e>> \o <<>> = <<e>>
    BY ConcatEmpty
  <2> QED
    BY ZenonT(40), <2>1 DEF Led
<1>3. Led(<<e>> \o chan[Writer], <<>> \o chan[Writer], e)
  BY Zenon, <1>1, <1>2, LedRight
<1> QED
  BY ZenonT(40), <1>3 DEF Line4

(* What the writer processes is the oldest event.                            *)
LEMMA WriterHead ==
    ASSUME PipeTypes, NEW e \in Events, Held(Writer) = <<e>>, Held(Writer)' = <<>>,
           \A j \in Stages \ {Writer} : Held(j)' = Held(j),
           \A j \in Stages : chan'[j] = chan[j]
    PROVE  InFlight # <<>> /\ Head(InFlight) = e /\ InFlight' = Tail(InFlight)
<1>1. \A j \in Stages : Held(j) \in Seq(Events) /\ chan[j] \in Seq(Events)
  BY HeldFacts DEF PipeTypes
<1>2. \A l, m : Led(l, m, e) => \A C \in Seq(Events) : Led(l \o C, m \o C, e)
  BY Zenon, LedRight
<1>4. Led(Line4, Line4', e)
  BY Zenon, StageCases, WriterLed
<1>5. Led(Line3, Line3', e)
  <2>1. Led(Line4 \o Held(Handler), Line4' \o Held(Handler), e)
    BY Zenon, <1>1, <1>2, <1>4, StageCases
  <2>2. Led((Line4 \o Held(Handler)) \o chan[Handler],
            (Line4' \o Held(Handler)) \o chan[Handler], e)
    BY Zenon, <1>1, <1>2, <2>1, StageCases
  <2> QED
    BY Zenon, <2>2, StageCases DEF Line3
<1>6. Led(Line2, Line2', e)
  <2>1. Led(Line3 \o Held(Filter), Line3' \o Held(Filter), e)
    BY Zenon, <1>1, <1>2, <1>5, StageCases
  <2>2. Led((Line3 \o Held(Filter)) \o chan[Filter],
            (Line3' \o Held(Filter)) \o chan[Filter], e)
    BY Zenon, <1>1, <1>2, <2>1, StageCases
  <2> QED
    BY Zenon, <2>2, StageCases DEF Line2
<1>7. Led(InFlight, InFlight', e)
  <2>1. Led(Line2 \o Held(Qualifier), Line2' \o Held(Qualifier), e)
    BY Zenon, <1>1, <1>2, <1>6, StageCases
  <2>2. Led((Line2 \o Held(Qualifier)) \o chan[Qualifier],
            (Line2' \o Held(Qualifier)) \o chan[Qualifier], e)
    BY Zenon, <1>1, <1>2, <2>1, StageCases
  <2>3. InFlight' = (Line2' \o Held(Qualifier)') \o chan'[Qualifier]
    BY Zenon DEF InFlight, Line4, Line3, Line2
  <2> QED
    BY Zenon, <2>2, <2>3, StageCases, LineTypes
<1> QED
  BY ZenonT(40), <1>7, LedFacts

(* A stage before the writer replaces its event by the outputs.              *)
LEMMA ForwardStep ==
    ASSUME PipeTypes, RestTypes, NEW i \in Stages, Process(i), i # Writer
    PROVE  LineStep
<1> DEFINE e == stage[i].ev
           out == Held(i)'
<1>1. /\ PipeTypes' /\ e \in EventsAt(i) /\ Held(i) = <<e>>
      /\ out \in Output(i, e) /\ chan' = chan
      /\ \A j \in Stages \ {i} : stage'[j] = stage[j]
  BY ZenonT(40), ProcessTypes
<1>2. cvs' = cvs
  BY DEF Process
<1>3. out \in Seq(EventsAt(i + 1)) /\ \A k \in 1 .. Len(out) : Promise!Stems(out[k], e)
  BY ZenonT(40), <1>1, OutputFacts
<1> HIDE DEF e, out
<1>4. e \in Events /\ out \in Seq(Events)
  BY SMTT(30), <1>1, <1>3, EventsAtFacts
<1>5. ASSUME NEW A \in Seq(Events)
      PROVE  Replaced(A \o Held(i), A \o Held(i)', e, out)
  <2>1. Replaced(A \o <<e>>, A \o out, e, out)
    BY <1>4, ReplacedLast
  <2> QED
    BY Zenon, <1>1, <2>1 DEF out
<1>6. /\ \A j \in Stages \ {i} : Held(j)' = Held(j)
      /\ \A j \in Stages : chan'[j] = chan[j]
  BY Zenon, <1>1, HeldSame
<1>7. Replaced(InFlight, InFlight', e, out)
  BY Zenon, <1>1, <1>4, <1>5, <1>6, ReplacedAt
<1> QED
  BY Zenon, <1>2, <1>3, <1>4, <1>7, RewriteStep

(* An event that is replaced by none at its stage is lost.                   *)
LEMMA DropStep ==
    ASSUME PipeTypes, PipeTypes', NEW i \in Stages, NEW e \in Events,
           Held(i) = <<e>>, Held(i)' = <<>>, chan' = chan, cvs' = cvs,
           \A j \in Stages \ {i} : stage'[j] = stage[j]
    PROVE  LineStep
<1>1. ASSUME NEW A \in Seq(Events)
      PROVE  Replaced(A \o Held(i), A \o Held(i)', e, <<>>)
  <2>1. <<>> \in Seq(Events)
    OBVIOUS
  <2>2. Replaced(A \o <<e>>, A \o <<>>, e, <<>>)
    BY Zenon, <2>1, ReplacedLast
  <2> QED
    BY Zenon, <2>2
<1>2. /\ \A j \in Stages \ {i} : Held(j)' = Held(j)
      /\ \A j \in Stages : chan'[j] = chan[j]
  BY Zenon, HeldSame
<1>3. <<>> \in Seq(Events)
  OBVIOUS
<1>4. Replaced(InFlight, InFlight', e, <<>>)
  BY Zenon, <1>1, <1>2, <1>3, ReplacedAt
<1> QED
  BY Zenon, <1>4, LossStep

(* The writer applies the oldest event; a deletion without a digest finds no *)
(* ComponentVersion and is lost.                                             *)
LEMMA WriterStep ==
    ASSUME PipeTypes, RestTypes, Process(Writer)
    PROVE  LineStep
<1> DEFINE e == stage[Writer].ev
<1>1. Writer \in Stages
  BY StageCases
<1>2. /\ PipeTypes' /\ RestTypes' /\ e \in EventsAt(Writer) /\ Held(Writer) = <<e>>
      /\ Held(Writer)' \in Output(Writer, e) /\ chan' = chan
      /\ \A j \in Stages \ {Writer} : stage'[j] = stage[j]
  BY Zenon, <1>1, ProcessTypes
<1>3. Held(Writer)' = <<>>
  BY Zenon, <1>1, <1>2, OutputFacts
<1>4. cvs' = WriterProcess(e)
  BY DEF Process
<1>5. /\ e.type = "deleted" =>
           \A n \in Names : WriterProcess(e)[n] =
               IF e.dig # None /\ cvs[n] # None /\ cvs[n].label = e.dig THEN None ELSE cvs[n]
      /\ e.type # "deleted" =>
           /\ <<e.repo, e.ver>> \in Images /\ Name(e) \in Names
           /\ e.spec \in Digests \cap Deployable /\ Entry(e) \in Entries
           /\ \A n \in Names : WriterProcess(e)[n] =
               IF n = Name(e) THEN Entry(e) ELSE cvs[n]
  BY ZenonT(40), <1>2, WriterTypes
<1>6. e \in Events /\ e.dig \in Digests \cup {None}
  BY SMTT(30), <1>1, <1>2, EventsAtFacts DEF Events
<1>7. Held(Writer)' = <<>>
  BY Zenon, <1>2, <1>3
<1> HIDE DEF e
<1>8. cvs \in [Names -> Entries \cup {None}] /\ cvs' \in [Names -> Entries \cup {None}]
  BY SMTT(30), <1>2 DEF RestTypes
<1>9. CASE e.type = "deleted" /\ e.dig = None
  <2>1. \A n \in Names : cvs'[n] = cvs[n]
    BY Zenon, <1>4, <1>5, <1>9
  <2>2. cvs' = cvs
    BY SMTT(30), <1>8, <2>1
  <2> QED
    BY Zenon, <1>1, <1>2, <1>6, <1>7, <2>2, DropStep
<1>10. CASE ~(e.type = "deleted" /\ e.dig = None)
  <2>1. InFlight # <<>> /\ Head(InFlight) = e /\ InFlight' = Tail(InFlight)
    <3>1. /\ \A j \in Stages \ {Writer} : Held(j)' = Held(j)
          /\ \A j \in Stages : chan'[j] = chan[j]
      BY Zenon, <1>2, HeldSame
    <3> QED
      BY Zenon, <1>2, <1>6, <1>7, <3>1, WriterHead
  <2>2. DOMAIN cvs = Names
    BY <1>8
  <2>3. e.type = "deleted" =>
          \A x \in DOMAIN cvs :
              cvs'[x] = IF cvs[x] # None /\ cvs[x].label = e.dig THEN None ELSE cvs[x]
    BY Zenon, <1>4, <1>5, <1>10, <2>2
  <2>4. e.type # "deleted" =>
          /\ cvs'[Name(e)] # None
          /\ cvs'[Name(e)].label = e.dig /\ cvs'[Name(e)].img = <<e.repo, e.ver>>
          /\ \A x \in DOMAIN cvs \ {Name(e)} : cvs'[x] = cvs[x]
    <3> SUFFICES ASSUME e.type # "deleted"
                 PROVE  /\ cvs'[Name(e)] # None
                        /\ cvs'[Name(e)].label = e.dig /\ cvs'[Name(e)].img = <<e.repo, e.ver>>
                        /\ \A x \in DOMAIN cvs \ {Name(e)} : cvs'[x] = cvs[x]
      BY Zenon
    <3>1. cvs'[Name(e)] = Entry(e)
      BY Zenon, <1>4, <1>5
    <3>2. \A x \in DOMAIN cvs \ {Name(e)} : cvs'[x] = cvs[x]
      BY Zenon, <1>4, <1>5, <2>2
    <3>3. Entry(e) # None
      BY Zenon, <1>5, NoneAssumption
    <3>4. Entry(e).label = e.dig /\ Entry(e).img = <<e.repo, e.ver>>
      BY DEF Entry
    <3> QED
      BY Zenon, <3>1, <3>2, <3>3, <3>4
  <2>5. Promise!Apply
    BY Zenon, <2>1, <2>3, <2>4 DEF Promise!Apply, Name
  <2> QED
    BY Zenon, <2>5 DEF LineStep, Promise!Next
<1> QED
  BY Zenon, <1>9, <1>10

(* A failing call loses the event.                                           *)
LEMMA FailStep ==
    ASSUME PipeTypes, RestTypes, NEW i \in Stages, ProcessFails(i)
    PROVE  LineStep
<1>1. /\ PipeTypes' /\ chan' = chan /\ cvs' = cvs /\ stage[i].ev \in EventsAt(i)
      /\ Held(i) = <<stage[i].ev>> /\ Held(i)' = <<>>
      /\ \A j \in Stages \ {i} : stage'[j] = stage[j]
  BY SMTT(30), ProcessFailsTypes
<1>2. stage[i].ev \in Events
  BY <1>1, EventsAtFacts
<1> QED
  BY Zenon, <1>1, <1>2, DropStep

(* A published output keeps its place, or is lost when the channel is full.  *)
LEMMA PublishStep ==
    ASSUME PipeTypes, RestTypes, NEW i \in Stages, PublishOutput(i)
    PROVE  LineStep
<1> DEFINE o == stage[i].out
<1>1. /\ PipeTypes' /\ cvs' = cvs /\ i # Writer /\ i + 1 \in Stages
      /\ o \in Seq(Events) /\ o # <<>> /\ Held(i) = o /\ Held(i)' = Tail(o)
      /\ \A j \in Stages \ {i} : stage'[j] = stage[j]
      /\ \A j \in Stages \ {i + 1} : chan'[j] = chan[j]
      /\ chan'[i + 1] \in {chan[i + 1], Append(chan[i + 1], Head(o))}
  BY PublishOutputTypes
<1> HIDE DEF o
<1>2. \A j \in Stages \ {i} : Held(j)' = Held(j)
  BY Zenon, <1>1, HeldSame
<1>3. CASE chan'[i + 1] = Append(chan[i + 1], Head(o))
  <2>1. InFlight' = InFlight
    BY Zenon, <1>1, <1>2, <1>3, MoveStep
  <2> QED
    BY Zenon, <1>1, <2>1, SameStep
<1>4. CASE chan'[i + 1] = chan[i + 1]
  <2>1. \A j \in Stages : chan'[j] = chan[j]
    BY Zenon, <1>1, <1>4
  <2>2. Head(o) \in Events /\ Tail(o) \in Seq(Events) /\ o = <<Head(o)>> \o Tail(o)
    BY <1>1, HeadTail
  <2> DEFINE h == Head(o)
             p == Tail(o)
  <2>3. h \in Events /\ p \in Seq(Events) /\ Held(i) = <<h>> \o p /\ Held(i)' = p
    BY Zenon, <1>1, <2>2
  <2> HIDE DEF h, p
  <2>4. ASSUME NEW A \in Seq(Events)
        PROVE  Replaced(A \o Held(i), A \o Held(i)', h, <<>>)
    <3>1. <<h>> \in Seq(Events) /\ <<>> \in Seq(Events) /\ A \o <<>> = A
      BY SMTT(30), <2>3, ConcatEmpty
    <3>2. (A \o <<h>>) \o p = A \o (<<h>> \o p)
      BY Zenon, <2>3, <3>1, AssociativeEvents
    <3>3. A \o Held(i) = (A \o <<h>>) \o p /\ A \o Held(i)' = (A \o <<>>) \o p
      BY Zenon, <2>3, <3>1, <3>2
    <3> QED
      BY Zenon, <2>3, <3>3 DEF Replaced
  <2>5. <<>> \in Seq(Events)
    OBVIOUS
  <2>6. Replaced(InFlight, InFlight', h, <<>>)
    BY Zenon, <1>1, <1>2, <2>1, <2>3, <2>4, <2>5, ReplacedAt
  <2> QED
    BY Zenon, <1>1, <2>3, <2>6, LossStep
<1> QED
  BY ZenonT(40), <1>1, <1>3, <1>4

(* Stages and channels that hold nothing make an empty line.                 *)
LEMMA EmptyLine ==
    ASSUME \A i \in Stages : Held(i) = <<>> /\ chan[i] = <<>>
    PROVE  InFlight = <<>>
<1>1. <<>> \o <<>> = <<>>
  BY ConcatEmpty
<1> QED
  BY Zenon, <1>1, StageCases DEF InFlight

(* The end of the process forgets the line.                                  *)
LEMMA DieStep ==
    ASSUME RestTypes, Die, Change \/ UNCHANGED changes
    PROVE  LineStep
<1>1. cvs' = cvs /\ \A i \in Stages : Held(i)' = <<>> /\ chan'[i] = <<>>
  BY DieTypes
<1>2. <<>> \o <<>> = <<>>
  BY ConcatEmpty
<1>3. InFlight' = <<>>
  BY Zenon, <1>1, <1>2, StageCases DEF InFlight
<1>4. Promise!Forget
  BY Zenon, <1>1, <1>3 DEF Promise!Forget
<1> QED
  BY Zenon, <1>4 DEF LineStep, Promise!Next

(* Start finds stages that hold nothing.                                     *)
LEMMA StartStep ==
    ASSUME StopInv, PipeTypes, RestTypes, Start
    PROVE  LineStep
<1>1. chan' = chan /\ cvs' = cvs /\ \A i \in Stages : Held(i)' = <<>>
  BY StartTypes
<1>2. \A i \in Stages : stage[i].pc \notin {"busy", "out"}
  BY SMTT(30) DEF Start, StopInv, Asleep
<1>3. \A i \in Stages : Held(i) = <<>>
  BY SMTT(30), <1>2, HeldFacts
<1>4. InFlight' = InFlight
  BY ZenonT(40), <1>1, <1>3, StageCases DEF InFlight
<1> QED
  BY Zenon, <1>1, <1>4, SameStep

(* Every step of the stages is a step of the line.                           *)
LEMMA StageLineStep ==
    ASSUME PipeTypes, RestTypes, NEW i \in Stages, StageStep(i)
    PROVE  LineStep
<1>1. CASE Receive(i)
  <2>1. InFlight' = InFlight
    BY Zenon, <1>1, ReceiveStep
  <2>2. cvs' = cvs
    BY <1>1 DEF Receive
  <2> QED
    BY Zenon, <2>1, <2>2, SameStep
<1>2. CASE LeaveLoop(i)
  <2>1. chan' = chan /\ \A j \in Stages : Held(j)' = Held(j)
    BY Zenon, <1>2, LeaveLoopTypes
  <2>2. cvs' = cvs
    BY <1>2 DEF LeaveLoop
  <2>3. InFlight' = InFlight
    BY Zenon, <2>1, StageCases DEF InFlight
  <2> QED
    BY Zenon, <2>2, <2>3, SameStep
<1>3. CASE Process(i)
  BY Zenon, <1>3, ForwardStep, WriterStep
<1>4. CASE ProcessFails(i)
  BY Zenon, <1>4, FailStep
<1>5. CASE PublishOutput(i)
  BY Zenon, <1>5, PublishStep
<1> QED
  BY Zenon, <1>1, <1>2, <1>3, <1>4, <1>5 DEF StageStep

(* Every step of the pipeline is a step of the line.                         *)
LEMMA NextLineStep ==
    ASSUME StopInv, PipeTypes, RestTypes, Taken, [Next]_vars
    PROVE  LineStep
<1>a. ASSUME chan' = chan, stage' = stage, cvs' = cvs PROVE LineStep
  BY Zenon, <1>a, PipeFrame, SameStep
<1>1. ASSUME NEW r \in Repos, NEW v \in Versions, PushImage(r, v) \/ RemoveImage(r, v)
      PROVE  LineStep
  <2>1. chan' = chan /\ stage' = stage /\ cvs' = cvs
    BY <1>1 DEF PushImage, RemoveImage, proc
  <2> QED
    BY Zenon, <1>a, <2>1
<1>2. ASSUME NEW n \in notices \cup requests, ServeHTTP(n)
      PROVE  LineStep
  <2>1. n \in Events
    BY SMTT(30), <1>2, ServeTypes
  <2>2. chan' = Publish(Qualifier, n) /\ stage' = stage /\ cvs' = cvs
    BY <1>2 DEF ServeHTTP
  <2> QED
    BY Zenon, <2>1, <2>2, EnterStep
<1>3. ASSUME NEW r \in scan.todo, ScanRepo(r) PROVE LineStep
  <2>1. /\ chan' = Publish(Qualifier, Event("created", r, None, None))
        /\ stage' = stage /\ cvs' = cvs
    BY <1>3 DEF ScanRepo
  <2> QED
    BY Zenon, <1>3, <2>1, ScanRepoEvent, EnterStep
<1>4. ASSUME BeginScan \/ ScanFails \/ EndScan \/ EndScanLoop PROVE LineStep
  <2>1. chan' = chan /\ stage' = stage /\ cvs' = cvs
    BY ZenonT(40), <1>4 DEF BeginScan, ScanFails, EndScan, EndScanLoop
  <2> QED
    BY Zenon, <1>a, <2>1
<1>5. ASSUME StartFails \/ Stop(TRUE) \/ Stop(FALSE) \/ ShutdownReturns \/ StopNext
      PROVE  LineStep
  <2>1. chan' = chan /\ stage' = stage /\ cvs' = cvs
    BY <1>5 DEF StartFails, Stop, ShutdownReturns, StopNext
  <2> QED
    BY Zenon, <1>a, <2>1
<1>6. ASSUME Restart \/ Crash PROVE LineStep
  <2>1. Die /\ (Change \/ UNCHANGED changes)
    BY SMTT(30), <1>6 DEF Restart, Crash
  <2> QED
    BY Zenon, <2>1, DieStep
<1>7. ASSUME UNCHANGED vars PROVE LineStep
  <2>1. chan' = chan /\ stage' = stage /\ cvs' = cvs
    BY SMTT(30), <1>7 DEF vars, proc
  <2> QED
    BY Zenon, <1>a, <2>1
<1> QED
  BY ZenonT(40), <1>1, <1>2, <1>3, <1>4, <1>5, <1>6, <1>7, StartStep,
     StageLineStep DEF Next

-----------------------------------------------------------------------------
(* Theorems                                                                  *)

(* Channels, stages and the rest have their types, and events carry what     *)
(* their stage needs of them: behind the qualifier an event that is no       *)
(* deletion names a version, behind the handler it has a content.            *)
THEOREM TypesInvariance == Spec => []Types
<1>1. Init => Types
  BY SMTT(30), InitTypes DEF Types, Taken, Init
<1>2. Types /\ [Next]_vars => Types'
  BY NextTypes, NextTaken DEF Types
<1> QED
  BY <1>1, <1>2, PTL DEF Spec

(* Every reachable state of the pipeline is well typed: no channel holds     *)
(* more than its capacity, whatever the capacity is, and a stage holds an    *)
(* event, or its outputs, or neither.                                        *)
THEOREM TypeCorrect == Spec => []TypeOK
<1>1. Types /\ StopInv => TypeOK
  <2> SUFFICES ASSUME Types, StopInv PROVE TypeOK
    OBVIOUS
  <2>1. ASSUME NEW i \in Stages
        PROVE  /\ Len(chan[i]) <= Cap[i]
               /\ \A k \in DOMAIN chan[i] : chan[i][k] \in Events
               /\ stage[i].pc \in {"off", "idle", "busy", "out", "done"}
               /\ (stage[i].pc = "busy") = (stage[i].ev # None)
               /\ (stage[i].pc = "out") = (stage[i].out # <<>>)
    <3>1. Len(chan[i]) <= Cap[i] /\ chan[i] \in Seq(Events) /\ StageOK(i, stage[i])
          /\ stage[i].pc \in {"off", "idle", "busy", "out", "done"}
      BY SMTT(30) DEF Types, PipeTypes, StageRecs
    <3>2. \A k \in DOMAIN chan[i] : chan[i][k] \in Events
      BY <3>1
    <3>3. /\ stage[i].pc = "busy" <=> stage[i].ev # None
          /\ stage[i].pc = "out" <=> stage[i].out # <<>>
      BY Zenon, <3>1 DEF StageOK
    <3> QED
      BY Zenon, <3>1, <3>2, <3>3
  <2>2. /\ images \in [Images -> Digests \cup {None}] /\ notices \subseteq Events
        /\ scan.pc \in {"off", "started", "first", "ticking", "done"}
        /\ cvs \in [Names -> Entries \cup {None}] /\ requests \subseteq notices
    BY DEF Types, RestTypes, Taken
  <2>3. life \in {"new", "running", "shutdown", "stopping", "stopped"} /\ halt \in 0 .. Writer
    BY Zenon DEF StopInv
  <2> QED
    BY Zenon, <2>1, <2>2, <2>3 DEF TypeOK
<1> QED
  BY <1>1, TypesInvariance, StopInvariance, PTL

(* The four stages, their channels and their goroutines implement one line   *)
(* of events, for every number of images, every capacity and every schedule. *)
THEOREM StagesAreOneLine == Spec => DeliversInOrder
<1>1. Init => Promise!Init
  <2> SUFFICES ASSUME Init PROVE Promise!Init
    OBVIOUS
  <2>1. InFlight = <<>>
    BY SMTT(30), InitTypes, EmptyLine
  <2>2. \A x \in DOMAIN cvs : cvs[x] = None
    BY DEF Init
  <2> QED
    BY Zenon, <2>1, <2>2 DEF Promise!Init
<1>2. StopInv /\ Types /\ [Next]_vars => [Promise!Next]_<<InFlight, cvs>>
  BY NextLineStep DEF Types, LineStep
<1> QED
  BY <1>1, <1>2, TypesInvariance, StopInvariance, PTL DEF Spec, DeliversInOrder, Promise!Spec

-----------------------------------------------------------------------------
(* Contents never go back.                                                   *)

(* The events the handler has read a content for, oldest first.              *)
Read == Line4 \o stage[Handler].out

Writes(e, x) == e.type # "deleted" /\ <<e.repo, e.ver>> = x

(* The catalog c describes the image x, with the content SpecOf(c, x).       *)
Describes(c, x) ==
    c[ComponentVersionName[x]] # None /\ c[ComponentVersionName[x]].img = x

SpecOf(c, x) == c[ComponentVersionName[x]].spec

(* A content n of the image x is not newer than the last push, nor than the  *)
(* image in the registry im.                                                 *)
NotNewer(n, x, im, p) == n <= p /\ (im[x] # None => n <= im[x])

(* The registry im, the events l and the catalog c have the contents of each *)
(* image in the order of the pushes.                                         *)
OrderOK(l, im, p, c) ==
    \A x \in Images :
        /\ im[x] # None => im[x] <= p
        /\ Describes(c, x) => NotNewer(SpecOf(c, x), x, im, p)
        /\ \A k \in 1 .. Len(l) : Writes(l[k], x) =>
             /\ NotNewer(l[k].spec, x, im, p)
             /\ Describes(c, x) => SpecOf(c, x) <= l[k].spec
             /\ \A h \in 1 .. k : Writes(l[h], x) => l[h].spec <= l[k].spec

SpecOrder == OrderOK(Read, images, pushes, cvs)

(* The contents of the pushes are numbers.                                   *)
LEMMA ImageNumbers ==
    ASSUME RestTypes, NEW x \in Images
    PROVE  /\ images[x] # None => images[x] \in Nat
           /\ Describes(cvs, x) => SpecOf(cvs, x) \in Nat
           /\ pushes \in Nat
<1>1. /\ images[x] \in Digests \cup {None} /\ pushes \in Nat
      /\ cvs[ComponentVersionName[x]] \in Entries \cup {None}
  BY SMTT(30) DEF RestTypes, Names
<1>2. Describes(cvs, x) => SpecOf(cvs, x) \in Deployable
  BY <1>1 DEF Entries, Describes, SpecOf
<1> QED
  BY ZenonT(40), <1>1, <1>2, FirstPushesType, DiscoveryAssumption

(* An event that waits for the writer has a number for a content.            *)
LEMMA WriterNumbers ==
    ASSUME NEW l \in Seq(EventsAt(Writer)), NEW k \in 1 .. Len(l), NEW x, Writes(l[k], x)
    PROVE  l[k].spec \in Nat
<1>1. l[k] \in EventsAt(Writer)
  OBVIOUS
<1>2. Writer > Handler
  BY SMTT(30) DEF Writer, Handler
<1>3. l[k].spec \in Deployable
  BY SMTT(30), <1>1, <1>2 DEF EventsAt, Writes
<1> QED
  BY Zenon, <1>3, DiscoveryAssumption

(* The oldest event may go.                                                  *)
LEMMA OrderTail ==
    ASSUME NEW S, NEW l \in Seq(S), l # <<>>, NEW im, NEW p, NEW c, OrderOK(l, im, p, c)
    PROVE  OrderOK(Tail(l), im, p, c)
<1> DEFINE m == Tail(l)
<1>1. Len(m) \in Nat /\ Len(l) = Len(m) + 1 /\ \A k \in 1 .. Len(m) : m[k] = l[k + 1]
  OBVIOUS
<1> HIDE DEF m
<1>2. ASSUME NEW x \in Images, NEW k \in 1 .. Len(m), Writes(m[k], x)
      PROVE  /\ NotNewer(m[k].spec, x, im, p)
             /\ Describes(c, x) => SpecOf(c, x) <= m[k].spec
             /\ \A h \in 1 .. k : Writes(m[h], x) => m[h].spec <= m[k].spec
  <2>1. k + 1 \in 1 .. Len(l) /\ m[k] = l[k + 1]
    BY <1>1
  <2>2. /\ NotNewer(l[k + 1].spec, x, im, p)
        /\ Describes(c, x) => SpecOf(c, x) <= l[k + 1].spec
        /\ \A h \in 1 .. k + 1 : Writes(l[h], x) => l[h].spec <= l[k + 1].spec
    BY Zenon, <1>2, <2>1 DEF OrderOK
  <2>3. \A h \in 1 .. k : h + 1 \in 1 .. k + 1 /\ m[h] = l[h + 1]
    BY <1>1
  <2> QED
    BY Zenon, <2>1, <2>2, <2>3
<1>3. \A x \in Images : /\ im[x] # None => im[x] <= p
                        /\ Describes(c, x) => NotNewer(SpecOf(c, x), x, im, p)
  BY Zenon DEF OrderOK
<1>4. OrderOK(m, im, p, c)
  BY Zenon, <1>2, <1>3 DEF OrderOK
<1> QED
  BY Zenon, <1>4 DEF m

(* The newest one may go.                                                    *)
LEMMA OrderFront ==
    ASSUME NEW S, NEW s \in Seq(S), NEW e \in S, NEW im, NEW p, NEW c,
           OrderOK(Append(s, e), im, p, c)
    PROVE  OrderOK(s, im, p, c)
<1> DEFINE l == Append(s, e)
<1>1. Len(s) \in Nat /\ Len(l) = Len(s) + 1 /\ \A k \in 1 .. Len(s) : l[k] = s[k]
  OBVIOUS
<1>2. OrderOK(l, im, p, c)
  BY Zenon
<1> HIDE DEF l
<1>3. ASSUME NEW x \in Images, NEW k \in 1 .. Len(s), Writes(s[k], x)
      PROVE  /\ NotNewer(s[k].spec, x, im, p)
             /\ Describes(c, x) => SpecOf(c, x) <= s[k].spec
             /\ \A h \in 1 .. k : Writes(s[h], x) => s[h].spec <= s[k].spec
  <2>1. k \in 1 .. Len(l) /\ s[k] = l[k] /\ \A h \in 1 .. k : s[h] = l[h]
    BY <1>1
  <2> QED
    BY Zenon, <1>2, <1>3, <2>1 DEF OrderOK
<1>4. \A x \in Images : /\ im[x] # None => im[x] <= p
                        /\ Describes(c, x) => NotNewer(SpecOf(c, x), x, im, p)
  BY Zenon, <1>2 DEF OrderOK
<1> QED
  BY Zenon, <1>3, <1>4 DEF OrderOK

(* An event joins whose content is that of the image in the registry.        *)
LEMMA OrderAppend ==
    ASSUME NEW S, NEW s \in Seq(S), NEW e \in S, NEW im, NEW p, NEW c,
           OrderOK(s, im, p, c),
           \A x \in Images : Writes(e, x) =>
               im[x] # None /\ e.spec = im[x] /\ im[x] \in Nat
    PROVE  OrderOK(Append(s, e), im, p, c)
<1> DEFINE l == Append(s, e)
<1>1. /\ Len(s) \in Nat /\ Len(l) = Len(s) + 1 /\ \A k \in 1 .. Len(s) : l[k] = s[k]
      /\ l[Len(s) + 1] = e
  BY SMTT(30)
<1> HIDE DEF l
<1>2. ASSUME NEW x \in Images, NEW k \in 1 .. Len(l), Writes(l[k], x)
      PROVE  /\ NotNewer(l[k].spec, x, im, p)
             /\ Describes(c, x) => SpecOf(c, x) <= l[k].spec
             /\ \A h \in 1 .. k : Writes(l[h], x) => l[h].spec <= l[k].spec
  <2>1. CASE k \in 1 .. Len(s)
    <3>1. l[k] = s[k] /\ \A h \in 1 .. k : l[h] = s[h]
      BY SMTT(30), <1>1, <2>1
    <3> QED
      BY ZenonT(40), <1>2, <2>1, <3>1 DEF OrderOK
  <2>2. CASE k = Len(s) + 1
    <3>1. l[k] = e /\ im[x] # None /\ e.spec = im[x] /\ im[x] \in Nat
      BY ZenonT(40), <1>1, <1>2, <2>2
    <3>2. e.spec <= e.spec
      BY <3>1
    <3>3. im[x] <= p /\ (Describes(c, x) => SpecOf(c, x) <= im[x])
      BY Zenon, <3>1 DEF OrderOK, NotNewer
    <3>4. ASSUME NEW h \in 1 .. k, Writes(l[h], x)
          PROVE  l[h].spec <= l[k].spec
      <4>1. h \in 1 .. Len(s) \/ h = k
        BY SMTT(30), <1>1, <2>2
      <4>2. CASE h = k
        BY Zenon, <3>1, <3>2, <4>2
      <4>3. CASE h \in 1 .. Len(s)
        <5>1. l[h] = s[h]
          BY SMTT(30), <1>1, <4>3
        <5>2. s[h].spec <= im[x]
          BY ZenonT(40), <3>1, <3>4, <4>3, <5>1 DEF OrderOK, NotNewer
        <5> QED
          BY ZenonT(40), <3>1, <5>1, <5>2
      <4> QED
        BY ZenonT(40), <4>1, <4>2, <4>3
    <3> QED
      BY Zenon, <3>1, <3>2, <3>3, <3>4 DEF NotNewer
  <2>3. k \in 1 .. Len(s) \/ k = Len(s) + 1
    BY SMTT(30), <1>1
  <2> QED
    BY ZenonT(40), <2>1, <2>2, <2>3
<1>3. \A x \in Images : /\ im[x] # None => im[x] <= p
                        /\ Describes(c, x) => NotNewer(SpecOf(c, x), x, im, p)
  BY Zenon DEF OrderOK
<1>4. OrderOK(l, im, p, c)
  BY Zenon, <1>2, <1>3 DEF OrderOK
<1> QED
  BY Zenon, <1>4 DEF l

(* No event is left.                                                         *)
LEMMA OrderEmpty ==
    ASSUME NEW l, NEW im, NEW p, NEW c, OrderOK(l, im, p, c)
    PROVE  OrderOK(<<>>, im, p, c)
<1>1. 1 .. Len(<<>>) = {}
  OBVIOUS
<1>2. \A x \in Images : /\ im[x] # None => im[x] <= p
                        /\ Describes(c, x) => NotNewer(SpecOf(c, x), x, im, p)
  BY Zenon DEF OrderOK
<1> QED
  BY Zenon, <1>1, <1>2 DEF OrderOK

(* What waits for the writer has been through the handler.                   *)
LEMMA ReadTypes ==
    ASSUME PipeTypes
    PROVE  /\ Line4 \in Seq(EventsAt(Writer)) /\ stage[Handler].out \in Seq(EventsAt(Writer))
           /\ Read \in Seq(EventsAt(Writer))
           /\ Line4 \in Seq(Events) /\ stage[Handler].out \in Seq(Events)
<1>1. /\ StageOK(Writer, stage[Writer]) /\ StageOK(Handler, stage[Handler])
      /\ chan[Writer] \in Seq(EventsAt(Writer)) /\ stage[Handler] \in StageRecs
  BY Zenon, StageCases DEF PipeTypes
<1>2. stage[Handler].out \in Seq(EventsAt(Writer)) /\ stage[Handler].out \in Seq(Events)
  BY Zenon, <1>1, StageCases DEF StageOK, StageRecs
<1>3. Held(Writer) \in Seq(EventsAt(Writer))
  <2>1. stage[Writer].ev \in EventsAt(Writer) \cup {None} /\ stage[Writer].out = <<>>
    BY ZenonT(40), <1>1 DEF StageOK
  <2> QED
    BY <2>1 DEF Held
<1>4. Line4 \in Seq(EventsAt(Writer))
  BY SMTT(30), <1>1, <1>3 DEF Line4
<1>5. Read \in Seq(EventsAt(Writer))
  BY SMTT(30), <1>2, <1>4 DEF Read
<1> QED
  BY ZenonT(40), <1>2, <1>4, <1>5, LineTypes

(* Nothing that matters to the order changes.                                *)
LEMMA SameOrder ==
    ASSUME SpecOrder, Read' = Read, images' = images, pushes' = pushes, cvs' = cvs
    PROVE  SpecOrder'
BY Zenon DEF SpecOrder

(* The writer applies the oldest event, and the content it writes is not     *)
(* older than the one it replaces.                                           *)
LEMMA WriterOrder ==
    ASSUME PipeTypes, RestTypes, SpecOrder, Process(Writer)
    PROVE  /\ SpecOrder'
           /\ \A x \in Images : Describes(cvs, x) /\ Describes(cvs', x) =>
                  SpecOf(cvs, x) <= SpecOf(cvs', x)
<1> DEFINE e == stage[Writer].ev
           l == Read
           m == Read'
<1>1. Writer \in Stages
  BY StageCases
<1>2. /\ PipeTypes' /\ RestTypes' /\ e \in EventsAt(Writer) /\ Held(Writer) = <<e>>
      /\ Held(Writer)' \in Output(Writer, e) /\ chan' = chan
      /\ \A j \in Stages \ {Writer} : stage'[j] = stage[j]
  BY Zenon, <1>1, ProcessTypes
<1>3. Held(Writer)' = <<>>
  BY ZenonT(40), <1>1, <1>2, OutputFacts
<1>4. cvs' = WriterProcess(e) /\ images' = images /\ pushes' = pushes
  BY DEF Process, env
<1>5. /\ e.type = "deleted" =>
           \A n \in Names : WriterProcess(e)[n] =
               IF e.dig # None /\ cvs[n] # None /\ cvs[n].label = e.dig THEN None ELSE cvs[n]
      /\ e.type # "deleted" =>
           /\ <<e.repo, e.ver>> \in Images /\ Name(e) \in Names
           /\ e.spec \in Digests \cap Deployable /\ Entry(e) \in Entries
           /\ \A n \in Names : WriterProcess(e)[n] =
               IF n = Name(e) THEN Entry(e) ELSE cvs[n]
  BY ZenonT(40), <1>2, WriterTypes
<1>6. e \in Events
  BY SMTT(30), <1>1, <1>2, EventsAtFacts
<1>7. l # <<>> /\ Head(l) = e /\ m = Tail(l)
  <2>1. chan'[Writer] = chan[Writer] /\ Held(Writer)' = <<>>
    BY Zenon, <1>2, <1>3
  <2>2. Led(Line4, Line4', e)
    BY Zenon, <1>2, <1>6, <2>1, WriterLed
  <2>3. stage'[Handler].out = stage[Handler].out
    BY Zenon, <1>2, StageCases
  <2>4. Led(Line4 \o stage[Handler].out, Line4' \o stage[Handler].out, e)
    BY Zenon, <1>6, <2>2, ReadTypes, LedRight
  <2>5. Led(l, m, e)
    BY Zenon, <2>3, <2>4 DEF Read
  <2> QED
    BY Zenon, <1>6, <2>5, LedFacts
<1>8. l \in Seq(EventsAt(Writer)) /\ OrderOK(l, images, pushes, cvs)
  BY Zenon, ReadTypes DEF SpecOrder
<1>9. OrderOK(m, images, pushes, cvs)
  BY ZenonT(40), <1>7, <1>8, OrderTail
<1>10. Len(l) \in Nat /\ 1 \in 1 .. Len(l) /\ l[1] = e /\ Len(m) \in Nat
       /\ Len(l) = Len(m) + 1 /\ \A k \in 1 .. Len(m) : m[k] = l[k + 1]
  BY SMTT(30), <1>7, <1>8
<1> HIDE DEF e, l, m
<1>11. ASSUME NEW x \in Images
       PROVE  \/ ~Describes(cvs', x)
              \/ Describes(cvs, x) /\ SpecOf(cvs', x) = SpecOf(cvs, x)
              \/ Writes(e, x) /\ SpecOf(cvs', x) = e.spec
  <2> DEFINE n == ComponentVersionName[x]
  <2>1. n \in Names
    BY DEF Names
  <2>2. CASE e.type = "deleted"
    <3>1. cvs'[n] = None \/ cvs'[n] = cvs[n]
      BY Zenon, <1>4, <1>5, <2>1, <2>2
    <3> QED
      BY Zenon, <3>1 DEF Describes, SpecOf
  <2>3. CASE e.type # "deleted" /\ n # Name(e)
    <3>1. cvs'[n] = cvs[n]
      BY Zenon, <1>4, <1>5, <2>1, <2>3
    <3> QED
      BY Zenon, <3>1 DEF Describes, SpecOf
  <2>4. CASE e.type # "deleted" /\ n = Name(e)
    <3>1. cvs'[n] = Entry(e)
      BY ZenonT(40), <1>4, <1>5, <2>1, <2>4
    <3>2. Entry(e).spec = e.spec /\ Entry(e).img = <<e.repo, e.ver>>
      BY DEF Entry
    <3> QED
      BY Zenon, <2>4, <3>1, <3>2 DEF Writes, Describes, SpecOf
  <2> QED
    BY Zenon, <2>2, <2>3, <2>4
<1>12. ASSUME NEW x \in Images, Writes(e, x)
       PROVE  /\ NotNewer(e.spec, x, images, pushes)
              /\ Describes(cvs, x) => SpecOf(cvs, x) <= e.spec
              /\ \A k \in 1 .. Len(m) : Writes(m[k], x) => e.spec <= m[k].spec
  <2>1. /\ NotNewer(e.spec, x, images, pushes)
        /\ Describes(cvs, x) => SpecOf(cvs, x) <= e.spec
    BY Zenon, <1>8, <1>10, <1>12 DEF OrderOK
  <2>2. ASSUME NEW k \in 1 .. Len(m), Writes(m[k], x)
        PROVE  e.spec <= m[k].spec
    <3>1. k + 1 \in 1 .. Len(l) /\ 1 \in 1 .. k + 1 /\ m[k] = l[k + 1]
      BY <1>10
    <3>2. \A h \in 1 .. k + 1 : Writes(l[h], x) => l[h].spec <= l[k + 1].spec
      BY Zenon, <1>8, <2>2, <3>1 DEF OrderOK
    <3> QED
      BY ZenonT(40), <1>10, <1>12, <3>1, <3>2
  <2> QED
    BY Zenon, <2>1, <2>2
<1>13. OrderOK(m, images, pushes, cvs')
  <2>1. ASSUME NEW x \in Images
        PROVE  /\ images[x] # None => images[x] <= pushes
               /\ Describes(cvs', x) => NotNewer(SpecOf(cvs', x), x, images, pushes)
    BY Zenon, <1>9, <1>11, <1>12 DEF OrderOK
  <2>2. ASSUME NEW x \in Images, NEW k \in 1 .. Len(m), Writes(m[k], x)
        PROVE  /\ NotNewer(m[k].spec, x, images, pushes)
               /\ Describes(cvs', x) => SpecOf(cvs', x) <= m[k].spec
               /\ \A h \in 1 .. k : Writes(m[h], x) => m[h].spec <= m[k].spec
    <3>1. /\ NotNewer(m[k].spec, x, images, pushes)
          /\ Describes(cvs, x) => SpecOf(cvs, x) <= m[k].spec
          /\ \A h \in 1 .. k : Writes(m[h], x) => m[h].spec <= m[k].spec
      BY Zenon, <1>9, <2>2 DEF OrderOK
    <3>2. Describes(cvs', x) => SpecOf(cvs', x) <= m[k].spec
      BY ZenonT(40), <1>11, <1>12, <2>2, <3>1
    <3> QED
      BY Zenon, <3>1, <3>2
  <2> QED
    BY Zenon, <2>1, <2>2 DEF OrderOK
<1>14. SpecOrder'
  BY Zenon, <1>4, <1>13 DEF SpecOrder, m
<1>15. ASSUME NEW x \in Images, Describes(cvs, x), Describes(cvs', x)
       PROVE  SpecOf(cvs, x) <= SpecOf(cvs', x)
  <2>1. SpecOf(cvs, x) <= SpecOf(cvs, x)
    BY <1>15, ImageNumbers
  <2> QED
    BY ZenonT(40), <1>11, <1>12, <1>15, <2>1
<1> QED
  BY Zenon, <1>14, <1>15

(* A failed write loses the oldest event.                                    *)
LEMMA WriterFailsOrder ==
    ASSUME PipeTypes, RestTypes, SpecOrder, ProcessFails(Writer)
    PROVE  SpecOrder'
<1> DEFINE e == stage[Writer].ev
<1>1. Writer \in Stages
  BY StageCases
<1>2. /\ chan' = chan /\ UNCHANGED <<images, pushes, cvs>> /\ e \in EventsAt(Writer)
      /\ Held(Writer) = <<e>> /\ Held(Writer)' = <<>>
      /\ \A j \in Stages \ {Writer} : stage'[j] = stage[j]
  BY Zenon, <1>1, ProcessFailsTypes
<1>3. e \in Events
  BY SMTT(30), <1>1, <1>2, EventsAtFacts
<1> HIDE DEF e
<1>4. Led(Line4, Line4', e)
  BY Zenon, <1>2, <1>3, WriterLed
<1>5. Led(Line4 \o stage[Handler].out, Line4' \o stage[Handler].out, e)
  BY Zenon, <1>3, <1>4, ReadTypes, LedRight
<1>6. stage'[Handler].out = stage[Handler].out
  BY Zenon, <1>2, StageCases
<1>7. Led(Read, Read', e)
  BY Zenon, <1>5, <1>6 DEF Read
<1>8. Read # <<>> /\ Read' = Tail(Read)
  BY Zenon, <1>3, <1>7, LedFacts
<1>9. OrderOK(Tail(Read), images, pushes, cvs)
  BY ZenonT(40), <1>8, ReadTypes, OrderTail DEF SpecOrder
<1>10. images' = images /\ pushes' = pushes /\ cvs' = cvs
  BY <1>2
<1> QED
  BY Zenon, <1>8, <1>9, <1>10 DEF SpecOrder

(* The handler adds an event with the content the image has now.             *)
LEMMA HandlerOrder ==
    ASSUME PipeTypes, RestTypes, SpecOrder, Process(Handler)
    PROVE  SpecOrder'
<1> DEFINE e == stage[Handler].ev
           out == stage'[Handler].out
<1>1. Handler \in Stages /\ Handler # Writer
  BY StageCases
<1>2. /\ e \in EventsAt(Handler) /\ stage[Handler].out = <<>> /\ out \in Output(Handler, e)
      /\ chan' = chan /\ \A j \in Stages \ {Handler} : stage'[j] = stage[j]
  BY ZenonT(40), <1>1, ProcessTypes
<1>3. images' = images /\ pushes' = pushes /\ cvs' = cvs
  BY <1>1 DEF Process, env
<1>4. Line4' = Line4
  <2>1. Held(Writer)' = Held(Writer)
    BY Zenon, <1>2, StageCases, HeldSame
  <2> QED
    BY Zenon, <1>2, <2>1 DEF Line4
<1>5. Read = Line4 /\ Line4 \o <<>> = Line4
  <2>1. Line4 \o <<>> = Line4
    BY SMTT(30), ReadTypes, ConcatEmpty
  <2> QED
    BY Zenon, <1>2, <2>1 DEF Read
<1>6. Read' = Line4 \o out
  BY Zenon, <1>4 DEF Read
<1>7. out \in HandlerProcess(e)
  BY <1>2, StageCases DEF Output
<1>8. \/ out = <<>>
      \/ /\ e.type = "deleted" /\ e \in EventsAt(Writer) /\ out = <<e>>
      \/ /\ e.type # "deleted" /\ <<e.repo, e.ver>> \in Images
         /\ images[<<e.repo, e.ver>>] \in Digests
         /\ [e EXCEPT !.spec = images[<<e.repo, e.ver>>]] \in EventsAt(Writer)
         /\ out = <<[e EXCEPT !.spec = images[<<e.repo, e.ver>>]]>>
  BY ZenonT(40), <1>2, <1>7, HandlerOutput
<1>9. e \in Events
  BY SMTT(30), <1>1, <1>2, EventsAtFacts
<1> HIDE DEF e, out
<1>10. ASSUME NEW f \in EventsAt(Writer), out = <<f>>,
              \A x \in Images : Writes(f, x) =>
                  images[x] # None /\ f.spec = images[x] /\ images[x] \in Nat
       PROVE  SpecOrder'
  <2>1. OrderOK(Line4, images, pushes, cvs)
    BY Zenon, <1>5 DEF SpecOrder
  <2>2. OrderOK(Append(Line4, f), images, pushes, cvs)
    BY Zenon, <1>10, <2>1, ReadTypes, OrderAppend
  <2>3. Append(Line4, f) = Line4 \o <<f>>
    BY SMTT(30), ReadTypes, AppendConcat
  <2> QED
    BY Zenon, <1>3, <1>6, <1>10, <2>2, <2>3 DEF SpecOrder
<1>11. CASE out = <<>>
  <2>1. Read' = Read
    BY Zenon, <1>5, <1>6, <1>11
  <2> QED
    BY Zenon, <1>3, <2>1, SameOrder
<1>12. CASE e.type = "deleted" /\ e \in EventsAt(Writer) /\ out = <<e>>
  <2>1. \A x \in Images : ~Writes(e, x)
    BY Zenon, <1>12 DEF Writes
  <2> QED
    BY Zenon, <1>10, <1>12, <2>1
<1>13. CASE /\ e.type # "deleted" /\ <<e.repo, e.ver>> \in Images
            /\ images[<<e.repo, e.ver>>] \in Digests
            /\ [e EXCEPT !.spec = images[<<e.repo, e.ver>>]] \in EventsAt(Writer)
            /\ out = <<[e EXCEPT !.spec = images[<<e.repo, e.ver>>]]>>
  <2> DEFINE y == <<e.repo, e.ver>>
             f == [e EXCEPT !.spec = images[y]]
  <2>1. f.spec = images[y] /\ f.repo = e.repo /\ f.ver = e.ver
    BY <1>9 DEF Events
  <2>2. f \in EventsAt(Writer) /\ out = <<f>>
    BY Zenon, <1>13
  <2>3. images[y] # None /\ images[y] \in Nat
    BY SMTT(30), <1>13, NoneAssumption, FirstPushesType
  <2> HIDE DEF f
  <2>4. \A x \in Images : Writes(f, x) =>
            images[x] # None /\ f.spec = images[x] /\ images[x] \in Nat
    BY Zenon, <2>1, <2>3 DEF Writes
  <2> QED
    BY Zenon, <1>10, <2>2, <2>4
<1> QED
  BY ZenonT(40), <1>8, <1>11, <1>12, <1>13

(* The handler's one output goes to the writer's channel, or is lost.        *)
LEMMA HandlerPublishOrder ==
    ASSUME PipeTypes, RestTypes, SpecOrder, PublishOutput(Handler)
    PROVE  SpecOrder'
<1> DEFINE o == stage[Handler].out
<1>1. Handler \in Stages /\ Handler + 1 = Writer
  BY StageCases
<1>2. /\ UNCHANGED <<images, pushes, cvs>> /\ o \in Seq(Events) /\ o # <<>>
      /\ stage'[Handler].out = Tail(o)
      /\ \A j \in Stages \ {Handler} : stage'[j] = stage[j]
      /\ chan'[Handler + 1] \in {chan[Handler + 1], Append(chan[Handler + 1], Head(o))}
  BY Zenon, <1>1, PublishOutputTypes
<1>3. images' = images /\ pushes' = pushes /\ cvs' = cvs
  BY ZenonT(40), <1>2
<1>4. /\ Held(Writer)' = Held(Writer) /\ Held(Writer) \in Seq(Events)
      /\ chan[Writer] \in Seq(Events)
  BY SMTT(30), <1>2, HeldSame, HeldFacts, StageCases DEF PipeTypes
<1>5. Read = (Held(Writer) \o chan[Writer]) \o o
  BY Zenon DEF Read, Line4
<1>6. Read' = (Held(Writer) \o chan'[Writer]) \o Tail(o)
  BY Zenon, <1>2, <1>4 DEF Read, Line4
<1>7. o \in Seq(EventsAt(Writer))
  BY ZenonT(40), ReadTypes
<1>a. Len(o) <= 1
  BY SMTT(30), <1>1 DEF PipeTypes, StageOK
<1> HIDE DEF o
<1>8. CASE chan'[Writer] = Append(chan[Writer], Head(o))
  <2>1. (Held(Writer) \o Append(chan[Writer], Head(o))) \o Tail(o)
            = (Held(Writer) \o chan[Writer]) \o o
    BY ZenonT(40), <1>2, <1>4, MoveSame
  <2>2. Read' = Read
    BY Zenon, <1>5, <1>6, <1>8, <2>1
  <2> QED
    BY Zenon, <1>3, <2>2, SameOrder
<1>9. CASE chan'[Writer] = chan[Writer]
  <2>1. Head(o) \in EventsAt(Writer) /\ Tail(o) = <<>> /\ o = <<Head(o)>>
    <3>a. Head(o) \in EventsAt(Writer) /\ o = <<Head(o)>> \o Tail(o)
      BY ZenonT(40), <1>2, <1>7, HeadTail
    <3>b. Len(o) \in Nat /\ Len(o) # 0
      BY SMTT(30), <1>2, NonEmpty
    <3>c. Len(o) = 1
      <4>1. \A n \in Nat : n # 0 /\ n <= 1 => n = 1
        OBVIOUS
      <4> QED
        BY Zenon, <1>a, <3>b, <4>1
    <3>1. Len(o) = 1 /\ Head(o) = o[1]
      BY SMTT(30), <1>2, <3>c
    <3>2. Tail(o) \in Seq(Events) /\ Len(Tail(o)) = 0
      BY SMTT(30), <1>2, <3>1
    <3>3. Tail(o) = <<>>
      BY ZenonT(40), <3>2, NonEmpty
    <3>4. o = <<Head(o)>>
      BY SMTT(30), <1>2, <3>1
    <3> QED
      BY ZenonT(40), <3>a, <3>3, <3>4
  <2>2. Line4 \o <<>> = Line4 /\ Append(Line4, Head(o)) = Line4 \o <<Head(o)>>
    BY Zenon, <2>1, ReadTypes, ConcatEmpty, AppendConcat
  <2>3. Read = Append(Line4, Head(o))
    BY Zenon, <1>5, <2>1, <2>2 DEF Line4
  <2>4. Read' = Line4
    BY Zenon, <1>6, <1>9, <2>1, <2>2 DEF Line4
  <2>5. OrderOK(Line4, images, pushes, cvs)
    BY ZenonT(40), <2>1, <2>3, ReadTypes, OrderFront DEF SpecOrder
  <2> QED
    BY Zenon, <1>3, <2>4, <2>5 DEF SpecOrder
<1> QED
  BY ZenonT(40), <1>1, <1>2, <1>8, <1>9

(* A step of a stage that touches neither what waits for the writer nor the  *)
(* catalog.                                                                  *)
LEMMA ReadFrame ==
    ASSUME Held(Writer)' = Held(Writer), chan'[Writer] = chan[Writer],
           stage'[Handler].out = stage[Handler].out
    PROVE  Read' = Read /\ Line4' = Line4
<1>1. Line4' = Line4
  BY Zenon DEF Line4
<1> QED
  BY Zenon, <1>1 DEF Read

(* The stages keep the contents in order.                                    *)
LEMMA StageOrder ==
    ASSUME PipeTypes, RestTypes, SpecOrder, NEW i \in Stages, StageStep(i)
    PROVE  SpecOrder'
<1>1. CASE Receive(i)
  <2>1. Line4' = Line4
    BY Zenon, <1>1, ReceiveStep
  <2>2. stage'[Handler].out = stage[Handler].out
    BY Zenon, <1>1, ReceiveTypes, StageCases
  <2>3. Read' = Read
    BY Zenon, <2>1, <2>2 DEF Read
  <2>4. images' = images /\ pushes' = pushes /\ cvs' = cvs
    BY Zenon, <1>1 DEF Receive, env
  <2> QED
    BY Zenon, <2>3, <2>4, SameOrder
<1>2. CASE LeaveLoop(i)
  <2>1. chan' = chan /\ \A j \in Stages : Held(j)' = Held(j) /\ stage'[j].out = stage[j].out
    BY Zenon, <1>2, LeaveLoopTypes
  <2>2. Read' = Read
    BY ZenonT(40), <2>1, StageCases, ReadFrame
  <2>3. images' = images /\ pushes' = pushes /\ cvs' = cvs
    BY <1>2 DEF LeaveLoop, env
  <2> QED
    BY Zenon, <2>2, <2>3, SameOrder
<1>3. CASE Process(i)
  <2>1. CASE i = Writer
    BY Zenon, <1>3, <2>1, WriterOrder
  <2>2. CASE i = Handler
    BY Zenon, <1>3, <2>2, HandlerOrder
  <2>3. CASE i # Writer /\ i # Handler
    <3>1. chan' = chan /\ \A j \in Stages \ {i} : stage'[j] = stage[j]
      BY Zenon, <1>3, ProcessTypes
    <3>2. Held(Writer)' = Held(Writer) /\ stage'[Handler].out = stage[Handler].out
      BY ZenonT(40), <2>3, <3>1, StageCases, HeldSame
    <3>3. images' = images /\ pushes' = pushes /\ cvs' = cvs
      BY SMTT(30), <1>3, <2>3 DEF Process, env
    <3>4. Read' = Read
      BY Zenon, <3>1, <3>2, ReadFrame
    <3> QED
      BY Zenon, <3>3, <3>4, SameOrder
  <2> QED
    BY Zenon, <2>1, <2>2, <2>3
<1>4. CASE ProcessFails(i)
  <2>1. CASE i = Writer
    BY Zenon, <1>4, <2>1, WriterFailsOrder
  <2>2. CASE i # Writer
    <3>1. /\ chan' = chan /\ UNCHANGED <<images, pushes, cvs>>
          /\ stage[i].out = <<>> /\ stage'[i].out = <<>>
          /\ \A j \in Stages \ {i} : stage'[j] = stage[j]
      BY Zenon, <1>4, ProcessFailsTypes
    <3>2. Held(Writer)' = Held(Writer)
      BY Zenon, <2>2, <3>1, StageCases, HeldSame
    <3>3. stage'[Handler].out = stage[Handler].out
      BY Zenon, <3>1, StageCases
    <3>4. images' = images /\ pushes' = pushes /\ cvs' = cvs
      BY <3>1
    <3>5. Read' = Read
      BY ZenonT(40), <3>1, <3>2, <3>3, ReadFrame
    <3> QED
      BY Zenon, <3>4, <3>5, SameOrder
  <2> QED
    BY ZenonT(40), <2>1, <2>2
<1>5. CASE PublishOutput(i)
  <2>1. CASE i = Handler
    BY Zenon, <1>5, <2>1, HandlerPublishOrder
  <2>2. CASE i # Handler
    <3>1. /\ UNCHANGED <<images, pushes, cvs>> /\ i # Writer
          /\ \A j \in Stages \ {i} : stage'[j] = stage[j]
          /\ \A j \in Stages \ {i + 1} : chan'[j] = chan[j]
      BY Zenon, <1>5, PublishOutputTypes
    <3>2. Writer # i + 1
      BY SMTT(30), <2>2 DEF Stages, Qualifier, Filter, Handler, Writer
    <3>3. /\ Held(Writer)' = Held(Writer) /\ chan'[Writer] = chan[Writer]
          /\ stage'[Handler].out = stage[Handler].out
      BY ZenonT(40), <2>2, <3>1, <3>2, StageCases, HeldSame
    <3>4. images' = images /\ pushes' = pushes /\ cvs' = cvs
      BY SMTT(30), <3>1
    <3>5. Read' = Read
      BY Zenon, <3>3, ReadFrame
    <3> QED
      BY Zenon, <3>4, <3>5, SameOrder
  <2> QED
    BY Zenon, <2>1, <2>2
<1> QED
  BY ZenonT(40), <1>1, <1>2, <1>3, <1>4, <1>5 DEF StageStep

(* A push makes newer contents than all there are.                           *)
LEMMA PushOrder ==
    ASSUME PipeTypes, RestTypes, SpecOrder, NEW r \in Repos, NEW v \in Versions,
           PushImage(r, v)
    PROVE  SpecOrder'
<1> DEFINE l == Read
           p == pushes
<1>1. /\ pushes' = p + 1 /\ images' = [images EXCEPT ![<<r, v>>] = p + 1]
      /\ chan' = chan /\ stage' = stage /\ cvs' = cvs
  BY DEF PushImage, proc
<1>2. Read' = l
  BY Zenon, <1>1 DEF Read, Line4, Held
<1>3. l \in Seq(EventsAt(Writer)) /\ OrderOK(l, images, p, cvs)
  BY Zenon, ReadTypes DEF SpecOrder
<1>4. p \in Nat /\ p <= p + 1 /\ p + 1 <= p + 1 /\ images \in [Images -> Digests \cup {None}]
  BY SMTT(30) DEF RestTypes
<1>5. \A x \in Images : images'[x] = IF x = <<r, v>> THEN p + 1 ELSE images[x]
  BY SMTT(30), <1>1, <1>4 DEF Images
<1> HIDE DEF l, p
<1>6. ASSUME NEW n \in Nat, NEW x \in Images, NotNewer(n, x, images, p)
      PROVE  NotNewer(n, x, images', p + 1)
  BY SMTT(30), <1>4, <1>5, <1>6 DEF NotNewer
<1>7. ASSUME NEW x \in Images
      PROVE  /\ images'[x] # None => images'[x] <= p + 1
             /\ Describes(cvs, x) => NotNewer(SpecOf(cvs, x), x, images', p + 1)
  <2>1. Describes(cvs, x) => NotNewer(SpecOf(cvs, x), x, images', p + 1)
    BY Zenon, <1>3, <1>6, ImageNumbers DEF OrderOK
  <2>2. images[x] # None => images[x] <= p
    BY Zenon, <1>3 DEF OrderOK
  <2>3. images[x] # None => images[x] <= p + 1
    BY SMTT(30), <1>4, <2>2, ImageNumbers
  <2>4. images'[x] # None => images'[x] <= p + 1
    BY Zenon, <1>4, <1>5, <2>3
  <2> QED
    BY Zenon, <2>1, <2>4
<1>8. ASSUME NEW x \in Images, NEW k \in 1 .. Len(l), Writes(l[k], x)
      PROVE  /\ NotNewer(l[k].spec, x, images', p + 1)
             /\ Describes(cvs, x) => SpecOf(cvs, x) <= l[k].spec
             /\ \A h \in 1 .. k : Writes(l[h], x) => l[h].spec <= l[k].spec
  <2>1. l[k].spec \in Nat
    BY Zenon, <1>3, <1>8, WriterNumbers
  <2> QED
    BY Zenon, <1>3, <1>6, <1>8, <2>1 DEF OrderOK
<1>9. OrderOK(l, images', p + 1, cvs)
  BY Zenon, <1>7, <1>8 DEF OrderOK
<1> QED
  BY Zenon, <1>1, <1>2, <1>9 DEF SpecOrder, p

(* A removal lifts a bound.                                                  *)
LEMMA RemoveOrder ==
    ASSUME RestTypes, SpecOrder, NEW r \in Repos, NEW v \in Versions, RemoveImage(r, v)
    PROVE  SpecOrder'
<1>1. /\ pushes' = pushes /\ images' = [images EXCEPT ![<<r, v>>] = None]
      /\ chan' = chan /\ stage' = stage /\ cvs' = cvs
  BY DEF RemoveImage, proc
<1>2. Read' = Read
  BY Zenon, <1>1 DEF Read, Line4, Held
<1>3. \A x \in Images : images'[x] = IF x = <<r, v>> THEN None ELSE images[x]
  BY <1>1 DEF Images, RestTypes
<1>4. OrderOK(Read, images, pushes, cvs)
  BY Zenon DEF SpecOrder
<1>5. ASSUME NEW n, NEW x \in Images, NotNewer(n, x, images, pushes)
      PROVE  NotNewer(n, x, images', pushes)
  BY Zenon, <1>3, <1>5 DEF NotNewer
<1>6. OrderOK(Read, images', pushes, cvs)
  BY Zenon, <1>3, <1>4, <1>5 DEF OrderOK
<1> QED
  BY Zenon, <1>1, <1>2, <1>6 DEF SpecOrder

(* The first images are numbered from 1.                                     *)
LEMMA InitOrder == Init => SpecOrder
<1> SUFFICES ASSUME Init PROVE SpecOrder
  OBVIOUS
<1>1. images = Initial /\ pushes = FirstPushes /\ cvs = [n \in Names |-> None]
  BY DEF Init
<1>2. Read = <<>>
  <2>1. <<>> \o <<>> = <<>>
    BY SMTT(30), ConcatEmpty
  <2> QED
    BY Zenon, <2>1, InitTypes, StageCases DEF Read, Line4
<1>3. \A x \in Images : images[x] # None => images[x] <= pushes
  BY SMTT(30), <1>1, DiscoveryAssumption, FirstPushesType
<1>4. \A x \in Images : ~Describes(cvs, x)
  BY SMTT(30), <1>1 DEF Describes, Names
<1>5. 1 .. Len(<<>>) = {}
  OBVIOUS
<1> QED
  BY ZenonT(40), <1>2, <1>3, <1>4, <1>5 DEF SpecOrder, OrderOK

(* Every step keeps the order.                                               *)
LEMMA NextOrder ==
    ASSUME StopInv, PipeTypes, RestTypes, Taken, SpecOrder, [Next]_vars
    PROVE  SpecOrder'
<1>a. ASSUME stage' = stage, chan'[Writer] = chan[Writer],
             images' = images, pushes' = pushes, cvs' = cvs
      PROVE  SpecOrder'
  <2>1. Held(Writer)' = Held(Writer) /\ stage'[Handler].out = stage[Handler].out
    BY Zenon, <1>a DEF Held
  <2> QED
    BY Zenon, <1>a, <2>1, ReadFrame, SameOrder
<1>1. ASSUME NEW r \in Repos, NEW v \in Versions, PushImage(r, v) \/ RemoveImage(r, v)
      PROVE  SpecOrder'
  BY Zenon, <1>1, PushOrder, RemoveOrder
<1>2. ASSUME NEW n \in notices \cup requests, ServeHTTP(n)
      PROVE  SpecOrder'
  <2>1. n \in Events
    BY SMTT(30), <1>2, ServeTypes
  <2>2. /\ chan' = Publish(Qualifier, n) /\ stage' = stage
        /\ images' = images /\ pushes' = pushes /\ cvs' = cvs
    BY SMTT(30), <1>2 DEF ServeHTTP
  <2>3. chan'[Writer] = chan[Writer]
    BY Zenon, <2>1, <2>2, EnterTypes, StageCases
  <2> QED
    BY Zenon, <1>a, <2>2, <2>3
<1>3. ASSUME NEW r \in scan.todo, ScanRepo(r) PROVE SpecOrder'
  <2>1. /\ chan' = Publish(Qualifier, Event("created", r, None, None))
        /\ stage' = stage /\ images' = images /\ pushes' = pushes /\ cvs' = cvs
    BY <1>3 DEF ScanRepo, env
  <2>2. chan'[Writer] = chan[Writer]
    BY Zenon, <1>3, <2>1, ScanRepoEvent, EnterTypes, StageCases
  <2> QED
    BY Zenon, <1>a, <2>1, <2>2
<1>4. ASSUME BeginScan \/ ScanFails \/ EndScan \/ EndScanLoop PROVE SpecOrder'
  <2>1. chan' = chan /\ stage' = stage /\ images' = images /\ pushes' = pushes /\ cvs' = cvs
    BY ZenonT(40), <1>4 DEF BeginScan, ScanFails, EndScan, EndScanLoop, env
  <2> QED
    BY Zenon, <1>a, <2>1
<1>5. ASSUME StartFails \/ Stop(TRUE) \/ Stop(FALSE) \/ ShutdownReturns \/ StopNext
      PROVE  SpecOrder'
  <2>1. chan' = chan /\ stage' = stage /\ images' = images /\ pushes' = pushes /\ cvs' = cvs
    BY SMTT(30), <1>5 DEF StartFails, Stop, ShutdownReturns, StopNext, env
  <2> QED
    BY Zenon, <1>a, <2>1
<1>6. ASSUME Start PROVE SpecOrder'
  <2>1. /\ UNCHANGED <<chan, images, pushes, cvs>>
        /\ \A i \in Stages : Held(i)' = <<>> /\ stage'[i].out = <<>>
    BY Zenon, <1>6, StartTypes
  <2>2. \A i \in Stages : stage[i].pc \notin {"busy", "out"}
    BY ZenonT(40), <1>6 DEF Start, StopInv, Asleep
  <2>3. \A i \in Stages : Held(i) = <<>> /\ stage[i].out = <<>>
    BY SMTT(30), <2>2, HeldFacts
  <2>4. chan'[Writer] = chan[Writer] /\ images' = images /\ pushes' = pushes /\ cvs' = cvs
    BY <2>1
  <2>5. Held(Writer)' = Held(Writer) /\ stage'[Handler].out = stage[Handler].out
    BY Zenon, <2>1, <2>3, StageCases
  <2> QED
    BY Zenon, <2>4, <2>5, ReadFrame, SameOrder
<1>7. ASSUME Restart \/ Crash PROVE SpecOrder'
  <2>1. Die /\ (Change \/ UNCHANGED changes)
    BY <1>7 DEF Restart, Crash
  <2>2. /\ UNCHANGED <<images, pushes, cvs>>
        /\ \A i \in Stages : Held(i)' = <<>> /\ stage'[i].out = <<>> /\ chan'[i] = <<>>
    BY Zenon, <2>1, DieTypes
  <2>3. images' = images /\ pushes' = pushes /\ cvs' = cvs
    BY SMTT(30), <2>2
  <2>4. <<>> \o <<>> = <<>>
    BY ConcatEmpty
  <2>5. Read' = <<>>
    BY Zenon, <2>2, <2>4, StageCases DEF Read, Line4
  <2>6. OrderOK(<<>>, images, pushes, cvs)
    BY ZenonT(40), OrderEmpty DEF SpecOrder
  <2> QED
    BY Zenon, <2>3, <2>5, <2>6 DEF SpecOrder
<1>8. ASSUME UNCHANGED vars PROVE SpecOrder'
  <2>1. chan' = chan /\ stage' = stage /\ images' = images /\ pushes' = pushes /\ cvs' = cvs
    BY <1>8 DEF vars, proc, env
  <2> QED
    BY Zenon, <1>a, <2>1
<1> QED
  BY ZenonT(40), <1>1, <1>2, <1>3, <1>4, <1>5, <1>6, <1>7, <1>8,
     StageOrder DEF Next

(* Only the writer's step changes the catalog.                               *)
LEMMA CatalogFrame ==
    ASSUME [Next]_vars, ~Process(Writer)
    PROVE  cvs' = cvs
<1>1. ASSUME NEW i \in Stages, StageStep(i)
      PROVE  cvs' = cvs
  <2>1. CASE Process(i)
    <3>1. i # Writer
      BY Zenon, <2>1
    <3> QED
      BY SMTT(30), <2>1, <3>1 DEF Process
  <2> QED
    BY ZenonT(40), <1>1, <2>1 DEF StageStep, Receive, LeaveLoop, ProcessFails,
       PublishOutput
<1>2. ASSUME \E r \in Repos, v \in Versions : PushImage(r, v) \/ RemoveImage(r, v)
      PROVE  cvs' = cvs
  BY SMTT(30), <1>2 DEF PushImage, RemoveImage
<1>3. ASSUME \E n \in notices \cup requests : ServeHTTP(n) PROVE cvs' = cvs
  BY <1>3 DEF ServeHTTP
<1>4. ASSUME \/ \E r \in scan.todo : ScanRepo(r)
             \/ BeginScan \/ ScanFails \/ EndScan \/ EndScanLoop
      PROVE  cvs' = cvs
  BY SMTT(30), <1>4 DEF BeginScan, ScanRepo, ScanFails, EndScan, EndScanLoop
<1>5. ASSUME Start \/ StartFails \/ Stop(TRUE) \/ Stop(FALSE) \/ ShutdownReturns
             \/ StopNext \/ Restart \/ Crash
      PROVE  cvs' = cvs
  BY SMTT(30), <1>5 DEF Start, StartFails, Stop, ShutdownReturns, StopNext, Restart, Crash, Die
<1>6. ASSUME UNCHANGED vars PROVE cvs' = cvs
  BY <1>6 DEF vars
<1> QED
  BY ZenonT(40), <1>1, <1>2, <1>3, <1>4, <1>5, <1>6 DEF Next

(* The contents of each image are in the order of the pushes, from the       *)
(* catalog over the events that wait for the writer to the registry.         *)
THEOREM OrderInvariance == Spec => []SpecOrder
<1>1. StopInv /\ Types /\ SpecOrder /\ [Next]_vars => SpecOrder'
  BY NextOrder DEF Types
<1> QED
  BY <1>1, InitOrder, TypesInvariance, StopInvariance, PTL DEF Spec

(* A ComponentVersion that is rewritten for the same image never goes back   *)
(* to the content of an earlier push, however many events for it are under   *)
(* way between handler and writer and whichever images share its name.       *)
THEOREM SpecsNeverRegress == Spec => SpecNeverRegresses
<1>1. ASSUME Types, SpecOrder, [Next]_vars, NEW n \in Names,
             cvs[n] # None, cvs'[n] # None, cvs'[n].img = cvs[n].img
      PROVE  cvs'[n].spec >= cvs[n].spec
  <2> DEFINE x == cvs[n].img
  <2>1. PipeTypes' /\ RestTypes'
    BY Zenon, <1>1, NextTypes DEF Types
  <2>2. /\ cvs[n] \in Entries /\ cvs'[n] \in Entries /\ ComponentVersionName[x] = n
    BY SMTT(30), <1>1, <2>1 DEF Types, RestTypes, Named
  <2>3. x \in Images /\ cvs[n].spec \in Nat /\ cvs'[n].spec \in Nat
    BY Zenon, <2>2, DiscoveryAssumption DEF Entries
  <2> HIDE DEF x
  <2>4. /\ Describes(cvs, x) /\ Describes(cvs', x)
        /\ SpecOf(cvs, x) = cvs[n].spec /\ SpecOf(cvs', x) = cvs'[n].spec
    BY Zenon, <1>1, <2>2 DEF Describes, SpecOf, x
  <2>5. CASE Process(Writer)
    <3>1. SpecOf(cvs, x) <= SpecOf(cvs', x)
      BY Zenon, <1>1, <2>3, <2>4, <2>5, WriterOrder DEF Types
    <3> QED
      BY SMTT(30), <2>3, <2>4, <3>1
  <2>6. CASE ~Process(Writer)
    <3>1. cvs' = cvs
      BY Zenon, <1>1, <2>6, CatalogFrame
    <3> QED
      BY SMTT(30), <2>3, <3>1
  <2> QED
    BY Zenon, <2>5, <2>6
<1>2. Types /\ SpecOrder /\ [Next]_vars =>
        [\A n \in Names :
            cvs[n] # None /\ cvs'[n] # None /\ cvs'[n].img = cvs[n].img
            => cvs'[n].spec >= cvs[n].spec]_vars
  BY Zenon, <1>1
<1> QED
  BY <1>2, TypesInvariance, OrderInvariance, PTL DEF Spec, SpecNeverRegresses
=============================================================================
