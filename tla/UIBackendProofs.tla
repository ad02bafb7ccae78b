--------------------------- MODULE UIBackendProofs ---------------------------
(***************************************************************************)
(* Proofs about UIBackend, for every set of users, sessions, namespaces    *)
(* and concurrent requests, every RBAC and every bound.                    *)
(***************************************************************************)
EXTENDS UIBackend, SequenceTheorems, TLAPS

(* What a request holds on to is right for its session, if that is still     *)
(* there: the identity an admin review is asked for, its answer, the         *)
(* permission to change the preview; and namespaces are shown to the user    *)
(* they were reviewed for.                                                   *)
Good(r) ==
    /\ r.pc # "idle" => r.id \in issued /\ r.kind \in Routes
    /\ r.pc = "client" => r.kind \in {"forward", "namespaces", "stream"}
    /\ r.pc \in {"reviewAdmin", "cacheAdmin"} /\ sessions[r.id] # None =>
          r.who = RealIdentity(sessions[r.id])
    /\ r.pc = "cacheAdmin" => r.ans = SSAR(Admins, r.who)
    /\ r.pc = "apply" /\ sessions[r.id] # None =>
          RealIdentity(sessions[r.id]) \in Admins
    /\ IF r.pc = "namespaces"
       THEN provider = "oidc" => r.who \in Users /\ r.shown \subseteq Access[r.who]
       ELSE r.shown = {}

RequestsInv == \A q \in Requests : Good(req[q])

SessionsIssued == \A id \in Ids : sessions[id] # None => id \in issued

IInv ==
    /\ TypeOK
    /\ SessionsIssued
    /\ CanImpersonateIsReal
    /\ PreviewedByAdmin
    /\ RequestsInv

(* How sessions may change: one that was issued keeps its user, and comes    *)
(* back never.                                                               *)
Evolves ==
    /\ provider' = provider
    /\ issued \subseteq issued'
    /\ \A id \in issued :
          sessions'[id] # None =>
             sessions[id] # None /\ sessions'[id].user = sessions[id].user

-----------------------------------------------------------------------------
(* Facts the steps share.                                                  *)

(* The real identity of a session is the backend's or its user's.            *)
LEMMA RealIdentityFacts ==
    ASSUME SessionsTypeOK, NEW d \in Data
    PROVE  /\ RealIdentity(d) = IF provider = "noop" THEN Server ELSE d.user
           /\ RealIdentity(d) \in Identities
           /\ WrapConfig(d) \in Identities
           /\ provider = "oidc" => WrapConfig(d) \in Users
BY DEF SessionsTypeOK, RealIdentity, WrapConfig, Data, Identities

(* An access review has an answer.                                           *)
LEMMA SSARType ==
    ASSUME NEW allowed, NEW i
    PROVE  SSAR(allowed, i) \in Answers /\ SSAR(allowed, i) # "unknown"
BY DEF SSAR, Answers

(* The record of a request that is over.                                     *)
LEMMA IdleReqFacts ==
    IdleReq \in Reqs /\ IdleReq.pc = "idle" /\ IdleReq.shown = {}
BY DEF IdleReq, Reqs, Answers

(* What a request holds on to stays right when sessions evolve.              *)
LEMMA GoodStays ==
    ASSUME SessionsTypeOK, SessionsTypeOK', Evolves, NEW r \in Reqs, Good(r)
    PROVE  Good(r)'
<1>1. CASE r.pc = "idle"
  BY <1>1 DEF Good
<1>2. CASE r.pc # "idle"
  <2>1. r.id \in issued /\ r.id \in issued' /\ r.id \in Ids
    BY <1>2 DEF Good, Evolves, SessionsTypeOK
  <2>2. sessions'[r.id] # None =>
          /\ sessions[r.id] # None
          /\ RealIdentity(sessions[r.id])' = RealIdentity(sessions[r.id])
    <3> SUFFICES ASSUME sessions'[r.id] # None
                 PROVE  /\ sessions[r.id] # None
                        /\ RealIdentity(sessions[r.id])' = RealIdentity(sessions[r.id])
      OBVIOUS
    <3>1. /\ sessions[r.id] # None /\ sessions[r.id] \in Data /\ sessions'[r.id] \in Data
          /\ sessions'[r.id].user = sessions[r.id].user /\ provider' = provider
      BY <2>1 DEF Evolves, SessionsTypeOK
    <3> QED
      BY <3>1 DEF RealIdentity, WrapConfig, Data
  <2> QED
    BY <2>1, <2>2 DEF Good, Evolves
<1> QED
  BY <1>1, <1>2

(* A step of one request that leaves the sessions and the browser alone.     *)
LEMMA PlainStep ==
    ASSUME IInv, UNCHANGED <<provider, sessions, browser>>,
           NEW q \in Requests, NEW r \in Reqs, Good(r),
           req' = [req EXCEPT ![q] = r], requests' \in Nat, StreamTypeOK'
    PROVE  IInv' /\ Evolves
<1>1. SessionsTypeOK' /\ Evolves
  BY DEF IInv, TypeOK, SessionsTypeOK, browser, Evolves
<1>2. TypeOK'
  BY <1>1 DEF IInv, TypeOK
<1>3. SessionsIssued' /\ CanImpersonateIsReal' /\ PreviewedByAdmin'
  BY DEF IInv, SessionsIssued, CanImpersonateIsReal, PreviewedByAdmin, browser,
         RealIdentity, WrapConfig
<1>4. RequestsInv'
  <2> SUFFICES ASSUME NEW p \in Requests PROVE Good(req[p])'
    BY DEF RequestsInv
  <2>1. req'[p] \in Reqs /\ Good(req'[p])
    BY DEF IInv, TypeOK, RequestsInv
  <2> DEFINE x == req'[p]
  <2>2. x \in Reqs /\ Good(x)
    BY <2>1
  <2> QED
    BY <2>2, <1>1 DEF Good, RealIdentity, WrapConfig, Evolves, browser
<1> QED
  BY <1>1, <1>2, <1>3, <1>4 DEF IInv

(* A step of one request that changes its session, or finds it gone.         *)
LEMMA SessionStep ==
    ASSUME IInv, UNCHANGED <<provider, browser, stream, requests>>,
           NEW q \in Requests, NEW r \in Reqs, Good(r),
           req' = [req EXCEPT ![q] = r],
           req[q].pc # "idle", NEW d, UpdateSession(req[q].id, d),
           sessions[req[q].id] # None =>
              /\ d \in Data
              /\ d.user = sessions[req[q].id].user
              /\ d.canImpersonate # "unknown" =>
                    d.canImpersonate = SSAR(Admins, RealIdentity(sessions[req[q].id]))
              /\ d.as # None => RealIdentity(sessions[req[q].id]) \in Admins
    PROVE  IInv' /\ Evolves
<1> DEFINE id == req[q].id
<1>1. id \in issued /\ id \in Ids
  BY DEF IInv, TypeOK, SessionsTypeOK, RequestsInv, Good
<1>2. CASE sessions[id] = None
  <2>1. UNCHANGED sessions
    BY <1>2 DEF UpdateSession
  <2>2. StreamTypeOK' /\ requests' \in Nat
    BY DEF IInv, TypeOK, StreamTypeOK, stream
  <2> QED
    BY Zenon, <2>1, <2>2, PlainStep
<1>3. CASE sessions[id] # None
  <2>1. sessions' = [sessions EXCEPT ![id] = d] /\ d \in Data
    BY <1>3 DEF UpdateSession, Store
  <2>2. SessionsTypeOK'
    BY <2>1, <1>1 DEF IInv, TypeOK, SessionsTypeOK, browser
  <2>3. Evolves
    BY <2>1, <1>1, <1>3 DEF IInv, TypeOK, SessionsTypeOK, browser, Evolves
  <2>4. TypeOK'
    BY <2>2 DEF IInv, TypeOK, StreamTypeOK, stream
  <2>5. SessionsIssued'
    BY <2>1, <1>1 DEF IInv, SessionsIssued, TypeOK, SessionsTypeOK, browser
  <2>6. ASSUME NEW i \in Ids, sessions'[i] # None
        PROVE  /\ sessions[i] # None
               /\ RealIdentity(sessions[i])' = RealIdentity(sessions[i])
    <3>1. /\ sessions[i] # None /\ sessions[i] \in Data /\ sessions'[i] \in Data
          /\ sessions'[i].user = sessions[i].user /\ provider' = provider
      BY <2>1, <2>6, <1>1, <1>3 DEF IInv, TypeOK, SessionsTypeOK
    <3> QED
      BY <3>1 DEF RealIdentity, WrapConfig, Data
  <2>7. CanImpersonateIsReal'
    <3> SUFFICES ASSUME NEW i \in Ids, sessions'[i] # None,
                        sessions'[i].canImpersonate # "unknown"
                 PROVE  sessions'[i].canImpersonate
                          = SSAR(Admins, RealIdentity(sessions[i]))'
      BY DEF CanImpersonateIsReal
    <3>1. sessions'[i].canImpersonate = SSAR(Admins, RealIdentity(sessions[i]))
      BY <2>1, <1>1, <1>3 DEF IInv, TypeOK, SessionsTypeOK, CanImpersonateIsReal
    <3> QED
      BY <3>1, <2>6 DEF SSAR
  <2>8. PreviewedByAdmin'
    <3> SUFFICES ASSUME NEW i \in Ids, sessions'[i] # None,
                        sessions'[i].as # None
                 PROVE  RealIdentity(sessions[i])' \in Admins
      BY DEF PreviewedByAdmin
    <3>1. RealIdentity(sessions[i]) \in Admins
      BY <2>1, <1>1, <1>3 DEF IInv, TypeOK, SessionsTypeOK, PreviewedByAdmin
    <3> QED
      BY <3>1, <2>6
  <2>9. RequestsInv'
    <3> SUFFICES ASSUME NEW p \in Requests PROVE Good(req[p])'
      BY DEF RequestsInv
    <3>1. CASE p = q
      <4>1. Good(r)'
        BY <2>2, <2>3, GoodStays DEF IInv, TypeOK
      <4> QED
        BY <4>1, <3>1 DEF IInv, TypeOK
    <3>2. CASE p # q
      <4>1. req[p] \in Reqs /\ Good(req[p]) /\ req'[p] = req[p]
        BY <3>2 DEF IInv, TypeOK, RequestsInv
      <4> QED
        BY <4>1, <2>2, <2>3, GoodStays DEF IInv, TypeOK, Good, RealIdentity, WrapConfig
    <3> QED
      BY <3>1, <3>2
  <2> QED
    BY <2>3, <2>4, <2>5, <2>7, <2>8, <2>9 DEF IInv
<1> QED
  BY <1>2, <1>3

(* A step that responds ends the request and nothing else.                   *)
LEMMA RespondStep ==
    ASSUME IInv, NEW q \in Requests, Respond(q),
           UNCHANGED <<provider, sessions, browser, stream, requests>>
    PROVE  IInv' /\ Evolves
<1>1. Good(IdleReq) /\ StreamTypeOK' /\ requests' \in Nat
  BY IdleReqFacts DEF Good, IInv, TypeOK, StreamTypeOK, stream
<1> QED
  BY Zenon, <1>1, PlainStep, IdleReqFacts DEF Respond

(* A step that only changes the request keeps the stream's type.             *)
LEMMA RequestStep ==
    ASSUME IInv, NEW q \in Requests, NEW r \in Reqs, Good(r),
           req' = [req EXCEPT ![q] = r],
           UNCHANGED <<provider, sessions, browser, stream, requests>>
    PROVE  IInv' /\ Evolves
<1>1. StreamTypeOK' /\ requests' \in Nat
  BY DEF IInv, TypeOK, StreamTypeOK, stream
<1> QED
  BY Zenon, <1>1, PlainStep

(* What AfterAdmin leaves of the request, if a "yes" is the right answer.    *)
LEMMA AfterAdminRequest ==
    ASSUME IInv, NEW q \in Requests, NEW ans, AfterAdmin(q, ans),
           req[q].pc \in {"admin", "reviewAdmin", "cacheAdmin"},
           ans = "yes" /\ sessions[req[q].id] # None =>
              RealIdentity(sessions[req[q].id]) \in Admins
    PROVE  \E r \in Reqs : Good(r) /\ req' = [req EXCEPT ![q] = r]
<1>1. req[q] \in Reqs /\ Good(req[q])
  BY DEF IInv, TypeOK, RequestsInv
<1> DEFINE onTo(pc) == [req[q] EXCEPT !.pc = pc]
<1>2. CASE req[q].kind = "me"
  <2>1. req' = [req EXCEPT ![q] = onTo("list")]
    BY <1>2 DEF AfterAdmin, HandleMe, requireAdmin, Goto
  <2>2. onTo("list") \in Reqs /\ Good(onTo("list"))
    BY <1>1 DEF Reqs, Good
  <2> QED
    BY Zenon, <2>1, <2>2
<1>3. CASE req[q].kind # "me" /\ ans = "yes"
  <2>1. req' = [req EXCEPT ![q] = onTo("apply")]
    BY <1>3 DEF AfterAdmin, HandleMe, requireAdmin, Goto
  <2>2. onTo("apply") \in Reqs /\ Good(onTo("apply"))
    BY <1>1, <1>3 DEF Reqs, Good
  <2> QED
    BY Zenon, <2>1, <2>2
<1>4. CASE req[q].kind # "me" /\ ans # "yes"
  BY <1>4, IdleReqFacts DEF AfterAdmin, requireAdmin, Respond, Good
<1> QED
  BY <1>2, <1>3, <1>4

-----------------------------------------------------------------------------
(* The steps of a request.                                                 *)

(* Every step of a request keeps the invariant.                              *)
LEMMA RequestSteps ==
    ASSUME IInv, NEW q \in Requests, Step(q)
    PROVE  IInv' /\ Evolves
<1> DEFINE id == req[q].id
<1>0. /\ req[q] \in Reqs /\ Good(req[q])
      /\ req[q].pc # "idle" => id \in Ids
      /\ id \in Ids => sessions[id] \in Data \cup {None}
      /\ SessionsTypeOK
  BY DEF IInv, TypeOK, SessionsTypeOK, RequestsInv, Good
<1>1. CASE Authenticate(q)
  <2>1. CASE sessions[id] = None
    BY <1>1, <2>1, RespondStep DEF Authenticate
  <2>2. CASE sessions[id] # None
    <3> DEFINE r == [req[q] EXCEPT !.pc = IF req[q].kind \in {"me", "preview", "unpreview"}
                                         THEN "admin" ELSE "client"]
    <3>1. req' = [req EXCEPT ![q] = r]
      BY <1>1, <2>2 DEF Authenticate, Goto
    <3>2. r \in Reqs /\ Good(r)
      BY <1>0, <1>1 DEF Authenticate, Reqs, Good, Routes
    <3> HIDE DEF r
    <3> QED
      BY Zenon, <1>1, <3>1, <3>2, RequestStep DEF Authenticate
  <2> QED
    BY <2>1, <2>2
<1>2. CASE CanImpersonate(q)
  <2> DEFINE d == sessions[id]
  <2>1. CASE d = None
    BY <1>2, <2>1, AfterAdminRequest, RequestStep DEF CanImpersonate
  <2>2. CASE d # None /\ d.canImpersonate # "unknown"
    <3>1. AfterAdmin(q, d.canImpersonate)
      BY <1>2, <2>2 DEF CanImpersonate
    <3>2. d.canImpersonate = "yes" => RealIdentity(d) \in Admins
      BY <1>0, <1>2, <2>2 DEF CanImpersonate, IInv, CanImpersonateIsReal, SSAR
    <3>3. req[q].pc = "admin"
      BY <1>2 DEF CanImpersonate
    <3> QED
      BY <1>2, <3>1, <3>2, <3>3, AfterAdminRequest, RequestStep DEF CanImpersonate
  <2>3. CASE d # None /\ d.canImpersonate = "unknown"
    <3> DEFINE r == [req[q] EXCEPT !.pc = "reviewAdmin", !.who = RealIdentity(d)]
    <3>1. req' = [req EXCEPT ![q] = r]
      BY Zenon, <1>2, <2>3 DEF CanImpersonate, RealIdentity
    <3>2. RealIdentity(d) \in Identities
      BY <1>0, <1>2, <2>3, RealIdentityFacts DEF CanImpersonate
    <3>3. r \in Reqs /\ Good(r)
      BY Zenon, <1>0, <1>2, <3>2 DEF CanImpersonate, Reqs, Good
    <3> HIDE DEF r
    <3> QED
      BY Zenon, <1>2, <3>1, <3>3, RequestStep DEF CanImpersonate
  <2> QED
    BY <2>1, <2>2, <2>3
<1>3. CASE ReviewAdmin(q)
  <2> DEFINE r == [req[q] EXCEPT !.pc = "cacheAdmin", !.ans = SSAR(Admins, req[q].who)]
  <2>1. req' = [req EXCEPT ![q] = r]
    BY Zenon, <1>3 DEF ReviewAdmin
  <2>2. r \in Reqs /\ Good(r)
    BY Zenon, <1>0, <1>3, SSARType DEF ReviewAdmin, Reqs, Good
  <2> HIDE DEF r
  <2> QED
    BY Zenon, <1>3, <2>1, <2>2, RequestStep DEF ReviewAdmin
<1>4. CASE ReviewFails(q)
  <2>1. CASE req[q].pc = "reviewAdmin" /\ AfterAdmin(q, "no")
    BY <1>4, <2>1, AfterAdminRequest, RequestStep DEF ReviewFails
  <2>2. CASE Respond(q)
    BY <1>4, <2>2, RespondStep DEF ReviewFails
  <2> QED
    BY <1>4, <2>1, <2>2 DEF ReviewFails
<1>5. CASE SetCanImpersonate(q)
  <2> DEFINE d == [sessions[id] EXCEPT !.canImpersonate = req[q].ans]
  <2>1. req[q].pc = "cacheAdmin" /\ AfterAdmin(q, req[q].ans) /\ UpdateSession(id, d)
    BY <1>5 DEF SetCanImpersonate
  <2>2. sessions[id] # None => req[q].ans = SSAR(Admins, RealIdentity(sessions[id]))
    BY <1>0, <2>1 DEF Good
  <2>3. PICK r \in Reqs : Good(r) /\ req' = [req EXCEPT ![q] = r]
    BY <2>1, <2>2, AfterAdminRequest DEF SSAR
  <2>4. sessions[id] # None =>
          /\ d \in Data
          /\ d.user = sessions[id].user
          /\ d.canImpersonate # "unknown" =>
                d.canImpersonate = SSAR(Admins, RealIdentity(sessions[id]))
          /\ d.as # None => RealIdentity(sessions[id]) \in Admins
    BY <1>0, <2>1, <2>2 DEF Data, Reqs, IInv, PreviewedByAdmin
  <2> HIDE DEF d
  <2> QED
    BY Zenon, <1>5, <2>1, <2>3, <2>4, SessionStep DEF SetCanImpersonate
<1>6. CASE CanListAllNamespaces(q)
  <2> DEFINE d == sessions[id]
  <2>1. CASE d = None \/ d.canListAll # "unknown"
    BY <1>6, <2>1, RespondStep DEF CanListAllNamespaces
  <2>2. CASE ~ (d = None \/ d.canListAll # "unknown")
    <3> DEFINE r == [req[q] EXCEPT !.pc = "reviewList", !.who = WrapConfig(d)]
    <3>1. req' = [req EXCEPT ![q] = r]
      BY Zenon, <1>6, <2>2 DEF CanListAllNamespaces
    <3>2. WrapConfig(d) \in Identities
      BY <1>0, <1>6, <2>2, RealIdentityFacts DEF CanListAllNamespaces
    <3>3. r \in Reqs /\ Good(r)
      BY Zenon, <1>0, <1>6, <3>2 DEF CanListAllNamespaces, Reqs, Good
    <3> HIDE DEF r
    <3> QED
      BY Zenon, <1>6, <3>1, <3>3, RequestStep DEF CanListAllNamespaces
  <2> QED
    BY <2>1, <2>2
<1>7. CASE ReviewList(q)
  <2> DEFINE r == [req[q] EXCEPT !.pc = "cacheList", !.ans = SSAR(Listers, req[q].who)]
  <2>1. req' = [req EXCEPT ![q] = r]
    BY Zenon, <1>7 DEF ReviewList
  <2>2. r \in Reqs /\ Good(r)
    BY Zenon, <1>0, <1>7, SSARType DEF ReviewList, Reqs, Good
  <2> HIDE DEF r
  <2> QED
    BY Zenon, <1>7, <2>1, <2>2, RequestStep DEF ReviewList
<1>8. CASE SetCanListAllNamespaces(q)
  <2> DEFINE d == [sessions[id] EXCEPT !.canListAll = req[q].ans]
  <2>1. req[q].pc = "cacheList" /\ Respond(q) /\ UpdateSession(id, d)
    BY <1>8 DEF SetCanListAllNamespaces
  <2>2. Good(IdleReq)
    BY IdleReqFacts DEF Good
  <2>3. sessions[id] # None =>
          /\ d \in Data
          /\ d.user = sessions[id].user
          /\ d.canImpersonate # "unknown" =>
                d.canImpersonate = SSAR(Admins, RealIdentity(sessions[id]))
          /\ d.as # None => RealIdentity(sessions[id]) \in Admins
    BY <1>0, <2>1 DEF Data, Reqs, IInv, PreviewedByAdmin, CanImpersonateIsReal
  <2> HIDE DEF d
  <2> QED
    BY Zenon, <1>8, <2>1, <2>2, <2>3, IdleReqFacts, SessionStep
       DEF SetCanListAllNamespaces, Respond
<1>9. CASE SetImpersonation(q)
  <2> DEFINE d == [sessions[id] EXCEPT !.as = req[q].as, !.canListAll = "unknown"]
  <2>1. req[q].pc = "apply" /\ Respond(q) /\ UpdateSession(id, d)
    BY <1>9 DEF SetImpersonation
  <2>2. Good(IdleReq)
    BY IdleReqFacts DEF Good
  <2>3. sessions[id] # None => RealIdentity(sessions[id]) \in Admins
    BY <1>0, <2>1 DEF Good
  <2>4. sessions[id] # None =>
          /\ d \in Data
          /\ d.user = sessions[id].user
          /\ d.canImpersonate # "unknown" =>
                d.canImpersonate = SSAR(Admins, RealIdentity(sessions[id]))
    BY Zenon, <1>0, <2>1 DEF Data, Answers, Reqs, IInv, CanImpersonateIsReal
  <2> HIDE DEF d
  <2> QED
    BY Zenon, <1>9, <2>1, <2>2, <2>3, <2>4, IdleReqFacts, SessionStep
       DEF SetImpersonation, Respond
<1>16. CASE ClearImpersonation(q)
  <2> DEFINE d == [sessions[id] EXCEPT !.as = None, !.canListAll = "unknown"]
  <2>1. req[q].pc = "apply" /\ Respond(q) /\ UpdateSession(id, d)
    BY <1>16 DEF ClearImpersonation
  <2>2. Good(IdleReq)
    BY IdleReqFacts DEF Good
  <2>3. sessions[id] # None =>
          /\ d \in Data
          /\ d.user = sessions[id].user
          /\ d.canImpersonate # "unknown" =>
                d.canImpersonate = SSAR(Admins, RealIdentity(sessions[id]))
          /\ d.as = None
    BY Zenon, <1>0, <2>1 DEF Data, Answers, Reqs, IInv, CanImpersonateIsReal
  <2> HIDE DEF d
  <2> QED
    BY Zenon, <1>16, <2>1, <2>2, <2>3, IdleReqFacts, SessionStep
       DEF ClearImpersonation, Respond
<1>10. CASE ClientFor(q)
  <2> DEFINE d == sessions[id]
  <2>1. CASE d = None
    BY <1>10, <2>1, RespondStep DEF ClientFor
  <2>2. CASE d # None
    <3> DEFINE r == [req[q] EXCEPT !.pc = req[q].kind, !.who = WrapConfig(d),
                                  !.todo = IF req[q].kind = "namespaces"
                                           THEN Namespaces ELSE {}]
    <3>1. req' = [req EXCEPT ![q] = r]
      BY Zenon, <1>10, <2>2 DEF ClientFor
    <3>2. WrapConfig(d) \in Identities /\ (provider = "oidc" => WrapConfig(d) \in Users)
      BY <1>0, <1>10, <2>2, RealIdentityFacts DEF ClientFor
    <3>3. r \in Reqs /\ Good(r)
      BY ZenonT(40), <1>0, <1>10, <3>2 DEF ClientFor, Reqs, Good
    <3>4. StreamTypeOK' /\ requests' \in Nat
      BY Zenon, <1>10, <2>2 DEF ClientFor, IInv, TypeOK, StreamTypeOK, stream
    <3>5. UNCHANGED <<provider, sessions, browser>>
      BY <1>10 DEF ClientFor
    <3> HIDE DEF r
    <3> QED
      BY Zenon, <3>1, <3>3, <3>4, <3>5, PlainStep
  <2> QED
    BY <2>1, <2>2
<1>11. CASE Forward(q)
  BY <1>11, RespondStep DEF Forward
<1>12. ASSUME NEW n \in Namespaces, HasSolarAccess(q, n)
       PROVE  IInv' /\ Evolves
  <2> DEFINE skip == [req[q] EXCEPT !.todo = @ \ {n}]
             show == [req[q] EXCEPT !.todo = @ \ {n}, !.shown = @ \cup {n}]
  <2>1. \/ req' = [req EXCEPT ![q] = show] /\ n \in Access[req[q].who]
        \/ req' = [req EXCEPT ![q] = skip]
    BY <1>12 DEF HasSolarAccess
  <2>2. skip \in Reqs /\ Good(skip)
    BY <1>0, <1>12 DEF HasSolarAccess, Reqs, Good
  <2>3. n \in Access[req[q].who] => show \in Reqs /\ Good(show)
    BY Zenon, <1>0, <1>12 DEF HasSolarAccess, Reqs, Good
  <2> HIDE DEF skip, show
  <2> QED
    BY <1>12, <2>1, <2>2, <2>3, RequestStep DEF HasSolarAccess
<1>13. CASE RespondNamespaces(q)
  BY <1>13, RespondStep DEF RespondNamespaces
<1>14. CASE WriteEvent(q)
  <2>1. queue' \in Seq(Kinds) /\ Len(queue') <= QueueSize
    <3>1. queue \in Seq(Kinds) /\ queue # <<>> /\ queue' = Tail(queue)
      BY <1>14 DEF WriteEvent, IInv, TypeOK, StreamTypeOK
    <3>2. Tail(queue) \in Seq(Kinds) /\ Len(Tail(queue)) = Len(queue) - 1
      BY <3>1, HeadTailProperties
    <3>3. Len(queue) \in Nat /\ Len(queue) <= QueueSize
      BY <3>1, LenProperties DEF IInv, TypeOK, StreamTypeOK
    <3> QED
      BY <3>1, <3>2, <3>3, UIBoundsAssumption
  <2>2. StreamTypeOK' /\ requests' \in Nat
    BY <1>14, <2>1 DEF WriteEvent, IInv, TypeOK, StreamTypeOK
  <2>3. req' = [req EXCEPT ![q] = req[q]]
    BY <1>14 DEF WriteEvent, IInv, TypeOK
  <2> QED
    BY Zenon, <1>0, <1>14, <2>2, <2>3, PlainStep DEF WriteEvent
<1>15. CASE EndStream(q)
  BY <1>15, RespondStep DEF EndStream
<1> QED
  BY ZenonT(40), <1>1, <1>2, <1>3, <1>4, <1>5, <1>6, <1>7, <1>8, <1>9, <1>10,
     <1>11,
     <1>12, <1>13, <1>14, <1>15, <1>16 DEF Step

-----------------------------------------------------------------------------
(* The steps of the browser, of the watchers, and all of them.             *)

(* A new session takes an id no request has.                                 *)
LEMMA NewSession ==
    ASSUME IInv, NEW id \in Ids, NEW u \in Users, SetSession(id, u),
           UNCHANGED <<provider, req, stream, requests>>,
           state' \in 0..MaxLogins, redirects' \subseteq 1..MaxLogins,
           logins' \in 0..MaxLogins
    PROVE  IInv' /\ Evolves
<1>1. /\ sessions' = [sessions EXCEPT ![id] = NewData(u)]
      /\ id \notin issued /\ issued' = issued \cup {id} /\ cookie' = id
      /\ NewData(u) \in Data
      /\ NewData(u).as = None /\ NewData(u).canImpersonate = "unknown"
  BY DEF SetSession, Store, NewData, Data, Answers
<1>2. SessionsTypeOK' /\ Evolves
  BY <1>1 DEF IInv, TypeOK, SessionsTypeOK, Evolves
<1>3. TypeOK'
  BY <1>2 DEF IInv, TypeOK, StreamTypeOK, stream
<1>4. SessionsIssued'
  BY <1>1 DEF IInv, TypeOK, SessionsTypeOK, SessionsIssued
<1>5. CanImpersonateIsReal' /\ PreviewedByAdmin'
  BY <1>1 DEF IInv, TypeOK, SessionsTypeOK, CanImpersonateIsReal,
              PreviewedByAdmin, RealIdentity, WrapConfig
<1>6. RequestsInv'
  BY <1>2, GoodStays DEF IInv, TypeOK, RequestsInv, Good, RealIdentity, WrapConfig
<1> QED
  BY <1>2, <1>3, <1>4, <1>5, <1>6 DEF IInv

(* A step that leaves sessions, the cookie and the requests alone.           *)
LEMMA OtherStep ==
    ASSUME IInv, UNCHANGED <<provider, sessions, issued, cookie, req, requests>>,
           state' \in 0..MaxLogins, redirects' \subseteq 1..MaxLogins,
           logins' \in 0..MaxLogins, StreamTypeOK'
    PROVE  IInv' /\ Evolves
<1>1. SessionsTypeOK' /\ Evolves /\ TypeOK'
  BY DEF IInv, TypeOK, SessionsTypeOK, Evolves
<1>2. SessionsIssued' /\ CanImpersonateIsReal' /\ PreviewedByAdmin' /\ RequestsInv'
  BY DEF IInv, SessionsIssued, CanImpersonateIsReal, PreviewedByAdmin,
         RequestsInv, Good, RealIdentity, WrapConfig
<1> QED
  BY <1>1, <1>2 DEF IInv

(* Every step of the browser keeps the invariant.                            *)
LEMMA BrowserSteps ==
    ASSUME IInv, Browser
    PROVE  IInv' /\ Evolves
<1>0. /\ SessionsTypeOK /\ StreamTypeOK /\ req \in [Requests -> Reqs]
      /\ requests \in Nat
  BY DEF IInv, TypeOK
<1>1. CASE Login
  <2>1. /\ logins' \in 0..MaxLogins /\ state' \in 0..MaxLogins
        /\ redirects' \subseteq 1..MaxLogins
    BY <1>0, <1>1, UIBoundsAssumption DEF Login, SessionsTypeOK
  <2>2. StreamTypeOK'
    BY <1>0, <1>1 DEF Login, StreamTypeOK, stream
  <2> QED
    BY <1>1, <2>1, <2>2, OtherStep DEF Login
<1>2. ASSUME NEW u \in Users, NEW id \in Ids, NoopLogin(u, id)
      PROVE  IInv' /\ Evolves
  <2>1. /\ logins' \in 0..MaxLogins /\ state' \in 0..MaxLogins
        /\ redirects' \subseteq 1..MaxLogins
    BY <1>0, <1>2, UIBoundsAssumption DEF NoopLogin, SessionsTypeOK
  <2> QED
    BY <1>2, <2>1, NewSession DEF NoopLogin
<1>3. ASSUME NEW u \in Users, NEW id \in Ids, NEW s \in 1..MaxLogins,
             Callback(s, u, id)
      PROVE  IInv' /\ Evolves
  <2>1. /\ logins' \in 0..MaxLogins /\ state' \in 0..MaxLogins
        /\ redirects' \subseteq 1..MaxLogins
    BY <1>0, <1>3, UIBoundsAssumption DEF Callback, SessionsTypeOK
  <2>2. CASE SetSession(id, u)
    BY <1>3, <2>1, <2>2, NewSession DEF Callback
  <2>3. CASE UNCHANGED <<sessions, issued, cookie>>
    <3>1. StreamTypeOK'
      BY <1>0, <1>3 DEF Callback, StreamTypeOK, stream
    <3> QED
      BY <1>3, <2>1, <2>3, <3>1, OtherStep DEF Callback
  <2> QED
    BY <1>3, <2>2, <2>3 DEF Callback
<1>4. CASE Logout
  <2>1. /\ cookie \in issued /\ cookie \in Ids /\ cookie' = None
        /\ sessions' = [sessions EXCEPT ![cookie] = None]
    BY <1>0, <1>4 DEF Logout, Store, SessionsTypeOK
  <2>2. SessionsTypeOK' /\ Evolves
    BY <1>0, <1>4, <2>1 DEF Logout, SessionsTypeOK, Evolves
  <2>3. TypeOK'
    BY <1>0, <1>4, <2>2 DEF Logout, TypeOK, StreamTypeOK, stream
  <2>4. SessionsIssued' /\ CanImpersonateIsReal' /\ PreviewedByAdmin'
    BY <1>0, <1>4, <2>1 DEF Logout, IInv, SessionsTypeOK, SessionsIssued,
       CanImpersonateIsReal, PreviewedByAdmin, RealIdentity, WrapConfig
  <2>5. RequestsInv'
    BY <1>0, <1>4, <2>2, GoodStays
       DEF Logout, IInv, RequestsInv, Good, RealIdentity, WrapConfig
  <2> QED
    BY <2>2, <2>3, <2>4, <2>5 DEF IInv
<1>5. ASSUME NEW q \in Requests, NEW kind \in Routes, NEW as \in Users \cup {None},
             Begin(q, kind, as)
      PROVE  IInv' /\ Evolves
  <2> DEFINE r == [IdleReq EXCEPT !.pc = "auth", !.kind = kind, !.id = cookie, !.as = as]
  <2>1. cookie \in issued /\ cookie \in Ids
    BY <1>0, <1>5 DEF Begin, SessionsTypeOK
  <2>2. r \in Reqs /\ Good(r)
    BY Zenon, <2>1 DEF IdleReq, Reqs, Good, Answers
  <2>3. StreamTypeOK' /\ requests' \in Nat /\ req' = [req EXCEPT ![q] = r]
    BY <1>0, <1>5 DEF Begin, StreamTypeOK, stream
  <2> HIDE DEF r
  <2> QED
    BY Zenon, <1>5, <2>2, <2>3, PlainStep DEF Begin
<1>6. CASE Disconnect
  <2>1. StreamTypeOK'
    BY Zenon, <1>0, <1>6 DEF Disconnect, StreamTypeOK
  <2> QED
    BY <1>0, <1>6, <2>1, OtherStep DEF Disconnect, browser, SessionsTypeOK
<1> QED
  BY <1>1, <1>2, <1>3, <1>4, <1>5, <1>6 DEF Browser

(* Every step of an event stream's goroutines keeps the invariant.           *)
LEMMA StreamSteps ==
    ASSUME IInv,
           \/ \E k \in Kinds : Open(k) \/ Close(k) \/ WatchEvent(k) \/ SendOrQuit(k)
           \/ Forget
    PROVE  IInv' /\ Evolves
<1>1. StreamTypeOK
  BY DEF IInv, TypeOK
<1>2. StreamTypeOK'
  <2>1. ASSUME NEW k \in Kinds, Open(k) \/ Close(k) \/ WatchEvent(k) PROVE StreamTypeOK'
    BY <1>1, <2>1 DEF StreamTypeOK, Open, Close, WatchEvent
  <2>2. ASSUME NEW k \in Kinds, SendOrQuit(k) PROVE StreamTypeOK'
    <3>1. Len(queue) < QueueSize =>
            /\ Append(queue, k) \in Seq(Kinds)
            /\ Len(Append(queue, k)) <= QueueSize
      <4>1. /\ Append(queue, k) \in Seq(Kinds)
            /\ Len(Append(queue, k)) = Len(queue) + 1
        BY <1>1, AppendProperties DEF StreamTypeOK
      <4>2. Len(queue) \in Nat
        BY <1>1, LenProperties DEF StreamTypeOK
      <4> QED
        BY <4>1, <4>2, UIBoundsAssumption
    <3> QED
      BY ZenonT(40), <1>1, <2>2, <3>1 DEF StreamTypeOK, SendOrQuit
  <2>3. CASE Forget
    <3>1. <<>> \in Seq(Kinds) /\ Len(<<>>) = 0
      BY EmptySeq
    <3> QED
      BY <1>1, <2>3, <3>1, UIBoundsAssumption DEF StreamTypeOK, Forget
  <2> QED
    BY <2>1, <2>2, <2>3
<1>3. UNCHANGED <<provider, sessions, browser, req, requests>>
  BY DEF Open, Close, WatchEvent, SendOrQuit, Forget
<1> QED
  BY <1>2, <1>3, OtherStep DEF browser, IInv, TypeOK, SessionsTypeOK

(* The invariant holds initially.                                            *)
LEMMA InitHolds == Init => IInv
<1> SUFFICES ASSUME Init PROVE IInv
  OBVIOUS
<1>1. SessionsTypeOK
  BY UIBoundsAssumption DEF Init, SessionsTypeOK
<1>2. StreamTypeOK
  <2>1. queue \in Seq(Kinds) /\ Len(queue) = 0
    BY EmptySeq DEF Init
  <2>2. Len(queue) <= QueueSize
    BY <2>1, UIBoundsAssumption
  <2>3. /\ watch \in [Kinds -> {"opening", "waiting", "sending", "ended"}]
        /\ connected \in BOOLEAN /\ events \in Nat
    BY Zenon DEF Init
  <2> QED
    BY <2>1, <2>2, <2>3 DEF StreamTypeOK
<1>3. TypeOK
  BY <1>1, <1>2, IdleReqFacts DEF Init, TypeOK
<1>4. SessionsIssued /\ CanImpersonateIsReal /\ PreviewedByAdmin
  BY DEF Init, SessionsIssued, CanImpersonateIsReal, PreviewedByAdmin
<1>5. RequestsInv
  BY IdleReqFacts DEF Init, RequestsInv, Good
<1> QED
  BY <1>3, <1>4, <1>5 DEF IInv

(* Every step keeps the invariant, and sessions evolve.                      *)
LEMMA NextKeeps ==
    ASSUME IInv, [Next]_vars
    PROVE  IInv' /\ Evolves
<1>1. CASE UNCHANGED vars
  BY <1>1 DEF vars, IInv, TypeOK, SessionsTypeOK, StreamTypeOK, SessionsIssued,
     CanImpersonateIsReal, PreviewedByAdmin, RequestsInv, Good, RealIdentity,
     WrapConfig, Evolves
<1> QED
  BY <1>1, RequestSteps, BrowserSteps, StreamSteps DEF Next

-----------------------------------------------------------------------------
(* Theorems.                                                               *)

(* The inductive invariant: sessions, and what the requests under way hold   *)
(* on to of them.                                                            *)
THEOREM Invariance == Spec => []IInv
<1> QED
  BY InitHolds, NextKeeps, PTL DEF Spec

(* Sessions, requests and event streams always have their types; the         *)
(* channel of HandleSSE never holds more than its capacity.                  *)
THEOREM TypeCorrect == Spec => []TypeOK
<1>1. IInv => TypeOK
  BY DEF IInv
<1> QED
  BY <1>1, Invariance, PTL

(* What CanImpersonate caches is always the answer for the real identity,    *)
(* whatever other requests of the session do meanwhile.                      *)
THEOREM CachedAnswerIsReal == Spec => []CanImpersonateIsReal
<1>1. IInv => CanImpersonateIsReal
  BY DEF IInv
<1> QED
  BY <1>1, Invariance, PTL

(* Only a session whose real identity may impersonate has a preview,         *)
(* although requireAdmin and SetImpersonation are separate calls.            *)
THEOREM PreviewNeedsAdmin == Spec => []PreviewedByAdmin
<1>1. IInv => PreviewedByAdmin
  BY DEF IInv
<1> QED
  BY <1>1, Invariance, PTL

(* HandleListNamespaces shows what one user has access to.                   *)
THEOREM NamespacesAreAccessible == Spec => []ShownAreAccessible
<1>1. IInv => ShownAreAccessible
  <2> SUFFICES ASSUME IInv, provider = "oidc", NEW q \in Requests
               PROVE  \E u \in Users : req[q].shown \subseteq Access[u]
    BY DEF ShownAreAccessible
  <2>1. Good(req[q])
    BY DEF IInv, RequestsInv
  <2>2. \/ req[q].who \in Users /\ req[q].shown \subseteq Access[req[q].who]
        \/ req[q].shown = {}
    BY <2>1 DEF Good
  <2> QED
    BY <2>2, RBACAssumption
<1> QED
  BY <1>1, Invariance, PTL

(* A session that was logged out is never stored again.                      *)
THEOREM LogoutIsFinal == Spec => LoggedOutStaysOut
<1>1. IInv /\ [Next]_vars =>
        [\A id \in issued : sessions[id] = None => sessions'[id] = None]_vars
  BY NextKeeps DEF Evolves
<1> QED
  BY <1>1, Invariance, PTL DEF Spec, LoggedOutStaysOut

=============================================================================
