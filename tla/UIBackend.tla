------------------------------ MODULE UIBackend ------------------------------
(***************************************************************************)
(* The backend of the UI (pkg/ui): sessions (session/store.go), the login  *)
(* (auth/oidc.go, auth/noop.go), the "preview as" of admins (server.go),   *)
(* and the routes that pass requests on to the Kubernetes API              *)
(* (api/handler.go), the event stream among them.                          *)
(*                                                                         *)
(* Requests of one browser run concurrently.  A step of a request is one   *)
(* call of the session store, which is atomic under its mutex, or one call *)
(* of the API server.  Access reviews answer from an RBAC that does not    *)
(* change, as handler.go assumes.  An identity is a user name; the groups  *)
(* go with it.                                                             *)
(***************************************************************************)
EXTENDS Naturals, FiniteSets, Sequences

CONSTANTS
    Users,
    Server,      \* the identity of the backend itself
    Admins,      \* identities that may impersonate users
    Listers,     \* identities that may list all namespaces
    Namespaces,
    Access,      \* identity -> namespaces with a rule for the SolAr API group
    Ids,         \* session ids
    Requests,
    Kinds,       \* resources an event stream watches
    QueueSize,   \* capacity of an event stream's channel
    MaxLogins,   \* bounds
    MaxRequests,
    MaxEvents,
    None

Identities == Users \cup {Server}

ASSUME RBACAssumption ==
    /\ Server \notin Users
    /\ Users # {}
    /\ Admins \subseteq Identities
    /\ Listers \subseteq Identities
    /\ Access \in [Identities -> SUBSET Namespaces]
    /\ None \notin Identities \cup Ids

ASSUME UIBoundsAssumption ==
    /\ QueueSize \in Nat \ {0}
    /\ MaxLogins \in Nat /\ MaxRequests \in Nat /\ MaxEvents \in Nat

VARIABLES
    provider,    \* the configured authentication provider
    sessions,    \* the store: session id -> data
    issued,      \* ids handed out so far
    cookie,      \* the browser's session cookie
    state,       \* the browser's OIDC state cookie, 0 without one
    redirects,   \* states of the logins under way at the identity provider
    req,         \* requests under way
    watch,       \* event stream: its watchers
    queue,       \* event stream: the channel between watchers and writer
    connected,   \* event stream: its request context is alive
    logins, requests, events

vars == <<provider, sessions, issued, cookie, state, redirects, req, watch,
          queue, connected, logins, requests, events>>
browser == <<issued, cookie, state, redirects, logins>>
stream == <<watch, queue, connected, events>>

-----------------------------------------------------------------------------
(* Sessions.                                                               *)

Answers == {"unknown", "yes", "no"}

\* CanImpersonate and CanListAllNamespaces are nil until computed.
Data == [user: Users, as: Users \cup {None}, canImpersonate: Answers,
         canListAll: Answers]

NewData(u) == [user |-> u, as |-> None, canImpersonate |-> "unknown",
               canListAll |-> "unknown"]

\* The identity a request with this session's data is forwarded under.
WrapConfig(d) == IF provider = "noop" THEN Server
                 ELSE IF d.as # None THEN d.as ELSE d.user

SSAR(allowed, i) == IF i \in allowed THEN "yes" ELSE "no"

Store(id, d) == sessions' = [sessions EXCEPT ![id] = d]

\* The setters change a session that exists, and report one that does not.
UpdateSession(id, d) ==
    IF sessions[id] = None THEN UNCHANGED sessions ELSE Store(id, d)

IdleReq == [pc |-> "idle", kind |-> None, id |-> None, as |-> None,
            who |-> None, ans |-> "unknown", todo |-> {}, shown |-> {}]

Init ==
    /\ provider \in {"oidc", "noop"}
    /\ sessions = [id \in Ids |-> None]
    /\ issued = {}
    /\ cookie = None
    /\ state = 0
    /\ redirects = {}
    /\ req = [q \in Requests |-> IdleReq]
    /\ watch = [k \in Kinds |-> "ended"]
    /\ queue = <<>>
    /\ connected = FALSE
    /\ logins = 0
    /\ requests = 0
    /\ events = 0

-----------------------------------------------------------------------------
(* Login and logout.                                                       *)

\* Set: a new id, which the browser gets as its cookie.
SetSession(id, u) ==
    /\ id \notin issued
    /\ Store(id, NewData(u))
    /\ issued' = issued \cup {id}
    /\ cookie' = id

\* HandleLogin of OIDC: a state, kept in a cookie and in the redirect.
Login ==
    /\ provider = "oidc"
    /\ logins < MaxLogins
    /\ logins' = logins + 1
    /\ state' = logins'
    /\ redirects' = redirects \cup {logins'}
    /\ UNCHANGED <<provider, sessions, issued, cookie, req, stream, requests>>

\* HandleCallback of OIDC: without a code nothing happens; the state has to be
\* that of the cookie, which is cleared; then the token exchange may fail.
Callback(s, u, id) ==
    /\ s \in redirects
    /\ redirects' = redirects \ {s}
    /\ \/ UNCHANGED <<sessions, issued, cookie, state>>
       \/ /\ s = state
          /\ state' = 0
          /\ SetSession(id, u) \/ UNCHANGED <<sessions, issued, cookie>>
    /\ UNCHANGED <<provider, req, stream, logins, requests>>

\* HandleLogin and HandleCallback of the no-op provider.
NoopLogin(u, id) ==
    /\ provider = "noop"
    /\ logins < MaxLogins
    /\ logins' = logins + 1
    /\ SetSession(id, u)
    /\ UNCHANGED <<provider, state, redirects, req, stream, requests>>

\* Clear: the session is deleted and the browser's cookie expires.
Logout ==
    /\ cookie # None
    /\ Store(cookie, None)
    /\ cookie' = None
    /\ UNCHANGED <<provider, issued, state, redirects, req, stream, logins,
                   requests>>

-----------------------------------------------------------------------------
(* Requests.                                                               *)

Routes == {"me", "preview", "unpreview", "forward", "namespaces", "stream"}

\* Bound: one event stream at a time.
StreamIsFree ==
    /\ ~connected
    /\ queue = <<>>
    /\ \A k \in Kinds : watch[k] = "ended"
    /\ \A q \in Requests : req[q].kind # "stream"

\* A request brings the browser's cookie; without one Get finds no session.
Begin(q, kind, as) ==
    /\ req[q].pc = "idle"
    /\ cookie # None
    /\ requests < MaxRequests
    /\ requests' = requests + 1
    /\ as # None <=> kind = "preview"
    /\ kind = "stream" => StreamIsFree
    /\ req' = [req EXCEPT ![q] = [IdleReq EXCEPT !.pc = "auth", !.kind = kind,
                                                 !.id = cookie, !.as = as]]
    /\ UNCHANGED <<provider, sessions, browser, stream>>

Goto(q, pc) == req' = [req EXCEPT ![q].pc = pc]
Respond(q) == req' = [req EXCEPT ![q] = IdleReq]

\* authMiddleware, and the session check of HandleMe.
Authenticate(q) ==
    /\ req[q].pc = "auth"
    /\ IF sessions[req[q].id] = None THEN Respond(q)
       ELSE Goto(q, IF req[q].kind \in {"me", "preview", "unpreview"}
                    THEN "admin" ELSE "client")
    /\ UNCHANGED <<provider, sessions, browser, stream, requests>>

\* HandleMe goes on to CanListAllNamespaces whatever the answer is.
HandleMe(q) == Goto(q, "list")

\* Mutant of requireAdmin: it only looks for errors.
requireAdminAny(q, ans) == Goto(q, "apply")

\* requireAdmin ends the request of a user who may not impersonate.
requireAdmin(q, ans) == IF ans = "yes" THEN Goto(q, "apply") ELSE Respond(q)

AfterAdmin(q, ans) ==
    IF req[q].kind = "me" THEN HandleMe(q) ELSE requireAdmin(q, ans)

\* CanImpersonate: the cached answer, or a review of the real identity.
CanImpersonate(q) ==
    LET d == sessions[req[q].id] IN
    /\ req[q].pc = "admin"
    /\ IF d = None THEN AfterAdmin(q, "no")
       ELSE IF d.canImpersonate # "unknown" THEN AfterAdmin(q, d.canImpersonate)
       ELSE req' = [req EXCEPT ![q].pc = "reviewAdmin",
                               ![q].who = WrapConfig([d EXCEPT !.as = None])]
    /\ UNCHANGED <<provider, sessions, browser, stream, requests>>

ReviewAdmin(q) ==
    /\ req[q].pc = "reviewAdmin"
    /\ req' = [req EXCEPT ![q].pc = "cacheAdmin",
                          ![q].ans = SSAR(Admins, req[q].who)]
    /\ UNCHANGED <<provider, sessions, browser, stream, requests>>

\* A failed review answers no and is not cached; requireAdmin ends with an
\* error, HandleMe goes on.
ReviewFails(q) ==
    /\ \/ req[q].pc = "reviewAdmin" /\ AfterAdmin(q, "no")
       \/ req[q].pc = "reviewList" /\ Respond(q)
    /\ UNCHANGED <<provider, sessions, browser, stream, requests>>

\* Mutant of SetCanImpersonate: the copy the handler holds is stored.
SetCanImpersonateCopy(q) ==
    /\ req[q].pc = "cacheAdmin"
    /\ \E d \in Data :
          /\ d.user = req[q].who /\ d.as = None /\ d.canListAll = "unknown"
          /\ d.canImpersonate = req[q].ans
          /\ Store(req[q].id, d)
    /\ AfterAdmin(q, req[q].ans)
    /\ UNCHANGED <<provider, browser, stream, requests>>

SetCanImpersonate(q) ==
    LET id == req[q].id IN
    /\ req[q].pc = "cacheAdmin"
    /\ UpdateSession(id, [sessions[id] EXCEPT !.canImpersonate = req[q].ans])
    /\ AfterAdmin(q, req[q].ans)
    /\ UNCHANGED <<provider, browser, stream, requests>>

\* CanListAllNamespaces: the cached answer, or a review of the current
\* identity.
CanListAllNamespaces(q) ==
    LET d == sessions[req[q].id] IN
    /\ req[q].pc = "list"
    /\ IF d = None \/ d.canListAll # "unknown" THEN Respond(q)
       ELSE req' = [req EXCEPT ![q].pc = "reviewList", ![q].who = WrapConfig(d)]
    /\ UNCHANGED <<provider, sessions, browser, stream, requests>>

ReviewList(q) ==
    /\ req[q].pc = "reviewList"
    /\ req' = [req EXCEPT ![q].pc = "cacheList",
                          ![q].ans = SSAR(Listers, req[q].who)]
    /\ UNCHANGED <<provider, sessions, browser, stream, requests>>

\* Mutant of SetCanListAllNamespaces: the answer goes to the other cache.
SetCanListAllWrong(q) ==
    LET id == req[q].id IN
    /\ req[q].pc = "cacheList"
    /\ UpdateSession(id, [sessions[id] EXCEPT !.canImpersonate = req[q].ans])
    /\ Respond(q)
    /\ UNCHANGED <<provider, browser, stream, requests>>

SetCanListAllNamespaces(q) ==
    LET id == req[q].id IN
    /\ req[q].pc = "cacheList"
    /\ UpdateSession(id, [sessions[id] EXCEPT !.canListAll = req[q].ans])
    /\ Respond(q)
    /\ UNCHANGED <<provider, browser, stream, requests>>

\* The identity changes, and with it the answer that depends on it is cleared.
SetImpersonation(q) ==
    LET id == req[q].id IN
    /\ req[q].pc = "apply" /\ req[q].kind = "preview"
    /\ UpdateSession(id, [sessions[id] EXCEPT !.as = req[q].as,
                                              !.canListAll = "unknown"])
    /\ Respond(q)
    /\ UNCHANGED <<provider, browser, stream, requests>>

ClearImpersonation(q) ==
    LET id == req[q].id IN
    /\ req[q].pc = "apply" /\ req[q].kind = "unpreview"
    /\ UpdateSession(id, [sessions[id] EXCEPT !.as = None,
                                              !.canListAll = "unknown"])
    /\ Respond(q)
    /\ UNCHANGED <<provider, browser, stream, requests>>

-----------------------------------------------------------------------------
(* Requests that are passed on.                                            *)

\* clientFor: the session is read again, and is what the request is passed on
\* under from here on.  HandleSSE starts its watchers with it.
ClientFor(q) ==
    LET d == sessions[req[q].id] IN
    /\ req[q].pc = "client"
    /\ IF d = None THEN Respond(q) /\ UNCHANGED stream
       ELSE /\ req' = [req EXCEPT ![q].pc = req[q].kind,
                                  ![q].who = WrapConfig(d),
                                  ![q].todo = IF req[q].kind = "namespaces"
                                              THEN Namespaces ELSE {}]
            /\ IF req[q].kind = "stream"
               THEN /\ connected' = TRUE
                    /\ watch' = [k \in Kinds |-> "opening"]
                    /\ UNCHANGED <<queue, events>>
               ELSE UNCHANGED stream
    /\ UNCHANGED <<provider, sessions, browser, requests>>

\* HandleList and HandleGet: Kubernetes answers.
Forward(q) ==
    /\ req[q].pc = "forward"
    /\ Respond(q)
    /\ UNCHANGED <<provider, sessions, browser, stream, requests>>

\* Mutant of HasSolarAccess: a client is made for every review.
HasSolarAccessNow(q, n) ==
    LET d == sessions[req[q].id] IN
    /\ req[q].pc = "namespaces"
    /\ n \in req[q].todo
    /\ \/ /\ d # None
          /\ n \in Access[WrapConfig(d)]
          /\ req' = [req EXCEPT ![q].todo = @ \ {n}, ![q].shown = @ \cup {n}]
       \/ req' = [req EXCEPT ![q].todo = @ \ {n}]
    /\ UNCHANGED <<provider, sessions, browser, stream, requests>>

\* HandleListNamespaces: one review per namespace, in any order; one that
\* fails excludes its namespace.
HasSolarAccess(q, n) ==
    /\ req[q].pc = "namespaces"
    /\ n \in req[q].todo
    /\ \/ /\ n \in Access[req[q].who]
          /\ req' = [req EXCEPT ![q].todo = @ \ {n}, ![q].shown = @ \cup {n}]
       \/ req' = [req EXCEPT ![q].todo = @ \ {n}]
    /\ UNCHANGED <<provider, sessions, browser, stream, requests>>

\* The answer, when all reviews are done or the namespaces could not be listed.
RespondNamespaces(q) ==
    /\ req[q].pc = "namespaces"
    /\ req[q].todo \in {{}, Namespaces}
    /\ Respond(q)
    /\ UNCHANGED <<provider, sessions, browser, stream, requests>>

-----------------------------------------------------------------------------
(* The event stream (HandleSSE): a goroutine per resource that sends watch *)
(* events into a bounded channel, and one writer.                          *)

Open(k) ==
    /\ watch[k] = "opening"
    /\ watch' = [watch EXCEPT ![k] = "waiting"]
    /\ UNCHANGED <<provider, sessions, browser, req, queue, connected, events,
                   requests>>

\* The watch is refused, or its result channel closes: the API server ends
\* watches from time to time, and the request context ends them.
Close(k) ==
    /\ watch[k] \in {"opening", "waiting"}
    /\ watch' = [watch EXCEPT ![k] = "ended"]
    /\ UNCHANGED <<provider, sessions, browser, req, queue, connected, events,
                   requests>>

WatchEvent(k) ==
    /\ watch[k] = "waiting"
    /\ events < MaxEvents
    /\ events' = events + 1
    /\ watch' = [watch EXCEPT ![k] = "sending"]
    /\ UNCHANGED <<provider, sessions, browser, req, queue, connected,
                   requests>>

\* Mutant of SendOrQuit: the request context is not looked at.
SendOnly(k) ==
    /\ watch[k] = "sending"
    /\ Len(queue) < QueueSize
    /\ queue' = Append(queue, k)
    /\ watch' = [watch EXCEPT ![k] = "waiting"]
    /\ UNCHANGED <<provider, sessions, browser, req, connected, events,
                   requests>>

SendOrQuit(k) ==
    /\ watch[k] = "sending"
    /\ \/ /\ Len(queue) < QueueSize
          /\ queue' = Append(queue, k)
          /\ watch' = [watch EXCEPT ![k] = "waiting"]
       \/ /\ ~connected
          /\ watch' = [watch EXCEPT ![k] = "ended"]
          /\ UNCHANGED queue
    /\ UNCHANGED <<provider, sessions, browser, req, connected, events,
                   requests>>

\* The writer: events go to the browser until the context ends.
WriteEvent(q) ==
    /\ req[q].pc = "stream"
    /\ queue # <<>>
    /\ queue' = Tail(queue)
    /\ UNCHANGED <<provider, sessions, browser, req, watch, connected, events,
                   requests>>

EndStream(q) ==
    /\ req[q].pc = "stream"
    /\ ~connected
    /\ Respond(q)
    /\ UNCHANGED <<provider, sessions, browser, stream, requests>>

\* The last goroutine of a stream that ended takes the channel with it.
Forget ==
    /\ ~connected
    /\ queue # <<>>
    /\ \A k \in Kinds : watch[k] = "ended"
    /\ \A q \in Requests : req[q].pc # "stream"
    /\ queue' = <<>>
    /\ UNCHANGED <<provider, sessions, browser, req, watch, connected, events,
                   requests>>

Disconnect ==
    /\ connected
    /\ connected' = FALSE
    /\ UNCHANGED <<provider, sessions, browser, req, watch, queue, events,
                   requests>>

-----------------------------------------------------------------------------

Step(q) ==
    \/ Authenticate(q)
    \/ CanImpersonate(q)
    \/ ReviewAdmin(q)
    \/ ReviewFails(q)
    \/ SetCanImpersonate(q)
    \/ CanListAllNamespaces(q)
    \/ ReviewList(q)
    \/ SetCanListAllNamespaces(q)
    \/ SetImpersonation(q)
    \/ ClearImpersonation(q)
    \/ ClientFor(q)
    \/ Forward(q)
    \/ \E n \in Namespaces : HasSolarAccess(q, n)
    \/ RespondNamespaces(q)
    \/ WriteEvent(q)
    \/ EndStream(q)

Browser ==
    \/ Login
    \/ \E u \in Users, id \in Ids :
          NoopLogin(u, id) \/ \E s \in 1..MaxLogins : Callback(s, u, id)
    \/ Logout
    \/ \E q \in Requests, kind \in Routes, as \in Users \cup {None} :
          Begin(q, kind, as)
    \/ Disconnect

Next ==
    \/ Browser
    \/ \E q \in Requests : Step(q)
    \/ \E k \in Kinds : Open(k) \/ Close(k) \/ WatchEvent(k) \/ SendOrQuit(k)
    \/ Forget

Spec == Init /\ [][Next]_vars

(* Fairness.  Goroutines make progress, and a watch whose context ended      *)
(* closes.  A select that may go on for ever picks the end of the context    *)
(* in the end.                                                               *)
Fairness ==
    /\ \A q \in Requests : WF_vars(Step(q)) /\ WF_vars(EndStream(q))
    /\ \A k \in Kinds :
        /\ WF_vars(~connected /\ Close(k))
        /\ WF_vars(SendOrQuit(k))

FairSpec == Spec /\ Fairness

-----------------------------------------------------------------------------
(* Properties.                                                             *)

SessionsTypeOK ==
    /\ provider \in {"oidc", "noop"}
    /\ sessions \in [Ids -> Data \cup {None}]
    /\ issued \subseteq Ids
    /\ cookie \in issued \cup {None}
    /\ state \in 0..MaxLogins
    /\ redirects \subseteq 1..MaxLogins
    /\ logins \in 0..MaxLogins

Reqs ==
    [pc: {"idle", "auth", "admin", "reviewAdmin", "cacheAdmin", "list",
          "reviewList", "cacheList", "apply", "client", "forward",
          "namespaces", "stream"},
     kind: Routes \cup {None}, id: Ids \cup {None}, as: Users \cup {None},
     who: Identities \cup {None}, ans: Answers,
     todo: SUBSET Namespaces, shown: SUBSET Namespaces]

StreamTypeOK ==
    /\ watch \in [Kinds -> {"opening", "waiting", "sending", "ended"}]
    /\ queue \in Seq(Kinds)
    /\ Len(queue) <= QueueSize
    /\ connected \in BOOLEAN
    /\ events \in Nat

(* Sessions, requests and streams have their types.                          *)
TypeOK ==
    /\ SessionsTypeOK
    /\ req \in [Requests -> Reqs]
    /\ requests \in Nat
    /\ StreamTypeOK

RealIdentity(d) == WrapConfig([d EXCEPT !.as = None])

(* The cached canImpersonate of a session is the answer for its real         *)
(* identity, whatever was previewed while it was computed ("always evaluated *)
(* against the real identity", handler.go).                                  *)
CanImpersonateIsReal ==
    \A id \in Ids :
        /\ sessions[id] # None
        /\ sessions[id].canImpersonate # "unknown"
        => sessions[id].canImpersonate = SSAR(Admins, RealIdentity(sessions[id]))

(* Only a session whose real identity may impersonate users ever has a       *)
(* preview, although the check and the change are separate calls.            *)
PreviewedByAdmin ==
    \A id \in Ids :
        /\ sessions[id] # None
        /\ sessions[id].as # None
        => RealIdentity(sessions[id]) \in Admins

(* A session that was logged out stays out: no request that was under way    *)
(* stores it again.                                                          *)
LoggedOutStaysOut ==
    [][\A id \in issued : sessions[id] = None => sessions'[id] = None]_vars

(* A list of namespaces shows what one user has access to: neither the       *)
(* backend, which lists the namespaces, nor a preview that starts or ends    *)
(* during the reviews adds to it (HandleListNamespaces).                     *)
ShownAreAccessible ==
    provider = "oidc" =>
        \A q \in Requests :
            \E u \in Users : req[q].shown \subseteq Access[u]

(* When the browser disconnects, every goroutine of the event stream ends,   *)
(* even one that was blocked on the full channel.                            *)
StreamsEnd ==
    ~connected ~> \A k \in Kinds : watch[k] = "ended"

-----------------------------------------------------------------------------
(* What a comment says, and the code does not guarantee.                   *)

(* api/handler.go: the answer of CanListAllNamespaces is "cached per session *)
(* and invalidated when impersonation changes".                              *)
CanListAllIsCurrent ==
    \A id \in Ids :
        /\ sessions[id] # None
        /\ sessions[id].canListAll # "unknown"
        => sessions[id].canListAll = SSAR(Listers, WrapConfig(sessions[id]))

=============================================================================
