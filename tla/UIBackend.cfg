CONSTANTS
    u1 = u1
    u2 = u2
    n1 = n1
    n2 = n2
    Users = {u1, u2}
    Server = Server
    Admins = {u1}
    Listers = {u1, Server}
    Namespaces = {n1, n2}
    Access <- MCAccess
    Ids = {s1}
    Requests = {q1, q2}
    Kinds = {k1}
    QueueSize = 1
    MaxLogins = 2
    MaxRequests = 3
    MaxEvents = 2
    None = None
SPECIFICATION FairSpec
INVARIANT CanImpersonateIsReal
INVARIANT PreviewedByAdmin
INVARIANT ShownAreAccessible
PROPERTY LoggedOutStaysOut
PROPERTY StreamsEnd
CHECK_DEADLOCK FALSE
