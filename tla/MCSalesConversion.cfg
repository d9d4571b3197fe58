SPECIFICATION Spec
CONSTANTS
    u1 = u1
    u2 = u2
    a = a
    b = b
    n = n
    Users = {u1, u2}
    Contents = {a, b, n}
    Unlinked = {n}
    Breaching = {b}
    Authority <- SomeAuthority
    Requests = {r1, r2}
    Calls = {c1, c2}
    Orders = {o1, o2}
    NoRequest = NoRequest
    NoSubmission = NoSubmission
    NoCall = NoCall
    NoUser = NoUser
    SnapshotIsolation = TRUE
    Requesters = {u1}
    Lapsing = {b}
SYMMETRY Symmetry
INVARIANTS TypeOK SubmittedWithinAuthority OneOrderAsApproved
PROPERTY OrdersAreConfirmed
