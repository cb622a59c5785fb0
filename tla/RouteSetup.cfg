SPECIFICATION FairSpec
CONSTANTS
    q1 = q1
    q2 = q2
    c1 = c1
    Requests = {q1, q2}
    Credentials = {c1}
    MaxRoutes = 2
    MaxPendingWork = 1
    NoValue = NoValue
    MaxFailures = 1
INVARIANTS
    TypeOK
    EndpointsFindTheRoute
PROPERTIES
    RequestsAreSettled
CHECK_DEADLOCK FALSE
