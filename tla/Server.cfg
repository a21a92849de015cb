SPECIFICATION Spec
CONSTANTS
    PAGE = 2
    MAX_PAGES = 3
    CONCURRENCY = 2
    MaxTx = 5
    MaxEvents = 2
    MaxFaults = 2
    Old = 1
    Runs = {r1, r2}
    Requests = {q1, q2, q3}
    Addresses = {a1, a2, a3}
    Ips = {ip1}
    COOLDOWN = 2
    MAX_CLAIMS_PER_IP_PER_DAY = 2
    MaxTime = 2
    MaxStops = 1
    Callers = {c1, c2}
    Window = 3
    MaxHits = 2
    Crowd = 1
    Horizon = 5
    Readers = {g1, g2}
    Ttl = 2
    PriceEnd = 6
    Never = never
    Ids = {n1, n2, n3}
    MaxStored = 2
INVARIANTS
    FeedInOrder
    NoGapBehindCursor
    OncePerAddressUnlessRaced
    QuotaUnlessCrowded
    WindowHeld
    RetryAfterExact
    NeverHalfServed
    CapUnlessCrowded
PROPERTIES
    CursorAdvances
    EventuallyIndexed
    EventuallyReleased
    OldOnlyAfterFailure
    EveryRequestAnswered
CHECK_DEADLOCK FALSE
