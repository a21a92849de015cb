SPECIFICATION FaucetSpec
CONSTANTS
    Requests = {r1, r2}
    Addresses = {a1, a2}
    Ips = {ip1}
    COOLDOWN = 2
    MAX_CLAIMS_PER_IP_PER_DAY = 2
    MaxTime = 2
    MaxStops = 0
INVARIANTS
    ClaimLimits
CHECK_DEADLOCK FALSE
