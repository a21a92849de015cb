SPECIFICATION Spec
CONSTANTS
    alice = alice
    bob = bob
    Users = {alice, bob}
    Locks <- OneLock
    Amounts <- AmountsLine
    Times <- TimesLine
    TimeMin <- MinusEight
    TimeMax = 7
    Genesis = 0
    Funds <- FundsSmall
    key1 = key1
    LinkUsers = {alice, bob}
    Keys = {key1}
    LinkAmounts = {0, 1, 2}
    LinkTimes <- TimesOfLink
    LinkGenesis = 0
    ClaimRent = 2
    VaultRent = 1
    MinSol = 1
    SolFunds <- SolSmall
    TokenFunds <- TokensSmall
    U64 = 15
    U128 = 255
    FEE_DENOMINATOR = 10
    MAX_FEE_BPS = 1
    MINIMUM_LIQUIDITY = 1
    PoolUsers = {alice, bob}
    PoolAmounts = {1, 2, 4, 5}
    Minima = {0, 2}
    Fees = {0, 1, 2}
    FundsA <- FundsASmall
    FundsB <- FundsBSmall
INVARIANTS
    Solvent
    Accounted
    NeverStranded
    NeverAheadOfSchedule
    NeverOverdrawn
    NothingStranded
    Settled
    NeverDrained
    SharesBacked
    RoundTripsNeverProfit
PROPERTIES
    EarnedNeverShrinks
    ImplementsGrant
    ImplementsEscrow
    ShareValueNeverDrops
CHECK_DEADLOCK FALSE
