SPECIFICATION FairSpec
CONSTANTS
    Seeds = {s1, s2}
    Tasks = {t1, t2, t3}
    NoSeed = NoSeed
    MaxOps = 5
    MaxReloads = 1
INVARIANTS
    KeysFollowStatus
    SessionIsStored
    AddressesAreAccounts
PROPERTIES
    NeverOverwritten
    EventuallyLocked
CHECK_DEADLOCK FALSE
