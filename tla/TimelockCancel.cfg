SPECIFICATION TimelockSpec
CONSTANTS
    alice = alice
    bob = bob
    Users = {alice, bob}
    Locks <- OneLock
    Amounts <- AmountsLine
    Times <- TimesLine
    TimeMin <- MinusEight
    TimeMax = 7
    Genesis = 0
    Funds <- FundsSmall
PROPERTIES
    CancelSettles
CHECK_DEADLOCK FALSE
