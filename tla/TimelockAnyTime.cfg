SPECIFICATION TimelockSpec
CONSTANTS
    alice = alice
    bob = bob
    Users = {alice, bob}
    Locks <- OneLock
    Amounts <- AmountsTwo
    Times <- TimesWide
    TimeMin <- MinusEight
    TimeMax = 7
    Genesis = 0
    Funds <- FundsSmall
INVARIANTS
    WithdrawAnyTime
CHECK_DEADLOCK FALSE
