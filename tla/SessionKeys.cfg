SPECIFICATION Spec
CONSTANTS
    Seeds = {s1, s2}
    Tasks = {t1, t2}
    NoSeed = NoSeed
    MaxOps = 3
    MaxReloads = 0
INVARIANTS
    KeysOnlyWhileUnlocked
CHECK_DEADLOCK FALSE
