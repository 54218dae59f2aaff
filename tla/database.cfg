SPECIFICATION DatabaseFairSpec
CONSTANTS
    Writer = {w1, w2}
    Reader = {r1}
INVARIANTS
    AppliedOnce
PROPERTIES
    ImplementsAtomicStore
    EveryCallAnswered
CHECK_DEADLOCK FALSE
