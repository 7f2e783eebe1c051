CONSTANTS
    Threads = {t1, t2}
    Nobody = Nobody
    MaxCtx = 2
SYMMETRY Symmetry
SPECIFICATION Spec
CHECK_DEADLOCK FALSE
INVARIANTS OneThreadInSdk
