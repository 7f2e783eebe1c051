CONSTANTS
    Threads = {t1, t2}
    Nobody = Nobody
    MaxCtx = 2
SPECIFICATION FairSpec
CHECK_DEADLOCK FALSE
INVARIANTS IInv SdkExclusive OwnedIsLive PinIsTheOneSet
PROPERTIES WaitersServed
