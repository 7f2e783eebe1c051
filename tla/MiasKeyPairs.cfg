CONSTANTS
    Records <- MCRecords
    Dir <- MCDir
    KeyPoolSize = 3
    KidModulus = 8
    Losses = {"refused", "lost"}
    SigningId = 0
    MaxLives = 1
SPECIFICATION Spec
INVARIANTS PoolRespected LookUpIsRight CleanListIsComplete
PROPERTIES CachedForLife
