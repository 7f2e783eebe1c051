CONSTANTS
    Files <- MCFiles
    Labels = {"new", "legacy", "absent"}
    Size = 5
    Chunk = 2
    ShortAnswers = TRUE
    Losses = TRUE
SPECIFICATION FairSpec
INVARIANTS HolesOnlyByLoss RightObject CleanReadDecides
PROPERTIES ReadReturns
