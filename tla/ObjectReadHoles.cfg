CONSTANTS
    Files <- MCFiles
    Labels = {"new", "legacy", "absent"}
    Size = 5
    Chunk = 2
    ShortAnswers = TRUE
    Losses = TRUE
SPECIFICATION Spec
INVARIANTS TrueMeansRead
