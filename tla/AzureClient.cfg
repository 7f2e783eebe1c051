CONSTANTS
    Handles = {"prov", "hub"}
    Devices = {"d1", "d2"}
    None = None
    Programs = {"registerer", "monitor", "ll_client", "own"}
    MESSAGE_COUNT = 2
SPECIFICATION Spec
INVARIANTS OneSource PairBelongs NullExplained SameIdentity NoHandleLeft
PROPERTY ProgramsEnd
CHECK_DEADLOCK FALSE
