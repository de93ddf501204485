\* Rows are listed as they were created (SQLite).
SPECIFICATION Spec
CONSTANTS
    Call = {c1, c2}
    MaxRows = 6
    Ties = FALSE
    Faulty = TRUE
    None = None
SYMMETRY CallSymmetry
INVARIANTS
    AcceptedHistory
    OneResultPerCall
    PointerIsSummary
PROPERTIES
    RepairIsComplete
CHECK_DEADLOCK FALSE
