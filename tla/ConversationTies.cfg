\* Rows of one second are listed in any order (MySQL).
SPECIFICATION Spec
CONSTANTS
    Call = {c1, c2}
    MaxRows = 6
    Ties = TRUE
    Faulty = FALSE
    None = None
SYMMETRY CallSymmetry
INVARIANTS
    AcceptedHistory
CHECK_DEADLOCK FALSE
