SPECIFICATION Spec
CONSTANTS
    Session = {s1, s2}
    Body = {b1}
    Crlf <- Windows
    Nothing = Nothing
    Absent = Absent
    None = None
    MaxClock = 2
    MaxEdits = 3
    MaxTroubles = 1
SYMMETRY Symmetric
INVARIANTS SidebarShowsSessionsWork ReplacedIsKept OwnWriteIsFresh
CHECK_DEADLOCK FALSE
