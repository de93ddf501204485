SPECIFICATION Spec
CONSTANTS
    Session = {s1}
    Body = {b1}
    Crlf <- Unix
    Nothing = Nothing
    Absent = Absent
    None = None
    MaxClock = 2
    MaxEdits = 2
    MaxTroubles = 1
INVARIANT WhatIsReplacedIsKept
CHECK_DEADLOCK FALSE
