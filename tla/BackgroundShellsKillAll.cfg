SPECIFICATION Spec
CONSTANTS
    Job = {j1, j2}
    Killer = {}
    Stubborn = {}
    MaxBackgroundJobs = 2
    Exiting = TRUE
INVARIANT KillAllSparesNone
CHECK_DEADLOCK FALSE
