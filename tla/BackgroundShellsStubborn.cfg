SPECIFICATION Spec
CONSTANTS
    Job = {j1, j2}
    Killer = {k1}
    Stubborn = {j2}
    MaxBackgroundJobs = 1
    Exiting = FALSE
PROPERTIES JobKillReturns
CHECK_DEADLOCK FALSE
