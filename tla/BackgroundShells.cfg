SPECIFICATION Spec
CONSTANTS
    Job = {j1, j2}
    Killer = {k1}
    Stubborn = {j2}
    MaxBackgroundJobs = 1
    Exiting = TRUE
INVARIANTS NoOrphans KilledIsGone
PROPERTIES KillsReturn
CHECK_DEADLOCK FALSE
