SPECIFICATION Spec
CONSTANTS
    s1 = s1
    NoRun = NoRun
    Session = {s1}
    Prompt = {p1, p2}
    Summarizer = {z1}
    SessionOf <- OneSession
    MaxResumes = 1
    Faulty = TRUE
SYMMETRY PromptSymmetry
INVARIANTS
    OneTurnPerSession
    NoLeakedBusy
    HappyEndLeavesNoQueue
PROPERTIES
    OnlyOwnerReleases
    NoSilentLoss
    CancelledCallNotRerun
    ImplementsLedger
