SPECIFICATION Spec
CONSTANTS
    edit = edit  view = view  guard = guard  style = style
    k1 = k1  k2 = k2  v0 = v0  v1 = v1  v2 = v2
    Tool <- TwoTools
    Asking = {edit}
    Input <- SomeInputs
    Key = {k1, k2}
    Value = {v0, v1, v2}
    Output = {o1}
    Patch <- Patches
    Hooks <- ThreeHooks
    Answer <- Answers
    NoPatch = NoPatch
    NotObject = NotObject
    None = None
    windowSize = 3
    maxRepeats = 1
    MaxSteps = 4
INVARIANTS VerdictIsDeclared
PROPERTIES RunsAsDecided TurnStopsInTime HooksLetGo
CHECK_DEADLOCK FALSE
