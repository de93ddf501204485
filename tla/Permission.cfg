SPECIFICATION Spec
CONSTANTS
    c1 = c1  c2 = c2  s1 = s1  k1 = k1
    Call = {c1, c2}
    Reply = {1, 2}
    Session = {s1}
    Key = {k1}
    SessionOf <- OneSession
    KeyOf <- OneKey
    Allowed = {}
    HookApproved = {c2}
    Lossy = TRUE
    Switchable = TRUE
    NoCall = NoCall
INVARIANTS OneRequestAtATime OutcomeAnnounced
PROPERTIES NoGrantWithoutReason EveryoneGetsATurn SettledReturns ReplyReturns
CHECK_DEADLOCK FALSE
