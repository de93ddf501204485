SPECIFICATION SSpec
CONSTANTS
    s1 = s1
    Session = {s1}
    Prompt = {p1, p2}
    Summarizer = {}
    SessionOf <- OneSession
    MaxResumes = 1
    Faulty = FALSE
    NoRun = NoRun
INVARIANTS CancelledTurnsEnd
PROPERTIES CancelledRunsLetGo
