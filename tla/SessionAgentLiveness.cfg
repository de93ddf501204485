SPECIFICATION Spec
CONSTANTS
    s1 = s1
    NoRun = NoRun
    Session = {s1}
    Prompt = {p1, p2}
    Summarizer = {}
    SessionOf <- OneSession
    MaxResumes = 1
    Faulty = TRUE
PROPERTIES
    QueuedIsSettled
