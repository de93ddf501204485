SPECIFICATION SSpec
CONSTANTS
    s1 = s1
    Session = {s1}
    Prompt = {p1, p2}
    Summarizer = {}
    SessionOf <- OneSession
    MaxResumes = 0
    Faulty = FALSE
    NoRun = NoRun
INVARIANT AgentsFinishBeforeClose
