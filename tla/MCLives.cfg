SPECIFICATION LivesSpec
CONSTANTS
    MaxRun = 2
    Worker = {}
    Life = {l1, l2}
    Human = {h1}
    None = None
    Prompt = {p1, p2}
    Answer = {a1, a2}
    Fn = {f1, f2}
    Question = {q1}
    Patch = {c1}
    Code = {v1}
    MaxFaults = 1
    p1 = p1
    p2 = p2
    q1 = q1
    f1 = f1
    f2 = f2
    v1 = v1
    v2 = v2
    Agent <- PatchedAgent
SYMMETRY Anyone
CHECK_DEADLOCK FALSE
INVARIANTS
    LivesTypeOK
    DiaryReplayable
    ExactlyOnce
    LivesNeverDiverge
PROPERTIES
    ImplementsDurableAgent
