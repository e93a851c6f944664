SPECIFICATION Spec
CONSTANTS
    MaxRun = 1
    Worker = {w1, w2}
    Life = {}
    Human = {}
    None = None
    Prompt = {p1, p2}
    Answer = {a1}
    Fn = {f1, f2}
    Question = {q1}
    Patch = {}
    Code = {v1, v2}
    MaxFaults = 3
    StallAt = {"claimed", "agent", "called", "acting", "asked", "returned", "paused", "tx"}
    Mortal = {}
    p1 = p1
    p2 = p2
    q1 = q1
    f1 = f1
    f2 = f2
    v1 = v1
    v2 = v2
    Agent <- DeployedAgent
SYMMETRY Anyone
CHECK_DEADLOCK FALSE
INVARIANTS
    DiaryReplayable
PROPERTIES
    ImplementsDurableAgent
