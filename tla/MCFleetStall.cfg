SPECIFICATION FairSpec
CONSTANTS
    MaxRun = 2
    Worker = {w1, w2, w3}
    Life = {}
    Human = {}
    None = None
    Prompt = {p1, p2}
    Answer = {a1}
    Fn = {f1, f2}
    Question = {q1}
    Patch = {}
    Code = {v1}
    MaxFaults = 1
    StallAt = {"claimed", "agent", "called", "acting", "asked", "returned", "paused"}
    Mortal = {}
    p1 = p1
    p2 = p2
    q1 = q1
    f1 = f1
    f2 = f2
    v1 = v1
    v2 = v2
    Agent <- PatchedAgent
CHECK_DEADLOCK FALSE
PROPERTIES
    QueuedSettles
