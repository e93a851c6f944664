SPECIFICATION ProgramsSpec
CONSTANTS
    MaxRun = 3
    Worker = {w1, w2}
    Life = {l1}
    Human = {h1}
    None = None
    Prompt = {p1, p2}
    Answer = {a1, a2}
    Fn = {f1, f2}
    Question = {q1}
    Patch = {c1}
    Code = {asking, acting, working, refunding, deciding}
    MaxFaults = 3
    StallAt = {"idle", "claimed", "agent", "called", "acting", "tx", "asked", "returned", "paused", "fenced", "diverged", "duplicate", "raised"}
    Mortal = {}
    Replies = {a1, a2}
    Reply <- SeededReply
    Unset = Unset
    Runs = 2
    Tries = 3
    Seed = 7
    Recommendation = a1
    Jobs = 2
    ZombieA = w1
    ZombieB = w2
    Asked <- TwoPrompts
    Bounds <- ProgramsBounds
    p1 = p1
    p2 = p2
    q1 = q1
    f1 = f1
    f2 = f2
    v1 = v1
    v2 = v2
    w1 = w1
    w2 = w2
    l1 = l1
    a1 = a1
    a2 = a2
    asking = asking
    acting = acting
    working = working
    refunding = refunding
    deciding = deciding
    Agent <- ProgramsAgent
CHECK_DEADLOCK FALSE
INVARIANTS
    Certified
    BillIsNewSteps
    ShowcaseHolds
    BillsAreTrue
    FleetCertificate
    ZombieCertificate
    ShownCompletedIsWhole
    DiffStands
    DiffFindsForkPoint
    OwnAnswers
    ExactlyOnce
PROPERTIES
    ForkAgreesWithPage
    OnlyALifeOversleeps
    QueueDrains
