SPECIFICATION FlowsSpec
CONSTANTS
    session = session
    proof = proof  replay = replay  route = route
    Sessions = {session}
    Threads = {t1, t2}
    Home <- HomeOf
    Recipes = {proof, replay, route}
    Durable = {proof}
    Guarded = {proof, replay}
    MaxEntries = 2
    None = None
    fifo1 = fifo1  fifo2 = fifo2  reg1 = reg1  reg2 = reg2
    RuleCount = 3
    Fifos = {fifo1, fifo2}
    Registers = {reg1, reg2}
    Depth = 2
    Programs <- RulePrograms
    safety = safety  cover = cover
    Processes = {p1, p2}
    JobOrder <- BundleJobs
    SafetyJobs = {safety}
    Feasibility <- FeasibilityOf
    Unavailable = {cover}
    NoJob = NoJob
    Builds = {b1, b2}
    SourceVersions = {v1, v2}
    Missing = Missing
    ByHand = ByHand
    Roots = {root}
    FileContents = {old, new}
    Inventories = {few, many}
    MaxWrites = 2
    MaxSnapshots = 1
    NoSession = NoSession
INVARIANTS
    FlowsTypeOK
    OneFlight
    NoRepeat
    NoOrphan
    OnlyDecisiveKept
    SelectionExact
    ReportsAreSound
    RestingManifestTrue
    SnapshotsCurrent
PROPERTIES
    NeverTorn
    CallsReturn
