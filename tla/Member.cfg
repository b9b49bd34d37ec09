\* One instance of each part: the fewest actors with which what it promises can fail.
CONSTANTS
    \* The approval queue: two admins and a member that may leave, with one approval pending.
    Members = {"ann", "root", "eve"}
    Admins = {"root", "eve"}
    Sessions = {1, 2}
    Leavers = {"ann"}
    Ids = {"i", "j"}
    Inputs <- MCInputs
    Shared = {"/org/a", "/org/b"}
    Permits = {{"/org/a", "/home"}}
    MaxPending = 1
    MaxLost = 1
    \* Two sessions of a member run two images of one Package, one runs a job, and one a kit.
    RunSessions = {"s", "t"}
    RunIds = {"i", "j"}
    RunUnits <- MCRunUnits
    JobSessions = {"s"}
    JobIds = {"i", "j"}
    JobUnits <- MCJobUnits
    KitSessions = {"s"}
    KitIds = {"i", "j", "k"}
    KitUnits <- MCKitUnits
    MaxRefusals = 1
    \* A pod of two units, two calls of the runtime that fail, and one crash.
    PodIds = {"i"}
    Order <- MCOrder
    FaceUnit = "face"
    MaxTokens = 4
    MaxPodFaults = 2
    MaxCrashes = 1
    \* Packages of one unit, of two, and of a kit.
    Builders = {"c"}
    BuildShapes <- MCBuilds
    BuildKits = {"k"}
    MaxContents = 2
    MaxImages = 2
    MaxBuildFaults = 1
    \* Two calls at once of a member or of a narrowed session.
    Calls = {"c", "d"}
    Asked = {"approvals_approve", "x", "fs_read", "users_me"}
    Published = {"x"}
    Families = {"daemon"}
    Areas = {"own", "other"}
    SharedAreas = {"other"}
    Grants <- MCGrants
    QueueRoom = 1
    \* One manifest of every kind, changed three times under two runs.
    Manifests <- MCManifests
    HasProxy = TRUE
    MaxUnits = 2
    MaxRuns = 2
    MaxMoves = 3
    \* Two runs of one Package and one of another that publishes a name of the first.
    Processes = {"i", "j", "k"}
    PackageOf <- MCPackageOf
    NamesOf <- MCNamesOf
    Clients = {"c", "d"}
    MaxOpens = 2
    \* Two writes at once of a manifest and a file, and two steps that fail.
    Writers = {"c", "d"}
    Paths = {"kitbash.yaml", "a"}
    Manifest = "kitbash.yaml"
    Contents = {1, 2}
    NoContent = 0
    Torn = 3
    Shapes <- MCWrites
    MaxOpen = 2
    MaxWriteFaults = 2
    \* Two members, one Process, and admins that change.
    Readers = {"ann", "bob"}
    Procs = {"p"}
    Requests = {"r"}
    Signals <- MCSignals
    Windows = {1}
    Batch = 1
    QueueDepth = 1
    Rate = 1
    RateWindow = 1
    MaxClock = 0
    MaxRecords = 1
    MaxStoreFaults = 1
    MaxChanges = 2
    \* Two Processes, each of two endpoints in turn.
    Probed = {"p", "q"}
    Decls = {"a", "b"}
    Intervals = {2}
    IdleWait = 2
    MaxFlights = 1
SPECIFICATION Whole
INVARIANTS QueueIsKept RunsAreKnown PodsAreWhole AnswerIsWhole PermitsHold CallsAreTold NothingFailsEveryStart OneSessionAnswers
PROPERTIES ImplementsDecision RunningKeepsItsRow WritesAreVersions ProbesAreCurrent
CHECK_DEADLOCK FALSE
