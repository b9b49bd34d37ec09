\* One instance of each part: the fewest actors with which what it promises can fail.
CONSTANTS
    MinuteOf <- MCMinuteOf
    HourOf <- MCHourOf
    DayOf <- MCDayOf
    MonthOf <- MCMonthOf
    WeekdayOf <- MCWeekdayOf
    NextHour <- MCNextHour
    NextDay <- MCNextDay
    NextMonth <- MCNextMonth
    LimitOf <- MCLimitOf
    Horizon <- MCHorizon
    Bounds <- MCBounds
    Expressions <- MCExpressions
    \* Two creations at once, and three over all, of three names.
    Accounts = {"a", "b", "c"}
    Creators = {"r", "s"}
    Attempts = 2
    MaxCreates = 3
    \* Two keys added at once to a member that moves the names of its home twice.
    Adders = {"r", "s"}
    Keys = {"k", "l", "t"}
    Theirs = {"t"}
    MaxRenames = 2
    \* Two calls and a start that needs both names, across a removal of the member and a stop.
    SecretNames = {"n", "o"}
    Texts = {"v"}
    Setters = {"c", "d"}
    Readers = {"s"}
    MaxDirs = 2
    MaxCrashes = 1
    \* One Process of an older release and one of this, and a process the member moves.
    Ids = {"i", "j"}
    Old = {"i"}
    Procs = {"p"}
    MaxRestarts = 1
    \* Folders of every kind a declaration may name, and two moves under a start.
    Folders <- MCFolders
    Declared <- MCDeclared
    Max = 2
    MaxSwaps = 2
    \* Two folders deep, one rename under a call, and a way out behind every kind of link.
    TreeDirs = {"r", "a", "b"}
    Root = "r"
    TreeFiles = {"f", "g"}
    Packages = {"g"}
    Outside <- MCOutside
    Leads <- MCLeads
    Trees <- MCTrees
    MaxDepth = 2
    MaxLinks = 1
    \* Three columns a release may lack, and two daemons that open the file at once.
    Columns <- MCColumns
    Daemons = {"d", "e"}
    MaxOpens = 4
    MaxRows = 1
    \* Two runs of a daemon that keeps one copy of its database.
    Bound = {"socket"}
    Proxies = {}
    Addresses = {"a"}
    Conns = {}
    MaxConns = 1
    PerAddress = 0
    Keep = 1
    MaxClock = 2
    MaxRuns = 2
    MaxFaults = 1
    \* Three boots, and two calls of the runtime that fail.
    MaxBoots = 3
    MaxFailures = 2
    \* Two sessions of one member and one of another, on two commits of one Package.
    Builders = {"ann", "bob"}
    Sessions = {"a", "b", "c"}
    UserOf <- MCUserOf
    Org = {"org"}
    Images <- MCImages
    MaxFetchesPerMember = 1
    MaxBuildsPerBuilder = 1
    MaxBuildsPerPath = 2
    MaxBuilt = 2
    MaxGone = 1
    \* Two sessions of one member at once, whose jobs are at their quota with the first.
    Registrars = {1, 2}
    MemberOf <- MCMemberOf
    Kinds <- MCKinds
    Hosts = {"own", "i.ann", "j.ann"}
    NoName = "none"
    Under = {"i.ann", "j.ann"}
    DefaultHost <- MCDefaultHost
    MaxProcesses = 2
    MaxScheduled = 1
    MaxWrites = 2
SPECIFICATION Whole
INVARIANTS FirstTick AccountsStayApart StartsReadWhole RunsOnLegalFolders EachKeepsToItsOwn DatabaseIsKept SomeContainerIsLeft LimitsHold
PROPERTIES RecordsAreTheBuilders
CHECK_DEADLOCK FALSE
