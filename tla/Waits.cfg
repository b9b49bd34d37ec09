\* Three callers are the fewest with one holding, one waiting and one that finds the entry dropped.
CONSTANTS
    Callers = {c1, c2, c3}
    Keys    = {k1, k2}
    Locks   = {l1, l2, l3}
    NoKey   = NoKey
    NoLock  = NoLock
    \* Three jobs of two members on a host that runs three at once and two of a member.
    JobIds = {1, 2, 3}
    JobOwner <- MCJobOwner
    Periods = {1, 2}
    MaxRunning = 3
    MaxPerOwner = 2
    MaxLate = 1
    \* One Process, and two requests that its port refuses at once.
    Routed = {"p"}
    Visitors = {"a", "b"}
    Window = 2
    \* The socket and the proxy, with one connection, over two starts.
    Bound = {"socket", "proxy"}
    Proxies = {"proxy"}
    Addresses = {"a"}
    Conns = {"c"}
    MaxConns = 1
    PerAddress = 1
    Keep = 1
    MaxClock = 1
    MaxStarts = 2
    MaxFaults = 1
    \* An archive of three pieces through a pipe of two.
    Archive = 3
    Room = 2
    MaxCopyFaults = 2
SPECIFICATION Whole
INVARIANTS SlotsAreTrue
PROPERTIES ImplementsKeyedMutex EveryCallerIsServed HostIsShared NobodyWaitsForEver WorkIsFinished
CHECK_DEADLOCK FALSE
