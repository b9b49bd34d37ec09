\* A queue of one request and two records, so both limits evict. One export that nothing caused fills
\* it while others come of its deliveries, over the receiver and as a member; one change meets a
\* producer with an older snapshot.
CONSTANTS
    k1 = k1
    k2 = k2
    Kits       = {k1, k2}
    Members      = {"ann", "root"}
    Causes     = {"ann"}
    Objects    = {1, 2, 3}
    Registers  <- MCRegisters
    Booted     <- MCBooted
    QueueDepth = 1
    QueueBytes = 2
    Starters   = {"session", k2}
    Movers     = {k1}
    Talkers    = {k1}
    MaxExports = 1
    MaxChanges = 1
    None    = None
CHECK_DEADLOCK FALSE
SPECIFICATION Whole
INVARIANTS QueuesAreTrue SaidIsMeant
PROPERTIES DeliveriesEnd
