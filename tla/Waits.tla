-------------------------------- MODULE Waits --------------------------------
(***************************************************************************)
(* Six parts of kitbashd in which somebody waits for somebody else: the    *)
(* lock of a Process, the answer of an inspect, the end of a copy, the     *)
(* sweep of the store, the listeners of a daemon that stops, and a job     *)
(* whose tick the host has no room for.                                    *)
(*                                                                         *)
(* They share no state, so one run checks them all: a behaviour is one of  *)
(* a single part, chosen at the start, and the others stand where they     *)
(* begin.  Fairness is that of each module, asked of its own part.         *)
(***************************************************************************)
EXTENDS ActionLock

CONSTANTS
    JobIds, JobOwner(_), Periods, MaxRunning, MaxPerOwner, MaxLate,         \* Scheduler
    Routed, Visitors, Window,                                              \* Routes
    Bound, Proxies, Addresses, Conns, MaxConns, PerAddress, Keep, MaxClock, MaxStarts, MaxFaults,
                                                                           \* Daemon
    Archive, Room, MaxCopyFaults                                           \* Copy

\* Process ids are numbered as they are made, and no expression is due twice at one moment.
ASSUME JobsAssumption ==
    /\ JobIds \subseteq Nat /\ IsFiniteSet(JobIds) /\ Periods \subseteq Nat \ {0}
    /\ MaxRunning \in Nat /\ MaxPerOwner \in Nat
\* maxConns of a listener is a number, and so is ReResolveWindow.
ASSUME BoundsAssumption == IsFiniteSet(Conns) /\ MaxConns \in Nat /\ Window \in Nat

VARIABLES part,
    jobs, running, perOwner, jobRuns, renewed,                     \* Scheduler
    serves, table, verb, answers, reqs, cool,                      \* Routes
    admins, row, record, window, req, page, cause, rate, sweep,    \* Telemetry
    storeClock, storeFaults, changes,
    main, starts, socket, listener, asked, cancelled, slots,       \* Daemon
    perPeer, accept, conns, backup, copies, status, clock, faults,
    at, save, load, writers, readers, pipe, sent, got, hung, late, \* Copy
    image, answer, copyFaults

schedulerVars == <<jobs, running, perOwner, jobRuns, renewed>>
routesVars    == <<serves, table, verb, answers, reqs, cool>>
storeVars     == <<admins, row, record, window, req, page, cause, rate, sweep,
                   storeClock, storeFaults, changes>>
daemonVars    == <<main, starts, socket, listener, asked, cancelled, slots, perPeer, accept,
                   conns, backup, copies, status, clock, faults>>
copyVars      == <<at, save, load, writers, readers, pipe, sent, got, hung, late,
                   image, answer, copyFaults>>
allVars       == <<part, vars, schedulerVars, routesVars, storeVars, daemonVars, copyVars>>

-----------------------------------------------------------------------------
Jobs == INSTANCE Scheduler WITH
    Jobs <- JobIds, Owner <- JobOwner, MaxRuns <- MaxRunning, MaxOwner <- MaxPerOwner, runs <- jobRuns

Routes == INSTANCE Routes WITH Ids <- Routed, Requests <- Visitors, runs <- serves

\* Two tables, windows that are lengthened and shortened, and one failure of the database.
Store == INSTANCE Telemetry WITH
    Members <- {"ann"}, Procs <- {}, Requests <- {}, Signals <- <<"traces", "logs">>,
    Windows <- {1, 2}, Batch <- 1, QueueDepth <- 1, Rate <- 2, RateWindow <- 1, MaxClock <- 3,
    MaxRecords <- 2, MaxFaults <- 1, MaxChanges <- 3, clock <- storeClock, faults <- storeFaults

Daemon == INSTANCE Daemon WITH MaxRuns <- MaxStarts, runs <- starts, held <- perPeer

Copying == INSTANCE Copy WITH Size <- Archive, MaxFaults <- MaxCopyFaults, faults <- copyFaults

-----------------------------------------------------------------------------
Parts == {"lock", "jobs", "routes", "store", "daemon", "copy"}

Begins ==
    /\ part \in Parts
    /\ Init /\ Jobs!Init /\ Routes!Init /\ Store!Init /\ Daemon!Init /\ Copying!Init
    /\ part # "store"  => admins = {} /\ window = [s \in Store!Tables |-> 1]
    /\ part # "daemon" => socket = "none"

Moves ==
    /\ UNCHANGED part
    /\ IF part = "lock"   THEN Next         ELSE UNCHANGED vars
    /\ IF part = "jobs"   THEN Jobs!Next    ELSE UNCHANGED schedulerVars
    /\ IF part = "routes" THEN Routes!Next  ELSE UNCHANGED routesVars
    /\ IF part = "store"  THEN Store!Next   ELSE UNCHANGED storeVars
    /\ IF part = "daemon" THEN Daemon!Next  ELSE UNCHANGED daemonVars
    /\ IF part = "copy"   THEN Copying!Next ELSE UNCHANGED copyVars

AllFairness ==
    /\ Fairness
    /\ Routes!Fairness
    /\ WF_storeVars(part = "store" /\ Store!SweepBegins)
    /\ WF_storeVars(part = "store" /\ Store!SweepBatch)
    /\ Daemon!Fairness
    /\ WF_copyVars(part = "copy" /\ Copying!Kitbashd)
    /\ WF_copyVars(part = "copy" /\ Copying!Saving)
    /\ WF_copyVars(part = "copy" /\ Copying!Loading)

Whole == Begins /\ [][Moves]_allVars /\ AllFairness

-----------------------------------------------------------------------------
\* The slots of the scheduler are the runs under way, no marker is left behind, and that of a job which
\* is not registered anew beside its run says whether it runs (scheduler.track and finished); the slots
\* of a listener are its connections (budget.go).
SlotsAreTrue ==
    /\ Jobs!SlotsAreTheRuns /\ Jobs!Ceilings /\ Jobs!MarkersAreTrue
    /\ Daemon!SlotsAreTheConnections

\* What the host does for many is shared: a tick is passed over only for what was due before it
\* (scheduler.due), and requests that fail together ask the runtime once (reResolver.resolve).
HostIsShared == Jobs!SkippedForWhatWasDueBefore /\ Routes!OneInspectPerWindow

\* Nobody waits for an answer that does not come: neither a request that shares the inspect of
\* another one (reResolver.resolve), nor a copy whose two ends are alive (pipeline).
NobodyWaitsForEver ==
    /\ Routes!EveryWaiterIsAnswered
    /\ part = "copy" => Copying!OnlyAHangNeedsTheBudget

\* A record outlives its window only until a sweep that works (Store.Sweep, SweepLoop), a daemon
\* that has lost one of its listeners stops as a whole (run of kitbashd), and an image that loads
\* is the image that was saved (pipeline).
WorkIsFinished ==
    /\ Store!RetentionIsEnforced
    /\ Daemon!StopsTogether
    /\ [](part = "copy" => Copying!CopiedIsWhole)
-----------------------------------------------------------------------------
\* The values of Waits.cfg: three jobs of two members.
MCJobOwner(j) == IF j <= 2 THEN "ann" ELSE "bob"
=============================================================================
