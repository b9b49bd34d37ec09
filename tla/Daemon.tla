------------------------------- MODULE Daemon -------------------------------
(***************************************************************************)
(* kitbashd from its start to its end: cmd/kitbashd/main.go run, the       *)
(* listeners it serves (internal/daemon/daemon.go serve, proxy.go          *)
(* serveProxyListener), the accept loops that bound them (peer.go,         *)
(* budget.go), the backup loop (backup.go) and the closing of it all.      *)
(*                                                                         *)
(* What survives a daemon is the socket file and the directory of the      *)
(* copies: a daemon that was killed leaves both as they were.              *)
(***************************************************************************)
EXTENDS Integers, FiniteSets

CONSTANTS
    Bound,        \* the addresses this host binds: "socket" and others
    Proxies,      \* those of Bound that are the reverse proxy's
    Addresses,    \* the peers a connection comes from
    Conns,        \* the connections of the run
    MaxConns,     \* how many one listener holds at once
    PerAddress,   \* how many of them one peer may hold on the proxy, 0: any
    Keep,         \* BackupKeep
    MaxClock,     \* bound: the moments a copy can be taken at
    MaxRuns,      \* bound: starts of the daemon
    MaxFaults     \* bound: calls of the host that fail

VARIABLES
    main,      \* where run is: off, opened, bound, serving, closing
    runs,      \* starts so far
    socket,    \* the file at the socket's path
    listener,  \* listener[k]: down, bound, up, draining or returned
    asked,     \* the context of the process: a signal, or run's own stop
    cancelled, \* the context of the listeners
    slots,     \* slots[k]: what limit's channel still holds
    held,      \* held[k][a]: what addressCounter counts
    accept,    \* accept[k]: waiting for a slot, or holding one
    conns,     \* the connections: where from, on which listener, how
    backup,    \* where the backup loop is
    copies,    \* copies[t]: the file of moment t
    status,    \* what health says of the copies
    clock, faults

network == <<slots, held, accept, conns>>
process == <<main, runs, socket, listener, asked, cancelled>>
store == <<backup, copies, status>>
vars == <<process, network, store, clock, faults>>

Moments == 0 .. MaxClock
NoCopy == -1
NoLoop == [at |-> "off", copy |-> NoCopy]
Unused == [state |-> "unused"]
Open(k) == {c \in Conns : conns[c].state = "open" /\ conns[c].on = k}

\* A daemon that is not there: nothing bound, every counter as limit makes it.
Nothing ==
    /\ listener = [k \in Bound |-> "down"]
    /\ asked = FALSE
    /\ cancelled = FALSE
    /\ slots = [k \in Bound |-> MaxConns]
    /\ held = [k \in Bound |-> [a \in Addresses |-> 0]]
    /\ accept = [k \in Bound |-> "slot"]
    /\ backup = NoLoop
    /\ status = [last |-> NoCopy, kept |-> 0, failing |-> FALSE]

Init ==
    /\ main = "off"
    /\ runs = 0
    /\ socket \in {"none", "stale", "file"}
    /\ Nothing
    /\ conns = [c \in Conns |-> Unused]
    /\ copies = [t \in Moments |-> "none"]
    /\ clock = 0
    /\ faults = 0

Fault == faults < MaxFaults /\ faults' = faults + 1

Tick ==
    /\ clock < MaxClock
    /\ clock' = clock + 1
    /\ UNCHANGED <<process, network, store, faults>>

-----------------------------------------------------------------------------
\* The start.

\* The settings, the directory of the store, the secrets and the store itself:
\* any of them refuses the start, and nothing is bound then.
Start ==
    /\ main = "off"
    /\ runs < MaxRuns
    /\ runs' = runs + 1
    /\ \/ main' = "opened" /\ UNCHANGED faults
       \/ Fault /\ UNCHANGED main
    /\ UNCHANGED <<socket, listener, asked, cancelled, network,
                   store, clock>>

\* A socket somebody left is removed; anything else at the path is not.
removeStale == socket # "file"

\* Every address is bound before anything is served, as root, and one that
\* cannot be had gives the others back and ends the start. A unix listener that
\* is closed removes its socket.
Bind ==
    /\ main = "opened"
    /\ IF ~removeStale
         THEN /\ main' = "off"
              /\ UNCHANGED <<socket, listener, faults>>
         ELSE \/ /\ main' = "bound"
                 /\ socket' = "ours"
                 /\ listener' = [k \in Bound |-> "bound"]
                 /\ UNCHANGED faults
              \/ /\ Fault
                 /\ main' = "off"
                 /\ socket' = "none"
                 /\ UNCHANGED listener
    /\ UNCHANGED <<runs, asked, cancelled, network, store, clock>>

\* The loops are started, then one goroutine per listener.
Serve ==
    /\ main = "bound"
    /\ main' = "serving"
    /\ backup' = [NoLoop EXCEPT !.at = "waiting"]
    /\ listener' = [k \in Bound |-> "up"]
    /\ UNCHANGED <<runs, socket, asked, cancelled, network, copies,
                   status, clock, faults>>

Signal ==
    /\ main = "serving"
    /\ ~asked
    /\ asked' = TRUE
    /\ cancelled' = TRUE
    /\ UNCHANGED <<main, runs, socket, listener, network, store,
                   clock, faults>>

-----------------------------------------------------------------------------
\* The accept loops.

Capped(k) == k \in Proxies /\ PerAddress > 0
Takes(k, a) == ~Capped(k) \/ held[k][a] < PerAddress
Held(k, a, n) == IF Capped(k) THEN [held EXCEPT ![k][a] = @ + n] ELSE held

\* A mutant: the slot is given back whenever the connection is closed.
GivesBackTwice(c) == conns[c].state \in {"open", "closed"}

\* The slot is given back once, however often the connection is closed.
GivesBack(c) == conns[c].state = "open"

TakeSlot(k) ==
    /\ listener[k] = "up"
    /\ accept[k] = "slot"
    /\ slots[k] > 0
    /\ slots' = [slots EXCEPT ![k] = @ - 1]
    /\ accept' = [accept EXCEPT ![k] = "held"]
    /\ UNCHANGED <<process, held, conns, store, clock, faults>>

\* A connection arrives: it keeps the slot, or it is closed at once when its
\* peer holds its share already, and the slot goes back.
Accept(k, c, a) ==
    /\ listener[k] = "up"
    /\ accept[k] = "held"
    /\ conns[c] = Unused
    /\ accept' = [accept EXCEPT ![k] = "slot"]
    /\ IF Takes(k, a)
         THEN /\ held' = Held(k, a, 1)
              /\ conns' = [conns EXCEPT ![c] = [state |-> "open", on |-> k, from |-> a]]
              /\ UNCHANGED slots
         ELSE /\ slots' = [slots EXCEPT ![k] = @ + 1]
              /\ UNCHANGED <<held, conns>>
    /\ UNCHANGED <<process, store, clock, faults>>

\* The server and the handler may both close one connection.
CloseConn(c) ==
    /\ conns[c].state \in {"open", "closed"}
    /\ LET k == conns[c].on IN
       IF GivesBack(c)
         THEN /\ slots' = [slots EXCEPT ![k] = @ + 1]
              /\ held' = Held(k, conns[c].from, -1)
         ELSE UNCHANGED <<slots, held>>
    /\ conns' = [conns EXCEPT ![c].state = IF @ = "open" THEN "closed" ELSE "twice"]
    /\ UNCHANGED <<accept, process, store, clock, faults>>

-----------------------------------------------------------------------------
\* The end of a listener, and of the daemon.

\* A mutant: the others are not told.
ReturnAlone(k) ==
    /\ listener' = [listener EXCEPT ![k] = "returned"]
    /\ socket' = IF k = "socket" THEN "none" ELSE socket
    /\ UNCHANGED cancelled

\* The goroutine of a listener cancels the others when it returns.
Return(k) ==
    /\ listener' = [listener EXCEPT ![k] = "returned"]
    /\ socket' = IF k = "socket" THEN "none" ELSE socket
    /\ cancelled' = TRUE

\* The accept loop of the host failed: the slot it held goes back.
AcceptFails(k) ==
    /\ listener[k] = "up"
    /\ accept[k] = "held"
    /\ Fault
    /\ slots' = [slots EXCEPT ![k] = @ + 1]
    /\ accept' = [accept EXCEPT ![k] = "slot"]
    /\ Return(k)
    /\ UNCHANGED <<main, runs, asked, held, conns, store, clock>>

\* Shutdown closes the listener, which ends an Accept that holds a slot, and
\* waits for what is in flight.
Drain(k) ==
    /\ listener[k] = "up"
    /\ cancelled
    /\ listener' = [listener EXCEPT ![k] = "draining"]
    /\ slots' = [slots EXCEPT ![k] = IF accept[k] = "held" THEN @ + 1 ELSE @]
    /\ accept' = [accept EXCEPT ![k] = "slot"]
    /\ UNCHANGED <<main, runs, socket, asked, cancelled, held,
                   conns, store, clock, faults>>

\* It returns when nothing is in flight, or when its timeout has passed: then
\* every connection is closed.
Drained(k) ==
    /\ listener[k] = "draining"
    /\ Return(k)
    /\ conns' = [c \in Conns |->
                   IF c \in Open(k) THEN [conns[c] EXCEPT !.state = "closed"] ELSE conns[c]]
    /\ slots' = [slots EXCEPT ![k] = @ + Cardinality(Open(k))]
    /\ held' = [held EXCEPT ![k] = [a \in Addresses |-> 0]]
    /\ UNCHANGED <<main, runs, asked, accept, store, clock, faults>>

\* run has heard of every listener, and its deferred calls run from the last to
\* the first: Server.Close, the stop of the process's context, Store.Close.
Closing ==
    /\ main = "serving"
    /\ \A k \in Bound : listener[k] = "returned"
    /\ main' = "closing"
    /\ asked' = TRUE
    /\ UNCHANGED <<runs, socket, listener, cancelled, network,
                   store, clock, faults>>

\* The process is over, whatever its loops were doing.
Gone ==
    /\ listener' = [k \in Bound |-> "down"]
    /\ asked' = FALSE
    /\ cancelled' = FALSE
    /\ slots' = [k \in Bound |-> MaxConns]
    /\ held' = [k \in Bound |-> [a \in Addresses |-> 0]]
    /\ accept' = [k \in Bound |-> "slot"]
    /\ conns' = [c \in Conns |-> IF conns[c].state \in {"open", "closed"}
                                 THEN [conns[c] EXCEPT !.state = "twice"] ELSE conns[c]]
    /\ backup' = NoLoop
    /\ status' = [last |-> NoCopy, kept |-> 0, failing |-> FALSE]
    /\ main' = "off"
    /\ UNCHANGED <<runs, copies, clock>>

Exit ==
    /\ main = "closing"
    /\ Gone
    /\ UNCHANGED <<socket, faults>>

Crash ==
    /\ main \in {"opened", "bound", "serving", "closing"}
    /\ Fault
    /\ Gone
    /\ socket' = IF socket = "ours" THEN "stale" ELSE socket

-----------------------------------------------------------------------------
\* The backup loop.

\* One copy, named for the second it is taken in: SQLite writes a file of that
\* name, and a file already there is refused.
BeginCopy ==
    /\ backup.at = "waiting"
    /\ ~asked
    /\ IF copies[clock] = "none"
         THEN /\ copies' = [copies EXCEPT ![clock] = "torn"]
              /\ backup' = [at |-> "copying", copy |-> clock]
              /\ UNCHANGED status
         ELSE /\ status' = [status EXCEPT !.failing = TRUE]
              /\ UNCHANGED <<copies, backup>>
    /\ UNCHANGED <<process, network, clock, faults>>

\* The copy is whole, or it is not: the disk is full, or the context of the
\* process is done.
EndCopy ==
    /\ backup.at = "copying"
    /\ \/ /\ copies' = [copies EXCEPT ![backup.copy] = "whole"]
          /\ backup' = [backup EXCEPT !.at = "pruning"]
          /\ UNCHANGED faults
       \/ /\ IF asked THEN UNCHANGED faults ELSE Fault
          /\ backup' = [backup EXCEPT !.at = "removing"]
          /\ UNCHANGED copies
    /\ UNCHANGED <<process, network, status, clock>>

\* What an interrupted copy left is not a database and goes. The loop of a
\* daemon that is stopping ends there.
RemoveTorn ==
    /\ backup.at = "removing"
    /\ copies' = [copies EXCEPT ![backup.copy] = "none"]
    /\ backup' = [backup EXCEPT !.at = IF asked THEN "off" ELSE "waiting"]
    /\ status' = IF asked THEN status ELSE [status EXCEPT !.failing = TRUE]
    /\ UNCHANGED <<process, network, clock, faults>>

Kept == {t \in Moments : copies[t] # "none"}

\* A mutant: the first of the names in order are the ones that stay.
KeepOldest == {t \in Kept : Cardinality({u \in Kept : u < t}) >= Keep}

\* pruneBackups: every file named like a copy counts, the oldest names go.
Oldest == {t \in Kept : Cardinality({u \in Kept : u > t}) >= Keep}

\* A file that cannot be removed is left, and the copy taken still counts.
Prune ==
    /\ backup.at = "pruning"
    /\ \E stuck \in SUBSET Oldest :
         /\ IF stuck = {} THEN UNCHANGED faults ELSE Fault
         /\ copies' = [t \in Moments |->
                          IF t \in Oldest \ stuck THEN "none" ELSE copies[t]]
         /\ status' = [last |-> backup.copy, failing |-> FALSE,
                       kept |-> Cardinality(Kept) - Cardinality(Oldest \ stuck)]
    /\ backup' = [backup EXCEPT !.at = "waiting"]
    /\ UNCHANGED <<process, network, clock>>

-----------------------------------------------------------------------------
Next ==
    \/ Tick \/ Start \/ Bind \/ Serve \/ Signal \/ Closing \/ Exit \/ Crash
    \/ BeginCopy \/ EndCopy \/ RemoveTorn \/ Prune
    \/ \E c \in Conns : CloseConn(c)
    \/ \E k \in Bound :
          \/ TakeSlot(k) \/ AcceptFails(k) \/ Drain(k) \/ Drained(k)
          \/ \E c \in Conns, a \in Addresses : Accept(k, c, a)

\* A goroutine that can run does: Shutdown ends by its timeout.
Fairness ==
    /\ \A k \in Bound : WF_vars(Drain(k)) /\ WF_vars(Drained(k))
    /\ WF_vars(Closing)
    /\ WF_vars(Exit)

Spec == Init /\ [][Next]_vars /\ Fairness

-----------------------------------------------------------------------------
Live == {k \in Bound : listener[k] \in {"up", "draining"}}

\* Of every listener that serves, the slots left, the one its accept loop holds
\* and the open connections are the budget, and what a peer of the proxy is
\* charged is what it has open (peer.go Accept, budget.go Accept and release).
SlotsAreTheConnections ==
    \A k \in Live :
        /\ slots[k] + Cardinality(Open(k)) + (IF accept[k] = "held" THEN 1 ELSE 0) = MaxConns
        /\ Capped(k) => \A a \in Addresses :
              held[k][a] = Cardinality({c \in Open(k) : conns[c].from = a})

\* A daemon that has lost one of its listeners stops, and does not go on
\* serving the others as if nothing had happened (main.go run).
StopsTogether ==
    \A k \in Bound : listener[k] = "returned" ~> main = "off"

\* The copy health calls the last one is on the disk, and whole, for as long as
\* the daemon says so (backup.go Backup, pruneBackups).
LastBackupIsWhole == status.last # NoCopy => copies[status.last] = "whole"

\* A copy that was interrupted is not left for a later count to take for a
\* backup: what the comment of store/backup.go says of it. The loop that removes
\* it is not waited for by the daemon that stops.
InterruptedCopyGoes == main = "off" => \A t \in Moments : copies[t] # "torn"
=============================================================================
