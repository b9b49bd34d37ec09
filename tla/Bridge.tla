------------------------------- MODULE Bridge -------------------------------
(***************************************************************************)
(* The tools of a member's Processes on the surface of one session         *)
(* (internal/bridge/bridge.go, and the handlers of internal/server/        *)
(* families.go that call it): which Process answers a tool name, and the   *)
(* one client session the calls of a Process share.                        *)
(*                                                                         *)
(* The SDK runs every call of a session on a goroutine of its own, and the *)
(* bridge holds its lock for one step at a time: a run is over before its  *)
(* tools are published, and a client session is opened outside the lock.   *)
(***************************************************************************)
EXTENDS Naturals, FiniteSets

CONSTANTS Ids,          \* Processes, each run once
          PackageOf(_),
          NamesOf(_),   \* the surface names of the tools of a Package
          Calls,        \* calls that the member's agent makes at once
          MaxOpens      \* bound: client sessions opened

VARIABLES state,      \* Process -> "new", "running", "stopped"
          published,  \* Process -> the surface names it added
          owners,     \* surface name -> the Process that answers it
          sessions,   \* Process -> its open client session
          open,       \* the client sessions that are open
          opens,      \* how many were opened
          call        \* call -> where it is

vars == <<state, published, owners, sessions, open, opens, call>>

None   == "none"
Idle   == [at |-> "idle"]
Names  == UNION {NamesOf(PackageOf(i)) : i \in Ids}
Nobody == 0

Init ==
    /\ state = [i \in Ids |-> "new"]
    /\ published = [i \in Ids |-> {}]
    /\ owners = [n \in Names |-> None]
    /\ sessions = [i \in Ids |-> Nobody]
    /\ open = {} /\ opens = 0
    /\ call = [c \in Calls |-> Idle]
------------------------------------------------------------------------------
Goes(c, to) == call' = [call EXCEPT ![c] = to]

\* closeSession; remove also gives up the names the Process answers.
Closed(i) == open' = open \ {sessions[i]} /\ sessions' = [sessions EXCEPT ![i] = Nobody]
Freed(i)  == [n \in Names |-> IF owners[n] = i THEN None ELSE owners[n]]

\* The container of the Process runs until another run of its Package replaces it.
Run(c, i) ==
    /\ call[c] = Idle /\ state[i] = "new"
    /\ LET old == {j \in Ids : state[j] = "running" /\ PackageOf(j) = PackageOf(i)}
       IN /\ state' = [j \in Ids |-> IF j = i THEN "running" ELSE IF j \in old THEN "stopped" ELSE state[j]]
          /\ Goes(c, [at |-> "ran", id |-> i, replaced |-> old])
    /\ UNCHANGED <<published, owners, sessions, open, opens>>

\* runHandler: the replaced Process leaves the surface first.
RemoveReplaced(c) ==
    /\ call[c].at = "ran"
    /\ \/ \E j \in call[c].replaced :
            /\ owners' = Freed(j) /\ published' = [published EXCEPT ![j] = {}]
            /\ Closed(j)
       \/ call[c].replaced = {} /\ UNCHANGED <<published, owners, sessions, open>>
    /\ Goes(c, [at |-> "add", id |-> call[c].id])
    /\ UNCHANGED <<state, opens>>

\* Add without the look at who answers a name already.
JoinsAll(i) == NamesOf(PackageOf(i))

\* Add: a name another Process answers does not join the surface.
Joins(i) == {n \in NamesOf(PackageOf(i)) : owners[n] \in {None, i}}

Add(c) ==
    /\ call[c].at = "add"
    /\ LET i == call[c].id
       IN /\ published' = [published EXCEPT ![i] = Joins(i)]
          /\ owners' = [n \in Names |-> IF n \in Joins(i) THEN i ELSE Freed(i)[n]]
          /\ Closed(i)
    /\ Goes(c, Idle)
    /\ UNCHANGED <<state, opens>>

\* A manifest that names a built in family, or whose schemas do not resolve, is refused before the lock.
AddRefused(c) ==
    /\ call[c].at = "add"
    /\ Goes(c, Idle)
    /\ UNCHANGED <<state, published, owners, sessions, open, opens>>

\* stopHandler
Stop(c, i) ==
    /\ call[c] = Idle /\ state[i] = "running"
    /\ state' = [state EXCEPT ![i] = "stopped"]
    /\ Goes(c, [at |-> "stopped", id |-> i])
    /\ UNCHANGED <<published, owners, sessions, open, opens>>

Remove(c) ==
    /\ call[c].at = "stopped"
    /\ LET i == call[c].id
       IN owners' = Freed(i) /\ published' = [published EXCEPT ![i] = {}] /\ Closed(i)
    /\ Goes(c, Idle)
    /\ UNCHANGED <<state, opens>>
------------------------------------------------------------------------------
\* Kits and KitAt: what runs of a Package is found in the list of Processes, on the surface or not.
Kits     == {i \in Ids : state[i] = "running"}
KitAt(p) == {i \in Kits : PackageOf(i) = p}

\* A kit called by another tool: what runs at the path the manifest names, with a session of this bridge.
CallKit(c, p) ==
    /\ call[c] = Idle
    /\ \E i \in KitAt(p) : Goes(c, [at |-> "session", id |-> i])
    /\ UNCHANGED <<state, published, owners, sessions, open, opens>>

\* A call of a tool, by the handler of the Process that answered the name when the call came in.
CallTool(c, n) ==
    /\ call[c] = Idle /\ owners[n] # None
    /\ Goes(c, [at |-> "session", id |-> owners[n]])
    /\ UNCHANGED <<state, published, owners, sessions, open, opens>>

\* session: the open one, or one that is opened outside the lock.
Held(c) ==
    /\ call[c].at = "session" /\ sessions[call[c].id] # Nobody
    /\ Goes(c, [at |-> "calling", id |-> call[c].id, session |-> sessions[call[c].id]])
    /\ UNCHANGED <<state, published, owners, sessions, open, opens>>

Connect(c) ==
    /\ call[c].at = "session" /\ sessions[call[c].id] = Nobody
    /\ state[call[c].id] = "running" /\ opens < MaxOpens
    /\ opens' = opens + 1 /\ open' = open \cup {opens + 1}
    /\ Goes(c, [at |-> "opened", id |-> call[c].id, session |-> opens + 1])
    /\ UNCHANGED <<state, published, owners, sessions>>

\* connectProblem, or an image that has no entrypoint.
ConnectFails(c) ==
    /\ call[c].at = "session" /\ sessions[call[c].id] = Nobody
    /\ Goes(c, Idle)
    /\ UNCHANGED <<state, published, owners, sessions, open, opens>>

\* The session just opened kept, whatever another call opened meanwhile.
KeepMine(i, s) == sessions' = [sessions EXCEPT ![i] = s] /\ open' = open

\* The one another call opened first is kept.
Keep(i, s) ==
    IF sessions[i] = Nobody
    THEN sessions' = [sessions EXCEPT ![i] = s] /\ open' = open
    ELSE sessions' = sessions /\ open' = open \ {s}

Opened(c) ==
    /\ call[c].at = "opened"
    /\ Keep(call[c].id, call[c].session)
    /\ Goes(c, [at |-> "calling", id |-> call[c].id, session |-> sessions'[call[c].id]])
    /\ UNCHANGED <<state, published, owners, opens>>

Answered(c) ==
    /\ call[c].at = "calling" /\ call[c].session \in open /\ state[call[c].id] = "running"
    /\ Goes(c, Idle)
    /\ UNCHANGED <<state, published, owners, sessions, open, opens>>

\* The Package died, its session was closed, or the call was cancelled: the session of the Process is closed.
CallFails(c) ==
    /\ call[c].at = "calling"
    /\ Closed(call[c].id)
    /\ Goes(c, Idle)
    /\ UNCHANGED <<state, published, owners, opens>>

Step(c) ==
    \/ \E i \in Ids : Run(c, i) \/ Stop(c, i)
    \/ RemoveReplaced(c) \/ Add(c) \/ AddRefused(c) \/ Remove(c)
    \/ \E n \in Names : CallTool(c, n)
    \/ \E i \in Ids : CallKit(c, PackageOf(i))
    \/ Held(c) \/ Connect(c) \/ ConnectFails(c) \/ Opened(c) \/ Answered(c) \/ CallFails(c)

Next == \E c \in Calls : Step(c)

Spec == Init /\ [][Next]_vars
------------------------------------------------------------------------------
\* A name on the surface is answered by one Process, the one that published it, whichever order the runs
\* and the stops of several Packages end in (bridge.go Add, remove).
OneAnswersAName ==
    \A i \in Ids, n \in Names : n \in published[i] <=> owners[n] = i

\* No client session is left behind: one that is open is the session of its Process, or that of the call
\* that is opening it (bridge.go session: two calls open one at the same time).
NoSessionIsLost ==
    \A s \in open : (\E i \in Ids : sessions[i] = s) \/ (\E c \in Calls : call[c].at = "opened" /\ call[c].session = s)

\* Once proc_stop, or the run that replaced it, has answered, the tools of a Process are off the surface
\* (families.go proc_stop: "Its tools leave the surface").
StoppedLeavesTheSurface ==
    (\A c \in Calls : call[c] = Idle) => \A i \in Ids : state[i] = "stopped" => published[i] = {}
==============================================================================
