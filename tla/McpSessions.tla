---------------------------- MODULE McpSessions ----------------------------
(***************************************************************************)
(* The MCP sessions a Process holds open (internal/daemon/mcp.go): a slot  *)
(* and a caller credential of the registry, a kitbash-mcp child, and the   *)
(* requests that use the session.  Five goroutines may end one session:    *)
(* the request that opened it, a DELETE, the idle sweep, whoever revokes   *)
(* its token, and the one that waits for the child.                        *)
(*                                                                         *)
(* A step is what is done under one hold of a mutex, or one call of the    *)
(* child.  A session is named after the request that opens it.             *)
(***************************************************************************)
EXTENDS Integers, FiniteSets

CONSTANTS Processes,
          Sessions,      \* requests that open a session, each once
          Calls,         \* later requests, each once: after them the client is quiet
          MaxSessions,   \* MaxMCPSessions
          NoProcess, NoSession

ASSUME RequestsAssumption == IsFiniteSet(Sessions) /\ IsFiniteSet(Calls)
ASSUME NothingAssumption == NoProcess \notin Processes /\ NoSession \notin Sessions
ASSUME MaxAssumption == MaxSessions \in Nat \ {0}

VARIABLES ses,        \* the fields of a session, and how far its opening request is
          ending,     \* how far its end is, and what end read under the mutex
          child,      \* its kitbash-mcp
          slots,      \* byProcess, as the set of sessions in it
          byID,       \* the sessions a request can name
          cred,       \* its entry of byCredential
          swept,      \* the sessions the idle sweep found idle and is to end
          call,       \* the later requests
          registered  \* the Processes whose token is accepted

registry == <<slots, byID, cred>>
vars     == <<ses, ending, child, slots, byID, cred, swept, call, registered>>

-----------------------------------------------------------------------------
NewSession == [at |-> "idle", process |-> NoProcess, cancel |-> FALSE, client |-> FALSE,
               id |-> FALSE, holds |-> 0]
NotEnding  == [at |-> "no", client |-> FALSE, cancel |-> FALSE]
NewCall    == [at |-> "idle", ses |-> NoSession, method |-> "POST", after |-> FALSE]

Ended(s)     == ending[s].at # "no"
Of(p)        == {s \in slots : ses[s].process = p}
Cancelled(s) == ending[s].at = "closed" /\ ending[s].cancel
At(s, step)  == ses[s].at = step
Goto(s, step) == ses' = [ses EXCEPT ![s].at = step]

Init ==
    /\ ses = [s \in Sessions |-> NewSession]
    /\ ending = [s \in Sessions |-> NotEnding]
    /\ child = [s \in Sessions |-> "none"]
    /\ slots = {} /\ byID = {}
    /\ cred = [s \in Sessions |-> "none"]
    /\ swept = {}
    /\ call = [c \in Calls |-> NewCall]
    /\ registered = Processes

-----------------------------------------------------------------------------
(* end and drop, and the teardown of the child that goes on beside them.   *)

\* What end reads under the mutex: what the opening has written by now.
ReadOnce(s) == ending' = [ending EXCEPT ![s] = [at |-> "ended", client |-> ses[s].client,
                                                cancel |-> ses[s].cancel]]

\* A drop that forgets the credential with the session.
DropAll(s) ==
    /\ slots' = slots \ {s}
    /\ byID' = IF ses[s].id THEN byID \ {s} ELSE byID
    /\ cred' = [cred EXCEPT ![s] = "none"]

\* registry.drop: the slot goes back and the credential starts its grace.
Drop(s) ==
    /\ slots' = slots \ {s}
    /\ byID' = IF ses[s].id THEN byID \ {s} ELSE byID
    /\ cred' = [cred EXCEPT ![s] = IF @ = "open" THEN "grace" ELSE @]

\* The second of two ends does nothing, that of a sweep that has looked at it already included.
End(s) ==
    IF Ended(s) THEN UNCHANGED <<ending, registry, swept>>
    ELSE ReadOnce(s) /\ Drop(s) /\ swept' = swept \ {s}

NoEnd == UNCHANGED <<ending, registry, swept>>

\* A teardown that leaves the context of the command alone.
CloseClient(s) ==
    /\ ending[s].at = "ended"
    /\ ending' = [ending EXCEPT ![s].at = "closed"]
    /\ child' = IF ending[s].client /\ child[s] = "running"
                THEN [child EXCEPT ![s] = "gone"] ELSE child
    /\ UNCHANGED <<ses, registry, swept, call, registered>>

\* The teardown goroutine: either of the two that end read takes the child away.
CloseChild(s) ==
    /\ ending[s].at = "ended"
    /\ ending' = [ending EXCEPT ![s].at = "closed"]
    /\ child' = IF (ending[s].client \/ ending[s].cancel) /\ child[s] = "running"
                THEN [child EXCEPT ![s] = "gone"] ELSE child
    /\ UNCHANGED <<ses, registry, swept, call, registered>>

-----------------------------------------------------------------------------
(* serveMCP without a session id, and openMCPSession.                      *)

\* tokenIdentity. The owner is looked up next, and may be gone.
OpenAsk(s, p) ==
    /\ At(s, "idle")
    /\ p \in registered
    /\ ses' = [ses EXCEPT ![s].at = "asked", ![s].process = p]
    /\ UNCHANGED <<ending, child, registry, swept, call, registered>>

\* An add that counts the sessions the cap is compared with one too low.
AddOneMore(s) ==
    /\ At(s, "asked")
    /\ IF Cardinality(Of(ses[s].process)) > MaxSessions
       THEN Goto(s, "over") /\ UNCHANGED registry
       ELSE /\ slots' = slots \cup {s}
            /\ cred' = [cred EXCEPT ![s] = "open"]
            /\ Goto(s, "added")
            /\ UNCHANGED byID
    /\ UNCHANGED <<ending, child, swept, call, registered>>

\* registry.add: "the slot is taken before the child starts".
Add(s) ==
    /\ At(s, "asked")
    /\ IF Cardinality(Of(ses[s].process)) >= MaxSessions
       THEN Goto(s, "over") /\ UNCHANGED registry
       ELSE /\ slots' = slots \cup {s}
            /\ cred' = [cred EXCEPT ![s] = "open"]
            /\ Goto(s, "added")
            /\ UNCHANGED byID
    /\ UNCHANGED <<ending, child, swept, call, registered>>

SetCancel(s) ==
    /\ At(s, "added")
    /\ ses' = [ses EXCEPT ![s].at = "starting", ![s].cancel = TRUE]
    /\ UNCHANGED <<ending, child, registry, swept, call, registered>>

\* Connect starts the command, which does not start under a context that is over.
StartChild(s) ==
    /\ At(s, "starting") /\ ~Cancelled(s)
    /\ child' = [child EXCEPT ![s] = "running"]
    /\ Goto(s, "connecting")
    /\ UNCHANGED <<ending, registry, swept, call, registered>>

\* MCPCommand, the start or the handshake fails. Connect closes what it started.
ConnectFails(s) ==
    /\ ses[s].at \in {"starting", "connecting"}
    /\ child' = IF At(s, "connecting") THEN [child EXCEPT ![s] = "gone"] ELSE child
    /\ End(s)
    /\ Goto(s, "over")
    /\ UNCHANGED <<call, registered>>

\* client and server are set under the mutex once the handshake is over.
Connected(s) ==
    /\ At(s, "connecting") /\ child[s] = "running"
    /\ ses' = [ses EXCEPT ![s].at = "syncing", ![s].client = TRUE]
    /\ UNCHANGED <<ending, child, registry, swept, call, registered>>

\* sync lists the tools of the child. The goroutine that waits for the child starts after it.
Sync(s) ==
    /\ At(s, "syncing")
    /\ \/ child[s] = "running" /\ Goto(s, "holding") /\ NoEnd
       \/ Goto(s, "over") /\ End(s)
    /\ UNCHANGED <<child, call, registered>>

\* hold. A request that is work counts as in flight until it is answered.
Hold(s) ==
    /\ At(s, "holding")
    /\ ses' = [ses EXCEPT ![s].at = "serving", ![s].holds = @ + 1]
    /\ UNCHANGED <<ending, child, registry, swept, call, registered>>

\* GetSessionID: the id is the session's first, and the registry's next.
Name(s) ==
    /\ At(s, "serving")
    /\ ses' = [ses EXCEPT ![s].at = "naming", ![s].id = TRUE]
    /\ UNCHANGED <<ending, child, registry, swept, call, registered>>

Index(s) ==
    /\ At(s, "naming")
    /\ byID' = byID \cup {s}
    /\ Goto(s, "named")
    /\ UNCHANGED <<ending, child, slots, cred, swept, call, registered>>

\* The opening request is answered: a release of every hold there is,
AnswerAll(s) ==
    /\ ses[s].at \in {"serving", "named"}
    /\ ses' = [ses EXCEPT ![s].at = "over", ![s].holds = 0]
    /\ IF ses[s].id THEN NoEnd ELSE End(s)
    /\ UNCHANGED <<child, call, registered>>

\* one that is skipped,
AnswerKeeps(s) ==
    /\ ses[s].at \in {"serving", "named"}
    /\ ses' = [ses EXCEPT ![s].at = "over"]
    /\ IF ses[s].id THEN NoEnd ELSE End(s)
    /\ UNCHANGED <<child, call, registered>>

\* and its own. A session nothing can name again is ended.
Answer(s) ==
    /\ ses[s].at \in {"serving", "named"}
    /\ ses' = [ses EXCEPT ![s].at = "over", ![s].holds = @ - 1]
    /\ IF ses[s].id THEN NoEnd ELSE End(s)
    /\ UNCHANGED <<child, call, registered>>

-----------------------------------------------------------------------------
(* serveMCP with a session id.                                             *)

\* The session must be the registry's and the token that of its Process. A GET waits and is not
\* work, a POST and a DELETE are.
CallGet(c, s, m) ==
    /\ call[c].at = "idle"
    /\ s \in byID /\ ses[s].process \in registered
    /\ call' = [call EXCEPT ![c] = [at |-> "got", ses |-> s, method |-> m, after |-> FALSE]]
    /\ UNCHANGED <<ses, ending, child, registry, swept, registered>>

Work(c) == IF call[c].method = "GET" THEN 0 ELSE 1

CallHold(c) ==
    LET s == call[c].ses IN
    /\ call[c].at = "got"
    /\ ses' = [ses EXCEPT ![s].holds = @ + Work(c)]
    /\ call' = [call EXCEPT ![c].at = "served", ![c].after = s \in swept]
    /\ UNCHANGED <<ending, child, registry, swept, registered>>

CallAnswer(c) ==
    LET s == call[c].ses IN
    /\ call[c].at = "served"
    /\ ses' = [ses EXCEPT ![s].holds = @ - Work(c)]
    /\ call' = [call EXCEPT ![c] = [NewCall EXCEPT !.at = "over"]]
    /\ IF call[c].method = "DELETE" THEN End(s) ELSE NoEnd
    /\ UNCHANGED <<child, registered>>

-----------------------------------------------------------------------------
(* What else ends a session.                                               *)

\* child.Wait returns, in the goroutine of a session that was opened.
ChildWaited(s) ==
    /\ ses[s].at \in {"holding", "serving", "naming", "named", "over"}
    /\ ses[s].client /\ child[s] = "gone" /\ ~Ended(s)
    /\ End(s)
    /\ UNCHANGED <<ses, child, call, registered>>

ChildExits(s) ==
    /\ child[s] = "running"
    /\ child' = [child EXCEPT ![s] = "gone"]
    /\ UNCHANGED <<ses, ending, registry, swept, call, registered>>

\* An unregister, a removal, a boot that drops the row or a stop of the receiver: the token is no
\* longer accepted,
Revoke(p) ==
    /\ p \in registered
    /\ registered' = registered \ {p}
    /\ UNCHANGED <<ses, ending, child, registry, swept, call>>

\* and endMCPSessions ends, one by one, the sessions it read out of the registry. One that was
\* added after that read may be left to the sweep.
EndRevoked(s) ==
    /\ s \in slots /\ ~Ended(s)
    /\ ses[s].process \notin registered
    /\ End(s)
    /\ UNCHANGED <<ses, child, call, registered>>

\* sweepMCPSessions, once MCPIdle has passed since a request arrived or was answered: idle reads
\* the session under its mutex, and end takes the mutex again. (An opening may take that long in a
\* call of the child, and not between the two statements that add it and set its cancel.)
SweepLook(s) ==
    /\ s \in slots \ swept /\ ~At(s, "added")
    /\ ses[s].holds = 0
    /\ swept' = swept \cup {s}
    /\ UNCHANGED <<ses, ending, child, registry, call, registered>>

SweepEnd(s) ==
    /\ s \in swept
    /\ End(s)
    /\ UNCHANGED <<ses, child, call, registered>>

\* caller refuses the credential, and expire forgets it.
GraceOver(s) ==
    /\ cred[s] = "grace"
    /\ cred' = [cred EXCEPT ![s] = "over"]
    /\ UNCHANGED <<ses, ending, child, slots, byID, swept, call, registered>>

-----------------------------------------------------------------------------
Opening(s) == Add(s) \/ SetCancel(s) \/ StartChild(s) \/ ConnectFails(s) \/ Connected(s)
                \/ Sync(s) \/ Hold(s) \/ Name(s) \/ Index(s) \/ Answer(s)
Sweep(s)   == SweepLook(s) \/ SweepEnd(s)
Serving(c) == CallHold(c) \/ CallAnswer(c)

Next ==
    \/ \E s \in Sessions, p \in Processes : OpenAsk(s, p)
    \/ \E c \in Calls, s \in Sessions, m \in {"POST", "GET", "DELETE"} : CallGet(c, s, m)
    \/ \E s \in Sessions : \/ Opening(s) \/ CloseChild(s) \/ Sweep(s) \/ EndRevoked(s)
                           \/ ChildWaited(s) \/ ChildExits(s) \/ GraceOver(s)
    \/ \E c \in Calls : Serving(c)
    \/ \E p \in Processes : Revoke(p)

\* Goroutines go on, time passes, the sweep ticks and a request is answered. An event stream may
\* be listened to for as long as its session lives.
Listening(c) == call[c].at = "served" /\ call[c].method = "GET" /\ ~Ended(call[c].ses)
Fairness ==
    /\ \A s \in Sessions : /\ WF_vars(Opening(s)) /\ WF_vars(CloseChild(s)) /\ WF_vars(ChildWaited(s))
                           /\ WF_vars(Sweep(s))
    /\ \A c \in Calls : WF_vars(CallHold(c) \/ (CallAnswer(c) /\ ~Listening(c)))

Spec == Init /\ [][Next]_vars /\ Fairness

-----------------------------------------------------------------------------
Openings == {"idle", "asked", "added", "starting", "connecting", "syncing", "holding", "serving",
             "naming", "named", "over"}

\* Every variable keeps its type; the sessions in a slot are those whose credential has no end set.
TypeOK ==
    /\ ses \in [Sessions -> [at : Openings, process : Processes \cup {NoProcess},
                             cancel : BOOLEAN, client : BOOLEAN, id : BOOLEAN,
                             holds : 0..(Cardinality(Calls) + 1)]]
    /\ ending \in [Sessions -> [at : {"no", "ended", "closed"}, client : BOOLEAN,
                                cancel : BOOLEAN]]
    /\ child \in [Sessions -> {"none", "running", "gone"}]
    /\ slots = {s \in Sessions : cred[s] = "open"}
    /\ byID \subseteq Sessions
    /\ cred \in [Sessions -> {"none", "open", "grace", "over"}]
    /\ swept \subseteq Sessions
    /\ call \in [Calls -> [at : {"idle", "got", "served", "over"},
                           ses : Sessions \cup {NoSession},
                           method : {"POST", "GET", "DELETE"}, after : BOOLEAN]]
    /\ registered \subseteq Processes

\* "Eight requests arriving at once cannot start nine kitbash-mcp between them": whatever is being
\* opened and ended at the same time, the sessions of a Process that have not ended never have
\* more children than the cap.
CapHolds ==
    \A p \in Processes :
        Cardinality({s \in Sessions : /\ ses[s].process = p /\ ~Ended(s)
                                      /\ child[s] = "running"}) <= MaxSessions

\* The records of a child are never refused for want of its credential: it is accepted from before
\* the child starts until the session has ended and the grace has passed.
CredentialResolves ==
    \A s \in Sessions : child[s] = "running" =>
        cred[s] = "open" \/ (Ended(s) /\ cred[s] # "none")

\* "A call that takes a while is not idle": the sweep ends no session under a later call
\* that was in flight when it looked.
InFlight(s) == \E c \in Calls : /\ call[c].ses = s /\ call[c].at = "served"
                                /\ Work(c) = 1 /\ ~call[c].after
SweepSparesWork == [][\A s \in Sessions : s \in swept /\ s \notin swept' => ~InFlight(s)]_vars

\* A session whose client has gone quiet gives its slot back, an event stream open on it or not:
\* no path through the opening, the calls and the ends leaves a slot taken for ever.
QuietSessionsEnd == \A s \in Sessions : s \in slots ~> s \notin slots

\* "No session ever leaves a kitbash-mcp behind", for a session that ended once there was a context
\* to cancel, however far its opening was: after the teardown no child runs, or is started.
ChildrenGo == \A s \in Sessions : Cancelled(s) => child[s] # "running"

\* Every child that runs has a credential to export with and a session that can still end it
\* (mcp.go caller, end).
ChildrenAreOwned == CredentialResolves /\ ChildrenGo

-----------------------------------------------------------------------------
(* The inductive invariant behind the safety properties.                   *)

\* The fields have their types; how many holds there can be follows from HoldsAreWork.
FieldsOK ==
    /\ ses \in [Sessions -> [at : Openings, process : Processes \cup {NoProcess},
                             cancel : BOOLEAN, client : BOOLEAN, id : BOOLEAN, holds : Int]]
    /\ ending \in [Sessions -> [at : {"no", "ended", "closed"}, client : BOOLEAN,
                                cancel : BOOLEAN]]
    /\ child \in [Sessions -> {"none", "running", "gone"}]
    /\ slots \subseteq Sessions /\ byID \subseteq Sessions /\ swept \subseteq slots
    /\ cred \in [Sessions -> {"none", "open", "grace", "over"}]
    /\ call \in [Calls -> [at : {"idle", "got", "served", "over"},
                           ses : Sessions \cup {NoSession},
                           method : {"POST", "GET", "DELETE"}, after : BOOLEAN]]
    /\ registered \subseteq Processes

\* A credential is made with its slot, before there is a child, and turns when the session ends.
Unadded(s) == ses[s].at \in {"idle", "asked"}
CredentialAge ==
    \A s \in Sessions :
        /\ s \in slots <=> cred[s] = "open"
        /\ cred[s] = "open" => ~Ended(s)
        /\ cred[s] \in {"grace", "over"} => Ended(s)
        /\ Unadded(s) => cred[s] = "none"
        /\ ses[s].at # "over" /\ ~Unadded(s) => cred[s] # "none"
        /\ child[s] # "none" \/ s \in byID \/ Ended(s) => cred[s] # "none"

\* A request that has found its session works on one that was added.
CallsFound == \A c \in Calls : call[c].at \in {"got", "served"}
                => call[c].ses \in Sessions /\ cred[call[c].ses] # "none"

\* A session is held once by each request at work on it.
Own(s)   == IF ses[s].at \in {"serving", "naming", "named"} THEN 1 ELSE 0
Users(s) == {c \in Calls : call[c].at = "served" /\ call[c].ses = s /\ Work(c) = 1}
HoldsAreWork == \A s \in Sessions : ses[s].holds = Own(s) + Cardinality(Users(s))

\* What is to be swept has nobody at work on it but those that came after the sweep looked.
SweptIsIdle == \A s \in swept : ~InFlight(s)

SlotsCapped == \A p \in Processes : Cardinality(Of(p)) <= MaxSessions

IInv == FieldsOK /\ CredentialAge /\ CallsFound /\ HoldsAreWork /\ SweptIsIdle /\ SlotsCapped
          /\ ChildrenGo

-----------------------------------------------------------------------------
(* What the code's comments say and the code does not do.                  *)

\* "Ending it closes the client, which closes the child's stdin and then signals it, so no session
\* ever leaves a kitbash-mcp behind." (mcp.go) The same of every session.
NoChildLeftBehind == \A s \in Sessions : ending[s].at = "closed" => child[s] # "running"
=============================================================================
