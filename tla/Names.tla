------------------------------- MODULE Names -------------------------------
(***************************************************************************)
(* The names Processes are served under: internal/daemon/hostnames.go, the *)
(* routing table of proxy.go, and the registrations of processes.go that   *)
(* claim names, with the quotas of a member (internal/store).              *)
(*                                                                         *)
(* A registration is checked against the rows and the world, and written   *)
(* in a later transaction; only the counts are inside it.  The table is    *)
(* written by registrations, verbs and unregisters, and is replaced whole  *)
(* by LoadRoutes, which runs beside the listeners at boot.                 *)
(***************************************************************************)
EXTENDS Integers, FiniteSets

CONSTANTS
    Sessions, MemberOf(_),      \* the calls served at once, and whose each is
    Ids, Kinds,                 \* what a registration declares: [host, web, job]
    Names, NoName,
    Under,                      \* the names under the domain of this host
    DefaultHost(_, _),          \* defaultHost: <name>.<member>.<domain>, or NoName
    MaxProcesses, MaxScheduled, \* the quotas of a member
    MaxWrites                   \* rows written

VARIABLES here,    \* the names whose record points at this host
          rows,    \* the registrations
          writes,  \* rows written so far, the order of registered_at
          table,   \* p.routes
          calls,   \* what each session is about
          load     \* LoadRoutes: how far it is, and what it holds

vars == <<here, rows, writes, table, calls, load>>

Members == {MemberOf(s) : s \in Sessions}
Nobody  == "nobody"
NoKind  == [host |-> NoName, web |-> FALSE, job |-> FALSE]
NoRow   == [owner |-> Nobody, kind |-> NoKind, since |-> 0]
Idle    == [at |-> "idle", id |-> Nobody, kind |-> NoKind]
Empty   == [n \in Names |-> Nobody]

\* validateHostname: a name is for what is exposed over HTTP, and no such thing is a job.
ValidHostname(k) == (k.host # NoName => k.web) /\ ~(k.web /\ k.job)

\* The owners a loop finds: an account is looked up on the host, and one that is not found is passed over.
Lookups == SUBSET Members

-----------------------------------------------------------------------------
\* hostFor: the declared name, or the one it has of its owner.
HostFor(i, o, k) ==
    IF ~k.web THEN NoName ELSE IF k.host # NoName THEN k.host ELSE DefaultHost(i, o)

\* heldNames: every name a registration claims.
HeldNames(i) ==
    ({rows[i].kind.host} \cup (IF rows[i].kind.web THEN {DefaultHost(i, rows[i].owner)} ELSE {})) \ {NoName}

Registered(i) == rows[i] # NoRow
Of(m)         == {i \in Ids : Registered(i) /\ rows[i].owner = m}
JobsOf(m)     == {i \in Of(m) : rows[i].kind.job}

\* proveHostname: a derived name is this host's own.
Proved(k) == k.host = NoName \/ k.host \in here

At(s, step) == calls[s].at = step
Go(s, step) == calls' = [calls EXCEPT ![s].at = step]
Done(s)     == calls' = [calls EXCEPT ![s] = Idle]

\* track that leaves the old name.
TrackedBeside(i, n) ==
    [m \in Names |-> IF m = n THEN i ELSE IF n = NoName /\ table[m] = i THEN Nobody ELSE table[m]]

\* dropID, and the write of the name unless there is none.
Tracked(i, n) == [m \in Names |-> IF m = n THEN i ELSE IF table[m] = i THEN Nobody ELSE table[m]]

\* holds: what a gateway is told when it asks whether this host serves a name.
Holds(n) == table[n] # Nobody

\* The lock of the verbs and the unregisters of an id.
Locked(i) == \E s \in Sessions : calls[s].at \in {"route", "untrack"} /\ calls[s].id = i

Init ==
    /\ here \in SUBSET (Names \ Under)
    /\ rows = [i \in Ids |-> NoRow]
    /\ writes = 0
    /\ table = Empty
    /\ calls = [s \in Sessions |-> Idle]
    /\ load = [at |-> "read", list |-> rows, routes |-> Empty]

-----------------------------------------------------------------------------
(* registerProcess.                                                        *)

\* declaredHostname: a name under the domain is nobody's to declare.
Declarable(k) == k.host \notin Under

\* hostConflict: a declared name that another row claims, as the rows are now.
HostConflict(i, k) ==
    k.host # NoName /\ \E j \in Ids \ {i} : Registered(j) /\ k.host \in HeldNames(j)

RegisterCheck(s, i, k) ==
    /\ At(s, "idle")
    /\ ValidHostname(k) /\ Declarable(k) /\ ~HostConflict(i, k)
    /\ calls' = [calls EXCEPT ![s] = [at |-> "prove", id |-> i, kind |-> k]]
    /\ UNCHANGED <<here, rows, writes, table, load>>

RegisterProve(s) ==
    /\ At(s, "prove")
    /\ IF Proved(calls[s].kind) THEN Go(s, "write") ELSE Done(s)
    /\ UNCHANGED <<here, rows, writes, table, load>>

\* RegisterProcess of the store that counts a job wrong.
AllowedOneMore(m, i, k) ==
    /\ rows[i].owner \in {m, Nobody}
    /\ Registered(i) \/ Cardinality(Of(m)) < MaxProcesses
    /\ k.job => Cardinality(JobsOf(m) \ {i}) <= MaxScheduled

\* RegisterProcess of the store: the id is nobody's or the caller's, a new row is within the quota
\* and a new job within that of jobs.
Allowed(m, i, k) ==
    /\ rows[i].owner \in {m, Nobody}
    /\ Registered(i) \/ Cardinality(Of(m)) < MaxProcesses
    /\ k.job => Cardinality(JobsOf(m) \ {i}) < MaxScheduled

RegisterWrite(s) ==
    LET i == calls[s].id
        m == MemberOf(s) IN
    /\ At(s, "write") /\ writes < MaxWrites
    /\ Allowed(m, i, calls[s].kind)
    /\ rows' = [rows EXCEPT ![i] = [owner |-> m, kind |-> calls[s].kind, since |-> writes + 1]]
    /\ writes' = writes + 1
    /\ Go(s, "track")
    /\ UNCHANGED <<here, table, load>>

RegisterRefuse(s) ==
    /\ At(s, "write")
    /\ ~Allowed(MemberOf(s), calls[s].id, calls[s].kind)
    /\ Done(s)
    /\ UNCHANGED <<here, rows, writes, table, load>>

\* trackRouteFor: the name of the row that was written, or none if the owner cannot be looked up.
RegisterTrack(s) ==
    LET i == calls[s].id IN
    /\ At(s, "track")
    /\ \E n \in {HostFor(i, MemberOf(s), calls[s].kind), NoName} : table' = Tracked(i, n)
    /\ Done(s)
    /\ UNCHANGED <<here, rows, writes, load>>

-----------------------------------------------------------------------------
(* The verbs, which read the row before they have the lock, and            *)
(* unregisterProcess, which reads it after.                                *)

VerbAsk(s, i) ==
    /\ At(s, "idle")
    /\ rows[i].owner = MemberOf(s)
    /\ calls' = [calls EXCEPT ![s] = [at |-> "verb", id |-> i, kind |-> rows[i].kind]]
    /\ UNCHANGED <<here, rows, writes, table, load>>

\* startProcess proves the name again, and starts no job.
Start(s) ==
    /\ At(s, "verb") /\ ~Locked(calls[s].id)
    /\ IF ~calls[s].kind.job /\ Proved(calls[s].kind) THEN Go(s, "route") ELSE Done(s)
    /\ UNCHANGED <<here, rows, writes, table, load>>

Stop(s) ==
    /\ At(s, "verb") /\ ~Locked(calls[s].id)
    /\ Go(s, "route")
    /\ UNCHANGED <<here, rows, writes, table, load>>

Remove(s) ==
    /\ At(s, "verb") /\ ~Locked(calls[s].id)
    /\ Go(s, "untrack")
    /\ UNCHANGED <<here, rows, writes, table, load>>

\* trackRoute of what the verb read.
TrackRoute(s) ==
    LET i == calls[s].id IN
    /\ At(s, "route")
    /\ table' = Tracked(i, HostFor(i, MemberOf(s), calls[s].kind))
    /\ Done(s)
    /\ UNCHANGED <<here, rows, writes, load>>

Unregister(s, i) ==
    /\ At(s, "idle") /\ ~Locked(i)
    /\ rows[i].owner = MemberOf(s)
    /\ rows' = [rows EXCEPT ![i] = NoRow]
    /\ calls' = [calls EXCEPT ![s] = [Idle EXCEPT !.at = "untrack", !.id = i]]
    /\ UNCHANGED <<here, writes, table, load>>

Untrack(s) ==
    /\ At(s, "untrack")
    /\ table' = Tracked(calls[s].id, NoName)
    /\ Done(s)
    /\ UNCHANGED <<here, rows, writes, load>>

-----------------------------------------------------------------------------
(* LoadRoutes, which calls are served beside.                              *)

LoadRead ==
    /\ load.at = "read"
    /\ load' = [load EXCEPT !.at = "prove", !.list = rows]
    /\ UNCHANGED <<here, rows, writes, table, calls>>

\* The registrations that are served under a name: it is proved, and the owner is looked up. Of two
\* the list begins with the one registered last, which keeps it.
Claims(n, known) ==
    {i \in Ids : LET p == load.list[i] IN
        p.owner \in known /\ HostFor(i, p.owner, p.kind) = n /\ Proved(p.kind)}

Keeper(claims) ==
    IF claims = {} THEN Nobody
    ELSE CHOOSE i \in claims : \A j \in claims : load.list[j].since <= load.list[i].since

LoadProve ==
    /\ load.at = "prove"
    /\ \E known \in Lookups :
          load' = [load EXCEPT !.at = "replace", !.routes = [n \in Names |-> Keeper(Claims(n, known))]]
    /\ UNCHANGED <<here, rows, writes, table, calls>>

\* reload.
LoadReplace ==
    /\ load.at = "replace"
    /\ table' = load.routes
    /\ load' = [load EXCEPT !.at = "done", !.list = [i \in Ids |-> NoRow], !.routes = Empty]
    /\ UNCHANGED <<here, rows, writes, calls>>

\* The daemon stops and comes back: the rows stay, and the table is empty until it is loaded.
Restart ==
    /\ table' = Empty
    /\ calls' = [s \in Sessions |-> Idle]
    /\ load' = [at |-> "read", list |-> [i \in Ids |-> NoRow], routes |-> Empty]
    /\ UNCHANGED <<here, rows, writes>>

\* The record of a name is pointed here or somewhere else.
Point(n) ==
    /\ here' = (here \ {n}) \cup ({n} \ here)
    /\ UNCHANGED <<rows, writes, table, calls, load>>

Next ==
    \/ \E s \in Sessions, i \in Ids :
          \/ \E k \in Kinds : RegisterCheck(s, i, k)
          \/ VerbAsk(s, i) \/ Unregister(s, i)
    \/ \E s \in Sessions :
          \/ RegisterProve(s) \/ RegisterWrite(s) \/ RegisterRefuse(s) \/ RegisterTrack(s)
          \/ Start(s) \/ Stop(s) \/ Remove(s) \/ TrackRoute(s) \/ Untrack(s)
    \/ LoadRead \/ LoadProve \/ LoadReplace \/ Restart
    \/ \E n \in Names \ Under : Point(n)

Spec == Init /\ [][Next]_vars

-----------------------------------------------------------------------------
(* Properties.                                                             *)

TypeOK ==
    /\ here \subseteq Names
    /\ \A i \in Ids : rows[i] = NoRow \/ /\ rows[i].owner \in Members
                                         /\ rows[i].kind \in Kinds /\ rows[i].since \in 1..writes
    /\ table \in [Names -> Ids \cup {Nobody}]
    /\ \A s \in Sessions : calls[s] = Idle \/ calls[s].id \in Ids
    /\ load.at \in {"read", "prove", "replace", "done"}

\* A member holds no more Processes and jobs than their quotas, however many of their sessions
\* register at once (store RegisterProcess counts inside the transaction).
QuotasHold ==
    \A m \in Members :
       Cardinality(Of(m)) <= MaxProcesses /\ Cardinality(JobsOf(m)) <= MaxScheduled

\* A name under the domain leads to the Process it is derived for and to no other, and a Process is
\* served under one name, whatever registrations, verbs and a boot write the table at once
\* (hostnames.go: under the domain there are derived names and nothing else; proxy.go track).
NamesAreTheirs ==
    \A n, m \in Names :
       Holds(n) =>
          /\ n \in Under => \E s \in Sessions : n = DefaultHost(table[n], MemberOf(s))
          /\ table[n] = table[m] => n = m

\* What proxy.go:1223 says of a name: it is one Process's, two registrations do not declare it.
OneNameOneProcess ==
    \A i, j \in Ids :
       Registered(i) /\ rows[i].kind.host # NoName /\ rows[i].kind.host = rows[j].kind.host => i = j

\* What processes.go:577 says of a name: it is served while its Process is registered and not a
\* moment longer, once the call that unregistered it has answered.
ServedWhileRegistered ==
    \A n \in Names :
       Holds(n) => Registered(table[n]) \/ Locked(table[n])
=============================================================================
