-------------------------- MODULE Processes_proofs --------------------------
(***************************************************************************)
(* What holds of a Process for any ids, sessions, ticks, probes, tokens    *)
(* and stops of the daemon: a token on disk is that of the start that has  *)
(* the lock, and a late run stays its own.  With one session at a time, no *)
(* table keeps what is not registered.                                     *)
(***************************************************************************)
EXTENDS Processes, TLAPS

\* The rows and the goroutines.
RowRec == [kind : {"none", "service", "job"}, decl : Nat, tok : Nat]
ThRec  == [at : {"idle", "registering", "tracking", "waiting", "start", "stop", "remove", "unregister", "tick",
                 "writing", "creating", "starting", "checking", "routing", "naming", "unrouting", "untracking",
                 "minting", "going", "revoking", "rereading"},
           op : {"none", "register", "start", "stop", "remove", "unregister", "tick", "reroute"},
           id : Ids \cup {NoId}, row : RowRec, tok : Nat, live : BOOLEAN]

\* Where a goroutine is in what it does.
InPlace(x) ==
    \/ x.op = "none" /\ x = Idle
    \/ /\ x.id \in Ids
       /\ \/ x.op = "register" /\ x.at \in {"registering", "tracking", "routing", "naming"}
          \/ x.op = "start" /\ x.at \in {"waiting", "start", "writing", "creating", "starting", "checking",
                                         "routing", "naming"}
          \/ x.op = "stop" /\ x.at \in {"waiting", "stop", "routing", "naming"}
          \/ x.op = "remove" /\ x.at \in {"waiting", "remove", "unrouting"}
          \/ x.op = "unregister" /\ x.at \in {"waiting", "unregister", "untracking"}
          \/ x.op = "tick" /\ x.at \in {"waiting", "tick", "minting", "writing", "creating", "starting",
                                        "going", "revoking"}
          \/ x.op = "reroute" /\ x.at \in {"rereading", "routing", "naming"}

\* The type invariant.
Typed ==
    /\ row \in [Ids -> RowRec] /\ listed \in [Ids -> RowRec]
    /\ env \in [Ids -> Nat] /\ minted \in Nat
    /\ holder \in [Ids -> Threads \cup {Nobody}]
    /\ jobs \in [Ids -> {"none", "idle", "running"}]
    /\ th \in [Threads -> ThRec]
    /\ \A t \in Threads : InPlace(th[t])

\* Who has got past the lock and has not returned it.
Locked(x) ==
    \/ x.op \in {"start", "stop", "remove", "unregister"} /\ x.at # "waiting"
    \/ x.op = "tick" /\ x.at \in {"tick", "minting", "writing", "creating", "starting"}
LocksAreHeld == \A t \in Threads : Locked(th[t]) => holder[th[t].id] = t

\* A file that is there is that of a goroutine between its write and its removal.
OfFile(x, p) ==
    /\ x.id = p /\ x.tok = env[p]
    /\ \/ x.op \in {"start", "tick"} /\ x.at \in {"creating", "starting"}
       \/ x.op = "start" /\ x.at \in {"checking", "routing", "naming"}
FilesAreOwned ==
    boot \notin {"down", "sweeping"} => \A p \in Ids : env[p] # 0 => \E t \in Threads : OfFile(th[t], p)

\* A row that is there is of a kind, and a run past its read finds the row of its id.
Real(r) == r.kind # "none" \/ r = NoRow
RowsAreReal ==
    /\ \A p \in Ids : Real(row[p]) /\ Real(listed[p])
    /\ \A t \in Threads : th[t].op \in {"start", "stop", "register"} => th[t].row.kind # "none"
RunsHaveRows ==
    \A t \in Threads : th[t].op = "tick" =>
        /\ boot \in {"probing", "up"}
        /\ th[t].at \in {"minting", "writing", "creating", "starting"} => row[th[t].id] # NoRow

\* While no session has been served by a daemon that was booting: what the boot has read is still registered, and
\* so is what a call past its registration or before its removal is about.
Calling(x) == x.op \in {"register", "start", "stop", "remove", "unregister"}
\* What such a call is about is registered.
Registered(x) == \/ x.op \in {"start", "stop", "remove"}
                 \/ x.op = "register" /\ x.at # "registering"
CallsAreServed ==
    ~raced =>
        /\ boot # "up" => \A t \in Threads : ~Calling(th[t])
        /\ boot = "up" => \A p \in Ids : listed[p] = NoRow
        /\ \A p \in Ids : listed[p] # NoRow => row[p] # NoRow
        /\ \A t \in Threads : Registered(th[t]) => row[th[t].id] # NoRow
\* A session calls, and the scheduler ticks.
Callers == \A t \in Threads : /\ Calling(th[t]) => t \in Sessions
                              /\ th[t].op = "tick" => t \in Ticks

\* What is not registered is forgotten, up to the last step of the call that removed it; at rest nothing is kept.
Untracking(p) == \E t \in Threads : th[t].id = p /\ th[t].at = "untracking"
NothingIsKept ==
    boot = "down" => /\ \A p \in Ids : IsForgotten(p)
                     /\ \A t \in Threads : th[t].op = "none"
Forgotten ==
    ~raced /\ boot # "down" => \A p \in Ids : row[p] = NoRow => IsForgotten(p) \/ Untracking(p)

\* What holds for any number of sessions, and what one session at a time adds.
ProcInv == Typed /\ LocksAreHeld /\ FilesAreOwned /\ RowsAreReal /\ RunsHaveRows
TableInv == CallsAreServed /\ Callers /\ NothingIsKept /\ Forgotten

-----------------------------------------------------------------------------
\* What a step of one goroutine to another place does, and what its end does.
Steps(t, s) ==
    /\ th' \in [Threads -> ThRec]
    /\ \A u \in Threads : u # t => th'[u] = th[u]
    /\ th'[t].at = s /\ th'[t].op = th[t].op /\ th'[t].id = th[t].id
Leaves(t) ==
    /\ th' \in [Threads -> ThRec]
    /\ \A u \in Threads : u # t => th'[u] = th[u]
    /\ th'[t] = Idle
    /\ holder' \in [Ids -> Threads \cup {Nobody}]
    /\ \A p \in Ids : holder[p] # t => holder'[p] = holder[p]
    /\ \A p \in Ids : holder'[p] = holder[p] \/ (holder[p] = t /\ holder'[p] = Nobody)

\* Past the read of its registration and not yet at its entrypoint.
Armed(x) == x.op = "tick" /\ x.at \in {"minting", "writing", "creating", "starting"}

\* The places.
Ats == {"idle", "registering", "tracking", "waiting", "start", "stop", "remove", "unregister", "tick",
        "writing", "creating", "starting", "checking", "routing", "naming", "unrouting", "untracking",
        "minting", "going", "revoking", "rereading"}

\* A goroutine that has nothing to do.
LEMMA IdleFacts ==
    /\ Idle \in ThRec /\ Idle.at = "idle" /\ Idle.op = "none" /\ Idle.id = NoId /\ NoRow \in RowRec
    /\ NoRow.kind = "none" /\ NoRow.tok = 0 /\ InPlace(Idle)
    BY DEF Idle, NoRow, ThRec, RowRec, InPlace

\* What Goto and Leave do, of all that th may hold.
LEMMA GotoSteps ==
    ASSUME Typed, NEW t \in Threads, NEW s \in Ats, Goto(t, s)
    PROVE  Steps(t, s) /\ th'[t].row = th[t].row /\ th'[t].tok = th[t].tok
<1> DEFINE n == [th[t] EXCEPT !.at = s]
<1>1. th[t] \in ThRec
    BY DEF Typed
<1>2. /\ n \in ThRec /\ n.at = s /\ n.op = th[t].op /\ n.id = th[t].id
      /\ n.row = th[t].row /\ n.tok = th[t].tok
    BY <1>1 DEF ThRec, Ats
<1>3. th' = [th EXCEPT ![t] = n]
    BY DEF Goto
<1> HIDE DEF n
<1>4. th'[t] = n /\ th' \in [Threads -> ThRec] /\ \A u \in Threads : u # t => th'[u] = th[u]
    BY <1>2, <1>3 DEF Typed
<1> QED
    BY <1>2, <1>4 DEF Steps

\* The answer is idle, and gives back no lock but its own.
LEMMA LeaveLeaves == ASSUME Typed, NEW t \in Threads, Leave(t) PROVE Leaves(t)
    BY IdleFacts DEF Leave, Leaves, Typed

\* A step of a goroutine that writes no row and no file keeps the invariant, when it goes where it may with the lock
\* it has; and so does its end, when it leaves no file of its own.
LEMMA GoKeeps ==
    ASSUME ProcInv, NEW t \in Threads, NEW s \in Ats, Goto(t, s),
           UNCHANGED <<row, env, holder, boot, listed, minted>>, jobs' \in [Ids -> {"none", "idle", "running"}],
           InPlace(th'[t]), Locked(th'[t]) => Locked(th[t]),
           \A p \in Ids : OfFile(th[t], p) => OfFile(th'[t], p),
           th[t].op = "tick" /\ s \in {"minting", "writing", "creating", "starting"}
               => th[t].at \in {"minting", "writing", "creating", "starting"}
    PROVE  ProcInv'
<1>1. Steps(t, s) /\ th'[t].row = th[t].row /\ th'[t].tok = th[t].tok
    BY GotoSteps DEF ProcInv
<1>2. Typed'
    BY <1>1 DEF ProcInv, Typed, Steps
<1>3. LocksAreHeld'
    BY <1>1 DEF ProcInv, LocksAreHeld, Steps
<1>4. FilesAreOwned'
    BY <1>1 DEF ProcInv, FilesAreOwned, Steps, OfFile
<1>5. RowsAreReal'
    BY <1>1 DEF ProcInv, RowsAreReal, Steps
<1>6. RunsHaveRows'
    BY <1>1 DEF ProcInv, RunsHaveRows, Steps
<1> QED
    BY <1>2, <1>3, <1>4, <1>5, <1>6 DEF ProcInv

\* The end of a goroutine keeps the invariant when it leaves no file of its own, and no row that a run has read goes.
LEMMA LeaveWith ==
    ASSUME ProcInv, NEW t \in Threads, Leave(t),
           UNCHANGED <<boot, listed, minted>>, jobs' \in [Ids -> {"none", "idle", "running"}],
           row' \in [Ids -> RowRec], \A p \in Ids : Real(row'[p]),
           \A u \in Threads : u # t /\ Armed(th[u]) => row'[th[u].id] # NoRow,
           env' \in [Ids -> Nat], \A p \in Ids : env'[p] # 0 => env'[p] = env[p] /\ ~OfFile(th[t], p)
    PROVE  ProcInv'
<1>1. Leaves(t)
    BY LeaveLeaves DEF ProcInv
<1>2. Typed'
    BY <1>1, IdleFacts DEF ProcInv, Typed, Leaves
<1>3. LocksAreHeld'
    <2> SUFFICES ASSUME NEW u \in Threads, Locked(th'[u]) PROVE holder'[th'[u].id] = u
        BY DEF LocksAreHeld
    <2>1. u # t /\ th'[u] = th[u]
        BY <1>1, IdleFacts DEF Leaves, Locked
    <2>2. holder[th[u].id] = u /\ th[u].id \in Ids
        BY <2>1 DEF ProcInv, LocksAreHeld, Typed, InPlace, Locked
    <2> QED
        BY <1>1, <2>1, <2>2 DEF Leaves
<1>4. FilesAreOwned'
    <2> SUFFICES ASSUME boot \notin {"down", "sweeping"}, NEW p \in Ids, env'[p] # 0
                 PROVE  \E u \in Threads : OfFile(th[u], p)'
        BY DEF FilesAreOwned
    <2>1. PICK u \in Threads : OfFile(th[u], p)
        BY DEF ProcInv, FilesAreOwned
    <2> QED
        BY <1>1, <2>1 DEF OfFile, Leaves
<1>5. RowsAreReal'
    BY <1>1, IdleFacts DEF ProcInv, RowsAreReal, Leaves
<1>6. RunsHaveRows'
    BY <1>1, IdleFacts DEF ProcInv, RunsHaveRows, Leaves, Armed
<1> QED
    BY <1>2, <1>3, <1>4, <1>5, <1>6 DEF ProcInv

\* The same of an end that writes no row.
LEMMA LeaveKeeps ==
    ASSUME ProcInv, NEW t \in Threads, Leave(t),
           UNCHANGED <<row, boot, listed, minted>>, jobs' \in [Ids -> {"none", "idle", "running"}],
           env' \in [Ids -> Nat], \A p \in Ids : env'[p] # 0 => env'[p] = env[p] /\ ~OfFile(th[t], p)
    PROVE  ProcInv'
<1>1. row' \in [Ids -> RowRec] /\ \A p \in Ids : Real(row'[p])
    BY DEF ProcInv, Typed, RowsAreReal
<1>2. \A u \in Threads : Armed(th[u]) => row'[th[u].id] # NoRow
    BY DEF ProcInv, RunsHaveRows, Armed
<1> QED
    BY <1>1, <1>2, LeaveWith

\* A step that writes what a goroutine knows, and maybe a row.
LEMMA PutKeeps ==
    ASSUME ProcInv, NEW t \in Threads, NEW n \in ThRec, th' = [th EXCEPT ![t] = n], InPlace(n),
           UNCHANGED <<env, holder, boot, listed>>, jobs' \in [Ids -> {"none", "idle", "running"}],
           Locked(n) => holder[n.id] = t, \A p \in Ids : OfFile(th[t], p) => OfFile(n, p),
           n.op \in {"start", "stop", "register"} => n.row.kind # "none",
           n.op = "tick" => boot \in {"probing", "up"},
           minted' \in Nat, row' \in [Ids -> RowRec], \A p \in Ids : Real(row'[p]),
           Armed(n) => row'[n.id] # NoRow,
           \A u \in Threads : u # t /\ Armed(th[u]) => row'[th[u].id] # NoRow
    PROVE  ProcInv'
<1>1. th' \in [Threads -> ThRec] /\ th'[t] = n /\ \A u \in Threads : u # t => th'[u] = th[u]
    BY DEF ProcInv, Typed
<1>2. Typed'
    BY <1>1 DEF ProcInv, Typed
<1>3. LocksAreHeld'
    BY <1>1 DEF ProcInv, LocksAreHeld
<1>4. FilesAreOwned'
    <2> SUFFICES ASSUME boot \notin {"down", "sweeping"}, NEW p \in Ids, env[p] # 0
                 PROVE  \E u \in Threads : OfFile(th[u], p)'
        BY DEF FilesAreOwned
    <2>1. PICK u \in Threads : OfFile(th[u], p)
        BY DEF ProcInv, FilesAreOwned
    <2>2. OfFile(th'[u], p)
        BY <1>1, <2>1
    <2> QED
        BY <2>2 DEF OfFile
<1>5. RowsAreReal'
    BY <1>1 DEF ProcInv, RowsAreReal
<1>6. RunsHaveRows'
    BY <1>1 DEF ProcInv, RunsHaveRows, Armed
<1> QED
    BY <1>2, <1>3, <1>4, <1>5, <1>6 DEF ProcInv

\* What a goroutine begins with.
LEMMA BeginKeeps ==
    ASSUME ProcInv, NEW t \in Threads, NEW n \in ThRec, th' = [th EXCEPT ![t] = n], InPlace(n),
           th[t].op = "none", n.at \in {"registering", "waiting", "rereading"},
           n.op \in {"start", "stop", "register"} => n.row.kind # "none",
           n.op = "tick" => boot \in {"probing", "up"},
           UNCHANGED <<row, env, holder, boot, listed, minted>>, jobs' \in [Ids -> {"none", "idle", "running"}]
    PROVE  ProcInv'
<1>1. ~Locked(n)
    BY DEF InPlace, Locked
<1>2. \A p \in Ids : ~OfFile(th[t], p)
    BY DEF OfFile
<1>3. ~Armed(n)
    BY DEF Armed
<1>4. \A u \in Threads : Armed(th[u]) => row[th[u].id] # NoRow
    BY DEF ProcInv, RunsHaveRows, Armed
<1>5. minted \in Nat /\ row \in [Ids -> RowRec] /\ \A p \in Ids : Real(row[p])
    BY DEF ProcInv, Typed, RowsAreReal
<1> QED
    BY <1>1, <1>2, <1>3, <1>4, <1>5, PutKeeps

\* A place says what is done there.
LEMMA OpsOfPlaces ==
    ASSUME ProcInv, NEW t \in Threads
    PROVE  LET x == th[t] IN
           /\ x \in ThRec /\ InPlace(x)
           /\ x.at = "idle" => x.op = "none"
           /\ x.at # "idle" => x.id \in Ids /\ x.op # "none"
           /\ x.at \in {"registering", "tracking"} => x.op = "register"
           /\ x.at \in {"start", "stop", "remove", "unregister", "tick"} => x.op = x.at
           /\ x.at \in {"writing", "creating", "starting"} => x.op \in {"start", "tick"}
           /\ x.at = "checking" => x.op = "start"
           /\ x.at \in {"routing", "naming"} => x.op \in {"register", "start", "stop", "reroute"}
           /\ x.at = "unrouting" => x.op = "remove"
           /\ x.at = "untracking" => x.op = "unregister"
           /\ x.at \in {"minting", "going", "revoking"} => x.op = "tick"
           /\ x.at = "rereading" => x.op = "reroute"
           /\ x.at = "waiting" => x.op \in {"start", "stop", "remove", "unregister", "tick"}
    BY IdleFacts DEF ProcInv, Typed, InPlace

\* The steps that do nothing but go on to the next place.
LEMMA GoesOn ==
    ASSUME ProcInv, NEW t \in Threads, NEW s \in Ats, Goto(t, s),
           UNCHANGED <<row, env, holder, boot, listed, minted, jobs>>,
           \/ th[t].at = "tracking" /\ s = "routing"
           \/ th[t].at = "creating" /\ s = "starting"
           \/ th[t].at = "starting" /\ th[t].op = "start" /\ s = "checking"
           \/ th[t].at = "checking" /\ s = "routing"
           \/ th[t].at = "stop" /\ s = "routing"
           \/ th[t].at = "remove" /\ s = "unrouting"
           \/ th[t].at = "going" /\ s = "revoking"
    PROVE  ProcInv'
<1>1. Steps(t, s) /\ th'[t].tok = th[t].tok
    BY GotoSteps DEF ProcInv
<1>2. th[t].id \in Ids
    BY OpsOfPlaces
<1>3. InPlace(th'[t])
    BY <1>1, <1>2, OpsOfPlaces DEF Steps, InPlace
<1>4. Locked(th'[t]) => Locked(th[t])
    BY <1>1, OpsOfPlaces DEF Steps, Locked
<1>5. \A p \in Ids : OfFile(th[t], p) => OfFile(th'[t], p)
    BY <1>1, OpsOfPlaces DEF Steps, OfFile
<1>6. jobs' \in [Ids -> {"none", "idle", "running"}]
    BY DEF ProcInv, Typed
<1> QED
    BY <1>3, <1>4, <1>5, <1>6, GoKeeps

-----------------------------------------------------------------------------
\* registerProcess keeps the invariant: its ask, its write, its tracking and its refusal.
LEMMA Registers ==
    ASSUME ProcInv, NEW s \in Threads,
           \/ \E p \in Ids, k \in {"service", "job"} : RegisterAsk(s, p, k)
           \/ Registering(s)
    PROVE  ProcInv'
<1> USE DEF At, count, booting, tables, disk
<1>0. jobs \in [Ids -> {"none", "idle", "running"}] /\ env \in [Ids -> Nat] /\ minted \in Nat
    BY DEF ProcInv, Typed
<1>1. ASSUME NEW p \in Ids, NEW k \in {"service", "job"}, RegisterAsk(s, p, k) PROVE ProcInv'
    <2> DEFINE n == [Idle EXCEPT !.at = "registering", !.op = "register", !.id = p,
                                 !.row.kind = k, !.live = Exists(p) /\ k = "service"]
    <2>1. n \in ThRec /\ n.at = "registering" /\ n.op = "register" /\ n.id = p /\ n.row.kind = k
        BY DEF Idle, NoRow, ThRec, RowRec, Exists
    <2>2. th' = [th EXCEPT ![s] = n] /\ UNCHANGED <<row, env, holder, boot, listed, minted, jobs>>
        BY <1>1 DEF RegisterAsk
    <2>3. th[s].op = "none"
        BY <1>1, OpsOfPlaces DEF RegisterAsk
    <2> HIDE DEF n
    <2>4. InPlace(n)
        BY <2>1 DEF InPlace
    <2> QED
        BY <1>0, <2>1, <2>2, <2>3, <2>4, BeginKeeps
<1>2. CASE RegisterWrite(s)
    <2> DEFINE r == [kind |-> th[s].row.kind, decl |-> minted + 1, tok |-> minted + 1]
               n == [th[s] EXCEPT !.at = "tracking", !.row = r]
    <2>1. /\ th[s] \in ThRec /\ th[s].op = "register" /\ th[s].id \in Ids /\ th[s].row.kind # "none"
          /\ th[s].at = "registering"
        BY <1>2, OpsOfPlaces DEF RegisterWrite, ProcInv, RowsAreReal
    <2>2. r \in RowRec /\ r.kind # "none" /\ r.tok # 0
        BY <1>0, <2>1 DEF RowRec, ThRec
    <2> HIDE DEF r
    <2>3. n \in ThRec /\ n.at = "tracking" /\ n.op = "register" /\ n.id = th[s].id /\ n.row = r
        BY <2>1, <2>2 DEF ThRec
    <2>4. /\ row' = [row EXCEPT ![th[s].id] = r] /\ minted' = minted + 1
          /\ th' = [th EXCEPT ![s] = n] /\ UNCHANGED <<env, holder, boot, listed, jobs>>
        BY <1>2 DEF RegisterWrite, r
    <2> HIDE DEF n
    <2>5. r # NoRow /\ Real(r)
        BY <2>2, IdleFacts DEF Real
    <2>6. /\ row' \in [Ids -> RowRec] /\ \A p \in Ids : Real(row'[p])
          /\ \A u \in Threads : Armed(th[u]) => row'[th[u].id] # NoRow
        BY <2>1, <2>2, <2>4, <2>5 DEF ProcInv, Typed, RowsAreReal, RunsHaveRows, Armed
    <2>7. InPlace(n) /\ ~Locked(n) /\ ~Armed(n) /\ \A p \in Ids : ~OfFile(th[s], p)
        BY <2>1, <2>3 DEF InPlace, Locked, Armed, OfFile
    <2>8. n.row.kind # "none" /\ n.op # "tick" /\ minted' \in Nat
        BY <1>0, <2>2, <2>3, <2>4
    <2> QED
        BY <1>0, <2>3, <2>4, <2>6, <2>7, <2>8, PutKeeps
<1>3. CASE RegisterRefuse(s)
    <2>1. \A p \in Ids : ~OfFile(th[s], p)
        BY <1>3 DEF RegisterRefuse, OfFile
    <2> QED
        BY <1>0, <1>3, <2>1, LeaveKeeps DEF RegisterRefuse
<1>4. CASE RegisterTrack(s)
    BY <1>4, GoesOn DEF RegisterTrack, Ats
<1> QED
    BY <1>1, <1>2, <1>3, <1>4 DEF Registering

\* The reads of processAction and unregisterProcess before the lock keep it.
LEMMA Asks ==
    ASSUME ProcInv, NEW s \in Threads, NEW p \in Ids,
           (\E op \in {"start", "stop", "remove"} : VerbAsk(s, p, op)) \/ UnregisterAsk(s, p)
    PROVE  ProcInv'
<1> USE DEF At, count, tables, disk
<1>0. jobs \in [Ids -> {"none", "idle", "running"}] /\ row[p] \in RowRec /\ Real(row[p])
    BY DEF ProcInv, Typed, RowsAreReal
<1>1. ASSUME NEW op \in {"start", "stop", "remove"}, VerbAsk(s, p, op) PROVE ProcInv'
    <2> DEFINE n == [Idle EXCEPT !.at = "waiting", !.op = op, !.id = p, !.row = row[p]]
    <2>1. n \in ThRec /\ n.at = "waiting" /\ n.op = op /\ n.id = p /\ n.row = row[p]
        BY <1>0 DEF Idle, ThRec
    <2>2. /\ th' = [th EXCEPT ![s] = n] /\ UNCHANGED <<row, env, holder, boot, listed, minted, jobs>>
          /\ row[p] # NoRow
        BY <1>1 DEF VerbAsk
    <2>3. th[s].op = "none"
        BY <1>1, OpsOfPlaces DEF VerbAsk
    <2> HIDE DEF n
    <2>4. InPlace(n) /\ n.row.kind # "none"
        BY <1>0, <2>1, <2>2 DEF InPlace, Real
    <2> QED
        BY <1>0, <2>1, <2>2, <2>3, <2>4, BeginKeeps
<1>2. CASE UnregisterAsk(s, p)
    <2> DEFINE n == [Idle EXCEPT !.at = "waiting", !.op = "unregister", !.id = p]
    <2>1. n \in ThRec /\ n.at = "waiting" /\ n.op = "unregister" /\ n.id = p
        BY IdleFacts DEF Idle, ThRec
    <2>2. th' = [th EXCEPT ![s] = n] /\ UNCHANGED <<row, env, holder, boot, listed, minted, jobs>>
        BY <1>2 DEF UnregisterAsk
    <2>3. th[s].op = "none"
        BY <1>2, OpsOfPlaces DEF UnregisterAsk
    <2> HIDE DEF n
    <2>4. InPlace(n)
        BY <2>1 DEF InPlace
    <2> QED
        BY <1>0, <2>1, <2>2, <2>3, <2>4, BeginKeeps
<1> QED
    BY <1>1, <1>2

\* The lock goes to nobody who finds it taken, so whoever has it keeps it.
LEMMA Locks == ASSUME ProcInv, NEW t \in Threads, Lock(t) PROVE ProcInv'
<1> DEFINE s == th[t].op
<1>1. /\ th[t].at = "waiting" /\ th[t].id \in Ids /\ InPlace(th[t])
      /\ s \in {"start", "stop", "remove", "unregister", "tick"}
    BY OpsOfPlaces DEF Lock, At
<1>2. s \in Ats /\ Goto(t, s) /\ UNCHANGED <<row, env, jobs, boot, listed, minted>>
    BY <1>1 DEF Lock, Ats, count, booting, tables, disk
<1>3. holder[th[t].id] = Nobody /\ holder' = [holder EXCEPT ![th[t].id] = t]
    BY DEF Lock
<1>4. Steps(t, s) /\ th'[t].row = th[t].row /\ th'[t].tok = th[t].tok
    BY <1>2, GotoSteps DEF ProcInv
<1>5. Typed'
    <2>1. InPlace(th'[t])
        BY <1>1, <1>4 DEF InPlace, Steps
    <2> QED
        BY <1>2, <1>3, <1>4, <2>1 DEF ProcInv, Typed, Steps
<1>6. LocksAreHeld'
    <2> SUFFICES ASSUME NEW u \in Threads, Locked(th'[u]) PROVE holder'[th'[u].id] = u
        BY DEF LocksAreHeld
    <2>1. CASE u = t
        BY <1>1, <1>3, <1>4, <2>1 DEF ProcInv, Typed, Steps
    <2>2. CASE u # t
        <3>1. th'[u] = th[u] /\ holder[th[u].id] = u /\ th[u].id \in Ids
            BY <1>4, <2>2 DEF ProcInv, LocksAreHeld, Typed, InPlace, Locked, Steps
        <3> QED
            BY <1>3, <3>1, ThreadsAssumption DEF ProcInv, Typed
    <2> QED
        BY <2>1, <2>2
<1>7. FilesAreOwned'
    <2>1. \A p \in Ids : ~OfFile(th[t], p)
        BY <1>1 DEF OfFile
    <2> QED
        BY <1>2, <1>4, <2>1 DEF ProcInv, FilesAreOwned, Steps, OfFile
<1>8. RowsAreReal'
    BY <1>2, <1>4 DEF ProcInv, RowsAreReal, Steps
<1>9. RunsHaveRows'
    BY <1>1, <1>2, <1>4 DEF ProcInv, RunsHaveRows, Steps
<1> QED
    BY <1>5, <1>6, <1>7, <1>8, <1>9 DEF ProcInv

\* The file that is on disk beside a goroutine with the lock of its id is that goroutine's.
LEMMA OwnFile ==
    ASSUME ProcInv, NEW t \in Threads, Locked(th[t]), boot \notin {"down", "sweeping"}, env[th[t].id] # 0
    PROVE  OfFile(th[t], th[t].id)
<1>1. th[t].id \in Ids /\ holder[th[t].id] = t
    BY DEF ProcInv, Typed, InPlace, Locked, LocksAreHeld
<1>2. PICK u \in Threads : OfFile(th[u], th[t].id)
    BY <1>1 DEF ProcInv, FilesAreOwned
<1>3. Locked(th[u]) /\ th[u].id = th[t].id
    BY <1>2 DEF OfFile, Locked
<1>4. u = t
    BY <1>1, <1>3 DEF ProcInv, LocksAreHeld
<1> QED
    BY <1>2, <1>4

\* startProcess keeps it, and what a tick shares with it: a file is written and removed under the lock.
LEMMA Starts == ASSUME ProcInv, NEW t \in Threads, Starting(t) PROVE ProcInv'
<1> USE DEF At, count, booting, tables, disk
<1>0. /\ jobs \in [Ids -> {"none", "idle", "running"}] /\ env \in [Ids -> Nat] /\ minted \in Nat
      /\ th[t] \in ThRec
    BY DEF ProcInv, Typed
<1>1. CASE StartRefuse(t)
    <2>1. \A p \in Ids : ~OfFile(th[t], p)
        BY <1>1 DEF StartRefuse, OfFile
    <2> QED
        BY <1>0, <1>1, <2>1, LeaveKeeps DEF StartRefuse
<1>2. CASE StartMint(t)
    <2>0. PICK k \in Nat : k = minted + 1 /\ k # 0
        BY <1>0
    <2> DEFINE p == th[t].id
               r == [th[t].row EXCEPT !.tok = k]
               n == [th[t] EXCEPT !.at = "writing", !.tok = k]
    <2>1. th[t].op = "start" /\ p \in Ids /\ th[t].row.kind # "none" /\ th[t].at = "start"
        BY <1>2, OpsOfPlaces DEF StartMint, ProcInv, RowsAreReal
    <2>2. r \in RowRec /\ r.kind # "none"
        BY <1>0, <2>1 DEF RowRec, ThRec
    <2>3. n \in ThRec /\ n.at = "writing" /\ n.op = "start" /\ n.id = p /\ n.row = th[t].row
        BY <1>0, <2>1 DEF ThRec
    <2>4. /\ row' = [row EXCEPT ![p] = r] /\ minted' \in Nat
          /\ th' = [th EXCEPT ![t] = n] /\ UNCHANGED <<env, holder, boot, listed, jobs>>
        BY <1>0, <1>2, <2>0 DEF StartMint
    <2> HIDE DEF n, r
    <2>5. r # NoRow /\ Real(r)
        BY <2>2, IdleFacts DEF Real
    <2>6. /\ row' \in [Ids -> RowRec] /\ \A q \in Ids : Real(row'[q])
          /\ \A u \in Threads : Armed(th[u]) => row'[th[u].id] # NoRow
        BY <2>1, <2>2, <2>4, <2>5 DEF ProcInv, Typed, RowsAreReal, RunsHaveRows, Armed
    <2>7. InPlace(n) /\ ~Armed(n) /\ Locked(th[t]) /\ \A q \in Ids : ~OfFile(th[t], q)
        BY <2>1, <2>3 DEF InPlace, Locked, Armed, OfFile
    <2>8. holder[n.id] = t
        BY <2>3, <2>7 DEF ProcInv, LocksAreHeld
    <2>9. n.row.kind # "none" /\ n.op # "tick"
        BY <2>1, <2>3
    <2> QED
        BY <1>0, <2>3, <2>4, <2>6, <2>7, <2>8, <2>9, PutKeeps
<1>3. CASE WriteEnv(t)
    <2> DEFINE p == th[t].id
    <2>1. th[t].op \in {"start", "tick"} /\ p \in Ids /\ th[t].at = "writing"
        BY <1>3, OpsOfPlaces DEF WriteEnv
    <2>2. /\ Goto(t, "creating") /\ "creating" \in Ats /\ UNCHANGED <<row, holder, boot, listed, minted, jobs>>
          /\ env' = [env EXCEPT ![p] = th[t].tok]
        BY <1>3 DEF WriteEnv, Ats
    <2>3. Steps(t, "creating") /\ th'[t].row = th[t].row /\ th'[t].tok = th[t].tok
        BY <2>2, GotoSteps DEF ProcInv
    <2>4. Typed'
        <3>1. InPlace(th'[t])
            BY <2>1, <2>3 DEF InPlace, Steps
        <3>2. env' \in [Ids -> Nat]
            BY <1>0, <2>2 DEF ThRec
        <3> QED
            BY <2>2, <2>3, <3>1, <3>2 DEF ProcInv, Typed, Steps
    <2>5. LocksAreHeld'
        BY <2>1, <2>2, <2>3 DEF ProcInv, LocksAreHeld, Steps, Locked
    <2>6. FilesAreOwned'
        <3> SUFFICES ASSUME boot \notin {"down", "sweeping"}, NEW q \in Ids, env'[q] # 0
                     PROVE  \E u \in Threads : OfFile(th[u], q)'
            BY <2>2 DEF FilesAreOwned
        <3>1. CASE q = p
            BY <1>0, <2>1, <2>2, <2>3, <3>1 DEF OfFile, Steps
        <3>2. CASE q # p
            <4>1. PICK u \in Threads : OfFile(th[u], q)
                BY <1>0, <2>2, <3>2 DEF ProcInv, FilesAreOwned
            <4>2. u # t /\ env'[q] = env[q]
                BY <1>0, <2>2, <3>2, <4>1 DEF OfFile
            <4> QED
                BY <2>3, <4>1, <4>2 DEF OfFile, Steps
        <3> QED
            BY <3>1, <3>2
    <2>7. RowsAreReal'
        BY <2>2, <2>3 DEF ProcInv, RowsAreReal, Steps
    <2>8. RunsHaveRows'
        BY <2>1, <2>2, <2>3 DEF ProcInv, RunsHaveRows, Steps
    <2> QED
        BY <2>4, <2>5, <2>6, <2>7, <2>8 DEF ProcInv
<1>4. CASE Create(t) \/ Started(t) \/ StartProbe(t)
    BY <1>4, GoesOn DEF Create, Started, StartProbe, Ats
<1>5. CASE Fail(t)
    <2> DEFINE p == th[t].id
    <2>1. p \in Ids /\ th[t].at \in {"writing", "creating", "starting"}
        BY <1>5, OpsOfPlaces DEF Fail
    <2>2. /\ Leave(t) /\ UNCHANGED <<row, boot, listed, minted>>
          /\ jobs' \in {jobs, JobsAfter(p)}
          /\ env' = IF th[t].at = "writing" THEN env ELSE [env EXCEPT ![p] = 0]
        BY <1>5 DEF Fail
    <2>3. jobs' \in [Ids -> {"none", "idle", "running"}]
        BY <1>0, <2>2 DEF JobsAfter
    <2>4. env' \in [Ids -> Nat] /\ \A q \in Ids : env'[q] # 0 => env'[q] = env[q] /\ ~OfFile(th[t], q)
        BY <1>0, <2>1, <2>2 DEF OfFile
    <2> QED
        BY <2>2, <2>3, <2>4, LeaveKeeps
<1> QED
    BY <1>1, <1>2, <1>3, <1>4, <1>5 DEF Starting

\* stopProcess, removeProcess and unregisterProcess keep it: no row goes while a run between its read and its
\* start has the lock.
LEMMA Stops == ASSUME ProcInv, NEW t \in Threads, Stopping(t) PROVE ProcInv'
<1> USE DEF At, count, booting, tables, disk
<1>0. /\ jobs \in [Ids -> {"none", "idle", "running"}] /\ env \in [Ids -> Nat]
      /\ th[t] \in ThRec
    BY DEF ProcInv, Typed
<1>1. CASE Stop(t) \/ Remove(t)
    BY <1>1, GoesOn DEF Stop, Remove, Ats
<1>2. CASE StopOrRemoveFails(t) \/ Unroute(t)
    <2>1. \A p \in Ids : ~OfFile(th[t], p)
        BY <1>2, OpsOfPlaces DEF StopOrRemoveFails, Unroute, OfFile
    <2> QED
        BY <1>0, <1>2, <2>1, LeaveKeeps DEF StopOrRemoveFails, Unroute
<1>3. CASE Untrack(t)
    <2>1. \A p \in Ids : ~OfFile(th[t], p)
        BY <1>3, OpsOfPlaces DEF Untrack, OfFile
    <2>2. jobs' \in [Ids -> {"none", "idle", "running"}]
        BY <1>0, <1>3 DEF Untrack, Forget
    <2> QED
        BY <1>0, <1>3, <2>1, <2>2, LeaveKeeps DEF Untrack
<1>4. CASE Unregister(t)
    <2> DEFINE p == th[t].id
    <2>1. th[t].op = "unregister" /\ p \in Ids /\ th[t].at = "unregister"
        BY <1>4, OpsOfPlaces DEF Unregister
    <2>2. row' = [row EXCEPT ![p] = NoRow] /\ UNCHANGED <<env, boot, listed, minted, jobs>>
        BY <1>4 DEF Unregister
    <2>3. /\ row' \in [Ids -> RowRec] /\ \A q \in Ids : Real(row'[q])
          /\ \A q \in Ids : q # p => row'[q] = row[q]
        BY <2>1, <2>2, IdleFacts DEF ProcInv, Typed, RowsAreReal, Real
    <2>4. \A u \in Threads : Armed(th[u]) => row'[th[u].id] # NoRow
        <3> SUFFICES ASSUME NEW u \in Threads, Armed(th[u]) PROVE row'[th[u].id] # NoRow
            OBVIOUS
        <3>1. Locked(th[u]) /\ Locked(th[t]) /\ u # t
            BY <2>1 DEF Armed, Locked
        <3>2. th[u].id # p /\ th[u].id \in Ids
            BY <3>1 DEF ProcInv, LocksAreHeld, Typed, InPlace, Locked
        <3>3. row[th[u].id] # NoRow
            BY DEF ProcInv, RunsHaveRows, Armed
        <3> QED
            BY <2>3, <3>2, <3>3
    <2>5. \A q \in Ids : ~OfFile(th[t], q)
        BY <2>1 DEF OfFile
    <2>6. CASE Leave(t)
        BY <1>0, <2>2, <2>3, <2>4, <2>5, <2>6, LeaveWith DEF ProcInv, Typed
    <2>7. CASE Goto(t, "untracking") /\ UNCHANGED holder
        <3> DEFINE n == [th[t] EXCEPT !.at = "untracking"]
        <3>1. n \in ThRec /\ n.at = "untracking" /\ n.op = "unregister" /\ n.id = p
            BY <1>0, <2>1 DEF ThRec
        <3>2. th' = [th EXCEPT ![t] = n]
            BY <2>7 DEF Goto
        <3> HIDE DEF n
        <3>3. InPlace(n) /\ ~Armed(n) /\ holder[n.id] = t
            BY <2>1, <3>1 DEF InPlace, Armed, ProcInv, LocksAreHeld, Locked
        <3>4. minted' \in Nat /\ ~(n.op \in {"start", "stop", "register"}) /\ n.op # "tick"
            BY <2>2, <3>1 DEF ProcInv, Typed
        <3> QED
            BY <1>0, <2>2, <2>3, <2>4, <2>5, <2>7, <3>1, <3>2, <3>3, <3>4, PutKeeps
    <2> QED
        BY <1>4, <2>6, <2>7 DEF Unregister
<1> QED
    BY <1>1, <1>2, <1>3, <1>4 DEF Stopping

\* trackRoute and the reroute of a probe keep it.
LEMMA Routes == ASSUME ProcInv, NEW t \in Threads, Routing(t) PROVE ProcInv'
<1> USE DEF At, count, booting, tables, disk
<1> DEFINE p == th[t].id
<1>0. /\ jobs \in [Ids -> {"none", "idle", "running"}] /\ env \in [Ids -> Nat] /\ minted \in Nat
      /\ th[t] \in ThRec /\ row \in [Ids -> RowRec] /\ \A q \in Ids : Real(row[q])
    BY DEF ProcInv, Typed, RowsAreReal
<1>a. \A u \in Threads : Armed(th[u]) => row[th[u].id] # NoRow
    BY DEF ProcInv, RunsHaveRows, Armed
<1>1. CASE RerouteRead(t)
    <2>1. th[t].op = "reroute" /\ p \in Ids /\ th[t].at = "rereading"
        BY <1>1, OpsOfPlaces DEF RerouteRead
    <2>2. \A q \in Ids : ~OfFile(th[t], q)
        BY <2>1 DEF OfFile
    <2>3. CASE Leave(t)
        BY <1>0, <1>1, <2>2, <2>3, LeaveKeeps DEF RerouteRead
    <2>4. CASE th' = [th EXCEPT ![t].at = "routing", ![t].row = row[p]] /\ UNCHANGED holder
        <3> DEFINE n == [th[t] EXCEPT !.at = "routing", !.row = row[p]]
        <3>1. row[p] \in RowRec
            BY <1>0, <2>1
        <3>2. n \in ThRec /\ n.at = "routing" /\ n.op = "reroute" /\ n.id = p
            BY <1>0, <2>1, <3>1 DEF ThRec
        <3>3. th' = [th EXCEPT ![t] = n] /\ UNCHANGED <<row, env, holder, boot, listed, jobs, minted>>
            BY <1>1, <2>4 DEF RerouteRead
        <3> HIDE DEF n
        <3>4. InPlace(n) /\ ~Armed(n) /\ ~Locked(n) /\ n.op # "tick" /\ ~(n.op \in {"start", "stop", "register"})
            BY <2>1, <3>2 DEF InPlace, Armed, Locked
        <3> QED
            BY <1>0, <1>a, <2>2, <3>2, <3>3, <3>4, PutKeeps
    <2> QED
        BY <1>1, <2>3, <2>4 DEF RerouteRead
<1>2. CASE RouteRead(t)
    <2> DEFINE n == [th[t] EXCEPT !.at = "naming", !.live = Running(p)]
    <2>1. th[t].op \in {"register", "start", "stop", "reroute"} /\ p \in Ids /\ th[t].at = "routing"
        BY <1>2, OpsOfPlaces DEF RouteRead
    <2>2. /\ n \in ThRec /\ n.at = "naming" /\ n.op = th[t].op /\ n.id = p
          /\ n.row = th[t].row /\ n.tok = th[t].tok
        BY <1>0 DEF ThRec, Running
    <2>3. th' = [th EXCEPT ![t] = n] /\ UNCHANGED <<row, env, holder, boot, listed, jobs, minted>>
        BY <1>2 DEF RouteRead
    <2> HIDE DEF n
    <2>4. InPlace(n) /\ ~Armed(n) /\ n.op # "tick"
        BY <2>1, <2>2 DEF InPlace, Armed
    <2>5. Locked(n) => holder[n.id] = t
        BY <2>1, <2>2 DEF Locked, ProcInv, LocksAreHeld
    <2>6. \A q \in Ids : OfFile(th[t], q) => OfFile(n, q)
        BY <2>1, <2>2 DEF OfFile
    <2>7. n.op \in {"start", "stop", "register"} => n.row.kind # "none"
        BY <2>2 DEF ProcInv, RowsAreReal
    <2> QED
        BY <1>0, <1>a, <2>2, <2>3, <2>4, <2>5, <2>6, <2>7, PutKeeps
<1>3. CASE RouteWrite(t)
    <2>1. th[t].op \in {"register", "start", "stop", "reroute"} /\ p \in Ids /\ th[t].at = "naming"
        BY <1>3, OpsOfPlaces DEF RouteWrite
    <2>2. /\ Leave(t) /\ UNCHANGED <<row, boot, listed, minted>>
          /\ jobs' \in {jobs, JobsWith(p, th[t].row)}
          /\ env' = IF th[t].op = "start" THEN [env EXCEPT ![p] = 0] ELSE env
        BY <1>3 DEF RouteWrite
    <2>3. jobs' \in [Ids -> {"none", "idle", "running"}]
        BY <1>0, <2>2 DEF JobsWith
    <2>4. env' \in [Ids -> Nat] /\ \A q \in Ids : env'[q] # 0 => env'[q] = env[q] /\ ~OfFile(th[t], q)
        BY <1>0, <2>1, <2>2 DEF OfFile
    <2> QED
        BY <2>2, <2>3, <2>4, LeaveKeeps
<1> QED
    BY <1>1, <1>2, <1>3 DEF Routing

\* probeOnce begins a reroute.
LEMMA RerouteBegins ==
    ASSUME ProcInv, NEW h \in Threads, NEW p \in Ids, Reroute(h, p)
    PROVE  ProcInv'
<1> DEFINE n == [Idle EXCEPT !.at = "rereading", !.op = "reroute", !.id = p]
<1>1. n \in ThRec /\ n.at = "rereading" /\ n.op = "reroute" /\ n.id = p
    BY IdleFacts DEF Idle, ThRec
<1>2. th' = [th EXCEPT ![h] = n] /\ UNCHANGED <<row, env, holder, boot, listed, minted, jobs>>
    BY DEF Reroute, disk, tables, booting, count
<1>3. th[h].op = "none" /\ jobs \in [Ids -> {"none", "idle", "running"}]
    BY OpsOfPlaces DEF Reroute, At, ProcInv, Typed
<1> HIDE DEF n
<1>4. InPlace(n)
    BY <1>1 DEF InPlace
<1> QED
    BY <1>1, <1>2, <1>3, <1>4, BeginKeeps

\* The scheduler begins a run.
LEMMA TickBegins ==
    ASSUME ProcInv, NEW t \in Threads, NEW p \in Ids, TickDue(t, p)
    PROVE  ProcInv'
<1> DEFINE n == [Idle EXCEPT !.at = "waiting", !.op = "tick", !.id = p]
<1>1. n \in ThRec /\ n.at = "waiting" /\ n.op = "tick" /\ n.id = p
    BY IdleFacts DEF Idle, ThRec
<1>2. /\ th' = [th EXCEPT ![t] = n] /\ UNCHANGED <<row, env, holder, boot, listed, minted>>
      /\ jobs' = [jobs EXCEPT ![p] = "running"] /\ boot \in {"probing", "up"}
    BY DEF TickDue, disk, booting, count
<1>3. th[t].op = "none" /\ jobs' \in [Ids -> {"none", "idle", "running"}]
    BY <1>2, OpsOfPlaces DEF TickDue, At, ProcInv, Typed
<1> HIDE DEF n
<1>4. InPlace(n)
    BY <1>1 DEF InPlace
<1> QED
    BY <1>1, <1>2, <1>3, <1>4, BeginKeeps

\* The end of a run takes a token from its row, and the row is as real as before.
LEMMA RevokedRows ==
    ASSUME ProcInv, NEW t \in Threads, th[t].id \in Ids,
           row' = [row EXCEPT ![th[t].id].tok = IF @ = th[t].tok THEN 0 ELSE @]
    PROVE  /\ row' \in [Ids -> RowRec] /\ \A p \in Ids : Real(row'[p])
           /\ \A p \in Ids : row[p] # NoRow => row'[p] # NoRow
           /\ \A p \in Ids : row'[p].tok = row[p].tok \/ (p = th[t].id /\ row[p].tok = th[t].tok)
           /\ \A p \in Ids : row[p] = NoRow => row'[p] = NoRow
<1> DEFINE p == th[t].id
           r == [row[p] EXCEPT !.tok = IF @ = th[t].tok THEN 0 ELSE @]
<1>1. row[p] \in RowRec /\ Real(row[p]) /\ row \in [Ids -> RowRec] /\ \A q \in Ids : Real(row[q])
    BY DEF ProcInv, Typed, RowsAreReal
<1>2. /\ r \in RowRec /\ r.kind = row[p].kind
      /\ r.tok = row[p].tok \/ row[p].tok = th[t].tok
    BY <1>1 DEF RowRec
<1>3. row[p] = NoRow => r = NoRow
    BY DEF NoRow
<1>4. row' = [row EXCEPT ![p] = r]
    OBVIOUS
<1> HIDE DEF r
<1>5. Real(r) /\ (row[p] # NoRow => r # NoRow)
    BY <1>1, <1>2, <1>3, IdleFacts DEF Real
<1> QED
    BY <1>1, <1>2, <1>3, <1>4, <1>5

\* runScheduled keeps it, up to the revocation of the token of the run.
LEMMA TicksGoOn ==
    ASSUME ProcInv, NEW t \in Threads, Ticking(t) \/ TickWaited(t)
    PROVE  ProcInv'
<1> USE DEF At, count, booting, tables, disk
<1> DEFINE p == th[t].id
<1>0. /\ jobs \in [Ids -> {"none", "idle", "running"}] /\ env \in [Ids -> Nat] /\ minted \in Nat
      /\ th[t] \in ThRec /\ row \in [Ids -> RowRec] /\ \A q \in Ids : Real(row[q])
    BY DEF ProcInv, Typed, RowsAreReal
<1>a. \A u \in Threads : Armed(th[u]) => row[th[u].id] # NoRow
    BY DEF ProcInv, RunsHaveRows, Armed
<1>b. th[t].op = "tick" => boot \in {"probing", "up"}
    BY DEF ProcInv, RunsHaveRows
<1>c. JobsAfter(p) \in [Ids -> {"none", "idle", "running"}]
    BY <1>0 DEF JobsAfter
<1>1. CASE TickRead(t)
    <2>1. th[t].op = "tick" /\ p \in Ids /\ th[t].at = "tick"
        BY <1>1, OpsOfPlaces DEF TickRead
    <2>2. \A q \in Ids : ~OfFile(th[t], q)
        BY <2>1 DEF OfFile
    <2>3. CASE TickEnds(t)
        BY <1>0, <1>1, <1>c, <2>2, <2>3, LeaveKeeps DEF TickRead, TickEnds
    <2>4. CASE /\ th' = [th EXCEPT ![t].at = "minting", ![t].row = row[p]] /\ UNCHANGED <<jobs, holder>>
               /\ row[p] # NoRow
        <3> DEFINE n == [th[t] EXCEPT !.at = "minting", !.row = row[p]]
        <3>1. row[p] \in RowRec
            BY <1>0, <2>1
        <3>2. n \in ThRec /\ n.at = "minting" /\ n.op = "tick" /\ n.id = p
            BY <1>0, <2>1, <3>1 DEF ThRec
        <3>3. th' = [th EXCEPT ![t] = n] /\ UNCHANGED <<row, env, holder, boot, listed, jobs, minted>>
            BY <1>1, <2>4 DEF TickRead
        <3> HIDE DEF n
        <3>4. InPlace(n) /\ holder[n.id] = t /\ ~(n.op \in {"start", "stop", "register"})
            BY <2>1, <3>2 DEF InPlace, Locked, ProcInv, LocksAreHeld
        <3> QED
            BY <1>0, <1>a, <1>b, <2>1, <2>2, <2>4, <3>2, <3>3, <3>4, PutKeeps
    <2> QED
        BY <1>1, <2>3, <2>4 DEF TickRead
<1>2. CASE TickMint(t)
    <2>1. th[t].op = "tick" /\ p \in Ids /\ th[t].at = "minting"
        BY <1>2, OpsOfPlaces DEF TickMint
    <2>2. \A q \in Ids : ~OfFile(th[t], q)
        BY <2>1 DEF OfFile
    <2>3. CASE TickEnds(t) /\ UNCHANGED <<row, minted>>
        BY <1>0, <1>2, <1>c, <2>2, <2>3, LeaveKeeps DEF TickMint, TickEnds
    <2>4. PICK k \in Nat : k = minted + 1 /\ k # 0
        BY <1>0
    <2>5. CASE /\ row' = [row EXCEPT ![p].tok = k] /\ minted' = k /\ row[p] # NoRow
               /\ th' = [th EXCEPT ![t].at = "writing", ![t].tok = k] /\ UNCHANGED <<jobs, holder>>
        <3> DEFINE r == [row[p] EXCEPT !.tok = k]
                   n == [th[t] EXCEPT !.at = "writing", !.tok = k]
        <3>1. row[p] \in RowRec /\ row[p].kind # "none"
            BY <1>0, <2>1, <2>5 DEF Real
        <3>2. r \in RowRec /\ r.kind # "none"
            BY <3>1 DEF RowRec
        <3>3. n \in ThRec /\ n.at = "writing" /\ n.op = "tick" /\ n.id = p
            BY <1>0, <2>1 DEF ThRec
        <3>4. /\ th' = [th EXCEPT ![t] = n] /\ row' = [row EXCEPT ![p] = r]
              /\ UNCHANGED <<env, holder, boot, listed, jobs>> /\ minted' \in Nat
            BY <1>2, <2>5 DEF TickMint
        <3> HIDE DEF n, r
        <3>5. r # NoRow /\ Real(r)
            BY <3>2, IdleFacts DEF Real
        <3>6. /\ row' \in [Ids -> RowRec] /\ \A q \in Ids : Real(row'[q])
              /\ \A q \in Ids : row[q] # NoRow => row'[q] # NoRow
              /\ row'[p] # NoRow
            BY <1>0, <2>1, <3>2, <3>4, <3>5
        <3>7. \A u \in Threads : Armed(th[u]) => row'[th[u].id] # NoRow
            BY <1>a, <3>6, OpsOfPlaces DEF Armed
        <3>8. InPlace(n) /\ holder[n.id] = t /\ ~(n.op \in {"start", "stop", "register"})
            BY <2>1, <3>3 DEF InPlace, Locked, ProcInv, LocksAreHeld
        <3> QED
            BY <1>0, <1>b, <2>1, <2>2, <3>3, <3>4, <3>6, <3>7, <3>8, PutKeeps
    <2> QED
        BY <1>2, <2>3, <2>4, <2>5 DEF TickMint
<1>3. CASE TickStarted(t)
    <2>1. th[t].op = "tick" /\ p \in Ids /\ th[t].at = "starting" /\ Locked(th[t])
        BY <1>3, OpsOfPlaces DEF TickStarted, Locked
    <2>2. /\ Goto(t, "going") /\ "going" \in Ats /\ UNCHANGED <<row, jobs, boot, listed, minted>>
          /\ env' = [env EXCEPT ![p] = 0] /\ holder' = [holder EXCEPT ![p] = Nobody]
        BY <1>3 DEF TickStarted, Ats
    <2>3. Steps(t, "going") /\ th'[t].row = th[t].row /\ th'[t].tok = th[t].tok
        BY <2>2, GotoSteps DEF ProcInv
    <2>4. Typed'
        <3>1. InPlace(th'[t])
            BY <2>1, <2>3 DEF InPlace, Steps
        <3> QED
            BY <1>0, <2>2, <2>3, <3>1 DEF ProcInv, Typed, Steps
    <2>5. LocksAreHeld'
        <3> SUFFICES ASSUME NEW u \in Threads, Locked(th'[u]) PROVE holder'[th'[u].id] = u
            BY DEF LocksAreHeld
        <3>1. u # t /\ th'[u] = th[u]
            BY <2>1, <2>3 DEF Steps, Locked
        <3>2. holder[th[u].id] = u /\ holder[p] = t /\ th[u].id \in Ids
            BY <2>1, <3>1 DEF ProcInv, LocksAreHeld, Typed, InPlace, Locked
        <3> QED
            BY <2>1, <2>2, <3>1, <3>2 DEF ProcInv, Typed
    <2>6. FilesAreOwned'
        <3> SUFFICES ASSUME boot \notin {"down", "sweeping"}, NEW q \in Ids, env'[q] # 0
                     PROVE  \E u \in Threads : OfFile(th[u], q)'
            BY <2>2 DEF FilesAreOwned
        <3>1. q # p /\ env'[q] = env[q]
            BY <1>0, <2>1, <2>2
        <3>2. PICK u \in Threads : OfFile(th[u], q)
            BY <3>1 DEF ProcInv, FilesAreOwned
        <3>3. u # t
            BY <3>1, <3>2 DEF OfFile
        <3> QED
            BY <2>3, <3>1, <3>2, <3>3 DEF OfFile, Steps
    <2>7. RowsAreReal' /\ RunsHaveRows'
        BY <2>1, <2>2, <2>3 DEF ProcInv, RowsAreReal, RunsHaveRows, Steps
    <2> QED
        BY <2>4, <2>5, <2>6, <2>7 DEF ProcInv
<1>4. CASE TickWaited(t)
    BY <1>4, GoesOn DEF TickWaited, Ats
<1>5. CASE Revoke(t)
    <2>1. th[t].op = "tick" /\ p \in Ids /\ th[t].at = "revoking"
        BY <1>5, OpsOfPlaces DEF Revoke
    <2>2. /\ Leave(t) /\ jobs' = JobsAfter(p) /\ UNCHANGED <<env, boot, listed, minted>>
          /\ row' = [row EXCEPT ![p].tok = IF @ = th[t].tok THEN 0 ELSE @]
        BY <1>5 DEF Revoke, TickEnds
    <2>3. /\ row' \in [Ids -> RowRec] /\ \A q \in Ids : Real(row'[q])
          /\ \A q \in Ids : row[q] # NoRow => row'[q] # NoRow
        BY <2>1, <2>2, RevokedRows
    <2>4. \A u \in Threads : Armed(th[u]) => row'[th[u].id] # NoRow
        BY <1>a, <2>3, OpsOfPlaces DEF Armed
    <2>5. \A q \in Ids : ~OfFile(th[t], q)
        BY <2>1 DEF OfFile
    <2> QED
        BY <1>0, <1>c, <2>2, <2>3, <2>4, <2>5, LeaveWith
<1> QED
    BY <1>1, <1>2, <1>3, <1>4, <1>5 DEF Ticking

-----------------------------------------------------------------------------
\* What the boot and the host do while every goroutine stands.
LEMMA QuietKeeps ==
    ASSUME ProcInv, UNCHANGED <<th, holder, minted>>,
           row' \in [Ids -> RowRec], \A p \in Ids : Real(row'[p]),
           listed' \in [Ids -> RowRec], \A p \in Ids : Real(listed'[p]),
           jobs' \in [Ids -> {"none", "idle", "running"}],
           \/ env' = env /\ (boot \in {"down", "sweeping"} => boot' \in {"down", "sweeping"})
           \/ env' = [p \in Ids |-> 0],
           boot \in {"probing", "up"} => boot' \in {"probing", "up"} /\ row' = row
    PROVE  ProcInv'
<1>1. Typed'
    BY DEF ProcInv, Typed
<1>2. LocksAreHeld'
    BY DEF ProcInv, LocksAreHeld
<1>3. FilesAreOwned'
    BY DEF ProcInv, FilesAreOwned, OfFile
<1>4. RowsAreReal'
    BY DEF ProcInv, RowsAreReal
<1>5. RunsHaveRows'
    BY DEF ProcInv, RunsHaveRows
<1> QED
    BY <1>1, <1>2, <1>3, <1>4, <1>5 DEF ProcInv

\* The boot and the host keep it: rows go at a boot only before the first tick.
LEMMA Boots ==
    ASSUME ProcInv, Boot \/ (\E p \in Ids : Exits(p) \/ StartedByHand(p))
    PROVE  ProcInv'
<1> USE DEF count, booting, tables, disk
<1>0. /\ jobs \in [Ids -> {"none", "idle", "running"}] /\ env \in [Ids -> Nat] /\ minted \in Nat
      /\ row \in [Ids -> RowRec] /\ \A q \in Ids : Real(row[q])
      /\ listed \in [Ids -> RowRec] /\ \A q \in Ids : Real(listed[q])
      /\ NoRow \in RowRec /\ Real(NoRow)
    BY IdleFacts DEF ProcInv, Typed, RowsAreReal, Real
<1>1. ASSUME NEW p \in Ids, Exits(p) \/ StartedByHand(p) PROVE ProcInv'
    BY <1>0, <1>1, QuietKeeps DEF Exits, StartedByHand
<1>2. CASE BootLoad
    BY <1>0, <1>2, QuietKeeps DEF BootLoad
<1>3. CASE Sweep
    BY <1>0, <1>3, QuietKeeps DEF Sweep
<1>4. CASE BootList
    <2>1. /\ boot \in {"listing", "restored", "routed", "ticked"}
          /\ boot' \in {"restoring", "reloading", "ticking", "probing"}
          /\ listed' = row /\ UNCHANGED <<row, env, jobs, th, holder, minted>>
        BY <1>4 DEF BootList, Lists
    <2> QED
        BY <1>0, <2>1, QuietKeeps
<1>5. ASSUME NEW p \in Ids, Restore(p) PROVE ProcInv'
    <2>1. /\ jobs' \in [Ids -> {"none", "idle", "running"}]
          /\ listed' \in [Ids -> RowRec] /\ \A q \in Ids : Real(listed'[q])
        BY <1>0, <1>5 DEF Restore, JobsWith
    <2> QED
        BY <1>0, <1>5, <2>1, QuietKeeps DEF Restore
<1>6. ASSUME NEW p \in Ids, RestoreMissing(p) PROVE ProcInv'
    <2>1. /\ jobs' \in [Ids -> {"none", "idle", "running"}]
          /\ listed' \in [Ids -> RowRec] /\ \A q \in Ids : Real(listed'[q])
          /\ row' \in [Ids -> RowRec] /\ \A q \in Ids : Real(row'[q])
        BY <1>0, <1>6 DEF RestoreMissing, Forget
    <2> QED
        BY <1>0, <1>6, <2>1, QuietKeeps DEF RestoreMissing
<1>7. CASE RestoreDone \/ BootRoutes
    BY <1>0, <1>7, QuietKeeps DEF RestoreDone, BootRoutes
<1>8. CASE BootJobs
    <2>1. jobs' \in [Ids -> {"none", "idle", "running"}]
        BY <1>0, <1>8 DEF BootJobs
    <2> QED
        BY <1>0, <1>8, <2>1, QuietKeeps DEF BootJobs
<1>9. CASE BootProbes
    <2>1. listed' \in [Ids -> RowRec] /\ \A q \in Ids : Real(listed'[q])
        BY <1>0, <1>9 DEF BootProbes
    <2> QED
        BY <1>0, <1>9, <2>1, QuietKeeps DEF BootProbes
<1> QED
    BY <1>1, <1>2, <1>3, <1>4, <1>5, <1>6, <1>7, <1>8, <1>9 DEF Boot

\* A stop of the daemon keeps it.
LEMMA Crashes == ASSUME ProcInv, Crash PROVE ProcInv'
<1>1. /\ th' = [t \in Threads |-> Idle] /\ boot' = "down" /\ UNCHANGED <<row, env, minted>>
      /\ holder' = [p \in Ids |-> Nobody] /\ jobs' = [p \in Ids |-> "none"]
      /\ listed' = [p \in Ids |-> NoRow]
    BY DEF Crash, disk
<1>2. Typed'
    BY <1>1, IdleFacts DEF ProcInv, Typed
<1>3. LocksAreHeld'
    BY <1>1, IdleFacts DEF LocksAreHeld, Locked
<1>4. FilesAreOwned'
    BY <1>1 DEF FilesAreOwned
<1>5. RowsAreReal' /\ RunsHaveRows'
    BY <1>1, IdleFacts DEF ProcInv, RowsAreReal, RunsHaveRows, Real
<1> QED
    BY <1>2, <1>3, <1>4, <1>5 DEF ProcInv

\* It holds at the first start.
LEMMA ProcInit == Init => ProcInv
<1> SUFFICES ASSUME Init PROVE ProcInv
    OBVIOUS
<1>1. Typed
    BY IdleFacts DEF Init, Typed
<1>2. LocksAreHeld /\ FilesAreOwned
    BY IdleFacts DEF Init, LocksAreHeld, Locked, FilesAreOwned
<1>3. RowsAreReal /\ RunsHaveRows
    BY IdleFacts DEF Init, RowsAreReal, RunsHaveRows, Real
<1> QED
    BY <1>1, <1>2, <1>3 DEF ProcInv

\* And every step keeps it.
LEMMA ProcStep == ProcInv /\ [Next]_vars => ProcInv'
<1> SUFFICES ASSUME ProcInv, [Next]_vars PROVE ProcInv'
    OBVIOUS
<1> USE DEF Threads
<1>1. ASSUME NEW s \in Sessions, NEW p \in Ids,
             \/ \E k \in {"service", "job"} : RegisterAsk(s, p, k)
             \/ \E op \in {"start", "stop", "remove"} : VerbAsk(s, p, op)
             \/ UnregisterAsk(s, p)
      PROVE  ProcInv'
    BY <1>1, Registers, Asks
<1>2. ASSUME NEW t \in Ticks, NEW p \in Ids, TickDue(t, p) PROVE ProcInv'
    BY <1>2, TickBegins
<1>3. ASSUME NEW h \in Probers, NEW p \in Ids, Reroute(h, p) PROVE ProcInv'
    BY <1>3, RerouteBegins
<1>4. ASSUME NEW t \in Threads, Goes(t) PROVE ProcInv'
    BY <1>4, Locks, Registers, Starts, Stops, TicksGoOn, Routes DEF Goes
<1>5. ASSUME NEW t \in Ticks, TickWaited(t) PROVE ProcInv'
    BY <1>5, TicksGoOn
<1>6. CASE Boot \/ (\E p \in Ids : Exits(p) \/ StartedByHand(p))
    BY <1>6, Boots
<1>7. CASE Crash
    BY <1>7, Crashes
<1>8. CASE UNCHANGED vars
    BY <1>8 DEF vars, ProcInv, Typed, LocksAreHeld, FilesAreOwned, RowsAreReal, RunsHaveRows, OfFile
<1> QED
    BY <1>1, <1>2, <1>3, <1>4, <1>5, <1>6, <1>7, <1>8 DEF Next

\* Every state of a Process satisfies the invariant, whatever the ids, goroutines and bounds.
THEOREM ProcInvariant == Spec => []ProcInv
    BY ProcInit, ProcStep, PTL DEF Spec

-----------------------------------------------------------------------------
\* Once a boot has swept, a token on disk is that of the start or the run with the lock of its Process, for any
\* number of sessions, ticks and stops (run.go writeEnvFile, sweepEnvDir).
THEOREM FilesStayTheirs == Spec => []FileBelongsToItsStart
<1>1. ASSUME ProcInv PROVE FileBelongsToItsStart
    <2> SUFFICES ASSUME boot \notin {"down", "sweeping"}, NEW p \in Ids, env[p] # 0
                 PROVE  \E t \in Threads : holder[p] = t /\ th[t].op \in {"start", "tick"} /\ th[t].tok = env[p]
        BY DEF FileBelongsToItsStart
    <2>1. PICK t \in Threads : OfFile(th[t], p)
        BY <1>1 DEF ProcInv, FilesAreOwned
    <2>2. Locked(th[t])
        BY <2>1 DEF OfFile, Locked
    <2> QED
        BY <1>1, <2>1, <2>2 DEF OfFile, ProcInv, LocksAreHeld
<1> QED
    BY <1>1, ProcInvariant, PTL

-----------------------------------------------------------------------------
\* What a step does to a goroutine: it goes on with what it does, or answers, or begins what goroutines of its kind do.
Begins(t) ==
    /\ th[t].op = "none"
    /\ \/ t \in Sessions /\ Calling(th'[t]) /\ th'[t].at \in {"registering", "waiting"}
       \/ t \in Ticks /\ th'[t].op = "tick" /\ th'[t].at = "waiting"
       \/ t \in Probers /\ th'[t].op = "reroute" /\ th'[t].at = "rereading"
\* It goes on with what it does; every other stands.
GoneOn(t) == th'[t].op = th[t].op /\ th'[t].id = th[t].id
Alone(t)  == \A u \in Threads : u # t => th'[u] = th[u]

\* A goroutine gets to its entrypoint's wait from the start of a container, and to that from its creation.
LEMMA StepsGoOn ==
    ASSUME ProcInv, NEW t \in Threads, Goes(t) \/ TickWaited(t)
    PROVE  /\ Alone(t)
           /\ th'[t] = Idle \/ GoneOn(t)
           /\ th'[t].at = "going" => th[t].op = "tick" /\ th[t].at = "starting"
           /\ th'[t].at # "registering"
           /\ th[t].at # "idle"
<1> USE DEF At
<1>0. Typed /\ th[t] \in ThRec /\ InPlace(th[t]) /\ th \in [Threads -> ThRec]
    BY DEF ProcInv, Typed
<1>1. ASSUME NEW s \in Ats, Goto(t, s) PROVE Alone(t) /\ GoneOn(t) /\ th'[t].at = s
    BY <1>0, <1>1, GotoSteps DEF Steps, Alone, GoneOn
<1>2. ASSUME Leave(t) PROVE Alone(t) /\ th'[t] = Idle /\ th'[t].at = "idle"
    BY <1>0, <1>2, LeaveLeaves, IdleFacts DEF Leaves, Alone
<1>3. ASSUME NEW s, NEW r, th' = [th EXCEPT ![t].at = s, ![t].row = r]
      PROVE  Alone(t) /\ GoneOn(t) /\ th'[t].at = s
    <2> DEFINE n == [th[t] EXCEPT !.at = s, !.row = r]
    <2>1. n.at = s /\ n.op = th[t].op /\ n.id = th[t].id
        BY <1>0 DEF ThRec
    <2>2. th' = [th EXCEPT ![t] = n]
        BY <1>3
    <2> HIDE DEF n
    <2> QED
        BY <1>0, <2>1, <2>2 DEF Alone, GoneOn
<1>4. ASSUME NEW s, NEW k, th' = [th EXCEPT ![t].at = s, ![t].tok = k]
      PROVE  Alone(t) /\ GoneOn(t) /\ th'[t].at = s
    <2> DEFINE n == [th[t] EXCEPT !.at = s, !.tok = k]
    <2>1. n.at = s /\ n.op = th[t].op /\ n.id = th[t].id
        BY <1>0 DEF ThRec
    <2>2. th' = [th EXCEPT ![t] = n]
        BY <1>4
    <2> HIDE DEF n
    <2> QED
        BY <1>0, <2>1, <2>2 DEF Alone, GoneOn
<1>5. ASSUME NEW s, NEW b, th' = [th EXCEPT ![t].at = s, ![t].live = b]
      PROVE  Alone(t) /\ GoneOn(t) /\ th'[t].at = s
    <2> DEFINE n == [th[t] EXCEPT !.at = s, !.live = b]
    <2>1. n.at = s /\ n.op = th[t].op /\ n.id = th[t].id
        BY <1>0 DEF ThRec
    <2>2. th' = [th EXCEPT ![t] = n]
        BY <1>5
    <2> HIDE DEF n
    <2> QED
        BY <1>0, <2>1, <2>2 DEF Alone, GoneOn
<1>6. CASE Lock(t)
    <2>1. th[t].op \in Ats \ {"going", "registering"}
        BY <1>6, OpsOfPlaces DEF Lock, Ats
    <2> QED
        BY <1>1, <1>6, <2>1 DEF Lock
<1>7. CASE Registering(t)
    BY <1>1, <1>2, <1>3, <1>7 DEF Registering, RegisterWrite, RegisterRefuse, RegisterTrack, Ats
<1>8. CASE Starting(t)
    <2>1. CASE StartMint(t)
        BY <1>4, <2>1 DEF StartMint
    <2> QED
        BY <1>1, <1>2, <1>8, <2>1, OpsOfPlaces, IdleFacts
        DEF Starting, StartRefuse, WriteEnv, Create, Fail, Started, StartProbe, Ats
<1>9. CASE Stopping(t)
    BY <1>1, <1>2, <1>9, IdleFacts
    DEF Stopping, Stop, Remove, StopOrRemoveFails, Unroute, Unregister, Untrack, Ats
<1>10. CASE Ticking(t)
    <2>1. CASE TickRead(t)
        BY <1>2, <1>3, <2>1 DEF TickRead, TickEnds
    <2>2. CASE TickMint(t)
        BY <1>2, <1>4, <2>2 DEF TickMint, TickEnds
    <2>3. CASE TickStarted(t) \/ Revoke(t)
        BY <1>1, <1>2, <2>3 DEF TickStarted, Revoke, TickEnds, Ats
    <2> QED
        BY <1>10, <2>1, <2>2, <2>3 DEF Ticking
<1>11. CASE Routing(t)
    BY <1>2, <1>3, <1>5, <1>11 DEF Routing, RerouteRead, RouteRead, RouteWrite
<1>12. CASE TickWaited(t)
    BY <1>1, <1>12 DEF TickWaited, Ats
<1> QED
    BY <1>6, <1>7, <1>8, <1>9, <1>10, <1>11, <1>12 DEF Goes

\* What a goroutine begins with says what it is.
LEMMA StepsBegin ==
    ASSUME ProcInv, NEW t \in Threads, NEW p \in Ids,
           \/ t \in Sessions /\ \E k \in {"service", "job"} : RegisterAsk(t, p, k)
           \/ t \in Sessions /\ \E op \in {"start", "stop", "remove"} : VerbAsk(t, p, op)
           \/ t \in Sessions /\ UnregisterAsk(t, p)
           \/ t \in Ticks /\ TickDue(t, p)
           \/ t \in Probers /\ Reroute(t, p)
    PROVE  /\ Alone(t) /\ Begins(t) /\ th'[t].id = p /\ UNCHANGED row
           /\ Registered(th'[t]) => row[p] # NoRow
           /\ Calling(th'[t]) => raced' = (raced \/ boot # "up") /\ UNCHANGED jobs
<1> USE DEF At, disk, tables
<1>0. th \in [Threads -> ThRec] /\ (th[t].at = "idle" => th[t].op = "none")
    BY OpsOfPlaces DEF ProcInv, Typed
<1>1. ASSUME NEW n, th' = [th EXCEPT ![t] = n] PROVE Alone(t) /\ th'[t] = n
    BY <1>0, <1>1 DEF Alone
<1>2. ASSUME NEW k \in {"service", "job"}, t \in Sessions, RegisterAsk(t, p, k)
      PROVE  /\ Alone(t) /\ Begins(t) /\ th'[t].id = p /\ UNCHANGED row
             /\ Registered(th'[t]) => row[p] # NoRow
             /\ raced' = (raced \/ boot # "up") /\ UNCHANGED jobs
    <2> DEFINE n == [Idle EXCEPT !.at = "registering", !.op = "register", !.id = p,
                                 !.row.kind = k, !.live = Exists(p) /\ k = "service"]
    <2>1. n.at = "registering" /\ n.op = "register" /\ n.id = p /\ th' = [th EXCEPT ![t] = n]
        BY <1>2 DEF RegisterAsk, Idle
    <2> HIDE DEF n
    <2> QED
        BY <1>0, <1>1, <1>2, <2>1 DEF RegisterAsk, Race, Begins, Calling, Registered
<1>3. ASSUME NEW op \in {"start", "stop", "remove"}, t \in Sessions, VerbAsk(t, p, op)
      PROVE  /\ Alone(t) /\ Begins(t) /\ th'[t].id = p /\ UNCHANGED row
             /\ Registered(th'[t]) => row[p] # NoRow
             /\ raced' = (raced \/ boot # "up") /\ UNCHANGED jobs
    <2> DEFINE n == [Idle EXCEPT !.at = "waiting", !.op = op, !.id = p, !.row = row[p]]
    <2>1. n.at = "waiting" /\ n.op = op /\ n.id = p /\ th' = [th EXCEPT ![t] = n]
        BY <1>3 DEF VerbAsk, Idle
    <2> HIDE DEF n
    <2> QED
        BY <1>0, <1>1, <1>3, <2>1 DEF VerbAsk, Race, Begins, Calling, Registered
<1>4. ASSUME t \in Sessions, UnregisterAsk(t, p)
      PROVE  /\ Alone(t) /\ Begins(t) /\ th'[t].id = p /\ UNCHANGED row
             /\ Registered(th'[t]) => row[p] # NoRow
             /\ raced' = (raced \/ boot # "up") /\ UNCHANGED jobs
    <2> DEFINE n == [Idle EXCEPT !.at = "waiting", !.op = "unregister", !.id = p]
    <2>1. n.at = "waiting" /\ n.op = "unregister" /\ n.id = p /\ th' = [th EXCEPT ![t] = n]
        BY <1>4 DEF UnregisterAsk, Idle
    <2> HIDE DEF n
    <2> QED
        BY <1>0, <1>1, <1>4, <2>1 DEF UnregisterAsk, Race, Begins, Calling, Registered
<1>5. ASSUME t \in Ticks, TickDue(t, p)
      PROVE  Alone(t) /\ Begins(t) /\ th'[t].id = p /\ UNCHANGED row /\ th'[t].op = "tick"
    <2> DEFINE n == [Idle EXCEPT !.at = "waiting", !.op = "tick", !.id = p]
    <2>1. n.at = "waiting" /\ n.op = "tick" /\ n.id = p /\ th' = [th EXCEPT ![t] = n]
        BY <1>5 DEF TickDue, Idle
    <2> HIDE DEF n
    <2> QED
        BY <1>0, <1>1, <1>5, <2>1 DEF TickDue, Begins
<1>6. ASSUME t \in Probers, Reroute(t, p)
      PROVE  Alone(t) /\ Begins(t) /\ th'[t].id = p /\ UNCHANGED row /\ th'[t].op = "reroute"
    <2> DEFINE n == [Idle EXCEPT !.at = "rereading", !.op = "reroute", !.id = p]
    <2>1. n.at = "rereading" /\ n.op = "reroute" /\ n.id = p /\ th' = [th EXCEPT ![t] = n]
        BY <1>6 DEF Reroute, Idle
    <2> HIDE DEF n
    <2> QED
        BY <1>0, <1>1, <1>6, <2>1 DEF Reroute, Begins
<1> QED
    BY <1>2, <1>3, <1>4, <1>5, <1>6 DEF Calling, Registered

\* A step of the daemon or the host moves no goroutine but to stop them all.
LEMMA QuietSteps ==
    ASSUME Boot \/ (\E p \in Ids : Exits(p) \/ StartedByHand(p)) \/ UNCHANGED vars
    PROVE  UNCHANGED th
    BY DEF Boot, BootLoad, Sweep, BootList, Restore, RestoreMissing, RestoreDone, BootRoutes, BootJobs,
           BootProbes, Exits, StartedByHand, vars

\* The kinds of step of Next, and what each does to the goroutines.
Spoken(t, p) ==
    \/ t \in Sessions /\ \E k \in {"service", "job"} : RegisterAsk(t, p, k)
    \/ t \in Sessions /\ \E op \in {"start", "stop", "remove"} : VerbAsk(t, p, op)
    \/ t \in Sessions /\ UnregisterAsk(t, p)
    \/ t \in Ticks /\ TickDue(t, p)
    \/ t \in Probers /\ Reroute(t, p)
\* A step is one of these.
LEMMA StepCases ==
    ASSUME [Next]_vars
    PROVE  \/ \E t \in Threads, p \in Ids : Spoken(t, p)
           \/ \E t \in Threads : Goes(t) \/ TickWaited(t)
           \/ Crash
           \/ Boot
           \/ (\E p \in Ids : Exits(p) \/ StartedByHand(p)) \/ UNCHANGED vars
    BY DEF Next, Threads, Spoken

\* Who calls stays a session, and who ticks a tick.
LEMMA CallersStep == ASSUME ProcInv, Callers, [Next]_vars PROVE Callers'
<1> USE DEF Callers, Calling
<1>1. ASSUME NEW t \in Threads, NEW p \in Ids, Spoken(t, p) PROVE Callers'
    BY <1>1, StepsBegin DEF Spoken, Alone, Begins
<1>2. ASSUME NEW t \in Threads, Goes(t) \/ TickWaited(t) PROVE Callers'
    BY <1>2, StepsGoOn, IdleFacts DEF Alone, GoneOn
<1>3. CASE Crash
    BY <1>3, IdleFacts DEF Crash
<1>4. CASE UNCHANGED th
    BY <1>4
<1> QED
    BY <1>1, <1>2, <1>3, <1>4, StepCases, QuietSteps

-----------------------------------------------------------------------------
\* A token goes from a row that stays only with the end of the run that has it.
LEMMA TokensStay ==
    ASSUME ProcInv, NEW t \in Threads, Goes(t) \/ TickWaited(t), NEW p \in Ids
    PROVE  \/ row'[p] = row[p] \/ row'[p] = NoRow \/ row'[p].tok # 0
           \/ th[t].at = "revoking" /\ th[t].id = p /\ th[t].tok = row[p].tok
<1> USE DEF At, disk
<1>0. minted \in Nat /\ row \in [Ids -> RowRec] /\ th[t] \in ThRec
    BY DEF ProcInv, Typed
<1>1. PICK k \in Nat : k = minted + 1 /\ k # 0
    BY <1>0
<1>2. CASE RegisterWrite(t)
    <2> DEFINE r == [kind |-> th[t].row.kind, decl |-> k, tok |-> k]
    <2>1. row' = [row EXCEPT ![th[t].id] = r] /\ r.tok # 0
        BY <1>1, <1>2 DEF RegisterWrite
    <2> HIDE DEF r
    <2> QED
        BY <1>0, <2>1
<1>3. CASE StartMint(t)
    <2> DEFINE r == [th[t].row EXCEPT !.tok = k]
    <2>1. row' = [row EXCEPT ![th[t].id] = r] /\ r.tok # 0
        BY <1>0, <1>1, <1>3 DEF StartMint, ThRec, RowRec
    <2> HIDE DEF r
    <2> QED
        BY <1>0, <2>1
<1>4. CASE TickMint(t)
    <2>1. CASE row' = [row EXCEPT ![th[t].id].tok = k]
        <3> DEFINE r == [row[th[t].id] EXCEPT !.tok = k]
        <3>1. row[p] \in RowRec
            BY <1>0
        <3>2. row' = [row EXCEPT ![th[t].id] = r]
            BY <2>1
        <3>3. th[t].id = p => r.tok # 0
            BY <1>1, <3>1 DEF RowRec
        <3> HIDE DEF r
        <3> QED
            BY <1>0, <3>2, <3>3
    <2> QED
        BY <1>1, <1>4, <2>1 DEF TickMint
<1>5. CASE Unregister(t)
    BY <1>0, <1>5 DEF Unregister
<1>6. CASE Revoke(t)
    <2>1. th[t].id \in Ids /\ th[t].at = "revoking"
        BY <1>6, OpsOfPlaces DEF Revoke
    <2>2. \A q \in Ids : row'[q].tok = row[q].tok \/ (q = th[t].id /\ row[q].tok = th[t].tok)
        BY <1>6, <2>1, RevokedRows DEF Revoke
    <2>3. CASE p = th[t].id /\ row[p].tok = th[t].tok
        BY <2>1, <2>3
    <2>4. CASE ~(p = th[t].id /\ row[p].tok = th[t].tok)
        <3> DEFINE r == [row[th[t].id] EXCEPT !.tok = IF @ = th[t].tok THEN 0 ELSE @]
        <3>1. row' = [row EXCEPT ![th[t].id] = r]
            BY <1>6 DEF Revoke
        <3>2. p = th[t].id => r = row[p]
            BY <1>0, <2>4 DEF RowRec
        <3> HIDE DEF r
        <3> QED
            BY <1>0, <2>1, <3>1, <3>2
    <2> QED
        BY <2>3, <2>4
<1>7. CASE UNCHANGED row
    BY <1>7
<1> QED
    BY <1>2, <1>3, <1>4, <1>5, <1>6, <1>7
    DEF Goes, Lock, Registering, RegisterRefuse, RegisterTrack, Starting, StartRefuse, WriteEnv, Create, Fail, Started,
        StartProbe, Stopping, Stop, Remove, StopOrRemoveFails, Unroute, Untrack, Ticking, TickRead, TickStarted,
        Routing, RerouteRead, RouteRead, RouteWrite, TickWaited

\* A run starts the entrypoint of nothing that is not registered, and a registration that stays loses its token to
\* nothing but the end of the run that has it (schedule.go startRun, RevokeProcessToken): for any number of sessions,
\* runs under way and stops.
THEOREM LateRunsStay == Spec => LateRunsStayTheirOwn
<1> DEFINE Runs == \A t \in Ticks : th[t].at = "starting" /\ th'[t].at = "going" => row[th[t].id] # NoRow
           Ends == \A p \in Ids : row[p].tok # 0 /\ row'[p] # NoRow /\ row'[p].tok = 0
                     => \E t \in Ticks : th[t].at = "revoking" /\ th[t].id = p /\ th[t].tok = row[p].tok
<1>1. Init => Callers
    BY IdleFacts DEF Init, Callers, Calling
<1>2. ProcInv /\ Callers /\ [Next]_vars => Callers'
    BY CallersStep
<1>3. ASSUME ProcInv, [Next]_vars PROVE Runs
    <2> SUFFICES ASSUME NEW t \in Ticks, th[t].at = "starting", th'[t].at = "going" PROVE row[th[t].id] # NoRow
        OBVIOUS
    <2>0. t \in Threads /\ th[t].op # "none"
        BY <1>3, OpsOfPlaces DEF Threads
    <2>1. ASSUME NEW u \in Threads, NEW p \in Ids, Spoken(u, p) PROVE FALSE
        BY <1>3, <2>0, <2>1, StepsBegin DEF Spoken, Alone, Begins
    <2>2. ASSUME NEW u \in Threads, Goes(u) \/ TickWaited(u) PROVE row[th[t].id] # NoRow
        <3>1. th[t].op = "tick"
            BY <1>3, <2>0, <2>2, StepsGoOn DEF Alone
        <3> QED
            BY <1>3, <2>0, <3>1 DEF ProcInv, RunsHaveRows
    <2>3. CASE Crash
        BY <2>0, <2>3, IdleFacts DEF Crash
    <2>4. CASE UNCHANGED th
        BY <2>4
    <2> QED
        BY <1>3, <2>1, <2>2, <2>3, <2>4, StepCases, QuietSteps
<1>4. ASSUME ProcInv, Callers, [Next]_vars PROVE Ends
    <2> SUFFICES ASSUME NEW p \in Ids, row[p].tok # 0, row'[p] # NoRow, row'[p].tok = 0
                 PROVE  \E t \in Ticks : th[t].at = "revoking" /\ th[t].id = p /\ th[t].tok = row[p].tok
        OBVIOUS
    <2>1. ASSUME NEW u \in Threads, NEW q \in Ids, Spoken(u, q) PROVE FALSE
        BY <1>4, <2>1, StepsBegin DEF Spoken
    <2>2. ASSUME NEW u \in Threads, Goes(u) \/ TickWaited(u)
          PROVE  \E t \in Ticks : th[t].at = "revoking" /\ th[t].id = p /\ th[t].tok = row[p].tok
        <3>1. th[u].at = "revoking" /\ th[u].id = p /\ th[u].tok = row[p].tok
            BY <1>4, <2>2, TokensStay
        <3>2. u \in Ticks
            BY <1>4, <3>1, OpsOfPlaces DEF Callers
        <3> QED
            BY <3>1, <3>2
    <2>3. CASE \E q \in Ids : RestoreMissing(q)
        BY <1>4, <2>3 DEF RestoreMissing, ProcInv, Typed
    <2>4. CASE UNCHANGED row
        BY <2>4
    <2> QED
        BY <1>4, <2>1, <2>2, <2>3, <2>4, StepCases
        DEF Crash, disk, Boot, BootLoad, Sweep, BootList, Restore, RestoreDone, BootRoutes, BootJobs,
            BootProbes, Exits, StartedByHand, vars
<1>5. ProcInv /\ Callers /\ [Next]_vars => [Runs]_vars /\ [Ends]_vars
    BY <1>3, <1>4
<1> QED
    BY <1>1, <1>2, <1>5, ProcInvariant, PTL DEF Spec, LateRunsStayTheirOwn, TickRunsRegistered, OnlyItsRunEndsAToken

-----------------------------------------------------------------------------
\* One session at a time: a registration and an unregistration of one id do not race.
OneSession == \A s, t \in Sessions : s = t

\* A step of one goroutine keeps the tables when it forgets nothing that is registered, keeps nothing that is not,
\* and is still about a registration when the call it serves is.
LEMMA TablesKeep ==
    ASSUME ProcInv, TableInv, Callers', NEW t \in Threads, Alone(t), boot # "down", UNCHANGED <<boot, listed>>,
           \A p \in Ids : th[t].at = "untracking" /\ th[t].id = p => IsForgotten(p)',
           ~raced' => ~raced /\ (Calling(th'[t]) => boot = "up") /\ (Registered(th'[t]) => row'[th'[t].id] # NoRow),
           \A p \in Ids : row[p] # NoRow => row'[p] # NoRow,
           \A p \in Ids : ~raced /\ row'[p] = NoRow /\ IsForgotten(p) => IsForgotten(p)'
    PROVE  TableInv'
<1>1. CallsAreServed'
    BY OpsOfPlaces DEF TableInv, CallsAreServed, Alone, Calling, Registered
<1>2. NothingIsKept'
    BY DEF NothingIsKept
<1>3. Forgotten'
    <2> SUFFICES ASSUME ~raced', NEW p \in Ids, row'[p] = NoRow PROVE IsForgotten(p)' \/ Untracking(p)'
        BY DEF Forgotten
    <2>1. IsForgotten(p) \/ Untracking(p)
        BY DEF TableInv, Forgotten
    <2>2. ASSUME Untracking(p) PROVE IsForgotten(p)' \/ Untracking(p)'
        BY <2>2 DEF Untracking, Alone
    <2> QED
        BY <2>1, <2>2
<1> QED
    BY <1>1, <1>2, <1>3 DEF TableInv

\* The steps that leave rows and tables alone, and the ends of calls that do.
LEMMA TablesStand ==
    ASSUME ProcInv, TableInv, Callers', NEW t \in Threads, Alone(t), boot # "down",
           UNCHANGED <<boot, listed, raced>>, th[t].at # "untracking",
           th'[t] = Idle \/ (GoneOn(t) /\ (Registered(th'[t]) => Registered(th[t]))),
           \A p \in Ids : row[p] # NoRow <=> row'[p] # NoRow,
           \A p \in Ids : ~raced /\ row[p] = NoRow /\ IsForgotten(p) => IsForgotten(p)'
    PROVE  TableInv'
<1>1. th[t].op # "none" => th[t].id \in Ids
    BY DEF ProcInv, Typed, InPlace
<1>2. /\ Calling(th'[t]) => Calling(th[t])
      /\ Registered(th'[t]) => Registered(th[t]) /\ th'[t].id = th[t].id /\ th[t].id \in Ids
    BY <1>1, IdleFacts DEF Calling, Registered, GoneOn
<1>3. ~raced => (Calling(th[t]) => boot = "up") /\ (Registered(th[t]) => row[th[t].id] # NoRow)
    BY DEF TableInv, CallsAreServed
<1> QED
    BY <1>2, <1>3, TablesKeep

\* What begins tracks nothing.
LEMMA TablesBegin ==
    ASSUME ProcInv, TableInv, Callers', NEW t \in Threads, NEW p \in Ids, Spoken(t, p)
    PROVE  TableInv'
<1>1. /\ Alone(t) /\ Begins(t) /\ th'[t].id = p /\ UNCHANGED row
      /\ Registered(th'[t]) => row[p] # NoRow
      /\ Calling(th'[t]) => raced' = (raced \/ boot # "up") /\ UNCHANGED jobs
    BY StepsBegin DEF Spoken
<1>2. /\ UNCHANGED <<boot, listed, fan, probes>> /\ boot # "down"
      /\ raced' = raced \/ raced' = (raced \/ boot # "up")
      /\ \A q \in Ids : jobs[q] = "none" => jobs'[q] = "none"
    BY DEF Spoken, RegisterAsk, VerbAsk, UnregisterAsk, TickDue, Reroute, Serving, Race, tables, booting, ProcInv, Typed
<1>3. th[t].at # "untracking"
    BY <1>1, OpsOfPlaces DEF Begins
<1>4. ~raced' => ~raced /\ (Calling(th'[t]) => boot = "up")
    BY <1>1, <1>2
<1>5. \A q \in Ids : ~raced /\ row'[q] = NoRow /\ IsForgotten(q) => IsForgotten(q)'
    BY <1>2 DEF IsForgotten
<1> QED
    BY <1>1, <1>2, <1>3, <1>4, <1>5, TablesKeep

\* What goes on tracks only what its call is about, which is registered, and the unregistration of an id forgets it
\* before it answers.
LEMMA TablesGoOn ==
    ASSUME ProcInv, OneSession, TableInv, Callers', NEW t \in Threads, Goes(t) \/ TickWaited(t)
    PROVE  TableInv'
<1> USE DEF At, disk, tables, booting, count
<1> DEFINE p == th[t].id
<1>0. /\ Alone(t) /\ (th'[t] = Idle \/ GoneOn(t)) /\ th[t].at # "idle" /\ th'[t].at # "registering"
      /\ p \in Ids /\ th[t].op # "none"
    BY StepsGoOn, OpsOfPlaces
<1>1. boot # "down"
    BY <1>0 DEF TableInv, NothingIsKept
<1>2. UNCHANGED <<boot, listed, raced>>
    BY DEF Goes, Lock, Registering, RegisterWrite, RegisterRefuse, RegisterTrack, Starting, StartRefuse, StartMint,
           WriteEnv, Create, Fail, Started, StartProbe, Stopping, Stop, Remove, StopOrRemoveFails, Unroute, Unregister,
           Untrack, Ticking, TickRead, TickMint, TickStarted, Revoke, Routing, RerouteRead, RouteRead, RouteWrite,
           TickWaited
<1>3. jobs \in [Ids -> {"none", "idle", "running"}] /\ row \in [Ids -> RowRec]
    BY DEF ProcInv, Typed
<1>4. \A q \in Ids : jobs[q] = "none" => JobsAfter(p)[q] = "none"
    BY <1>3 DEF JobsAfter
<1>5. th[t].at # "registering" => (Registered(th'[t]) => Registered(th[t]))
    BY <1>0, IdleFacts DEF Registered, GoneOn
<1>6. ~raced => (Calling(th[t]) => boot = "up") /\ (Registered(th[t]) => row[p] # NoRow)
    BY DEF TableInv, CallsAreServed
\* The steps that leave the rows and the tables as they are, or end a run.
<1>7. ASSUME th[t].at \notin {"registering", "untracking"}, UNCHANGED <<row, fan, probes>>,
             jobs' \in {jobs, JobsAfter(p)}
      PROVE  TableInv'
    <2>1. \A q \in Ids : ~raced /\ row[q] = NoRow /\ IsForgotten(q) => IsForgotten(q)'
        BY <1>4, <1>7 DEF IsForgotten
    <2> QED
        BY <1>0, <1>1, <1>2, <1>5, <1>7, <2>1, TablesStand
<1>8. CASE Lock(t)
    BY <1>7, <1>8 DEF Lock
<1>9. CASE RegisterRefuse(t)
    <2>1. UNCHANGED <<row, fan, probes, jobs>> /\ th[t].at = "registering" /\ th'[t] = Idle
        BY <1>9, LeaveLeaves DEF RegisterRefuse, Leaves, ProcInv
    <2>2. ~Registered(th'[t])
        BY <2>1, IdleFacts DEF Registered
    <2>3. \A q \in Ids : ~raced /\ row[q] = NoRow /\ IsForgotten(q) => IsForgotten(q)'
        BY <2>1 DEF IsForgotten
    <2> QED
        BY <1>0, <1>1, <1>2, <2>1, <2>2, <2>3, TablesStand
<1>10. CASE RegisterWrite(t)
    <2>1. PICK k \in Nat : k = minted + 1
        BY DEF ProcInv, Typed
    <2> DEFINE r == [kind |-> th[t].row.kind, decl |-> k, tok |-> k]
    <2>2. /\ row' = [row EXCEPT ![p] = r] /\ UNCHANGED <<fan, probes, jobs>> /\ th[t].at = "registering"
          /\ r.kind = th[t].row.kind
        BY <1>10, <2>1 DEF RegisterWrite
    <2> HIDE DEF r
    <2>3. th[t].op = "register" /\ r.kind # "none"
        BY <2>2, OpsOfPlaces DEF ProcInv, RowsAreReal
    <2>4. row'[p] # NoRow /\ \A q \in Ids : row[q] # NoRow => row'[q] # NoRow
        BY <1>0, <1>3, <2>2, <2>3, IdleFacts
    <2>5. GoneOn(t)
        BY <1>0, <1>10, <1>3 DEF RegisterWrite, ProcInv, Typed, Alone, GoneOn, Idle, ThRec
    <2>6. \A q \in Ids : ~raced /\ row'[q] = NoRow /\ IsForgotten(q) => IsForgotten(q)'
        BY <2>2 DEF IsForgotten
    <2>7. ~raced' => ~raced /\ (Calling(th'[t]) => boot = "up") /\ (Registered(th'[t]) => row'[th'[t].id] # NoRow)
        BY <1>2, <1>6, <2>3, <2>4, <2>5 DEF GoneOn, Calling
    <2> QED
        BY <1>0, <1>1, <1>2, <2>2, <2>4, <2>6, <2>7, TablesKeep
\* What tracks an id tracks one that is registered.
<1>11. ASSUME th[t].at \notin {"registering", "untracking"}, Registered(th[t]), UNCHANGED row,
              \A q \in Ids : q # p /\ IsForgotten(q) => IsForgotten(q)'
       PROVE  TableInv'
    <2>1. \A q \in Ids : ~raced /\ row[q] = NoRow /\ IsForgotten(q) => IsForgotten(q)'
        BY <1>6, <1>11
    <2> QED
        BY <1>0, <1>1, <1>2, <1>5, <1>11, <2>1, TablesStand
<1>12. CASE RegisterTrack(t) \/ StartProbe(t)
    <2>1. th[t].at \in {"tracking", "checking"} /\ Registered(th[t])
        BY <1>12, OpsOfPlaces DEF RegisterTrack, StartProbe, Registered
    <2>2. UNCHANGED <<row, jobs>> /\ \A q \in Ids : q # p /\ IsForgotten(q) => IsForgotten(q)'
        BY <1>12 DEF RegisterTrack, StartProbe, Tracking, IsForgotten
    <2> QED
        BY <1>11, <2>1, <2>2
<1>13. CASE RouteWrite(t)
    <2>1. /\ th[t].at = "naming" /\ UNCHANGED <<row, fan, probes>>
          /\ jobs' = IF th[t].op = "register" THEN JobsWith(p, th[t].row) ELSE jobs
        BY <1>13 DEF RouteWrite
    <2>2. CASE th[t].op = "register"
        <3>1. Registered(th[t])
            BY <2>1, <2>2 DEF Registered
        <3>2. \A q \in Ids : q # p /\ IsForgotten(q) => IsForgotten(q)'
            BY <1>3, <2>1, <2>2 DEF JobsWith, IsForgotten
        <3> QED
            BY <1>11, <2>1, <3>1, <3>2
    <2>3. CASE th[t].op # "register"
        BY <1>7, <2>1, <2>3
    <2> QED
        BY <2>2, <2>3
<1>14. CASE StartMint(t)
    <2>1. PICK k \in Nat : k = minted + 1
        BY DEF ProcInv, Typed
    <2> DEFINE r == [th[t].row EXCEPT !.tok = k]
    <2>2. /\ row' = [row EXCEPT ![p] = r] /\ UNCHANGED <<fan, probes, jobs>> /\ th[t].at = "start"
          /\ th[t].op = "start"
        BY <1>14, <2>1, OpsOfPlaces DEF StartMint
    <2>3. r.kind # "none"
        BY <2>2 DEF ProcInv, Typed, RowsAreReal, ThRec, RowRec
    <2> HIDE DEF r
    <2>4. row'[p] # NoRow /\ \A q \in Ids : row[q] # NoRow => row'[q] # NoRow
        BY <1>0, <1>3, <2>2, <2>3, IdleFacts
    <2>5. \A q \in Ids : ~raced /\ row'[q] = NoRow /\ IsForgotten(q) => IsForgotten(q)'
        BY <2>2 DEF IsForgotten
    <2>6. ~raced' => ~raced /\ (Calling(th'[t]) => boot = "up") /\ (Registered(th'[t]) => row'[th'[t].id] # NoRow)
        BY <1>0, <1>2, <1>6, <2>2, <2>4, IdleFacts DEF GoneOn, Calling, Registered
    <2> QED
        BY <1>0, <1>1, <1>2, <2>2, <2>4, <2>5, <2>6, TablesKeep
<1>15. CASE WriteEnv(t) \/ Create(t) \/ StartRefuse(t) \/ Started(t) \/ Fail(t)
    BY <1>7, <1>15 DEF WriteEnv, Create, StartRefuse, Started, Fail
<1>16. CASE Stop(t) \/ Remove(t) \/ StopOrRemoveFails(t) \/ Unroute(t)
    BY <1>7, <1>16 DEF Stop, Remove, StopOrRemoveFails, Unroute
<1>17. CASE Untrack(t)
    <2>1. /\ th[t].at = "untracking" /\ Forget(p) /\ UNCHANGED row /\ th'[t] = Idle
        BY <1>17, LeaveLeaves DEF Untrack, Leaves, ProcInv
    <2>2. \A q \in Ids : IsForgotten(q) \/ q = p => IsForgotten(q)'
        BY <1>0, <1>3, <2>1 DEF Forget, IsForgotten
    <2> QED
        BY <1>0, <1>1, <1>2, <2>1, <2>2, TablesKeep, IdleFacts DEF Calling, Registered
<1>18. CASE Unregister(t)
    <2>1. /\ th[t].at = "unregister" /\ th[t].op = "unregister" /\ row' = [row EXCEPT ![p] = NoRow]
          /\ UNCHANGED <<fan, probes, jobs>>
        BY <1>18, OpsOfPlaces DEF Unregister
    <2>2. Calling(th[t]) /\ t \in Sessions
        BY <2>1 DEF Calling, TableInv, Callers
    <2>3. ~Registered(th'[t])
        BY <1>0, <2>1, IdleFacts DEF Registered, GoneOn
    <2>4. CallsAreServed'
        <3> SUFFICES ASSUME ~raced
                     PROVE  /\ boot = "up" /\ \A q \in Ids : listed[q] = NoRow
                            /\ \A u \in Threads : ~Registered(th'[u])
            BY <1>2 DEF CallsAreServed
        <3>1. boot = "up" /\ \A q \in Ids : listed[q] = NoRow
            BY <2>2 DEF TableInv, CallsAreServed
        <3>2. ASSUME NEW u \in Threads, Registered(th'[u]) PROVE FALSE
            <4>1. u # t /\ th'[u] = th[u]
                BY <1>0, <2>3, <3>2 DEF Alone
            <4>2. u \in Sessions
                BY <3>2, <4>1 DEF Registered, Calling, TableInv, Callers
            <4> QED
                BY <2>2, <4>1, <4>2 DEF OneSession
        <3> QED
            BY <3>1, <3>2
    <2>5. Forgotten'
        <3> SUFFICES ASSUME ~raced, NEW q \in Ids, row'[q] = NoRow PROVE IsForgotten(q)' \/ Untracking(q)'
            BY <1>2 DEF Forgotten
        <3>1. CASE row[q] = NoRow
            <4>1. IsForgotten(q) \/ Untracking(q)
                BY <1>1, <3>1 DEF TableInv, Forgotten
            <4>2. IsForgotten(q) => IsForgotten(q)'
                BY <2>1 DEF IsForgotten
            <4>3. ASSUME Untracking(q) PROVE Untracking(q)'
                BY <1>0, <2>1, <4>3 DEF Untracking, Alone
            <4> QED
                BY <4>1, <4>2, <4>3
        <3>2. CASE row[q] # NoRow
            <4>1. q = p
                BY <1>0, <1>3, <2>1, <3>2
            <4>2. Goto(t, "untracking")
                BY <1>18, <3>2, <4>1 DEF Unregister
            <4>3. th'[t].at = "untracking" /\ th'[t].id = q
                BY <4>1, <4>2, GotoSteps DEF Steps, Ats, ProcInv
            <4> QED
                BY <4>3 DEF Untracking
        <3> QED
            BY <3>1, <3>2
    <2> QED
        BY <1>1, <1>2, <2>4, <2>5 DEF TableInv, NothingIsKept
<1>19. CASE TickRead(t)
    BY <1>7, <1>19 DEF TickRead, TickEnds
<1>20. CASE TickMint(t)
    <2>1. th[t].at = "minting" /\ UNCHANGED <<fan, probes>>
        BY <1>20 DEF TickMint
    <2>2. CASE TickEnds(t) /\ UNCHANGED row
        BY <1>7, <2>1, <2>2 DEF TickEnds
    <2>3. PICK k \in Nat : k = minted + 1
        BY DEF ProcInv, Typed
    <2>4. CASE row' = [row EXCEPT ![p].tok = k] /\ row[p] # NoRow /\ UNCHANGED jobs
        <3> DEFINE r == [row[p] EXCEPT !.tok = k]
        <3>1. r.kind # "none" /\ row' = [row EXCEPT ![p] = r]
            BY <1>0, <1>3, <2>4 DEF ProcInv, RowsAreReal, Real, RowRec
        <3> HIDE DEF r
        <3>2. \A q \in Ids : row[q] # NoRow <=> row'[q] # NoRow
            BY <1>0, <1>3, <2>4, <3>1, IdleFacts
        <3>3. \A q \in Ids : ~raced /\ row[q] = NoRow /\ IsForgotten(q) => IsForgotten(q)'
            BY <2>1, <2>4 DEF IsForgotten
        <3> QED
            BY <1>0, <1>1, <1>2, <1>5, <2>1, <3>2, <3>3, TablesStand
    <2> QED
        BY <1>20, <2>2, <2>3, <2>4 DEF TickMint
<1>21. CASE TickStarted(t) \/ TickWaited(t)
    BY <1>7, <1>21 DEF TickStarted, TickWaited
<1>22. CASE Revoke(t)
    <2>1. th[t].at = "revoking" /\ UNCHANGED <<fan, probes>> /\ jobs' = JobsAfter(p)
        BY <1>22 DEF Revoke, TickEnds
    <2>2. \A q \in Ids : row[q] # NoRow <=> row'[q] # NoRow
        BY <1>0, <1>22, RevokedRows DEF Revoke
    <2>3. \A q \in Ids : ~raced /\ row[q] = NoRow /\ IsForgotten(q) => IsForgotten(q)'
        BY <1>4, <2>1 DEF IsForgotten
    <2> QED
        BY <1>0, <1>1, <1>2, <1>5, <2>1, <2>2, <2>3, TablesStand
<1>23. CASE RerouteRead(t) \/ RouteRead(t)
    BY <1>7, <1>23 DEF RerouteRead, RouteRead
<1> QED
    BY <1>8, <1>9, <1>10, <1>12, <1>13, <1>14, <1>15, <1>16, <1>17, <1>18, <1>19, <1>20, <1>21, <1>22, <1>23
    DEF Goes, Registering, Starting, Stopping, Ticking, Routing

\* A boot keeps what it has read registered, and tracks nothing else.
LEMMA TablesBoot ==
    ASSUME ProcInv, TableInv, Callers', Boot \/ Crash \/ (\E p \in Ids : Exits(p) \/ StartedByHand(p)) \/ UNCHANGED vars
    PROVE  TableInv'
<1> USE DEF tables, disk, booting, count
<1>0. jobs \in [Ids -> {"none", "idle", "running"}] /\ row \in [Ids -> RowRec] /\ listed \in [Ids -> RowRec]
    BY DEF ProcInv, Typed
<1>1. \A p \in Ids : ~raced /\ listed[p] # NoRow => row[p] # NoRow
    BY DEF TableInv, CallsAreServed
<1>2. CASE Crash
    <2>1. /\ boot' = "down" /\ \A t \in Threads : th'[t] = Idle
          /\ fan' = {} /\ probes' = {} /\ jobs' = [p \in Ids |-> "none"] /\ listed' = [p \in Ids |-> NoRow]
        BY <1>2 DEF Crash
    <2> QED
        BY <2>1, IdleFacts
        DEF TableInv, CallsAreServed, Calling, Registered, NothingIsKept, Forgotten, IsForgotten
\* A step that stops no goroutine, comes to no "down", reads what is there and tracks what it has read.
<1>3. ASSUME UNCHANGED <<th, raced>>, boot' # "down",
             boot' = "up" => boot = "up" \/ (boot = "probing" /\ listed' = [p \in Ids |-> NoRow]),
             boot = "up" => boot' = "up" /\ listed' = listed,
             \A p \in Ids : ~raced /\ listed'[p] # NoRow => row'[p] # NoRow,
             \A p \in Ids : row[p] # NoRow => row'[p] # NoRow \/ boot # "up",
             \A p \in Ids : ~raced /\ row'[p] = NoRow
                            => IsForgotten(p)' \/ (row[p] = NoRow /\ (IsForgotten(p) => IsForgotten(p)'))
      PROVE  TableInv'
    <2>1. ~raced /\ boot # "up" => \A t \in Threads : ~Calling(th[t]) /\ ~Registered(th[t])
        BY DEF TableInv, CallsAreServed, Calling, Registered
    <2>2. CallsAreServed'
        BY <1>3, <2>1, OpsOfPlaces DEF TableInv, CallsAreServed, Registered
    <2>3. Forgotten'
        <3> SUFFICES ASSUME ~raced, NEW p \in Ids, row'[p] = NoRow PROVE IsForgotten(p)' \/ Untracking(p)'
            BY <1>3 DEF Forgotten
        <3>1. boot = "down" => IsForgotten(p)
            BY DEF TableInv, NothingIsKept
        <3>2. boot # "down" /\ row[p] = NoRow => IsForgotten(p) \/ Untracking(p)
            BY DEF TableInv, Forgotten
        <3>3. Untracking(p) => Untracking(p)'
            BY <1>3 DEF Untracking
        <3> QED
            BY <1>3, <3>1, <3>2, <3>3
    <2> QED
        BY <1>3, <2>2, <2>3 DEF TableInv, NothingIsKept
<1>4. CASE BootLoad
    <2>1. \A p \in Ids : row[p] = NoRow => (IsForgotten(p) => IsForgotten(p)')
        BY <1>4 DEF BootLoad, IsForgotten
    <2> QED
        BY <1>1, <1>3, <1>4, <2>1 DEF BootLoad
<1>5. ASSUME UNCHANGED <<th, raced, row, fan, probes, jobs, boot, listed>>, boot # "down" PROVE TableInv'
    BY <1>1, <1>3, <1>5 DEF IsForgotten
<1>6. CASE UNCHANGED <<th, raced, row, fan, probes, jobs, boot, listed>> /\ boot = "down"
    BY <1>6 DEF TableInv, CallsAreServed, NothingIsKept, Forgotten, IsForgotten
<1>7. CASE Sweep \/ RestoreDone
    BY <1>1, <1>3, <1>7 DEF Sweep, RestoreDone, IsForgotten
<1>8. CASE BootList
    <2>1. boot' \in {"restoring", "reloading", "ticking", "probing"} /\ boot # "up" /\ listed' = row
          /\ UNCHANGED <<th, raced, row, fan, probes, jobs>>
        BY <1>8 DEF BootList, Lists
    <2> QED
        BY <1>3, <2>1 DEF IsForgotten
<1>9. ASSUME NEW p \in Ids, Restore(p) PROVE TableInv'
    <2>1. /\ boot = "restoring" /\ listed[p] # NoRow /\ UNCHANGED <<th, raced, row, fan, probes, boot>>
          /\ listed' = [listed EXCEPT ![p] = NoRow] /\ jobs' \in {jobs, JobsWith(p, listed[p])}
        BY <1>9 DEF Restore
    <2>2. \A q \in Ids : ~raced /\ row[q] = NoRow /\ IsForgotten(q) => IsForgotten(q)'
        BY <1>0, <1>1, <2>1 DEF JobsWith, IsForgotten
    <2>3. \A q \in Ids : ~raced /\ listed'[q] # NoRow => row'[q] # NoRow
        BY <1>0, <1>1, <2>1
    <2> QED
        BY <1>3, <2>1, <2>2, <2>3
<1>10. ASSUME NEW p \in Ids, RestoreMissing(p) PROVE TableInv'
    <2>1. /\ boot = "restoring" /\ UNCHANGED <<th, raced, boot>> /\ Forget(p)
          /\ listed' = [listed EXCEPT ![p] = NoRow] /\ row' = [row EXCEPT ![p] = NoRow]
        BY <1>10 DEF RestoreMissing
    <2>2. \A q \in Ids : (q = p => IsForgotten(q)') /\ (q # p => row'[q] = row[q] /\ (IsForgotten(q) => IsForgotten(q)'))
        BY <1>0, <2>1 DEF Forget, IsForgotten
    <2>3. \A q \in Ids : ~raced /\ listed'[q] # NoRow => row'[q] # NoRow
        BY <1>0, <1>1, <2>1
    <2> QED
        BY <1>3, <2>1, <2>2, <2>3
<1>11. CASE BootRoutes
    BY <1>1, <1>3, <1>11 DEF BootRoutes, IsForgotten
<1>12. CASE BootJobs
    <2>1. /\ boot = "ticking" /\ boot' = "ticked" /\ UNCHANGED <<th, raced, row, fan, probes, listed>>
          /\ jobs' = [p \in Ids |-> IF Job(listed[p]) /\ jobs[p] = "none" THEN "idle" ELSE jobs[p]]
        BY <1>12 DEF BootJobs
    <2>2. \A q \in Ids : ~raced /\ row[q] = NoRow /\ IsForgotten(q) => IsForgotten(q)'
        BY <1>1, <2>1, IdleFacts DEF IsForgotten, Job
    <2> QED
        BY <1>1, <1>3, <2>1, <2>2
<1>13. CASE BootProbes
    <2>1. /\ boot = "probing" /\ boot' = "up" /\ UNCHANGED <<th, raced, row, fan, jobs>>
          /\ probes' = {p \in Ids : IF listed[p].kind = "service" THEN Exists(p) ELSE p \in probes}
          /\ listed' = [p \in Ids |-> NoRow]
        BY <1>13 DEF BootProbes
    <2>2. \A q \in Ids : ~raced /\ row[q] = NoRow /\ IsForgotten(q) => IsForgotten(q)'
        BY <1>1, <2>1, IdleFacts DEF IsForgotten
    <2> QED
        BY <1>3, <2>1, <2>2
<1>14. CASE (\E p \in Ids : Exits(p) \/ StartedByHand(p)) \/ UNCHANGED vars
    BY <1>5, <1>6, <1>14 DEF Exits, StartedByHand, vars
<1> QED
    BY <1>2, <1>4, <1>7, <1>8, <1>9, <1>10, <1>11, <1>12, <1>13, <1>14 DEF Boot

\* With one session at a time: what is not registered, and nobody is at work on, is in no table, and every file is its
\* start's; for any ids, runs, probes, tokens and stops (processes.go unregisterProcess, restore.go Restore).
THEOREM TablesStay == ASSUME OneSession PROVE Spec => []TablesFollowTheRows
<1>1. Init => Callers /\ TableInv
    BY IdleFacts
    DEF Init, Callers, Calling, TableInv, CallsAreServed, Registered, NothingIsKept, Forgotten, IsForgotten
<1>2. ProcInv /\ Callers /\ [Next]_vars => Callers'
    BY CallersStep
<1>3. ASSUME ProcInv, TableInv, [Next]_vars PROVE TableInv'
    <2>1. Callers'
        BY <1>3, <1>2 DEF TableInv
    <2>2. ASSUME NEW t \in Threads, NEW p \in Ids, Spoken(t, p) PROVE TableInv'
        BY <1>3, <2>1, <2>2, TablesBegin
    <2>3. ASSUME NEW t \in Threads, Goes(t) \/ TickWaited(t) PROVE TableInv'
        BY <1>3, <2>1, <2>3, TablesGoOn
    <2>4. CASE Boot \/ Crash \/ (\E p \in Ids : Exits(p) \/ StartedByHand(p)) \/ UNCHANGED vars
        BY <1>3, <2>1, <2>4, TablesBoot
    <2> QED
        BY <1>3, <2>2, <2>3, <2>4, StepCases
<1>4. ASSUME ProcInv, TableInv PROVE UnregisteredIsForgotten
    <2> SUFFICES ASSUME ~raced, boot # "down", NEW p \in Ids, row[p] = NoRow, ~AtWork(p) PROVE IsForgotten(p)
        BY DEF UnregisteredIsForgotten
    <2>1. ASSUME Untracking(p) PROVE FALSE
        BY <1>4, <2>1, OpsOfPlaces DEF Untracking, AtWork, TableInv, Callers, Calling
    <2> QED
        BY <1>4, <2>1 DEF TableInv, Forgotten
<1>5. ProcInv /\ TableInv /\ [Next]_vars => TableInv'
    BY <1>3
<1>6. ProcInv /\ TableInv => UnregisteredIsForgotten
    BY <1>4
<1>7. Init => TableInv
    BY <1>1
<1> QED
    BY <1>5, <1>6, <1>7, ProcInvariant, FilesStayTheirs, PTL DEF Spec, TablesFollowTheRows
=============================================================================
