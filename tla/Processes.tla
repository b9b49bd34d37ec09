----------------------------- MODULE Processes -----------------------------
(***************************************************************************)
(* The life of one registered Process: what a session asks of it           *)
(* (internal/daemon/processes.go and run.go), the ticks that run a job     *)
(* (schedule.go), the health probe that mends the routing table            *)
(* (health.go, proxy.go), and the boot that brings it back (restore.go).   *)
(*                                                                         *)
(* A goroutine has a program counter, and every call to the store, to the  *)
(* container runtime or to a table in memory is a step of its own, so what *)
(* a handler read may be stale when it is used.  The action lock of an id  *)
(* is the abstract lock of KeyedMutex.                                     *)
(*                                                                         *)
(* A token is the number of the mint it came from.  A row says what the    *)
(* Process is, which registration declared it (its token) and the token    *)
(* that answers for it now, 0 for none.                                    *)
(***************************************************************************)
EXTENDS Naturals, FiniteSets

CONSTANTS Ids,          \* Process ids
          Sessions,     \* requests under way at once
          Ticks,        \* runs of jobs under way at once
          Probers,      \* probes under way at once
          MaxTokens,    \* how many tokens are minted
          MaxCrashes,   \* how often the daemon stops
          NoId, Nobody

Threads == Sessions \cup Ticks \cup Probers

ASSUME IdsAssumption == NoId \notin Ids
ASSUME ThreadsAssumption == Nobody \notin Threads
ASSUME BoundsAssumption == MaxTokens \in Nat /\ MaxCrashes \in Nat

VARIABLES row,        \* the processes table
          container,  \* the runtime: what the container of an id is doing, and its token
          env,        \* the token in the environment file of an id, 0 for no file
          fan,        \* the ids the fan out delivers to
          probes,     \* the ids the prober probes
          route,      \* the routing table: a name is "live", "dark" (503) or "none"
          jobs,       \* the scheduler: "none", "idle", or "running"
          holder,     \* who has the action lock of an id
          th,         \* the goroutines
          boot,       \* how far the boot is
          listed,     \* the rows the boot has read and has still to look at
          raced,      \* a session was served since the last start while the boot was going on
          minted, crashes

disk    == <<row, env>>
tables  == <<fan, probes, route, jobs>>
booting == <<boot, listed, raced>>
count   == <<minted, crashes>>
vars    == <<row, container, env, fan, probes, route, jobs, holder, th, boot, listed, raced, minted, crashes>>

-----------------------------------------------------------------------------
NoRow       == [kind |-> "none", decl |-> 0, tok |-> 0]
NoContainer == [is |-> "none", tok |-> 0]
Idle        == [at |-> "idle", op |-> "none", id |-> NoId, row |-> NoRow, tok |-> 0, live |-> FALSE]

At(t, s)    == th[t].at = s
Goto(t, s)  == th' = [th EXCEPT ![t].at = s]
Exists(p)   == container[p] # NoContainer
Running(p)  == container[p].is = "running"
Job(r)      == r.kind = "job"

\* t answers: it forgets what it read and returns the lock if it has it.
Leave(t) == /\ th' = [th EXCEPT ![t] = Idle]
            /\ holder' = [p \in Ids |-> IF holder[p] = t THEN Nobody ELSE holder[p]]

Tracking(set, p, yes) == IF yes THEN set \cup {p} ELSE set \ {p}

\* scheduler.track: an entry that is there keeps its in flight marker.
JobsWith(p, r) == [jobs EXCEPT ![p] = IF ~Job(r) THEN "none"
                                      ELSE IF @ = "none" THEN "idle" ELSE @]
\* scheduler.finished
JobsAfter(p) == [jobs EXCEPT ![p] = IF @ = "running" THEN "idle" ELSE @]

\* trackRoute: a job is served under no name, a container that is not running under no port.
Named(r, live) == IF r.kind # "service" THEN "none" ELSE IF live THEN "live" ELSE "dark"

Init ==
    /\ row = [p \in Ids |-> NoRow]
    /\ container = [p \in Ids |-> NoContainer]
    /\ env = [p \in Ids |-> 0]
    /\ fan = {} /\ probes = {}
    /\ route = [p \in Ids |-> "none"]
    /\ jobs = [p \in Ids |-> "none"]
    /\ holder = [p \in Ids |-> Nobody]
    /\ th = [t \in Threads |-> Idle]
    /\ boot = "up"
    /\ listed = [p \in Ids |-> NoRow]
    /\ raced = FALSE
    /\ minted = 0 /\ crashes = 0

-----------------------------------------------------------------------------
(* What a session asks.                                                    *)

\* The listeners serve before the boot is over.
Serving == boot # "down"
Race    == raced' = (raced \/ boot # "up")

\* registerProcess up to the write: the container is asked for the port of a declared probe.
RegisterAsk(s, p, k) ==
    /\ Serving /\ At(s, "idle")
    /\ th' = [th EXCEPT ![s] = [Idle EXCEPT !.at = "registering", !.op = "register", !.id = p,
                                !.row.kind = k, !.live = Exists(p) /\ k = "service"]]
    /\ Race
    /\ UNCHANGED <<disk, container, tables, holder, boot, listed, count>>

RegisterWrite(s) ==
    LET new == [kind |-> th[s].row.kind, decl |-> minted + 1, tok |-> minted + 1] IN
    /\ At(s, "registering") /\ minted < MaxTokens
    /\ row' = [row EXCEPT ![th[s].id] = new]
    /\ minted' = minted + 1
    /\ th' = [th EXCEPT ![s].at = "tracking", ![s].row = new]
    /\ UNCHANGED <<container, env, tables, holder, booting, crashes>>

RegisterTrack(s) ==
    /\ At(s, "tracking")
    /\ fan' = fan \cup {th[s].id}
    /\ probes' = Tracking(probes, th[s].id, th[s].live)
    /\ Goto(s, "routing")
    /\ UNCHANGED <<disk, container, route, jobs, holder, booting, count>>

\* A quota, a name that is taken or the store refuses it.
RegisterRefuse(s) ==
    /\ At(s, "registering")
    /\ Leave(s)
    /\ UNCHANGED <<disk, container, tables, booting, count>>

\* processAction: owned() reads the registration before the lock is taken. A job is not started.
VerbAsk(s, p, op) ==
    /\ Serving /\ At(s, "idle")
    /\ row[p] # NoRow
    /\ op = "start" => ~Job(row[p])
    /\ th' = [th EXCEPT ![s] = [Idle EXCEPT !.at = "waiting", !.op = op, !.id = p, !.row = row[p]]]
    /\ Race
    /\ UNCHANGED <<disk, container, tables, holder, boot, listed, count>>

UnregisterAsk(s, p) ==
    /\ Serving /\ At(s, "idle")
    /\ th' = [th EXCEPT ![s] = [Idle EXCEPT !.at = "waiting", !.op = "unregister", !.id = p]]
    /\ Race
    /\ UNCHANGED <<disk, container, tables, holder, boot, listed, count>>

\* A lock that admits whoever asks.
LockNothing(t) ==
    /\ At(t, "waiting")
    /\ holder' = [holder EXCEPT ![th[t].id] = t]
    /\ Goto(t, th[t].op)
    /\ UNCHANGED <<disk, container, tables, booting, count>>

Lock(t) ==
    /\ At(t, "waiting")
    /\ holder[th[t].id] = Nobody
    /\ holder' = [holder EXCEPT ![th[t].id] = t]
    /\ Goto(t, th[t].op)
    /\ UNCHANGED <<disk, container, tables, booting, count>>

-----------------------------------------------------------------------------
(* startProcess, and the four steps it shares with a tick.                 *)

\* The checks, any of which may refuse.
StartRefuse(t) ==
    /\ At(t, "start")
    /\ Leave(t)
    /\ UNCHANGED <<disk, container, tables, booting, count>>

\* mintToken writes back the row that was read before the lock, with the new token.
StartMint(t) ==
    /\ At(t, "start") /\ minted < MaxTokens
    /\ row' = [row EXCEPT ![th[t].id] = [th[t].row EXCEPT !.tok = minted + 1]]
    /\ minted' = minted + 1
    /\ th' = [th EXCEPT ![t].at = "writing", ![t].tok = minted + 1]
    /\ UNCHANGED <<container, env, tables, holder, booting, crashes>>

WriteEnv(t) ==
    /\ At(t, "writing")
    /\ env' = [env EXCEPT ![th[t].id] = th[t].tok]
    /\ Goto(t, "creating")
    /\ UNCHANGED <<row, container, tables, holder, booting, count>>

\* podman create reads the file, and does not take a name that is taken.
Create(t) ==
    LET p == th[t].id IN
    /\ At(t, "creating") /\ ~Exists(p) /\ env[p] # 0
    /\ container' = [container EXCEPT ![p] = [is |-> "created", tok |-> env[p]]]
    /\ Goto(t, "starting")
    /\ UNCHANGED <<disk, tables, holder, booting, count>>

\* A step that failed: the container that was made is removed, the file goes with the answer.
Fail(t) ==
    LET p == th[t].id IN
    /\ th[t].at \in {"writing", "creating", "starting"}
    /\ container' = IF At(t, "starting") THEN [container EXCEPT ![p] = NoContainer] ELSE container
    /\ env' = IF At(t, "writing") THEN env ELSE [env EXCEPT ![p] = 0]
    /\ jobs' = IF th[t].op = "tick" THEN JobsAfter(p) ELSE jobs
    /\ Leave(t)
    /\ UNCHANGED <<row, fan, probes, route, booting, count>>

\* A session's start.
Started(t) ==
    /\ At(t, "starting") /\ th[t].op = "start"
    /\ container' = [container EXCEPT ![th[t].id].is = "running"]
    /\ Goto(t, "checking")
    /\ UNCHANGED <<disk, tables, holder, booting, count>>

\* trackProbeAs
StartProbe(t) ==
    /\ At(t, "checking")
    /\ probes' = Tracking(probes, th[t].id, Exists(th[t].id))
    /\ Goto(t, "routing")
    /\ UNCHANGED <<disk, container, fan, route, jobs, holder, booting, count>>

\* trackRoute: the runtime is asked, then the table is written. It is the end of a registration, a
\* start, a stop and a reroute.
RouteRead(t) ==
    /\ At(t, "routing")
    /\ th' = [th EXCEPT ![t].at = "naming", ![t].live = Running(th[t].id)]
    /\ UNCHANGED <<disk, container, tables, holder, booting, count>>

RouteWrite(t) ==
    LET p == th[t].id IN
    /\ At(t, "naming")
    /\ route' = [route EXCEPT ![p] = Named(th[t].row, th[t].live)]
    /\ jobs' = IF th[t].op = "register" THEN JobsWith(p, th[t].row) ELSE jobs
    /\ env' = IF th[t].op = "start" THEN [env EXCEPT ![p] = 0] ELSE env
    /\ Leave(t)
    /\ UNCHANGED <<row, container, fan, probes, booting, count>>

-----------------------------------------------------------------------------
(* stopProcess, removeProcess and unregisterProcess.                       *)

Stop(t) ==
    LET p == th[t].id IN
    /\ At(t, "stop") /\ Exists(p)
    /\ container' = [container EXCEPT ![p].is = IF @ = "running" THEN "exited" ELSE @]
    /\ Goto(t, "routing")
    /\ UNCHANGED <<disk, tables, holder, booting, count>>

Remove(t) ==
    LET p == th[t].id IN
    /\ At(t, "remove") /\ Exists(p)
    /\ container' = [container EXCEPT ![p] = NoContainer]
    /\ Goto(t, "unrouting")
    /\ UNCHANGED <<disk, tables, holder, booting, count>>

\* The runtime refused.
StopOrRemoveFails(t) ==
    /\ th[t].at \in {"stop", "remove"}
    /\ Leave(t)
    /\ UNCHANGED <<disk, container, tables, booting, count>>

Unroute(t) ==
    /\ At(t, "unrouting")
    /\ route' = [route EXCEPT ![th[t].id] = "none"]
    /\ Leave(t)
    /\ UNCHANGED <<disk, container, fan, probes, jobs, booting, count>>

\* The read is under the lock here. What is not registered is answered not-found.
Unregister(t) ==
    LET p == th[t].id IN
    /\ At(t, "unregister")
    /\ row' = [row EXCEPT ![p] = NoRow]
    /\ IF row[p] = NoRow THEN Leave(t) ELSE Goto(t, "untracking") /\ UNCHANGED holder
    /\ UNCHANGED <<container, env, tables, booting, count>>

\* A handler that forgets the prober.
ForgetButProbe(p) ==
    /\ fan' = fan \ {p}
    /\ route' = [route EXCEPT ![p] = "none"]
    /\ jobs' = [jobs EXCEPT ![p] = "none"]
    /\ UNCHANGED probes

Forget(p) ==
    /\ fan' = fan \ {p}
    /\ probes' = probes \ {p}
    /\ route' = [route EXCEPT ![p] = "none"]
    /\ jobs' = [jobs EXCEPT ![p] = "none"]

Untrack(t) ==
    /\ At(t, "untracking")
    /\ Forget(th[t].id)
    /\ Leave(t)
    /\ UNCHANGED <<disk, container, booting, count>>

-----------------------------------------------------------------------------
(* runScheduled: one tick of a job.                                        *)

TickDue(t, p) ==
    /\ boot \in {"probing", "up"} /\ At(t, "idle")
    /\ jobs[p] = "idle"
    /\ jobs' = [jobs EXCEPT ![p] = "running"]
    /\ th' = [th EXCEPT ![t] = [Idle EXCEPT !.at = "waiting", !.op = "tick", !.id = p]]
    /\ UNCHANGED <<disk, container, fan, probes, route, holder, booting, count>>

TickEnds(t) == jobs' = JobsAfter(th[t].id) /\ Leave(t)

\* The registration is read under the lock: a job that is gone is run no more. startRun removes
\* the container of the run before this one, and may then be refused.
TickRead(t) ==
    LET p == th[t].id IN
    /\ At(t, "tick")
    /\ \/ /\ row[p] = NoRow
          /\ TickEnds(t)
          /\ UNCHANGED container
       \/ /\ row[p] # NoRow
          /\ container' = [container EXCEPT ![p] = NoContainer]
          /\ \/ th' = [th EXCEPT ![t].at = "minting", ![t].row = row[p]] /\ UNCHANGED <<jobs, holder>>
             \/ TickEnds(t)
    /\ UNCHANGED <<disk, fan, probes, route, booting, count>>

\* UpdateProcessRun writes the token of a row that is there and inserts nothing. It may fail.
TickMint(t) ==
    LET p == th[t].id IN
    /\ At(t, "minting")
    /\ \/ /\ TickEnds(t)
          /\ UNCHANGED <<row, minted>>
       \/ /\ row[p] # NoRow /\ minted < MaxTokens
          /\ row' = [row EXCEPT ![p].tok = minted + 1]
          /\ minted' = minted + 1
          /\ th' = [th EXCEPT ![t].at = "writing", ![t].tok = minted + 1]
          /\ UNCHANGED <<jobs, holder>>
    /\ UNCHANGED <<container, env, fan, probes, route, booting, crashes>>

\* A run that keeps the lock until its entrypoint exits.
TickHolds(t) ==
    LET p == th[t].id IN
    /\ At(t, "starting") /\ th[t].op = "tick"
    /\ container' = [container EXCEPT ![p].is = "running"]
    /\ env' = [env EXCEPT ![p] = 0]
    /\ Goto(t, "going")
    /\ UNCHANGED <<row, tables, holder, booting, count>>

\* The container runs, the file goes, and the lock is returned before the wait.
TickStarted(t) ==
    LET p == th[t].id IN
    /\ At(t, "starting") /\ th[t].op = "tick"
    /\ container' = [container EXCEPT ![p].is = "running"]
    /\ env' = [env EXCEPT ![p] = 0]
    /\ holder' = [holder EXCEPT ![p] = Nobody]
    /\ Goto(t, "going")
    /\ UNCHANGED <<row, tables, booting, count>>

\* waitForRun: the entrypoint exited, or MaxRunTime is over and whatever has the name is stopped,
\* or the runtime has lost it.
TickWaited(t) ==
    LET p == th[t].id IN
    /\ At(t, "going")
    /\ \/ ~Running(p) /\ UNCHANGED container
       \/ Running(p) /\ container' = [container EXCEPT ![p].is = "exited"]
       \/ Running(p) /\ UNCHANGED container
    /\ Goto(t, "revoking")
    /\ UNCHANGED <<disk, tables, holder, booting, count>>

\* A revocation that names the Process alone.
RevokeById(t) ==
    LET p == th[t].id IN
    /\ At(t, "revoking")
    /\ row' = [row EXCEPT ![p].tok = 0]
    /\ TickEnds(t)
    /\ UNCHANGED <<container, env, fan, probes, route, booting, count>>

\* RevokeProcessToken names the token of this run.
Revoke(t) ==
    LET p == th[t].id IN
    /\ At(t, "revoking")
    /\ row' = [row EXCEPT ![p].tok = IF @ = th[t].tok THEN 0 ELSE @]
    /\ TickEnds(t)
    /\ UNCHANGED <<container, env, fan, probes, route, booting, count>>

-----------------------------------------------------------------------------
(* probeOnce: a probe whose reading disagrees with the table mends it.     *)

\* A probe that notices what came back and not what went.
RerouteWhenUp(h, p) ==
    /\ boot = "up" /\ At(h, "idle")
    /\ p \in probes /\ route[p] = "dark" /\ Running(p)
    /\ th' = [th EXCEPT ![h] = [Idle EXCEPT !.at = "rereading", !.op = "reroute", !.id = p]]
    /\ UNCHANGED <<disk, container, tables, holder, booting, count>>

Reroute(h, p) ==
    /\ boot = "up" /\ At(h, "idle")
    /\ p \in probes /\ route[p] # "none"
    /\ \E healthy \in {FALSE, Running(p)} : healthy # (route[p] = "live")
    /\ th' = [th EXCEPT ![h] = [Idle EXCEPT !.at = "rereading", !.op = "reroute", !.id = p]]
    /\ UNCHANGED <<disk, container, tables, holder, booting, count>>

\* No lock is taken, so the row may be gone when the table is written.
RerouteRead(h) ==
    LET p == th[h].id IN
    /\ At(h, "rereading")
    /\ IF row[p] = NoRow THEN Leave(h)
       ELSE th' = [th EXCEPT ![h].at = "routing", ![h].row = row[p]] /\ UNCHANGED holder
    /\ UNCHANGED <<disk, container, tables, booting, count>>

-----------------------------------------------------------------------------
(* The host: an entrypoint exits, an owner starts one again with podman.   *)

Exits(p) ==
    /\ Running(p)
    /\ container' = [container EXCEPT ![p].is = "exited"]
    /\ UNCHANGED <<disk, tables, holder, th, booting, count>>

StartedByHand(p) ==
    /\ container[p].is = "exited"
    /\ container' = [container EXCEPT ![p].is = "running"]
    /\ UNCHANGED <<disk, tables, holder, th, booting, count>>

-----------------------------------------------------------------------------
(* The daemon stops and starts.                                            *)

\* With the host, when no container goes on running.
Crash ==
    /\ crashes < MaxCrashes /\ boot # "down"
    /\ crashes' = crashes + 1
    /\ boot' = "down"
    /\ th' = [t \in Threads |-> Idle]
    /\ holder' = [p \in Ids |-> Nobody]
    /\ fan' = {} /\ probes' = {}
    /\ route' = [p \in Ids |-> "none"]
    /\ jobs' = [p \in Ids |-> "none"]
    /\ listed' = [p \in Ids |-> NoRow]
    /\ raced' = FALSE
    /\ \/ UNCHANGED container
       \/ container' = [p \in Ids |-> IF Exists(p) THEN [container[p] EXCEPT !.is = "exited"]
                                      ELSE NoContainer]
    /\ UNCHANGED <<disk, minted>>

\* LoadSubscribers, before the listeners serve.
BootLoad ==
    /\ boot = "down"
    /\ fan' = {p \in Ids : row[p] # NoRow}
    /\ boot' = "sweeping"
    /\ UNCHANGED <<disk, container, probes, route, jobs, holder, th, listed, raced, count>>

\* A boot that sweeps nothing.
SweepNothing ==
    /\ boot = "sweeping"
    /\ boot' = "listing"
    /\ UNCHANGED <<disk, container, tables, holder, th, listed, raced, count>>

\* sweepEnvDir
Sweep ==
    /\ boot = "sweeping"
    /\ env' = [p \in Ids |-> 0]
    /\ boot' = "listing"
    /\ UNCHANGED <<row, container, tables, holder, th, listed, raced, count>>

\* The four lists of a boot: Restore, LoadRoutes, loadJobs and HealthLoop each read their own.
Lists == [listing |-> "restoring", restored |-> "reloading", routed |-> "ticking",
          ticked |-> "probing"]

BootList ==
    /\ boot \in DOMAIN Lists
    /\ listed' = row
    /\ boot' = Lists[boot]
    /\ UNCHANGED <<disk, container, tables, holder, th, raced, count>>

\* Restore looks at one row: a job is tracked, a container is started or refused, and a
\* registration without a container is dropped. No action lock is taken.
Restore(p) ==
    /\ boot = "restoring" /\ listed[p] # NoRow
    /\ \/ /\ Job(listed[p])
          /\ jobs' = JobsWith(p, listed[p])
          /\ UNCHANGED <<row, container>>
       \/ /\ ~Job(listed[p]) /\ Exists(p)
          /\ container' = [container EXCEPT ![p].is = "running"]
          /\ UNCHANGED <<row, jobs>>
       \/ /\ ~Job(listed[p])
          /\ UNCHANGED <<row, container, jobs>>
    /\ listed' = [listed EXCEPT ![p] = NoRow]
    /\ UNCHANGED <<env, fan, probes, route, holder, th, boot, raced, count>>

RestoreMissing(p) ==
    /\ boot = "restoring" /\ listed[p] # NoRow
    /\ ~Job(listed[p]) /\ ~Exists(p)
    /\ row' = [row EXCEPT ![p] = NoRow]
    /\ Forget(p)
    /\ listed' = [listed EXCEPT ![p] = NoRow]
    /\ UNCHANGED <<container, env, holder, th, boot, raced, count>>

RestoreDone ==
    /\ boot = "restoring" /\ \A p \in Ids : listed[p] = NoRow
    /\ boot' = "restored"
    /\ UNCHANGED <<disk, container, tables, holder, th, listed, raced, count>>

\* LoadRoutes replaces the table.
BootRoutes ==
    /\ boot = "reloading"
    /\ route' = [p \in Ids |-> Named(listed[p], Running(p))]
    /\ boot' = "routed"
    /\ UNCHANGED <<disk, container, fan, probes, jobs, holder, th, listed, raced, count>>

\* loadJobs and loadProbes add.
BootJobs ==
    /\ boot = "ticking"
    /\ jobs' = [p \in Ids |-> IF Job(listed[p]) /\ jobs[p] = "none" THEN "idle" ELSE jobs[p]]
    /\ boot' = "ticked"
    /\ UNCHANGED <<disk, container, fan, probes, route, holder, th, listed, raced, count>>

BootProbes ==
    /\ boot = "probing"
    /\ probes' = {p \in Ids : IF listed[p].kind = "service" THEN Exists(p) ELSE p \in probes}
    /\ boot' = "up"
    /\ listed' = [p \in Ids |-> NoRow]
    /\ UNCHANGED <<disk, container, fan, route, jobs, holder, th, raced, count>>

-----------------------------------------------------------------------------
Boot == BootLoad \/ Sweep \/ BootList \/ (\E p \in Ids : Restore(p) \/ RestoreMissing(p))
          \/ RestoreDone \/ BootRoutes \/ BootJobs \/ BootProbes

Registering(s) == RegisterWrite(s) \/ RegisterRefuse(s) \/ RegisterTrack(s)
Starting(t)    == StartRefuse(t) \/ StartMint(t) \/ WriteEnv(t) \/ Create(t) \/ Fail(t)
                    \/ Started(t) \/ StartProbe(t)
Stopping(s)    == Stop(s) \/ Remove(s) \/ StopOrRemoveFails(s) \/ Unroute(s)
                    \/ Unregister(s) \/ Untrack(s)
Ticking(t)     == TickRead(t) \/ TickMint(t) \/ TickStarted(t) \/ Revoke(t)
Routing(t)     == RerouteRead(t) \/ RouteRead(t) \/ RouteWrite(t)

\* What a goroutine does that waits for nothing but the lock.
Goes(t) == Lock(t) \/ Registering(t) \/ Starting(t) \/ Stopping(t) \/ Ticking(t) \/ Routing(t)

Next ==
    \/ \E s \in Sessions, p \in Ids :
         \/ \E k \in {"service", "job"} : RegisterAsk(s, p, k)
         \/ \E op \in {"start", "stop", "remove"} : VerbAsk(s, p, op)
         \/ UnregisterAsk(s, p)
    \/ \E t \in Ticks, p \in Ids : TickDue(t, p)
    \/ \E h \in Probers, p \in Ids : Reroute(h, p)
    \/ \E t \in Threads : Goes(t)
    \/ \E t \in Ticks : TickWaited(t)
    \/ \E p \in Ids : Exits(p) \/ StartedByHand(p)
    \/ Crash
    \/ Boot

\* Goroutines go on, the runtime answers every call but the wait for an entrypoint, and the
\* service manager starts the daemon again. A waiter on the lock is SF, as in ActionLock.
Fairness ==
    /\ \A t \in Threads : WF_vars(Goes(t)) /\ SF_vars(Lock(t))
    /\ WF_vars(Boot)
    /\ \A p \in Ids : WF_vars(\E h \in Probers : Reroute(h, p))

Spec == Init /\ [][Next]_vars /\ Fairness

-----------------------------------------------------------------------------
\* Once a boot has swept, an environment file is that of the start or the run that has the lock of
\* its Process, and holds the token of that start: "a file holding a live token does not outlive
\* the call that wrote it", however the call ended and however often the daemon stopped.
FileBelongsToItsStart ==
    boot \notin {"down", "sweeping"} =>
      \A p \in Ids : env[p] # 0 => \E t \in Threads : /\ holder[p] = t
                                                      /\ th[t].op \in {"start", "tick"}
                                                      /\ th[t].tok = env[p]

\* What is not registered, and nobody is at work on, is delivered to, probed and run by nothing:
\* after any sequence of registrations, starts, ticks and restarts, unless a session was served
\* while the daemon was still booting.
AtWork(p) == \E t \in Sessions : th[t].id = p
IsForgotten(p) == p \notin fan /\ p \notin probes /\ jobs[p] = "none"
UnregisteredIsForgotten ==
    ~raced /\ boot # "down" => \A p \in Ids : row[p] = NoRow /\ ~AtWork(p) => IsForgotten(p)

\* What the daemon keeps beside a row goes with it: a token on disk with the start it was written
\* for, an entry of a table with the registration (run.go sweepEnvDir, processes.go unregisterProcess).
TablesFollowTheRows == FileBelongsToItsStart /\ UnregisteredIsForgotten

\* A tick starts the entrypoint of nothing that is not registered: the unregister is wholly before
\* its read or wholly after its start.
TickRunsRegistered ==
    [][\A t \in Ticks : th[t].at = "starting" /\ th'[t].at = "going"
         => row[th[t].id] # NoRow]_vars

\* A registration loses its token to nothing but the run that was given it: the end of an earlier
\* run of that id, however late, leaves the token alone that a registration has minted since.
OnlyItsRunEndsAToken ==
    [][\A p \in Ids : row[p].tok # 0 /\ row'[p] # NoRow /\ row'[p].tok = 0
         => \E t \in Ticks : th[t].at = "revoking" /\ th[t].id = p /\ th[t].tok = row[p].tok]_vars

\* A run that is late starts nothing that was unregistered, and ends no token but its own
\* (schedule.go startRun, RevokeProcessToken).
LateRunsStayTheirOwn == TickRunsRegistered /\ OnlyItsRunEndsAToken

\* "The lock is released before the wait: a job that runs for an hour must not be a Process its
\* owner cannot stop for an hour." (No fairness says that an entrypoint exits.)
RunsHoldNobodyUp ==
    \A s \in Sessions : th[s].at = "waiting" ~> th[s].at # "waiting"

\* A name that forwards to a container that is not running is mended by the next probes.
DeadRoutesAreMended ==
    \A p \in Ids : route[p] = "live" /\ ~Running(p)
                   ~> route[p] # "live" \/ Running(p) \/ p \notin probes \/ row[p] = NoRow

\* A run holds no caller up, however long its entrypoint takes, and a name whose container has
\* stopped leaves its dead port (schedule.go run, health.go reroute).
NobodyIsHeldUp == RunsHoldNobodyUp /\ DeadRoutesAreMended
=============================================================================
