------------------------------ MODULE ProcRun ------------------------------
(***************************************************************************)
(* proc_run and proc_stop of internal/proc: what a session of a member     *)
(* does, call by call, to bring one Package and name to what its manifest  *)
(* says.  The daemon and the runtime are behind those calls: a call may be *)
(* refused, its answer may be lost, and the session may die between two of *)
(* them, while the clock of the daemon, the containers and other sessions  *)
(* of the member go on.                                                    *)
(*                                                                         *)
(* A Package is a Process (a container), a job (a schedule in the          *)
(* registration, its container made at each tick), or run by a kit.        *)
(***************************************************************************)
EXTENDS Naturals, FiniteSets

CONSTANTS Sessions,   \* the sessions of the member
          Ids,        \* the ids that are minted, here or by a kit
          Units,      \* what the manifest may declare: a kind, an image, a cron expression
          MaxFaults   \* bound: refusals, lost answers and deaths

\* A job of two images.
TwoImages == {[kind |-> "job", digest |-> d, cron |-> "x", problem |-> FALSE] : d \in {"A", "B"}}

VARIABLES rows,    \* the registrations of this Package and name, by id
          box,     \* the container of this name, one by the rules of the runtime
          kit,     \* the Processes the kit runs
          calls,   \* the call each session is in
          left,    \* what is said of an id that is left behind: told by a log line or an answer, or lost
          minted,  \* the ids there have been
          faults

vars == <<rows, box, kit, calls, left, minted, faults>>

Kinds == {"process", "job", "kit"}
None  == "none"
NoRow == [kind |-> None, digest |-> None, cron |-> None, problem |-> FALSE]
NoBox == [id |-> None, digest |-> None, up |-> FALSE]
Quiet == [pc |-> "idle", unit |-> NoRow, id |-> None, prev |-> None, other |-> None]
Registered == {i \in Ids : rows[i] # NoRow}
Of(kind)   == {i \in Ids : rows[i].kind = kind}

Init ==
    /\ rows = [i \in Ids |-> NoRow]
    /\ box = NoBox
    /\ kit = {} /\ minted = {}
    /\ left = [i \in Ids |-> "no"]
    /\ calls = [s \in Sessions |-> Quiet]
    /\ faults = 0

------------------------------------------------------------------------------
At(s, pc) == calls[s].pc = pc
To(s, pc) == calls' = [calls EXCEPT ![s].pc = pc]
Answer(s) == calls' = [calls EXCEPT ![s] = Quiet]
Spend     == faults < MaxFaults /\ faults' = faults + 1
Fresh     == Ids \ minted
Leave(i, how) == left' = [left EXCEPT ![i] = how]

\* run: the manifest is read, the image is resolved, and the unit says what this Package is.
Run(s, u) ==
    /\ At(s, "idle")
    /\ calls' = [calls EXCEPT ![s].pc = IF u.kind = "kit" THEN "ask" ELSE "find", ![s].unit = u]
    /\ UNCHANGED <<rows, box, kit, left, minted, faults>>

\* byName: a Process that runs this image already is the answer, and what holds the name otherwise
\* is what this run replaces.  A job is told by its registrations instead, which are read next.
Find(s) ==
    /\ At(s, "find")
    /\ \/ Spend /\ Answer(s)
       \/ /\ UNCHANGED faults
          /\ CASE calls[s].unit.kind = "job" -> calls' = [calls EXCEPT ![s].pc = "known", ![s].prev = box.id]
               [] box.up /\ box.digest = calls[s].unit.digest -> Answer(s)
               [] box = NoBox -> To(s, "register")
               [] OTHER -> calls' = [calls EXCEPT ![s].pc = "remove", ![s].prev = box.id]
    /\ UNCHANGED <<rows, box, kit, left, minted>>

\* heldJob, and what follows from it: the same image keeps its id, the same schedule too is the
\* answer, and a job of another image goes, with the container its last run has left.
Known(s) ==
    /\ At(s, "known")
    /\ \E e \in IF Registered = {} THEN {None} ELSE Registered :
          LET row   == IF e = None THEN NoRow ELSE rows[e]
              moved == row.kind = "job" /\ row.digest = calls[s].unit.digest
              held  == calls[s].prev
          IN  IF moved /\ row.cron = calls[s].unit.cron THEN Answer(s)
              ELSE calls' = [calls EXCEPT
                    ![s].id    = IF moved THEN e ELSE None,
                    ![s].other = IF moved \/ e = held THEN None ELSE e,
                    ![s].pc    = CASE ~moved /\ held # None -> "remove"
                                   [] ~moved /\ e # None    -> "replace"
                                   [] OTHER                 -> "register"]
    /\ UNCHANGED <<rows, box, kit, left, minted, faults>>

\* A removal that failed taken for one that worked.
RemoveOrNot(s) ==
    /\ At(s, "remove")
    /\ To(s, "unregister")
    /\ box' \in {NoBox, box}
    /\ UNCHANGED <<rows, kit, left, minted, faults>>

\* remove: the daemon removes the container of that name, or the session does when the daemon has
\* no registration for the id.  A removal that fails ends the call.
Remove(s) ==
    /\ At(s, "remove")
    /\ \/ To(s, "unregister") /\ box' = NoBox /\ UNCHANGED faults
       \/ Spend /\ Answer(s) /\ box' \in {NoBox, box}
    /\ UNCHANGED <<rows, kit, left, minted>>

\* unregister of one id, whose failure is logged and no more.
Forgets(i, next) ==
    /\ next
    /\ \/ rows' = [rows EXCEPT ![i] = NoRow] /\ UNCHANGED <<left, faults>>
       \/ Spend /\ Leave(i, "told") /\ UNCHANGED rows

Unregister(s) ==
    /\ At(s, "unregister")
    /\ Forgets(calls[s].prev, To(s, IF calls[s].other = None THEN "register" ELSE "replace"))
    /\ UNCHANGED <<box, kit, minted>>

Replace(s) ==
    /\ At(s, "replace")
    /\ Forgets(calls[s].other, To(s, "register"))
    /\ UNCHANGED <<box, kit, minted>>

\* register, under the id that moves, the one the kit has answered, or a new one.  Refused, or
\* written with the answer lost, it is a problem: a kit is asked to stop what it has started.
Register(s) ==
    /\ At(s, "register")
    /\ \E i \in IF calls[s].id = None THEN Fresh ELSE {calls[s].id} :
          LET u       == calls[s].unit
              written == rows' = [rows EXCEPT ![i] = u]
              refused == calls' = [calls EXCEPT ![s] = IF u.kind = "kit" THEN [calls[s] EXCEPT !.pc = "orphaned"] ELSE Quiet]
          IN  /\ minted' = minted \union {i}
              /\ \/ /\ written
                    /\ calls' = [calls EXCEPT ![s] =
                          IF u.kind = "job" THEN Quiet
                          ELSE [calls[s] EXCEPT !.id = i, !.pc = IF u.kind = "kit" THEN "forget" ELSE "start"]]
                    /\ UNCHANGED faults
                 \/ Spend /\ refused /\ (written \/ UNCHANGED rows)
    /\ UNCHANGED <<box, kit, left>>

\* StartProcess: the daemon starts what is registered, under a name nothing holds.
Start(s) ==
    /\ At(s, "start")
    /\ LET i    == calls[s].id
           made == [id |-> i, digest |-> rows[i].digest, up |-> TRUE]
       IN  IF i \in Registered /\ box = NoBox
           THEN \/ box' = made /\ To(s, "confirm") /\ UNCHANGED faults
                \/ Spend /\ To(s, "orphan") /\ box' \in {NoBox, made}
           ELSE To(s, "orphan") /\ UNCHANGED <<box, faults>>
    /\ UNCHANGED <<rows, kit, left, minted>>

\* byName again: what is not in the list has not started.
Confirm(s) ==
    /\ At(s, "confirm")
    /\ \/ Spend /\ To(s, "orphan")
       \/ UNCHANGED faults /\ IF box = NoBox THEN To(s, "orphan") ELSE Answer(s)
    /\ UNCHANGED <<rows, box, kit, left, minted>>

Orphan(s) ==
    /\ At(s, "orphan")
    /\ Forgets(calls[s].id, Answer(s))
    /\ UNCHANGED <<box, kit, minted>>
------------------------------------------------------------------------------
\* runWithKit.  The kit answers with the Process it runs already, or with a new one in its place.  The
\* problem of an answer that is lost or is no Process names no id, whatever the kit has started.
Ask(s) ==
    /\ At(s, "ask")
    /\ \E i \in kit \union Fresh :
          /\ minted' = minted \union {i}
          /\ \/ /\ kit' = {i} /\ calls' = [calls EXCEPT ![s].pc = "register", ![s].id = i]
                /\ Leave(i, "no") /\ UNCHANGED faults
             \/ Spend /\ Answer(s) /\ UNCHANGED <<kit, left>>
             \/ Spend /\ Answer(s) /\ kit' = {i} /\ Leave(i, "lost")
    /\ UNCHANGED <<rows, box>>

\* A refused registration answered as it is, with the kit left to itself.
OrphanedUntold(s) ==
    /\ At(s, "orphaned") /\ Answer(s)
    /\ UNCHANGED <<rows, box, kit, left, minted, faults>>

\* orphaned: the kit stops what it has started, or the problem says that it has not.
Orphaned(s) ==
    /\ At(s, "orphaned") /\ Answer(s)
    /\ \/ kit' = kit \ {calls[s].id} /\ UNCHANGED left
       \/ Leave(calls[s].id, "told") /\ UNCHANGED kit
    /\ UNCHANGED <<rows, box, minted, faults>>

\* forgetReplaced: the other Processes of a kit under this name are not registered any more.
ForgetReplaced(s) ==
    /\ At(s, "forget") /\ Answer(s)
    /\ \/ rows' = [i \in Ids |-> IF i \in Of("kit") \ {calls[s].id} THEN NoRow ELSE rows[i]] /\ UNCHANGED faults
       \/ Spend /\ UNCHANGED rows
    /\ UNCHANGED <<box, kit, left, minted>>
------------------------------------------------------------------------------
\* Stop: the registration says who is to be asked, and without one the runtime does.
Stop(s, i) ==
    /\ At(s, "idle")
    /\ LET ask(pc) == calls' = [calls EXCEPT ![s] = [Quiet EXCEPT !.pc = pc, !.id = i]]
       IN  \/ /\ UNCHANGED faults
              /\ CASE i \in Of("kit") -> ask("stopKit")
                   [] i \in Of("job") -> ask("stopJob")
                   [] OTHER           -> box.id = i /\ ask("stop")
           \/ Spend /\ box.id = i /\ ask("stop")
    /\ UNCHANGED <<rows, box, kit, left, minted>>

\* stopWithKit.  What the kit refuses to stop stays registered.
StopKit(s) ==
    /\ At(s, "stopKit")
    /\ \/ kit' = kit \ {calls[s].id} /\ To(s, "gone") /\ UNCHANGED faults
       \/ Spend /\ Answer(s) /\ kit' \in {kit, kit \ {calls[s].id}}
    /\ UNCHANGED <<rows, box, left, minted>>

\* stopJob, up to the container of the last run: removed by the name the runtime has it under.
StopJob(s) ==
    /\ At(s, "stopJob")
    /\ IF box.id = calls[s].id
       THEN \/ box' = NoBox /\ To(s, "gone") /\ UNCHANGED faults
            \/ Spend /\ Answer(s) /\ box' \in {NoBox, box}
       ELSE To(s, "gone") /\ UNCHANGED <<box, faults>>
    /\ UNCHANGED <<rows, kit, left, minted>>

\* stop: by the daemon, or by the session when the daemon does not know the id.
StopBox(s) ==
    /\ At(s, "stop")
    /\ \/ box' = [box EXCEPT !.up = FALSE] /\ To(s, "gone") /\ UNCHANGED faults
       \/ Spend /\ Answer(s) /\ UNCHANGED box
    /\ UNCHANGED <<rows, kit, left, minted>>

Gone(s) ==
    /\ At(s, "gone")
    /\ Forgets(calls[s].id, Answer(s))
    /\ UNCHANGED <<box, kit, minted>>
------------------------------------------------------------------------------
\* Reconcile, at the start of a session: the container that runs is registered when it is not.
Reconcile(s) ==
    /\ At(s, "idle") /\ box.up
    /\ calls' = [calls EXCEPT ![s] = [Quiet EXCEPT !.pc = "reconcile", !.prev = box.id, !.unit.digest = box.digest]]
    /\ UNCHANGED <<rows, box, kit, left, minted, faults>>

Reregister(s) ==
    /\ At(s, "reconcile") /\ Answer(s)
    /\ \/ /\ rows' = [rows EXCEPT ![calls[s].prev] =
                IF @ = NoRow THEN [NoRow EXCEPT !.kind = "process", !.digest = calls[s].unit.digest] ELSE @]
          /\ UNCHANGED faults
       \/ Spend /\ UNCHANGED rows
    /\ UNCHANGED <<box, kit, left, minted>>

\* The session ends with its call half done, and what a kit had answered it with is lost.
Die(s) ==
    /\ calls[s] # Quiet /\ Spend /\ Answer(s)
    /\ IF calls[s].unit.kind = "kit" /\ calls[s].pc \in {"register", "orphaned"}
       THEN Leave(calls[s].id, "lost") ELSE UNCHANGED left
    /\ UNCHANGED <<rows, box, kit, minted>>

\* A tick of the daemon: the container of the job's name goes, and a run of the job takes it.
Tick(i) ==
    /\ i \in Of("job")
    /\ box' \in {NoBox, [id |-> i, digest |-> rows[i].digest, up |-> TRUE]}
    /\ UNCHANGED <<rows, kit, calls, left, minted, faults>>

Exit ==
    /\ box.up /\ box' = [box EXCEPT !.up = FALSE]
    /\ UNCHANGED <<rows, kit, calls, left, minted, faults>>

\* A boot that does not bring a Process back says why, and may have taken its container apart.
Fail(i) ==
    /\ i \in Of("process") /\ ~(box.id = i /\ box.up) /\ Spend
    /\ rows' = [rows EXCEPT ![i].problem = TRUE]
    /\ box' \in IF box.id = i THEN {box, NoBox} ELSE {box}
    /\ UNCHANGED <<kit, calls, left, minted>>

Next ==
    \/ \E s \in Sessions :
         \/ \E u \in Units : Run(s, u)
         \/ \E i \in Ids : Stop(s, i)
         \/ Find(s) \/ Known(s) \/ Remove(s) \/ Unregister(s) \/ Replace(s) \/ Register(s)
         \/ Start(s) \/ Confirm(s) \/ Orphan(s)
         \/ Ask(s) \/ Orphaned(s) \/ ForgetReplaced(s)
         \/ StopKit(s) \/ StopJob(s) \/ StopBox(s) \/ Gone(s)
         \/ Reconcile(s) \/ Reregister(s) \/ Die(s)
    \/ \E i \in Ids : Tick(i) \/ Fail(i)
    \/ Exit

Spec == Init /\ [][Next]_vars
------------------------------------------------------------------------------
\* List: the container of this name, then what has none and is known by its registration alone.
\* Each of the three looks at what has been listed before it.
InTheRuntime     == {box.id} \ {None}
KitOwned(listed) == Of("kit") \ listed
FailedBoxless(listed) == {i \in Registered \ Of("kit") : rows[i].problem} \ listed
\* scheduledProcesses without the look at what is listed.
ScheduledAll(listed)  == Of("job")
Scheduled(listed)     == Of("job") \ listed

TimesListed(i) ==
    LET kits   == KitOwned(InTheRuntime)
        failed == FailedBoxless(InTheRuntime \union kits)
        jobs   == Scheduled(InTheRuntime \union kits \union failed)
    IN  Cardinality({l \in {<<1, InTheRuntime>>, <<2, kits>>, <<3, failed>>, <<4, jobs>>} : i \in l[2]})

\* proc_list answers each Process of the caller on one line and leaves none out: the one whose
\* container is there, whether it is registered or not, each that a kit runs, each job before and
\* after its first tick, and each that the boot could not bring back (proc.go List).
ListedOnce ==
    \A i \in Ids : TimesListed(i) =
        IF box.id = i \/ rows[i].kind \in {"job", "kit"} \/ rows[i].problem THEN 1 ELSE 0

\* A running container keeps its registration, and with it the token it exports with: no replacement
\* and no stop forgets it before it is down, however the calls of two sessions fall.  Only the run
\* that has started it may take it back (proc.go run: "a Process that is still running keeps
\* exporting until it does not exist").
RunningKeepsItsRow ==
    [][\A i \in Ids : (i \in Of("process") /\ box.id = i /\ box.up /\ rows'[i] = NoRow)
          => \E s \in Sessions : At(s, "orphan") /\ calls[s].id = i]_vars

\* One name is one job while the daemon refuses no unregister, whose refusal a log line tells and
\* nothing else: a new image, a new expression, lost answers and sessions that die leave no second
\* registration (schedule.go runJob: "a job that is registered twice would be run twice").
OneJobPerName == (\A i \in Ids : left[i] # "told") => Cardinality(Of("job")) <= 1

\* A Process a kit has answered a session with is registered, or is being, or is told of with its id:
\* only an answer that never came, or a session that dies with it, leaves one running that nobody
\* knows, and one that a later run is answered with again is known from there on (kits.go runWithKit,
\* orphaned).
KitProcessIsKnown ==
    \A i \in kit : \/ left[i] # "no" \/ i \in Of("kit")
                   \/ \E s \in Sessions : calls[s].id = i /\ calls[s].pc \in {"register", "orphaned"}

\* Whatever a kit runs is known. Refuted: the kit has started it, and the answer with its id is lost.
EveryKitProcessIsKnown == KitProcessIsKnown /\ \A i \in kit : left[i] = "lost" => i \in Of("kit")

\* The name of the container is the job's: a tick removes no running container of another Process
\* (daemon/schedule.go startRun).
TickTakesItsOwn ==
    [][\A i \in Ids : Tick(i) => (box.up => box.id = i)]_vars
==============================================================================
