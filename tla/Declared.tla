------------------------------ MODULE Declared ------------------------------
(***************************************************************************)
(* The four readers of one declaration.  What a manifest says of its units *)
(* is read by internal/manifest when the file is written, by the session   *)
(* when proc_run is called, by kitbashd when the Process is registered and *)
(* by kitbashd again when it is started.  Each of them refuses what the    *)
(* next one could not use, and between the second and the third proc_run   *)
(* has removed the Process that ran before.                                *)
(*                                                                         *)
(* One member, one Package, one name.  The calls that lose an answer, die  *)
(* or race are in ProcRun and Pods; here every call is answered and the    *)
(* question is what they answer to which manifest.                         *)
(***************************************************************************)
EXTENDS Naturals, Sequences, FiniteSets, TLC

CONSTANTS Manifests,   \* documents the schema accepts: [units, subscribes]
          Proxied,     \* whether the host has a domain, and so serves names
          MaxUnits,    \* MaxUnits
          MaxRuns,     \* bound: calls of proc_run
          MaxMoves     \* bound: what a member and the names of the world do besides

\* A unit that declares nothing, one that serves, and what the daemon refuses of it.
Unit == [name |-> "", type |-> "container", expose |-> "none", port |-> FALSE, hostname |-> "none",
         schedule |-> "none", health |-> "none", restart |-> FALSE, env |-> {}, secrets |-> {},
         runner |-> "none"]
Web  == [Unit EXCEPT !.expose = "http", !.port = TRUE]
OfOneUnit == {[units |-> <<u>>, subscribes |-> FALSE] :
                 u \in {Unit, Web, [Web EXCEPT !.hostname = "theirs"], [Web EXCEPT !.health = "word"]}}

VARIABLES manifest,    \* kitbash.yaml as it was last accepted
          image,       \* the digest of the newest build
          set,         \* whether the member holds a value for each declared secret
          points,      \* whether a declared name resolves to this host
          rows,        \* the registrations: [id, of, digest]
          up,          \* what the runtime has: [id, name, of, digest, state, env]
          call,        \* the proc_run under way
          runs, moves

vars == <<manifest, image, set, points, rows, up, call, runs, moves>>

None  == "none"
Quiet == [pc |-> "idle", of |-> None, digest |-> 0, prev |-> 0, old |-> {}, lost |-> FALSE, answer |-> None]

------------------------------------------------------------------------------
(* internal/manifest: a unit is [name, type, expose, port, hostname, schedule, health, restart,   *)
(* env, secrets, runner], env a set of [key, value].                                             *)

Exposed(u)   == u.expose \in {"mcp", "http"}
Scheduled(u) == u.schedule # None
UnitsOf(m)   == {m.units[i] : i \in DOMAIN m.units}
Composed(m)  == Len(m.units) > 1
Face(m)      == IF Composed(m) THEN CHOOSE u \in UnitsOf(m) : Exposed(u) ELSE m.units[1]
KeysOf(u)    == {e.key : e \in u.env}
Owned        == {"KITBASH_USER", "KITBASH_UNIT", "KITBASH_TELEMETRY_TOKEN"}

\* checkSecrets: neither a name kitbashd speaks for nor one the environment sets as well.
checkSecrets(m) == \A u \in UnitsOf(m) : u.secrets \intersect (Owned \union KeysOf(u)) = {}

\* checkSchedule: an expression that can be read, beside nothing that describes what stays up.
checkSchedule(m) == \A u \in UnitsOf(m) : Scheduled(u) =>
    u.schedule = "cron" /\ u.expose = None /\ u.health = None /\ ~u.restart /\ ~m.subscribes

\* checkUnits: of several, every one has a name of its own and one of them is the face.
checkUnits(m) == Composed(m) =>
    /\ \A i, j \in DOMAIN m.units : m.units[i].name # "" /\ (m.units[i].name = m.units[j].name => i = j)
    /\ Cardinality({i \in DOMAIN m.units : Exposed(m.units[i])}) = 1

\* Parse: what fs_write lets into the tree.
Accepted(m) == Len(m.units) \in 1..MaxUnits /\ checkSecrets(m) /\ checkSchedule(m) /\ checkUnits(m)

------------------------------------------------------------------------------
(* internal/proc: what the session checks before it removes anything.                             *)

Sound(m) ==
    /\ \A u \in UnitsOf(m) : u.type = "container" /\ u.runner = None
    /\ Composed(m) => \A u \in UnitsOf(m) : ~Scheduled(u)
    /\ Face(m).expose = "http" => Face(m).port

\* ContainerName and UnitContainerName: what byName looks for, which is what the face is called.
RunsAs(m) == IF Composed(m) THEN <<"pod", Face(m).name>> ELSE <<"pod">>

\* What is registered: of a job no name, no probe and no subscription is sent, and health.exec is
\* recorded nowhere.
HostnameOf(m)   == IF Scheduled(Face(m)) THEN None ELSE Face(m).hostname
SubscribesTo(m) == m.subscribes /\ ~Scheduled(Face(m))
HealthOf(m)     == IF Scheduled(Face(m)) \/ Face(m).health = "exec" THEN None ELSE Face(m).health
OwnEnv(u)       == {e \in u.env : e.key \notin Owned \ {"KITBASH_UNIT"}}

------------------------------------------------------------------------------
(* internal/daemon: what a registration is held to, and what a start is.                          *)

checkEnv(env)    == \A e \in env : e.key # "9X" /\ e.value # "lines"
validateHealth(m)   == HealthOf(m) \in {None, "/path"}
validateSecrets(m)  == \A u \in UnitsOf(m) : u.secrets \intersect Owned = {}
validateHostname(m) == HostnameOf(m) # None => Face(m).expose = "http"

\* A schedule with the environment of a job taken as it comes.
ScheduleAsItComes(m) == Scheduled(Face(m)) => Face(m).schedule = "cron" /\ Face(m).expose = None

\* A job is registered with all a start of it would carry, so it is held to it here.
validateSchedule(m) == Scheduled(Face(m)) =>
    /\ Face(m).schedule = "cron" /\ Face(m).expose = None
    /\ checkEnv(OwnEnv(Face(m)))

validateUnits(m) == Composed(m) =>
    /\ Len(m.units) <= MaxUnits
    /\ Cardinality({u.name : u \in UnitsOf(m)}) = Len(m.units)
    /\ Cardinality({i \in DOMAIN m.units : Exposed(m.units[i])}) = 1

declaredHostname(m) == HostnameOf(m) # None => ~SubscribesTo(m) /\ (Proxied => HostnameOf(m) # "under")
proveHostname(m)    == HostnameOf(m) = None \/ ~Proxied \/ points

Registrable(m) ==
    /\ validateHealth(m) /\ validateHostname(m) /\ validateSchedule(m)
    /\ validateUnits(m) /\ validateSecrets(m)
    /\ declaredHostname(m) /\ proveHostname(m)

\* runOptions and unitOptions: the command line a start makes of what it is sent.
runOptions(m)     == \A u \in UnitsOf(m) : checkEnv(OwnEnv(u))
resolveSecrets(m) == set \/ \A u \in UnitsOf(m) : u.secrets = {}
Startable(m)      == runOptions(m) /\ resolveSecrets(m) /\ proveHostname(m)

\* unitEnvironment: the unit's own, the secrets over it, and what kitbashd speaks for over both.
unitEnvironment(m, u) ==
    LET own  == {e \in OwnEnv(u) : e.key \notin u.secrets \union Owned}
        held == {[key |-> n, value |-> "secret"] : n \in u.secrets \ Owned}
        said == IF Composed(m) THEN Owned ELSE Owned \ {"KITBASH_UNIT"}
    IN  own \union held \union {[key |-> k, value |-> "kitbashd"] : k \in said}

\* labelsOf: whose container it is, of what image and from which manifest, is what the registration
\* says and never what a start sends.
labelsOf(r) == [id |-> r.id, digest |-> r.digest, of |-> r.of]

\* What a start makes of one registration.
Container(r) == labelsOf(r) @@ [name |-> RunsAs(r.of), state |-> "running", env |-> unitEnvironment(r.of, Face(r.of))]

------------------------------------------------------------------------------
Init ==
    /\ manifest \in {m \in Manifests : Accepted(m)}
    /\ image = 1 /\ set = TRUE /\ points = TRUE
    /\ rows = {} /\ up = {}
    /\ call = Quiet
    /\ runs = 0 /\ moves = 0

At(pc) == call.pc = pc
To(pc) == call' = [call EXCEPT !.pc = pc]
Answer(a) == call' = [call EXCEPT !.pc = "idle", !.answer = a]
Moves  == moves < MaxMoves /\ moves' = moves + 1
Still  == UNCHANGED <<manifest, image, set, points, moves>>

\* fs_write of the manifest: what is not accepted changes nothing.
Edit(m) ==
    /\ Moves /\ Accepted(m) /\ m # manifest
    /\ manifest' = m
    /\ UNCHANGED <<image, set, points, rows, up, call, runs>>

\* pkg_build, secrets_set and secrets_unset, and a record that is moved by whoever holds the name.
Build ==
    /\ Moves
    /\ image' = image + 1
    /\ UNCHANGED <<manifest, set, points, rows, up, call, runs>>

World ==
    /\ Moves
    /\ \/ set' = ~set /\ UNCHANGED points
       \/ points' = ~points /\ UNCHANGED set
    /\ UNCHANGED <<manifest, image, rows, up, call, runs>>

\* A container that ends by itself stays in the list of the runtime, stopped.
Ends ==
    /\ Moves
    /\ \E c \in up : c.state = "running" /\ up' = (up \ {c}) \union {[c EXCEPT !.state = "exited"]}
    /\ UNCHANGED <<manifest, image, set, points, rows, call, runs>>

\* proc_run reads the manifest and checks what a session can: a refusal here has touched nothing.
Run ==
    /\ At("idle") /\ runs < MaxRuns /\ runs' = runs + 1
    /\ call' = IF Sound(manifest)
               THEN [Quiet EXCEPT !.pc = "find", !.of = manifest, !.digest = image]
               ELSE [Quiet EXCEPT !.of = manifest, !.answer = "refused"]
    /\ Still /\ UNCHANGED <<rows, up>>

\* sameSchedule, and a job that is the same one moved: its image is what it was.
sameSchedule(m, n) == Face(m).schedule = Face(n).schedule /\ OwnEnv(Face(m)) = OwnEnv(Face(n))
Moved(r)           == Scheduled(Face(r.of)) /\ r.digest = call.digest

\* byName: a Process that runs this image is the answer, whatever its manifest says by now.
Find ==
    /\ At("find") /\ ~Scheduled(Face(call.of))
    /\ LET here == {c \in up : c.name = RunsAs(call.of)}
       IN  \/ here = {} /\ To("register")
           \/ \E c \in here : IF c.digest = call.digest /\ c.state = "running" THEN Answer("converged")
                              ELSE call' = [call EXCEPT !.pc = "remove", !.prev = c.id]
    /\ Still /\ UNCHANGED <<rows, up, runs>>

\* heldJob of runJob: the registration of this name, of which there may be more than one to find.
FindJob ==
    /\ At("find") /\ Scheduled(Face(call.of))
    /\ \E old \in IF rows = {} THEN {{}} ELSE {{r} : r \in rows} :
          LET here  == {c \in up : c.name = RunsAs(call.of)}
              moved == \E r \in old : Moved(r)
          IN  IF moved /\ \E r \in old : sameSchedule(r.of, call.of) THEN Answer("converged")
              ELSE \E c \in IF moved \/ here = {} THEN {[id |-> 0]} ELSE here :
                     call' = [call EXCEPT !.old = old, !.prev = c.id,
                                          !.pc = IF c.id = 0 THEN "register" ELSE "remove"]
    /\ Still /\ UNCHANGED <<rows, up, runs>>

\* remove and unregister: the container goes, the pod it is in with it, and then its row.
Remove ==
    /\ At("remove")
    /\ up' = {c \in up : c.id # call.prev}
    /\ rows' = {r \in rows : r.id # call.prev}
    /\ call' = [call EXCEPT !.pc = "register", !.lost = \E c \in up : c.id = call.prev /\ c.state = "running"]
    /\ Still /\ UNCHANGED runs

\* register.  A job that moved keeps its id and its row until the new one is written; of one that
\* did not the old row goes first.
Register ==
    /\ At("register")
    /\ LET moved == \E r \in call.old : Moved(r)
           id    == IF moved THEN (CHOOSE r \in call.old : TRUE).id ELSE runs
           row   == [id |-> id, of |-> call.of, digest |-> call.digest]
       IN  IF Registrable(call.of)
           THEN /\ rows' = (rows \ call.old) \union {row}
                /\ IF Scheduled(Face(call.of)) THEN Answer("registered") ELSE To("start")
           ELSE /\ rows' = IF moved THEN rows ELSE rows \ call.old
                /\ Answer("refused")
    /\ Still /\ UNCHANGED <<up, runs>>

\* A refused start that is answered, with its registration left for the next one.
StartOrTell ==
    /\ At("start")
    /\ \E r \in rows : r.id = runs /\
          IF Startable(r.of)
          THEN up' = up \union {Container(r)} /\ Answer("running")
          ELSE up' = up /\ Answer("refused")
    /\ Still /\ UNCHANGED <<rows, runs>>

\* startProcess and startPod, and orphan when they refuse.  A name of the runtime is held once: what
\* fails because the pod is there already takes that pod down, by name, as the half of its own.
\* Whether a container and a pod may have one name is the runtime's.
Start ==
    /\ At("start")
    /\ \E r \in rows : r.id = runs /\
          LET pods  == {o \in up : Composed(r.of) /\ Composed(o.of)}
              fails == rows' = rows \ {r} /\ up' = up \ pods
                       /\ call' = [call EXCEPT !.pc = "idle", !.answer = "refused",
                                               !.lost = @ \/ \E o \in pods : o.state = "running"]
              starts == up' = up \union {Container(r)} /\ UNCHANGED rows /\ Answer("running")
          IN  CASE ~Startable(r.of) -> rows' = rows \ {r} /\ UNCHANGED up /\ Answer("refused")
                [] Startable(r.of) /\ pods # {} -> fails
                [] OTHER -> starts \/ (up # {} /\ fails)
    /\ Still /\ UNCHANGED runs

Next == Build \/ World \/ Ends \/ (\E m \in Manifests : Edit(m))
        \/ Run \/ Find \/ FindJob \/ Remove \/ Register \/ Start

Spec == Init /\ [][Next]_vars

------------------------------------------------------------------------------
\* Between two runs every registration is of something kitbashd would make a command line of: "a
\* registration kitbashd could never resolve is refused rather than stored as a Process that fails
\* every start".  For a job the registration is all there is, so it has to be checked there; a
\* Process is checked when it is started, and its registration goes when it is refused.
NothingFailsEveryStart == At("idle") => \A r \in rows : runOptions(r.of)

\* A run that a legal manifest is refused for leaves what ran before it: "the whole run command is
\* built and checked before anything is removed.  Replacing a Process destroys the old container,
\* so every failure that can be found without the runtime has to be found first."
RefusedLeavesWhatRan ==
    call.answer = "refused" /\ call.lost =>
        validateHealth(call.of) /\ validateHostname(call.of) /\ validateSchedule(call.of) /\ runOptions(call.of)
==============================================================================
