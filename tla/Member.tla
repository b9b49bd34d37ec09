------------------------------- MODULE Member -------------------------------
(***************************************************************************)
(* What a member does through kitbash-mcp and its daemon: queueing a call  *)
(* for an admin, runs of a Package, pods, builds, the session and what it  *)
(* may name, manifests, the bridge to kits, files, the telemetry of its    *)
(* Processes, and the probes of their health.                              *)
(*                                                                         *)
(* They share no state, so one run checks them all: a behaviour is one of  *)
(* a single part, chosen at the start, and the others stand where they     *)
(* begin.  What is promised is said for any values of the constants; those *)
(* that Member.cfg takes are here when they are more than a small set.     *)
(***************************************************************************)
EXTENDS Approvals

CONSTANTS
    RunSessions, RunIds, RunUnits, JobSessions, JobIds, JobUnits, KitSessions, KitIds, KitUnits,
    MaxRefusals,                                                     \* ProcRun
    PodIds, Order, FaceUnit, MaxTokens, MaxPodFaults, MaxCrashes,        \* Pods
    Builders, BuildShapes, BuildKits, MaxContents, MaxImages, MaxBuildFaults,   \* Packages
    Calls, Asked, Published, Families, Areas, SharedAreas, Grants, QueueRoom,  \* Session
    Manifests, HasProxy, MaxUnits, MaxRuns, MaxMoves,                 \* Declared
    Processes, PackageOf(_), NamesOf(_), Clients, MaxOpens,          \* Bridge
    Writers, Paths, Manifest, Contents, NoContent, Torn, Shapes, MaxOpen, MaxWriteFaults,  \* Files
    Readers, Procs, Requests, Signals, Windows, Batch, QueueDepth, Rate, RateWindow, MaxClock,
    MaxRecords, MaxStoreFaults, MaxChanges,                          \* Telemetry
    Probed, Decls, Intervals, IdleWait, MaxFlights                   \* Prober

VARIABLES part,
    runRows, runBox, runKit, runCalls, runLeft, runMinted, runFaults,
    jobRows, jobBox, jobKit, jobCalls, jobLeft, jobMinted, jobFaults,
    kitRows, kitBox, kitRuns, kitCalls, kitLeft, kitMinted, kitFaults,
    podRows, pod, podAt, podFiles, problems, todo, tokens, podFaults, crashes,
    tree, shape, store, records, kits, building, started, buildFaults,
    permits, owned, asked, open, causes, reports, over,
    manifest, built, set, points, registered, up, running, runs, moves,
    state, published, owners, sessions, clients, opens, bridging,
    disk, index, repo, writing, writeFaults,
    admins, row, record, window, req, page, cause, rate, sweep, clock, storeFaults, changes,
    targets, flights, wait, woken

runVars       == <<runRows, runBox, runKit, runCalls, runLeft, runMinted, runFaults>>
jobsVars      == <<jobRows, jobBox, jobKit, jobCalls, jobLeft, jobMinted, jobFaults>>
kitVars       == <<kitRows, kitBox, kitRuns, kitCalls, kitLeft, kitMinted, kitFaults>>
podsVars      == <<podRows, pod, podAt, podFiles, problems, todo, tokens, podFaults, crashes>>
packagesVars  == <<tree, shape, store, records, kits, building, started, buildFaults>>
sessionVars   == <<permits, owned, asked, open, causes, reports, over>>
declaredVars  == <<manifest, built, set, points, registered, up, running, runs, moves>>
bridgeVars    == <<state, published, owners, sessions, clients, opens, bridging>>
filesVars     == <<disk, index, repo, writing, writeFaults>>
telemetryVars == <<admins, row, record, window, req, page, cause, rate, sweep, clock,
                   storeFaults, changes>>
probesVars    == <<targets, flights, wait, woken>>
allVars       == <<part, vars, runVars, jobsVars, kitVars, podsVars, packagesVars, sessionVars,
                   declaredVars, bridgeVars, filesVars, telemetryVars, probesVars>>

-----------------------------------------------------------------------------
\* Sessions that run the images of one Package, a job, and a Package that a kit runs.
Runs == INSTANCE ProcRun WITH
    Sessions <- RunSessions, Ids <- RunIds, Units <- RunUnits, MaxFaults <- MaxRefusals,
    rows <- runRows, box <- runBox, kit <- runKit, calls <- runCalls, left <- runLeft,
    minted <- runMinted, faults <- runFaults

Jobs == INSTANCE ProcRun WITH
    Sessions <- JobSessions, Ids <- JobIds, Units <- JobUnits, MaxFaults <- MaxRefusals,
    rows <- jobRows, box <- jobBox, kit <- jobKit, calls <- jobCalls, left <- jobLeft,
    minted <- jobMinted, faults <- jobFaults

Kit == INSTANCE ProcRun WITH
    Sessions <- KitSessions, Ids <- KitIds, Units <- KitUnits, MaxFaults <- MaxRefusals,
    rows <- kitRows, box <- kitBox, kit <- kitRuns, calls <- kitCalls, left <- kitLeft,
    minted <- kitMinted, faults <- kitFaults

Pods == INSTANCE Pods WITH
    Ids <- PodIds, Face <- FaceUnit, MaxFaults <- MaxPodFaults, rows <- podRows, at <- podAt, files <- podFiles,
    faults <- podFaults

Packages == INSTANCE Packages WITH
    Calls <- Builders, Shapes <- BuildShapes, Kits <- BuildKits, Face <- FaceUnit,
    MaxFaults <- MaxBuildFaults, call <- building,
    faults <- buildFaults, ran <- started

Session == INSTANCE Session WITH
    Queue <- QueueRoom, Shared <- SharedAreas, call <- asked, told <- reports

Declared == INSTANCE Declared WITH
    Proxied <- HasProxy, rows <- registered, call <- running, image <- built

Bridge == INSTANCE Bridge WITH Ids <- Processes, Calls <- Clients, open <- clients, call <- bridging

Files == INSTANCE Files WITH
    Calls <- Writers, Absent <- NoContent, MaxFaults <- MaxWriteFaults, call <- writing, faults <- writeFaults

Telemetry == INSTANCE Telemetry WITH
    Members <- Readers, MaxFaults <- MaxStoreFaults, faults <- storeFaults

Probes == INSTANCE Prober WITH Ids <- Probed

-----------------------------------------------------------------------------
Parts == {"approvals", "run", "jobs", "kit", "pods", "packages", "session", "declared", "bridge",
          "files", "telemetry", "probes"}

\* Where a part that is not the one checked stands.
Stands ==
    /\ part # "packages"  => shape = (CHOOSE s \in BuildShapes : s.builder = "none") /\ kits = {}
    /\ part # "session"   => permits = Session!Member /\ owned = {}
    /\ part # "declared"  => manifest = CHOOSE m \in Manifests : TRUE
    /\ part # "telemetry" => admins = {}

Begins ==
    /\ part \in Parts
    /\ Stands
    /\ Init
    /\ Runs!Init /\ Jobs!Init /\ Kit!Init /\ Pods!Init /\ Packages!Init /\ Session!Init
    /\ Declared!Init /\ Bridge!Init /\ Files!Init /\ Telemetry!Init /\ Probes!Init

Moves ==
    /\ UNCHANGED part
    /\ IF part = "approvals" THEN Next ELSE UNCHANGED vars
    /\ IF part = "run" THEN Runs!Next ELSE UNCHANGED runVars
    /\ IF part = "jobs" THEN Jobs!Next ELSE UNCHANGED jobsVars
    /\ IF part = "kit" THEN Kit!Next ELSE UNCHANGED kitVars
    /\ IF part = "pods" THEN Pods!Next ELSE UNCHANGED podsVars
    /\ IF part = "packages" THEN Packages!Next ELSE UNCHANGED packagesVars
    /\ IF part = "session" THEN Session!Next ELSE UNCHANGED sessionVars
    /\ IF part = "declared" THEN Declared!Next ELSE UNCHANGED declaredVars
    /\ IF part = "bridge" THEN Bridge!Next ELSE UNCHANGED bridgeVars
    /\ IF part = "files" THEN Files!Next ELSE UNCHANGED filesVars
    /\ IF part = "telemetry" THEN Telemetry!Next ELSE UNCHANGED telemetryVars
    /\ IF part = "probes" THEN Probes!Next ELSE UNCHANGED probesVars

Whole == Begins /\ [][Moves]_allVars

-----------------------------------------------------------------------------
\* What runs keeps the registration its token is of until it is down (proc.go run).
RunningKeepsItsRow == Runs!RunningKeepsItsRow

\* A member is shown each Process on one line, and each Process a kit has answered a living session
\* with is registered or told of (proc.go List, kits.go orphaned).
RunsAreKnown == Jobs!ListedOnce /\ Kit!KitProcessIsKnown

\* The pod of one registration comes up in order until a boot makes it again, and the files of its
\* units, with their tokens, are on disk only while it is made (pods.go).
PodsAreWhole == Pods!FilesAreShortLived /\ (crashes = 0 => Pods!ComesUpInOrder)

\* A version of a Package is answered only with all of its units built (pkg.go buildUnits).
AnswerIsWhole == Packages!AnswerIsWhole

\* Nothing is acted on outside of what a session is permitted (permits.go, approve.go), and a member
\* reads its own telemetry (handlers.go query).
PermitsHold == Session!NothingOutsideThePrefixes /\ Telemetry!MembersReadTheirOwn

\* An internal cause names the call that failed, and the span of a call tells its answer
\* (telemetry.go tool, tracing.go).
CallsAreTold == Session!CauseNamesItsCall /\ Session!SpansTellTheAnswers

\* Nothing is registered that no start could ever run (proc.go, schedule.go).
NothingFailsEveryStart == Declared!NothingFailsEveryStart

\* One Process answers a name of the surface, and no client session to a kit is left behind
\* (bridge.go).
OneSessionAnswers == Bridge!OneAnswersAName /\ Bridge!NoSessionIsLost

\* A list of files that is refused did not happen, and a write that is answered is a version and
\* the only change of it (write.go, writeall.go).
WritesAreVersions == Files!RefusedListIsUndone /\ Files!AnsweredIsCommitted

\* A Process that is due is probed, however often it was registered again, and a reading that comes
\* back late is dropped (health.go).
ProbesAreCurrent == []Probes!NobodyIsOverslept /\ Probes!LateReadingsAreDropped

-----------------------------------------------------------------------------
\* The values of Member.cfg.
\* Paths of the organisation and one of a home, queued alone and together.
MCInputs == {<<"/org/a">>, <<"/org/a", "/home">>}

U(kind, digest, cron) == [kind |-> kind, digest |-> digest, cron |-> cron, problem |-> FALSE]

MCBuilds == {[units |-> <<"face">>, builder |-> "none"], [units |-> <<"side", "face">>, builder |-> "none"],
             [units |-> <<"face">>, builder |-> "k"]}

MCGrants == {[tools |-> {"fs_write", "approvals_approve"}, packages |-> TRUE, paths |-> {"own"}]}

MCPackageOf(i) == IF i = "k" THEN "b" ELSE "a"
MCNamesOf(p)   == IF p = "a" THEN {"x"} ELSE {"x", "y"}

Shape(form, paths, content, queued) ==
    [form |-> form, paths |-> paths, content |-> content, queued |-> queued]
MCWrites == {Shape("list", <<"kitbash.yaml">>, 1, FALSE), Shape("one", <<"a">>, 2, FALSE),
             Shape("list", <<"a", "kitbash.yaml">>, 1, FALSE), Shape("list", <<"a">>, 1, TRUE),
             Shape("import", <<"kitbash.yaml">>, 2, FALSE)}

\* Manifests with what a run may be refused for: environments, secrets, schedules, ports, units.
Unit == [name |-> "", type |-> "container", expose |-> "none", port |-> FALSE, hostname |-> "none",
         schedule |-> "none", health |-> "none", restart |-> FALSE, env |-> {}, secrets |-> {},
         runner |-> "none"]
Web  == [Unit EXCEPT !.expose = "http", !.port = TRUE]
Env(k, v)   == {[key |-> k, value |-> v]}
One(u)      == [units |-> <<u>>, subscribes |-> FALSE]
Two(u, v)   == [units |-> <<[u EXCEPT !.name = "a"], [v EXCEPT !.name = "b"]>>, subscribes |-> FALSE]
MCManifests == {
    One(Unit), One([Unit EXCEPT !.env = Env("A", "text")]), One([Unit EXCEPT !.env = Env("A", "lines")]),
    One([Unit EXCEPT !.secrets = {"TOKEN"}]),
    One([Unit EXCEPT !.secrets = {"TOKEN"}, !.env = Env("TOKEN", "text")]),
    One([Unit EXCEPT !.schedule = "cron"]),
    One([Unit EXCEPT !.schedule = "cron", !.env = Env("9X", "text")]),
    One([Web EXCEPT !.hostname = "theirs", !.health = "/path"]), One([Web EXCEPT !.port = FALSE]),
    One([Web EXCEPT !.health = "word"]), Two(Web, Unit), Two(Unit, Web), Two(Web, Web)}

\* Two images of one Package, two images and two expressions of a job, and a kit.
MCRunUnits == {U("process", "A", "none"), U("process", "B", "none")}
MCJobUnits == {U("job", "A", "x"), U("job", "A", "y"), U("job", "B", "x")}
MCKitUnits == {U("kit", "A", "none")}

MCOrder   == <<"face", "side">>
MCSignals == <<"logs">>
=============================================================================
