# A specification of kitbash

TLA+ modules, TLC configurations and proofs for the control logic of kitbash: the daemon `kitbashd`
(`cmd/kitbashd`, `internal/daemon`, `internal/store`, `internal/sysusers`, `internal/secrets`,
`internal/cgroups`, `internal/mounts`) and the session of a member, `kitbash-mcp`
(`internal/server`, `internal/proc`, `internal/pkg`, `internal/fs`, `internal/bridge`,
`internal/telemetry`, `internal/manifest`). Paths below are relative to the repository. `PROJECT.json`
says for every definition which lines it models, and for every property which mistake of the code
would break it.

To check a run: `tlc -config Removal.cfg Removal.tla`. To check the proofs: `tlapm M_proofs.tla` for
`M` in `Fanout`, `Host`, `McpSessions`, `Member`, `Processes`, `Removal`, `Runs`, `Waits`. A run is its
configuration with the module the table of section 3 names.

1. The system, with its inventory
2. The modules, and how the code is read
3. What is checked: runs, bounds, fairness, assumptions
4. Where the code and its comments disagree
5. What is proved
6. What is not modelled, and what is left

## 1. The system

kitbash gives every member of an organisation a Linux account and an MCP endpoint over SSH. Each
session is a `kitbash-mcp` that runs as the member. Everything that needs root or outlives a session
is in `kitbashd`: the registry of Processes (rootless podman containers), the members, the telemetry
store, the proxy. The daemon is one process with one SQLite file; each request, each run of a job,
each probe and each removal is a goroutine of its own. So the hard part is what those goroutines do to
one Process or one member at the same time, what a stop of the daemon leaves of it, and what a member,
who owns the folders and the containers the daemon works on as root, changes under its hands.

### Inventory

For each component: what it keeps, what it does, what is hard, and what makes it correct.

**Action lock** (`daemon/run.go`). A map from Process id to a mutex and a count of users. Hard: the
entry is dropped while others wait. Correct: one caller per id, different ids independent, no entry
left, everyone served.

**Members and removal** (`daemon/users.go`, `daemon/removal.go`, `store/removals.go`,
`sysusers/host.go`). A row per removal, accounts and homes on the host, the set of names being removed
and one job per name in memory. `users_create`, `users_remove`, the job of nine steps that may each
fail, `resumeRemovals` at boot. Hard: the answer comes before the work; the daemon may stop between
`userdel` and the rename; a name may be created again over what is left. Correct: no account without a
home, no home that is lost or handed on, every removal that was begun comes to a state an admin reads
unless the store refuses the call that would record or resume it.

**Subordinate ids and keys** (`sysusers/subids.go`, `sysusers/keys.go`, `host.go`). Lines of
`/etc/subuid` and of an `authorized_keys` in a home. Hard: two creations read the same file; the member
renames what the daemon is about to write as root. Correct: blocks do not overlap; nothing is written
that another member owns.

**Process registry** (`daemon/processes.go`, `daemon/run.go`, `store/processes.go`). The row with its
declaration and the hash of its token; an environment file during a start. register, unregister,
start, stop, remove. Hard: the row is read before the lock and written after; a start has a dozen
steps that may fail; six tables in memory follow the row. Correct: what is unregistered is forgotten
everywhere, no token on disk after the call, no container without a row.

**Scheduler** and **cron** (`daemon/schedule.go`, `manifest/cron.go`). The jobs with their next tick
and in flight marker, the runs in total and per member; the search for the next tick over a calendar.
Hard: runs end long after their job was unregistered or declared anew. Correct: slots are the runs, the
ceilings hold, a run ends its own token and no other, a tick is passed over only for an earlier one,
the tick found is the first.

**Health probes** (`daemon/health.go`) and **proxy** (`daemon/proxy.go`). The targets with a marker in
flight; the routing table from host names to a port or to 503, and one shared inspect per route after a
failed dial. Hard: reading the runtime and writing the table are two steps, in goroutines that take no
lock. Correct: a late reading is dropped, what is due is probed, a dead port is mended, everyone who
waits for an inspect is answered.

**Boot and healing** (`daemon/restore.go`, `cmd/kitbashd/main.go`). Subscribers, then the listeners,
and beside them: sweep, removals resumed, containers started, healed or remade, rows dropped, routes,
jobs, probes. Hard: sessions are served meanwhile, and the daemon may be killed while a container is
replaced. Correct: nothing comes back that was not registered, nothing registered is lost, an old
container goes only once another stands for it.

**Daemon** (`cmd/kitbashd/main.go`, `daemon/daemon.go`, `peer.go`, `budget.go`, `backup.go`). Listeners,
the slots of their connections, the backup loop. Correct: a listener that is lost stops the whole, the
slots are the connections, the copy that health names is there and whole.

**MCP sessions** (`daemon/mcp.go`). Slots per Process, sessions by id, caller credentials with a grace,
one `kitbash-mcp` per session. Hard: five goroutines may end a session while a sixth is still opening
it. Correct: the cap, a credential for every record the child sends, every slot and child comes back.

**Fan out** (`daemon/fanout.go`). A queue per subscriber bounded by count and by bytes, a worker each.
Hard: eviction by producers while the worker takes; a registration that changes under a snapshot.
Correct: the byte count is what is queued, a queue holds what its Process may read, a producer never
waits, no record goes round in a loop between kits that answer over the receiver.

**Approvals** (`daemon/approvals.go`, `store/approvals.go`, `server/approve.go`). pending, approved with
a claimant, rejected, a result once. Hard: two admins, a session that dies between claim and result, a
requester who is removed. Correct: one decision, one run, inside what the claiming session may name.

**Pods** (`daemon/pods.go`), **client side of a run** (`proc/proc.go`, `proc/schedule.go`,
`proc/kits.go`). Many-step operations with a teardown on every path and, for the client, any step of
which may be the last. Correct: a pod comes up in order, tokens are on disk only while it is made; what
runs keeps the registration its token is of; a kit's Process whose id was answered is known or told of.

**Image fetch and builds** (`daemon/images.go`, `daemon/builds.go`, `store/builds.go`,
`sysusers/runner.go`), **packages** (`internal/pkg`). The record of who built which commit, the copy of
an image from one member to another through a pipe of two children, the build of every unit. Correct:
slots of copies are the copies, a record is its builder's, an image that loads is the one saved, a
version is answered only whole.

**Secrets**, **cgroups**, **mounts** (`internal/secrets`, `internal/cgroups`, `internal/mounts`,
`daemon/mounts.go`). Files, kernel trees and folders the member can move. Correct: a start reads whole
values, what runs is below its ceiling, nothing runs with a folder its declaration may not have.

**Telemetry store, codec and client** (`internal/store`, `daemon/identity.go`, `daemon/handlers.go`,
`internal/otlp`, `internal/telemetry`). Records stamped with who sent them, windows of retention, and
the conversions of a record on its way. Correct: a member reads its own, as it was stored; what is past
its window goes.

**Files** (`internal/fs`), **file tree and safe paths** (`internal/safeopen`). Writes of one file or a
list in a git repository without a lock between sessions; reads below a root while links appear in it.
Correct: a list that is refused did not happen, as far as its rollback is let; what is answered is a
version; nothing outside the root.

**MCP server of a member** and **bridge to kits** (`internal/server`, `internal/bridge`), **manifests**
(`internal/manifest`). The layers of a call, permits by globs and prefixes, the tools of running kits
and one client session each. Correct: a glob is its language, a cause names its call, one Process
answers a name, nothing is registered that no start could run.

**The rest** (host names beyond a declaration, TLS, media types, evaluation, the kits themselves, test
doubles) is I/O, libraries or not the program. `PROJECT.json` has every component with its reason.

Interaction: sessions call the daemon over a socket; the daemon calls the runtime (podman) as the
owner, the store, and the host tools; the store is one connection, so each of its transactions is one
step; tables in memory are each under a mutex of their own and follow the rows. Nothing is called back
except the fan out, the tools of an MCP session and the tools of a kit.

## 2. The modules

| module | models | state and steps |
|---|---|---|
| `KeyedMutex` | what is asked of the action lock | who wants and who has a key |
| `ActionLock` | `actionLock` | the map, the counts, the mutexes as objects, where each caller is; one action per section under `a.mu` |
| `Removal` | members and their removal | the row, accounts, homes and leftovers; marks, jobs and requests that a stop wipes out; one action per step of the job and per call of a handler |
| `SubIDs`, `Keys` | subordinate ids, `users_add_key` | lines of a file and the lock around them; names and inodes of a home, two calls at once |
| `Processes` | one registered Process | the row, the environment file, the container, four tables, the lock, a program counter per goroutine, the stages of a boot |
| `Scheduler` | the scheduler | entries with a relative next tick, the two counts, the runs under way; `Pass` is one `due` |
| `Cron` | fields, the day rule and `Next` | a calendar as parameters, the expression and the search |
| `Prober` | targets and probes in flight | a distance to the next probe for each, the wait of the loop, what is in flight |
| `Names` | host names, the claims on them, the table at boot, quotas of a member | rows, the table, the calls with the check and the write apart, how far `LoadRoutes` is |
| `Routes` | `reResolver` and the table | routes, the verb that writes one, the shared call with its waiters |
| `Heal` | healing at boot | the container, the one put aside, the row, the steps of three boots |
| `Daemon` | start, stop, listeners, backups | the socket, listeners, connections and slots, copies on disk |
| `McpSessions` | the MCP sessions | the fields an opening sets, what `end` read of them, the child, slots, ids, credentials, later requests |
| `Fanout` | the fan out | rows, subscribers as objects, queues, producers and workers with a step for each atomic access |
| `Decision` | what is asked of the approval queue | one state for each approval |
| `Approvals` | the approval queue | the table, sessions with the request each makes, what was run, members that go |
| `Pods` | Processes of several units | the pod and its units, rows, files, what a boot has to remake |
| `ProcRun` | `proc_run`, `proc_stop`, `Reconcile` | rows, the runtime, the kit, the calls of sessions, faults and deaths |
| `Declared` | what a declaration may say | a manifest and who refuses what of it: the writer, the client, the daemon, the start |
| `Images`, `Copy` | builds on record and copies; one copy | holds, records, slots; the pipe with its ends |
| `Packages` | build and import | commits, image store, the steps of a build |
| `Secrets`, `Cgroups`, `Mounts` | the three host trees | directories and calls on them; trees, owners and who sits where; folders, links and the opened descriptors |
| `Migrate` | opening the database | columns, two daemons, statements one by one |
| `Telemetry` | identity, query, retention, causes | rows and admins, requests, windows, the sweep, a rate |
| `Codec` | a batch from session to subscriber | the record at each of its forms |
| `Session`, `Permits` | one session; one match | calls with the layer each is in, spans and causes; the loop of `matchGlob` |
| `Bridge` | the tools of kits | published names, owners, client sessions |
| `Files`, `Tree` | writes; reads below a root | disk, index, commits and two calls; nodes, links and one walk |

`Waits`, `Host`, `Member` and `MCFanout` put several components beside one another, and a run checks
each of the four (section 3). `Waits` is where somebody waits for somebody else (`ActionLock`, which it
extends, `Scheduler`, `Routes`, `Telemetry`, `Daemon`, `Copy`), `Host` what the daemon keeps for members on
a host, `Member` what a member does through kitbash-mcp. These three leave the constants of their parts
open, state what is promised for any values of them (`Whole`, and the properties that follow it), and end
with the values that their configurations take. `MCFanout` extends `Fanout`, gives it values, and puts
`Permits`, `Session` and `Codec` beside it.

`Fanout_proofs`, `McpSessions_proofs`, `Processes_proofs` and `Removal_proofs` hold the theorems about
their namesake. Four hold those about the parts of a composition: `Waits_proofs` extends `Waits`
(`ActionLock`, `Scheduler`, `Routes`, `Daemon`, `Copy`), `Host_proofs` extends `Host` (`Cron`, `Migrate`, `Daemon`,
`Heal`, `Secrets`, `Mounts`, `Cgroups`, `Images`, `Keys`, `Names`, `SubIDs`, `Tree`), `Member_proofs`
extends `Member` and is about the calls of a session (`Bridge`, `Session`, `Packages`, `Files`, `Declared`,
`Telemetry`), and `Runs_proofs` extends `Member` and is about what runs (`Pods`, `Prober`, `ProcRun`,
`Approvals`).

How they compose. `ActionLock` implements `KeyedMutex` (checked and proved), and `Processes` and `Pods`
use the lock in that abstract form. `Approvals` implements `Decision` (checked and proved). `Scheduler`
is the whole of the table that `Processes` reduces to one entry per id; `Prober` and `Routes` likewise
refine what is one step of a probe or one field of `route` there. `ProcRun` sees the daemon as calls
that may fail and lose their answer; `Declared` says which of those calls are refused and why. `Copy`
is one step of `Images`; `Permits` is the match that `Session` asks for.

### How the code is read

A handler is a program counter. Whatever the code does under one hold of a mutex, in one transaction,
or in one call of podman or a host tool is one action; between two of them anything else may come.
What a handler read and keeps is part of its state, so it may be stale when it is used. Every call that
may fail has a failing disjunct, and what the code does then is in it. What the member can do to the
host is an action of its own. Bytes, names and times are members of small sets, and a conversion is
what it does to the members of those sets.

**Removal.** A name's leftovers are named after the step of the job that takes them away. `Gated` are
the kinds whose handlers ask `notRemoving`; the question and the write are two steps. `JobMove` may
move the home and fail, since the subordinate ids come after it. `Expire` is the end of
`RemovalTimeout`: every later step with the context fails, `FinishRemoval` included, which may also
fail by itself (`unsaid`). The read of the rows by `resumeRemovals` may fail too (`unread`), and then
nothing is taken up until the next boot.

**Processes.** The declaration is a kind and the registration it came from; a token is the number of
its mint. The checks of a start may each refuse and are one disjunct; `Declared`, `Mounts` and
`Secrets` say what they are. A probe only appears where its answer disagrees with the table. The stages
of `boot` are the order in `main.go`.

**Scheduler, Prober.** Time is relative to each entry, so there is no clock to bound. A run is a job and
a number, since one job may have several: `track` knows nothing of what still runs under an id it adds,
and `proc_run` registers under the id of the job it found, which a `proc_stop` may have unregistered
since (`proc/schedule.go:78`). `renewed` remembers of which jobs that is so.

**McpSessions.** A session is its opening request. The teardown of the child uses only what `end` read
under the mutex. Whatever revokes a token is `Revoke`, and the ends that follow come any time after it.

**Fanout.** A subscriber is an object, since a producer keeps a snapshot of them. The budget is checked,
sent and added in three steps, as the code does it without a lock. A kit that was woken answers over the
receiver, as itself (`Insert`), or calls a tool over `/mcp`, whose `kitbash-mcp` exports over the socket as
the member (`CallsATool`).

**Approvals.** Who asks and whether they may is one step, the transaction another. A session that dies
loses what it ran and not what it asked: the daemon answers a request whose session is gone.

**ProcRun.** One action per call to the daemon or the runtime; a fault is a call that fails, loses its
answer, or is the last one of its session. `left` says of an id that is left behind whether somebody was
told it: the problem of a kit that started a Process and whose answer was lost names none.

**Files.** Any command of a call may fail, and so may each step of its rollback, which runs git under the
same context and drops every error: `unreset` marks an index that could not be taken back, `stuck` the
files that could not be written, which may be left truncated.

## 3. What is checked

Seven runs pass. Every property has a mutant in `PROJECT.json`.

| run | bounds | shows |
|---|---|---|
| `Removal` | 1 admin, 1 member, one users call at a time, 2 kinds of work, 2 stops | no home is lost; a name is taken over clean and a removal ended by its job alone; a removal that was cut ends, unless the store refuses to read or record it |
| `Processes` | 1 id, 1 session, 1 tick, 1 probe, 3 tokens, 1 stop | a token is on disk only for the start that has the lock, and tables follow rows; a late run starts nothing that is gone and ends no token but its own; a run holds nobody up and a dead route is mended |
| `McpSessions` | cap of 1, 2 openings, 1 later request | the cap; credentials and children; the sweep spares work; slots come back |
| `Fanout` (of `MCFanout`) | four parts: 2 Processes, 3 subscribers over time, a queue of one request and two records, 1 export, 1 change, one Process that calls tools; patterns of 4 letters on names of 3; calls with 2 paths; batches of 3 records | counts are what is queued and only readable records wait; deliveries end, while kits answer over the receiver, and nobody waits for one; a glob, a list of paths and a record on the wire mean what was said |
| `Waits` | six parts: 3 callers and 2 ids; 3 jobs of 2 members, 3 runs at once and 2 of a member; 2 requests on one route; 2 tables of the store; socket and proxy with 1 connection over 2 starts; an archive of 3 pieces through a pipe of 2 | slots are what they count; the lock is a keyed mutex and serves everyone; ticks and inspects are shared; every wait ends; the sweep, the stop and the copy finish |
| `Host` | twelve parts, each with its bounds in `Host.cfg` and at the end of the module | the first tick; accounts, names, secrets, folders, roots, the database, containers, limits with quotas, and build records, with the member or a stop between any two system calls |
| `Member` | twelve parts, each with its bounds in `Member.cfg` and at the end of the module | approvals and their refinement of `Decision`; runs, pods, builds, permits, spans, declarations, kits, telemetry, files and probes |

**Parts.** The last four runs each hold parts that share no state. A behaviour is one of a single
part, chosen at the start; the others stand where they begin (`Stands` picks one beginning for each of
those), so the states of a run are the sum of the states of its parts and not their product. A property
of a part is that of its module, under a name of the run; a liveness property asks fairness of its own
part. Nothing that interacts is split this way: what two components do to one another is inside one
module (`Processes`, `Removal`, `McpSessions`, `Approvals`, `Pods`, `ProcRun`).

**Why the bounds are enough to mean something.** Three callers are one holding, one waiting and one
that comes after an entry was dropped. Two stops let one fall between `userdel` and the rename and
another into the job that is resumed. One Process with one goroutine of each sort has every pair of
interleavings across sorts, which is where the code takes different locks, or none. Three jobs of two
members, with room for three runs and for two of a member, meet both ceilings, alone and together, and
let one job go twice when it was registered anew beside its run. A queue of one request and two records evicts for
either limit. Two admins with two approvals and a cap of one meet a second decision, a full queue and a
lost answer. The codec takes every kind of attribute alone and in batches of three, with equal and
different scopes; the globs are every pattern of four letters against every name of three. Counters
named `Max...` (faults, moves, crashes, tokens, boots, clocks) only keep the state finite, and each is
large enough that the event they count falls into every step of the operation beside it; the mutants
show that each property is reached.

`CHECK_DEADLOCK` is off where a behaviour may be over: in `McpSessions` all requests may have been
answered, in `Fanout` nobody has to export, and a part of the last four runs ends when its calls, its
faults and its clock are used up.

### Fairness

Goroutines that are running go on (weak fairness of their steps), and the service manager starts the
daemon again after a stop. Waiting for a mutex is strongly fair, since Go's `sync.Mutex` hands itself
over to a waiter that was passed by for a millisecond. No fairness says that a container exits by
itself, that a member or admin does anything, or that a later request comes: `RunsHoldNobodyUp` holds
for an entrypoint that never exits. `Scheduler` takes the end of a run as given, by `MaxRunTime`.
`DeadRoutesAreMended` has the probe loop tick. In `McpSessions` a request that is work is answered, and
a listening GET only once its session has ended. In `Fanout` workers and producers go on, and nobody has
to export, register or close. A sweep of the store that fails is tried again at the next tick. In
`Copy` a child that hangs is not fair, and its copy ends by the time budget. The removal job is strongly
fair where `Prompt` holds back its last two steps for a request that stands between `BeginRemoval` and
`startRemoval`.

### Assumptions worth knowing

* `Prompt` (Removal): the job's last two steps do not fall between two adjacent statements of a
  request. Without it a request may find a job that is already on its way out, and a row says
  `removing` with no job.
* One users call at a time (Removal). With two, a `users_create` past `notCreatable` overlaps a
  `users_remove` of the same name: the account is made again after `userdel` and the job moves the new
  home, so `AccountKeepsItsHome` fails. It is listed as a hazard.
* `renewed` (Scheduler): that a job runs once at a time, and that its marker says whether it runs, is
  claimed of a job that was not registered anew beside a run of it. The slots and the ceilings need no
  such condition.
* `Talkers` (Fanout): `KitsDoNotLoop` is claimed of behaviours in which calls of tools over `/mcp` come to
  an end. The rule of `dispatch` stops records of subscribers, and those calls are exported as the member.
* `unread`, `unsaid` (Removal): a removal that was cut ends unless the store refuses the read at boot or
  the write at the end. The code logs either error and goes on.
* `unreset`, `stuck` (Files): what a refused list leaves is claimed of the files rollback could write, and
  of the index where git did not refuse rollback as well.
* `raced` (Processes): `UnregisteredIsForgotten` is claimed unless a session was served since the last
  start while the boot was still going on.
* `crashes = 0` and one registration (Pods): a pod comes up in order until a boot makes it again, since
  a boot starts what is there, and while one registration names it. That its files are short lived needs
  neither.
* One session, and an answer that arrived (`KitProcessIsKnown` of ProcRun): a session that finds a kit's Process replaced forgets the
  newer one of another session; and of a Process whose answer was lost nobody has the id.

## 4. Where the code and its comments disagree

Five runs each show one sentence of the repository to be untrue of the code.

| run | the sentence | what happens |
|---|---|---|
| `RunTwice` | "A job that is registered twice would be run twice" (`proc/schedule.go:101`) | a job whose container Reconcile registered as a Process is left, and a second is registered beside it |
| `DeclaredRefused` | every failure is found before anything is removed (`proc/proc.go:363`) | the daemon refuses the declaration after the container and the row of the old Process have gone |
| `HealUnregisters` | "no boot in which the Process is unregistered because of it" (`restore.go:404`) | a daemon killed between the rename and the create of a healing unregisters the Process at its next start |
| `RemovalSecrets` | the wipe is of an old account's values (`users.go:213`) | `users_create` of an existing name is refused after wiping that member's secrets |
| `McpChildren` | no session leaves a `kitbash-mcp` behind (`mcp.go:64`) | a session ended before its cancel is set goes on to start a child |

More were met and have no run of their own. The following properties are stated in a module next to the
sentence they quote, and TLC refutes them within the bounds of the run that holds the module. To see
one, define `X == Part!Property` in `Waits`, `MCFanout`, `Host` or `Member` (`X == Property` for `Approvals`) and
name `X` in its configuration; those of `Removal` go into its own.

| property | what happens |
|---|---|
| `Approvals.NothingOfTheGoneRuns` | an approval queued after `DeleteApprovals` outlives the requester and is run |
| `Bridge.StoppedLeavesTheSurface` | two calls about one Process publish in the order they finish, and the tools of a stopped one stay |
| `Codec.StampsReachTheSubscriber` | the encoder of the fan out leaves out stamped attributes that a query returns |
| `Daemon.InterruptedCopyGoes` | the daemon exits without waiting for the backup loop, and the torn copy stays |
| `Fanout.StoppingAtTheFirstHopTerminates` ("the only rule that terminates", `fanout.go:371`) | a kit that calls a tool over `/mcp` for each delivery is delivered the span of that call, which is exported as its member, and calls again |
| `Files.NothingOfARefusedListIsLeft` ("nothing of it reaches the disk", `spec/mcp-surface.yaml:384`, `writeall.go:339`) | rollback drops its own errors: a call that is cancelled, or a disk that is full, fails it as well, and the list stays staged or on disk |
| `Images.WinnerStays` | a second build of the first builder makes another record the first |
| `Packages.ImageIsItsCommit` | a file written between the check and the build is in the image of the older commit |
| `Packages.ImportMakesTheFolder` | a folder made by a write between the check and the import is taken over |
| `ProcRun.EveryKitProcessIsKnown` ("what could not be undone is said in the problem", `kits.go:129`) | a kit starts a Process and its answer is lost or cannot be read: the problem names no id, and nobody stops or registers it |
| `ProcRun.TickTakesItsOwn` | a tick removes a running container of its name that is another registration's |
| `Removal.RemovalsEnd` ("the state it ends in is `removed` or `failed`", `removal.go`; "takes it up again at its next start", `spec/kitbashd-api.yaml:673`) | `FinishRemoval` or the read of `resumeRemovals` fails: the row stays at `removing` until another boot reads it |
| `Scheduler.NotTwiceAtOnce` ("not run twice at once", `schedule.go:71`; `Jobs` in `Waits`) | a job unregistered and registered under its id again while it runs has no marker: its next tick starts a second run, and that start removes the container of the first |
| `Names.OneNameOneProcess` (`Served` in `Host`) | two registrations are checked before either is written, and declare one name |
| `Names.ServedWhileRegistered` (`Served` in `Host`) | a row that `LoadRoutes` read is routed after its unregister has answered |
| `Pods.ComesUpInOrder` with `Ids <- {"i", "j"}` | a second registration removes and makes the pod anew, and the start of the first goes on to run a unit of it that is not verified |
| `Routes.RunningKeepsItsPort` | an inspect of before a registration takes the port off the route that was written after it |

Four more follow from the modules as they stand, in interleavings a reader can replay: two admins
remove each other, since `lastAdmin` counts an admin that is being removed (`users.go:475`); a
probe's `reroute` writes the name of a row that went meanwhile (`health.go:560`); the boot drops a row
whose container a session is making (`restore.go:601`); and the row `mintToken` writes back was read
before the lock was waited for (`run.go:798`).

## 5. What is proved

**Who waits** (`Waits_proofs`). `WaitsKeepTheirWord` says of every behaviour of `Whole`, the specification
the run `Waits` checks, that its safety properties hold in it. A behaviour of the whole is one of each of
its parts (`EachOnItsOwn`), and each part has its theorems.

*The action lock*, for any finite set of callers, any ids and any set of mutexes
at least as large (`CallersAssumption`, `LocksAssumption`, `NullAssumption`): `TypeCorrect`,
`Exclusion` (mutual exclusion per id), `NoEntryLeaks` (an entry exactly while used) and `Implements`
(`Spec => ImplementsKeyedMutex`). None is inductive. That two holders of an id are one caller needs that
both refer to one mutex, which needs that the entry they came in by is still the map's
(`RefersToEntry`), which needs that an entry goes only when its count is down to the last user, which
needs that the count is right (`WaitsCount`, a cardinality). `EntriesDiffer` keeps the mutexes of two
ids apart, `HoldsLocked` and `HoldsAlone` tie a holder to its mutex. `Implements` maps `Enter` to `Ask`,
`Acquire` to `Grant`, `Unlock` to `Release` and `Drop` to a stutter, with the exclusion provided by
`IInv`.

*The scheduler*, for any finite set of jobs, periods and ceilings (`JobsAssumption`): its part of
`SlotsStayTrue` (`SlotsAreTrue`: slots, ceilings and markers) and `TicksAreShared` (the order in which ticks
are passed over, `SkippedForWhatWasDueBefore`). The counts are cardinalities of the set of runs (`JobsInv`).
`Pass` starts several at once: each is another run than those that go, for which there is a number as they
are fewer than the ceiling (`NewIsFree`), and those it starts had room behind what was due before them, so
what a member and the host run afterwards is bounded by the last that was let in. A tick that is passed over
had that many ahead of it already. A job may have several runs only while it is in `renewed`, which the end
of its last one takes it out of.

*The re-resolve*, for any Processes and requests and any window: `InspectsAreShared`. A request that asks
the runtime, and whose route was not written meanwhile, is the one the open answer of that route is by
(`Answers`); an answer's age is the window's (`WindowsAgree`). So whoever comes next waits for it, or finds
the route cooling.

*The listeners*, for any connections and addresses (`BoundsAssumption`): `BudgetsHold`. Slots left, the one
the accept loop holds and the open connections come to the budget, whether the daemon serves, stops or
starts again, and an address is charged for the connections it has open (`Budget`, `Charged`,
cardinalities).

*The copy*, for any archive, any pipe and any number of faults: `CopiesAreWhole`, which is the safety of `WorkIsFinished`. Nothing is
told before both children have ended, and a load that is done has read to the end of the archive (`CopyInv`).

`HostStaysShared` (`HostIsShared`) is what the scheduler and the re-resolve say together.

**The fan out** (`Fanout_proofs`, `QueuesStayTrue`), for any finite sets of Processes and members, any
registrations, exports and changes, any depth of at least one and any budget (`SizesAssumption`,
`HostAssumption`: there is a member, and a subscriber for each Process a boot may find). A producer checks
the budget, sends and adds in three steps and the worker takes and gives back in two, so no counter is
right at any moment. `Counted` says by how much it may be off: what is held is what is queued, taken by
the worker and evicted by producers, less what was sent and not added yet; and those and what was checked
but not sent are over the budget by at most the largest request of each other producer (`TheOthersHold`).
These are counts of families of finite sets, of which a step changes one member (`OneMore`, `NoMoreThan`,
`HeadGoes`), since it moves one producer or worker with its subscriber (`ProducerMovesWith`,
`WorkerMoves`). That what waits may be read needs that it was so under the registration the subscriber was
made with (`Filed`), that a producer filters by the object it sends to, and that a subscriber which is in
the table has the registration of the row, or one it would not be made anew for (`Subscribed`).

**The MCP sessions** (`McpSessions_proofs`), for any finite sets of sessions and later requests, any
Processes and any cap of at least one: `TypeCorrect`, `Cap` (`CapHolds`), `Owned` (`ChildrenAreOwned`)
and `SweepSpares` (the action property `SweepSparesWork`), which is every safety property of its run.
The cap speaks of children, while `add` counts slots. So it needs that a running child of a session that
has not ended has a slot, which needs the life of the credential (`CredentialAge`): made with the slot,
before the child, turned by the one `end` that does anything. `SlotsCapped` is then what `add` keeps.
The sweep needs that the counter of holds is the number of requests at work (`HoldsAreWork`, a
cardinality), or an idle look would not mean that nobody is there; `CallsFound` says that a request
works on a session that was added. The proof takes a step apart in three: the registry and the ends
(`RegistryStep`), a session and its child (`SessionStep`, `ChildStep`), the counts (`WorkStep`).

**Removal** (`Removal_proofs`), for any names, kinds of work and number of stops, any failure of any
step, and under `OneCall` (the two assumptions above, `Prompt` and one users call at a time, with
neither of which the properties hold): `Keeps` (`HomesAreKept`) and `TakesOver` (the action properties
`NewAccountIsClean` and `EndedByItsJob`). A home without an account is on record because a job that may
take an account works only on a name whose row says `removing`, because it goes on to the end as failed
unless it moved the home (`JobsOK`), and because a call that makes a member has a name no job is at and
no home is left of (`CallsOK`). The stop and `resumeRemovals` are steps like any other.

**One Process** (`Processes_proofs`), for any ids, sessions, runs under way, probes, tokens and stops:
`FilesStayTheirs`, `LateRunsStay` (`LateRunsStayTheirOwn`), and, with one session at a time
(`OneSession`, which the run has too), `TablesStay` (`TablesFollowTheRows`). A file on disk is that of a
start because whoever is past the write and before the removal holds the lock, and because the sweep of
a boot comes before anything is served (`LocksAreHeld`, `FilesAreOwned`). A tick starts nothing that is
gone because it reads the row again under that lock (`RunsHaveRows`). That a table follows its row needs
that a call which has removed the row has still to forget it (`Forgotten`), that a call past its
registration finds the row there (`CallsAreServed`, where two sessions would race), and that what the boot
has read is registered yet while nobody was served (`raced`).

**The host** (`Host_proofs`). `HostKeepsItsWord` says of every behaviour of `Whole`, the specification the
run `Host` checks, that all the properties of that run hold in it, for any values of the constants that
meet the hypotheses below. A behaviour of the whole is one of each of its parts
(`EachOnItsOwn`), and each part has its theorem.

* `NextIsTheFirstTick` (`FirstTick`), for any calendar whose jumps land on the first minute of the next
  month, day and hour (`CalendarAssumption`), and any expression: the search answers the first minute that
  matches, and none only when there is none before its limit.
* `DatabaseStays` (`DatabaseIsKept`), for any columns, any number of daemons of any releases
  (`ColumnNames`), and any number of copies kept from one on: a daemon is never past a column that is
  missing (`ColumnsBehind`), and pruning spares the copy health names as it is the newest that is whole.
* `ContainerStays` (`SomeContainerIsLeft`), without assumptions: whatever step of a heal fails. The
  container that is put aside is the first one of the row until another has run (`HealInv`).
* `StartsNeverReadHalf` (`StartsReadWhole`), for any names, values, calls and starts: an entry of a
  directory is whole since only `rename` makes it, and a removed directory keeps what it had for a
  start that has it open.
* `FoldersAreLegal` (`RunsOnLegalFolders`), without assumptions: what was opened was judged by the
  descriptor, and what runs is compared with what was opened.
* `LimitsStay` (`LimitsHold`): ceilings that are not `max` are root's (`CeilingsAreRoots`); the claims of
  `fetchLock` are those of the copies under way, one for each, and the count of a member is their number
  (`ClaimsAreTheCopies`, cardinalities); the quotas hold as the transaction that writes counts.
* `RecordsStayTheirs` (`RecordsAreTheBuilders`), for as many members as the bound of a path has room for
  (`PathBoundSuffices`: with 64 records of a builder and 4096 of a path, 64 members).
* `AccountsRemainApart` (`AccountsStayApart`), for any registrations, calls, quotas and keys, where ids,
  kinds and members are apart from what stands for none of them (`NamesSound`). Of names: under the domain
  one is never declared, only derived (`KindsSaid`), in every row, in every call under way and in what
  `LoadRoutes` has read; so what `track` and the boot write leads there (`LeadThere`). Of keys: whoever is
  past the check of the owner has that file open, and no name the member makes later changes it
  (`OwnIsWritten`).
* `BlocksStayApart`, for any accounts, creations, host tools and removals: whoever writes the file with the
  lock of kitbash has it as it was read, so a block that was free when it was chosen is free when it is
  appended (`LockIsHeld`, `Informed`). A removal writes without that lock: where it wrote over what it had
  not read is `lost`, and nothing is claimed after that.
* `NothingGetsOut`, for any tree that changes between any two system calls, where what is outside has a
  name of its own (`WayOut`): what a call has open is below the root (`TreeInv`), and what is entered from
  there by `openat2` or one segment at a time is below it again (`EntersKept`), whatever the path. The two
  make `ThingsStayTheirs` (`EachKeepsToItsOwn`).

**A session of a member** (`Member_proofs`), with `MemberKeepsItsWord` for every behaviour of the `Whole` of
`Member`.

* `WritesStayVersions` (`WritesAreVersions`), for any paths, contents and calls, where a write names a
  path (`WritesNamePaths`). A write that shares no path with another (`Apart`) finds its paths at every
  step as it left them, on disk, in the index and in the head (`Kept`): that is what lets a rollback put
  back what was there, and what makes the version that is answered the write's own. Every step of the
  rollback may fail: `Kept` says of the index only what holds while it was not refused, and what a rollback
  remembers of its failures is what its list is excused for (`RestoreLeaves`).
* `AnswersStayWhole` (`AnswerIsWhole`), where a manifest has units (`ManifestsListUnits`): what is not
  left to build has been built from the commit of the call, and stores only gain (`Builds`).
* `EveryStartMayWork` (`NothingFailsEveryStart`): a row that is not fine is the one the call at its start
  has just registered, and that call takes it back (`DeclaredInv`).
* `OneSessionStays` (`OneSessionAnswers`), where no Process has the name that stands for nobody: a client
  session is with the call that opened it until `Keep` puts it where a later call or a stop finds it.
* `CallsStayTold` (`CallsAreTold`), for any tools and calls: the cause of a call is settled when it leaves
  the layer of its tool, and its span is closed with what it answers (`Suits`).
* `PermitsStay` (`PermitsHold`). What a call may act on is settled at the layer of the permits, so it holds of
  each call from that layer on (`Suits`, `Begun`); a query was narrowed to its reader before it waited
  (`Narrow`), by who it was then, and what a record says of its sender is what its token said (`Honest`).

**What runs, and what an admin decides** (`Runs_proofs`), with `RunsKeepTheirWord` for every behaviour of
the `Whole` of `Member`.

* `QueueStaysKept` (`QueueIsKept`: the cap, and that every run is the one that was decided) and
  `DecisionIsImplemented` (`ImplementsDecision`), for any members with their admins, any sessions, any
  finite set of approvals and any cap of at least one (`AdminsAssumption`, `PendingAssumption`,
  `IdsAssumption`). That an approval runs at most once is not inductive: it needs that of the sessions that
  have claimed and not yet answered no two are at one approval, and that such a session finds the row as it
  left it, or gone, with no result (`Claims`, `SessionsOK`), and that a row which is not decided has had no
  run (`RowsOK`). Most steps are of a session alone (`SessionStep`), for which one lemma does; the rest
  write one row (`RowStep`) or take those of a member. The cap is the transaction's (`PendingFinite`,
  `FewerWait`). A step maps to a step of `Decision` through `Standing` of the one row it writes.

* `PodFilesAreShortLived`, for any registrations of a name, and `PodsStayWhole` (`PodsAreWhole`) for one
  (`OneRegistration`), where units have a name each and one of them is the face (`UnitsAreNamed`). Order
  needs where each unit is at each step of the action (`SoFar`), and that `startOrder` is the units with
  the face last (`FaceIsLast`).
* `ProbesStayCurrent` (`ProbesAreCurrent`), for any intervals and requests in flight: a marked target has
  a request on its way, which will wake the loop, and the loop sleeps no longer than to the nearest of the
  rest (`ProbesInv`, `TheNearest`).
* `RunsStayKnown` (`RunsAreKnown`): each id is on one line, in any state; and what a kit runs for a single
  session (`OneCaller`, `OnlyKits`) has a row, or a call that is about to give it one, or was told of
  by its id, unless the answer with its id was lost; and one that a later run is answered with is no longer
  lost.
* `RunningStaysRegistered` (`RunningKeepsItsRow`), for any number of sessions that run and stop one
  Process (`OnlyProcesses`): a row is unregistered only by a call that has seen its container down, and a
  container is started only under an id no other call knows (`ProcessesInv`). With jobs of the same name
  beside it `Reconcile` may register what a session is removing, so the assumption is needed.

Every property was checked by TLC, in its run, before it was proved. Only model-checked are:

* all liveness, since fairness and `ENABLED` are out of the prover's reach: `CutRemovalEnds`,
  `NobodyIsHeldUp`, `QuietSessionsEnd`, `DeliveriesEnd`, `EveryCallerIsServed`, `NobodyWaitsForEver` and
  `WorkIsFinished` (but for the copy);
* `SaidIsMeant`: what the conversions of `Codec` and the loop of `Permits` make of an input is an induction
  over that input, which the prover cannot do. They are checked over bounded inputs. The paths of a list,
  of which `SaidIsMeant` has one instance, are proved for any in `PermitsStay`.

So every safety invariant and every action property of a passing run but `SaidIsMeant` is a theorem, and so
are both refinements.

The hypotheses of a theorem are named, and are of two sorts. Most say that a value which stands for none
(`"none"`, `"nobody"`, `"boot"`) is not one of the ids or members (`NamesSound`, `RequestsAreSomebody`), that
a declaration lists its units, that what is outside a root is not inside it (`WayOut`), that ids are made in
an order and a period is not zero (`JobsAssumption`), or that there are finitely many of something and a
bound is a number, which is so of every value the code takes there. The rest restrict what is said,
and are conditions the code itself needs: `OneCall`, `OneSession`, `OneRegistration`, `OneCaller` with
`OnlyKits`, `OnlyProcesses` and `PathBoundSuffices`. Section 3 or the paragraph of the theorem says why.

## 6. What is not modelled, and what is left

Not modelled: podman, git, the kernel, DNS and SQL themselves, which appear as calls that work, fail or
lose their answer; TLS and certificates; the forwarding of a request; command lines, wording and layout
of answers and records; listing and paging; the schemas of tools; media types; the
generated protobuf code (`internal/otlpproto`), whose messages `Codec` takes as records; the kits, the
evaluation and the end to end tests; and the fakes of `sysusers` and `teltest`, which are tests' own.

What is left to do, in this order:

1. Proofs: that a batch keeps its order and its length through `Codec`, for lists of any length.
2. Two users calls at once in `Removal`, once the overlap named under the assumptions has been settled
   in the code; and two sessions at one Process in `Processes`.
3. Of host names: a change of the domain between two boots, which addresses this host has and a CNAME as
   a proof, the rows that go with a removed member, and the look up of each row by `LoadRoutes` at a moment
   of its own.
4. The stop of the whole daemon in `McpSessions`, and the refusal of work while it drains.
