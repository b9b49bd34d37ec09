-------------------------------- MODULE Host --------------------------------
(***************************************************************************)
(* What kitbashd keeps for its members on a host: subordinate ids and keys *)
(* of accounts, secrets, cgroups, mounts, the tree of Files, the file of   *)
(* the database and its copies, containers made again at a boot, images,   *)
(* the names Processes are served under and the next tick of a schedule.   *)
(*                                                                         *)
(* They share no state, so one run checks them all: a behaviour is one of  *)
(* a single part, chosen at the start, and the others stand where they     *)
(* begin.  What is promised is said for any values of the constants; those *)
(* that Host.cfg takes are here when they are more than a small set.       *)
(***************************************************************************)
EXTENDS Cron

CONSTANTS
    Accounts, Creators, Attempts, MaxCreates,                          \* SubIDs
    Adders, Keys, Theirs, MaxRenames,                                  \* Keys
    SecretNames, Texts, Setters, Readers, MaxDirs, MaxCrashes,         \* Secrets
    Ids, Old, Procs, MaxRestarts,                                      \* Cgroups
    Folders, Declared, Max, MaxSwaps,                                  \* Mounts
    TreeDirs, Root, TreeFiles, Packages, Outside, Leads, Trees, MaxDepth, MaxLinks,
    Columns, Daemons, MaxOpens, MaxRows,                               \* Migrate
    Bound, Proxies, Addresses, Conns, MaxConns, PerAddress, Keep, MaxClock, MaxRuns, MaxFaults,
    MaxBoots, MaxFailures,                                             \* Heal
    Builders, Sessions, UserOf, Org, Images, MaxFetchesPerMember, MaxBuildsPerBuilder,
    MaxBuildsPerPath, MaxBuilt, MaxGone,                               \* Images
    Registrars, MemberOf(_), Kinds, Hosts, NoName, Under, DefaultHost(_, _), MaxProcesses,
    MaxScheduled, MaxWrites                                            \* Names, of the Processes Ids

VARIABLES part,
    account, subuid, lock, req, creates, lost,
    member, home, ssh, name, content, adding, renames,
    removing, dir, made, file, temp, call, start, crashes,
    subtree, leaf, ceiling, sub, sits, placing, placed, restarts,
    path, starting, declared, left, opened, mounted, swaps,
    child, missing, walk, touched, links,
    table, indexed, rows, daemon, opens,
    main, runs, socket, listener, asked, cancelled, slots, perPeer, accept, conns, backup,
    copies, status, clock, faults,
    mounts, row, here, aside, healing, way, token, hasLeaf, ending, report, boots, failures,
    holds, records, using, copying, per, members, gone, built,
    pointed, registered, writes, routes, serving, loading

accountsVars == <<account, subuid, lock, req, creates, lost>>
keysVars     == <<member, home, ssh, name, content, adding, renames>>
secretsVars  == <<removing, dir, made, file, temp, call, start, crashes>>
cgroupsVars  == <<subtree, leaf, ceiling, sub, sits, placing, placed, restarts>>
mountsVars   == <<path, starting, declared, left, opened, mounted, swaps>>
treeVars     == <<child, missing, walk, touched, links>>
schemaVars   == <<table, indexed, rows, daemon, opens>>
daemonVars   == <<main, runs, socket, listener, asked, cancelled, slots, perPeer, accept,
                  conns, backup, copies, status, clock, faults>>
bootVars     == <<mounts, row, here, aside, healing, way, token, hasLeaf, ending, report,
                  boots, failures>>
imagesVars   == <<holds, records, using, copying, per, members, gone, built>>
namesVars    == <<pointed, registered, writes, routes, serving, loading>>
allVars      == <<part, vars, accountsVars, keysVars, secretsVars, cgroupsVars, mountsVars, treeVars,
                  schemaVars, daemonVars, bootVars, imagesVars, namesVars>>

-----------------------------------------------------------------------------
SubIDs == INSTANCE SubIDs WITH Names <- Accounts, Requests <- Creators

UserKeys == INSTANCE Keys WITH
    Requests <- Adders, MaxMoves <- MaxRenames, account <- member, req <- adding, moves <- renames

Secrets == INSTANCE Secrets WITH Names <- SecretNames, Calls <- Setters, Starts <- Readers

Cgroups == INSTANCE Cgroups WITH member <- subtree, at <- sits, call <- placing

Mounts == INSTANCE Mounts WITH MaxMoves <- MaxSwaps, name <- path, at <- starting, moves <- swaps

Tree == INSTANCE Tree WITH
    Dirs <- TreeDirs, Files <- TreeFiles, MaxMoves <- MaxLinks, call <- walk, moves <- links

Migrate == INSTANCE Migrate

Daemon == INSTANCE Daemon WITH held <- perPeer

Heal == INSTANCE Heal WITH
    MaxFaults <- MaxFailures, mounted <- mounts, at <- healing, path <- way, leaf <- hasLeaf,
    faults <- failures

Builds == INSTANCE Images WITH
    Members <- Builders, MaxClock <- MaxBuilt, held <- copying, clock <- built, calls <- using

Served == INSTANCE Names WITH
    Names <- Hosts, Sessions <- Registrars, here <- pointed, rows <- registered, table <- routes,
    calls <- serving, load <- loading

-----------------------------------------------------------------------------
Parts == {"schedule", "accounts", "keys", "secrets", "cgroups", "mounts", "tree", "schema", "daemon", "boot", "images",
          "names"}

\* Where a part that is not the one checked stands.
Stands ==
    /\ part # "schedule" => after = 0 /\ cron = Parse(CHOOSE x \in Expressions : TRUE)
    /\ part # "mounts"   => path = [p \in Mounts!Paths |-> Mounts!Gone]
    /\ part # "tree"     => LET one == CHOOSE c \in Trees : TRUE
                            IN  child = [x \in TreeDirs \X Tree!Names |->
                                            IF x \in DOMAIN one THEN one[x] ELSE Tree!None]
    /\ part # "tree"     => missing = TRUE
    /\ part # "daemon"   => socket = "none"
    /\ part # "boot"     => mounts = FALSE /\ row = [held |-> TRUE, ceiling |-> FALSE, token |-> 1]
                              /\ here = Heal!Container("running", "member", 1)
    /\ part # "names"    => pointed = {}

Begins ==
    /\ part \in Parts
    /\ Stands
    /\ Init
    /\ SubIDs!Init /\ UserKeys!Init /\ Secrets!Init /\ Cgroups!Init /\ Mounts!Init /\ Tree!Init /\ Migrate!Init
    /\ Daemon!Init /\ Heal!Init /\ Builds!Init /\ Served!Init

Moves ==
    /\ UNCHANGED part
    /\ IF part = "schedule" THEN Next ELSE UNCHANGED vars
    /\ IF part = "accounts" THEN SubIDs!Next ELSE UNCHANGED accountsVars
    /\ IF part = "keys" THEN UserKeys!Next ELSE UNCHANGED keysVars
    /\ IF part = "secrets" THEN Secrets!Next ELSE UNCHANGED secretsVars
    /\ IF part = "cgroups" THEN Cgroups!Next ELSE UNCHANGED cgroupsVars
    /\ IF part = "mounts" THEN Mounts!Next ELSE UNCHANGED mountsVars
    /\ IF part = "tree" THEN Tree!Next ELSE UNCHANGED treeVars
    /\ IF part = "schema" THEN Migrate!Next ELSE UNCHANGED schemaVars
    /\ IF part = "daemon" THEN Daemon!Next ELSE UNCHANGED daemonVars
    /\ IF part = "boot" THEN Heal!Next ELSE UNCHANGED bootVars
    /\ IF part = "images" THEN Builds!Next ELSE UNCHANGED imagesVars
    /\ IF part = "names" THEN Served!Next ELSE UNCHANGED namesVars

Whole == Begins /\ [][Moves]_allVars

-----------------------------------------------------------------------------
\* What one member is given is not another's: the daemon writes no file a member only linked to
\* (host.go keys), and a name under the domain leads to the Process it is derived for (hostnames.go,
\* proxy.go).
AccountsStayApart == UserKeys!OthersKeepTheirFiles /\ Served!NamesAreTheirs

\* No start reads a value that was never set whole (secrets.go Set, daemon/secrets.go).
StartsReadWhole == Secrets!StartsReadWhole

\* Nothing runs with a folder its declaration may not have (mounts.go ResolveOne, daemon/mounts.go).
RunsOnLegalFolders == Mounts!RunsOnLegalFolders

\* A member keeps to its own: the subordinate ids of two never overlap (subids.go), and nothing a
\* call tells of, makes or removes is outside the root it was given (safeopen.go).
EachKeepsToItsOwn == SubIDs!BlocksAreApart /\ Tree!NothingLeavesTheRoot

\* The database is one the next daemon can open, and the copy health calls the last one is there to
\* go back to, and whole (processes.go migrate, backup.go).
DatabaseIsKept == Migrate!OpensForOne /\ Daemon!LastBackupIsWhole

\* A boot that heals a container takes the old one away only once another stands for it (restore.go).
SomeContainerIsLeft == Heal!SomeContainerIsLeft

\* Limits hold: what this release placed runs below those it was started with (host_linux.go
\* EnsureProcess), the slots of image copies are the copies under way (images.go fetchLock), and a
\* member is within the quotas of Processes and jobs (store RegisterProcess).
LimitsHold == Cgroups!CeilingHolds /\ Builds!SlotsAreTheCopies /\ Served!QuotasHold

\* No member takes over or pushes out the build record of another (store/builds.go RecordBuild).
RecordsAreTheBuilders == Builds!RecordsAreTheBuilders

-----------------------------------------------------------------------------
\* The values of Host.cfg.  A small calendar: hours of two minutes, days of two hours, weeks of three days, years of two months.
Sets == INSTANCE FiniteSetsExt

MonthLengths == <<2, 3, 2, 2, 2, 3>>
DayNumber(u) == u \div 4
MonthStart(k) == Sets!SumSet({100 * j + MonthLengths[j] : j \in 1..(k - 1)}) - 100 * Sets!SumSet(1..(k - 1))
MonthIndex(u) == IF DayNumber(u) >= MonthStart(7) THEN 7
                 ELSE CHOOSE k \in 1..6 : DayNumber(u) \in MonthStart(k)..(MonthStart(k + 1) - 1)

MCMinuteOf(u)  == u % 2
MCHourOf(u)    == (u \div 2) % 2
MCDayOf(u)     == DayNumber(u) - MonthStart(MonthIndex(u)) + 1
MCMonthOf(u)   == ((MonthIndex(u) - 1) % 2) + 1
MCWeekdayOf(u) == DayNumber(u) % 3
MCNextHour(u)  == 2 * ((u \div 2) + 1)
MCNextDay(u)   == 4 * (DayNumber(u) + 1)
MCNextMonth(u) == 4 * MonthStart(MonthIndex(u) + 1)
MCHorizon      == 4 * MonthStart(7) - 1
MCLimitOf(u)   == Sets!Min({u + 40, MCHorizon})

MCBounds == [minute |-> [min |-> 0, max |-> 1], hour |-> [min |-> 0, max |-> 1],
             dom |-> [min |-> 1, max |-> 3], month |-> [min |-> 1, max |-> 2], dow |-> [min |-> 0, max |-> 3]]

Star == [star |-> TRUE, from |-> 0, to |-> 0, step |-> 1]
Every(n) == [Star EXCEPT !.step = n]
One(n) == [star |-> FALSE, from |-> n, to |-> -1, step |-> 1]
From(n, s) == [One(n) EXCEPT !.step = s]
Span(a, b) == [One(a) EXCEPT !.to = b]

MCExpressions ==
    [minute : {{Star}, {One(1)}}, hour : {{Star}, {One(0)}},
     dom : {{Star}, {One(3)}, {Every(2)}, {One(1), One(2)}}, month : {{Star}, {One(1)}, {From(1, 2)}},
     dow : {{Star}, {One(3)}, {Span(1, 2)}, {Every(2)}}]

-----------------------------------------------------------------------------
Folder(i, root, owned, visible) == [id |-> i, root |-> root, owned |-> owned, visible |-> visible]
Decl(p, root, mode, target)        == [path |-> p, root |-> root, mode |-> mode, target |-> target]

MCFolders  == {Folder("mine", "home", TRUE, TRUE), Folder("hidden", "home", TRUE, FALSE),
               Folder("shared", "home", FALSE, TRUE), Folder("org", "org", FALSE, TRUE)}
MCDeclared == {Decl("a", "home", "rw", "free"), Decl("b", "home", "ro", "free"),
               Decl("c", "org", "rw", "free"), Decl("c", "org", "ro", "free"),
               Decl("c", "org", "ro", "taken")}

\* A Package one folder down with a file, beside it a folder or a file.
MCOutside == [dir |-> "o", n |-> "s", m |-> "t"]
MCLeads   == [to_o |-> "o", to_s |-> "s", to_t |-> "t"]
Below(n)  == [x \in {<<"r", "n">>, <<"a", "m">>, <<"a", "n">>} |->
                CASE x[1] = "r" -> "a" [] x[2] = "m" -> "g" [] OTHER -> n]
MCTrees   == {Below("f"),
              [x \in DOMAIN Below("b") \cup {<<"b", "n">>} |-> IF x[1] = "b" THEN "f" ELSE Below("b")[x]]}

MCImages == {[path |-> "org", commit |-> "c1", digest |-> 1], [path |-> "org", commit |-> "c2", digest |-> 2]}
MCColumns == <<"producer", "caller", "internal">>

\* A name outside of the domain, one under it, and Processes that declare none.
Kind(host, web, job) == [host |-> host, web |-> web, job |-> job]
MCKinds == {Kind("none", TRUE, FALSE), Kind("none", FALSE, TRUE), Kind("own", TRUE, FALSE),
            Kind("i.ann", TRUE, FALSE)}
MCMemberOf(s)       == "ann"
MCDefaultHost(i, o) == IF i = "i" THEN "i.ann" ELSE "j.ann"

MCUserOf == [s \in {"a", "b", "c"} |-> IF s = "a" THEN "ann" ELSE "bob"]
==============================================================================
