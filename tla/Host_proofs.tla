---------------------------- MODULE Host_proofs ----------------------------
(***************************************************************************)
(* What kitbashd keeps on a host, for every value of the constants: the    *)
(* first tick of a schedule, the database and its copies, the container of *)
(* a row at a boot, secrets, mounts, cgroups, the images of a member and   *)
(* their records, the files beside authorized_keys, the names and the      *)
(* quotas of registrations, the subordinate ids of accounts, and what a    *)
(* call of Files reaches.  Each part of Host has an invariant of its own,  *)
(* and a theorem is of the specification of the part it is about.          *)
(***************************************************************************)
EXTENDS Host, Sequences, FiniteSets, FiniteSetTheorems, SequenceTheorems, WellFoundedInduction, TLAPS

-----------------------------------------------------------------------------
\* Where a daemon is in opening the database.
DaemonRec == [pc : {"off", "schema", "migrate", "alter", "index", "serving"}, release : 0..Len(Columns),
              at : Nat, list : SUBSET [id : Nat, known : SUBSET STRING]]
MigrateTyped ==
    /\ IsFiniteSet(rows) /\ rows \subseteq [id : Nat, release : Migrate!Releases]
    /\ daemon \in [Daemons -> DaemonRec]
\* A daemon past the schema has found or made every column before the one it is at.
Behind(d, cols) ==
    /\ d.pc # "off" => d.release \in Migrate!Releases /\ d.at \in 1..(d.release + 1)
    /\ d.pc \notin {"off", "schema"} => cols # Migrate!Absent
    /\ d.pc \in {"migrate", "alter", "index"} => \A i \in 1..(d.at - 1) : Columns[i] \in cols
    /\ d.pc = "schema" => d.at = 1
    /\ d.pc = "alter" => d.at <= d.release
    /\ d.pc = "index" => d.at = d.release + 1
ColumnsBehind == \A d \in Daemons : Behind(daemon[d], table)
MigrateInv == MigrateTyped /\ ColumnsBehind

\* What an instance calls Cardinality is the library's.
LEMMA MigrateCardinality == \A S : Migrate!Cardinality(S) = Cardinality(S)
  BY DEF Migrate!Cardinality, Cardinality

\* The columns have names, and none of them is the name of no table.
ColumnNames == Columns \in Seq(STRING) /\ \A i \in 1..Len(Columns) : Columns[i] # "absent"

\* A daemon that is off stands at no column.
LEMMA OffRec == ASSUME ColumnNames PROVE Migrate!Off \in DaemonRec /\ Migrate!Off.pc = "off"
  BY DEF Migrate!Off, DaemonRec, ColumnNames

\* At first nobody has opened the database.
LEMMA MigrateInit == ASSUME ColumnNames PROVE Migrate!Init => MigrateInv
  BY OffRec, FS_EmptySet DEF Migrate!Init, MigrateInv, MigrateTyped, ColumnsBehind, Behind

\* What a step of one daemon has to keep.
LEMMA DaemonStep ==
    ASSUME MigrateInv, NEW d \in Daemons, NEW was \in DaemonRec, was = daemon[d], NEW n \in DaemonRec,
           daemon' = [daemon EXCEPT ![d] = n],
           table \subseteq table' \/ table = Migrate!Absent, table # Migrate!Absent => table' # Migrate!Absent,
           rows' = rows, Behind(n, table')
    PROVE  MigrateInv'
  BY DEF MigrateInv, MigrateTyped, ColumnsBehind, Behind

\* No step of any daemon takes from another what it is past: the columns behind it stay in the table.
LEMMA MigrateStep == ASSUME ColumnNames, MigrateInv, [Migrate!Next]_Migrate!vars PROVE MigrateInv'
<1> USE DEF Migrate!At, Migrate!To, Migrate!Exit, Migrate!Releases
<1>0. Len(Columns) \in Nat
    BY DEF ColumnNames
<1>1. ASSUME NEW d \in Daemons,
             \/ \E r \in Migrate!Releases : Migrate!Open(d, r)
             \/ Migrate!Schema(d) \/ Migrate!HasColumn(d) \/ Migrate!AddColumn(d) \/ Migrate!Indexes(d)
             \/ Migrate!RegisterProcess(d) \/ Migrate!List(d) \/ Migrate!Die(d)
      PROVE MigrateInv'
    <2> DEFINE was == daemon[d]
    <2>0. was \in DaemonRec /\ Behind(was, table)
        BY DEF MigrateInv, MigrateTyped, ColumnsBehind
    <2>x. ASSUME Migrate!Exit(d), UNCHANGED <<table, rows>> PROVE MigrateInv'
        BY <2>0, <2>x, OffRec, DaemonStep DEF Behind
    <2>a. ASSUME NEW r \in Migrate!Releases, Migrate!Open(d, r) PROVE MigrateInv'
        <3> DEFINE n == [Migrate!Off EXCEPT !.pc = "schema", !.release = r, !.at = 1]
        <3>1. n \in DaemonRec /\ n.pc = "schema" /\ n.release = r /\ n.at = 1
            <4>1. r \in 0..Len(Columns)
                BY <1>0
            <4>2. n \in DaemonRec
                BY <4>1 DEF Migrate!Off, DaemonRec
            <4> QED
                BY <4>2 DEF Migrate!Off
        <3>2. daemon' = [daemon EXCEPT ![d] = n] /\ UNCHANGED <<table, rows>>
            BY <2>a DEF Migrate!Open
        <3> HIDE DEF n
        <3>q. Behind(n, table')
            BY <1>0, <2>0, <3>1, <3>2 DEF Behind
        <3> QED
            BY <1>0, <2>0, <3>1, <3>2, <3>q, DaemonStep
    <2>b. CASE Migrate!Schema(d)
        <3> DEFINE n == [was EXCEPT !.pc = "migrate"]
        <3>1. was.pc = "schema" /\ was.release \in Migrate!Releases /\ was.at \in Nat
            BY <2>0, <2>b DEF Migrate!Schema, DaemonRec, Behind
        <3>2. n \in DaemonRec /\ n.pc = "migrate" /\ n.release = was.release /\ n.at = was.at
            BY <2>0 DEF DaemonRec
        <3>3. Columns[1] \in Migrate!Of(was.release) /\ Columns[1] # "absent"
            BY <1>0, <3>1 DEF Migrate!Of, ColumnNames
        <3>4. daemon' = [daemon EXCEPT ![d] = n] /\ rows' = rows
              /\ table' = IF table = Migrate!Absent THEN Migrate!Of(was.release) ELSE table
            BY <2>b DEF Migrate!Schema
        <3> HIDE DEF n
        <3>5. table \subseteq table' \/ table = Migrate!Absent
            BY <3>4
        <3>q. Behind(n, table')
            BY <1>0, <2>0, <3>1, <3>2, <3>3, <3>4 DEF Behind, Migrate!Absent
        <3> QED
            BY <1>0, <2>0, <3>1, <3>2, <3>3, <3>4, <3>q, DaemonStep
    <2>c. CASE Migrate!HasColumn(d)
        <3>0. PICK k \in Nat : k = was.at + 1
            BY <2>0 DEF DaemonRec
        <3> DEFINE on == [was EXCEPT !.at = k]
                   to(pc) == [was EXCEPT !.pc = pc]
        <3>1. /\ was.pc = "migrate" /\ was.release \in Migrate!Releases /\ was.at \in 1..(was.release + 1)
              /\ table # Migrate!Absent /\ \A i \in 1..(was.at - 1) : Columns[i] \in table
            BY <2>0, <2>c DEF Migrate!HasColumn, Behind
        <3>2. CASE Migrate!Has(d)
            <4>1. on \in DaemonRec /\ on.pc = "migrate" /\ on.release = was.release /\ on.at = was.at + 1
                BY <2>0, <3>0, <3>1 DEF DaemonRec
            <4>2. was.at <= was.release /\ Columns[was.at] \in table
                BY <1>0, <3>1, <3>2 DEF Migrate!Has, Migrate!Known
            <4>3. daemon' = [daemon EXCEPT ![d] = on] /\ UNCHANGED <<table, rows>>
                BY <2>c, <3>0, <3>2 DEF Migrate!HasColumn
            <4>4. \A i \in 1..was.at : Columns[i] \in table
                BY <1>0, <3>1, <4>2
            <4> HIDE DEF on
            <4>q. Behind(on, table')
                BY <1>0, <2>0, <3>1, <4>1, <4>2, <4>3, <4>4 DEF Behind
            <4> QED
                BY <1>0, <2>0, <3>1, <4>1, <4>2, <4>3, <4>4, <4>q, DaemonStep
        <3>3. CASE ~Migrate!Has(d)
            <4> DEFINE pc == IF Migrate!Known(d) THEN "index" ELSE "alter"
                       n == to(pc)
            <4>1. n \in DaemonRec /\ n.pc = pc /\ n.release = was.release /\ n.at = was.at
                BY <2>0, <3>1 DEF DaemonRec
            <4>2. was.at <= was.release <=> pc = "alter"
                BY <1>0, <3>1 DEF Migrate!Known
            <4>3. daemon' = [daemon EXCEPT ![d] = n] /\ UNCHANGED <<table, rows>>
                BY <2>c, <3>3 DEF Migrate!HasColumn
            <4>4. pc \in {"index", "alter"}
                OBVIOUS
            <4> HIDE DEF n, pc
            <4>q. Behind(n, table')
                BY <1>0, <2>0, <3>1, <4>1, <4>2, <4>3, <4>4 DEF Behind
            <4> QED
                BY <1>0, <2>0, <3>1, <4>1, <4>2, <4>3, <4>4, <4>q, DaemonStep
        <3> QED
            BY <3>2, <3>3
    <2>d. CASE Migrate!AddColumn(d)
        <3>0. PICK k \in Nat : k = was.at + 1
            BY <2>0 DEF DaemonRec
        <3> DEFINE n == [was EXCEPT !.pc = "migrate", !.at = k]
        <3>1. /\ was.pc = "alter" /\ was.release \in Migrate!Releases /\ was.at \in 1..was.release
              /\ table # Migrate!Absent /\ \A i \in 1..(was.at - 1) : Columns[i] \in table
            BY <1>0, <2>0, <2>d DEF Migrate!AddColumn, Behind
        <3>2. n \in DaemonRec /\ n.pc = "migrate" /\ n.release = was.release /\ n.at = was.at + 1
            BY <2>0, <3>0, <3>1 DEF DaemonRec
        <3>3. CASE Columns[was.at] \in table
            BY <2>d, <2>x, <3>3 DEF Migrate!AddColumn
        <3>4. CASE Columns[was.at] \notin table
            <4>1. /\ table' = table \union {Columns[was.at]} /\ rows' = rows
                  /\ daemon' = [daemon EXCEPT ![d] = n]
                BY <2>d, <3>0, <3>4 DEF Migrate!AddColumn
            <4>2. Columns[was.at] # "absent"
                BY <1>0, <3>1 DEF ColumnNames
            <4>3. table' # Migrate!Absent /\ table \subseteq table'
                BY <4>1, <4>2 DEF Migrate!Absent
            <4>4. \A i \in 1..was.at : Columns[i] \in table'
                BY <1>0, <3>1, <4>1
            <4> HIDE DEF n
            <4>q. Behind(n, table')
                BY <1>0, <2>0, <3>1, <3>2, <4>1, <4>3, <4>4 DEF Behind
            <4> QED
                BY <1>0, <2>0, <3>1, <3>2, <4>1, <4>3, <4>4, <4>q, DaemonStep
        <3> QED
            BY <3>3, <3>4
    <2>e. CASE Migrate!Indexes(d)
        <3> DEFINE n == [was EXCEPT !.pc = "serving"]
        <3>1. was.pc = "index" /\ was.release \in Migrate!Releases /\ was.at \in 1..(was.release + 1)
              /\ table # Migrate!Absent
            BY <2>0, <2>e DEF Migrate!Indexes, Behind
        <3>2. n \in DaemonRec /\ n.pc = "serving" /\ n.release = was.release /\ n.at = was.at
            BY <2>0 DEF DaemonRec
        <3>3. UNCHANGED <<table, rows>> /\ (daemon' = [daemon EXCEPT ![d] = n] \/ Migrate!Exit(d))
            BY <2>e DEF Migrate!Indexes
        <3> HIDE DEF n
        <3>q. Behind(n, table')
            BY <1>0, <2>0, <3>1, <3>2, <3>3 DEF Behind
        <3> QED
            BY <1>0, <2>0, <2>x, <3>1, <3>2, <3>3, <3>q, DaemonStep
    <2>f. CASE Migrate!RegisterProcess(d)
        <3> DEFINE new == [id |-> Cardinality(rows) + 1, release |-> was.release]
        <3>1. was.release \in Migrate!Releases
            BY <2>0, <2>f DEF Migrate!RegisterProcess, Behind
        <3>2. new \in [id : Nat, release : Migrate!Releases]
            BY <3>1, FS_CardinalityType DEF MigrateInv, MigrateTyped
        <3>3. rows' = rows \union {new} /\ UNCHANGED <<table, daemon>>
            BY <2>f, MigrateCardinality DEF Migrate!RegisterProcess
        <3>4. IsFiniteSet(rows')
            BY <3>3, FS_AddElement DEF MigrateInv, MigrateTyped
        <3> HIDE DEF new
        <3> QED
            BY <3>2, <3>3, <3>4 DEF MigrateInv, MigrateTyped, ColumnsBehind, Behind
    <2>g. CASE Migrate!List(d)
        <3> DEFINE list == {Migrate!Read(r, was.release) : r \in rows}
                   n == [was EXCEPT !.list = list]
        <3>1. was.release \in Migrate!Releases
            BY <2>0, <2>g DEF Migrate!List, Behind
        <3>2. list \subseteq [id : Nat, known : SUBSET STRING]
            <4>1. \A k \in Nat : k <= Len(Columns) => Migrate!Of(k) \subseteq STRING
                BY <1>0 DEF Migrate!Of, ColumnNames
            <4>2. Migrate!Of(was.release) \subseteq STRING
                BY <1>0, <3>1, <4>1
            <4> QED
                BY <4>2 DEF Migrate!Read, MigrateInv, MigrateTyped
        <3> HIDE DEF list
        <3>3. n \in DaemonRec /\ n.pc = was.pc /\ n.release = was.release /\ n.at = was.at
            BY <2>0, <3>2 DEF DaemonRec
        <3>4. daemon' = [daemon EXCEPT ![d] = n] /\ UNCHANGED <<table, rows>>
            BY <2>g DEF Migrate!List, list
        <3> HIDE DEF n
        <3>q. Behind(n, table')
            BY <2>0, <3>3, <3>4 DEF Behind
        <3> QED
            BY <2>0, <3>3, <3>4, <3>q, DaemonStep
    <2>h. CASE Migrate!Die(d)
        BY <2>h, <2>x DEF Migrate!Die
    <2> QED
        BY <1>1, <2>a, <2>b, <2>c, <2>d, <2>e, <2>f, <2>g, <2>h
<1>2. CASE UNCHANGED Migrate!vars
    BY <1>2 DEF Migrate!vars, MigrateInv, MigrateTyped, ColumnsBehind, Behind
<1> QED
    BY <1>1, <1>2 DEF Migrate!Next

\* Whatever number of daemons of whatever releases open one file and die at it, each that comes to the indexes finds
\* every column of its release there (internal/store migrate).
LEMMA MigrateOpens == ASSUME ColumnNames PROVE Migrate!Spec => []Migrate!OpensForOne
<1>1. MigrateInv => Migrate!OpensForOne
    BY DEF MigrateInv, MigrateTyped, ColumnsBehind, Behind, Migrate!OpensForOne, Migrate!At, Migrate!Of,
       ColumnNames, Migrate!Releases, DaemonRec
<1> QED
    BY <1>1, MigrateInit, MigrateStep, PTL DEF Migrate!Spec

-----------------------------------------------------------------------------
\* A copy is of a moment, and health tells of one copy or of none.
BackupTyped ==
    /\ clock \in Daemon!Moments
    /\ copies \in [Daemon!Moments -> {"none", "torn", "whole"}]
    /\ backup \in [at : {"off", "waiting", "copying", "pruning", "removing"},
                   copy : Daemon!Moments \union {Daemon!NoCopy}]
    /\ DOMAIN status = {"last", "kept", "failing"} /\ status.last \in Daemon!Moments \union {Daemon!NoCopy}
\* The copy under way is the newest there is, and is not one health has told of.
CopyUnderWay ==
    /\ \A moment \in Daemon!Kept : moment <= clock
    /\ backup.at \in {"copying", "pruning", "removing"} =>
          /\ backup.copy \in Daemon!Moments
          /\ \A moment \in Daemon!Kept : moment <= backup.copy
    /\ backup.at \in {"copying", "removing"} => copies[backup.copy] = "torn"
    /\ backup.at = "pruning" => copies[backup.copy] = "whole"
BackupInv == BackupTyped /\ CopyUnderWay /\ Daemon!LastBackupIsWhole

\* What the instance calls Cardinality is the library's.
LEMMA DaemonCardinality == \A S : Daemon!Cardinality(S) = Cardinality(S)
  BY DEF Daemon!Cardinality, Cardinality

\* At first there is no copy, and health tells of none.
LEMMA BackupInit == ASSUME MaxClock \in Nat PROVE Daemon!Init => BackupInv
  BY DEF Daemon!Init, Daemon!Nothing, BackupInv, BackupTyped, CopyUnderWay, Daemon!LastBackupIsWhole,
         Daemon!Moments, Daemon!Kept, Daemon!NoLoop, Daemon!NoCopy

\* What leaves the copies alone, or ends the daemon, keeps them.
LEMMA BackupApart ==
    ASSUME BackupInv, UNCHANGED <<clock, copies>>,
           UNCHANGED backup \/ (backup' \in [at : {"off", "waiting"}, copy : {Daemon!NoCopy}]),
           DOMAIN status' = {"last", "kept", "failing"}, status'.last \in {status.last, Daemon!NoCopy}
    PROVE  BackupInv'
  BY DEF BackupInv, BackupTyped, CopyUnderWay, Daemon!LastBackupIsWhole, Daemon!Moments, Daemon!Kept,
         Daemon!NoLoop, Daemon!NoCopy

\* A step of the backups keeps the invariant, and every other step of the daemon leaves their state alone.
LEMMA BackupStep ==
    ASSUME MaxClock \in Nat, Keep \in Nat \ {0}, BackupInv, [Daemon!Next]_Daemon!vars
    PROVE  BackupInv'
<1> USE DEF Daemon!store, Daemon!process, Daemon!network
<1>1. CASE Daemon!Tick
    BY <1>1 DEF Daemon!Tick, BackupInv, BackupTyped, CopyUnderWay, Daemon!LastBackupIsWhole, Daemon!Moments,
                Daemon!Kept
<1>2. CASE Daemon!Serve
    <2>1. backup' \in [at : {"off", "waiting"}, copy : {Daemon!NoCopy}]
        BY <1>2 DEF Daemon!Serve, Daemon!NoLoop
    <2> QED
        BY <1>2, <2>1, BackupApart DEF Daemon!Serve, BackupInv, BackupTyped
<1>3. CASE Daemon!Exit \/ Daemon!Crash
    <2>1. Daemon!Gone
        BY <1>3 DEF Daemon!Exit, Daemon!Crash
    <2>2. backup' \in [at : {"off", "waiting"}, copy : {Daemon!NoCopy}]
        BY <2>1 DEF Daemon!Gone, Daemon!NoLoop
    <2>3. DOMAIN status' = {"last", "kept", "failing"} /\ status'.last = Daemon!NoCopy
        BY <2>1 DEF Daemon!Gone
    <2> QED
        BY <2>1, <2>2, <2>3, BackupApart DEF Daemon!Gone
<1>4. CASE Daemon!BeginCopy
    <2>1. CASE copies[clock] = "none"
        BY <1>4, <2>1 DEF Daemon!BeginCopy, BackupInv, BackupTyped, CopyUnderWay, Daemon!LastBackupIsWhole,
                          Daemon!Moments, Daemon!Kept
    <2>2. CASE copies[clock] # "none"
        BY <1>4, <2>2, BackupApart DEF Daemon!BeginCopy, BackupInv, BackupTyped
    <2> QED
        BY <2>1, <2>2
<1>5. CASE Daemon!EndCopy
    BY <1>5 DEF Daemon!EndCopy, BackupInv, BackupTyped, CopyUnderWay, Daemon!LastBackupIsWhole,
                Daemon!Moments, Daemon!Kept
<1>6. CASE Daemon!RemoveTorn
    BY <1>6 DEF Daemon!RemoveTorn, BackupInv, BackupTyped, CopyUnderWay, Daemon!LastBackupIsWhole,
                Daemon!Moments, Daemon!Kept
<1>7. CASE Daemon!Prune
    <2>1. backup.at = "pruning" /\ backup.copy \in Daemon!Moments /\ copies[backup.copy] = "whole"
        BY <1>7 DEF Daemon!Prune, BackupInv, CopyUnderWay
    <2>2. {u \in Daemon!Kept : u > backup.copy} = {}
        BY <2>1 DEF BackupInv, CopyUnderWay, Daemon!Kept, Daemon!Moments
    <2>3. backup.copy \notin Daemon!Oldest
        BY <2>2, DaemonCardinality, FS_EmptySet DEF Daemon!Oldest
    <2>4. PICK stuck \in SUBSET Daemon!Oldest :
             /\ copies' = [moment \in Daemon!Moments |-> IF moment \in Daemon!Oldest \ stuck THEN "none" ELSE copies[moment]]
             /\ DOMAIN status' = {"last", "kept", "failing"} /\ status'.last = backup.copy
        BY <1>7 DEF Daemon!Prune
    <2>5. /\ backup' \in [at : {"waiting"}, copy : Daemon!Moments \union {Daemon!NoCopy}]
          /\ clock' = clock
        BY <1>7 DEF Daemon!Prune, BackupInv, BackupTyped
    <2>6. Daemon!Kept' \subseteq Daemon!Kept
        BY <2>4 DEF Daemon!Kept
    <2>7. copies'[backup.copy] = "whole" /\ copies' \in [Daemon!Moments -> {"none", "torn", "whole"}]
        BY <2>1, <2>3, <2>4 DEF BackupInv, BackupTyped
    <2> QED
        BY <2>1, <2>4, <2>5, <2>6, <2>7
        DEF BackupInv, BackupTyped, CopyUnderWay, Daemon!LastBackupIsWhole
<1>8. ASSUME UNCHANGED <<Daemon!store, clock>> PROVE BackupInv'
    BY <1>8, BackupApart DEF BackupInv, BackupTyped
<1>9. ASSUME \/ Daemon!Start \/ Daemon!Bind \/ Daemon!Signal \/ Daemon!Closing
             \/ \E c \in Conns : Daemon!CloseConn(c)
             \/ \E k \in Bound : Daemon!TakeSlot(k) \/ Daemon!AcceptFails(k) \/ Daemon!Drain(k) \/ Daemon!Drained(k)
             \/ \E k \in Bound, c \in Conns, a \in Addresses : Daemon!Accept(k, c, a)
      PROVE  UNCHANGED <<Daemon!store, clock>>
    BY <1>9 DEF Daemon!Start, Daemon!Bind, Daemon!Signal, Daemon!Closing, Daemon!CloseConn, Daemon!TakeSlot,
                Daemon!AcceptFails, Daemon!Drain, Daemon!Drained, Daemon!Accept
<1>10. CASE UNCHANGED Daemon!vars
    BY <1>8, <1>10 DEF Daemon!vars
<1> QED
    BY <1>1, <1>2, <1>3, <1>4, <1>5, <1>6, <1>7, <1>8, <1>9, <1>10 DEF Daemon!Next

\* The copy health calls the last one is on the disk and whole, whatever fails and however often the daemon dies
\* between two steps of a backup (internal/daemon/backup.go).
LEMMA BackupsAreKept ==
    ASSUME MaxClock \in Nat, Keep \in Nat \ {0} 
    PROVE  Daemon!Init /\ [][Daemon!Next]_Daemon!vars => []Daemon!LastBackupIsWhole
<1>1. BackupInv => Daemon!LastBackupIsWhole
    BY DEF BackupInv
<1> QED
    BY <1>1, BackupInit, BackupStep, PTL

\* The database is kept for any columns, any number of daemons and any number of copies kept, one at least.
THEOREM DatabaseStays ==
    ASSUME ColumnNames, MaxClock \in Nat, Keep \in Nat \ {0}
    PROVE  Migrate!Spec /\ Daemon!Spec => []DatabaseIsKept
    BY MigrateOpens, BackupsAreKept, PTL DEF DatabaseIsKept, Daemon!Spec

-----------------------------------------------------------------------------
\* What the runtime says of a container, and the containers there may be.
States == {"none", "created", "initialized", "running", "exited"}
Containers == [state : States,
               parent : {"none", "leaf", "member"}, token : Nat]

\* The row, the container under its name and the one set aside.
HealTypes ==
    /\ mounts \in BOOLEAN
    /\ row \in [held : BOOLEAN, ceiling : BOOLEAN, token : Nat]
    /\ here \in Containers /\ aside \in Containers
    /\ token \in Nat \ {0}

\* From the moment the old container is out of the way until the new one runs.
Making == {"create", "prepare", "run", "back"}
\* Whatever is in the way of a new container is set aside first, and the one set aside has the first token: it is the
\* one the row was made with.
HealInv ==
    /\ HealTypes
    /\ aside = Heal!NoContainer \/ aside.token = 1
    /\ here.parent = "member" => here.token = 1
    /\ healing = "aside" => here.parent = "member" /\ way = "heal"
    /\ healing \in {"mounted", "remove"} => mounts
    /\ ~mounts /\ healing \in Making => way = "heal" /\ aside.token = 1
    /\ ~mounts /\ healing \in {"record", "drop"} => way = "heal" /\ here.state = "running"
    /\ row.held /\ ~mounts => (1 \in {here.token, aside.token}) \/ here.state \in {"running", "exited"}

\* What is so of the containers the steps make.
LEMMA ContainerFacts ==
    /\ Heal!NoContainer \in Containers
    /\ Heal!NoContainer.state = "none" /\ Heal!NoContainer.parent = "none" /\ Heal!NoContainer.token = 0
    /\ \A s, p, k : /\ Heal!Container(s, p, k).state = s
                    /\ Heal!Container(s, p, k).parent = p
                    /\ Heal!Container(s, p, k).token = k
    /\ \A s \in States, p \in {"leaf", "member"}, k \in Nat : Heal!Container(s, p, k) \in Containers
    /\ \A c \in Containers : /\ Heal!Off(c) \in Containers
                             /\ Heal!Off(c).token = c.token /\ Heal!Off(c).parent = c.parent
                             /\ c.state \in {"running", "exited"} => Heal!Off(c).state = "exited"
    /\ \A c \in Containers, s \in States :
          /\ [c EXCEPT !.state = s] \in Containers
          /\ [c EXCEPT !.state = s].state = s
          /\ [c EXCEPT !.state = s].token = c.token
          /\ [c EXCEPT !.state = s].parent = c.parent
  BY DEF Heal!NoContainer, Heal!Container, Heal!Off, Containers, States

\* A boot finds the container the row was made with.
LEMMA HealInit == Heal!Init => HealInv
  <1> SUFFICES ASSUME Heal!Init PROVE HealInv
    OBVIOUS
  <1>1. PICK written \in BOOLEAN :
          /\ row = [held |-> TRUE, ceiling |-> written, token |-> 1]
          /\ here \in IF written THEN {Heal!Container(s, "leaf", 1) : s \in {"running", "initialized", "exited"}}
                                 ELSE {Heal!Container(s, "member", 1) : s \in {"running", "exited"}}
    BY DEF Heal!Init
  <1>2. \E s \in {"running", "initialized", "exited"}, p \in {"leaf", "member"} : here = Heal!Container(s, p, 1)
    BY <1>1
  <1>3. here \in Containers /\ here.token = 1
    BY <1>2, ContainerFacts DEF States
  <1>4. row \in [held : BOOLEAN, ceiling : BOOLEAN, token : Nat]
    BY <1>1
  <1>5. mounts \in BOOLEAN /\ aside = Heal!NoContainer /\ healing = "down" /\ token = 1
    BY DEF Heal!Init
  <1> QED
    BY <1>3, <1>4, <1>5, ContainerFacts DEF HealInv, HealTypes, Making

\* Every step of a boot, its failures and the death of the daemon keep the invariant.
LEMMA HealStep == HealInv /\ [Heal!Next]_Heal!vars => HealInv'
  <1> SUFFICES ASSUME HealInv, [Heal!Next]_Heal!vars PROVE HealInv'
    OBVIOUS
  <1> USE DEF HealInv, HealTypes, Making, States, Heal!vars, Heal!same,
              Heal!Works, Heal!Breaks, Heal!Heard, Heal!Failed, Heal!Cleared
  <1> DEFINE up == [here EXCEPT !.state = "running"]
             init == [here EXCEPT !.state = "initialized"]
             new == Heal!Container("created", "leaf", token)
             off == Heal!Off(here)
             offAside == Heal!Off(aside)
  <1>a. /\ up \in Containers /\ up.state = "running" /\ up.token = here.token /\ up.parent = here.parent
        /\ init \in Containers /\ init.state = "initialized" /\ init.token = here.token /\ init.parent = here.parent
        /\ new \in Containers /\ new.state = "created" /\ new.token = token /\ new.parent = "leaf"
        /\ Heal!NoContainer \in Containers
        /\ Heal!NoContainer.state = "none" /\ Heal!NoContainer.parent = "none" /\ Heal!NoContainer.token = 0
    <2>1. up \in Containers /\ up.state = "running" /\ up.token = here.token /\ up.parent = here.parent
      BY ContainerFacts
    <2>2. init \in Containers /\ init.state = "initialized" /\ init.token = here.token /\ init.parent = here.parent
      BY ContainerFacts
    <2>3. new \in Containers /\ new.state = "created" /\ new.token = token /\ new.parent = "leaf"
      BY ContainerFacts
    <2> QED BY <2>1, <2>2, <2>3, ContainerFacts
  <1> HIDE DEF new
  <1>1. CASE Heal!Boot  BY <1>1, <1>a DEF Heal!Boot
  <1>2. CASE Heal!Stop  BY <1>2, <1>a DEF Heal!Stop
  <1>3. CASE Heal!Down
    <2>2. Heal!Off(Heal!NoContainer) = Heal!NoContainer
      BY DEF Heal!Off, Heal!NoContainer
    <2>3. here' \in {here, Heal!Off(here)} /\ aside' \in {aside, Heal!Off(aside)}
          /\ UNCHANGED <<mounts, row, way, token>> /\ healing' = "down"
      BY <1>3, <1>a DEF Heal!Down
    <2> QED BY ContainerFacts, <2>2, <2>3
  <1>4. CASE Heal!Check BY <1>4, <1>a DEF Heal!Check
  <1>5. CASE Heal!StartByName
    <2>1. here' \in {here, [here EXCEPT !.state = "running"]} /\ here.parent = here'.parent /\ here.token = here'.token
          /\ here' \in Containers
          /\ UNCHANGED <<mounts, aside, token>>
      BY <1>5, <1>a DEF Heal!StartByName
    <2>2. row' \in {row, [row EXCEPT !.held = FALSE]}
      BY <1>5, <1>a DEF Heal!StartByName
    <2>2a. row' \in [held : BOOLEAN, ceiling : BOOLEAN, token : Nat] /\ (row'.held => row.held)
      BY <2>2
    <2>3. healing' = "served" \/ (healing' = "aside" /\ way' = "heal" /\ here.parent = "member")
      BY <1>5 DEF Heal!StartByName
    <2>4. here'.state = "running" \/ here' = here
      BY <2>1, <1>a
    <2> HIDE DEF up
    <2> QED BY <2>1, <2>2a, <2>3, <2>4
  <1>6. CASE Heal!RestoreMounted BY ZenonT(60), <1>6, <1>a DEF Heal!RestoreMounted
  <1>7. CASE Heal!RemoveOld BY <1>7, <1>a DEF Heal!RemoveOld
  <1>8. CASE Heal!RenameAside
    <2>1. healing = "aside" /\ token' = token + 1 /\ UNCHANGED <<mounts, row, way>>
      BY <1>8 DEF Heal!RenameAside
    <2>2. CASE aside' = here /\ here' = Heal!NoContainer /\ healing' = "create"
      BY <1>a, <2>1, <2>2
    <2>3. CASE UNCHANGED <<here, aside>> /\ healing' = "served"
      BY <2>1, <2>3
    <2> QED BY <1>8, <2>2, <2>3 DEF Heal!RenameAside, Heal!Kept
  <1>9. CASE Heal!Create BY <1>9, <1>a DEF Heal!Create, Heal!Undo, new
  <1>10. CASE Heal!Prepare BY ZenonT(60), <1>10, <1>a DEF Heal!Prepare, Heal!Undo, Heal!TakesDown
  <1>11. CASE Heal!Run BY ZenonT(60), <1>11, <1>a DEF Heal!Run, Heal!Undo, Heal!TakesDown
  <1>12. CASE Heal!RenameBack
    <2>1. healing' = "served" /\ healing = "back" /\ UNCHANGED <<mounts, row, way, token>>
      BY <1>12, <1>a DEF Heal!RenameBack
    <2>2. (here' = aside /\ aside' = Heal!NoContainer) \/ UNCHANGED <<here, aside>>
      BY <1>12, <1>a DEF Heal!RenameBack
    <2>3. CASE UNCHANGED <<here, aside>>
      BY <2>1, <2>3
    <2>4. CASE here' = aside /\ aside' = Heal!NoContainer
      <3>1. HealTypes' BY <2>1, <2>4, ContainerFacts
      <3> QED BY <2>1, <2>4, <3>1, ContainerFacts
    <2> QED BY <2>2, <2>3, <2>4
  <1>13. CASE Heal!Record BY <1>13, <1>a DEF Heal!Record
  <1>14. CASE Heal!DropAside BY <1>14, <1>a DEF Heal!DropAside
  <1>15. CASE UNCHANGED Heal!vars BY <1>15
  <1> QED BY <1>1, <1>2, <1>3, <1>4, <1>5, <1>6, <1>7, <1>8, <1>9, <1>10, <1>11, <1>12, <1>13, <1>14, <1>15
          DEF Heal!Next

\* A Process without mounts that has a row has the container it was registered with, or one that took its place and
\* was started, whatever step fails and wherever the daemon or the machine stops (restore.go healCeiling).
THEOREM ContainerStays == Heal!Spec => []SomeContainerIsLeft
  <1>1. HealInv => SomeContainerIsLeft  BY DEF HealInv, SomeContainerIsLeft, Heal!SomeContainerIsLeft
  <1> QED BY <1>1, HealInit, HealStep, PTL DEF Heal!Spec

-----------------------------------------------------------------------------
\* A call that is to set a name has a value for it, and what is on a name is a value.
SecretCalls == [at : {"mkdir", "open", "create", "write", "rename", "unlink"}, name : SecretNames,
                value : Texts \union {Secrets!None}, dir : 0..MaxDirs]
SecretReads == [at : {"read", "done"}, left : SUBSET SecretNames, got : [SecretNames -> Texts \union {Secrets!None}],
                failed : BOOLEAN]

\* The directories of secrets, the calls that change them and the starts that read them.
SecretsTyped ==
    /\ dir \in 0..MaxDirs /\ made \in 0..MaxDirs
    /\ file \in [Secrets!Dirs -> [SecretNames -> Texts \union {Secrets!None}]]
    /\ call \in [Setters -> {Secrets!Idle} \union SecretCalls]
    /\ start \in [Readers -> {Secrets!Idle} \union SecretReads]

\* A call that is to set a name has a value for it, and a directory to put it in.
SetsHaveValues ==
    \A c \in Setters :
        /\ call[c].at \in {"mkdir", "open", "create", "write", "rename"} => call[c].value \in Texts
        /\ call[c].at \in {"create", "write", "rename"} => call[c].dir \in Secrets!Dirs

\* What a start has read is a value of each name it asked for, and it ends with all of them or with an error.
ReadsAreValues ==
    \A s \in Readers : start[s] # Secrets!Idle =>
        /\ \A n \in SecretNames \ start[s].left : start[s].got[n] \in Texts
        /\ start[s].at = "done" /\ ~start[s].failed => start[s].left = {}

SecretsInv == SecretsTyped /\ SetsHaveValues /\ ReadsAreValues

\* At first there are no secrets.
LEMMA SecretsInit == ASSUME MaxDirs \in Nat PROVE Secrets!Init => SecretsInv
  BY DEF Secrets!Init, SecretsInv, SecretsTyped, SetsHaveValues, ReadsAreValues, Secrets!Idle, Secrets!NoFile,
         Secrets!None, Secrets!Dirs

\* Every step of a call, of a start, of a removal and a crash between two of them keeps the invariant.
LEMMA SecretsStep ==
    ASSUME MaxDirs \in Nat, SecretsInv, [Secrets!Next]_Secrets!vars
    PROVE  SecretsInv'
<1> USE DEF SecretsInv, SecretsTyped, SetsHaveValues, ReadsAreValues, SecretCalls, SecretReads,
            Secrets!Idle, Secrets!Dirs, Secrets!Goes, Secrets!Ends
<1>1. ASSUME NEW c \in Setters, NEW n \in SecretNames, Secrets!AskRemove(c, n) PROVE SecretsInv'
    BY <1>1 DEF Secrets!AskRemove
<1>2. ASSUME NEW c \in Setters, NEW n \in SecretNames, NEW v \in Texts, Secrets!AskSet(c, n, v) PROVE SecretsInv'
    BY <1>2 DEF Secrets!AskSet
<1>3. ASSUME NEW c \in Setters, Secrets!MkdirMember(c) PROVE SecretsInv'
    <2>1. call[c] \in SecretCalls /\ call[c].value \in Texts
        BY <1>3 DEF Secrets!MkdirMember
    <2>2. [call[c] EXCEPT !.at = "open"] \in SecretCalls
        BY <2>1
    <2>3. call' = [call EXCEPT ![c] = [call[c] EXCEPT !.at = "open"]]
        BY <1>3 DEF Secrets!MkdirMember
    <2>4. dir' \in 0..MaxDirs /\ made' \in 0..MaxDirs /\ UNCHANGED <<file, start>>
        BY <1>3 DEF Secrets!MkdirMember
    <2> QED
        BY <2>1, <2>2, <2>3, <2>4
<1>4. ASSUME NEW c \in Setters, Secrets!OpenDir(c) PROVE SecretsInv'
    BY <1>4 DEF Secrets!OpenDir
<1>5. ASSUME NEW c \in Setters, Secrets!CreateTemp(c) PROVE SecretsInv'
    <2>1. call[c] \in SecretCalls /\ call[c].value \in Texts /\ call[c].dir \in Secrets!Dirs
        BY <1>5 DEF Secrets!CreateTemp
    <2>2. [call[c] EXCEPT !.at = "write"] \in SecretCalls
        BY <2>1
    <2>3. \/ call' = [call EXCEPT ![c] = [call[c] EXCEPT !.at = "write"]]
          \/ call' = [call EXCEPT ![c] = Secrets!Idle]
        BY <1>5 DEF Secrets!CreateTemp
    <2>4. UNCHANGED <<dir, made, file, start>>
        BY <1>5 DEF Secrets!CreateTemp
    <2>5. CASE call' = [call EXCEPT ![c] = Secrets!Idle]
        BY <2>4, <2>5
    <2>6. CASE call' = [call EXCEPT ![c] = [call[c] EXCEPT !.at = "write"]]
        BY <2>1, <2>2, <2>4, <2>6
    <2> QED
        BY <2>3, <2>5, <2>6
<1>6. ASSUME NEW c \in Setters, Secrets!WriteTemp(c) PROVE SecretsInv'
    <2>1. call[c] \in SecretCalls /\ call[c].value \in Texts
        BY <1>6 DEF Secrets!WriteTemp
    <2>2. [call[c] EXCEPT !.at = "rename"] \in SecretCalls
        BY <2>1
    <2>3. call' = [call EXCEPT ![c] = [call[c] EXCEPT !.at = "rename"]] \/ call' = [call EXCEPT ![c] = Secrets!Idle]
        BY <1>6 DEF Secrets!WriteTemp
    <2>4. UNCHANGED <<dir, made, file, start>>
        BY <1>6 DEF Secrets!WriteTemp
    <2>5. CASE call' = [call EXCEPT ![c] = Secrets!Idle]
        BY <2>4, <2>5
    <2>6. CASE call' = [call EXCEPT ![c] = [call[c] EXCEPT !.at = "rename"]]
        <3>1. call[c].at = "write"
            BY <1>6 DEF Secrets!WriteTemp
        <3> QED
            BY <2>1, <2>2, <2>4, <2>6, <3>1
    <2> QED
        BY <2>3, <2>5, <2>6
<1>7. ASSUME NEW c \in Setters, Secrets!Rename(c) PROVE SecretsInv'
    <2>1. /\ call[c] \in SecretCalls /\ call[c].value \in Texts
          /\ call[c].dir \in Secrets!Dirs /\ call[c].name \in SecretNames
        BY <1>7 DEF Secrets!Rename
    <2>2. file' \in [Secrets!Dirs -> [SecretNames -> Texts \union {Secrets!None}]]
        <3> DEFINE new == [file[call[c].dir] EXCEPT ![call[c].name] = call[c].value]
        <3>1. new \in [SecretNames -> Texts \union {Secrets!None}]
            BY <2>1
        <3>2. file' = file \/ file' = [file EXCEPT ![call[c].dir] = new]
            BY <1>7 DEF Secrets!Rename
        <3> HIDE DEF new
        <3> QED
            BY <2>1, <3>1, <3>2
    <2>3. call' = [call EXCEPT ![c] = Secrets!Idle] /\ UNCHANGED <<dir, made, start>>
        BY <1>7 DEF Secrets!Rename
    <2> QED
        BY <2>2, <2>3
<1>8. ASSUME NEW c \in Setters, Secrets!Unlink(c) PROVE SecretsInv'
    BY <1>8 DEF Secrets!Unlink
<1>9. ASSUME NEW s \in Readers, Secrets!StartBegins(s) PROVE SecretsInv'
    BY <1>9 DEF Secrets!StartBegins, Secrets!NoFile
<1>10. ASSUME NEW s \in Readers, NEW n \in SecretNames, Secrets!Get(s, n) PROVE SecretsInv'
    <2> DEFINE was == start[s]
               failed == [was EXCEPT !.at = "done", !.failed = TRUE]
    <2>1. was \in SecretReads /\ was.at = "read" /\ n \in was.left
        BY <1>10 DEF Secrets!Get
    <2>2. UNCHANGED <<dir, made, file, call>>
        BY <1>10 DEF Secrets!Get
    <2>3. CASE dir = 0 \/ file[dir][n] = Secrets!None
        <3>1. start' = [start EXCEPT ![s] = failed]
            BY <1>10, <2>3 DEF Secrets!Get
        <3>2. /\ failed \in SecretReads /\ failed.failed
              /\ failed.left = was.left /\ failed.got = was.got
            BY <2>1
        <3> HIDE DEF failed
        <3> QED
            BY <2>1, <2>2, <3>1, <3>2
    <2>4. CASE dir # 0 /\ file[dir][n] # Secrets!None
        <3>1. PICK value \in Texts : value = file[dir][n]
            BY <2>4
        <3>2. PICK rest \in SUBSET SecretNames : rest = was.left \ {n}
            BY <2>1
        <3>3. PICK given \in [SecretNames -> Texts \union {Secrets!None}] : given = [was.got EXCEPT ![n] = value]
            BY <2>1
        <3>4. PICK next \in {"read", "done"} : next = IF was.left = {n} THEN "done" ELSE "read"
            OBVIOUS
        <3> DEFINE got == [was EXCEPT !.left = rest, !.got = given, !.at = next]
        <3>5. start' = [start EXCEPT ![s] = got]
            <4> DEFINE read == [was EXCEPT !.left = was.left \ {n}, !.got[n] = file[dir][n],
                                           !.at = IF was.left = {n} THEN "done" ELSE "read"]
            <4>0. start' = [start EXCEPT ![s] = IF dir = 0 \/ file[dir][n] = Secrets!None THEN failed ELSE read]
                BY <1>10 DEF Secrets!Get
            <4>1. start' = [start EXCEPT ![s] = read]
                BY <2>4, <4>0
            <4>2. [was EXCEPT !.left = was.left \ {n}, !.got[n] = file[dir][n],
                              !.at = IF was.left = {n} THEN "done" ELSE "read"] = got
                BY <3>1, <3>2, <3>3, <3>4
            <4> QED
                BY <4>1, <4>2
        <3>6. /\ got \in SecretReads /\ got.at = next /\ got.left = rest /\ got.got = given
            BY <2>1
        <3>7. /\ \A x \in SecretNames \ rest : given[x] \in Texts
              /\ next = "done" => rest = {}
            BY <2>1, <3>1, <3>2, <3>3, <3>4
        <3> HIDE DEF got, was
        <3> QED
            BY <2>2, <3>5, <3>6, <3>7
    <2> QED
        BY <2>3, <2>4
<1>11. ASSUME NEW s \in Readers, Secrets!StartEnds(s) PROVE SecretsInv'
    BY <1>11 DEF Secrets!StartEnds
<1>12. CASE Secrets!RemovalBegins
    BY <1>12 DEF Secrets!RemovalBegins
<1>13. CASE Secrets!RemoveMember
    BY <1>13 DEF Secrets!RemoveMember, Secrets!NoFile
<1>14. CASE Secrets!Crash
    BY <1>14 DEF Secrets!Crash
<1>15. CASE UNCHANGED Secrets!vars
    BY <1>15 DEF Secrets!vars
<1> QED
    BY <1>1, <1>2, <1>3, <1>4, <1>5, <1>6, <1>7, <1>8, <1>9, <1>10, <1>11, <1>12, <1>13, <1>14, <1>15
    DEF Secrets!Next

\* No start is given half a secret, for any names, values, calls and starts, and any number of stops.
THEOREM StartsNeverReadHalf ==
    ASSUME MaxDirs \in Nat PROVE Secrets!Spec => []StartsReadWhole
<1>1. SecretsInv => StartsReadWhole
    BY DEF SecretsInv, ReadsAreValues, StartsReadWhole, Secrets!StartsReadWhole, Secrets!Idle
<1> QED
    BY <1>1, SecretsInit, SecretsStep, PTL DEF Secrets!Spec

-----------------------------------------------------------------------------
\* Each path of the member names a folder, a link or nothing.
MountsTyped ==
    /\ path \in [Mounts!Paths -> [folder : Folders, link : BOOLEAN] \union {Mounts!Gone}]
    /\ starting \in {"idle", "resolve", "refused", "prepared", "verified", "running"}
    /\ declared \subseteq Declared /\ left \subseteq declared
    /\ opened \in [Mounts!Paths -> Folders \union {Mounts!Nothing}]
    /\ \A c, d \in declared : c # d => c.path # d.path

\* What was opened was judged, and what runs has what was opened.
OpenedIsLegal ==
    starting \in {"resolve", "prepared", "verified", "running"} =>
        \A d \in declared \ left : opened[d.path] \in Folders /\ Mounts!Legal(d, opened[d.path])
\* A container is made when all that was declared is open.
AllIsOpened == starting \in {"prepared", "verified", "running"} => left = {}
\* What runs has the folders that were opened.
RunsOnOpened == starting \in {"verified", "running"} => Mounts!SameFolder

MountsInv == MountsTyped /\ OpenedIsLegal /\ AllIsOpened /\ RunsOnOpened

\* At first nothing is opened.
LEMMA MountsInit == Mounts!Init => MountsInv
  BY DEF Mounts!Init, MountsInv, MountsTyped, OpenedIsLegal, AllIsOpened, RunsOnOpened, Mounts!Unset

\* Neither a step of the start nor a move of the member changes what has been opened and judged.
LEMMA MountsStep == ASSUME MountsInv, [Mounts!Next]_Mounts!vars PROVE MountsInv'
<1> USE DEF MountsInv, MountsTyped, OpenedIsLegal, AllIsOpened, RunsOnOpened, Mounts!SameFolder
<1>1. ASSUME NEW ds \in SUBSET Declared, Mounts!Begin(ds) PROVE MountsInv'
    BY <1>1 DEF Mounts!Begin, Mounts!Unset
<1>2. ASSUME NEW d \in Declared, Mounts!ResolveOne(d) PROVE MountsInv'
    <2>1. d.path \in Mounts!Paths
        BY DEF Mounts!Paths
    <2>2. CASE Mounts!Opens(d.path) /\ Mounts!Legal(d, path[d.path].folder)
        <3>1. path[d.path].folder \in Folders
            BY <2>1, <2>2 DEF Mounts!Opens, Mounts!Gone
        <3> QED
            BY <1>2, <2>1, <2>2, <3>1 DEF Mounts!ResolveOne, Mounts!Paths
    <2>3. CASE starting' = "refused" /\ UNCHANGED <<opened, left>>
        BY <1>2, <2>3 DEF Mounts!ResolveOne
    <2> QED
        BY <1>2, <2>2, <2>3 DEF Mounts!ResolveOne
<1>3. CASE Mounts!InitContainer
    BY <1>3 DEF Mounts!InitContainer
<1>4. CASE Mounts!VerifyMounts
    BY <1>4 DEF Mounts!VerifyMounts
<1>5. CASE Mounts!StartContainer
    BY <1>5 DEF Mounts!StartContainer
<1>6. CASE Mounts!Ends
    BY <1>6 DEF Mounts!Ends, Mounts!Unset
<1>7. ASSUME NEW p \in Mounts!Paths, Mounts!Move(p) PROVE MountsInv'
    BY <1>7 DEF Mounts!Move
<1>8. CASE UNCHANGED Mounts!vars
    BY <1>8 DEF Mounts!vars
<1> QED
    BY <1>1, <1>2, <1>3, <1>4, <1>5, <1>6, <1>7, <1>8 DEF Mounts!Next

\* What runs has the folders that were judged, and each is one its member may mount so, whatever the member makes of
\* the names in between (internal/mounts/mounts.go).
THEOREM FoldersAreLegal == Mounts!Spec => []RunsOnLegalFolders
<1>1. MountsInv => RunsOnLegalFolders
    BY DEF RunsOnLegalFolders, MountsInv, OpenedIsLegal, AllIsOpened, RunsOnOpened, Mounts!SameFolder, Mounts!RunsOnLegalFolders
<1> QED
    BY <1>1, MountsInit, MountsStep, PTL DEF Mounts!Spec

-----------------------------------------------------------------------------
\* Who a cgroup belongs to.
Owners == {"none", "root", "member"}
\* A ceiling and the cgroup below it, for each process of a member.
CgroupsTyped ==
    /\ ceiling \in [Ids -> [dir : Owners, files : Owners, limits : {"max", "set", "raised"}]]
    /\ sits \in [Procs -> {"out", "leaf"} \union Ids]
    /\ placing \in [Ids -> {"idle", "mkdir", "limits", "handover"}]
    /\ placed \subseteq Ids /\ sub \subseteq Ids
\* What a call of this release is at work on is root's, and what it gave away has its limits.
CeilingsAreRoots ==
    \A id \in Ids :
        /\ (id \notin Old \/ placing[id] # "idle") /\ Cgroups!There(id) => ceiling[id].files = "root"
        /\ id \notin Old /\ ceiling[id].dir = "member" => ceiling[id].limits = "set"
        /\ placing[id] = "handover" /\ Cgroups!There(id) => ceiling[id].limits = "set"
        /\ id \in placed => Cgroups!There(id) /\ ceiling[id].files = "root" /\ ceiling[id].limits = "set"
\* A container's cgroup is below a ceiling that was handed over, and what is in it was moved there.
ContainersAreBelow ==
    \A id \in Ids :
        /\ id \in sub => ceiling[id].dir = "member"
        /\ Cgroups!Holds(id) => id \in sub
CgroupsInv == CgroupsTyped /\ CeilingsAreRoots /\ ContainersAreBelow

\* No Process has the name of one of the other two places a process of a member may be in.
ProcessNames == "out" \notin Ids /\ "leaf" \notin Ids

\* At first there are no ceilings, other than those an older release left.
LEMMA CgroupsInit == ASSUME ProcessNames PROVE Cgroups!Init => CgroupsInv
  BY DEF Cgroups!Init, CgroupsInv, CgroupsTyped, CeilingsAreRoots, ContainersAreBelow, Cgroups!There,
         Cgroups!Holds, Cgroups!Absent, Cgroups!Nobody, Owners, ProcessNames

\* No step of a call, of the member or of the runtime breaks a ceiling, nor does a restart.
LEMMA CgroupsStep == ASSUME ProcessNames, CgroupsInv, [Cgroups!Next]_Cgroups!vars PROVE CgroupsInv'
<1> USE DEF CgroupsInv, CgroupsTyped, CeilingsAreRoots, ContainersAreBelow, Cgroups!There, Cgroups!Holds,
            Cgroups!Nobody, Owners
\* EnsureMember takes back every ceiling there is and nothing else.
<1>0. ASSUME Cgroups!EnsureMember
      PROVE  /\ ceiling' \in [Ids -> [dir : Owners, files : Owners, limits : {"max", "set", "raised"}]]
             /\ \A id \in Ids : /\ ceiling'[id].dir = ceiling[id].dir /\ ceiling'[id].limits = ceiling[id].limits
                                /\ ceiling'[id].files = IF Cgroups!There(id) THEN "root" ELSE ceiling[id].files
    BY <1>0 DEF Cgroups!EnsureMember, Cgroups!TakeBackCeilings
<1>1. ASSUME NEW id \in Ids, Cgroups!EnsureBegins(id) PROVE CgroupsInv'
    BY <1>0, <1>1 DEF Cgroups!EnsureBegins
<1>2. ASSUME NEW id \in Ids, Cgroups!EnsureFails(id) PROVE CgroupsInv'
    BY <1>2 DEF Cgroups!EnsureFails
<1>3. ASSUME NEW id \in Ids, Cgroups!MkdirCeiling(id) PROVE CgroupsInv'
    BY <1>3 DEF Cgroups!MkdirCeiling
<1>4. ASSUME NEW id \in Ids, Cgroups!WriteLimits(id) PROVE CgroupsInv'
    BY <1>4 DEF Cgroups!WriteLimits
<1>5. ASSUME NEW id \in Ids, Cgroups!HandOver(id) PROVE CgroupsInv'
    BY <1>5 DEF Cgroups!HandOver
<1>6. ASSUME NEW p \in Procs, Cgroups!JoinSession(p) PROVE CgroupsInv'
    BY <1>0, <1>6 DEF Cgroups!JoinSession, ProcessNames
<1>7. ASSUME NEW id \in Ids, Cgroups!RemoveProcess(id) PROVE CgroupsInv'
    BY <1>7 DEF Cgroups!RemoveProcess, Cgroups!Absent
<1>8. CASE Cgroups!RemoveTree
    BY <1>8 DEF Cgroups!RemoveTree, Cgroups!Absent
<1>9. ASSUME NEW id \in Ids, Cgroups!MemberMakes(id) PROVE CgroupsInv'
    BY <1>9 DEF Cgroups!MemberMakes
<1>10. ASSUME NEW p \in Procs, NEW id \in Ids, Cgroups!MemberMoves(p, id) PROVE CgroupsInv'
    BY <1>10 DEF Cgroups!MemberMoves
<1>11. ASSUME NEW id \in Ids, Cgroups!MemberRaises(id) PROVE CgroupsInv'
    BY <1>11 DEF Cgroups!MemberRaises
<1>12. ASSUME NEW p \in Procs, Cgroups!ProcessEnds(p) PROVE CgroupsInv'
    BY <1>12 DEF Cgroups!ProcessEnds, ProcessNames
<1>13. CASE Cgroups!Restart
    BY <1>0, <1>13 DEF Cgroups!Restart
<1>14. CASE UNCHANGED Cgroups!vars
    BY <1>14 DEF Cgroups!vars
<1> QED
    BY <1>1, <1>2, <1>3, <1>4, <1>5, <1>6, <1>7, <1>8, <1>9, <1>10, <1>11, <1>12, <1>13, <1>14
    DEF Cgroups!Next

\* What this release has placed runs below the limits it was started with, and nothing runs below a ceiling without
\* limits, whatever the member does and an older release left (internal/cgroups/host_linux.go).
LEMMA CeilingsHold == ASSUME ProcessNames PROVE Cgroups!Spec => []Cgroups!CeilingHolds
<1>1. CgroupsInv => Cgroups!CeilingHolds
    BY DEF CgroupsInv, CeilingsAreRoots, ContainersAreBelow, Cgroups!CeilingHolds, Cgroups!There, Cgroups!Nobody
<1> QED
    BY <1>1, CgroupsInit, CgroupsStep, PTL DEF Cgroups!Spec

-----------------------------------------------------------------------------
\* Where a session is in a build or a fetch.
CallRec == [pc : {"idle", "make", "record", "ask", "look", "copy", "arrived"},
            path : {d.path : d \in Images} \union {Builds!None},
            commit : {d.commit : d \in Images} \union {Builds!None},
            image : Images \union {Builds!None}, from : Builders \union {Builds!None}]
\* A row of builds.
Row == [image : Images, builder : Builders, at : Nat]
\* A copy is under way from the claim to the release.
UnderWay == {"look", "copy", "arrived"}
Copying == {s \in Sessions : using[s].pc \in UnderWay}
\* What a session claims, and the copies of a member.
Claim(s) == <<UserOf[s], using[s].image>>
CopyingOf(m) == {s \in Copying : UserOf[s] = m}

\* The calls, the rows and the clock.
ImagesTyped ==
    /\ using \in [Sessions -> CallRec]
    /\ built \in Nat
    /\ records \subseteq Row
    /\ \A s \in Sessions : using[s].pc = "record" => using[s].image \in Images

\* The claims are those of the copies under way, each of its own.
ClaimsAreTheCopies ==
    /\ per \in [Builders -> Nat]
    /\ copying = {Claim(s) : s \in Copying}
    /\ \A s, z \in Copying : s # z => Claim(s) # Claim(z)
    /\ Cardinality(copying) = Cardinality(Copying)
    /\ \A m \in Builders : per[m] = Cardinality(CopyingOf(m)) /\ per[m] <= MaxFetchesPerMember

\* No builder has more records of a path than its bound, and no two are of one moment.
RecordsOf(set, p, m) == {r \in set : r.image.path = p /\ r.builder = m}
Timed(set) == \A r, q \in set : r.at = q.at => r = q
RowsAreBounded ==
    /\ IsFiniteSet(records) /\ Timed(records)
    /\ \A r \in records : r.at <= built
    /\ \A m \in Builders, d \in Images : Cardinality(RecordsOf(records, d.path, m)) <= MaxBuildsPerBuilder

ImagesInv == ImagesTyped /\ ClaimsAreTheCopies /\ RowsAreBounded

\* The bound of a path is no less than what the bounds of its builders come to.
PathBoundSuffices ==
    /\ MaxBuildsPerBuilder \in Nat /\ MaxBuildsPerPath \in Nat
    /\ MaxBuildsPerBuilder * Cardinality(Builders) <= MaxBuildsPerPath

\* What the instance calls Cardinality is the library's.
LEMMA BuildsCardinality == \A S : Builds!Cardinality(S) = Cardinality(S)
  BY DEF Builds!Cardinality, Cardinality

\* Finitely many sessions, each of one member.
SessionsOfMembers == IsFiniteSet(Sessions) /\ UserOf \in [Sessions -> Builders] /\ MaxFetchesPerMember \in Nat

\* At first no image is held, none is recorded, and nobody is copying.
LEMMA ImagesInit == ASSUME SessionsOfMembers, MaxBuildsPerBuilder \in Nat PROVE Builds!Init => ImagesInv
<1> SUFFICES ASSUME Builds!Init PROVE ImagesInv
    OBVIOUS
<1>1. Builds!Quiet \in CallRec /\ Builds!Quiet.pc = "idle"
    BY DEF Builds!Quiet, CallRec
<1>2. ImagesTyped
    BY <1>1 DEF Builds!Init, ImagesTyped
<1>3. Copying = {} /\ \A m : CopyingOf(m) = {}
    BY <1>1 DEF Builds!Init, Copying, CopyingOf, UnderWay
<1>4. copying = {Claim(s) : s \in Copying}
    BY <1>3 DEF Builds!Init
<1>5. ClaimsAreTheCopies
    BY <1>3, <1>4, FS_EmptySet DEF Builds!Init, ClaimsAreTheCopies, SessionsOfMembers
<1>6. \A p, m : RecordsOf(records, p, m) = {}
    BY DEF Builds!Init, RecordsOf
<1>7. RowsAreBounded
    BY <1>6, FS_EmptySet DEF Builds!Init, RowsAreBounded, Timed
<1> QED
    BY <1>2, <1>5, <1>7 DEF ImagesInv

\* A step of a session that begins no copy and ends none.
LEMMA ClaimsApart ==
    ASSUME ImagesInv, NEW s \in Sessions, NEW was \in CallRec, was = using[s], NEW n \in CallRec,
           using' = [using EXCEPT ![s] = n], UNCHANGED <<copying, per>>,
           was.pc \in UnderWay <=> n.pc \in UnderWay, n.pc \in UnderWay => n.image = was.image
    PROVE  ClaimsAreTheCopies'
<1>1. Copying' = Copying /\ \A m : CopyingOf(m)' = CopyingOf(m)
    BY DEF Copying, CopyingOf, ImagesInv, ImagesTyped
<1>2. \A z \in Copying : Claim(z)' = Claim(z)
    BY DEF Copying, Claim, ImagesInv, ImagesTyped
<1>3. {Claim(z) : z \in Copying}' = {Claim(z) : z \in Copying}
    BY <1>1, <1>2
<1> QED
    BY <1>1, <1>2, <1>3 DEF ImagesInv, ClaimsAreTheCopies

\* One that leaves every call as it is.
LEMMA ClaimsStay ==
    ASSUME ImagesInv, UNCHANGED <<using, copying, per>>
    PROVE  ClaimsAreTheCopies'
<1>1. Copying' = Copying /\ (\A m : CopyingOf(m)' = CopyingOf(m)) /\ \A z : Claim(z)' = Claim(z)
    BY DEF Copying, CopyingOf, Claim
<1> QED
    BY <1>1 DEF ImagesInv, ClaimsAreTheCopies

\* A claim is taken for one session, and a slot of its member with it.
LEMMA ClaimTaken ==
    ASSUME SessionsOfMembers, ImagesInv, NEW s \in Sessions, NEW was \in CallRec, was = using[s],
           NEW n \in CallRec, using' = [using EXCEPT ![s] = n],
           was.pc \notin UnderWay, n.pc \in UnderWay, n.image = was.image,
           Claim(s) \notin copying, per[UserOf[s]] < MaxFetchesPerMember,
           copying' = copying \union {Claim(s)}, per' = [per EXCEPT ![UserOf[s]] = @ + 1]
    PROVE  ClaimsAreTheCopies'
<1>1. s \notin Copying /\ Copying' = Copying \union {s}
    BY DEF Copying, ImagesInv, ImagesTyped
<1>2. \A z \in Copying' : Claim(z)' = Claim(z)
    BY <1>1 DEF Copying, Claim, ImagesInv, ImagesTyped
<1>3. copying' = {Claim(z) : z \in Copying}'
    BY <1>1, <1>2 DEF ImagesInv, ClaimsAreTheCopies
<1>4. \A z, u \in Copying' : z # u => Claim(z)' # Claim(u)'
    BY <1>1, <1>2 DEF ImagesInv, ClaimsAreTheCopies
<1>5. IsFiniteSet(Copying)
    BY FS_Subset DEF Copying, SessionsOfMembers
<1>6. IsFiniteSet(copying)
    <2>1. PICK f : f = [z \in Copying |-> Claim(z)]
        OBVIOUS
    <2>2. f \in Surjection(Copying, copying)
        BY <2>1 DEF Surjection, ImagesInv, ClaimsAreTheCopies
    <2> QED
        BY <1>5, <2>2, FS_Surjection
<1>7. Cardinality(copying)' = Cardinality(Copying)'
    <2>1. Cardinality(copying \union {Claim(s)}) = Cardinality(copying) + 1
        BY <1>6, FS_AddElement
    <2>2. Cardinality(Copying \union {s}) = Cardinality(Copying) + 1
        BY <1>1, <1>5, FS_AddElement
    <2> QED
        BY <1>1, <2>1, <2>2 DEF ImagesInv, ClaimsAreTheCopies
<1>8. ASSUME NEW m \in Builders
      PROVE  per'[m] = Cardinality(CopyingOf(m))' /\ per'[m] <= MaxFetchesPerMember
    <2>1. IsFiniteSet(CopyingOf(m))
        BY <1>5, FS_Subset DEF CopyingOf
    <2>2. CopyingOf(m)' = IF m = UserOf[s] THEN CopyingOf(m) \union {s} ELSE CopyingOf(m)
        BY <1>1 DEF CopyingOf
    <2>3. s \notin CopyingOf(m)
        BY <1>1 DEF CopyingOf
    <2>4. per[m] = Cardinality(CopyingOf(m)) /\ per[m] <= MaxFetchesPerMember /\ per[m] \in Nat
        BY DEF ImagesInv, ClaimsAreTheCopies
    <2>5. CASE m = UserOf[s]
        <3>1. Cardinality(CopyingOf(m) \union {s}) = Cardinality(CopyingOf(m)) + 1
            BY <2>1, <2>3, FS_AddElement
        <3>2. per'[m] = per[m] + 1
            BY <2>5 DEF ImagesInv, ClaimsAreTheCopies
        <3> QED
            BY <2>2, <2>4, <2>5, <3>1, <3>2 DEF SessionsOfMembers
    <2>6. CASE m # UserOf[s]
        BY <2>2, <2>4, <2>6 DEF ImagesInv, ClaimsAreTheCopies
    <2> QED
        BY <2>5, <2>6
<1>9. per' \in [Builders -> Nat]
    <2>1. UserOf[s] \in Builders /\ per[UserOf[s]] + 1 \in Nat
        BY DEF SessionsOfMembers, ImagesInv, ClaimsAreTheCopies
    <2> QED
        BY <2>1 DEF ImagesInv, ClaimsAreTheCopies
<1> QED
    BY <1>3, <1>4, <1>7, <1>8, <1>9 DEF ClaimsAreTheCopies

\* Every way out gives back the claim and the slot.
LEMMA ClaimReleased ==
    ASSUME SessionsOfMembers, ImagesInv, NEW s \in Sessions, NEW was \in CallRec, was = using[s],
           NEW n \in CallRec, using' = [using EXCEPT ![s] = n],
           was.pc \in UnderWay, n.pc \notin UnderWay, Builds!Released(s)
    PROVE  ClaimsAreTheCopies'
<1>1. s \in Copying /\ Copying' = Copying \ {s}
    BY DEF Copying, ImagesInv, ImagesTyped
<1>2. \A z \in Copying' : Claim(z)' = Claim(z)
    BY <1>1 DEF Copying, Claim, ImagesInv, ImagesTyped
<1>3. copying' = copying \ {Claim(s)} /\ per' = [per EXCEPT ![UserOf[s]] = @ - 1]
    BY DEF Builds!Released, Claim
<1>4. copying' = {Claim(z) : z \in Copying}'
    BY <1>1, <1>2, <1>3 DEF ImagesInv, ClaimsAreTheCopies
<1>5. \A z, u \in Copying' : z # u => Claim(z)' # Claim(u)'
    BY <1>1, <1>2 DEF ImagesInv, ClaimsAreTheCopies
<1>6. IsFiniteSet(Copying)
    BY FS_Subset DEF Copying, SessionsOfMembers
<1>7. IsFiniteSet(copying)
    <2>1. PICK f : f = [z \in Copying |-> Claim(z)]
        OBVIOUS
    <2>2. f \in Surjection(Copying, copying)
        BY <2>1 DEF Surjection, ImagesInv, ClaimsAreTheCopies
    <2> QED
        BY <1>6, <2>2, FS_Surjection
<1>8. Claim(s) \in copying
    BY <1>1 DEF ImagesInv, ClaimsAreTheCopies
<1>9. Cardinality(copying)' = Cardinality(Copying)'
    <2>1. Cardinality(copying \ {Claim(s)}) = Cardinality(copying) - 1
        BY <1>7, <1>8, FS_RemoveElement
    <2>2. Cardinality(Copying \ {s}) = Cardinality(Copying) - 1
        BY <1>1, <1>6, FS_RemoveElement
    <2> QED
        BY <1>1, <1>3, <2>1, <2>2 DEF ImagesInv, ClaimsAreTheCopies
<1>10. ASSUME NEW m \in Builders
       PROVE  per'[m] = Cardinality(CopyingOf(m))' /\ per'[m] <= MaxFetchesPerMember
    <2>1. IsFiniteSet(CopyingOf(m))
        BY <1>6, FS_Subset DEF CopyingOf
    <2>2. CopyingOf(m)' = IF m = UserOf[s] THEN CopyingOf(m) \ {s} ELSE CopyingOf(m)
        BY <1>1 DEF CopyingOf
    <2>3. m = UserOf[s] => s \in CopyingOf(m)
        BY <1>1 DEF CopyingOf
    <2>4. per[m] = Cardinality(CopyingOf(m)) /\ per[m] <= MaxFetchesPerMember /\ per[m] \in Nat
        BY DEF ImagesInv, ClaimsAreTheCopies
    <2>5. CASE m = UserOf[s]
        <3>1. Cardinality(CopyingOf(m) \ {s}) = Cardinality(CopyingOf(m)) - 1
            BY <2>1, <2>3, <2>5, FS_RemoveElement
        <3>2. per'[m] = per[m] - 1
            BY <1>3, <2>5 DEF ImagesInv, ClaimsAreTheCopies
        <3> QED
            BY <2>2, <2>4, <2>5, <3>1, <3>2 DEF SessionsOfMembers
    <2>6. CASE m # UserOf[s]
        BY <1>3, <2>2, <2>4, <2>6 DEF ImagesInv, ClaimsAreTheCopies
    <2> QED
        BY <2>5, <2>6
<1>11. per' \in [Builders -> Nat]
    <2>1. per[UserOf[s]] - 1 \in Nat
        <3>1. UserOf[s] \in Builders /\ IsFiniteSet(CopyingOf(UserOf[s])')
            BY <1>1, <1>6, FS_Subset DEF CopyingOf, SessionsOfMembers
        <3>2. per'[UserOf[s]] \in Nat
            BY <1>10, <3>1, FS_CardinalityType
        <3> QED
            BY <1>3, <3>1, <3>2 DEF ImagesInv, ClaimsAreTheCopies
    <2> QED
        BY <1>3, <2>1 DEF ImagesInv, ClaimsAreTheCopies
<1> QED
    BY <1>4, <1>5, <1>9, <1>10, <1>11 DEF ClaimsAreTheCopies

\* A session that does nothing.
LEMMA QuietCall == Builds!Quiet \in CallRec /\ Builds!Quiet.pc = "idle" /\ Builds!Quiet.image = Builds!None
  BY DEF Builds!Quiet, CallRec

\* What the steps of a session make of its call.
LEMMA CallsOfSessions ==
    ASSUME SessionsOfMembers, ImagesTyped, NEW s \in Sessions, NEW was \in CallRec, was = using[s]
    PROVE  /\ (\E d \in Images : Builds!Build(s, d) \/ Builds!Run(s, d)) =>
                  was.pc = "idle" /\ \E n \in CallRec : using' = [using EXCEPT ![s] = n] /\ n.pc \in {"make", "ask"}
           /\ Builds!Make(s) =>
                  /\ was.pc = "make"
                  /\ \E n \in CallRec : using' = [using EXCEPT ![s] = n]
                                        /\ (n.pc = "idle" \/ (n.pc = "record" /\ n.image \in Images))
           /\ Builds!Instead(s) => \E n \in CallRec : using' = [using EXCEPT ![s] = n] /\ n.pc \in {"idle", "make"}
           /\ Builds!Ends(s) => \E n \in CallRec : using' = [using EXCEPT ![s] = n] /\ n.pc = "idle"
           /\ \A pc \in UnderWay : Builds!To(s, pc) =>
                  \E n \in CallRec : using' = [using EXCEPT ![s] = n] /\ n.pc = pc /\ n.image = was.image
<1>1. ASSUME NEW d \in Images, Builds!Build(s, d)
      PROVE  was.pc = "idle" /\ \E n \in CallRec : using' = [using EXCEPT ![s] = n] /\ n.pc \in {"make", "ask"}
    <2> DEFINE begun(pc, i, b) == [pc |-> pc, path |-> d.path, commit |-> d.commit, image |-> i, from |-> b]
    <2>1. was.pc = "idle"
        BY <1>1, QuietCall DEF Builds!Build
    <2>2. begun("make", Builds!None, Builds!None) \in CallRec
        BY DEF CallRec
    <2>3. \A r \in records : begun("ask", r.image, r.builder) \in CallRec
        BY DEF CallRec, ImagesTyped, Row
    <2>4. Builds!Winner(Builds!Rows(d.path, d.commit)) \subseteq records
        BY DEF Builds!Winner, Builds!Rows
    <2>5. \/ using' = [using EXCEPT ![s] = begun("make", Builds!None, Builds!None)]
          \/ \E r \in records : using' = [using EXCEPT ![s] = begun("ask", r.image, r.builder)]
        BY <1>1, <2>4 DEF Builds!Build
    <2> QED
        BY <2>1, <2>2, <2>3, <2>5
<1>2. ASSUME NEW d \in Images, Builds!Run(s, d)
      PROVE  was.pc = "idle" /\ \E n \in CallRec : using' = [using EXCEPT ![s] = n] /\ n.pc \in {"make", "ask"}
    <2> DEFINE begun(b) == [Builds!Quiet EXCEPT !.pc = "ask", !.image = d, !.from = b]
    <2>1. was.pc = "idle"
        BY <1>2, QuietCall DEF Builds!Run
    <2>2. \A b \in Builders : begun(b) \in CallRec /\ begun(b).pc = "ask"
        BY DEF CallRec, Builds!Quiet
    <2>3. \E r \in records : using' = [using EXCEPT ![s] = begun(r.builder)]
        BY <1>2 DEF Builds!Run
    <2> QED
        BY <2>1, <2>2, <2>3 DEF ImagesTyped, Row
<1>3. ASSUME Builds!Make(s)
      PROVE  /\ was.pc = "make"
             /\ \E n \in CallRec : using' = [using EXCEPT ![s] = n]
                                   /\ (n.pc = "idle" \/ (n.pc = "record" /\ n.image \in Images))
    <2> DEFINE begun(d) == [was EXCEPT !.pc = "record", !.image = d]
    <2>1. \A d \in Images : begun(d) \in CallRec /\ begun(d).pc = "record" /\ begun(d).image = d
        BY DEF CallRec
    <2>2. \/ using' = [using EXCEPT ![s] = Builds!Quiet]
          \/ \E d \in Images : using' = [using EXCEPT ![s] = begun(d)]
        BY <1>3 DEF Builds!Make, Builds!Ends
    <2>3. was.pc = "make"
        BY <1>3 DEF Builds!Make
    <2> HIDE DEF begun
    <2> QED
        BY <2>1, <2>2, <2>3, QuietCall
<1>4. \A pc \in UnderWay \union {"make"} :
          Builds!To(s, pc) => \E n \in CallRec : using' = [using EXCEPT ![s] = n] /\ n.pc = pc /\ n.image = was.image
    <2> SUFFICES ASSUME NEW pc \in UnderWay \union {"make"}, Builds!To(s, pc)
                 PROVE  \E n \in CallRec : using' = [using EXCEPT ![s] = n] /\ n.pc = pc /\ n.image = was.image
        OBVIOUS
    <2> DEFINE n == [was EXCEPT !.pc = pc]
    <2>1. n \in CallRec /\ n.pc = pc /\ n.image = was.image
        BY DEF CallRec, UnderWay
    <2>2. using' = [using EXCEPT ![s] = n]
        BY DEF Builds!To
    <2> HIDE DEF n
    <2> QED
        BY <2>1, <2>2
<1>5. Builds!Ends(s) => \E n \in CallRec : using' = [using EXCEPT ![s] = n] /\ n.pc = "idle"
    BY QuietCall DEF Builds!Ends
<1> QED
    BY <1>1, <1>2, <1>3, <1>4, <1>5 DEF Builds!Instead

\* Every step keeps the types of the calls and the claims of the copies.
LEMMA ImagesStep ==
    ASSUME SessionsOfMembers, ImagesInv, [Builds!Next]_Builds!vars
    PROVE  (using' \in [Sessions -> CallRec] /\ \A s \in Sessions : using'[s].pc = "record" => using'[s].image \in Images)
           /\ ClaimsAreTheCopies'
<1> DEFINE CallsTyped == using \in [Sessions -> CallRec]
                         /\ \A s \in Sessions : using[s].pc = "record" => using[s].image \in Images
<1>0. CallsTyped
    BY DEF ImagesInv, ImagesTyped
<1>a. ASSUME NEW s \in Sessions, NEW n \in CallRec, using' = [using EXCEPT ![s] = n],
             n.pc # "record" \/ n.image \in Images
      PROVE  CallsTyped'
    BY <1>0, <1>a
<1>1. ASSUME NEW s \in Sessions,
             \/ \E d \in Images : Builds!Build(s, d) \/ Builds!Run(s, d)
             \/ Builds!Make(s) \/ Builds!Record(s) \/ Builds!Fetch(s) \/ Builds!Look(s) \/ Builds!Copy(s)
             \/ Builds!Arrive(s) \/ Builds!Refuse(s)
      PROVE  CallsTyped' /\ ClaimsAreTheCopies'
    <2>0. PICK was \in CallRec : was = using[s]
        BY DEF ImagesInv, ImagesTyped
    <2>1. CASE \E d \in Images : Builds!Build(s, d) \/ Builds!Run(s, d)
        <3>1. was.pc = "idle" /\ \E n \in CallRec : using' = [using EXCEPT ![s] = n] /\ n.pc \in {"make", "ask"}
            BY <2>0, <2>1, CallsOfSessions DEF ImagesInv
        <3>2. UNCHANGED <<copying, per>>
            BY <2>1 DEF Builds!Build, Builds!Run
        <3> QED
            BY <1>a, <2>0, <3>1, <3>2, ClaimsApart DEF UnderWay
    <2>2. CASE Builds!Make(s)
        <3>1. was.pc = "make"
              /\ \E n \in CallRec : using' = [using EXCEPT ![s] = n] /\ (n.pc = "idle" \/ (n.pc = "record" /\ n.image \in Images))
            BY <2>0, <2>2, CallsOfSessions DEF ImagesInv
        <3>2. UNCHANGED <<copying, per>>
            BY <2>2 DEF Builds!Make
        <3>3. PICK n \in CallRec : using' = [using EXCEPT ![s] = n] /\ (n.pc = "idle" \/ (n.pc = "record" /\ n.image \in Images))
            BY <3>1
        <3>4. was.pc \notin UnderWay /\ n.pc \notin UnderWay
            BY <3>1, <3>3 DEF UnderWay
        <3>5. ClaimsAreTheCopies'
            BY <2>0, <3>2, <3>3, <3>4, ClaimsApart
        <3> QED
            BY <1>a, <3>3, <3>5
    <2>3. CASE Builds!Record(s)
        <3>1. was.pc = "record" /\ \E n \in CallRec : using' = [using EXCEPT ![s] = n] /\ n.pc = "idle"
            BY <2>0, <2>3, CallsOfSessions DEF ImagesInv, Builds!Record
        <3>2. UNCHANGED <<copying, per>>
            BY <2>3 DEF Builds!Record
        <3> QED
            BY <1>a, <2>0, <3>1, <3>2, ClaimsApart DEF UnderWay
    <2>4. CASE Builds!Fetch(s)
        <3>1. was.pc = "ask"
            BY <2>0, <2>4 DEF Builds!Fetch
        <3>2. CASE Builds!Instead(s) /\ UNCHANGED <<copying, per>>
            <4>1. \E n \in CallRec : using' = [using EXCEPT ![s] = n] /\ n.pc \in {"idle", "make"}
                BY <2>0, <3>2, CallsOfSessions DEF ImagesInv
            <4> QED
                BY <1>a, <2>0, <3>1, <3>2, <4>1, ClaimsApart DEF UnderWay
        <3>3. CASE /\ Builds!Takes(UserOf[s], was.image)
                   /\ copying' = copying \union {<<UserOf[s], was.image>>}
                   /\ per' = [per EXCEPT ![UserOf[s]] = @ + 1]
                   /\ Builds!To(s, "look")
            <4>1. PICK n \in CallRec : using' = [using EXCEPT ![s] = n] /\ n.pc = "look" /\ n.image = was.image
                BY <2>0, <3>3, CallsOfSessions DEF ImagesInv, UnderWay
            <4>2. Claim(s) = <<UserOf[s], was.image>>
                BY <2>0 DEF Claim
            <4>3. Claim(s) \notin copying /\ per[UserOf[s]] < MaxFetchesPerMember
                BY <3>3, <4>2 DEF Builds!Takes
            <4>4. ClaimsAreTheCopies'
                BY <2>0, <3>1, <3>3, <4>1, <4>2, <4>3, ClaimTaken DEF UnderWay
            <4> QED
                BY <1>a, <4>1, <4>4
        <3> QED
            BY <2>0, <2>4, <3>2, <3>3 DEF Builds!Fetch
    <2>5. ASSUME NEW pc \in UnderWay, was.pc \in UnderWay, Builds!To(s, pc), UNCHANGED <<copying, per>>
          PROVE  CallsTyped' /\ ClaimsAreTheCopies'
        <3>1. PICK n \in CallRec : using' = [using EXCEPT ![s] = n] /\ n.pc = pc /\ n.image = was.image
            BY <2>0, <2>5, CallsOfSessions DEF ImagesInv
        <3> QED
            BY <1>a, <2>0, <2>5, <3>1, ClaimsApart DEF UnderWay
    <2>6. CASE Builds!Look(s) \/ Builds!Copy(s)
        BY <2>0, <2>5, <2>6 DEF Builds!Look, Builds!Copy, UnderWay
    <2>7. CASE Builds!Arrive(s) \/ Builds!Refuse(s)
        <3>1. was.pc \in UnderWay /\ Builds!Released(s)
            BY <2>0, <2>7 DEF Builds!Arrive, Builds!Refuse, UnderWay
        <3>2. PICK n \in CallRec : using' = [using EXCEPT ![s] = n] /\ n.pc \in {"idle", "make"}
            BY <2>0, <2>7, CallsOfSessions DEF ImagesInv, Builds!Arrive, Builds!Refuse
        <3>3. n.pc \notin UnderWay
            BY <3>2 DEF UnderWay
        <3> QED
            BY <1>a, <2>0, <3>1, <3>2, <3>3, ClaimReleased
    <2> QED
        BY <1>1, <2>1, <2>2, <2>3, <2>4, <2>6, <2>7
<1>2. ASSUME UNCHANGED <<using, copying, per>> PROVE CallsTyped' /\ ClaimsAreTheCopies'
    BY <1>0, <1>2, ClaimsStay
<1>3. ASSUME NEW m \in Builders, Builds!Leave(m) \/ \E d \in Images : Builds!RemoveImage(m, d)
      PROVE  UNCHANGED <<using, copying, per>>
    BY <1>3 DEF Builds!Leave, Builds!RemoveImage
<1>4. CASE UNCHANGED Builds!vars
    BY <1>2, <1>4 DEF Builds!vars
<1> QED
    BY <1>1, <1>2, <1>3, <1>4 DEF Builds!Next

-----------------------------------------------------------------------------
\* How many elements of a set of rows are later than one of them.
Later(set, r) == {q \in set : q.at > r.at}

\* Of rows of different moments, no two have as many later ones.
LEMMA LaterIsFewer ==
    ASSUME NEW set, IsFiniteSet(set), \A r \in set : r.at \in Nat, Timed(set)
    PROVE  \A r, q \in set : Cardinality(Later(set, r)) = Cardinality(Later(set, q)) => r = q
<1>1. ASSUME NEW r \in set, NEW q \in set, r.at < q.at
      PROVE  Cardinality(Later(set, r)) # Cardinality(Later(set, q))
    <2>1. Later(set, q) \subseteq Later(set, r) /\ q \in Later(set, r) /\ q \notin Later(set, q)
        BY <1>1 DEF Later
    <2>2. IsFiniteSet(Later(set, r))
        BY FS_Subset DEF Later
    <2> QED
        BY <2>1, <2>2, FS_Subset
<1>2. \A r, q \in set : r = q \/ r.at < q.at \/ q.at < r.at
    BY DEF Timed
<1> QED
    BY <1>1, <1>2

\* There are n numbers below n.
LEMMA Interval == \A n \in Nat : IsFiniteSet(0..(n - 1)) /\ Cardinality(0..(n - 1)) = n
<1> SUFFICES ASSUME NEW n \in Nat PROVE IsFiniteSet(0..(n - 1)) /\ Cardinality(0..(n - 1)) = n
    OBVIOUS
<1>1. 0 \in Int /\ n - 1 \in Int
    OBVIOUS
<1>2. IsFiniteSet(0..(n - 1)) /\ Cardinality(0..(n - 1)) = IF 0 > n - 1 THEN 0 ELSE (n - 1) - 0 + 1
    BY <1>1, FS_Interval
<1> QED
    BY <1>2

\* The newest n of a set of rows are at most n.
LEMMA NewestIsBounded ==
    ASSUME NEW set, IsFiniteSet(set), \A r \in set : r.at \in Nat, Timed(set), NEW n \in Nat
    PROVE  /\ Builds!Newest(set, n) \subseteq set
           /\ Cardinality(Builds!Newest(set, n)) <= n
<1> DEFINE new == Builds!Newest(set, n)
           rank == [r \in new |-> Cardinality(Later(set, r))]
<1>1. new \subseteq set /\ \A r \in new : Cardinality(Later(set, r)) < n
    BY BuildsCardinality DEF Builds!Newest, Later
<1>2. \A r \in set : IsFiniteSet(Later(set, r)) /\ Cardinality(Later(set, r)) \in Nat
    BY FS_Subset, FS_CardinalityType DEF Later
<1> HIDE DEF new
<1>3. rank \in [new -> 0..(n - 1)]
    BY <1>1, <1>2
<1>4. \A r, q \in new : rank[r] = rank[q] => r = q
    BY <1>1, LaterIsFewer
<1>5. rank \in Injection(new, 0..(n - 1))
    BY <1>3, <1>4 DEF Injection, IsInjective
<1>6. IsFiniteSet(0..(n - 1)) /\ Cardinality(0..(n - 1)) = n
    BY Interval
<1> HIDE DEF rank
<1>7. Cardinality(new) <= n
    BY <1>5, <1>6, FS_Injection
<1> QED
    BY <1>1, <1>7 DEF new

\* A set of at most n rows is its own newest n.
LEMMA NewestIsAll ==
    ASSUME NEW set, IsFiniteSet(set), \A r \in set : r.at \in Nat, NEW n \in Nat, Cardinality(set) <= n
    PROVE  Builds!Newest(set, n) = set
<1>1. ASSUME NEW r \in set PROVE Cardinality(Later(set, r)) < n
    <2>1. Later(set, r) \subseteq set \ {r}
        BY DEF Later
    <2>2. IsFiniteSet(set \ {r}) /\ Cardinality(set \ {r}) = Cardinality(set) - 1
        BY FS_RemoveElement
    <2>3. Cardinality(Later(set, r)) <= Cardinality(set) - 1
        BY <2>1, <2>2, FS_Subset
    <2>4. Cardinality(set) \in Nat /\ Cardinality(Later(set, r)) \in Nat
        BY <2>1, <2>2, FS_Subset, FS_CardinalityType
    <2> QED
        BY <2>3, <2>4
<1> QED
    BY <1>1, BuildsCardinality DEF Builds!Newest, Later

\* Rows of which no builder has more than n are no more than n for each builder there may be: which builder and
\* how many later ones of that builder tells a row from every other.
LEMMA BoundedByBuilders ==
    ASSUME NEW set, IsFiniteSet(set), Timed(set), \A r \in set : r.at \in Nat /\ r.builder \in Builders,
           IsFiniteSet(Builders), NEW n \in Nat,
           \A m \in Builders : Cardinality({r \in set : r.builder = m}) <= n
    PROVE  Cardinality(set) <= n * Cardinality(Builders)
<1> DEFINE of(m) == {r \in set : r.builder = m}
           rank(r) == Cardinality(Later(of(r.builder), r))
           place == [r \in set |-> <<r.builder, rank(r)>>]
<1>1. ASSUME NEW r \in set
      PROVE  /\ IsFiniteSet(of(r.builder)) /\ Timed(of(r.builder)) /\ r \in of(r.builder)
             /\ Cardinality(Later(of(r.builder), r)) \in 0..(n - 1)
    <2>1. of(r.builder) \subseteq set /\ r \in of(r.builder)
        OBVIOUS
    <2>2. IsFiniteSet(of(r.builder)) /\ Timed(of(r.builder))
        BY <2>1, FS_Subset DEF Timed
    <2>3. Later(of(r.builder), r) \subseteq of(r.builder) \ {r}
        BY DEF Later
    <2>4. /\ IsFiniteSet(of(r.builder) \ {r})
          /\ Cardinality(of(r.builder) \ {r}) = Cardinality(of(r.builder)) - 1
        BY <2>1, <2>2, FS_RemoveElement
    <2>5. Cardinality(of(r.builder)) <= n
        OBVIOUS
    <2> HIDE DEF of
    <2>6. /\ Cardinality(Later(of(r.builder), r)) <= Cardinality(of(r.builder)) - 1
          /\ Cardinality(Later(of(r.builder), r)) \in Nat /\ Cardinality(of(r.builder)) \in Nat
        BY <2>2, <2>3, <2>4, FS_Subset, FS_CardinalityType
    <2> QED
        BY <2>1, <2>2, <2>5, <2>6
<1>r. \A r \in set : rank(r) \in 0..(n - 1)
    BY <1>1
<1> HIDE DEF rank
<1>2. place \in [set -> Builders \X (0..(n - 1))]
    BY <1>r
<1>3. ASSUME NEW r \in set, NEW q \in set, place[r] = place[q] PROVE r = q
    <2>0. r.builder = q.builder /\ rank(r) = rank(q)
        BY <1>3
    <2>1. /\ r.builder = q.builder
          /\ Cardinality(Later(of(r.builder), r)) = Cardinality(Later(of(q.builder), q))
        BY <2>0 DEF rank
    <2>2. r \in of(r.builder) /\ q \in of(r.builder) /\ \A p \in of(r.builder) : p.at \in Nat
        BY <2>1
    <2>3. IsFiniteSet(of(r.builder)) /\ Timed(of(r.builder))
        BY <1>1
    <2> HIDE DEF of
    <2> QED
        BY <2>1, <2>2, <2>3, LaterIsFewer
<1> HIDE DEF place
<1>4. place \in Injection(set, Builders \X (0..(n - 1)))
    BY <1>2, <1>3 DEF Injection, IsInjective
<1>5. IsFiniteSet(0..(n - 1)) /\ Cardinality(0..(n - 1)) = n
    BY Interval
<1>6. /\ IsFiniteSet(Builders \X (0..(n - 1)))
      /\ Cardinality(Builders \X (0..(n - 1))) = Cardinality(Builders) * n
    BY <1>5, FS_Product
<1>7. Cardinality(set) <= Cardinality(Builders) * n
    BY <1>4, <1>6, FS_Injection
<1>8. Cardinality(Builders) * n = n * Cardinality(Builders)
    BY FS_CardinalityType
<1> QED
    BY <1>7, <1>8

-----------------------------------------------------------------------------
\* What RecordBuild leaves of a table: some of its rows, and of the builder's own of the path no more than its bound.
LEMMA PrunedIsBounded ==
    ASSUME NEW set, set \subseteq Row, IsFiniteSet(set), Timed(set), NEW p, NEW m,
           MaxBuildsPerBuilder \in Nat
    PROVE  /\ Builds!Pruned(set, p, m) \subseteq set
           /\ Cardinality(RecordsOf(Builds!Pruned(set, p, m), p, m)) <= MaxBuildsPerBuilder
<1> DEFINE own == RecordsOf(set, p, m)
           new == Builds!Newest(own, MaxBuildsPerBuilder)
           mine == (set \ own) \union new
           ofPath == {r \in mine : r.image.path = p}
           newest == Builds!Newest(ofPath, MaxBuildsPerPath)
<1>1. /\ own \subseteq set /\ IsFiniteSet(own) /\ Timed(own)
      /\ \A r \in own : r.at \in Nat
    BY FS_Subset DEF RecordsOf, Timed, Row
<1>2. new \subseteq own /\ Cardinality(new) <= MaxBuildsPerBuilder
    BY <1>1, NewestIsBounded
<1>3. newest \subseteq ofPath
    BY DEF Builds!Newest
<1>4. Builds!Pruned(set, p, m) = (mine \ ofPath) \union newest
    BY DEF Builds!Pruned, RecordsOf
<1>5. RecordsOf(Builds!Pruned(set, p, m), p, m) \subseteq new
    BY <1>3, <1>4 DEF RecordsOf
<1>6. IsFiniteSet(new)
    BY <1>1, <1>2, FS_Subset
<1>7. /\ Cardinality(RecordsOf(Builds!Pruned(set, p, m), p, m)) <= Cardinality(new)
      /\ Cardinality(RecordsOf(Builds!Pruned(set, p, m), p, m)) \in Nat /\ Cardinality(new) \in Nat
    BY <1>5, <1>6, FS_Subset, FS_CardinalityType
<1>8. Builds!Pruned(set, p, m) \subseteq set
    BY <1>1, <1>2, <1>3, <1>4
<1> QED
    BY <1>2, <1>7, <1>8

\* The pruning leaves everybody's rows but the builder's own.
LEMMA OthersAreNotPruned ==
    ASSUME NEW set, set \subseteq Row, IsFiniteSet(set), Timed(set), NEW p, NEW m \in Builders,
           IsFiniteSet(Builders), PathBoundSuffices,
           \A k \in Builders : k # m => Cardinality(RecordsOf(set, p, k)) <= MaxBuildsPerBuilder
    PROVE  \A r \in set : r.builder # m => r \in Builds!Pruned(set, p, m)
<1> DEFINE own == RecordsOf(set, p, m)
           new == Builds!Newest(own, MaxBuildsPerBuilder)
           mine == (set \ own) \union new
           ofPath == {r \in mine : r.image.path = p}
<1>0. MaxBuildsPerBuilder \in Nat /\ MaxBuildsPerPath \in Nat
    BY DEF PathBoundSuffices
<1>1. /\ own \subseteq set /\ IsFiniteSet(own) /\ Timed(own)
      /\ \A r \in own : r.at \in Nat
    BY FS_Subset DEF RecordsOf, Timed, Row
<1>2. new \subseteq own /\ Cardinality(new) <= MaxBuildsPerBuilder
    BY <1>0, <1>1, NewestIsBounded
<1> HIDE DEF new
<1>3. ofPath \subseteq set
    BY <1>1, <1>2
<1>4. IsFiniteSet(ofPath) /\ Timed(ofPath) /\ \A r \in ofPath : r.at \in Nat /\ r.builder \in Builders
    BY <1>3, FS_Subset DEF Timed, Row
<1>5. ASSUME NEW k \in Builders PROVE Cardinality({r \in ofPath : r.builder = k}) <= MaxBuildsPerBuilder
    <2> DEFINE ofOne == {r \in ofPath : r.builder = k}
    <2>1. CASE k = m
        <3>1. ofOne \subseteq new
            BY <2>1 DEF RecordsOf
        <3>2. IsFiniteSet(new)
            BY <1>1, <1>2, FS_Subset
        <3>3. Cardinality(ofOne) <= Cardinality(new) /\ Cardinality(ofOne) \in Nat /\ Cardinality(new) \in Nat
            BY <3>1, <3>2, FS_Subset, FS_CardinalityType
        <3> QED
            BY <1>0, <1>2, <3>3
    <2>2. CASE k # m
        <3>1. ofOne \subseteq RecordsOf(set, p, k) /\ RecordsOf(set, p, k) \subseteq set
            BY <1>3 DEF RecordsOf
        <3>2. IsFiniteSet(RecordsOf(set, p, k))
            BY <3>1, FS_Subset
        <3>3. Cardinality(ofOne) <= Cardinality(RecordsOf(set, p, k)) /\ Cardinality(ofOne) \in Nat
              /\ Cardinality(RecordsOf(set, p, k)) \in Nat
            BY <3>1, <3>2, FS_Subset, FS_CardinalityType
        <3> QED
            BY <1>0, <2>2, <3>3
    <2> QED
        BY <2>1, <2>2
<1>6. Cardinality(ofPath) <= MaxBuildsPerPath
    <2> HIDE DEF ofPath
    <2>1. Cardinality(ofPath) <= MaxBuildsPerBuilder * Cardinality(Builders)
        BY <1>0, <1>4, <1>5, BoundedByBuilders
    <2>2. MaxBuildsPerBuilder * Cardinality(Builders) <= MaxBuildsPerPath
        BY DEF PathBoundSuffices
    <2>3. Cardinality(ofPath) \in Nat /\ Cardinality(Builders) \in Nat
        BY <1>4, FS_CardinalityType
    <2>4. MaxBuildsPerBuilder * Cardinality(Builders) \in Nat
        BY <1>0, <2>3
    <2> QED
        BY <1>0, <2>1, <2>2, <2>3, <2>4
<1>7. Builds!Newest(ofPath, MaxBuildsPerPath) = ofPath
    BY <1>0, <1>4, <1>6, NewestIsAll
<1>8. Builds!Pruned(set, p, m) = (mine \ ofPath) \union Builds!Newest(ofPath, MaxBuildsPerPath)
    BY DEF Builds!Pruned, RecordsOf, new
<1>9. \A r \in set : r.builder # m => r \in mine
    BY DEF RecordsOf
<1> QED
    BY <1>7, <1>8, <1>9

\* The insert before the pruning: nobody's row but the builder's own goes, and the one that comes is the builder's.
LEMMA UpsertFacts ==
    ASSUME NEW d \in Images, NEW m \in Builders, ImagesTyped, RowsAreBounded
    PROVE  /\ Builds!Upsert(d, m) \subseteq Row /\ IsFiniteSet(Builds!Upsert(d, m)) /\ Timed(Builds!Upsert(d, m))
           /\ \A r \in Builds!Upsert(d, m) : /\ r.at <= built + 1
                                             /\ r \in records \/ (r.builder = m /\ r.image = d)
           /\ \A r \in records : r.builder # m => r \in Builds!Upsert(d, m)
<1> DEFINE same == {r \in records : r.image = d}
           n == [image |-> d, builder |-> m, at |-> built + 1]
<1>1. n \in Row /\ n.at = built + 1 /\ n.builder = m /\ n.image = d /\ built \in Nat
    BY DEF Row, ImagesTyped
<1> HIDE DEF n
<1>2. CASE \E r \in same : r.builder # m
    <2>1. Builds!Upsert(d, m) = records
        BY <1>2 DEF Builds!Upsert
    <2> QED
        BY <1>1, <2>1 DEF ImagesTyped, RowsAreBounded, Row
<1>3. CASE ~ \E r \in same : r.builder # m
    <2>1. Builds!Upsert(d, m) = (records \ same) \union {n}
        BY <1>3 DEF Builds!Upsert, n
    <2>2. IsFiniteSet(records \ same)
        BY FS_Subset DEF RowsAreBounded
    <2>3. IsFiniteSet((records \ same) \union {n})
        BY <2>2, FS_AddElement
    <2>4. \A r \in records : r.at \in Nat /\ r.at # n.at /\ r.at <= built + 1
        BY <1>1 DEF ImagesTyped, RowsAreBounded, Row
    <2>5. Timed((records \ same) \union {n})
        BY <2>4 DEF RowsAreBounded, Timed
    <2> QED
        BY <1>1, <1>3, <2>1, <2>3, <2>4, <2>5 DEF ImagesTyped
<1> QED
    BY <1>2, <1>3

\* Rows that are fewer are as bounded.
LEMMA RowsShrink ==
    ASSUME RowsAreBounded, ImagesTyped, MaxBuildsPerBuilder \in Nat, records' \subseteq records, UNCHANGED built
    PROVE  RowsAreBounded' /\ records' \subseteq Row /\ built' \in Nat
<1>1. IsFiniteSet(records') /\ Timed(records')
    BY FS_Subset DEF RowsAreBounded, Timed
<1>2. ASSUME NEW m \in Builders, NEW d \in Images
      PROVE  Cardinality(RecordsOf(records', d.path, m)) <= MaxBuildsPerBuilder
    <2> DEFINE now == RecordsOf(records', d.path, m)
               was == RecordsOf(records, d.path, m)
    <2>1. now \subseteq was /\ was \subseteq records
        BY DEF RecordsOf
    <2>2. IsFiniteSet(was)
        BY <2>1, FS_Subset DEF RowsAreBounded
    <2>3. Cardinality(was) <= MaxBuildsPerBuilder
        BY DEF RowsAreBounded
    <2> HIDE DEF now, was
    <2>4. Cardinality(now) <= Cardinality(was) /\ Cardinality(now) \in Nat /\ Cardinality(was) \in Nat
        BY <2>1, <2>2, FS_Subset, FS_CardinalityType
    <2>5. Cardinality(now) <= MaxBuildsPerBuilder
        BY <2>3, <2>4
    <2> QED
        BY <2>5 DEF now
<1> QED
    BY <1>1, <1>2 DEF RowsAreBounded, ImagesTyped

\* A row that is written leaves the table bounded.
LEMMA RowsRecorded ==
    ASSUME SessionsOfMembers, RowsAreBounded, ImagesTyped, MaxBuildsPerBuilder \in Nat,
           NEW d \in Images, NEW m \in Builders, built' = built + 1,
           records' = Builds!Pruned(Builds!Upsert(d, m), d.path, m)
    PROVE  RowsAreBounded' /\ records' \subseteq Row /\ built' \in Nat
<1> DEFINE all == Builds!Upsert(d, m)
<1>1. /\ all \subseteq Row /\ IsFiniteSet(all) /\ Timed(all)
      /\ \A r \in all : r.at <= built + 1 /\ (r \in records \/ (r.builder = m /\ r.image = d))
    BY UpsertFacts
<1> HIDE DEF all
<1>2. records' \subseteq all /\ Cardinality(RecordsOf(records', d.path, m)) <= MaxBuildsPerBuilder
    BY <1>1, PrunedIsBounded DEF all
<1>3. IsFiniteSet(records') /\ Timed(records')
    BY <1>1, <1>2, FS_Subset DEF Timed
<1>4. ASSUME NEW k \in Builders, NEW e \in Images, k # m \/ e.path # d.path
      PROVE  Cardinality(RecordsOf(records', e.path, k)) <= MaxBuildsPerBuilder
    <2> DEFINE now == RecordsOf(records', e.path, k)
               was == RecordsOf(records, e.path, k)
    <2>1. now \subseteq was
        BY <1>1, <1>2, <1>4 DEF RecordsOf
    <2>2. was \subseteq records
        BY DEF RecordsOf
    <2>3. IsFiniteSet(was)
        BY <2>2, FS_Subset DEF RowsAreBounded
    <2>4. Cardinality(was) <= MaxBuildsPerBuilder
        BY DEF RowsAreBounded
    <2> HIDE DEF now, was
    <2>5. Cardinality(now) <= Cardinality(was) /\ Cardinality(now) \in Nat /\ Cardinality(was) \in Nat
        BY <2>1, <2>3, FS_Subset, FS_CardinalityType
    <2>6. Cardinality(now) <= MaxBuildsPerBuilder
        BY <2>4, <2>5
    <2> QED
        BY <2>6 DEF now
<1>5. ASSUME NEW k \in Builders, NEW e \in Images
      PROVE  Cardinality(RecordsOf(records', e.path, k)) <= MaxBuildsPerBuilder
    BY <1>2, <1>4
<1>6. built' \in Nat /\ \A r \in records' : r.at <= built'
    BY <1>1, <1>2 DEF ImagesTyped
<1> QED
    BY <1>1, <1>2, <1>3, <1>5, <1>6 DEF RowsAreBounded

\* Every step keeps the rows bounded.
LEMMA RowsStep ==
    ASSUME SessionsOfMembers, MaxBuildsPerBuilder \in Nat, ImagesInv, [Builds!Next]_Builds!vars
    PROVE  RowsAreBounded' /\ records' \subseteq Row /\ built' \in Nat
<1>1. CASE records' \subseteq records /\ UNCHANGED built
    BY <1>1, RowsShrink DEF ImagesInv
<1>2. ASSUME NEW s \in Sessions, Builds!Record(s), ~(records' \subseteq records /\ UNCHANGED built)
      PROVE  RowsAreBounded' /\ records' \subseteq Row /\ built' \in Nat
    <2>1. using[s].pc = "record" /\ using[s].image \in Images /\ UserOf[s] \in Builders
        BY <1>2 DEF Builds!Record, ImagesInv, ImagesTyped, SessionsOfMembers
    <2>2. /\ built' = built + 1
          /\ records' = Builds!Pruned(Builds!Upsert(using[s].image, UserOf[s]), using[s].image.path, UserOf[s])
        BY SMTT(60), <1>2 DEF Builds!Record
    <2> QED
        BY <2>1, <2>2, RowsRecorded DEF ImagesInv
<1>3. \/ records' \subseteq records /\ UNCHANGED built
      \/ \E s \in Sessions : Builds!Record(s)
    BY DEF Builds!Next, Builds!vars, Builds!Build, Builds!Run, Builds!Make, Builds!Fetch, Builds!Look,
           Builds!Copy, Builds!Arrive, Builds!Refuse, Builds!Leave, Builds!RemoveImage
<1> QED
    BY <1>1, <1>2, <1>3

\* The invariant of the images.
LEMMA ImagesInvariant ==
    ASSUME SessionsOfMembers, MaxBuildsPerBuilder \in Nat
    PROVE  Builds!Spec => []ImagesInv
<1>1. Builds!Init => ImagesInv
    BY ImagesInit
<1>2. ImagesInv /\ [Builds!Next]_Builds!vars => ImagesInv'
    <2> SUFFICES ASSUME ImagesInv, [Builds!Next]_Builds!vars PROVE ImagesInv'
        OBVIOUS
    <2>1. (using' \in [Sessions -> CallRec] /\ \A s \in Sessions : using'[s].pc = "record" => using'[s].image \in Images)
          /\ ClaimsAreTheCopies'
        BY ImagesStep
    <2>2. RowsAreBounded' /\ records' \subseteq Row /\ built' \in Nat
        BY RowsStep
    <2> QED
        BY <2>1, <2>2 DEF ImagesInv, ImagesTyped
<1> QED
    BY <1>1, <1>2, PTL DEF Builds!Spec

\* The claims and the slots are those of the copies under way, for any sessions, members and images
\* (internal/daemon/images.go fetchLock).
THEOREM FetchSlots ==
    ASSUME SessionsOfMembers, MaxBuildsPerBuilder \in Nat
    PROVE  Builds!Spec => []Builds!SlotsAreTheCopies
<1>1. ImagesInv => Builds!SlotsAreTheCopies
    BY BuildsCardinality DEF Builds!SlotsAreTheCopies, ImagesInv, ClaimsAreTheCopies, Copying, CopyingOf, UnderWay, Claim
<1> QED
    BY <1>1, ImagesInvariant, PTL

\* What RecordsAreTheBuilders says of one step.
OthersStay ==
    \A r \in records :
        \/ \E s \in records' : s.image = r.image /\ s.builder = r.builder
        \/ r.builder \in members \ members'
        \/ \E s \in Sessions : UserOf[s] = r.builder /\ Builds!Record(s)

\* A record of a build is taken from its builder by nobody, for any members as long as the bound of a path is what
\* the bounds of all of them come to; kitbashd keeps 4096 of a path and 64 of a builder, so up to 64 members.
THEOREM RecordsStayTheirs ==
    ASSUME SessionsOfMembers, IsFiniteSet(Builders), PathBoundSuffices
    PROVE  Builds!Spec => RecordsAreTheBuilders
<1>0. MaxBuildsPerBuilder \in Nat
    BY DEF PathBoundSuffices
<1>1. ImagesInv /\ [Builds!Next]_Builds!vars => [OthersStay]_Builds!vars
    <2> SUFFICES ASSUME ImagesInv, Builds!Next, NEW r \in records
                 PROVE  \/ \E s \in records' : s.image = r.image /\ s.builder = r.builder
                        \/ r.builder \in members \ members'
                        \/ \E s \in Sessions : UserOf[s] = r.builder /\ Builds!Record(s)
        BY DEF OthersStay
    <2>1. ASSUME NEW s \in Sessions, Builds!Record(s), UserOf[s] # r.builder, records' # records
          PROVE  r \in records'
        <3> DEFINE d == using[s].image
                   m == UserOf[s]
        <3>1. d \in Images /\ m \in Builders
            BY <2>1 DEF Builds!Record, ImagesInv, ImagesTyped, SessionsOfMembers
        <3>2. records' = Builds!Pruned(Builds!Upsert(d, m), d.path, m)
            BY <2>1 DEF Builds!Record
        <3> HIDE DEF d, m
        <3> DEFINE all == Builds!Upsert(d, m)
        <3>3. /\ all \subseteq Row /\ IsFiniteSet(all) /\ Timed(all) /\ r \in all
              /\ \A q \in all : q \in records \/ (q.builder = m /\ q.image = d)
            BY <2>1, <3>1, UpsertFacts DEF ImagesInv, m
        <3> HIDE DEF all
        <3>4. ASSUME NEW k \in Builders, k # m PROVE Cardinality(RecordsOf(all, d.path, k)) <= MaxBuildsPerBuilder
            <4> DEFINE now == RecordsOf(all, d.path, k)
                       was == RecordsOf(records, d.path, k)
            <4>1. now \subseteq was /\ was \subseteq records
                BY <3>3, <3>4 DEF RecordsOf
            <4>2. IsFiniteSet(was)
                BY <4>1, FS_Subset DEF ImagesInv, RowsAreBounded
            <4>3. Cardinality(was) <= MaxBuildsPerBuilder
                BY <3>1 DEF ImagesInv, RowsAreBounded
            <4> HIDE DEF now, was
            <4>4. Cardinality(now) <= Cardinality(was) /\ Cardinality(now) \in Nat /\ Cardinality(was) \in Nat
                BY <4>1, <4>2, FS_Subset, FS_CardinalityType
            <4>5. Cardinality(now) <= MaxBuildsPerBuilder
                BY <1>0, <4>3, <4>4
            <4> QED
                BY <4>5 DEF now
        <3>5. r.builder # m
            BY <2>1 DEF m
        <3> QED
            BY <3>1, <3>2, <3>3, <3>4, <3>5, OthersAreNotPruned DEF all
    <2>2. ASSUME NEW m \in Builders, Builds!Leave(m) PROVE r \in records' \/ r.builder \in members \ members'
        BY SMTT(60), <2>2 DEF Builds!Leave
    <2>3. \/ \E s \in Sessions : Builds!Record(s)
          \/ \E m \in Builders : Builds!Leave(m)
          \/ UNCHANGED records
        BY DEF Builds!Next, Builds!Build, Builds!Run, Builds!Make, Builds!Fetch, Builds!Look,
               Builds!Copy, Builds!Arrive, Builds!Refuse, Builds!RemoveImage
    <2> QED
        BY <2>1, <2>2, <2>3
<1>2. Builds!Spec => [][OthersStay]_Builds!vars
    BY <1>0, <1>1, ImagesInvariant, PTL DEF Builds!Spec
<1>3. RecordsAreTheBuilders <=> [][OthersStay]_Builds!vars
    BY DEF RecordsAreTheBuilders, Builds!RecordsAreTheBuilders, OthersStay
<1> QED
    BY <1>2, <1>3

-----------------------------------------------------------------------------
\* Where a call is in adding a key.
KeyCalls == [at : {"home", "ssh", "open", "check", "read", "truncate", "write"}, key : Keys,
             file : UserKeys!Inodes \union {"none"}, lines : SUBSET (Keys \union Theirs)]
\* The file the name stands for, what is in each and the calls.
KeysTyped ==
    /\ name \in UserKeys!Inodes \union {"none"}
    /\ content \in [UserKeys!Inodes -> SUBSET (Keys \union Theirs)]
    /\ adding \in [Adders -> {UserKeys!Idle} \union KeyCalls]
\* What a call reads or writes is the member's own file, and the file of somebody else is as it was.
OwnIsWritten == \A r \in Adders : adding[r].at \in {"read", "truncate", "write"} => adding[r].file = "own"
KeysInv == KeysTyped /\ OwnIsWritten /\ UserKeys!OthersKeepTheirFiles

\* At first no call is under way.
LEMMA KeysInit == UserKeys!Init => KeysInv
    BY DEF UserKeys!Init, KeysInv, KeysTyped, OwnIsWritten, UserKeys!OthersKeepTheirFiles, UserKeys!Idle, UserKeys!Inodes

\* Neither a step of a call nor a move of the member makes a call write what is not the own file.
LEMMA KeysStep == KeysInv /\ [UserKeys!Next]_UserKeys!vars => KeysInv'
<1> SUFFICES ASSUME KeysInv, [UserKeys!Next]_UserKeys!vars PROVE KeysInv'
    OBVIOUS
<1> USE DEF KeysInv, KeysTyped, OwnIsWritten, UserKeys!OthersKeepTheirFiles, UserKeys!Inodes, UserKeys!Idle,
            UserKeys!At, UserKeys!Goes, UserKeys!Ends, UserKeys!Unmoved
<1>0. \A r \in Adders, n \in {UserKeys!Idle} \union KeyCalls :
          /\ adding' = [adding EXCEPT ![r] = n]
          /\ n.at \in {"read", "truncate", "write"} => n.file = "own"
          => /\ adding' \in [Adders -> {UserKeys!Idle} \union KeyCalls]
             /\ OwnIsWritten'
    OBVIOUS
<1>1. ASSUME NEW r \in Adders, NEW k \in UserKeys!ValidKeys, UserKeys!AddKey(r, k)
      PROVE  KeysInv'
    <2> DEFINE n == [at |-> "home", key |-> k, file |-> "none", lines |-> {}]
    <2>1. n \in KeyCalls /\ n.at = "home"
        BY DEF KeyCalls, UserKeys!ValidKeys
    <2>2. adding' = [adding EXCEPT ![r] = n] /\ UNCHANGED <<name, content>>
        BY <1>1 DEF UserKeys!AddKey
    <2> HIDE DEF n
    <2> QED
        BY <1>0, <2>1, <2>2
<1>2. ASSUME NEW r \in Adders, adding[r] \in KeyCalls,
             \/ UserKeys!CheckHome(r) \/ UserKeys!SshDir(r) \/ UserKeys!OpenKeys(r) \/ UserKeys!CheckOwned(r)
             \/ UserKeys!ReadKeys(r) \/ UserKeys!Truncate(r) \/ UserKeys!WriteKeys(r)
      PROVE  KeysInv'
    <2> DEFINE goes(to) == [adding[r] EXCEPT !.at = to]
    <2>1. \A to \in {"ssh", "open", "read", "write"} :
              goes(to) \in KeyCalls /\ goes(to).at = to /\ goes(to).file = adding[r].file
        BY <1>2 DEF KeyCalls
    <2>2. CASE UserKeys!CheckHome(r) \/ UserKeys!SshDir(r)
        <3>1. adding' \in {[adding EXCEPT ![r] = n] : n \in {goes("ssh"), goes("open"), UserKeys!Idle}}
            BY <2>2 DEF UserKeys!CheckHome, UserKeys!SshDir
        <3>2. UNCHANGED <<name, content>>
            BY <2>2 DEF UserKeys!CheckHome, UserKeys!SshDir
        <3> HIDE DEF goes
        <3> QED
            BY <1>0, <2>1, <3>1, <3>2
    <2>3. CASE UserKeys!OpenKeys(r)
        <3> DEFINE fresh == [adding[r] EXCEPT !.at = "read", !.file = "own"]
                   found == [adding[r] EXCEPT !.at = "check", !.file = name]
        <3>1. /\ fresh \in KeyCalls /\ fresh.file = "own"
              /\ found \in KeyCalls /\ found.at = "check"
            BY <1>2 DEF KeyCalls
        <3>2. \/ adding' = [adding EXCEPT ![r] = fresh] /\ name' = "own" /\ content' = [content EXCEPT !["own"] = {}]
              \/ adding' = [adding EXCEPT ![r] = found] /\ UNCHANGED <<name, content>>
            BY <2>3 DEF UserKeys!OpenKeys
        <3> HIDE DEF fresh, found
        <3> QED
            BY <1>0, <3>1, <3>2
    <2>4. CASE UserKeys!CheckOwned(r)
        <3>1. \/ adding' = [adding EXCEPT ![r] = goes("read")] /\ adding[r].file = "own"
              \/ adding' = [adding EXCEPT ![r] = UserKeys!Idle]
            BY <2>4 DEF UserKeys!CheckOwned, UserKeys!OwnedFile
        <3>2. UNCHANGED <<name, content>>
            BY <2>4 DEF UserKeys!CheckOwned
        <3> HIDE DEF goes
        <3> QED
            BY <1>0, <2>1, <3>1, <3>2
    <2>5. CASE UserKeys!ReadKeys(r)
        <3> DEFINE read == [adding[r] EXCEPT !.at = "truncate", !.lines = content[adding[r].file]]
        <3>1. read \in KeyCalls /\ read.file = "own"
            BY <1>2, <2>5 DEF KeyCalls, UserKeys!ReadKeys
        <3>2. \/ adding' = [adding EXCEPT ![r] = read]
              \/ adding' = [adding EXCEPT ![r] = UserKeys!Idle]
            BY <2>5 DEF UserKeys!ReadKeys
        <3>3. UNCHANGED <<name, content>>
            BY <2>5 DEF UserKeys!ReadKeys
        <3> HIDE DEF read
        <3> QED
            BY <1>0, <3>1, <3>2, <3>3
    <2>6. CASE UserKeys!Truncate(r)
        <3>1. adding' = [adding EXCEPT ![r] = goes("write")] /\ adding[r].file = "own"
            BY <2>6 DEF UserKeys!Truncate
        <3>2. UNCHANGED name /\ content' = [content EXCEPT !["own"] = {}]
            BY <2>6, <3>1 DEF UserKeys!Truncate
        <3> HIDE DEF goes
        <3> QED
            BY <1>0, <2>1, <3>1, <3>2
    <2>7. CASE UserKeys!WriteKeys(r)
        <3>1. adding' = [adding EXCEPT ![r] = UserKeys!Idle] /\ adding[r].file = "own"
            BY <2>7 DEF UserKeys!WriteKeys
        <3>2. UNCHANGED name /\ content' = [content EXCEPT !["own"] = adding[r].lines \union {adding[r].key}]
            BY <2>7, <3>1 DEF UserKeys!WriteKeys
        <3>3. adding[r].lines \union {adding[r].key} \in SUBSET (Keys \union Theirs)
            BY <1>2 DEF KeyCalls
        <3> QED
            BY <1>0, <3>1, <3>2, <3>3
    <2> QED
        BY <1>2, <2>2, <2>3, <2>4, <2>5, <2>6, <2>7
<1>3. CASE UserKeys!MemberMoves
    BY <1>3 DEF UserKeys!MemberMoves
<1>4. CASE UserKeys!RemoveAccount
    BY <1>4 DEF UserKeys!RemoveAccount
<1>5. CASE UserKeys!RemoveHome
    BY <1>5 DEF UserKeys!RemoveHome
<1>6. CASE UNCHANGED UserKeys!vars
    BY <1>6 DEF UserKeys!vars
<1>7. ASSUME NEW r \in Adders,
             \/ UserKeys!CheckHome(r) \/ UserKeys!SshDir(r) \/ UserKeys!OpenKeys(r) \/ UserKeys!CheckOwned(r)
             \/ UserKeys!ReadKeys(r) \/ UserKeys!Truncate(r) \/ UserKeys!WriteKeys(r)
      PROVE  adding[r] \in KeyCalls
    BY <1>7 DEF UserKeys!CheckHome, UserKeys!SshDir, UserKeys!OpenKeys, UserKeys!CheckOwned,
                UserKeys!ReadKeys, UserKeys!Truncate, UserKeys!WriteKeys
<1> QED
    BY <1>1, <1>2, <1>3, <1>4, <1>5, <1>6, <1>7 DEF UserKeys!Next

\* A file of somebody else is never written, whatever the member makes of the names between the check and the write
\* (internal/sysusers/host.go keys).
LEMMA KeysOfOthers == UserKeys!Spec => []UserKeys!OthersKeepTheirFiles
<1>1. KeysInv => UserKeys!OthersKeepTheirFiles
    BY DEF KeysInv
<1> QED
    BY <1>1, KeysInit, KeysStep, PTL DEF UserKeys!Spec

-----------------------------------------------------------------------------
\* What Names assumes of its constants, and that there are finitely many ids.
NamesSound ==
    /\ IsFiniteSet(Ids) /\ MaxProcesses \in Nat /\ MaxScheduled \in Nat
    /\ NoName \notin Hosts /\ Under \subseteq Hosts /\ "nobody" \notin Ids
    /\ Kinds \subseteq [host : Hosts \union {NoName}, web : BOOLEAN, job : BOOLEAN]
    /\ \A s \in Registrars : MemberOf(s) # "nobody"

\* What a row and a call may say: no host under the domain is declared.
KindsSaid == {k \in Kinds : k.host \notin Under} \union {Served!NoKind}
RowsSaid  == [owner : Served!Members \union {"nobody"}, kind : KindsSaid, since : Nat]
CallsSaid == [at : {"idle", "prove", "write", "track", "verb", "route", "untrack"},
              id : Ids \union {"nobody"}, kind : KindsSaid]
\* Where a Process is served: under a name that leads to it, and no other.
LeadThere(map) ==
    \A n, m \in Hosts :
       map[n] # "nobody" =>
          /\ n \in Under => \E s \in Registrars : n = DefaultHost(map[n], MemberOf(s))
          /\ map[n] = map[m] => n = m
RowTable(r) == r \in [Ids -> RowsSaid] /\ \A i \in Ids : r[i].owner = "nobody" => r[i] = Served!NoRow
Routes(map)   == map \in [Hosts -> Ids \union {"nobody"}] /\ LeadThere(map)
LoadsSaid == [at : {"read", "prove", "replace", "done"}, list : [Ids -> RowsSaid],
              routes : [Hosts -> Ids \union {"nobody"}]]
RowsInv ==
    /\ RowTable(registered) /\ RowTable(loading.list) /\ loading \in LoadsSaid
    /\ writes \in Nat /\ \A i \in Ids : registered[i].since <= writes /\ loading.list[i].since <= writes
    /\ Served!QuotasHold
RoutesInv == Routes(routes) /\ Routes(loading.routes)
CallsInv ==
    /\ serving \in [Registrars -> CallsSaid]
    /\ \A s \in Registrars : serving[s].at # "idle" => serving[s].id \in Ids
NamesInv == RowsInv /\ RoutesInv /\ CallsInv

LEMMA ServedCardinality == \A S : Served!Cardinality(S) = Cardinality(S)
  BY DEF Served!Cardinality, Cardinality

\* Of a nonempty set of numbers one is the least.
Less == {ss \in Nat \X Nat : ss[1] < ss[2]}
LEMMA LeastNumber == ASSUME NEW T \in SUBSET Nat, T # {} PROVE \E x \in T : \A y \in T : x <= y
<1>1. IsWellFoundedOn(Less, Nat)
    BY NatLessThanWellFounded DEF OpToRel, Less
<1>2. \A a, b \in Nat : <<b, a>> \notin Less => a <= b
    <2>1. \A a, b \in Nat : b < a => <<b, a>> \in Less
        BY DEF Less
    <2> QED
        BY <2>1
<1>3. PICK x \in T : \A y \in T : ~(<<y, x>> \in Less)
    BY <1>1, WFMin
<1> QED
    BY <1>2, <1>3

\* What is nobody's yet says nothing.
LEMMA NothingSaid == ASSUME NamesSound PROVE
    /\ Served!NoKind \in KindsSaid /\ Served!NoRow \in RowsSaid /\ Served!Idle \in CallsSaid
    /\ Served!NoRow.owner = "nobody" /\ Served!NoRow.since = 0
    /\ Served!Idle.at = "idle"
<1>1. Served!NoKind \in KindsSaid
    BY DEF KindsSaid
<1>2. /\ Served!NoRow = [owner |-> "nobody", kind |-> Served!NoKind, since |-> 0]
      /\ Served!Idle = [at |-> "idle", id |-> "nobody", kind |-> Served!NoKind]
    BY DEF Served!NoRow, Served!Idle, Served!Nobody
<1> DEFINE k == Served!NoKind
<1>3. k = Served!NoKind
    OBVIOUS
<1> HIDE DEF k
<1>4. [owner |-> "nobody", kind |-> k, since |-> 0] \in RowsSaid
    BY <1>1, <1>3 DEF RowsSaid
<1>5. [at |-> "idle", id |-> "nobody", kind |-> k] \in CallsSaid
    BY <1>1, <1>3 DEF CallsSaid
<1> QED
    BY <1>1, <1>2, <1>3, <1>4, <1>5

\* A row or a call declares nothing under the domain, and whether it is a job is true or false.
LEMMA KindsFacts == ASSUME NamesSound, NEW k \in KindsSaid PROVE
    k.host \notin Under /\ k.job \in BOOLEAN /\ k.web \in BOOLEAN
<1>1. CASE k = Served!NoKind
    BY <1>1 DEF NamesSound, Served!NoKind
<1>2. CASE k \in Kinds
    BY <1>2 DEF NamesSound, KindsSaid, Served!NoKind
<1> QED
    BY <1>1, <1>2 DEF KindsSaid

\* The name of a Process, if it is under the domain, is the one it has of its owner.
LEMMA HostsLeadThere ==
    ASSUME NamesSound, NEW i \in Ids, NEW s \in Registrars, NEW k \in KindsSaid,
           Served!HostFor(i, MemberOf(s), k) \in Under
    PROVE  \E z \in Registrars : Served!HostFor(i, MemberOf(s), k) = DefaultHost(i, MemberOf(z))
<1>1. k.host \notin Under /\ NoName \notin Under
    BY KindsFacts DEF NamesSound
<1> QED
    BY <1>1 DEF Served!HostFor

\* Whatever is tracked, names lead where they should if the one tracked does.
LEMMA TrackedLeadsThere ==
    ASSUME Routes(routes), NEW i \in Ids, NEW n, "nobody" \notin Ids,
           n \in Under => \E s \in Registrars : n = DefaultHost(i, MemberOf(s))
    PROVE  Routes(Served!Tracked(i, n))
<1> DEFINE map == Served!Tracked(i, n)
<1>1. map \in [Hosts -> Ids \union {"nobody"}]
    BY DEF Served!Tracked, Served!Nobody, Routes
<1>2. \A m \in Hosts : map[m] = IF m = n THEN i ELSE IF routes[m] = i THEN "nobody" ELSE routes[m]
    BY DEF Served!Tracked, Served!Nobody
<1> HIDE DEF map
<1>3. LeadThere(map)
    BY <1>2 DEF Routes, LeadThere
<1> QED
    BY <1>1, <1>3 DEF Routes, map

\* At first nothing is registered or served.
LEMMA NamesInit == ASSUME NamesSound PROVE Served!Init => NamesInv
<1> SUFFICES ASSUME Served!Init PROVE NamesInv
    OBVIOUS
<1>1. /\ registered = [i \in Ids |-> Served!NoRow] /\ writes = 0 /\ routes = [n \in Hosts |-> "nobody"]
      /\ serving = [s \in Registrars |-> Served!Idle]
      /\ loading = [at |-> "read", list |-> registered, routes |-> routes]
    BY DEF Served!Init, Served!Empty, Served!Nobody
<1>2. RowTable(registered)
    BY <1>1, NothingSaid DEF RowTable
<1>3. Routes(routes)
    BY <1>1 DEF Routes, LeadThere
<1>4. Served!QuotasHold
    <2>1. \A m \in Served!Members : Served!Of(m) = {} /\ Served!JobsOf(m) = {}
        BY <1>1 DEF Served!Of, Served!JobsOf, Served!Registered
    <2> QED
        BY <2>1, ServedCardinality, FS_EmptySet DEF Served!QuotasHold, NamesSound
<1>5. \A i \in Ids : registered[i].since <= writes
    BY <1>1, NothingSaid
<1>6. loading \in LoadsSaid /\ loading.list = registered /\ loading.routes = routes
    <2>1. registered \in [Ids -> RowsSaid] /\ routes \in [Hosts -> Ids \union {"nobody"}]
        BY <1>2, <1>3 DEF RowTable, Routes
    <2>2. loading = [at |-> "read", list |-> registered, routes |-> routes]
        BY <1>1
    <2> QED
        BY <2>1, <2>2 DEF LoadsSaid
<1>7. serving \in [Registrars -> CallsSaid] /\ \A s \in Registrars : serving[s].at = "idle"
    BY <1>1, NothingSaid
<1> QED
    BY <1>1, <1>2, <1>3, <1>4, <1>5, <1>6, <1>7 DEF NamesInv, RowsInv, RoutesInv, CallsInv

\* The quotas hold after what takes nothing on.
LEMMA QuotasOfFewer ==
    ASSUME NamesSound, Served!QuotasHold,
           \A m \in Served!Members : Served!Of(m)' \subseteq Served!Of(m) /\ Served!JobsOf(m)' \subseteq Served!JobsOf(m)
    PROVE  Served!QuotasHold'
<1> SUFFICES ASSUME NEW m \in Served!Members
             PROVE  Cardinality(Served!Of(m)') <= MaxProcesses /\ Cardinality(Served!JobsOf(m)') <= MaxScheduled
    BY ServedCardinality DEF Served!QuotasHold, Served!Members
<1>1. IsFiniteSet(Served!Of(m)) /\ IsFiniteSet(Served!JobsOf(m))
    BY FS_Subset DEF NamesSound, Served!Of, Served!JobsOf
<1>2. Cardinality(Served!Of(m)) <= MaxProcesses /\ Cardinality(Served!JobsOf(m)) <= MaxScheduled
    BY ServedCardinality DEF Served!QuotasHold
<1>3. /\ Cardinality(Served!Of(m)') <= Cardinality(Served!Of(m)) /\ Cardinality(Served!Of(m)') \in Nat
      /\ Cardinality(Served!JobsOf(m)') <= Cardinality(Served!JobsOf(m)) /\ Cardinality(Served!JobsOf(m)') \in Nat
    BY <1>1, FS_Subset, FS_CardinalityType
<1>4. Cardinality(Served!Of(m)) \in Nat /\ Cardinality(Served!JobsOf(m)) \in Nat
    BY <1>1, FS_CardinalityType
<1> QED
    BY <1>2, <1>3, <1>4 DEF NamesSound

\* One more element is at most one more in number.
LEMMA AddOne ==
    ASSUME NEW S, NEW x, IsFiniteSet(S)
    PROVE  /\ IsFiniteSet(S \union {x}) /\ Cardinality(S \union {x}) \in Nat
           /\ Cardinality(S \union {x}) <= Cardinality(S) + 1
<1>1. IsFiniteSet(S \union {x}) /\ Cardinality(S) \in Nat
    BY FS_AddElement, FS_CardinalityType
<1>2. Cardinality(S \union {x}) \in Nat
    BY <1>1, FS_CardinalityType
<1>3. CASE x \in S
    <2>1. S \union {x} = S
        BY <1>3
    <2> QED
        BY <1>1, <2>1
<1>4. CASE x \notin S
    <2>1. Cardinality(S \union {x}) = Cardinality(S) + 1
        BY <1>4, FS_AddElement
    <2> QED
        BY <1>1, <2>1
<1> QED
    BY <1>1, <1>2, <1>3, <1>4

\* A registration that is written is within the quotas, which are counted as it is written.
LEMMA WriteKeepsQuotas ==
    ASSUME NamesSound, NamesInv, NEW s \in Registrars, Served!RegisterWrite(s), serving[s].id \in Ids
    PROVE  Served!QuotasHold'
<1> DEFINE i == serving[s].id
           m == MemberOf(s)
           k == serving[s].kind
           r == [owner |-> m, kind |-> k, since |-> writes + 1]
<1>0. m \in Served!Members /\ m # "nobody"
    BY DEF Served!Members, NamesSound
<1>1. registered' = [registered EXCEPT ![i] = r] /\ Served!Allowed(m, i, k)
    BY DEF Served!RegisterWrite
<1>2. r.owner = m /\ r.kind = k /\ r # Served!NoRow
    BY <1>0, NothingSaid
<1>3. registered \in [Ids -> RowsSaid] /\ k \in KindsSaid /\ \A j \in Ids : registered[j].owner = "nobody" => registered[j] = Served!NoRow
    BY DEF NamesInv, RowsInv, RoutesInv, CallsInv, RowTable, CallsSaid
<1>4. \A j \in Ids : registered'[j] = IF j = i THEN r ELSE registered[j]
    BY <1>1, <1>3
<1> HIDE DEF r, i
<1>5. \A j \in Ids : Served!Registered(j)' <=> (j = i \/ Served!Registered(j))
    BY <1>2, <1>4 DEF Served!Registered
<1>6. SUFFICES ASSUME NEW q \in Served!Members
      PROVE  Cardinality(Served!Of(q)') <= MaxProcesses /\ Cardinality(Served!JobsOf(q)') <= MaxScheduled
    BY ServedCardinality DEF Served!QuotasHold, Served!Members
<1>7. IsFiniteSet(Served!Of(q)) /\ IsFiniteSet(Served!JobsOf(q)) /\ Served!JobsOf(q) \subseteq Served!Of(q)
    BY FS_Subset DEF NamesSound, Served!Of, Served!JobsOf
<1>8. /\ Cardinality(Served!Of(q)) <= MaxProcesses /\ Cardinality(Served!JobsOf(q)) <= MaxScheduled
      /\ Cardinality(Served!Of(q)) \in Nat /\ Cardinality(Served!JobsOf(q)) \in Nat
    BY <1>7, ServedCardinality, FS_CardinalityType DEF NamesInv, RowsInv, RoutesInv, CallsInv, Served!QuotasHold
<1>9. CASE q # m
    <2>1. Served!Of(q)' \subseteq Served!Of(q) /\ Served!JobsOf(q)' \subseteq Served!JobsOf(q)
        BY <1>2, <1>4, <1>5, <1>9 DEF Served!Of, Served!JobsOf
    <2>2. /\ Cardinality(Served!Of(q)') <= Cardinality(Served!Of(q)) /\ Cardinality(Served!Of(q)') \in Nat
          /\ Cardinality(Served!JobsOf(q)') <= Cardinality(Served!JobsOf(q)) /\ Cardinality(Served!JobsOf(q)') \in Nat
        BY <1>7, <2>1, FS_Subset, FS_CardinalityType
    <2> QED
        BY <1>8, <2>2 DEF NamesSound
<1>10. CASE q = m
    <2>0. i \in Ids
        BY DEF i
    <2>1. Served!Of(q)' = Served!Of(q) \union {i}
        BY <1>2, <1>4, <1>5, <1>10, <2>0, NothingSaid DEF Served!Of, Served!Allowed, Served!Registered, Served!Nobody
    <2>2. Cardinality(Served!Of(q)') <= MaxProcesses
        <3>1. CASE Served!Registered(i)
            <4>1. i \in Served!Of(q)
                BY <1>0, <1>1, <1>3, <1>10, <2>0, <3>1 DEF Served!Of, Served!Allowed, Served!Registered, Served!Nobody
            <4> QED
                BY <1>8, <2>1, <4>1
        <3>2. CASE ~Served!Registered(i)
            <4>1. Cardinality(Served!Of(q)) < MaxProcesses
                BY <1>1, <1>10, <3>2, ServedCardinality DEF Served!Allowed
            <4>2. Cardinality(Served!Of(q) \union {i}) <= Cardinality(Served!Of(q)) + 1
                BY <1>7, AddOne
            <4>3. Cardinality(Served!Of(q) \union {i}) \in Nat
                BY <1>7, AddOne
            <4> QED
                BY <1>8, <2>1, <4>1, <4>2, <4>3 DEF NamesSound
        <3> QED
            BY <3>1, <3>2
    <2>3. Cardinality(Served!JobsOf(q)') <= MaxScheduled
        <3> DEFINE others == Served!JobsOf(q) \ {i}
        <3>0. k.job \in BOOLEAN
            BY <1>3, KindsFacts
        <3>1. IsFiniteSet(others) /\ Cardinality(others) \in Nat /\ Cardinality(others) <= Cardinality(Served!JobsOf(q))
            BY <1>7, FS_Subset, FS_CardinalityType
        <3>2. CASE k.job
            <4>1. Served!JobsOf(q)' \subseteq others \union {i}
                BY <1>2, <1>4, <1>5, <2>1 DEF Served!JobsOf, Served!Of
            <4>2. Cardinality(others) < MaxScheduled
                BY <1>1, <1>10, <3>2, ServedCardinality DEF Served!Allowed
            <4>3. /\ IsFiniteSet(others \union {i}) /\ Cardinality(others \union {i}) \in Nat
                  /\ Cardinality(others \union {i}) <= Cardinality(others) + 1
                BY <3>1, AddOne
            <4>4. Cardinality(Served!JobsOf(q)') <= Cardinality(others \union {i}) /\ Cardinality(Served!JobsOf(q)') \in Nat
                BY <4>1, <4>3, FS_Subset, FS_CardinalityType
            <4> QED
                BY <3>1, <4>2, <4>3, <4>4 DEF NamesSound
        <3>3. CASE ~k.job
            <4>1. Served!JobsOf(q)' \subseteq others
                BY <1>2, <1>4, <1>5, <2>1, <3>3 DEF Served!JobsOf, Served!Of
            <4>2. Cardinality(Served!JobsOf(q)') <= Cardinality(others) /\ Cardinality(Served!JobsOf(q)') \in Nat
                BY <3>1, <4>1, FS_Subset, FS_CardinalityType
            <4> QED
                BY <1>8, <3>1, <4>2 DEF NamesSound
        <3> QED
            BY <3>0, <3>2, <3>3
    <2> QED
        BY <2>2, <2>3
<1> QED
    BY <1>9, <1>10

\* Of the registrations that claim a name, one was written last.
LEMMA OneKeepsIt ==
    ASSUME NamesInv, NEW claims \in SUBSET Ids, claims # {}
    PROVE  Served!Keeper(claims) \in claims
<1> DEFINE age(i) == writes - loading.list[i].since
           T == {age(i) : i \in claims}
<1>1. \A i \in claims : loading.list[i].since \in Nat /\ loading.list[i].since <= writes /\ writes \in Nat
    BY DEF NamesInv, RowsInv, RoutesInv, CallsInv, RowTable, RowsSaid
<1>2. T \in SUBSET Nat /\ T # {}
    BY <1>1
<1>3. PICK x \in T : \A y \in T : x <= y
    BY <1>2, LeastNumber
<1>4. PICK i \in claims : x = age(i)
    BY <1>3
<1>5. \A j \in claims : loading.list[j].since <= loading.list[i].since
    <2>1. \A j \in claims : age(i) <= age(j)
        BY <1>3, <1>4
    <2> QED
        BY <1>1, <2>1
<1>6. \E h \in claims : \A j \in claims : loading.list[j].since <= loading.list[h].since
    BY <1>5
<1> QED
    BY <1>6 DEF Served!Keeper

\* What LoadRoutes makes of the rows it read leads where it should.
LEMMA LoadLeadsThere ==
    ASSUME NamesSound, NamesInv, NEW known \in SUBSET Served!Members
    PROVE  Routes([n \in Hosts |-> Served!Keeper(Served!Claims(n, known))])
<1> DEFINE map == [n \in Hosts |-> Served!Keeper(Served!Claims(n, known))]
<1>1. \A n \in Hosts : map[n] = "nobody" \/ map[n] \in Served!Claims(n, known)
    <2> TAKE n \in Hosts
    <2>1. Served!Claims(n, known) \in SUBSET Ids
        BY DEF Served!Claims
    <2>2. CASE Served!Claims(n, known) = {}
        BY <2>2 DEF Served!Keeper, Served!Nobody
    <2>3. CASE Served!Claims(n, known) # {}
        BY <2>1, <2>3, OneKeepsIt
    <2> QED
        BY <2>2, <2>3
<1>2. \A n \in Hosts : map[n] # "nobody" =>
          /\ map[n] \in Ids /\ loading.list[map[n]].owner \in known
          /\ Served!HostFor(map[n], loading.list[map[n]].owner, loading.list[map[n]].kind) = n
    BY <1>1 DEF Served!Claims
<1>3. map \in [Hosts -> Ids \union {"nobody"}]
    BY <1>2
<1> HIDE DEF map
<1>4. \A n \in Hosts : map[n] # "nobody" /\ n \in Under => \E s \in Registrars : n = DefaultHost(map[n], MemberOf(s))
    <2> SUFFICES ASSUME NEW n \in Hosts, map[n] # "nobody", n \in Under
                 PROVE  \E s \in Registrars : n = DefaultHost(map[n], MemberOf(s))
        OBVIOUS
    <2> DEFINE i == map[n]
               p == loading.list[i]
    <2>1. i \in Ids /\ p.owner \in Served!Members /\ Served!HostFor(i, p.owner, p.kind) = n
        BY <1>2
    <2>2. PICK s \in Registrars : p.owner = MemberOf(s)
        BY <2>1 DEF Served!Members
    <2>3. p.kind \in KindsSaid
        BY <2>1 DEF NamesInv, RowsInv, RoutesInv, CallsInv, RowTable, RowsSaid
    <2> QED
        BY <2>1, <2>2, <2>3, HostsLeadThere
<1>5. \A n, m \in Hosts : map[n] # "nobody" /\ map[n] = map[m] => n = m
    BY <1>2
<1> QED
    BY <1>3, <1>4, <1>5 DEF Routes, LeadThere, map

\* What nothing is written of stays as it was.
LEMMA RowsRest ==
    ASSUME RowsInv, registered' = registered, writes' = writes, loading' = loading PROVE RowsInv'
  BY DEF RowsInv, RowTable, Served!QuotasHold, Served!Of, Served!JobsOf, Served!Registered
LEMMA RoutesRest ==
    ASSUME RoutesInv, routes' = routes, loading' = loading PROVE RoutesInv'
  BY DEF RoutesInv, Routes, LeadThere

\* A call that begins, goes on or is over.
LEMMA CallBegins ==
    ASSUME CallsInv, NEW s \in Registrars, NEW c \in CallsSaid, c.at = "idle" \/ c.id \in Ids,
           serving' = [serving EXCEPT ![s] = c]
    PROVE  CallsInv'
  BY DEF CallsInv
LEMMA CallGoesOn ==
    ASSUME CallsInv, NEW s \in Registrars, NEW step \in {"write", "track", "route", "untrack"},
           serving[s].at # "idle", Served!Go(s, step)
    PROVE  CallsInv'
<1> DEFINE c == [serving[s] EXCEPT !.at = step]
<1>1. c \in CallsSaid /\ c.id = serving[s].id /\ c.id \in Ids
    BY DEF CallsInv, CallsSaid
<1>2. serving' = [serving EXCEPT ![s] = c]
    BY DEF Served!Go
<1> HIDE DEF c
<1> QED
    BY <1>1, <1>2, CallBegins
LEMMA CallIsOver ==
    ASSUME NamesSound, CallsInv, NEW s \in Registrars, Served!Done(s) PROVE CallsInv'
  BY NothingSaid, CallBegins DEF Served!Done

\* Each step of a registration or a verb.
LEMMA CallStep ==
    ASSUME NamesSound, NamesInv, NEW s \in Registrars,
           \/ \E i \in Ids : \/ \E k \in Kinds : Served!RegisterCheck(s, i, k)
                             \/ Served!VerbAsk(s, i) \/ Served!Unregister(s, i)
           \/ Served!RegisterProve(s) \/ Served!RegisterWrite(s) \/ Served!RegisterRefuse(s)
           \/ Served!RegisterTrack(s) \/ Served!Start(s) \/ Served!Stop(s) \/ Served!Remove(s)
           \/ Served!TrackRoute(s) \/ Served!Untrack(s)
    PROVE  NamesInv'
<1> USE DEF Served!At
<1>0. /\ serving[s].at # "idle" => serving[s].id \in Ids
      /\ serving[s].kind \in KindsSaid
      /\ RowsInv /\ RoutesInv /\ CallsInv /\ "nobody" \notin Ids
    BY DEF NamesInv, CallsInv, CallsSaid, NamesSound
<1>1. ASSUME NEW i \in Ids, NEW k \in Kinds, Served!RegisterCheck(s, i, k) PROVE NamesInv'
    <2> DEFINE c == [at |-> "prove", id |-> i, kind |-> k]
    <2>1. c \in CallsSaid /\ c.id \in Ids
        BY <1>1 DEF CallsSaid, KindsSaid, Served!RegisterCheck, Served!Declarable
    <2>2. serving' = [serving EXCEPT ![s] = c] /\ UNCHANGED <<registered, writes, routes, loading>>
        BY <1>1 DEF Served!RegisterCheck
    <2> HIDE DEF c
    <2> QED
        BY <1>0, <2>1, <2>2, CallBegins, RowsRest, RoutesRest DEF NamesInv
<1>2. ASSUME NEW i \in Ids, Served!VerbAsk(s, i) PROVE NamesInv'
    <2> DEFINE c == [at |-> "verb", id |-> i, kind |-> registered[i].kind]
    <2>1. registered[i].kind \in KindsSaid
        BY <1>0 DEF RowsInv, RowTable, RowsSaid
    <2>2. c \in CallsSaid /\ c.id \in Ids
        BY <2>1 DEF CallsSaid
    <2>3. serving' = [serving EXCEPT ![s] = c] /\ UNCHANGED <<registered, writes, routes, loading>>
        BY <1>2 DEF Served!VerbAsk
    <2> HIDE DEF c
    <2> QED
        BY <1>0, <2>2, <2>3, CallBegins, RowsRest, RoutesRest DEF NamesInv
<1>3. ASSUME NEW i \in Ids, Served!Unregister(s, i) PROVE NamesInv'
    <2> DEFINE c == [Served!Idle EXCEPT !.at = "untrack", !.id = i]
    <2>1. c \in CallsSaid /\ c.id \in Ids
        BY NothingSaid DEF CallsSaid, Served!Idle
    <2>2. /\ serving' = [serving EXCEPT ![s] = c] /\ UNCHANGED <<writes, routes, loading>>
          /\ registered' = [registered EXCEPT ![i] = Served!NoRow]
        BY <1>3 DEF Served!Unregister
    <2> HIDE DEF c
    <2>3. registered \in [Ids -> RowsSaid]
        BY <1>0 DEF RowsInv, RowTable
    <2>4. RowTable(registered)' /\ RowTable(loading.list)'
        BY <1>0, <2>2, <2>3, NothingSaid DEF RowsInv, RowTable
    <2>5. \A j \in Ids : registered'[j].since <= writes'
        BY <1>0, <2>2, <2>3, NothingSaid DEF RowsInv
    <2>6. \A j \in Ids : registered'[j] = IF j = i THEN Served!NoRow ELSE registered[j]
        BY <2>2, <2>3
    <2>7. \A m \in Served!Members : Served!Of(m)' \subseteq Served!Of(m) /\ Served!JobsOf(m)' \subseteq Served!JobsOf(m)
        BY <2>6 DEF Served!Of, Served!JobsOf, Served!Registered
    <2>8. Served!QuotasHold'
        BY <1>0, <2>7, QuotasOfFewer DEF RowsInv
    <2> QED
        BY <1>0, <2>1, <2>2, <2>4, <2>5, <2>8, CallBegins, RoutesRest DEF NamesInv, RowsInv
<1>4. CASE Served!RegisterProve(s) \/ Served!Start(s) \/ Served!Stop(s) \/ Served!Remove(s) \/ Served!RegisterRefuse(s)
    <2>1. CallsInv'
        BY <1>0, <1>4, CallGoesOn, CallIsOver
           DEF Served!RegisterProve, Served!Start, Served!Stop, Served!Remove, Served!RegisterRefuse
    <2>2. UNCHANGED <<registered, writes, routes, loading>>
        BY <1>4 DEF Served!RegisterProve, Served!Start, Served!Stop, Served!Remove, Served!RegisterRefuse
    <2> QED
        BY <1>0, <2>1, <2>2, RowsRest, RoutesRest DEF NamesInv
<1>5. CASE Served!RegisterWrite(s)
    <2> DEFINE i == serving[s].id
               r == [owner |-> MemberOf(s), kind |-> serving[s].kind, since |-> writes + 1]
    <2>0. i \in Ids /\ writes \in Nat /\ registered \in [Ids -> RowsSaid]
        BY <1>0, <1>5 DEF Served!RegisterWrite, RowsInv, RowTable
    <2>1. r \in RowsSaid /\ r.since = writes + 1 /\ r.owner # "nobody"
        BY <1>0, <2>0 DEF RowsSaid, Served!Members, NamesSound
    <2>2. registered' = [registered EXCEPT ![i] = r] /\ writes' = writes + 1 /\ UNCHANGED <<routes, loading>>
        BY <1>5 DEF Served!RegisterWrite
    <2>3. CallsInv'
        BY <1>0, <1>5, CallGoesOn DEF Served!RegisterWrite
    <2>4. Served!QuotasHold'
        BY <1>5, <2>0, WriteKeepsQuotas
    <2> HIDE DEF r, i
    <2>5. RowTable(registered)' /\ RowTable(loading.list)'
        BY <1>0, <2>0, <2>1, <2>2 DEF RowsInv, RowTable
    <2>6. \A j \in Ids : loading.list[j] \in RowsSaid /\ registered[j] \in RowsSaid
        BY <1>0 DEF RowsInv, RowTable
    <2>7. \A j \in Ids : registered'[j].since <= writes' /\ loading'.list[j].since <= writes'
        <3>1. \A j \in Ids : registered[j].since \in Nat /\ loading.list[j].since \in Nat
            BY <2>6 DEF RowsSaid
        <3>2. \A j \in Ids : registered[j].since <= writes /\ loading.list[j].since <= writes
            BY <1>0 DEF RowsInv
        <3> QED
            BY <2>0, <2>1, <2>2, <3>1, <3>2
    <2> QED
        BY <1>0, <2>0, <2>2, <2>3, <2>4, <2>5, <2>7, RoutesRest DEF NamesInv, RowsInv
<1>6. CASE Served!RegisterTrack(s) \/ Served!TrackRoute(s) \/ Served!Untrack(s)
    <2> DEFINE i == serving[s].id
    <2>0. i \in Ids /\ CallsInv' /\ UNCHANGED <<registered, writes, loading>>
        BY <1>0, <1>6, CallIsOver DEF Served!RegisterTrack, Served!TrackRoute, Served!Untrack
    <2>1. PICK n : routes' = Served!Tracked(i, n) /\ n \in {Served!HostFor(i, MemberOf(s), serving[s].kind), NoName}
        BY <1>6 DEF Served!RegisterTrack, Served!TrackRoute, Served!Untrack
    <2>2. n \in Under => \E z \in Registrars : n = DefaultHost(i, MemberOf(z))
        BY <1>0, <2>0, <2>1, HostsLeadThere DEF NamesSound
    <2>3. Routes(Served!Tracked(i, n))
        BY <1>0, <2>0, <2>2, TrackedLeadsThere DEF RoutesInv
    <2>4. RoutesInv'
        BY <1>0, <2>0, <2>1, <2>3 DEF RoutesInv, Routes, LeadThere
    <2> QED
        BY <1>0, <2>0, <2>4, RowsRest DEF NamesInv
<1> QED
    BY <1>1, <1>2, <1>3, <1>4, <1>5, <1>6

\* Each step of a boot.
LEMMA LoadStep ==
    ASSUME NamesSound, NamesInv,
           Served!LoadRead \/ Served!LoadProve \/ Served!LoadReplace \/ Served!Restart \/ \E n \in Hosts : Served!Point(n)
    PROVE  NamesInv'
<1>0. RowsInv /\ RoutesInv /\ CallsInv /\ loading \in LoadsSaid
    BY DEF NamesInv, RowsInv
<1>a. /\ RowTable([i \in Ids |-> Served!NoRow]) /\ Routes([n \in Hosts |-> "nobody"])
      /\ \A i \in Ids : [j \in Ids |-> Served!NoRow][i].since = 0
    BY NothingSaid DEF RowTable, Routes, LeadThere
<1>b. ASSUME NEW l \in LoadsSaid, loading' = l, RowTable(l.list), Routes(l.routes), UNCHANGED <<registered, writes>>,
             \A i \in Ids : l.list[i].since <= writes, CallsInv', Routes(routes)'
      PROVE  NamesInv'
    <2>1. Served!QuotasHold'
        BY <1>0, <1>b DEF RowsInv, Served!QuotasHold, Served!Of, Served!JobsOf, Served!Registered
    <2>2. RowTable(registered)' /\ RowTable(loading.list)' /\ Routes(loading.routes)'
        BY <1>0, <1>b DEF RowsInv, RowTable, Routes, LeadThere
    <2> QED
        BY <1>0, <1>b, <2>1, <2>2 DEF NamesInv, RowsInv, RoutesInv
<1>1. CASE Served!LoadRead
    <2> DEFINE l == [loading EXCEPT !.at = "prove", !.list = registered]
    <2>1. registered \in [Ids -> RowsSaid] /\ RowTable(registered) /\ \A i \in Ids : registered[i].since <= writes
        BY <1>0 DEF RowsInv, RowTable
    <2>2. l \in LoadsSaid /\ l.list = registered /\ l.routes = loading.routes
        BY <1>0, <2>1 DEF LoadsSaid
    <2>3. loading' = l /\ UNCHANGED <<registered, writes, routes, serving>>
        BY <1>1 DEF Served!LoadRead
    <2> HIDE DEF l
    <2>4. CallsInv' /\ Routes(routes)' /\ Routes(l.routes)
        BY <1>0, <2>2, <2>3 DEF CallsInv, RoutesInv, Routes, LeadThere
    <2> QED
        BY <1>b, <2>1, <2>2, <2>3, <2>4
<1>2. CASE Served!LoadProve
    <2>1. PICK known \in Served!Lookups :
              loading' = [loading EXCEPT !.at = "replace",
                                   !.routes = [n \in Hosts |-> Served!Keeper(Served!Claims(n, known))]]
        BY <1>2 DEF Served!LoadProve
    <2> DEFINE map == [n \in Hosts |-> Served!Keeper(Served!Claims(n, known))]
               l == [loading EXCEPT !.at = "replace", !.routes = map]
    <2>2. Routes(map)
        BY <2>1, LoadLeadsThere DEF Served!Lookups
    <2>3. map \in [Hosts -> Ids \union {"nobody"}]
        BY <2>2 DEF Routes
    <2>4. loading' = l /\ UNCHANGED <<registered, writes, routes, serving>>
        BY <1>2, <2>1 DEF Served!LoadProve
    <2> HIDE DEF map
    <2>5. l \in LoadsSaid /\ l.list = loading.list /\ l.routes = map
        BY <1>0, <2>3 DEF LoadsSaid
    <2> HIDE DEF l
    <2>6. CallsInv' /\ Routes(routes)' /\ RowTable(l.list) /\ \A i \in Ids : l.list[i].since <= writes
        BY <1>0, <2>4, <2>5 DEF CallsInv, RoutesInv, RowsInv, Routes, LeadThere
    <2> QED
        BY SMTT(60), <1>b, <2>2, <2>4, <2>5, <2>6
<1>3. CASE Served!LoadReplace \/ Served!Restart
    <2> DEFINE none == [i \in Ids |-> Served!NoRow]
               empty == [n \in Hosts |-> "nobody"]
    <2>1. PICK a \in {"done", "read"} : loading' = [at |-> a, list |-> none, routes |-> empty]
        <3>1. loading = [at |-> loading.at, list |-> loading.list, routes |-> loading.routes]
            BY <1>0 DEF LoadsSaid
        <3> QED
            BY <1>3, <3>1 DEF Served!LoadReplace, Served!Restart, Served!Empty, Served!Nobody
    <2>2. none \in [Ids -> RowsSaid] /\ empty \in [Hosts -> Ids \union {"nobody"}]
        BY <1>a DEF RowTable, Routes
    <2> DEFINE l == [at |-> a, list |-> none, routes |-> empty]
    <2>3. RowTable(none) /\ Routes(empty) /\ \A i \in Ids : none[i].since <= writes
        BY <1>0, <1>a DEF RowsInv
    <2>4. Routes(routes')
        BY <1>0, <1>3, <1>a DEF Served!LoadReplace, Served!Restart, Served!Empty, Served!Nobody, RoutesInv
    <2>5. CallsInv'
        BY <1>0, <1>3, NothingSaid DEF Served!LoadReplace, Served!Restart, CallsInv
    <2>6. UNCHANGED <<registered, writes>>
        BY <1>3 DEF Served!LoadReplace, Served!Restart
    <2> HIDE DEF none, empty
    <2>7. l \in LoadsSaid /\ l.list = none /\ l.routes = empty
        BY <2>1, <2>2 DEF LoadsSaid
    <2>8. Routes(routes)'
        BY <2>4 DEF Routes, LeadThere
    <2>9. loading' = l
        BY <2>1
    <2> HIDE DEF l
    <2> QED
        BY <1>b, <2>3, <2>5, <2>6, <2>7, <2>8, <2>9
<1>4. CASE \E n \in Hosts : Served!Point(n)
    <2>1. UNCHANGED <<registered, writes, routes, serving, loading>>
        BY <1>4 DEF Served!Point
    <2> QED
        BY <1>0, <2>1, RowsRest, RoutesRest DEF NamesInv, CallsInv
<1> QED
    BY <1>1, <1>2, <1>3, <1>4

\* The rows stay within the quotas, and every table that is made or kept leads where it should.
LEMMA NamesStep == ASSUME NamesSound, NamesInv, [Served!Next]_Served!vars PROVE NamesInv'
<1>1. CASE UNCHANGED Served!vars
    <2>1. UNCHANGED <<registered, writes, routes, serving, loading>>
        BY <1>1 DEF Served!vars
    <2> QED
        BY <2>1, RowsRest, RoutesRest DEF NamesInv, CallsInv
<1>2. CASE Served!Next
    BY <1>2, CallStep, LoadStep DEF Served!Next
<1> QED
    BY <1>1, <1>2

\* What the host limits, a Process by its ceiling, the copies of images by the slots of a member and
\* the registrations of a member by its quotas, holds for any processes, members, sessions, images and registrations.
THEOREM LimitsStay ==
    ASSUME ProcessNames, SessionsOfMembers, MaxBuildsPerBuilder \in Nat, NamesSound
    PROVE  Cgroups!Spec /\ Builds!Spec /\ Served!Spec => []LimitsHold
<1>1. NamesInv => Served!QuotasHold
    BY DEF NamesInv, RowsInv
<1>2. Served!Spec => []NamesInv
    BY NamesInit, NamesStep, PTL DEF Served!Spec
<1> QED
    BY <1>1, <1>2, CeilingsHold, FetchSlots, PTL DEF LimitsHold

\* A member adds no key to a file it only linked to, and a name under the domain leads to the Process it is derived
\* for, whatever registrations, verbs and a boot write the table at once (host.go keys, hostnames.go, proxy.go).
THEOREM AccountsRemainApart == ASSUME NamesSound PROVE UserKeys!Spec /\ Served!Spec => []AccountsStayApart
<1>1. NamesInv => Served!NamesAreTheirs
    BY DEF NamesInv, RoutesInv, Routes, LeadThere, Served!NamesAreTheirs, Served!Holds, Served!Nobody
<1>2. Served!Spec => []NamesInv
    BY NamesInit, NamesStep, PTL DEF Served!Spec
<1> QED
    BY <1>1, <1>2, KeysOfOthers, PTL DEF AccountsStayApart

-----------------------------------------------------------------------------
\* The search for the next tick passes none by, for every expression and every calendar whose months,
\* days and hours are what they say.

SearchInv ==
    /\ after \in Nat /\ after + 1 \in 0..Horizon
    /\ t \in Nat /\ t >= after + 1
    /\ out \in {"searching", "found", "none"}
    /\ FirstTick

\* A day that does not match has no tick in it: matchesDay is what an expression says of a day.
LEMMA DayDecides ==
    ASSUME NEW c, NEW u, c.domAny \in BOOLEAN, c.dowAny \in BOOLEAN
    PROVE  Ticks(c, u) <=> /\ MonthOf(u) \in c.month /\ MatchesDay(c, u)
                           /\ HourOf(u) \in c.hour /\ MinuteOf(u) \in c.minute
  <1>1. CASE c.domAny /\ c.dowAny    BY <1>1 DEF Ticks, MatchesDay
  <1>2. CASE c.domAny /\ ~c.dowAny   BY <1>2 DEF Ticks, MatchesDay
  <1>3. CASE ~c.domAny /\ c.dowAny   BY <1>3 DEF Ticks, MatchesDay
  <1>4. CASE ~c.domAny /\ ~c.dowAny  BY <1>4 DEF Ticks, MatchesDay
  <1> QED BY <1>1, <1>2, <1>3, <1>4

\* Two times of one day and month are matched by the same day fields.
LEMMA SameDay ==
    ASSUME NEW c, NEW u, NEW v, DayOf(u) = DayOf(v), WeekdayOf(u) = WeekdayOf(v)
    PROVE  MatchesDay(c, u) <=> MatchesDay(c, v)
  BY DEF MatchesDay

\* A jump keeps the invariant when nothing between where the search is and where it goes is a tick.
LEMMA JumpKeeps ==
    ASSUME SearchInv, NEW w \in Nat, w > t, out = "searching",
           \A u \in t..(w - 1) : u < Limit => ~Ticks(cron, u),
           t' = w, UNCHANGED <<cron, after, out>>
    PROVE  SearchInv'
  <1>1. Limit' = Limit  BY DEF Limit
  <1>2. \A u : Ticks(cron, u)' <=> Ticks(cron, u)  BY DEF Ticks
  <1>3. ASSUME NEW u \in (after + 1)..(w - 1), u < Limit
        PROVE  ~Ticks(cron, u)
    <2>1. CASE u <= t - 1
      <3>1. u \in (after + 1)..(t - 1)  BY <2>1, <1>3 DEF SearchInv
      <3> QED BY <3>1, <1>3 DEF SearchInv, FirstTick
    <2>2. CASE u >= t
      <3>1. u \in t..(w - 1)  BY <2>2, <1>3 DEF SearchInv
      <3> QED BY <3>1, <1>3
    <2> QED BY <2>1, <2>2, <1>3 DEF SearchInv
  <1>4. after' = after /\ cron' = cron /\ out' = out  OBVIOUS
  <1>5. FirstTick'
    <2>1. \A u \in (after' + 1)..(t' - 1) : u < Limit' => ~Ticks(cron', u)  BY <1>1, <1>3, <1>4
    <2>2. out' = "searching"  BY <1>4
    <2> QED BY <2>1, <2>2 DEF FirstTick
  <1> QED BY <1>4, <1>5 DEF SearchInv

\* What a parsed expression is, as far as its days go.
LEMMA ParsedDays ==
    ASSUME NEW x
    PROVE  Parse(x).domAny \in BOOLEAN /\ Parse(x).dowAny \in BOOLEAN
  BY DEF Parse, Any

Parsed == cron.domAny \in BOOLEAN /\ cron.dowAny \in BOOLEAN

LEMMA SearchBegins == Init => SearchInv /\ Parsed
  <1> SUFFICES ASSUME Init PROVE SearchInv /\ Parsed  OBVIOUS
  <1>1. Parsed
    <2>1. PICK x \in Expressions : cron = Parse(x)  BY DEF Init
    <2> QED BY <2>1, ParsedDays DEF Parsed
  <1>2. after \in Nat /\ after + 1 \in 0..Horizon /\ t \in Nat /\ t >= after + 1 /\ out = "searching"
    BY CalendarAssumption DEF Init
  <1>3. \A u \in (after + 1)..(t - 1) : FALSE  BY <1>2 DEF Init
  <1>4. FirstTick  BY <1>2, <1>3 DEF FirstTick
  <1> QED BY <1>1, <1>2, <1>4 DEF SearchInv

LEMMA SearchGoesOn == SearchInv /\ Parsed /\ [Next]_vars => SearchInv' /\ Parsed'
  <1> SUFFICES ASSUME SearchInv, Parsed, [Next]_vars PROVE SearchInv' /\ Parsed'  OBVIOUS
  <1>a. t \in Nat /\ after \in Nat /\ after + 1 \in 0..Horizon /\ t >= after + 1  BY DEF SearchInv
  <1>b. Limit \in (after + 1)..Horizon  BY <1>a, CalendarAssumption DEF Limit
  <1>c. ASSUME Searches
        PROVE  /\ t \in 0..Horizon /\ out = "searching"
               /\ NextHour(t) \in Nat /\ NextDay(t) \in Nat /\ NextMonth(t) \in Nat
               /\ NextHour(t) > t /\ NextDay(t) > t /\ NextMonth(t) > t
    <2>1. t \in 0..Horizon /\ out = "searching"
      BY <1>a, <1>b, <1>c, CalendarAssumption DEF Searches
    <2> QED BY <2>1, CalendarAssumption
  <1>d. \A u : Ticks(cron, u) <=> /\ MonthOf(u) \in cron.month /\ MatchesDay(cron, u)
                                  /\ HourOf(u) \in cron.hour /\ MinuteOf(u) \in cron.minute
    BY DayDecides DEF Parsed
  <1>e. ASSUME cron' = cron PROVE Parsed'  BY <1>e DEF Parsed
  <1>1. CASE SkipMonth
    <2>1. \A u \in t..(NextMonth(t) - 1) : MonthOf(u) = MonthOf(t)
      BY <1>1, <1>c, CalendarAssumption DEF SkipMonth
    <2>2. \A u \in t..(NextMonth(t) - 1) : ~Ticks(cron, u)  BY <1>1, <2>1, <1>d DEF SkipMonth
    <2>3. NextMonth(t) \in Nat /\ NextMonth(t) > t /\ out = "searching"  BY <1>1, <1>c DEF SkipMonth
    <2>4. t' = NextMonth(t) /\ UNCHANGED <<cron, after, out>>  BY <1>1 DEF SkipMonth, To
    <2>5. SearchInv'  BY <2>2, <2>3, <2>4, JumpKeeps
    <2> QED BY <2>4, <2>5, <1>e
  <1>2. CASE SkipDay
    <2>1. \A u \in t..(NextDay(t) - 1) : DayOf(u) = DayOf(t) /\ WeekdayOf(u) = WeekdayOf(t)
      BY <1>2, <1>c, CalendarAssumption DEF SkipDay
    <2>2. \A u \in t..(NextDay(t) - 1) : ~MatchesDay(cron, u)  BY <1>2, <2>1, SameDay DEF SkipDay
    <2>3. \A u \in t..(NextDay(t) - 1) : ~Ticks(cron, u)  BY <2>2, <1>d
    <2>4. NextDay(t) \in Nat /\ NextDay(t) > t /\ out = "searching"  BY <1>2, <1>c DEF SkipDay
    <2>5. t' = NextDay(t) /\ UNCHANGED <<cron, after, out>>  BY <1>2 DEF SkipDay, To
    <2>6. SearchInv'  BY <2>3, <2>4, <2>5, JumpKeeps
    <2> QED BY <2>5, <2>6, <1>e
  <1>3. CASE SkipHour
    <2>1. \A u \in t..(NextHour(t) - 1) : HourOf(u) = HourOf(t)
      BY <1>3, <1>c, CalendarAssumption DEF SkipHour
    <2>2. \A u \in t..(NextHour(t) - 1) : ~Ticks(cron, u)  BY <1>3, <2>1, <1>d DEF SkipHour
    <2>3. NextHour(t) \in Nat /\ NextHour(t) > t /\ out = "searching"  BY <1>3, <1>c DEF SkipHour
    <2>4. t' = NextHour(t) /\ UNCHANGED <<cron, after, out>>  BY <1>3 DEF SkipHour, To
    <2>5. SearchInv'  BY <2>2, <2>3, <2>4, JumpKeeps
    <2> QED BY <2>4, <2>5, <1>e
  <1>4. CASE SkipMinute
    <2>1. \A u \in t..((t + 1) - 1) : u = t  BY <1>a
    <2>2. \A u \in t..((t + 1) - 1) : ~Ticks(cron, u)  BY <1>4, <2>1, <1>d DEF SkipMinute
    <2>3. t + 1 \in Nat /\ t + 1 > t /\ out = "searching"  BY <1>4, <1>a DEF SkipMinute, Searches
    <2>4. t' = t + 1 /\ UNCHANGED <<cron, after, out>>  BY <1>4 DEF SkipMinute, To
    <2>5. SearchInv'  BY <2>2, <2>3, <2>4, JumpKeeps
    <2> QED BY <2>4, <2>5, <1>e
  <1>5. CASE Found
    <2>1. out' = "found" /\ UNCHANGED <<cron, after, t>>  BY <1>5 DEF Found
    <2>2. Ticks(cron, t)  BY <1>5, <1>d DEF Found
    <2>3. Limit' = Limit  BY <2>1 DEF Limit
    <2>4. \A u \in (after + 1)..(t - 1) : u < Limit => ~Ticks(cron, u)  BY DEF SearchInv, FirstTick
    <2>5. FirstTick'  BY <2>1, <2>2, <2>3, <2>4, <1>a DEF FirstTick
    <2> QED BY <2>1, <2>5, <1>a, <1>e DEF SearchInv
  <1>6. CASE GiveUp
    <2>1. out' = "none" /\ t >= Limit /\ UNCHANGED <<cron, after, t>>  BY <1>6 DEF GiveUp
    <2>2. Limit' = Limit  BY <2>1 DEF Limit
    <2>3. \A u \in (after + 1)..(t - 1) : u < Limit => ~Ticks(cron, u)  BY DEF SearchInv, FirstTick
    <2>4. \A u \in (after + 1)..(Limit - 1) : u \in (after + 1)..(t - 1) /\ u < Limit
      BY <2>1, <1>a, <1>b, CalendarAssumption
    <2>5. FirstTick'  BY <2>1, <2>2, <2>3, <2>4 DEF FirstTick
    <2> QED BY <2>1, <2>5, <1>a, <1>e DEF SearchInv
  <1>7. CASE UNCHANGED vars
    <2>1. cron' = cron /\ after' = after /\ t' = t /\ out' = out  BY <1>7 DEF vars
    <2>2. Limit' = Limit  BY <2>1 DEF Limit
    <2>3. FirstTick'  BY <2>1, <2>2 DEF SearchInv, FirstTick
    <2> QED BY <2>1, <2>3, <1>e DEF SearchInv
  <1> QED BY <1>1, <1>2, <1>3, <1>4, <1>5, <1>6, <1>7 DEF Next

\* Next answers the first tick after the time it is given, and none only when there is none before
\* it gives up (cron.go Next), on every calendar and for every set of expressions.
THEOREM NextIsTheFirstTick == Spec => []FirstTick
  <1>1. Init => SearchInv /\ Parsed  BY SearchBegins
  <1>2. SearchInv /\ Parsed /\ [Next]_vars => SearchInv' /\ Parsed'  BY SearchGoesOn
  <1>3. SearchInv => FirstTick  BY DEF SearchInv
  <1> QED BY <1>1, <1>2, <1>3, PTL DEF Spec

-----------------------------------------------------------------------------
(* The subordinate ids of the members.                                     *)

\* "none" is nobody's request.
RequestsAreSomebody == "none" \notin Creators

Line  == [name : Accounts, start : Nat]
Lines == UNION {[S -> Nat] : S \in SUBSET Line}
Locked   == {"has", "next", "append", "write", "check", "drop", "dropwrite", "last"}
Creating == Locked \cup {"lock", "rest"}
Removing == {"archive", "remove", "removewrite"}
Requested == [at : Creating \cup Removing \cup {"idle"}, name : Accounts \cup {"none"}, tries : Nat,
              start : Nat, lines : Lines]

\* What a file may hold: blocks that end somewhere, that no two lines share, one for whom it is owed to.
Bounded(f)  == \E b \in Nat : \A x \in DOMAIN f : x.start < b
Above(f, s) == \A x \in DOMAIN f : x.start < s
Apart(f)    == \A x, y \in DOMAIN f : f[x] = 1 /\ (x.start = y.start => x = y)
Owed(n)     == account[n] = "member" \/ \E r \in Creators : req[r].at = "rest" /\ req[r].name = n
Keeps(f)    == \A n \in Accounts : Owed(n) => SubIDs!Has(f, n)

\* A request, alone: whose it is, how far its member is, and what it has read.
Standing(q) ==
    /\ q.at = "idle" => q = SubIDs!Idle
    /\ q.at # "idle" => q.name \in Accounts
    /\ q.at \in Creating => account[q.name] = "half"
    /\ q.at \in Removing => account[q.name] = "none"
    /\ Bounded(q.lines)
Informed(q) ==
    /\ q.at = "append" => Above(subuid, q.start)
    /\ q.at = "write" => Above(q.lines, q.start)
    /\ q.at \in {"write", "dropwrite"} => Apart(q.lines) /\ Keeps(q.lines)

AccountsTyped ==
    /\ account \in [Accounts -> {"none", "half", "member"}]
    /\ req \in [Creators -> Requested]
    /\ subuid \in Lines /\ Bounded(subuid)
    /\ lost \in BOOLEAN
LockIsHeld == \A r \in Creators : req[r].at \in Locked => lock = r
OneAtATime == \A r, o \in Creators : req[r].at # "idle" /\ req[o].at # "idle" /\ req[r].name = req[o].name => r = o
BlocksInv ==
    /\ AccountsTyped /\ LockIsHeld /\ OneAtATime
    /\ \A r \in Creators : Standing(req[r])
    /\ ~lost => /\ Apart(subuid) /\ Keeps(subuid)
                /\ \A r \in Creators : Informed(req[r])

LEMMA EmptyFile == SubIDs!NoLines \in Lines /\ Bounded(SubIDs!NoLines) /\ DOMAIN SubIDs!NoLines = {}
<1>1. SubIDs!NoLines \in [{} -> Nat] /\ DOMAIN SubIDs!NoLines = {}
    BY DEF SubIDs!NoLines
<1>2. {} \in SUBSET Line
    OBVIOUS
<1>3. SubIDs!NoLines \in Lines
    BY <1>1, <1>2 DEF Lines
<1> QED
    BY <1>1, <1>3 DEF Bounded

\* The requests that begin, and that are over.
LEMMA BegunRequests ==
    /\ SubIDs!Idle \in Requested /\ SubIDs!Idle.at = "idle" /\ Bounded(SubIDs!Idle.lines)
    /\ \A s \in Creating \cup Removing, n \in Accounts :
          /\ SubIDs!Begun(s, n) \in Requested /\ SubIDs!Begun(s, n).at = s /\ SubIDs!Begun(s, n).name = n
          /\ Bounded(SubIDs!Begun(s, n).lines)
<1> DEFINE e == SubIDs!NoLines
<1>1. e \in Lines /\ Bounded(e)
    BY EmptyFile
<1>2. /\ SubIDs!Idle = [at |-> "idle", name |-> "none", tries |-> 0, start |-> 0, lines |-> e]
      /\ \A s, n : SubIDs!Begun(s, n) = [at |-> s, name |-> n, tries |-> 0, start |-> 0, lines |-> e]
    BY DEF SubIDs!Idle, SubIDs!NoOne, SubIDs!Begun
<1> HIDE DEF e
<1>3. SubIDs!Idle \in Requested /\ SubIDs!Idle.at = "idle" /\ SubIDs!Idle.lines = e
    BY <1>1, <1>2 DEF Requested
<1>4. ASSUME NEW s \in Creating \cup Removing, NEW n \in Accounts
      PROVE  /\ SubIDs!Begun(s, n) \in Requested /\ SubIDs!Begun(s, n).at = s /\ SubIDs!Begun(s, n).name = n
             /\ SubIDs!Begun(s, n).lines = e
  <2>1. SubIDs!Begun(s, n) = [at |-> s, name |-> n, tries |-> 0, start |-> 0, lines |-> e]
      BY <1>2
  <2>2. [at |-> s, name |-> n, tries |-> 0, start |-> 0, lines |-> e] \in Requested
      BY <1>1 DEF Requested
  <2> QED
      BY <2>1, <2>2
<1> QED
    BY <1>1, <1>3, <1>4

LEMMA FileIsFunction == ASSUME NEW f \in Lines PROVE DOMAIN f \subseteq Line /\ f = [x \in DOMAIN f |-> f[x]]
                                                    /\ \A x \in DOMAIN f : f[x] \in Nat
<1>1. PICK S \in SUBSET Line : f \in [S -> Nat]
    BY DEF Lines
<1> QED
    BY <1>1

\* nextSubID answers the end of the highest block.
LEMMA NextIsAbove ==
  ASSUME NEW f \in Lines, Bounded(f)
  PROVE  SubIDs!NextFree(f) \in Nat /\ Above(f, SubIDs!NextFree(f))
<1> DEFINE Ceilings == {b \in Nat : \A x \in DOMAIN f : x.start < b}
           Ends == {0} \cup {x.start + 1 : x \in DOMAIN f}
<1>1. Ceilings \in SUBSET Nat /\ Ceilings # {}
    BY DEF Bounded
<1> HIDE DEF Ceilings
<1>2. PICK b \in Ceilings : \A c \in Ceilings : b <= c
    BY <1>1, LeastNumber
<1>3. b \in Nat /\ \A x \in DOMAIN f : x.start < b
    BY <1>2 DEF Ceilings
<1>4. \A x \in DOMAIN f : x.start \in Nat
    BY FileIsFunction DEF Line
<1>5. b \in Ends
  <2>1. CASE b = 0
      BY <2>1
  <2>2. CASE b # 0
    <3>1. b - 1 \in Nat /\ ~(b <= b - 1)
        BY <2>2, <1>3
    <3>2. b - 1 \notin Ceilings
        BY <3>1, <1>2
    <3>3. PICK x \in DOMAIN f : ~(x.start < b - 1)
        BY <3>1, <3>2 DEF Ceilings
    <3>4. x.start + 1 = b
        BY <3>3, <1>3, <1>4
    <3> QED
        BY <3>4
  <2> QED
      BY <2>1, <2>2
<1>6. \E top \in Ends : \A x \in DOMAIN f : x.start < top
    BY <1>3, <1>5
<1>7. SubIDs!NextFree(f) = CHOOSE top \in Ends : \A x \in DOMAIN f : x.start < top
    BY DEF SubIDs!NextFree
<1>8. SubIDs!NextFree(f) \in Ends /\ \A x \in DOMAIN f : x.start < SubIDs!NextFree(f)
  <2> HIDE DEF Ends
  <2> QED
      BY <1>6, <1>7
<1>9. Ends \subseteq Nat
    BY <1>4
<1> HIDE DEF Ends
<1> QED
    BY <1>8, <1>9 DEF Above

\* What appendSubID and removeSubID make of the lines they read.
LEMMA WithLine ==
  ASSUME NEW f \in Lines, Bounded(f), NEW y \in Line
  PROVE  /\ SubIDs!With(f, y) \in Lines /\ Bounded(SubIDs!With(f, y))
         /\ DOMAIN SubIDs!With(f, y) = DOMAIN f \cup {y}
         /\ Apart(f) /\ Above(f, y.start) => Apart(SubIDs!With(f, y))
<1> DEFINE g == SubIDs!With(f, y)
<1>1. /\ g = [x \in DOMAIN f \cup {y} |-> (IF x \in DOMAIN f THEN f[x] ELSE 0) + (IF x = y THEN 1 ELSE 0)]
    BY DEF SubIDs!With
<1>2. DOMAIN f \subseteq Line /\ \A x \in DOMAIN f : f[x] \in Nat
    BY FileIsFunction
<1>3. \A x \in DOMAIN f \cup {y} : (IF x \in DOMAIN f THEN f[x] ELSE 0) + (IF x = y THEN 1 ELSE 0) \in Nat
    BY <1>2
<1>4. g \in [DOMAIN f \cup {y} -> Nat]
    BY <1>1, <1>3
<1>5. DOMAIN f \cup {y} \in SUBSET Line
    BY <1>2
<1>6. g \in Lines
    BY <1>4, <1>5 DEF Lines
<1>7. DOMAIN g = DOMAIN f \cup {y}
    BY <1>4
<1>8. Bounded(g)
  <2>1. PICK b \in Nat : \A x \in DOMAIN f : x.start < b
      BY DEF Bounded
  <2>2. \A x \in DOMAIN f : x.start \in Nat
      BY <1>2 DEF Line
  <2>3. y.start \in Nat
      BY DEF Line
  <2>4. b + y.start + 1 \in Nat /\ \A x \in DOMAIN g : x.start < b + y.start + 1
      BY <1>7, <2>1, <2>2, <2>3
  <2> QED
      BY <2>4 DEF Bounded
<1>9. ASSUME Apart(f), Above(f, y.start) PROVE Apart(g)
  <2>1. y.start \in Nat /\ \A x \in DOMAIN f : x.start \in Nat
      BY <1>2 DEF Line
  <2>2. y \notin DOMAIN f /\ \A x \in DOMAIN f : x.start # y.start
      BY <2>1, <1>9 DEF Above
  <2>3. \A x \in DOMAIN f : g[x] = f[x]
      BY <1>1, <1>2, <2>2
  <2>4. g[y] = 1
      BY <1>1, <2>2
  <2> HIDE DEF g
  <2>5. \A x \in DOMAIN f : g[x] = 1
      BY <2>3, <1>9 DEF Apart
  <2>6. \A x, z \in DOMAIN f : x.start = z.start => x = z
      BY <1>9 DEF Apart
  <2> QED
      BY <1>7, <2>2, <2>4, <2>5, <2>6 DEF Apart
<1> QED
    BY <1>6, <1>7, <1>8, <1>9

LEMMA WithoutName ==
  ASSUME NEW f \in Lines, Bounded(f), NEW n
  PROVE  /\ SubIDs!Drop(f, n) \in Lines /\ Bounded(SubIDs!Drop(f, n))
         /\ DOMAIN SubIDs!Drop(f, n) = {x \in DOMAIN f : x.name # n}
         /\ Apart(f) => Apart(SubIDs!Drop(f, n))
<1> DEFINE S == {x \in DOMAIN f : x.name # n}
           g == SubIDs!Drop(f, n)
<1>1. g = [x \in S |-> f[x]]
    BY DEF SubIDs!Drop
<1>2. S \in SUBSET Line /\ S \subseteq DOMAIN f /\ \A x \in S : f[x] \in Nat
    BY FileIsFunction
<1>3. DOMAIN g = S /\ \A x \in S : g[x] = f[x]
    BY <1>1
<1>4. g \in Lines
  <2>1. g \in [S -> Nat]
      BY <1>1, <1>2
  <2> HIDE DEF g, S
  <2> QED
      BY <2>1, <1>2 DEF Lines
<1> HIDE DEF g, S
<1>5. Bounded(g)
    BY <1>2, <1>3 DEF Bounded
<1>6. Apart(f) => Apart(g)
    BY <1>2, <1>3 DEF Apart
<1> QED
    BY <1>3, <1>4, <1>5, <1>6 DEF S, g

LEMMA BlocksBegin == ASSUME RequestsAreSomebody PROVE SubIDs!Init => BlocksInv
<1> SUFFICES ASSUME SubIDs!Init PROVE BlocksInv
    OBVIOUS
<1>1. SubIDs!Idle \in Requested /\ SubIDs!Idle.at = "idle" /\ Bounded(SubIDs!Idle.lines)
    BY BegunRequests
<1>2. \A r \in Creators : req[r] = SubIDs!Idle
    BY DEF SubIDs!Init
<1>3. AccountsTyped
    BY <1>1, EmptyFile DEF SubIDs!Init, AccountsTyped
<1>4. LockIsHeld /\ OneAtATime
    BY <1>1, <1>2 DEF LockIsHeld, OneAtATime, Locked
<1>5. \A r \in Creators : Standing(req[r])
  <2>1. Standing(SubIDs!Idle)
      BY <1>1 DEF Standing, Creating, Locked, Removing
  <2> QED
      BY <2>1, <1>2
<1>6. \A r \in Creators : Informed(req[r])
  <2>1. Informed(SubIDs!Idle)
      BY <1>1 DEF Informed
  <2> QED
      BY <2>1, <1>2
<1>7. Apart(subuid) /\ Keeps(subuid)
  <2>1. \A n \in Accounts : ~Owed(n)
      BY <1>1, <1>2 DEF SubIDs!Init, Owed
  <2> QED
      BY <2>1, EmptyFile DEF SubIDs!Init, Apart, Keeps
<1> QED
    BY <1>3, <1>4, <1>5, <1>6, <1>7 DEF BlocksInv

\* A step of one request that leaves the file and the accounts alone, and owes nobody a block that
\* has none.
LEMMA OneMoves ==
  ASSUME BlocksInv, NEW r \in Creators, NEW q \in Requested, req' = [req EXCEPT ![r] = q],
         UNCHANGED <<account, subuid, lost>>,
         q.at # "idle" => req[r].at # "idle" /\ q.name = req[r].name,
         Standing(q), q.at # "rest",
         ~lost => Informed(q),
         LockIsHeld'
  PROVE  BlocksInv'
<1>1. AccountsTyped /\ OneAtATime
    BY DEF BlocksInv
<1>2. \A o \in Creators : req'[o] = IF o = r THEN q ELSE req[o]
    BY <1>1 DEF AccountsTyped
<1>3. AccountsTyped'
    BY <1>1 DEF AccountsTyped, Bounded
<1>4. OneAtATime'
    BY <1>1, <1>2 DEF OneAtATime
<1>5. \A o \in Creators : Standing(req[o])'
  <2>1. \A o \in Creators : Standing(req'[o])
      BY <1>2 DEF BlocksInv
  <2> QED
      BY <2>1 DEF Standing, Bounded, SubIDs!Idle, SubIDs!NoOne, SubIDs!NoLines
<1>6. \A n \in Accounts : Owed(n)' => Owed(n)
    BY <1>2 DEF Owed
<1>7. \A f : Keeps(f) => Keeps(f)'
    BY <1>6 DEF Keeps, SubIDs!Has
<1>8. ASSUME ~lost PROVE Apart(subuid)' /\ Keeps(subuid)' /\ \A o \in Creators : Informed(req[o])'
  <2>1. Apart(subuid) /\ Keeps(subuid) /\ \A o \in Creators : Informed(req'[o])
      BY <1>2, <1>8 DEF BlocksInv
  <2>2. Keeps(subuid)'
      BY <2>1, <1>6 DEF Keeps, SubIDs!Has
  <2>3. ASSUME NEW o \in Creators PROVE Informed(req[o])'
    <3>1. req'[o].at = "append" => Above(subuid', req'[o].start)
        BY <2>1 DEF Informed
    <3>2. req'[o].at = "write" => Above(req'[o].lines, req'[o].start)
        BY <2>1 DEF Informed
    <3>3. req'[o].at \in {"write", "dropwrite"} => Apart(req'[o].lines) /\ Keeps(req'[o].lines)
        BY <2>1 DEF Informed
    <3>4. Keeps(req'[o].lines) => Keeps(req[o].lines)'
        BY <1>6 DEF Keeps, SubIDs!Has
    <3> QED
        BY <3>1, <3>2, <3>3, <3>4 DEF Informed, Apart, Above
  <2> QED
      BY <2>1, <2>2, <2>3 DEF Apart
<1> QED
    BY <1>3, <1>4, <1>5, <1>8 DEF BlocksInv

\* What a request does to what it has said.
ToStep(q, s)   == [q EXCEPT !.at = s]
Looks(q)       == [q EXCEPT !.at = "next", !.tries = @ + 1]
Chose(q, s)    == [q EXCEPT !.at = "append", !.start = s]
HasRead(q, s, f) == [q EXCEPT !.at = s, !.lines = f]
LEMMA RequestSteps ==
  ASSUME NEW q \in Requested
  PROVE  /\ \A s \in Creating \cup Removing :
               /\ ToStep(q, s) \in Requested /\ ToStep(q, s).at = s /\ ToStep(q, s).name = q.name
               /\ ToStep(q, s).lines = q.lines /\ ToStep(q, s).start = q.start
         /\ Looks(q) \in Requested /\ Looks(q).at = "next" /\ Looks(q).name = q.name /\ Looks(q).lines = q.lines
         /\ \A s \in Nat : /\ Chose(q, s) \in Requested /\ Chose(q, s).at = "append" /\ Chose(q, s).name = q.name
                           /\ Chose(q, s).lines = q.lines /\ Chose(q, s).start = s
         /\ \A s \in Creating \cup Removing, f \in Lines :
               /\ HasRead(q, s, f) \in Requested /\ HasRead(q, s, f).at = s /\ HasRead(q, s, f).name = q.name
               /\ HasRead(q, s, f).lines = f /\ HasRead(q, s, f).start = q.start
<1> DEFINE A == Creating \cup Removing \cup {"idle"}
           N == Accounts \cup {"none"}
<1>1. Requested = [at : A, name : N, tries : Nat, start : Nat, lines : Lines]
    BY DEF Requested
<1>2. "next" \in A /\ "append" \in A /\ \A s \in Creating \cup Removing : s \in A
    BY DEF Creating, Locked
<1> HIDE DEF A, N
<1>3. \A s \in Creating \cup Removing :
               /\ ToStep(q, s) \in Requested /\ ToStep(q, s).at = s /\ ToStep(q, s).name = q.name
               /\ ToStep(q, s).lines = q.lines /\ ToStep(q, s).start = q.start
    BY <1>1, <1>2 DEF ToStep
<1>4. Looks(q) \in Requested /\ Looks(q).at = "next" /\ Looks(q).name = q.name /\ Looks(q).lines = q.lines
  <2>1. q.tries + 1 \in Nat
      BY <1>1
  <2> QED
      BY <2>1, <1>1, <1>2 DEF Looks
<1>5. \A s \in Nat : /\ Chose(q, s) \in Requested /\ Chose(q, s).at = "append" /\ Chose(q, s).name = q.name
                     /\ Chose(q, s).lines = q.lines /\ Chose(q, s).start = s
    BY <1>1, <1>2 DEF Chose
<1>6. \A s \in Creating \cup Removing, f \in Lines :
               /\ HasRead(q, s, f) \in Requested /\ HasRead(q, s, f).at = s /\ HasRead(q, s, f).name = q.name
               /\ HasRead(q, s, f).lines = f /\ HasRead(q, s, f).start = q.start
    BY <1>1, <1>2 DEF HasRead
<1> QED
    BY <1>3, <1>4, <1>5, <1>6

\* What holds of a request that makes a step.
LEMMA StepOf ==
  ASSUME BlocksInv, NEW r \in Creators, req[r].at # "idle"
  PROVE  /\ req[r] \in Requested /\ req[r].name \in Accounts /\ Standing(req[r]) /\ Bounded(req[r].lines)
         /\ req[r].at \in Locked => lock = r
         /\ ~lost => Informed(req[r])
         /\ DOMAIN req = Creators /\ DOMAIN account = Accounts
         /\ subuid \in Lines /\ Bounded(subuid)
         /\ SubIDs!Idle \in Requested /\ SubIDs!Idle.at = "idle" /\ Standing(SubIDs!Idle) /\ Informed(SubIDs!Idle)
<1>1. SubIDs!Idle \in Requested /\ SubIDs!Idle.at = "idle" /\ Bounded(SubIDs!Idle.lines)
    BY BegunRequests
<1>2. Standing(SubIDs!Idle) /\ Informed(SubIDs!Idle)
    BY <1>1 DEF Standing, Informed, Creating, Locked, Removing
<1> QED
    BY <1>1, <1>2 DEF BlocksInv, AccountsTyped, Standing, LockIsHeld

\* A step of one request that writes the file.
LEMMA FileMoves ==
  ASSUME BlocksInv, NEW r \in Creators, NEW q \in Requested, req' = [req EXCEPT ![r] = q],
         UNCHANGED <<account, lock>>, lost' \in BOOLEAN, lost => lost',
         subuid' \in Lines, Bounded(subuid'),
         q.at # "idle" => q.name = req[r].name, req[r].at # "idle",
         Standing(q), q.at \notin {"rest", "append", "write", "dropwrite"},
         q.at \in Locked => req[r].at \in Locked,
         ~lost' => Apart(subuid') /\ Keeps(subuid'),
         ~lost' => \A o \in Creators \ {r} : req[o].at = "append" => Above(subuid', req[o].start)
  PROVE  BlocksInv'
<1>1. AccountsTyped /\ OneAtATime /\ LockIsHeld
    BY DEF BlocksInv
<1>2. \A o \in Creators : req'[o] = IF o = r THEN q ELSE req[o]
    BY <1>1 DEF AccountsTyped
<1>3. AccountsTyped'
    BY <1>1 DEF AccountsTyped, Bounded
<1>4. OneAtATime' /\ LockIsHeld'
    BY <1>1, <1>2 DEF OneAtATime, LockIsHeld
<1>5. \A o \in Creators : Standing(req[o])'
  <2>1. \A o \in Creators : Standing(req'[o])
      BY <1>2 DEF BlocksInv
  <2> QED
      BY <2>1 DEF Standing, Bounded, SubIDs!Idle, SubIDs!NoOne, SubIDs!NoLines
<1>6. \A n \in Accounts : Owed(n)' => Owed(n)
    BY <1>2 DEF Owed
<1>7. ASSUME ~lost' PROVE Apart(subuid)' /\ Keeps(subuid)' /\ \A o \in Creators : Informed(req[o])'
  <2>1. ~lost
      BY <1>7
  <2>2. Keeps(subuid)'
      BY <1>7, <1>6 DEF Keeps, SubIDs!Has
  <2>3. Apart(subuid)'
      BY <1>7 DEF Apart
  <2>4. ASSUME NEW o \in Creators, o = r PROVE Informed(req[o])'
      BY <1>2, <2>4 DEF Informed
  <2>5. ASSUME NEW o \in Creators, o # r PROVE Informed(req[o])'
    <3>1. req'[o] = req[o] /\ Informed(req[o])
        BY <2>1, <2>5, <1>2 DEF BlocksInv
    <3>2. req'[o].at = "append" => Above(subuid', req'[o].start)
        BY <3>1, <2>5, <1>7
    <3>3. req'[o].at = "write" => Above(req'[o].lines, req'[o].start)
        BY <3>1 DEF Informed
    <3>4. req'[o].at \in {"write", "dropwrite"} => Apart(req'[o].lines) /\ Keeps(req'[o].lines)
        BY <3>1 DEF Informed
    <3>5. Keeps(req'[o].lines) => Keeps(req[o].lines)'
        BY <1>6 DEF Keeps, SubIDs!Has
    <3> QED
        BY <3>2, <3>3, <3>4, <3>5 DEF Informed, Apart, Above
  <2> QED
      BY <2>2, <2>3, <2>4, <2>5
<1> QED
    BY <1>3, <1>4, <1>5, <1>7 DEF BlocksInv

\* A step of one request that changes the account it is about, and owes nobody more than before.
LEMMA AccountMoves ==
  ASSUME BlocksInv, NEW r \in Creators, NEW q \in Requested, req' = [req EXCEPT ![r] = q],
         NEW n \in Accounts, NEW v \in {"none", "half", "member"}, account' = [account EXCEPT ![n] = v],
         UNCHANGED <<subuid, lock, lost>>,
         \A o \in Creators \ {r} : req[o].at # "idle" => req[o].name # n,
         q.at # "idle" => q.name = n, q.at \in {"idle", "lock", "archive"},
         Bounded(q.lines), q.at = "idle" => q = SubIDs!Idle,
         q.at = "lock" => v = "half", q.at = "archive" => v = "none",
         v = "member" => Owed(n)
  PROVE  BlocksInv'
<1>1. AccountsTyped /\ OneAtATime /\ LockIsHeld
    BY DEF BlocksInv
<1>2. /\ \A o \in Creators : req'[o] = IF o = r THEN q ELSE req[o]
      /\ \A m \in Accounts : account'[m] = IF m = n THEN v ELSE account[m]
    BY <1>1 DEF AccountsTyped
<1>3. AccountsTyped'
    BY <1>1 DEF AccountsTyped, Bounded
<1>4. OneAtATime' /\ LockIsHeld'
    BY <1>1, <1>2 DEF OneAtATime, LockIsHeld, Locked
<1>5. \A o \in Creators : Standing(req[o])'
  <2>1. ASSUME NEW o \in Creators, o = r PROVE Standing(req[o])'
    <3>1. req'[o] = q
        BY <1>2, <2>1
    <3>2. SubIDs!Idle = SubIDs!Idle'
        BY DEF SubIDs!Idle, SubIDs!NoOne, SubIDs!NoLines
    <3>3. account'[n] = v
        BY <1>2
    <3> QED
        BY <3>1, <3>2, <3>3 DEF Standing, Bounded, Creating, Locked, Removing
  <2>2. ASSUME NEW o \in Creators, o # r PROVE Standing(req[o])'
    <3>1. req'[o] = req[o] /\ Standing(req[o]) /\ (req[o].at # "idle" => req[o].name # n)
        BY <1>2, <2>2 DEF BlocksInv
    <3>2. SubIDs!Idle = SubIDs!Idle'
        BY DEF SubIDs!Idle, SubIDs!NoOne, SubIDs!NoLines
    <3>3. req[o].at # "idle" => account'[req[o].name] = account[req[o].name]
        BY <1>2, <3>1 DEF Standing
    <3>4. "idle" \notin Creating \cup Removing
        BY DEF Creating, Locked, Removing
    <3> QED
        BY <3>1, <3>2, <3>3, <3>4 DEF Standing, Bounded
  <2> QED
      BY <2>1, <2>2
<1>6. \A m \in Accounts : Owed(m)' => Owed(m)
    BY <1>2 DEF Owed
<1>7. ASSUME ~lost PROVE Apart(subuid)' /\ Keeps(subuid)' /\ \A o \in Creators : Informed(req[o])'
  <2>1. Apart(subuid) /\ Keeps(subuid)
      BY <1>7 DEF BlocksInv
  <2>2. Keeps(subuid)'
      BY <2>1, <1>6 DEF Keeps, SubIDs!Has
  <2>3. ASSUME NEW o \in Creators, o = r PROVE Informed(req[o])'
      BY <1>2, <2>3 DEF Informed
  <2>4. ASSUME NEW o \in Creators, o # r PROVE Informed(req[o])'
    <3>1. req'[o] = req[o] /\ Informed(req[o])
        BY <1>7, <2>4, <1>2 DEF BlocksInv
    <3>2. Keeps(req'[o].lines) => Keeps(req[o].lines)'
        BY <1>6 DEF Keeps, SubIDs!Has
    <3> QED
        BY <3>1, <3>2 DEF Informed, Apart, Above
  <2> QED
      BY <2>1, <2>2, <2>3, <2>4 DEF Apart
<1> QED
    BY <1>3, <1>4, <1>5, <1>7 DEF BlocksInv

LEMMA AccountSteps ==
  ASSUME BlocksInv, NEW r \in Creators, NEW n \in Accounts
  PROVE  /\ SubIDs!Create(r, n) => BlocksInv'
         /\ SubIDs!Userdel(r, n) => BlocksInv'
<1> DEFINE c == SubIDs!Begun("lock", n)
           d == SubIDs!Begun("archive", n)
<1>1. /\ c \in Requested /\ c.at = "lock" /\ c.name = n /\ Bounded(c.lines)
      /\ d \in Requested /\ d.at = "archive" /\ d.name = n /\ Bounded(d.lines)
    BY BegunRequests DEF Creating, Removing
<1>2. SubIDs!Idle.at = "idle"
    BY BegunRequests
<1>3. ~SubIDs!Busy(n) => \A o \in Creators : req[o].at # "idle" => req[o].name # n
    BY <1>2 DEF SubIDs!Busy
<1>4. ASSUME SubIDs!Create(r, n) PROVE BlocksInv'
  <2>1. /\ req' = [req EXCEPT ![r] = c] /\ account' = [account EXCEPT ![n] = "half"]
        /\ UNCHANGED <<subuid, lock, lost>> /\ ~SubIDs!Busy(n)
      BY <1>4 DEF SubIDs!Create
  <2> HIDE DEF c
  <2> QED
      BY ZenonT(60), <1>1, <1>3, <2>1, AccountMoves
<1>5. ASSUME SubIDs!Userdel(r, n) PROVE BlocksInv'
  <2>1. /\ req' = [req EXCEPT ![r] = d] /\ account' = [account EXCEPT ![n] = "none"]
        /\ UNCHANGED <<subuid, lock, lost>> /\ ~SubIDs!Busy(n)
      BY <1>5 DEF SubIDs!Userdel
  <2> HIDE DEF d
  <2> QED
      BY ZenonT(60), <1>1, <1>3, <2>1, AccountMoves
<1> QED
    BY <1>4, <1>5

LEMMA CreatedSteps ==
  ASSUME BlocksInv, NEW r \in Creators
  PROVE  /\ SubIDs!Created(r) => BlocksInv'
         /\ SubIDs!CreateFails(r) => BlocksInv'
<1> SUFFICES ASSUME SubIDs!Created(r) \/ SubIDs!CreateFails(r) PROVE BlocksInv'
    OBVIOUS
<1>0. req[r].at = "rest"
    BY DEF SubIDs!Created, SubIDs!CreateFails, SubIDs!At
<1> DEFINE n == req[r].name
           q == SubIDs!Idle
<1>1. /\ n \in Accounts /\ q \in Requested /\ q.at = "idle" /\ Standing(q) /\ Informed(q)
    BY <1>0, StepOf
<1>2. Bounded(q.lines)
    BY <1>1 DEF Standing
<1>3. \A o \in Creators \ {r} : req[o].at # "idle" => req[o].name # n
    BY <1>0 DEF BlocksInv, OneAtATime
<1>4. Owed(n)
    BY <1>0 DEF Owed
<1>5. ASSUME SubIDs!Created(r) PROVE BlocksInv'
  <2>1. /\ req' = [req EXCEPT ![r] = q] /\ account' = [account EXCEPT ![n] = "member"]
        /\ UNCHANGED <<subuid, lock, lost>>
      BY <1>5 DEF SubIDs!Created
  <2> HIDE DEF q, n
  <2>2. q = SubIDs!Idle
      BY DEF q
  <2> QED
      BY <1>1, <1>2, <1>3, <1>4, <2>1, <2>2, AccountMoves
<1>6. ASSUME SubIDs!CreateFails(r) PROVE BlocksInv'
  <2>1. /\ req' = [req EXCEPT ![r] = q] /\ UNCHANGED <<account, subuid, lock, lost>>
      BY <1>6 DEF SubIDs!CreateFails
  <2> HIDE DEF q
  <2>2. LockIsHeld'
      BY <1>0, <1>1, <2>1 DEF BlocksInv, LockIsHeld, AccountsTyped, Locked
  <2> QED
      BY <1>0, <1>1, <2>1, <2>2, OneMoves
<1> QED
    BY <1>5, <1>6

\* The lock, and what is read under it.
LEMMA LockSteps ==
  ASSUME RequestsAreSomebody, BlocksInv, NEW r \in Creators
  PROVE  /\ SubIDs!Lock(r) => BlocksInv'
         /\ SubIDs!Look(r) => BlocksInv'
<1>1. ASSUME SubIDs!Lock(r) PROVE BlocksInv'
  <2> DEFINE q == ToStep(req[r], "has")
  <2>1. /\ req[r].at = "lock" /\ lock = "none" /\ lock' = r
        /\ req' = [req EXCEPT ![r].at = "has"] /\ UNCHANGED <<account, subuid, lost>>
      BY <1>1 DEF SubIDs!Lock, SubIDs!At, SubIDs!Goes, SubIDs!NoOne
  <2>2. /\ req[r] \in Requested /\ req[r].name \in Accounts /\ Standing(req[r])
        /\ DOMAIN req = Creators /\ (~lost => Informed(req[r]))
      BY <2>1, StepOf
  <2>3. req' = [req EXCEPT ![r] = q]
      BY <2>1, <2>2 DEF ToStep
  <2>4. q \in Requested /\ q.at = "has" /\ q.name = req[r].name /\ q.lines = req[r].lines
      BY <2>2, RequestSteps DEF Creating, Locked
  <2> HIDE DEF q
  <2>5. Standing(q)
      BY <2>1, <2>2, <2>4 DEF Standing, Creating, Removing, Locked
  <2>6. Informed(q)
      BY <2>4 DEF Informed
  <2>7. \A o \in Creators : req[o].at \notin Locked
      BY <2>1 DEF BlocksInv, LockIsHeld, RequestsAreSomebody
  <2>8. LockIsHeld'
      BY <2>1, <2>2, <2>3, <2>7 DEF LockIsHeld
  <2> QED
      BY <2>1, <2>3, <2>4, <2>5, <2>6, <2>8, OneMoves
<1>2. ASSUME SubIDs!Look(r) PROVE BlocksInv'
  <2>1. req[r].at = "has" /\ "has" \in Locked
      BY <1>2 DEF SubIDs!Look, SubIDs!At, Locked
  <2>2. /\ req[r] \in Requested /\ req[r].name \in Accounts /\ Standing(req[r])
        /\ DOMAIN req = Creators /\ lock = r
        /\ SubIDs!Idle \in Requested /\ SubIDs!Idle.at = "idle" /\ Standing(SubIDs!Idle) /\ Informed(SubIDs!Idle)
      BY <2>1, StepOf
  <2> DEFINE a == ToStep(req[r], "last")
             b == Looks(req[r])
             c == SubIDs!Idle
  <2>3. /\ UNCHANGED <<account, subuid, lost>>
        /\ \/ req' = [req EXCEPT ![r] = a] /\ lock' = lock
           \/ req' = [req EXCEPT ![r] = b] /\ lock' = lock
           \/ req' = [req EXCEPT ![r] = c] /\ lock' = "none"
    <3>1. CASE SubIDs!Has(subuid, req[r].name)
        BY <3>1, <1>2, <2>2 DEF SubIDs!Look, SubIDs!Goes, ToStep
    <3>2. CASE ~SubIDs!Has(subuid, req[r].name) /\ req[r].tries < Attempts
        BY <3>2, <1>2, <2>2 DEF SubIDs!Look, SubIDs!Goes, Looks
    <3>3. CASE ~SubIDs!Has(subuid, req[r].name) /\ ~(req[r].tries < Attempts)
        BY <3>3, <1>2, <2>2 DEF SubIDs!Look, SubIDs!Fails, SubIDs!NoOne
    <3> QED
        BY <3>1, <3>2, <3>3
  <2>4. /\ a \in Requested /\ a.at = "last" /\ a.name = req[r].name /\ a.lines = req[r].lines
        /\ b \in Requested /\ b.at = "next" /\ b.name = req[r].name /\ b.lines = req[r].lines
      BY SMTT(60), <2>2, RequestSteps DEF Creating, Locked
  <2>5. c \in Requested /\ c.at = "idle" /\ Standing(c) /\ Informed(c)
      BY <2>2
  <2> HIDE DEF a, b, c
  <2>6. Standing(a) /\ Standing(b) /\ Informed(a) /\ Informed(b)
      BY <2>1, <2>2, <2>4 DEF Standing, Informed, Creating, Removing, Locked
  <2>7. \A o \in Creators : req[o].at \in Locked => o = r
      BY <2>2 DEF BlocksInv, LockIsHeld
  <2>8. LockIsHeld'
    <3>1. CASE lock' = r
        BY <3>1, <2>2, <2>3, <2>7 DEF LockIsHeld
    <3>2. CASE req' = [req EXCEPT ![r] = c]
      <4>1. \A o \in Creators : req'[o].at \notin Locked
          BY <3>2, <2>2, <2>5, <2>7 DEF Locked
      <4> QED
          BY <4>1 DEF LockIsHeld
    <3> QED
        BY <2>2, <2>3, <3>1, <3>2
  <2>9. CASE req' = [req EXCEPT ![r] = a]
      BY <2>1, <2>3, <2>4, <2>6, <2>8, <2>9, OneMoves
  <2>10. CASE req' = [req EXCEPT ![r] = b]
      BY <2>1, <2>3, <2>4, <2>6, <2>8, <2>10, OneMoves
  <2>11. CASE req' = [req EXCEPT ![r] = c]
      BY <2>1, <2>3, <2>5, <2>8, <2>11, OneMoves
  <2> QED
      BY <2>3, <2>9, <2>10, <2>11
<1> QED
    BY <1>1, <1>2

LEMMA ReadSteps ==
  ASSUME BlocksInv, NEW r \in Creators
  PROVE  /\ SubIDs!Choose(r) => BlocksInv'
         /\ SubIDs!ReadForAppend(r) => BlocksInv'
         /\ SubIDs!ReadForDrop(r) => BlocksInv'
         /\ SubIDs!ReadForRemove(r) => BlocksInv'
<1>1. ASSUME SubIDs!Choose(r) PROVE BlocksInv'
  <2> DEFINE s == SubIDs!NextFree(subuid)
             q == Chose(req[r], s)
  <2>1. /\ req[r].at = "next" /\ UNCHANGED <<account, subuid, lock, lost>>
        /\ req' = [req EXCEPT ![r].at = "append", ![r].start = s]
      BY <1>1 DEF SubIDs!Choose, SubIDs!At
  <2>2. /\ req[r] \in Requested /\ Standing(req[r]) /\ DOMAIN req = Creators
        /\ subuid \in Lines /\ Bounded(subuid)
      BY <2>1, StepOf
  <2>3. s \in Nat /\ Above(subuid, s)
      BY <2>2, NextIsAbove
  <2> HIDE DEF s
  <2>4. req' = [req EXCEPT ![r] = q]
      BY <2>1, <2>2 DEF Chose
  <2>5. q \in Requested /\ q.at = "append" /\ q.name = req[r].name /\ q.lines = req[r].lines /\ q.start = s
      BY <2>2, <2>3, RequestSteps
  <2> HIDE DEF q
  <2>6. Standing(q) /\ Informed(q)
      BY <2>1, <2>2, <2>3, <2>5 DEF Standing, Informed, Creating, Removing, Locked
  <2>7. LockIsHeld'
      BY <2>1, <2>2, <2>4, <2>5 DEF LockIsHeld, BlocksInv, Locked
  <2> QED
      BY <2>1, <2>4, <2>5, <2>6, <2>7, OneMoves
<1>2. ASSUME NEW at, NEW to, SubIDs!Read(r, at, to),
             <<at, to>> \in {<<"append", "write">>, <<"drop", "dropwrite">>, <<"remove", "removewrite">>}
      PROVE  BlocksInv'
  <2> DEFINE q == HasRead(req[r], to, subuid)
  <2>1. /\ req[r].at = at /\ UNCHANGED <<account, subuid, lock, lost>>
        /\ req' = [req EXCEPT ![r].at = to, ![r].lines = subuid]
      BY <1>2 DEF SubIDs!Read, SubIDs!At
  <2>2. at # "idle" /\ to # "idle" /\ to # "rest" /\ to # "append" /\ to \in Creating \cup Removing
      BY <1>2 DEF Creating, Removing, Locked
  <2>3. /\ req[r] \in Requested /\ Standing(req[r]) /\ DOMAIN req = Creators
        /\ subuid \in Lines /\ Bounded(subuid) /\ (~lost => Informed(req[r]))
      BY <2>1, <2>2, StepOf
  <2>4. req' = [req EXCEPT ![r] = q]
      BY <2>1, <2>3 DEF HasRead
  <2>5. /\ q \in Requested /\ q.at = to /\ q.name = req[r].name /\ q.lines = subuid
        /\ q.start = req[r].start
      BY <2>2, <2>3, RequestSteps
  <2> HIDE DEF q
  <2>6. Standing(q)
    <3>1. (to \in Creating <=> at \in Creating) /\ (to \in Removing <=> at \in Removing)
        BY <1>2 DEF Creating, Removing, Locked
    <3> QED
        BY <2>1, <2>2, <2>3, <2>5, <3>1 DEF Standing
  <2>7. ~lost => Informed(q)
    <3>1. ~lost => Apart(subuid) /\ Keeps(subuid)
        BY DEF BlocksInv
    <3>2. to = "write" => at = "append"
        BY <1>2
    <3> QED
        BY <2>1, <2>2, <2>3, <2>5, <3>1, <3>2 DEF Informed
  <2>8. LockIsHeld'
    <3>1. to \in Locked => at \in Locked
        BY <1>2 DEF Locked
    <3> QED
        BY <2>1, <2>3, <2>4, <2>5, <3>1 DEF LockIsHeld, BlocksInv
  <2> QED
      BY <2>1, <2>2, <2>4, <2>5, <2>6, <2>7, <2>8, OneMoves
<1> QED
    BY <1>1, <1>2 DEF SubIDs!ReadForAppend, SubIDs!ReadForDrop, SubIDs!ReadForRemove

LEMMA CheckSteps ==
  ASSUME BlocksInv, NEW r \in Creators
  PROVE  /\ SubIDs!Check(r) => BlocksInv'
         /\ SubIDs!ArchiveHome(r) => BlocksInv'
<1>1. ASSUME SubIDs!Check(r) PROVE BlocksInv'
  <2>1. PICK to \in {"last", "drop"} : SubIDs!Goes(r, to)
    <3>1. SubIDs!Goes(r, IF SubIDs!Ours(subuid, req[r].name, req[r].start) THEN "last" ELSE "drop")
        BY <1>1 DEF SubIDs!Check
    <3>2. CASE SubIDs!Ours(subuid, req[r].name, req[r].start)
        BY <3>1, <3>2
    <3>3. CASE ~SubIDs!Ours(subuid, req[r].name, req[r].start)
        BY <3>1, <3>3
    <3> QED
        BY <3>2, <3>3
  <2> DEFINE q == ToStep(req[r], to)
  <2>2. /\ req[r].at = "check" /\ UNCHANGED <<account, subuid, lock, lost>>
        /\ req' = [req EXCEPT ![r].at = to]
      BY <1>1, <2>1 DEF SubIDs!Check, SubIDs!At, SubIDs!Goes
  <2>3. /\ req[r] \in Requested /\ Standing(req[r]) /\ DOMAIN req = Creators
      BY <2>2, StepOf
  <2>4. req' = [req EXCEPT ![r] = q]
      BY <2>2, <2>3 DEF ToStep
  <2>5. q \in Requested /\ q.at = to /\ q.name = req[r].name /\ q.lines = req[r].lines
    <3>1. to \in Creating \cup Removing
        BY DEF Creating, Locked
    <3> QED
        BY ZenonT(60), <2>3, <3>1, RequestSteps
  <2> HIDE DEF q
  <2>6. Standing(q) /\ Informed(q)
      BY <2>2, <2>3, <2>5 DEF Standing, Informed, Creating, Removing, Locked
  <2>7. LockIsHeld'
      BY <2>2, <2>3, <2>4, <2>5 DEF LockIsHeld, BlocksInv, Locked
  <2> QED
      BY <2>2, <2>4, <2>5, <2>6, <2>7, OneMoves
<1>2. ASSUME SubIDs!ArchiveHome(r) PROVE BlocksInv'
  <2> DEFINE a == ToStep(req[r], "remove")
             c == SubIDs!Idle
  <2>1. /\ req[r].at = "archive" /\ UNCHANGED <<account, subuid, lock, lost>>
        /\ \/ req' = [req EXCEPT ![r].at = "remove"]
           \/ req' = [req EXCEPT ![r] = c]
      BY <1>2 DEF SubIDs!ArchiveHome, SubIDs!At, SubIDs!Goes
  <2>2. /\ req[r] \in Requested /\ Standing(req[r]) /\ DOMAIN req = Creators
        /\ c \in Requested /\ c.at = "idle" /\ Standing(c) /\ Informed(c)
      BY <2>1, StepOf
  <2>3. a \in Requested /\ a.at = "remove" /\ a.name = req[r].name /\ a.lines = req[r].lines
    <3>1. "remove" \in Creating \cup Removing
        BY DEF Removing
    <3> QED
        BY ZenonT(60), <2>2, <3>1, RequestSteps
  <2>4. req' = [req EXCEPT ![r] = a] \/ req' = [req EXCEPT ![r] = c]
      BY <2>1, <2>2 DEF ToStep
  <2> HIDE DEF a, c
  <2>5. Standing(a) /\ Informed(a)
      BY <2>1, <2>2, <2>3 DEF Standing, Informed, Creating, Removing, Locked
  <2>6. LockIsHeld'
      BY <2>1, <2>2, <2>3, <2>4 DEF LockIsHeld, BlocksInv, Locked
  <2>7. CASE req' = [req EXCEPT ![r] = a]
      BY <2>1, <2>3, <2>5, <2>6, <2>7, OneMoves
  <2>8. CASE req' = [req EXCEPT ![r] = c]
      BY <2>1, <2>2, <2>6, <2>8, OneMoves
  <2> QED
      BY <2>4, <2>7, <2>8
<1> QED
    BY <1>1, <1>2

\* The writes of who has the lock: nobody else is between its read and its write.
LEMMA WriteSteps ==
  ASSUME BlocksInv, NEW r \in Creators
  PROVE  /\ SubIDs!AppendBlock(r) => BlocksInv'
         /\ SubIDs!DropWrite(r) => BlocksInv'
<1>1. ASSUME SubIDs!AppendBlock(r) PROVE BlocksInv'
  <2> DEFINE q == ToStep(req[r], "check")
             f == req[r].lines
             y == [name |-> req[r].name, start |-> req[r].start]
             g == SubIDs!With(f, y)
  <2>1. /\ req[r].at = "write" /\ UNCHANGED <<account, lock, lost>>
        /\ req' = [req EXCEPT ![r].at = "check"] /\ subuid' = g
      BY <1>1 DEF SubIDs!AppendBlock, SubIDs!At, SubIDs!Goes
  <2>2. /\ req[r] \in Requested /\ req[r].name \in Accounts /\ Standing(req[r]) /\ DOMAIN req = Creators
        /\ Bounded(f) /\ (~lost => Informed(req[r])) /\ lock = r
      BY <2>1, StepOf DEF Locked
  <2>3. f \in Lines /\ y \in Line /\ y.start = req[r].start
      BY <2>2 DEF Requested, Line
  <2>4. req' = [req EXCEPT ![r] = q]
      BY <2>1, <2>2 DEF ToStep
  <2>5. q \in Requested /\ q.at = "check" /\ q.name = req[r].name /\ q.lines = req[r].lines
      BY <2>2, RequestSteps DEF Creating, Locked
  <2> HIDE DEF q, y
  <2>6. /\ g \in Lines /\ Bounded(g) /\ DOMAIN g = DOMAIN f \cup {y}
        /\ Apart(f) /\ Above(f, y.start) => Apart(g)
      BY <2>2, <2>3, WithLine
  <2> HIDE DEF g
  <2>7. Standing(q)
      BY <2>1, <2>2, <2>5 DEF Standing, Creating, Removing, Locked
  <2>8. ~lost => Apart(g) /\ Keeps(g)
    <3>1. ~lost => Above(f, y.start) /\ Apart(f) /\ Keeps(f)
        BY <2>1, <2>2, <2>3 DEF Informed
    <3>2. Keeps(f) => Keeps(g)
        BY <2>6 DEF Keeps, SubIDs!Has
    <3> QED
        BY <2>6, <3>1, <3>2
  <2>9. \A o \in Creators \ {r} : req[o].at # "append"
      BY <2>2 DEF BlocksInv, LockIsHeld, Locked
  <2>10. lost \in BOOLEAN
      BY DEF BlocksInv, AccountsTyped
  <2>11. q.at \in Locked => req[r].at \in Locked
      BY <2>1 DEF Locked
  <2>12. lost' \in BOOLEAN /\ (lost => lost') /\ (~lost' => Apart(subuid') /\ Keeps(subuid'))
      BY <2>1, <2>8, <2>10
  <2>13. subuid' \in Lines /\ Bounded(subuid')
      BY <2>1, <2>6
  <2>14. q.at \notin {"rest", "append", "write", "dropwrite"} /\ req[r].at # "idle"
      BY <2>1, <2>5
  <2> QED
      BY <2>1, <2>4, <2>5, <2>7, <2>9, <2>11, <2>12, <2>13, <2>14, FileMoves
<1>2. ASSUME SubIDs!DropWrite(r) PROVE BlocksInv'
  <2> DEFINE q == ToStep(req[r], "has")
             n == req[r].name
             f == req[r].lines
             g == SubIDs!Drop(f, n)
  <2>1. /\ req[r].at = "dropwrite" /\ UNCHANGED <<account, lock, lost>>
        /\ req' = [req EXCEPT ![r].at = "has"] /\ (subuid' = g \/ subuid' = subuid)
      BY <1>2 DEF SubIDs!DropWrite, SubIDs!At, SubIDs!Goes, SubIDs!Rewrite
  <2>2. /\ req[r] \in Requested /\ n \in Accounts /\ Standing(req[r]) /\ DOMAIN req = Creators
        /\ Bounded(f) /\ (~lost => Informed(req[r])) /\ lock = r
        /\ subuid \in Lines /\ Bounded(subuid)
      BY <2>1, StepOf DEF Locked
  <2>3. f \in Lines
      BY <2>2 DEF Requested
  <2>4. req' = [req EXCEPT ![r] = q]
      BY <2>1, <2>2 DEF ToStep
  <2>5. q \in Requested /\ q.at = "has" /\ q.name = req[r].name /\ q.lines = req[r].lines
      BY <2>2, RequestSteps DEF Creating, Locked
  <2>6. /\ g \in Lines /\ Bounded(g) /\ DOMAIN g = {x \in DOMAIN f : x.name # n}
        /\ Apart(f) => Apart(g)
      BY <2>2, <2>3, WithoutName
  <2> HIDE DEF q, g
  <2>7. Standing(q)
      BY <2>1, <2>2, <2>5 DEF Standing, Creating, Removing, Locked
  <2>8. ~lost => Apart(subuid') /\ Keeps(subuid')
    <3>1. ~Owed(n)
      <4>1. account[n] = "half"
          BY <2>1, <2>2 DEF Standing, Creating, Locked
      <4>2. \A o \in Creators : req[o].at = "rest" => req[o].name # n
        <5>1. \A o \in Creators : req[o].at = "rest" /\ req[o].name = n => o = r
            BY <2>1 DEF BlocksInv, OneAtATime
        <5> QED
            BY <5>1, <2>1
      <4> QED
          BY <4>1, <4>2 DEF Owed
    <3>2. Keeps(f) => Keeps(g)
        BY <3>1, <2>6 DEF Keeps, SubIDs!Has
    <3>3. ~lost => Apart(f) /\ Keeps(f) /\ Apart(subuid) /\ Keeps(subuid)
        BY <2>1, <2>2 DEF Informed, BlocksInv
    <3> QED
        BY <2>1, <2>6, <3>2, <3>3
  <2>9. \A o \in Creators \ {r} : req[o].at # "append"
      BY <2>2 DEF BlocksInv, LockIsHeld, Locked
  <2>10. lost \in BOOLEAN
      BY DEF BlocksInv, AccountsTyped
  <2>11. q.at \in Locked => req[r].at \in Locked
      BY <2>1 DEF Locked
  <2>12. lost' \in BOOLEAN /\ (lost => lost') /\ (~lost' => Apart(subuid') /\ Keeps(subuid'))
      BY <2>1, <2>8, <2>10
  <2>13. subuid' \in Lines /\ Bounded(subuid')
      BY <2>1, <2>2, <2>6
  <2>14. q.at \notin {"rest", "append", "write", "dropwrite"} /\ req[r].at # "idle"
      BY <2>1, <2>5
  <2> QED
      BY <2>1, <2>4, <2>5, <2>7, <2>9, <2>11, <2>12, <2>13, <2>14, FileMoves
<1> QED
    BY <1>1, <1>2

\* The last word of a create, and the removal, which writes without the lock.
LEMMA LastWordStep ==
  ASSUME BlocksInv, NEW r \in Creators, SubIDs!LastWord(r)
  PROVE  BlocksInv'
<1> DEFINE a == ToStep(req[r], "rest")
           c == SubIDs!Idle
           n == req[r].name
<1>1. req[r].at = "last" /\ "last" \in Locked
    BY DEF SubIDs!LastWord, SubIDs!At, Locked
<1>2. /\ req[r] \in Requested /\ n \in Accounts /\ Standing(req[r]) /\ DOMAIN req = Creators
      /\ lock = r /\ Bounded(req[r].lines)
      /\ c \in Requested /\ c.at = "idle" /\ Standing(c) /\ Informed(c)
    BY <1>1, StepOf
<1>3. /\ UNCHANGED <<account, subuid, lost>> /\ lock' = "none"
      /\ \/ req' = [req EXCEPT ![r] = a] /\ SubIDs!Has(subuid, n)
         \/ req' = [req EXCEPT ![r] = c]
  <2>1. CASE SubIDs!Has(subuid, n)
      BY <2>1, <1>2 DEF SubIDs!LastWord, SubIDs!Goes, SubIDs!NoOne, ToStep
  <2>2. CASE ~SubIDs!Has(subuid, n)
      BY <2>2, <1>2 DEF SubIDs!LastWord, SubIDs!Fails, SubIDs!NoOne
  <2> QED
      BY <2>1, <2>2
<1>4. a \in Requested /\ a.at = "rest" /\ a.name = n /\ a.lines = req[r].lines
  <2>1. "rest" \in Creating \cup Removing
      BY DEF Creating
  <2> QED
      BY <1>2, <2>1, RequestSteps
<1> HIDE DEF a, c
<1>5. \A o \in Creators \ {r} : req[o].at \notin Locked
    BY <1>2 DEF BlocksInv, LockIsHeld
<1>6. LockIsHeld'
    BY <1>2, <1>3, <1>4, <1>5 DEF LockIsHeld, Locked
<1>7. CASE req' = [req EXCEPT ![r] = c]
    BY <1>1, <1>2, <1>3, <1>6, <1>7, OneMoves
<1>8. CASE req' = [req EXCEPT ![r] = a] /\ SubIDs!Has(subuid, n)
  <2>1. AccountsTyped /\ OneAtATime
      BY DEF BlocksInv
  <2>2. \A o \in Creators : req'[o] = IF o = r THEN a ELSE req[o]
      BY <1>2, <1>8
  <2>3. AccountsTyped'
      BY <1>2, <1>3, <1>4, <1>8, <2>1 DEF AccountsTyped, Bounded
  <2>4. OneAtATime'
      BY <1>1, <1>4, <2>1, <2>2 DEF OneAtATime
  <2>5. Standing(a)
      BY <1>1, <1>2, <1>4 DEF Standing, Creating, Removing, Locked
  <2>6. \A o \in Creators : Standing(req[o])'
    <3>1. \A o \in Creators : Standing(req'[o])
        BY <2>2, <2>5 DEF BlocksInv
    <3> QED
        BY <1>3, <3>1 DEF Standing, Bounded, SubIDs!Idle, SubIDs!NoOne, SubIDs!NoLines
  <2>7. \A m \in Accounts : Owed(m)' => Owed(m) \/ m = n
      BY <1>3, <1>4, <2>2 DEF Owed
  <2>8. ASSUME ~lost PROVE Apart(subuid)' /\ Keeps(subuid)' /\ \A o \in Creators : Informed(req[o])'
    <3>1. Apart(subuid) /\ Keeps(subuid)
        BY <2>8 DEF BlocksInv
    <3>2. Keeps(subuid)'
        BY <1>3, <1>8, <2>7, <3>1 DEF Keeps, SubIDs!Has
    <3>3. ASSUME NEW o \in Creators PROVE req'[o].at \notin {"append", "write", "dropwrite"}
        BY <1>4, <1>5, <2>2 DEF Locked
    <3> QED
        BY <1>3, <3>1, <3>2, <3>3 DEF Informed, Apart
  <2> QED
      BY <1>3, <1>6, <2>3, <2>4, <2>6, <2>8 DEF BlocksInv
<1> QED
    BY <1>3, <1>7, <1>8

LEMMA RemoveWriteStep ==
  ASSUME BlocksInv, NEW r \in Creators, SubIDs!RemoveWrite(r)
  PROVE  BlocksInv'
<1> DEFINE c == SubIDs!Idle
           n == req[r].name
           f == req[r].lines
           g == SubIDs!Drop(f, n)
<1>1. /\ req[r].at = "removewrite" /\ UNCHANGED <<account, lock>>
      /\ req' = [req EXCEPT ![r] = c] /\ (subuid' = g \/ subuid' = subuid)
      /\ lost' = (lost \/ subuid # f)
    BY DEF SubIDs!RemoveWrite, SubIDs!At, SubIDs!Rewrite
<1>2. /\ req[r] \in Requested /\ n \in Accounts /\ Standing(req[r]) /\ Bounded(f)
      /\ subuid \in Lines /\ Bounded(subuid)
      /\ c \in Requested /\ c.at = "idle" /\ Standing(c)
    BY <1>1, StepOf
<1>3. f \in Lines
    BY <1>2 DEF Requested
<1>4. /\ g \in Lines /\ Bounded(g) /\ DOMAIN g = {x \in DOMAIN f : x.name # n}
      /\ Apart(f) => Apart(g)
    BY <1>2, <1>3, WithoutName
<1> HIDE DEF c, g
<1>5. subuid' \in Lines /\ Bounded(subuid')
    BY <1>1, <1>2, <1>4
<1>6. ~Owed(n)
  <2>1. account[n] = "none"
      BY <1>1, <1>2 DEF Standing, Removing
  <2>2. \A o \in Creators : req[o].at = "rest" => req[o].name # n
    <3>1. \A o \in Creators : req[o].at = "rest" /\ req[o].name = n => o = r
        BY <1>1 DEF BlocksInv, OneAtATime
    <3> QED
        BY <3>1, <1>1
  <2> QED
      BY <2>1, <2>2 DEF Owed
<1>7. ASSUME ~lost'
      PROVE  /\ Apart(subuid') /\ Keeps(subuid')
             /\ \A o \in Creators \ {r} : req[o].at = "append" => Above(subuid', req[o].start)
  <2>1. ~lost /\ subuid = f
      BY <1>1, <1>7
  <2>2. Apart(f) /\ Keeps(f) /\ \A o \in Creators : Informed(req[o])
      BY <2>1 DEF BlocksInv
  <2>3. Keeps(g)
      BY <1>4, <1>6, <2>2 DEF Keeps, SubIDs!Has
  <2>4. DOMAIN subuid' \subseteq DOMAIN f
      BY <1>1, <1>4, <2>1
  <2>5. \A o \in Creators : req[o].at = "append" => Above(f, req[o].start)
      BY <2>1, <2>2 DEF Informed
  <2>6. \A o \in Creators : req[o].at = "append" => Above(subuid', req[o].start)
      BY <2>4, <2>5 DEF Above
  <2> QED
      BY <1>1, <1>4, <2>1, <2>2, <2>3, <2>6
<1>8. lost' \in BOOLEAN /\ (lost => lost')
  <2>1. lost \in BOOLEAN
      BY DEF BlocksInv, AccountsTyped
  <2> QED
      BY <1>1, <2>1
<1> QED
    BY <1>1, <1>2, <1>5, <1>7, <1>8, FileMoves DEF Locked

\* No removal having written over what it had not read, the blocks are apart and every member has one.
THEOREM BlocksStayApart == ASSUME RequestsAreSomebody PROVE SubIDs!Spec => []SubIDs!BlocksAreApart
<1>1. SubIDs!Init => BlocksInv
    BY BlocksBegin
<1>2. BlocksInv /\ [SubIDs!Next]_SubIDs!vars => BlocksInv'
  <2> SUFFICES ASSUME BlocksInv, [SubIDs!Next]_SubIDs!vars PROVE BlocksInv'
      OBVIOUS
  <2>1. CASE UNCHANGED SubIDs!vars
    <3>1. /\ UNCHANGED <<account, subuid, lock, req, lost>>
        BY <2>1 DEF SubIDs!vars
    <3> QED
        BY <3>1 DEF BlocksInv, AccountsTyped, LockIsHeld, OneAtATime, Standing, Informed, Bounded, Above, Apart,
                    Keeps, Owed, SubIDs!Has, SubIDs!Idle, SubIDs!NoOne, SubIDs!NoLines
  <2>2. CASE SubIDs!Next
    <3>1. PICK r \in Creators :
             \/ \E n \in Accounts : SubIDs!Create(r, n) \/ SubIDs!Userdel(r, n)
             \/ SubIDs!Lock(r) \/ SubIDs!Look(r) \/ SubIDs!Choose(r) \/ SubIDs!ReadForAppend(r)
             \/ SubIDs!AppendBlock(r) \/ SubIDs!Check(r) \/ SubIDs!ReadForDrop(r) \/ SubIDs!DropWrite(r)
             \/ SubIDs!LastWord(r) \/ SubIDs!Created(r) \/ SubIDs!CreateFails(r)
             \/ SubIDs!ArchiveHome(r) \/ SubIDs!ReadForRemove(r) \/ SubIDs!RemoveWrite(r)
        BY <2>2 DEF SubIDs!Next
    <3>2. CASE \E n \in Accounts : SubIDs!Create(r, n) \/ SubIDs!Userdel(r, n)
        BY <3>2, AccountSteps
    <3>3. CASE SubIDs!Lock(r) \/ SubIDs!Look(r)
        BY <3>3, LockSteps
    <3>4. CASE SubIDs!Choose(r) \/ SubIDs!ReadForAppend(r) \/ SubIDs!ReadForDrop(r) \/ SubIDs!ReadForRemove(r)
        BY <3>4, ReadSteps
    <3>5. CASE SubIDs!AppendBlock(r) \/ SubIDs!DropWrite(r)
        BY <3>5, WriteSteps
    <3>6. CASE SubIDs!Check(r) \/ SubIDs!ArchiveHome(r)
        BY <3>6, CheckSteps
    <3>7. CASE SubIDs!Created(r) \/ SubIDs!CreateFails(r)
        BY <3>7, CreatedSteps
    <3>8. CASE SubIDs!LastWord(r)
        BY <3>8, LastWordStep
    <3>9. CASE SubIDs!RemoveWrite(r)
        BY <3>9, RemoveWriteStep
    <3> QED
        BY <3>1, <3>2, <3>3, <3>4, <3>5, <3>6, <3>7, <3>8, <3>9
  <2> QED
      BY <2>1, <2>2
<1>3. BlocksInv => SubIDs!BlocksAreApart
    BY DEF BlocksInv, Apart, Keeps, Owed, SubIDs!BlocksAreApart, SubIDs!MembersKeepABlock, SubIDs!Settled
<1> QED
    BY <1>1, <1>2, <1>3, PTL DEF SubIDs!Spec

-----------------------------------------------------------------------------
(* The tree of Files.                                                      *)

TreeNames == {"n", "m"}
Within == TreeDirs \cup TreeFiles
Kept   == Within \cup DOMAIN Leads \cup {"none"}

\* What is outside is none of what the owner may have.
WayOut ==
    /\ Root \in TreeDirs
    /\ {Outside.dir, Outside.n, Outside.m} \cap Kept = {}
    /\ \A given \in Trees : \A p \in DOMAIN given \cap (TreeDirs \X TreeNames) : given[p] \in Kept

\* What is entered from what is below the root is below it, and so is what a path of names leads to.
LEMMA EntersKept ==
  ASSUME child \in [TreeDirs \X TreeNames -> Kept], WayOut, NEW d \in Kept, NEW s \in TreeNames
  PROVE  Tree!Enter(d, s) \in Kept /\ Tree!In(d, s) \in Kept
<1>1. d # Outside.dir /\ "none" \in Kept
    BY DEF WayOut, Kept
<1>2. d \in TreeDirs => child[<<d, s>>] \in Kept
    OBVIOUS
<1>3. Tree!In(d, s) \in Kept
    BY <1>1, <1>2 DEF Tree!In, Tree!None
<1> QED
    BY <1>3 DEF Tree!Enter

\* The way is a function of how many names of the path have been entered.
Way(path_, n, g) == g = [i \in 0..n |-> IF i = 0 THEN Root ELSE Tree!Enter(g[i - 1], path_[i])]
LEMMA WayExists == ASSUME NEW p, NEW n \in Nat PROVE \E g : Way(p, n, g)
<1> DEFINE Without == {m \in Nat : ~(\E g : Way(p, m, g))}
<1> SUFFICES ASSUME Without # {} PROVE FALSE
    OBVIOUS
<1>1. Without \in SUBSET Nat
    OBVIOUS
<1> HIDE DEF Without
<1>2. PICK m \in Without : \A y \in Without : m <= y
    BY <1>1, LeastNumber
<1>3. m \in Nat /\ ~(\E g : Way(p, m, g))
    BY <1>2 DEF Without
<1>4. CASE m = 0
  <2> DEFINE g == [i \in 0..0 |-> Root]
  <2>1. g = [i \in 0..0 |-> IF i = 0 THEN Root ELSE Tree!Enter(g[i - 1], p[i])]
      OBVIOUS
  <2> HIDE DEF g
  <2> QED
      BY <1>3, <1>4, <2>1 DEF Way
<1>5. CASE m # 0
  <2>1. m - 1 \in Nat /\ ~(m <= m - 1)
      BY <1>3, <1>5
  <2>2. PICK g : Way(p, m - 1, g)
      BY <1>2, <2>1 DEF Without
  <2>3. /\ g = [i \in 0..m-1 |-> g[i]]
        /\ g[0] = Root
        /\ \A i \in 1..m-1 : g[i] = Tree!Enter(g[i - 1], p[i])
      BY <2>1, <2>2 DEF Way
  <2> DEFINE h == [i \in 0..m |-> IF i = m THEN Tree!Enter(g[m - 1], p[m]) ELSE g[i]]
  <2>4. \A i \in 0..m-1 : h[i] = g[i]
    <3>1. \A i \in 0..m-1 : i \in 0..m /\ i # m
        BY <1>3
    <3> QED
        BY <3>1
  <2>5. h[m] = Tree!Enter(g[m - 1], p[m])
      BY <1>3
  <2>6. h = [i \in 0..m |-> h[i]]
      OBVIOUS
  <2> HIDE DEF h
  <2>7. h[0] = Root
      BY <1>3, <1>5, <2>3, <2>4
  <2>8. \A i \in 1..m : h[i] = Tree!Enter(h[i - 1], p[i])
    <3>1. ASSUME NEW i \in 1..m-1 PROVE h[i] = Tree!Enter(h[i - 1], p[i])
      <4>1. i \in 0..m-1 /\ i - 1 \in 0..m-1
          BY <3>1, <1>3
      <4>2. h[i] = g[i] /\ h[i - 1] = g[i - 1]
          BY <4>1, <2>4
      <4> QED
          BY <4>2, <2>3, <3>1
    <3>2. h[m] = Tree!Enter(h[m - 1], p[m])
        BY <2>1, <2>4, <2>5
    <3>3. \A i \in 1..m : i \in 1..m-1 \/ i = m
        BY <1>3
    <3> QED
        BY <3>1, <3>2, <3>3
  <2>9. \A i \in 0..m : h[i] = IF i = 0 THEN Root ELSE Tree!Enter(h[i - 1], p[i])
      BY <1>3, <2>7, <2>8
  <2>10. Way(p, m, h)
      BY <2>6, <2>9 DEF Way
  <2> QED
      BY <2>10, <1>3
<1> QED
    BY <1>4, <1>5

LEMMA BelowIsKept ==
  ASSUME child \in [TreeDirs \X TreeNames -> Kept], WayOut, NEW p \in Seq(TreeNames)
  PROVE  Tree!Below(p) \in Kept
<1> DEFINE g == CHOOSE g : g = [i \in 0..Len(p) |-> IF i = 0 THEN Root ELSE Tree!Enter(g[i - 1], p[i])]
<1>1. Tree!Below(p) = g[Len(p)]
    BY DEF Tree!Below
<1>2. Len(p) \in Nat /\ \A i \in 1..Len(p) : p[i] \in TreeNames
    OBVIOUS
<1>3. Way(p, Len(p), g)
    BY <1>2, WayExists DEF Way
<1> HIDE DEF g
<1>4. /\ g[0] = Root
      /\ \A i \in 1..Len(p) : g[i] = Tree!Enter(g[i - 1], p[i])
    BY <1>2, <1>3 DEF Way
<1> DEFINE Off == {i \in 0..Len(p) : g[i] \notin Kept}
<1>5. Off = {}
  <2> SUFFICES ASSUME Off # {} PROVE FALSE
      OBVIOUS
  <2>1. Off \in SUBSET Nat
      OBVIOUS
  <2> HIDE DEF Off
  <2>2. PICK m \in Off : \A y \in Off : m <= y
      BY <2>1, LeastNumber
  <2>3. m \in 0..Len(p) /\ g[m] \notin Kept
      BY <2>2 DEF Off
  <2>4. m # 0
      BY <2>3, <1>4 DEF WayOut, Kept, Within
  <2>5. m \in 1..Len(p) /\ m - 1 \in 0..Len(p) /\ ~(m <= m - 1)
      BY <1>2, <2>3, <2>4
  <2>6. g[m - 1] \in Kept
      BY <2>2, <2>5 DEF Off
  <2> QED
      BY <1>2, <1>4, <2>3, <2>5, <2>6, EntersKept
<1>6. Len(p) \in 0..Len(p)
    BY <1>2
<1> QED
    BY <1>1, <1>5, <1>6

TreePaths == Seq(TreeNames)
Entries   == [path : TreePaths, folder : BOOLEAN]
Todos     == (SUBSET Entries) \cup (SUBSET TreePaths)
Stages    == {"idle", "walk", "open", "descend", "parent", "see", "git", "schema", "names", "describe",
              "packages", "children", "unlink"}
Calls     == [at : Stages, form : Tree!Forms \cup {"none"}, path : TreePaths, walked : Nat, fd : Kept,
              folder : TreePaths, left : SUBSET TreePaths, todo : Todos]
Held      == {"see", "git", "unlink", "descend"}

\* What a call holds open is below the root wherever it is used.
Legal(c) ==
    /\ c \in Calls
    /\ c.at = "see" => c.form \in {"read", "list", "history", "manifest"}
    /\ c.at \in Held => c.fd \in Within
    /\ c.at = "descend" => c.walked <= Len(c.path)
    /\ c.at = "describe" => c.todo \subseteq Entries
    /\ c.at \in {"packages", "children"} => c.todo \subseteq TreePaths
TreeInv ==
    \/ missing
    \/ /\ child \in [TreeDirs \X TreeNames -> Kept]
       /\ Legal(walk) /\ touched \subseteq Within

LEMMA PathsOfNames ==
  /\ <<>> \in TreePaths
  /\ \A p \in TreePaths, s \in TreeNames : Tree!Sub(p, s) \in TreePaths
  /\ \A p \in TreePaths : Tree!Parent(p) \in TreePaths
  /\ \A p \in TreePaths : p # <<>> => SubSeq(p, 1, 1) \in TreePaths
  /\ Tree!Paths \subseteq TreePaths
<1>1. <<>> \in TreePaths
    BY DEF TreePaths
<1>2. \A p \in TreePaths, s \in TreeNames : Tree!Sub(p, s) \in TreePaths
    BY DEF TreePaths, Tree!Sub
<1>3. ASSUME NEW p \in TreePaths PROVE Tree!Parent(p) \in TreePaths
  <2>1. Len(p) \in Nat /\ \A i \in 1..(Len(p) - 1) : p[i] \in TreeNames
      BY DEF TreePaths
  <2>2. Len(p) - 1 \in Int
      BY <2>1
  <2>3. SubSeq(p, 1, Len(p) - 1) \in Seq(TreeNames)
      BY <2>1, <2>2, SubSeqProperties
  <2> QED
      BY <2>3 DEF Tree!Parent, TreePaths
<1>4. ASSUME NEW p \in TreePaths, p # <<>> PROVE SubSeq(p, 1, 1) \in TreePaths
  <2>1. \A i \in 1..1 : p[i] \in TreeNames
      BY <1>4 DEF TreePaths
  <2>2. SubSeq(p, 1, 1) \in Seq(TreeNames)
      BY <2>1, SubSeqProperties
  <2> QED
      BY <2>2 DEF TreePaths
<1>5. Tree!Paths \subseteq TreePaths
    BY DEF Tree!Paths, TreePaths, TreeNames
<1> QED
    BY <1>1, <1>2, <1>3, <1>4, <1>5

\* What a resolution below the root is, when it is something.
LEMMA ResolvedBelow ==
  ASSUME ~missing, child \in [TreeDirs \X TreeNames -> Kept], WayOut
  PROVE  /\ \A p \in TreePaths : Tree!Open(p) \in Kept /\ Tree!Stat(p) \in Kept
         /\ \A p \in TreePaths : Tree!FolderEntry(p) \subseteq Within
         /\ \A p \in TreePaths : Tree!Visible(p) => Tree!Manifest(p) \in Within
         /\ \A p \in TreePaths : Tree!FileEntry(p) \subseteq Within /\ Tree!FileAt(p) \subseteq Within
         /\ \A v \in Kept : Tree!IsFolder(v) => v \in TreeDirs
         /\ \A v \in Kept : v \in Tree!Inside \cup Tree!Beyond => v \in Within
<1>1. \A p \in TreePaths : Tree!Open(p) \in Kept /\ Tree!Stat(p) \in Kept
    BY BelowIsKept DEF Tree!Open, Tree!Stat, TreePaths
<1>2. \A p \in TreePaths : Tree!Manifest(p) \in Kept
    BY <1>1, PathsOfNames DEF Tree!Manifest, TreeNames
<1>3. Outside.dir \notin Kept /\ Outside.n \notin Kept /\ Outside.m \notin Kept
    BY DEF WayOut
<1>4. \A p \in TreePaths : Tree!Visible(p) => Tree!Manifest(p) \in Within
    BY <1>2, <1>3 DEF Tree!Visible, Within
<1>5. \A p \in TreePaths : Tree!FolderEntry(p) \subseteq Within
    BY <1>4 DEF Tree!FolderEntry
<1>6. \A p \in TreePaths : Tree!FileEntry(p) \subseteq Within /\ Tree!FileAt(p) \subseteq Within
    BY <1>1, <1>3 DEF Tree!FileEntry, Tree!FileAt, Tree!RegularFiles, Within
<1>7. \A v \in Kept : Tree!IsFolder(v) => v \in TreeDirs
    BY <1>3 DEF Tree!IsFolder
<1>8. \A v \in Kept : v \in Tree!Inside \cup Tree!Beyond => v \in Within
    BY <1>3 DEF Tree!Inside, Tree!Beyond, Within
<1> QED
    BY <1>1, <1>4, <1>5, <1>6, <1>7, <1>8

\* What a call does to what it is.
Steps(c, i)      == [c EXCEPT !.walked = i]
Resolves(c, s)   == [c EXCEPT !.at = s, !.walked = 0, !.fd = Root]
Sees(c, v, f)    == [c EXCEPT !.at = "see", !.fd = v, !.folder = f]
Opens(c, s, v)   == [c EXCEPT !.at = s, !.fd = v]
GoesOn(c, s)     == [c EXCEPT !.at = s]
GoesUp(c, f)     == [c EXCEPT !.folder = f]
ListsAll(c, T)   == [c EXCEPT !.at = "describe", !.todo = T]
SaysRest(c, T)   == [c EXCEPT !.todo = T]
Enters(c, v, T, L) == [c EXCEPT !.at = "children", !.fd = v, !.todo = T, !.left = L]
SeesChild(c, L, T) == [c EXCEPT !.left = L, !.todo = T]
Descends(c, v)   == [c EXCEPT !.walked = @ + 1, !.fd = v]
LEMMA CallSteps ==
  ASSUME WayOut, NEW c \in Calls
  PROVE  /\ \A i \in Nat :
               /\ Steps(c, i) \in Calls /\ Steps(c, i).at = c.at /\ Steps(c, i).form = c.form
               /\ Steps(c, i).path = c.path /\ Steps(c, i).fd = c.fd /\ Steps(c, i).todo = c.todo
         /\ \A s \in Stages :
               /\ Resolves(c, s) \in Calls /\ Resolves(c, s).at = s /\ Resolves(c, s).form = c.form
               /\ Resolves(c, s).walked = 0 /\ Resolves(c, s).fd = Root /\ Resolves(c, s).path = c.path
         /\ \A v \in Kept, f \in TreePaths :
               /\ Sees(c, v, f) \in Calls /\ Sees(c, v, f).at = "see" /\ Sees(c, v, f).form = c.form
               /\ Sees(c, v, f).fd = v
         /\ \A s \in Stages, v \in Kept :
               /\ Opens(c, s, v) \in Calls /\ Opens(c, s, v).at = s /\ Opens(c, s, v).fd = v
         /\ \A s \in Stages :
               /\ GoesOn(c, s) \in Calls /\ GoesOn(c, s).at = s /\ GoesOn(c, s).fd = c.fd
               /\ GoesOn(c, s).todo = c.todo
         /\ \A f \in TreePaths :
               /\ GoesUp(c, f) \in Calls /\ GoesUp(c, f).at = c.at /\ GoesUp(c, f).form = c.form
               /\ GoesUp(c, f).fd = c.fd
         /\ \A T \in Todos :
               /\ ListsAll(c, T) \in Calls /\ ListsAll(c, T).at = "describe" /\ ListsAll(c, T).todo = T
         /\ \A T \in Todos :
               /\ SaysRest(c, T) \in Calls /\ SaysRest(c, T).at = c.at /\ SaysRest(c, T).todo = T
         /\ \A v \in Kept, T \in Todos, L \in SUBSET TreePaths :
               /\ Enters(c, v, T, L) \in Calls /\ Enters(c, v, T, L).at = "children" /\ Enters(c, v, T, L).todo = T
         /\ \A L \in SUBSET TreePaths, T \in Todos :
               /\ SeesChild(c, L, T) \in Calls /\ SeesChild(c, L, T).at = c.at /\ SeesChild(c, L, T).todo = T
         /\ \A v \in Kept :
               /\ Descends(c, v) \in Calls /\ Descends(c, v).at = c.at /\ Descends(c, v).fd = v
               /\ Descends(c, v).walked = c.walked + 1 /\ Descends(c, v).path = c.path
<1> DEFINE F == Tree!Forms \cup {"none"}
<1>1. Calls = [at : Stages, form : F, path : TreePaths, walked : Nat, fd : Kept,
               folder : TreePaths, left : SUBSET TreePaths, todo : Todos]
    BY DEF Calls
<1>2. "see" \in Stages /\ "describe" \in Stages /\ "children" \in Stages
    BY DEF Stages
<1>3. Root \in Kept
    BY DEF WayOut, Kept, Within
<1>4. c.walked + 1 \in Nat
    BY <1>1
<1> HIDE DEF F
<1>5. \A i \in Nat :
          /\ Steps(c, i) \in Calls /\ Steps(c, i).at = c.at /\ Steps(c, i).form = c.form
          /\ Steps(c, i).path = c.path /\ Steps(c, i).fd = c.fd /\ Steps(c, i).todo = c.todo
    BY <1>1 DEF Steps
<1>6. \A s \in Stages :
          /\ Resolves(c, s) \in Calls /\ Resolves(c, s).at = s /\ Resolves(c, s).form = c.form
          /\ Resolves(c, s).walked = 0 /\ Resolves(c, s).fd = Root /\ Resolves(c, s).path = c.path
    BY <1>1, <1>3 DEF Resolves
<1>7. \A v \in Kept, f \in TreePaths :
          /\ Sees(c, v, f) \in Calls /\ Sees(c, v, f).at = "see" /\ Sees(c, v, f).form = c.form
          /\ Sees(c, v, f).fd = v
    BY <1>1, <1>2 DEF Sees
<1>8. \A s \in Stages, v \in Kept :
          /\ Opens(c, s, v) \in Calls /\ Opens(c, s, v).at = s /\ Opens(c, s, v).fd = v
    BY <1>1 DEF Opens
<1>9. \A s \in Stages :
          /\ GoesOn(c, s) \in Calls /\ GoesOn(c, s).at = s /\ GoesOn(c, s).fd = c.fd
          /\ GoesOn(c, s).todo = c.todo
    BY <1>1 DEF GoesOn
<1>10. \A f \in TreePaths :
          /\ GoesUp(c, f) \in Calls /\ GoesUp(c, f).at = c.at /\ GoesUp(c, f).form = c.form
          /\ GoesUp(c, f).fd = c.fd
    BY <1>1 DEF GoesUp
<1>11. \A T \in Todos :
          /\ ListsAll(c, T) \in Calls /\ ListsAll(c, T).at = "describe" /\ ListsAll(c, T).todo = T
    BY <1>1, <1>2 DEF ListsAll
<1>12. \A T \in Todos :
          /\ SaysRest(c, T) \in Calls /\ SaysRest(c, T).at = c.at /\ SaysRest(c, T).todo = T
    BY <1>1 DEF SaysRest
<1>13. \A v \in Kept, T \in Todos, L \in SUBSET TreePaths :
          /\ Enters(c, v, T, L) \in Calls /\ Enters(c, v, T, L).at = "children" /\ Enters(c, v, T, L).todo = T
    BY <1>1, <1>2 DEF Enters
<1>14. \A L \in SUBSET TreePaths, T \in Todos :
          /\ SeesChild(c, L, T) \in Calls /\ SeesChild(c, L, T).at = c.at /\ SeesChild(c, L, T).todo = T
    BY <1>1 DEF SeesChild
<1>15. \A v \in Kept :
          /\ Descends(c, v) \in Calls /\ Descends(c, v).at = c.at /\ Descends(c, v).fd = v
          /\ Descends(c, v).walked = c.walked + 1 /\ Descends(c, v).path = c.path
    BY <1>1, <1>4 DEF Descends
<1> QED
    BY <1>5, <1>6, <1>7, <1>8, <1>9, <1>10, <1>11, <1>12, <1>13, <1>14, <1>15

LEMMA IdleIsLegal == ASSUME WayOut PROVE Legal(Tree!Idle)
<1>1. "none" \in Kept /\ <<>> \in TreePaths
    BY PathsOfNames DEF Kept
<1>2. {} \in Todos /\ {} \in SUBSET TreePaths
    BY DEF Todos
<1>3. Tree!Idle \in Calls /\ Tree!Idle.at = "idle"
    BY <1>1, <1>2 DEF Tree!Idle, Tree!None, Calls, Stages
<1> QED
    BY <1>3 DEF Legal, Held

LEMMA TreeBegins == ASSUME WayOut PROVE Tree!Init => TreeInv
<1> SUFFICES ASSUME Tree!Init PROVE TreeInv
    OBVIOUS
<1>1. walk = Tree!Idle /\ touched = {}
    BY DEF Tree!Init
<1>2. PICK given \in Trees : child = [p \in TreeDirs \X TreeNames |-> IF p \in DOMAIN given THEN given[p] ELSE "none"]
    BY DEF Tree!Init, Tree!Names, TreeNames, Tree!None
<1>3. \A p \in TreeDirs \X TreeNames : p \in DOMAIN given => given[p] \in Kept
    BY DEF WayOut
<1>4. "none" \in Kept
    BY DEF Kept
<1>5. child \in [TreeDirs \X TreeNames -> Kept]
    BY <1>2, <1>3, <1>4
<1> QED
    BY <1>1, <1>5, IdleIsLegal DEF TreeInv

\* How a step of a call ends: with an answer, or as a call that is legal.
LEMMA CallGoes ==
  ASSUME WayOut, TreeInv, ~missing
  PROVE  /\ \A told : Tree!Answer(told) /\ told \subseteq Within => TreeInv'
         /\ \A c : /\ Legal(c) /\ walk' = c /\ touched' \subseteq Within
                   /\ child' = child
                   => TreeInv'
<1>1. child \in [TreeDirs \X TreeNames -> Kept]
    BY DEF TreeInv
<1>2. ASSUME NEW c, Legal(c), walk' = c, touched' \subseteq Within, child' = child
      PROVE  TreeInv'
    BY <1>1, <1>2 DEF TreeInv, Legal
<1>3. ASSUME NEW told, Tree!Answer(told), told \subseteq Within PROVE TreeInv'
  <2>1. walk' = Tree!Idle /\ touched' = told /\ child' = child
      BY <1>3 DEF Tree!Answer
  <2> QED
      BY <1>2, <1>3, <2>1, IdleIsLegal
<1> QED
    BY <1>2, <1>3

\* The owner, who may put what they have anywhere below the root, and a call that begins.
LEMMA OwnerMoves ==
  ASSUME WayOut, TreeInv, ~missing, NEW p \in TreeDirs \X TreeNames, Tree!Move(p)
  PROVE  TreeInv'
<1>1. PICK v \in {"none"} \cup DOMAIN Leads \cup ((Within \ {Root}) \ Tree!Placed) :
          child' = [child EXCEPT ![p] = v] /\ touched' = {} /\ walk' = walk
    BY DEF Tree!Move, Tree!None, Tree!Links, Tree!Inside, Within
<1>2. v \in Kept
    BY DEF Kept
<1>3. child \in [TreeDirs \X TreeNames -> Kept] /\ Legal(walk)
    BY DEF TreeInv
<1> QED
    BY <1>1, <1>2, <1>3 DEF TreeInv, Legal

BegunAs(e, s, f, p, T) == [e EXCEPT !.at = s, !.form = f, !.path = p, !.todo = T]
LEMMA BegunCalls ==
  ASSUME NEW e \in Calls, NEW s \in Stages, NEW f \in Tree!Forms, NEW p \in TreePaths, NEW T \in SUBSET TreePaths
  PROVE  BegunAs(e, s, f, p, T) \in Calls /\ BegunAs(e, s, f, p, T).at = s /\ BegunAs(e, s, f, p, T).todo = T
<1> DEFINE F == Tree!Forms \cup {"none"}
<1>1. Calls = [at : Stages, form : F, path : TreePaths, walked : Nat, fd : Kept,
               folder : TreePaths, left : SUBSET TreePaths, todo : Todos]
    BY DEF Calls
<1>2. f \in F /\ T \in Todos
    BY DEF Todos
<1> HIDE DEF F
<1> QED
    BY <1>1, <1>2 DEF BegunAs

AtRoot == <<>>
LEMMA ReadingBegins ==
  ASSUME WayOut, TreeInv, ~missing, NEW form, NEW p, form \in Tree!Forms, p \in Tree!Paths, Tree!Begin(form, p)
  PROVE  TreeInv'
<1>1. PICK s \in {"packages", "open", "walk"}, T \in {{}, {AtRoot}} :
          /\ walk' = BegunAs(Tree!Idle, s, form, p, T) /\ touched' = {} /\ child' = child
  <2> DEFINE s == IF form = "packages" THEN "packages" ELSE IF form = "roots" THEN "open" ELSE "walk"
             T == IF form = "packages" THEN {AtRoot} ELSE {}
  <2>1. walk' = BegunAs(Tree!Idle, s, form, p, T) /\ touched' = {} /\ child' = child
      BY DEF Tree!Begin, BegunAs, AtRoot
  <2>2. s \in {"packages", "open", "walk"} /\ T \in {{}, {AtRoot}}
      OBVIOUS
  <2> HIDE DEF s, T
  <2> QED
      BY <2>1, <2>2
<1> DEFINE c == BegunAs(Tree!Idle, s, form, p, T)
<1>2. Tree!Idle \in Calls
    BY IdleIsLegal DEF Legal
<1>3. p \in TreePaths /\ T \in SUBSET TreePaths
    BY PathsOfNames DEF AtRoot
<1>4. s \in Stages /\ s \notin Held /\ s # "see" /\ s # "describe"
    BY DEF Stages, Held
<1>5. c \in Calls /\ c.at = s /\ c.todo = T
    BY <1>2, <1>3, <1>4, BegunCalls
<1>6. walk' = c
    BY <1>1
<1> HIDE DEF c
<1>7. Legal(c)
    BY <1>3, <1>4, <1>5 DEF Legal, Held
<1>8. touched' \subseteq Within
    BY <1>1
<1> QED
    BY <1>1, <1>6, <1>7, <1>8, CallGoes

\* The walk by name, which only refuses; and what it leads to.
LEMMA WalkStep ==
  ASSUME WayOut, TreeInv, ~missing, Tree!WalkOne
  PROVE  TreeInv'
<1> DEFINE i == walk.walked + 1
           stage == IF walk.form = "mkdir" THEN "descend" ELSE IF walk.form = "remove" THEN "parent" ELSE "open"
<1>1. /\ walk.at = "walk"
      /\ \/ Tree!Answer({})
         \/ walk' = Resolves(walk, stage) /\ touched' = {} /\ child' = child
         \/ walk' = Steps(walk, i) /\ touched' = {} /\ child' = child
    BY DEF Tree!WalkOne, Tree!Goes, Tree!Refuse, Resolves, Steps
<1>2. walk \in Calls
    BY DEF TreeInv, Legal
<1>3. stage \in Stages /\ stage \notin {"see", "git", "unlink", "describe", "packages", "children"} /\ i \in Nat
    BY <1>2 DEF Stages, Calls
<1> HIDE DEF stage, i
<1>4. Legal(Resolves(walk, stage))
  <2>1. /\ Resolves(walk, stage) \in Calls /\ Resolves(walk, stage).at = stage
        /\ Resolves(walk, stage).walked = 0 /\ Resolves(walk, stage).fd = Root
        /\ Resolves(walk, stage).path = walk.path
      BY <1>2, <1>3, CallSteps
  <2>2. Root \in Within
      BY DEF WayOut, Within
  <2>3. Len(walk.path) \in Nat
      BY <1>2 DEF Calls, TreePaths
  <2> QED
      BY <1>3, <2>1, <2>2, <2>3 DEF Legal
<1>5. Legal(Steps(walk, i))
  <2>1. Steps(walk, i) \in Calls /\ Steps(walk, i).at = "walk"
      BY <1>1, <1>2, <1>3, CallSteps
  <2> QED
      BY <2>1 DEF Legal, Held
<1>6. {} \subseteq Within
    OBVIOUS
<1> QED
    BY <1>1, <1>4, <1>5, <1>6, CallGoes

\* What is opened is judged before anything is read through it.
LEMMA JudgedIsLegal ==
  ASSUME WayOut, TreeInv, ~missing, NEW v \in Kept, NEW fits, NEW f \in TreePaths, Tree!Judged(v, fits, f),
         walk.form \in {"read", "list", "history", "manifest"}
  PROVE  TreeInv'
<1>1. \/ Tree!Answer({})
      \/ /\ v \in Tree!Inside \cup Tree!Beyond
         /\ walk' = Sees(walk, v, f) /\ touched' = {} /\ child' = child
    BY DEF Tree!Judged, Tree!Goes, Tree!Refuse, Sees
<1>2. walk \in Calls /\ child \in [TreeDirs \X TreeNames -> Kept]
    BY DEF TreeInv, Legal
<1>3. {} \subseteq Within
    OBVIOUS
<1>4. ASSUME v \in Tree!Inside \cup Tree!Beyond PROVE Legal(Sees(walk, v, f))
  <2>1. v \in Within
      BY <1>2, <1>4, ResolvedBelow
  <2>2. /\ Sees(walk, v, f) \in Calls /\ Sees(walk, v, f).at = "see" /\ Sees(walk, v, f).form = walk.form
        /\ Sees(walk, v, f).fd = v
      BY <1>2, CallSteps
  <2> QED
      BY <2>1, <2>2 DEF Legal
<1> QED
    BY <1>1, <1>3, <1>4, CallGoes

LEMMA OpenSteps ==
  ASSUME WayOut, TreeInv, ~missing, Tree!Read \/ Tree!List \/ Tree!History \/ Tree!ManifestOf \/ Tree!Roots
  PROVE  TreeInv'
<1> DEFINE p == walk.path
<1>1. walk \in Calls /\ child \in [TreeDirs \X TreeNames -> Kept]
    BY DEF TreeInv, Legal
<1>2. p \in TreePaths /\ Tree!Parent(p) \in TreePaths /\ <<>> \in TreePaths
    BY <1>1, PathsOfNames DEF Calls
<1>3. Tree!Open(p) \in Kept /\ Tree!Stat(p) \in Kept /\ Tree!Open(<<>>) \in Kept
    BY <1>1, <1>2, ResolvedBelow
<1>4. CASE Tree!Read
    BY <1>2, <1>3, <1>4, JudgedIsLegal DEF Tree!Read
<1>5. CASE Tree!List
    BY <1>2, <1>3, <1>5, JudgedIsLegal DEF Tree!List
<1>6. CASE Tree!History
  <2>1. walk.form = "history" /\ \E f \in {p, Tree!Parent(p)} : Tree!Judged(Tree!Stat(p), TRUE, f)
      BY <1>6 DEF Tree!History
  <2> QED
      BY <1>2, <1>3, <2>1, JudgedIsLegal
<1>7. CASE Tree!ManifestOf
    BY <1>2, <1>3, <1>7, JudgedIsLegal DEF Tree!ManifestOf
<1>8. CASE Tree!Roots
  <2> DEFINE c == Opens(walk, "names", Tree!Open(<<>>))
  <2>1. walk' = c /\ touched' = {} /\ child' = child
      BY <1>8 DEF Tree!Roots, Tree!Goes, Opens
  <2>2. c \in Calls /\ c.at = "names"
    <3>1. "names" \in Stages
        BY DEF Stages
    <3> QED
        BY <1>1, <1>3, <3>1, CallSteps
  <2> HIDE DEF c
  <2>3. Legal(c)
      BY <2>2 DEF Legal, Held
  <2>4. touched' \subseteq Within
      BY <2>1
  <2> QED
      BY <2>1, <2>3, <2>4, CallGoes
<1> QED
    BY <1>4, <1>5, <1>6, <1>7, <1>8

\* The folder has to be visible, and what is asked for is read.
LEMMA SeeStep ==
  ASSUME WayOut, TreeInv, ~missing, Tree!See
  PROVE  TreeInv'
<1> DEFINE f == walk.folder
<1>1. /\ walk \in Calls /\ walk.at = "see" /\ walk.form \in {"read", "list", "history", "manifest"}
      /\ walk.fd \in Within /\ child \in [TreeDirs \X TreeNames -> Kept]
    BY DEF TreeInv, Legal, Tree!See, Held
<1>2. f \in TreePaths /\ Tree!Parent(f) \in TreePaths
    BY <1>1, PathsOfNames DEF Calls
<1>3. Tree!FolderEntry(f) \subseteq Within /\ {} \subseteq Within
    BY <1>1, <1>2, ResolvedBelow
<1>4. \/ /\ \E s \in {"git", "schema", "names"} : walk' = GoesOn(walk, s)
         /\ touched' \in {{}, Tree!FolderEntry(f)} /\ child' = child
      \/ Tree!Answer({})
      \/ walk' = GoesUp(walk, Tree!Parent(f)) /\ touched' = {} /\ child' = child
  <2> DEFINE on == [read |-> "git", history |-> "git", manifest |-> "schema", list |-> "names"]
  <2>1. CASE walk.path = <<>> \/ f = <<>> \/ Tree!Visible(f)
    <3>1. walk' = GoesOn(walk, on[walk.form]) /\ touched' \in {{}, Tree!FolderEntry(f)} /\ child' = child
        BY <2>1 DEF Tree!See, GoesOn
    <3>2. on[walk.form] \in {"git", "schema", "names"}
        BY <1>1
    <3> HIDE DEF on
    <3> QED
        BY <3>1, <3>2
  <2>2. CASE ~(walk.path = <<>> \/ f = <<>> \/ Tree!Visible(f))
      BY <2>2 DEF Tree!See, Tree!Refuse, Tree!Goes, GoesUp
  <2> QED
      BY <2>1, <2>2
<1>5. ASSUME NEW s \in {"git", "schema", "names"} PROVE Legal(GoesOn(walk, s))
  <2>1. GoesOn(walk, s) \in Calls /\ GoesOn(walk, s).at = s /\ GoesOn(walk, s).fd = walk.fd
    <3>1. s \in Stages
        BY DEF Stages
    <3> QED
        BY <1>1, <3>1, CallSteps
  <2> QED
      BY <1>1, <2>1 DEF Legal
<1>6. Legal(GoesUp(walk, Tree!Parent(f)))
  <2> DEFINE c == GoesUp(walk, Tree!Parent(f))
  <2>1. c \in Calls /\ c.at = "see" /\ c.form = walk.form /\ c.fd = walk.fd
      BY <1>1, <1>2, CallSteps
  <2> HIDE DEF c
  <2>2. Legal(c)
      BY <1>1, <2>1 DEF Legal
  <2> QED
      BY <2>2 DEF c
<1> QED
    BY <1>3, <1>4, <1>5, <1>6, CallGoes

LEMMA AskSteps ==
  ASSUME WayOut, TreeInv, ~missing, Tree!AskGit \/ Tree!ReadSchema
  PROVE  TreeInv'
<1>1. walk \in Calls /\ Legal(walk) /\ child \in [TreeDirs \X TreeNames -> Kept]
    BY DEF TreeInv, Legal
<1>2. CASE Tree!AskGit
  <2> DEFINE repo == IF Tree!TopLevel THEN Tree!None ELSE Tree!Open(SubSeq(walk.path, 1, 1))
             bytes == IF walk.form = "read" THEN {walk.fd} ELSE {}
  <2>1. walk.at = "git" /\ (Tree!Answer(bytes) \/ (Tree!IsFolder(repo) /\ Tree!Answer(bytes \cup {repo})))
      BY <1>2 DEF Tree!AskGit
  <2>2. bytes \subseteq Within
      BY <1>1, <2>1 DEF Legal, Held
  <2>3. repo \in Kept
    <3>1. walk.path # <<>> => SubSeq(walk.path, 1, 1) \in TreePaths
        BY <1>1, PathsOfNames DEF Calls
    <3> QED
        BY <1>1, <3>1, ResolvedBelow DEF Tree!TopLevel, Tree!None, Kept
  <2> HIDE DEF repo, bytes
  <2>4. Tree!IsFolder(repo) => repo \in Within
      BY <1>1, <2>3, ResolvedBelow DEF Within
  <2> QED
      BY <2>1, <2>2, <2>4, CallGoes
<1>3. CASE Tree!ReadSchema
  <2>1. Tree!Answer(Tree!FileAt(Tree!Sub(walk.folder, "n")))
      BY <1>3 DEF Tree!ReadSchema
  <2>2. Tree!FileAt(Tree!Sub(walk.folder, "n")) \subseteq Within
      BY <1>1, PathsOfNames, ResolvedBelow DEF Calls, TreeNames
  <2> QED
      BY <2>1, <2>2, CallGoes
<1> QED
    BY <1>2, <1>3

\* A listing, and what is said of each entry of it.
LEMMA ListSteps ==
  ASSUME WayOut, TreeInv, ~missing, Tree!ReadNames \/ Tree!DescribeOne
  PROVE  TreeInv'
<1>1. walk \in Calls /\ Legal(walk) /\ child \in [TreeDirs \X TreeNames -> Kept]
    BY DEF TreeInv, Legal
<1>2. {} \subseteq Within
    OBVIOUS
<1>3. CASE Tree!ReadNames
  <2> DEFINE T == {[path |-> Tree!Sub(walk.path, s), folder |-> Tree!IsFolder(Tree!In(walk.fd, s))]
                   : s \in Tree!Listed(walk.fd)}
             c == ListsAll(walk, T)
  <2>1. /\ walk' = c /\ child' = child
        /\ touched' = IF Tree!TopLevel THEN {} ELSE Tree!FolderEntry(walk.path)
      BY <1>3 DEF Tree!ReadNames, ListsAll
  <2>2. walk.path \in TreePaths /\ Tree!FolderEntry(walk.path) \subseteq Within
      BY <1>1, ResolvedBelow DEF Calls
  <2>3. T \subseteq Entries
    <3>1. \A s \in Tree!Listed(walk.fd) : s \in TreeNames
        BY DEF Tree!Listed, TreeNames
    <3>2. \A s \in Tree!Listed(walk.fd) : Tree!Sub(walk.path, s) \in TreePaths
        BY <2>2, <3>1, PathsOfNames
    <3>3. \A v : Tree!IsFolder(v) \in BOOLEAN
        BY DEF Tree!IsFolder
    <3> QED
        BY <3>2, <3>3 DEF Entries
  <2> HIDE DEF T
  <2>4. c \in Calls /\ c.at = "describe" /\ c.todo = T
      BY <1>1, <2>3, CallSteps DEF Todos
  <2> HIDE DEF c
  <2>5. Legal(c)
      BY <2>3, <2>4 DEF Legal, Held
  <2>6. touched' \subseteq Within
      BY <2>1, <2>2
  <2> QED
      BY <2>1, <2>5, <2>6, CallGoes
<1>4. CASE Tree!DescribeOne
  <2>1. walk.at = "describe" /\ walk.todo \subseteq Entries
      BY <1>1, <1>4 DEF Tree!DescribeOne, Legal
  <2>2. CASE walk.todo = {}
      BY <1>2, <1>4, <2>2, CallGoes DEF Tree!DescribeOne
  <2>3. CASE walk.todo # {}
    <3>1. PICK e \in walk.todo :
             /\ walk' = SaysRest(walk, walk.todo \ {e})
             /\ touched' = IF e.folder THEN Tree!FolderEntry(e.path)
                           ELSE IF Tree!TopLevel THEN {} ELSE Tree!FileEntry(e.path)
             /\ child' = child
        BY <1>4, <2>3 DEF Tree!DescribeOne, SaysRest
    <3>2. e.path \in TreePaths
        BY <2>1 DEF Entries
    <3>3. touched' \subseteq Within
        BY <1>1, <3>1, <3>2, ResolvedBelow
    <3> DEFINE T == walk.todo \ {e}
               c == SaysRest(walk, T)
    <3>4. T \subseteq Entries
        BY <2>1
    <3> HIDE DEF T
    <3>5. c \in Calls /\ c.at = walk.at /\ c.todo = T
        BY <1>1, <3>4, CallSteps DEF Todos
    <3>6. walk' = c
        BY <3>1 DEF T
    <3> HIDE DEF c
    <3>7. Legal(c)
        BY <2>1, <3>4, <3>5 DEF Legal, Held
    <3> QED
        BY <3>1, <3>3, <3>6, <3>7, CallGoes
  <2> QED
      BY <2>2, <2>3
<1> QED
    BY <1>3, <1>4

\* The walk over the Packages of a root.
LEMMA PackageSteps ==
  ASSUME WayOut, TreeInv, ~missing, Tree!WalkPackages \/ Tree!WalkChildren
  PROVE  TreeInv'
<1>1. walk \in Calls /\ Legal(walk) /\ child \in [TreeDirs \X TreeNames -> Kept]
    BY DEF TreeInv, Legal
<1>2. {} \subseteq Within
    OBVIOUS
<1>3. CASE Tree!WalkPackages
  <2>1. walk.at = "packages" /\ walk.todo \subseteq TreePaths
      BY <1>1, <1>3 DEF Tree!WalkPackages, Legal
  <2>2. CASE walk.todo = {}
      BY <1>2, <1>3, <2>2, CallGoes DEF Tree!WalkPackages
  <2>3. CASE walk.todo # {}
    <3>1. PICK d \in walk.todo, N \in SUBSET TreeNames :
             /\ walk' = Enters(walk, Tree!Open(d), walk.todo \ {d}, {Tree!Sub(d, s) : s \in N})
             /\ touched' = {} /\ child' = child
      <4>1. PICK d \in walk.todo :
               LET fd == Tree!Open(d)
                   names == IF Tree!IsFolder(fd) /\ Len(d) <= MaxDepth THEN Tree!Listed(fd) ELSE {}
               IN  /\ walk' = Enters(walk, fd, walk.todo \ {d}, {Tree!Sub(d, s) : s \in names})
                   /\ touched' = {} /\ child' = child
          BY <1>3, <2>3 DEF Tree!WalkPackages, Tree!Goes, Enters
      <4> DEFINE N == IF Tree!IsFolder(Tree!Open(d)) /\ Len(d) <= MaxDepth THEN Tree!Listed(Tree!Open(d)) ELSE {}
      <4>2. N \in SUBSET TreeNames
          BY DEF Tree!Listed, TreeNames
      <4>3. /\ walk' = Enters(walk, Tree!Open(d), walk.todo \ {d}, {Tree!Sub(d, s) : s \in N})
            /\ touched' = {} /\ child' = child
          BY <4>1
      <4> HIDE DEF N
      <4> QED
          BY <4>2, <4>3
    <3> DEFINE T == walk.todo \ {d}
               L == {Tree!Sub(d, s) : s \in N}
               v == Tree!Open(d)
               c == Enters(walk, v, T, L)
    <3>2. d \in TreePaths /\ T \in SUBSET TreePaths
        BY <2>1
    <3>3. v \in Kept
        BY <1>1, <3>2, ResolvedBelow
    <3>4. L \in SUBSET TreePaths
      <4>1. \A s \in N : s \in TreeNames
          OBVIOUS
      <4> QED
          BY <3>2, <4>1, PathsOfNames
    <3>5. walk' = c
        BY <3>1
    <3> HIDE DEF T, L, v
    <3>6. c \in Calls /\ c.at = "children" /\ c.todo = T
      <4>1. T \in Todos
          BY <3>2 DEF Todos
      <4> QED
          BY <1>1, <3>3, <3>4, <4>1, CallSteps
    <3> HIDE DEF c
    <3>7. Legal(c)
        BY <3>2, <3>6 DEF Legal, Held
    <3>8. touched' \subseteq Within
        BY <3>1
    <3> QED
        BY <3>1, <3>5, <3>7, <3>8, CallGoes
  <2> QED
      BY <2>2, <2>3
<1>4. CASE Tree!WalkChildren
  <2>1. walk.at = "children" /\ walk.todo \in SUBSET TreePaths /\ walk.left \in SUBSET TreePaths
      BY <1>1, <1>4 DEF Tree!WalkChildren, Legal, Calls
  <2>2. CASE walk.left = {}
    <3> DEFINE c == GoesOn(walk, "packages")
    <3>1. walk' = c /\ touched' = {} /\ child' = child
        BY <1>4, <2>2 DEF Tree!WalkChildren, Tree!Goes, GoesOn
    <3>2. "packages" \in Stages
        BY DEF Stages
    <3>3. c \in Calls /\ c.at = "packages" /\ c.todo = walk.todo
        BY <1>1, <3>2, CallSteps
    <3> HIDE DEF c
    <3>4. Legal(c)
        BY <2>1, <3>3 DEF Legal, Held
    <3>5. touched' \subseteq Within
        BY <3>1
    <3> QED
        BY <3>1, <3>4, <3>5, CallGoes
  <2>3. CASE walk.left # {}
    <3>1. PICK p \in walk.left, T \in SUBSET TreePaths :
             /\ walk' = SeesChild(walk, walk.left \ {p}, T)
             /\ touched' = {} \/ (Tree!Visible(p) /\ touched' = {Tree!Manifest(p)})
             /\ child' = child
      <4>1. PICK p \in walk.left :
               LET enters == Tree!Stat(p) \in TreeDirs \cup {Outside.dir} /\ Tree!Visible(p)
               IN  /\ walk' = SeesChild(walk, walk.left \ {p}, IF enters THEN walk.todo \cup {p} ELSE walk.todo)
                   /\ touched' = IF enters /\ Tree!IsPackage(Tree!Manifest(p)) THEN {Tree!Manifest(p)} ELSE {}
                   /\ child' = child
          BY <1>4, <2>3 DEF Tree!WalkChildren, SeesChild
      <4> DEFINE enters == Tree!Stat(p) \in TreeDirs \cup {Outside.dir} /\ Tree!Visible(p)
                 T == IF enters THEN walk.todo \cup {p} ELSE walk.todo
      <4>2. T \in SUBSET TreePaths
          BY <2>1
      <4>3. /\ walk' = SeesChild(walk, walk.left \ {p}, T) /\ child' = child
            /\ touched' = {} \/ (Tree!Visible(p) /\ touched' = {Tree!Manifest(p)})
          BY <4>1
      <4> HIDE DEF T
      <4> QED
          BY <4>2, <4>3
    <3> DEFINE L == walk.left \ {p}
               c == SeesChild(walk, L, T)
    <3>2. p \in TreePaths /\ T \in SUBSET TreePaths /\ L \in SUBSET TreePaths
        BY <2>1
    <3>3. touched' \subseteq Within
        BY <1>1, <3>1, <3>2, ResolvedBelow
    <3>4. walk' = c
        BY <3>1
    <3> HIDE DEF L
    <3>5. c \in Calls /\ c.at = walk.at /\ c.todo = T
        BY <1>1, <3>2, CallSteps DEF Todos
    <3> HIDE DEF c
    <3>6. Legal(c)
        BY <2>1, <3>2, <3>5 DEF Legal, Held
    <3> QED
        BY <3>1, <3>3, <3>4, <3>6, CallGoes
  <2> QED
      BY <2>2, <2>3
<1> QED
    BY <1>3, <1>4

\* What is made and what is removed, from a descriptor.
LEMMA MakeSteps ==
  ASSUME WayOut, TreeInv, ~missing, Tree!Descend \/ Tree!OpenParent \/ Tree!Unlink
  PROVE  TreeInv'
<1>1. walk \in Calls /\ Legal(walk) /\ child \in [TreeDirs \X TreeNames -> Kept]
    BY DEF TreeInv, Legal
<1>2. {} \subseteq Within
    OBVIOUS
<1>3. CASE Tree!Descend
  <2> DEFINE s == walk.path[walk.walked + 1]
             v == Tree!In(walk.fd, s)
  <2>1. walk.at = "descend" /\ walk.fd \in Within /\ walk.walked <= Len(walk.path)
      BY <1>1, <1>3 DEF Tree!Descend, Legal, Held
  <2>2. CASE walk.walked = Len(walk.path)
      BY <1>2, <1>3, <2>2, CallGoes DEF Tree!Descend
  <2>3. CASE walk.walked # Len(walk.path)
    <3>1. walk.walked + 1 \in 1..Len(walk.path) /\ walk.walked + 1 <= Len(walk.path)
        BY <1>1, <2>1, <2>3 DEF Calls, TreePaths
    <3>2. s \in TreeNames
        BY <1>1, <3>1 DEF Calls, TreePaths
    <3> HIDE DEF s
    <3>3. ASSUME NEW d \in TreeDirs PROVE Legal(Descends(walk, d))
      <4> DEFINE c == Descends(walk, d)
      <4>1. d \in Kept /\ d \in Within
          BY DEF Kept, Within
      <4>2. c \in Calls /\ c.at = walk.at /\ c.fd = d /\ c.walked = walk.walked + 1 /\ c.path = walk.path
          BY <1>1, <4>1, CallSteps
      <4> HIDE DEF c
      <4>3. Legal(c)
          BY <2>1, <3>1, <4>1, <4>2 DEF Legal, Held
      <4> QED
          BY <4>3 DEF c
    <3>4. \/ /\ v \in TreeDirs /\ walk' = Descends(walk, v) /\ touched' = {} /\ child' = child
          \/ /\ walk.fd \in TreeDirs
             /\ \E d \in TreeDirs : /\ child' = [child EXCEPT ![<<walk.fd, s>>] = d]
                                    /\ walk' = Descends(walk, d) /\ touched' = {walk.fd}
          \/ Tree!Answer({})
      <4> HIDE DEF v
      <4>1. v = Tree!In(walk.fd, walk.path[walk.walked + 1]) /\ s = walk.path[walk.walked + 1]
          BY DEF v, s
      <4> QED
          BY <1>3, <2>3, <4>1 DEF Tree!Descend, Tree!Goes, Tree!Refuse, Descends
    <3>5. CASE v \in TreeDirs /\ walk' = Descends(walk, v) /\ touched' = {} /\ child' = child
      <4>1. touched' \subseteq Within
          BY <3>5
      <4> HIDE DEF v
      <4> QED
          BY <3>3, <3>5, <4>1, CallGoes
    <3>6. ASSUME NEW d \in TreeDirs, walk.fd \in TreeDirs, child' = [child EXCEPT ![<<walk.fd, s>>] = d],
                 walk' = Descends(walk, d), touched' = {walk.fd}
          PROVE  TreeInv'
      <4>1. child' \in [TreeDirs \X TreeNames -> Kept]
          BY <1>1, <3>2, <3>6 DEF Kept, Within
      <4>2. Legal(walk)'
          BY <3>3, <3>6 DEF Legal
      <4>3. touched' \subseteq Within
          BY <2>1, <3>6
      <4> QED
          BY <4>1, <4>2, <4>3 DEF TreeInv
    <3> QED
        BY <1>2, <3>4, <3>5, <3>6, CallGoes
  <2> QED
      BY <2>2, <2>3
<1>4. CASE Tree!OpenParent
  <2> DEFINE v == Tree!Open(Tree!Parent(walk.path))
             c == Opens(walk, "unlink", v)
  <2>1. Tree!Answer({}) \/ (Tree!IsFolder(v) /\ walk' = c /\ touched' = {} /\ child' = child)
      BY <1>4 DEF Tree!OpenParent, Tree!Goes, Tree!Refuse, Opens
  <2>2. v \in Kept /\ (Tree!IsFolder(v) => v \in Within)
      BY <1>1, PathsOfNames, ResolvedBelow DEF Calls, Within
  <2> HIDE DEF v
  <2>3. c \in Calls /\ c.at = "unlink" /\ c.fd = v
    <3>1. "unlink" \in Stages
        BY DEF Stages
    <3> QED
        BY <1>1, <2>2, <3>1, CallSteps
  <2> HIDE DEF c
  <2>4. Tree!IsFolder(v) => Legal(c)
      BY <2>2, <2>3 DEF Legal
  <2>5. touched' = {} => touched' \subseteq Within
      OBVIOUS
  <2> QED
      BY <1>2, <2>1, <2>4, <2>5, CallGoes
<1>5. CASE Tree!Unlink
  <2> DEFINE p == <<walk.fd, "n">>
  <2>1. walk.fd \in Within
      BY <1>1, <1>5 DEF Tree!Unlink, Legal, Held
  <2>2. \/ /\ walk.fd \in TreeDirs /\ child' = [child EXCEPT ![p] = "none"]
           /\ walk' = Tree!Idle /\ touched' = {walk.fd}
        \/ Tree!Answer({walk.fd})
      BY <1>5 DEF Tree!Unlink, Tree!None
  <2>3. ASSUME walk.fd \in TreeDirs, child' = [child EXCEPT ![p] = "none"], walk' = Tree!Idle, touched' = {walk.fd}
        PROVE  TreeInv'
    <3>1. p \in TreeDirs \X TreeNames /\ "none" \in Kept
        BY <2>3 DEF TreeNames, Kept
    <3>2. child' \in [TreeDirs \X TreeNames -> Kept]
        BY <1>1, <2>3, <3>1
    <3>3. Legal(walk)'
        BY <2>3, IdleIsLegal DEF Legal
    <3>4. touched' \subseteq Within
        BY <2>1, <2>3
    <3> QED
        BY <3>2, <3>3, <3>4 DEF TreeInv
  <2>4. {walk.fd} \subseteq Within
      BY <2>1
  <2> QED
      BY <2>2, <2>3, <2>4, CallGoes
<1> QED
    BY <1>3, <1>4, <1>5

\* Whatever the owner renames while a call runs, nothing it tells of, makes or removes is beyond the root.
THEOREM NothingGetsOut == ASSUME WayOut PROVE Tree!Spec => []Tree!NothingLeavesTheRoot
<1>1. Tree!Init => TreeInv
    BY TreeBegins
<1>2. TreeInv /\ [Tree!Next]_Tree!vars => TreeInv'
  <2> SUFFICES ASSUME TreeInv, [Tree!Next]_Tree!vars PROVE TreeInv'
      OBVIOUS
  <2>1. CASE UNCHANGED Tree!vars
      BY <2>1 DEF Tree!vars, TreeInv, Legal
  <2>2. CASE Tree!Next /\ missing
    <3>1. missing' = missing
        BY <2>2 DEF Tree!Next, Tree!Move, Tree!Begin, Tree!WalkOne, Tree!Read, Tree!List, Tree!History,
           Tree!ManifestOf, Tree!Roots, Tree!See, Tree!AskGit, Tree!ReadSchema, Tree!ReadNames, Tree!DescribeOne,
           Tree!WalkPackages, Tree!WalkChildren, Tree!Descend, Tree!OpenParent, Tree!Unlink, Tree!Judged,
           Tree!Answer, Tree!Refuse, Tree!Goes
    <3> QED
        BY SMTT(60), <2>2, <3>1 DEF TreeInv
  <2>3. CASE Tree!Next /\ ~missing
    <3>1. \/ \E p \in TreeDirs \X TreeNames : Tree!Move(p)
          \/ \E form \in Tree!Forms, p \in Tree!Paths : Tree!Begin(form, p)
          \/ Tree!WalkOne \/ Tree!Read \/ Tree!List \/ Tree!History \/ Tree!ManifestOf \/ Tree!Roots \/ Tree!See
          \/ Tree!AskGit \/ Tree!ReadSchema \/ Tree!ReadNames \/ Tree!DescribeOne
          \/ Tree!WalkPackages \/ Tree!WalkChildren \/ Tree!Descend \/ Tree!OpenParent \/ Tree!Unlink
        BY <2>3 DEF Tree!Next, Tree!Names, TreeNames
    <3>2. CASE \E p \in TreeDirs \X TreeNames : Tree!Move(p)
        BY <2>3, <3>2, OwnerMoves
    <3>3. CASE \E form \in Tree!Forms, p \in Tree!Paths : Tree!Begin(form, p)
        BY <2>3, <3>3, ReadingBegins
    <3>4. CASE Tree!WalkOne
        BY <2>3, <3>4, WalkStep
    <3>5. CASE Tree!Read \/ Tree!List \/ Tree!History \/ Tree!ManifestOf \/ Tree!Roots
        BY <2>3, <3>5, OpenSteps
    <3>6. CASE Tree!See
        BY <2>3, <3>6, SeeStep
    <3>7. CASE Tree!AskGit \/ Tree!ReadSchema
        BY <2>3, <3>7, AskSteps
    <3>8. CASE Tree!ReadNames \/ Tree!DescribeOne
        BY <2>3, <3>8, ListSteps
    <3>9. CASE Tree!WalkPackages \/ Tree!WalkChildren
        BY <2>3, <3>9, PackageSteps
    <3>10. CASE Tree!Descend \/ Tree!OpenParent \/ Tree!Unlink
        BY <2>3, <3>10, MakeSteps
    <3> QED
        BY <3>1, <3>2, <3>3, <3>4, <3>5, <3>6, <3>7, <3>8, <3>9, <3>10
  <2> QED
      BY <2>1, <2>2, <2>3
<1>3. TreeInv => Tree!NothingLeavesTheRoot
    BY DEF TreeInv, Within, Tree!NothingLeavesTheRoot, Tree!Inside
<1> QED
    BY <1>1, <1>2, <1>3, PTL DEF Tree!Spec

\* No two members share an id, none loses its block, and no call of Files leaves the root of its owner.
THEOREM ThingsStayTheirs ==
    ASSUME RequestsAreSomebody, WayOut PROVE SubIDs!Spec /\ Tree!Spec => []EachKeepsToItsOwn
<1>1. SubIDs!Spec => []SubIDs!BlocksAreApart
    BY BlocksStayApart
<1>2. Tree!Spec => []Tree!NothingLeavesTheRoot
    BY NothingGetsOut
<1> QED
    BY <1>1, <1>2, PTL DEF EachKeepsToItsOwn

-----------------------------------------------------------------------------
\* A behaviour of the whole is one of every part that is proved about here.
LEMMA EachOnItsOwn ==
    Whole => /\ Spec /\ Migrate!Spec /\ Heal!Spec /\ Secrets!Spec /\ Mounts!Spec
             /\ Cgroups!Spec /\ Builds!Spec /\ UserKeys!Spec /\ Served!Spec
             /\ SubIDs!Spec /\ Tree!Spec
             /\ Daemon!Init /\ [][Daemon!Next]_Daemon!vars
<1>1. Begins => /\ Init /\ Migrate!Init /\ Daemon!Init /\ Heal!Init /\ Secrets!Init /\ Mounts!Init
                /\ Cgroups!Init /\ Builds!Init /\ UserKeys!Init /\ Served!Init /\ SubIDs!Init /\ Tree!Init
    BY DEF Begins
<1>2. [Moves]_allVars => [Next]_vars
    BY DEF Moves, allVars
<1>3. [Moves]_allVars => [Migrate!Next]_Migrate!vars
    BY DEF Moves, allVars, schemaVars, Migrate!vars
<1>4. [Moves]_allVars => [Daemon!Next]_Daemon!vars
    BY DEF Moves, allVars, daemonVars, Daemon!vars, Daemon!process, Daemon!network, Daemon!store
<1>5. [Moves]_allVars => [Heal!Next]_Heal!vars
    BY DEF Moves, allVars, bootVars, Heal!vars
<1>6. [Moves]_allVars => [Secrets!Next]_Secrets!vars
    BY DEF Moves, allVars, secretsVars, Secrets!vars
<1>7. [Moves]_allVars => [Mounts!Next]_Mounts!vars
    BY DEF Moves, allVars, mountsVars, Mounts!vars
<1>8. [Moves]_allVars => [Cgroups!Next]_Cgroups!vars
    BY DEF Moves, allVars, cgroupsVars, Cgroups!vars
<1>9. [Moves]_allVars => [Builds!Next]_Builds!vars
    BY DEF Moves, allVars, imagesVars, Builds!vars
<1>10. [Moves]_allVars => [UserKeys!Next]_UserKeys!vars
    BY DEF Moves, allVars, keysVars, UserKeys!vars
<1>11. [Moves]_allVars => [Served!Next]_Served!vars
    BY DEF Moves, allVars, namesVars, Served!vars
<1>12. [Moves]_allVars => [SubIDs!Next]_SubIDs!vars
    BY DEF Moves, allVars, accountsVars, SubIDs!vars
<1>13. [Moves]_allVars => [Tree!Next]_Tree!vars
    BY DEF Moves, allVars, treeVars, Tree!vars
<1> QED
    BY <1>1, <1>2, <1>3, <1>4, <1>5, <1>6, <1>7, <1>8, <1>9, <1>10, <1>11, <1>12, <1>13, PTL
    DEF Whole, Spec, Migrate!Spec, Heal!Spec, Secrets!Spec, Mounts!Spec, Cgroups!Spec, Builds!Spec, UserKeys!Spec,
        Served!Spec, SubIDs!Spec, Tree!Spec

\* All that the run of Host checks of its parts, for every value of its constants.
THEOREM HostKeepsItsWord ==
    ASSUME ColumnNames, MaxClock \in Nat, Keep \in Nat \ {0}, MaxDirs \in Nat, ProcessNames, SessionsOfMembers,
           IsFiniteSet(Builders), PathBoundSuffices, NamesSound, RequestsAreSomebody, WayOut
    PROVE  Whole => /\ []FirstTick /\ []DatabaseIsKept /\ []SomeContainerIsLeft /\ []StartsReadWhole
                    /\ []RunsOnLegalFolders /\ []LimitsHold /\ []AccountsStayApart /\ RecordsAreTheBuilders
                    /\ []EachKeepsToItsOwn
<1>1. MaxBuildsPerBuilder \in Nat
    BY DEF PathBoundSuffices
<1>2. Migrate!Spec => []Migrate!OpensForOne
    BY MigrateOpens
<1>3. Daemon!Init /\ [][Daemon!Next]_Daemon!vars => []Daemon!LastBackupIsWhole
    BY BackupsAreKept
<1>4. Migrate!Spec /\ Daemon!Init /\ [][Daemon!Next]_Daemon!vars => []DatabaseIsKept
    BY <1>2, <1>3, PTL DEF DatabaseIsKept
<1>5. Cgroups!Spec /\ Builds!Spec /\ Served!Spec => []LimitsHold
    BY <1>1, LimitsStay
<1>6. Secrets!Spec => []StartsReadWhole
    BY StartsNeverReadHalf
<1>7. UserKeys!Spec /\ Served!Spec => []AccountsStayApart
    BY AccountsRemainApart
<1>8. Builds!Spec => RecordsAreTheBuilders
    BY RecordsStayTheirs
<1>9. SubIDs!Spec /\ Tree!Spec => []EachKeepsToItsOwn
    BY ThingsStayTheirs
<1> QED
    BY <1>4, <1>5, <1>6, <1>7, <1>8, <1>9, EachOnItsOwn, NextIsTheFirstTick, ContainerStays, FoldersAreLegal, PTL
=============================================================================
