------------------------------ MODULE Migrate ------------------------------
(***************************************************************************)
(* Open of internal/store: the schema of the release that opens the file,  *)
(* then one ALTER TABLE for each column an earlier release did not have,   *)
(* then the indexes, each statement on its own.  A daemon may die between  *)
(* any two of them, a later one may be of another release, either way, and *)
(* a second daemon may open the file while the first has it: nothing holds *)
(* the store before the listeners are bound.                               *)
(*                                                                         *)
(* Of a registration only the columns it was written with are kept: a row  *)
(* of an earlier release reads as the default of every later column.       *)
(***************************************************************************)
EXTENDS Naturals, Sequences, FiniteSets

CONSTANTS Columns,    \* what migrate adds, in its order; release r knows the first r of them
          Daemons,    \* the kitbashd processes there may be at once
          MaxOpens,   \* bound: how often the file is opened
          MaxRows     \* bound: the registrations written

VARIABLES table,      \* the columns of the table, or that there is none
          indexed,    \* the columns an index is on
          rows,       \* the registrations, each by the release that wrote it
          daemon,     \* each daemon: [pc, release, at, list]
          opens

vars == <<table, indexed, rows, daemon, opens>>

Absent == {"absent"}
Of(r)  == {Columns[i] : i \in 1..r}
Off    == [pc |-> "off", release |-> 0, at |-> 0, list |-> {}]

Init ==
    /\ table = Absent /\ indexed = {}
    /\ rows = {}
    /\ daemon = [d \in Daemons |-> Off]
    /\ opens = 0

At(d, pc) == daemon[d].pc = pc
To(d, pc) == daemon' = [daemon EXCEPT ![d].pc = pc]
Exit(d)   == daemon' = [daemon EXCEPT ![d] = Off]

Open(d, r) ==
    /\ At(d, "off") /\ opens < MaxOpens
    /\ opens' = opens + 1
    /\ daemon' = [daemon EXCEPT ![d] = [Off EXCEPT !.pc = "schema", !.release = r, !.at = 1]]
    /\ UNCHANGED <<table, indexed, rows>>

\* CREATE TABLE IF NOT EXISTS: all of its columns to a file that has no table, and none to one that has.
Schema(d) ==
    /\ At(d, "schema")
    /\ table' = IF table = Absent THEN Of(daemon[d].release) ELSE table
    /\ To(d, "migrate")
    /\ UNCHANGED <<indexed, rows, opens>>

Known(d) == daemon[d].at > daemon[d].release
Has(d)   == ~Known(d) /\ Columns[daemon[d].at] \in table

\* The migration read off its first column: a file that has that one has them all.
FirstOnly(d) ==
    /\ At(d, "migrate")
    /\ To(d, IF Known(d) \/ Has(d) THEN "index" ELSE "alter")
    /\ UNCHANGED <<table, indexed, rows, opens>>

\* migrate asks hasColumn of one column after the other.
HasColumn(d) ==
    /\ At(d, "migrate")
    /\ IF Has(d) THEN daemon' = [daemon EXCEPT ![d].at = @ + 1]
       ELSE To(d, IF Known(d) THEN "index" ELSE "alter")
    /\ UNCHANGED <<table, indexed, rows, opens>>

\* addColumn: a column somebody has added since is an error, and an error is a daemon that ends.
AddColumn(d) ==
    /\ At(d, "alter")
    /\ LET c == Columns[daemon[d].at]
       IN  IF c \in table THEN Exit(d) /\ UNCHANGED table
           ELSE /\ table' = table \union {c}
                /\ daemon' = [daemon EXCEPT ![d].pc = "migrate", ![d].at = @ + 1]
    /\ UNCHANGED <<indexed, rows, opens>>

\* The indexes come after the columns they are on.
Indexes(d) ==
    /\ At(d, "index")
    /\ IF Of(daemon[d].release) \subseteq table
       THEN indexed' = indexed \union Of(daemon[d].release) /\ To(d, "serving")
       ELSE Exit(d) /\ UNCHANGED indexed
    /\ UNCHANGED <<table, rows, opens>>

\* The columns a daemon speaks of have to be there, or every statement of it fails.
RegisterProcess(d) ==
    /\ At(d, "serving") /\ Cardinality(rows) < MaxRows
    /\ Of(daemon[d].release) \subseteq table
    /\ rows' = rows \union {[id |-> Cardinality(rows) + 1, release |-> daemon[d].release]}
    /\ UNCHANGED <<table, indexed, daemon, opens>>

\* Processes and scanProcess: what was written is read, what was not is the default.
Read(r, release) == [id |-> r.id, known |-> Of(release) \intersect Of(r.release)]

List(d) ==
    /\ At(d, "serving") /\ Of(daemon[d].release) \subseteq table
    /\ daemon' = [daemon EXCEPT ![d].list = {Read(r, daemon[d].release) : r \in rows}]
    /\ UNCHANGED <<table, indexed, rows, opens>>

Die(d) == ~At(d, "off") /\ Exit(d) /\ UNCHANGED <<table, indexed, rows, opens>>

Releases == 1..Len(Columns)
Next == \E d \in Daemons :
           \/ \E r \in Releases : Open(d, r)
           \/ Schema(d) \/ HasColumn(d) \/ AddColumn(d) \/ Indexes(d)
           \/ RegisterProcess(d) \/ List(d) \/ Die(d)

Spec == Init /\ [][Next]_vars

------------------------------------------------------------------------------
\* A file that has been through any number of half finished upgrades, by any releases in any order,
\* is one the next daemon can open: migrate never stands before a column it will not come back to.
\* No daemon alone is ever turned away by the file; it takes two of them at once.
OpensForOne ==
    \A d \in Daemons : At(d, "index") => Of(daemon[d].release) \subseteq table
==============================================================================
