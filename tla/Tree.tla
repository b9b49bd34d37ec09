-------------------------------- MODULE Tree --------------------------------
(***************************************************************************)
(* Reading below a root (internal/fs and internal/safeopen): a path is     *)
(* walked once to refuse links and dots, then every open, stat, listing,   *)
(* folder made and file removed resolves again below the root, from a      *)
(* descriptor, while its owner renames what is on the way.                 *)
(*                                                                         *)
(* A path is a sequence of names from the root.  A folder holds two names: *)
(* "n", a folder or a file, and "m", its kitbash.yaml.  A node leaves its  *)
(* place for one nobody lists, and a link to what is outside may take it.  *)
(* On a kernel without openat2 an open is a second walk by name.           *)
(***************************************************************************)
EXTENDS Integers, Sequences, FiniteSets, SequencesExt

CONSTANTS Dirs, Root,   \* the folders of the root, itself among them
          Files,        \* what "n" and "m" may be when not a folder; a manifest is one
          Packages,     \* the files that parse as a manifest with a deploy block
          Outside,      \* the folder a link may lead to, and its two files
          Leads,        \* where each link leads
          Trees,        \* what the owner may have to begin with
          MaxDepth,     \* bound: MaxWalkDepth of the code
          MaxMoves      \* bound: renames by the owner

VARIABLES child,   \* what each name of each folder is
          missing, \* the kernel has no openat2
          call,
          touched, \* what the last step told of, made in, or removed from
          moves

vars == <<child, missing, call, touched, moves>>

None  == "none"
Names == {"n", "m"}
Beyond == {Outside.dir, Outside.n, Outside.m}
Links == DOMAIN Leads
Inside == Dirs \cup Files
Idle == [at |-> "idle", form |-> "none", path |-> <<>>, walked |-> 0, fd |-> None,
         folder |-> <<>>, left |-> {}, todo |-> {}]

-----------------------------------------------------------------------------
(* Resolution.                                                             *)

Follow(v) == IF v \in Links THEN Leads[v] ELSE v
In(d, s) == IF d \in Dirs THEN child[<<d, s>>]
            ELSE IF d = Outside.dir THEN Outside[s] ELSE None

\* By name, following what is on the way and not the last: Lstat.
ByName(path) == FoldLeft(LAMBDA d, s : In(Follow(d), s), Root, path)

\* openat2 with RESOLVE_BENEATH and RESOLVE_NO_SYMLINKS: a link ends it.
Enter(d, s) == IF d \in Links THEN d ELSE In(d, s)
Below(path) ==
    LET reached[i \in 0 .. Len(path)] == IF i = 0 THEN Root ELSE Enter(reached[i - 1], path[i])
    IN  reached[Len(path)]

\* openWalk: a link seen by the walk is refused; the open follows what the
\* owner puts on the way after it, and the two are one step here for Below.
Open(path) == IF missing THEN ByName(path) ELSE Below(path)
StatByPath(path) == ByName(path)
Stat(path) == Open(path)

Sub(path, s) == Append(path, s)
Parent(path) == SubSeq(path, 1, Len(path) - 1)

\* LoadBelow opens the manifest below the root like anything else.
Manifest(dir) == Open(Sub(dir, "m"))
Visible(dir) == Manifest(dir) \in Files \cup {Outside.m}
FolderEntry(path) == IF Visible(path) THEN {Manifest(path)} ELSE {}
IsPackage(v) == v \in Packages \cup {Outside.m}

TopLevel == call.path = <<>>
IsFolder(v) == v \in Dirs \cup {Outside.dir}
RegularFiles == Files \cup {Outside.n, Outside.m}
FileAt(path) == {Open(path)} \cap RegularFiles

-----------------------------------------------------------------------------
Init ==
    /\ child \in {[p \in Dirs \X Names |-> IF p \in DOMAIN t THEN t[p] ELSE None]
                  : t \in Trees}
    /\ missing \in BOOLEAN
    /\ call = Idle
    /\ touched = {}
    /\ moves = 0

\* The owner, in a shell of their own.
Placed == {child[p] : p \in Dirs \X Names}
Move(p) ==
    /\ moves < MaxMoves
    /\ \E v \in {None} \cup Links \cup ((Inside \ {Root}) \ Placed) :
          /\ v # child[p]
          /\ child' = [child EXCEPT ![p] = v]
    /\ moves' = moves + 1
    /\ touched' = {}
    /\ UNCHANGED <<missing, call>>

Paths == {<<>>, <<"n">>, <<"n", "n">>, <<"n", "n", "n">>}
Forms == {"read", "list", "history", "manifest", "roots", "packages", "mkdir", "remove"}

Begin(form, path) ==
    /\ call = Idle
    /\ (form \in {"roots", "packages"} => path = <<>>)
    /\ (form \in {"read", "mkdir", "remove", "manifest"} => path # <<>>)
    /\ call' = [Idle EXCEPT !.at = IF form = "packages" THEN "packages"
                                   ELSE IF form = "roots" THEN "open" ELSE "walk",
                            !.form = form, !.path = path,
                            !.todo = IF form = "packages" THEN {<<>>} ELSE {}]
    /\ touched' = {}
    /\ UNCHANGED <<child, missing, moves>>

Answer(told) ==
    /\ call' = Idle
    /\ touched' = told
    /\ UNCHANGED <<child, missing, moves>>

Refuse == Answer({})

Goes(next) ==
    /\ call' = next
    /\ touched' = {}
    /\ UNCHANGED <<child, missing, moves>>

\* checkSegments: one Lstat per component; what is absent ends the walk.
WalkOne ==
    /\ call.at = "walk"
    /\ LET i == call.walked + 1
           done == [call EXCEPT !.at = IF call.form = "mkdir" THEN "descend"
                                       ELSE IF call.form = "remove" THEN "parent" ELSE "open",
                                !.walked = 0, !.fd = Root]
       IN IF i > Len(call.path) THEN Goes(done)
          ELSE LET v == ByName(SubSeq(call.path, 1, i))
               IN IF v \in Links THEN Refuse
                  ELSE IF v = None THEN Goes(done) ELSE Goes([call EXCEPT !.walked = i])

\* What was opened is judged before anything is read through it, and then
\* the folder it is in has to be visible.
Judged(v, fits, folder) ==
    IF fits /\ v \in Inside \cup Beyond
    THEN Goes([call EXCEPT !.at = "see", !.fd = v, !.folder = folder])
    ELSE Refuse

Read == /\ call.at = "open" /\ call.form = "read"
        /\ LET v == Open(call.path)
           IN Judged(v, ~IsFolder(v), Parent(call.path))
List == /\ call.at = "open" /\ call.form = "list"
        /\ LET v == Open(call.path)
           IN Judged(v, IsFolder(v), call.path)
History == /\ call.at = "open" /\ call.form = "history"
           /\ LET v == Stat(call.path)
              IN Judged(v, TRUE, IF IsFolder(v) THEN call.path ELSE Parent(call.path))
ManifestOf == /\ call.at = "open" /\ call.form = "manifest"
              /\ LET v == Stat(call.path)
                 IN Judged(v, IsFolder(v), call.path)
Roots == /\ call.at = "open" /\ call.form = "roots"
         /\ Goes([call EXCEPT !.at = "names", !.fd = Open(<<>>)])

\* visibleFolder: the nearest manifest, each opened afresh; a root needs none.
See ==
    /\ call.at = "see"
    /\ IF call.path = <<>> \/ call.folder = <<>> \/ Visible(call.folder)
       THEN LET on == [read |-> "git", history |-> "git", manifest |-> "schema", list |-> "names"]
            IN /\ call' = [call EXCEPT !.at = on[call.form]]
               /\ touched' = IF call.folder = <<>> THEN {} ELSE FolderEntry(call.folder)
               /\ UNCHANGED <<child, missing, moves>>
       ELSE IF Len(call.folder) = 1 THEN Refuse
            ELSE Goes([call EXCEPT !.folder = Parent(call.folder)])

\* git starts in a descriptor of the top folder; what is read was opened before.
AskGit ==
    /\ call.at = "git"
    /\ LET repo == IF TopLevel THEN None ELSE Open(SubSeq(call.path, 1, 1))
           bytes == IF call.form = "read" THEN {call.fd} ELSE {}
       IN \/ Answer(bytes)
          \/ IsFolder(repo) /\ Answer(bytes \cup {repo})

\* ResolveSchemasBelow: a schema is a file of the folder the manifest is in.
ReadSchema ==
    /\ call.at = "schema"
    /\ Answer(FileAt(Sub(call.folder, "n")))

\* The names come from the descriptor.
Listed(fd) == {s \in {"n"} : In(fd, s) \notin {None}}
ReadNames ==
    /\ call.at = "names"
    /\ call' = [call EXCEPT !.at = "describe",
                             !.todo = {[path |-> Sub(call.path, s), folder |-> IsFolder(In(call.fd, s))]
                                       : s \in Listed(call.fd)}]
    /\ touched' = IF TopLevel THEN {} ELSE FolderEntry(call.path)
    /\ UNCHANGED <<child, missing, moves>>

\* Everything said of an entry is a resolution of its own.
FileEntry(path) == {Stat(path)} \cap RegularFiles
DescribeOne ==
    /\ call.at = "describe"
    /\ IF call.todo = {} THEN Answer({})
       ELSE \E e \in call.todo :
               /\ call' = [call EXCEPT !.todo = @ \ {e}]
               /\ touched' = IF e.folder THEN FolderEntry(e.path)
                             ELSE IF TopLevel THEN {} ELSE FileEntry(e.path)
               /\ UNCHANGED <<child, missing, moves>>

\* Packages: a folder is listed through its descriptor, a child described
\* and entered afresh, and only below one that carries a manifest.
WalkPackages ==
    /\ call.at = "packages"
    /\ IF call.todo = {} THEN Answer({})
       ELSE \E dir \in call.todo :
               LET fd == Open(dir)
                   names == IF IsFolder(fd) /\ Len(dir) <= MaxDepth
                            THEN Listed(fd) ELSE {}
               IN Goes([call EXCEPT !.at = "children", !.fd = fd,
                                    !.todo = @ \ {dir}, !.left = {Sub(dir, s) : s \in names}])
WalkChildren ==
    /\ call.at = "children"
    /\ IF call.left = {} THEN Goes([call EXCEPT !.at = "packages"])
       ELSE \E path \in call.left :
               LET enters == Stat(path) \in Dirs \cup {Outside.dir} /\ Visible(path)
               IN /\ call' = [call EXCEPT !.left = @ \ {path},
                                           !.todo = IF enters THEN @ \cup {path} ELSE @]
                  /\ touched' = IF enters /\ IsPackage(Manifest(path)) THEN {Manifest(path)} ELSE {}
                  /\ UNCHANGED <<child, missing, moves>>

\* MkdirAll: one name at a time from the descriptor of the one before, on
\* any kernel; the mode is set on what was opened.
Descend ==
    /\ call.at = "descend"
    /\ IF call.walked = Len(call.path) THEN Answer({})
       ELSE LET s == call.path[call.walked + 1]
                v == In(call.fd, s)
                fresh == Dirs \ (Placed \cup {Root})
            IN \/ /\ v \in Dirs
                  /\ Goes([call EXCEPT !.walked = @ + 1, !.fd = v])
               \/ /\ v = None /\ call.fd \in Dirs
                  /\ \E d \in fresh :
                        /\ child' = [child EXCEPT ![<<call.fd, s>>] = d]
                        /\ call' = [call EXCEPT !.walked = @ + 1, !.fd = d]
                        /\ touched' = {call.fd}
                  /\ UNCHANGED <<missing, moves>>
               \/ /\ v \notin Dirs /\ (v = None => fresh = {} \/ call.fd \notin Dirs)
                  /\ Refuse

\* remove: the folder of the path is opened, and the name unlinked in it.
OpenParent ==
    /\ call.at = "parent"
    /\ LET v == Open(Parent(call.path))
       IN IF IsFolder(v) THEN Goes([call EXCEPT !.at = "unlink", !.fd = v]) ELSE Refuse
Unlink ==
    /\ call.at = "unlink"
    /\ LET p == <<call.fd, "n">>
       IN IF call.fd \in Dirs /\ child[p] \in Files \cup Links
          THEN /\ child' = [child EXCEPT ![p] = None]
               /\ call' = Idle
               /\ touched' = {call.fd}
               /\ UNCHANGED <<missing, moves>>
          ELSE Answer({call.fd})

Next == \/ \E p \in Dirs \X Names : Move(p)
        \/ \E form \in Forms, path \in Paths : Begin(form, path)
        \/ WalkOne \/ Read \/ List \/ History \/ ManifestOf \/ Roots \/ See \/ AskGit \/ ReadSchema
        \/ ReadNames \/ DescribeOne
        \/ WalkPackages \/ WalkChildren \/ Descend \/ OpenParent \/ Unlink

Spec == Init /\ [][Next]_vars

-----------------------------------------------------------------------------
\* Whatever the owner renames while a call runs, what it tells of, makes
\* something in, or removes something from is below the root; a link that
\* takes the place of a folder after the walk is never followed (read.go,
\* list.go, open.go).  A kernel without openat2 is not promised this.
NothingLeavesTheRoot == missing \/ touched \subseteq Inside
=============================================================================
