------------------------------- MODULE Mounts -------------------------------
(***************************************************************************)
(* The folders a Process is given (internal/mounts/mounts.go and           *)
(* daemon/mounts.go): every source is opened below its root without        *)
(* following a link and judged by what was opened; the runtime resolves    *)
(* the path itself afterwards, following links, when it prepares the       *)
(* container; and what the container then has is compared with what was    *)
(* opened before anything in it runs.  The member moves folders and links  *)
(* between any two of these steps.                                         *)
(*                                                                         *)
(* A folder is an inode with the root it is below, its owner and whether a *)
(* manifest makes it visible.  A declared mount is a path, the root its    *)
(* text is under, a mode and whether its target is one checkTarget takes.  *)
(***************************************************************************)
EXTENDS Naturals, FiniteSets

CONSTANTS Folders,    \* the inodes: records [id, root, owned, visible]
          Declared,   \* the mounts units declare: records [path, root, mode, target]
          Max,        \* mounts of one unit
          MaxMoves    \* bound

VARIABLES name,      \* path -> what it names: a folder and whether through a link, or nothing
          at,        \* the start of the Process
          declared,  \* the mounts it declares
          left,      \* those not opened yet
          opened,    \* path -> the folder that was opened
          mounted,   \* path -> the folder the container has
          moves

vars == <<name, at, declared, left, opened, mounted, moves>>

Paths   == {d.path : d \in Declared}
Nothing == [id |-> "nothing"]
Gone    == [folder |-> Nothing, link |-> FALSE]
Unset   == [p \in Paths |-> Nothing]

Init ==
    /\ name \in [Paths -> [folder : Folders, link : {FALSE}] \union {Gone}]
    /\ at = "idle" /\ declared = {} /\ left = {} /\ opened = Unset /\ mounted = Unset
    /\ moves = 0
------------------------------------------------------------------------------
\* rootOf and checkTarget: what the text of the declaration may say.
RootOf(d)      == d.root \in {"home", "org"}
CheckTarget(d) == d.target = "free"

\* ResolveOne: /org is read only for everybody, below a home the folder is the member's own.
Legal(d, f) ==
    /\ RootOf(d) /\ CheckTarget(d)
    /\ d.root = "org" => d.mode = "ro"
    /\ f.root = d.root
    /\ d.root = "home" => f.owned
    /\ f.visible

\* Open: a link on the way is refused, wherever it points, and nothing is not found.
Opens(p) == ~name[p].link /\ name[p].folder # Nothing
------------------------------------------------------------------------------
\* resolveMounts and revalidateMounts ask the same question, at the registration and at every start.
Begin(ds) ==
    /\ at = "idle" /\ Cardinality(ds) <= Max
    /\ \A c, d \in ds : c # d => c.path # d.path
    /\ at' = "resolve" /\ declared' = ds /\ left' = ds /\ opened' = Unset /\ mounted' = Unset
    /\ UNCHANGED <<name, moves>>

\* The first that does not check out is the answer.
ResolveOne(d) ==
    /\ at = "resolve" /\ d \in left
    /\ IF Opens(d.path) /\ Legal(d, name[d.path].folder)
       THEN /\ opened' = [opened EXCEPT ![d.path] = name[d.path].folder]
            /\ left' = left \ {d} /\ UNCHANGED at
       ELSE at' = "refused" /\ UNCHANGED <<opened, left>>
    /\ UNCHANGED <<name, declared, mounted, moves>>

\* The container is made; its bind mounts are made by the init, which follows links.
InitContainer ==
    /\ at = "resolve" /\ left = {}
    /\ IF \E d \in declared : name[d.path].folder = Nothing
       THEN at' = "refused" /\ UNCHANGED mounted
       ELSE /\ mounted' = [p \in Paths |-> IF \E d \in declared : d.path = p THEN name[p].folder ELSE Nothing]
            /\ at' = "prepared"
    /\ UNCHANGED <<name, declared, left, opened, moves>>

\* What the path names by now.
SameByPath == \A d \in declared : name[d.path].folder = opened[d.path]

\* verifyConfig: the device and inode inside the container's own namespace.
SameFolder == \A d \in declared : mounted[d.path] = opened[d.path]

\* A container that does not match is removed, having run nothing.
VerifyMounts ==
    /\ at = "prepared"
    /\ at' = IF SameFolder THEN "verified" ELSE "refused"
    /\ UNCHANGED <<name, declared, left, opened, mounted, moves>>

StartContainer ==
    /\ at = "verified" /\ at' = "running"
    /\ UNCHANGED <<name, declared, left, opened, mounted, moves>>

\* The Process stops, or was refused, and is started or restored another time.
Ends ==
    /\ at \in {"running", "refused"} /\ at' = "idle"
    /\ declared' = {} /\ left' = {} /\ opened' = Unset /\ mounted' = Unset
    /\ UNCHANGED <<name, moves>>

\* Whoever may write below the root makes the path name another folder, a link to one, or nothing.
Move(p) ==
    /\ moves < MaxMoves /\ moves' = moves + 1
    /\ \E entry \in [folder : Folders, link : BOOLEAN] \union {Gone} :
          entry # name[p] /\ name' = [name EXCEPT ![p] = entry]
    /\ UNCHANGED <<at, declared, left, opened, mounted>>

Next ==
    \/ \E ds \in SUBSET Declared : Begin(ds)
    \/ \E d \in Declared : ResolveOne(d)
    \/ InitContainer \/ VerifyMounts \/ StartContainer \/ Ends
    \/ \E p \in Paths : Move(p)

Spec == Init /\ [][Next]_vars
------------------------------------------------------------------------------
\* Nothing of a Process runs while the container has a folder that its declaration may not have: another
\* member's, one nobody made visible, or /org to write to - whatever was moved or linked between the
\* check, the mount and the start (mounts.go ResolveOne: "a Process holding a rw mount would be a way
\* around it that leaves no record at all").
RunsOnLegalFolders ==
    at = "running" => \A d \in declared : mounted[d.path] \in Folders /\ Legal(d, mounted[d.path])
==============================================================================
