------------------------------- MODULE Secrets -------------------------------
(***************************************************************************)
(* The secrets of one member (internal/secrets/secrets.go, and             *)
(* daemon/secrets.go which serves them): a file per name below the         *)
(* directory of the member.  A value is written to a temporary file of its *)
(* own and renamed onto the name; a start reads the names a unit declares  *)
(* one after the other; a removal of the member takes the directory away   *)
(* beside them, and the daemon may stop at any step.                       *)
(*                                                                         *)
(* A directory is a number: the one a call opened is not the one a later   *)
(* call made under the same path.                                          *)
(***************************************************************************)
EXTENDS Naturals, FiniteSets

CONSTANTS Names,       \* names ValidSecretName accepts
          Texts,      \* values CheckValue accepts
          Calls, Starts,
          MaxDirs, MaxCrashes  \* bounds

VARIABLES removing,  \* notRemoving refuses
          dir,       \* the directory the path names, 0 when there is none
          made,      \* directories made so far
          file,      \* directory -> name -> the value, "half" a value or "none"
          temp,      \* call -> the directory its temporary file is in, 0 for none
          call,      \* a set or remove under way
          start,     \* a start that resolves its names
          crashes

vars == <<removing, dir, made, file, temp, call, start, crashes>>

None == "none"
Half == "half"
Dirs == 1..MaxDirs
Idle == [at |-> "idle"]
NoFile == [n \in Names |-> None]

Init ==
    /\ removing = FALSE /\ dir = 0 /\ made = 0
    /\ file = [d \in Dirs |-> NoFile]
    /\ temp = [c \in Calls |-> 0]
    /\ call = [c \in Calls |-> Idle]
    /\ start = [s \in Starts |-> Idle]
    /\ crashes = 0
------------------------------------------------------------------------------
Goes(c, at) == call' = [call EXCEPT ![c].at = at]
Ends(c) == call' = [call EXCEPT ![c] = Idle]

\* setSecret and removeSecret: notRemoving is asked once, before the work.
AskSet(c, n, v) ==
    /\ call[c] = Idle /\ ~removing
    /\ call' = [call EXCEPT ![c] = [at |-> "mkdir", name |-> n, value |-> v, dir |-> 0]]
    /\ UNCHANGED <<removing, dir, made, file, temp, start, crashes>>

AskRemove(c, n) ==
    /\ call[c] = Idle /\ ~removing
    /\ call' = [call EXCEPT ![c] = [at |-> "unlink", name |-> n, value |-> None, dir |-> dir]]
    /\ UNCHANGED <<removing, dir, made, file, temp, start, crashes>>

\* Set: the directory is made when it is not there.
MkdirMember(c) ==
    /\ call[c].at = "mkdir"
    /\ IF dir # 0 THEN UNCHANGED <<dir, made>>
       ELSE made < MaxDirs /\ made' = made + 1 /\ dir' = made'
    /\ Goes(c, "open")
    /\ UNCHANGED <<removing, file, temp, start, crashes>>

\* memberDir: the descriptor the rename is made against.
OpenDir(c) ==
    /\ call[c].at = "open"
    /\ IF dir = 0 THEN Ends(c) ELSE call' = [call EXCEPT ![c].at = "create", ![c].dir = dir]
    /\ UNCHANGED <<removing, dir, made, file, temp, start, crashes>>

\* The temporary file is opened below the path, which may name another directory by now.
CreateTemp(c) ==
    /\ call[c].at = "create"
    /\ IF dir = 0 THEN Ends(c) /\ UNCHANGED temp
       ELSE temp' = [temp EXCEPT ![c] = dir] /\ Goes(c, "write")
    /\ UNCHANGED <<removing, dir, made, file, start, crashes>>

\* The value straight onto the name, in as many writes as it takes.
WriteInPlace(c) ==
    /\ call[c].at = "write"
    /\ file' = [file EXCEPT ![call[c].dir][call[c].name] = Half] /\ Goes(c, "rename")
    /\ UNCHANGED <<removing, dir, made, temp, start, crashes>>

\* A write that fails discards the temporary file, below the directory that was opened.
WriteTemp(c) ==
    /\ call[c].at = "write"
    /\ \/ Goes(c, "rename") /\ UNCHANGED temp
       \/ /\ Ends(c)
          /\ temp' = [temp EXCEPT ![c] = IF @ = call[c].dir THEN 0 ELSE @]
    /\ UNCHANGED <<removing, dir, made, file, start, crashes>>

\* Renameat finds the temporary file only in the directory it was opened against.
Rename(c) ==
    /\ call[c].at = "rename"
    /\ LET d == call[c].dir
       IN  IF temp[c] = d
           THEN /\ file' = [file EXCEPT ![d][call[c].name] = call[c].value]
                /\ temp' = [temp EXCEPT ![c] = 0]
           ELSE UNCHANGED <<file, temp>>
    /\ Ends(c)
    /\ UNCHANGED <<removing, dir, made, start, crashes>>

\* Remove: a name that is not held is no failure.
Unlink(c) ==
    /\ call[c].at = "unlink"
    /\ file' = IF call[c].dir = 0 THEN file ELSE [file EXCEPT ![call[c].dir][call[c].name] = None]
    /\ Ends(c)
    /\ UNCHANGED <<removing, dir, made, temp, start, crashes>>
------------------------------------------------------------------------------
\* resolveSecretNames, by every start: a name that is not held ends it with nothing created.
StartBegins(s) ==
    /\ start[s] = Idle /\ ~removing
    /\ start' = [start EXCEPT ![s] = [at |-> "read", left |-> Names, got |-> NoFile, failed |-> FALSE]]
    /\ UNCHANGED <<removing, dir, made, file, temp, call, crashes>>

Get(s, n) ==
    /\ start[s].at = "read" /\ n \in start[s].left
    /\ LET was == start[s] IN
       start' = [start EXCEPT ![s] =
         IF dir = 0 \/ file[dir][n] = None THEN [was EXCEPT !.at = "done", !.failed = TRUE]
         ELSE [was EXCEPT !.left = was.left \ {n}, !.got[n] = file[dir][n],
                          !.at = IF was.left = {n} THEN "done" ELSE "read"]]
    /\ UNCHANGED <<removing, dir, made, file, temp, call, crashes>>

StartEnds(s) ==
    /\ start[s].at = "done"
    /\ start' = [start EXCEPT ![s] = Idle]
    /\ UNCHANGED <<removing, dir, made, file, temp, call, crashes>>

\* The removal of the member marks it, removes the directory, and ends; a create of the name removes it again.
RemovalBegins ==
    /\ ~removing /\ removing' = TRUE
    /\ UNCHANGED <<dir, made, file, temp, call, start, crashes>>

RemoveMember ==
    /\ removing
    /\ removing' = FALSE /\ dir' = 0
    /\ file' = [d \in Dirs |-> IF d = dir THEN NoFile ELSE file[d]]
    /\ temp' = [c \in Calls |-> IF dir # 0 /\ temp[c] = dir THEN 0 ELSE temp[c]]
    /\ UNCHANGED <<made, call, start, crashes>>

\* The daemon stops; a temporary file stays where it is, under a name no call reads.
Crash ==
    /\ crashes < MaxCrashes /\ crashes' = crashes + 1
    /\ call' = [c \in Calls |-> Idle] /\ start' = [s \in Starts |-> Idle]
    /\ UNCHANGED <<removing, dir, made, file, temp>>

Next ==
    \/ \E c \in Calls :
         \/ \E n \in Names : AskRemove(c, n) \/ \E v \in Texts : AskSet(c, n, v)
         \/ MkdirMember(c) \/ OpenDir(c) \/ CreateTemp(c) \/ WriteTemp(c) \/ Rename(c) \/ Unlink(c)
    \/ \E s \in Starts : StartBegins(s) \/ StartEnds(s) \/ \E n \in Names : Get(s, n)
    \/ RemovalBegins \/ RemoveMember \/ Crash

Spec == Init /\ [][Next]_vars
------------------------------------------------------------------------------
\* A start is given, for every name it declares, a value that somebody set whole, or is refused: no write
\* cut short by a stop, a failure or a removal is ever read (secrets.go Set: "Nothing that the next start
\* reads is ever half a secret"; daemon/secrets.go: "refused rather than started without it").
StartsReadWhole ==
    \A s \in Starts : start[s].at = "done" /\ ~start[s].failed => \A n \in Names : start[s].got[n] \in Texts
==============================================================================
