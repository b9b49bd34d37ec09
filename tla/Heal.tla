-------------------------------- MODULE Heal --------------------------------
(***************************************************************************)
(* internal/daemon/restore.go, one Process of one container over several   *)
(* starts of the daemon: what restoreOwner does with it, with a container  *)
(* that declares mounts (restoreMounted, remakeMounted) and with one made  *)
(* before every Process had a ceiling (healCeiling).  Each call to podman  *)
(* and to the store is a step.  The runner's calls do not hear that the    *)
(* daemon is stopping (Podman.runFor); the lookup of the owner, the proofs *)
(* before a start and the store do.                                        *)
(***************************************************************************)
EXTENDS Integers

CONSTANTS
    MaxBoots, \* bound: starts of the daemon
    MaxFaults \* bound: calls that fail on their own

NoContainer == [state |-> "none", parent |-> "none", token |-> 0]

VARIABLES
    mounted,  \* the Process declares mounts
    row,      \* its registration: held, whether a ceiling is written, its token
    here,     \* the container of its name
    aside,    \* the one under the name with AsideSuffix
    at,       \* where the restore is
    path,     \* which of the two makes a container: heal or remake
    token,    \* the token minted last
    leaf,     \* this boot could make the ceiling
    ending,   \* the daemon is stopping: its context is cancelled
    report,   \* what proc_list says
    boots, faults

vars == <<mounted, row, here, aside, at, path, token, leaf, ending, report, boots, faults>>
same == <<mounted, leaf, ending, boots>>

Container(s, p, t) == [state |-> s, parent |-> p, token |-> t]

Init ==
    /\ mounted \in BOOLEAN
    /\ \E written \in BOOLEAN :
         /\ row = [held |-> TRUE, ceiling |-> written, token |-> 1]
         /\ here \in IF written THEN {Container(s, "leaf", 1) : s \in {"running", "initialized", "exited"}}
                                ELSE {Container(s, "member", 1) : s \in {"running", "exited"}}
    /\ aside = NoContainer
    /\ at = "down" /\ path = "none" /\ token = 1 /\ leaf = TRUE /\ ending = FALSE
    /\ report = "" /\ boots = 0 /\ faults = 0

\* A call comes back with its answer, or does not.
Works == UNCHANGED faults
Breaks == faults < MaxFaults /\ faults' = faults + 1
\* One that hears the daemon stop fails of it.
Heard == ending /\ UNCHANGED faults

Boot ==
    /\ at = "down" /\ boots < MaxBoots
    /\ boots' = boots + 1
    /\ at' = IF row.held THEN "check" ELSE "served"
    /\ leaf' \in BOOLEAN
    /\ ending' = FALSE /\ path' = "none" /\ report' = ""
    /\ UNCHANGED <<mounted, row, here, aside, token, faults>>

Stop ==
    /\ at # "down" /\ ~ending
    /\ ending' = TRUE
    /\ UNCHANGED <<mounted, row, here, aside, at, path, token, leaf, report, boots, faults>>

\* The daemon ends, of itself or killed, and the host may go with it.
Off(c) == IF c.state \in {"running", "initialized"} THEN [c EXCEPT !.state = "exited"] ELSE c
Down ==
    /\ at # "down"
    /\ at' = "down"
    /\ \/ UNCHANGED <<here, aside>>
       \/ here' = Off(here) /\ aside' = Off(aside)
    /\ UNCHANGED <<mounted, row, path, token, leaf, ending, report, boots, faults>>

-----------------------------------------------------------------------------
(* restoreOwner. *)

Failed(why) == at' = "served" /\ report' = why
Cleared == at' = "served" /\ report' = ""

\* The mounts, the secrets and the name are all proved again first.
Check ==
    /\ at = "check"
    /\ \/ Works /\ ~ending /\ at' = (IF mounted THEN "mounted" ELSE "start") /\ UNCHANGED report
       \/ Heard /\ Failed("lookup")
       \/ Breaks /\ \E why \in {"mount", "secret", "hostname"} : Failed(why)
    /\ UNCHANGED <<row, here, aside, path, token, same>>

\* podman start: a container under its member's own cgroup does not start.
StartByName ==
    /\ at = "start"
    /\ \/ /\ Works /\ here.state = "none"
          /\ row' = [row EXCEPT !.held = FALSE]
          /\ Cleared
          /\ UNCHANGED <<here, path>>
       \/ /\ Works /\ here.state # "none" /\ (here.state = "running" \/ here.parent = "leaf")
          /\ here' = [here EXCEPT !.state = "running"]
          /\ Cleared
          /\ UNCHANGED <<row, path>>
       \/ /\ \/ Works /\ here.state \in {"initialized", "exited"} /\ here.parent = "member"
             \/ Breaks
          /\ IF row.ceiling \/ here.parent # "member" \/ ~leaf
             THEN Failed("start") /\ UNCHANGED path
             ELSE at' = "aside" /\ path' = "heal" /\ UNCHANGED report
          /\ UNCHANGED <<row, here>>
    /\ UNCHANGED <<aside, token, same>>

\* What a container with mounts is decides what is done with it.
RestoreMounted ==
    /\ at = "mounted"
    /\ \/ Breaks /\ Failed("read") /\ UNCHANGED <<here, path>>
       \/ Works /\ here.state = "none" /\ at' = "start" /\ UNCHANGED <<here, path, report>>
       \/ /\ here.state = "running"
          /\ \/ Works /\ Cleared /\ UNCHANGED here
             \/ Breaks /\ Failed("mount") /\ here' = NoContainer
          /\ UNCHANGED path
       \/ /\ here.state = "initialized"
          /\ \/ Works /\ Cleared /\ here' = [here EXCEPT !.state = "running"]
             \/ Breaks /\ Failed("mount") /\ here' = NoContainer
          /\ UNCHANGED path
       \/ Works /\ here.state = "exited" /\ at' = "remove" /\ path' = "remake" /\ UNCHANGED <<here, report>>
    /\ UNCHANGED <<row, aside, token, same>>

\* remakeMounted takes the old container away first.
RemoveOld ==
    /\ at = "remove"
    /\ token' = token + 1
    /\ \/ Works /\ here' = NoContainer /\ at' = "create" /\ UNCHANGED report
       \/ Breaks /\ Failed("remake") /\ UNCHANGED here
    /\ UNCHANGED <<row, aside, path, same>>

-----------------------------------------------------------------------------
(* healCeiling and createVerifiedContainer. *)

\* A mutant: nothing is kept of the container that is replaced.
KeptNot == NoContainer
\* What goes under the other name.
Kept == here

\* A name that is taken refuses the rename.
RenameAside ==
    /\ at = "aside"
    /\ token' = token + 1
    /\ \/ /\ Works /\ aside.state = "none"
          /\ aside' = Kept /\ here' = NoContainer /\ at' = "create"
          /\ UNCHANGED report
       \/ /\ \/ Works /\ aside.state # "none"
             \/ Breaks
          /\ Failed("heal")
          /\ UNCHANGED <<here, aside>>
    /\ UNCHANGED <<row, path, same>>

Undo == IF path = "heal" THEN at' = "back" /\ UNCHANGED report ELSE Failed("remake")

\* A call that was cut off may have made the container.
Create ==
    /\ at = "create"
    /\ \/ Works /\ here' = Container("created", "leaf", token) /\ at' = "prepare" /\ UNCHANGED report
       \/ Breaks /\ here' \in {here, Container("created", "leaf", token)} /\ Undo
    /\ UNCHANGED <<row, aside, path, token, same>>

\* Taking it down again is a call as well.
TakesDown(c) == {c, NoContainer}
Prepare ==
    /\ at = "prepare"
    /\ \/ Works /\ here' = [here EXCEPT !.state = "initialized"] /\ at' = "run" /\ UNCHANGED report
       \/ Breaks /\ here' \in TakesDown(here) /\ Undo
    /\ UNCHANGED <<row, aside, path, token, same>>

Run ==
    /\ at = "run"
    /\ \/ Works /\ here' = [here EXCEPT !.state = "running"] /\ at' = "record" /\ UNCHANGED report
       \/ Breaks /\ here' \in TakesDown(here) /\ Undo
    /\ UNCHANGED <<row, aside, path, token, same>>

\* The name goes back, if nothing took it meanwhile.
RenameBack ==
    /\ at = "back"
    /\ \/ Works /\ here.state = "none" /\ here' = aside /\ aside' = NoContainer
       \/ /\ \/ Works /\ here.state # "none"
             \/ Breaks
          /\ UNCHANGED <<here, aside>>
    /\ Failed("heal")
    /\ UNCHANGED <<row, path, token, same>>

\* The ceiling and the token are written once the container is up.
Record ==
    /\ at = "record"
    /\ \/ /\ Works /\ ~ending
          /\ row' = [row EXCEPT !.token = token, !.ceiling = (path = "heal") \/ row.ceiling]
       \/ (Breaks \/ Heard) /\ UNCHANGED row
    /\ IF path = "heal" THEN at' = "drop" /\ UNCHANGED report ELSE Cleared
    /\ UNCHANGED <<here, aside, path, token, same>>

DropAside ==
    /\ at = "drop"
    /\ \/ Works /\ aside' = NoContainer
       \/ Breaks /\ UNCHANGED aside
    /\ Cleared
    /\ UNCHANGED <<row, here, path, token, same>>

Next ==
    \/ Boot \/ Stop \/ Down
    \/ Check \/ StartByName \/ RestoreMounted \/ RemoveOld
    \/ RenameAside \/ Create \/ Prepare \/ Run \/ RenameBack \/ Record \/ DropAside

Spec == Init /\ [][Next]_vars

-----------------------------------------------------------------------------
\* A heal takes the old container away only once its replacement runs, whatever fails
\* and wherever the daemon is stopped or killed: a Process without mounts always has
\* the container it was registered with, or one that took its place and was started
\* (healCeiling, "Nothing is removed before the replacement is up").
SomeContainerIsLeft ==
    row.held /\ ~mounted =>
        \/ 1 \in {here.token, aside.token}
        \/ here.state \in {"running", "exited"}

\* restore.go:405-407: "there is no moment in which the registration names a container
\* that does not exist, and no boot in which the Process is unregistered because of it".
NoBootUnregistersIt == [][row.held /\ ~row'.held => aside.state = "none"]_vars
=============================================================================
