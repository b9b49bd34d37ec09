------------------------------ MODULE Cgroups ------------------------------
(***************************************************************************)
(* The cgroups of one member (internal/cgroups/host_linux.go and the calls *)
(* of run.go that make them): a cgroup of the member, a leaf for the       *)
(* member's own processes, and below the cgroup one ceiling per Process.   *)
(* The ceiling is root's with its limit files; what the member is handed   *)
(* is enough to make a container's cgroup below a ceiling and to move      *)
(* processes between cgroups of theirs.  Starts, removals, sessions and    *)
(* the member's own moves interleave; an older release left everything in  *)
(* the member's hands, and a daemon that starts finds what the last one    *)
(* left.                                                                   *)
(***************************************************************************)
EXTENDS Naturals, FiniteSets

CONSTANTS Ids,         \* Processes of the member
          Old,         \* those whose ceilings an older release made
          Procs,       \* processes of the member
          MaxRestarts  \* bound

VARIABLES member,   \* the cgroup of the member: who owns it, and its cgroup.procs
          leaf,     \* the leaf is there
          ceiling,  \* Process -> who owns the directory and the limit files, and what they say
          sub,      \* the ceilings with a container's cgroup below them
          at,       \* process -> "out", "leaf", or the ceiling whose container it is in
          call,     \* Process -> the step of an EnsureProcess under way
          placed,   \* Processes whose ceiling this daemon has made and not removed
          restarts

vars == <<member, leaf, ceiling, sub, at, call, placed, restarts>>

Nobody == "none"
Absent == [dir |-> Nobody, files |-> Nobody, limits |-> "max"]
There(id) == ceiling[id].dir # Nobody
Holds(id) == \E p \in Procs : at[p] = id

\* A fresh host, or one an older release gave away: its ceilings hold whatever the member wrote.
Init ==
    /\ member = IF Old = {} THEN [dir |-> Nobody, procs |-> Nobody] ELSE [dir |-> "member", procs |-> "member"]
    /\ leaf = (Old # {})
    /\ ceiling = [id \in Ids |-> IF id \in Old THEN [dir |-> "member", files |-> "member", limits |-> "raised"]
                                 ELSE Absent]
    /\ sub = {} /\ at = [p \in Procs |-> "out"]
    /\ call = [id \in Ids |-> "idle"]
    /\ placed = {} /\ restarts = 0
------------------------------------------------------------------------------
\* EnsureMember: the directory is taken back, its cgroup.procs handed over, the limit files taken back.
TakeBackNothing == ceiling
TakeBackCeilings ==
    [id \in Ids |-> IF There(id) THEN [ceiling[id] EXCEPT !.files = "root"] ELSE ceiling[id]]

EnsureMember ==
    /\ member' = [dir |-> "root", procs |-> "member"]
    /\ leaf' = TRUE
    /\ ceiling' = TakeBackCeilings

\* processCgroup: EnsureProcess makes the member's cgroup first.
EnsureBegins(id) ==
    /\ call[id] = "idle" /\ EnsureMember
    /\ call' = [call EXCEPT ![id] = "mkdir"]
    /\ UNCHANGED <<sub, at, placed, restarts>>

\* A step that fails ends the call: the Process runs unplaced, its limits recorded and not enforced.
EnsureFails(id) ==
    /\ call[id] # "idle"
    /\ call' = [call EXCEPT ![id] = "idle"]
    /\ UNCHANGED <<member, leaf, ceiling, sub, at, placed, restarts>>

MkdirCeiling(id) ==
    /\ call[id] = "mkdir" /\ member.dir # Nobody
    /\ ceiling' = IF There(id) THEN ceiling
                  ELSE [ceiling EXCEPT ![id] = [dir |-> "root", files |-> "root", limits |-> "max"]]
    /\ call' = [call EXCEPT ![id] = "limits"]
    /\ UNCHANGED <<member, leaf, sub, at, placed, restarts>>

WriteLimits(id) ==
    /\ call[id] = "limits" /\ There(id)
    /\ ceiling' = [ceiling EXCEPT ![id].limits = "set"]
    /\ call' = [call EXCEPT ![id] = "handover"]
    /\ UNCHANGED <<member, leaf, sub, at, placed, restarts>>

HandOver(id) ==
    /\ call[id] = "handover" /\ There(id)
    /\ ceiling' = [ceiling EXCEPT ![id].dir = "member"]
    /\ call' = [call EXCEPT ![id] = "idle"]
    /\ placed' = placed \union {id}
    /\ UNCHANGED <<member, leaf, sub, at, restarts>>

\* JoinSession: the peer of the connection, if it still is the member's.
JoinSession(p) ==
    /\ at[p] = "out" /\ EnsureMember
    /\ at' = [at EXCEPT ![p] = "leaf"]
    /\ UNCHANGED <<sub, call, placed, restarts>>

\* RemoveProcess, under the action lock of the Process: a busy cgroup stays until the next removal.
RemoveProcess(id) ==
    /\ call[id] = "idle" /\ There(id) /\ ~Holds(id)
    /\ ceiling' = [ceiling EXCEPT ![id] = Absent]
    /\ sub' = sub \ {id} /\ placed' = placed \ {id}
    /\ UNCHANGED <<member, leaf, at, call, restarts>>

\* RemoveMember: what is empty goes, deepest first, whatever starts are under way.
RemoveTree ==
    /\ \/ \E id \in Ids : /\ There(id) /\ ~Holds(id)
                          /\ ceiling' = [ceiling EXCEPT ![id] = Absent]
                          /\ sub' = sub \ {id} /\ placed' = placed \ {id}
                          /\ UNCHANGED <<member, leaf>>
       \/ /\ \A id \in Ids : ~There(id)
          /\ \A p \in Procs : at[p] # "leaf"
          /\ member' = [dir |-> Nobody, procs |-> Nobody] /\ leaf' = FALSE
          /\ UNCHANGED <<ceiling, sub, placed>>
    /\ UNCHANGED <<at, call, restarts>>
------------------------------------------------------------------------------
\* The member: a container's cgroup below a ceiling of theirs, a process moved into it, a limit written.
MemberMakes(id) ==
    /\ ceiling[id].dir = "member" /\ sub' = sub \union {id}
    /\ UNCHANGED <<member, leaf, ceiling, at, call, placed, restarts>>

MemberMoves(p, id) ==
    /\ at[p] # "out" /\ member.procs = "member" /\ id \in sub
    /\ at' = [at EXCEPT ![p] = id]
    /\ UNCHANGED <<member, leaf, ceiling, sub, call, placed, restarts>>

MemberRaises(id) ==
    /\ ceiling[id].files = "member"
    /\ ceiling' = [ceiling EXCEPT ![id].limits = "raised"]
    /\ UNCHANGED <<member, leaf, sub, at, call, placed, restarts>>

ProcessEnds(p) ==
    /\ at[p] # "out" /\ at' = [at EXCEPT ![p] = "out"]
    /\ UNCHANGED <<member, leaf, ceiling, sub, call, placed, restarts>>

\* The daemon stops at any step; the next one prepares the cgroup of every member.
Restart ==
    /\ restarts < MaxRestarts /\ restarts' = restarts + 1
    /\ EnsureMember
    /\ call' = [id \in Ids |-> "idle"]
    /\ UNCHANGED <<sub, at, placed>>

Next ==
    \/ \E id \in Ids :
         \/ EnsureBegins(id) \/ EnsureFails(id) \/ MkdirCeiling(id) \/ WriteLimits(id) \/ HandOver(id)
         \/ RemoveProcess(id) \/ MemberMakes(id) \/ MemberRaises(id)
         \/ \E p \in Procs : MemberMoves(p, id)
    \/ \E p \in Procs : JoinSession(p) \/ ProcessEnds(p)
    \/ RemoveTree \/ Restart

Spec == Init /\ [][Next]_vars
------------------------------------------------------------------------------
\* A Process this release has placed runs below the limits it was started with, whatever the member does
\* and an older release left; and nothing runs below a ceiling that has no limits yet (host_linux.go
\* EnsureProcess: "The ceiling is written before anything can run under it, and by root").
CeilingHolds ==
    \A id \in Ids : id \in placed \/ (id \notin Old /\ Holds(id))
        => ceiling[id].limits = "set" /\ ceiling[id].files = "root"
==============================================================================
