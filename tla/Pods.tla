-------------------------------- MODULE Pods --------------------------------
(***************************************************************************)
(* The Processes of several units (internal/daemon/pods.go): a pod under   *)
(* one name, made unit by unit by a start, made again by a boot, stopped   *)
(* and removed as one.  Two registrations may name the same pod: two       *)
(* sessions that run one Package at once make two ids and one pod name.    *)
(*                                                                         *)
(* An action holds the lock of its id from its first step to its last; the *)
(* boot takes no lock and runs beside the sessions.                        *)
(***************************************************************************)
EXTENDS Naturals, Sequences

CONSTANTS Ids,       \* the registrations that name this pod
          Order,     \* the units in the order the manifest declares them
          Face,      \* the unit that answers the address
          MaxTokens, \* bound: tokens minted
          MaxFaults, \* bound: refusals of the runtime, requests that end
          MaxCrashes \* bound: stops of the daemon or of its host

VARIABLES rows,     \* the registrations: none, or the number of the token whose hash they hold
          pod,      \* the pod of this name in the runtime: whose, and its units
          at,       \* the action under way for each id, and that of the boot
          files,    \* the environment files on disk
          problems, \* the ids the boot has said it did not bring back
          todo,     \* what the boot has still to bring back
          tokens, faults, crashes

vars == <<rows, pod, at, files, problems, todo, tokens, faults, crashes>>

Units  == {Order[k] : k \in 1..Len(Order)}
Boot   == "boot"
Actors == Ids \union {Boot}
None   == "none"
NoRow  == 0
NoUnit == [state |-> None, tok |-> 0]
NoPod  == [of |-> None, units |-> [u \in Units |-> NoUnit]]
Quiet  == [pc |-> "idle", id |-> None, k |-> 0, tok |-> 0]
Listed == {i \in Ids : rows[i] # NoRow}
Begun  == {u \in Units : pod.units[u].state \in {"running", "exited"}}
Whole  == \A u \in Units : pod.units[u].state # None

\* The units as they are declared, the face among them.
AsDeclared == Order

\* startOrder: the face last, the others as they are declared.
StartOrder ==
    LET face == CHOOSE k \in 1..Len(Order) : Order[k] = Face
    IN  [k \in 1..Len(Order) |-> IF k = Len(Order) THEN Face ELSE Order[IF k < face THEN k ELSE k + 1]]

Init ==
    /\ rows = [i \in Ids |-> NoRow]
    /\ pod = NoPod
    /\ at = [a \in Actors |-> Quiet]
    /\ files = {} /\ problems = {} /\ todo = {}
    /\ tokens = 0 /\ faults = 0 /\ crashes = 0
------------------------------------------------------------------------------
Goes(a, pc) == at' = [at EXCEPT ![a].pc = pc]
Ends(a)     == at' = [at EXCEPT ![a] = Quiet]
Fault       == faults < MaxFaults /\ faults' = faults + 1
New         == tokens < MaxTokens /\ tokens' = tokens + 1

\* The daemon answers an action of an id when no other has its lock.
Free(i) == at[i] = Quiet

Register(i) ==
    /\ Free(i) /\ rows[i] = NoRow /\ New
    /\ rows' = [rows EXCEPT ![i] = tokens']
    /\ UNCHANGED <<pod, at, files, problems, todo, faults, crashes>>

Unregister(i) ==
    /\ Free(i) /\ i \in Listed
    /\ rows' = [rows EXCEPT ![i] = NoRow]
    /\ problems' = problems \ {i}
    /\ UNCHANGED <<pod, at, files, todo, tokens, faults, crashes>>

\* preparePod: everything that can be refused is refused before anything is touched, so what is left of
\* it is that the Process is registered and no other action has its id.
Prepared(i) == Free(i) /\ i \in Listed

\* startPod: the token is minted and written over the one there was.
StartPod(i) ==
    /\ Prepared(i) /\ New
    /\ rows' = [rows EXCEPT ![i] = tokens']
    /\ at' = [at EXCEPT ![i] = [pc |-> "pod", id |-> i, k |-> 1, tok |-> tokens']]
    /\ UNCHANGED <<pod, files, problems, todo, faults, crashes>>

\* CreatePod: refused when the name is taken, whoever has it.
CreatePod(a) ==
    /\ at[a].pc = "pod"
    /\ \/ /\ pod = NoPod /\ pod' = [NoPod EXCEPT !.of = at[a].id]
          /\ Goes(a, IF a = Boot THEN "create" ELSE "file") /\ UNCHANGED faults
       \/ pod # NoPod /\ Goes(a, "tearDown") /\ UNCHANGED <<pod, faults>>
       \/ Fault /\ Goes(a, "tearDown") /\ UNCHANGED pod
    /\ UNCHANGED <<rows, files, problems, todo, tokens, crashes>>

\* writeUnitEnvFile, which a start does before each unit and a boot before all of them.
WriteFile(a) ==
    /\ at[a].pc = "file"
    /\ files' = files \union {<<at[a].id, Order[at[a].k]>>}
    /\ Goes(a, "create")
    /\ UNCHANGED <<rows, pod, problems, todo, tokens, faults, crashes>>

\* A file that is kept until the start is over.
DroppedLater(a) == files

\* What a start has of files goes with the container that was made from it, made or not.
Dropped(a) == IF a = Boot THEN files ELSE files \ {<<at[a].id, Order[at[a].k]>>}

Create(a) ==
    /\ at[a].pc = "create"
    /\ files' = Dropped(a)
    /\ LET u == Order[at[a].k]
       IN  \/ /\ pod # NoPod /\ pod.units[u] = NoUnit
              /\ pod' = [pod EXCEPT !.units[u] = [state |-> "made", tok |-> at[a].tok]]
              /\ Goes(a, "verify") /\ UNCHANGED faults
           \/ /\ pod = NoPod \/ pod.units[u] # NoUnit
              /\ Goes(a, "tearDown") /\ UNCHANGED <<pod, faults>>
           \/ Fault /\ Goes(a, "tearDown") /\ UNCHANGED pod
    /\ UNCHANGED <<rows, problems, todo, tokens, crashes>>

\* Where the making of a pod goes after one unit: the next one, or, when all are verified, the start.
NextOf(a) == IF at[a].k < Len(Order) THEN (IF a = Boot THEN "create" ELSE "file") ELSE "start"

\* prepareAndVerifyIn: the mounts of a unit are read in its own namespace before it runs.
Verify(a) ==
    /\ at[a].pc = "verify"
    /\ LET u == Order[at[a].k]
       IN  \/ /\ pod.units[u].state = "made"
              /\ pod' = [pod EXCEPT !.units[u].state = "verified"]
              /\ at' = [at EXCEPT ![a].pc = NextOf(a), ![a].k = IF NextOf(a) = "start" THEN 1 ELSE @ + 1]
              /\ UNCHANGED faults
           \/ pod.units[u].state # "made" /\ Goes(a, "tearDown") /\ UNCHANGED <<pod, faults>>
           \/ Fault /\ Goes(a, "tearDown") /\ UNCHANGED pod
    /\ UNCHANGED <<rows, files, problems, todo, tokens, crashes>>

\* The units one after another.  After the last a start is answered and a boot records the token.
StartUnit(a) ==
    /\ at[a].pc = "start"
    /\ LET u    == StartOrder[at[a].k]
           last == at[a].k = Len(Order)
       IN  \/ /\ pod.units[u].state # None
              /\ pod' = [pod EXCEPT !.units[u].state = "running"]
              /\ IF ~last THEN at' = [at EXCEPT ![a].k = @ + 1] /\ UNCHANGED problems
                 ELSE IF a = Boot THEN Goes(a, "record") /\ UNCHANGED problems
                 ELSE Ends(a) /\ problems' = problems \ {a}
              /\ UNCHANGED faults
           \/ /\ pod.units[u].state = None
              /\ Goes(a, "tearDown") /\ UNCHANGED <<pod, problems, faults>>
           \/ Fault /\ Goes(a, "tearDown") /\ UNCHANGED <<pod, problems>>
    /\ UNCHANGED <<rows, files, todo, tokens, crashes>>

\* tearDownPod, by name, under the context of the request: one that has ended removes nothing.  The
\* boot says what it did not bring back, and the files it wrote go as it returns.
TearDown(a) ==
    /\ at[a].pc \in {"tearDown", "failed"}
    /\ Ends(a)
    /\ \/ at[a].pc = "tearDown" /\ pod' = NoPod /\ UNCHANGED faults
       \/ at[a].pc = "tearDown" /\ Fault /\ UNCHANGED pod
       \/ at[a].pc = "failed" /\ UNCHANGED <<pod, faults>>
    /\ IF a = Boot THEN problems' = problems \union {at[a].id} /\ files' = {f \in files : f[1] # at[a].id}
       ELSE UNCHANGED <<problems, files>>
    /\ UNCHANGED <<rows, todo, tokens, crashes>>

\* stopPod and the removal with it; a refusal of either is the answer.
Stop(i) ==
    /\ Free(i) /\ i \in Listed
    /\ at' = [at EXCEPT ![i] = [Quiet EXCEPT !.pc = "remove", !.id = i]]
    /\ pod' = [pod EXCEPT !.units = [u \in Units |-> [pod.units[u] EXCEPT !.state =
          IF @ = "running" THEN "exited" ELSE @]]]
    /\ UNCHANGED <<rows, files, problems, todo, tokens, faults, crashes>>

RemovePod(i) ==
    /\ \/ at[i].pc = "remove"
       \/ Free(i) /\ i \in Listed
    /\ Ends(i)
    /\ \/ pod' = NoPod /\ UNCHANGED faults
       \/ Fault /\ UNCHANGED pod
    /\ UNCHANGED <<rows, files, problems, todo, tokens, crashes>>

Exit(u) ==
    /\ pod.units[u].state = "running"
    /\ pod' = [pod EXCEPT !.units[u].state = "exited"]
    /\ UNCHANGED <<rows, at, files, problems, todo, tokens, faults, crashes>>
------------------------------------------------------------------------------
\* The daemon stops where it is, and the host with it or not.  It comes back, sweeps the files
\* (Prepare), and restores what is registered beside the sessions it serves.
Crash(host) ==
    /\ crashes < MaxCrashes /\ crashes' = crashes + 1
    /\ at' = [a \in Actors |-> Quiet]
    /\ files' = {} /\ problems' = {}
    /\ todo' = Listed
    /\ pod' = IF host THEN [pod EXCEPT !.units = [u \in Units |->
                  [pod.units[u] EXCEPT !.state = IF @ = None THEN None ELSE "old"]]]
              ELSE pod
    /\ UNCHANGED <<rows, tokens, faults>>

\* restorePod, up to what it decides to do: a pod that is gone takes its registration with it, one
\* that runs whole stays as it is or goes when its mounts do not check out, one that has lost a unit
\* or whose mounts or secrets are not legal any more is left alone, and any other is made again.
Restore(i) ==
    /\ at[Boot] = Quiet /\ i \in todo
    /\ todo' = todo \ {i}
    /\ LET begin(pc) == at' = [at EXCEPT ![Boot] = [Quiet EXCEPT !.pc = pc, !.id = i, !.k = 1]]
       IN  \/ /\ pod = NoPod
              /\ rows' = [rows EXCEPT ![i] = NoRow] /\ problems' = problems \ {i}
              /\ UNCHANGED <<at, tokens, faults>>
           \/ /\ pod # NoPod /\ Fault /\ problems' = problems \union {i}
              /\ UNCHANGED <<at, rows, tokens>>
           \/ /\ pod # NoPod /\ ~Whole /\ problems' = problems \union {i}
              /\ UNCHANGED <<at, rows, tokens, faults>>
           \/ /\ Whole /\ \A u \in Units : pod.units[u].state = "running"
              /\ \/ problems' = problems \ {i} /\ UNCHANGED <<at, faults>>
                 \/ Fault /\ begin("tearDown") /\ UNCHANGED problems
              /\ UNCHANGED <<rows, tokens>>
           \/ /\ Whole /\ \E u \in Units : pod.units[u].state # "running"
              /\ New /\ at' = [at EXCEPT ![Boot] = [pc |-> "files", id |-> i, k |-> 1, tok |-> tokens']]
              /\ UNCHANGED <<rows, problems, faults>>
    /\ UNCHANGED <<pod, files, crashes>>

\* remakePod: the files of every unit, then the old pod away, then as a start.
RemakeFiles ==
    /\ at[Boot].pc = "files"
    /\ files' = files \union {<<at[Boot].id, u>> : u \in Units}
    /\ \/ pod' = NoPod /\ Goes(Boot, "pod") /\ UNCHANGED faults
       \/ Fault /\ Goes(Boot, "failed") /\ UNCHANGED pod
    /\ UNCHANGED <<rows, problems, todo, tokens, crashes>>

\* The token is written over the registration the boot has read, once every unit runs.
Record ==
    /\ at[Boot].pc = "record" /\ Ends(Boot)
    /\ \/ rows' = [rows EXCEPT ![at[Boot].id] = at[Boot].tok] /\ UNCHANGED faults
       \/ Fault /\ UNCHANGED rows
    /\ files' = {f \in files : f[1] # at[Boot].id}
    /\ problems' = problems \ {at[Boot].id}
    /\ UNCHANGED <<pod, todo, tokens, crashes>>

Next ==
    \/ \E i \in Ids : Register(i) \/ Unregister(i) \/ StartPod(i) \/ Stop(i) \/ RemovePod(i) \/ Restore(i)
    \/ \E a \in Actors :
         CreatePod(a) \/ WriteFile(a) \/ Create(a) \/ Verify(a) \/ StartUnit(a) \/ TearDown(a)
    \/ \E u \in Units : Exit(u)
    \/ RemakeFiles \/ Record
    \/ \E host \in BOOLEAN : Crash(host)

Spec == Init /\ [][Next]_vars
------------------------------------------------------------------------------
\* Nothing of any unit has executed until every unit has been verified, whoever else is at the pod
\* (the doc of startPod, pods.go).  It fails when a boot makes the pod again beside a start of it, and
\* when a second registration of the name does: the one that is starting starts units the other has made.
VerifiedBeforeAnyRuns ==
    Begun # {} => \A u \in Units : pod.units[u].state \notin {None, "made"}

\* While no boot is under way, through every refusal and every request that ends half way of a pod that
\* one registration names: nothing runs that is not verified, and what answers the address has every
\* other unit of its pod up before it.
ComesUpInOrder == VerifiedBeforeAnyRuns /\ (Face \in Begun => Begun = Units)

\* An environment file, with its live token, is on disk only while the action that wrote it still
\* makes the container it is for.
FilesAreShortLived ==
    \A f \in files : \/ at[f[1]].pc = "create" /\ Order[at[f[1]].k] = f[2]
                     \/ at[Boot].id = f[1]
==============================================================================
