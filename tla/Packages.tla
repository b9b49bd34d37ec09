------------------------------ MODULE Packages ------------------------------
(***************************************************************************)
(* pkg_build, pkg_import and the image a run picks (internal/pkg, and      *)
(* internal/proc from proc_run's side), for one Package in a home, whose   *)
(* sessions write it, build it and run it at once.                         *)
(*                                                                         *)
(* The folder's bytes are a number, and so is what a commit of it holds.   *)
(* A build is one step per call it makes: the manifest, the context, git,  *)
(* one build per unit.  The images of a store are a sequence, oldest first *)
(* as their creation time orders them.  The copies between members are in  *)
(* Images, the writing of the files in Files.                              *)
(***************************************************************************)
EXTENDS Integers, Sequences, FiniteSets, SequencesExt

CONSTANTS Calls,
          Shapes,      \* what the manifest may declare: the units in order, and who builds them
          Face,        \* the unit that is the face
          Kits,        \* the kits that may be running
          MaxContents, \* bound: writes to the folder
          MaxImages,   \* bound: images of the store
          MaxFaults    \* bound: builds that fail, kits stopped

VARIABLES tree,   \* the folder: its bytes, the contents of its commits, who made it
          shape,  \* what its manifest declares
          store, records,
          kits,   \* the kits running
          call,
          ran,    \* the images of the last run, by unit
          faults

vars == <<tree, shape, store, records, kits, call, ran, faults>>

Idle == [at |-> "idle", commit |-> 0, left |-> <<>>]
Absent == [bytes |-> 0, commits |-> <<>>, by |-> "nobody"]
Image(unit, commit, bytes) == [unit |-> unit, commit |-> commit, bytes |-> bytes]
Units == Range(shape.units)

-----------------------------------------------------------------------------
(* The folder.                                                             *)

HeadCommit == Len(tree.commits)
Clean == tree.commits # <<>> /\ tree.bytes = Last(tree.commits)

Init ==
    /\ tree = Absent
    /\ shape \in Shapes
    /\ store = <<>> /\ records = {}
    /\ kits \in SUBSET Kits
    /\ call = [c \in Calls |-> Idle]
    /\ ran = <<>>
    /\ faults = 0

At(c, at) == call[c].at = at
Goes(c, next) == call' = [call EXCEPT ![c] = next]
Refuse(c) == Goes(c, Idle) /\ UNCHANGED <<tree, shape, store, records, kits, ran, faults>>
Steps(c, at) == Goes(c, [call[c] EXCEPT !.at = at])
                /\ UNCHANGED <<tree, shape, store, records, kits, ran, faults>>

\* fs_write: the file, then the commit of what is there by then.
Write == /\ tree.bytes < MaxContents
         /\ tree' = [tree EXCEPT !.bytes = @ + 1, !.by = IF @ = "nobody" THEN "write" ELSE @]
         /\ UNCHANGED <<shape, store, records, kits, call, ran, faults>>
Commit == /\ tree.bytes # 0 /\ ~Clean
          /\ tree' = [tree EXCEPT !.commits = Append(@, tree.bytes)]
          /\ UNCHANGED <<shape, store, records, kits, call, ran, faults>>

Fault == faults < MaxFaults /\ faults' = faults + 1
StopKit == /\ Fault /\ \E k \in kits : kits' = kits \ {k}
           /\ UNCHANGED <<tree, shape, store, records, call, ran>>

-----------------------------------------------------------------------------
(* pkg_build.                                                              *)

\* A Package of one unit resolves its context before it asks for the commit,
\* one of several asks once for all of them.
Build(c) ==
    /\ At(c, "idle") /\ tree.by # "nobody"
    /\ Steps(c, IF Len(shape.units) = 1 /\ shape.builder = "none" THEN "source" ELSE "head")
Source(c) ==
    /\ At(c, "source")
    /\ Refuse(c) \/ Steps(c, "head")

\* head: a commit, and nothing under the folder that is not in it.
AskHead(c) ==
    /\ At(c, "head")
    /\ IF ~Clean \/ (shape.builder # "none" /\ Len(shape.units) > 1) THEN Refuse(c)
       ELSE /\ Goes(c, [call[c] EXCEPT !.at = IF shape.builder = "none" THEN "build" ELSE "kit",
                                       !.commit = HeadCommit, !.left = shape.units])
            /\ UNCHANGED <<tree, shape, store, records, kits, ran, faults>>

\* What podman reads is the folder as it is now.
Recorded(image) == records \cup {image}
RecordOf(image) == IF image.unit = Face THEN Recorded(image) ELSE records
BuildUnitOrNot(c) ==
    /\ At(c, "build")
    /\ \/ /\ Len(store) < MaxImages
          /\ store' = Append(store, Image(Head(call[c].left), call[c].commit, tree.bytes))
          /\ UNCHANGED faults
       \/ Fault /\ UNCHANGED store
    /\ Goes(c, [call[c] EXCEPT !.left = Tail(@), !.at = IF Len(call[c].left) = 1 THEN "built" ELSE "build"])
    /\ UNCHANGED <<tree, shape, records, kits, ran>>
BuildUnit(c) ==
    /\ At(c, "build")
    /\ LET unit == Head(call[c].left)
           image == Image(unit, call[c].commit, tree.bytes)
       IN \/ Fault /\ Goes(c, Idle) /\ UNCHANGED <<tree, shape, store, records, kits, ran>>
          \/ /\ Len(store) < MaxImages
             /\ store' = Append(store, image)
             /\ records' = RecordOf(image)
             /\ Goes(c, [call[c] EXCEPT !.left = Tail(@),
                                        !.at = IF Len(call[c].left) = 1 THEN "built" ELSE "build"])
             /\ UNCHANGED <<tree, shape, kits, ran, faults>>
\* A build kit builds wherever it builds, so the image may not be in the
\* store; only one that is held is recorded.
Held(image) == image \in Range(store)
BuildWithKit(c) ==
    /\ At(c, "kit")
    /\ \/ shape.builder \notin kits /\ Refuse(c)
       \/ /\ shape.builder \in kits
          /\ LET image == Image(Face, call[c].commit, tree.bytes)
             IN \/ Fault /\ Goes(c, Idle) /\ UNCHANGED <<tree, shape, store, records, kits, ran>>
                \/ /\ \/ Len(store) < MaxImages /\ store' = Append(store, image)
                      \/ UNCHANGED store
                   /\ Goes(c, [call[c] EXCEPT !.at = "answered"])
                   /\ UNCHANGED <<tree, shape, records, kits, ran, faults>>
KitBuilt(c) ==
    /\ At(c, "answered")
    /\ \E image \in {Image(Face, call[c].commit, b) : b \in 1..MaxContents} :
          /\ records' = IF Held(image) THEN Recorded(image) ELSE records
          /\ Goes(c, [call[c] EXCEPT !.at = "built", !.left = <<>>])
    /\ UNCHANGED <<tree, shape, store, kits, ran, faults>>
Answer(c) == At(c, "built") /\ Refuse(c)

-----------------------------------------------------------------------------
(* proc_run of the Package with no digest named.                           *)

\* unitImage and latest: the newest image built for the unit.
Newest(unit) == {i \in DOMAIN store : store[i].unit = unit
                                      /\ \A j \in DOMAIN store : store[j].unit = unit => j <= i}
Run ==
    /\ tree.by # "nobody"
    /\ \A u \in Units : Newest(u) # {}
    /\ ran' = [u \in Units |-> store[CHOOSE i \in Newest(u) : TRUE]]
    /\ UNCHANGED <<tree, shape, store, records, kits, call, faults>>

-----------------------------------------------------------------------------
(* pkg_import: the folder must not be there, exactly one running kit must   *)
(* accept the source, and what it answers is written as one commit.        *)

Import(c) == At(c, "idle") /\ tree.by = "nobody" /\ Steps(c, "choose")
Accept(c) ==
    /\ At(c, "choose")
    /\ \E accepting \in SUBSET kits :
          IF Cardinality(accepting) = 1 THEN Steps(c, "call") ELSE Refuse(c)
CallKit(c) ==
    /\ At(c, "call")
    /\ Refuse(c) \/ (kits # {} /\ Steps(c, "write"))
WriteFiles(c) ==
    /\ At(c, "write")
    /\ tree.bytes < MaxContents
    /\ tree' = [bytes |-> tree.bytes + 1, by |-> "import", commits |-> Append(tree.commits, tree.bytes + 1)]
    /\ Goes(c, Idle)
    /\ UNCHANGED <<shape, store, records, kits, ran, faults>>

-----------------------------------------------------------------------------
Next == \/ Write \/ Commit \/ StopKit \/ Run
        \/ \E c \in Calls : \/ Build(c) \/ Source(c) \/ AskHead(c) \/ BuildUnit(c) \/ BuildWithKit(c)
                            \/ KitBuilt(c) \/ Answer(c)
                            \/ Import(c) \/ Accept(c) \/ CallKit(c) \/ WriteFiles(c)

Spec == Init /\ [][Next]_vars

-----------------------------------------------------------------------------
\* A digest is answered as the version of a commit only when every unit was
\* built for that commit, or a kit answered it (buildUnits).
AnswerIsWhole ==
    \A c \in Calls : At(c, "built") /\ shape.builder = "none" =>
        \A u \in Units : \E i \in DOMAIN store : store[i].unit = u /\ store[i].commit = call[c].commit

\* "Build the Package at path from its current commit" (spec/mcp-surface.yaml):
\* an image labelled with a commit holds what that commit holds.
ImageIsItsCommit ==
    shape.builder = "none" =>
        \A i \in DOMAIN store : store[i].bytes = tree.commits[store[i].commit]

\* "The target folder must not exist yet" (spec/mcp-surface.yaml).
ImportMakesTheFolder == [][tree'.by = "import" /\ tree' # tree => tree.by # "write"]_vars
=============================================================================
