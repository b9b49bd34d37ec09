------------------------------- MODULE Files -------------------------------
(***************************************************************************)
(* Writes to one repository of Files (internal/fs): fs_write of one path   *)
(* and of a list, and the write of an import.  A call judges all it was    *)
(* given, offers itself to the approval queue, checks the sha it was told, *)
(* writes, stages and commits; a list puts back what it found when a step  *)
(* fails.  Sessions are processes of their own and nothing serialises      *)
(* them: a step here is one file, one git command, or one read.            *)
(*                                                                         *)
(* A commit is the tree it made and its sha is its place in the history.   *)
(* Modes, sizes and the resolution of a path are left out: what they       *)
(* refuse is a call that does not pass, as an invisible path does not.     *)
(***************************************************************************)
EXTENDS Integers, Sequences, FiniteSets, SequencesExt

CONSTANTS Calls,
          Paths,    \* the files of a folder
          Manifest, \* the one that makes the folder visible
          Contents,
          Absent, Torn,
          Shapes,   \* what a call may be: form, paths in order, content, and if it is queued
          MaxOpen,  \* bound: calls in flight at once
          MaxFaults \* bound: commands that fail and sessions that die

VARIABLES disk, index,
          repo,     \* whether git init was run, and the trees of its commits
          call,
          faults

vars == <<disk, index, repo, call, faults>>

NoSha   == -1
Nothing == [p \in Paths |-> Absent]
NoShape == [form |-> "none", paths |-> <<>>, content |-> Absent, queued |-> FALSE]
NewCall == [at |-> "idle", shape |-> NoShape, expects |-> NoSha, before |-> 0, left |-> <<>>,
            marks |-> Nothing, staged |-> FALSE, made |-> 0, sha |-> 0, unreset |-> FALSE, stuck |-> {},
            was |-> [disk |-> Nothing, head |-> Nothing, index |-> Nothing], apart |-> TRUE]
Ended == {"idle", "ok", "refused", "queued", "dead"}

-----------------------------------------------------------------------------
(* What git answers.                                                       *)

HeadSha == Len(repo.trees)
HeadTree == IF repo.trees = <<>> THEN Nothing ELSE Last(repo.trees)
Before(i) == IF i = 1 THEN Nothing ELSE repo.trees[i - 1]

\* The newest commit that touched a path, 0 when there is none.
LastCommit(p) ==
    LET touched == {i \in 1..HeadSha : repo.trees[i][p] # Before(i)[p]}
    IN IF touched = {} THEN 0 ELSE Max(touched)

Of(c) == Range(call[c].shape.paths)
FirstPath(c) == Head(call[c].shape.paths)
Form(c) == call[c].shape.form
Content(c) == call[c].shape.content

Seen == disk[Manifest] \notin {Absent, Torn}

-----------------------------------------------------------------------------
Init ==
    /\ disk = Nothing /\ index = Nothing
    /\ repo = [made |-> FALSE, trees |-> <<>>]
    /\ call = [c \in Calls |-> NewCall]
    /\ faults = 0

At(c, step) == call[c].at = step
Step(c, rec) == call' = [call EXCEPT ![c] = rec]
Go(c, step) == Step(c, [call[c] EXCEPT !.at = step])
End(c, how, sha) == Step(c, [NewCall EXCEPT !.at = how, !.sha = sha])
Refuse(c) == End(c, "refused", 0)
Fails == faults < MaxFaults /\ faults' = faults + 1

Clash(c, paths) == call[c].at \notin Ended /\ Of(c) \cap paths # {}

\* A call that passed every rule, before anything is written. The sha it expects is one that was
\* read.
Passes(c, s, e) ==
    call' = [d \in Calls |->
       IF d # c THEN [call[d] EXCEPT !.apart = @ /\ ~Clash(d, Range(s.paths))]
       ELSE [NewCall EXCEPT !.at = "repo", !.shape = s, !.expects = e, !.left = s.paths,
               !.was = [disk |-> disk, head |-> HeadTree, index |-> index],
               !.apart = \A f \in Calls : ~Clash(f, Range(s.paths))]]

\* Queue: a member's call under /org waits for an admin, and did not happen.
Queued(c, s, e) ==
    IF s.queued THEN End(c, "queued", 0) ELSE Passes(c, s, e)

Judging(c) ==
    /\ At(c, "idle") /\ Cardinality({d \in Calls : call[d].at \notin Ended}) < MaxOpen
    /\ UNCHANGED <<disk, index, repo, faults>>

\* Write up to the queue: one path, in a folder that is seen or that it makes seen.
JudgeOne(c) ==
    /\ Judging(c)
    /\ \E s \in Shapes, e \in {NoSha} \cup 1..HeadSha :
          /\ s.form = "one"
          /\ \/ ~Seen /\ s.paths # <<Manifest>> /\ Refuse(c)
             \/ (Seen \/ s.paths = <<Manifest>>) /\ Queued(c, s, e)

\* WriteAll up to the queue: the whole list is judged first, with its manifest counted as written.
JudgeList(c) ==
    /\ Judging(c)
    /\ \E s \in Shapes, e \in {NoSha} \cup 1..HeadSha :
          /\ s.form = "list"
          /\ LET seen == Seen \/ Manifest \in Range(s.paths) IN
             \/ ~seen /\ Refuse(c)
             \/ seen /\ Queued(c, s, e)

\* WriteFiles, which asks about the folders above its own, is queued by its caller or not at all,
\* and expects nothing.
JudgeImport(c) ==
    /\ Judging(c)
    /\ \E s \in Shapes : s.form = "import" /\ Passes(c, s, NoSha)

\* ensureRepo.
EnsureRepo(c) ==
    /\ At(c, "repo")
    /\ \/ repo' = [repo EXCEPT !.made = TRUE] /\ Go(c, "sha") /\ UNCHANGED faults
       \/ Fails /\ Refuse(c) /\ UNCHANGED repo
    /\ UNCHANGED <<disk, index>>

\* The optimistic lock: the commit of the file for one path, the head for a list.
CheckSha(c) ==
    /\ At(c, "sha")
    /\ LET current == IF Form(c) = "one" THEN LastCommit(FirstPath(c)) ELSE HeadSha IN
         IF call[c].expects \notin {NoSha, current} THEN Refuse(c)
         ELSE Step(c, [call[c] EXCEPT !.expects = IF Form(c) = "one" THEN @ ELSE NoSha,
                         !.before = IF Form(c) = "one" THEN current ELSE 0,
                         !.at = IF Form(c) = "list" THEN "snapshot" ELSE "write"])
    /\ UNCHANGED <<disk, index, repo, faults>>

\* snapshot, which only a list takes.
Snapshot(c) ==
    /\ At(c, "snapshot")
    /\ Step(c, [call[c] EXCEPT !.at = "write", !.marks = disk])
    /\ UNCHANGED <<disk, index, repo, faults>>

\* What a step that failed answers: a list goes back, the others leave what they wrote.
Undo(c, staged) ==
    IF Form(c) = "list"
    THEN Step(c, [call[c] EXCEPT !.at = "rollback", !.staged = staged])
    ELSE Refuse(c)

\* makeDir, writeFile and share of one path, in the order of the list. The file is truncated before
\* it is written.
WritePath(c) ==
    /\ At(c, "write")
    /\ LET p == Head(call[c].left)
           left == Tail(call[c].left) IN
       \/ /\ disk' = [disk EXCEPT ![p] = Content(c)]
          /\ Step(c, [call[c] EXCEPT !.left = left, !.at = IF left = <<>> THEN "stage" ELSE @])
          /\ UNCHANGED faults
       \/ /\ Fails /\ Undo(c, FALSE)
          /\ \E d \in {disk[p], Torn, Content(c)} : disk' = [disk EXCEPT ![p] = d]
    /\ UNCHANGED <<index, repo>>

Overlay(f, g, paths) == [p \in Paths |-> IF p \in paths THEN g[p] ELSE f[p]]

\* git add of the paths.
Stage(c) ==
    /\ At(c, "stage")
    /\ \/ index' = Overlay(index, disk, Of(c)) /\ Go(c, "staged") /\ UNCHANGED faults
       \/ Fails /\ Undo(c, TRUE) /\ UNCHANGED index
    /\ UNCHANGED <<disk, repo>>

\* An index that is the head's is a write that changes nothing: a write of one path answers the
\* commit it read before it wrote, the others the newest of their first path.
Staged(c) ==
    /\ At(c, "staged")
    /\ LET same == \A p \in Of(c) : index[p] = HeadTree[p]
           before == IF Form(c) = "one" THEN call[c].before ELSE LastCommit(FirstPath(c)) IN
       \/ /\ IF same /\ before > 0 THEN End(c, "ok", before)
             ELSE Go(c, "commit")
          /\ UNCHANGED faults
       \/ same /\ Form(c) # "one" /\ Fails /\ Undo(c, TRUE)
    /\ UNCHANGED <<disk, index, repo>>

\* A commit of everything that is staged.
CommitIndex(c) ==
    /\ At(c, "commit")
    /\ \/ /\ index # HeadTree
          /\ repo' = [repo EXCEPT !.trees = Append(@, index)]
          /\ Step(c, [call[c] EXCEPT !.at = "read", !.made = HeadSha + 1])
          /\ UNCHANGED <<index, faults>>
       \/ /\ Fails /\ Undo(c, TRUE) /\ UNCHANGED <<index, repo>>
    /\ UNCHANGED disk

\* git commit of the paths by name: what the files hold now, whatever is staged. One that changes
\* nothing fails.
Commit(c) ==
    /\ At(c, "commit")
    /\ LET tree == Overlay(HeadTree, disk, Of(c)) IN
       \/ /\ tree # HeadTree
          /\ repo' = [repo EXCEPT !.trees = Append(@, tree)]
          /\ index' = Overlay(index, disk, Of(c))
          /\ Step(c, [call[c] EXCEPT !.at = "read", !.made = HeadSha + 1]) /\ UNCHANGED faults
       \/ /\ tree = HeadTree /\ Undo(c, TRUE) /\ UNCHANGED <<index, repo, faults>>
       \/ /\ Fails /\ Undo(c, TRUE) /\ UNCHANGED <<index, repo>>
    /\ UNCHANGED disk

\* The commit is read back as the newest one of the first path.
ReadBack(c) ==
    /\ At(c, "read")
    /\ \/ /\ LastCommit(FirstPath(c)) > 0
          /\ End(c, "ok", LastCommit(FirstPath(c)))
          /\ UNCHANGED faults
       \/ LastCommit(FirstPath(c)) = 0 /\ Undo(c, TRUE) /\ UNCHANGED faults
       \/ Fails /\ Undo(c, TRUE)
    /\ UNCHANGED <<disk, index, repo>>

\* One that forgets what was staged.
UnstageNothing(c) ==
    /\ At(c, "rollback")
    /\ Go(c, "restore")
    /\ UNCHANGED <<disk, index, repo, faults>>

\* rollback: the index first, when the failure was git's. It runs git under the context of the call
\* and drops what git answers: the paths stay staged, or, where the head alone was not read, they are
\* dropped from the index as if there were no commit.
Unstage(c) ==
    /\ At(c, "rollback")
    /\ \/ /\ index' = IF call[c].staged THEN Overlay(index, HeadTree, Of(c)) ELSE index
          /\ Go(c, "restore") /\ UNCHANGED faults
       \/ /\ call[c].staged /\ Fails
          /\ index' \in {index, Overlay(index, Nothing, Of(c))}
          /\ Step(c, [call[c] EXCEPT !.at = "restore", !.unreset = TRUE])
    /\ UNCHANGED <<disk, repo>>

\* Then every path of the list. One that cannot be taken away or written stays as it is, or is left
\* with nothing but its truncation.
Restore(c) ==
    /\ At(c, "restore")
    /\ \E stuck \in SUBSET Of(c) : \E torn \in SUBSET {p \in stuck : call[c].marks[p] # Absent} :
          /\ (stuck = {} /\ UNCHANGED faults) \/ (stuck # {} /\ Fails)
          /\ disk' = [p \in Paths |-> IF p \in torn THEN Torn
                                      ELSE IF p \in Of(c) \ stuck THEN call[c].marks[p] ELSE disk[p]]
          /\ Step(c, [NewCall EXCEPT !.at = "refused", !.unreset = call[c].unreset, !.stuck = stuck])
    /\ UNCHANGED <<index, repo>>

\* The session of the call dies, at any step and with a file half written.
Die(c) ==
    /\ call[c].at \notin Ended /\ Fails
    /\ End(c, "dead", 0)
    /\ \/ UNCHANGED disk
       \/ At(c, "write") /\ disk' = [disk EXCEPT ![Head(call[c].left)] = Torn]
    /\ UNCHANGED <<index, repo>>

CallStep(c) ==
    \/ EnsureRepo(c) \/ CheckSha(c) \/ Snapshot(c) \/ WritePath(c) \/ Stage(c) \/ Staged(c)
    \/ Commit(c) \/ ReadBack(c) \/ Unstage(c) \/ Restore(c)

Next == \E c \in Calls : JudgeOne(c) \/ JudgeList(c) \/ JudgeImport(c) \/ CallStep(c) \/ Die(c)

Spec == Init /\ [][Next]_vars

-----------------------------------------------------------------------------
(* Properties.                                                             *)

\* A list that is refused did not happen, whatever earlier calls left half done, and whatever is
\* committed beside it in other paths. The head is the old one in its files, also when rollback fails:
\* the one exception is a commit that was made and could not be read back, which stays in the history.
\* Each file that rollback could put back holds what it held, and nothing of the list is staged unless
\* git refused rollback too (WriteAll, rollback, commitPaths).
RefusedListIsUndone ==
    [][\A c \in Calls :
         call'[c].at = "refused" /\ ~At(c, "refused") /\ Form(c) = "list" /\ call[c].apart =>
            \A p \in Of(c) :
               /\ p \notin call'[c].stuck => disk'[p] = call[c].was.disk[p]
               /\ call[c].made = 0 => HeadTree[p] = call[c].was.head[p]
               /\ ~call'[c].unreset => index'[p] \in {HeadTree[p], call[c].was.index[p]}]_vars

\* "Nothing of a refused list reaches the disk." (writeall.go rollback, spec/mcp-surface.yaml) Refuted
\* when rollback fails as well: one cause, a full disk or a call that is cancelled, fails both.
NothingOfARefusedListIsLeft ==
    [][\A c \in Calls :
         call'[c].at = "refused" /\ ~At(c, "refused") /\ Form(c) = "list" /\ call[c].apart =>
            \A p \in Of(c) : /\ disk'[p] = call[c].was.disk[p]
                             /\ index'[p] \in {HeadTree[p], call[c].was.index[p]}]_vars

\* A write that is answered is a version: the head has the content in every path of the call and
\* in no other path has it changed, also when an earlier session died with files written or
\* staged, or was refused and could not take back what it had staged, and while other calls write
\* other paths (stage, staged, commitPaths).
AnsweredIsCommitted ==
    [][\A c \in Calls :
         /\ call'[c].at = "ok" /\ ~At(c, "ok") /\ call[c].apart =>
              \A p \in Of(c) : HeadTree[p] = Content(c)
         /\ call'[c].made > call[c].made =>
              \A p \in Paths \ Of(c) : HeadTree'[p] = HeadTree[p]]_vars
=============================================================================
