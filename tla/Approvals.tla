----------------------------- MODULE Approvals -----------------------------
(***************************************************************************)
(* The approval queue: a member's fs_write or pkg_import under /org is     *)
(* queued (internal/fs/approvals.go, internal/daemon/approvals.go), an     *)
(* admin's session claims it, runs it as its own user and stores what came *)
(* of it (internal/server/approve.go), and the removal of the requester    *)
(* takes the queue with it (internal/daemon/removal.go).                   *)
(*                                                                         *)
(* A request has two steps in the daemon: who is asking and whether they   *)
(* may, and one transaction of the store, which has one connection and so  *)
(* runs one at a time.  Between them, and around them, sessions die,       *)
(* answers are lost and accounts are removed.                              *)
(***************************************************************************)
EXTENDS Integers, Sequences, FiniteSets

CONSTANTS Members,
          Admins,    \* the members of kitbash-admin
          Sessions,
          Ids,       \* the approvals there may ever be
          Inputs,    \* what a queued call may name: lists of paths
          Shared,    \* the paths under /org
          Leavers,   \* the members that may be removed
          Permits,   \* the sets of paths a session may name: every path, or less for a Process
          MaxPending,
          MaxLost    \* bound: sessions that die and answers that are lost

ASSUME AdminsAssumption == Admins \subseteq Members /\ "nobody" \notin Members
ASSUME PendingAssumption == MaxPending \in Nat \ {0}
ASSUME IdsAssumption == IsFiniteSet(Ids)

VARIABLES account,  \* the members of the host, and how far the removal of one is
          queue,    \* the table of approvals
          sess,     \* the sessions, and the request each one makes
          ran,      \* what was run for each approval
          lost

vars == <<account, queue, sess, ran, lost>>

Nobody == "nobody"
None   == "none"
PathsOf(input) == {input[n] : n \in DOMAIN input}

Unused == [state |-> "unused", requester |-> Nobody, input |-> <<>>, by |-> Nobody, result |-> None]
Gone   == [Unused EXCEPT !.state = "gone"]
NoSession == [who |-> Nobody, permits |-> {}, at |-> "off", id |-> None, input |-> <<>>, outcome |-> None]

\* What a session waits for: an answer of the daemon, which goes on when the session is not there.
Asking == {"create", "claim", "reject", "result"}

Init ==
    /\ account = [m \in Members |-> "there"]
    /\ queue = [i \in Ids |-> Unused]
    /\ sess = [s \in Sessions |-> NoSession]
    /\ ran = [i \in Ids |-> <<>>]
    /\ lost = 0

At(s, step)  == sess[s].at = step
Goto(s, rec) == sess' = [sess EXCEPT ![s] = rec]
May(s)       == account[sess[s].who] # "gone"
Resting(s)   == [NoSession EXCEPT !.who = sess[s].who, !.permits = sess[s].permits, !.at = "idle"]
Admin(s)     == May(s) /\ sess[s].who \in Admins
Loses        == lost < MaxLost /\ lost' = lost + 1

Open(s) ==
    /\ At(s, "off")
    /\ \E m \in Members, p \in Permits :
          /\ account[m] # "gone"
          /\ Goto(s, [NoSession EXCEPT !.who = m, !.permits = p, !.at = "idle"])
    /\ UNCHANGED <<account, queue, ran, lost>>

\* The session goes, and with it a call it was running. What it asked the daemon goes on there: see
\* the answers below.
Die(s) ==
    /\ sess[s].at \notin {"off"} \cup Asking /\ Loses
    /\ Goto(s, NoSession)
    /\ UNCHANGED <<account, queue, ran>>

\* The answer of a transaction reaches its session, or does not.
Answered(s, rec) ==
    \/ Goto(s, IF May(s) THEN rec ELSE NoSession) /\ UNCHANGED lost
    \/ Loses /\ Goto(s, NoSession)
Idle(s) == Answered(s, Resting(s))

-----------------------------------------------------------------------------
(* Queueing.                                                               *)

\* A member that is not an admin queues. Whose removal began is not asked.
Create(s) ==
    /\ At(s, "idle") /\ May(s) /\ sess[s].who \notin Admins
    /\ \E input \in Inputs : Goto(s, [sess[s] EXCEPT !.at = "create", !.input = input])
    /\ UNCHANGED <<account, queue, ran, lost>>

Pending(m) == {i \in Ids : queue[i].state = "pending" /\ queue[i].requester = m}

\* CreateApproval with the count left out of its transaction.
InsertUncounted(s) ==
    /\ At(s, "create")
    /\ \E i \in Ids :
          /\ queue[i].state = "unused"
          /\ queue' = [queue EXCEPT ![i] = [Unused EXCEPT !.state = "pending",
                          !.requester = sess[s].who, !.input = sess[s].input]]
    /\ Idle(s) /\ UNCHANGED <<account, ran>>

\* CreateApproval.
Insert(s) ==
    /\ At(s, "create")
    /\ IF Cardinality(Pending(sess[s].who)) >= MaxPending
       THEN UNCHANGED queue /\ Idle(s)
       ELSE /\ \E i \in Ids :
                  /\ queue[i].state = "unused"
                  /\ queue' = [queue EXCEPT ![i] = [Unused EXCEPT !.state = "pending",
                                  !.requester = sess[s].who, !.input = sess[s].input]]
            /\ Idle(s)
    /\ UNCHANGED <<account, ran>>

-----------------------------------------------------------------------------
(* Deciding.                                                               *)

\* claimApproval and rejectApproval up to the store: the caller is an admin now.
Decide(s) ==
    /\ At(s, "idle") /\ Admin(s)
    /\ \E i \in Ids, at \in {"claim", "reject"} :
          /\ queue[i].state # "unused"
          /\ Goto(s, [sess[s] EXCEPT !.at = at, !.id = i])
    /\ UNCHANGED <<account, queue, ran, lost>>

\* decide with the read of the state left out of the transaction.
DecidesAnyway(i, to) ==
    /\ queue[i].state \in {"pending", "approved", "rejected"}
    /\ queue' = [queue EXCEPT ![i] = to]

\* decide: pending to something else, stamped with the admin.
Decides(i, to) ==
    /\ queue[i].state = "pending"
    /\ queue' = [queue EXCEPT ![i] = to]

Stamp(s, state) == [queue[sess[s].id] EXCEPT !.state = state, !.by = sess[s].who]

Claim(s) ==
    /\ At(s, "claim")
    /\ \/ /\ Decides(sess[s].id, Stamp(s, "approved"))
          /\ Answered(s, [sess[s] EXCEPT !.at = "run", !.input = queue[sess[s].id].input])
       \/ queue[sess[s].id].state # "pending" /\ Idle(s) /\ UNCHANGED queue
    /\ UNCHANGED <<account, ran>>

Reject(s) ==
    /\ At(s, "reject")
    /\ \/ /\ Decides(sess[s].id, Stamp(s, "rejected"))
          /\ Idle(s)
       \/ queue[sess[s].id].state # "pending" /\ Idle(s) /\ UNCHANGED queue
    /\ UNCHANGED <<account, ran>>

-----------------------------------------------------------------------------
(* Running what was claimed.                                               *)

\* confined and permittedApproval asked of the first path of a list.
FitsFirst(s, input) == input[1] \in Shared \cap sess[s].permits

\* confined and permittedApproval, of every path before any of them is written.
Fits(s, input) == PathsOf(input) \subseteq Shared \cap sess[s].permits

\* run: the tool runs as the admin; that it fails is its outcome too.
Run(s) ==
    /\ At(s, "run")
    /\ IF Fits(s, sess[s].input)
       THEN /\ ran' = [ran EXCEPT ![sess[s].id] =
                  Append(@, [by |-> sess[s].who, permits |-> sess[s].permits, input |-> sess[s].input])]
            /\ Goto(s, [sess[s] EXCEPT !.at = "put", !.outcome = "ran"])
       ELSE UNCHANGED ran /\ Goto(s, [sess[s] EXCEPT !.at = "put", !.outcome = "refused"])
    /\ UNCHANGED <<account, queue, lost>>

\* resultApproval up to the store.
Put(s) ==
    /\ At(s, "put")
    /\ IF Admin(s) THEN Goto(s, [sess[s] EXCEPT !.at = "result"]) /\ UNCHANGED lost ELSE Idle(s)
    /\ UNCHANGED <<account, queue, ran>>

\* ResultApproval.
Result(s) ==
    /\ At(s, "result")
    /\ LET a == queue[sess[s].id] IN
       \/ /\ a.state = "approved" /\ a.by = sess[s].who /\ a.result = None
          /\ queue' = [queue EXCEPT ![sess[s].id].result = sess[s].outcome]
          /\ Idle(s)
       \/ /\ a.state # "approved" \/ a.by # sess[s].who \/ a.result # None
          /\ Idle(s) /\ UNCHANGED queue
    /\ UNCHANGED <<account, ran>>

-----------------------------------------------------------------------------
(* The removal of a member.                                                *)

StartRemoval(m) ==
    /\ m \in Leavers /\ account[m] = "there"
    /\ account' = [account EXCEPT ![m] = "leaving"]
    /\ UNCHANGED <<queue, sess, ran, lost>>

\* DeleteApprovals, or the failure of this step, which does not end the job.
DropQueue(m) ==
    /\ account[m] = "leaving"
    /\ account' = [account EXCEPT ![m] = "dropped"]
    /\ \/ /\ queue' = [i \in Ids |-> IF queue[i].requester = m THEN Gone ELSE queue[i]]
          /\ UNCHANGED lost
       \/ Loses /\ UNCHANGED queue
    /\ UNCHANGED <<sess, ran>>

\* endSessions and userdel. The requests the daemon has of a session that ends go on.
DeleteAccount(m) ==
    /\ account[m] = "dropped"
    /\ account' = [account EXCEPT ![m] = "gone"]
    /\ sess' = [s \in Sessions |-> IF sess[s].who = m /\ sess[s].at \notin Asking
                                   THEN NoSession ELSE sess[s]]
    /\ UNCHANGED <<queue, ran, lost>>

Next ==
    \/ \E s \in Sessions :
          \/ Open(s) \/ Die(s) \/ Create(s) \/ Insert(s) \/ Decide(s) \/ Claim(s) \/ Reject(s)
          \/ Run(s) \/ Put(s) \/ Result(s)
    \/ \E m \in Members : StartRemoval(m) \/ DropQueue(m) \/ DeleteAccount(m)

Spec == Init /\ [][Next]_vars

-----------------------------------------------------------------------------
(* Properties.                                                             *)

Rows == [state : {"unused", "pending", "approved", "rejected", "gone"},
         requester : Members \cup {Nobody}, input : Inputs \cup {<<>>}, by : Admins \cup {Nobody},
         result : {None, "ran", "refused"}]

Steps == {"off", "idle", "run", "put"} \cup Asking

TypeOK ==
    /\ account \in [Members -> {"there", "leaving", "dropped", "gone"}]
    /\ queue \in [Ids -> Rows]
    /\ \A s \in Sessions :
          /\ sess[s].at \in Steps
          /\ sess[s].at # "off" => sess[s].who \in Members /\ sess[s].permits \in Permits
    /\ lost \in 0..MaxLost

\* A member has no more pending than the cap, however many sessions queue at once
\* (CreateApproval).
PendingCap == \A m \in Members : Cardinality(Pending(m)) <= MaxPending

\* An approval is run at most once and by who claimed it, never when it was rejected, and what is
\* stored as its result is what came of that run; what was run named nothing outside /org and
\* nothing its session may not name, whatever the queued list holds and whichever sessions die or
\* claim it again (run, confined, permittedApproval, ResultApproval).
RunsAsDecided ==
    \A i \in Ids :
       /\ Len(ran[i]) <= 1
       /\ queue[i].state \in {"unused", "pending", "rejected"} => ran[i] = <<>>
       /\ queue[i].result = "ran" => Len(ran[i]) = 1
       /\ queue[i].result = "refused" => ran[i] = <<>>
       /\ \A n \in DOMAIN ran[i] :
             /\ queue[i].state = "approved" => queue[i].by = ran[i][n].by
             /\ PathsOf(ran[i][n].input) \subseteq Shared \cap ran[i][n].permits

\* The queue is kept: a cap of what waits, and every run the one that was decided.
QueueIsKept == PendingCap /\ RunsAsDecided

\* Each approval keeps the promise of the queue.
decisions == [i \in Ids |->
    [state |-> IF queue[i].result # None THEN "answered" ELSE queue[i].state, by |-> queue[i].by]]

Promise == INSTANCE Decision WITH decision <- decisions

\* The rows of the queue, decided by two admins at once, answered late and forgotten with their
\* requester, are what Decision promises (store/approvals.go decide, ResultApproval).
ImplementsDecision == Promise!Spec

\* What internal/store/approvals.go says of DeleteApprovals: nothing a member queued is executed
\* after the account is gone.
NothingOfTheGoneRuns ==
    [][\A i \in Ids : Len(ran'[i]) > Len(ran[i]) => account[queue[i].requester] # "gone"]_vars
=============================================================================
