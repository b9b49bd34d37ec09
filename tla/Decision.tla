------------------------------ MODULE Decision ------------------------------
(***************************************************************************)
(* What the approval queue promises of each approval: it is decided once,  *)
(* by one admin, and what was approved is answered at most once, by that   *)
(* admin.  One that is taken away with its requester never comes back.     *)
(***************************************************************************)
CONSTANTS Ids, Members

VARIABLE decision

Nobody == "nobody"
Is(state, by) == [state |-> state, by |-> by]

Init == decision = [i \in Ids |-> Is("unused", Nobody)]

Move(i, from, to) ==
    /\ decision[i].state = from
    /\ decision' = [decision EXCEPT ![i] = to]

Queue(i)       == Move(i, "unused", Is("pending", Nobody))
Approve(i, by) == Move(i, "pending", Is("approved", by))
Reject(i, by)  == Move(i, "pending", Is("rejected", by))
Answer(i, by)  == decision[i].by = by /\ Move(i, "approved", Is("answered", by))

\* The approvals of a member go at once.
Forget(gone) ==
    decision' = [i \in Ids |-> IF i \in gone THEN Is("gone", Nobody) ELSE decision[i]]

Next ==
    \/ \E i \in Ids : Queue(i)
    \/ \E i \in Ids, by \in Members : Approve(i, by) \/ Reject(i, by) \/ Answer(i, by)
    \/ \E gone \in SUBSET {i \in Ids : decision[i].state # "unused"} : Forget(gone)

Spec == Init /\ [][Next]_decision
=============================================================================
