------------------------------- MODULE Prober -------------------------------
(***************************************************************************)
(* The health probes of internal/daemon/health.go: the targets, the loop   *)
(* that sends what is due, and the requests in flight, which come back     *)
(* after the target was registered again, dropped, or dropped and made     *)
(* again.  What a probe does to the routing table is in Processes.         *)
(*                                                                         *)
(* Time is relative: a target holds how far off its next probe is and the  *)
(* loop how long it still waits, so there is no clock to bound.            *)
(***************************************************************************)
EXTENDS Integers, FiniteSets

CONSTANTS Ids,
          Decls,      \* what a registration may declare: an endpoint, a path
          Intervals,  \* the intervals it may declare, already held to the floor
          IdleWait,   \* how long the loop waits at most
          MaxFlights  \* bound: requests in flight for one id and one declaration

VARIABLES targets,  \* pr.targets
          flights,  \* the requests in flight, counted by id and by what they were sent to
          wait,     \* what is left of the timer of the loop
          woken     \* pr.changed, which holds one wake up

vars == <<targets, flights, wait, woken>>

NoTarget == [decl |-> "none", every |-> 0, next |-> 0, running |-> FALSE, read |-> "none"]
Held     == {i \in Ids : targets[i] # NoTarget}
InFlight(i) == {d \in Decls : flights[i][d] > 0}

Init ==
    /\ targets = [i \in Ids |-> NoTarget]
    /\ flights = [i \in Ids |-> [d \in Decls |-> 0]]
    /\ wait = IdleWait
    /\ woken = FALSE

\* track with the wake up left to the timer.
TrackQuietly(i, decl, every) ==
    /\ targets' = [targets EXCEPT ![i] =
          IF i \in Held THEN [targets[i] EXCEPT !.decl = decl, !.every = every]
          ELSE [NoTarget EXCEPT !.decl = decl, !.every = every]]
    /\ UNCHANGED <<flights, wait, woken>>

\* track. A target that is held keeps its schedule, its marker and its last reading; a new one is
\* due at once.
Track(i, decl, every) ==
    /\ targets' = [targets EXCEPT ![i] =
          IF i \in Held THEN [targets[i] EXCEPT !.decl = decl, !.every = every]
          ELSE [NoTarget EXCEPT !.decl = decl, !.every = every]]
    /\ woken' = (woken \/ i \notin Held)
    /\ UNCHANGED <<flights, wait>>

Untrack(i) ==
    /\ i \in Held
    /\ targets' = [targets EXCEPT ![i] = NoTarget]
    /\ woken' = TRUE
    /\ UNCHANGED <<flights, wait>>

\* verifyProbe: the container publishes the port of the endpoint, or publishes another, or is not
\* there, or the runtime does not say.
Verified == BOOLEAN

\* trackProbe of a registration or a start: what does not check out is not probed any more.
Declare(i, decl, every) ==
    \E verified \in Verified : IF verified THEN Track(i, decl, every) ELSE Untrack(i)

\* due, at the top of the loop: each target that is due is marked and requested, and the loop waits
\* for the nearest of the rest.
Waiting == {i \in Held : ~targets[i].running /\ targets[i].next > 0}
Send    == {i \in Held : ~targets[i].running /\ targets[i].next = 0}

Nearest == LET offs == {IdleWait} \cup {targets[i].next : i \in Waiting}
           IN CHOOSE n \in offs : \A m \in offs : n <= m

Pass ==
    /\ \/ woken /\ woken' = FALSE
       \/ wait = 0 /\ UNCHANGED woken
    /\ targets' = [i \in Ids |-> IF i \in Send
                                 THEN [targets[i] EXCEPT !.running = TRUE, !.next = targets[i].every]
                                 ELSE targets[i]]
    /\ flights' = [i \in Ids |-> IF i \in Send
                                 THEN [flights[i] EXCEPT ![targets[i].decl] = @ + 1] ELSE flights[i]]
    /\ wait' = Nearest

Landed(i, d) == flights' = [flights EXCEPT ![i][d] = @ - 1]

\* finished that counts whatever comes back for a target that is held.
FinishAny(i, d) ==
    /\ flights[i][d] > 0 /\ Landed(i, d)
    /\ targets' = [targets EXCEPT ![i] =
          IF i \in Held THEN [targets[i] EXCEPT !.running = FALSE, !.read = d] ELSE @]
    /\ woken' = (woken \/ i \in Held)
    /\ UNCHANGED wait

\* probeOnce and finished: a request comes back, or times out.
Finish(i, d) ==
    /\ flights[i][d] > 0 /\ Landed(i, d)
    /\ targets' = [targets EXCEPT ![i] =
          IF i \notin Held THEN @
          ELSE [targets[i] EXCEPT !.running = FALSE, !.read = IF targets[i].decl = d THEN d ELSE @]]
    /\ woken' = (woken \/ i \in Held)
    /\ UNCHANGED wait

Tick ==
    /\ wait > 0
    /\ wait' = wait - 1
    /\ targets' = [i \in Ids |-> [targets[i] EXCEPT !.next = IF @ > 0 THEN @ - 1 ELSE 0]]
    /\ UNCHANGED <<flights, woken>>

Next ==
    \/ \E i \in Ids :
          \/ \E d \in Decls, every \in Intervals :
                /\ i \in Held \/ \A f \in Decls : flights[i][f] < MaxFlights
                /\ Declare(i, d, every)
          \/ Untrack(i)
          \/ \E d \in Decls : Finish(i, d)
    \/ Pass \/ Tick

Spec == Init /\ [][Next]_vars

-----------------------------------------------------------------------------
(* Properties.                                                             *)

\* A target that has no request in flight is never forgotten: the loop is awake, or wakes no later
\* than the target is due, however often it was registered again and whatever came back for a
\* declaration it no longer has (track, due, finished, wake).
NobodyIsOverslept ==
    \A i \in Held : woken \/ InFlight(i) # {} \/ wait <= targets[i].next

\* A reading is of the endpoint the registration names when it is recorded; one that comes back for
\* an endpoint that was replaced, or for nobody, is dropped (finished).
LateReadingsAreDropped ==
    [][\A i \in Ids : \A d \in Decls :
          flights'[i][d] < flights[i][d] /\ targets'[i].read # targets[i].read
             => targets[i].decl = d /\ targets'[i].read = d]_vars
=============================================================================
