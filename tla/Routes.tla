------------------------------- MODULE Routes -------------------------------
(***************************************************************************)
(* The re-resolve of internal/daemon/proxy.go: a forward nothing accepts   *)
(* asks the runtime whether the container is still there, once per route   *)
(* and window, while starts, stops and registrations build the route anew. *)
(*                                                                         *)
(* One name per Process, which holds a port or none.  Containers die at    *)
(* any time; a start, a stop or a registration reads the state of the      *)
(* container and then writes the table, under the action lock of its id.   *)
(***************************************************************************)
EXTENDS Integers, FiniteSets

CONSTANTS Ids, Requests,
          Window    \* ReResolveWindow, in ticks

VARIABLES runs,     \* the containers that run
          table,    \* p.routes: the name of an id forwards to a port, answers 503, or is not served
          verb,     \* the action an id has the lock for: what it read of the container
          answers,  \* r.answers
          reqs,     \* the requests that were refused
          cool      \* ticks until the last question about a route is out of its window

vars == <<runs, table, verb, answers, reqs, cool>>

NoAnswer == [by |-> "nobody", open |-> FALSE, dropped |-> FALSE, left |-> 0]
Quiet    == [at |-> "off", id |-> "none", on |-> "nobody", dropped |-> FALSE, stale |-> FALSE]

Init ==
    /\ runs = {}
    /\ table = [i \in Ids |-> "off"]
    /\ verb = [i \in Ids |-> "none"]
    /\ answers = [i \in Ids |-> NoAnswer]
    /\ reqs = [r \in Requests |-> Quiet]
    /\ cool = [i \in Ids |-> 0]

At(r, step) == reqs[r].at = step
Go(r, rec)  == reqs' = [reqs EXCEPT ![r] = rec]
Asking(r)   == reqs[r].at \in {"inspect", "drop", "publish"}

-----------------------------------------------------------------------------
(* The route of an id is built, or dropped.                                *)

Start(i) ==
    /\ verb[i] = "none" /\ i \notin runs
    /\ runs' = runs \cup {i}
    /\ verb' = [verb EXCEPT ![i] = "begun"]
    /\ UNCHANGED <<table, answers, reqs, cool>>

Stop(i) ==
    /\ verb[i] = "none"
    /\ runs' = runs \ {i}
    /\ verb' = [verb EXCEPT ![i] = "begun"]
    /\ UNCHANGED <<table, answers, reqs, cool>>

\* trackRoute of a registration, which changes no container.
Register(i) ==
    /\ verb[i] = "none"
    /\ verb' = [verb EXCEPT ![i] = "begun"]
    /\ UNCHANGED <<runs, table, answers, reqs, cool>>

\* containerConfig: that a container runs, as the runtime says or does not answer.
Says(i) == {FALSE, (i \in runs)}

\* routePort: a container that does not run has no port, nor has one the runtime does not answer for.
RoutePort(i) ==
    /\ verb[i] = "begun"
    /\ \E up \in Says(i) : verb' = [verb EXCEPT ![i] = IF up THEN "up" ELSE "down"]
    /\ UNCHANGED <<runs, table, answers, reqs, cool>>

\* dropID and forget: what was asked before is not about the route that is written now.
Forget(i) ==
    /\ answers' = [answers EXCEPT ![i] = NoAnswer]
    /\ cool' = [cool EXCEPT ![i] = 0]
    /\ reqs' = [r \in Requests |->
                   IF reqs[r].id = i /\ Asking(r) THEN [reqs[r] EXCEPT !.stale = TRUE] ELSE reqs[r]]

\* track.
Write(i) ==
    /\ verb[i] \in {"up", "down"}
    /\ table' = [table EXCEPT ![i] = verb[i]]
    /\ verb' = [verb EXCEPT ![i] = "none"]
    /\ Forget(i)
    /\ UNCHANGED runs

\* untrack: the Process is unregistered.
Untrack(i) ==
    /\ verb[i] = "none" /\ table[i] # "off"
    /\ table' = [table EXCEPT ![i] = "off"]
    /\ Forget(i)
    /\ UNCHANGED <<runs, verb>>

\* A container stops outside the daemon.
Exit(i) ==
    /\ i \in runs
    /\ runs' = runs \ {i}
    /\ UNCHANGED <<table, verb, answers, reqs, cool>>

-----------------------------------------------------------------------------
(* A request.                                                              *)

\* serveProxy and forward: the route is looked up.
Lookup(r) ==
    /\ At(r, "off")
    /\ \E i \in Ids : table[i] = "up" /\ Go(r, [Quiet EXCEPT !.at = "dial", !.id = i])
    /\ UNCHANGED <<runs, table, verb, answers, cool>>

\* The container answers, or refuses the connection. forwardFailed goes on with what was refused.
Dial(r) ==
    /\ At(r, "dial")
    /\ Go(r, IF reqs[r].id \in runs THEN Quiet ELSE [reqs[r] EXCEPT !.at = "resolve"])
    /\ UNCHANGED <<runs, table, verb, answers, cool>>

Fresh(i) == ~answers[i].open /\ answers[i].left > 0

Ask(r) ==
    LET i == reqs[r].id IN
    /\ answers' = [answers EXCEPT ![i] = [NoAnswer EXCEPT !.by = r, !.open = TRUE, !.left = Window]]
    /\ Go(r, [reqs[r] EXCEPT !.at = "inspect", !.stale = FALSE])
    /\ cool' = [cool EXCEPT ![i] = Window]

\* resolve that looks for an answer and not for a call that is going.
ResolveAlone(r) ==
    /\ At(r, "resolve")
    /\ IF Fresh(reqs[r].id)
       THEN Go(r, Quiet) /\ UNCHANGED <<answers, cool>>
       ELSE Ask(r)
    /\ UNCHANGED <<runs, table, verb>>

\* resolve, up to the question: wait for the call that is going, take an answer that is fresh, or
\* ask.
Resolve(r) ==
    /\ At(r, "resolve")
    /\ LET i == reqs[r].id IN
       \/ /\ answers[i].open
          /\ Go(r, [reqs[r] EXCEPT !.at = "wait", !.on = answers[i].by])
          /\ UNCHANGED <<answers, cool>>
       \/ Fresh(i) /\ Go(r, Quiet) /\ UNCHANGED <<answers, cool>>
       \/ ~answers[i].open /\ answers[i].left = 0 /\ Ask(r)
    /\ UNCHANGED <<runs, table, verb>>

\* containerStopped: the runtime says what the container is, or does not answer.
Inspect(r) ==
    /\ At(r, "inspect")
    /\ \E stopped \in {reqs[r].id \notin runs, FALSE} :
          Go(r, [reqs[r] EXCEPT !.at = IF stopped THEN "drop" ELSE "publish"])
    /\ UNCHANGED <<runs, table, verb, answers, cool>>

\* dropPort.
DropPort(r) ==
    /\ At(r, "drop")
    /\ table' = [table EXCEPT ![reqs[r].id] = IF @ = "up" THEN "down" ELSE @]
    /\ Go(r, [reqs[r] EXCEPT !.at = "publish", !.dropped = TRUE])
    /\ UNCHANGED <<runs, verb, answers, cool>>

Released(r) ==
    [q \in Requests |-> IF q = r THEN Quiet
                        ELSE IF At(q, "wait") /\ reqs[q].on = r THEN [reqs[q] EXCEPT !.at = "read"]
                        ELSE reqs[q]]

Mine(r) == answers[reqs[r].id].by = r /\ answers[reqs[r].id].open

Settled(r) ==
    answers' = IF Mine(r)
               THEN [answers EXCEPT ![reqs[r].id].open = FALSE, ![reqs[r].id].dropped = reqs[r].dropped]
               ELSE answers

\* resolve that closes the call the map holds and not its own.
PublishHeld(r) ==
    /\ At(r, "publish") /\ Settled(r)
    /\ reqs' = IF Mine(r) THEN Released(r) ELSE [reqs EXCEPT ![r] = Quiet]
    /\ UNCHANGED <<runs, table, verb, cool>>

\* The end of resolve: the answer is written into its own entry, which the map may hold no more,
\* and whoever waits for it goes on.
Publish(r) ==
    /\ At(r, "publish") /\ Settled(r)
    /\ reqs' = Released(r)
    /\ UNCHANGED <<runs, table, verb, cool>>

\* A request that waited reads the answer the map holds by now, and answers.
Read(r) ==
    /\ At(r, "read")
    /\ Go(r, Quiet)
    /\ UNCHANGED <<runs, table, verb, answers, cool>>

Tick ==
    /\ \E i \in Ids : cool[i] > 0 \/ answers[i].left > 0
    /\ answers' = [i \in Ids |-> [answers[i] EXCEPT !.left = IF @ > 0 THEN @ - 1 ELSE 0]]
    /\ cool' = [i \in Ids |-> IF cool[i] > 0 THEN cool[i] - 1 ELSE 0]
    /\ UNCHANGED <<runs, table, verb, reqs>>

Handle(r) == Dial(r) \/ Resolve(r) \/ Inspect(r) \/ DropPort(r) \/ Publish(r) \/ Read(r)

Next ==
    \/ \E i \in Ids : \/ Start(i) \/ Stop(i) \/ Register(i) \/ RoutePort(i) \/ Write(i)
                      \/ Untrack(i) \/ Exit(i)
    \/ \E r \in Requests : Lookup(r) \/ Handle(r)
    \/ Tick

Fairness == \A r \in Requests : WF_vars(Handle(r))

Spec == Init /\ [][Next]_vars /\ Fairness

-----------------------------------------------------------------------------
(* Properties.                                                             *)

\* The runtime is asked about a route by one request at a time and once per window, however many
\* are refused at once and whatever rebuilds the route between; only a route that was written
\* again since may be asked about again (resolve, forget).
OneInspectPerWindow ==
    [][\A r \in Requests :
          At(r, "resolve") /\ reqs'[r].at = "inspect"
             => /\ cool[reqs[r].id] = 0
                /\ \A q \in Requests : reqs[q].id = reqs[r].id /\ Asking(q) => reqs[q].stale]_vars

\* A request that waits for the answer of another is let go, also when the route was written anew
\* and the map holds another call by then (resolve).
EveryWaiterIsAnswered == \A r \in Requests : At(r, "wait") ~> At(r, "off")

\* What the comment on dropID says: a call made before a route was written again has nothing to
\* say about the route that is there now. So the port of a container that runs is taken off by an
\* action of its Process and by nothing else.
RunningKeepsItsPort ==
    [][\A i \in runs : table[i] = "up" /\ table'[i] = "down" => verb[i] # "none"]_vars
=============================================================================
