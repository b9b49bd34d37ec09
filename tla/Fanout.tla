------------------------------- MODULE Fanout -------------------------------
(***************************************************************************)
(* The fan out of stored Telemetry (internal/daemon/fanout.go): exports    *)
(* that are stored and then queued for the Processes that subscribed, a    *)
(* bounded queue and a worker for each of them, the registrations that     *)
(* bring subscribers and take them away, and the close of the daemon.      *)
(*                                                                         *)
(* A step is one atomic load, add, send or receive, or what is done under  *)
(* the mutex of the fan out.  A producer that took a snapshot goes on with *)
(* subscribers which are stopped meanwhile, so they are objects of their   *)
(* own.  A record is who it is about and whether it is the cause of an     *)
(* internal problem.  One export carries one signal.  Secrets, encoding    *)
(* and what the store keeps are left out.                                  *)
(***************************************************************************)
EXTENDS Integers, Sequences, FiniteSets, Functions

CONSTANTS Kits,        \* the Processes
          Members,
          Causes,      \* the members a cause may be about
          Objects,     \* bound: the subscribers there may ever be
          Registers,   \* what a registration of each Process may declare
          Booted,      \* what the store may hold at a boot
          QueueDepth, QueueBytes,
          Starters,    \* bound: the producers that export unprompted
          Movers,      \* bound: the Processes whose registration changes
          Talkers,     \* bound: the Processes that call tools over /mcp
          MaxExports,  \* bound: exports that no delivery caused
          MaxChanges,  \* bound: registrations, unregistrations and the close
          None

ASSUME SizesAssumption == QueueDepth \in Nat \ {0} /\ QueueBytes \in Nat

\* The members and the Processes of a host are finitely many, and there is a subscriber for each
\* Process that a boot may find.
ASSUME HostAssumption ==
    /\ IsFiniteSet(Kits) /\ IsFiniteSet(Members) /\ Members # {}
    /\ None \notin Kits \cup Objects /\ Injection(Kits, Objects) # {}
    /\ \A b \in Booted : b \in [Kits -> Range(b)]

VARIABLES row,      \* the registration of a Process, in the store
          changing, \* one between its row and its subscriber
          subs,     \* f.subs
          closed,   \* the close of the fan out, and the workers it waits for
          sub,      \* the subscribers
          worker,
          prod,     \* the requests that export, one over the socket and one of each Process
          woken,    \* the Processes a delivery has woken
          exports, changes

vars == <<row, changing, subs, closed, sub, worker, prod, woken, exports, changes>>

Producers == Kits \cup {"session"}
Idle      == [at |-> "idle", recs |-> {}, todo |-> {}, to |-> None, size |-> 0]

-----------------------------------------------------------------------------
(* Who may see what.                                                       *)

\* What tel_query answers the member of a registration.
Readable(r, p) == p.admin \/ (r.user = p.owner /\ ~r.internal)

Eligible(p, user) == p.admin \/ p.owner = user
Sees(p, r) == Eligible(p, r.user) /\ (p.admin \/ ~r.internal)

Part(p, recs) == {r \in recs : Sees(p, r)}

Subscribes(p) == p # None /\ p.subscribes

\* What identity.apply leaves a producer to say: over the socket it is a member, the cause of an
\* internal problem comes from the daemon itself, and a Process is its owner unless an admin runs it
\* to judge others.
Bodies(p) ==
    LET About(users, internal) == [user : users, internal : {internal}] IN
    IF p = "session" THEN {{r} : r \in About(Causes, TRUE) \cup About(Members, FALSE)}
    ELSE {About({row[p].owner}, FALSE)} \cup (IF row[p].admin THEN {About(Members, FALSE)} ELSE {})

-----------------------------------------------------------------------------
NoObject == [id |-> None, reg |-> None, queue |-> <<>>, held |-> 0, stop |-> FALSE]
NewSubscriber(k, p) == [id |-> k, reg |-> p, queue |-> <<>>, held |-> 0, stop |-> FALSE]
NoWorker == [at |-> "none", hand |-> {}]
NewWorker == [at |-> "wait", hand |-> {}]
Free == {o \in Objects : sub[o].id = None}
\* A comparison of endpoints alone.
SameEndpoint(p, q) == p.endpoint = q.endpoint

Same(p, q) == p.endpoint = q.endpoint /\ p.owner = q.owner /\ p.admin = q.admin

\* A boot: rows are there and reload has not run.
Init ==
    /\ row \in Booted
    /\ changing = [k \in Kits |-> "no"]
    /\ subs = [k \in Kits |-> None]
    /\ closed = [at |-> "boot", wait |-> {}]
    /\ sub = [o \in Objects |-> NoObject]
    /\ worker = [o \in Objects |-> NoWorker]
    /\ prod = [p \in Producers |-> Idle]
    /\ woken = {} /\ exports = 0 /\ changes = 0

\* LoadSubscribers, which is done before the daemon serves: there are no subscribers yet.
Reload ==
    /\ closed.at = "boot"
    /\ closed' = [closed EXCEPT !.at = "no"]
    /\ LET wanted == {k \in Kits : Subscribes(row[k])}
           new == CHOOSE new \in Injection(wanted, Free) : TRUE IN
          /\ subs' = [k \in Kits |-> IF k \in wanted THEN new[k] ELSE None]
          /\ sub' = [o \in Objects |-> IF o \in Range(new)
                       THEN LET k == AntiFunction(new)[o] IN NewSubscriber(k, row[k])
                       ELSE sub[o]]
          /\ worker' = [o \in Objects |-> IF o \in Range(new) THEN NewWorker ELSE worker[o]]
    /\ UNCHANGED <<row, changing, prod, woken, exports, changes>>

Serving == closed.at # "boot"

-----------------------------------------------------------------------------
(* Registrations.                                                          *)

\* The row of a registration, or its deletion. Two of one Process at once are not modelled.
WriteRow(k) ==
    /\ k \in Movers /\ Serving /\ changing[k] = "no" /\ changes < MaxChanges
    /\ changes' = changes + 1
    /\ \/ \E p \in Registers[k] : /\ row' = [row EXCEPT ![k] = p]
                                  /\ changing' = [changing EXCEPT ![k] = "track"]
       \/ /\ row[k] # None
          /\ row' = [row EXCEPT ![k] = None]
          /\ changing' = [changing EXCEPT ![k] = "untrack"]
    /\ UNCHANGED <<subs, closed, sub, worker, prod, woken, exports>>

Stopped(o) == [sub EXCEPT ![o].stop = TRUE]

\* untrack: the entry goes and the worker is told, also when it is a registration that no longer
\* subscribes.
Untrack(k) ==
    /\ \/ changing[k] = "untrack"
       \/ changing[k] = "track" /\ ~Subscribes(row[k])
    /\ changing' = [changing EXCEPT ![k] = "no"]
    /\ subs' = [subs EXCEPT ![k] = None]
    /\ sub' = IF subs[k] # None THEN Stopped(subs[k]) ELSE sub
    /\ UNCHANGED <<row, closed, worker, prod, woken, exports, changes>>

\* track: the queue is of the endpoint, the owner and the privilege it was made for.
Track(k) ==
    /\ changing[k] = "track" /\ Subscribes(row[k])
    /\ changing' = [changing EXCEPT ![k] = "no"]
    /\ IF closed.at # "no" \/ (subs[k] # None /\ Same(sub[subs[k]].reg, row[k]))
       THEN UNCHANGED <<subs, sub, worker>>
       ELSE /\ Free # {}
            /\ LET o == CHOOSE o \in Free : TRUE IN
              /\ subs' = [subs EXCEPT ![k] = o]
              /\ sub' = [(IF subs[k] # None THEN Stopped(subs[k]) ELSE sub)
                            EXCEPT ![o] = NewSubscriber(k, row[k])]
              /\ worker' = [worker EXCEPT ![o] = NewWorker]
    /\ UNCHANGED <<row, closed, prod, woken, exports, changes>>

-----------------------------------------------------------------------------
(* A request that exports.                                                 *)

Goto(p, at) == prod' = [prod EXCEPT ![p].at = at]
Fixed == UNCHANGED <<row, changing, subs, closed, worker, woken, exports, changes>>

\* The export handler up to the store, which is one transaction: what a producer may have said
\* cannot change under it. An export that is refused or not stored ends here.
Insert(p) ==
    /\ Serving /\ prod[p].at = "idle"
    /\ p \in Kits => row[p] # None
    /\ \/ p \in Starters /\ exports < MaxExports /\ exports' = exports + 1 /\ UNCHANGED woken
       \/ p \in woken /\ woken' = woken \ {p} /\ UNCHANGED exports
    /\ \E recs \in Bodies(p) :
          prod' = [prod EXCEPT ![p] = [Idle EXCEPT !.at = "dispatch", !.recs = recs]]
    /\ UNCHANGED <<row, changing, subs, closed, sub, worker, changes>>

\* A Process that a delivery has woken calls a tool over /mcp: the kitbash-mcp of its session exports
\* the span over the socket, and the producer of what comes in there is the member.
CallsATool(k) ==
    /\ Serving /\ prod["session"].at = "idle"
    /\ k \in Talkers \cap woken /\ row[k] # None
    /\ woken' = woken \ {k}
    /\ prod' = [prod EXCEPT !["session"] =
                  [Idle EXCEPT !.at = "dispatch", !.recs = {[user |-> row[k].owner, internal |-> FALSE]}]]
    /\ UNCHANGED <<row, changing, subs, closed, sub, worker, exports, changes>>

\* A dispatch that keeps a record from the subscriber that wrote it, and from no other.
DispatchOneHop(p) ==
    /\ prod[p].at = "dispatch"
    /\ prod' = [prod EXCEPT ![p].at = "next",
                            ![p].todo = {subs[k] : k \in Kits \ {p}} \ {None}]
    /\ Fixed /\ UNCHANGED sub

\* dispatch: what a subscriber wrote goes to nobody, and everything else to the subscribers of now.
Dispatch(p) ==
    /\ prod[p].at = "dispatch"
    /\ prod' = [prod EXCEPT ![p] =
         IF p \in Kits /\ subs[p] # None THEN Idle
         ELSE [@ EXCEPT !.at = "next", !.todo = {subs[k] : k \in Kits} \ {None}]]
    /\ Fixed /\ UNCHANGED sub

To(p)     == sub[prod[p].to]
Mine(p)   == Part(To(p).reg, prod[p].recs)
Size(p)   == Cardinality(Mine(p))
Fits(o, size) == sub[o].held + size <= QueueBytes

\* The next subscriber of the snapshot: the part of the records it sees, and whether its budget has
\* room for them.
NextSubscriber(p) ==
    /\ prod[p].at = "next"
    /\ IF prod[p].todo = {} THEN prod' = [prod EXCEPT ![p] = Idle]
       ELSE \E o \in prod[p].todo :
              LET mine == Part(sub[o].reg, prod[p].recs) IN
              prod' = [prod EXCEPT ![p].todo = @ \ {o}, ![p].to = o,
                         ![p].at = IF mine = {} THEN "next"
                                   ELSE IF Fits(o, Cardinality(mine)) THEN "send" ELSE "evict"]
    /\ Fixed /\ UNCHANGED sub

Check(p) ==
    /\ prod[p].at = "check"
    /\ Goto(p, IF Fits(prod[p].to, Size(p)) THEN "send" ELSE "evict")
    /\ Fixed /\ UNCHANGED sub

\* One that waits for room.
SendBlocks(p) ==
    /\ prod[p].at = "send"
    /\ Len(To(p).queue) < QueueDepth
    /\ sub' = [sub EXCEPT ![prod[p].to].queue = Append(@, Mine(p))] /\ Goto(p, "add")
    /\ Fixed

\* The send that does not block.
Send(p) ==
    /\ prod[p].at = "send"
    /\ IF Len(To(p).queue) < QueueDepth
       THEN sub' = [sub EXCEPT ![prod[p].to].queue = Append(@, Mine(p))] /\ Goto(p, "add")
       ELSE UNCHANGED sub /\ Goto(p, "evict")
    /\ Fixed

AddHeld(p) ==
    /\ prod[p].at = "add"
    /\ sub' = [sub EXCEPT ![prod[p].to].held = @ + Size(p)]
    /\ Goto(p, "next")
    /\ Fixed

\* The oldest goes. With none left the worker has emptied the queue, or the request never fits.
Evict(p) ==
    /\ prod[p].at = "evict"
    /\ IF To(p).queue # <<>>
       THEN /\ sub' = [sub EXCEPT ![prod[p].to].queue = Tail(@)]
            /\ prod' = [prod EXCEPT ![p].at = "give", ![p].size = Cardinality(Head(To(p).queue))]
       ELSE UNCHANGED sub /\ Goto(p, "look")
    /\ Fixed

\* An eviction that keeps the bytes.
GiveNothing(p) ==
    /\ prod[p].at = "give"
    /\ prod' = [prod EXCEPT ![p].at = "check", ![p].size = 0]
    /\ Fixed /\ UNCHANGED sub

GiveBack(p) ==
    /\ prod[p].at = "give"
    /\ sub' = [sub EXCEPT ![prod[p].to].held = @ - prod[p].size]
    /\ prod' = [prod EXCEPT ![p].at = "check", ![p].size = 0]
    /\ Fixed

LookAgain(p) ==
    /\ prod[p].at = "look"
    /\ Goto(p, IF Fits(prod[p].to, Size(p)) THEN "check" ELSE "next")
    /\ Fixed /\ UNCHANGED sub

Export(p) ==
    \/ Dispatch(p) \/ NextSubscriber(p) \/ Check(p) \/ Send(p)
    \/ AddHeld(p) \/ Evict(p) \/ GiveBack(p) \/ LookAgain(p)

-----------------------------------------------------------------------------
(* The worker of a subscriber.                                             *)

Worker(o, at) == worker' = [worker EXCEPT ![o].at = at]
Others == UNCHANGED <<row, changing, subs, closed, prod, exports, changes>>

\* The select may take a request from the queue of a subscriber that is stopped.
Take(o) ==
    /\ worker[o].at = "wait" /\ sub[o].queue # <<>>
    /\ worker' = [worker EXCEPT ![o] = [at |-> "took", hand |-> Head(sub[o].queue)]]
    /\ sub' = [sub EXCEPT ![o].queue = Tail(@)]
    /\ Others /\ UNCHANGED woken

Release(o) ==
    /\ worker[o].at = "took"
    /\ sub' = [sub EXCEPT ![o].held = @ - Cardinality(worker[o].hand)]
    /\ Worker(o, "post")
    /\ Others /\ UNCHANGED woken

\* The Process answers, or does not within the timeout, or is stopped under the request.
Post(o) ==
    /\ worker[o].at = "post"
    /\ worker' = [worker EXCEPT ![o] = NewWorker]
    /\ woken' \in {woken, woken \cup {sub[o].id}}
    /\ Others /\ UNCHANGED sub

LeaveWorker(o) ==
    /\ worker[o].at = "wait" /\ sub[o].stop
    /\ Worker(o, "gone")
    /\ Others /\ UNCHANGED <<sub, woken>>

Work(o) == Take(o) \/ Release(o) \/ Post(o) \/ LeaveWorker(o)

-----------------------------------------------------------------------------
\* close: no subscriber is added from here, and every worker is told and waited for.
Close ==
    /\ closed.at = "no" /\ changes < MaxChanges
    /\ changes' = changes + 1
    /\ closed' = [at |-> "closing", wait |-> {subs[k] : k \in Kits} \ {None}]
    /\ subs' = [k \in Kits |-> None]
    /\ UNCHANGED <<row, changing, sub, worker, prod, woken, exports>>

CloseStops ==
    /\ closed.at = "closing"
    /\ closed' = [closed EXCEPT !.at = "waiting"]
    /\ sub' = [o \in Objects |-> IF o \in closed.wait THEN [sub[o] EXCEPT !.stop = TRUE] ELSE sub[o]]
    /\ UNCHANGED <<row, changing, subs, worker, prod, woken, exports, changes>>

CloseReturns ==
    /\ closed.at = "waiting" /\ \A o \in closed.wait : worker[o].at = "gone"
    /\ closed' = [closed EXCEPT !.at = "closed"]
    /\ UNCHANGED <<row, changing, subs, sub, worker, prod, woken, exports, changes>>

Next ==
    \/ Reload \/ Close \/ CloseStops \/ CloseReturns
    \/ \E k \in Kits : WriteRow(k) \/ Untrack(k) \/ Track(k) \/ CallsATool(k)
    \/ \E p \in Producers : Insert(p) \/ Export(p)
    \/ \E o \in Objects : Work(o)

\* Goroutines run; nobody has to export, register or close.
Fairness ==
    /\ WF_vars(CloseStops) /\ WF_vars(CloseReturns)
    /\ \A k \in Kits : WF_vars(Untrack(k)) /\ WF_vars(Track(k))
    /\ \A p \in Producers : WF_vars(Export(p))
    /\ \A o \in Objects : WF_vars(Work(o))

Spec == Init /\ [][Next]_vars /\ Fairness

-----------------------------------------------------------------------------
(* Properties.                                                             *)

\* What the sets of a family hold, each on its own, and how much that is.
Contents(f) == UNION {{x} \X f[x] : x \in DOMAIN f}
Count(f)    == Cardinality(Contents(f))

At(o, step)   == {p \in Producers : prod[p].at = step /\ prod[p].to = o}
Carried(o, step) == [p \in At(o, step) |-> Mine(p)]
Evicted(o)    == [p \in At(o, "give") |-> 1..prod[p].size]
Taken(o)      == IF worker[o].at = "took" THEN Cardinality(worker[o].hand) ELSE 0

\* The budget of a queue is what it holds, whatever order the two ends of it count in: nothing is
\* counted twice or forgotten, and what is over the budget is no more than what the other
\* producers had checked before the first of them added (enqueue, release).
HeldIsQueued ==
    \A o \in Objects :
       /\ sub[o].held = Count(sub[o].queue) + Taken(o) + Count(Evicted(o)) - Count(Carried(o, "add"))
       /\ Count(sub[o].queue) <= QueueBytes + Cardinality(Members) * (Cardinality(Producers) - 1)

Queued(o) == {sub[o].queue[i] : i \in DOMAIN sub[o].queue} \cup
             (IF worker[o].at \in {"took", "post"} THEN {worker[o].hand} ELSE {})

\* What waits for a Process, or is on its way to it, its owner could read in the store under the
\* registration the Process has now: a queue does not outlive a change of the owner or of the
\* privilege (sees, track and query agree).
DeliveredIsReadable ==
    \A k \in Kits : subs[k] # None /\ changing[k] = "no" =>
       \A recs \in Queued(subs[k]) :
          \A r \in recs : Readable(r, row[k])

\* A queue counts what it holds, and holds what its Process may read (fanout.go enqueue, sees).
QueuesAreTrue == HeldIsQueued /\ DeliveredIsReadable

Quiet == \A o \in Objects : sub[o].queue = <<>> \/ worker[o].at = "gone"

\* Deliveries end, as far as the rule of dispatch reaches: Processes that export what they make of
\* each delivery, over the receiver, do not wake one another for ever.
KitsDoNotLoop == []<><<\E k \in Kits : CallsATool(k)>>_vars \/ <>[]Quiet

\* "Stopping at the first hop is the only rule that terminates without kitbashd knowing what a kit
\* does with what it receives." Refuted: a kit that answers each delivery by a call over /mcp is
\* delivered the span of that call, whose producer is the member and no subscriber, and calls again.
StoppingAtTheFirstHopTerminates == <>[]Quiet

\* An export is answered whether or not a subscriber reads, also one that is stopped under it, and
\* the close of the daemon comes back (enqueue, work, close).
NobodyWaitsForAKit ==
    /\ []<>(prod["session"].at = "idle")
    /\ (closed.at = "closing") ~> (closed.at = "closed")

\* Deliveries come to an end, and nobody waits for one (fanout.go dispatch, enqueue, close).
DeliveriesEnd == KitsDoNotLoop /\ NobodyWaitsForAKit
=============================================================================
