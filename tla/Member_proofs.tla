---------------------------- MODULE Member_proofs ----------------------------
(***************************************************************************)
(* What a member is served, for every value of the constants: the tools of *)
(* the bridge and its client sessions, files and their versions, the calls *)
(* of a session and what is told of them, builds of a Package, what a      *)
(* manifest declares, and the records of the telemetry store.  Each part   *)
(* of Member has an invariant of its own, and a theorem is of the          *)
(* specification of the part it is about.                                  *)
(***************************************************************************)
EXTENDS Member, Sequences, FiniteSets, FiniteSetTheorems, SequenceTheorems, WellFoundedInduction, TLAPS

-----------------------------------------------------------------------------
\* What is left of a list after its head.
ItemsOf(s) == {s[k] : k \in DOMAIN s}
LEMMA RestOfAList ==
    ASSUME NEW S, NEW s \in Seq(S), s # << >>
    PROVE  /\ Head(s) \in S /\ Head(s) \in ItemsOf(s) /\ Tail(s) \in Seq(S)
           /\ ItemsOf(Tail(s)) \subseteq ItemsOf(s)
           /\ \A u \in ItemsOf(s) : u = Head(s) \/ u \in ItemsOf(Tail(s))
           /\ Len(s) = 1 => Tail(s) = << >>
           /\ Len(s) # 1 => Tail(s) # << >>
<1> DEFINE t == Tail(s)
<1>1. /\ Head(s) \in S /\ t \in Seq(S) /\ Len(t) = Len(s) - 1 /\ Head(s) = s[1] /\ Len(s) > 0
      /\ \A k \in 1..Len(t) : t[k] = s[k + 1]
    BY EmptySeq
<1>2. /\ ItemsOf(s) = {s[k] : k \in 1..Len(s)}
      /\ ItemsOf(t) = {t[k] : k \in 1..Len(t)}
    <2>1. DOMAIN s = 1..Len(s) /\ DOMAIN t = 1..Len(t)
        BY <1>1
    <2> QED
        BY <2>1 DEF ItemsOf
<1>3. \A k \in 1..Len(s) : k = 1 \/ (k - 1 \in 1..Len(t) /\ s[k] = t[k - 1])
    BY <1>1
<1>4. Len(t) = 0 <=> t = << >>
    BY <1>1, EmptySeq
<1> HIDE DEF t
<1>5. \A u \in ItemsOf(s) : u = Head(s) \/ u \in ItemsOf(t)
    <2>1. SUFFICES ASSUME NEW k \in 1..Len(s) PROVE s[k] = Head(s) \/ s[k] \in ItemsOf(t)
        BY <1>2
    <2> QED
        BY <1>1, <1>2, <1>3
<1>6. (Len(s) = 1 => t = << >>) /\ (Len(s) # 1 => t # << >>)
    BY <1>1, <1>4
<1>7. ItemsOf(t) \subseteq ItemsOf(s) /\ Head(s) \in ItemsOf(s)
    <2>1. SUFFICES ASSUME NEW k \in 1..Len(t) PROVE t[k] \in ItemsOf(s)
        BY <1>1, <1>2
    <2>2. k + 1 \in 1..Len(s)
        BY <1>1
    <2> QED
        BY <1>1, <1>2, <2>2
<1> QED
    BY <1>1, <1>5, <1>6, <1>7 DEF t

-----------------------------------------------------------------------------
\* Where a call of the agent is.
BridgeCalls ==
    {Bridge!Idle}
       \union [at : {"ran"}, id : Processes, replaced : SUBSET Processes]
       \union [at : {"add", "stopped", "session"}, id : Processes]
       \union [at : {"opened", "calling"}, id : Processes, session : Nat]
BridgeTyped ==
    /\ owners \in [Bridge!Names -> Processes \union {"none"}]
    /\ published \in [Processes -> SUBSET Bridge!Names]
    /\ sessions \in [Processes -> Nat] /\ opens \in Nat
    /\ bridging \in [Clients -> BridgeCalls]
Opening(c, s) == bridging[c].at = "opened" /\ bridging[c].session = s
BridgeInv == BridgeTyped /\ 0 \notin clients /\ Bridge!OneAnswersAName /\ Bridge!NoSessionIsLost

\* No Process is called what stands for none.
ProcessesAreSomebody == "none" \notin Processes

\* At first nothing is on the surface.
LEMMA BridgeInit == ProcessesAreSomebody /\ Bridge!Init => BridgeInv
  BY DEF ProcessesAreSomebody, Bridge!Init, BridgeInv, BridgeTyped, BridgeCalls, Bridge!OneAnswersAName,
         Bridge!NoSessionIsLost, Bridge!None, Bridge!Nobody, Bridge!Idle

\* What is closed is no longer open, and what is open is somebody's still if it is not taken from
\* the call that opens it.
LEMMA OthersStayOpen ==
    ASSUME BridgeInv, NEW c \in Clients, NEW i \in Processes, Bridge!Closed(i), bridging[c].at # "opened",
           NEW n \in BridgeCalls, bridging' = [bridging EXCEPT ![c] = n]
    PROVE  sessions' \in [Processes -> Nat] /\ 0 \notin clients' /\ Bridge!NoSessionIsLost'
<1>1. sessions' = [sessions EXCEPT ![i] = 0] /\ clients' = clients \ {sessions[i]}
    BY DEF Bridge!Closed, Bridge!Nobody
<1>2. SUFFICES ASSUME NEW s \in clients'
      PROVE  (\E j \in Processes : sessions'[j] = s) \/ (\E d \in Clients : bridging'[d].at = "opened" /\ bridging'[d].session = s)
    BY <1>1 DEF Bridge!NoSessionIsLost, BridgeInv, BridgeTyped
<1>3. s \in clients /\ s # sessions[i]
    BY <1>1
<1>4. CASE \E j \in Processes : sessions[j] = s
    BY <1>1, <1>3, <1>4 DEF BridgeInv, BridgeTyped
<1>5. CASE \E d \in Clients : bridging[d].at = "opened" /\ bridging[d].session = s
    BY <1>5 DEF BridgeInv, BridgeTyped
<1> QED
    BY <1>3, <1>4, <1>5 DEF BridgeInv, Bridge!NoSessionIsLost

\* A step that opens and closes nothing.
LEMMA NothingIsClosed ==
    ASSUME BridgeInv, NEW c \in Clients, bridging[c].at # "opened", NEW n \in BridgeCalls,
           bridging' = [bridging EXCEPT ![c] = n], UNCHANGED <<sessions, clients>>
    PROVE  sessions' \in [Processes -> Nat] /\ 0 \notin clients' /\ Bridge!NoSessionIsLost'
<1>1. SUFFICES ASSUME NEW s \in clients
      PROVE  (\E j \in Processes : sessions'[j] = s) \/ (\E d \in Clients : bridging'[d].at = "opened" /\ bridging'[d].session = s)
    BY DEF Bridge!NoSessionIsLost, BridgeInv, BridgeTyped
<1>2. CASE \E j \in Processes : sessions[j] = s
    BY <1>2
<1>3. CASE \E d \in Clients : bridging[d].at = "opened" /\ bridging[d].session = s
    BY <1>3 DEF BridgeInv, BridgeTyped
<1> QED
    BY <1>2, <1>3 DEF BridgeInv, Bridge!NoSessionIsLost

\* A Process that leaves the surface leaves all of it.
LEMMA LeavesTheSurface ==
    ASSUME BridgeInv, ProcessesAreSomebody, NEW i \in Processes, owners' = Bridge!Freed(i),
           published' = [published EXCEPT ![i] = {}]
    PROVE  /\ owners' \in [Bridge!Names -> Processes \union {"none"}] /\ published' \in [Processes -> SUBSET Bridge!Names]
           /\ Bridge!OneAnswersAName'
  BY DEF BridgeInv, BridgeTyped, ProcessesAreSomebody, Bridge!Freed, Bridge!None, Bridge!OneAnswersAName

\* One that joins it takes no name another answers.
LEMMA JoinsTheSurface ==
    ASSUME BridgeInv, ProcessesAreSomebody, NEW i \in Processes, published' = [published EXCEPT ![i] = Bridge!Joins(i)],
           owners' = [n \in Bridge!Names |-> IF n \in Bridge!Joins(i) THEN i ELSE Bridge!Freed(i)[n]]
    PROVE  /\ owners' \in [Bridge!Names -> Processes \union {"none"}] /\ published' \in [Processes -> SUBSET Bridge!Names]
           /\ Bridge!OneAnswersAName'
<1>1. Bridge!Joins(i) \subseteq Bridge!Names
    BY DEF Bridge!Joins, Bridge!Names
<1>2. \A n \in Bridge!Joins(i) : owners[n] = "none" \/ owners[n] = i
    BY DEF Bridge!Joins, Bridge!None
<1>3. \A n \in Bridge!Names : owners'[n] = IF n \in Bridge!Joins(i) THEN i ELSE IF owners[n] = i THEN "none" ELSE owners[n]
    BY DEF Bridge!Freed, Bridge!None
<1>4. \A j \in Processes : published'[j] = IF j = i THEN Bridge!Joins(i) ELSE published[j]
    BY DEF BridgeInv, BridgeTyped
<1>5. owners' \in [Bridge!Names -> Processes \union {"none"}]
    BY <1>3 DEF BridgeInv, BridgeTyped
<1>6. published' \in [Processes -> SUBSET Bridge!Names]
    BY <1>1 DEF BridgeInv, BridgeTyped
<1>7. \A j \in Processes, n \in Bridge!Names : n \in published'[j] <=> owners'[n] = j
    BY <1>2, <1>3, <1>4 DEF BridgeInv, Bridge!OneAnswersAName, ProcessesAreSomebody
<1> QED
    BY <1>5, <1>6, <1>7 DEF Bridge!OneAnswersAName

\* Every step of every call keeps the surface, the owners and the sessions in step.
LEMMA BridgeStep ==
    ASSUME ProcessesAreSomebody, BridgeInv, [Bridge!Next]_Bridge!vars PROVE BridgeInv'
<1>0. /\ \A c \in Clients : bridging[c] \in BridgeCalls
      /\ bridging \in [Clients -> BridgeCalls]
    BY DEF BridgeInv, BridgeTyped
<1>s. ASSUME UNCHANGED <<owners, published>>
      PROVE  /\ owners' \in [Bridge!Names -> Processes \union {"none"}] /\ published' \in [Processes -> SUBSET Bridge!Names]
             /\ Bridge!OneAnswersAName'
    BY <1>s DEF BridgeInv, BridgeTyped, Bridge!OneAnswersAName
<1>1. CASE UNCHANGED Bridge!vars
    BY <1>1 DEF Bridge!vars, BridgeInv, BridgeTyped, Bridge!OneAnswersAName, Bridge!NoSessionIsLost
<1>2. ASSUME NEW c \in Clients, Bridge!Step(c) PROVE BridgeInv'
    <2>0. bridging[c] \in BridgeCalls /\ Bridge!Idle.at = "idle" /\ Bridge!Idle \in BridgeCalls
        BY <1>0 DEF Bridge!Idle, BridgeCalls
    <2>k. ASSUME NEW n \in BridgeCalls, Bridge!Goes(c, n), bridging[c].at # "opened", UNCHANGED <<owners, published, sessions, clients, opens>>
          PROVE  BridgeInv'
        BY <1>0, <1>s, <2>k, NothingIsClosed DEF BridgeInv, BridgeTyped, Bridge!Goes
    <2>1. ASSUME NEW i \in Processes, Bridge!Run(c, i) PROVE BridgeInv'
        <3> DEFINE old == {j \in Processes : state[j] = "running" /\ PackageOf(j) = PackageOf(i)}
                   n == [at |-> "ran", id |-> i, replaced |-> old]
        <3>1. n \in BridgeCalls
            BY DEF BridgeCalls
        <3> QED
            BY <2>0, <2>1, <2>k, <3>1 DEF Bridge!Run
    <2>2. ASSUME NEW i \in Processes, Bridge!Stop(c, i) PROVE BridgeInv'
        <3>1. [at |-> "stopped", id |-> i] \in BridgeCalls
            BY DEF BridgeCalls
        <3> QED
            BY <2>0, <2>2, <2>k, <3>1 DEF Bridge!Stop
    <2>3. CASE Bridge!RemoveReplaced(c)
        <3> DEFINE n == [at |-> "add", id |-> bridging[c].id]
        <3>0. bridging[c].at = "ran" /\ bridging[c].id \in Processes /\ bridging[c].replaced \in SUBSET Processes /\ bridging' = [bridging EXCEPT ![c] = n] /\ opens' = opens
            BY <2>0, <2>3 DEF Bridge!RemoveReplaced, Bridge!Goes, BridgeCalls, Bridge!Idle
        <3>1. n \in BridgeCalls
            BY <3>0 DEF BridgeCalls
        <3> HIDE DEF n
        <3>2. ASSUME NEW j \in bridging[c].replaced, owners' = Bridge!Freed(j), published' = [published EXCEPT ![j] = {}],
                     Bridge!Closed(j)
              PROVE  BridgeInv'
            <4>1. j \in Processes
                BY <3>0
            <4> QED
                BY <1>0, <3>0, <3>1, <3>2, <4>1, LeavesTheSurface, OthersStayOpen DEF BridgeInv, BridgeTyped
        <3>3. CASE UNCHANGED <<published, owners, sessions, clients>>
            BY <2>k, <3>0, <3>1, <3>3 DEF Bridge!Goes
        <3> QED
            BY <2>3, <3>2, <3>3 DEF Bridge!RemoveReplaced
    <2>4. CASE Bridge!Add(c)
        <3>0. bridging[c].at = "add" /\ bridging[c].id \in Processes /\ bridging' = [bridging EXCEPT ![c] = Bridge!Idle] /\ opens' = opens
            BY <2>0, <2>4 DEF Bridge!Add, Bridge!Goes, BridgeCalls, Bridge!Idle
        <3>1. /\ owners' \in [Bridge!Names -> Processes \union {"none"}] /\ published' \in [Processes -> SUBSET Bridge!Names]
              /\ Bridge!OneAnswersAName'
            BY <2>4, <3>0, JoinsTheSurface DEF Bridge!Add
        <3>2. Bridge!Closed(bridging[c].id)
            BY <2>4 DEF Bridge!Add
        <3> QED
            BY <1>0, <2>0, <3>0, <3>1, <3>2, OthersStayOpen DEF BridgeInv, BridgeTyped
    <2>5. CASE Bridge!Remove(c)
        <3>0. bridging[c].at = "stopped" /\ bridging[c].id \in Processes /\ bridging' = [bridging EXCEPT ![c] = Bridge!Idle] /\ opens' = opens
            BY <2>0, <2>5 DEF Bridge!Remove, Bridge!Goes, BridgeCalls, Bridge!Idle
        <3>1. /\ owners' \in [Bridge!Names -> Processes \union {"none"}] /\ published' \in [Processes -> SUBSET Bridge!Names]
              /\ Bridge!OneAnswersAName'
            BY <2>5, <3>0, LeavesTheSurface DEF Bridge!Remove
        <3>2. Bridge!Closed(bridging[c].id)
            BY <2>5 DEF Bridge!Remove
        <3> QED
            BY <1>0, <2>0, <3>0, <3>1, <3>2, OthersStayOpen DEF BridgeInv, BridgeTyped
    <2>6. CASE Bridge!AddRefused(c)
        BY <2>0, <2>6, <2>k DEF Bridge!AddRefused
    <2>7. ASSUME NEW i \in Processes, Bridge!CallKit(c, PackageOf(i)) PROVE BridgeInv'
        <3>1. PICK j \in Processes : Bridge!Goes(c, [at |-> "session", id |-> j])
            BY <2>7 DEF Bridge!CallKit, Bridge!KitAt, Bridge!Kits
        <3>2. [at |-> "session", id |-> j] \in BridgeCalls
            BY DEF BridgeCalls
        <3> QED
            BY <2>0, <2>7, <2>k, <3>1, <3>2 DEF Bridge!CallKit
    <2>8. ASSUME NEW n \in Bridge!Names, Bridge!CallTool(c, n) PROVE BridgeInv'
        <3>1. owners[n] \in Processes
            BY <2>8 DEF Bridge!CallTool, BridgeInv, BridgeTyped, Bridge!None
        <3>2. [at |-> "session", id |-> owners[n]] \in BridgeCalls
            BY <3>1 DEF BridgeCalls
        <3> QED
            BY <2>0, <2>8, <2>k, <3>2 DEF Bridge!CallTool
    <2>9. CASE Bridge!Held(c)
        <3> DEFINE n == [at |-> "calling", id |-> bridging[c].id, session |-> sessions[bridging[c].id]]
        <3>0. bridging[c].at = "session" /\ bridging[c].id \in Processes
            BY <2>0, <2>9 DEF Bridge!Held, BridgeCalls, Bridge!Idle
        <3>1. n \in BridgeCalls
            BY <3>0 DEF BridgeCalls, BridgeInv, BridgeTyped
        <3> QED
            BY <2>9, <2>k, <3>0, <3>1 DEF Bridge!Held
    <2>10. CASE Bridge!ConnectFails(c)
        BY <2>0, <2>10, <2>k DEF Bridge!ConnectFails
    <2>11. CASE Bridge!Answered(c)
        BY <2>0, <2>11, <2>k DEF Bridge!Answered
    <2>12. CASE Bridge!Connect(c)
        <3> DEFINE n == [at |-> "opened", id |-> bridging[c].id, session |-> opens + 1]
        <3>0. bridging[c].at = "session" /\ bridging[c].id \in Processes /\ opens + 1 \in Nat
            BY <2>0, <2>12 DEF Bridge!Connect, BridgeCalls, Bridge!Idle, BridgeInv, BridgeTyped
        <3>1. n \in BridgeCalls /\ n.at = "opened" /\ n.session = opens + 1
            BY <3>0 DEF BridgeCalls
        <3>2. /\ bridging' = [bridging EXCEPT ![c] = n] /\ opens' = opens + 1 /\ clients' = clients \union {opens + 1}
              /\ UNCHANGED <<owners, published, sessions>>
            BY <2>12 DEF Bridge!Connect, Bridge!Goes
        <3> HIDE DEF n
        <3>3. Bridge!NoSessionIsLost'
            <4>1. SUFFICES ASSUME NEW s \in clients'
                  PROVE  (\E j \in Processes : sessions'[j] = s) \/ (\E d \in Clients : bridging'[d].at = "opened" /\ bridging'[d].session = s)
                BY DEF Bridge!NoSessionIsLost
            <4>2. CASE s = opens + 1
                BY <1>0, <3>1, <3>2, <4>2
            <4>3. CASE s \in clients
                BY <1>0, <3>0, <3>2, <4>3 DEF BridgeInv, Bridge!NoSessionIsLost
            <4> QED
                BY <3>2, <4>2, <4>3
        <3> QED
            BY <1>0, <1>s, <3>0, <3>1, <3>2, <3>3 DEF BridgeInv, BridgeTyped
    <2>13. CASE Bridge!Opened(c)
        <3> DEFINE i == bridging[c].id
                   k == bridging[c].session
        <3>0. bridging[c].at = "opened" /\ i \in Processes /\ k \in Nat
            BY <2>0, <2>13 DEF Bridge!Opened, BridgeCalls, Bridge!Idle
        <3>1. Bridge!Keep(i, k) /\ UNCHANGED <<owners, published, opens>>
            BY <2>13 DEF Bridge!Opened
        <3>2. /\ sessions' \in [Processes -> Nat]
              /\ \A j \in Processes : sessions[j] # 0 => sessions'[j] = sessions[j]
              /\ clients' \subseteq clients
              /\ k \in clients' => \E j \in Processes : sessions'[j] = k
            BY <3>0, <3>1 DEF Bridge!Keep, Bridge!Nobody, BridgeInv, BridgeTyped
        <3> DEFINE n == [at |-> "calling", id |-> i, session |-> sessions'[i]]
        <3>3. n \in BridgeCalls
            BY <3>0, <3>2 DEF BridgeCalls
        <3>4. bridging' = [bridging EXCEPT ![c] = n]
            BY <2>13 DEF Bridge!Opened, Bridge!Goes
        <3>5. Bridge!NoSessionIsLost'
            <4>1. SUFFICES ASSUME NEW s \in clients'
                  PROVE  (\E j \in Processes : sessions'[j] = s) \/ (\E d \in Clients : bridging'[d].at = "opened" /\ bridging'[d].session = s)
                BY DEF Bridge!NoSessionIsLost
            <4>2. CASE \E j \in Processes : sessions[j] = s
                BY <3>2, <4>2 DEF BridgeInv
            <4>3. CASE \E d \in Clients : bridging[d].at = "opened" /\ bridging[d].session = s
                BY <1>0, <3>2, <3>4, <4>3
            <4> QED
                BY <3>2, <4>2, <4>3 DEF BridgeInv, Bridge!NoSessionIsLost
        <3> QED
            BY <1>0, <1>s, <3>1, <3>2, <3>3, <3>4, <3>5 DEF BridgeInv, BridgeTyped
    <2>14. CASE Bridge!CallFails(c)
        <3>0. bridging[c].at = "calling" /\ bridging[c].id \in Processes /\ bridging' = [bridging EXCEPT ![c] = Bridge!Idle] /\ UNCHANGED <<owners, published, opens>>
            BY <2>0, <2>14 DEF Bridge!CallFails, Bridge!Goes, BridgeCalls, Bridge!Idle
        <3>1. Bridge!Closed(bridging[c].id)
            BY <2>14 DEF Bridge!CallFails
        <3> QED
            BY <1>0, <1>s, <2>0, <3>0, <3>1, OthersStayOpen DEF BridgeInv, BridgeTyped
    <2> QED
        BY <1>2, <2>1, <2>2, <2>3, <2>4, <2>5, <2>6, <2>7, <2>8, <2>9, <2>10, <2>11, <2>12, <2>13, <2>14 DEF Bridge!Step
<1> QED
    BY <1>1, <1>2 DEF Bridge!Next

\* One Process answers a name of the surface and no client session is left behind, however many runs, stops and calls of a bridge go on at once.
THEOREM OneSessionStays == ASSUME ProcessesAreSomebody PROVE Bridge!Spec => []OneSessionAnswers
<1>1. BridgeInv => OneSessionAnswers
    BY DEF BridgeInv, OneSessionAnswers
<1> QED
    BY <1>1, BridgeInit, BridgeStep, PTL DEF Bridge!Spec

-----------------------------------------------------------------------------
\* What the handlers answer, what an answer becomes on its way up, and what a span is closed with.
Outs == {"none", "ok", "problem", "internal", "panic", "error", "bare", "not-permitted"}
Statuses == Outs \union {"unset"}
Stages == {"down", "handler", "up", "answered"}
CallsOf == [at : Stages, layer : 0..4, tool : Asked, path : SUBSET Areas, list : SUBSET Areas, out : Outs,
            span : Statuses, acted : SUBSET Areas]
CausesOf == [tool : Asked \union {""}, from : Calls]

\* A call has its span open from the layer of spans down and back up to it; an answer that passed
\* the guard of problems is no panic, and one that passed the layer of spans is what its span says.
\* One that passed the layer of permissions names paths it may act on.
Spanning(r) == (r.at = "down" /\ r.layer > 1) \/ r.at = "handler" \/ (r.at = "up" /\ r.layer > 0)
Suits(r, granted) ==
    /\ r \in CallsOf
    /\ r.at = "down" => r.layer > 0
    /\ r.at = "up" => r.layer < 4
    /\ r.at = "up" /\ r.layer < 3 => r.out # "panic"
    /\ (r.at = "up" /\ r.layer = 0) \/ r.at = "answered" => r.span = r.out
    /\ r.path # {} \/ r.list # {} => r.tool \in Session!TakesPath
    /\ granted # Session!Member =>
          /\ r.acted \subseteq granted.paths
          /\ (r.at = "down" /\ r.layer > 2) \/ r.at = "handler" => r.path \union r.list \subseteq granted.paths
Begun(c) == asked[c] # Session!Idle
SessionInv ==
    /\ IsFiniteSet(open)
    /\ asked \in [Calls -> CallsOf \union {Session!Idle}]
    /\ causes \in Seq(CausesOf) /\ reports \in SUBSET CausesOf
    /\ \A c \in Calls : (c \in open <=> Begun(c) /\ Spanning(asked[c])) /\ (Begun(c) => Suits(asked[c], permits))
    /\ \A i \in reports \union Session!ToSet(causes) : Begun(i.from) /\ i.tool \in {"", asked[i.from].tool}

\* At first nothing is called.
LEMMA SessionInit == Session!Init => SessionInv
<1> SUFFICES ASSUME Session!Init PROVE SessionInv
    OBVIOUS
<1>1. IsFiniteSet({}) /\ Session!ToSet(<< >>) = {} /\ << >> \in Seq(CausesOf)
    BY FS_EmptySet DEF Session!ToSet
<1>2. \A c \in Calls : asked[c] = Session!Idle
    BY DEF Session!Init
<1> QED
    BY <1>1, <1>2 DEF Session!Init, SessionInv, Begun

\* What a step makes of the record of its call is such a record.
Edited(r, a, l, o, x) == [r EXCEPT !.at = a, !.layer = l, !.out = o, !.acted = x]
Turned(r, a, l, o) == [r EXCEPT !.at = a, !.layer = l, !.out = o]
Passing(r, l, o) == [r EXCEPT !.layer = l, !.out = o]
Spanned(r, l, s) == [r EXCEPT !.layer = l, !.span = s]
Entered(r, l) == [r EXCEPT !.layer = l]
Now(r, a) == [r EXCEPT !.at = a]
LEMMA AnEditedCall ==
    ASSUME NEW r \in CallsOf, NEW a \in Stages, NEW l \in 0..4, NEW o \in Outs, NEW x \in SUBSET Areas
    PROVE  LET n == Edited(r, a, l, o, x) IN
           /\ n \in CallsOf /\ n.at = a /\ n.layer = l /\ n.out = o /\ n.acted = x
           /\ n.tool = r.tool /\ n.path = r.path /\ n.list = r.list /\ n.span = r.span
<1>1. Edited(r, a, l, o, x) \in CallsOf
    BY DEF CallsOf, Edited
<1> QED
    BY <1>1 DEF CallsOf, Edited
LEMMA ATurnedCall ==
    ASSUME NEW r \in CallsOf, NEW a \in Stages, NEW l \in 0..4, NEW o \in Outs
    PROVE  LET n == Turned(r, a, l, o) IN
           /\ n \in CallsOf /\ n.at = a /\ n.layer = l /\ n.out = o /\ n.acted = r.acted
           /\ n.tool = r.tool /\ n.path = r.path /\ n.list = r.list /\ n.span = r.span
<1>1. Turned(r, a, l, o) \in CallsOf
    BY DEF CallsOf, Turned
<1> QED
    BY <1>1 DEF CallsOf, Turned
LEMMA APassingCall ==
    ASSUME NEW r \in CallsOf, NEW l \in 0..4, NEW o \in Outs
    PROVE  LET n == Passing(r, l, o) IN
           /\ n \in CallsOf /\ n.at = r.at /\ n.layer = l /\ n.out = o /\ n.acted = r.acted
           /\ n.tool = r.tool /\ n.path = r.path /\ n.list = r.list /\ n.span = r.span
<1>1. Passing(r, l, o) \in CallsOf
    BY DEF CallsOf, Passing
<1> QED
    BY <1>1 DEF CallsOf, Passing
LEMMA ASpannedCall ==
    ASSUME NEW r \in CallsOf, NEW l \in 0..4, NEW s \in Statuses
    PROVE  LET n == Spanned(r, l, s) IN
           /\ n \in CallsOf /\ n.at = r.at /\ n.layer = l /\ n.out = r.out /\ n.acted = r.acted
           /\ n.tool = r.tool /\ n.path = r.path /\ n.list = r.list /\ n.span = s
<1>1. Spanned(r, l, s) \in CallsOf
    BY DEF CallsOf, Spanned
<1> QED
    BY <1>1 DEF CallsOf, Spanned
LEMMA AnEnteredCall ==
    ASSUME NEW r \in CallsOf, NEW l \in 0..4
    PROVE  LET n == Entered(r, l) IN
           /\ n \in CallsOf /\ n.at = r.at /\ n.layer = l /\ n.out = r.out /\ n.acted = r.acted
           /\ n.tool = r.tool /\ n.path = r.path /\ n.list = r.list /\ n.span = r.span
<1>1. Entered(r, l) \in CallsOf
    BY DEF CallsOf, Entered
<1> QED
    BY <1>1 DEF CallsOf, Entered
LEMMA ACallNow ==
    ASSUME NEW r \in CallsOf, NEW a \in Stages
    PROVE  LET n == Now(r, a) IN
           /\ n \in CallsOf /\ n.at = a /\ n.layer = r.layer /\ n.out = r.out /\ n.acted = r.acted
           /\ n.tool = r.tool /\ n.path = r.path /\ n.list = r.list /\ n.span = r.span
<1>1. Now(r, a) \in CallsOf
    BY DEF CallsOf, Now
<1> QED
    BY <1>1 DEF CallsOf, Now

\* A queue with one more cause.
LEMMA OneMoreCause ==
    ASSUME NEW s \in Seq(CausesOf), NEW i \in CausesOf, NEW t, t = Append(s, i)
    PROVE  t \in Seq(CausesOf) /\ \A j \in Session!ToSet(t) : j \in Session!ToSet(s) \/ j = i
<1>1. /\ t \in Seq(CausesOf) /\ Len(t) = Len(s) + 1
      /\ \A k \in 1..Len(s) : t[k] = s[k]
      /\ t[Len(s) + 1] = i
    BY AppendProperties
<1>2. Session!ToSet(s) = {s[k] : k \in 1..Len(s)} /\ Session!ToSet(t) = {t[k] : k \in 1..Len(t)}
    BY <1>1 DEF Session!ToSet
<1>3. \A k \in 1..Len(t) : k \in 1..Len(s) \/ k = Len(s) + 1
    BY <1>1
<1> QED
    BY <1>1, <1>2, <1>3

\* A call that is not idle is a record of a call.
LEMMA BegunIsACall ==
    ASSUME SessionInv, NEW c \in Calls, asked[c].at # "idle"
    PROVE  Begun(c) /\ asked[c] \in CallsOf /\ Suits(asked[c], permits)
<1>1. Session!Idle.at = "idle"
    BY DEF Session!Idle
<1> QED
    BY <1>1 DEF SessionInv, Begun

\* What is queued and what is told is of the session.
LEMMA KnownCauses == ASSUME SessionInv PROVE \A i \in reports \union Session!ToSet(causes) : i \in CausesOf
<1>1. causes \in Seq(CausesOf) /\ reports \in SUBSET CausesOf
    BY DEF SessionInv
<1>2. \A k \in DOMAIN causes : causes[k] \in CausesOf
    BY <1>1
<1>3. Session!ToSet(causes) = {causes[k] : k \in DOMAIN causes}
    BY DEF Session!ToSet
<1> QED
    BY <1>1, <1>2, <1>3

\* One call that moves on, and keeps its name, keeps what the session knows of all of them.
LEMMA OneCallMoves ==
    ASSUME SessionInv, NEW c \in Calls, NEW n, Suits(n, permits), n # Session!Idle,
           Begun(c) => n.tool = asked[c].tool, asked' = [asked EXCEPT ![c] = n], permits' = permits, reports' = reports,
           \A d \in Calls \ {c} : d \in open' <=> d \in open,
           c \in open' <=> Spanning(n), IsFiniteSet(open'), causes' \in Seq(CausesOf),
           \A i \in Session!ToSet(causes') : i \in Session!ToSet(causes) \/ (i.from = c /\ i.tool \in {"", n.tool})
    PROVE  SessionInv'
<1>1. \A d \in Calls : asked'[d] = IF d = c THEN n ELSE asked[d]
    BY DEF SessionInv
<1>2. asked' \in [Calls -> CallsOf \union {Session!Idle}]
    BY DEF SessionInv, Suits
<1>3. ASSUME NEW d \in Calls
      PROVE  (d \in open' <=> Begun(d)' /\ Spanning(asked'[d])) /\ (Begun(d)' => Suits(asked'[d], permits'))
    <2>1. CASE d = c
        BY <1>1, <2>1 DEF Begun
    <2>2. CASE d # c
        BY <1>1, <2>2 DEF Begun, SessionInv
    <2> QED
        BY <2>1, <2>2
<1>4. ASSUME NEW i \in reports' \union Session!ToSet(causes')
      PROVE  Begun(i.from)' /\ i.tool \in {"", asked'[i.from].tool}
    <2>1. CASE i.from = c /\ i.tool \in {"", n.tool}
        BY <1>1, <2>1 DEF Begun
    <2>2. CASE i \in reports \union Session!ToSet(causes)
        <3>1. Begun(i.from) /\ i.tool \in {"", asked[i.from].tool}
            BY <2>2 DEF SessionInv
        <3>2. i \in CausesOf
            BY <2>2, KnownCauses
        <3>3. i.from \in Calls
            BY <3>2 DEF CausesOf
        <3> QED
            BY <1>1, <3>1, <3>3 DEF Begun
    <2> QED
        BY <2>1, <2>2
<1>5. (\A d \in Calls : (d \in open <=> Begun(d) /\ Spanning(asked[d])) /\ (Begun(d) => Suits(asked[d], permits)))'
    BY <1>3
<1>6. (\A i \in reports \union Session!ToSet(causes) : Begun(i.from) /\ i.tool \in {"", asked[i.from].tool})'
    BY <1>4 DEF Session!ToSet
<1>7. reports' \in SUBSET CausesOf
    BY DEF SessionInv
<1> QED
    BY <1>2, <1>5, <1>6, <1>7 DEF SessionInv

\* A cause that is raised while its own span is open names its call or none.
LEMMA RaisedNamesItsCall ==
    ASSUME SessionInv, NEW c \in Calls, c \in open, Session!Raise(c)
    PROVE  /\ causes' \in Seq(CausesOf)
           /\ \A i \in Session!ToSet(causes') : i \in Session!ToSet(causes) \/ (i.from = c /\ i.tool \in {"", asked[c].tool})
<1> DEFINE i == [tool |-> Session!Tool, from |-> c]
<1>1. asked[c] \in CallsOf
    BY DEF SessionInv, Suits, Begun
<1>2. Session!Cardinality(open) = Cardinality(open)
    BY DEF Session!Cardinality, Cardinality
<1>3. Cardinality(open) = 1 => open = {c}
    <2>1. IsFiniteSet(open)
        BY DEF SessionInv
    <2> QED
        BY <2>1, FS_Singleton
<1>4. Session!Tool \in {"", asked[c].tool}
    BY <1>2, <1>3 DEF Session!Tool
<1>5. i \in CausesOf /\ i.from = c /\ i.tool \in {"", asked[c].tool}
    BY <1>1, <1>4 DEF CausesOf, CallsOf
<1> HIDE DEF i
<1>6. causes \in Seq(CausesOf)
    BY DEF SessionInv
<1>7. CASE causes' = causes
    BY <1>6, <1>7
<1>8. CASE causes' = Append(causes, i)
    <2>1. /\ causes' \in Seq(CausesOf)
          /\ \A j \in Session!ToSet(causes') : j \in Session!ToSet(causes) \/ j = i
        BY <1>5, <1>6, <1>8, OneMoreCause
    <2> QED
        BY <1>5, <2>1
<1> QED
    BY <1>7, <1>8 DEF Session!Raise, i

\* A handler that answers.
LEMMA AnswerMoves ==
    ASSUME SessionInv, NEW c \in Calls, asked[c].at = "handler", NEW out \in Outs, NEW acted \in SUBSET Areas,
           Session!Answer(c, out, acted), permits # Session!Member => acted \subseteq permits.paths,
           UNCHANGED causes \/ Session!Raise(c), UNCHANGED <<permits, open, reports>>
    PROVE  SessionInv'
<1> DEFINE r == asked[c]
           n == Edited(r, "up", 3, out, acted)
<1>1. Begun(c) /\ r \in CallsOf /\ Suits(r, permits) /\ c \in open
    BY BegunIsACall DEF SessionInv, Spanning
<1>2. asked' = [asked EXCEPT ![c] = n]
    <2>1. Len(Session!Layers) = 3
        BY DEF Session!Layers
    <2> QED
        BY <1>1, <2>1 DEF Session!Answer, SessionInv, Edited
<1>3. /\ n \in CallsOf /\ n.at = "up" /\ n.layer = 3 /\ n.tool = r.tool
      /\ n.acted = acted /\ n.path = r.path /\ n.list = r.list
    <2>1. "up" \in Stages /\ 3 \in 0..4
        BY DEF Stages
    <2> QED
        BY <1>1, <2>1, AnEditedCall
<1> HIDE DEF n
<1>4. Suits(n, permits) /\ Spanning(n) /\ n # Session!Idle
    BY <1>1, <1>3 DEF Suits, Spanning, Session!Idle
<1>5. /\ causes' \in Seq(CausesOf)
      /\ \A i \in Session!ToSet(causes') : i \in Session!ToSet(causes) \/ (i.from = c /\ i.tool \in {"", n.tool})
    BY <1>1, <1>3, RaisedNamesItsCall DEF SessionInv
<1>6. IsFiniteSet(open') /\ open' = open
    BY DEF SessionInv
<1> QED
    BY <1>1, <1>2, <1>3, <1>4, <1>5, <1>6, OneCallMoves

\* The ways a handler ends.
LEMMA EndsMoves ==
    ASSUME SessionInv, NEW c \in Calls, asked[c].at = "handler", NEW acted \in SUBSET Areas,
           Session!Ends(c, acted), permits # Session!Member => acted \subseteq permits.paths,
           UNCHANGED <<permits, open, reports>>
    PROVE  SessionInv'
<1>1. PICK out \in Outs : Session!Answer(c, out, acted) /\ (UNCHANGED causes \/ Session!Raise(c))
    BY DEF Session!Ends, Outs
<1> QED
    BY <1>1, AnswerMoves

\* A step of one call that raises nothing, and opens or closes no span but its own.
LEMMA QuietlyMoves ==
    ASSUME SessionInv, NEW c \in Calls, Begun(c), NEW n \in CallsOf, Suits(n, permits), n.tool = asked[c].tool,
           asked' = [asked EXCEPT ![c] = n], UNCHANGED <<permits, causes, reports>>,
           \/ open' = open /\ (Spanning(n) <=> Spanning(asked[c]))
           \/ open' = open \union {c} /\ Spanning(n)
           \/ open' = open \ {c} /\ ~Spanning(n)
    PROVE  SessionInv'
<1>1. IsFiniteSet(open) /\ IsFiniteSet(open')
    <2>1. IsFiniteSet(open)
        BY DEF SessionInv
    <2>2. IsFiniteSet(open \union {c}) /\ IsFiniteSet(open \ {c})
        BY <2>1, FS_AddElement, FS_RemoveElement
    <2> QED
        BY <2>1, <2>2
<1>2. n # Session!Idle
    <2>1. n.at \in Stages /\ Session!Idle.at = "idle" /\ "idle" \notin Stages
        BY DEF CallsOf, Session!Idle, Stages
    <2> QED
        BY <2>1
<1>3. c \in open' <=> Spanning(n)
    BY DEF SessionInv
<1>4. causes' \in Seq(CausesOf) /\ Session!ToSet(causes') = Session!ToSet(causes)
    BY DEF SessionInv, Session!ToSet
<1> QED
    BY <1>1, <1>2, <1>3, <1>4, OneCallMoves

\* Down the layers.
LEMMA DownMoves == ASSUME SessionInv, NEW c \in Calls, Session!Down(c) PROVE SessionInv'
<1> DEFINE r == asked[c]
           l == r.layer
<1>0. Begun(c) /\ r \in CallsOf /\ Suits(r, permits) /\ r.at = "down" /\ UNCHANGED <<permits, causes, reports>>
    BY BegunIsACall DEF Session!Down
<1>1. l \in 0..4 /\ asked \in [Calls -> CallsOf \union {Session!Idle}]
    <2>1. l \in 0..4
        BY <1>0 DEF CallsOf
    <2> QED
        BY <2>1 DEF SessionInv
<1>2. /\ Len(Session!Layers) = 3 /\ Session!Layers[1] = "tracing" /\ Session!Layers[2] = "permits"
      /\ Session!Layers[3] = "problem"
    BY DEF Session!Layers
<1>s. "handler" \in Stages /\ "up" \in Stages /\ "not-permitted" \in Outs /\ 1 \in 0..4
    BY DEF Stages, Outs
<1>3. CASE l > 3 /\ asked' = [asked EXCEPT ![c].at = "handler"] /\ open' = open
    <2>1. asked' = [asked EXCEPT ![c] = Now(r, "handler")]
        BY <1>1, <1>3 DEF Now
    <2>2. LET n == Now(r, "handler") IN
          n \in CallsOf /\ Suits(n, permits) /\ n.tool = r.tool /\ Spanning(n) /\ Spanning(r)
        BY <1>0, <1>1, <1>3, <1>s, ACallNow DEF Suits, Spanning
    <2> QED
        BY <1>0, <1>3, <2>1, <2>2, QuietlyMoves
<1>4. CASE l = 1 /\ Session!StartTool(c) /\ Session!Enter(c, 2)
    <2>1. asked' = [asked EXCEPT ![c] = Entered(r, 2)] /\ open' = open \union {c}
        BY <1>1, <1>4 DEF Entered, Session!Enter, Session!StartTool
    <2>2. LET n == Entered(r, 2) IN n \in CallsOf /\ Suits(n, permits) /\ n.tool = r.tool /\ Spanning(n)
        BY <1>0, <1>1, <1>4, AnEnteredCall DEF Suits, Spanning
    <2> QED
        BY <1>0, <2>1, <2>2, QuietlyMoves
<1>5. CASE l = 2 /\ open' = open
    <2>1. CASE /\ permits # Session!Member /\ ~Session!Permitted(c)
               /\ asked' = [asked EXCEPT ![c].at = "up", ![c].layer = 1, ![c].out = "not-permitted"]
        <3>1. asked' = [asked EXCEPT ![c] = Turned(r, "up", 1, "not-permitted")]
            BY <1>1, <2>1 DEF Turned
        <3> DEFINE n == Turned(r, "up", 1, "not-permitted")
        <3>2. /\ n \in CallsOf /\ n.at = "up" /\ n.layer = 1 /\ n.out = "not-permitted" /\ n.acted = r.acted
              /\ n.tool = r.tool /\ n.path = r.path /\ n.list = r.list
            <4>1. r \in CallsOf
                BY <1>0
            <4> HIDE DEF r
            <4> QED
                BY <4>1, <1>s, ATurnedCall
        <3> HIDE DEF n
        <3>3. Suits(n, permits) /\ Spanning(n) /\ Spanning(r)
            BY <1>0, <1>5, <3>2 DEF Suits, Spanning
        <3> QED
            BY <1>0, <1>5, <3>1, <3>2, <3>3, QuietlyMoves DEF n
    <2>2. CASE (permits = Session!Member \/ Session!Permitted(c)) /\ Session!Enter(c, 3)
        <3>1. asked' = [asked EXCEPT ![c] = Entered(r, 3)]
            BY <1>1, <2>2 DEF Entered, Session!Enter
        <3>2. permits # Session!Member => r.path \union r.list \subseteq permits.paths
            BY <1>0, <2>2 DEF Session!Permitted, Session!Named, Suits
        <3>3. LET n == Entered(r, 3) IN
              n \in CallsOf /\ Suits(n, permits) /\ n.tool = r.tool /\ Spanning(n) /\ Spanning(r)
            BY <1>0, <1>1, <1>5, <3>2, AnEnteredCall DEF Suits, Spanning
        <3> QED
            BY <1>0, <1>5, <3>1, <3>3, QuietlyMoves
    <2> QED
        BY <1>0, <1>1, <1>2, <1>5, <2>1, <2>2 DEF Session!Down, Session!Narrowed
<1>6. CASE l = 3 /\ Session!Enter(c, 4) /\ open' = open
    <2>1. asked' = [asked EXCEPT ![c] = Entered(r, 4)]
        BY <1>1, <1>6 DEF Entered, Session!Enter
    <2>2. LET n == Entered(r, 4) IN
          n \in CallsOf /\ Suits(n, permits) /\ n.tool = r.tool /\ Spanning(n) /\ Spanning(r)
        BY <1>0, <1>1, <1>6, AnEnteredCall DEF Suits, Spanning
    <2> QED
        BY <1>0, <1>6, <2>1, <2>2, QuietlyMoves
<1>7. l \in {1, 2, 3, 4}
    BY <1>0, <1>1 DEF Suits
<1> QED
    BY <1>1, <1>2, <1>3, <1>4, <1>5, <1>6, <1>7 DEF Session!Down

\* Up the layers.
LEMMA UpMoves == ASSUME SessionInv, NEW c \in Calls, Session!Up(c) PROVE SessionInv'
<1> DEFINE r == asked[c]
           l == r.layer
<1>0. Begun(c) /\ r \in CallsOf /\ Suits(r, permits) /\ r.at = "up" /\ UNCHANGED <<permits, reports>>
    BY BegunIsACall DEF Session!Up
<1>1. l \in 0..4 /\ r.out \in Outs /\ asked \in [Calls -> CallsOf \union {Session!Idle}]
    <2>1. l \in 0..4 /\ r.out \in Outs
        BY <1>0 DEF CallsOf
    <2> QED
        BY <2>1 DEF SessionInv
<1>2. /\ Session!Layers[1] = "tracing" /\ Session!Layers[2] = "permits" /\ Session!Layers[3] = "problem"
    BY DEF Session!Layers
<1>s. /\ "answered" \in Stages /\ 0 \in 0..4 /\ 2 \in 0..4 /\ Session!Status(r.out) \in Statuses
      /\ Session!Guarded(r.out) \in Outs /\ Session!Guarded(r.out) # "panic"
    BY <1>1 DEF Stages, Statuses, Outs, Session!Status, Session!Guarded
<1>3. CASE l = 0 /\ asked' = [asked EXCEPT ![c].at = "answered"] /\ UNCHANGED <<open, causes>>
    <2>1. asked' = [asked EXCEPT ![c] = Now(r, "answered")]
        BY <1>1, <1>3 DEF Now
    <2>2. LET n == Now(r, "answered") IN
          n \in CallsOf /\ Suits(n, permits) /\ n.tool = r.tool /\ ~Spanning(n) /\ ~Spanning(r)
        BY <1>0, <1>1, <1>3, <1>s, ACallNow DEF Suits, Spanning
    <2> QED
        BY <1>0, <1>3, <2>1, <2>2, QuietlyMoves
<1>4. CASE l = 1 /\ asked' = [asked EXCEPT ![c].layer = 0, ![c].span = Session!Status(r.out)] /\ Session!End(c) /\ UNCHANGED causes
    <2> DEFINE n == Spanned(r, 0, Session!Status(r.out))
    <2>1. asked' = [asked EXCEPT ![c] = n] /\ open' = open \ {c}
        BY <1>1, <1>4 DEF Spanned, Session!End
    <2>2. /\ n \in CallsOf /\ n.at = "up" /\ n.layer = 0 /\ n.out = r.out /\ n.acted = r.acted
          /\ n.tool = r.tool /\ n.path = r.path /\ n.list = r.list /\ n.span = Session!Status(r.out)
        <3>1. r \in CallsOf /\ r.at = "up" /\ 0 \in 0..4 /\ Session!Status(r.out) \in Statuses
            BY <1>0, <1>s
        <3> HIDE DEF r
        <3> QED
            BY ZenonT(60), <3>1, ASpannedCall
    <2> HIDE DEF n
    <2>3. Session!Status(r.out) = r.out /\ r.out # "panic"
        BY <1>0, <1>4 DEF Session!Status, Suits
    <2>4. Suits(n, permits) /\ ~Spanning(n)
        BY <1>0, <2>2, <2>3 DEF Suits, Spanning
    <2> QED
        BY <1>0, <1>4, <2>1, <2>2, <2>4, QuietlyMoves
<1>5. CASE l = 2 /\ Session!Enter(c, 1) /\ UNCHANGED <<open, causes>>
    <2>1. asked' = [asked EXCEPT ![c] = Entered(r, 1)]
        BY <1>1, <1>5 DEF Entered, Session!Enter
    <2>2. LET n == Entered(r, 1) IN
          n \in CallsOf /\ Suits(n, permits) /\ n.tool = r.tool /\ Spanning(n) /\ Spanning(r)
        BY <1>0, <1>1, <1>5, AnEnteredCall DEF Suits, Spanning
    <2> QED
        BY <1>0, <1>5, <2>1, <2>2, QuietlyMoves
<1>6. CASE /\ l = 3 /\ asked' = [asked EXCEPT ![c].layer = 2, ![c].out = Session!Guarded(r.out)]
           /\ UNCHANGED causes \/ Session!Raise(c)
           /\ UNCHANGED open
    <2> DEFINE n == Passing(r, 2, Session!Guarded(r.out))
    <2>1. asked' = [asked EXCEPT ![c] = n]
        BY <1>1, <1>6 DEF Passing
    <2>2. /\ n \in CallsOf /\ n.at = "up" /\ n.layer = 2 /\ n.out = Session!Guarded(r.out) /\ n.acted = r.acted
          /\ n.tool = r.tool /\ n.path = r.path /\ n.list = r.list
        <3> DEFINE o == Session!Guarded(r.out)
        <3>1. r \in CallsOf /\ 2 \in 0..4 /\ o \in Outs
            BY <1>0, <1>s
        <3> HIDE DEF r, o
        <3>2. LET m == Passing(r, 2, o) IN
              /\ m \in CallsOf /\ m.at = r.at /\ m.layer = 2 /\ m.out = o /\ m.acted = r.acted
              /\ m.tool = r.tool /\ m.path = r.path /\ m.list = r.list
            BY <3>1, APassingCall
        <3> QED
            BY <1>0, <3>2 DEF r, o
    <2> HIDE DEF n
    <2>3. Suits(n, permits) /\ Spanning(n) /\ Spanning(r) /\ n # Session!Idle
        <3>1. Session!Idle.at = "idle"
            BY DEF Session!Idle
        <3> QED
            BY <1>0, <1>s, <1>6, <2>2, <3>1 DEF Suits, Spanning
    <2>4. c \in open /\ IsFiniteSet(open') /\ open' = open
        BY <1>0, <1>6, <2>3 DEF SessionInv
    <2>5. /\ causes' \in Seq(CausesOf)
          /\ \A i \in Session!ToSet(causes') : i \in Session!ToSet(causes) \/ (i.from = c /\ i.tool \in {"", n.tool})
        BY <1>6, <2>2, <2>4, RaisedNamesItsCall DEF SessionInv
    <2> QED
        BY <1>0, <2>1, <2>2, <2>3, <2>4, <2>5, OneCallMoves
<1>7. l \in {0, 1, 2, 3}
    BY <1>0, <1>1 DEF Suits
<1> QED
    BY <1>1, <1>2, <1>3, <1>4, <1>5, <1>6, <1>7 DEF Session!Up

\* A call begins.
LEMMA BeginMoves == ASSUME SessionInv, NEW c \in Calls, Session!Begin(c) PROVE SessionInv'
<1>1. PICK t \in Asked, p \in SUBSET Areas, q \in SUBSET Areas :
        /\ p # {} => t \in Session!TakesPath
        /\ q # {} => t = "fs_write"
        /\ asked' = [asked EXCEPT ![c] = [at |-> "down", layer |-> 1, tool |-> t, path |-> p, list |-> q,
                                        out |-> "none", span |-> "none", acted |-> {}]]
    BY DEF Session!Begin
<1> DEFINE n == [at |-> "down", layer |-> 1, tool |-> t, path |-> p, list |-> q,
                 out |-> "none", span |-> "none", acted |-> {}]
<1>2. "none" \in Outs /\ "none" \in Statuses /\ "down" \in Stages /\ 1 \in 0..4 /\ {} \in SUBSET Areas
    BY DEF Outs, Statuses, Stages
<1>3. n \in CallsOf
    BY <1>2 DEF CallsOf
<1>4. n.at = "down" /\ n.layer = 1 /\ n.tool = t /\ n.path = p /\ n.list = q /\ n.out = "none" /\ n.acted = {}
    OBVIOUS
<1>5. asked' = [asked EXCEPT ![c] = n]
    BY <1>1
<1> HIDE DEF n
<1>6. Suits(n, permits)
    BY <1>1, <1>3, <1>4 DEF Suits, Session!TakesPath
<1>7. Session!Idle.at = "idle" /\ asked[c] = Session!Idle
    BY DEF Session!Idle, Session!Begin
<1>8. n # Session!Idle /\ ~Begun(c) /\ ~Spanning(n)
    BY <1>4, <1>7 DEF Begun, Spanning
<1>9. /\ IsFiniteSet(open') /\ causes' \in Seq(CausesOf) /\ Session!ToSet(causes') = Session!ToSet(causes)
      /\ open' = open /\ c \notin open /\ permits' = permits /\ reports' = reports
    <2>1. open' = open /\ permits' = permits /\ reports' = reports /\ causes' = causes
        BY DEF Session!Begin
    <2>2. IsFiniteSet(open) /\ causes \in Seq(CausesOf) /\ c \notin open
        BY <1>8 DEF SessionInv
    <2> QED
        BY <2>1, <2>2 DEF Session!ToSet
<1> QED
    BY <1>5, <1>6, <1>8, <1>9, OneCallMoves

\* A cause is told, or lost on the way.
LEMMA ReportMoves == ASSUME SessionInv, Session!Report PROVE SessionInv'
<1>1. causes \in Seq(CausesOf) /\ causes # << >> /\ causes' = Tail(causes) /\ UNCHANGED <<permits, asked, open>>
    BY DEF SessionInv, Session!Report
<1>2. Head(causes) \in Session!ToSet(causes)
    <2>1. 1 \in DOMAIN causes /\ Head(causes) = causes[1]
        BY <1>1
    <2> QED
        BY <2>1 DEF Session!ToSet
<1>3. causes' \in Seq(CausesOf) /\ Session!ToSet(causes') \subseteq Session!ToSet(causes)
    <2>1. causes' \in Seq(CausesOf) /\ Len(causes') = Len(causes) - 1 /\ \A k \in 1..Len(causes') : causes'[k] = causes[k + 1]
        BY <1>1
    <2>2. Session!ToSet(causes) = {causes[k] : k \in 1..Len(causes)} /\ Session!ToSet(causes') = {causes'[k] : k \in 1..Len(causes')}
        <3>1. DOMAIN causes = 1..Len(causes) /\ DOMAIN causes' = 1..Len(causes')
            BY <1>1, <2>1
        <3> QED
            BY <3>1 DEF Session!ToSet
    <2>3. \A k \in 1..Len(causes') : k + 1 \in 1..Len(causes)
        BY <1>1, <2>1
    <2> QED
        BY <2>1, <2>2, <2>3
<1>4. reports' \subseteq reports \union {Head(causes)}
    BY DEF Session!Report
<1>5. \A i \in reports' \union Session!ToSet(causes') : i \in reports \union Session!ToSet(causes)
    BY <1>2, <1>3, <1>4
<1>6. reports' \in SUBSET CausesOf
    BY <1>2, <1>4, KnownCauses
<1>7. \A i \in reports' \union Session!ToSet(causes') : Begun(i.from)' /\ i.tool \in {"", asked'[i.from].tool}
    BY <1>1, <1>5 DEF SessionInv, Begun
<1>8. (\A i \in reports \union Session!ToSet(causes) : Begun(i.from) /\ i.tool \in {"", asked[i.from].tool})'
    BY <1>7 DEF Session!ToSet
<1> QED
    BY <1>1, <1>3, <1>6, <1>8 DEF SessionInv, Begun

\* Every step of every call keeps what the session knows of its calls.
LEMMA SessionStep == ASSUME SessionInv, [Session!Next]_Session!vars PROVE SessionInv'
<1>1. ASSUME UNCHANGED <<permits, asked, open, causes, reports>> PROVE SessionInv'
    <2>1. Session!ToSet(causes)' = Session!ToSet(causes)
        BY <1>1 DEF Session!ToSet
    <2>2. \A c : Begun(c)' <=> Begun(c)
        BY <1>1 DEF Begun
    <2> QED
        BY <1>1, <2>1, <2>2 DEF SessionInv
<1>2. CASE UNCHANGED Session!vars \/ Session!Publish \/ Session!Shutdown
    BY <1>1, <1>2 DEF Session!vars, Session!Publish, Session!Shutdown
<1>3. CASE Session!Report
    BY <1>3, ReportMoves
<1>4. ASSUME NEW c \in Calls, Session!Unfit(c) \/ Session!Write(c) \/ Session!Serve(c) \/ Session!Forward(c)
                              \/ Session!Approve(c) \/ Session!Proxied(c)
      PROVE  SessionInv'
    <2>1. asked[c].at = "handler" /\ UNCHANGED <<permits, open, reports>>
        BY <1>4 DEF Session!Unfit, Session!Write, Session!Serve, Session!Forward, Session!Approve, Session!Proxied
    <2>2. asked[c] \in CallsOf /\ Suits(asked[c], permits)
        BY <2>1, BegunIsACall
    <2>3. asked[c].path \in SUBSET Areas /\ asked[c].list \in SUBSET Areas
        BY <2>2 DEF CallsOf
    <2>4. permits # Session!Member => asked[c].path \union asked[c].list \subseteq permits.paths
        BY <2>1, <2>2 DEF Suits
    <2>s. {} \in SUBSET Areas /\ {"error", "bare", "ok", "problem", "internal"} \subseteq Outs
        BY DEF Outs
    <2>5. CASE Session!Unfit(c)
        <3>1. PICK out \in {"error", "bare"} : Session!Answer(c, out, {}) /\ UNCHANGED causes
            BY <2>5 DEF Session!Unfit
        <3> QED
            BY <2>1, <2>s, <3>1, AnswerMoves
    <2>6. CASE Session!Write(c)
        <3>1. CASE Session!Answer(c, "problem", {}) /\ UNCHANGED causes
            BY <2>1, <2>s, <3>1, AnswerMoves
        <3>2. CASE Session!Ends(c, asked[c].path \union asked[c].list)
            BY <2>1, <2>3, <2>4, <3>2, EndsMoves
        <3> QED
            BY <2>6, <3>1, <3>2 DEF Session!Write
    <2>7. CASE Session!Serve(c)
        <3>1. Session!Ends(c, asked[c].path)
            BY <2>7 DEF Session!Serve
        <3> QED
            BY <2>1, <2>3, <2>4, <3>1, EndsMoves
    <2>8. CASE Session!Forward(c)
        <3>1. PICK reply \in Session!Replies :
                /\ Session!Answer(c, Session!Passed(reply), {})
                /\ UNCHANGED causes \/ Session!Raise(c)
            BY <2>8 DEF Session!Forward
        <3>2. Session!Passed(reply) \in Outs
            BY <3>1 DEF Session!Replies, Session!Passed, Outs
        <3> QED
            BY <2>1, <2>s, <3>1, <3>2, AnswerMoves
    <2>9. CASE Session!Approve(c)
        <3>1. CASE Session!Ends(c, {})
            BY <2>1, <2>s, <3>1, EndsMoves
        <3>2. ASSUME NEW queued \in SUBSET Areas, Session!permittedApproval(queued), Session!Ends(c, queued)
              PROVE  SessionInv'
            BY <2>1, <3>2, EndsMoves DEF Session!permittedApproval, Session!Narrowed
        <3> QED
            BY <2>9, <3>1, <3>2 DEF Session!Approve
    <2>10. CASE Session!Proxied(c)
        <3>1. Session!Ends(c, {})
            BY <2>10 DEF Session!Proxied
        <3> QED
            BY <2>1, <2>s, <3>1, EndsMoves
    <2> QED
        BY <1>4, <2>5, <2>6, <2>7, <2>8, <2>9, <2>10
<1> QED
    BY <1>2, <1>3, <1>4, BeginMoves, DownMoves, UpMoves DEF Session!Next

\* An internal cause names the call that failed and the span of a call tells its answer, whatever calls begin, end and fail side by side.
THEOREM CallsStayTold == Session!Spec => []CallsAreTold
<1>1. SessionInv => CallsAreTold
    <2> SUFFICES ASSUME SessionInv PROVE CallsAreTold
        OBVIOUS
    <2>1. Session!CauseNamesItsCall
        BY DEF SessionInv, Session!CauseNamesItsCall
    <2>2. ASSUME NEW c \in Calls, asked[c].at = "answered" PROVE asked[c].span = asked[c].out
        BY <2>2, BegunIsACall DEF Suits
    <2> QED
        BY <2>1, <2>2 DEF CallsAreTold, Session!SpansTellTheAnswers
<1> QED
    BY <1>1, SessionInit, SessionStep, PTL DEF Session!Spec

\* A Process acts on no path outside the prefixes its Package declared, by no entry of a list and
\* by approving nothing that somebody queued.
LEMMA PrefixesHold == Session!Spec => []Session!NothingOutsideThePrefixes
<1>1. SessionInv => Session!NothingOutsideThePrefixes
    BY DEF SessionInv, Suits, Begun, Session!NothingOutsideThePrefixes, Session!Narrowed
<1> QED
    BY <1>1, SessionInit, SessionStep, PTL DEF Session!Spec

-----------------------------------------------------------------------------
\* What a manifest declares is a list of units and never an empty one.
ManifestsListUnits == \A s \in BuildShapes : s.units \in Seq(Packages!Range(s.units)) /\ s.units # << >>

\* The units of a Package, the images of its store, and where a call is.
UnitsOf(s) == Packages!Range(s.units)
ImagesOf(s) == [unit : UnitsOf(s) \union {FaceUnit}, commit : Nat, bytes : Nat]
BuildSteps == {"idle", "source", "head", "build", "kit", "answered", "built", "choose", "call", "write"}
BuildsOf(s) == [at : BuildSteps, commit : Nat, left : Seq(UnitsOf(s))]
Trees == [bytes : Nat, commits : Seq(Nat), by : {"nobody", "write", "import"}]

\* An image of the unit for the commit is in the store.
BuiltFor(st, u, n) == \E i \in DOMAIN st : st[i].unit = u /\ st[i].commit = n

\* A call that builds has units left, and an image of every other for the commit it asked for; one
\* that has built without a builder has an image of every unit.  Only a builder is waited for.
Builds(k, s, st) ==
    /\ k.at = "build" =>
          /\ k.left # << >>
          /\ \A u \in UnitsOf(s) : u \in ItemsOf(k.left) \/ BuiltFor(st, u, k.commit)
    /\ s.builder = "none" =>
          /\ k.at \notin {"kit", "answered"}
          /\ k.at = "built" => \A u \in UnitsOf(s) : BuiltFor(st, u, k.commit)
PackagesInv ==
    /\ shape \in BuildShapes /\ tree \in Trees
    /\ store \in Seq(ImagesOf(shape))
    /\ building \in [Builders -> BuildsOf(shape)]
    /\ \A c \in Builders : Builds(building[c], shape, store)

\* A store only gains images.
LEMMA StoresGain ==
    ASSUME NEW S, NEW st \in Seq(S), NEW i \in S, NEW u, NEW n
    PROVE  /\ BuiltFor(st, u, n) => BuiltFor(Append(st, i), u, n)
           /\ i.unit = u /\ i.commit = n => BuiltFor(Append(st, i), u, n)
<1> DEFINE t == Append(st, i)
<1>1. /\ t \in Seq(S) /\ Len(t) = Len(st) + 1
      /\ \A k \in 1..Len(st) : t[k] = st[k]
      /\ t[Len(st) + 1] = i
    BY AppendProperties
<1>2. DOMAIN st = 1..Len(st) /\ DOMAIN t = 1..Len(t)
    BY <1>1
<1> HIDE DEF t
<1>3. BuiltFor(st, u, n) => BuiltFor(t, u, n)
    BY <1>1, <1>2 DEF BuiltFor
<1>4. i.unit = u /\ i.commit = n => BuiltFor(t, u, n)
    BY <1>1, <1>2 DEF BuiltFor
<1> QED
    BY <1>3, <1>4 DEF t

\* One call that moves on while the store only gains images.
LEMMA OneBuildMoves ==
    ASSUME PackagesInv, NEW c \in Builders, NEW n \in BuildsOf(shape), building' = [building EXCEPT ![c] = n],
           shape' = shape, tree' \in Trees, store' \in Seq(ImagesOf(shape)),
           \A u, m : BuiltFor(store, u, m) => BuiltFor(store', u, m), Builds(n, shape, store')
    PROVE  PackagesInv'
<1>1. \A d \in Builders : building'[d] = IF d = c THEN n ELSE building[d]
    BY DEF PackagesInv
<1>2. \A d \in Builders : Builds(building[d], shape, store) => Builds(building[d], shape, store')
    BY DEF Builds
<1>3. \A d \in Builders : Builds(building'[d], shape', store')
    BY <1>1, <1>2 DEF PackagesInv
<1> QED
    BY <1>3 DEF PackagesInv

\* One that moves on while nothing else does.
LEMMA OnlyTheCallMoves ==
    ASSUME PackagesInv, NEW c \in Builders, NEW n \in BuildsOf(shape), building' = [building EXCEPT ![c] = n],
           UNCHANGED <<shape, tree, store>>, Builds(n, shape, store)
    PROVE  PackagesInv'
  BY OneBuildMoves DEF PackagesInv

\* At first nothing is built.
LEMMA PackagesInit == Packages!Init => PackagesInv
<1> SUFFICES ASSUME Packages!Init PROVE PackagesInv
    OBVIOUS
<1>1. << >> \in Seq(Nat) /\ << >> \in Seq(ImagesOf(shape)) /\ << >> \in Seq(UnitsOf(shape))
    OBVIOUS
<1>2. tree \in Trees
    BY <1>1 DEF Packages!Init, Packages!Absent, Trees
<1>3. Packages!Idle \in BuildsOf(shape) /\ Packages!Idle.at = "idle"
    BY <1>1 DEF Packages!Idle, BuildsOf, BuildSteps
<1>4. building = [c \in Builders |-> Packages!Idle]
    BY DEF Packages!Init
<1> QED
    BY <1>1, <1>2, <1>3, <1>4 DEF Packages!Init, PackagesInv, Builds

\* Every step of every build keeps that what is left is all that is missing.
LEMMA PackagesStep ==
    ASSUME ManifestsListUnits, PackagesInv, [Packages!Next]_Packages!vars PROVE PackagesInv'
<1>0. /\ shape \in BuildShapes /\ tree \in Trees /\ store \in Seq(ImagesOf(shape))
      /\ building \in [Builders -> BuildsOf(shape)]
      /\ shape.units \in Seq(UnitsOf(shape)) /\ shape.units # << >>
      /\ tree.bytes \in Nat /\ tree.commits \in Seq(Nat) /\ Packages!HeadCommit \in Nat
    BY DEF PackagesInv, ManifestsListUnits, UnitsOf, Trees, Packages!HeadCommit
<1>1. ASSUME UNCHANGED <<shape, store, building>>, tree' \in Trees PROVE PackagesInv'
    BY <1>1 DEF PackagesInv
<1>2. CASE UNCHANGED Packages!vars \/ Packages!StopKit \/ Packages!Run
    BY <1>0, <1>1, <1>2 DEF Packages!vars, Packages!StopKit, Packages!Run
<1>3. CASE Packages!Write
    <2> DEFINE b == tree.bytes + 1
               by == IF tree.by = "nobody" THEN "write" ELSE tree.by
    <2>0. b \in Nat /\ by \in {"nobody", "write", "import"}
        BY <1>0 DEF Trees
    <2>2. tree' = [tree EXCEPT !.bytes = b, !.by = by]
        BY <1>3 DEF Packages!Write
    <2> HIDE DEF b, by
    <2>1. tree' \in Trees
        BY <1>0, <2>0, <2>2 DEF Trees
    <2> QED
        BY <1>1, <1>3, <2>1 DEF Packages!Write
<1>4. CASE Packages!Commit
    <2>1. Append(tree.commits, tree.bytes) \in Seq(Nat)
        BY <1>0
    <2>2. tree' \in Trees
        BY <1>0, <1>4, <2>1 DEF Packages!Commit, Trees
    <2> QED
        BY <1>1, <1>4, <2>2 DEF Packages!Commit
<1>5. ASSUME NEW c \in Builders,
             \/ Packages!Build(c) \/ Packages!Source(c) \/ Packages!AskHead(c) \/ Packages!BuildUnit(c)
             \/ Packages!BuildWithKit(c) \/ Packages!KitBuilt(c) \/ Packages!Answer(c)
             \/ Packages!Import(c) \/ Packages!Accept(c) \/ Packages!CallKit(c) \/ Packages!WriteFiles(c)
      PROVE  PackagesInv'
    <2> DEFINE r == building[c]
    <2>0. r \in BuildsOf(shape) /\ r.at \in BuildSteps /\ r.commit \in Nat /\ r.left \in Seq(UnitsOf(shape))
          /\ Builds(r, shape, store)
        BY <1>0 DEF PackagesInv, BuildsOf
    <2>i. Packages!Idle \in BuildsOf(shape) /\ Builds(Packages!Idle, shape, store) /\ Builds(Packages!Idle, shape, store')
        <3>1. << >> \in Seq(UnitsOf(shape))
            OBVIOUS
        <3>2. Packages!Idle.at = "idle"
            BY DEF Packages!Idle
        <3>3. Packages!Idle \in BuildsOf(shape)
            BY <3>1 DEF Packages!Idle, BuildsOf, BuildSteps
        <3> QED
            BY <3>2, <3>3 DEF Builds
    <2>a. ASSUME Packages!Refuse(c) PROVE PackagesInv'
        BY <2>a, <2>i, OnlyTheCallMoves DEF Packages!Refuse, Packages!Goes
    <2>b. ASSUME NEW step \in BuildSteps \ {"build", "built", "kit", "answered"}, Packages!Steps(c, step) PROVE PackagesInv'
        <3> DEFINE n == [r EXCEPT !.at = step]
        <3>1. n \in BuildsOf(shape) /\ n.at = step
            BY <2>0 DEF BuildsOf
        <3>2. building' = [building EXCEPT ![c] = n] /\ UNCHANGED <<shape, tree, store>>
            BY <2>b DEF Packages!Steps, Packages!Goes
        <3> HIDE DEF n
        <3>3. Builds(n, shape, store)
            BY <3>1 DEF Builds
        <3> QED
            BY <3>1, <3>2, <3>3, OnlyTheCallMoves
    <2>s. {"source", "head", "choose", "call", "write"} \subseteq BuildSteps \ {"build", "built", "kit", "answered"}
          /\ {"build", "built", "kit", "answered"} \subseteq BuildSteps
        BY DEF BuildSteps
    <2>1. CASE Packages!Build(c)
        BY <2>1, <2>b, <2>s DEF Packages!Build
    <2>2. CASE Packages!Source(c)
        BY <2>2, <2>a, <2>b, <2>s DEF Packages!Source
    <2>3. CASE Packages!AskHead(c)
        <3> DEFINE step == IF shape.builder = "none" THEN "build" ELSE "kit"
                   n == [r EXCEPT !.at = step, !.commit = Packages!HeadCommit, !.left = shape.units]
        <3>1. CASE /\ building' = [building EXCEPT ![c] = n] /\ UNCHANGED <<shape, tree, store>>
            <4>1. step \in BuildSteps
                BY <2>s
            <4>2. n \in BuildsOf(shape) /\ n.at = step /\ n.left = shape.units
                <5> HIDE DEF step
                <5> QED
                    BY <1>0, <2>0, <4>1 DEF BuildsOf
            <4> HIDE DEF n
            <4>3. ItemsOf(n.left) = UnitsOf(shape)
                BY <4>2 DEF UnitsOf, Packages!Range, ItemsOf
            <4>4. Builds(n, shape, store)
                BY <1>0, <4>2, <4>3 DEF Builds
            <4> QED
                BY <3>1, <4>2, <4>4, OnlyTheCallMoves
        <3> QED
            BY <2>3, <2>a, <3>1 DEF Packages!AskHead, Packages!Goes
    <2>4. CASE Packages!BuildUnit(c)
        <3> DEFINE unit == Head(r.left)
                   made == Packages!Image(unit, r.commit, tree.bytes)
                   step == IF Len(r.left) = 1 THEN "built" ELSE "build"
                   n == [r EXCEPT !.left = Tail(@), !.at = step]
        <3>1. CASE Packages!Goes(c, Packages!Idle) /\ UNCHANGED <<tree, shape, store>>
            BY <2>i, <3>1, OnlyTheCallMoves DEF Packages!Goes
        <3>2. CASE store' = Append(store, made) /\ building' = [building EXCEPT ![c] = n] /\ UNCHANGED <<tree, shape>>
            <4>0. r.at = "build" /\ r.left # << >>
                BY <2>0, <2>4 DEF Packages!BuildUnit, Packages!At, Builds
            <4>1. /\ unit \in UnitsOf(shape) /\ Tail(r.left) \in Seq(UnitsOf(shape))
                  /\ \A u \in ItemsOf(r.left) : u = unit \/ u \in ItemsOf(Tail(r.left))
                  /\ Len(r.left) = 1 => Tail(r.left) = << >>
                  /\ Len(r.left) # 1 => Tail(r.left) # << >>
                BY <2>0, <4>0, RestOfAList
            <4>2. made \in ImagesOf(shape) /\ made.unit = unit /\ made.commit = r.commit
                BY <1>0, <2>0, <4>1 DEF ImagesOf, Packages!Image
            <4>3. store' \in Seq(ImagesOf(shape)) /\ \A u, m : BuiltFor(store, u, m) => BuiltFor(store', u, m)
                BY <1>0, <3>2, <4>2, StoresGain
            <4>4. BuiltFor(store', unit, r.commit)
                BY <1>0, <3>2, <4>2, StoresGain
            <4>5. step \in BuildSteps
                BY <2>s
            <4>6. n \in BuildsOf(shape) /\ n.at = step /\ n.left = Tail(r.left) /\ n.commit = r.commit
                <5> HIDE DEF step
                <5> QED
                    BY <2>0, <4>1, <4>5 DEF BuildsOf
            <4> HIDE DEF n
            <4>7. \A u \in UnitsOf(shape) : u \in ItemsOf(n.left) \/ BuiltFor(store', u, n.commit)
                BY <2>0, <4>0, <4>1, <4>3, <4>4, <4>6 DEF Builds
            <4>8. n.left = << >> => ItemsOf(n.left) = {}
                BY DEF ItemsOf
            <4>9. Builds(n, shape, store')
                <5>1. CASE Len(r.left) = 1
                    BY <4>1, <4>6, <4>7, <4>8, <5>1 DEF Builds
                <5>2. CASE Len(r.left) # 1
                    BY <4>1, <4>6, <4>7, <5>2 DEF Builds
                <5> QED
                    BY <5>1, <5>2
            <4> QED
                BY <3>2, <1>0, <4>3, <4>6, <4>9, OneBuildMoves
        <3> QED
            BY <2>4, <3>1, <3>2 DEF Packages!BuildUnit, Packages!Goes
    <2>5. CASE Packages!BuildWithKit(c)
        <3> DEFINE made == Packages!Image(FaceUnit, r.commit, tree.bytes)
                   n == [r EXCEPT !.at = "answered"]
        <3>0. r.at = "kit" /\ shape.builder # "none"
            BY <2>0, <2>5 DEF Packages!BuildWithKit, Packages!At, Builds
        <3>1. CASE Packages!Goes(c, Packages!Idle) /\ UNCHANGED <<tree, shape, store>>
            BY <2>i, <3>1, OnlyTheCallMoves DEF Packages!Goes
        <3>2. CASE /\ store' = Append(store, made) \/ store' = store
                   /\ building' = [building EXCEPT ![c] = n] /\ UNCHANGED <<tree, shape>>
            <4>1. made \in ImagesOf(shape)
                BY <1>0, <2>0 DEF ImagesOf, Packages!Image
            <4>2. store' \in Seq(ImagesOf(shape)) /\ \A u, m : BuiltFor(store, u, m) => BuiltFor(store', u, m)
                <5> HIDE DEF made
                <5>1. CASE store' = Append(store, made)
                    BY <1>0, <4>1, <5>1, StoresGain
                <5>2. CASE store' = store
                    BY <1>0, <5>2
                <5> QED
                    BY <3>2, <5>1, <5>2
            <4>3. n \in BuildsOf(shape) /\ n.at = "answered"
                BY <2>0, <2>s DEF BuildsOf
            <4> HIDE DEF n
            <4>4. Builds(n, shape, store')
                BY <3>0, <4>3 DEF Builds
            <4> QED
                BY <3>2, <1>0, <4>2, <4>3, <4>4, OneBuildMoves
        <3> QED
            BY <2>5, <2>a, <3>1, <3>2 DEF Packages!BuildWithKit, Packages!Goes
    <2>6. CASE Packages!KitBuilt(c)
        <3> DEFINE n == [r EXCEPT !.at = "built", !.left = << >>]
        <3>0. r.at = "answered" /\ shape.builder # "none"
            BY <2>0, <2>6 DEF Packages!KitBuilt, Packages!At, Builds
        <3>1. building' = [building EXCEPT ![c] = n] /\ UNCHANGED <<tree, shape, store>>
            BY <2>6 DEF Packages!KitBuilt, Packages!Goes
        <3>2. n \in BuildsOf(shape) /\ n.at = "built"
            <4>1. << >> \in Seq(UnitsOf(shape))
                OBVIOUS
            <4> QED
                BY <2>0, <2>s, <4>1 DEF BuildsOf
        <3> HIDE DEF n
        <3>3. Builds(n, shape, store)
            BY <3>0, <3>2 DEF Builds
        <3> QED
            BY <3>1, <3>2, <3>3, OnlyTheCallMoves
    <2>7. CASE Packages!Answer(c)
        BY <2>7, <2>a DEF Packages!Answer
    <2>8. CASE Packages!Import(c)
        BY <2>8, <2>b, <2>s DEF Packages!Import
    <2>9. CASE Packages!Accept(c)
        BY <2>9, <2>a, <2>b, <2>s DEF Packages!Accept
    <2>10. CASE Packages!CallKit(c)
        BY <2>10, <2>a, <2>b, <2>s DEF Packages!CallKit
    <2>11. CASE Packages!WriteFiles(c)
        <3>1. tree' = [bytes |-> tree.bytes + 1, by |-> "import", commits |-> Append(tree.commits, tree.bytes + 1)]
            BY <2>11 DEF Packages!WriteFiles
        <3>2. Append(tree.commits, tree.bytes + 1) \in Seq(Nat) /\ tree.bytes + 1 \in Nat
            BY <1>0
        <3>3. tree' \in Trees
            BY <3>1, <3>2 DEF Trees
        <3> QED
            BY <1>0, <2>11, <2>i, <3>3, OneBuildMoves DEF Packages!WriteFiles, Packages!Goes
    <2> QED
        BY <1>5, <2>1, <2>2, <2>3, <2>4, <2>5, <2>6, <2>7, <2>8, <2>9, <2>10, <2>11
<1> QED
    BY <1>2, <1>3, <1>4, <1>5 DEF Packages!Next

\* A version of a Package is answered only with all of its units built, however many sessions write it, build it and run it at once, and whatever build fails.
THEOREM AnswersStayWhole == ASSUME ManifestsListUnits PROVE Packages!Spec => []AnswerIsWhole
<1>1. PackagesInv => AnswerIsWhole
    BY DEF PackagesInv, Builds, BuiltFor, AnswerIsWhole,
       Packages!AnswerIsWhole, Packages!At, Packages!Units, UnitsOf
<1> QED
    BY <1>1, PackagesInit, PackagesStep, PTL DEF Packages!Spec

-----------------------------------------------------------------------------
\* A write names at least one path, and what it writes is no accident.
Forms == {"one", "list", "import"}
ShapesOfWrites == [form : Forms, paths : Seq(Paths), content : Contents, queued : BOOLEAN]
WritesNamePaths == Shapes \subseteq ShapesOfWrites /\ \A s \in Shapes : s.paths # << >>

\* Where a write is, and what it remembers.
Bytes == Contents \union {NoContent, Torn}
Folders == [Paths -> Bytes]
Working == {"repo", "sha", "snapshot", "write", "stage", "staged", "commit", "read", "rollback", "restore"}
WritesOf == [at : Files!Ended \union Working, shape : ShapesOfWrites \union {Files!NoShape}, expects : Int,
             before : Nat, left : Seq(Paths), marks : Folders, staged : BOOLEAN, made : Nat, sha : Nat,
             unreset : BOOLEAN, stuck : SUBSET Paths,
             was : [disk : Folders, head : Folders, index : Folders], apart : BOOLEAN]
Top(trees) == IF trees = << >> THEN Files!Nothing ELSE trees[Len(trees)]
FilesOf(r) == Files!Range(r.shape.paths)

\* What a write has still to do; one that is not under way names nothing.
Underway(r) ==
    /\ r.at \notin Working => r.shape = Files!NoShape
    /\ r.at \in Working =>
          /\ r.shape \in Shapes
          /\ Files!Range(r.left) \subseteq FilesOf(r)
          /\ r.at \in {"repo", "sha", "snapshot"} => r.left = r.shape.paths
          /\ r.at = "write" => r.left # << >>
          /\ r.at \notin {"read", "rollback", "restore"} => r.made = 0
          /\ r.at \in {"snapshot", "rollback", "restore"} => r.shape.form = "list"

\* What a path of a write that no other write shares holds on disk, in the head and in the index.
Kept(r, p, d, h, i) ==
    /\ r.at \in {"repo", "sha", "snapshot"} => d = r.was.disk[p]
    /\ r.at \in {"repo", "sha", "snapshot", "write", "stage"} => i = r.was.index[p]
    /\ r.made = 0 => h = r.was.head[p]
    /\ r.at \notin {"repo", "sha", "snapshot"} /\ r.shape.form = "list" => r.marks[p] = r.was.disk[p]
    /\ r.at = "write" /\ p \notin Files!Range(r.left) => d = r.shape.content
    /\ r.at \in {"stage", "staged", "commit", "read"} => d = r.shape.content
    /\ r.at \in {"staged", "commit", "read"} => i = r.shape.content
    /\ r.at = "read" => h = r.shape.content
    /\ r.at = "rollback" /\ ~r.staged => i = r.was.index[p]
    /\ r.at = "restore" /\ ~r.unreset => i \in {h, r.was.index[p]}
Alone(r, dk, hd, ix) == r.at \in Working /\ r.apart => \A p \in FilesOf(r) : Kept(r, p, dk[p], hd[p], ix[p])

\* Two writes that are under way share no path with one that is apart.
Apart(r, s) == r.at \in Working /\ s.at \in Working /\ r.apart => FilesOf(r) \cap FilesOf(s) = {}
FilesInv ==
    /\ disk \in Folders /\ index \in Folders /\ repo \in [made : BOOLEAN, trees : Seq(Folders)]
    /\ writing \in [Writers -> WritesOf]
    /\ \A c \in Writers : Underway(writing[c]) /\ Alone(writing[c], disk, Top(repo.trees), index)
    /\ \A c, d \in Writers : c # d => Apart(writing[c], writing[d])

\* The head is the tree of the last commit.
LEMMA HeadIsTop ==
    /\ Files!HeadTree = Top(repo.trees)
    /\ (Files!HeadTree)' = Top(repo'.trees)
  BY DEF Files!HeadTree, Top, Files!Last, Files!Nothing
LEMMA TopIsAFolder == ASSUME NEW trees \in Seq(Folders), Files!Nothing \in Folders PROVE Top(trees) \in Folders
<1>1. CASE trees = << >>
    BY <1>1 DEF Top
<1>2. CASE trees # << >>
    <2>1. Len(trees) \in 1..Len(trees)
        BY <1>2
    <2> QED
        BY <1>2, <2>1 DEF Top
<1> QED
    BY <1>1, <1>2
LEMMA NothingIsAFolder == Files!Nothing \in Folders
  BY DEF Files!Nothing, Folders, Bytes

\* A set of numbers that is not empty has a least one, and one of positions a greatest one.
Below == {pair \in Nat \X Nat : pair[1] < pair[2]}
LEMMA LeastOfThem == ASSUME NEW T \in SUBSET Nat, T # {} PROVE \E x \in T : \A y \in T : x <= y
<1>1. IsWellFoundedOn(Below, Nat)
    BY NatLessThanWellFounded DEF OpToRel, Below
<1>2. \A a, b \in Nat : <<b, a>> \notin Below => a <= b
    <2>1. \A a, b \in Nat : b < a => <<b, a>> \in Below
        BY DEF Below
    <2> QED
        BY <2>1
<1>3. PICK x \in T : \A y \in T : ~(<<y, x>> \in Below)
    BY <1>1, WFMin
<1> QED
    BY <1>2, <1>3
LEMMA GreatestPosition ==
    ASSUME NEW n \in Nat, NEW S \in SUBSET (1..n), S # {} PROVE \E m \in S : \A k \in S : m >= k
<1> DEFINE R == {k \in Nat : n - k \in S}
<1>1. \A x \in S : n - x \in R
    OBVIOUS
<1>2. R \in SUBSET Nat /\ R # {}
    BY <1>1
<1>3. PICK k \in R : \A j \in R : k <= j
    BY <1>2, LeastOfThem
<1>4. \A x \in S : k <= n - x
    BY <1>1, <1>3
<1>5. n - k \in S /\ k \in Nat
    BY <1>3
<1> HIDE DEF R
<1>6. \A x \in S : n - k >= x
    <2>1. SUFFICES ASSUME NEW x \in S PROVE n - k >= x
        OBVIOUS
    <2>2. k <= n - x /\ x \in Nat
        BY <1>4
    <2> QED
        BY <1>5, <2>2
<1> QED
    BY <1>5, <1>6

\* The newest commit that touched a path is a place in the history.
LEMMA LastCommitIsNat == ASSUME repo.trees \in Seq(Folders), NEW p PROVE Files!LastCommit(p) \in Nat
<1> DEFINE n == Len(repo.trees)
           touched == {i \in 1..n : repo.trees[i][p] # Files!Before(i)[p]}
           newest == CHOOSE x \in touched : \A k \in touched : x >= k
<1>1. n \in Nat /\ touched \in SUBSET (1..n)
    OBVIOUS
<1>2. Files!LastCommit(p) = IF touched = {} THEN 0 ELSE newest
    BY DEF Files!LastCommit, Files!HeadSha, Files!Max
<1>3. CASE touched = {}
    BY <1>2, <1>3
<1>4. CASE touched # {}
    <2> HIDE DEF touched, n
    <2>1. \E x \in touched : \A k \in touched : x >= k
        BY <1>1, <1>4, GreatestPosition
    <2>2. newest \in touched
        BY <2>1
    <2> HIDE DEF newest
    <2> QED
        BY <1>1, <1>2, <1>4, <2>2
<1> QED
    BY <1>3, <1>4

\* The paths of a write are paths.
LEMMA PathsArePaths == ASSUME NEW r \in WritesOf PROVE FilesOf(r) \subseteq Paths /\ r.left \in Seq(Paths) /\ r.shape.paths \in Seq(Paths)
<1>1. r.shape \in ShapesOfWrites \union {Files!NoShape} /\ r.left \in Seq(Paths)
    BY DEF WritesOf
<1>2. Files!NoShape.paths = << >> /\ << >> \in Seq(Paths)
    BY DEF Files!NoShape
<1>3. r.shape.paths \in Seq(Paths)
    BY <1>1, <1>2 DEF ShapesOfWrites
<1> QED
    BY <1>1, <1>3 DEF FilesOf, Files!Range

\* One write that moves on, and touches nothing outside its paths, disturbs no other.
LEMMA OneWriteMoves ==
    ASSUME FilesInv, NEW c \in Writers, NEW n \in WritesOf, writing' = [writing EXCEPT ![c] = n],
           disk' \in Folders, index' \in Folders, repo' \in [made : BOOLEAN, trees : Seq(Folders)],
           Underway(n), Alone(n, disk', Top(repo'.trees), index'),
           n.at \in Working => /\ writing[c].at \in Working /\ n.apart = writing[c].apart
                               /\ FilesOf(n) = FilesOf(writing[c]),
           UNCHANGED <<disk, index, repo>> \/ writing[c].at \in Working,
           \A p \in Paths \ FilesOf(writing[c]) :
              disk'[p] = disk[p] /\ index'[p] = index[p] /\ Top(repo'.trees)[p] = Top(repo.trees)[p]
    PROVE  FilesInv'
<1>1. \A d \in Writers : writing'[d] = IF d = c THEN n ELSE writing[d]
    BY DEF FilesInv
<1>2. \A d \in Writers : writing[d] \in WritesOf /\ FilesOf(writing[d]) \subseteq Paths
    BY PathsArePaths DEF FilesInv
<1>3. ASSUME NEW d \in Writers, d # c PROVE Alone(writing[d], disk', Top(repo'.trees), index')
    <2>1. Alone(writing[d], disk, Top(repo.trees), index) /\ Apart(writing[d], writing[c])
        BY <1>3 DEF FilesInv
    <2>2. CASE UNCHANGED <<disk, index, repo>>
        BY <2>1, <2>2
    <2>3. CASE writing[c].at \in Working
        <3>1. SUFFICES ASSUME writing[d].at \in Working, writing[d].apart, NEW p \in FilesOf(writing[d])
              PROVE  Kept(writing[d], p, disk'[p], Top(repo'.trees)[p], index'[p])
            BY DEF Alone
        <3>2. p \in Paths \ FilesOf(writing[c])
            BY <1>2, <2>1, <2>3, <3>1 DEF Apart
        <3>3. disk'[p] = disk[p] /\ index'[p] = index[p] /\ Top(repo'.trees)[p] = Top(repo.trees)[p]
            BY <3>2
        <3>4. Kept(writing[d], p, disk[p], Top(repo.trees)[p], index[p])
            BY <2>1, <3>1 DEF Alone
        <3> QED
            BY <3>3, <3>4
    <2> QED
        BY <2>2, <2>3
<1>4. \A d \in Writers : Underway(writing'[d]) /\ Alone(writing'[d], disk', Top(repo'.trees), index')
    BY <1>1, <1>3 DEF FilesInv
<1>5. \A d, e \in Writers : d # e => Apart(writing'[d], writing'[e])
    BY <1>1 DEF FilesInv, Apart
<1>6. writing' \in [Writers -> WritesOf]
    BY DEF FilesInv
<1> QED
    BY <1>4, <1>5, <1>6 DEF FilesInv
\* What a step makes of the record of its write is such a record.
Vanished(r, a) == [r EXCEPT !.at = a]
Checked(r, e, b, a) == [r EXCEPT !.expects = e, !.before = b, !.at = a]
Marked(r, a, m) == [r EXCEPT !.at = a, !.marks = m]
Undone(r, a, s) == [r EXCEPT !.at = a, !.staged = s]
Wrote(r, l, a) == [r EXCEPT !.left = l, !.at = a]
Committed(r, a, m) == [r EXCEPT !.at = a, !.made = m]
Distanced(r, b) == [r EXCEPT !.apart = b]
LEMMA AGoneWrite ==
    ASSUME NEW r \in WritesOf, NEW a \in Files!Ended \union Working
    PROVE  LET n == Vanished(r, a) IN
           /\ n \in WritesOf /\ n.at = a /\ n.shape = r.shape /\ n.expects = r.expects /\ n.before = r.before
           /\ n.left = r.left /\ n.marks = r.marks /\ n.staged = r.staged /\ n.made = r.made
           /\ n.sha = r.sha /\ n.was = r.was /\ n.apart = r.apart /\ n.unreset = r.unreset
<1>1. Vanished(r, a) \in WritesOf
    BY DEF WritesOf, Vanished
<1> QED
    BY <1>1 DEF WritesOf, Vanished
LEMMA ACheckedWrite ==
    ASSUME NEW r \in WritesOf, NEW e \in Int, NEW b \in Nat, NEW a \in Files!Ended \union Working
    PROVE  LET n == Checked(r, e, b, a) IN
           /\ n \in WritesOf /\ n.at = a /\ n.shape = r.shape /\ n.expects = e /\ n.before = b
           /\ n.left = r.left /\ n.marks = r.marks /\ n.staged = r.staged /\ n.made = r.made
           /\ n.sha = r.sha /\ n.was = r.was /\ n.apart = r.apart /\ n.unreset = r.unreset
<1>1. Checked(r, e, b, a) \in WritesOf
    BY DEF WritesOf, Checked
<1> QED
    BY <1>1 DEF WritesOf, Checked
LEMMA AMarkedWrite ==
    ASSUME NEW r \in WritesOf, NEW a \in Files!Ended \union Working, NEW m \in Folders
    PROVE  LET n == Marked(r, a, m) IN
           /\ n \in WritesOf /\ n.at = a /\ n.shape = r.shape /\ n.expects = r.expects /\ n.before = r.before
           /\ n.left = r.left /\ n.marks = m /\ n.staged = r.staged /\ n.made = r.made
           /\ n.sha = r.sha /\ n.was = r.was /\ n.apart = r.apart /\ n.unreset = r.unreset
<1>1. Marked(r, a, m) \in WritesOf
    BY DEF WritesOf, Marked
<1> QED
    BY <1>1 DEF WritesOf, Marked
LEMMA AUndoneWrite ==
    ASSUME NEW r \in WritesOf, NEW a \in Files!Ended \union Working, NEW s \in BOOLEAN
    PROVE  LET n == Undone(r, a, s) IN
           /\ n \in WritesOf /\ n.at = a /\ n.shape = r.shape /\ n.expects = r.expects /\ n.before = r.before
           /\ n.left = r.left /\ n.marks = r.marks /\ n.staged = s /\ n.made = r.made
           /\ n.sha = r.sha /\ n.was = r.was /\ n.apart = r.apart /\ n.unreset = r.unreset
<1>1. Undone(r, a, s) \in WritesOf
    BY DEF WritesOf, Undone
<1> QED
    BY <1>1 DEF WritesOf, Undone
LEMMA AWroteWrite ==
    ASSUME NEW r \in WritesOf, NEW l \in Seq(Paths), NEW a \in Files!Ended \union Working
    PROVE  LET n == Wrote(r, l, a) IN
           /\ n \in WritesOf /\ n.at = a /\ n.shape = r.shape /\ n.expects = r.expects /\ n.before = r.before
           /\ n.left = l /\ n.marks = r.marks /\ n.staged = r.staged /\ n.made = r.made
           /\ n.sha = r.sha /\ n.was = r.was /\ n.apart = r.apart /\ n.unreset = r.unreset
<1>1. Wrote(r, l, a) \in WritesOf
    BY DEF WritesOf, Wrote
<1> QED
    BY <1>1 DEF WritesOf, Wrote
LEMMA ACommittedWrite ==
    ASSUME NEW r \in WritesOf, NEW a \in Files!Ended \union Working, NEW m \in Nat
    PROVE  LET n == Committed(r, a, m) IN
           /\ n \in WritesOf /\ n.at = a /\ n.shape = r.shape /\ n.expects = r.expects /\ n.before = r.before
           /\ n.left = r.left /\ n.marks = r.marks /\ n.staged = r.staged /\ n.made = m
           /\ n.sha = r.sha /\ n.was = r.was /\ n.apart = r.apart /\ n.unreset = r.unreset
<1>1. Committed(r, a, m) \in WritesOf
    BY DEF WritesOf, Committed
<1> QED
    BY <1>1 DEF WritesOf, Committed
LEMMA ADistancedWrite ==
    ASSUME NEW r \in WritesOf, NEW b \in BOOLEAN
    PROVE  LET n == Distanced(r, b) IN
           /\ n \in WritesOf /\ n.at = r.at /\ n.shape = r.shape /\ n.expects = r.expects /\ n.before = r.before
           /\ n.left = r.left /\ n.marks = r.marks /\ n.staged = r.staged /\ n.made = r.made
           /\ n.sha = r.sha /\ n.was = r.was /\ n.apart = b /\ n.unreset = r.unreset
<1>1. Distanced(r, b) \in WritesOf
    BY DEF WritesOf, Distanced
<1> QED
    BY <1>1 DEF WritesOf, Distanced
Unreset(r) == [r EXCEPT !.at = "restore", !.unreset = TRUE]
LEMMA AnUnresetWrite ==
    ASSUME NEW r \in WritesOf
    PROVE  LET n == Unreset(r) IN
           /\ n \in WritesOf /\ n.at = "restore" /\ n.shape = r.shape /\ n.left = r.left /\ n.marks = r.marks
           /\ n.staged = r.staged /\ n.made = r.made /\ n.was = r.was /\ n.apart = r.apart /\ n.unreset
<1>1. Unreset(r) \in WritesOf
    BY DEF WritesOf, Working, Unreset
<1> QED
    BY <1>1 DEF WritesOf, Unreset
Over(how, sha) == [Files!NewCall EXCEPT !.at = how, !.sha = sha]
LEMMA ANewWrite == Files!NewCall \in WritesOf /\ Files!NewCall.at = "idle" /\ Files!NewCall.shape = Files!NoShape
<1>1. /\ Files!NoShape \in ShapesOfWrites \union {Files!NoShape} /\ Files!NoSha \in Int /\ << >> \in Seq(Paths)
      /\ "idle" \in Files!Ended \union Working /\ FALSE \in BOOLEAN /\ TRUE \in BOOLEAN /\ {} \in SUBSET Paths
    BY DEF Files!NoSha, Files!Ended
<1> QED
    BY <1>1, NothingIsAFolder DEF Files!NewCall, WritesOf
LEMMA AnOverWrite ==
    ASSUME NEW how \in Files!Ended, NEW sha \in Nat
    PROVE  /\ Over(how, sha) \in WritesOf /\ Over(how, sha).at = how /\ Over(how, sha).made = 0
           /\ Over(how, sha).shape = Files!NoShape
  BY ANewWrite DEF Over, WritesOf, Files!NewCall

\* What rollback could not take back.
Gave(u, stuck) == [Files!NewCall EXCEPT !.at = "refused", !.unreset = u, !.stuck = stuck]
LEMMA AWriteGivenUp ==
    ASSUME NEW u \in BOOLEAN, NEW stuck \in SUBSET Paths
    PROVE  LET n == Gave(u, stuck) IN
           /\ n \in WritesOf /\ n.at = "refused" /\ n.made = 0 /\ n.shape = Files!NoShape
           /\ n.unreset = u /\ n.stuck = stuck
<1>1. "refused" \in Files!Ended \union Working /\ Files!NewCall.made = 0
    BY DEF Files!Ended, Files!NewCall
<1>2. Gave(u, stuck) \in WritesOf
    BY <1>1, ANewWrite DEF Gave, WritesOf
<1> QED
    BY <1>1, <1>2, ANewWrite DEF Gave, WritesOf

\* A folder laid over another in some paths.
LEMMA AnOverlay ==
    ASSUME NEW f \in Folders, NEW g \in Folders, NEW S
    PROVE  /\ Files!Overlay(f, g, S) \in Folders
           /\ \A p \in Paths : Files!Overlay(f, g, S)[p] = IF p \in S THEN g[p] ELSE f[p]
  BY DEF Files!Overlay, Folders

\* A write that ends.
LEMMA AWriteIsOver ==
    ASSUME FilesInv, NEW c \in Writers, NEW n \in WritesOf, n.at \in Files!Ended, n.shape = Files!NoShape,
           writing' = [writing EXCEPT ![c] = n],
           disk' \in Folders, UNCHANGED <<index, repo>>, UNCHANGED disk \/ writing[c].at \in Working,
           \A p \in Paths \ FilesOf(writing[c]) : disk'[p] = disk[p]
    PROVE  FilesInv'
<1>1. n.at \notin Working
    BY DEF Files!Ended, Working
<1>2. Underway(n) /\ Alone(n, disk', Top(repo'.trees), index')
    BY <1>1 DEF Underway, Alone, Working
<1>3. index' \in Folders /\ repo' \in [made : BOOLEAN, trees : Seq(Folders)]
    BY DEF FilesInv
<1> QED
    BY <1>1, <1>2, <1>3, OneWriteMoves
LEMMA EndsAWrite ==
    ASSUME FilesInv, NEW c \in Writers, NEW how \in Files!Ended, NEW sha \in Nat, Files!End(c, how, sha),
           disk' \in Folders, UNCHANGED <<index, repo>>, UNCHANGED disk \/ writing[c].at \in Working,
           \A p \in Paths \ FilesOf(writing[c]) : disk'[p] = disk[p]
    PROVE  FilesInv'
<1> DEFINE n == Over(how, sha)
<1>1. n \in WritesOf /\ n.at = how /\ n.shape = Files!NoShape
    BY AnOverWrite
<1>2. writing' = [writing EXCEPT ![c] = n]
    BY DEF Files!End, Files!Step, Over
<1> HIDE DEF n
<1> QED
    BY <1>1, <1>2, AWriteIsOver

\* A step that failed: a list goes back and the others are refused.
LEMMA UndoesAWrite ==
    ASSUME FilesInv, NEW c \in Writers, writing[c].at \in {"write", "stage", "staged", "commit", "read"},
           NEW s \in BOOLEAN, ~s => writing[c].at = "write", Files!Undo(c, s),
           disk' \in Folders, UNCHANGED <<index, repo>>,
           \A p \in Paths \ FilesOf(writing[c]) : disk'[p] = disk[p]
    PROVE  FilesInv'
<1> DEFINE r == writing[c]
           n == Undone(r, "rollback", s)
<1>0. r \in WritesOf /\ Underway(r) /\ Alone(r, disk, Top(repo.trees), index) /\ r.at \in Working /\ r.at # "rollback"
    BY DEF FilesInv, Working
<1>1. CASE r.shape.form = "list"
    <2>1. writing' = [writing EXCEPT ![c] = n]
        BY <1>1 DEF Files!Undo, Files!Form, Files!Step, Undone
    <2>2. "rollback" \in Files!Ended \union Working
        BY DEF Working
    <2>3. /\ n \in WritesOf /\ n.at = "rollback" /\ n.shape = r.shape /\ n.left = r.left /\ n.marks = r.marks
          /\ n.staged = s /\ n.made = r.made /\ n.was = r.was /\ n.apart = r.apart
        BY <1>0, <2>2, AUndoneWrite
    <2> HIDE DEF n
    <2>4. Underway(n) /\ FilesOf(n) = FilesOf(r)
        BY <1>0, <1>1, <2>3 DEF Underway, FilesOf, Working
    <2>5. Alone(n, disk', Top(repo'.trees), index')
        <3>1. SUFFICES ASSUME r.apart, NEW p \in FilesOf(r) PROVE Kept(n, p, disk'[p], Top(repo.trees)[p], index[p])
            BY <2>3, <2>4 DEF Alone
        <3>2. Kept(r, p, disk[p], Top(repo.trees)[p], index[p])
            BY <1>0, <3>1 DEF Alone
        <3> QED
            BY <1>1, <2>3, <3>2 DEF Kept
    <2>6. index' \in Folders /\ repo' \in [made : BOOLEAN, trees : Seq(Folders)]
        BY DEF FilesInv
    <2> QED
        BY <1>0, <2>1, <2>3, <2>4, <2>5, <2>6, OneWriteMoves
<1>2. CASE r.shape.form # "list"
    <2>1. Files!End(c, "refused", 0) /\ "refused" \in Files!Ended /\ 0 \in Nat
        BY <1>2 DEF Files!Undo, Files!Form, Files!Refuse, Files!Ended
    <2> QED
        BY <1>0, <2>1, EndsAWrite
<1> QED
    BY <1>1, <1>2

\* A write that passed every rule, beside the others.
LEMMA PassesAWrite ==
    ASSUME FilesInv, WritesNamePaths, NEW c \in Writers, writing[c].at = "idle", NEW s \in Shapes, NEW e \in Int,
           Files!Passes(c, s, e), UNCHANGED <<disk, index, repo>>
    PROVE  FilesInv'
<1> DEFINE n == [Files!NewCall EXCEPT !.at = "repo", !.shape = s, !.expects = e, !.left = s.paths,
                    !.was = [disk |-> disk, head |-> Files!HeadTree, index |-> index],
                    !.apart = \A f \in Writers : ~Files!Clash(f, Files!Range(s.paths))]
           away(d) == Distanced(writing[d], writing[d].apart /\ ~Files!Clash(d, Files!Range(s.paths)))
<1>0. writing' = [d \in Writers |-> IF d # c THEN away(d) ELSE n]
    BY DEF Files!Passes, Distanced
<1>1. \A d \in Writers : writing'[d] = IF d = c THEN n ELSE away(d)
    BY <1>0
<1>2. \A d \in Writers : LET m == away(d) IN
        /\ m \in WritesOf /\ m.at = writing[d].at /\ m.shape = writing[d].shape /\ m.left = writing[d].left
        /\ m.marks = writing[d].marks /\ m.staged = writing[d].staged /\ m.made = writing[d].made /\ m.was = writing[d].was
        /\ m.unreset = writing[d].unreset
        /\ m.apart => writing[d].apart /\ ~Files!Clash(d, Files!Range(s.paths))
    BY ADistancedWrite DEF FilesInv
<1>3. s \in ShapesOfWrites /\ s.paths \in Seq(Paths)
    BY DEF WritesNamePaths, ShapesOfWrites
<1>4. Files!HeadTree \in Folders /\ Files!HeadTree = Top(repo.trees) /\ disk \in Folders /\ index \in Folders
    BY HeadIsTop, TopIsAFolder, NothingIsAFolder DEF FilesInv
<1>5. /\ n \in WritesOf /\ n.at = "repo" /\ n.shape = s /\ n.left = s.paths /\ n.made = 0
      /\ n.was = [disk |-> disk, head |-> Top(repo.trees), index |-> index]
      /\ n.apart => \A f \in Writers : ~Files!Clash(f, Files!Range(s.paths))
    <2> DEFINE w == [disk |-> disk, head |-> Files!HeadTree, index |-> index]
               b == \A f \in Writers : ~Files!Clash(f, Files!Range(s.paths))
               k == Files!NewCall
    <2>1. w \in [disk : Folders, head : Folders, index : Folders] /\ b \in BOOLEAN /\ k \in WritesOf /\ k.made = 0
        BY <1>4, ANewWrite DEF Files!NewCall
    <2>2. "repo" \in Files!Ended \union Working
        BY DEF Working
    <2>3. n = [k EXCEPT !.at = "repo", !.shape = s, !.expects = e, !.left = s.paths, !.was = w, !.apart = b]
        OBVIOUS
    <2> HIDE DEF k, w, b, n
    <2>4. n \in WritesOf
        BY <1>3, <2>1, <2>2, <2>3 DEF WritesOf
    <2>5. n.at = "repo" /\ n.shape = s /\ n.left = s.paths /\ n.made = 0 /\ n.was = w /\ n.apart = b
        BY <2>1, <2>3 DEF WritesOf
    <2> QED
        BY <1>4, <2>4, <2>5 DEF w, b
<1> HIDE DEF n, away
<1>6. writing' \in [Writers -> WritesOf]
    BY <1>0, <1>2, <1>5
<1>7. ASSUME NEW d \in Writers PROVE Underway(writing'[d]) /\ Alone(writing'[d], disk', Top(repo'.trees), index')
    <2>1. CASE d = c
        <3>1. Underway(n)
            BY <1>5 DEF Underway, FilesOf, Working
        <3>2. Alone(n, disk, Top(repo.trees), index)
            BY <1>5 DEF Alone, Kept
        <3> QED
            BY <1>1, <2>1, <3>1, <3>2
    <2>2. CASE d # c
        <3>1. Underway(writing[d]) /\ Alone(writing[d], disk, Top(repo.trees), index)
            BY DEF FilesInv
        <3>2. Underway(away(d))
            BY <1>2, <3>1 DEF Underway, FilesOf
        <3>3. Alone(away(d), disk, Top(repo.trees), index)
            BY <1>2, <3>1 DEF Alone, Kept, FilesOf
        <3> QED
            BY <1>1, <2>2, <3>2, <3>3
    <2> QED
        BY <2>1, <2>2
<1>8. ASSUME NEW d \in Writers, NEW f \in Writers, d # f PROVE Apart(writing'[d], writing'[f])
    <2>w. \A r : r.at \in Working => r.at \notin Files!Ended
        BY DEF Working, Files!Ended
    <2>1. CASE d = c
        <3>1. writing'[d] = n /\ writing'[f] = away(f) /\ FilesOf(n) = Files!Range(s.paths) /\ FilesOf(away(f)) = FilesOf(writing[f])
            BY <1>1, <1>2, <1>5, <1>8, <2>1 DEF FilesOf
        <3>2. n.apart /\ writing[f].at \in Working => FilesOf(writing[f]) \cap Files!Range(s.paths) = {}
            BY <1>5, <2>w DEF Files!Clash, Files!Of, FilesOf
        <3> QED
            BY <1>2, <3>1, <3>2 DEF Apart
    <2>2. CASE f = c
        <3>1. writing'[d] = away(d) /\ writing'[f] = n /\ FilesOf(n) = Files!Range(s.paths) /\ FilesOf(away(d)) = FilesOf(writing[d])
            BY <1>1, <1>2, <1>5, <1>8, <2>2 DEF FilesOf
        <3>2. away(d).apart /\ writing[d].at \in Working => FilesOf(writing[d]) \cap Files!Range(s.paths) = {}
            BY <1>2, <2>w DEF Files!Clash, Files!Of, FilesOf
        <3> QED
            BY <1>2, <3>1, <3>2 DEF Apart
    <2>3. CASE d # c /\ f # c
        <3>1. Apart(writing[d], writing[f])
            BY <1>8 DEF FilesInv
        <3> QED
            BY <1>1, <1>2, <2>3, <3>1 DEF Apart, FilesOf
    <2> QED
        BY <2>1, <2>2, <2>3
<1> QED
    BY <1>6, <1>7, <1>8 DEF FilesInv

\* A write that goes on and touches no file, no index and no commit.
LEMMA GoesOn ==
    ASSUME FilesInv, NEW c \in Writers, writing[c].at \in Working, NEW n \in WritesOf, writing' = [writing EXCEPT ![c] = n],
           n.shape = writing[c].shape, n.apart = writing[c].apart, Underway(n),
           UNCHANGED <<disk, index>>, repo' \in [made : BOOLEAN, trees : Seq(Folders)], repo'.trees = repo.trees,
           \A p \in FilesOf(writing[c]) :
              Kept(writing[c], p, disk[p], Top(repo.trees)[p], index[p]) => Kept(n, p, disk[p], Top(repo.trees)[p], index[p])
    PROVE  FilesInv'
<1>1. Alone(writing[c], disk, Top(repo.trees), index) /\ disk' \in Folders /\ index' \in Folders
    BY DEF FilesInv
<1>2. FilesOf(n) = FilesOf(writing[c])
    BY DEF FilesOf
<1>3. Alone(n, disk', Top(repo'.trees), index')
    BY <1>1, <1>2 DEF Alone
<1> QED
    BY <1>1, <1>2, <1>3, OneWriteMoves

\* What is known of a write under way.
LEMMA AWriteUnderway ==
    ASSUME FilesInv, WritesNamePaths, NEW c \in Writers, writing[c].at \in Working
    PROVE  /\ writing[c] \in WritesOf /\ Underway(writing[c]) /\ Alone(writing[c], disk, Top(repo.trees), index)
           /\ writing[c].shape \in Shapes /\ writing[c].shape \in ShapesOfWrites /\ writing[c].shape.paths \in Seq(Paths)
           /\ writing[c].shape.paths # << >> /\ writing[c].shape.content \in Contents
           /\ Files!FirstPath(c) \in Paths /\ writing[c].left \in Seq(Paths) /\ FilesOf(writing[c]) = Files!Of(c)
           /\ FilesOf(writing[c]) \subseteq Paths /\ writing[c].made \in Nat /\ writing[c].staged \in BOOLEAN
<1>1. writing[c] \in WritesOf /\ Underway(writing[c]) /\ Alone(writing[c], disk, Top(repo.trees), index)
    BY DEF FilesInv
<1>2. writing[c].shape \in Shapes /\ writing[c].left \in Seq(Paths) /\ writing[c].made \in Nat /\ writing[c].staged \in BOOLEAN
    BY <1>1 DEF Underway, WritesOf
<1>3. /\ writing[c].shape \in ShapesOfWrites /\ writing[c].shape.paths # << >>
      /\ writing[c].shape.paths \in Seq(Paths) /\ writing[c].shape.content \in Contents
    BY <1>2 DEF WritesNamePaths, ShapesOfWrites
<1>4. Head(writing[c].shape.paths) \in Paths
    BY <1>3
<1> QED
    BY <1>1, <1>2, <1>3, <1>4, PathsArePaths DEF Files!FirstPath, Files!Of, FilesOf

\* ensureRepo and the optimistic lock.
LEMMA EnsuresOrChecks ==
    ASSUME FilesInv, WritesNamePaths, NEW c \in Writers, Files!EnsureRepo(c) \/ Files!CheckSha(c) \/ Files!Snapshot(c)
    PROVE  FilesInv'
<1> DEFINE r == writing[c]
<1>0. r.at \in {"repo", "sha", "snapshot"} /\ r.at \in Working /\ UNCHANGED <<disk, index>>
    BY DEF Files!EnsureRepo, Files!CheckSha, Files!Snapshot, Files!At, Working
<1>1. /\ r \in WritesOf /\ Underway(r) /\ r.shape.paths # << >> /\ r.left = r.shape.paths /\ r.made = 0
      /\ FilesOf(r) = Files!Range(r.left)
    BY <1>0, AWriteUnderway DEF Underway, FilesOf
<1>2. /\ repo \in [made : BOOLEAN, trees : Seq(Folders)] /\ disk \in Folders
      /\ \A a \in {"sha", "snapshot", "write"} : a \in Files!Ended \union Working
    BY DEF FilesInv, Working
<1>r. ASSUME Files!Refuse(c), UNCHANGED repo PROVE FilesInv'
    <2>1. "refused" \in Files!Ended /\ Files!End(c, "refused", 0) /\ disk' \in Folders
        BY <1>0, <1>2, <1>r DEF Files!Refuse, Files!Ended
    <2> QED
        BY <1>0, <1>r, <2>1, EndsAWrite
<1>3. CASE Files!EnsureRepo(c)
    <2> DEFINE n == Vanished(r, "sha")
    <2>1. CASE Files!Go(c, "sha") /\ repo' = [repo EXCEPT !.made = TRUE]
        <3>1. writing' = [writing EXCEPT ![c] = n] /\ repo' \in [made : BOOLEAN, trees : Seq(Folders)] /\ repo'.trees = repo.trees
            BY <1>2, <2>1 DEF Files!Go, Files!Step, Vanished
        <3>2. /\ n \in WritesOf /\ n.at = "sha" /\ n.shape = r.shape /\ n.left = r.left /\ n.marks = r.marks
              /\ n.staged = r.staged /\ n.made = r.made /\ n.was = r.was /\ n.apart = r.apart
            BY <1>1, <1>2, AGoneWrite
        <3> HIDE DEF n
        <3>3. Underway(n)
            BY <1>0, <1>1, <3>2 DEF Underway, FilesOf, Working
        <3>0. r.at = "repo"
            BY <1>3 DEF Files!EnsureRepo, Files!At
        <3>4. \A p, d, h, i : Kept(r, p, d, h, i) => Kept(n, p, d, h, i)
            BY <3>0, <3>2 DEF Kept
        <3> QED
            BY <1>0, <3>1, <3>2, <3>3, <3>4, GoesOn
    <2> QED
        BY <1>3, <1>r, <2>1 DEF Files!EnsureRepo
<1>4. CASE Files!CheckSha(c)
    <2> DEFINE current == IF r.shape.form = "one" THEN Files!LastCommit(Files!FirstPath(c)) ELSE Files!HeadSha
               e == IF r.shape.form = "one" THEN r.expects ELSE Files!NoSha
               b == IF r.shape.form = "one" THEN current ELSE 0
               a == IF r.shape.form = "list" THEN "snapshot" ELSE "write"
               n == Checked(r, e, b, a)
    <2>1. CASE Files!Step(c, [r EXCEPT !.expects = e, !.before = b, !.at = a])
        <3>0. r.at = "sha" /\ UNCHANGED repo
            BY <1>4 DEF Files!CheckSha, Files!At
        <3>1. writing' = [writing EXCEPT ![c] = n]
            BY <2>1 DEF Files!Step, Checked
        <3>2. e \in Int /\ b \in Nat
            BY <1>1, <1>2, LastCommitIsNat DEF WritesOf, Files!NoSha, Files!HeadSha
        <3>3. a \in Files!Ended \union Working /\ a \in {"snapshot", "write"} /\ (a = "snapshot" <=> r.shape.form = "list")
            BY <1>2
        <3> HIDE DEF e, b, a
        <3>4. /\ n \in WritesOf /\ n.at = a /\ n.shape = r.shape /\ n.left = r.left /\ n.marks = r.marks
              /\ n.staged = r.staged /\ n.made = r.made /\ n.was = r.was /\ n.apart = r.apart
            <4>1. r \in WritesOf
                BY <1>1
            <4> HIDE DEF r
            <4> QED
                BY <3>2, <3>3, <4>1, ACheckedWrite
        <3> HIDE DEF n
        <3>5. Underway(n)
            BY <1>0, <1>1, <3>3, <3>4 DEF Underway, FilesOf, Working
        <3>6. \A p \in FilesOf(r) : \A d, h, i : Kept(r, p, d, h, i) => Kept(n, p, d, h, i)
            BY <1>1, <3>0, <3>3, <3>4 DEF Kept
        <3> QED
            BY <1>0, <1>2, <3>0, <3>1, <3>4, <3>5, <3>6, GoesOn
    <2> QED
        BY <1>4, <1>r, <2>1 DEF Files!CheckSha, Files!Form
<1>5. CASE Files!Snapshot(c)
    <2> DEFINE n == Marked(r, "write", disk)
    <2>0. r.at = "snapshot" /\ UNCHANGED repo
        BY <1>5 DEF Files!Snapshot, Files!At
    <2>1. writing' = [writing EXCEPT ![c] = n]
        BY <1>5 DEF Files!Snapshot, Files!Step, Marked
    <2>2. /\ n \in WritesOf /\ n.at = "write" /\ n.shape = r.shape /\ n.left = r.left /\ n.marks = disk
          /\ n.staged = r.staged /\ n.made = r.made /\ n.was = r.was /\ n.apart = r.apart
        BY <1>1, <1>2, AMarkedWrite
    <2> HIDE DEF n
    <2>3. Underway(n)
        BY <1>0, <1>1, <2>2 DEF Underway, FilesOf, Working
    <2>4. \A p \in FilesOf(r) : \A h, i : Kept(r, p, disk[p], h, i) => Kept(n, p, disk[p], h, i)
        BY <1>1, <2>0, <2>2 DEF Kept
    <2> QED
        BY <1>0, <1>2, <2>0, <2>1, <2>2, <2>3, <2>4, GoesOn
<1> QED
    BY <1>3, <1>4, <1>5

\* Writing a path: what is left is shorter, and what is not left holds the content.
LEMMA WritesAPath == ASSUME FilesInv, WritesNamePaths, NEW c \in Writers, Files!WritePath(c) PROVE FilesInv'
<1> DEFINE r == writing[c]
           q == Head(r.left)
           rest == Tail(r.left)
<1>0. r.at = "write" /\ r.at \in Working /\ UNCHANGED <<index, repo>>
    BY DEF Files!WritePath, Files!At, Working
<1>1. /\ r \in WritesOf /\ Underway(r) /\ r.left \in Seq(Paths) /\ r.left # << >> /\ r.made = 0
      /\ FilesOf(r) \subseteq Paths /\ Files!Range(r.left) \subseteq FilesOf(r) /\ r.shape.content \in Contents
      /\ Alone(r, disk, Top(repo.trees), index)
    BY <1>0, AWriteUnderway DEF Underway
<1>2. disk \in Folders /\ index \in Folders /\ repo \in [made : BOOLEAN, trees : Seq(Folders)]
    BY DEF FilesInv
<1>3. /\ q \in Paths /\ q \in Files!Range(r.left) /\ rest \in Seq(Paths)
      /\ Files!Range(rest) \subseteq Files!Range(r.left)
      /\ \A p \in Files!Range(r.left) : p = q \/ p \in Files!Range(rest)
    BY <1>1, RestOfAList DEF Files!Range, ItemsOf
<1>4. q \in FilesOf(r) /\ q \in Paths
    BY <1>1, <1>3
<1>6. ASSUME NEW b \in Bytes, disk' = [disk EXCEPT ![q] = b]
      PROVE  disk' \in Folders /\ \A p \in Paths : disk'[p] = IF p = q THEN b ELSE disk[p]
    BY <1>2, <1>4, <1>6 DEF Folders
<1>7. CASE /\ disk' = [disk EXCEPT ![q] = Files!Content(c)]
           /\ Files!Step(c, [r EXCEPT !.left = rest, !.at = IF rest = << >> THEN "stage" ELSE @])
    <2> DEFINE a == IF rest = << >> THEN "stage" ELSE r.at
               n == Wrote(r, rest, a)
    <2>1. writing' = [writing EXCEPT ![c] = n]
        BY <1>7 DEF Files!Step, Wrote
    <2>2. a \in Files!Ended \union Working /\ (a = "stage" <=> rest = << >>) /\ a \in {"stage", "write"}
        BY <1>0 DEF Working
    <2>3. /\ disk' \in Folders
          /\ \A p \in Paths : disk'[p] = IF p = q THEN r.shape.content ELSE disk[p]
        BY <1>1, <1>6, <1>7 DEF Files!Content, Bytes
    <2> HIDE DEF a, rest, q
    <2>4. /\ n \in WritesOf /\ n.at = a /\ n.shape = r.shape /\ n.left = rest /\ n.marks = r.marks
          /\ n.staged = r.staged /\ n.made = r.made /\ n.was = r.was /\ n.apart = r.apart
        BY <1>1, <1>3, <2>2, AWroteWrite
    <2> HIDE DEF n
    <2>5. Underway(n) /\ FilesOf(n) = FilesOf(r)
        BY <1>0, <1>1, <1>3, <2>2, <2>4 DEF Underway, FilesOf, Working
    <2>6. Files!Range(<< >>) = {}
        BY DEF Files!Range
    <2>7. Alone(n, disk', Top(repo'.trees), index')
        <3>1. SUFFICES ASSUME r.apart, NEW p \in FilesOf(r) PROVE Kept(n, p, disk'[p], Top(repo.trees)[p], index[p])
            BY <1>0, <2>4, <2>5 DEF Alone
        <3>2. Kept(r, p, disk[p], Top(repo.trees)[p], index[p])
            BY <1>0, <1>1, <3>1 DEF Alone
        <3>3. p \in Paths /\ disk'[p] = IF p = q THEN r.shape.content ELSE disk[p]
            BY <1>1, <2>3
        <3>4. p \notin Files!Range(rest) => disk'[p] = r.shape.content
            BY <1>0, <1>3, <3>2, <3>3 DEF Kept
        <3>5. CASE a = "write"
            BY <1>0, <2>4, <3>2, <3>4, <3>5 DEF Kept
        <3>6. CASE a = "stage"
            BY <1>0, <2>2, <2>4, <2>6, <3>2, <3>4, <3>6 DEF Kept
        <3> QED
            BY <2>2, <3>5, <3>6
    <2>8. \A p \in Paths \ FilesOf(r) : disk'[p] = disk[p]
        BY <1>4, <2>3
    <2> QED
        BY <1>0, <1>2, <2>1, <2>3, <2>4, <2>5, <2>7, <2>8, OneWriteMoves
<1>8. CASE Files!Undo(c, FALSE) /\ \E d \in {disk[q], Torn, Files!Content(c)} : disk' = [disk EXCEPT ![q] = d]
    <2>1. PICK d \in {disk[q], Torn, Files!Content(c)} : disk' = [disk EXCEPT ![q] = d]
        BY <1>8
    <2>2. d \in Bytes
        BY <1>1, <1>2, <1>4 DEF Files!Content, Bytes, Folders
    <2>3. disk' \in Folders /\ \A p \in Paths \ FilesOf(r) : disk'[p] = disk[p]
        BY <1>4, <1>6, <2>1, <2>2
    <2> QED
        BY <1>0, <1>8, <2>3, UndoesAWrite
<1> QED
    BY <1>7, <1>8 DEF Files!WritePath

\* Staging what the files hold.
LEMMA StagesAWrite == ASSUME FilesInv, WritesNamePaths, NEW c \in Writers, Files!Stage(c) PROVE FilesInv'
<1> DEFINE r == writing[c]
           n == Vanished(r, "staged")
<1>0. r.at = "stage" /\ r.at \in Working /\ UNCHANGED <<disk, repo>> /\ TRUE \in BOOLEAN
    BY DEF Files!Stage, Files!At, Working
<1>1. /\ r \in WritesOf /\ Underway(r) /\ FilesOf(r) = Files!Of(c) /\ FilesOf(r) \subseteq Paths /\ r.made = 0
      /\ Alone(r, disk, Top(repo.trees), index)
    BY <1>0, AWriteUnderway DEF Underway
<1>2. disk \in Folders /\ index \in Folders /\ repo \in [made : BOOLEAN, trees : Seq(Folders)]
    BY DEF FilesInv
<1>3. CASE Files!Undo(c, TRUE) /\ UNCHANGED index
    BY <1>0, <1>2, <1>3, UndoesAWrite
<1>4. CASE index' = Files!Overlay(index, disk, Files!Of(c)) /\ Files!Go(c, "staged")
    <2>1. writing' = [writing EXCEPT ![c] = n]
        BY <1>4 DEF Files!Go, Files!Step, Vanished
    <2>2. "staged" \in Files!Ended \union Working
        BY DEF Working
    <2>3. /\ n \in WritesOf /\ n.at = "staged" /\ n.shape = r.shape /\ n.left = r.left /\ n.marks = r.marks
          /\ n.staged = r.staged /\ n.made = r.made /\ n.was = r.was /\ n.apart = r.apart
        BY <1>1, <2>2, AGoneWrite
    <2> HIDE DEF n
    <2>4. Underway(n) /\ FilesOf(n) = FilesOf(r)
        BY <1>0, <1>1, <2>3 DEF Underway, FilesOf, Working
    <2>5. index' \in Folders /\ \A p \in Paths : index'[p] = IF p \in FilesOf(r) THEN disk[p] ELSE index[p]
        BY <1>1, <1>2, <1>4, AnOverlay
    <2>6. Alone(n, disk', Top(repo'.trees), index')
        <3>1. SUFFICES ASSUME r.apart, NEW p \in FilesOf(r) PROVE Kept(n, p, disk[p], Top(repo.trees)[p], index'[p])
            BY <1>0, <2>3, <2>4 DEF Alone
        <3>2. Kept(r, p, disk[p], Top(repo.trees)[p], index[p])
            BY <1>0, <1>1, <3>1 DEF Alone
        <3>3. index'[p] = disk[p]
            BY <1>1, <2>5
        <3> QED
            BY <1>0, <2>3, <3>2, <3>3 DEF Kept
    <2> QED
        BY <1>0, <1>2, <2>1, <2>3, <2>4, <2>5, <2>6, OneWriteMoves
<1> QED
    BY <1>3, <1>4 DEF Files!Stage

\* A write that changes nothing answers, the others commit.
LEMMA StagedGoesOn == ASSUME FilesInv, WritesNamePaths, NEW c \in Writers, Files!Staged(c) PROVE FilesInv'
<1> DEFINE r == writing[c]
           n == Vanished(r, "commit")
           before == IF Files!Form(c) = "one" THEN r.before ELSE Files!LastCommit(Files!FirstPath(c))
<1>0. r.at = "staged" /\ r.at \in Working /\ UNCHANGED <<disk, index, repo>> /\ TRUE \in BOOLEAN
    BY DEF Files!Staged, Files!At, Working
<1>1. r \in WritesOf /\ Underway(r) /\ r.made = 0
    BY <1>0, AWriteUnderway DEF Underway
<1>2. disk \in Folders /\ index \in Folders /\ repo \in [made : BOOLEAN, trees : Seq(Folders)]
    BY DEF FilesInv
<1>3. CASE Files!Undo(c, TRUE)
    BY <1>0, <1>2, <1>3, UndoesAWrite
<1>4. CASE Files!End(c, "ok", before)
    <2>1. before \in Nat
        <3>1. r.before \in Nat
            BY <1>1 DEF WritesOf
        <3> QED
            BY <1>2, <3>1, LastCommitIsNat
    <2>2. "ok" \in Files!Ended
        BY DEF Files!Ended
    <2> HIDE DEF before
    <2> QED
        BY <1>0, <1>2, <1>4, <2>1, <2>2, EndsAWrite
<1>5. CASE Files!Go(c, "commit")
    <2>1. writing' = [writing EXCEPT ![c] = n]
        BY <1>5 DEF Files!Go, Files!Step, Vanished
    <2>2. "commit" \in Files!Ended \union Working
        BY DEF Working
    <2>3. /\ n \in WritesOf /\ n.at = "commit" /\ n.shape = r.shape /\ n.left = r.left /\ n.marks = r.marks
          /\ n.staged = r.staged /\ n.made = r.made /\ n.was = r.was /\ n.apart = r.apart
        BY <1>1, <2>2, AGoneWrite
    <2> HIDE DEF n
    <2>4. Underway(n)
        BY <1>0, <1>1, <2>3 DEF Underway, FilesOf, Working
    <2>5. \A p, d, h, i : Kept(r, p, d, h, i) => Kept(n, p, d, h, i)
        BY <1>0, <2>3 DEF Kept
    <2> QED
        BY <1>0, <1>2, <2>1, <2>3, <2>4, <2>5, GoesOn
<1> QED
    BY <1>3, <1>4, <1>5 DEF Files!Staged

\* A commit is of the paths by name and of what the files hold now.
LEMMA CommitsAWrite ==
    ASSUME FilesInv, WritesNamePaths, NEW c \in Writers, Files!Commit(c)
    PROVE  /\ FilesInv'
           /\ writing'[c].made > writing[c].made =>
                \A p \in Paths \ Files!Of(c) : Top(repo'.trees)[p] = Top(repo.trees)[p]
<1> DEFINE r == writing[c]
           m == Files!HeadSha + 1
           n == Committed(r, "read", m)
           newest == Files!Overlay(Files!HeadTree, disk, Files!Of(c))
<1>0. r.at = "commit" /\ r.at \in Working /\ UNCHANGED disk /\ TRUE \in BOOLEAN
    BY DEF Files!Commit, Files!At, Working
<1>1. /\ r \in WritesOf /\ Underway(r) /\ FilesOf(r) = Files!Of(c) /\ FilesOf(r) \subseteq Paths /\ r.made = 0
      /\ Alone(r, disk, Top(repo.trees), index)
    BY <1>0, AWriteUnderway DEF Underway
<1>2. /\ disk \in Folders /\ index \in Folders /\ repo \in [made : BOOLEAN, trees : Seq(Folders)]
      /\ repo.trees \in Seq(Folders)
    BY DEF FilesInv
<1>3. CASE Files!Undo(c, TRUE) /\ UNCHANGED <<index, repo>>
    <2>1. FilesInv'
        BY <1>0, <1>2, <1>3, UndoesAWrite
    <2> QED
        BY <1>3, <2>1
<1>4. CASE /\ repo' = [repo EXCEPT !.trees = Append(@, newest)]
           /\ index' = Files!Overlay(index, disk, Files!Of(c))
           /\ Files!Step(c, [r EXCEPT !.at = "read", !.made = m])
    <2>0. Files!HeadTree = Top(repo.trees) /\ Top(repo.trees) \in Folders
        BY <1>2, HeadIsTop, TopIsAFolder, NothingIsAFolder
    <2>1. writing' = [writing EXCEPT ![c] = n]
        BY <1>4 DEF Files!Step, Committed
    <2>2. "read" \in Files!Ended \union Working /\ m \in Nat /\ m > 0
        BY <1>2 DEF Working, Files!HeadSha
    <2>t. newest \in Folders /\ \A p \in Paths : newest[p] = IF p \in FilesOf(r) THEN disk[p] ELSE Top(repo.trees)[p]
        BY <1>1, <1>2, <2>0, AnOverlay
    <2> HIDE DEF m, newest
    <2>3. /\ n \in WritesOf /\ n.at = "read" /\ n.shape = r.shape /\ n.left = r.left /\ n.marks = r.marks
          /\ n.staged = r.staged /\ n.made = m /\ n.was = r.was /\ n.apart = r.apart
        BY <1>1, <2>2, ACommittedWrite
    <2> HIDE DEF n
    <2>4. Underway(n) /\ FilesOf(n) = FilesOf(r)
        BY <1>0, <1>1, <2>3 DEF Underway, FilesOf, Working
    <2>5. index' \in Folders /\ \A p \in Paths : index'[p] = IF p \in FilesOf(r) THEN disk[p] ELSE index[p]
        BY <1>1, <1>2, <1>4, AnOverlay
    <2>6. repo' \in [made : BOOLEAN, trees : Seq(Folders)] /\ Top(repo'.trees) = newest
        <3> DEFINE trees == Append(repo.trees, newest)
        <3>1. trees \in Seq(Folders) /\ trees # << >> /\ Len(trees) = Len(repo.trees) + 1 /\ trees[Len(repo.trees) + 1] = newest
            BY <1>2, <2>t, AppendProperties
        <3>2. repo' = [repo EXCEPT !.trees = trees]
            BY <1>4
        <3> HIDE DEF trees
        <3>3. repo' \in [made : BOOLEAN, trees : Seq(Folders)] /\ repo'.trees = trees
            BY <1>2, <3>1, <3>2
        <3> QED
            BY <3>1, <3>3 DEF Top
    <2>7. Alone(n, disk', Top(repo'.trees), index')
        <3>1. SUFFICES ASSUME r.apart, NEW p \in FilesOf(r) PROVE Kept(n, p, disk[p], newest[p], index'[p])
            BY <1>0, <2>3, <2>4, <2>6 DEF Alone
        <3>2. Kept(r, p, disk[p], Top(repo.trees)[p], index[p])
            BY <1>0, <1>1, <3>1 DEF Alone
        <3>3. index'[p] = disk[p] /\ newest[p] = disk[p]
            BY <1>1, <2>t, <2>5
        <3> QED
            BY <1>0, <2>2, <2>3, <3>2, <3>3 DEF Kept
    <2>8. \A p \in Paths \ FilesOf(r) : index'[p] = index[p] /\ Top(repo'.trees)[p] = Top(repo.trees)[p]
        BY <2>t, <2>5, <2>6
    <2>9. FilesInv'
        BY <1>0, <1>2, <2>1, <2>3, <2>4, <2>5, <2>6, <2>7, <2>8, OneWriteMoves
    <2> QED
        BY <1>1, <2>8, <2>9
<1> QED
    BY <1>3, <1>4 DEF Files!Commit

\* The commit is read back, or it is not.
LEMMA ReadsAWrite == ASSUME FilesInv, WritesNamePaths, NEW c \in Writers, Files!ReadBack(c) PROVE FilesInv'
<1>0. /\ writing[c].at = "read" /\ writing[c].at \in Working /\ UNCHANGED <<disk, index, repo>> /\ TRUE \in BOOLEAN
      /\ "ok" \in Files!Ended
    BY DEF Files!ReadBack, Files!At, Working, Files!Ended
<1>2. disk \in Folders /\ index \in Folders /\ repo \in [made : BOOLEAN, trees : Seq(Folders)]
    BY DEF FilesInv
<1>3. CASE Files!Undo(c, TRUE)
    BY <1>0, <1>2, <1>3, UndoesAWrite
<1>4. CASE Files!End(c, "ok", Files!LastCommit(Files!FirstPath(c)))
    <2>1. Files!LastCommit(Files!FirstPath(c)) \in Nat
        BY <1>2, LastCommitIsNat
    <2> QED
        BY <1>0, <1>2, <1>4, <2>1, EndsAWrite
<1> QED
    BY <1>3, <1>4 DEF Files!ReadBack

\* A list that goes back unstages what it staged, or is not let by git, and then puts back what it found.
LEMMA UnstagesAWrite == ASSUME FilesInv, WritesNamePaths, NEW c \in Writers, Files!Unstage(c) PROVE FilesInv'
<1> DEFINE r == writing[c]
<1>0. r.at = "rollback" /\ r.at \in Working /\ UNCHANGED <<disk, repo>>
    BY DEF Files!Unstage, Files!At, Working
<1>1. /\ r \in WritesOf /\ Underway(r) /\ FilesOf(r) = Files!Of(c) /\ FilesOf(r) \subseteq Paths
      /\ Alone(r, disk, Top(repo.trees), index)
    BY <1>0, AWriteUnderway
<1>2. disk \in Folders /\ index \in Folders /\ repo \in [made : BOOLEAN, trees : Seq(Folders)]
    BY DEF FilesInv
<1>3. Files!HeadTree = Top(repo.trees) /\ Top(repo.trees) \in Folders /\ Files!Nothing \in Folders
    BY <1>2, HeadIsTop, TopIsAFolder, NothingIsAFolder
<1>4. ASSUME NEW n \in WritesOf, n.at = "restore", n.shape = r.shape, n.left = r.left, n.marks = r.marks,
             n.made = r.made, n.was = r.was, n.apart = r.apart, writing' = [writing EXCEPT ![c] = n],
             index' \in Folders, \A p \in Paths \ FilesOf(r) : index'[p] = index[p],
             n.unreset \/ \A p \in FilesOf(r) : index'[p] = IF r.staged THEN Top(repo.trees)[p] ELSE index[p]
      PROVE  FilesInv'
    <2>1. Underway(n) /\ FilesOf(n) = FilesOf(r)
        BY <1>0, <1>1, <1>4 DEF Underway, FilesOf, Working
    <2>2. Alone(n, disk', Top(repo'.trees), index')
        <3>1. SUFFICES ASSUME r.apart, NEW p \in FilesOf(r) PROVE Kept(n, p, disk[p], Top(repo.trees)[p], index'[p])
            BY <1>0, <1>4, <2>1 DEF Alone
        <3>2. Kept(r, p, disk[p], Top(repo.trees)[p], index[p])
            BY <1>0, <1>1, <3>1 DEF Alone
        <3> QED
            BY <1>0, <1>4, <3>2 DEF Kept
    <2> QED
        BY <1>0, <1>2, <1>4, <2>1, <2>2, OneWriteMoves
<1>5. CASE Files!Go(c, "restore") /\ index' = IF r.staged THEN Files!Overlay(index, Files!HeadTree, Files!Of(c)) ELSE index
    <2> DEFINE n == Vanished(r, "restore")
    <2>1. writing' = [writing EXCEPT ![c] = n]
        BY <1>5 DEF Files!Go, Files!Step, Vanished
    <2>2. "restore" \in Files!Ended \union Working
        BY DEF Working
    <2>3. /\ n \in WritesOf /\ n.at = "restore" /\ n.shape = r.shape /\ n.left = r.left /\ n.marks = r.marks
          /\ n.made = r.made /\ n.was = r.was /\ n.apart = r.apart
        BY <1>1, <2>2, AGoneWrite
    <2>4. /\ index' \in Folders
          /\ \A p \in Paths : index'[p] = IF r.staged /\ p \in FilesOf(r) THEN Top(repo.trees)[p] ELSE index[p]
        BY <1>1, <1>2, <1>3, <1>5, AnOverlay
    <2> HIDE DEF n
    <2> QED
        BY <1>1, <1>4, <2>1, <2>3, <2>4
<1>6. CASE /\ index' \in {index, Files!Overlay(index, Files!Nothing, Files!Of(c))}
           /\ Files!Step(c, [writing[c] EXCEPT !.at = "restore", !.unreset = TRUE])
    <2> DEFINE n == Unreset(r)
    <2>1. writing' = [writing EXCEPT ![c] = n]
        BY <1>6 DEF Files!Step, Unreset
    <2>2. /\ n \in WritesOf /\ n.at = "restore" /\ n.shape = r.shape /\ n.left = r.left /\ n.marks = r.marks
          /\ n.made = r.made /\ n.was = r.was /\ n.apart = r.apart /\ n.unreset
        BY <1>1, AnUnresetWrite
    <2>3. index' \in Folders /\ \A p \in Paths \ FilesOf(r) : index'[p] = index[p]
        BY <1>1, <1>2, <1>3, <1>6, AnOverlay
    <2> HIDE DEF n
    <2> QED
        BY <1>4, <2>1, <2>2, <2>3
<1> QED
    BY <1>5, <1>6 DEF Files!Unstage

\* What it leaves in its paths, and what it remembers of those it could not put back.
LEMMA RestoreLeaves ==
    ASSUME FilesInv, WritesNamePaths, NEW c \in Writers, Files!Restore(c)
    PROVE  /\ writing[c].at = "restore" /\ writing[c].at \in Working /\ UNCHANGED <<index, repo>> /\ disk' \in Folders
           /\ \A p \in Paths \ Files!Of(c) : disk'[p] = disk[p]
           /\ \E n \in WritesOf :
                /\ writing' = [writing EXCEPT ![c] = n]
                /\ n.at = "refused" /\ n.made = 0 /\ n.shape = Files!NoShape /\ n.unreset = writing[c].unreset
                /\ \A p \in Files!Of(c) \ n.stuck : disk'[p] = writing[c].marks[p]
<1> DEFINE r == writing[c]
<1>0. r.at = "restore" /\ r.at \in Working /\ UNCHANGED <<index, repo>>
    BY DEF Files!Restore, Files!At, Working
<1>1. /\ r \in WritesOf /\ FilesOf(r) = Files!Of(c) /\ Files!Of(c) \subseteq Paths
      /\ r.marks \in Folders /\ r.unreset \in BOOLEAN /\ disk \in Folders /\ writing \in [Writers -> WritesOf]
    BY <1>0, AWriteUnderway DEF FilesInv, WritesOf
<1>2. PICK stuck \in SUBSET Files!Of(c) : \E torn \in SUBSET {p \in stuck : r.marks[p] # NoContent} :
          /\ disk' = [p \in Paths |-> IF p \in torn THEN Torn
                                      ELSE IF p \in Files!Of(c) \ stuck THEN r.marks[p] ELSE disk[p]]
          /\ Files!Step(c, [Files!NewCall EXCEPT !.at = "refused", !.unreset = r.unreset, !.stuck = stuck])
    BY DEF Files!Restore
<1>3. PICK torn \in SUBSET {p \in stuck : r.marks[p] # NoContent} :
          disk' = [p \in Paths |-> IF p \in torn THEN Torn
                                    ELSE IF p \in Files!Of(c) \ stuck THEN r.marks[p] ELSE disk[p]]
    BY <1>2
<1>4. torn \subseteq stuck
    OBVIOUS
<1>5. disk' \in Folders /\ \A p \in Paths \ Files!Of(c) : disk'[p] = disk[p]
    BY <1>1, <1>3, <1>4 DEF Folders, Bytes
<1>6. \A p \in Files!Of(c) \ stuck : disk'[p] = r.marks[p]
    BY <1>1, <1>3, <1>4
<1> DEFINE n == Gave(r.unreset, stuck)
<1>7. stuck \in SUBSET Paths
    BY <1>1
<1>8. n \in WritesOf /\ n.at = "refused" /\ n.made = 0 /\ n.shape = Files!NoShape /\ n.unreset = r.unreset /\ n.stuck = stuck
    BY <1>1, <1>7, AWriteGivenUp
<1>9. writing' = [writing EXCEPT ![c] = n]
    BY <1>2 DEF Files!Step, Gave
<1> HIDE DEF n
<1> QED
    BY <1>0, <1>5, <1>6, <1>8, <1>9
LEMMA RestoresAWrite == ASSUME FilesInv, WritesNamePaths, NEW c \in Writers, Files!Restore(c) PROVE FilesInv'
<1>1. /\ writing[c].at \in Working /\ UNCHANGED <<index, repo>> /\ disk' \in Folders
      /\ \A p \in Paths \ Files!Of(c) : disk'[p] = disk[p]
    BY RestoreLeaves
<1>2. PICK n \in WritesOf : writing' = [writing EXCEPT ![c] = n] /\ n.at = "refused" /\ n.shape = Files!NoShape
    BY RestoreLeaves
<1>3. FilesOf(writing[c]) = Files!Of(c) /\ "refused" \in Files!Ended
    BY <1>1, AWriteUnderway DEF Files!Ended
<1> QED
    BY <1>1, <1>2, <1>3, AWriteIsOver

\* A session that dies, with a file half written or not.
LEMMA DiesInAWrite == ASSUME FilesInv, WritesNamePaths, NEW c \in Writers, Files!Die(c) PROVE FilesInv'
<1> DEFINE r == writing[c]
<1>0. r.at \notin Files!Ended /\ UNCHANGED <<index, repo>> /\ Files!End(c, "dead", 0) /\ "dead" \in Files!Ended
    BY DEF Files!Die, Files!Ended
<1>1. r.at \in Working /\ disk \in Folders
    BY <1>0 DEF FilesInv, WritesOf
<1>2. CASE UNCHANGED disk
    BY <1>0, <1>1, <1>2, EndsAWrite
<1>3. CASE r.at = "write" /\ disk' = [disk EXCEPT ![Head(r.left)] = Torn]
    <2>1. r.left \in Seq(Paths) /\ r.left # << >> /\ Files!Range(r.left) \subseteq FilesOf(r)
        BY <1>1, <1>3, AWriteUnderway DEF Underway
    <2>2. Head(r.left) \in Paths /\ Head(r.left) \in FilesOf(r)
        BY <2>1, RestOfAList DEF Files!Range, ItemsOf
    <2>3. disk' \in Folders /\ \A p \in Paths \ FilesOf(r) : disk'[p] = disk[p]
        BY <1>1, <1>3, <2>2 DEF Folders, Bytes
    <2> QED
        BY <1>0, <1>1, <2>3, EndsAWrite
<1> QED
    BY <1>2, <1>3 DEF Files!Die, Files!At

\* A call is judged: refused, queued, or passed.
LEMMA JudgesAWrite ==
    ASSUME FilesInv, WritesNamePaths, NEW c \in Writers, Files!JudgeOne(c) \/ Files!JudgeList(c) \/ Files!JudgeImport(c)
    PROVE  FilesInv'
<1>0. /\ writing[c].at = "idle" /\ UNCHANGED <<disk, index, repo>> /\ "refused" \in Files!Ended /\ "queued" \in Files!Ended
      /\ disk' \in Folders
    BY DEF Files!JudgeOne, Files!JudgeList, Files!JudgeImport, Files!Judging, Files!At, Files!Ended, FilesInv
<1>1. ASSUME NEW how \in {"refused", "queued"}, Files!End(c, how, 0) PROVE FilesInv'
    BY <1>0, <1>1, EndsAWrite
<1>2. ASSUME NEW s \in Shapes, NEW e \in Int, Files!Passes(c, s, e) PROVE FilesInv'
    BY <1>0, <1>2, PassesAWrite
<1>3. \A e \in {Files!NoSha} \union 1..Files!HeadSha : e \in Int
    BY DEF Files!NoSha, Files!HeadSha
<1>4. Files!NoSha \in Int
    BY DEF Files!NoSha
<1> QED
    BY <1>1, <1>2, <1>3, <1>4 DEF Files!JudgeOne, Files!JudgeList, Files!JudgeImport, Files!Queued, Files!Refuse

\* At first nothing is written.
LEMMA FilesInit == Files!Init => FilesInv
<1> SUFFICES ASSUME Files!Init PROVE FilesInv
    OBVIOUS
<1>1. << >> \in Seq(Folders) /\ disk \in Folders /\ index \in Folders /\ repo = [made |-> FALSE, trees |-> << >>]
    BY NothingIsAFolder DEF Files!Init
<1>2. \A c \in Writers : writing[c] = Files!NewCall /\ Files!NewCall.at = "idle" /\ "idle" \notin Working
                       /\ Files!NewCall.shape = Files!NoShape
    BY ANewWrite DEF Files!Init, Working
<1>3. writing \in [Writers -> WritesOf]
    BY ANewWrite DEF Files!Init
<1> QED
    BY <1>1, <1>2, <1>3 DEF FilesInv, Underway, Alone, Apart

\* Every step of every write.
LEMMA FilesStep == ASSUME WritesNamePaths, FilesInv, [Files!Next]_Files!vars PROVE FilesInv'
<1>1. CASE UNCHANGED Files!vars
    BY <1>1 DEF Files!vars, FilesInv
<1>2. ASSUME NEW c \in Writers, Files!JudgeOne(c) \/ Files!JudgeList(c) \/ Files!JudgeImport(c) \/ Files!CallStep(c) \/ Files!Die(c)
      PROVE  FilesInv'
    BY <1>2, JudgesAWrite, DiesInAWrite, EnsuresOrChecks, WritesAPath, StagesAWrite, StagedGoesOn, CommitsAWrite,
       ReadsAWrite, UnstagesAWrite, RestoresAWrite DEF Files!CallStep
<1> QED
    BY <1>1, <1>2 DEF Files!Next

\* What a step makes of its own write: a list is refused before it touched anything, or once it put
\* back what it could; a write is answered when the head has its content; only a commit commits.
Refusing(c) == Files!Restore(c) \/ (writing[c].at \in {"repo", "sha"} /\ UNCHANGED <<disk, index, repo>>)
Answering(c) ==
    /\ UNCHANGED <<disk, index, repo>>
    /\ \/ writing[c].at = "read"
       \/ writing[c].at = "staged" /\ \A p \in Files!Of(c) : index[p] = Files!HeadTree[p]
Outcome(c) ==
    /\ writing'[c].at = "refused" /\ Files!Form(c) = "list" => Refusing(c)
    /\ writing'[c].at = "ok" => Answering(c)
    /\ writing'[c].made > writing[c].made => Files!Commit(c)

\* What is left of a write that ends, goes on or goes back.
LEMMA AfterAStep ==
    ASSUME FilesInv, NEW c \in Writers
    PROVE  /\ \A how \in Files!Ended, sha \in Nat :
                Files!End(c, how, sha) => writing'[c].at = how /\ ~(writing'[c].made > writing[c].made)
           /\ \A a \in Working : Files!Go(c, a) => writing'[c].at = a /\ writing'[c].made = writing[c].made
           /\ \A s \in BOOLEAN : Files!Undo(c, s) =>
                /\ writing'[c].at # "ok" /\ ~(writing'[c].made > writing[c].made)
                /\ Files!Form(c) = "list" => writing'[c].at # "refused"
<1>1. writing \in [Writers -> WritesOf] /\ writing[c] \in WritesOf /\ writing[c].made \in Nat
    BY DEF FilesInv, WritesOf
<1>2. ASSUME NEW how \in Files!Ended, NEW sha \in Nat, Files!End(c, how, sha)
      PROVE  writing'[c].at = how /\ writing'[c].made = 0
    BY <1>1, <1>2, AnOverWrite DEF Files!End, Files!Step, Over
<1>3. ASSUME NEW a \in Working, Files!Go(c, a) PROVE writing'[c].at = a /\ writing'[c].made = writing[c].made
    BY <1>1, <1>3, AGoneWrite DEF Files!Go, Files!Step, Vanished
<1>4. ASSUME NEW s \in BOOLEAN, Files!Undo(c, s)
      PROVE  /\ writing'[c].at # "ok" /\ ~(writing'[c].made > writing[c].made)
             /\ Files!Form(c) = "list" => writing'[c].at # "refused"
    <2>1. CASE Files!Form(c) = "list"
        <3>1. writing'[c] = Undone(writing[c], "rollback", s)
            BY <1>1, <1>4, <2>1 DEF Files!Undo, Files!Step, Undone
        <3>2. "rollback" \in Files!Ended \union Working
            BY DEF Working
        <3>3. writing'[c].at = "rollback" /\ writing'[c].made = writing[c].made
            BY <1>1, <3>1, <3>2, AUndoneWrite
        <3> QED
            BY <1>1, <3>3
    <2>2. CASE Files!Form(c) # "list"
        <3>1. Files!End(c, "refused", 0) /\ "refused" \in Files!Ended /\ 0 \in Nat
            BY <1>4, <2>2 DEF Files!Undo, Files!Refuse, Files!Ended
        <3>2. writing'[c].at = "refused" /\ writing'[c].made = 0
            BY <1>2, <3>1
        <3> QED
            BY <1>1, <2>2, <3>2
    <2> QED
        BY <2>1, <2>2
<1>5. \A how \in Files!Ended, sha \in Nat :
        Files!End(c, how, sha) => writing'[c].at = how /\ ~(writing'[c].made > writing[c].made)
    BY <1>1, <1>2
<1> QED
    BY <1>3, <1>4, <1>5

\* Every step has one of these outcomes.
LEMMA StepsHaveOutcomes ==
    ASSUME FilesInv, WritesNamePaths, NEW c \in Writers, Files!CallStep(c) \/ Files!Die(c) PROVE Outcome(c)
<1>0. writing \in [Writers -> WritesOf] /\ writing[c] \in WritesOf /\ writing[c].made \in Nat /\ repo.trees \in Seq(Folders)
    BY DEF FilesInv, WritesOf
<1>s. /\ {"ok", "refused", "dead"} \subseteq Files!Ended /\ 0 \in Nat /\ TRUE \in BOOLEAN /\ FALSE \in BOOLEAN
      /\ {"sha", "staged", "commit", "restore"} \subseteq Working
    BY DEF Files!Ended, Working
<1>1. CASE Files!EnsureRepo(c)
    <2>1. CASE Files!Go(c, "sha")
        BY <1>0, <1>s, <2>1, AfterAStep DEF Outcome
    <2>2. CASE Files!Refuse(c) /\ UNCHANGED repo
        BY <1>0, <1>1, <1>s, <2>2, AfterAStep DEF Outcome, Refusing, Files!Refuse, Files!EnsureRepo, Files!At
    <2> QED
        BY <1>1, <2>1, <2>2 DEF Files!EnsureRepo
<1>2. CASE Files!CheckSha(c)
    <2> DEFINE current == IF Files!Form(c) = "one" THEN Files!LastCommit(Files!FirstPath(c)) ELSE Files!HeadSha
               e == IF Files!Form(c) = "one" THEN writing[c].expects ELSE Files!NoSha
               b == IF Files!Form(c) = "one" THEN current ELSE 0
               a == IF Files!Form(c) = "list" THEN "snapshot" ELSE "write"
    <2>1. CASE Files!Refuse(c)
        BY <1>0, <1>2, <1>s, <2>1, AfterAStep DEF Outcome, Refusing, Files!Refuse, Files!CheckSha, Files!At
    <2>2. CASE Files!Step(c, [writing[c] EXCEPT !.expects = e, !.before = b, !.at = a])
        <3>1. writing'[c] = Checked(writing[c], e, b, a)
            BY <1>0, <2>2 DEF Files!Step, Checked
        <3>2. e \in Int /\ b \in Nat /\ a \in Files!Ended \union Working /\ a \in {"snapshot", "write"}
            BY <1>0, LastCommitIsNat DEF WritesOf, Files!NoSha, Files!HeadSha, Working
        <3> HIDE DEF e, b, a, current
        <3>3. PICK r \in WritesOf : r = writing[c]
            BY <1>0
        <3>4. e \in Int /\ b \in Nat /\ a \in Files!Ended \union Working
            BY <3>2
        <3>5. Checked(r, e, b, a).at = a /\ Checked(r, e, b, a).made = r.made
            BY <3>4, ACheckedWrite
        <3> QED
            BY <1>0, <3>1, <3>2, <3>3, <3>5 DEF Outcome
    <2> QED
        BY <1>2, <2>1, <2>2 DEF Files!CheckSha
<1>3. CASE Files!Snapshot(c)
    <2>1. writing'[c] = Marked(writing[c], "write", disk) /\ disk \in Folders /\ "write" \in Files!Ended \union Working
        BY <1>0, <1>3 DEF Files!Snapshot, Files!Step, Marked, FilesInv, Working
    <2>2. writing'[c].at = "write" /\ writing'[c].made = writing[c].made
        BY <1>0, <2>1, AMarkedWrite
    <2> QED
        BY <1>0, <2>2 DEF Outcome
<1>4. CASE Files!WritePath(c)
    <2> DEFINE rest == Tail(writing[c].left)
               a == IF rest = << >> THEN "stage" ELSE writing[c].at
    <2>1. CASE Files!Undo(c, FALSE)
        BY <1>0, <1>s, <2>1, AfterAStep DEF Outcome
    <2>2. CASE Files!Step(c, [writing[c] EXCEPT !.left = rest, !.at = a])
        <3>0. writing[c].at = "write" /\ writing[c].at \in Working
            BY <1>4 DEF Files!WritePath, Files!At, Working
        <3>1. writing'[c] = Wrote(writing[c], rest, a)
            BY <1>0, <2>2 DEF Files!Step, Wrote
        <3>2. rest \in Seq(Paths) /\ a \in Files!Ended \union Working /\ a \in {"stage", "write"}
            <4>1. writing[c].left \in Seq(Paths) /\ writing[c].left # << >>
                BY <3>0, AWriteUnderway DEF Underway
            <4> QED
                BY <3>0, <4>1 DEF Working
        <3> HIDE DEF rest, a
        <3>3. writing'[c].at = a /\ writing'[c].made = writing[c].made
            BY <1>0, <3>1, <3>2, AWroteWrite
        <3> QED
            BY <1>0, <3>2, <3>3 DEF Outcome
    <2> QED
        BY <1>4, <2>1, <2>2 DEF Files!WritePath
<1>5. CASE Files!Stage(c)
    <2>1. CASE Files!Go(c, "staged")
        BY <1>0, <1>s, <2>1, AfterAStep DEF Outcome
    <2>2. CASE Files!Undo(c, TRUE)
        BY <1>0, <1>s, <2>2, AfterAStep DEF Outcome
    <2> QED
        BY <1>5, <2>1, <2>2 DEF Files!Stage
<1>6. CASE Files!Staged(c)
    <2> DEFINE before == IF Files!Form(c) = "one" THEN writing[c].before ELSE Files!LastCommit(Files!FirstPath(c))
    <2>1. CASE Files!Go(c, "commit")
        BY <1>0, <1>s, <2>1, AfterAStep DEF Outcome
    <2>3. CASE Files!Undo(c, TRUE)
        BY <1>0, <1>s, <2>3, AfterAStep DEF Outcome
    <2>2. CASE Files!End(c, "ok", before) /\ \A p \in Files!Of(c) : index[p] = Files!HeadTree[p]
        <3>1. before \in Nat
            BY <1>0, LastCommitIsNat DEF WritesOf
        <3> HIDE DEF before
        <3>2. writing'[c].at = "ok" /\ ~(writing'[c].made > writing[c].made)
            BY <1>s, <2>2, <3>1, AfterAStep
        <3>3. Answering(c)
            BY <1>6, <2>2 DEF Answering, Files!Staged, Files!At
        <3> QED
            BY <3>2, <3>3 DEF Outcome
    <2> QED
        BY <1>6, <2>1, <2>2, <2>3 DEF Files!Staged
<1>7. CASE Files!Commit(c)
    <2>1. CASE Files!Undo(c, TRUE)
        BY <1>0, <1>s, <2>1, AfterAStep DEF Outcome
    <2>2. CASE Files!Step(c, [writing[c] EXCEPT !.at = "read", !.made = Files!HeadSha + 1])
        <3>1. /\ writing'[c] = Committed(writing[c], "read", Files!HeadSha + 1)
              /\ Files!HeadSha + 1 \in Nat /\ "read" \in Files!Ended \union Working
            BY <1>0, <2>2 DEF Files!Step, Committed, Files!HeadSha, Working
        <3>2. writing'[c].at = "read"
            BY <1>0, <3>1, ACommittedWrite
        <3> QED
            BY <1>7, <3>2 DEF Outcome
    <2> QED
        BY <1>7, <2>1, <2>2 DEF Files!Commit
<1>8. CASE Files!ReadBack(c)
    <2>1. CASE Files!Undo(c, TRUE)
        BY <1>0, <1>s, <2>1, AfterAStep DEF Outcome
    <2>2. CASE Files!End(c, "ok", Files!LastCommit(Files!FirstPath(c)))
        <3>1. Files!LastCommit(Files!FirstPath(c)) \in Nat
            BY <1>0, LastCommitIsNat
        <3>2. writing'[c].at = "ok" /\ ~(writing'[c].made > writing[c].made)
            BY <1>s, <2>2, <3>1, AfterAStep
        <3>3. Answering(c)
            BY <1>8 DEF Answering, Files!ReadBack, Files!At
        <3> QED
            BY <3>2, <3>3 DEF Outcome
    <2> QED
        BY <1>8, <2>1, <2>2 DEF Files!ReadBack
<1>9. CASE Files!Unstage(c)
    <2>1. CASE Files!Go(c, "restore")
        BY <1>0, <1>s, <2>1, AfterAStep DEF Outcome
    <2>2. CASE Files!Step(c, [writing[c] EXCEPT !.at = "restore", !.unreset = TRUE])
        <3>1. writing'[c] = Unreset(writing[c])
            BY <1>0, <2>2 DEF Files!Step, Unreset
        <3>2. writing'[c].at = "restore" /\ writing'[c].made = writing[c].made
            BY <1>0, <3>1, AnUnresetWrite
        <3> QED
            BY <1>0, <3>2 DEF Outcome
    <2> QED
        BY <1>9, <2>1, <2>2 DEF Files!Unstage
<1>10. CASE Files!Restore(c)
    <2>1. PICK n \in WritesOf : writing' = [writing EXCEPT ![c] = n] /\ n.at = "refused" /\ n.made = 0
        BY <1>10, RestoreLeaves
    <2>2. writing'[c].at = "refused" /\ writing'[c].made = 0
        BY <1>0, <2>1
    <2> QED
        BY <1>0, <1>10, <2>2 DEF Outcome, Refusing
<1>11. CASE Files!Die(c)
    <2>1. Files!End(c, "dead", 0)
        BY <1>11 DEF Files!Die
    <2> QED
        BY <1>s, <2>1, AfterAStep DEF Outcome
<1> QED
    BY <1>1, <1>2, <1>3, <1>4, <1>5, <1>6, <1>7, <1>8, <1>9, <1>10, <1>11 DEF Files!CallStep

\* A step of a write leaves where the others are, and what they committed, as it was.
LEMMA OthersStand ==
    ASSUME FilesInv, NEW c \in Writers, NEW d \in Writers, d # c,
           Files!JudgeOne(c) \/ Files!JudgeList(c) \/ Files!JudgeImport(c) \/ Files!CallStep(c) \/ Files!Die(c)
    PROVE  writing'[d].at = writing[d].at /\ writing'[d].made = writing[d].made
<1>0. writing \in [Writers -> WritesOf] /\ writing[d] \in WritesOf
    BY DEF FilesInv
<1>1. ASSUME NEW rec, Files!Step(c, rec) PROVE writing'[d] = writing[d]
    BY <1>0, <1>1 DEF Files!Step
<1>2. \A a : Files!Go(c, a) => writing'[d] = writing[d]
    BY <1>1 DEF Files!Go
<1>3. \A how, sha : Files!End(c, how, sha) => writing'[d] = writing[d]
    BY <1>1 DEF Files!End
<1>4. Files!Refuse(c) => writing'[d] = writing[d]
    BY <1>3 DEF Files!Refuse
<1>5. \A s : Files!Undo(c, s) => writing'[d] = writing[d]
    BY <1>1, <1>4 DEF Files!Undo
<1>6. ASSUME NEW s, NEW e, Files!Passes(c, s, e) PROVE writing'[d].at = writing[d].at /\ writing'[d].made = writing[d].made
    <2> DEFINE b == writing[d].apart /\ ~Files!Clash(d, Files!Range(s.paths))
    <2>1. writing'[d] = Distanced(writing[d], b)
        BY <1>6 DEF Files!Passes, Distanced
    <2>2. b \in BOOLEAN
        OBVIOUS
    <2> HIDE DEF b
    <2> QED
        BY <1>0, <2>1, <2>2, ADistancedWrite
<1>7. CASE Files!JudgeOne(c) \/ Files!JudgeList(c) \/ Files!JudgeImport(c)
    BY <1>3, <1>4, <1>6, <1>7 DEF Files!JudgeOne, Files!JudgeList, Files!JudgeImport, Files!Queued
<1>8. CASE Files!EnsureRepo(c) \/ Files!CheckSha(c) \/ Files!Snapshot(c)
    BY <1>1, <1>2, <1>4, <1>8 DEF Files!EnsureRepo, Files!CheckSha, Files!Snapshot
<1>9. CASE Files!WritePath(c) \/ Files!Stage(c) \/ Files!Staged(c)
    BY <1>1, <1>2, <1>3, <1>5, <1>9 DEF Files!WritePath, Files!Stage, Files!Staged
<1>10. CASE Files!Commit(c) \/ Files!ReadBack(c)
    BY <1>1, <1>3, <1>5, <1>10 DEF Files!Commit, Files!ReadBack
<1>11. CASE Files!Unstage(c) \/ Files!Restore(c) \/ Files!Die(c)
    BY <1>1, <1>2, <1>3, <1>11 DEF Files!Unstage, Files!Restore, Files!Die
<1> QED
    BY <1>7, <1>8, <1>9, <1>10, <1>11 DEF Files!CallStep

\* A call that is judged was no list before, and is not answered with a version.
LEMMA JudgedHasAnOutcome ==
    ASSUME FilesInv, NEW c \in Writers, Files!JudgeOne(c) \/ Files!JudgeList(c) \/ Files!JudgeImport(c)
    PROVE  Outcome(c)
<1>1. writing \in [Writers -> WritesOf] /\ Underway(writing[c]) /\ writing[c].at = "idle" /\ "idle" \notin Working
    BY DEF FilesInv, Files!JudgeOne, Files!JudgeList, Files!JudgeImport, Files!Judging, Files!At, Working
<1>2. Files!Form(c) # "list" /\ writing[c].made \in Nat
    BY <1>1 DEF Underway, Files!Form, Files!NoShape, WritesOf
<1>3. ASSUME NEW how \in {"refused", "queued"}, Files!End(c, how, 0) PROVE Outcome(c)
    <2>1. how \in Files!Ended /\ 0 \in Nat
        BY DEF Files!Ended
    <2>2. writing'[c].at = how /\ ~(writing'[c].made > writing[c].made)
        BY <1>3, <2>1, AfterAStep
    <2> QED
        BY <1>2, <2>2 DEF Outcome
<1>4. ASSUME NEW s, NEW e, Files!Passes(c, s, e) PROVE Outcome(c)
    <2> DEFINE w == [disk |-> disk, head |-> Files!HeadTree, index |-> index]
               b == \A f \in Writers : ~Files!Clash(f, Files!Range(s.paths))
               k == Files!NewCall
    <2>1. writing'[c] = [k EXCEPT !.at = "repo", !.shape = s, !.expects = e, !.left = s.paths, !.was = w, !.apart = b]
        BY <1>4 DEF Files!Passes
    <2>2. k \in WritesOf /\ k.made = 0
        BY ANewWrite DEF Files!NewCall
    <2> HIDE DEF k, w, b
    <2>3. writing'[c].at = "repo" /\ writing'[c].made = 0
        BY <2>1, <2>2 DEF WritesOf
    <2> QED
        BY <1>2, <2>3 DEF Outcome
<1> QED
    BY <1>3, <1>4 DEF Files!JudgeOne, Files!JudgeList, Files!JudgeImport, Files!Queued, Files!Refuse

\* What the outcome of a write has left in its paths.
LEMMA OutcomesAreTrue ==
    ASSUME FilesInv, WritesNamePaths, NEW c \in Writers, Outcome(c)
    PROVE  /\ writing'[c].at = "refused" /\ Files!Form(c) = "list" /\ writing[c].apart =>
                \A p \in Files!Of(c) :
                   /\ p \notin writing'[c].stuck => disk'[p] = writing[c].was.disk[p]
                   /\ writing[c].made = 0 => Files!HeadTree[p] = writing[c].was.head[p]
                   /\ ~writing'[c].unreset => index'[p] \in {Files!HeadTree[p], writing[c].was.index[p]}
           /\ writing'[c].at = "ok" /\ writing[c].apart =>
                \A p \in Files!Of(c) : Files!HeadTree[p] = Files!Content(c)
           /\ writing'[c].made > writing[c].made =>
                \A p \in Paths \ Files!Of(c) : (Files!HeadTree)'[p] = Files!HeadTree[p]
<1> DEFINE r == writing[c]
<1>k. ASSUME r.at \in Working, r.apart, NEW p \in Files!Of(c)
      PROVE  p \in Paths /\ Kept(r, p, disk[p], Files!HeadTree[p], index[p])
    <2>1. Alone(r, disk, Top(repo.trees), index) /\ FilesOf(r) = Files!Of(c) /\ FilesOf(r) \subseteq Paths
        BY <1>k, AWriteUnderway
    <2> QED
        BY <1>k, <2>1, HeadIsTop DEF Alone
<1>1. ASSUME Refusing(c), Files!Form(c) = "list", r.apart, NEW p \in Files!Of(c)
      PROVE  /\ p \notin writing'[c].stuck => disk'[p] = r.was.disk[p]
             /\ r.made = 0 => Files!HeadTree[p] = r.was.head[p]
             /\ ~writing'[c].unreset => index'[p] \in {Files!HeadTree[p], r.was.index[p]}
    <2>1. CASE r.at \in {"repo", "sha"} /\ UNCHANGED <<disk, index, repo>>
        <3>1. Kept(r, p, disk[p], Files!HeadTree[p], index[p])
            BY <1>1, <1>k, <2>1 DEF Working
        <3> QED
            BY <2>1, <3>1 DEF Kept
    <2>2. CASE Files!Restore(c)
        <3>1. r.at = "restore" /\ r.at \in Working /\ index' = index
            BY <2>2, RestoreLeaves
        <3>2. PICK n \in WritesOf : /\ writing' = [writing EXCEPT ![c] = n] /\ n.unreset = r.unreset
                                    /\ \A q \in Files!Of(c) \ n.stuck : disk'[q] = r.marks[q]
            BY <2>2, RestoreLeaves
        <3>3. writing'[c] = n
            BY <3>2 DEF FilesInv
        <3>4. Kept(r, p, disk[p], Files!HeadTree[p], index[p])
            BY <1>1, <1>k, <3>1
        <3> QED
            BY <1>1, <3>1, <3>2, <3>3, <3>4 DEF Kept, Files!Form
    <2> QED
        BY <1>1, <2>1, <2>2 DEF Refusing
<1>2. ASSUME Answering(c), r.apart, NEW p \in Files!Of(c) PROVE Files!HeadTree[p] = Files!Content(c)
    <2>1. r.at \in {"staged", "read"} /\ r.at \in Working /\ (r.at = "staged" => index[p] = Files!HeadTree[p])
        BY <1>2 DEF Answering, Working
    <2>2. Kept(r, p, disk[p], Files!HeadTree[p], index[p])
        BY <1>2, <1>k, <2>1
    <2> QED
        BY <2>1, <2>2 DEF Kept, Files!Content
<1>3. ASSUME Files!Commit(c), writing'[c].made > writing[c].made, NEW p \in Paths \ Files!Of(c)
      PROVE  (Files!HeadTree)'[p] = Files!HeadTree[p]
    <2>1. Top(repo'.trees)[p] = Top(repo.trees)[p]
        BY <1>3, CommitsAWrite
    <2> QED
        BY <2>1, HeadIsTop
<1> QED
    BY <1>1, <1>2, <1>3 DEF Outcome

\* Whatever calls write beside each other, whichever step fails, those of rollback included, and whatever
\* session dies, for every number of calls and of failures: a write that shares no path with another and
\* is answered is in the head, in its paths and in no other; a list that is refused left the head as it
\* was in its paths unless it had made its commit, every file that rollback could put back as it found it,
\* and nothing staged of its own unless git refused rollback too.
THEOREM WritesStayVersions ==
    ASSUME WritesNamePaths PROVE Files!Spec => WritesAreVersions
<1> DEFINE Reverted(c) ==
        writing'[c].at = "refused" /\ ~Files!At(c, "refused") /\ Files!Form(c) = "list" /\ writing[c].apart =>
            \A p \in Files!Of(c) :
               /\ p \notin writing'[c].stuck => disk'[p] = writing[c].was.disk[p]
               /\ writing[c].made = 0 => Files!HeadTree[p] = writing[c].was.head[p]
               /\ ~writing'[c].unreset => index'[p] \in {Files!HeadTree[p], writing[c].was.index[p]}
           Versioned(c) ==
        /\ writing'[c].at = "ok" /\ ~Files!At(c, "ok") /\ writing[c].apart =>
              \A p \in Files!Of(c) : Files!HeadTree[p] = Files!Content(c)
        /\ writing'[c].made > writing[c].made =>
              \A p \in Paths \ Files!Of(c) : (Files!HeadTree)'[p] = Files!HeadTree[p]
<1>1. FilesInv /\ [Files!Next]_Files!vars => FilesInv'
    BY FilesStep
<1>2. ASSUME FilesInv, Files!Next, NEW d \in Writers PROVE Reverted(d) /\ Versioned(d)
    <2>1. PICK c \in Writers :
            Files!JudgeOne(c) \/ Files!JudgeList(c) \/ Files!JudgeImport(c) \/ Files!CallStep(c) \/ Files!Die(c)
        BY <1>2 DEF Files!Next
    <2>2. CASE d = c
        <3>1. Outcome(c)
            BY <1>2, <2>1, JudgedHasAnOutcome, StepsHaveOutcomes
        <3> QED
            BY <1>2, <2>2, <3>1, OutcomesAreTrue
    <2>3. CASE d # c
        <3>1. writing'[d].at = writing[d].at /\ writing'[d].made = writing[d].made /\ writing[d].made \in Nat
            BY <1>2, <2>1, <2>3, OthersStand DEF FilesInv, WritesOf
        <3> QED
            BY <3>1 DEF Files!At
    <2> QED
        BY <2>2, <2>3
<1>3. FilesInv /\ [Files!Next]_Files!vars => [\A c \in Writers : Reverted(c)]_Files!vars
    BY <1>2
<1>4. FilesInv /\ [Files!Next]_Files!vars => [\A c \in Writers : Versioned(c)]_Files!vars
    BY <1>2
<1>5. Files!Spec => [][\A c \in Writers : Reverted(c)]_Files!vars
    BY <1>1, <1>3, FilesInit, PTL DEF Files!Spec
<1>6. Files!Spec => [][\A c \in Writers : Versioned(c)]_Files!vars
    BY <1>1, <1>4, FilesInit, PTL DEF Files!Spec
<1> QED
    BY <1>5, <1>6 DEF WritesAreVersions, Files!RefusedListIsUndone, Files!AnsweredIsCommitted

-----------------------------------------------------------------------------
\* The units of a manifest are a list.
UnitsAreListed == \A m \in Manifests : m.units \in Seq(Declared!UnitsOf(m))

\* The call of proc_run.
CallFields == {"pc", "of", "digest", "prev", "old", "lost", "answer"}
IsARun(c) == DOMAIN c = CallFields
LEMMA QuietIsARun == IsARun(Declared!Quiet) /\ Declared!Quiet.pc = "idle" /\ Declared!Quiet.old = {}
  BY DEF IsARun, CallFields, Declared!Quiet

\* A registration that no start would refuse by what it declares, and the one a run is starting.
Fine(r) == Declared!runOptions(r.of)
Numbered(S, n) == \A r \in S : r.id \in Nat /\ r.id <= n
DeclaredInv ==
    /\ IsARun(running) /\ runs \in Nat /\ manifest \in Manifests
    /\ running.pc \in {"idle", "find", "remove", "register", "start"}
    /\ Numbered(registered, runs)
    /\ \A r \in registered : Fine(r) \/ (running.pc = "start" /\ r.id = runs)
    /\ running.pc = "start" => \A r, q \in registered : r.id = runs /\ q.id = runs => r = q
    /\ running.pc \in {"find", "remove", "register"} =>
          /\ running.of \in Manifests /\ Declared!Sound(running.of)
          /\ \A r \in registered : r.id # runs
          /\ Numbered(running.old, runs)
          /\ running.old # {} => Declared!Scheduled(Declared!Face(running.of))

\* What is registered as a job was read whole.
LEMMA AJobIsFine ==
    ASSUME UnitsAreListed, NEW m \in Manifests, Declared!Sound(m), Declared!Registrable(m),
           Declared!Scheduled(Declared!Face(m))
    PROVE  Declared!runOptions(m)
<1> DEFINE V == Declared!UnitsOf(m)
           exposed == {i \in DOMAIN m.units : Declared!Exposed(m.units[i])}
<1>0. m.units \in Seq(V) /\ DOMAIN m.units = 1..Len(m.units) /\ Len(m.units) \in Nat
    BY DEF UnitsAreListed
<1>1. CASE Declared!Composed(m)
    <2>1. Declared!Cardinality(exposed) = 1
        BY <1>1 DEF Declared!Registrable, Declared!validateUnits
    <2>2. exposed # {}
        <3>1. Declared!Cardinality({}) = Cardinality({})
            BY DEF Declared!Cardinality, Cardinality
        <3> QED
            BY <2>1, <3>1, FS_EmptySet
    <2>3. \E u \in V : Declared!Exposed(u)
        BY <2>2 DEF Declared!UnitsOf
    <2>4. Declared!Face(m) \in V
        BY <1>1, <2>3 DEF Declared!Face
    <2> QED
        BY <1>1, <2>4 DEF Declared!Sound
<1>2. CASE ~Declared!Composed(m)
    <2>1. \A u \in V : u = Declared!Face(m)
        BY <1>0, <1>2 DEF Declared!UnitsOf, Declared!Composed, Declared!Face
    <2>2. Declared!checkEnv(Declared!OwnEnv(Declared!Face(m)))
        BY DEF Declared!Registrable, Declared!validateSchedule
    <2> QED
        BY <2>1, <2>2 DEF Declared!runOptions
<1> QED
    BY <1>1, <1>2

\* A move of the world beside the run.
LEMMA TheWorldMoves ==
    ASSUME DeclaredInv, UNCHANGED <<registered, running, runs>>, manifest' \in Manifests PROVE DeclaredInv'
  BY DEF DeclaredInv, Numbered, Fine

\* A run that is read, and what it finds.
LEMMA RunReads == ASSUME DeclaredInv, Declared!Run PROVE DeclaredInv'
<1>0. /\ runs \in Nat /\ runs' = runs + 1 /\ UNCHANGED <<registered, manifest>> /\ manifest \in Manifests
      /\ \A r \in registered : Fine(r) /\ r.id \in Nat /\ r.id <= runs
    BY DEF DeclaredInv, Declared!Run, Declared!At, Declared!Still, Numbered
<1>1. Numbered(registered', runs') /\ Numbered({}, runs') /\ \A r \in registered : r.id # runs'
    BY <1>0 DEF Numbered
<1>2. CASE Declared!Sound(manifest)
    <2>1. running' = [Declared!Quiet EXCEPT !.pc = "find", !.of = manifest, !.digest = built]
        BY <1>2 DEF Declared!Run
    <2>2. IsARun(running') /\ running'.pc = "find" /\ running'.of = manifest /\ running'.old = {}
        BY <2>1, QuietIsARun DEF IsARun, CallFields
    <2> QED
        BY <1>0, <1>1, <1>2, <2>2 DEF DeclaredInv
<1>3. CASE ~Declared!Sound(manifest)
    <2>1. running' = [Declared!Quiet EXCEPT !.of = manifest, !.answer = "refused"]
        BY <1>3 DEF Declared!Run
    <2>2. IsARun(running') /\ running'.pc = "idle"
        BY <2>1, QuietIsARun DEF IsARun, CallFields
    <2> QED
        BY <1>0, <1>1, <2>2 DEF DeclaredInv
<1> QED
    BY <1>2, <1>3
LEMMA RunFinds == ASSUME DeclaredInv, Declared!Find \/ Declared!FindJob PROVE DeclaredInv'
<1>0. /\ running.pc = "find" /\ IsARun(running) /\ UNCHANGED <<registered, manifest, runs>> /\ runs \in Nat /\ manifest \in Manifests
      /\ Numbered(registered, runs) /\ Numbered(running.old, runs)
    BY DEF DeclaredInv, Declared!Find, Declared!FindJob, Declared!At, Declared!Still
<1>1. ASSUME IsARun(running'), running'.of = running.of, running'.old = running.old, running'.pc \in {"idle", "remove", "register"}
      PROVE  DeclaredInv'
    BY <1>0, <1>1 DEF DeclaredInv, Numbered, Fine
<1>2. ASSUME NEW a, Declared!Answer(a) PROVE DeclaredInv'
    BY <1>0, <1>1, <1>2 DEF Declared!Answer, IsARun, CallFields
<1>3. CASE Declared!Find
    <2> DEFINE here == {c \in up : c.name = Declared!RunsAs(running.of)}
    <2>1. \/ running' = [running EXCEPT !.pc = "register"]
          \/ \E a : Declared!Answer(a)
          \/ \E c : running' = [running EXCEPT !.pc = "remove", !.prev = c.id]
        <3>1. here = {} \/ here # {}
            OBVIOUS
        <3> QED
            BY <1>3 DEF Declared!Find, Declared!To
    <2>2. CASE running' = [running EXCEPT !.pc = "register"]
        BY <1>0, <1>1, <2>2 DEF IsARun, CallFields
    <2>3. ASSUME NEW c, running' = [running EXCEPT !.pc = "remove", !.prev = c.id] PROVE DeclaredInv'
        BY <1>0, <1>1, <2>3 DEF IsARun, CallFields
    <2> QED
        BY <1>2, <2>1, <2>2, <2>3
<1>4. CASE Declared!FindJob
    <2>1. PICK old \in IF registered = {} THEN {{}} ELSE {{r} : r \in registered} :
             \/ \E a : Declared!Answer(a)
             \/ \E x, z : /\ z \in {"register", "remove"}
                          /\ running' = [running EXCEPT !.old = old, !.prev = x, !.pc = z]
        BY <1>4 DEF Declared!FindJob
    <2>2. Numbered(old, runs) /\ Declared!Scheduled(Declared!Face(running.of))
        <3>1. Declared!Scheduled(Declared!Face(running.of))
            BY <1>4 DEF Declared!FindJob
        <3>2. old \subseteq registered
            OBVIOUS
        <3> QED
            BY <1>0, <3>1, <3>2 DEF Numbered
    <2>3. ASSUME NEW x, NEW z \in {"register", "remove"}, running' = [running EXCEPT !.old = old, !.prev = x, !.pc = z]
          PROVE  DeclaredInv'
        <3>1. IsARun(running') /\ running'.pc = z /\ running'.of = running.of /\ running'.old = old
            BY <1>0, <2>3 DEF IsARun, CallFields
        <3> QED
            BY <1>0, <2>2, <3>1 DEF DeclaredInv, Fine
    <2> QED
        BY <1>2, <2>1, <2>3
<1> QED
    BY <1>3, <1>4

\* What ran before goes, and the registration is written.
LEMMA RunRemoves == ASSUME DeclaredInv, Declared!Remove PROVE DeclaredInv'
<1>0. /\ running.pc = "remove" /\ IsARun(running) /\ registered' \subseteq registered /\ UNCHANGED <<manifest, runs>>
    BY DEF DeclaredInv, Declared!Remove, Declared!At, Declared!Still
<1>1. IsARun(running') /\ running'.pc = "register" /\ running'.of = running.of /\ running'.old = running.old
    BY <1>0 DEF Declared!Remove, IsARun, CallFields
<1> QED
    BY <1>0, <1>1 DEF DeclaredInv, Numbered, Fine
LEMMA RunRegisters == ASSUME UnitsAreListed, DeclaredInv, Declared!Register PROVE DeclaredInv'
<1> DEFINE moved == \E r \in running.old : Declared!Moved(r)
           id    == IF moved THEN (CHOOSE r \in running.old : TRUE).id ELSE runs
           entry   == [id |-> id, of |-> running.of, digest |-> running.digest]
<1>0. /\ running.pc = "register" /\ IsARun(running) /\ UNCHANGED <<manifest, runs>> /\ runs \in Nat /\ manifest \in Manifests
      /\ Numbered(registered, runs) /\ Numbered(running.old, runs) /\ running.of \in Manifests /\ Declared!Sound(running.of)
      /\ \A r \in registered : r.id # runs /\ Fine(r)
      /\ running.old # {} => Declared!Scheduled(Declared!Face(running.of))
    BY DEF DeclaredInv, Declared!Register, Declared!At, Declared!Still
<1>1. id \in Nat /\ id <= runs /\ (id # runs => moved) /\ (~moved => id = runs)
    BY <1>0 DEF Numbered
<1>2. entry.id = id /\ entry.of = running.of
    OBVIOUS
<1>3. moved => Declared!Scheduled(Declared!Face(running.of))
    BY <1>0
<1>4. \/ /\ Declared!Registrable(running.of) /\ registered' = (registered \ running.old) \union {entry}
         /\ IF Declared!Scheduled(Declared!Face(running.of)) THEN Declared!Answer("registered") ELSE Declared!To("start")
      \/ registered' \subseteq registered /\ Declared!Answer("refused")
    BY DEF Declared!Register
<1> HIDE DEF entry, id, moved
<1>5. CASE registered' \subseteq registered /\ Declared!Answer("refused")
    <2>1. IsARun(running') /\ running'.pc = "idle"
        BY <1>0, <1>5 DEF Declared!Answer, IsARun, CallFields
    <2> QED
        BY <1>0, <1>5, <2>1 DEF DeclaredInv, Numbered
<1>6. CASE /\ Declared!Registrable(running.of) /\ registered' = (registered \ running.old) \union {entry}
           /\ Declared!Scheduled(Declared!Face(running.of)) /\ Declared!Answer("registered")
    <2>1. IsARun(running') /\ running'.pc = "idle"
        BY <1>0, <1>6 DEF Declared!Answer, IsARun, CallFields
    <2>2. Fine(entry)
        BY <1>0, <1>2, <1>6, AJobIsFine DEF Fine
    <2> QED
        BY <1>0, <1>1, <1>2, <1>6, <2>1, <2>2 DEF DeclaredInv, Numbered
<1>7. CASE /\ registered' = (registered \ running.old) \union {entry}
           /\ ~Declared!Scheduled(Declared!Face(running.of)) /\ Declared!To("start")
    <2>1. IsARun(running') /\ running'.pc = "start"
        BY <1>0, <1>7 DEF Declared!To, IsARun, CallFields
    <2>2. id = runs
        BY <1>1, <1>3, <1>7
    <2> QED
        BY <1>0, <1>1, <1>2, <1>7, <2>1, <2>2 DEF DeclaredInv, Numbered
<1> QED
    BY <1>4, <1>5, <1>6, <1>7

\* A Process that is refused its start loses its registration, and one that starts was checked.
LEMMA RunStarts == ASSUME DeclaredInv, Declared!Start PROVE DeclaredInv'
<1>0. /\ running.pc = "start" /\ IsARun(running) /\ UNCHANGED <<manifest, runs>> /\ runs \in Nat /\ manifest \in Manifests
      /\ Numbered(registered, runs) /\ \A r \in registered : Fine(r) \/ r.id = runs
      /\ \A r, q \in registered : r.id = runs /\ q.id = runs => r = q
    BY DEF DeclaredInv, Declared!Start, Declared!At, Declared!Still
<1>1. PICK r \in registered :
        /\ r.id = runs
        /\ \/ registered' = registered \ {r}
           \/ registered' = registered /\ Declared!Startable(r.of)
        /\ \/ \E a : running' = [running EXCEPT !.pc = "idle", !.answer = a]
           \/ \E a, l : running' = [running EXCEPT !.pc = "idle", !.answer = a, !.lost = l]
    <2> DEFINE pods(r) == {o \in up : Declared!Composed(r.of) /\ Declared!Composed(o.of)}
               fails(r) == registered' = registered \ {r} /\ up' = up \ pods(r)
                       /\ running' = [running EXCEPT !.pc = "idle", !.answer = "refused",
                                               !.lost = @ \/ \E o \in pods(r) : o.state = "running"]
               starts(r) == up' = up \union {Declared!Container(r)} /\ UNCHANGED registered /\ Declared!Answer("running")
    <2>1. PICK r \in registered : /\ r.id = runs
            /\ CASE ~Declared!Startable(r.of) -> registered' = registered \ {r} /\ UNCHANGED up /\ Declared!Answer("refused")
                [] Declared!Startable(r.of) /\ pods(r) # {} -> fails(r)
                [] OTHER -> starts(r) \/ (up # {} /\ fails(r))
        BY DEF Declared!Start
    <2>2. \/ registered' = registered \ {r} /\ Declared!Answer("refused")
          \/ fails(r)
          \/ starts(r) /\ Declared!Startable(r.of)
        BY <2>1
    <2>3. CASE registered' = registered \ {r} /\ Declared!Answer("refused")
        BY <2>1, <2>3 DEF Declared!Answer
    <2>4. CASE fails(r)
        BY <2>1, <2>4
    <2>5. CASE starts(r) /\ Declared!Startable(r.of)
        BY <2>1, <2>5 DEF Declared!Answer
    <2> QED
        BY <2>2, <2>3, <2>4, <2>5
<1>2. IsARun(running') /\ running'.pc = "idle"
    BY <1>0, <1>1 DEF IsARun, CallFields
<1>3. \A q \in registered' : q \in registered /\ Fine(q)
    BY <1>0, <1>1 DEF Fine, Declared!Startable
<1> QED
    BY <1>0, <1>2, <1>3 DEF DeclaredInv, Numbered

\* Nothing is registered that no start could ever run, whatever manifests are written, built and run in whatever order, and whatever the world does.
THEOREM EveryStartMayWork ==
    ASSUME UnitsAreListed PROVE Declared!Spec => []NothingFailsEveryStart
<1>1. Declared!Init => DeclaredInv
    BY QuietIsARun DEF Declared!Init, DeclaredInv, Numbered
<1>2. DeclaredInv /\ [Declared!Next]_Declared!vars => DeclaredInv'
    <2> SUFFICES ASSUME DeclaredInv, [Declared!Next]_Declared!vars PROVE DeclaredInv'
        OBVIOUS
    <2>0. manifest \in Manifests
        BY DEF DeclaredInv
    <2>1. CASE UNCHANGED Declared!vars
        BY <2>0, <2>1, TheWorldMoves DEF Declared!vars
    <2>2. CASE Declared!Build \/ Declared!World \/ Declared!Ends
        BY <2>0, <2>2, TheWorldMoves DEF Declared!Build, Declared!World, Declared!Ends
    <2>3. ASSUME NEW m \in Manifests, Declared!Edit(m) PROVE DeclaredInv'
        BY <2>3, TheWorldMoves DEF Declared!Edit
    <2> QED
        BY <2>1, <2>2, <2>3, RunReads, RunFinds, RunRemoves, RunRegisters, RunStarts DEF Declared!Next
<1>3. DeclaredInv => NothingFailsEveryStart
    BY DEF DeclaredInv, NothingFailsEveryStart, Declared!NothingFailsEveryStart, Declared!At, Fine
<1> QED
    BY <1>1, <1>2, <1>3, PTL DEF Declared!Spec

-----------------------------------------------------------------------------
\* A member has a name, and nobody is none of them.
MembersAreSomebody == Telemetry!Nobody \notin Readers

\* A record that is not internal is about who sent it, or was judged; a query of one who is no admin
\* is for its own records.
Honest(x) == x.internal \/ x.user = x.sender \/ x.judged
Narrow(q) == q.reader \in Readers /\ (~q.admin => q.filter.user = q.reader /\ q.filter.internal = "no")
Own(p) == p.reader # Telemetry!Nobody /\ ~p.admin =>
             \A x \in p.records : ~x.internal /\ (x.sender = p.reader \/ x.judged)
TelemetryInv ==
    /\ DOMAIN req = Requests /\ DOMAIN page = Requests
    /\ \A x \in record : Honest(x)
    /\ \A r \in Requests : (req[r].at = "query" => Narrow(req[r])) /\ Own(page[r])

\* A request that goes on, and what it is answered.
LEMMA RequestsGoOn ==
    ASSUME TelemetryInv, NEW r \in Requests, NEW q, req' = [req EXCEPT ![r] = q], q.at = "query" => Narrow(q),
           page' = page \/ \E p : page' = [page EXCEPT ![r] = p] /\ Own(p), \A x \in record' : Honest(x)
    PROVE  TelemetryInv'
<1>1. DOMAIN req' = Requests /\ \A s \in Requests : req'[s] = IF s = r THEN q ELSE req[s]
    BY DEF TelemetryInv
<1>2. DOMAIN page' = Requests /\ \A s \in Requests : Own(page'[s])
    <2>1. CASE page' = page
        BY <2>1 DEF TelemetryInv
    <2>2. ASSUME NEW p, page' = [page EXCEPT ![r] = p], Own(p)
          PROVE  DOMAIN page' = Requests /\ \A s \in Requests : Own(page'[s])
        <3>1. DOMAIN page' = Requests /\ \A s \in Requests : page'[s] = IF s = r THEN p ELSE page[s]
            BY <2>2 DEF TelemetryInv
        <3> QED
            BY <2>2, <3>1 DEF TelemetryInv
    <2> QED
        BY <2>1, <2>2
<1> QED
    BY <1>1, <1>2 DEF TelemetryInv

\* The store takes what is honest, and loses records.
LEMMA StoreMoves ==
    ASSUME TelemetryInv, UNCHANGED <<req, page>>, \A x \in record' : x \in record \/ Honest(x) PROVE TelemetryInv'
  BY DEF TelemetryInv

\* Who may judge is the Process of one who was an admin; its export says about whom it is.
LEMMA ExportsAreHonest ==
    ASSUME NEW s, NEW id, NEW c \in Telemetry!Claims
    PROVE  Honest(Telemetry!Stored(s, Telemetry!Stamp(id, c).user, id.producer, Telemetry!Stamp(id, c).internal,
                                   id.user, id.judges /\ c.eval))
  BY DEF Honest, Telemetry!Stored, Telemetry!Stamp

\* A request served, step by step.
LEMMA ServeMoves == ASSUME MembersAreSomebody, TelemetryInv, NEW r \in Requests, Telemetry!Serve(r) PROVE TelemetryInv'
<1>0. \A x \in record : Honest(x)
    BY DEF TelemetryInv
<1>1. ASSUME NEW id, Telemetry!Identify(r, id) PROVE TelemetryInv'
    BY <1>0, <1>1, RequestsGoOn DEF Telemetry!Identify
<1>2. Telemetry!Idle.at # "query"
    BY DEF Telemetry!Idle
<1>3. ASSUME NEW s, NEW c \in Telemetry!Claims, Telemetry!Export(r, s, c) PROVE TelemetryInv'
    <2>1. \A x \in record' : Honest(x)
        BY <1>0, <1>3, ExportsAreHonest DEF Telemetry!Export, Telemetry!Insert
    <2> QED
        BY <1>2, <1>3, <2>1, RequestsGoOn DEF Telemetry!Export
<1>4. CASE Telemetry!ExportFails(r)
    BY <1>0, <1>2, <1>4, RequestsGoOn DEF Telemetry!ExportFails
<1>5. ASSUME NEW s, NEW m \in Readers, NEW u, NEW i, Telemetry!Ask(r, s, m, u, i) PROVE TelemetryInv'
    <2> DEFINE q == [at |-> "query", signal |-> s, reader |-> m, admin |-> m \in admins,
                     until |-> clock, filter |-> Telemetry!Filter(m, u, i)]
    <2>1. Narrow(q)
        BY DEF Narrow, Telemetry!Filter
    <2>2. req' = [req EXCEPT ![r] = q] /\ page' = page /\ record' = record
        BY <1>5 DEF Telemetry!Ask
    <2> HIDE DEF q
    <2> QED
        BY <1>0, <2>1, <2>2, RequestsGoOn
<1>6. CASE Telemetry!Answer(r)
    <2> DEFINE q == req[r]
               found == {x \in record : Telemetry!Meets(x, q)}
               p == [reader |-> q.reader, admin |-> q.admin, records |-> found]
    <2>1. Narrow(q) /\ q.reader # Telemetry!Nobody
        BY <1>6 DEF TelemetryInv, Telemetry!Answer, Narrow, MembersAreSomebody
    <2>2. ~q.admin => \A x \in found : ~x.internal /\ (x.sender = q.reader \/ x.judged)
        BY <1>0, <2>1 DEF Telemetry!Meets, Narrow, Honest
    <2>3. Own(p)
        BY <2>2 DEF Own
    <2>4. page' = [page EXCEPT ![r] = p] /\ record' = record /\ req' = [req EXCEPT ![r] = Telemetry!Idle]
        BY <1>6 DEF Telemetry!Answer
    <2> HIDE DEF p
    <2> QED
        BY <1>0, <1>2, <2>3, <2>4, RequestsGoOn
<1> QED
    BY <1>1, <1>3, <1>4, <1>5, <1>6 DEF Telemetry!Serve, Telemetry!ExportOverSocket, Telemetry!ExportOverTCP

\* A member who is no admin reads no internal cause, and nothing that anyone else sent but what an
\* admin's Process has judged: for every number of members, Processes and requests, and whatever
\* admins and registrations change between the read of who calls and the answer.
LEMMA MembersReadTheirs ==
    ASSUME MembersAreSomebody
    PROVE  Telemetry!Init /\ [][Telemetry!Next]_Telemetry!vars => []Telemetry!MembersReadTheirOwn
<1>1. Telemetry!Init => TelemetryInv
    BY DEF Telemetry!Init, TelemetryInv, Own, Telemetry!NoPage, Telemetry!Idle
<1>2. TelemetryInv /\ [Telemetry!Next]_Telemetry!vars => TelemetryInv'
    <2> SUFFICES ASSUME TelemetryInv, [Telemetry!Next]_Telemetry!vars PROVE TelemetryInv'
        OBVIOUS
    <2>1. CASE UNCHANGED <<req, page, record>>
        BY <2>1, StoreMoves
    <2>2. CASE Telemetry!WriteCause
        <3> DEFINE c == Head(cause)
                   x == [Telemetry!Stored("logs", c.user, c.user, TRUE, c.user, FALSE) EXCEPT !.time = c.at]
        <3>1. Honest(x)
            BY DEF Honest, Telemetry!Stored
        <3>2. record' = record \union {x} /\ UNCHANGED <<req, page>>
            BY <2>2 DEF Telemetry!WriteCause, Telemetry!Insert
        <3> HIDE DEF x
        <3> QED
            BY <3>1, <3>2, StoreMoves
    <2>3. CASE Telemetry!SweepBatch
        BY <2>3, StoreMoves DEF Telemetry!SweepBatch
    <2>4. ASSUME NEW r \in Requests, Telemetry!Serve(r) PROVE TelemetryInv'
        BY <2>4, ServeMoves
    <2>5. CASE \/ Telemetry!ChangeAdmins \/ Telemetry!DropCause \/ Telemetry!SweepBegins \/ Telemetry!SweepFails
               \/ Telemetry!Tick
               \/ \E p \in Procs : Telemetry!Unregister(p) \/ \E m \in Readers : Telemetry!Register(p, m)
               \/ \E m \in Readers : Telemetry!Report(m) \/ \E s \in Telemetry!Tables, w \in Windows : Telemetry!Retention(m, s, w)
        <3>1. UNCHANGED <<req, page, record>>
            BY <2>5 DEF Telemetry!ChangeAdmins, Telemetry!DropCause, Telemetry!SweepBegins, Telemetry!SweepFails,
               Telemetry!Tick, Telemetry!Unregister, Telemetry!Register, Telemetry!Report, Telemetry!Retention
        <3> QED
            BY <2>1, <3>1
    <2> QED
        BY <2>1, <2>2, <2>3, <2>4, <2>5 DEF Telemetry!Next, Telemetry!vars
<1>3. TelemetryInv => Telemetry!MembersReadTheirOwn
    BY DEF TelemetryInv, Own, Telemetry!MembersReadTheirOwn
<1> QED
    BY <1>1, <1>2, <1>3, PTL

\* A session acts on nothing outside of what its declaration permits, and a member reads their own telemetry
\* (permits.go, approve.go, handlers.go query).
THEOREM PermitsStay ==
    ASSUME MembersAreSomebody
    PROVE  Session!Spec /\ Telemetry!Init /\ [][Telemetry!Next]_Telemetry!vars => []PermitsHold
<1>1. Telemetry!Init /\ [][Telemetry!Next]_Telemetry!vars => []Telemetry!MembersReadTheirOwn
    BY MembersReadTheirs
<1> QED
    BY <1>1, PrefixesHold, PTL DEF PermitsHold

-----------------------------------------------------------------------------
\* A behaviour of the whole is one of every part that is proved about here.
LEMMA EachOnItsOwn ==
    Whole => /\ Session!Spec /\ Packages!Spec /\ Declared!Spec /\ Bridge!Spec /\ Files!Spec
             /\ Telemetry!Init /\ [][Telemetry!Next]_Telemetry!vars
<1>1. Begins => /\ Session!Init /\ Packages!Init /\ Declared!Init /\ Bridge!Init /\ Files!Init /\ Telemetry!Init
    BY DEF Begins
<1>2. [Moves]_allVars => [Session!Next]_Session!vars
    BY DEF Moves, allVars, sessionVars, Session!vars
<1>3. [Moves]_allVars => [Packages!Next]_Packages!vars
    BY DEF Moves, allVars, packagesVars, Packages!vars
<1>4. [Moves]_allVars => [Declared!Next]_Declared!vars
    BY DEF Moves, allVars, declaredVars, Declared!vars
<1>5. [Moves]_allVars => [Bridge!Next]_Bridge!vars
    BY DEF Moves, allVars, bridgeVars, Bridge!vars
<1>6. [Moves]_allVars => [Files!Next]_Files!vars
    BY DEF Moves, allVars, filesVars, Files!vars
<1>7. [Moves]_allVars => [Telemetry!Next]_Telemetry!vars
    BY DEF Moves, allVars, telemetryVars, Telemetry!vars
<1> QED
    BY <1>1, <1>2, <1>3, <1>4, <1>5, <1>6, <1>7, PTL
    DEF Whole, Session!Spec, Packages!Spec, Declared!Spec, Bridge!Spec, Files!Spec

\* What the run of Member checks of these parts, for every value of the constants.
THEOREM MemberKeepsItsWord ==
    ASSUME ProcessesAreSomebody, ManifestsListUnits, WritesNamePaths, UnitsAreListed, MembersAreSomebody
    PROVE  Whole => /\ []OneSessionAnswers /\ []CallsAreTold /\ []AnswerIsWhole /\ []NothingFailsEveryStart
                    /\ []PermitsHold /\ WritesAreVersions
<1>1. Bridge!Spec => []OneSessionAnswers
    BY OneSessionStays
<1>2. Packages!Spec => []AnswerIsWhole
    BY AnswersStayWhole
<1>3. Files!Spec => WritesAreVersions
    BY WritesStayVersions
<1>4. Declared!Spec => []NothingFailsEveryStart
    BY EveryStartMayWork
<1>5. Session!Spec /\ Telemetry!Init /\ [][Telemetry!Next]_Telemetry!vars => []PermitsHold
    BY PermitsStay
<1> QED
    BY <1>1, <1>2, <1>3, <1>4, <1>5, CallsStayTold, EachOnItsOwn, PTL
=============================================================================
