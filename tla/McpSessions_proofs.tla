------------------------- MODULE McpSessions_proofs -------------------------
(***************************************************************************)
(* Theorems about McpSessions, for any number of Processes, sessions and   *)
(* requests and any cap.  A step is looked at in three parts: what it does *)
(* to the registry and the ends, what to the fields and the child of a     *)
(* session, and what to the count of the requests at work.                 *)
(***************************************************************************)
EXTENDS McpSessions, FiniteSetTheorems, TLAPS

SesRecord  == [at : Openings, process : Processes \cup {NoProcess},
               cancel : BOOLEAN, client : BOOLEAN, id : BOOLEAN, holds : Int]
SesType    == [Sessions -> SesRecord]
CallRecord == [at : {"idle", "got", "served", "over"}, ses : Sessions \cup {NoSession},
               method : {"POST", "GET", "DELETE"}, after : BOOLEAN]
CallType   == [Calls -> CallRecord]
EndingType == [Sessions -> [at : {"no", "ended", "closed"}, client : BOOLEAN, cancel : BOOLEAN]]
CredType   == [Sessions -> {"none", "open", "grace", "over"}]

\* What each step but Add does to the registry and the ends: no slot is taken, no credential made.
RegistryStep ==
    /\ slots' \subseteq slots /\ swept' \subseteq slots' /\ byID' \subseteq Sessions
    /\ ending' \in EndingType /\ cred' \in CredType
    /\ \A t \in Sessions :
        /\ t \in slots' <=> cred'[t] = "open"
        /\ cred'[t] = "open" => ~Ended(t)'
        /\ cred'[t] \in {"grace", "over"} => Ended(t)'
        /\ cred'[t] = "none" <=> cred[t] = "none"
        /\ t \in byID' \/ Ended(t)' => cred[t] # "none"

\* What each step does to the children: none starts without a credential, or under a context that
\* is over.
ChildStep ==
    /\ child' \in [Sessions -> {"none", "running", "gone"}]
    /\ \A t \in Sessions : /\ child'[t] # "none" => cred[t] # "none"
                           /\ Cancelled(t)' => child'[t] # "running"

\* What each step but Add does to the sessions: a slot stays with its Process, and an opening gets
\* past the slot only with a credential.
SessionStep ==
    /\ ses' \in SesType
    /\ registered' \subseteq Processes
    /\ \A t \in Sessions :
        /\ t \in slots => ses'[t].process = ses[t].process
        /\ Unadded(t)' => Unadded(t)
        /\ Unadded(t)' \/ ses'[t].at = "over" \/ cred[t] # "none"
    /\ ChildStep

\* A step of the opening of s, to step a, that changes how often s is held by n.
GoesTo(s, a, n) ==
    /\ ses' \in SesType
    /\ ses'[s].at = a /\ ses'[s].holds = ses[s].holds + n
    /\ s \in slots => ses'[s].process = ses[s].process
    /\ \A t \in Sessions \ {s} : ses'[t] = ses[t]

\* What a step that leaves the later requests alone does to the counts: the opening request's own.
WorkStep ==
    /\ call' = call
    /\ \A t \in Sessions : ses'[t].holds = ses[t].holds + (Own(t)' - Own(t))
    /\ \A t \in swept' : t \in swept \/ ses[t].holds = 0

-----------------------------------------------------------------------------
\* The requests at work on a session are a finite set, so the count of them is a number.
LEMMA UsersFinite ==
  \A s \in Sessions : /\ IsFiniteSet(Users(s)) /\ Cardinality(Users(s)) \in Nat
                      /\ Cardinality(Users(s)) <= Cardinality(Calls)
<1> SUFFICES ASSUME NEW s \in Sessions
             PROVE  /\ IsFiniteSet(Users(s)) /\ Cardinality(Users(s)) \in Nat
                    /\ Cardinality(Users(s)) <= Cardinality(Calls)
    OBVIOUS
<1>1. Users(s) \subseteq Calls
    BY DEF Users
<1> QED
    BY <1>1, RequestsAssumption, FS_Subset, FS_CardinalityType

\* So are the sessions of a Process, any part of them included, and a part is not more than all.
LEMMA SlotsFinite ==
  ASSUME NEW S, NEW T, S \subseteq T, T \subseteq Sessions
  PROVE  /\ IsFiniteSet(S) /\ Cardinality(S) \in Nat /\ Cardinality(T) \in Nat
         /\ Cardinality(S) <= Cardinality(T)
<1>1. IsFiniteSet(T)
    BY RequestsAssumption, FS_Subset
<1> QED
    BY <1>1, FS_Subset, FS_CardinalityType

\* A session nothing holds has nobody at work on it.
LEMMA NotHeldIsIdle ==
  ASSUME IInv, NEW s \in Sessions, ses[s].holds = 0
  PROVE  ~InFlight(s)
<1>1. Cardinality(Users(s)) = 0
    BY UsersFinite DEF IInv, HoldsAreWork, Own
<1>2. Users(s) = {}
    BY <1>1, UsersFinite, FS_EmptySet
<1> QED
    BY <1>2 DEF Users, InFlight

\* An end of a session that was added, or none, is a step of the registry.
LEMMA EndIsRegistryStep ==
  ASSUME IInv, NEW s \in Sessions, End(s), cred[s] # "none"
  PROVE  RegistryStep
<1>1. CASE Ended(s)
    BY <1>1 DEF End, Ended, IInv, FieldsOK, CredentialAge, RegistryStep, registry,
                EndingType, CredType
<1>2. CASE ~Ended(s)
  <2>1. ReadOnce(s) /\ Drop(s) /\ swept' = swept \ {s}
      BY <1>2 DEF End
  <2>2. ending' \in EndingType
      BY <2>1 DEF ReadOnce, IInv, FieldsOK, EndingType
  <2>3. cred' \in CredType
      BY <2>1 DEF Drop, IInv, FieldsOK, CredType
  <2>4. \A t \in Sessions : Ended(t)' <=> Ended(t) \/ t = s
      BY <2>1 DEF ReadOnce, Ended, IInv, FieldsOK
  <2>5. cred[s] = "open"
      BY <1>2 DEF IInv, FieldsOK, CredentialAge
  <2>6. \A t \in Sessions : cred'[t] = IF t = s THEN "grace" ELSE cred[t]
      BY <2>1, <2>5 DEF Drop, IInv, FieldsOK
  <2>7. slots' = slots \ {s} /\ byID' \subseteq byID
      BY <2>1 DEF Drop
  <2> QED
      BY <2>1, <2>2, <2>3, <2>4, <2>5, <2>6, <2>7 DEF RegistryStep, IInv, FieldsOK, CredentialAge
<1> QED
    BY <1>1, <1>2

\* So is a step that touches neither.
LEMMA NoEndIsRegistryStep ==
  ASSUME IInv, NoEnd
  PROVE  RegistryStep
  BY DEF NoEnd, Ended, IInv, FieldsOK, CredentialAge, RegistryStep, registry, EndingType, CredType

\* The parts of the invariant about the registry follow from the first two parts of a step.
LEMMA RegistryKept ==
  ASSUME IInv, RegistryStep, SessionStep
  PROVE  CredentialAge' /\ SlotsCapped' /\ ChildrenGo'
<1>1. CredentialAge'
    BY DEF IInv, FieldsOK, RegistryStep, SessionStep, ChildStep, CredentialAge,
           Unadded
<1>2. ASSUME NEW p \in Processes
      PROVE  Cardinality(Of(p))' <= MaxSessions
  <2>1. Of(p)' \subseteq Of(p) /\ Of(p) \subseteq Sessions
      BY DEF Of, IInv, FieldsOK, RegistryStep, SessionStep
  <2>2. Cardinality(Of(p)') <= Cardinality(Of(p)) /\ Cardinality(Of(p)') \in Nat
        /\ Cardinality(Of(p)) \in Nat
      BY <2>1, SlotsFinite
  <2> QED
      BY <2>2, MaxAssumption DEF IInv, SlotsCapped
<1>3. ChildrenGo'
    BY DEF SessionStep, ChildStep, ChildrenGo
<1> QED
    BY <1>1, <1>2, <1>3 DEF SlotsCapped

\* The parts about the requests follow from the third.
LEMMA WorkKept ==
  ASSUME IInv, RegistryStep, SessionStep, WorkStep
  PROVE  CallsFound' /\ HoldsAreWork' /\ SweptIsIdle'
<1>1. CallsFound'
    BY DEF IInv, CallsFound, WorkStep, RegistryStep
<1>2. \A t \in Sessions : Users(t)' = Users(t) /\ InFlight(t)' = InFlight(t)
    BY DEF Users, InFlight, Work, WorkStep
<1>3. ASSUME NEW t \in Sessions
      PROVE  ses'[t].holds = Own(t)' + Cardinality(Users(t)')
  <2>1. ses[t].holds = Own(t) + Cardinality(Users(t))
      BY DEF IInv, HoldsAreWork
  <2>2. Own(t) \in Int /\ Own(t)' \in Int /\ Cardinality(Users(t)) \in Int
      BY UsersFinite DEF Own
  <2>3. ses'[t].holds = ses[t].holds + (Own(t)' - Own(t))
      BY DEF WorkStep
  <2> QED
      BY <2>1, <2>2, <2>3, <1>2
<1>4. SweptIsIdle'
    BY <1>2, NotHeldIsIdle DEF IInv, FieldsOK, SweptIsIdle, WorkStep, RegistryStep
<1> QED
    BY <1>1, <1>3, <1>4 DEF HoldsAreWork

\* A step that takes no slot and leaves the later requests alone keeps the invariant.
LEMMA StepKeeps ==
  ASSUME IInv, RegistryStep, SessionStep, WorkStep
  PROVE  IInv'
<1>1. FieldsOK'
    BY DEF IInv, FieldsOK, RegistryStep, SessionStep, ChildStep, WorkStep, SesType, SesRecord,
           EndingType, CredType
<1> QED
    BY <1>1, RegistryKept, WorkKept DEF IInv

\* The fields of a session have their types.
LEMMA SesTyped ==
  ASSUME IInv
  PROVE  /\ ses \in SesType
         /\ \A s \in Sessions : ses[s] \in SesRecord /\ ses[s].holds \in Int
  BY DEF IInv, FieldsOK, SesType, SesRecord

\* So do those of a later request.
LEMMA CallTyped ==
  ASSUME IInv
  PROVE  call \in CallType /\ \A c \in Calls : call[c] \in CallRecord
  BY DEF IInv, FieldsOK, CallType, CallRecord

\* A step of an opening that only goes on is one that changes no hold.
LEMMA GotoGoesTo ==
  ASSUME IInv, NEW s \in Sessions, NEW a \in Openings, Goto(s, a)
  PROVE  GoesTo(s, a, 0)
<1> DEFINE r == [ses[s] EXCEPT !.at = a]
<1>1. ses' = [ses EXCEPT ![s] = r]
    BY SesTyped DEF Goto
<1>2. r \in SesRecord /\ r.at = a /\ r.holds = ses[s].holds /\ r.process = ses[s].process
    BY SesTyped DEF SesRecord
<1> HIDE DEF r
<1> QED
    BY <1>1, <1>2, SesTyped DEF GoesTo, SesType

\* A step of an opening keeps it, when the hold of its own request is counted.
LEMMA OpeningStepKeeps ==
  ASSUME IInv, RegistryStep, ChildStep, NEW s \in Sessions, NEW a \in Openings, NEW n \in Int,
         GoesTo(s, a, n), call' = call, registered' = registered, swept' \subseteq swept,
         a = "over" \/ cred[s] # "none" \/ (a = "asked" /\ At(s, "idle")),
         a # "idle", a = "asked" => At(s, "idle"),
         n = (IF a \in {"serving", "naming", "named"} THEN 1 ELSE 0) - Own(s)
  PROVE  IInv'
<1>1. SessionStep
    BY DEF GoesTo, SessionStep, At, Unadded, IInv, FieldsOK, CredentialAge
<1>2. WorkStep
  <2>1. ASSUME NEW t \in Sessions
        PROVE  ses'[t].holds = ses[t].holds + (Own(t)' - Own(t))
    <3>1. ses[t].holds \in Int
        BY DEF IInv, FieldsOK
    <3>2. CASE t = s
        BY <3>2 DEF GoesTo, Own
    <3>3. CASE t # s
      <4>1. ses'[t] = ses[t]
          BY <3>3 DEF GoesTo
      <4>2. Own(t)' = Own(t) /\ Own(t) \in Int
          BY <4>1 DEF Own
      <4> QED
          BY <4>1, <4>2, <3>1
    <3> QED
        BY <3>2, <3>3
  <2> QED
      BY <2>1 DEF WorkStep
<1> QED
    BY <1>1, <1>2, StepKeeps

\* A step that leaves the openings and the later requests alone keeps it.
LEMMA OtherStepKeeps ==
  ASSUME IInv, RegistryStep, ChildStep, UNCHANGED <<ses, call>>, registered' \subseteq registered,
         \A t \in swept' : t \in swept \/ ses[t].holds = 0
  PROVE  IInv'
<1>1. SessionStep
    BY DEF SessionStep, SesType, SesRecord, Unadded, IInv, FieldsOK, CredentialAge
<1>2. \A t \in Sessions : Own(t)' = Own(t) /\ Own(t) \in Int /\ ses[t].holds \in Int
    BY DEF Own, IInv, FieldsOK
<1>3. WorkStep
    BY <1>2 DEF WorkStep
<1> QED
    BY <1>1, <1>3, StepKeeps

\* The children of a step that leaves them alone and closes nothing.
LEMMA NoChildStep ==
  ASSUME IInv, child' = child, \A t \in Sessions : Cancelled(t)' => Cancelled(t)
  PROVE  ChildStep
  BY DEF ChildStep, IInv, FieldsOK, CredentialAge, ChildrenGo

\* An end closes nothing: the child is taken away beside it.
LEMMA EndClosesNothing ==
  ASSUME IInv, NEW s \in Sessions, End(s) \/ NoEnd
  PROVE  \A t \in Sessions : Cancelled(t)' => Cancelled(t)
  BY DEF End, NoEnd, ReadOnce, Cancelled, IInv, FieldsOK, registry

-----------------------------------------------------------------------------
\* The invariant holds before the first request.
LEMMA InitInvariant == Init => IInv
<1> SUFFICES ASSUME Init PROVE IInv
    OBVIOUS
<1>1. FieldsOK
    BY DEF Init, FieldsOK, NewSession, NotEnding, NewCall, Openings
<1>2. \A s \in Sessions : /\ ses[s].at = "idle" /\ ses[s].holds = 0 /\ ~Ended(s) /\ ~Cancelled(s)
                          /\ cred[s] = "none" /\ child[s] = "none"
    BY DEF Init, NewSession, NotEnding, Ended, Cancelled
<1>3. slots = {} /\ byID = {} /\ swept = {} /\ \A c \in Calls : call[c].at = "idle"
    BY DEF Init, NewCall
<1>4. CredentialAge /\ CallsFound /\ SweptIsIdle /\ ChildrenGo
    BY <1>2, <1>3 DEF CredentialAge, CallsFound, SweptIsIdle, ChildrenGo, Unadded
<1>5. \A s \in Sessions : Users(s) = {} /\ Own(s) = 0
    BY <1>2, <1>3 DEF Users, Own
<1>6. HoldsAreWork
  <2>1. Cardinality({}) = 0
      BY FS_EmptySet
  <2> QED
      BY <1>2, <1>5, <2>1 DEF HoldsAreWork
<1>7. \A p \in Processes : Of(p) = {}
    BY <1>3 DEF Of
<1>8. SlotsCapped
    BY <1>7, FS_EmptySet, MaxAssumption DEF SlotsCapped
<1> QED
    BY <1>1, <1>4, <1>6, <1>8 DEF IInv

\* A request that asks for a session has no slot to lose.
LEMMA OpenAskInvariant ==
  ASSUME IInv, NEW s \in Sessions, NEW p \in Processes, OpenAsk(s, p)
  PROVE  IInv'
<1>1. NoEnd /\ child' = child /\ call' = call /\ registered' = registered /\ swept' = swept
    BY DEF OpenAsk, NoEnd
<1>2. s \notin slots
    BY DEF OpenAsk, At, IInv, CredentialAge, Unadded
<1>3. GoesTo(s, "asked", 0)
  <2> DEFINE r == [ses[s] EXCEPT !.at = "asked", !.process = p]
  <2>1. ses' = [ses EXCEPT ![s] = r]
      BY SesTyped DEF OpenAsk
  <2>2. r \in SesRecord /\ r.at = "asked" /\ r.holds = ses[s].holds
      BY SesTyped DEF SesRecord, Openings
  <2> HIDE DEF r
  <2> QED
      BY <1>2, <2>1, <2>2, SesTyped DEF GoesTo, SesType
<1>4. Own(s) = 0
    BY DEF OpenAsk, At, Own
<1> QED
    BY <1>1, <1>3, <1>4, NoEndIsRegistryStep, NoChildStep, EndClosesNothing, OpeningStepKeeps
    DEF OpenAsk, Openings

\* The slot is taken where there are fewer than the cap, with the credential, and before the child.
LEMMA AddInvariant ==
  ASSUME IInv, NEW s \in Sessions, Add(s)
  PROVE  IInv'
<1>1. CASE Cardinality(Of(ses[s].process)) >= MaxSessions
  <2>1. NoEnd /\ Goto(s, "over")
      BY <1>1 DEF Add, NoEnd, registry
  <2>2. child' = child /\ call' = call /\ registered' = registered /\ swept' = swept
      BY DEF Add
  <2>3. GoesTo(s, "over", 0)
      BY <2>1, GotoGoesTo DEF Openings
  <2>4. Own(s) = 0
      BY DEF Add, At, Own
  <2> QED
      BY <2>1, <2>2, <2>3, <2>4, NoEndIsRegistryStep, NoChildStep, EndClosesNothing,
         OpeningStepKeeps DEF Openings
<1>2. CASE ~(Cardinality(Of(ses[s].process)) >= MaxSessions)
  <2>1. /\ slots' = slots \cup {s} /\ cred' = [cred EXCEPT ![s] = "open"]
        /\ ses' = [ses EXCEPT ![s].at = "added"]
        /\ UNCHANGED <<byID, ending, child, swept, call, registered>>
      BY <1>2 DEF Add, Goto
  <2>2. ses[s].at = "asked" /\ cred[s] = "none" /\ s \notin slots
      BY DEF Add, At, IInv, CredentialAge, Unadded
  <2>3. FieldsOK'
    <3>1. ses' \in SesType
        BY <2>1 DEF IInv, FieldsOK, Openings, SesType, SesRecord
    <3>2. cred' \in CredType /\ slots' \subseteq Sessions /\ swept' \subseteq slots'
        BY <2>1 DEF IInv, FieldsOK, CredType
    <3> QED
        BY <2>1, <3>1, <3>2 DEF IInv, FieldsOK, SesType, SesRecord, CredType
  <2>4. CredentialAge'
      BY <2>1, <2>2 DEF IInv, FieldsOK, CredentialAge, Unadded, Ended
  <2>5. CallsFound' /\ ChildrenGo'
      BY <2>1, <2>2 DEF IInv, FieldsOK, CallsFound, ChildrenGo, Cancelled
  <2>6. \A t \in Sessions : Users(t)' = Users(t) /\ InFlight(t)' = InFlight(t) /\ Own(t)' = Own(t)
      BY <2>1, <2>2 DEF Users, InFlight, Work, Own, IInv, FieldsOK
  <2>7. HoldsAreWork'
      BY <2>1, <2>6 DEF IInv, FieldsOK, HoldsAreWork
  <2>8. SweptIsIdle'
      BY <2>1, <2>6 DEF IInv, FieldsOK, SweptIsIdle
  <2>9. ASSUME NEW p \in Processes
        PROVE  Cardinality(Of(p)') <= MaxSessions
    <3>1. Of(p) \subseteq Sessions /\ IsFiniteSet(Of(p)) /\ Cardinality(Of(p)) \in Nat
        BY SlotsFinite DEF Of, IInv, FieldsOK
    <3>2. CASE p = ses[s].process
      <4>1. Of(p)' = Of(p) \cup {s} /\ s \notin Of(p)
          BY <2>1, <2>2, <3>2 DEF Of, IInv, FieldsOK
      <4>2. Cardinality(Of(p)') = Cardinality(Of(p)) + 1
          BY <4>1, <3>1, FS_AddElement
      <4> QED
          BY <4>2, <3>1, <3>2, <1>2, MaxAssumption
    <3>3. CASE p # ses[s].process
      <4>1. Of(p)' = Of(p)
          BY <2>1, <2>2, <3>3 DEF Of, IInv, FieldsOK
      <4> QED
          BY <4>1 DEF IInv, SlotsCapped
    <3> QED
        BY <3>2, <3>3
  <2> QED
      BY <2>3, <2>4, <2>5, <2>7, <2>8, <2>9 DEF IInv, SlotsCapped
<1> QED
    BY <1>1, <1>2
\* The steps of an opening that end nothing: a child is started only under a context that goes on.
LEMMA OpeningInvariant ==
  ASSUME IInv, NEW s \in Sessions,
         SetCancel(s) \/ StartChild(s) \/ Connected(s) \/ Hold(s) \/ Name(s)
  PROVE  IInv'
<1>1. NoEnd /\ call' = call /\ registered' = registered /\ swept' = swept
    BY DEF SetCancel, StartChild, Connected, Hold, Name, NoEnd
<1>2. cred[s] # "none"
    BY DEF SetCancel, StartChild, Connected, Hold, Name, At, Unadded, IInv, CredentialAge
<1>3. RegistryStep /\ \A t \in Sessions : Cancelled(t)' => Cancelled(t)
    BY <1>1, NoEndIsRegistryStep, EndClosesNothing
<1>5. CASE SetCancel(s)
  <2> DEFINE r == [ses[s] EXCEPT !.at = "starting", !.cancel = TRUE]
  <2>1. ses' = [ses EXCEPT ![s] = r]
      BY <1>5, SesTyped DEF SetCancel
  <2>2. r \in SesRecord /\ r.at = "starting" /\ r.holds = ses[s].holds /\ r.process = ses[s].process
      BY SesTyped DEF SesRecord, Openings
  <2>3. GoesTo(s, "starting", 0)
    <3> HIDE DEF r
    <3> QED
        BY <2>1, <2>2, SesTyped DEF GoesTo, SesType
  <2> QED
      BY <1>1, <1>2, <1>3, <1>5, <2>3, NoChildStep, OpeningStepKeeps
      DEF SetCancel, At, Own, Openings
<1>6. CASE StartChild(s)
  <2>1. GoesTo(s, "connecting", 0)
      BY <1>6, GotoGoesTo DEF StartChild, Openings
  <2>2. ChildStep
      BY <1>2, <1>3, <1>6
      DEF StartChild, ChildStep, IInv, FieldsOK, CredentialAge, ChildrenGo
  <2> QED
      BY <1>1, <1>2, <1>3, <1>6, <2>1, <2>2, OpeningStepKeeps DEF StartChild, At, Own, Openings
<1>7. CASE Connected(s)
  <2> DEFINE r == [ses[s] EXCEPT !.at = "syncing", !.client = TRUE]
  <2>1. ses' = [ses EXCEPT ![s] = r]
      BY <1>7, SesTyped DEF Connected
  <2>2. r \in SesRecord /\ r.at = "syncing" /\ r.holds = ses[s].holds /\ r.process = ses[s].process
      BY SesTyped DEF SesRecord, Openings
  <2>3. GoesTo(s, "syncing", 0)
    <3> HIDE DEF r
    <3> QED
        BY <2>1, <2>2, SesTyped DEF GoesTo, SesType
  <2> QED
      BY <1>1, <1>2, <1>3, <1>7, <2>3, NoChildStep, OpeningStepKeeps
      DEF Connected, At, Own, Openings
<1>8. CASE Hold(s)
  <2>1. GoesTo(s, "serving", 1)
      BY <1>8 DEF Hold, GoesTo, SesType, SesRecord, IInv, FieldsOK, Openings
  <2> QED
      BY <1>1, <1>2, <1>3, <1>8, <2>1, NoChildStep, OpeningStepKeeps DEF Hold, At, Own, Openings
<1>9. CASE Name(s)
  <2> DEFINE r == [ses[s] EXCEPT !.at = "naming", !.id = TRUE]
  <2>1. ses' = [ses EXCEPT ![s] = r]
      BY <1>9, SesTyped DEF Name
  <2>2. r \in SesRecord /\ r.at = "naming" /\ r.holds = ses[s].holds /\ r.process = ses[s].process
      BY SesTyped DEF SesRecord, Openings
  <2>3. GoesTo(s, "naming", 0)
    <3> HIDE DEF r
    <3> QED
        BY <2>1, <2>2, SesTyped DEF GoesTo, SesType
  <2> QED
      BY <1>1, <1>2, <1>3, <1>9, <2>3, NoChildStep, OpeningStepKeeps DEF Name, At, Own, Openings
<1> QED
    BY <1>5, <1>6, <1>7, <1>8, <1>9

\* The registry learns an id only of a session that was added, and it may have ended by then.
LEMMA IndexInvariant ==
  ASSUME IInv, NEW s \in Sessions, Index(s)
  PROVE  IInv'
<1>1. cred[s] # "none" /\ ses[s].holds \in Int
    BY DEF Index, At, Unadded, IInv, FieldsOK, CredentialAge
<1>2. RegistryStep
    BY <1>1 DEF Index, Ended, RegistryStep, EndingType, CredType, IInv, FieldsOK, CredentialAge
<1>3. ChildStep
    BY NoChildStep DEF Index, Cancelled
<1>4. GoesTo(s, "named", 0)
    BY GotoGoesTo DEF Index, Openings
<1> QED
    BY <1>1, <1>2, <1>3, <1>4, OpeningStepKeeps DEF Index, At, Own, Openings

\* A step of an opening that may end the session: a failure, the tools of the child, the answer.
LEMMA OpeningEndInvariant ==
  ASSUME IInv, NEW s \in Sessions, ConnectFails(s) \/ Sync(s) \/ Answer(s)
  PROVE  IInv'
<1>1. cred[s] # "none" /\ ses[s].holds \in Int
    BY DEF ConnectFails, Sync, Answer, At, Unadded, IInv, FieldsOK, CredentialAge
<1>2. (End(s) \/ NoEnd) /\ call' = call /\ registered' = registered
    BY DEF ConnectFails, Sync, Answer
<1>3. RegistryStep /\ \A t \in Sessions : Cancelled(t)' => Cancelled(t)
    BY <1>1, <1>2, EndIsRegistryStep, NoEndIsRegistryStep, EndClosesNothing
<1>4. swept' \subseteq swept
    BY <1>2 DEF End, NoEnd
<1>5. CASE ConnectFails(s)
  <2>1. GoesTo(s, "over", 0)
      BY <1>5, GotoGoesTo DEF ConnectFails, Openings
  <2>2. ChildStep
      BY <1>1, <1>3, <1>5
      DEF ConnectFails, ChildStep, IInv, FieldsOK, CredentialAge, ChildrenGo
  <2> QED
      BY <1>1, <1>2, <1>3, <1>4, <1>5, <2>1, <2>2, OpeningStepKeeps
      DEF ConnectFails, At, Own, Openings
<1>6. CASE Sync(s)
  <2>1. GoesTo(s, "holding", 0) \/ GoesTo(s, "over", 0)
      BY <1>6, GotoGoesTo DEF Sync, Openings
  <2> QED
      BY <1>1, <1>2, <1>3, <1>4, <1>6, <2>1, NoChildStep, OpeningStepKeeps
      DEF Sync, At, Own, Openings
<1>7. CASE Answer(s)
  <2>1. GoesTo(s, "over", -1)
      BY <1>1, <1>7 DEF Answer, GoesTo, SesType, SesRecord, IInv, FieldsOK, Openings
  <2> QED
      BY <1>1, <1>2, <1>3, <1>4, <1>7, <2>1, NoChildStep, OpeningStepKeeps
      DEF Answer, At, Own, Openings
<1> QED
    BY <1>5, <1>6, <1>7
\* The ends of a session that are not its opening's keep it: each is of one that was added.
LEMMA EndInvariant ==
  ASSUME IInv, NEW s \in Sessions, ChildWaited(s) \/ EndRevoked(s) \/ SweepEnd(s)
  PROVE  IInv'
<1>1. End(s) /\ UNCHANGED <<ses, child, call, registered>>
    BY DEF ChildWaited, EndRevoked, SweepEnd
<1>2. cred[s] # "none"
    BY DEF ChildWaited, EndRevoked, SweepEnd, IInv, FieldsOK, CredentialAge
<1>3. swept' \subseteq swept
    BY <1>1 DEF End
<1> QED
    BY <1>1, <1>2, <1>3, EndIsRegistryStep, NoChildStep, EndClosesNothing, OtherStepKeeps

\* A teardown that had a context to cancel leaves no child running.
LEMMA CloseChildInvariant ==
  ASSUME IInv, NEW s \in Sessions, CloseChild(s)
  PROVE  IInv'
<1>1. ending' = [ending EXCEPT ![s].at = "closed"] /\ UNCHANGED <<slots, byID, cred, swept>>
    BY DEF CloseChild, registry
<1>2. ending' \in EndingType /\ \A t \in Sessions : Ended(t)' = Ended(t)
    BY <1>1 DEF CloseChild, Ended, EndingType, IInv, FieldsOK
<1>3. RegistryStep
    BY <1>1, <1>2 DEF RegistryStep, CredType, IInv, FieldsOK, CredentialAge
<1>4. ChildStep
  <2>1. \A t \in Sessions \ {s} : child'[t] = child[t] /\ (Cancelled(t)' <=> Cancelled(t))
      BY <1>1 DEF CloseChild, Cancelled, IInv, FieldsOK
  <2>2. /\ Cancelled(s)' => child'[s] # "running"
        /\ child'[s] # "none" => child[s] # "none"
      BY <1>1 DEF CloseChild, Cancelled, IInv, FieldsOK
  <2>3. child' \in [Sessions -> {"none", "running", "gone"}]
      BY DEF CloseChild, IInv, FieldsOK
  <2> QED
      BY <2>1, <2>2, <2>3 DEF ChildStep, IInv, CredentialAge, ChildrenGo
<1> QED
    BY <1>1, <1>3, <1>4, OtherStepKeeps DEF CloseChild

\* What neither opens nor ends a session keeps it: a sweep marks only what nothing holds.
LEMMA BesideInvariant ==
  ASSUME IInv, NEW s \in Sessions, ChildExits(s) \/ SweepLook(s) \/ GraceOver(s)
  PROVE  IInv'
<1>1. CASE ChildExits(s)
  <2>1. RegistryStep
      BY <1>1, NoEndIsRegistryStep DEF ChildExits, NoEnd
  <2>2. ChildStep
      BY <1>1 DEF ChildExits, Cancelled, ChildStep, IInv, FieldsOK, CredentialAge, ChildrenGo
  <2> QED
      BY <1>1, <2>1, <2>2, OtherStepKeeps DEF ChildExits
<1>2. CASE SweepLook(s)
  <2>1. RegistryStep
      BY <1>2 DEF SweepLook, registry, Ended, RegistryStep, EndingType, CredType, IInv, FieldsOK,
                  CredentialAge
  <2>2. ChildStep
      BY <1>2, NoChildStep DEF SweepLook, Cancelled
  <2> QED
      BY <1>2, <2>1, <2>2, OtherStepKeeps DEF SweepLook
<1>3. CASE GraceOver(s)
  <2>1. RegistryStep
      BY <1>3 DEF GraceOver, Ended, RegistryStep, EndingType, CredType, IInv, FieldsOK,
                  CredentialAge
  <2>2. ChildStep
      BY <1>3, NoChildStep DEF GraceOver, Cancelled
  <2> QED
      BY <1>3, <2>1, <2>2, OtherStepKeeps DEF GraceOver
<1> QED
    BY <1>1, <1>2, <1>3

\* A token that is no longer accepted takes no session with it by itself.
LEMMA RevokeInvariant ==
  ASSUME IInv, NEW p \in Processes, Revoke(p)
  PROVE  IInv'
<1>1. NoEnd /\ child' = child /\ UNCHANGED <<ses, call, swept>> /\ registered' \subseteq registered
    BY DEF Revoke, NoEnd
<1> QED
    BY <1>1, NoEndIsRegistryStep, NoChildStep, EndClosesNothing, OtherStepKeeps

-----------------------------------------------------------------------------
\* A request finds a session that was added, and does not work on it yet.
LEMMA CallGetInvariant ==
  ASSUME IInv, NEW c \in Calls, NEW s \in Sessions, NEW m \in {"POST", "GET", "DELETE"},
         CallGet(c, s, m)
  PROVE  IInv'
<1> DEFINE r == [at |-> "got", ses |-> s, method |-> m, after |-> FALSE]
<1>1. call' = [call EXCEPT ![c] = r] /\ call[c].at = "idle" /\ s \in byID
      /\ UNCHANGED <<ses, ending, child, slots, byID, cred, swept, registered>>
    BY DEF CallGet, registry
<1>2. FieldsOK'
    BY <1>1 DEF IInv, FieldsOK
<1>3. CredentialAge' /\ SlotsCapped' /\ ChildrenGo'
    BY <1>1 DEF IInv, CredentialAge, SlotsCapped, ChildrenGo, Of, Unadded, Ended, Cancelled
<1>4. \A t \in Sessions : Users(t)' = Users(t) /\ (InFlight(t)' <=> InFlight(t)) /\ Own(t)' = Own(t)
    BY <1>1 DEF IInv, FieldsOK, Users, InFlight, Work, Own
<1>5. CallsFound'
    BY <1>1 DEF IInv, FieldsOK, CallsFound, CredentialAge
<1>6. HoldsAreWork' /\ SweptIsIdle'
    BY <1>1, <1>4 DEF IInv, FieldsOK, HoldsAreWork, SweptIsIdle
<1> QED
    BY <1>2, <1>3, <1>5, <1>6 DEF IInv

\* A request that is work is one more at work, and comes after a sweep that has looked.
LEMMA CallHoldInvariant ==
  ASSUME IInv, NEW c \in Calls, CallHold(c)
  PROVE  IInv'
<1>0. PICK s \in Sessions : s = call[c].ses
    BY DEF CallHold, IInv, CallsFound
<1>1. /\ call[c].at = "got" /\ call[c].ses = s /\ cred[s] # "none"
      /\ ses' = [ses EXCEPT ![s].holds = @ + Work(c)]
      /\ call' = [call EXCEPT ![c].at = "served", ![c].after = s \in swept]
      /\ UNCHANGED <<ending, child, slots, byID, cred, swept, registered>>
    BY <1>0 DEF CallHold, registry, IInv, CallsFound
<1>2. Work(c) \in Int
    BY DEF Work
<1>3. /\ ses' \in SesType
      /\ ses'[s].holds = ses[s].holds + Work(c)
      /\ \A t \in Sessions : /\ ses'[t].at = ses[t].at /\ ses'[t].process = ses[t].process
                             /\ t # s => ses'[t] = ses[t]
    BY <1>1, <1>2, SesTyped DEF SesType, SesRecord
<1>4. /\ \A d \in Calls \ {c} : call'[d] = call[d]
      /\ call'[c].at = "served" /\ call'[c].ses = s /\ call'[c].method = call[c].method
      /\ call'[c].after = (s \in swept)
    BY <1>1 DEF IInv, FieldsOK
<1>5. FieldsOK'
  <2> DEFINE r == [call[c] EXCEPT !.at = "served", !.after = s \in swept]
  <2>1. call' = [call EXCEPT ![c] = r]
      BY <1>1, CallTyped DEF CallType
  <2>2. (s \in swept) \in BOOLEAN
      OBVIOUS
  <2>3. r \in CallRecord
      BY <2>2, CallTyped DEF CallRecord
  <2> HIDE DEF r
  <2>4. call' \in CallType
      BY <2>1, <2>3, CallTyped DEF CallType
  <2> QED
      BY <1>1, <1>3, <2>4 DEF IInv, FieldsOK, SesType, SesRecord, CallType, CallRecord
<1>6. CredentialAge' /\ SlotsCapped' /\ ChildrenGo'
  <2>1. \A p \in Processes : Of(p)' = Of(p)
      BY <1>1, <1>3 DEF Of, IInv, FieldsOK
  <2> QED
      BY <1>1, <1>3, <2>1
      DEF IInv, CredentialAge, SlotsCapped, ChildrenGo, Unadded, Ended, Cancelled
<1>7. CallsFound'
  <2> SUFFICES ASSUME NEW d \in Calls, call'[d].at \in {"got", "served"}
               PROVE  call'[d].ses \in Sessions /\ cred[call'[d].ses] # "none"
      BY <1>1 DEF CallsFound
  <2>1. CASE d = c
      BY <1>1, <1>4, <2>1
  <2>2. CASE d # c
    <3>1. call'[d] = call[d]
        BY <1>4, <2>2
    <3> QED
        BY <3>1 DEF IInv, CallsFound
  <2> QED
      BY <2>1, <2>2
<1>8. \A d \in Calls : Work(d)' = Work(d)
    BY <1>4 DEF Work
<1>9. \A t \in Sessions, d \in Calls :
         d \in Users(t)' <=> IF d = c THEN t = s /\ Work(c) = 1 ELSE d \in Users(t)
    BY ZenonT(60), <1>1, <1>4, <1>8 DEF Users
<1>10. \A t \in Sessions : c \notin Users(t) /\ Users(t) \subseteq Calls /\ Users(t)' \subseteq Calls
    BY <1>1 DEF Users
<1>11. Cardinality(Users(s)') = Cardinality(Users(s)) + Work(c)
  <2>1. CASE Work(c) = 1
    <3>1. Users(s)' = Users(s) \cup {c}
        BY <1>9, <1>10, <2>1
    <3> QED
        BY <1>10, <3>1, <2>1, UsersFinite, FS_AddElement
  <2>2. CASE Work(c) = 0
    <3>1. Users(s)' = Users(s)
        BY <1>9, <1>10, <2>2
    <3> QED
        BY <3>1, <2>2, UsersFinite
  <2> QED
      BY <2>1, <2>2 DEF Work
<1>12. HoldsAreWork'
  <2> SUFFICES ASSUME NEW t \in Sessions
               PROVE  ses'[t].holds = Own(t)' + Cardinality(Users(t)')
      BY DEF HoldsAreWork
  <2>1. ses[t].holds = Own(t) + Cardinality(Users(t)) /\ Own(t)' = Own(t)
        /\ Own(t) \in Int /\ Cardinality(Users(t)) \in Int
      BY <1>3, UsersFinite DEF IInv, HoldsAreWork, Own
  <2>2. CASE t = s
      BY <2>1, <2>2, <1>2, <1>3, <1>11
  <2>3. CASE t # s
    <3>1. Users(t)' = Users(t)
        BY <1>9, <1>10, <2>3
    <3> QED
        BY <2>1, <2>3, <1>3, <3>1
  <2> QED
      BY <2>2, <2>3
<1>13. SweptIsIdle'
    BY <1>1, <1>4, <1>8 DEF IInv, FieldsOK, SweptIsIdle, InFlight
<1> QED
    BY <1>5, <1>6, <1>7, <1>12, <1>13 DEF IInv
\* An answer is one fewer at work, and a DELETE ends the session it found.
LEMMA CallAnswerInvariant ==
  ASSUME IInv, NEW c \in Calls, CallAnswer(c)
  PROVE  IInv'
<1>0. PICK s \in Sessions : s = call[c].ses
    BY DEF CallAnswer, IInv, CallsFound
<1>1. /\ call[c].at = "served" /\ call[c].ses = s /\ cred[s] # "none"
      /\ ses' = [ses EXCEPT ![s].holds = @ - Work(c)]
      /\ call' = [call EXCEPT ![c] = [NewCall EXCEPT !.at = "over"]]
      /\ End(s) \/ NoEnd
      /\ UNCHANGED <<child, registered>>
    BY <1>0 DEF CallAnswer, IInv, CallsFound
<1>2. Work(c) \in Int
    BY DEF Work
<1>3. /\ ses' \in SesType
      /\ ses'[s].holds = ses[s].holds - Work(c)
      /\ \A t \in Sessions : /\ ses'[t].at = ses[t].at /\ ses'[t].process = ses[t].process
                             /\ t # s => ses'[t] = ses[t]
    BY <1>1, <1>2, SesTyped DEF SesType, SesRecord
<1>4. call' \in CallType /\ call'[c].at = "over" /\ \A d \in Calls \ {c} : call'[d] = call[d]
  <2> DEFINE r == [NewCall EXCEPT !.at = "over"]
  <2>1. r \in CallRecord /\ r.at = "over"
      BY DEF CallRecord, NewCall
  <2>2. call' = [call EXCEPT ![c] = r]
      BY <1>1
  <2> HIDE DEF r
  <2> QED
      BY <2>1, <2>2, CallTyped DEF CallType
<1>5. RegistryStep /\ swept' \subseteq swept
  <2>1. swept' \subseteq swept
      BY <1>1 DEF End, NoEnd
  <2> QED
      BY <1>1, <2>1, EndIsRegistryStep, NoEndIsRegistryStep
<1>6. SessionStep
  <2>1. ChildStep
      BY <1>1, NoChildStep, EndClosesNothing
  <2> QED
      BY <1>1, <1>3, <2>1 DEF SessionStep, Unadded, IInv, FieldsOK, CredentialAge
<1>7. FieldsOK'
    BY <1>4, <1>5, <1>6
    DEF IInv, FieldsOK, RegistryStep, SessionStep, ChildStep, SesType, SesRecord, EndingType,
        CredType, CallType, CallRecord
<1>8. CallsFound'
    BY <1>4, <1>5 DEF IInv, CallsFound, RegistryStep
<1>9. \A t \in Sessions, d \in Calls : d \in Users(t)' <=> d # c /\ d \in Users(t)
    BY <1>4 DEF Users, Work
<1>10. /\ \A t \in Sessions : Users(t) \subseteq Calls /\ Users(t)' \subseteq Calls
       /\ \A t \in Sessions : c \in Users(t) <=> t = s /\ Work(c) = 1
    BY <1>1 DEF Users
<1>11. Cardinality(Users(s)') = Cardinality(Users(s)) - Work(c)
  <2>1. CASE Work(c) = 1
    <3>1. Users(s)' = Users(s) \ {c} /\ c \in Users(s)
        BY <1>9, <1>10, <2>1
    <3> QED
        BY <3>1, <2>1, UsersFinite, FS_RemoveElement
  <2>2. CASE Work(c) = 0
    <3>1. Users(s)' = Users(s)
        BY <1>9, <1>10, <2>2
    <3> QED
        BY <3>1, <2>2, UsersFinite
  <2> QED
      BY <2>1, <2>2 DEF Work
<1>12. HoldsAreWork'
  <2> SUFFICES ASSUME NEW t \in Sessions
               PROVE  ses'[t].holds = Own(t)' + Cardinality(Users(t)')
      BY DEF HoldsAreWork
  <2>1. ses[t].holds = Own(t) + Cardinality(Users(t)) /\ Own(t)' = Own(t)
        /\ Own(t) \in Int /\ Cardinality(Users(t)) \in Int
      BY <1>3, UsersFinite DEF IInv, HoldsAreWork, Own
  <2>2. CASE t = s
      BY <2>1, <2>2, <1>2, <1>3, <1>11
  <2>3. CASE t # s
    <3>1. Users(t)' = Users(t)
        BY <1>9, <1>10, <2>3
    <3> QED
        BY <2>1, <2>3, <1>3, <3>1
  <2> QED
      BY <2>2, <2>3
<1>13. SweptIsIdle'
    BY <1>4, <1>5 DEF IInv, FieldsOK, SweptIsIdle, InFlight, Work
<1> QED
    BY <1>5, <1>6, <1>7, <1>8, <1>12, <1>13, RegistryKept DEF IInv

-----------------------------------------------------------------------------
\* Every step keeps the invariant.
LEMMA NextInvariant == IInv /\ [Next]_vars => IInv'
<1> SUFFICES ASSUME IInv, [Next]_vars PROVE IInv'
    OBVIOUS
<1>1. ASSUME NEW s \in Sessions, Opening(s) PROVE IInv'
    BY <1>1, AddInvariant, OpeningInvariant, IndexInvariant, OpeningEndInvariant DEF Opening
<1>2. ASSUME NEW s \in Sessions,
             \/ CloseChild(s) \/ Sweep(s) \/ EndRevoked(s)
             \/ ChildWaited(s) \/ ChildExits(s) \/ GraceOver(s)
      PROVE  IInv'
    BY <1>2, CloseChildInvariant, EndInvariant, BesideInvariant DEF Sweep
<1>3. ASSUME NEW c \in Calls, Serving(c) PROVE IInv'
    BY <1>3, CallHoldInvariant, CallAnswerInvariant DEF Serving
<1>4. CASE UNCHANGED vars
  <2>1. NoEnd /\ child' = child /\ UNCHANGED <<ses, call, swept>> /\ registered' \subseteq registered
      BY <1>4 DEF vars, NoEnd, registry
  <2> QED
      BY <2>1, NoEndIsRegistryStep, NoChildStep, EndClosesNothing, OtherStepKeeps
<1> QED
    BY <1>1, <1>2, <1>3, <1>4, OpenAskInvariant, CallGetInvariant, RevokeInvariant DEF Next

\* So it holds in every state of every behaviour.
LEMMA Invariance == Spec => []IInv
  BY InitInvariant, NextInvariant, PTL DEF Spec

-----------------------------------------------------------------------------
\* Every variable keeps its type: a session is held by no more than its opening request and the
\* later ones together, and the slots are the credentials with no end set.
THEOREM TypeCorrect == Spec => []TypeOK
<1>1. ASSUME IInv PROVE TypeOK
  <2>1. ASSUME NEW s \in Sessions PROVE ses[s].holds \in 0..(Cardinality(Calls) + 1)
      BY <1>1, UsersFinite, RequestsAssumption, FS_CardinalityType DEF IInv, HoldsAreWork, Own
  <2>2. ses \in [Sessions -> [at : Openings, process : Processes \cup {NoProcess},
                              cancel : BOOLEAN, client : BOOLEAN, id : BOOLEAN,
                              holds : 0..(Cardinality(Calls) + 1)]]
      BY <1>1, <2>1 DEF IInv, FieldsOK
  <2> QED
      BY <1>1, <2>2 DEF TypeOK, IInv, FieldsOK, CredentialAge
<1> QED
    BY <1>1, Invariance, PTL

\* The sessions of a Process that have not ended never have more children running than the cap,
\* whatever is being opened and ended at once: each of them has the slot add counted it for.
THEOREM Cap == Spec => []CapHolds
<1>1. ASSUME IInv, NEW p \in Processes
      PROVE  Cardinality({s \in Sessions : /\ ses[s].process = p /\ ~Ended(s)
                                           /\ child[s] = "running"}) <= MaxSessions
  <2> DEFINE Running == {s \in Sessions : /\ ses[s].process = p /\ ~Ended(s)
                                          /\ child[s] = "running"}
  <2>1. Running \subseteq Of(p) /\ Of(p) \subseteq Sessions
      BY <1>1 DEF IInv, FieldsOK, CredentialAge, Of
  <2>2. /\ Cardinality(Running) <= Cardinality(Of(p))
        /\ Cardinality(Running) \in Nat /\ Cardinality(Of(p)) \in Nat
      BY <2>1, SlotsFinite
  <2> QED
      BY <1>1, <2>2, MaxAssumption DEF IInv, SlotsCapped
<1>2. IInv => CapHolds
    BY <1>1 DEF CapHolds
<1> QED
    BY <1>2, Invariance, PTL

\* The records of a running child find its credential, from before it starts to the end of the
\* grace that the session's end begins; and a session that ended once its cancel was set has no
\* child after its teardown, and none later.
THEOREM Owned == Spec => []ChildrenAreOwned
<1>1. IInv => CredentialResolves
    BY DEF IInv, FieldsOK, CredentialAge, CredentialResolves
<1>2. IInv => ChildrenGo
    BY DEF IInv
<1> QED
    BY <1>1, <1>2, Invariance, PTL DEF ChildrenAreOwned

\* The sweep ends no session under a later call that was in flight when it looked.
THEOREM SweepSpares == Spec => SweepSparesWork
<1>1. IInv => [\A s \in Sessions : s \in swept /\ s \notin swept' => ~InFlight(s)]_vars
    BY DEF IInv, SweptIsIdle
<1> QED
    BY <1>1, Invariance, PTL DEF SweepSparesWork
=============================================================================
