---------------------------- MODULE Runs_proofs ----------------------------
(***************************************************************************)
(* What runs for a member, for every value of the constants: the run of a  *)
(* Package in a container or in a kit and what is listed of it, the pod of *)
(* a Process with its units and files, the probes of those that declare    *)
(* health, and what is run because it was approved.  Each part of Member   *)
(* has an invariant of its own, and a theorem is of the specification of   *)
(* the part it is about.                                                   *)
(***************************************************************************)
EXTENDS Member, Sequences, FiniteSets, FiniteSetTheorems, SequenceTheorems, WellFoundedInduction, TLAPS

-----------------------------------------------------------------------------
Below == {pair \in Nat \X Nat : pair[1] < pair[2]}
LEMMA LeastOfThem == ASSUME NEW T \in SUBSET Nat, T # {} PROVE \E x \in T : \A y \in T : x <= y
<1>1. IsWellFoundedOn(Below, Nat)
    BY NatLessThanWellFounded DEF OpToRel, Below
<1>2. \A a, b \in Nat : <<b, a>> \notin Below => a <= b
    <2>1. \A a, b \in Nat : b < a => <<b, a>> \in Below
        BY DEF Below
    <2> QED
        BY <2>1
<1>3. PICK x \in T : \A y \in T : ~(<<y, x>> \in Below)
    BY <1>1, WFMin
<1> QED
    BY <1>2, <1>3

-----------------------------------------------------------------------------
\* A registration is neither the boot nor none; the units of a manifest have a name each, and one of
\* them is the face.
RegistrationsAreNamed == Pods!Boot \notin PodIds /\ Pods!None \notin PodIds
UnitsAreNamed ==
    /\ Order \in Seq(Pods!Units) /\ FaceUnit \in Pods!Units
    /\ \A j, k \in 1..Len(Order) : Order[j] = Order[k] => j = k

Acts == {"idle", "pod", "file", "create", "verify", "start", "tearDown", "failed", "remove", "files", "record"}
Actions == [pc : Acts, id : PodIds \union {Pods!None}, k : Nat, tok : Nat]
UnitStates == {"none", "made", "verified", "running", "exited", "old"}
PodsOf == [of : PodIds \union {Pods!None}, units : [Pods!Units -> [state : UnitStates, tok : Nat]]]

\* Whose action it is, and the unit it is at; a file is the one that is being used, or the boot's.
Acting(a, r) ==
    /\ r.pc # "idle" => r.id \in PodIds /\ (a # Pods!Boot => r.id = a)
    /\ r.pc \in {"create", "file", "verify", "start"} => r.k \in 1..Len(Order)
    /\ r.pc \in {"pod", "files"} => r.k = 1
    /\ a = Pods!Boot => r.pc # "file"
Used(f, r, b) == (r.pc = "create" /\ Order[r.k] = f[2]) \/ b.id = f[1]
PodsInv ==
    /\ podAt \in [Pods!Actors -> Actions] /\ pod \in PodsOf /\ podFiles \in SUBSET (PodIds \X Pods!Units)
    /\ podRows \in [PodIds -> Nat] /\ tokens \in Nat /\ crashes \in Nat
    /\ \A a \in Pods!Actors : Acting(a, podAt[a])
    /\ \A f \in podFiles : Used(f, podAt[f[1]], podAt[Pods!Boot])
    /\ crashes = 0 => todo = {} /\ podAt[Pods!Boot] = Pods!Quiet

\* One step of an action: what is left of the files is used by it as before.
LEMMA ActionMoves ==
    ASSUME RegistrationsAreNamed, PodsInv, NEW a \in Pods!Actors, NEW n \in Actions, Acting(a, n),
           podAt' = [podAt EXCEPT ![a] = n], pod' \in PodsOf, podRows' \in [PodIds -> Nat], tokens' \in Nat, crashes' = crashes,
           todo' \subseteq todo, crashes = 0 => a # Pods!Boot,
           podFiles' \in SUBSET (PodIds \X Pods!Units),
           a # Pods!Boot => \A f \in podFiles' : IF f[1] = a THEN Used(f, n, podAt[Pods!Boot]) ELSE f \in podFiles,
           a = Pods!Boot => \A f \in podFiles' : f[1] = n.id \/ (f \in podFiles /\ f[1] # podAt[Pods!Boot].id)
    PROVE  PodsInv'
<1>1. Pods!Boot \in Pods!Actors /\ \A b \in Pods!Actors : podAt'[b] = IF b = a THEN n ELSE podAt[b]
    BY DEF PodsInv, Pods!Actors
<1>2. podAt' \in [Pods!Actors -> Actions] /\ \A b \in Pods!Actors : Acting(b, podAt'[b])
    BY <1>1 DEF PodsInv
<1>3. ASSUME NEW f \in podFiles' PROVE Used(f, podAt'[f[1]], podAt'[Pods!Boot])
    <2>1. f[1] \in PodIds /\ f[1] \in Pods!Actors /\ f[1] # Pods!Boot
        BY DEF Pods!Actors, RegistrationsAreNamed
    <2>2. f \in podFiles => Used(f, podAt[f[1]], podAt[Pods!Boot])
        BY DEF PodsInv
    <2>3. CASE a = Pods!Boot
        BY <1>1, <2>1, <2>2, <2>3 DEF Used
    <2>4. CASE a # Pods!Boot
        BY <1>1, <2>1, <2>2, <2>4 DEF Used
    <2> QED
        BY <2>3, <2>4
<1>4. crashes' = 0 => todo' = {} /\ podAt'[Pods!Boot] = Pods!Quiet
    BY <1>1 DEF PodsInv
<1> QED
    BY <1>2, <1>3, <1>4 DEF PodsInv

\* What a step makes of the record of its action.
AtStep(r, p) == [r EXCEPT !.pc = p]
AtUnit(r, p, k) == [r EXCEPT !.pc = p, !.k = k]
LEMMA AnActionGoesOn ==
    ASSUME NEW r \in Actions, NEW p \in Acts, NEW k \in Nat
    PROVE  /\ LET n == AtStep(r, p) IN n \in Actions /\ n.pc = p /\ n.id = r.id /\ n.k = r.k /\ n.tok = r.tok
           /\ LET n == AtUnit(r, p, k) IN n \in Actions /\ n.pc = p /\ n.id = r.id /\ n.k = k /\ n.tok = r.tok
<1>1. AtStep(r, p) \in Actions /\ AtUnit(r, p, k) \in Actions
    BY DEF Actions, AtStep, AtUnit
<1> QED
    BY <1>1 DEF Actions, AtStep, AtUnit
LEMMA QuietIsAnAction ==
    /\ Pods!Quiet \in Actions /\ Pods!Quiet.pc = "idle" /\ Pods!Quiet.id = Pods!None
    /\ \A a : Acting(a, Pods!Quiet)
  BY DEF Pods!Quiet, Actions, Acts, Acting

\* The pod, empty or with one unit of it in another state.
LEMMA PodsChange ==
    ASSUME PodsInv
    PROVE  /\ Pods!NoPod \in PodsOf
           /\ \A i \in PodIds : [Pods!NoPod EXCEPT !.of = i] \in PodsOf
           /\ \A u \in Pods!Units, s \in UnitStates : [pod EXCEPT !.units[u].state = s] \in PodsOf
           /\ \A u \in Pods!Units, s \in UnitStates, n \in Nat : [pod EXCEPT !.units[u] = [state |-> s, tok |-> n]] \in PodsOf
<1>1. Pods!NoUnit \in [state : UnitStates, tok : Nat]
    BY DEF Pods!NoUnit, Pods!None, UnitStates
<1>2. Pods!NoPod \in PodsOf
    BY <1>1 DEF Pods!NoPod, PodsOf
<1>3. \A i \in PodIds : [Pods!NoPod EXCEPT !.of = i] \in PodsOf
    BY <1>2 DEF PodsOf
<1>4. pod \in PodsOf
    BY DEF PodsInv
<1>5. ASSUME NEW u \in Pods!Units, NEW x \in [state : UnitStates, tok : Nat]
      PROVE  [pod EXCEPT !.units[u] = x] \in PodsOf
    BY <1>4 DEF PodsOf
<1>6. ASSUME NEW u \in Pods!Units, NEW s \in UnitStates PROVE [pod EXCEPT !.units[u].state = s] \in PodsOf
    BY <1>4 DEF PodsOf
<1>7. ASSUME NEW u \in Pods!Units, NEW s \in UnitStates, NEW n \in Nat
      PROVE  [pod EXCEPT !.units[u] = [state |-> s, tok |-> n]] \in PodsOf
    BY <1>5
<1> QED
    BY <1>2, <1>3, <1>6, <1>7

\* The unit an action is at is a unit.
LEMMA ItsUnit ==
    ASSUME UnitsAreNamed, PodsInv, NEW a \in Pods!Actors, podAt[a].pc \in {"create", "file", "verify", "start"}
    PROVE  /\ podAt[a].k \in 1..Len(Order) /\ Order[podAt[a].k] \in Pods!Units /\ Pods!StartOrder[podAt[a].k] \in Pods!Units
           /\ Len(Order) \in Nat
<1>1. podAt[a].k \in 1..Len(Order) /\ Len(Order) \in Nat
    BY DEF PodsInv, Acting, UnitsAreNamed
<1>2. PICK face \in 1..Len(Order) : Order[face] = FaceUnit /\ face = CHOOSE k \in 1..Len(Order) : Order[k] = FaceUnit
    BY DEF UnitsAreNamed, Pods!Units
<1>3. Pods!StartOrder[podAt[a].k] =
        IF podAt[a].k = Len(Order) THEN FaceUnit ELSE Order[IF podAt[a].k < face THEN podAt[a].k ELSE podAt[a].k + 1]
    BY <1>1, <1>2 DEF Pods!StartOrder
<1> QED
    BY <1>1, <1>2, <1>3 DEF Pods!Units

\* What the runtime does at the step of an action, which may refuse it.
LEMMA RuntimeMoves ==
    ASSUME RegistrationsAreNamed, UnitsAreNamed, PodsInv, NEW a \in Pods!Actors,
           Pods!CreatePod(a) \/ Pods!Verify(a) \/ Pods!StartUnit(a)
    PROVE  PodsInv'
<1> DEFINE r == podAt[a]
<1>0. /\ r \in Actions /\ Acting(a, r) /\ podRows \in [PodIds -> Nat] /\ tokens \in Nat /\ pod \in PodsOf
      /\ podFiles \in SUBSET (PodIds \X Pods!Units) /\ podAt \in [Pods!Actors -> Actions]
      /\ Pods!Boot \in Pods!Actors
    BY DEF PodsInv, Pods!Actors
<1>1. /\ r.pc \in {"pod", "verify", "start"} /\ r.pc # "create" /\ r.pc # "idle"
      /\ UNCHANGED <<podRows, podFiles, todo, tokens, crashes>>
    BY DEF Pods!CreatePod, Pods!Verify, Pods!StartUnit
<1>2. r.id \in PodIds /\ (a # Pods!Boot => r.id = a) /\ (crashes = 0 => a # Pods!Boot)
    BY <1>0, <1>1 DEF Acting, PodsInv, Pods!Quiet
<1>3. \A f \in podFiles : Used(f, podAt[f[1]], podAt[Pods!Boot])
    BY DEF PodsInv
<1>4. ASSUME NEW n \in Actions, Acting(a, n), podAt' = [podAt EXCEPT ![a] = n], pod' \in PodsOf,
             a = Pods!Boot => n.id = r.id
      PROVE  PodsInv'
    <2>1. a # Pods!Boot => \A f \in podFiles : f[1] = a => Used(f, n, podAt[Pods!Boot])
        BY <1>1, <1>3 DEF Used
    <2>2. a = Pods!Boot => \A f \in podFiles : f[1] = n.id \/ f[1] # podAt[Pods!Boot].id
        BY <1>4
    <2> QED
        BY <1>0, <1>1, <1>2, <1>4, <2>1, <2>2, ActionMoves
<1>5. ASSUME NEW p \in Acts, Pods!Goes(a, p), pod' \in PodsOf,
             p \in {"tearDown", "record"} \/ (p = "create" /\ a = Pods!Boot /\ r.k \in 1..Len(Order))
             \/ (p = "file" /\ a # Pods!Boot /\ r.k \in 1..Len(Order))
      PROVE  PodsInv'
    <2> DEFINE n == AtStep(r, p)
    <2>1. podAt' = [podAt EXCEPT ![a] = n]
        BY <1>0, <1>5 DEF Pods!Goes, AtStep
    <2>2. n \in Actions /\ n.pc = p /\ n.id = r.id /\ n.k = r.k
        BY <1>0, <1>5, AnActionGoesOn
    <2> HIDE DEF n
    <2>3. Acting(a, n)
        BY <1>2, <1>5, <2>2 DEF Acting
    <2> QED
        BY <1>4, <1>5, <2>1, <2>2, <2>3
<1>6. {"tearDown", "record", "create", "file", "verify", "start"} \subseteq Acts
    BY DEF Acts
<1>7. Len(Order) \in Nat /\ 1 \in 1..Len(Order) /\ (r.pc = "pod" => r.k = 1)
    BY <1>0 DEF UnitsAreNamed, Pods!Units, Acting
<1>8. ASSUME Pods!Goes(a, "tearDown"), UNCHANGED pod PROVE PodsInv'
    BY <1>0, <1>5, <1>6, <1>8
<1>9. CASE Pods!CreatePod(a)
    <2>1. CASE pod' = [Pods!NoPod EXCEPT !.of = r.id] /\ Pods!Goes(a, IF a = Pods!Boot THEN "create" ELSE "file")
        <3>1. pod' \in PodsOf
            BY <1>2, <2>1, PodsChange
        <3>2. r.pc = "pod"
            BY <1>9 DEF Pods!CreatePod
        <3> QED
            BY <1>5, <1>6, <1>7, <2>1, <3>1, <3>2
    <2> QED
        BY <1>8, <1>9, <2>1 DEF Pods!CreatePod
<1>10. CASE Pods!Verify(a)
    <2> DEFINE u == Order[r.k]
               next == Pods!NextOf(a)
               k == IF next = "start" THEN 1 ELSE r.k + 1
               n == AtUnit(r, next, k)
    <2>1. CASE /\ pod' = [pod EXCEPT !.units[u].state = "verified"]
               /\ podAt' = [podAt EXCEPT ![a].pc = next, ![a].k = k]
        <3>0. r.pc = "verify" /\ r.k \in 1..Len(Order) /\ u \in Pods!Units
            BY <1>10, ItsUnit DEF Pods!Verify
        <3>1. pod' \in PodsOf
            BY <2>1, <3>0, PodsChange DEF UnitStates
        <3>2. /\ next \in Acts /\ k \in Nat /\ k \in 1..Len(Order) /\ next \in {"start", "create", "file"}
              /\ (a = Pods!Boot => next # "file")
            BY <1>6, <1>7, <3>0 DEF Pods!NextOf
        <3>3. podAt' = [podAt EXCEPT ![a] = n]
            BY <1>0, <2>1 DEF AtUnit
        <3> HIDE DEF next, k
        <3>4. n \in Actions /\ n.pc = next /\ n.id = r.id /\ n.k = k
            BY <1>0, <3>2, AnActionGoesOn
        <3> HIDE DEF n
        <3>5. Acting(a, n)
            BY <1>2, <3>2, <3>4 DEF Acting
        <3> QED
            BY <1>4, <3>1, <3>3, <3>4, <3>5
    <2> QED
        BY <1>8, <1>10, <2>1 DEF Pods!Verify
<1>11. CASE Pods!StartUnit(a)
    <2> DEFINE u == Pods!StartOrder[r.k]
    <2>0. r.pc = "start" /\ r.k \in 1..Len(Order) /\ u \in Pods!Units
        BY <1>11, ItsUnit DEF Pods!StartUnit
    <2> HIDE DEF u
    <2> DEFINE further == IF r.k # Len(Order) THEN podAt' = [podAt EXCEPT ![a].k = r.k + 1]
                        ELSE IF a = Pods!Boot THEN Pods!Goes(a, "record") ELSE Pods!Ends(a)
    <2>1. CASE pod' = [pod EXCEPT !.units[u].state = "running"] /\ further
        <3>1. pod' \in PodsOf
            BY <2>0, <2>1, PodsChange DEF UnitStates
        <3>2. CASE r.k # Len(Order) /\ podAt' = [podAt EXCEPT ![a].k = r.k + 1]
            <4> DEFINE k == r.k + 1
                       n == AtUnit(r, "start", k)
            <4>1. podAt' = [podAt EXCEPT ![a] = n]
                BY <1>0, <2>0, <3>2 DEF AtUnit, Actions
            <4>2. k \in Nat /\ k \in 1..Len(Order)
                BY <1>7, <2>0, <3>2
            <4> HIDE DEF k
            <4>3. n \in Actions /\ n.pc = "start" /\ n.id = r.id /\ n.k = k
                BY <1>0, <1>6, <4>2, AnActionGoesOn
            <4> HIDE DEF n
            <4>4. Acting(a, n)
                BY <1>2, <4>2, <4>3 DEF Acting
            <4> QED
                BY <1>4, <3>1, <4>1, <4>3, <4>4
        <3>3. CASE a = Pods!Boot /\ Pods!Goes(a, "record")
            BY <1>5, <1>6, <3>1, <3>3
        <3>4. CASE a # Pods!Boot /\ Pods!Ends(a)
            <4>1. podAt' = [podAt EXCEPT ![a] = Pods!Quiet]
                BY <3>4 DEF Pods!Ends
            <4> QED
                BY <1>4, <3>1, <3>4, <4>1, QuietIsAnAction
        <3> QED
            BY <2>1, <3>2, <3>3, <3>4
    <2> QED
        BY <1>8, <1>11, <2>1 DEF Pods!StartUnit, u
<1> QED
    BY <1>9, <1>10, <1>11

\* A file is written, used, and gone with the container that was made from it.
LEMMA FilesMove ==
    ASSUME RegistrationsAreNamed, UnitsAreNamed, PodsInv, NEW a \in Pods!Actors,
           Pods!WriteFile(a) \/ Pods!Create(a) \/ Pods!TearDown(a)
    PROVE  PodsInv'
<1> DEFINE r == podAt[a]
           f0 == <<r.id, Order[r.k]>>
<1>0. /\ r \in Actions /\ Acting(a, r) /\ podRows \in [PodIds -> Nat] /\ tokens \in Nat /\ pod \in PodsOf
      /\ podFiles \in SUBSET (PodIds \X Pods!Units) /\ podAt \in [Pods!Actors -> Actions]
      /\ Pods!Boot \in Pods!Actors /\ r.tok \in Nat
    BY DEF PodsInv, Pods!Actors, Actions
<1>1. r.pc \in {"file", "create", "tearDown", "failed"} /\ r.pc # "idle" /\ UNCHANGED <<podRows, todo, tokens, crashes>>
    BY DEF Pods!WriteFile, Pods!Create, Pods!TearDown
<1>2. r.id \in PodIds /\ (a # Pods!Boot => r.id = a) /\ (crashes = 0 => a # Pods!Boot)
    BY <1>0, <1>1 DEF Acting, PodsInv, Pods!Quiet
<1>3. \A f \in podFiles : f[1] \in PodIds /\ Used(f, podAt[f[1]], podAt[Pods!Boot])
    BY <1>0 DEF PodsInv
<1>4. {"create", "verify", "tearDown"} \subseteq Acts
    BY DEF Acts
<1>5. CASE Pods!WriteFile(a)
    <2> DEFINE n == AtStep(r, "create")
    <2>0. r.pc = "file" /\ a # Pods!Boot /\ podFiles' = podFiles \union {f0} /\ pod' = pod
        BY <1>0, <1>5 DEF Pods!WriteFile, Acting
    <2>1. podAt' = [podAt EXCEPT ![a] = n]
        BY <1>0, <1>5 DEF Pods!WriteFile, Pods!Goes, AtStep
    <2>2. n \in Actions /\ n.pc = "create" /\ n.id = r.id /\ n.k = r.k
        BY <1>0, <1>4, AnActionGoesOn
    <2> HIDE DEF n
    <2>3. Acting(a, n)
        BY <1>0, <1>2, <2>0, <2>2 DEF Acting
    <2>4. f0 \in PodIds \X Pods!Units /\ Used(f0, n, podAt[Pods!Boot]) /\ f0[1] = a
        BY <1>2, <2>0, <2>2, ItsUnit DEF Used
    <2>5. \A f \in podFiles : f[1] = a => Used(f, n, podAt[Pods!Boot])
        BY <1>3, <2>0 DEF Used
    <2> HIDE DEF f0
    <2> QED
        BY <1>0, <1>1, <2>0, <2>1, <2>2, <2>3, <2>4, <2>5, ActionMoves
<1>6. CASE Pods!Create(a)
    <2> DEFINE u == Order[r.k]
    <2>0. /\ r.pc = "create" /\ r.k \in 1..Len(Order) /\ u \in Pods!Units
          /\ podFiles' = IF a = Pods!Boot THEN podFiles ELSE podFiles \ {f0}
        BY <1>6, ItsUnit DEF Pods!Create, Pods!Dropped
    <2>1. ASSUME NEW p \in {"verify", "tearDown"}, Pods!Goes(a, p), pod' \in PodsOf PROVE PodsInv'
        <3> DEFINE n == AtStep(r, p)
        <3>1. podAt' = [podAt EXCEPT ![a] = n]
            BY <1>0, <2>1 DEF Pods!Goes, AtStep
        <3>2. n \in Actions /\ n.pc = p /\ n.id = r.id /\ n.k = r.k
            <4>1. p \in Acts
                BY DEF Acts
            <4> QED
                BY <1>0, <4>1, AnActionGoesOn
        <3> HIDE DEF n
        <3>3. Acting(a, n)
            BY <1>2, <2>0, <3>2 DEF Acting
        <3>4. a # Pods!Boot => \A f \in podFiles' : f[1] = a => Used(f, n, podAt[Pods!Boot])
            <4> SUFFICES ASSUME a # Pods!Boot, NEW f \in podFiles', f[1] = a PROVE Used(f, n, podAt[Pods!Boot])
                OBVIOUS
            <4>1. f \in podFiles /\ f # f0 /\ f \in PodIds \X Pods!Units
                BY <1>0, <2>0
            <4>2. f[2] # u
                BY <1>2, <4>1
            <4> QED
                BY <1>3, <4>1, <4>2 DEF Used
        <3>5. podFiles' \subseteq podFiles
            BY <2>0
        <3> HIDE DEF f0
        <3> QED
            BY <1>0, <1>1, <1>2, <2>1, <3>1, <3>2, <3>3, <3>4, <3>5, ActionMoves
    <2>2. CASE Pods!Goes(a, "tearDown") /\ UNCHANGED pod
        BY <1>0, <2>1, <2>2
    <2>3. CASE pod' = [pod EXCEPT !.units[u] = [state |-> "made", tok |-> r.tok]] /\ Pods!Goes(a, "verify")
        <3>1. pod' \in PodsOf
            BY <1>0, <2>0, <2>3, PodsChange DEF UnitStates
        <3> QED
            BY <2>1, <2>3, <3>1
    <2> QED
        BY <1>6, <2>2, <2>3 DEF Pods!Create
<1>7. CASE Pods!TearDown(a)
    <2>0. /\ r.pc # "create" /\ podAt' = [podAt EXCEPT ![a] = Pods!Quiet]
          /\ podFiles' = IF a = Pods!Boot THEN {f \in podFiles : f[1] # r.id} ELSE podFiles
        BY <1>7 DEF Pods!TearDown, Pods!Ends
    <2>1. pod' \in PodsOf
        <3>1. Pods!NoPod \in PodsOf
            BY PodsChange
        <3> QED
            BY <1>0, <1>7, <3>1 DEF Pods!TearDown
    <2>2. a # Pods!Boot => \A f \in podFiles : f[1] = a => Used(f, Pods!Quiet, podAt[Pods!Boot])
        BY <1>3, <2>0 DEF Used
    <2> HIDE DEF f0
    <2> QED
        BY <1>0, <1>1, <1>2, <2>0, <2>1, <2>2, QuietIsAnAction, ActionMoves
<1> QED
    BY <1>5, <1>6, <1>7

\* A step that is of no action.
LEMMA BesideActions ==
    ASSUME PodsInv, UNCHANGED <<podAt, podFiles, crashes>>, pod' \in PodsOf, podRows' \in [PodIds -> Nat], tokens' \in Nat,
           todo' \subseteq todo
    PROVE  PodsInv'
  BY DEF PodsInv, Acting, Used

\* An action of a registration begins when no other has it.
LEMMA RegistrationsMove ==
    ASSUME RegistrationsAreNamed, PodsInv, NEW i \in PodIds,
           Pods!Register(i) \/ Pods!Unregister(i) \/ Pods!StartPod(i) \/ Pods!Stop(i) \/ Pods!RemovePod(i)
    PROVE  PodsInv'
<1>0. /\ podAt \in [Pods!Actors -> Actions] /\ podRows \in [PodIds -> Nat] /\ tokens \in Nat /\ pod \in PodsOf
      /\ podFiles \in SUBSET (PodIds \X Pods!Units) /\ i \in Pods!Actors /\ i # Pods!Boot /\ crashes' = crashes
      /\ UNCHANGED <<podFiles, todo>>
    BY DEF PodsInv, Pods!Actors, RegistrationsAreNamed, Pods!Register, Pods!Unregister, Pods!StartPod, Pods!Stop,
       Pods!RemovePod
<1>3. \A f \in podFiles : f[1] = i /\ podAt[i].pc # "create" => podAt[Pods!Boot].id = f[1]
    BY DEF PodsInv, Used
<1>4. ASSUME NEW n \in Actions, n.pc # "create", Acting(i, n), podAt' = [podAt EXCEPT ![i] = n], podAt[i].pc # "create",
             pod' \in PodsOf, podRows' \in [PodIds -> Nat], tokens' \in Nat
      PROVE  PodsInv'
    <2>1. \A f \in podFiles : f[1] = i => Used(f, n, podAt[Pods!Boot])
        BY <1>3, <1>4 DEF Used
    <2> QED
        BY <1>0, <1>4, <2>1, ActionMoves
<1>5. Pods!NoRow \in Nat /\ Pods!Quiet.pc # "create"
    BY DEF Pods!NoRow, Pods!Quiet
<1>6. CASE Pods!Register(i) \/ Pods!Unregister(i)
    <2>1. podRows' \in [PodIds -> Nat] /\ tokens' \in Nat /\ UNCHANGED <<podAt, pod>>
        BY <1>0, <1>5, <1>6 DEF Pods!Register, Pods!Unregister, Pods!New
    <2> QED
        BY <1>0, <2>1, BesideActions
<1>7. CASE Pods!StartPod(i)
    <2> DEFINE n == [pc |-> "pod", id |-> i, k |-> 1, tok |-> tokens']
    <2>1. tokens' \in Nat /\ podRows' \in [PodIds -> Nat] /\ UNCHANGED pod /\ podAt[i] = Pods!Quiet
        BY <1>0, <1>7 DEF Pods!StartPod, Pods!New, Pods!Prepared, Pods!Free
    <2>2. n \in Actions /\ Acting(i, n) /\ n.pc # "create"
        BY <2>1 DEF Actions, Acts, Acting
    <2>3. podAt' = [podAt EXCEPT ![i] = n]
        BY <1>7 DEF Pods!StartPod
    <2> HIDE DEF n
    <2> QED
        BY <1>0, <1>4, <1>5, <2>1, <2>2, <2>3
<1>8. CASE Pods!Stop(i)
    <2> DEFINE n == [Pods!Quiet EXCEPT !.pc = "remove", !.id = i]
    <2>1. n \in Actions /\ Acting(i, n) /\ n.pc # "create" /\ podAt[i] = Pods!Quiet
        BY <1>8 DEF Actions, Acts, Acting, Pods!Quiet, Pods!Stop, Pods!Free
    <2>2. podAt' = [podAt EXCEPT ![i] = n] /\ UNCHANGED <<podRows, tokens>>
        BY <1>8 DEF Pods!Stop
    <2>3. pod' \in PodsOf
        <3> DEFINE us == [u \in Pods!Units |-> [pod.units[u] EXCEPT !.state = IF @ = "running" THEN "exited" ELSE @]]
        <3>1. \A u \in Pods!Units : pod.units[u] \in [state : UnitStates, tok : Nat]
            BY <1>0 DEF PodsOf
        <3>2. us \in [Pods!Units -> [state : UnitStates, tok : Nat]]
            BY <3>1 DEF UnitStates
        <3>3. pod' = [pod EXCEPT !.units = us]
            BY <1>8 DEF Pods!Stop
        <3> HIDE DEF us
        <3> QED
            BY <1>0, <3>2, <3>3 DEF PodsOf
    <2> HIDE DEF n
    <2> QED
        BY <1>0, <1>4, <1>5, <2>1, <2>2, <2>3
<1>9. CASE Pods!RemovePod(i)
    <2>1. pod' \in PodsOf
        <3>1. Pods!NoPod \in PodsOf
            BY PodsChange
        <3> QED
            BY <1>0, <1>9, <3>1 DEF Pods!RemovePod
    <2>2. podAt' = [podAt EXCEPT ![i] = Pods!Quiet] /\ UNCHANGED <<podRows, tokens>> /\ podAt[i].pc # "create"
        BY <1>9 DEF Pods!RemovePod, Pods!Ends, Pods!Free, Pods!Quiet
    <2> QED
        BY <1>0, <1>4, <1>5, <2>1, <2>2, QuietIsAnAction
<1> QED
    BY <1>6, <1>7, <1>8, <1>9

\* The boot brings one registration back after the other, and what it wrote goes with each.
LEMMA BootMoves ==
    ASSUME RegistrationsAreNamed, UnitsAreNamed, PodsInv,
           (\E i \in PodIds : Pods!Restore(i)) \/ Pods!RemakeFiles \/ Pods!Record
    PROVE  PodsInv'
<1> DEFINE b == Pods!Boot
           r == podAt[b]
<1>0. /\ podAt \in [Pods!Actors -> Actions] /\ podRows \in [PodIds -> Nat] /\ tokens \in Nat /\ pod \in PodsOf
      /\ podFiles \in SUBSET (PodIds \X Pods!Units) /\ b \in Pods!Actors /\ b \notin PodIds /\ r \in Actions /\ Acting(b, r)
      /\ \A f \in podFiles : f[1] \in PodIds
    BY DEF PodsInv, Pods!Actors, RegistrationsAreNamed
<1>1. crashes' = crashes /\ crashes # 0 /\ todo' \subseteq todo
    <2>0. crashes = 0 => todo = {} /\ r.pc = "idle"
        BY QuietIsAnAction DEF PodsInv
    <2>1. CASE \E i \in PodIds : Pods!Restore(i)
        BY <2>0, <2>1 DEF Pods!Restore
    <2>2. CASE Pods!RemakeFiles
        BY <2>0, <2>2 DEF Pods!RemakeFiles
    <2>3. CASE Pods!Record
        BY <2>0, <2>3 DEF Pods!Record
    <2> QED
        BY <2>1, <2>2, <2>3
<1>2. ASSUME NEW n \in Actions, Acting(b, n), podAt' = [podAt EXCEPT ![b] = n], podFiles' \in SUBSET (PodIds \X Pods!Units),
             \A f \in podFiles' : f[1] = n.id \/ (f \in podFiles /\ f[1] # r.id),
             pod' \in PodsOf, podRows' \in [PodIds -> Nat], tokens' \in Nat
      PROVE  PodsInv'
    BY <1>0, <1>1, <1>2, ActionMoves
<1>3. ASSUME NEW i \in PodIds, Pods!Restore(i) PROVE PodsInv'
    <2>0. r = Pods!Quiet /\ UNCHANGED <<pod, podFiles>>
        BY <1>3 DEF Pods!Restore
    <2>1. \A f \in podFiles : f[1] # r.id
        BY <1>0, <2>0, QuietIsAnAction DEF RegistrationsAreNamed
    <2>2. podRows' \in [PodIds -> Nat] /\ tokens' \in Nat
        <3>1. podRows' \in {podRows, [podRows EXCEPT ![i] = 0]} /\ tokens' \in {tokens, tokens + 1}
            BY <1>3 DEF Pods!Restore, Pods!New, Pods!NoRow
        <3>2. [podRows EXCEPT ![i] = 0] \in [PodIds -> Nat] /\ tokens + 1 \in Nat
            BY <1>0
        <3> QED
            BY <1>0, <3>1, <3>2
    <2>3. CASE UNCHANGED podAt
        BY <1>0, <1>1, <2>0, <2>2, <2>3, BesideActions
    <2>4. CASE podAt' = [podAt EXCEPT ![b] = [Pods!Quiet EXCEPT !.pc = "tearDown", !.id = i, !.k = 1]]
        <3> DEFINE n == [Pods!Quiet EXCEPT !.pc = "tearDown", !.id = i, !.k = 1]
        <3>1. n \in Actions /\ Acting(b, n)
            BY <1>0 DEF Actions, Acts, Acting, Pods!Quiet
        <3> HIDE DEF n
        <3> QED
            BY <1>0, <1>2, <2>0, <2>1, <2>2, <2>4, <3>1 DEF n
    <2>5. CASE podAt' = [podAt EXCEPT ![b] = [pc |-> "files", id |-> i, k |-> 1, tok |-> tokens']]
        <3> DEFINE n == [pc |-> "files", id |-> i, k |-> 1, tok |-> tokens']
        <3>1. n \in Actions /\ Acting(b, n)
            BY <1>0, <2>2 DEF Actions, Acts, Acting
        <3> HIDE DEF n
        <3> QED
            BY <1>0, <1>2, <2>0, <2>1, <2>2, <2>5, <3>1 DEF n
    <2> QED
        BY <1>3, <2>3, <2>4, <2>5 DEF Pods!Restore
<1>4. CASE Pods!RemakeFiles
    <2>0. r.pc = "files" /\ r.id \in PodIds /\ r.k = 1 /\ UNCHANGED <<podRows, tokens>>
        BY <1>0, <1>4 DEF Pods!RemakeFiles, Acting
    <2>1. podFiles' \in SUBSET (PodIds \X Pods!Units) /\ \A f \in podFiles' : f[1] = r.id \/ (f \in podFiles /\ f[1] # r.id)
        BY <1>0, <1>4, <2>0 DEF Pods!RemakeFiles
    <2>2. pod' \in PodsOf
        <3>1. Pods!NoPod \in PodsOf
            BY PodsChange
        <3> QED
            BY <1>0, <1>4, <3>1 DEF Pods!RemakeFiles
    <2>3. ASSUME NEW p \in {"pod", "failed"}, Pods!Goes(b, p) PROVE PodsInv'
        <3> DEFINE n == AtStep(r, p)
        <3>1. podAt' = [podAt EXCEPT ![b] = n]
            BY <1>0, <2>3 DEF Pods!Goes, AtStep
        <3>2. n \in Actions /\ n.pc = p /\ n.id = r.id /\ n.k = r.k
            <4>1. p \in Acts
                BY DEF Acts
            <4> QED
                BY <1>0, <4>1, AnActionGoesOn
        <3> HIDE DEF n
        <3>3. Acting(b, n)
            BY <2>0, <3>2 DEF Acting
        <3> QED
            BY <1>0, <1>2, <2>0, <2>1, <2>2, <3>1, <3>2, <3>3
    <2> QED
        BY <1>4, <2>3 DEF Pods!RemakeFiles
<1>5. CASE Pods!Record
    <2>0. /\ r.pc = "record" /\ r.id \in PodIds /\ UNCHANGED <<pod, tokens>> /\ podAt' = [podAt EXCEPT ![b] = Pods!Quiet]
          /\ podFiles' = {f \in podFiles : f[1] # r.id}
        BY <1>0, <1>5 DEF Pods!Record, Acting, Pods!Ends
    <2>1. podRows' \in [PodIds -> Nat]
        <3>1. r.tok \in Nat
            BY <1>0 DEF Actions
        <3> QED
            BY <1>0, <1>5, <2>0, <3>1 DEF Pods!Record
    <2> QED
        BY <1>0, <1>2, <2>0, <2>1, QuietIsAnAction
<1> QED
    BY <1>3, <1>4, <1>5

\* The daemon stops where it is, and no file is left.
LEMMA CrashMoves == ASSUME PodsInv, NEW host \in BOOLEAN, Pods!Crash(host) PROVE PodsInv'
<1>1. crashes' \in Nat /\ crashes' # 0 /\ podFiles' = {} /\ UNCHANGED <<podRows, tokens>>
    BY DEF PodsInv, Pods!Crash
<1>2. podAt' \in [Pods!Actors -> Actions] /\ \A a \in Pods!Actors : podAt'[a] = Pods!Quiet
    BY QuietIsAnAction DEF Pods!Crash
<1>3. pod' \in PodsOf
    <2> DEFINE us == [u \in Pods!Units |-> [pod.units[u] EXCEPT !.state = IF @ = Pods!None THEN Pods!None ELSE "old"]]
    <2>1. \A u \in Pods!Units : pod.units[u] \in [state : UnitStates, tok : Nat]
        BY DEF PodsOf, PodsInv
    <2>2. us \in [Pods!Units -> [state : UnitStates, tok : Nat]]
        BY <2>1 DEF UnitStates, Pods!None
    <2>3. pod' = IF host THEN [pod EXCEPT !.units = us] ELSE pod
        BY DEF Pods!Crash
    <2> HIDE DEF us
    <2> QED
        BY <2>2, <2>3 DEF PodsOf, PodsInv
<1> QED
    BY <1>1, <1>2, <1>3, QuietIsAnAction DEF PodsInv

\* Every step, of whatever is at the pod.
LEMMA PodsStep ==
    ASSUME RegistrationsAreNamed, UnitsAreNamed, PodsInv, [Pods!Next]_Pods!vars PROVE PodsInv'
<1>1. CASE UNCHANGED Pods!vars
    BY <1>1, BesideActions DEF Pods!vars, PodsInv
<1>2. ASSUME NEW i \in PodIds, \/ Pods!Register(i) \/ Pods!Unregister(i) \/ Pods!StartPod(i) \/ Pods!Stop(i)
                            \/ Pods!RemovePod(i) \/ Pods!Restore(i)
      PROVE  PodsInv'
    BY <1>2, RegistrationsMove, BootMoves
<1>3. ASSUME NEW a \in Pods!Actors, \/ Pods!CreatePod(a) \/ Pods!WriteFile(a) \/ Pods!Create(a) \/ Pods!Verify(a)
                                    \/ Pods!StartUnit(a) \/ Pods!TearDown(a)
      PROVE  PodsInv'
    BY <1>3, RuntimeMoves, FilesMove
<1>4. ASSUME NEW u \in Pods!Units, Pods!Exit(u) PROVE PodsInv'
    <2>1. pod' \in PodsOf /\ UNCHANGED <<podRows, podAt, podFiles, todo, tokens, crashes>>
        BY <1>4, PodsChange DEF Pods!Exit, UnitStates
    <2> QED
        BY <2>1, BesideActions DEF PodsInv
<1> QED
    BY <1>1, <1>2, <1>3, <1>4, BootMoves, CrashMoves DEF Pods!Next
LEMMA PodsInit == Pods!Init => PodsInv
<1> SUFFICES ASSUME Pods!Init PROVE PodsInv
    OBVIOUS
<1>1. Pods!NoPod \in PodsOf
    BY DEF Pods!NoPod, Pods!NoUnit, Pods!None, UnitStates, PodsOf
<1>2. Pods!Boot \in Pods!Actors /\ podAt \in [Pods!Actors -> Actions] /\ \A a \in Pods!Actors : podAt[a] = Pods!Quiet
    BY QuietIsAnAction DEF Pods!Init, Pods!Actors
<1> QED
    BY <1>1, <1>2, QuietIsAnAction DEF Pods!Init, PodsInv, Pods!NoRow

(***************************************************************************)
(* The order of a pod, where one registration names it and no boot is      *)
(* under way: the units are made and verified one after another, none runs *)
(* before all are, and the face is started after the others.  Two          *)
(* registrations of one pod break it: one of them is at the start of a pod *)
(* the other has removed and made again.                                   *)
(***************************************************************************)
OneRegistration == \A i, j \in PodIds : i = j

Ran == {"running", "exited"}
StatesOf(p) == [u \in Pods!Units |-> p.units[u].state]
InOrder(st) ==
    /\ (\E u \in Pods!Units : st[u] \in Ran) => \A u \in Pods!Units : st[u] \notin {"none", "made"}
    /\ st[FaceUnit] \in Ran => \A u \in Pods!Units : st[u] \in Ran

\* How far an action has come, unit by unit.
SoFar(r, st) ==
    /\ r.pc \in {"file", "create"} => \A j \in 1..Len(Order) : st[Order[j]] = IF j < r.k THEN "verified" ELSE "none"
    /\ r.pc = "verify" => \A j \in 1..Len(Order) :
         st[Order[j]] = IF j < r.k THEN "verified" ELSE IF j = r.k THEN "made" ELSE "none"
    /\ r.pc = "start" =>
         /\ \A u \in Pods!Units : st[u] \notin {"none", "made"}
         /\ \A j \in 1..Len(Order) : j < r.k => st[Pods!StartOrder[j]] \in Ran
OrderInv == crashes = 0 => InOrder(StatesOf(pod)) /\ \A i \in PodIds : SoFar(podAt[i], StatesOf(pod))

\* startOrder: every unit once, the face last.
LEMMA FaceIsLast ==
    ASSUME UnitsAreNamed
    PROVE  /\ Len(Order) \in 1..Len(Order) /\ Len(Order) \in Nat
           /\ \A k \in 1..Len(Order) : Pods!StartOrder[k] \in Pods!Units /\ (Pods!StartOrder[k] = FaceUnit <=> k = Len(Order))
           /\ \A u \in Pods!Units : \E k \in 1..Len(Order) : Pods!StartOrder[k] = u
<1> DEFINE n == Len(Order)
<1>0. n \in Nat
    BY DEF UnitsAreNamed
<1>1. PICK face \in 1..n : Order[face] = FaceUnit /\ face = CHOOSE k \in 1..n : Order[k] = FaceUnit
    BY DEF UnitsAreNamed, Pods!Units
<1>2. \A k \in 1..n : Pods!StartOrder[k] = IF k = n THEN FaceUnit ELSE Order[IF k < face THEN k ELSE k + 1]
    BY <1>1 DEF Pods!StartOrder
<1>3. \A j, k \in 1..n : Order[j] = Order[k] => j = k
    BY DEF UnitsAreNamed
<1>4. \A k \in 1..n : k # n => (IF k < face THEN k ELSE k + 1) \in 1..n /\ (IF k < face THEN k ELSE k + 1) # face
    <2> SUFFICES ASSUME NEW k \in 1..n, k # n
                 PROVE  (IF k < face THEN k ELSE k + 1) \in 1..n /\ (IF k < face THEN k ELSE k + 1) # face
        OBVIOUS
    <2>1. n \in Nat /\ face \in Nat /\ k \in Nat /\ k >= 1 /\ k < n
        BY <1>0
    <2> HIDE DEF n
    <2>2. CASE k < face
        BY <2>1, <2>2
    <2>3. CASE ~(k < face)
        BY <2>1, <2>3
    <2> QED
        BY <2>2, <2>3
<1>5. FaceUnit \in Pods!Units /\ \A k \in 1..n : Order[k] \in Pods!Units
    BY DEF UnitsAreNamed, Pods!Units
<1>6. ASSUME NEW k \in 1..n PROVE Pods!StartOrder[k] \in Pods!Units /\ (Pods!StartOrder[k] = FaceUnit <=> k = n)
    <2> DEFINE j == IF k < face THEN k ELSE k + 1
    <2>1. CASE k = n
        BY <1>2, <1>5, <2>1
    <2>2. CASE k # n
        <3>1. j \in 1..n /\ j # face /\ Pods!StartOrder[k] = Order[j]
            BY <1>2, <1>4, <2>2
        <3> HIDE DEF j
        <3> QED
            BY <1>1, <1>3, <1>5, <2>2, <3>1
    <2> QED
        BY <2>1, <2>2
<1>7. ASSUME NEW u \in Pods!Units PROVE \E k \in 1..n : Pods!StartOrder[k] = u
    <2>1. PICK j \in 1..n : u = Order[j]
        BY DEF Pods!Units
    <2>2. CASE j = face
        <3>1. n \in 1..n
            BY <1>0, <1>1
        <3>2. Pods!StartOrder[n] = FaceUnit /\ FaceUnit = u
            BY <1>1, <1>2, <2>1, <2>2, <3>1
        <3> QED
            BY <3>1, <3>2
    <2>3. CASE j < face
        <3>1. j # n
            BY <1>0, <1>1, <2>3
        <3> QED
            BY <1>2, <2>1, <2>3, <3>1
    <2>4. CASE j > face
        <3> DEFINE k == j - 1
        <3>1. k \in 1..n /\ k # n /\ ~(k < face) /\ k + 1 = j
            BY <1>0, <1>1, <2>4
        <3> QED
            BY <1>2, <2>1, <3>1
    <2> QED
        BY <1>0, <1>1, <2>2, <2>3, <2>4
<1> QED
    BY <1>0, <1>1, <1>6, <1>7

\* What the states of the units are after a change of the pod.
LEMMA StatesChange ==
    ASSUME PodsInv, NEW u \in Pods!Units, NEW s, NEW n
    PROVE  /\ StatesOf(pod) \in [Pods!Units -> UnitStates]
           /\ StatesOf([pod EXCEPT !.units[u].state = s]) = [StatesOf(pod) EXCEPT ![u] = s]
           /\ StatesOf([pod EXCEPT !.units[u] = [state |-> s, tok |-> n]]) = [StatesOf(pod) EXCEPT ![u] = s]
<1>1. pod \in PodsOf
    BY DEF PodsInv
<1>2. /\ DOMAIN pod = {"of", "units"} /\ DOMAIN pod.units = Pods!Units
      /\ \A v \in Pods!Units : DOMAIN pod.units[v] = {"state", "tok"} /\ pod.units[v].state \in UnitStates
    BY <1>1 DEF PodsOf
<1>3. \A v \in Pods!Units : [pod EXCEPT !.units[u].state = s].units[v].state = IF v = u THEN s ELSE pod.units[v].state
    BY <1>2
<1>4. \A v \in Pods!Units :
        [pod EXCEPT !.units[u] = [state |-> s, tok |-> n]].units[v].state = IF v = u THEN s ELSE pod.units[v].state
    BY <1>2
<1> QED
    BY <1>2, <1>3, <1>4 DEF StatesOf
LEMMA AnEmptyPod ==
    /\ \A u \in Pods!Units : StatesOf(Pods!NoPod)[u] = "none"
    /\ \A i : \A u \in Pods!Units : StatesOf([Pods!NoPod EXCEPT !.of = i])[u] = "none"
  BY DEF StatesOf, Pods!NoPod, Pods!NoUnit, Pods!None
LEMMA AnEmptyPodIsInOrder ==
    ASSUME UnitsAreNamed, NEW st, \A u \in Pods!Units : st[u] = "none" PROVE InOrder(st)
  BY DEF InOrder, Ran, UnitsAreNamed

\* The states a pod may go to in order: a unit before any runs, and a unit that starts.
LEMMA OneMoreMade ==
    ASSUME UnitsAreNamed, NEW st \in [Pods!Units -> UnitStates], NEW u \in Pods!Units, NEW s \in {"made", "verified"},
           \A v \in Pods!Units : st[v] \notin Ran
    PROVE  InOrder([st EXCEPT ![u] = s])
  BY DEF InOrder, Ran, UnitsAreNamed
LEMMA OneMoreRuns ==
    ASSUME UnitsAreNamed, NEW st \in [Pods!Units -> UnitStates], InOrder(st), NEW u \in Pods!Units, NEW s \in Ran,
           \A v \in Pods!Units : st[v] \notin {"none", "made"},
           u = FaceUnit => \A v \in Pods!Units : v # FaceUnit => st[v] \in Ran
    PROVE  InOrder([st EXCEPT ![u] = s])
  BY DEF InOrder, Ran, UnitsAreNamed

\* One step of the only registration, to an action that has come as far as the pod.
LEMMA OrderMoves ==
    ASSUME RegistrationsAreNamed, OneRegistration, PodsInv, NEW i \in PodIds, NEW n, podAt' = [podAt EXCEPT ![i] = n],
           crashes' = 0 => InOrder(StatesOf(pod')) /\ SoFar(n, StatesOf(pod'))
    PROVE  OrderInv'
<1>1. \A j \in PodIds : podAt'[j] = n
    BY DEF OneRegistration, PodsInv, Pods!Actors
<1> QED
    BY <1>1 DEF OrderInv

\* A step of a start: what it has made so far is what the pod is.
LEMMA StartsInOrder ==
    ASSUME RegistrationsAreNamed, UnitsAreNamed, OneRegistration, PodsInv, OrderInv, NEW i \in PodIds,
           \/ Pods!CreatePod(i) \/ Pods!WriteFile(i) \/ Pods!Create(i) \/ Pods!Verify(i) \/ Pods!StartUnit(i)
           \/ Pods!TearDown(i)
    PROVE  OrderInv'
<1> DEFINE r  == podAt[i]
           st == StatesOf(pod)
           N  == Len(Order)
<1>0. /\ podAt \in [Pods!Actors -> Actions] /\ r \in Actions /\ Acting(i, r) /\ i \in Pods!Actors /\ i # Pods!Boot
      /\ N \in Nat /\ 1 \in 1..N /\ crashes' = crashes
    BY FaceIsLast DEF PodsInv, Pods!Actors, RegistrationsAreNamed, Pods!CreatePod, Pods!WriteFile, Pods!Create,
       Pods!Verify, Pods!StartUnit, Pods!TearDown
<1>1. DOMAIN r = {"pc", "id", "k", "tok"}
    BY <1>0 DEF Actions
<1> SUFFICES ASSUME crashes = 0, InOrder(st), SoFar(r, st) PROVE OrderInv'
    BY <1>0 DEF OrderInv
<1>2. st \in [Pods!Units -> UnitStates] /\ \A j \in 1..N : Order[j] \in Pods!Units
    <2>1. FaceUnit \in Pods!Units
        BY DEF UnitsAreNamed
    <2> QED
        BY <2>1, StatesChange DEF Pods!Units
<1>3. \A u \in Pods!Units : \E j \in 1..N : u = Order[j]
    BY DEF Pods!Units
<1>4. \A j, k \in 1..N : Order[j] = Order[k] => j = k
    BY DEF UnitsAreNamed
\* Where the step leaves the units alone.
<1>5. ASSUME NEW p, Pods!Goes(i, p), UNCHANGED pod, p \in {"tearDown", "idle"} \/ (p = "create" /\ r.pc = "file")
      PROVE  OrderInv'
    <2> DEFINE n == AtStep(r, p)
    <2>1. podAt' = [podAt EXCEPT ![i] = n] /\ n.pc = p /\ n.k = r.k
        BY <1>0, <1>1, <1>5 DEF Pods!Goes, AtStep
    <2>2. SoFar(n, st)
        BY <1>5, <2>1 DEF SoFar
    <2> HIDE DEF n, st
    <2> QED
        BY <1>5, <2>1, <2>2, OrderMoves DEF st
<1>6. CASE Pods!CreatePod(i)
    <2>0. r.pc = "pod" /\ r.k = 1
        BY <1>0, <1>6 DEF Pods!CreatePod, Acting
    <2>1. CASE pod' = [Pods!NoPod EXCEPT !.of = r.id] /\ Pods!Goes(i, "file")
        <3> DEFINE n  == AtStep(r, "file")
                   s2 == StatesOf(pod')
        <3>1. podAt' = [podAt EXCEPT ![i] = n] /\ n.pc = "file" /\ n.k = 1
            BY <1>0, <1>1, <2>0, <2>1 DEF Pods!Goes, AtStep
        <3>2. \A u \in Pods!Units : s2[u] = "none"
            BY <2>1, AnEmptyPod
        <3> HIDE DEF n, s2
        <3>3. InOrder(s2) /\ SoFar(n, s2)
            BY <1>0, <1>2, <3>1, <3>2, AnEmptyPodIsInOrder DEF SoFar
        <3> QED
            BY <3>1, <3>3, OrderMoves DEF s2
    <2> QED
        BY <1>0, <1>5, <1>6, <2>1 DEF Pods!CreatePod
<1>7. CASE Pods!WriteFile(i)
    BY <1>5, <1>7 DEF Pods!WriteFile
<1>8. CASE Pods!Create(i)
    <2> DEFINE u == Order[r.k]
    <2>0. r.pc = "create" /\ r.k \in 1..N /\ u \in Pods!Units /\ \A j \in 1..N : st[Order[j]] = IF j < r.k THEN "verified" ELSE "none"
        BY <1>0, <1>2, <1>8 DEF Pods!Create, SoFar, Acting
    <2>1. CASE pod' = [pod EXCEPT !.units[u] = [state |-> "made", tok |-> r.tok]] /\ Pods!Goes(i, "verify")
        <3> DEFINE n  == AtStep(r, "verify")
                   s2 == StatesOf(pod')
                   k  == r.k
        <3>1. podAt' = [podAt EXCEPT ![i] = n] /\ n.pc = "verify" /\ n.k = k
            BY <1>0, <1>1, <2>0, <2>1 DEF Pods!Goes, AtStep
        <3>2. s2 = [st EXCEPT ![u] = "made"]
            BY <2>0, <2>1, StatesChange
        <3>3. \A v \in Pods!Units : st[v] \notin Ran
            BY <1>3, <2>0 DEF Ran
        <3> HIDE DEF n, s2, st, k
        <3>4. \A j \in 1..N : s2[Order[j]] = IF j < k THEN "verified" ELSE IF j = k THEN "made" ELSE "none"
            BY <1>2, <1>4, <2>0, <3>2 DEF k
        <3>5. InOrder(s2) /\ SoFar(n, s2)
            BY <1>2, <2>0, <3>1, <3>2, <3>3, <3>4, OneMoreMade DEF SoFar
        <3> QED
            BY <3>1, <3>5, OrderMoves DEF s2
    <2> QED
        BY <1>5, <1>8, <2>1 DEF Pods!Create
<1>9. CASE Pods!Verify(i)
    <2> DEFINE u == Order[r.k]
               p == Pods!NextOf(i)
               k == IF p = "start" THEN 1 ELSE r.k + 1
    <2>0. /\ r.pc = "verify" /\ r.k \in 1..N /\ u \in Pods!Units
          /\ \A j \in 1..N : st[Order[j]] = IF j < r.k THEN "verified" ELSE IF j = r.k THEN "made" ELSE "none"
        BY <1>0, <1>2, <1>9 DEF Pods!Verify, SoFar, Acting
    <2>1. CASE pod' = [pod EXCEPT !.units[u].state = "verified"] /\ podAt' = [podAt EXCEPT ![i].pc = p, ![i].k = k]
        <3> DEFINE n  == AtUnit(r, p, k)
                   s2 == StatesOf(pod')
        <3>1. podAt' = [podAt EXCEPT ![i] = n] /\ n.pc = p /\ n.k = k
            BY <1>0, <1>1, <2>0, <2>1 DEF AtUnit
        <3>2. s2 = [st EXCEPT ![u] = "verified"]
            BY <2>0, <2>1, StatesChange
        <3>3. \A v \in Pods!Units : st[v] \notin Ran
            BY <1>3, <2>0 DEF Ran
        <3>4. IF r.k < N THEN p = "file" /\ k = r.k + 1 ELSE p = "start" /\ k = 1
            BY <1>0 DEF Pods!NextOf
        <3> HIDE DEF n, s2, st, k, p
        <3>5. \A j \in 1..N : s2[Order[j]] = IF j <= r.k THEN "verified" ELSE "none"
            <4> SUFFICES ASSUME NEW j \in 1..N PROVE s2[Order[j]] = IF j <= r.k THEN "verified" ELSE "none"
                OBVIOUS
            <4>1. s2[Order[j]] = IF j = r.k THEN "verified" ELSE st[Order[j]]
                BY <1>2, <1>4, <2>0, <3>2
            <4> QED
                BY <1>0, <2>0, <4>1
        <3>6. SoFar(n, s2)
            <4>1. CASE r.k < N
                BY <1>0, <2>0, <3>1, <3>4, <3>5, <4>1 DEF SoFar
            <4>2. CASE ~(r.k < N)
                <5>1. \A v \in Pods!Units : s2[v] = "verified"
                    BY <1>0, <1>3, <2>0, <3>5, <4>2
                <5> QED
                    BY <1>0, <3>1, <3>4, <4>2, <5>1 DEF SoFar
            <4> QED
                BY <4>1, <4>2
        <3>7. InOrder(s2)
            BY <1>2, <2>0, <3>2, <3>3, OneMoreMade
        <3> QED
            BY <3>1, <3>6, <3>7, OrderMoves DEF s2
    <2> QED
        BY <1>5, <1>9, <2>1 DEF Pods!Verify
<1>10. CASE Pods!StartUnit(i)
    <2> DEFINE u  == Pods!StartOrder[r.k]
               s2 == StatesOf(pod')
    <2>0. /\ r.pc = "start" /\ r.k \in 1..N /\ u \in Pods!Units /\ \A v \in Pods!Units : st[v] \notin {"none", "made"}
          /\ \A j \in 1..N : j < r.k => st[Pods!StartOrder[j]] \in Ran
        BY <1>0, <1>10, FaceIsLast DEF Pods!StartUnit, SoFar, Acting
    <2>1. u = FaceUnit => \A v \in Pods!Units : v # FaceUnit => st[v] \in Ran
        <3> SUFFICES ASSUME u = FaceUnit, NEW v \in Pods!Units, v # FaceUnit PROVE st[v] \in Ran
            OBVIOUS
        <3>1. PICK j \in 1..N : Pods!StartOrder[j] = v
            BY FaceIsLast
        <3>2. r.k = N /\ j # N
            BY <2>0, <3>1, FaceIsLast
        <3> QED
            BY <1>0, <2>0, <3>1, <3>2
    <2>2. CASE /\ pod' = [pod EXCEPT !.units[u].state = "running"]
               /\ IF r.k # N THEN podAt' = [podAt EXCEPT ![i].k = r.k + 1] ELSE Pods!Ends(i)
        <3>1. s2 = [st EXCEPT ![u] = "running"]
            BY <2>0, <2>2, StatesChange
        <3> HIDE DEF s2, st, u
        <3>2. "running" \in Ran /\ InOrder(s2) /\ s2 \in [Pods!Units -> UnitStates]
            BY <1>2, <2>0, <2>1, <3>1, OneMoreRuns DEF Ran, UnitStates
        <3>3. CASE r.k # N
            <4> DEFINE k == r.k + 1
                       n == AtUnit(r, "start", k)
            <4>1. podAt' = [podAt EXCEPT ![i] = n] /\ n.pc = "start" /\ n.k = k
                BY <1>0, <1>1, <2>0, <2>2, <3>3 DEF AtUnit, Actions
            <4> HIDE DEF n
            <4>2. SoFar(n, s2)
                <5>1. \A v \in Pods!Units : s2[v] \notin {"none", "made"}
                    BY <1>2, <2>0, <3>1
                <5>2. \A j \in 1..N : j < k => s2[Pods!StartOrder[j]] \in Ran
                    <6> SUFFICES ASSUME NEW j \in 1..N, j < k PROVE s2[Pods!StartOrder[j]] \in Ran
                        OBVIOUS
                    <6>1. Pods!StartOrder[j] \in Pods!Units /\ (j < r.k \/ j = r.k)
                        BY <1>0, <2>0, FaceIsLast
                    <6> QED
                        BY <1>2, <2>0, <3>1, <3>2, <6>1 DEF u
                <5> QED
                    BY <4>1, <5>1, <5>2 DEF SoFar
            <4> QED
                BY <3>2, <4>1, <4>2, OrderMoves DEF s2
        <3>4. CASE r.k = N
            <4>1. podAt' = [podAt EXCEPT ![i] = Pods!Quiet] /\ SoFar(Pods!Quiet, s2)
                BY <2>2, <3>4 DEF Pods!Ends, SoFar, Pods!Quiet
            <4> QED
                BY <3>2, <4>1, OrderMoves DEF s2
        <3> QED
            BY <3>3, <3>4
    <2> QED
        BY <1>0, <1>5, <1>10, <2>2 DEF Pods!StartUnit
<1>11. CASE Pods!TearDown(i)
    <2>1. podAt' = [podAt EXCEPT ![i] = Pods!Quiet] /\ (pod' = pod \/ pod' = Pods!NoPod)
        BY <1>11 DEF Pods!TearDown, Pods!Ends
    <2>2. InOrder(StatesOf(pod')) /\ SoFar(Pods!Quiet, StatesOf(pod'))
        <3>1. InOrder(StatesOf(Pods!NoPod))
            BY AnEmptyPod, AnEmptyPodIsInOrder
        <3> QED
            BY <2>1, <3>1 DEF SoFar, Pods!Quiet
    <2> QED
        BY <2>1, <2>2, OrderMoves
<1> QED
    BY <1>6, <1>7, <1>8, <1>9, <1>10, <1>11

\* What begins or ends with no unit made: the pod has the states it had, is gone, or has one that ran stopped.
LEMMA OrderBeside ==
    ASSUME RegistrationsAreNamed, UnitsAreNamed, OneRegistration, PodsInv, OrderInv, NEW i \in PodIds,
           \/ Pods!Register(i) \/ Pods!Unregister(i) \/ Pods!StartPod(i) \/ Pods!Stop(i) \/ Pods!RemovePod(i)
    PROVE  OrderInv'
<1>0. podAt \in [Pods!Actors -> Actions] /\ i \in Pods!Actors
    BY DEF PodsInv, Pods!Actors
<1>1. CASE Pods!Register(i) \/ Pods!Unregister(i)
    BY <1>1 DEF Pods!Register, Pods!Unregister, OrderInv
<1>2. CASE Pods!StartPod(i)
    <2> DEFINE n == [pc |-> "pod", id |-> i, k |-> 1, tok |-> tokens']
    <2>1. podAt' = [podAt EXCEPT ![i] = n] /\ UNCHANGED <<pod, crashes>> /\ \A st : SoFar(n, st)
        BY <1>2 DEF Pods!StartPod, SoFar
    <2> HIDE DEF n
    <2> QED
        BY <2>1, OrderMoves DEF OrderInv
<1>3. CASE Pods!Stop(i)
    <2> DEFINE n  == [Pods!Quiet EXCEPT !.pc = "remove", !.id = i]
               st == StatesOf(pod)
               s2 == StatesOf(pod')
               us == [u \in Pods!Units |-> [pod.units[u] EXCEPT !.state = IF @ = "running" THEN "exited" ELSE @]]
    <2>1. podAt' = [podAt EXCEPT ![i] = n] /\ crashes' = crashes /\ pod' = [pod EXCEPT !.units = us]
        BY <1>3 DEF Pods!Stop
    <2>2. \A x : SoFar(n, x)
        BY DEF SoFar, Pods!Quiet
    <2>3. \A u \in Pods!Units : us[u].state = IF st[u] = "running" THEN "exited" ELSE st[u]
        BY DEF PodsInv, PodsOf, StatesOf
    <2> HIDE DEF us
    <2>4. \A u \in Pods!Units : s2[u] = us[u].state
        BY <2>1 DEF PodsInv, PodsOf, StatesOf
    <2> HIDE DEF n, st, s2
    <2>5. InOrder(st) => InOrder(s2)
        BY <2>3, <2>4 DEF InOrder, Ran, UnitsAreNamed
    <2> QED
        BY <2>1, <2>2, <2>5, OrderMoves DEF OrderInv, st, s2
<1>4. CASE Pods!RemovePod(i)
    <2>1. podAt' = [podAt EXCEPT ![i] = Pods!Quiet] /\ crashes' = crashes /\ (pod' = pod \/ pod' = Pods!NoPod)
        BY <1>4 DEF Pods!RemovePod, Pods!Ends
    <2>2. InOrder(StatesOf(Pods!NoPod)) /\ \A st : SoFar(Pods!Quiet, st)
        BY AnEmptyPod, AnEmptyPodIsInOrder DEF SoFar, Pods!Quiet
    <2>3. CASE pod' = pod
        BY <2>1, <2>2, <2>3, OrderMoves DEF OrderInv
    <2>4. CASE pod' = Pods!NoPod
        BY <2>1, <2>2, <2>4, OrderMoves
    <2> QED
        BY <2>1, <2>3, <2>4
<1> QED
    BY <1>1, <1>2, <1>3, <1>4

\* A unit that exits has run, so nothing is being made.
LEMMA ExitsInOrder ==
    ASSUME UnitsAreNamed, PodsInv, OrderInv, NEW u \in Pods!Units, Pods!Exit(u) PROVE OrderInv'
<1> DEFINE st == StatesOf(pod)
           s2 == StatesOf(pod')
<1>1. s2 = [st EXCEPT ![u] = "exited"] /\ st \in [Pods!Units -> UnitStates] /\ UNCHANGED <<podAt, crashes>>
    BY StatesChange DEF Pods!Exit
<1>2. st[u] = "running"
    BY DEF Pods!Exit, StatesOf
<1>3. FaceUnit \in Pods!Units /\ \E j \in 1..Len(Order) : u = Order[j]
    BY DEF UnitsAreNamed, Pods!Units
<1> HIDE DEF st, s2
<1> SUFFICES ASSUME crashes = 0, InOrder(st) PROVE InOrder(s2) /\ \A i \in PodIds : SoFar(podAt[i], st) => SoFar(podAt[i], s2)
    BY <1>1 DEF OrderInv, st, s2
<1>4. InOrder(s2)
    BY <1>1, <1>2, <1>3 DEF InOrder, Ran
<1>5. ASSUME NEW i \in PodIds, SoFar(podAt[i], st) PROVE SoFar(podAt[i], s2)
    <2>1. podAt[i].pc \notin {"file", "create", "verify"}
        BY <1>2, <1>3, <1>5 DEF SoFar
    <2>2. CASE podAt[i].pc = "start"
        <3>1. \A v \in Pods!Units : s2[v] \notin {"none", "made"} /\ (st[v] \in Ran => s2[v] \in Ran)
            BY <1>1, <1>5, <2>2 DEF SoFar, Ran
        <3>2. \A j \in 1..Len(Order) : Pods!StartOrder[j] \in Pods!Units
            BY FaceIsLast
        <3> QED
            BY <1>5, <2>2, <3>1, <3>2 DEF SoFar
    <2>3. CASE podAt[i].pc # "start"
        BY <2>1, <2>3 DEF SoFar
    <2> QED
        BY <2>2, <2>3
<1> QED
    BY <1>4, <1>5

LEMMA OrderStep ==
    ASSUME RegistrationsAreNamed, UnitsAreNamed, OneRegistration, PodsInv, OrderInv, [Pods!Next]_Pods!vars
    PROVE  OrderInv'
<1>1. CASE UNCHANGED Pods!vars
    BY <1>1 DEF Pods!vars, OrderInv
<1>2. CASE crashes # 0
    <2>1. crashes' # 0
        <3>1. CASE \E host \in BOOLEAN : Pods!Crash(host)
            BY <3>1 DEF Pods!Crash, PodsInv
        <3>2. CASE crashes' = crashes
            BY <1>2, <3>2
        <3> QED
            BY <1>1, <3>1, <3>2 DEF Pods!Next, Pods!vars, Pods!Register, Pods!Unregister, Pods!StartPod, Pods!Stop,
               Pods!RemovePod, Pods!Restore, Pods!CreatePod, Pods!WriteFile, Pods!Create, Pods!Verify, Pods!StartUnit,
               Pods!TearDown, Pods!Exit, Pods!RemakeFiles, Pods!Record
    <2> QED
        BY SMTT(60), <2>1 DEF OrderInv
<1>3. CASE crashes = 0
    <2>0. todo = {} /\ podAt[Pods!Boot].pc = "idle"
        BY <1>3, QuietIsAnAction DEF PodsInv
    <2>1. ASSUME NEW i \in PodIds, \/ Pods!Register(i) \/ Pods!Unregister(i) \/ Pods!StartPod(i) \/ Pods!Stop(i)
                                \/ Pods!RemovePod(i)
          PROVE  OrderInv'
        BY <2>1, OrderBeside
    <2>2. ASSUME NEW i \in PodIds, Pods!Restore(i) PROVE OrderInv'
        BY <2>0, <2>2 DEF Pods!Restore
    <2>3. ASSUME NEW a \in Pods!Actors, \/ Pods!CreatePod(a) \/ Pods!WriteFile(a) \/ Pods!Create(a) \/ Pods!Verify(a)
                                        \/ Pods!StartUnit(a) \/ Pods!TearDown(a)
          PROVE  OrderInv'
        <3>1. podAt[a].pc # "idle"
            BY <2>3 DEF Pods!CreatePod, Pods!WriteFile, Pods!Create, Pods!Verify, Pods!StartUnit, Pods!TearDown
        <3>2. a \in PodIds
            BY <2>0, <3>1 DEF Pods!Actors
        <3> QED
            BY SMTT(60), <2>3, <3>2, StartsInOrder
    <2>4. ASSUME NEW u \in Pods!Units, Pods!Exit(u) PROVE OrderInv'
        BY <2>4, ExitsInOrder
    <2>5. CASE Pods!RemakeFiles \/ Pods!Record
        BY <2>0, <2>5 DEF Pods!RemakeFiles, Pods!Record
    <2>6. ASSUME NEW host \in BOOLEAN, Pods!Crash(host) PROVE OrderInv'
        <3>1. crashes' # 0
            BY <1>3, <2>6 DEF Pods!Crash
        <3> QED
            BY <3>1 DEF OrderInv
    <2> QED
        BY <1>1, <2>1, <2>2, <2>3, <2>4, <2>5, <2>6 DEF Pods!Next
<1> QED
    BY <1>2, <1>3
LEMMA OrderInit == ASSUME UnitsAreNamed, RegistrationsAreNamed, Pods!Init PROVE OrderInv
<1>1. \A i \in PodIds : podAt[i] = Pods!Quiet
    BY DEF Pods!Init, Pods!Actors
<1>2. InOrder(StatesOf(pod)) /\ \A st : SoFar(Pods!Quiet, st)
    BY AnEmptyPod, AnEmptyPodIsInOrder DEF SoFar, Pods!Quiet, Pods!Init
<1> QED
    BY <1>1, <1>2 DEF OrderInv

\* What the invariants say of the pod and of its files.
LEMMA FilesOfPods == ASSUME PodsInv PROVE Pods!FilesAreShortLived
<1>1. \A f \in podFiles : Used(f, podAt[f[1]], podAt[Pods!Boot])
    BY DEF PodsInv
<1> QED
    BY <1>1 DEF Used, Pods!FilesAreShortLived
LEMMA OrderOfPods == ASSUME PodsInv, OrderInv, crashes = 0, UnitsAreNamed PROVE Pods!ComesUpInOrder
<1>1. InOrder(StatesOf(pod)) /\ FaceUnit \in Pods!Units
    BY DEF OrderInv, UnitsAreNamed
<1>2. \A u \in Pods!Units : StatesOf(pod)[u] = pod.units[u].state
    BY DEF StatesOf
<1>3. \A u \in Pods!Units : u \in Pods!Begun <=> StatesOf(pod)[u] \in Ran
    BY <1>2 DEF Pods!Begun, Ran
<1>4. Pods!Begun \subseteq Pods!Units
    BY DEF Pods!Begun
<1>5. Pods!VerifiedBeforeAnyRuns
    BY <1>1, <1>2, <1>3, <1>4 DEF InOrder, Pods!VerifiedBeforeAnyRuns, Pods!None
<1>6. FaceUnit \in Pods!Begun => Pods!Begun = Pods!Units
    BY <1>1, <1>3, <1>4 DEF InOrder
<1> QED
    BY <1>5, <1>6 DEF Pods!ComesUpInOrder

\* writeUnitEnvFile and what removes its file (pods.go): however many registrations name the pod, and
\* through every crash, boot, refusal and request that ends half way, a file with a live token is on disk
\* only while the action that wrote it makes its container.
THEOREM PodFilesAreShortLived ==
    ASSUME RegistrationsAreNamed, UnitsAreNamed
    PROVE  Pods!Spec => []Pods!FilesAreShortLived
<1>1. Pods!Init => PodsInv
    BY PodsInit
<1>2. PodsInv /\ [Pods!Next]_Pods!vars => PodsInv'
    BY PodsStep
<1>3. PodsInv => Pods!FilesAreShortLived
    BY FilesOfPods
<1> QED
    BY <1>1, <1>2, <1>3, PTL DEF Pods!Spec

\* startPod and remakePod (pods.go): the pod of one registration is as PodsAreWhole says, whatever units it
\* has and however often it is started, stopped, refused and restored.
THEOREM PodsStayWhole ==
    ASSUME RegistrationsAreNamed, UnitsAreNamed, OneRegistration
    PROVE  Pods!Spec => []PodsAreWhole
<1>1. Pods!Init => PodsInv /\ OrderInv
    BY PodsInit, OrderInit
<1>2. PodsInv /\ OrderInv /\ [Pods!Next]_Pods!vars => PodsInv' /\ OrderInv'
    BY PodsStep, OrderStep
<1>3. PodsInv /\ OrderInv => PodsAreWhole
    BY FilesOfPods, OrderOfPods DEF PodsAreWhole
<1> QED
    BY <1>1, <1>2, <1>3, PTL DEF Pods!Spec

-----------------------------------------------------------------------------
\* An interval and the wait of the loop are times.
ProbesAreTimed == Intervals \subseteq Nat /\ IdleWait \in Nat

\* A target is marked only while a request for it is in flight: the marker is set as one is sent, and
\* whichever comes back takes it away.
Targets == [decl : Decls \union {"none"}, every : Nat, next : Nat, running : BOOLEAN, read : Decls \union {"none"}]
ProbesInv ==
    /\ targets \in [Probed -> Targets] /\ flights \in [Probed -> [Decls -> Nat]] /\ wait \in Nat /\ woken \in BOOLEAN
    /\ \A i \in Probes!Held : targets[i].decl \in Decls /\ (targets[i].running => Probes!InFlight(i) # {})
    /\ Probes!NobodyIsOverslept

\* A step that is of one target.
LEMMA OneTargetMoves ==
    ASSUME ProbesInv, NEW i \in Probed, NEW aim \in Targets, NEW f \in [Decls -> Nat], targets' = [targets EXCEPT ![i] = aim],
           flights' = [flights EXCEPT ![i] = f], wait' = wait, woken' \in BOOLEAN, woken => woken',
           aim # Probes!NoTarget =>
              /\ aim.decl \in Decls
              /\ aim.running => \E d \in Decls : f[d] > 0
              /\ woken' \/ (\E d \in Decls : f[d] > 0) \/ wait <= aim.next
    PROVE  ProbesInv'
<1>1. \A j \in Probed : targets'[j] = (IF j = i THEN aim ELSE targets[j]) /\ flights'[j] = IF j = i THEN f ELSE flights[j]
    BY DEF ProbesInv
<1>2. targets' \in [Probed -> Targets] /\ flights' \in [Probed -> [Decls -> Nat]]
    BY DEF ProbesInv
<1>3. ASSUME NEW j \in Probed, targets'[j] # Probes!NoTarget
      PROVE  /\ targets'[j].decl \in Decls
             /\ targets'[j].running => \E d \in Decls : flights'[j][d] > 0
             /\ woken' \/ (\E d \in Decls : flights'[j][d] > 0) \/ wait' <= targets'[j].next
    <2>1. CASE j = i
        BY <1>1, <1>3, <2>1
    <2>2. CASE j # i
        BY <1>1, <1>3, <2>2 DEF ProbesInv, Probes!Held, Probes!InFlight, Probes!NobodyIsOverslept
    <2> QED
        BY <2>1, <2>2
<1> QED
    BY <1>2, <1>3 DEF ProbesInv, Probes!Held, Probes!InFlight, Probes!NobodyIsOverslept

\* The fields of a target after a change of them.
Redeclared(aim, d, n) == [aim EXCEPT !.decl = d, !.every = n]
ReadAs(aim, x) == [aim EXCEPT !.running = FALSE, !.read = x]
LEMMA ATargetIsDeclared ==
    ASSUME NEW aim \in Targets, NEW d \in Decls, NEW n \in Nat
    PROVE  LET u == Redeclared(aim, d, n)
           IN  u \in Targets /\ u.decl = d /\ u.next = aim.next /\ u.running = aim.running /\ u.read = aim.read
  BY DEF Targets, Redeclared
LEMMA ATargetIsRead ==
    ASSUME NEW aim \in Targets, NEW x \in Decls \union {"none"}
    PROVE  LET u == ReadAs(aim, x)
           IN  u \in Targets /\ u.decl = aim.decl /\ u.next = aim.next /\ u.running = FALSE /\ u.read = x
  BY DEF Targets, ReadAs
LEMMA NoTargetIsATarget == Probes!NoTarget \in Targets /\ Probes!NoTarget.running = FALSE
  BY DEF Probes!NoTarget, Targets

LEMMA TargetsAreTracked ==
    ASSUME ProbesAreTimed, ProbesInv, NEW i \in Probed, NEW d \in Decls, NEW every \in Intervals, Probes!Track(i, d, every)
    PROVE  ProbesInv'
<1> DEFINE t0 == IF i \in Probes!Held THEN targets[i] ELSE Probes!NoTarget
           aim  == Redeclared(t0, d, every)
           f  == flights[i]
<1>1. t0 \in Targets /\ every \in Nat
    BY NoTargetIsATarget DEF ProbesInv, ProbesAreTimed
<1>2. /\ targets' = [targets EXCEPT ![i] = aim] /\ wait' = wait /\ woken' = (woken \/ i \notin Probes!Held)
      /\ UNCHANGED flights
    BY DEF Probes!Track, Redeclared
<1>3. f \in [Decls -> Nat] /\ flights' = [flights EXCEPT ![i] = f]
    BY <1>2 DEF ProbesInv
<1>4. i \in Probes!Held => /\ t0.running => \E e \in Decls : f[e] > 0
                           /\ woken \/ (\E e \in Decls : f[e] > 0) \/ wait <= t0.next
    BY DEF ProbesInv, Probes!InFlight, Probes!NobodyIsOverslept
<1>5. i \notin Probes!Held => ~t0.running
    BY NoTargetIsATarget
<1>6. woken' \in BOOLEAN /\ (woken => woken') /\ (i \notin Probes!Held => woken') /\ (woken' => woken \/ i \notin Probes!Held)
    BY <1>2 DEF ProbesInv
<1> HIDE DEF t0, f
<1>7. aim \in Targets /\ aim.decl = d /\ aim.next = t0.next /\ aim.running = t0.running
    BY <1>1, ATargetIsDeclared
<1> HIDE DEF aim
<1>8. /\ aim.running => \E e \in Decls : f[e] > 0
      /\ woken' \/ (\E e \in Decls : f[e] > 0) \/ wait <= aim.next
    BY <1>4, <1>5, <1>6, <1>7
<1> QED
    BY <1>2, <1>3, <1>6, <1>7, <1>8, OneTargetMoves

LEMMA TargetsAreDropped ==
    ASSUME ProbesInv, NEW i \in Probed, Probes!Untrack(i) PROVE ProbesInv'
<1>1. /\ targets' = [targets EXCEPT ![i] = Probes!NoTarget] /\ wait' = wait /\ woken' = TRUE
      /\ flights' = [flights EXCEPT ![i] = flights[i]] /\ flights[i] \in [Decls -> Nat]
    BY DEF Probes!Untrack, ProbesInv
<1> QED
    BY <1>1, NoTargetIsATarget, OneTargetMoves

LEMMA RequestsComeBack ==
    ASSUME ProbesInv, NEW i \in Probed, NEW d \in Decls, Probes!Finish(i, d) PROVE ProbesInv'
<1> DEFINE f == [flights[i] EXCEPT ![d] = @ - 1]
           x == IF targets[i].decl = d THEN d ELSE targets[i].read
           u == ReadAs(targets[i], x)
           aim == IF i \notin Probes!Held THEN targets[i] ELSE u
<1>1. /\ flights' = [flights EXCEPT ![i] = f] /\ f \in [Decls -> Nat] /\ wait' = wait
      /\ woken' = (woken \/ i \in Probes!Held)
    BY DEF Probes!Finish, Probes!Landed, ProbesInv
<1>2. targets' = [targets EXCEPT ![i] = aim]
    BY DEF Probes!Finish, ProbesInv, Targets, ReadAs
<1>3. targets[i] \in Targets /\ x \in Decls \union {"none"}
    BY DEF ProbesInv, Targets
<1> HIDE DEF x, f
<1>4. u \in Targets /\ u.decl = targets[i].decl /\ u.running = FALSE
    BY <1>3, ATargetIsRead
<1>5. i \notin Probes!Held => targets[i] = Probes!NoTarget
    BY DEF Probes!Held
<1> HIDE DEF u
<1>6. aim \in Targets /\ (aim # Probes!NoTarget => i \in Probes!Held /\ aim.decl \in Decls /\ ~aim.running)
    BY <1>3, <1>4, <1>5 DEF ProbesInv
<1> HIDE DEF aim
<1>7. woken' \in BOOLEAN /\ (woken => woken') /\ (i \in Probes!Held => woken')
    BY <1>1 DEF ProbesInv
<1> QED
    BY <1>1, <1>2, <1>6, <1>7, OneTargetMoves

\* The loop waits no longer than the nearest of what it has not sent.
LEMMA TheNearest ==
    ASSUME ProbesAreTimed, ProbesInv
    PROVE  Probes!Nearest \in Nat /\ \A i \in Probes!Waiting : Probes!Nearest <= targets[i].next
<1> DEFINE offs == {IdleWait} \union {targets[i].next : i \in Probes!Waiting}
<1>1. offs \subseteq Nat /\ IdleWait \in offs
    BY DEF ProbesAreTimed, ProbesInv, Probes!Waiting, Probes!Held, Targets
<1>2. \E n \in offs : \A m \in offs : n <= m
    BY <1>1, LeastOfThem
<1>3. Probes!Nearest = CHOOSE n \in offs : \A m \in offs : n <= m
    BY DEF Probes!Nearest
<1> HIDE DEF offs
<1>4. Probes!Nearest \in offs /\ \A m \in offs : Probes!Nearest <= m
    BY <1>2, <1>3
<1> QED
    BY <1>1, <1>4 DEF offs

\* What the loop and the time make of a target.
Sent(aim) == [aim EXCEPT !.running = TRUE, !.next = aim.every]
Sooner(aim, n) == [aim EXCEPT !.next = n]
LEMMA SentIsATarget ==
    ASSUME NEW aim \in Targets
    PROVE  Sent(aim) \in Targets /\ Sent(aim).decl = aim.decl
  BY DEF Sent, Targets
LEMMA SoonerIsATarget ==
    ASSUME NEW aim \in Targets, NEW n \in Nat
    PROVE  /\ Sooner(aim, n) \in Targets /\ Sooner(aim, n).decl = aim.decl
           /\ Sooner(aim, n).running = aim.running /\ Sooner(aim, n).next = n
  BY DEF Sooner, Targets
LEMMA TargetsAreTyped ==
    ASSUME NEW aim \in Targets PROVE aim.next \in Nat /\ aim.every \in Nat /\ aim.running \in BOOLEAN
  BY DEF Targets
LEMMA NoTargetStaysNone == Probes!NoTarget.next = 0 /\ Sooner(Probes!NoTarget, 0) = Probes!NoTarget
  BY DEF Sooner, Probes!NoTarget
LEMMA OneMoreRequest ==
    ASSUME NEW f \in [Decls -> Nat], NEW d \in Decls
    PROVE  [f EXCEPT ![d] = @ + 1] \in [Decls -> Nat] /\ [f EXCEPT ![d] = @ + 1][d] = f[d] + 1 /\ f[d] \in Nat
  OBVIOUS

LEMMA TheLoopPasses == ASSUME ProbesAreTimed, ProbesInv, Probes!Pass PROVE ProbesInv'
<1>1. \A i \in Probed : targets[i] \in Targets
    BY DEF ProbesInv
<1>0. \A i \in Probed : flights[i] \in [Decls -> Nat]
    BY DEF ProbesInv
<1>2. \A i \in Probed : targets'[i] = IF i \in Probes!Send
                                   THEN Sent(targets[i]) ELSE targets[i]
    BY DEF Probes!Pass, Sent
<1>3. \A i \in Probed : flights'[i] = IF i \in Probes!Send
                                   THEN [flights[i] EXCEPT ![targets[i].decl] = @ + 1] ELSE flights[i]
    BY DEF Probes!Pass
<1>4. targets' \in [Probed -> Targets]
    <2>1. \A i \in Probed : targets'[i] \in Targets
        BY <1>1, <1>2, SentIsATarget
    <2> QED
        BY <2>1 DEF Probes!Pass
<1>5. flights' \in [Probed -> [Decls -> Nat]]
    <2>1. ASSUME NEW i \in Probed PROVE flights'[i] \in [Decls -> Nat]
        <3> DEFINE f == flights[i]
                   d == targets[i].decl
        <3>1. /\ f \in [Decls -> Nat] /\ flights'[i] = IF i \in Probes!Send THEN [f EXCEPT ![d] = @ + 1] ELSE f
              /\ i \in Probes!Send => d \in Decls
            BY <1>0, <1>3 DEF Probes!Send, ProbesInv
        <3> HIDE DEF f, d
        <3>2. d \in Decls => [f EXCEPT ![d] = @ + 1] \in [Decls -> Nat]
            BY <3>1
        <3> QED
            BY <3>1, <3>2
    <2> QED
        BY <2>1 DEF Probes!Pass
<1>6. wait' \in Nat /\ woken' \in BOOLEAN /\ \A i \in Probes!Waiting : wait' <= targets[i].next
    BY TheNearest DEF Probes!Pass, ProbesInv
<1>7. ASSUME NEW i \in Probed, targets'[i] # Probes!NoTarget
      PROVE  /\ targets'[i].decl \in Decls
             /\ targets'[i].running => \E d \in Decls : flights'[i][d] > 0
             /\ woken' \/ (\E d \in Decls : flights'[i][d] > 0) \/ wait' <= targets'[i].next
    <2>1. CASE i \in Probes!Send
        <3>1. i \in Probes!Held /\ targets[i].decl \in Decls
            BY <2>1 DEF Probes!Send, ProbesInv
        <3>2. targets'[i].decl = targets[i].decl
            BY <1>1, <1>2, <2>1, SentIsATarget
        <3>3. flights'[i][targets[i].decl] = flights[i][targets[i].decl] + 1 /\ flights[i][targets[i].decl] \in Nat
            <4> DEFINE f == flights[i]
                       d == targets[i].decl
            <4>1. f \in [Decls -> Nat] /\ d \in Decls /\ flights'[i] = [f EXCEPT ![d] = @ + 1]
                BY <1>0, <1>3, <2>1, <3>1
            <4> HIDE DEF f, d
            <4>2. flights'[i][d] = f[d] + 1 /\ f[d] \in Nat
                BY <4>1, OneMoreRequest
            <4> QED
                BY <4>2 DEF f, d
        <3>4. flights'[i][targets[i].decl] > 0
            BY <3>3
        <3> QED
            BY <3>1, <3>2, <3>4
    <2>2. CASE i \notin Probes!Send
        <3>1. targets'[i] = targets[i] /\ flights'[i] = flights[i] /\ i \in Probes!Held
            BY <1>2, <1>3, <1>7, <2>2 DEF Probes!Held
        <3>2. targets[i].running \/ i \in Probes!Waiting
            <4>1. targets[i].next \in Nat /\ targets[i].running \in BOOLEAN
                BY <1>1, TargetsAreTyped
            <4> QED
                BY <2>2, <3>1, <4>1 DEF Probes!Send, Probes!Waiting
        <3> QED
            BY <1>6, <3>1, <3>2 DEF ProbesInv, Probes!InFlight
    <2> QED
        BY <2>1, <2>2
<1> QED
    BY <1>4, <1>5, <1>6, <1>7 DEF ProbesInv, Probes!Held, Probes!InFlight, Probes!NobodyIsOverslept

LEMMA TimeIsTheirs == ASSUME ProbesInv, Probes!Tick PROVE ProbesInv'
<1>1. \A i \in Probed : targets'[i] = Sooner(targets[i], IF targets[i].next > 0 THEN targets[i].next - 1 ELSE 0)
    BY DEF Probes!Tick, Sooner
<1>2. \A i \in Probed : targets[i] \in Targets
    BY DEF ProbesInv
<1>3. ASSUME NEW i \in Probed
      PROVE  /\ targets'[i] \in Targets
             /\ targets'[i].decl = targets[i].decl /\ targets'[i].running = targets[i].running
             /\ targets'[i].next = IF targets[i].next > 0 THEN targets[i].next - 1 ELSE 0
    <2> DEFINE aim == targets[i]
               n == IF aim.next > 0 THEN aim.next - 1 ELSE 0
    <2>1. aim \in Targets /\ aim.next \in Nat
        BY <1>2, TargetsAreTyped
    <2>2. n \in Nat
        BY <2>1
    <2>3. targets'[i] = Sooner(aim, n)
        BY <1>1
    <2> HIDE DEF aim, n
    <2>4. /\ Sooner(aim, n) \in Targets /\ Sooner(aim, n).decl = aim.decl
          /\ Sooner(aim, n).running = aim.running /\ Sooner(aim, n).next = n
        BY <2>1, <2>2, SoonerIsATarget
    <2> QED
        BY <2>3, <2>4 DEF aim, n
<1>4. targets' \in [Probed -> Targets] /\ wait' \in Nat /\ wait > 0 /\ wait' = wait - 1 /\ UNCHANGED <<flights, woken>>
    <2>1. wait \in Nat /\ wait > 0 /\ wait' = wait - 1 /\ UNCHANGED <<flights, woken>>
        BY DEF Probes!Tick, ProbesInv
    <2>2. targets' = [i \in Probed |-> targets'[i]]
        BY DEF Probes!Tick
    <2> QED
        BY <1>3, <2>1, <2>2
<1>5. ASSUME NEW i \in Probed, targets'[i] # Probes!NoTarget PROVE i \in Probes!Held
    BY <1>1, <1>5, NoTargetStaysNone DEF Probes!Held
<1>6. ASSUME NEW i \in Probes!Held, wait <= targets[i].next PROVE wait' <= targets'[i].next
    <2>1. i \in Probed /\ targets[i].next \in Nat /\ wait \in Nat
        BY <1>2 DEF Probes!Held, Targets, ProbesInv
    <2> QED
        BY <1>3, <1>4, <1>6, <2>1
<1>7. ASSUME NEW i \in Probed, targets'[i] # Probes!NoTarget
      PROVE  /\ targets'[i].decl \in Decls
             /\ targets'[i].running => \E d \in Decls : flights'[i][d] > 0
             /\ woken' \/ (\E d \in Decls : flights'[i][d] > 0) \/ wait' <= targets'[i].next
    <2>1. i \in Probes!Held
        BY <1>5, <1>7
    <2> QED
        BY <1>3, <1>4, <1>6, <2>1 DEF ProbesInv, Probes!InFlight, Probes!NobodyIsOverslept
<1> QED
    BY <1>4, <1>7 DEF ProbesInv, Probes!Held, Probes!InFlight, Probes!NobodyIsOverslept

LEMMA ProbesStep == ASSUME ProbesAreTimed, ProbesInv, [Probes!Next]_Probes!vars PROVE ProbesInv'
<1>1. CASE UNCHANGED Probes!vars
    BY <1>1 DEF Probes!vars, ProbesInv, Probes!Held, Probes!InFlight, Probes!NobodyIsOverslept
<1>2. ASSUME NEW i \in Probed, NEW d \in Decls, NEW every \in Intervals, Probes!Declare(i, d, every) PROVE ProbesInv'
    BY <1>2, TargetsAreTracked, TargetsAreDropped DEF Probes!Declare
<1>3. ASSUME NEW i \in Probed, Probes!Untrack(i) PROVE ProbesInv'
    BY <1>3, TargetsAreDropped
<1>4. ASSUME NEW i \in Probed, NEW d \in Decls, Probes!Finish(i, d) PROVE ProbesInv'
    BY <1>4, RequestsComeBack
<1>5. CASE Probes!Pass \/ Probes!Tick
    BY <1>5, TheLoopPasses, TimeIsTheirs
<1> QED
    BY <1>1, <1>2, <1>3, <1>4, <1>5 DEF Probes!Next
LEMMA ProbesInit == ASSUME ProbesAreTimed, Probes!Init PROVE ProbesInv
<1>1. Probes!Held = {}
    BY DEF Probes!Init, Probes!Held
<1> QED
    BY <1>1, NoTargetIsATarget DEF Probes!Init, ProbesInv, ProbesAreTimed, Probes!NobodyIsOverslept

\* What is counted off at a step is one request that has come back.
LEMMA ReadingsAreOfTheirs ==
    ASSUME ProbesInv, [Probes!Next]_Probes!vars, NEW i \in Probed, NEW d \in Decls, flights'[i][d] < flights[i][d],
           targets'[i].read # targets[i].read
    PROVE  targets[i].decl = d /\ targets'[i].read = d
<1>0. flights \in [Probed -> [Decls -> Nat]] /\ targets \in [Probed -> Targets] /\ flights[i][d] \in Nat
    BY DEF ProbesInv
<1>1. ~(flights'[i][d] = flights[i][d]) /\ flights' # flights
    BY <1>0
<1>2. ~Probes!Pass
    <2> SUFFICES ASSUME Probes!Pass PROVE FALSE
        OBVIOUS
    <2>1. flights'[i] = IF i \in Probes!Send THEN [flights[i] EXCEPT ![targets[i].decl] = @ + 1] ELSE flights[i]
        BY DEF Probes!Pass
    <2>2. flights'[i][d] = flights[i][d] + 1 \/ flights'[i][d] = flights[i][d]
        BY SMTT(60), <1>0, <2>1
    <2> QED
        BY <1>0, <2>2
<1>3. PICK j \in Probed, e \in Decls : Probes!Finish(j, e)
    BY <1>1, <1>2 DEF Probes!Next, Probes!vars, Probes!Declare, Probes!Track, Probes!Untrack, Probes!Tick
<1>4. flights' = [flights EXCEPT ![j][e] = @ - 1]
    BY <1>3 DEF Probes!Finish, Probes!Landed
<1>5. j = i /\ e = d
    BY <1>0, <1>1, <1>4
<1>6. targets'[i] = IF i \notin Probes!Held THEN targets[i]
                    ELSE [targets[i] EXCEPT !.running = FALSE, !.read = IF targets[i].decl = d THEN d ELSE targets[i].read]
    BY <1>0, <1>3, <1>5 DEF Probes!Finish, Targets
<1> QED
    BY <1>0, <1>6 DEF Targets

\* track, due, finished and the loop (health.go): whatever is registered, dropped and registered again while
\* requests are under way, nobody is overslept, and a reading is of the endpoint that is registered.
THEOREM ProbesStayCurrent == ASSUME ProbesAreTimed PROVE Probes!Spec => ProbesAreCurrent
<1>1. Probes!Init => ProbesInv
    BY ProbesInit
<1>2. ProbesInv /\ [Probes!Next]_Probes!vars => ProbesInv'
    BY ProbesStep
<1>3. ProbesInv => Probes!NobodyIsOverslept
    BY DEF ProbesInv
<1> DEFINE Reads == \A i \in Probed : \A d \in Decls :
                      flights'[i][d] < flights[i][d] /\ targets'[i].read # targets[i].read
                         => targets[i].decl = d /\ targets'[i].read = d
<1>4. ProbesInv /\ [Probes!Next]_Probes!vars => [Reads]_Probes!vars
    BY ReadingsAreOfTheirs
<1>5. Probes!Spec => []Probes!NobodyIsOverslept
    BY <1>1, <1>2, <1>3, PTL DEF Probes!Spec
<1>6. Probes!Spec => [][Reads]_Probes!vars
    BY <1>1, <1>2, <1>4, PTL DEF Probes!Spec
<1>7. Probes!Spec => Probes!LateReadingsAreDropped
    BY <1>6 DEF Probes!LateReadingsAreDropped
<1> QED
    BY <1>5, <1>7 DEF ProbesAreCurrent

-----------------------------------------------------------------------------
\* An id is not none. A kit is asked by one session, and what the parts declare is of one kind.
JobsAreNamed  == Jobs!None \notin JobIds
KitsAreNamed  == Kit!None \notin KitIds
RunsAreNamed  == Runs!None \notin RunIds
OneCaller     == \E s : KitSessions = {s}
OnlyKits      == \A u \in KitUnits : u.kind = "kit"
OnlyProcesses == \A u \in RunUnits : u.kind = "process" /\ DOMAIN u = DOMAIN Runs!NoRow

\* List: each of the lists leaves out what is in those before it, so the lines of an id are one or none.
LEMMA ListsAreApart == ASSUME JobsAreNamed PROVE Jobs!ListedOnce
<1> SUFFICES ASSUME NEW i \in JobIds
             PROVE  Jobs!TimesListed(i) =
                      IF jobBox.id = i \/ jobRows[i].kind \in {"job", "kit"} \/ jobRows[i].problem THEN 1 ELSE 0
    BY DEF Jobs!ListedOnce
<1> DEFINE there  == Jobs!InTheRuntime
           kits_  == Jobs!KitOwned(there)
           failed == Jobs!FailedBoxless(there \union kits_)
           jobs   == Jobs!Scheduled(there \union kits_ \union failed)
           lists  == {<<1, there>>, <<2, kits_>>, <<3, failed>>, <<4, jobs>>}
           lines  == {l \in lists : i \in l[2]}
           shown  == jobBox.id = i \/ jobRows[i].kind \in {"job", "kit"} \/ jobRows[i].problem
<1>1. Jobs!TimesListed(i) = Cardinality(lines)
    BY DEF Jobs!TimesListed, Jobs!Cardinality, Cardinality
<1>2. i \in there <=> jobBox.id = i
    BY DEF Jobs!InTheRuntime, JobsAreNamed
<1>3. i \in kits_ <=> jobRows[i].kind = "kit" /\ i \notin there
    BY DEF Jobs!KitOwned, Jobs!Of
<1>4. i \in failed <=> jobRows[i] # Jobs!NoRow /\ jobRows[i].kind # "kit" /\ jobRows[i].problem /\ i \notin there /\ i \notin kits_
    BY DEF Jobs!FailedBoxless, Jobs!Of, Jobs!Registered
<1>5. i \in jobs <=> jobRows[i].kind = "job" /\ i \notin there /\ i \notin kits_ /\ i \notin failed
    BY DEF Jobs!Scheduled, Jobs!Of
<1>6. jobRows[i] = Jobs!NoRow => ~jobRows[i].problem
    BY DEF Jobs!NoRow
<1>7. i \in there \/ i \in kits_ \/ i \in failed \/ i \in jobs <=> shown
    BY <1>2, <1>3, <1>4, <1>5, <1>6
<1>8. /\ i \in there => i \notin kits_ /\ i \notin failed /\ i \notin jobs
      /\ i \in kits_ => i \notin failed /\ i \notin jobs
      /\ i \in failed => i \notin jobs
    BY <1>3, <1>4, <1>5
<1> HIDE DEF there, kits_, failed, jobs
<1>9. (shown => \E l : lines = {l}) /\ (~shown => lines = {})
    <2> DEFINE a == <<1, there>>
               b == <<2, kits_>>
               c == <<3, failed>>
               d == <<4, jobs>>
    <2>1. a[2] = there /\ b[2] = kits_ /\ c[2] = failed /\ d[2] = jobs
        OBVIOUS
    <2>2. lines = {l \in {a, b, c, d} : i \in l[2]}
        OBVIOUS
    <2> HIDE DEF a, b, c, d, lines, lists
    <2>3. CASE i \in there
        <3>1. lines = {a}
            BY <1>8, <2>1, <2>2, <2>3
        <3> QED
            BY <1>7, <2>3, <3>1
    <2>4. CASE i \in kits_
        <3>1. lines = {b}
            BY <1>8, <2>1, <2>2, <2>4
        <3> QED
            BY <1>7, <2>4, <3>1
    <2>5. CASE i \in failed
        <3>1. lines = {c}
            BY <1>8, <2>1, <2>2, <2>5
        <3> QED
            BY <1>7, <2>5, <3>1
    <2>6. CASE i \in jobs
        <3>1. lines = {d}
            BY <1>8, <2>1, <2>2, <2>6
        <3> QED
            BY <1>7, <2>6, <3>1
    <2>7. CASE ~shown
        <3>1. lines = {}
            BY <1>7, <2>1, <2>2, <2>7
        <3> QED
            BY <2>7, <3>1
    <2> QED
        BY <1>7, <2>3, <2>4, <2>5, <2>6, <2>7
<1> HIDE DEF lines
<1> QED
    BY <1>1, <1>9, FS_EmptySet, FS_Singleton

\* A session whose Packages are all run by a kit: what the kit runs is registered, or is the one the call is at.
CallParts == {"pc", "unit", "id", "prev", "other"}
KitCall(c, regs, runs_, said) ==
    /\ DOMAIN c = CallParts
    /\ c.pc \in {"idle", "ask", "register", "orphaned", "forget", "stopKit", "gone"}
    /\ c.pc \in {"ask", "register", "orphaned"} => c.unit.kind = "kit"
    /\ c.pc \in {"register", "orphaned", "forget"} => c.id \in KitIds /\ runs_ \subseteq {c.id} \union said
    /\ c.pc = "forget" => regs[c.id].kind = "kit"
    /\ c.pc = "gone" => c.id \notin runs_
    /\ \A i \in runs_ : \/ regs[i].kind = "kit" \/ i \in said
                        \/ c.id = i /\ c.pc \in {"register", "orphaned"}
KitSaid == {i \in KitIds : kitLeft[i] # "no"}
KitInv ==
    /\ DOMAIN kitCalls = KitSessions /\ DOMAIN kitRows = KitIds /\ DOMAIN kitLeft = KitIds /\ kitRuns \subseteq KitIds /\ kitBox = Kit!NoBox
    /\ \A i \in KitIds : kitRows[i].kind \in {Kit!None, "kit"}
    /\ \A s \in KitSessions : KitCall(kitCalls[s], kitRows, kitRuns, KitSaid)

LEMMA KitCallMoves ==
    ASSUME OneCaller, KitInv, NEW s \in KitSessions, NEW n, kitCalls' = [kitCalls EXCEPT ![s] = n], kitBox' = kitBox,
           DOMAIN kitRows' = KitIds, \A i \in KitIds : kitRows'[i].kind \in {Kit!None, "kit"}, kitRuns' \subseteq KitIds,
           DOMAIN kitLeft' = KitIds, KitCall(n, kitRows', kitRuns', KitSaid')
    PROVE  KitInv'
<1>1. \A v \in KitSessions : v = s
    BY DEF OneCaller
<1>2. DOMAIN kitCalls' = KitSessions /\ \A v \in KitSessions : kitCalls'[v] = n
    BY <1>1 DEF KitInv
<1> QED
    BY <1>2 DEF KitInv
LEMMA QuietCall == DOMAIN Kit!Quiet = CallParts /\ Kit!Quiet.pc = "idle"
  BY DEF Kit!Quiet, CallParts
LEMMA KitStep ==
    ASSUME KitsAreNamed, OneCaller, OnlyKits, KitInv, [Kit!Next]_Kit!vars PROVE KitInv'
<1>0. /\ DOMAIN kitCalls = KitSessions /\ DOMAIN kitRows = KitIds /\ kitRuns \subseteq KitIds /\ kitBox = Kit!NoBox
      /\ \A i \in KitIds : kitRows[i].kind \in {Kit!None, "kit"}
      /\ DOMAIN kitLeft = KitIds
    BY DEF KitInv
<1>1. CASE UNCHANGED Kit!vars
    BY <1>1 DEF Kit!vars, KitInv, KitSaid
<1>l. ASSUME NEW i \in KitIds, NEW how \in {"told", "lost"}, Kit!Leave(i, how)
      PROVE  DOMAIN kitLeft' = KitIds /\ KitSaid' = KitSaid \union {i}
    BY <1>0, <1>l DEF Kit!Leave, KitSaid
<1>u. kitLeft' = kitLeft => DOMAIN kitLeft' = KitIds /\ KitSaid' = KitSaid
    BY <1>0 DEF KitSaid
<1>2. kitBox.id = Kit!None /\ ~kitBox.up /\ \A i \in KitIds : i \notin Kit!Of("job") /\ i \notin Kit!Of("process")
    BY <1>0 DEF Kit!NoBox, Kit!Of, Kit!None
<1>3. ASSUME NEW s \in KitSessions,
             \/ \E u \in KitUnits : Kit!Run(s, u)
             \/ \E i \in KitIds : Kit!Stop(s, i)
             \/ Kit!Find(s) \/ Kit!Known(s) \/ Kit!Remove(s) \/ Kit!Unregister(s) \/ Kit!Replace(s) \/ Kit!Register(s)
             \/ Kit!Start(s) \/ Kit!Confirm(s) \/ Kit!Orphan(s)
             \/ Kit!Ask(s) \/ Kit!Orphaned(s) \/ Kit!ForgetReplaced(s)
             \/ Kit!StopKit(s) \/ Kit!StopJob(s) \/ Kit!StopBox(s) \/ Kit!Gone(s)
             \/ Kit!Reconcile(s) \/ Kit!Reregister(s) \/ Kit!Die(s)
      PROVE  KitInv'
    <2> DEFINE c == kitCalls[s]
    <2>0. KitCall(c, kitRows, kitRuns, KitSaid)
        BY DEF KitInv
    <2>q. ASSUME Kit!Answer(s), kitBox' = kitBox, DOMAIN kitLeft' = KitIds, DOMAIN kitRows' = KitIds, \A i \in KitIds : kitRows'[i].kind \in {Kit!None, "kit"},
                 kitRuns' \subseteq KitIds, \A i \in kitRuns' : kitRows'[i].kind = "kit" \/ i \in KitSaid'
          PROVE  KitInv'
        <3>1. kitCalls' = [kitCalls EXCEPT ![s] = Kit!Quiet] /\ KitCall(Kit!Quiet, kitRows', kitRuns', KitSaid')
            BY <2>q, QuietCall DEF Kit!Answer, KitCall
        <3> QED
            BY <2>q, <3>1, KitCallMoves
    <2>1. ASSUME NEW u \in KitUnits, Kit!Run(s, u) PROVE KitInv'
        <3> DEFINE n == [c EXCEPT !.pc = "ask", !.unit = u]
        <3>1. kitCalls' = [kitCalls EXCEPT ![s] = n] /\ UNCHANGED <<kitRows, kitRuns, kitLeft, kitBox>> /\ c.pc = "idle" /\ u.kind = "kit"
            BY <1>0, <2>1 DEF Kit!Run, Kit!At, OnlyKits
        <3>2. KitCall(n, kitRows, kitRuns, KitSaid)
            BY <2>0, <3>1 DEF KitCall, CallParts
        <3> QED
            BY <1>0, <1>u, <3>1, <3>2, KitCallMoves
    <2>2. ASSUME NEW i \in KitIds, Kit!Stop(s, i) PROVE KitInv'
        <3> DEFINE n == [Kit!Quiet EXCEPT !.pc = "stopKit", !.id = i]
        <3>0. kitBox.id # i
            BY <1>2 DEF KitsAreNamed
        <3>1. kitCalls' = [kitCalls EXCEPT ![s] = n] /\ UNCHANGED <<kitRows, kitRuns, kitLeft, kitBox>> /\ c.pc = "idle"
            BY <1>2, <2>2, <3>0 DEF Kit!Stop, Kit!At
        <3>2. KitCall(n, kitRows, kitRuns, KitSaid)
            BY SMTT(60), <2>0, <3>1, QuietCall DEF KitCall, CallParts
        <3> QED
            BY <1>0, <1>u, <3>1, <3>2, KitCallMoves
    <2>3. CASE \/ Kit!Find(s) \/ Kit!Known(s) \/ Kit!Remove(s) \/ Kit!Unregister(s) \/ Kit!Replace(s)
               \/ Kit!Start(s) \/ Kit!Confirm(s) \/ Kit!Orphan(s) \/ Kit!StopJob(s) \/ Kit!StopBox(s)
               \/ Kit!Reconcile(s) \/ Kit!Reregister(s)
        BY <1>2, <2>0, <2>3 DEF KitCall, Kit!At, Kit!Find, Kit!Known, Kit!Remove, Kit!Unregister, Kit!Replace,
           Kit!Start, Kit!Confirm, Kit!Orphan, Kit!StopJob, Kit!StopBox, Kit!Reconcile, Kit!Reregister
    <2>4. CASE Kit!Register(s)
        <3>0. c.pc = "register" /\ c.unit.kind = "kit" /\ c.id \in KitIds /\ c.id # Kit!None /\ UNCHANGED <<kitBox, kitRuns, kitLeft>> /\ KitSaid' = KitSaid /\ DOMAIN kitLeft' = KitIds
            BY <1>u, <2>0, <2>4 DEF KitCall, Kit!Register, Kit!At, KitsAreNamed
        <3> DEFINE i  == c.id
                   u  == c.unit
                   n1 == [c EXCEPT !.id = i, !.pc = "forget"]
                   n2 == [c EXCEPT !.pc = "orphaned"]
        <3>1. \/ kitRows' = [kitRows EXCEPT ![i] = u] /\ kitCalls' = [kitCalls EXCEPT ![s] = n1]
              \/ (kitRows' = [kitRows EXCEPT ![i] = u] \/ kitRows' = kitRows) /\ kitCalls' = [kitCalls EXCEPT ![s] = n2]
            BY <2>4, <3>0 DEF Kit!Register
        <3>2. /\ DOMAIN kitRows' = KitIds /\ \A j \in KitIds : kitRows'[j].kind \in {Kit!None, "kit"}
              /\ \A j \in KitIds : kitRows[j].kind = "kit" => kitRows'[j].kind = "kit"
              /\ kitRows' = [kitRows EXCEPT ![i] = u] => kitRows'[i].kind = "kit"
            BY <1>0, <3>0, <3>1
        <3>3. CASE kitRows' = [kitRows EXCEPT ![i] = u] /\ kitCalls' = [kitCalls EXCEPT ![s] = n1]
            <4>1. KitCall(n1, kitRows', kitRuns', KitSaid')
                BY <1>0, <2>0, <3>0, <3>2, <3>3 DEF KitCall, CallParts
            <4> QED
                BY <1>0, <3>0, <3>2, <3>3, <4>1, KitCallMoves
        <3>4. CASE kitCalls' = [kitCalls EXCEPT ![s] = n2]
            <4>1. KitCall(n2, kitRows', kitRuns', KitSaid')
                BY <1>0, <2>0, <3>0, <3>2 DEF KitCall, CallParts
            <4> QED
                BY <1>0, <3>0, <3>2, <3>4, <4>1, KitCallMoves
        <3> QED
            BY <3>1, <3>3, <3>4
    <2>5. CASE Kit!Ask(s)
        <3>0. c.pc = "ask" /\ c.unit.kind = "kit" /\ UNCHANGED <<kitRows, kitBox>>
            BY <2>0, <2>5 DEF KitCall, Kit!Ask, Kit!At
        <3>1. PICK i \in kitRuns \union Kit!Fresh :
                 \/ kitRuns' = {i} /\ kitCalls' = [kitCalls EXCEPT ![s].pc = "register", ![s].id = i] /\ Kit!Leave(i, "no")
                 \/ Kit!Answer(s) /\ UNCHANGED <<kitRuns, kitLeft>>
                 \/ Kit!Answer(s) /\ kitRuns' = {i} /\ Kit!Leave(i, "lost")
            BY <2>5 DEF Kit!Ask
        <3>2. i \in KitIds
            BY <1>0 DEF Kit!Fresh
        <3>3. CASE kitRuns' = {i} /\ kitCalls' = [kitCalls EXCEPT ![s].pc = "register", ![s].id = i] /\ Kit!Leave(i, "no")
            <4> DEFINE n == [c EXCEPT !.pc = "register", !.id = i]
            <4>1. kitCalls' = [kitCalls EXCEPT ![s] = n]
                BY <1>0, <3>3
            <4>2. DOMAIN kitLeft' = KitIds
                BY <1>0, <3>3 DEF Kit!Leave
            <4>3. KitCall(n, kitRows, kitRuns', KitSaid')
                BY <2>0, <3>0, <3>2, <3>3 DEF KitCall, CallParts
            <4> QED
                BY <1>0, <3>0, <3>2, <3>3, <4>1, <4>2, <4>3, KitCallMoves
        <3>4. CASE Kit!Answer(s) /\ UNCHANGED <<kitRuns, kitLeft>>
            BY <1>0, <1>u, <2>0, <2>q, <3>0, <3>4 DEF KitCall
        <3>5. CASE Kit!Answer(s) /\ kitRuns' = {i} /\ Kit!Leave(i, "lost")
            BY <1>0, <1>l, <2>q, <3>0, <3>2, <3>5
        <3> QED
            BY <3>1, <3>3, <3>4, <3>5
    <2>6. CASE Kit!Orphaned(s)
        <3>1. c.pc = "orphaned" /\ Kit!Answer(s) /\ UNCHANGED <<kitRows, kitBox>>
            BY <2>6 DEF Kit!Orphaned, Kit!At
        <3>2. /\ DOMAIN kitLeft' = KitIds
              /\ \/ kitRuns' = kitRuns \ {c.id} /\ KitSaid' = KitSaid
                 \/ kitRuns' = kitRuns /\ KitSaid' = KitSaid \union {c.id}
            BY <1>l, <1>u, <2>0, <2>6, <3>1 DEF Kit!Orphaned, KitCall
        <3>3. \A i \in kitRuns' : kitRows'[i].kind = "kit" \/ i \in KitSaid'
            BY <2>0, <3>1, <3>2 DEF KitCall
        <3> QED
            BY <1>0, <2>q, <3>1, <3>2, <3>3
    <2>7. CASE Kit!ForgetReplaced(s)
        <3>1. c.pc = "forget" /\ Kit!Answer(s) /\ UNCHANGED <<kitBox, kitRuns, kitLeft>> /\ KitSaid' = KitSaid /\ DOMAIN kitLeft' = KitIds
            BY <1>u, <2>7 DEF Kit!ForgetReplaced, Kit!At
        <3>2. \/ kitRows' = [i \in KitIds |-> IF i \in Kit!Of("kit") \ {c.id} THEN Kit!NoRow ELSE kitRows[i]]
              \/ kitRows' = kitRows
            BY <2>7 DEF Kit!ForgetReplaced
        <3>3. DOMAIN kitRows' = KitIds /\ \A i \in KitIds : kitRows'[i].kind \in {Kit!None, "kit"} /\ (i = c.id => kitRows'[i] = kitRows[i])
            BY <1>0, <3>2 DEF Kit!NoRow
        <3>4. \A i \in kitRuns : kitRows'[i].kind = "kit" \/ i \in KitSaid
            BY <1>0, <2>0, <3>1, <3>3 DEF KitCall
        <3> QED
            BY <1>0, <2>q, <3>1, <3>3, <3>4
    <2>8. CASE Kit!StopKit(s)
        <3>0. c.pc = "stopKit" /\ UNCHANGED <<kitRows, kitBox, kitLeft>> /\ KitSaid' = KitSaid /\ DOMAIN kitLeft' = KitIds
            BY <1>u, <2>8 DEF Kit!StopKit, Kit!At
        <3>1. CASE kitRuns' = kitRuns \ {c.id} /\ Kit!To(s, "gone")
            <4> DEFINE n == [c EXCEPT !.pc = "gone"]
            <4>1. kitCalls' = [kitCalls EXCEPT ![s] = n]
                BY <1>0, <3>1 DEF Kit!To
            <4>2. KitCall(n, kitRows, kitRuns', KitSaid)
                BY <2>0, <3>0, <3>1 DEF KitCall, CallParts
            <4> QED
                BY <1>0, <3>0, <3>1, <4>1, <4>2, KitCallMoves
        <3>2. CASE Kit!Answer(s) /\ kitRuns' \in {kitRuns, kitRuns \ {c.id}}
            <4>1. kitRuns' \subseteq kitRuns /\ \A i \in kitRuns : kitRows[i].kind = "kit" \/ i \in KitSaid
                BY <2>0, <3>0, <3>2 DEF KitCall
            <4> QED
                BY <1>0, <2>q, <3>0, <3>2, <4>1
        <3> QED
            BY <2>8, <3>1, <3>2 DEF Kit!StopKit
    <2>9. CASE Kit!Gone(s)
        <3>1. c.pc = "gone" /\ Kit!Answer(s) /\ UNCHANGED <<kitBox, kitRuns>>
            BY <2>9 DEF Kit!Gone, Kit!Forgets, Kit!At
        <3>2. /\ kitRows' = [kitRows EXCEPT ![c.id] = Kit!NoRow] \/ kitRows' = kitRows
              /\ KitSaid \subseteq KitSaid' /\ DOMAIN kitLeft' = KitIds
          <4>1. \/ kitRows' = [kitRows EXCEPT ![c.id] = Kit!NoRow] /\ kitLeft' = kitLeft
                \/ kitRows' = kitRows /\ Kit!Leave(c.id, "told")
              BY <2>9 DEF Kit!Gone, Kit!Forgets
          <4>2. Kit!Leave(c.id, "told") => KitSaid \subseteq KitSaid' /\ DOMAIN kitLeft' = KitIds
              BY <1>0 DEF Kit!Leave, KitSaid
          <4> QED
              BY <1>u, <4>1, <4>2
        <3>3. DOMAIN kitRows' = KitIds /\ \A i \in KitIds : kitRows'[i].kind \in {Kit!None, "kit"} /\ (i # c.id => kitRows'[i] = kitRows[i])
            BY <1>0, <3>2 DEF Kit!NoRow
        <3>4. \A i \in kitRuns : kitRows'[i].kind = "kit" \/ i \in KitSaid'
            BY <1>0, <2>0, <3>1, <3>2, <3>3 DEF KitCall
        <3> QED
            BY <1>0, <2>q, <3>1, <3>2, <3>3, <3>4
    <2>10. CASE Kit!Die(s)
        <3>1. Kit!Answer(s) /\ UNCHANGED <<kitRows, kitBox, kitRuns>>
            BY <2>10 DEF Kit!Die
        <3>2. /\ DOMAIN kitLeft' = KitIds /\ KitSaid \subseteq KitSaid'
              /\ c.pc \in {"register", "orphaned"} => c.id \in KitSaid'
          <4>1. c.pc \in {"register", "orphaned"} => c.unit.kind = "kit" /\ c.id \in KitIds
              BY <2>0 DEF KitCall
          <4> QED
              BY <1>l, <1>u, <2>10, <4>1 DEF Kit!Die
        <3>3. \A i \in kitRuns : kitRows[i].kind = "kit" \/ i \in KitSaid'
            BY <1>0, <2>0, <3>2 DEF KitCall, KitsAreNamed
        <3> QED
            BY <1>0, <2>q, <3>1, <3>2, <3>3
    <2> QED
        BY <1>3, <2>1, <2>2, <2>3, <2>4, <2>5, <2>6, <2>7, <2>8, <2>9, <2>10
<1>4. ASSUME NEW i \in KitIds, Kit!Tick(i) \/ Kit!Fail(i) PROVE KitInv'
    BY <1>2, <1>4 DEF Kit!Tick, Kit!Fail
<1>5. CASE Kit!Exit
    BY <1>2, <1>5 DEF Kit!Exit
<1> QED
    BY <1>1, <1>3, <1>4, <1>5 DEF Kit!Next

LEMMA KitInit == ASSUME Kit!Init PROVE KitInv
<1>1. \A s \in KitSessions : kitCalls[s] = Kit!Quiet
    BY DEF Kit!Init
<1>2. KitCall(Kit!Quiet, kitRows, {}, KitSaid)
    BY QuietCall DEF KitCall
<1> QED
    BY <1>1, <1>2 DEF Kit!Init, KitInv, Kit!NoRow
LEMMA KitsAreKnown == ASSUME OneCaller, KitInv PROVE Kit!KitProcessIsKnown
<1>1. PICK s : s \in KitSessions
    BY DEF OneCaller
<1> QED
    BY <1>1 DEF KitInv, KitCall, KitSaid, Kit!KitProcessIsKnown, Kit!Of

\* proc_list, and the Process a kit was asked to start (proc.go List, kits.go orphaned): every Process of the caller
\* is listed once in whatever state the registrations and the runtime are, and what a kit has answered its single session
\* with is registered, being registered or told of, through refusals and deaths, and again when a later run is answered
\* with what an answer that was lost had started.
THEOREM RunsStayKnown ==
    ASSUME JobsAreNamed, KitsAreNamed, OneCaller, OnlyKits
    PROVE  Kit!Spec => []RunsAreKnown
<1>1. Kit!Init => KitInv
    BY KitInit
<1>2. KitInv /\ [Kit!Next]_Kit!vars => KitInv'
    BY KitStep
<1>3. KitInv => RunsAreKnown
    BY KitsAreKnown, ListsAreApart DEF RunsAreKnown
<1> QED
    BY <1>1, <1>2, <1>3, PTL DEF Kit!Spec

\* The Processes of a Package, by any number of sessions. Nothing is started twice under one id, and what is about to
\* be started is nobody's to take away: no other call and no container has its id.
Down(b, i) == ~(b.id = i /\ b.up)
OneProcess(c, b, ids) ==
    /\ DOMAIN c = CallParts /\ c.other = Runs!None
    /\ c.pc \in {"idle", "find", "remove", "unregister", "register", "start", "confirm", "orphan", "stop", "gone",
                 "reconcile"}
    /\ c.pc = "idle" => c = Runs!Quiet
    /\ c.pc \in {"find", "remove", "unregister", "register"} => 
         c.unit.kind = "process" /\ DOMAIN c.unit = DOMAIN Runs!NoRow /\ c.id = Runs!None
    /\ {c.id, c.prev} \subseteq ids \union {Runs!None}
    /\ c.pc = "start" => c.id \in ids /\ b.id # c.id
    /\ c.pc = "unregister" => Down(b, c.prev)
    /\ c.pc = "gone" => Down(b, c.id)
ProcessesInv ==
    /\ DOMAIN runCalls = RunSessions /\ DOMAIN runRows = RunIds /\ runMinted \subseteq RunIds
    /\ runBox.id \in runMinted \union {Runs!None} /\ DOMAIN runBox = {"id", "digest", "up"}
    /\ \A i \in RunIds : runRows[i].kind \in {Runs!None, "process"} /\ DOMAIN runRows[i] = DOMAIN Runs!NoRow
    /\ \A s \in RunSessions : OneProcess(runCalls[s], runBox, runMinted)
    /\ \A s, v \in RunSessions : s # v /\ runCalls[s].pc = "start" => runCalls[v].id # runCalls[s].id /\ runCalls[v].prev # runCalls[s].id

LEMMA ProcessCallMoves ==
    ASSUME RunsAreNamed, ProcessesInv, NEW s \in RunSessions, NEW n, runCalls' = [runCalls EXCEPT ![s] = n],
           DOMAIN runRows' = RunIds, \A i \in RunIds : runRows'[i].kind \in {Runs!None, "process"} /\ DOMAIN runRows'[i] = DOMAIN Runs!NoRow,
           runMinted \subseteq runMinted', runMinted' \subseteq RunIds, OneProcess(n, runBox', runMinted'),
           DOMAIN runBox' = {"id", "digest", "up"},
           runBox'.id \in {Runs!None, runBox.id} \/ (runCalls[s].pc = "start" /\ runBox'.id = runCalls[s].id),
           runBox'.up => runBox' = runBox \/ (runCalls[s].pc = "start" /\ runBox'.id = runCalls[s].id),
           n.prev \in {Runs!None, runBox.id, runCalls[s].prev},
           n.id \in {Runs!None, runBox.id, runCalls[s].id} \/ n.id \in RunIds \ runMinted,
           n.pc = "start" => n.id \in RunIds \ runMinted
    PROVE  ProcessesInv'
<1> DEFINE c == runCalls[s]
<1>1. DOMAIN runCalls' = RunSessions /\ \A v \in RunSessions : runCalls'[v] = IF v = s THEN n ELSE runCalls[v]
    BY DEF ProcessesInv
<1>2. OneProcess(c, runBox, runMinted) /\ \A v \in RunSessions : OneProcess(runCalls[v], runBox, runMinted)
    BY DEF ProcessesInv
<1>3. runBox.id \in runMinted \union {Runs!None} /\ runMinted \subseteq RunIds
    BY DEF ProcessesInv
<1>4. runBox'.id \in runMinted \union {Runs!None}
    BY <1>2, <1>3 DEF OneProcess
<1>5. ASSUME NEW v \in RunSessions, v # s PROVE OneProcess(runCalls[v], runBox', runMinted')
    <2>1. runCalls[v].pc = "start" => runBox'.id # runCalls[v].id
        BY <1>2, <1>3, <1>5 DEF ProcessesInv, OneProcess, RunsAreNamed
    <2>2. runCalls[v].pc = "unregister" => Down(runBox', runCalls[v].prev)
        BY <1>2, <1>5 DEF ProcessesInv, OneProcess, Down
    <2>3. runCalls[v].pc = "gone" => Down(runBox', runCalls[v].id)
        BY <1>2, <1>5 DEF ProcessesInv, OneProcess, Down
    <2> QED
        BY <1>2, <2>1, <2>2, <2>3 DEF OneProcess
<1>6. ASSUME NEW v \in RunSessions, NEW u \in RunSessions, v # u, runCalls'[v].pc = "start"
      PROVE  runCalls'[u].id # runCalls'[v].id /\ runCalls'[u].prev # runCalls'[v].id
    <2>1. CASE v = s
        BY <1>1, <1>2, <1>3, <1>6, <2>1 DEF OneProcess, RunsAreNamed
    <2>2. CASE u = s
        <3>1. runCalls[v].id \in runMinted /\ runCalls[v].id # runBox.id /\ runCalls[v].id # Runs!None /\ runCalls[v].pc = "start"
            BY <1>1, <1>2, <1>3, <1>6, <2>2 DEF OneProcess, RunsAreNamed
        <3>2. c.id # runCalls[v].id /\ c.prev # runCalls[v].id
            BY <1>6, <2>2, <3>1 DEF ProcessesInv
        <3> QED
            BY <1>1, <1>6, <2>2, <3>1, <3>2
    <2>3. CASE v # s /\ u # s
        BY <1>1, <1>6, <2>3 DEF ProcessesInv
    <2> QED
        BY <2>1, <2>2, <2>3
<1> QED
    BY <1>1, <1>4, <1>5, <1>6 DEF ProcessesInv

\* A step of nobody's call: the container goes down, or away.
LEMMA BoxGoesDown ==
    ASSUME RunsAreNamed, ProcessesInv, UNCHANGED <<runCalls, runMinted>>,
           DOMAIN runRows' = RunIds, \A i \in RunIds : runRows'[i].kind \in {Runs!None, "process"} /\ DOMAIN runRows'[i] = DOMAIN Runs!NoRow,
           DOMAIN runBox' = {"id", "digest", "up"}, runBox'.id \in {Runs!None, runBox.id}, runBox'.up => runBox' = runBox
    PROVE  ProcessesInv'
<1>1. ASSUME NEW v \in RunSessions PROVE OneProcess(runCalls[v], runBox', runMinted)
    BY DEF ProcessesInv, OneProcess, Down, RunsAreNamed
<1> QED
    BY <1>1 DEF ProcessesInv

\* A call that moves on and touches nothing, one that ends, and what they make of the registrations.
LEMMA ProcessCallEnds ==
    ASSUME RunsAreNamed, ProcessesInv, NEW s \in RunSessions, Runs!Answer(s), runMinted' = runMinted,
           DOMAIN runRows' = RunIds, \A i \in RunIds : runRows'[i].kind \in {Runs!None, "process"} /\ DOMAIN runRows'[i] = DOMAIN Runs!NoRow,
           DOMAIN runBox' = {"id", "digest", "up"},
           runBox'.id \in {Runs!None, runBox.id}, runBox'.up => runBox' = runBox
    PROVE  ProcessesInv'
<1>1. runCalls' = [runCalls EXCEPT ![s] = Runs!Quiet] /\ runMinted \subseteq RunIds
    BY DEF Runs!Answer, ProcessesInv
<1>2. OneProcess(Runs!Quiet, runBox', runMinted') /\ Runs!Quiet.id = Runs!None /\ Runs!Quiet.prev = Runs!None /\ Runs!Quiet.pc = "idle"
    BY DEF Runs!Quiet, OneProcess, CallParts
<1> QED
    BY <1>1, <1>2, ProcessCallMoves
LEMMA RowsForget ==
    ASSUME ProcessesInv, NEW j, runRows' = [runRows EXCEPT ![j] = Runs!NoRow] \/ runRows' = runRows
    PROVE  /\ DOMAIN runRows' = RunIds
           /\ \A i \in RunIds : runRows'[i].kind \in {Runs!None, "process"} /\ DOMAIN runRows'[i] = DOMAIN Runs!NoRow
  BY DEF ProcessesInv, Runs!NoRow
LEMMA NoBoxIsDown == DOMAIN Runs!NoBox = {"id", "digest", "up"} /\ Runs!NoBox.id = Runs!None /\ ~Runs!NoBox.up
  BY DEF Runs!NoBox

LEMMA ProcessStep ==
    ASSUME RunsAreNamed, OnlyProcesses, ProcessesInv, [Runs!Next]_Runs!vars PROVE ProcessesInv'
<1>0. /\ DOMAIN runCalls = RunSessions /\ DOMAIN runRows = RunIds /\ runMinted \subseteq RunIds /\ DOMAIN runBox = {"id", "digest", "up"}
      /\ \A i \in RunIds : runRows[i].kind \in {Runs!None, "process"} /\ DOMAIN runRows[i] = DOMAIN Runs!NoRow
      /\ runBox.id \in runMinted \union {Runs!None}
    BY DEF ProcessesInv
<1>1. CASE UNCHANGED Runs!vars
    BY <1>1 DEF Runs!vars, ProcessesInv
<1>2. \A i \in RunIds : i \notin Runs!Of("job") /\ i \notin Runs!Of("kit")
    BY <1>0 DEF Runs!Of, Runs!None
<1>3. ASSUME NEW s \in RunSessions,
             \/ \E u \in RunUnits : Runs!Run(s, u)
             \/ \E i \in RunIds : Runs!Stop(s, i)
             \/ Runs!Find(s) \/ Runs!Known(s) \/ Runs!Remove(s) \/ Runs!Unregister(s) \/ Runs!Replace(s) \/ Runs!Register(s)
             \/ Runs!Start(s) \/ Runs!Confirm(s) \/ Runs!Orphan(s)
             \/ Runs!Ask(s) \/ Runs!Orphaned(s) \/ Runs!ForgetReplaced(s)
             \/ Runs!StopKit(s) \/ Runs!StopJob(s) \/ Runs!StopBox(s) \/ Runs!Gone(s)
             \/ Runs!Reconcile(s) \/ Runs!Reregister(s) \/ Runs!Die(s)
      PROVE  ProcessesInv'
    <2> DEFINE c == runCalls[s]
    <2>0. OneProcess(c, runBox, runMinted)
        BY DEF ProcessesInv
    <2>q. ASSUME Runs!Answer(s), UNCHANGED <<runMinted, runRows>>, DOMAIN runBox' = {"id", "digest", "up"},
                 runBox'.id \in {Runs!None, runBox.id}, runBox'.up => runBox' = runBox
          PROVE  ProcessesInv'
        BY <1>0, <2>q, ProcessCallEnds
    \* To another step of the call, with the container as it is, gone or down.
    <2>t. ASSUME NEW p, Runs!To(s, p), runMinted' = runMinted, c.pc # "idle",
                 DOMAIN runRows' = RunIds,
                 \A i \in RunIds : runRows'[i].kind \in {Runs!None, "process"} /\ DOMAIN runRows'[i] = DOMAIN Runs!NoRow,
                 \/ p \in {"confirm", "orphan"}
                 \/ p = "register" /\ c.pc \in {"find", "unregister"}
                 \/ p = "unregister" /\ c.pc = "remove" /\ ~runBox'.up
                 \/ p = "gone" /\ c.pc = "stop" /\ ~runBox'.up,
                 DOMAIN runBox' = {"id", "digest", "up"},
                 runBox'.id \in {Runs!None, runBox.id} \/ (c.pc = "start" /\ runBox'.id = c.id),
                 runBox'.up => runBox' = runBox \/ (c.pc = "start" /\ runBox'.id = c.id)
          PROVE  ProcessesInv'
        <3> DEFINE n == [c EXCEPT !.pc = p]
        <3>1. runCalls' = [runCalls EXCEPT ![s] = n]
            BY <1>0, <2>t DEF Runs!To
        <3>2. DOMAIN n = CallParts /\ n.pc = p /\ n.id = c.id /\ n.prev = c.prev /\ n.other = c.other /\ n.unit = c.unit
            BY <2>0 DEF OneProcess, CallParts
        <3> HIDE DEF n
        <3>3. OneProcess(n, runBox', runMinted')
            BY <2>0, <2>t, <3>2 DEF OneProcess, Down
        <3> QED
            BY <1>0, <2>t, <3>1, <3>2, <3>3, ProcessCallMoves
    <2>1. ASSUME NEW u \in RunUnits, Runs!Run(s, u) PROVE ProcessesInv'
        <3> DEFINE n == [Runs!Quiet EXCEPT !.pc = "find", !.unit = u]
        <3>1. /\ runCalls' = [runCalls EXCEPT ![s] = n] /\ UNCHANGED <<runRows, runBox, runMinted>> /\ u.kind = "process"
              /\ DOMAIN u = DOMAIN Runs!NoRow /\ c.pc = "idle" /\ c = Runs!Quiet
            BY <1>0, <2>0, <2>1 DEF Runs!Run, Runs!At, OnlyProcesses, OneProcess
        <3>2. /\ DOMAIN n = CallParts /\ n.pc = "find" /\ n.unit = u /\ n.id = Runs!None /\ n.prev = Runs!None
              /\ n.other = Runs!None
            BY <3>1 DEF Runs!Quiet, CallParts
        <3> HIDE DEF n
        <3>3. OneProcess(n, runBox, runMinted)
            BY <3>1, <3>2 DEF OneProcess
        <3> QED
            BY <1>0, <3>1, <3>2, <3>3, ProcessCallMoves
    <2>2. ASSUME NEW i \in RunIds, Runs!Stop(s, i) PROVE ProcessesInv'
        <3> DEFINE n == [Runs!Quiet EXCEPT !.pc = "stop", !.id = i]
        <3>1. /\ runCalls' = [runCalls EXCEPT ![s] = n] /\ UNCHANGED <<runRows, runBox, runMinted>> /\ c.pc = "idle" /\ runBox.id = i
            BY <1>2, <2>2 DEF Runs!Stop, Runs!At
        <3>2. /\ DOMAIN n = CallParts /\ n.pc = "stop" /\ n.id = i /\ n.prev = Runs!None /\ n.other = Runs!None
            BY DEF Runs!Quiet, CallParts
        <3> HIDE DEF n
        <3>3. OneProcess(n, runBox, runMinted)
            BY <1>0, <3>1, <3>2 DEF OneProcess, RunsAreNamed
        <3> QED
            BY <1>0, <3>1, <3>2, <3>3, ProcessCallMoves
    <2>3. CASE Runs!Find(s)
        <3>0. c.pc = "find" /\ c.unit.kind = "process" /\ UNCHANGED <<runRows, runBox, runMinted>>
            BY <2>0, <2>3 DEF Runs!Find, Runs!At, OneProcess
        <3> DEFINE n == [c EXCEPT !.pc = "remove", !.prev = runBox.id]
        <3>1. Runs!Answer(s) \/ Runs!To(s, "register") \/ runCalls' = [runCalls EXCEPT ![s].pc = "remove", ![s].prev = runBox.id]
            BY <2>3, <3>0 DEF Runs!Find
        <3>2. CASE runCalls' = [runCalls EXCEPT ![s].pc = "remove", ![s].prev = runBox.id]
            <4>1. runCalls' = [runCalls EXCEPT ![s] = n]
                BY <1>0, <3>2
            <4>2. /\ DOMAIN n = CallParts /\ n.pc = "remove" /\ n.id = c.id /\ n.prev = runBox.id /\ n.other = c.other
                  /\ n.unit = c.unit
                BY <2>0 DEF OneProcess, CallParts
            <4> HIDE DEF n
            <4>3. OneProcess(n, runBox, runMinted)
                BY <1>0, <2>0, <3>0, <4>2 DEF OneProcess
            <4> QED
                BY <1>0, <3>0, <4>1, <4>2, <4>3, ProcessCallMoves
        <3>3. CASE Runs!Answer(s)
            BY <1>0, <2>q, <3>0, <3>3
        <3>4. CASE Runs!To(s, "register")
            BY <1>0, <2>t, <3>0, <3>4
        <3> QED
            BY <3>1, <3>2, <3>3, <3>4
    <2>4. CASE Runs!Remove(s)
        <3>0. c.pc = "remove" /\ UNCHANGED <<runRows, runMinted>>
            BY <2>4 DEF Runs!Remove, Runs!At
        <3>1. CASE Runs!To(s, "unregister") /\ runBox' = Runs!NoBox
            BY <1>0, <2>t, <3>0, <3>1, NoBoxIsDown
        <3>2. CASE Runs!Answer(s) /\ runBox' \in {Runs!NoBox, runBox}
            BY <1>0, <2>q, <3>0, <3>2, NoBoxIsDown
        <3> QED
            BY <2>4, <3>1, <3>2 DEF Runs!Remove
    <2>5. CASE Runs!Unregister(s)
        <3>1. c.pc = "unregister" /\ c.other = Runs!None /\ UNCHANGED <<runBox, runMinted>> /\ Runs!To(s, "register")
            BY <2>0, <2>5 DEF Runs!Unregister, Runs!At, Runs!Forgets, OneProcess
        <3>2. runRows' = [runRows EXCEPT ![c.prev] = Runs!NoRow] \/ runRows' = runRows
            BY <2>5 DEF Runs!Unregister, Runs!Forgets
        <3>3. /\ DOMAIN runRows' = RunIds
              /\ \A i \in RunIds : runRows'[i].kind \in {Runs!None, "process"} /\ DOMAIN runRows'[i] = DOMAIN Runs!NoRow
            BY <3>2, RowsForget
        <3> QED
            BY <1>0, <2>t, <3>1, <3>3
    <2>6. CASE Runs!Register(s)
        <3>0. c.pc = "register" /\ c.id = Runs!None /\ c.unit.kind = "process" /\ UNCHANGED runBox
            BY <2>0, <2>6 DEF Runs!Register, Runs!At, OneProcess
        <3>1. PICK i \in Runs!Fresh :
                /\ runMinted' = runMinted \union {i}
                /\ \/ /\ runRows' = [runRows EXCEPT ![i] = c.unit]
                      /\ runCalls' = [runCalls EXCEPT ![s] = [c EXCEPT !.id = i, !.pc = "start"]]
                   \/ /\ runCalls' = [runCalls EXCEPT ![s] = Runs!Quiet]
                      /\ runRows' = [runRows EXCEPT ![i] = c.unit] \/ runRows' = runRows
            BY <2>6, <3>0 DEF Runs!Register
        <3> DEFINE u == c.unit
                   n == [c EXCEPT !.id = i, !.pc = "start"]
        <3>2. i \in RunIds \ runMinted /\ i # Runs!None
            BY <3>1 DEF Runs!Fresh, RunsAreNamed
        <3>3. u.kind = "process" /\ DOMAIN u = DOMAIN Runs!NoRow
            BY <2>0, <3>0 DEF OneProcess
        <3> HIDE DEF u
        <3>4. runRows' = [runRows EXCEPT ![i] = u] \/ runRows' = runRows
            BY <3>1 DEF u
        <3>5. /\ DOMAIN runRows' = RunIds
              /\ \A j \in RunIds : runRows'[j].kind \in {Runs!None, "process"} /\ DOMAIN runRows'[j] = DOMAIN Runs!NoRow
            BY <1>0, <3>3, <3>4
        <3>6. DOMAIN n = CallParts /\ n.pc = "start" /\ n.id = i /\ n.prev = c.prev /\ n.other = c.other
            BY <2>0 DEF OneProcess, CallParts
        <3>7. runMinted' = runMinted \union {i} /\ (runCalls' = [runCalls EXCEPT ![s] = n] \/ runCalls' = [runCalls EXCEPT ![s] = Runs!Quiet])
            BY <3>1
        <3> HIDE DEF n
        <3>8. CASE runCalls' = [runCalls EXCEPT ![s] = n]
            <4>1. OneProcess(n, runBox', runMinted')
                BY <1>0, <2>0, <3>0, <3>2, <3>6, <3>7 DEF OneProcess
            <4> QED
                BY <1>0, <3>0, <3>2, <3>5, <3>6, <3>7, <3>8, <4>1, ProcessCallMoves
        <3>9. CASE runCalls' = [runCalls EXCEPT ![s] = Runs!Quiet]
            <4>1. /\ OneProcess(Runs!Quiet, runBox', runMinted') /\ Runs!Quiet.id = Runs!None /\ Runs!Quiet.prev = Runs!None
                  /\ Runs!Quiet.pc = "idle"
                BY DEF Runs!Quiet, OneProcess, CallParts
            <4> QED
                BY <1>0, <3>0, <3>2, <3>5, <3>7, <3>9, <4>1, ProcessCallMoves
        <3> QED
            BY <3>7, <3>8, <3>9
    <2>7. CASE Runs!Start(s)
        <3> DEFINE made == [id |-> c.id, digest |-> runRows[c.id].digest, up |-> TRUE]
        <3>0. c.pc = "start" /\ UNCHANGED <<runRows, runMinted>>
            BY <2>7 DEF Runs!Start, Runs!At
        <3>1. \/ runBox' = made /\ Runs!To(s, "confirm")
              \/ runBox' \in {runBox, Runs!NoBox, made} /\ Runs!To(s, "orphan")
            BY <2>7 DEF Runs!Start
        <3>2. DOMAIN made = {"id", "digest", "up"} /\ made.id = c.id
            OBVIOUS
        <3> HIDE DEF made
        <3> QED
            BY <1>0, <2>t, <3>0, <3>1, <3>2, NoBoxIsDown
    <2>8. CASE Runs!Confirm(s)
        <3>1. c.pc = "confirm" /\ UNCHANGED <<runRows, runBox, runMinted>> /\ (Runs!To(s, "orphan") \/ Runs!Answer(s))
            BY <2>8 DEF Runs!Confirm, Runs!At
        <3> QED
            BY <1>0, <2>q, <2>t, <3>1
    <2>9. CASE Runs!Orphan(s) \/ Runs!Gone(s)
        <3>1. Runs!Answer(s) /\ UNCHANGED <<runBox, runMinted>> /\ (runRows' = [runRows EXCEPT ![c.id] = Runs!NoRow] \/ runRows' = runRows)
            BY <2>9 DEF Runs!Orphan, Runs!Gone, Runs!Forgets
        <3>2. /\ DOMAIN runRows' = RunIds
              /\ \A i \in RunIds : runRows'[i].kind \in {Runs!None, "process"} /\ DOMAIN runRows'[i] = DOMAIN Runs!NoRow
            BY <3>1, RowsForget
        <3> QED
            BY <1>0, <3>1, <3>2, ProcessCallEnds
    <2>10. CASE Runs!StopBox(s)
        <3>0. c.pc = "stop" /\ UNCHANGED <<runRows, runMinted>>
            BY <2>10 DEF Runs!StopBox, Runs!At
        <3>1. \/ runBox' = [runBox EXCEPT !.up = FALSE] /\ Runs!To(s, "gone")
              \/ Runs!Answer(s) /\ UNCHANGED runBox
            BY <2>10 DEF Runs!StopBox
        <3>2. runBox' = [runBox EXCEPT !.up = FALSE] => DOMAIN runBox' = {"id", "digest", "up"} /\ runBox'.id = runBox.id /\ ~runBox'.up
            BY <1>0
        <3> QED
            BY <1>0, <2>q, <2>t, <3>0, <3>1, <3>2
    <2>11. CASE Runs!Reconcile(s)
        <3> DEFINE n == [Runs!Quiet EXCEPT !.pc = "reconcile", !.prev = runBox.id, !.unit.digest = runBox.digest]
        <3>1. /\ runCalls' = [runCalls EXCEPT ![s] = n] /\ UNCHANGED <<runRows, runBox, runMinted>>
            BY <2>11 DEF Runs!Reconcile
        <3>2. DOMAIN n = CallParts /\ n.pc = "reconcile" /\ n.id = Runs!None /\ n.prev = runBox.id /\ n.other = Runs!None
            BY DEF Runs!Quiet, CallParts
        <3> HIDE DEF n
        <3>3. OneProcess(n, runBox, runMinted)
            BY <1>0, <3>2 DEF OneProcess
        <3> QED
            BY <1>0, <3>1, <3>2, <3>3, ProcessCallMoves
    <2>12. CASE Runs!Reregister(s)
        <3> DEFINE j == c.prev
                   x == [Runs!NoRow EXCEPT !.kind = "process", !.digest = c.unit.digest]
        <3>1. Runs!Answer(s) /\ UNCHANGED <<runBox, runMinted>>
            BY <2>12 DEF Runs!Reregister
        <3>2. runRows' = [runRows EXCEPT ![j] = IF runRows[j] = Runs!NoRow THEN x ELSE runRows[j]] \/ runRows' = runRows
            BY <2>12 DEF Runs!Reregister
        <3>3. x.kind = "process" /\ DOMAIN x = DOMAIN Runs!NoRow
            BY DEF Runs!NoRow
        <3> HIDE DEF x, j
        <3>4. /\ DOMAIN runRows' = RunIds
              /\ \A i \in RunIds : runRows'[i].kind \in {Runs!None, "process"} /\ DOMAIN runRows'[i] = DOMAIN Runs!NoRow
            BY <1>0, <3>2, <3>3
        <3> QED
            BY <1>0, <3>1, <3>4, ProcessCallEnds
    <2>13. CASE Runs!Die(s)
        BY SMTT(60), <1>0, <2>13, <2>q DEF Runs!Die
    <2>14. CASE \/ Runs!Known(s) \/ Runs!Replace(s) \/ Runs!Ask(s) \/ Runs!Orphaned(s) \/ Runs!ForgetReplaced(s)
                \/ Runs!StopKit(s) \/ Runs!StopJob(s)
        BY <2>0, <2>14 DEF OneProcess, Runs!At, Runs!Known, Runs!Replace, Runs!Ask, Runs!Orphaned, Runs!ForgetReplaced,
           Runs!StopKit, Runs!StopJob
    <2> QED
        BY <1>3, <2>1, <2>2, <2>3, <2>4, <2>5, <2>6, <2>7, <2>8, <2>9, <2>10, <2>11, <2>12, <2>13, <2>14
<1>4. ASSUME NEW i \in RunIds, Runs!Tick(i) PROVE ProcessesInv'
    BY <1>2, <1>4 DEF Runs!Tick
<1>5. ASSUME NEW i \in RunIds, Runs!Fail(i) PROVE ProcessesInv'
    <2>1. runRows' = [runRows EXCEPT ![i].problem = TRUE] /\ runBox' \in {runBox, Runs!NoBox} /\ UNCHANGED <<runCalls, runMinted>>
        BY <1>5 DEF Runs!Fail
    <2>2. /\ DOMAIN runRows' = RunIds
          /\ \A j \in RunIds : runRows'[j].kind \in {Runs!None, "process"} /\ DOMAIN runRows'[j] = DOMAIN Runs!NoRow
        BY <1>0, <2>1 DEF Runs!NoRow
    <2> QED
        BY <1>0, <2>1, <2>2, BoxGoesDown, NoBoxIsDown
<1>6. CASE Runs!Exit
    <2>1. runBox' = [runBox EXCEPT !.up = FALSE] /\ UNCHANGED <<runCalls, runMinted, runRows>>
        BY <1>6 DEF Runs!Exit
    <2>2. DOMAIN runBox' = {"id", "digest", "up"} /\ runBox'.id = runBox.id /\ ~runBox'.up
        BY <1>0, <2>1
    <2> QED
        BY <1>0, <2>1, <2>2, BoxGoesDown
<1> QED
    BY <1>1, <1>3, <1>4, <1>5, <1>6 DEF Runs!Next

LEMMA ProcessesInit == ASSUME Runs!Init PROVE ProcessesInv
<1>1. \A s \in RunSessions : runCalls[s] = Runs!Quiet
    BY DEF Runs!Init
<1>2. OneProcess(Runs!Quiet, runBox, runMinted) /\ Runs!Quiet.pc = "idle"
    BY DEF Runs!Quiet, OneProcess, CallParts
<1>3. /\ DOMAIN runCalls = RunSessions /\ DOMAIN runRows = RunIds /\ runMinted = {} /\ runBox = Runs!NoBox
      /\ \A i \in RunIds : runRows[i] = Runs!NoRow
    BY DEF Runs!Init
<1>4. Runs!NoRow.kind = Runs!None
    BY DEF Runs!NoRow
<1> QED
    BY <1>1, <1>2, <1>3, <1>4, NoBoxIsDown DEF ProcessesInv

\* A registration goes at a step of the call that has its Process down, or that could not start it.
LEMMA RowsGoWithTheirs ==
    ASSUME RunsAreNamed, OnlyProcesses, ProcessesInv, [Runs!Next]_Runs!vars, NEW i \in RunIds,
           i \in Runs!Of("process"), runBox.id = i, runBox.up, runRows'[i] = Runs!NoRow
    PROVE  \E s \in RunSessions : Runs!At(s, "orphan") /\ runCalls[s].id = i
<1>0. /\ runRows[i].kind = "process" /\ runRows[i] # Runs!NoRow /\ Runs!NoRow.kind = Runs!None /\ Runs!None # "process"
      /\ DOMAIN runRows = RunIds /\ DOMAIN runRows[i] = DOMAIN Runs!NoRow
    BY DEF Runs!Of, Runs!NoRow, Runs!None, ProcessesInv
<1>1. runRows' # runRows
    BY <1>0
<1>2. ASSUME NEW s \in RunSessions, Runs!Unregister(s) PROVE FALSE
    <2>1. runCalls[s].pc = "unregister" /\ (runRows' = [runRows EXCEPT ![runCalls[s].prev] = Runs!NoRow] \/ runRows' = runRows)
        BY <1>2 DEF Runs!Unregister, Runs!Forgets, Runs!At
    <2>2. runCalls[s].prev # i
        BY <2>1 DEF ProcessesInv, OneProcess, Down
    <2> QED
        BY <1>0, <2>1, <2>2
<1>3. ASSUME NEW s \in RunSessions, Runs!Gone(s) PROVE FALSE
    <2>1. runCalls[s].pc = "gone" /\ (runRows' = [runRows EXCEPT ![runCalls[s].id] = Runs!NoRow] \/ runRows' = runRows)
        BY <1>3 DEF Runs!Gone, Runs!Forgets, Runs!At
    <2>2. runCalls[s].id # i
        BY <2>1 DEF ProcessesInv, OneProcess, Down
    <2> QED
        BY <1>0, <2>1, <2>2
<1>4. ASSUME NEW s \in RunSessions, Runs!Register(s) PROVE FALSE
    <2>1. runCalls[s].pc = "register" /\ runCalls[s].unit.kind = "process"
        BY <1>4 DEF Runs!Register, Runs!At, ProcessesInv, OneProcess
    <2>2. (\E j : runRows' = [runRows EXCEPT ![j] = runCalls[s].unit]) \/ runRows' = runRows
        BY <1>4 DEF Runs!Register
    <2> QED
        BY <1>0, <2>1, <2>2
<1>5. ASSUME NEW s \in RunSessions, Runs!Reregister(s) PROVE FALSE
    <2> DEFINE j == runCalls[s].prev
               x == [Runs!NoRow EXCEPT !.kind = "process", !.digest = runCalls[s].unit.digest]
    <2>1. runRows' = [runRows EXCEPT ![j] = IF runRows[j] = Runs!NoRow THEN x ELSE runRows[j]] \/ runRows' = runRows
        BY <1>5 DEF Runs!Reregister
    <2> HIDE DEF x, j
    <2> QED
        BY <1>0, <2>1
<1>6. ASSUME NEW s \in RunSessions, Runs!Replace(s) \/ Runs!ForgetReplaced(s) PROVE FALSE
    BY <1>6 DEF ProcessesInv, OneProcess, Runs!Replace, Runs!ForgetReplaced, Runs!At
<1>7. ASSUME NEW j \in RunIds, Runs!Fail(j) PROVE FALSE
    <2>1. runRows' = [runRows EXCEPT ![j].problem = TRUE]
        BY <1>7 DEF Runs!Fail
    <2>2. runRows'[i].kind = "process"
        BY SMTT(60), <1>0, <2>1 DEF Runs!NoRow
    <2> QED
        BY <1>0, <2>2
<1>8. PICK s \in RunSessions : Runs!Orphan(s)
    BY <1>1, <1>2, <1>3, <1>4, <1>5, <1>6, <1>7 DEF Runs!Next, Runs!vars, Runs!Run, Runs!Stop, Runs!Find, Runs!Known,
       Runs!Remove, Runs!Start, Runs!Confirm, Runs!Ask, Runs!Orphaned, Runs!StopKit, Runs!StopJob, Runs!StopBox,
       Runs!Reconcile, Runs!Die, Runs!Tick, Runs!Exit
<1>9. runCalls[s].pc = "orphan" /\ (runRows' = [runRows EXCEPT ![runCalls[s].id] = Runs!NoRow] \/ runRows' = runRows)
    BY <1>8 DEF Runs!Orphan, Runs!Forgets, Runs!At
<1>10. runCalls[s].id = i
    BY <1>0, <1>9
<1> QED
    BY <1>9, <1>10 DEF Runs!At

\* proc_run and proc_stop (proc.go): however the calls of any number of sessions that run one Package fall, fail, lose
\* their answers or die, a container that runs keeps its registration, but for the run that has started it.
THEOREM RunningStaysRegistered ==
    ASSUME RunsAreNamed, OnlyProcesses PROVE Runs!Spec => RunningKeepsItsRow
<1>1. Runs!Init => ProcessesInv
    BY ProcessesInit
<1>2. ProcessesInv /\ [Runs!Next]_Runs!vars => ProcessesInv'
    BY ProcessStep
<1> DEFINE Keeps == \A i \in RunIds : (i \in Runs!Of("process") /\ runBox.id = i /\ runBox.up /\ runRows'[i] = Runs!NoRow)
                                  => \E s \in RunSessions : Runs!At(s, "orphan") /\ runCalls[s].id = i
<1>3. ProcessesInv /\ [Runs!Next]_Runs!vars => [Keeps]_Runs!vars
    BY RowsGoWithTheirs
<1>4. Runs!Spec => [][Keeps]_Runs!vars
    BY <1>1, <1>2, <1>3, PTL DEF Runs!Spec
<1> QED
    BY <1>4 DEF RunningKeepsItsRow, Runs!RunningKeepsItsRow


-----------------------------------------------------------------------------
(* Approvals: the cap holds, an approval runs at most once, by the admin   *)
(* who claimed it and inside what that session may name, and the rows are  *)
(* a Decision.                                                             *)
SessRec == [who : Members \cup {Nobody}, permits : Permits \cup {{}}, at : Steps,
            id : Ids \cup {None}, input : Inputs \cup {<<>>}, outcome : {None, "ran", "refused"}]
RunRec  == [by : Members, permits : Permits, input : Inputs \cup {<<>>}]

ApprovalsTyped ==
    /\ queue \in [Ids -> Rows]
    /\ sess \in [Sessions -> SessRec]
    /\ \A s \in Sessions : sess[s].at # "off" => sess[s].who \in Members /\ sess[s].permits \in Permits
    /\ ran \in [Ids -> Seq(RunRec)]

\* What a row says before it is decided, and what may have been run for it.
RowsOK ==
    \A i \in Ids :
       /\ queue[i].state = "unused" => queue[i] = Unused
       /\ queue[i].state = "pending" => queue[i].by = Nobody
       /\ queue[i].state \in {"unused", "pending", "rejected"} => ran[i] = <<>>
       /\ queue[i].result # None => queue[i].state = "approved"
       /\ queue[i].result = "ran" => Len(ran[i]) = 1
       /\ queue[i].result = "refused" => ran[i] = <<>>

\* What was run was run by who claimed it, inside what that session may name.
RunsOK ==
    \A i \in Ids :
       /\ Len(ran[i]) <= 1
       /\ \A n \in DOMAIN ran[i] :
             /\ queue[i].state = "approved" => queue[i].by = ran[i][n].by
             /\ PathsOf(ran[i][n].input) \subseteq Shared \cap ran[i][n].permits

\* A session that has claimed an approval and has not stored its result.
Executing(s) == sess[s].at \in {"run", "put", "result"}

Claims(s) ==
    /\ sess[s].id \in Ids
    /\ LET a == queue[sess[s].id] IN
       /\ a.state \in {"approved", "gone"} /\ a.result = None
       /\ a.state = "approved" => a.by = sess[s].who
    /\ sess[s].at = "run" => ran[sess[s].id] = <<>>
    /\ sess[s].at # "run" =>
          /\ sess[s].outcome \in {"ran", "refused"}
          /\ sess[s].outcome = "ran" => Len(ran[sess[s].id]) = 1
          /\ sess[s].outcome = "refused" => ran[sess[s].id] = <<>>

SessionsOK ==
    /\ \A s \in Sessions : Executing(s) => Claims(s)
    /\ \A s \in Sessions : sess[s].at \in {"claim", "reject"} => sess[s].id \in Ids /\ sess[s].who \in Admins
    /\ \A s, r \in Sessions : Executing(s) /\ Executing(r) /\ sess[s].id = sess[r].id => s = r

ApprovalsInv == ApprovalsTyped /\ RowsOK /\ RunsOK /\ SessionsOK /\ PendingCap

-----------------------------------------------------------------------------
\* A step of a session alone: it claims nothing it had not claimed, and no row changes.
SessionStep ==
    /\ UNCHANGED <<queue, ran>>
    /\ sess' \in [Sessions -> SessRec]
    /\ \A r \in Sessions :
          /\ sess'[r].at # "off" => sess'[r].who \in Members /\ sess'[r].permits \in Permits
          /\ sess'[r].at \in {"run", "put", "result"} =>
                /\ Executing(r) /\ sess'[r].id = sess[r].id /\ sess'[r].who = sess[r].who
                /\ sess'[r].outcome = sess[r].outcome
                /\ sess'[r].at = "run" <=> sess[r].at = "run"
          /\ sess'[r].at \in {"claim", "reject"} => sess'[r].id \in Ids /\ sess'[r].who \in Admins

\* Such a step keeps the invariant.
LEMMA SessionStepKeeps ==
    ASSUME ApprovalsInv, SessionStep
    PROVE  ApprovalsInv'
<1>1. ApprovalsTyped'
    BY DEF ApprovalsInv, ApprovalsTyped, SessionStep
<1>2. RowsOK' /\ RunsOK'
    BY DEF ApprovalsInv, RowsOK, RunsOK, SessionStep
<1>3. SessionsOK'
  <2>1. ASSUME NEW s \in Sessions, Executing(s)' PROVE Claims(s)' /\ Executing(s) /\ sess'[s].id = sess[s].id
    <3>1. Executing(s) /\ sess'[s].id = sess[s].id /\ sess'[s].who = sess[s].who
          /\ sess'[s].outcome = sess[s].outcome /\ (sess'[s].at = "run" <=> sess[s].at = "run")
        BY <2>1 DEF SessionStep, Executing
    <3>2. Claims(s)
        BY <3>1 DEF ApprovalsInv, SessionsOK
    <3> QED
        BY <3>1, <3>2 DEF Claims, SessionStep
  <2>2. \A s \in Sessions : sess'[s].at \in {"claim", "reject"} => sess'[s].id \in Ids /\ sess'[s].who \in Admins
      BY DEF SessionStep
  <2> QED
      BY <2>1, <2>2 DEF SessionsOK, ApprovalsInv
<1>4. PendingCap'
    BY DEF ApprovalsInv, PendingCap, Pending, SessionStep
<1> QED
    BY <1>1, <1>2, <1>3, <1>4 DEF ApprovalsInv

\* Going on from a step of one session, or being gone, is a step of that session alone.
LEMMA RestsOrGoes ==
    ASSUME ApprovalsInv, NEW s \in Sessions, NEW rec \in SessRec, UNCHANGED <<queue, ran>>, Goto(s, rec),
           rec.at # "off" => rec.who \in Members /\ rec.permits \in Permits,
           rec.at \notin {"run", "put", "result"} \/
              /\ Executing(s) /\ rec.id = sess[s].id /\ rec.who = sess[s].who
              /\ rec.outcome = sess[s].outcome /\ (rec.at = "run" <=> sess[s].at = "run"),
           rec.at \in {"claim", "reject"} => rec.id \in Ids /\ rec.who \in Admins
    PROVE  SessionStep
<1>1. sess' = [sess EXCEPT ![s] = rec]
    BY DEF Goto
<1>2. sess' \in [Sessions -> SessRec] /\ sess'[s] = rec /\ \A r \in Sessions \ {s} : sess'[r] = sess[r]
    BY <1>1 DEF ApprovalsInv, ApprovalsTyped
<1> QED
    BY <1>2 DEF SessionStep, ApprovalsInv, ApprovalsTyped, SessionsOK, Executing

\* A session that rests, or is gone, is one.
LEMMA RestIsTyped ==
    ASSUME ApprovalsInv, NEW s \in Sessions, sess[s].at # "off"
    PROVE  /\ NoSession \in SessRec /\ NoSession.at = "off"
           /\ Resting(s) \in SessRec /\ Resting(s).at = "idle"
           /\ Resting(s).who \in Members /\ Resting(s).permits \in Permits
  BY DEF ApprovalsInv, ApprovalsTyped, SessRec, NoSession, Resting, Steps, Asking

\* An answer that ends the request of a session, or does not reach it.
LEMMA IdleStep ==
    ASSUME ApprovalsInv, NEW s \in Sessions, sess[s].at # "off", UNCHANGED <<queue, ran>>, Idle(s)
    PROVE  ApprovalsInv'
<1>1. CASE Goto(s, Resting(s))
  <2>1. SessionStep
      BY <1>1, RestIsTyped, RestsOrGoes
  <2> QED
      BY <2>1, SessionStepKeeps
<1>2. CASE Goto(s, NoSession)
  <2>1. SessionStep
      BY <1>2, RestIsTyped, RestsOrGoes
  <2> QED
      BY <2>1, SessionStepKeeps
<1> QED
    BY <1>1, <1>2 DEF Idle, Answered

-----------------------------------------------------------------------------
\* Before the first request nothing is queued.
LEMMA ApprovalsInit == Init => ApprovalsInv
<1> SUFFICES ASSUME Init PROVE ApprovalsInv
    OBVIOUS
<1>1. ApprovalsTyped
    BY DEF Init, ApprovalsTyped, Rows, Unused, SessRec, NoSession, Steps, Asking, None, Nobody
<1>2. RowsOK /\ RunsOK
    BY DEF Init, RowsOK, RunsOK, Unused, None
<1>3. SessionsOK
    BY DEF Init, SessionsOK, Executing, NoSession
<1>4. PendingCap
  <2>1. \A m \in Members : Pending(m) = {}
      BY DEF Init, Pending, Unused
  <2> QED
      BY <2>1, FS_EmptySet, PendingAssumption DEF PendingCap
<1> QED
    BY <1>1, <1>2, <1>3, <1>4 DEF ApprovalsInv

\* A session opens, asks, or goes.
LEMMA AskInvariant ==
    ASSUME ApprovalsInv, NEW s \in Sessions, Open(s) \/ Die(s) \/ Create(s) \/ Decide(s) \/ Put(s)
    PROVE  ApprovalsInv'
<1>1. CASE Open(s)
  <2>1. PICK m \in Members, p \in Permits : Goto(s, [NoSession EXCEPT !.who = m, !.permits = p, !.at = "idle"])
      BY <1>1 DEF Open
  <2> DEFINE rec == [NoSession EXCEPT !.who = m, !.permits = p, !.at = "idle"]
  <2>2. rec \in SessRec /\ rec.at = "idle" /\ rec.who \in Members /\ rec.permits \in Permits
      BY DEF SessRec, NoSession, Steps, Asking
  <2>3. SessionStep
      BY <1>1, <2>1, <2>2, RestsOrGoes DEF Open
  <2> QED
      BY <2>3, SessionStepKeeps
<1>2. CASE Die(s)
  <2>1. sess[s].at # "off" /\ Goto(s, NoSession) /\ UNCHANGED <<queue, ran>>
      BY <1>2 DEF Die
  <2>2. SessionStep
      BY <2>1, RestIsTyped, RestsOrGoes
  <2> QED
      BY <2>2, SessionStepKeeps
<1>3. CASE Create(s)
  <2>1. PICK input \in Inputs : Goto(s, [sess[s] EXCEPT !.at = "create", !.input = input])
      BY <1>3 DEF Create
  <2> DEFINE rec == [sess[s] EXCEPT !.at = "create", !.input = input]
  <2>2. sess[s].at = "idle" /\ UNCHANGED <<queue, ran>>
      BY <1>3 DEF Create, At
  <2>3. rec \in SessRec /\ rec.at = "create" /\ rec.who \in Members /\ rec.permits \in Permits
      BY <2>2 DEF ApprovalsInv, ApprovalsTyped, SessRec, Steps, Asking
  <2>4. SessionStep
      BY <2>1, <2>2, <2>3, RestsOrGoes
  <2> QED
      BY <2>4, SessionStepKeeps
<1>4. CASE Decide(s)
  <2>1. PICK i \in Ids, at \in {"claim", "reject"} : Goto(s, [sess[s] EXCEPT !.at = at, !.id = i])
      BY <1>4 DEF Decide
  <2> DEFINE rec == [sess[s] EXCEPT !.at = at, !.id = i]
  <2>2. sess[s].at = "idle" /\ UNCHANGED <<queue, ran>> /\ sess[s].who \in Admins
      BY <1>4 DEF Decide, At, Admin
  <2>3. rec \in SessRec /\ rec.at = at /\ rec.id = i /\ rec.who = sess[s].who /\ rec.who \in Members
        /\ rec.permits \in Permits
      BY <2>2 DEF ApprovalsInv, ApprovalsTyped, SessRec, Steps, Asking
  <2>4. SessionStep
      BY <2>1, <2>2, <2>3, RestsOrGoes
  <2> QED
      BY SMTT(60), <2>4, SessionStepKeeps
<1>5. CASE Put(s)
  <2>1. sess[s].at = "put" /\ UNCHANGED <<queue, ran>>
      BY <1>5 DEF Put, At
  <2>2. CASE Idle(s)
      BY <2>1, <2>2, IdleStep
  <2>3. CASE Goto(s, [sess[s] EXCEPT !.at = "result"])
    <3> DEFINE rec == [sess[s] EXCEPT !.at = "result"]
    <3>1. rec \in SessRec /\ rec.at = "result" /\ rec.who = sess[s].who /\ rec.id = sess[s].id
          /\ rec.outcome = sess[s].outcome /\ rec.who \in Members /\ rec.permits \in Permits
        BY <2>1 DEF ApprovalsInv, ApprovalsTyped, SessRec, Steps, Asking
    <3>2. SessionStep
        BY <2>1, <2>3, <3>1, RestsOrGoes DEF Executing
    <3> QED
        BY <3>2, SessionStepKeeps
  <2> QED
      BY <1>5, <2>2, <2>3 DEF Put
<1> QED
    BY <1>1, <1>2, <1>3, <1>4, <1>5

-----------------------------------------------------------------------------
\* The requests of a member that wait are finitely many.
LEMMA PendingFinite ==
    \A m \in Members : IsFiniteSet(Pending(m)) /\ Cardinality(Pending(m)) \in Nat
  BY IdsAssumption, FS_Subset, FS_CardinalityType DEF Pending

\* Fewer that wait are no more than the cap.
LEMMA FewerWait ==
    ASSUME ApprovalsInv, \A m \in Members : Pending(m)' \subseteq Pending(m)
    PROVE  PendingCap'
<1> SUFFICES ASSUME NEW m \in Members PROVE Cardinality(Pending(m)') <= MaxPending
    BY DEF PendingCap
<1>1. Cardinality(Pending(m)') <= Cardinality(Pending(m)) /\ Cardinality(Pending(m)') \in Nat
    BY PendingFinite, FS_Subset, FS_CardinalityType
<1>2. Cardinality(Pending(m)) <= MaxPending
    BY DEF ApprovalsInv, PendingCap
<1> QED
    BY <1>1, <1>2, PendingFinite, PendingAssumption

\* A row that is not decided yet is written, and at most its session claims it.
LEMMA RowStep ==
    ASSUME ApprovalsInv, NEW s \in Sessions, NEW rec \in SessRec, NEW i \in Ids, NEW entry \in Rows,
           queue[i].state \in {"unused", "pending"}, queue' = [queue EXCEPT ![i] = entry],
           Goto(s, rec), UNCHANGED ran,
           entry.state \in {"pending", "approved", "rejected"}, entry.result = None,
           entry.state = "pending" => entry.by = Nobody,
           rec.at # "off" => rec.who \in Members /\ rec.permits \in Permits,
           \/ rec.at \in {"off", "idle"}
           \/ rec.at = "run" /\ rec.id = i /\ entry.state = "approved" /\ entry.by = rec.who
    PROVE  ApprovalsTyped' /\ RowsOK' /\ RunsOK' /\ SessionsOK'
<1>1. /\ sess' \in [Sessions -> SessRec] /\ sess'[s] = rec /\ \A r \in Sessions \ {s} : sess'[r] = sess[r]
      /\ queue' \in [Ids -> Rows] /\ queue'[i] = entry /\ \A j \in Ids \ {i} : queue'[j] = queue[j]
    BY DEF ApprovalsInv, ApprovalsTyped, Goto
<1>2. ran[i] = <<>>
    BY DEF ApprovalsInv, RowsOK
<1>3. ApprovalsTyped'
    BY <1>1 DEF ApprovalsInv, ApprovalsTyped
<1>4. RowsOK'
    BY <1>1, <1>2 DEF ApprovalsInv, RowsOK, None
<1>5. RunsOK'
    BY <1>1, <1>2 DEF ApprovalsInv, RunsOK
<1>6. \A r \in Sessions : Executing(r) => Claims(r) /\ sess[r].id # i
    BY DEF ApprovalsInv, SessionsOK, Claims
<1>7. ASSUME NEW r \in Sessions, Executing(r)', r # s
      PROVE  Claims(r)' /\ Executing(r) /\ sess'[r].id # i /\ sess'[r].id = sess[r].id
  <2>1. Executing(r) /\ sess'[r] = sess[r]
      BY <1>1, <1>7 DEF Executing
  <2>2. Claims(r) /\ sess[r].id # i
      BY <1>6, <2>1
  <2> QED
      BY <1>1, <2>1, <2>2 DEF Claims
<1>8. Executing(s)' => Claims(s)' /\ sess'[s].id = i
    BY <1>1, <1>2 DEF Executing, Claims
<1>9. \A r \in Sessions : sess'[r].at \in {"claim", "reject"} => sess'[r].id \in Ids /\ sess'[r].who \in Admins
    BY <1>1 DEF ApprovalsInv, SessionsOK
<1>10. SessionsOK'
    BY <1>7, <1>8, <1>9 DEF SessionsOK, ApprovalsInv
<1> QED
    BY <1>3, <1>4, <1>5, <1>10

\* A member queues a call, or meets the cap.
LEMMA InsertInvariant ==
    ASSUME ApprovalsInv, NEW s \in Sessions, Insert(s)
    PROVE  ApprovalsInv'
<1>0. sess[s].at = "create" /\ UNCHANGED ran /\ sess[s].who \in Members
    BY DEF Insert, At, ApprovalsInv, ApprovalsTyped
<1>1. CASE UNCHANGED queue /\ Idle(s)
    BY <1>0, <1>1, IdleStep
<1>2. CASE Cardinality(Pending(sess[s].who)) < MaxPending /\ ~UNCHANGED queue
  <2> DEFINE entry == [Unused EXCEPT !.state = "pending", !.requester = sess[s].who, !.input = sess[s].input]
  <2>1. PICK i \in Ids : queue[i].state = "unused" /\ queue' = [queue EXCEPT ![i] = entry]
      BY <1>2 DEF Insert
  <2>2. /\ entry \in Rows /\ entry.state = "pending" /\ entry.by = Nobody /\ entry.result = None
        /\ entry.requester = sess[s].who
      BY <1>0 DEF Rows, Unused, ApprovalsInv, ApprovalsTyped, SessRec
  <2>3. Goto(s, Resting(s)) \/ Goto(s, NoSession)
      BY <1>2 DEF Insert, Idle, Answered
  <2>4. ApprovalsTyped' /\ RowsOK' /\ RunsOK' /\ SessionsOK'
      BY <1>0, <2>1, <2>2, <2>3, RestIsTyped, RowStep
  <2>5. ASSUME NEW m \in Members PROVE Cardinality(Pending(m)') <= MaxPending
    <3>1. CASE m = sess[s].who
      <4>1. Pending(m)' = Pending(m) \cup {i}
          BY <2>1, <2>2, <3>1 DEF Pending, ApprovalsInv, ApprovalsTyped
      <4>2. Cardinality(Pending(m)') <= Cardinality(Pending(m)) + 1
        <5>1. IsFiniteSet(Pending(m)) /\ Cardinality(Pending(m)) \in Nat
            BY PendingFinite
        <5>2. Cardinality(Pending(m) \cup {i}) <= Cardinality(Pending(m)) + 1
          <6>1. Cardinality(Pending(m) \cup {i}) = IF i \in Pending(m) THEN Cardinality(Pending(m)) ELSE Cardinality(Pending(m)) + 1
              BY <5>1, FS_AddElement, Zenon
          <6> QED
              BY <5>1, <6>1
        <5> QED
            BY <4>1, <5>2
      <4>3. IsFiniteSet(Pending(m)') /\ Cardinality(Pending(m)') \in Nat
          BY <4>1, PendingFinite, FS_AddElement, FS_CardinalityType
      <4> QED
          BY <1>2, <3>1, <4>2, <4>3, PendingFinite, PendingAssumption
    <3>2. CASE m # sess[s].who
      <4>1. Pending(m)' = Pending(m)
          BY <2>1, <2>2, <3>2 DEF Pending, ApprovalsInv, ApprovalsTyped
      <4> QED
          BY <4>1 DEF ApprovalsInv, PendingCap
    <3> QED
        BY <3>1, <3>2
  <2>6. PendingCap'
      BY <2>5 DEF PendingCap
  <2> QED
      BY <2>4, <2>6 DEF ApprovalsInv
<1>3. CASE Cardinality(Pending(sess[s].who)) >= MaxPending
    BY <1>0, <1>3, IdleStep DEF Insert
<1>4. CASE UNCHANGED queue /\ ~Idle(s)
    BY <1>4 DEF Insert
<1> QED
    BY <1>0, <1>1, <1>2, <1>3, <1>4, PendingFinite, PendingAssumption

\* One admin claims or rejects what waits, and who comes second is told so.
LEMMA DecideInvariant ==
    ASSUME ApprovalsInv, NEW s \in Sessions, Claim(s) \/ Reject(s)
    PROVE  ApprovalsInv'
<1>0. /\ sess[s].at \in {"claim", "reject"} /\ UNCHANGED ran
      /\ sess[s].id \in Ids /\ sess[s].who \in Admins /\ sess[s].who \in Members
    BY AdminsAssumption DEF Claim, Reject, At, ApprovalsInv, SessionsOK, ApprovalsTyped
<1>1. CASE UNCHANGED queue /\ Idle(s)
    BY <1>0, <1>1, IdleStep
<1>2. ASSUME NEW verdict \in {"approved", "rejected"}, Decides(sess[s].id, Stamp(s, verdict)),
             NEW rec \in SessRec, Goto(s, rec),
             \/ rec.at \in {"off", "idle"}
             \/ rec.at = "run" /\ rec.id = sess[s].id /\ verdict = "approved" /\ rec.who = sess[s].who,
             rec.at # "off" => rec.who \in Members /\ rec.permits \in Permits
      PROVE  ApprovalsInv'
  <2> DEFINE i == sess[s].id
             entry == Stamp(s, verdict)
  <2>1. queue[i].state = "pending" /\ queue' = [queue EXCEPT ![i] = entry] /\ queue[i] \in Rows
      BY <1>0, <1>2 DEF Decides, ApprovalsInv, ApprovalsTyped
  <2>2. entry \in Rows /\ entry.state = verdict /\ entry.by = sess[s].who /\ entry.result = queue[i].result
      BY <1>0, <2>1 DEF Stamp, Rows
  <2>3. queue[i].result = None
      BY <1>0, <2>1 DEF ApprovalsInv, RowsOK
  <2>4. ApprovalsTyped' /\ RowsOK' /\ RunsOK' /\ SessionsOK'
      BY <1>0, <1>2, <2>1, <2>2, <2>3, RowStep
  <2>5. \A m \in Members : Pending(m)' \subseteq Pending(m)
      BY <1>0, <2>1, <2>2 DEF Pending, ApprovalsInv, ApprovalsTyped
  <2> QED
      BY <2>4, <2>5, FewerWait DEF ApprovalsInv
<1>3. CASE Claim(s) /\ queue[sess[s].id].state = "pending"
  <2> DEFINE rec == [sess[s] EXCEPT !.at = "run", !.input = queue[sess[s].id].input]
  <2>1. /\ rec \in SessRec /\ rec.at = "run" /\ rec.id = sess[s].id /\ rec.who = sess[s].who
        /\ rec.permits \in Permits
      BY <1>0 DEF ApprovalsInv, ApprovalsTyped, SessRec, Rows, Steps
  <2>2. Decides(sess[s].id, Stamp(s, "approved")) /\ (Goto(s, rec) \/ Goto(s, NoSession))
      BY <1>3 DEF Claim, Answered
  <2> QED
      BY <1>0, <1>2, <2>1, <2>2, RestIsTyped
<1>4. CASE Reject(s) /\ queue[sess[s].id].state = "pending"
  <2>1. Decides(sess[s].id, Stamp(s, "rejected")) /\ (Goto(s, Resting(s)) \/ Goto(s, NoSession))
      BY <1>4 DEF Reject, Idle, Answered
  <2> QED
      BY <1>0, <1>2, <2>1, RestIsTyped
<1> QED
    BY <1>1, <1>3, <1>4 DEF Claim, Reject, Decides

-----------------------------------------------------------------------------
\* Of the sessions at work only this one is at this approval.
LEMMA OnlyOne ==
    ASSUME ApprovalsInv, NEW s \in Sessions, Executing(s)
    PROVE  /\ Claims(s) /\ sess[s].id \in Ids /\ sess[s].who \in Members /\ sess[s].permits \in Permits
           /\ \A r \in Sessions \ {s} : Executing(r) => Claims(r) /\ sess[r].id # sess[s].id
  BY DEF ApprovalsInv, SessionsOK, Executing, Claims, ApprovalsTyped

\* What was claimed is run, or refused for what it names.
LEMMA RunInvariant ==
    ASSUME ApprovalsInv, NEW s \in Sessions, Run(s)
    PROVE  ApprovalsInv'
<1> DEFINE i   == sess[s].id
           one == [by |-> sess[s].who, permits |-> sess[s].permits, input |-> sess[s].input]
<1>1. sess[s].at = "run" /\ Executing(s) /\ UNCHANGED queue
    BY DEF Run, At, Executing
<1>2. /\ Claims(s) /\ i \in Ids /\ sess[s].who \in Members /\ sess[s].permits \in Permits
      /\ \A r \in Sessions \ {s} : Executing(r) => Claims(r) /\ sess[r].id # i
    BY <1>1, OnlyOne
<1>3. /\ ran[i] = <<>> /\ queue[i].state \in {"approved", "gone"} /\ queue[i].result = None
      /\ queue[i].state = "approved" => queue[i].by = sess[s].who
    BY <1>1, <1>2 DEF Claims
<1>4. one \in RunRec
    BY <1>2 DEF RunRec, ApprovalsInv, ApprovalsTyped, SessRec
<1>5. ASSUME NEW outcome \in {"ran", "refused"}, Goto(s, [sess[s] EXCEPT !.at = "put", !.outcome = outcome]),
             NEW done \in Seq(RunRec), ran' = [ran EXCEPT ![i] = done],
             \/ outcome = "ran" /\ done = <<one>> /\ Fits(s, sess[s].input)
             \/ outcome = "refused" /\ done = <<>>
      PROVE  ApprovalsInv'
  <2> DEFINE rec == [sess[s] EXCEPT !.at = "put", !.outcome = outcome]
  <2>1. /\ rec \in SessRec /\ rec.at = "put" /\ rec.outcome = outcome /\ rec.id = i
        /\ rec.who = sess[s].who /\ rec.permits = sess[s].permits
      BY <1>2 DEF ApprovalsInv, ApprovalsTyped, SessRec, Steps, Asking
  <2>2. /\ sess' \in [Sessions -> SessRec] /\ sess'[s] = rec /\ \A r \in Sessions \ {s} : sess'[r] = sess[r]
        /\ ran' \in [Ids -> Seq(RunRec)] /\ ran'[i] = done /\ \A j \in Ids \ {i} : ran'[j] = ran[j]
      BY <1>2, <1>5, <2>1 DEF ApprovalsInv, ApprovalsTyped, Goto
  <2>3. ApprovalsTyped'
      BY ZenonT(60), <1>1, <1>2, <2>1, <2>2 DEF ApprovalsInv, ApprovalsTyped
  <2>4. RowsOK'
      BY <1>1, <1>3, <2>2 DEF ApprovalsInv, RowsOK, None
  <2>5. Len(done) <= 1 /\ (outcome = "ran" => Len(done) = 1)
    <3>1. Len(<<one>>) = 1 /\ Len(<<one>>) <= 1 /\ Len(<<>>) = 0
        OBVIOUS
    <3> HIDE DEF one
    <3>2. CASE outcome = "ran" /\ done = <<one>>
        BY <3>1, <3>2, Zenon
    <3>3. CASE outcome = "refused" /\ done = <<>>
        BY <3>1, <3>3
    <3> QED
        BY <1>5, <3>2, <3>3
  <2>6. \A n \in DOMAIN done :
           /\ queue[i].state = "approved" => queue[i].by = done[n].by
           /\ PathsOf(done[n].input) \subseteq Shared \cap done[n].permits
      BY <1>3, <1>5 DEF Fits
  <2>7. RunsOK'
      BY <1>1, <2>2, <2>5, <2>6 DEF ApprovalsInv, RunsOK
  <2>8. Claims(s)'
      BY <1>1, <1>2, <1>3, <1>5, <2>1, <2>2, <2>5 DEF Claims
  <2>9. ASSUME NEW r \in Sessions \ {s}, Executing(r)'
        PROVE  Claims(r)' /\ Executing(r) /\ sess'[r].id = sess[r].id /\ sess'[r].id # i
    <3>1. Executing(r) /\ sess'[r] = sess[r]
        BY <2>2, <2>9 DEF Executing
    <3>2. Claims(r) /\ sess[r].id # i
        BY <1>2, <3>1
    <3> QED
        BY <1>1, <2>2, <3>1, <3>2 DEF Claims
  <2>10. SessionsOK'
    <3>1. \A r \in Sessions : sess'[r].at \in {"claim", "reject"} => sess'[r].id \in Ids /\ sess'[r].who \in Admins
        BY <2>1, <2>2 DEF ApprovalsInv, SessionsOK
    <3>2. \A r, t \in Sessions \ {s} : Executing(r)' /\ Executing(t)' /\ sess'[r].id = sess'[t].id => r = t
        BY <2>9 DEF ApprovalsInv, SessionsOK
    <3>3. \A r \in Sessions \ {s} : Executing(r)' => sess'[r].id # sess'[s].id
        BY <2>1, <2>2, <2>9
    <3> QED
        BY <2>8, <2>9, <3>1, <3>2, <3>3 DEF SessionsOK
  <2>11. PendingCap'
      BY <1>1 DEF ApprovalsInv, PendingCap, Pending
  <2> QED
      BY <2>3, <2>4, <2>7, <2>10, <2>11 DEF ApprovalsInv
<1>6. CASE Fits(s, sess[s].input)
  <2>1. ran' = [ran EXCEPT ![i] = <<one>>] /\ Goto(s, [sess[s] EXCEPT !.at = "put", !.outcome = "ran"])
      BY <1>2, <1>3, <1>4, <1>6 DEF Run, ApprovalsInv, ApprovalsTyped
  <2>2. <<one>> \in Seq(RunRec)
      BY <1>4
  <2> HIDE DEF one
  <2> QED
      BY <1>5, <1>6, <2>1, <2>2
<1>7. CASE ~Fits(s, sess[s].input)
  <2>1. ran' = [ran EXCEPT ![i] = <<>>] /\ Goto(s, [sess[s] EXCEPT !.at = "put", !.outcome = "refused"])
      BY <1>2, <1>3, <1>7 DEF Run, ApprovalsInv, ApprovalsTyped
  <2>2. <<>> \in Seq(RunRec)
      OBVIOUS
  <2> HIDE DEF one
  <2> QED
      BY <1>5, <2>1, <2>2
<1> QED
    BY <1>6, <1>7

\* What came of the run is stored, once, by who claimed it.
LEMMA ResultInvariant ==
    ASSUME ApprovalsInv, NEW s \in Sessions, Result(s)
    PROVE  ApprovalsInv'
<1> DEFINE i   == sess[s].id
           entry == [queue[i] EXCEPT !.result = sess[s].outcome]
<1>1. sess[s].at = "result" /\ Executing(s) /\ UNCHANGED ran
    BY DEF Result, At, Executing
<1>2. CASE UNCHANGED queue /\ Idle(s)
    BY <1>1, <1>2, IdleStep
<1>3. CASE /\ queue[i].state = "approved" /\ queue' = [queue EXCEPT ![i].result = sess[s].outcome]
           /\ Idle(s)
  <2>1. /\ Claims(s) /\ i \in Ids
        /\ \A r \in Sessions \ {s} : Executing(r) => Claims(r) /\ sess[r].id # i
      BY <1>1, OnlyOne
  <2>2. /\ sess[s].outcome \in {"ran", "refused"}
        /\ sess[s].outcome = "ran" => Len(ran[i]) = 1
        /\ sess[s].outcome = "refused" => ran[i] = <<>>
      BY <1>1, <2>1 DEF Claims
  <2>3. /\ entry \in Rows /\ entry.state = "approved" /\ entry.by = queue[i].by /\ entry.result = sess[s].outcome
        /\ entry.requester = queue[i].requester
      BY <1>3, <2>1, <2>2 DEF ApprovalsInv, ApprovalsTyped, Rows
  <2>4. queue' \in [Ids -> Rows] /\ queue'[i] = entry /\ \A j \in Ids \ {i} : queue'[j] = queue[j]
      BY <1>3, <2>1, <2>3 DEF ApprovalsInv, ApprovalsTyped
  <2>5. PICK rec \in SessRec : Goto(s, rec) /\ rec.at \in {"off", "idle"} /\
                               (rec.at # "off" => rec.who \in Members /\ rec.permits \in Permits)
      BY <1>1, <1>3, RestIsTyped DEF Idle, Answered
  <2>6. sess' \in [Sessions -> SessRec] /\ sess'[s] = rec /\ \A r \in Sessions \ {s} : sess'[r] = sess[r]
      BY <2>5 DEF ApprovalsInv, ApprovalsTyped, Goto
  <2>7. ApprovalsTyped'
      BY <1>1, <2>4, <2>5, <2>6 DEF ApprovalsInv, ApprovalsTyped
  <2>8. RowsOK'
      BY ZenonT(60), <1>1, <2>2, <2>3, <2>4 DEF ApprovalsInv, RowsOK, None
  <2>9. RunsOK'
      BY <1>1, <1>3, <2>3, <2>4 DEF ApprovalsInv, RunsOK
  <2>10. ASSUME NEW r \in Sessions, Executing(r)'
         PROVE  Claims(r)' /\ Executing(r) /\ sess'[r].id = sess[r].id
    <3>1. r # s /\ Executing(r) /\ sess'[r] = sess[r]
        BY <2>5, <2>6, <2>10 DEF Executing
    <3>2. Claims(r) /\ sess[r].id # i
        BY <2>1, <3>1
    <3> QED
        BY <1>1, <2>4, <3>1, <3>2 DEF Claims
  <2>11. \A r \in Sessions : sess'[r].at \in {"claim", "reject"} => sess'[r].id \in Ids /\ sess'[r].who \in Admins
      BY <2>5, <2>6 DEF ApprovalsInv, SessionsOK
  <2>12. SessionsOK'
      BY <2>10, <2>11 DEF SessionsOK, ApprovalsInv
  <2>13. \A m \in Members : Pending(m)' \subseteq Pending(m)
      BY <2>3, <2>4 DEF Pending
  <2> QED
      BY <2>7, <2>8, <2>9, <2>12, <2>13, FewerWait DEF ApprovalsInv
<1> QED
    BY <1>2, <1>3 DEF Result

-----------------------------------------------------------------------------
\* A member is removed, and the queue goes along.
LEMMA RemovalInvariant ==
    ASSUME ApprovalsInv, NEW m \in Members, StartRemoval(m) \/ DropQueue(m) \/ DeleteAccount(m)
    PROVE  ApprovalsInv'
<1>1. CASE UNCHANGED <<queue, sess, ran>>
  <2>1. SessionStep
      BY <1>1 DEF SessionStep, ApprovalsInv, ApprovalsTyped, SessionsOK, Executing
  <2> QED
      BY <2>1, SessionStepKeeps
<1>2. CASE DeleteAccount(m)
  <2>1. /\ UNCHANGED <<queue, ran>>
        /\ \A r \in Sessions : sess'[r] \in {NoSession, sess[r]}
        /\ NoSession \in SessRec /\ NoSession.at = "off"
        /\ DOMAIN sess' = Sessions /\ sess' = [r \in Sessions |-> sess'[r]]
      BY <1>2 DEF DeleteAccount, NoSession, SessRec, Steps
  <2>2. SessionStep
      BY <2>1 DEF SessionStep, ApprovalsInv, ApprovalsTyped, SessionsOK, Executing
  <2> QED
      BY <2>2, SessionStepKeeps
<1>3. CASE /\ queue' = [i \in Ids |-> IF queue[i].requester = m THEN Gone ELSE queue[i]]
           /\ UNCHANGED <<sess, ran>>
  <2>1. Gone \in Rows /\ Gone.state = "gone" /\ Gone.result = None
      BY DEF Gone, Unused, Rows
  <2>2. queue' \in [Ids -> Rows] /\ \A i \in Ids : queue'[i] \in {Gone, queue[i]}
      BY <1>3, <2>1 DEF ApprovalsInv, ApprovalsTyped
  <2>3. ApprovalsTyped'
      BY <1>3, <2>2 DEF ApprovalsInv, ApprovalsTyped
  <2>4. RowsOK' /\ RunsOK'
      BY <1>3, <2>1, <2>2 DEF ApprovalsInv, RowsOK, RunsOK, None
  <2>5. \A s \in Sessions : Claims(s) => Claims(s)'
      BY <1>3, <2>1, <2>2 DEF Claims
  <2>6. SessionsOK'
      BY <1>3, <2>5 DEF ApprovalsInv, SessionsOK, Executing
  <2>7. \A n \in Members : Pending(n)' \subseteq Pending(n)
      BY <2>1, <2>2 DEF Pending
  <2> QED
      BY <2>3, <2>4, <2>6, <2>7, FewerWait DEF ApprovalsInv
<1> QED
    BY <1>1, <1>2, <1>3 DEF StartRemoval, DropQueue

\* Every step keeps it.
LEMMA ApprovalsStep == ApprovalsInv /\ [Next]_vars => ApprovalsInv'
<1> SUFFICES ASSUME ApprovalsInv, [Next]_vars PROVE ApprovalsInv'
    OBVIOUS
<1>1. CASE UNCHANGED vars
  <2>1. SessionStep
      BY <1>1 DEF SessionStep, vars, ApprovalsInv, ApprovalsTyped, SessionsOK, Executing
  <2> QED
      BY <2>1, SessionStepKeeps
<1>2. CASE Next
    BY <1>2, AskInvariant, InsertInvariant, DecideInvariant, RunInvariant, ResultInvariant,
       RemovalInvariant DEF Next
<1> QED
    BY <1>1, <1>2

\* What was decided is what ran.
LEMMA ApprovalsAreKept == ApprovalsInv => QueueIsKept
  BY DEF ApprovalsInv, RowsOK, RunsOK, QueueIsKept, RunsAsDecided

\* However many sessions queue, decide, die and answer, and whoever is removed in between, the cap
\* of what waits holds and every run is the one that was decided.
THEOREM QueueStaysKept == Spec => []QueueIsKept
<1> QED
    BY ApprovalsInit, ApprovalsStep, ApprovalsAreKept, PTL DEF Spec

-----------------------------------------------------------------------------
\* Where an approval stands as a decision.
Standing(entry) == [state |-> IF entry.result # None THEN "answered" ELSE entry.state, by |-> entry.by]

\* One row that moves moves one decision.
LEMMA OneMoves ==
    ASSUME ApprovalsInv, NEW i \in Ids, NEW entry \in Rows, queue' = [queue EXCEPT ![i] = entry]
    PROVE  /\ decisions[i] = Standing(queue[i])
           /\ decisions' = [decisions EXCEPT ![i] = Standing(entry)]
<1>1. queue' = [j \in Ids |-> IF j = i THEN entry ELSE queue[j]]
    BY DEF ApprovalsInv, ApprovalsTyped
<1>2. decisions' = [j \in Ids |-> IF j = i THEN Standing(entry) ELSE Standing(queue[j])]
    BY <1>1 DEF decisions, Standing
<1> QED
    BY <1>2 DEF decisions, Standing

\* A queue as it was is the same decisions.
LEMMA NoneMoves == UNCHANGED queue => UNCHANGED decisions
  BY DEF decisions

LEMMA DecisionsInit == Init => Promise!Init
  BY DEF Init, Promise!Init, Promise!Is, Promise!Nobody, decisions, Unused, None, Nobody

LEMMA InsertStands ==
    ASSUME ApprovalsInv, NEW s \in Sessions, Insert(s)
    PROVE  [Promise!Next]_decisions
<1> DEFINE entry == [Unused EXCEPT !.state = "pending", !.requester = sess[s].who, !.input = sess[s].input]
<1>1. CASE UNCHANGED queue
    BY <1>1, NoneMoves
<1>2. CASE ~UNCHANGED queue
  <2>1. PICK i \in Ids : queue[i].state = "unused" /\ queue' = [queue EXCEPT ![i] = entry]
      BY <1>2 DEF Insert
  <2>2. entry \in Rows /\ Standing(entry) = [state |-> "pending", by |-> Nobody]
      BY DEF Insert, At, Rows, Unused, ApprovalsInv, ApprovalsTyped, SessRec, Standing, None
  <2>3. Standing(queue[i]).state = "unused"
      BY <2>1 DEF Standing, ApprovalsInv, RowsOK, Unused, None
  <2>4. decisions[i] = Standing(queue[i]) /\ decisions' = [decisions EXCEPT ![i] = Standing(entry)]
    <3> HIDE DEF entry
    <3> QED
        BY <2>1, <2>2, OneMoves
  <2>5. Promise!Queue(i)
      BY <2>2, <2>3, <2>4 DEF Promise!Queue, Promise!Move, Promise!Is, Promise!Nobody, Nobody
  <2> QED
      BY <2>5 DEF Promise!Next
<1> QED
    BY <1>1, <1>2

LEMMA DecideStands ==
    ASSUME ApprovalsInv, NEW s \in Sessions, Claim(s) \/ Reject(s)
    PROVE  [Promise!Next]_decisions
<1> DEFINE i == sess[s].id
<1>1. i \in Ids /\ sess[s].who \in Admins /\ sess[s].who \in Members
    BY AdminsAssumption DEF Claim, Reject, At, ApprovalsInv, SessionsOK
<1>2. CASE UNCHANGED queue
    BY <1>2, NoneMoves
<1>3. ASSUME NEW verdict \in {"approved", "rejected"}, Decides(i, Stamp(s, verdict))
      PROVE  Promise!Move(i, "pending", [state |-> verdict, by |-> sess[s].who])
  <2>1. queue[i].state = "pending" /\ queue[i].result = None /\ queue[i] \in Rows
      BY <1>1, <1>3 DEF Decides, ApprovalsInv, RowsOK, ApprovalsTyped
  <2>2. Stamp(s, verdict) \in Rows /\ Standing(Stamp(s, verdict)) = [state |-> verdict, by |-> sess[s].who]
      BY <1>1, <2>1 DEF Stamp, Rows, Standing
  <2>3. Standing(queue[i]).state = "pending"
      BY <2>1 DEF Standing
  <2> QED
      BY <1>1, <1>3, <2>2, <2>3, OneMoves DEF Decides, Promise!Move
<1>4. CASE Decides(i, Stamp(s, "approved"))
  <2>1. Promise!Approve(i, sess[s].who)
      BY <1>3, <1>4 DEF Promise!Approve, Promise!Is
  <2> QED
      BY <1>1, <2>1 DEF Promise!Next
<1>5. CASE Decides(i, Stamp(s, "rejected"))
  <2>1. Promise!Reject(i, sess[s].who)
      BY <1>3, <1>5 DEF Promise!Reject, Promise!Is
  <2> QED
      BY <1>1, <2>1 DEF Promise!Next
<1> QED
    BY <1>2, <1>4, <1>5 DEF Claim, Reject

LEMMA ResultStands ==
    ASSUME ApprovalsInv, NEW s \in Sessions, Result(s)
    PROVE  [Promise!Next]_decisions
<1> DEFINE i   == sess[s].id
           entry == [queue[i] EXCEPT !.result = sess[s].outcome]
<1>1. CASE UNCHANGED queue
    BY <1>1, NoneMoves
<1>2. CASE /\ queue[i].state = "approved" /\ queue[i].by = sess[s].who /\ queue[i].result = None
           /\ queue' = [queue EXCEPT ![i].result = sess[s].outcome]
  <2>1. Executing(s) /\ sess[s].at = "result"
      BY DEF Result, At, Executing
  <2>2. i \in Ids /\ sess[s].outcome \in {"ran", "refused"} /\ sess[s].who \in Members
      BY <2>1, OnlyOne DEF Claims
  <2>3. entry \in Rows /\ Standing(entry) = [state |-> "answered", by |-> sess[s].who]
      BY <1>2, <2>2 DEF ApprovalsInv, ApprovalsTyped, Rows, Standing, None
  <2>4. Standing(queue[i]) = [state |-> "approved", by |-> sess[s].who]
      BY <1>2 DEF Standing
  <2>5. decisions[i] = Standing(queue[i]) /\ decisions' = [decisions EXCEPT ![i] = Standing(entry)]
    <3>1. queue' = [queue EXCEPT ![i] = entry]
        BY <1>2, <2>2 DEF ApprovalsInv, ApprovalsTyped
    <3> HIDE DEF entry
    <3> QED
        BY <2>2, <2>3, <3>1, OneMoves
  <2>6. Promise!Answer(i, sess[s].who)
    <3> HIDE DEF entry
    <3>1. decisions[i].by = sess[s].who /\ decisions[i].state = "approved"
        BY <2>4, <2>5
    <3> QED
        BY <2>3, <2>5, <3>1 DEF Promise!Answer, Promise!Move, Promise!Is
  <2> QED
      BY <2>2, <2>6 DEF Promise!Next
<1> QED
    BY <1>1, <1>2 DEF Result

LEMMA DropStands ==
    ASSUME ApprovalsInv, NEW m \in Members, DropQueue(m)
    PROVE  [Promise!Next]_decisions
<1> DEFINE gone == {i \in Ids : queue[i].requester = m}
<1>1. CASE UNCHANGED queue
    BY <1>1, NoneMoves
<1>2. CASE queue' = [i \in Ids |-> IF queue[i].requester = m THEN Gone ELSE queue[i]]
  <2>1. Standing(Gone) = [state |-> "gone", by |-> Nobody]
      BY DEF Standing, Gone, Unused, None
  <2>2. decisions' = [i \in Ids |-> IF queue[i].requester = m THEN Standing(Gone) ELSE Standing(queue[i])]
      BY <1>2 DEF decisions, Standing
  <2>3. \A i \in Ids : decisions[i] = Standing(queue[i])
      BY DEF decisions, Standing
  <2>4. Promise!Forget(gone)
      BY <2>1, <2>2, <2>3 DEF Promise!Forget, Promise!Is, Promise!Nobody, Nobody
  <2>5. ASSUME NEW i \in gone PROVE decisions[i].state # "unused"
    <3>1. queue[i] # Unused
        BY AdminsAssumption DEF Unused, Nobody
    <3>2. queue[i].state # "unused"
        BY <3>1 DEF ApprovalsInv, RowsOK
    <3>3. Standing(queue[i]).state \in {"answered", queue[i].state}
        BY DEF Standing
    <3>4. decisions[i] = Standing(queue[i])
        BY <2>3
    <3> QED
        BY <3>2, <3>3, <3>4
  <2> QED
      BY <2>4, <2>5 DEF Promise!Next
<1> QED
    BY <1>1, <1>2 DEF DropQueue

\* Every step of the queue is a step of one decision, of those of one member, or of none.
LEMMA DecisionsStep == ApprovalsInv /\ [Next]_vars => [Promise!Next]_decisions
<1> SUFFICES ASSUME ApprovalsInv, [Next]_vars PROVE [Promise!Next]_decisions
    OBVIOUS
<1>1. CASE UNCHANGED queue
    BY <1>1, NoneMoves
<1>2. CASE ~UNCHANGED queue
  <2>1. \/ \E s \in Sessions : Insert(s) \/ Claim(s) \/ Reject(s) \/ Result(s)
        \/ \E m \in Members : DropQueue(m)
      BY <1>2 DEF Next, vars, Open, Die, Create, Decide, Run, Put, StartRemoval, DeleteAccount
  <2> QED
      BY SMTT(60), <2>1, InsertStands, DecideStands, ResultStands, DropStands
<1> QED
    BY <1>1, <1>2

\* The queue is a Decision: of two admins one decides, an approval is answered at most once and by
\* who approved it, and what went with its requester never comes back.
THEOREM DecisionIsImplemented == Spec => ImplementsDecision
<1> QED
    BY ApprovalsInit, ApprovalsStep, DecisionsInit, DecisionsStep, PTL DEF Spec, ImplementsDecision, Promise!Spec

-----------------------------------------------------------------------------
\* A behaviour of the whole is one of every part that is proved about here.
LEMMA RunsOnTheirOwn == Whole => Runs!Spec /\ Jobs!Spec /\ Kit!Spec /\ Pods!Spec /\ Probes!Spec /\ Spec
<1>1. Begins => Runs!Init /\ Jobs!Init /\ Kit!Init /\ Pods!Init /\ Probes!Init /\ Init
    BY DEF Begins
<1>2. [Moves]_allVars => [Runs!Next]_Runs!vars
    BY DEF Moves, allVars, runVars, Runs!vars
<1>3. [Moves]_allVars => [Jobs!Next]_Jobs!vars
    BY DEF Moves, allVars, jobsVars, Jobs!vars
<1>4. [Moves]_allVars => [Kit!Next]_Kit!vars
    BY DEF Moves, allVars, kitVars, Kit!vars
<1>5. [Moves]_allVars => [Pods!Next]_Pods!vars
    BY DEF Moves, allVars, podsVars, Pods!vars
<1>6. [Moves]_allVars => [Probes!Next]_Probes!vars
    BY DEF Moves, allVars, probesVars, Probes!vars
<1>7. [Moves]_allVars => [Next]_vars
    BY DEF Moves, allVars, vars
<1> QED
    BY <1>1, <1>2, <1>3, <1>4, <1>5, <1>6, <1>7, PTL
    DEF Whole, Runs!Spec, Jobs!Spec, Kit!Spec, Pods!Spec, Probes!Spec, Spec

\* What the run of Member checks of runs, pods, probes and approvals, for every value of the constants.
THEOREM RunsKeepTheirWord ==
    ASSUME RegistrationsAreNamed, UnitsAreNamed, OneRegistration, ProbesAreTimed,
           JobsAreNamed, KitsAreNamed, OneCaller, OnlyKits, RunsAreNamed, OnlyProcesses
    PROVE  Whole => /\ []PodsAreWhole /\ []RunsAreKnown /\ ProbesAreCurrent /\ RunningKeepsItsRow
                    /\ []QueueIsKept /\ ImplementsDecision
<1>1. Pods!Spec => []PodsAreWhole
    BY PodsStayWhole
<1>2. Jobs!Spec /\ Kit!Spec => []RunsAreKnown
    BY RunsStayKnown, PTL
<1>3. Probes!Spec => ProbesAreCurrent
    BY ProbesStayCurrent
<1>4. Runs!Spec => RunningKeepsItsRow
    BY RunningStaysRegistered
<1>5. Spec => []QueueIsKept /\ ImplementsDecision
    BY QueueStaysKept, DecisionIsImplemented, PTL
<1> QED
    BY <1>1, <1>2, <1>3, <1>4, <1>5, RunsOnTheirOwn, PTL
=============================================================================
