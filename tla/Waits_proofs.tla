----------------------------- MODULE Waits_proofs -----------------------------
(***************************************************************************)
(* Theorems about the parts of Waits: the lock of a Process, for any       *)
(* number of callers, ids and mutexes, the scheduler, the re-resolve of    *)
(* the proxy, the listeners of a daemon, and the copy of an image.         *)
(***************************************************************************)
EXTENDS Waits, FiniteSetTheorems, WellFoundedInduction, TLAPS

-----------------------------------------------------------------------------
(* The lock of a Process.                                                  *)

\* The callers using an id are a finite set, so the count of them is a number.
LEMMA UsingFinite == \A k \in Keys : IsFiniteSet(Using(k)) /\ Cardinality(Using(k)) \in Nat
  BY CallersAssumption, FS_Subset, FS_CardinalityType DEF Using

\* Nobody uses an id whose count is zero, and somebody does when it is more.
LEMMA UsingEmpty == \A k \in Keys : Cardinality(Using(k)) = 0 <=> Using(k) = {}
  BY UsingFinite, FS_EmptySet

\* The invariant holds before the first caller.
LEMMA InitInvariant == Init => IInv
<1> SUFFICES ASSUME Init PROVE IInv
    OBVIOUS
<1>1. \A k \in Keys : Using(k) = {}
    BY DEF Init, Using
<1>2. WaitsCount
    BY <1>1, FS_EmptySet DEF Init, WaitsCount
<1> QED
    BY <1>1, <1>2, NullAssumption
    DEF Init, IInv, TypeOK, PCs, RefersToEntry, EntriesDiffer, EntryWhileUsed, HoldsLocked,
        HoldsAlone

\* Entering keeps it: the new caller is counted, and a new mutex is nobody else's.
LEMMA EnterInvariant ==
  ASSUME IInv, NEW c \in Callers, NEW k \in Keys, Enter(c, k)
  PROVE  IInv'
<1>1. PICK l \in Locks : /\ IF held[k] = NoLock THEN Fresh(l) ELSE l = held[k]
                         /\ held' = [held EXCEPT ![k] = l]
                         /\ ref'  = [ref EXCEPT ![c] = l]
    BY DEF Enter
<1>2. TypeOK'
    BY <1>1 DEF IInv, TypeOK, Enter, PCs
<1>3. /\ Using(k)' = Using(k) \cup {c}
      /\ c \notin Using(k)
      /\ \A j \in Keys \ {k} : Using(j)' = Using(j)
    BY DEF IInv, TypeOK, Enter, Using
<1>4. Cardinality(Using(k)') = Cardinality(Using(k)) + 1
    BY <1>3, UsingFinite, FS_AddElement
<1>5. WaitsCount'
    BY <1>3, <1>4 DEF IInv, WaitsCount, Enter, TypeOK
<1>6. l # NoLock /\ \A j \in Keys \ {k} : held[j] # l
    BY <1>1, NullAssumption DEF IInv, EntriesDiffer, Fresh
<1>7. EntryWhileUsed'
    BY <1>1, <1>3, <1>6 DEF IInv, EntryWhileUsed, TypeOK
<1>8. EntriesDiffer'
    BY <1>1, <1>6 DEF IInv, EntriesDiffer, TypeOK
<1>9. RefersToEntry'
  <2> SUFFICES ASSUME NEW d \in Callers, pc'[d] # "idle"
               PROVE  key'[d] \in Keys /\ ref'[d] \in Locks /\ held'[key'[d]] = ref'[d]
      BY DEF RefersToEntry
  <2>1. CASE d = c
      BY <2>1, <1>1 DEF IInv, TypeOK, Enter
  <2>2. CASE d # c
    <3>1. /\ pc[d] # "idle" /\ key'[d] = key[d] /\ ref'[d] = ref[d]
          BY <2>2, <1>1 DEF IInv, TypeOK, Enter
    <3>2. key[d] \in Keys /\ ref[d] \in Locks /\ held[key[d]] = ref[d]
          BY <3>1 DEF IInv, RefersToEntry
    <3>3. held[k] # NoLock => l = held[k]
          BY <1>1
    <3> QED
          BY <3>1, <3>2, <3>3, <1>1, NullAssumption DEF IInv, TypeOK
  <2> QED
      BY <2>1, <2>2
<1>10. HoldsLocked' /\ HoldsAlone'
    BY <1>1 DEF IInv, TypeOK, Enter, HoldsLocked, HoldsAlone
<1> QED
    BY <1>2, <1>5, <1>7, <1>8, <1>9, <1>10 DEF IInv

\* Taking the mutex keeps it: it was free, so whoever holds it is the caller alone.
LEMMA AcquireInvariant ==
  ASSUME IInv, NEW c \in Callers, Acquire(c)
  PROVE  IInv'
<1>1. TypeOK'
    BY DEF IInv, TypeOK, Acquire, PCs, RefersToEntry
<1>2. \A k \in Keys : Using(k)' = Using(k)
    BY DEF IInv, TypeOK, Acquire, Using
<1>3. RefersToEntry' /\ EntriesDiffer' /\ WaitsCount' /\ EntryWhileUsed'
    BY <1>2 DEF IInv, TypeOK, Acquire, RefersToEntry, EntriesDiffer, WaitsCount, EntryWhileUsed
<1>4. HoldsLocked' /\ HoldsAlone'
    BY DEF IInv, TypeOK, Acquire, HoldsLocked, HoldsAlone
<1> QED
    BY <1>1, <1>3, <1>4 DEF IInv

\* Returning it keeps it: the others that hold a mutex hold another one.
LEMMA UnlockInvariant ==
  ASSUME IInv, NEW c \in Callers, Unlock(c)
  PROVE  IInv'
<1>1. TypeOK'
    BY DEF IInv, TypeOK, Unlock, PCs
<1>2. \A k \in Keys : Using(k)' = Using(k)
    BY DEF IInv, TypeOK, Unlock, Using
<1>3. RefersToEntry' /\ EntriesDiffer' /\ WaitsCount' /\ EntryWhileUsed'
    BY <1>2 DEF IInv, TypeOK, Unlock, RefersToEntry, EntriesDiffer, WaitsCount, EntryWhileUsed
<1>4. HoldsLocked' /\ HoldsAlone'
    BY DEF IInv, TypeOK, Unlock, HoldsLocked, HoldsAlone
<1> QED
    BY <1>1, <1>3, <1>4 DEF IInv

\* Dropping keeps it: the entry goes with the last caller that refers to it.
LEMMA DropInvariant ==
  ASSUME IInv, NEW c \in Callers, Drop(c)
  PROVE  IInv'
<1>1. PICK k \in Keys : k = key[c]
    BY DEF IInv, Drop, Leave, RefersToEntry
<1>2. /\ waits' = [waits EXCEPT ![k] = @ - 1]
      /\ held'  = [held EXCEPT ![k] = IF waits[k] <= 1 THEN NoLock ELSE @]
      /\ pc'  = [pc EXCEPT ![c] = "idle"]
      /\ key' = [key EXCEPT ![c] = NoKey]
      /\ ref' = [ref EXCEPT ![c] = NoLock]
    BY <1>1 DEF Drop, Leave
<1>3. /\ c \in Using(k)
      /\ waits[k] = Cardinality(Using(k))
      /\ waits[k] \in Nat
      /\ IsFiniteSet(Using(k))
    BY <1>1, UsingFinite DEF IInv, TypeOK, Drop, Leave, WaitsCount, Using
<1>4. \A d \in Callers \ {c} : pc'[d] = pc[d] /\ key'[d] = key[d] /\ ref'[d] = ref[d]
    BY <1>2 DEF IInv, TypeOK
<1>5. /\ Using(k)' = Using(k) \ {c}
      /\ \A j \in Keys \ {k} : Using(j)' = Using(j)
    BY <1>1, <1>2, <1>4 DEF IInv, TypeOK, Using
<1>6. Cardinality(Using(k)') = waits[k] - 1
    BY ZenonT(60), <1>3, <1>5, FS_RemoveElement
<1>7. waits[k] - 1 \in Nat
    BY <1>3, <1>5, <1>6, FS_RemoveElement, FS_Subset, FS_CardinalityType
<1>8. (waits[k] <= 1) <=> (Using(k)' = {})
  <2>1. IsFiniteSet(Using(k)')
      BY <1>3, <1>5, FS_Subset
  <2>2. (Cardinality(Using(k)') = 0) <=> (Using(k)' = {})
      BY <2>1, FS_EmptySet
  <2> QED
      BY <2>2, <1>3, <1>6, <1>7
<1>9. TypeOK'
    BY <1>2, <1>7 DEF IInv, TypeOK, Drop, Leave, PCs
<1>10. WaitsCount'
    BY <1>2, <1>3, <1>5, <1>6 DEF IInv, TypeOK, WaitsCount
<1>11. /\ \A j \in Keys \ {k} : held'[j] = held[j]
       /\ held'[k] = IF Using(k)' = {} THEN NoLock ELSE held[k]
    BY <1>2, <1>8 DEF IInv, TypeOK
<1>12. EntryWhileUsed'
    BY <1>3, <1>5, <1>11 DEF IInv, EntryWhileUsed
<1>13. EntriesDiffer'
    BY <1>11 DEF IInv, EntriesDiffer
<1>14. RefersToEntry'
  <2> SUFFICES ASSUME NEW d \in Callers, pc'[d] # "idle"
               PROVE  key'[d] \in Keys /\ ref'[d] \in Locks /\ held'[key'[d]] = ref'[d]
      BY DEF RefersToEntry
  <2>1. d # c /\ pc[d] # "idle" /\ key'[d] = key[d] /\ ref'[d] = ref[d]
      BY <1>2, <1>4 DEF IInv, TypeOK
  <2>2. key[d] \in Keys /\ ref[d] \in Locks /\ held[key[d]] = ref[d]
      BY <2>1 DEF IInv, RefersToEntry
  <2>3. key[d] = k => d \in Using(k)'
      BY <2>1, <2>2, <1>5 DEF Using
  <2> QED
      BY <2>1, <2>2, <2>3, <1>11
<1>15. HoldsLocked' /\ HoldsAlone'
    BY DEF IInv, TypeOK, Drop, Leave, HoldsLocked, HoldsAlone
<1> QED
    BY <1>9, <1>10, <1>12, <1>13, <1>14, <1>15 DEF IInv

\* The invariant is inductive.
THEOREM Invariant == Spec => []IInv
<1>1. IInv /\ [Next]_vars => IInv'
  <2> SUFFICES ASSUME IInv, [Next]_vars PROVE IInv'
      OBVIOUS
  <2>1. ASSUME NEW c \in Callers, NEW k \in Keys, Enter(c, k) PROVE IInv'
      BY <2>1, EnterInvariant
  <2>2. ASSUME NEW c \in Callers, Acquire(c) PROVE IInv'
      BY <2>2, AcquireInvariant
  <2>3. ASSUME NEW c \in Callers, Unlock(c) PROVE IInv'
      BY <2>3, UnlockInvariant
  <2>4. ASSUME NEW c \in Callers, Drop(c) PROVE IInv'
      BY <2>4, DropInvariant
  <2>5. CASE UNCHANGED vars
      BY <2>5 DEF vars, IInv, TypeOK, RefersToEntry, EntriesDiffer, WaitsCount, EntryWhileUsed,
                  HoldsLocked, HoldsAlone, Using
  <2> QED
      BY <2>1, <2>2, <2>3, <2>4, <2>5 DEF Next
<1> QED
    BY <1>1, InitInvariant, PTL DEF Spec

\* Every variable keeps its type.
THEOREM TypeCorrect == Spec => []TypeOK
<1>1. IInv => TypeOK
    BY DEF IInv
<1> QED
    BY <1>1, Invariant, PTL

\* Two actions of one Process never run at the same time, whatever the number of callers.
THEOREM Exclusion == Spec => []MutualExclusion
<1>1. IInv => MutualExclusion
    BY DEF IInv, MutualExclusion, RefersToEntry, HoldsAlone
<1> QED
    BY <1>1, Invariant, PTL

\* An id has an entry exactly as long as somebody uses it.
THEOREM NoEntryLeaks == Spec => []EntryWhileUsed
<1>1. IInv => EntryWhileUsed
    BY DEF IInv
<1> QED
    BY <1>1, Invariant, PTL

\* The map of mutexes implements the lock the daemon asks for: every step is a step of KeyedMutex
\* or leaves what it shows alone.
THEOREM Implements == Spec => ImplementsKeyedMutex
<1>1. Init => Abstract!Init
    BY DEF Init, Abstract!Init
<1>2. IInv /\ IInv' /\ [Next]_vars => [Abstract!Next]_(Abstract!vars)
  <2> SUFFICES ASSUME IInv, IInv', [Next]_vars PROVE [Abstract!Next]_(Abstract!vars)
      OBVIOUS
  <2> USE NullAssumption
  <2>1. ASSUME NEW c \in Callers, NEW k \in Keys, Enter(c, k) PROVE Abstract!Ask(c, k)
      BY <2>1 DEF Enter, Abstract!Ask, IInv, TypeOK
  <2>2. ASSUME NEW c \in Callers, Acquire(c) PROVE Abstract!Grant(c)
    <3>1. key[c] \in Keys /\ pc[c] = "waiting"
        BY <2>2 DEF Acquire, IInv, RefersToEntry
    <3>2. \A d \in Callers : ~(pc[d] = "holding" /\ key[d] = key[c])
        BY <2>2, <3>1 DEF Acquire, IInv, RefersToEntry, HoldsLocked
    <3> QED
        BY <2>2, <3>1, <3>2 DEF Acquire, Abstract!Grant, IInv, TypeOK
  <2>3. ASSUME NEW c \in Callers, Unlock(c) PROVE Abstract!Release(c)
      BY <2>3 DEF Unlock, Abstract!Release, IInv, TypeOK, RefersToEntry
  <2>4. ASSUME NEW c \in Callers, Drop(c) PROVE UNCHANGED Abstract!vars
      BY <2>4 DEF Drop, Leave, Abstract!vars, IInv, TypeOK
  <2>5. CASE UNCHANGED vars
      BY <2>5 DEF vars, Abstract!vars
  <2> QED
      BY <2>1, <2>2, <2>3, <2>4, <2>5 DEF Next, Abstract!Next
<1> QED
    BY <1>1, <1>2, Invariant, PTL DEF Spec, Abstract!Spec, ImplementsKeyedMutex

-----------------------------------------------------------------------------
(* The scheduler.                                                          *)

LEMMA JobsCardinality == \A S : Jobs!Cardinality(S) = Cardinality(S)
  BY DEF Jobs!Cardinality, Cardinality

\* Of a nonempty set of numbers one is the least.
Less == {ss \in Nat \X Nat : ss[1] < ss[2]}
LEMMA LeastNumber == ASSUME NEW T \in SUBSET Nat, T # {} PROVE \E x \in T : \A y \in T : x <= y
<1>1. IsWellFoundedOn(Less, Nat)
    BY NatLessThanWellFounded DEF OpToRel, Less
<1>2. \A a, b \in Nat : <<b, a>> \notin Less => a <= b
    <2>1. \A a, b \in Nat : b < a => <<b, a>> \in Less
        BY DEF Less
    <2> QED
        BY <2>1
<1>3. PICK x \in T : \A y \in T : ~(<<y, x>> \in Less)
    BY <1>1, WFMin
<1> QED
    BY <1>2, <1>3

\* Of finitely many that are put in an order, one is the last.
LEMMA LastOne ==
  ASSUME NEW T, IsFiniteSet(T), T # {}, NEW R,
         \A a, b \in T : a # b => <<a, b>> \in R \/ <<b, a>> \in R,
         \A a \in T : <<a, a>> \notin R,
         \A a, b, c \in T : <<a, b>> \in R /\ <<b, c>> \in R => <<a, c>> \in R
  PROVE  \E m \in T : \A a \in T \ {m} : <<a, m>> \in R
<1> DEFINE After(m) == {a \in T \ {m} : <<a, m>> \notin R}
           Counts == {Cardinality(After(m)) : m \in T}
<1>1. \A m \in T : IsFiniteSet(After(m)) /\ Cardinality(After(m)) \in Nat
    BY FS_Subset, FS_CardinalityType
<1>6. \A n \in Counts : n \in Nat
  <2>1. \A m \in T : Cardinality(After(m)) \in Nat
      BY <1>1
  <2> HIDE DEF After
  <2> QED
      BY <2>1
<1>7. PICK w \in T : TRUE
    OBVIOUS
<1>8. Cardinality(After(w)) \in Counts
    OBVIOUS
<1>2. Counts \in SUBSET Nat /\ Counts # {}
  <2> HIDE DEF Counts
  <2> QED
      BY <1>6, <1>8
<1> HIDE DEF Counts
<1>3. PICK n \in Counts : \A k \in Counts : n <= k
    BY <1>2, LeastNumber
<1>4. PICK m \in T : n = Cardinality(After(m))
    BY <1>3 DEF Counts
<1>5. After(m) = {}
  <2> SUFFICES ASSUME After(m) # {} PROVE FALSE
      OBVIOUS
  <2>1. PICK i \in T : i # m /\ <<i, m>> \notin R
      OBVIOUS
  <2>2. <<m, i>> \in R
      BY <2>1
  <2>3. After(i) \subseteq After(m)
    <3> SUFFICES ASSUME NEW k \in T, k # i, <<k, i>> \notin R PROVE k # m /\ <<k, m>> \notin R
        OBVIOUS
    <3>1. <<i, k>> \in R
        OBVIOUS
    <3>2. <<m, k>> \in R
        BY <2>2, <3>1
    <3>3. <<k, m>> \notin R
      <4>1. <<k, m>> \in R => <<m, m>> \in R
          BY <3>2
      <4> QED
          BY <4>1
    <3> QED
        BY <3>2, <3>3
  <2>4. i \in After(m) /\ i \notin After(i)
      BY <2>1
  <2>5. Cardinality(After(i)) < Cardinality(After(m))
    <3>1. After(i) \in SUBSET After(m) /\ After(i) # After(m)
        BY <2>3, <2>4
    <3> HIDE DEF After
    <3>2. Cardinality(After(i)) <= Cardinality(After(m)) /\ Cardinality(After(i)) # Cardinality(After(m))
        BY <3>1, <1>1, FS_Subset
    <3> QED
        BY <3>2, <1>1
  <2>6. Cardinality(After(i)) \in Counts
      BY DEF Counts
  <2> HIDE DEF After
  <2> QED
      BY <2>5, <2>6, <1>1, <1>3, <1>4
<1> QED
    BY <1>5

\* What the scheduler holds, between two of its steps.
JobEntries == [every : Nat, next : Int, running : BOOLEAN]
JobsTyped ==
    /\ jobs \in [JobIds -> JobEntries]
    /\ \A j \in JobIds : jobs[j].every = 0 => jobs[j] = Jobs!NoJob
    /\ jobRuns \in SUBSET (JobIds \X (1..MaxRunning)) /\ renewed \in SUBSET JobIds
    /\ running \in Nat
    /\ perOwner \in [Jobs!Owners -> Nat]
JobsInv == JobsTyped /\ Jobs!SlotsAreTheRuns /\ Jobs!Ceilings /\ Jobs!MarkersAreTrue

\* A job is held as long as it has a period.
LEMMA HeldHasPeriod ==
  ASSUME JobsTyped, NEW j \in JobIds
  PROVE  /\ j \in Jobs!Held <=> jobs[j].every # 0
         /\ j \notin Jobs!Held => jobs[j] = Jobs!NoJob /\ jobs[j].running = FALSE
         /\ jobs[j].every \in Nat /\ jobs[j].next \in Int /\ jobs[j].running \in BOOLEAN
<1>1. Jobs!NoJob.every = 0 /\ Jobs!NoJob.running = FALSE
    BY DEF Jobs!NoJob
<1>2. jobs[j] \in JobEntries
    BY DEF JobsTyped
<1>3. jobs[j].every \in Nat /\ jobs[j].next \in Int /\ jobs[j].running \in BOOLEAN
    BY <1>2 DEF JobEntries
<1> QED
    BY <1>1, <1>3 DEF JobsTyped, Jobs!Held

\* Nobody is run for what is not a job, and there are finitely many runs, of each member as well.
LEMMA RunsFinite ==
  ASSUME NEW S \in SUBSET (JobIds \X (1..MaxRunning))
  PROVE  /\ IsFiniteSet(S) /\ Cardinality(S) \in Nat
         /\ \A o : /\ IsFiniteSet({r \in S : JobOwner(r[1]) = o})
                   /\ Cardinality({r \in S : JobOwner(r[1]) = o}) \in Nat
<1>1. IsFiniteSet(JobIds \X (1..MaxRunning))
  <2>1. MaxRunning \in Int
      BY JobsAssumption
  <2>2. IsFiniteSet(1..MaxRunning)
      BY <2>1, FS_Interval
  <2> QED
      BY <2>2, JobsAssumption, FS_Product
<1>2. IsFiniteSet(S)
    BY <1>1, FS_Subset
<1>3. \A o : {r \in S : JobOwner(r[1]) = o} \in SUBSET S
    OBVIOUS
<1>4. \A o : IsFiniteSet({r \in S : JobOwner(r[1]) = o})
    BY <1>2, <1>3, FS_Subset
<1> QED
    BY <1>2, <1>4, FS_CardinalityType

\* As long as there is room on the host, a run that is handed over is one that does not go yet.
LEMMA NewIsFree ==
  ASSUME JobsTyped, Cardinality(jobRuns) < MaxRunning, NEW j \in JobIds
  PROVE  /\ Jobs!NewRun(j) \in JobIds \X (1..MaxRunning) /\ Jobs!NewRun(j)[1] = j
         /\ Jobs!NewRun(j) \notin jobRuns
<1>1. IsFiniteSet(jobRuns) /\ Cardinality(jobRuns) \in Nat
    BY RunsFinite DEF JobsTyped
<1>2. MaxRunning \in Nat /\ IsFiniteSet(1..MaxRunning) /\ Cardinality(1..MaxRunning) = MaxRunning
    BY JobsAssumption, FS_Interval
<1>3. \E n \in 1..MaxRunning : <<j, n>> \notin jobRuns
  <2> SUFFICES ASSUME \A n \in 1..MaxRunning : <<j, n>> \in jobRuns PROVE FALSE
      OBVIOUS
  <2> DEFINE f == [n \in 1..MaxRunning |-> <<j, n>>]
  <2>1. f \in Injection(1..MaxRunning, jobRuns)
      BY DEF Injection, IsInjective
  <2> HIDE DEF f
  <2>2. Cardinality(1..MaxRunning) <= Cardinality(jobRuns)
      BY <2>1, <1>1, FS_Injection
  <2> QED
      BY <2>2, <1>1, <1>2
<1> DEFINE m == CHOOSE n \in 1..MaxRunning : <<j, n>> \notin jobRuns
<1>4. m \in 1..MaxRunning /\ <<j, m>> \notin jobRuns
    BY <1>3
<1>5. Jobs!NewRun(j) = <<j, m>>
    BY DEF Jobs!NewRun
<1> HIDE DEF m
<1> QED
    BY <1>4, <1>5

\* One run is handed over of each job that is taken.
LEMMA OneOfEach ==
  ASSUME NEW S \in SUBSET JobIds, \A j \in S : Jobs!NewRun(j)[1] = j
  PROVE  Cardinality({Jobs!NewRun(j) : j \in S}) = Cardinality(S)
<1> DEFINE new(j) == Jobs!NewRun(j)
           N == {new(j) : j \in S}
           g == [j \in S |-> new(j)]
<1>1. \A j \in S : new(j)[1] = j
    OBVIOUS
<1> HIDE DEF new
<1>2. g \in Injection(S, N)
  <2>1. g \in [S -> N]
      OBVIOUS
  <2>2. \A i, j \in S : g[i] = g[j] => i = j
      BY <1>1
  <2> QED
      BY <2>1, <2>2 DEF Injection, IsInjective
<1>3. g \in Surjection(S, N)
    BY DEF Surjection
<1>4. IsFiniteSet(S)
    BY JobsAssumption, FS_Subset
<1>5. Cardinality(N) = Cardinality(S)
    BY <1>2, <1>3, <1>4, FS_Surjection
<1> QED
    BY <1>5 DEF new

LEMMA OwnersHave == \A j \in JobIds : JobOwner(j) \in Jobs!Owners
  BY DEF Jobs!Owners

\* The runs under way are finitely many, and so are those of one member.
LEMMA GoingFinite ==
  ASSUME NEW T \in SUBSET JobIds
  PROVE  /\ IsFiniteSet(T) /\ Cardinality(T) \in Nat
         /\ \A o : /\ IsFiniteSet({j \in T : JobOwner(j) = o})
                   /\ Cardinality({j \in T : JobOwner(j) = o}) \in Nat
<1>1. IsFiniteSet(T)
    BY JobsAssumption, FS_Subset
<1>2. \A o : {j \in T : JobOwner(j) = o} \in SUBSET T
    OBVIOUS
<1>3. \A o : IsFiniteSet({j \in T : JobOwner(j) = o})
    BY <1>1, <1>2, FS_Subset
<1> QED
    BY <1>1, <1>3, FS_CardinalityType

\* Of what is taken, one is taken after all the others.
LEMMA LastTaken ==
  ASSUME JobsTyped, NEW T \in SUBSET JobIds, T # {}
  PROVE  \E m \in T : \A a \in T \ {m} : Jobs!Before(a, m)
<1> DEFINE R == {e \in T \X T : Jobs!Before(e[1], e[2])}
<1>1. \A a \in T : jobs[a].next \in Int /\ a \in Nat
    BY HeldHasPeriod, JobsAssumption
<1>2. \A a, b \in T : <<a, b>> \in R <=> Jobs!Before(a, b)
    OBVIOUS
<1>3. \A a, b \in T : a # b => Jobs!Before(a, b) \/ Jobs!Before(b, a)
    BY <1>1 DEF Jobs!Before
<1>4. \A a \in T : ~Jobs!Before(a, a)
    BY <1>1 DEF Jobs!Before
<1>5. \A a, b, c \in T : Jobs!Before(a, b) /\ Jobs!Before(b, c) => Jobs!Before(a, c)
    BY <1>1 DEF Jobs!Before
<1>6. IsFiniteSet(T)
    BY GoingFinite
<1> HIDE DEF R
<1>7. /\ \A a, b \in T : a # b => <<a, b>> \in R \/ <<b, a>> \in R
      /\ \A a \in T : <<a, a>> \notin R
      /\ \A a, b, c \in T : <<a, b>> \in R /\ <<b, c>> \in R => <<a, c>> \in R
    BY <1>2, <1>3, <1>4, <1>5
<1>8. \E m \in T : \A a \in T \ {m} : <<a, m>> \in R
    BY <1>6, <1>7, LastOne
<1> QED
    BY <1>2, <1>8

\* due takes no more than the host and each member have room for.
LEMMA TakenFits ==
  ASSUME JobsInv, NEW T \in SUBSET Jobs!Due, Jobs!Taken(T)
  PROVE  /\ running + Cardinality(T) <= MaxRunning
         /\ \A o \in Jobs!Owners :
               perOwner[o] + Cardinality({j \in T : JobOwner(j) = o}) <= MaxPerOwner
<1> USE JobsCardinality
<1>1. T \in SUBSET JobIds
    BY DEF Jobs!Due, Jobs!Held
<1>2. running \in Nat /\ \A o \in Jobs!Owners : perOwner[o] \in Nat
    BY DEF JobsInv, JobsTyped
<1>3. /\ running <= MaxRunning
      /\ \A o \in Jobs!Owners : perOwner[o] <= MaxPerOwner
    BY DEF JobsInv, Jobs!Ceilings
<1>4. JobsTyped
    BY DEF JobsInv
<1>5. \A j \in T : Jobs!Fits(j, {i \in T : Jobs!Before(i, j)})
    BY DEF Jobs!Taken
<1>6. \A j \in T : ~Jobs!Before(j, j)
  <2>1. \A j \in T : jobs[j].next \in Int /\ j \in Nat
      BY <1>1, <1>4, HeldHasPeriod, JobsAssumption
  <2> QED
      BY <2>1 DEF Jobs!Before
<1>7. running + Cardinality(T) <= MaxRunning
  <2>1. CASE T = {}
      BY <2>1, <1>2, <1>3, FS_EmptySet
  <2>2. CASE T # {}
    <3>1. PICK m \in T : \A a \in T \ {m} : Jobs!Before(a, m)
        BY <2>2, <1>1, <1>4, LastTaken
    <3>2. {i \in T : Jobs!Before(i, m)} = T \ {m}
        BY <3>1, <1>6
    <3>3. running + Cardinality(T \ {m}) < MaxRunning
        BY <3>2, <1>5 DEF Jobs!Fits
    <3>4. Cardinality(T \ {m}) = Cardinality(T) - 1 /\ Cardinality(T) \in Nat
        BY <1>1, GoingFinite, FS_RemoveElement
    <3> QED
        BY <3>3, <3>4, <1>2, JobsAssumption
  <2> QED
      BY <2>1, <2>2
<1>8. ASSUME NEW o \in Jobs!Owners
      PROVE  perOwner[o] + Cardinality({j \in T : JobOwner(j) = o}) <= MaxPerOwner
  <2> DEFINE S == {j \in T : JobOwner(j) = o}
  <2>1. CASE S = {}
      BY <2>1, <1>2, <1>3, FS_EmptySet
  <2>2. CASE S # {}
    <3>1. S \in SUBSET JobIds
        BY <1>1
    <3>2. PICK m \in S : \A a \in S \ {m} : Jobs!Before(a, m)
        BY <2>2, <3>1, <1>4, LastTaken
    <3>3. {i \in {i \in T : Jobs!Before(i, m)} : JobOwner(i) = JobOwner(m)} = S \ {m}
        BY <3>2, <1>6
    <3>4. perOwner[o] + Cardinality(S \ {m}) < MaxPerOwner
        BY <3>3, <1>5 DEF Jobs!Fits
    <3> HIDE DEF S
    <3>5. Cardinality(S \ {m}) = Cardinality(S) - 1 /\ Cardinality(S) \in Nat
        BY <3>1, GoingFinite, FS_RemoveElement
    <3>6. perOwner[o] + Cardinality(S) <= MaxPerOwner
        BY <3>4, <3>5, <1>2, JobsAssumption
    <3> QED
        BY <3>6 DEF S
  <2> QED
      BY <2>1, <2>2
<1> QED
    BY <1>7, <1>8

LEMMA JobsBegin == Jobs!Init => JobsInv
<1> SUFFICES ASSUME Jobs!Init PROVE JobsInv
    OBVIOUS
<1> USE JobsCardinality
<1>1. Jobs!NoJob \in JobEntries
    BY DEF Jobs!NoJob, JobEntries
<1>2. JobsTyped
    BY <1>1 DEF Jobs!Init, JobsTyped
<1>3. jobRuns = {} /\ \A o \in Jobs!Owners : Jobs!OwnRuns(o) = {}
    BY DEF Jobs!Init, Jobs!OwnRuns
<1>4. Jobs!SlotsAreTheRuns
    BY <1>3, FS_EmptySet DEF Jobs!Init, Jobs!SlotsAreTheRuns
<1>5. Jobs!Ceilings
    BY JobsAssumption DEF Jobs!Init, Jobs!Ceilings
<1>6. Jobs!MarkersAreTrue
  <2>1. \A j \in JobIds : j \notin Jobs!Held /\ ~jobs[j].running /\ Jobs!RunsOf(j) = {}
      BY <1>3 DEF Jobs!Init, Jobs!Held, Jobs!NoJob, Jobs!RunsOf
  <2> QED
      BY <2>1 DEF Jobs!MarkersAreTrue
<1> QED
    BY <1>2, <1>4, <1>5, <1>6 DEF JobsInv

\* A registration gives an entry a period and a tick, and leaves its marker as it is.
Registered(j, e) == [jobs EXCEPT ![j] = e]
LEMMA TrackJobs ==
  ASSUME JobsInv, NEW j \in JobIds, NEW every \in Periods, NEW next \in 1..every, Jobs!Track(j, every, next)
  PROVE  JobsInv'
<1> USE JobsCardinality
<1>1. every \in Nat /\ every # 0 /\ next \in Int
    BY JobsAssumption
<1> DEFINE e == jobs'[j]
<1>2. jobs[j] \in JobEntries /\ JobsTyped
    BY DEF JobsInv, JobsTyped
<1>3. jobs' = [jobs EXCEPT ![j] = e] /\ DOMAIN jobs = JobIds
    BY DEF Jobs!Track, JobsInv, JobsTyped
<1>4. /\ e = [every |-> every, next |-> IF jobs[j].every = every THEN jobs[j].next ELSE next,
              running |-> jobs[j].running]
      /\ renewed' = renewed \cup {i \in {j} \ Jobs!Held : Jobs!RunsOf(i) # {}}
      /\ UNCHANGED <<running, perOwner, jobRuns>>
    BY <1>3 DEF Jobs!Track
<1>5. e \in JobEntries /\ e.every # 0 /\ e.running = jobs[j].running
    BY <1>1, <1>2, <1>4, HeldHasPeriod DEF JobEntries
<1> HIDE DEF e
<1>6. \A i \in JobIds \ {j} : jobs'[i] = jobs[i]
    BY <1>3
<1>7. JobsTyped'
    BY <1>3, <1>4, <1>5, <1>6 DEF JobsInv, JobsTyped, Jobs!NoJob, e
<1>8. Jobs!SlotsAreTheRuns' /\ Jobs!Ceilings'
    BY <1>4 DEF JobsInv, Jobs!SlotsAreTheRuns, Jobs!Ceilings, Jobs!OwnRuns
<1>9. \A i : Jobs!RunsOf(i)' = Jobs!RunsOf(i)
    BY <1>4 DEF Jobs!RunsOf
<1>10. Jobs!MarkersAreTrue'
  <2> SUFFICES ASSUME NEW i \in JobIds
               PROVE  /\ jobs'[i].running => Jobs!RunsOf(i) # {}
                      /\ i \notin renewed' => \A r, q \in Jobs!RunsOf(i) : r = q
                      /\ i \in Jobs!Held' \ renewed' => (jobs'[i].running <=> Jobs!RunsOf(i) # {})
      BY <1>9 DEF Jobs!MarkersAreTrue
  <2>1. /\ jobs[i].running => Jobs!RunsOf(i) # {}
        /\ i \notin renewed => \A r, q \in Jobs!RunsOf(i) : r = q
        /\ i \in Jobs!Held \ renewed => (jobs[i].running <=> Jobs!RunsOf(i) # {})
      BY DEF JobsInv, Jobs!MarkersAreTrue
  <2>2. jobs'[i].running = jobs[i].running /\ (i \notin renewed' => i \notin renewed)
      BY <1>3, <1>4, <1>5, <1>6 DEF e
  <2>3. i # j => (i \in Jobs!Held' => i \in Jobs!Held)
      BY <1>6 DEF Jobs!Held
  <2>4. i = j /\ i \notin Jobs!Held /\ i \notin renewed' => Jobs!RunsOf(i) = {} /\ jobs[i].running = FALSE
      BY <1>2, <1>4, HeldHasPeriod
  <2> QED
      BY <2>1, <2>2, <2>3, <2>4
<1> QED
    BY <1>7, <1>8, <1>10 DEF JobsInv

LEMMA UntrackJobs ==
  ASSUME JobsInv, NEW j \in JobIds, Jobs!Untrack(j)
  PROVE  JobsInv'
<1>1. Jobs!NoJob \in JobEntries
    BY DEF Jobs!NoJob, JobEntries
<1>2. JobsTyped'
    BY <1>1 DEF JobsInv, JobsTyped, Jobs!Untrack
<1>3. Jobs!SlotsAreTheRuns' /\ Jobs!Ceilings'
    BY DEF JobsInv, Jobs!SlotsAreTheRuns, Jobs!Ceilings, Jobs!OwnRuns, Jobs!Untrack
<1>4. \A i \in JobIds : /\ i \in Jobs!Held' => i \in Jobs!Held /\ jobs'[i] = jobs[i]
                        /\ jobs'[i].running => jobs[i].running
    BY DEF JobsInv, JobsTyped, Jobs!Untrack, Jobs!Held, Jobs!NoJob
<1>5. renewed' = renewed /\ \A i : Jobs!RunsOf(i)' = Jobs!RunsOf(i)
    BY DEF Jobs!Untrack, Jobs!RunsOf
<1>6. Jobs!MarkersAreTrue'
    BY <1>4, <1>5 DEF JobsInv, Jobs!MarkersAreTrue
<1> QED
    BY <1>2, <1>3, <1>6 DEF JobsInv

\* Time moves the ticks of what is held and nothing else.
Later(r) == [r EXCEPT !.next = @ - 1]
LEMMA LaterEntry ==
  ASSUME NEW r \in JobEntries
  PROVE  Later(r) \in JobEntries /\ Later(r).every = r.every /\ Later(r).running = r.running
         /\ Later(r).next = r.next - 1
  BY DEF Later, JobEntries

LEMMA TimeJobs ==
  ASSUME JobsInv, Jobs!TimePasses
  PROVE  JobsInv'
<1>1. JobsTyped
    BY DEF JobsInv
<1>2. jobs' = [j \in JobIds |-> IF j \in Jobs!Held THEN Later(jobs[j]) ELSE Jobs!NoJob]
    BY DEF Jobs!TimePasses, Later
<1>3. UNCHANGED <<running, perOwner, jobRuns, renewed>> /\ \A i : Jobs!RunsOf(i)' = Jobs!RunsOf(i)
    BY DEF Jobs!TimePasses, Jobs!RunsOf
<1>4. Jobs!NoJob \in JobEntries /\ Jobs!NoJob.every = 0
    BY DEF Jobs!NoJob, JobEntries
<1>5. \A j \in JobIds : /\ jobs[j] \in JobEntries
                        /\ j \in Jobs!Held <=> jobs[j].every # 0
    BY <1>1, HeldHasPeriod DEF JobsTyped
<1>6. \A j \in JobIds :
         /\ jobs'[j] \in JobEntries
         /\ j \in Jobs!Held => jobs'[j].every # 0 /\ jobs'[j].running = jobs[j].running
         /\ j \notin Jobs!Held => jobs'[j] = Jobs!NoJob
    BY <1>2, <1>4, <1>5, LaterEntry
<1>7. JobsTyped'
  <2>1. \A j \in JobIds : jobs'[j].every = 0 => jobs'[j] = Jobs!NoJob
      BY <1>6
  <2>2. jobs' \in [JobIds -> JobEntries]
      BY <1>2, <1>6
  <2> QED
      BY <2>1, <2>2, <1>1, <1>3 DEF JobsTyped, Jobs!NoJob
<1>8. Jobs!SlotsAreTheRuns' /\ Jobs!Ceilings'
    BY <1>3 DEF JobsInv, Jobs!SlotsAreTheRuns, Jobs!Ceilings, Jobs!OwnRuns
<1>9. \A j \in JobIds : /\ j \in Jobs!Held' => j \in Jobs!Held
                        /\ jobs'[j].running => jobs[j].running
    BY <1>6 DEF Jobs!Held, Jobs!NoJob
<1>10. Jobs!MarkersAreTrue'
    BY <1>3, <1>6, <1>9 DEF JobsInv, Jobs!MarkersAreTrue
<1> QED
    BY <1>7, <1>8, <1>10 DEF JobsInv

\* A pass gives what is due its next tick, and marks what it hands over.
Given(r, every, taken) == [r EXCEPT !.next = @ + every, !.running = @ \/ taken]
LEMMA GivenEntry ==
  ASSUME NEW r \in JobEntries, NEW every \in Nat, NEW taken \in BOOLEAN
  PROVE  /\ Given(r, every, taken) \in JobEntries /\ Given(r, every, taken).every = r.every
         /\ Given(r, every, taken).running <=> (r.running \/ taken)
         /\ Given(r, every, taken).next = r.next + every
<1> DEFINE b == r.running \/ taken
           n == r.next + every
<1>1. b \in BOOLEAN /\ n \in Int /\ (b <=> (r.running \/ taken)) /\ n = r.next + every
    BY DEF JobEntries
<1>2. Given(r, every, taken) = [r EXCEPT !.next = n, !.running = b]
    BY DEF Given
<1> HIDE DEF b, n
<1>3. [r EXCEPT !.next = n, !.running = b] \in JobEntries
    BY <1>1 DEF JobEntries
<1>4. /\ [r EXCEPT !.next = n, !.running = b].every = r.every
      /\ [r EXCEPT !.next = n, !.running = b].next = n
      /\ [r EXCEPT !.next = n, !.running = b].running = b
    BY DEF JobEntries
<1> QED
    BY <1>1, <1>2, <1>3, <1>4

LEMMA ApartAdds ==
  ASSUME NEW S, NEW T, IsFiniteSet(S), IsFiniteSet(T), S \cap T = {}
  PROVE  Cardinality(S \cup T) = Cardinality(S) + Cardinality(T)
<1>1. Cardinality(S \cup T) = Cardinality(S) + Cardinality(T) - Cardinality(S \cap T)
    BY FS_Union
<1>2. Cardinality(S \cap T) = 0 /\ Cardinality(S) \in Nat /\ Cardinality(T) \in Nat
    BY FS_EmptySet, FS_CardinalityType
<1> QED
    BY <1>1, <1>2

\* What a pass takes is given a run of its own.
LEMMA HandedOver ==
  ASSUME JobsInv, NEW T \in SUBSET Jobs!Due, Jobs!Taken(T), NEW j \in T
  PROVE  /\ ~jobs[j].running /\ j \in JobIds
         /\ Jobs!NewRun(j) \in JobIds \X (1..MaxRunning) /\ Jobs!NewRun(j)[1] = j
         /\ Jobs!NewRun(j) \notin jobRuns
<1> USE JobsCardinality
<1> DEFINE A == {i \in T : Jobs!Before(i, j)}
<1>1. ~jobs[j].running /\ running + Cardinality(A) < MaxRunning
    BY DEF Jobs!Taken, Jobs!Fits
<1>2. A \in SUBSET JobIds /\ j \in JobIds
    BY DEF Jobs!Due, Jobs!Held
<1> HIDE DEF A
<1>3. JobsTyped /\ running = Cardinality(jobRuns)
    BY DEF JobsInv, Jobs!SlotsAreTheRuns
<1>4. Cardinality(A) \in Nat /\ running \in Nat
    BY <1>2, <1>3, GoingFinite DEF JobsTyped
<1>5. Cardinality(jobRuns) < MaxRunning
    BY <1>1, <1>3, <1>4, JobsAssumption
<1> QED
    BY <1>1, <1>2, <1>3, <1>5, NewIsFree

LEMMA PassJobs ==
  ASSUME JobsInv, Jobs!Pass
  PROVE  JobsInv'
<1> USE JobsCardinality
<1>1. JobsTyped
    BY DEF JobsInv
<1>2. PICK T \in SUBSET Jobs!Due :
        /\ Jobs!Taken(T)
        /\ jobs' = [j \in JobIds |-> IF j \in Jobs!Due THEN Given(jobs[j], jobs[j].every, j \in T) ELSE jobs[j]]
        /\ running' = running + Cardinality(T)
        /\ perOwner' = [o \in Jobs!Owners |-> perOwner[o] + Cardinality({j \in T : JobOwner(j) = o})]
        /\ jobRuns' = jobRuns \cup {Jobs!NewRun(j) : j \in T}
        /\ renewed' = renewed
    BY DEF Jobs!Pass, Given
<1>3. /\ T \in SUBSET JobIds /\ T \in SUBSET Jobs!Held
      /\ Jobs!Due \in SUBSET Jobs!Held
    BY DEF Jobs!Due, Jobs!Held
<1>4. \A j \in JobIds : /\ jobs[j] \in JobEntries /\ jobs[j].every \in Nat
                        /\ j \in Jobs!Held <=> jobs[j].every # 0
    BY <1>1, HeldHasPeriod DEF JobsTyped
<1>5. \A j \in JobIds :
         /\ jobs'[j] \in JobEntries /\ jobs'[j].every = jobs[j].every
         /\ j \in Jobs!Due => (jobs'[j].running <=> (jobs[j].running \/ j \in T))
         /\ j \notin Jobs!Due => jobs'[j] = jobs[j]
  <2> SUFFICES ASSUME NEW j \in JobIds
               PROVE  /\ jobs'[j] \in JobEntries /\ jobs'[j].every = jobs[j].every
                      /\ j \in Jobs!Due => (jobs'[j].running <=> (jobs[j].running \/ j \in T))
                      /\ j \notin Jobs!Due => jobs'[j] = jobs[j]
      OBVIOUS
  <2>1. jobs'[j] = IF j \in Jobs!Due THEN Given(jobs[j], jobs[j].every, j \in T) ELSE jobs[j]
      BY <1>2
  <2>2. PICK taken \in BOOLEAN : taken <=> j \in T
      OBVIOUS
  <2>3. j \in Jobs!Due => jobs'[j] = Given(jobs[j], jobs[j].every, taken)
      BY <2>1, <2>2 DEF Given
  <2> DEFINE g == Given(jobs[j], jobs[j].every, taken)
  <2>4. /\ g \in JobEntries /\ g.every = jobs[j].every
        /\ g.running <=> (jobs[j].running \/ taken)
      BY <1>4, GivenEntry
  <2> HIDE DEF g
  <2>5. CASE j \in Jobs!Due
    <3>1. jobs'[j] = g
        BY <2>3, <2>5 DEF g
    <3> QED
        BY <3>1, <2>2, <2>4, <2>5
  <2>6. CASE j \notin Jobs!Due
      BY <2>1, <2>6, <1>4
  <2> QED
      BY <2>5, <2>6
<1>6. \A j \in T : /\ ~jobs[j].running /\ j \in JobIds
                   /\ Jobs!NewRun(j) \in JobIds \X (1..MaxRunning) /\ Jobs!NewRun(j)[1] = j
                   /\ Jobs!NewRun(j) \notin jobRuns
    BY <1>2, HandedOver
<1>7. \A j \in JobIds : Jobs!RunsOf(j)' = Jobs!RunsOf(j) \cup {Jobs!NewRun(i) : i \in T \cap {j}}
    BY <1>2, <1>6 DEF Jobs!RunsOf
<1>8. \A j \in JobIds : j \in Jobs!Held' => j \in Jobs!Held
  <2>1. \A j \in JobIds : j \notin Jobs!Held => jobs'[j] = jobs[j]
      BY <1>3, <1>5
  <2> QED
      BY <2>1 DEF Jobs!Held
<1>9. /\ \A o \in Jobs!Owners : Cardinality({j \in T : JobOwner(j) = o}) \in Nat
      /\ Cardinality(T) \in Nat
    BY <1>3, GoingFinite
<1>10. JobsTyped'
  <2>1. jobs' \in [JobIds -> JobEntries]
      BY <1>2, <1>5
  <2>2. \A j \in JobIds : jobs'[j].every = 0 => jobs'[j] = Jobs!NoJob
    <3>1. \A j \in JobIds : jobs[j].every = 0 => j \notin Jobs!Due /\ jobs[j] = Jobs!NoJob
        BY <1>1, <1>3, <1>4 DEF JobsTyped
    <3> QED
        BY <3>1, <1>5
  <2>3. jobRuns' \in SUBSET (JobIds \X (1..MaxRunning)) /\ renewed' \in SUBSET JobIds
      BY <1>1, <1>2, <1>6 DEF JobsTyped
  <2>4. running' \in Nat /\ perOwner' \in [Jobs!Owners -> Nat]
      BY <1>1, <1>2, <1>9 DEF JobsTyped
  <2> QED
      BY <2>1, <2>2, <2>3, <2>4 DEF JobsTyped, Jobs!NoJob, Jobs!Owners
<1> DEFINE New(S) == {Jobs!NewRun(j) : j \in S}
<1>11. ASSUME NEW S \in SUBSET T
       PROVE  Cardinality(New(S)) = Cardinality(S) /\ IsFiniteSet(New(S)) /\ New(S) \cap jobRuns = {}
  <2>1. S \in SUBSET JobIds /\ \A j \in S : Jobs!NewRun(j)[1] = j
      BY <1>3, <1>6
  <2>2. Cardinality(New(S)) = Cardinality(S)
      BY <2>1, OneOfEach
  <2>3. New(S) \in SUBSET (JobIds \X (1..MaxRunning)) /\ New(S) \cap jobRuns = {}
      BY <1>6
  <2> HIDE DEF New
  <2> QED
      BY <2>2, <2>3, RunsFinite
<1>12. /\ IsFiniteSet(jobRuns)
       /\ \A o : IsFiniteSet(Jobs!OwnRuns(o)) /\ Jobs!OwnRuns(o) \in SUBSET jobRuns
    BY <1>1, RunsFinite DEF JobsTyped, Jobs!OwnRuns
<1>13. Jobs!SlotsAreTheRuns'
  <2>1. running' = Cardinality(jobRuns')
    <3>1. jobRuns' = jobRuns \cup New(T)
        BY <1>2
    <3> HIDE DEF New
    <3>2. Cardinality(jobRuns \cup New(T)) = Cardinality(jobRuns) + Cardinality(T)
        BY <1>11, <1>12, ApartAdds
    <3> QED
        BY <3>1, <3>2, <1>2 DEF JobsInv, Jobs!SlotsAreTheRuns
  <2>2. ASSUME NEW o \in Jobs!Owners
        PROVE  perOwner'[o] = Cardinality(Jobs!OwnRuns(o)')
    <3> DEFINE S == {j \in T : JobOwner(j) = o}
    <3>1. Jobs!OwnRuns(o)' = Jobs!OwnRuns(o) \cup New(S)
        BY <1>2, <1>6 DEF Jobs!OwnRuns
    <3>2. S \in SUBSET T /\ perOwner'[o] = perOwner[o] + Cardinality(S)
        BY <1>2
    <3> HIDE DEF S, New
    <3>3. Cardinality(New(S)) = Cardinality(S) /\ IsFiniteSet(New(S)) /\ New(S) \cap Jobs!OwnRuns(o) = {}
        BY <3>2, <1>11, <1>12
    <3>4. Cardinality(Jobs!OwnRuns(o) \cup New(S)) = Cardinality(Jobs!OwnRuns(o)) + Cardinality(S)
        BY <3>3, <1>12, ApartAdds
    <3> QED
        BY <3>1, <3>2, <3>4 DEF JobsInv, Jobs!SlotsAreTheRuns
  <2> QED
      BY <2>1, <2>2 DEF Jobs!SlotsAreTheRuns, Jobs!Owners
<1>14. Jobs!Ceilings'
    BY <1>2, TakenFits DEF Jobs!Ceilings, Jobs!Owners
<1>15. Jobs!MarkersAreTrue'
  <2> SUFFICES ASSUME NEW j \in JobIds
               PROVE  /\ jobs'[j].running => Jobs!RunsOf(j)' # {}
                      /\ j \notin renewed => \A r, q \in Jobs!RunsOf(j)' : r = q
                      /\ j \in Jobs!Held' \ renewed => (jobs'[j].running <=> Jobs!RunsOf(j)' # {})
      BY <1>2 DEF Jobs!MarkersAreTrue
  <2>1. /\ jobs[j].running => Jobs!RunsOf(j) # {}
        /\ j \notin renewed => \A r, q \in Jobs!RunsOf(j) : r = q
        /\ j \in Jobs!Held \ renewed => (jobs[j].running <=> Jobs!RunsOf(j) # {})
      BY DEF JobsInv, Jobs!MarkersAreTrue
  <2>2. CASE j \in T
    <3>1. Jobs!RunsOf(j)' = Jobs!RunsOf(j) \cup {Jobs!NewRun(j)}
        BY <2>2, <1>7
    <3>2. jobs'[j].running /\ ~jobs[j].running /\ j \in Jobs!Held
        BY <2>2, <1>3, <1>5, <1>6, <1>2
    <3>3. j \notin renewed => Jobs!RunsOf(j) = {}
        BY <3>2, <2>1
    <3> QED
        BY <3>1, <3>2, <3>3
  <2>3. CASE j \notin T
    <3>1. Jobs!RunsOf(j)' = Jobs!RunsOf(j)
        BY <2>3, <1>7
    <3>2. jobs'[j].running <=> jobs[j].running
        BY <2>3, <1>5
    <3> QED
        BY <3>1, <3>2, <2>1, <1>8
  <2> QED
      BY <2>2, <2>3
<1> QED
    BY <1>10, <1>13, <1>14, <1>15 DEF JobsInv

\* The end of a run gives its slot back, and an entry of the job, if there is one, is free again.
Ended(r) == [r EXCEPT !.running = FALSE]
LEMMA EndedEntry ==
  ASSUME NEW r \in JobEntries
  PROVE  Ended(r) \in JobEntries /\ Ended(r).every = r.every /\ Ended(r).running = FALSE
  BY DEF Ended, JobEntries

LEMMA FinishedJobs ==
  ASSUME JobsInv, NEW q \in jobRuns, Jobs!Finished(q)
  PROVE  JobsInv'
<1> USE JobsCardinality
<1>1. JobsTyped
    BY DEF JobsInv
<1>2. PICK j \in JobIds : j = q[1]
    BY <1>1 DEF JobsTyped
<1>3. /\ jobRuns' = jobRuns \ {q} /\ renewed' = {i \in renewed : Jobs!RunsOf(i) # {q}}
      /\ jobs' = [jobs EXCEPT ![j] = Ended(jobs[j])]
      /\ running' = IF running > 0 THEN running - 1 ELSE 0
      /\ perOwner' = [perOwner EXCEPT ![JobOwner(j)] = IF @ > 0 THEN @ - 1 ELSE 0]
    BY <1>2 DEF Jobs!Finished, Jobs!Leaves, Ended
<1>4. /\ jobs'[j] \in JobEntries /\ jobs'[j].every = jobs[j].every /\ jobs'[j].running = FALSE
      /\ \A i \in JobIds \ {j} : jobs'[i] = jobs[i]
  <2>1. jobs[j] \in JobEntries /\ DOMAIN jobs = JobIds
      BY <1>1 DEF JobsTyped
  <2> QED
      BY <2>1, <1>3, EndedEntry
<1>5. jobs[j].every = 0 => jobs'[j] = Jobs!NoJob
  <2>1. Ended(Jobs!NoJob) = Jobs!NoJob
    <3>1. Jobs!NoJob \in JobEntries /\ Jobs!NoJob.running = FALSE
        BY DEF Jobs!NoJob, JobEntries
    <3> QED
        BY <3>1 DEF Ended, JobEntries
  <2> QED
      BY <2>1, <1>1, <1>3 DEF JobsTyped
<1>6. /\ IsFiniteSet(jobRuns) /\ Cardinality(jobRuns) \in Nat
      /\ \A o : /\ IsFiniteSet(Jobs!OwnRuns(o)) /\ Cardinality(Jobs!OwnRuns(o)) \in Nat
    BY <1>1, RunsFinite DEF JobsTyped, Jobs!OwnRuns
<1>7. running = Cardinality(jobRuns) /\ running' = Cardinality(jobRuns')
  <2>1. Cardinality(jobRuns') = Cardinality(jobRuns) - 1 /\ Cardinality(jobRuns') \in Nat
      BY <1>3, <1>6, FS_RemoveElement, FS_CardinalityType
  <2>2. running = Cardinality(jobRuns)
      BY DEF JobsInv, Jobs!SlotsAreTheRuns
  <2> QED
      BY <2>1, <2>2, <1>3, <1>6
<1>8. ASSUME NEW o \in Jobs!Owners
      PROVE  /\ perOwner'[o] = Cardinality(Jobs!OwnRuns(o)')
             /\ perOwner'[o] \in Nat /\ perOwner'[o] <= perOwner[o]
  <2> DEFINE G == Jobs!OwnRuns(o)
  <2>1. perOwner[o] = Cardinality(G) /\ IsFiniteSet(G) /\ Cardinality(G) \in Nat
      BY <1>6 DEF JobsInv, Jobs!SlotsAreTheRuns
  <2>2. CASE JobOwner(j) = o
    <3>1. Jobs!OwnRuns(o)' = G \ {q} /\ q \in G
        BY <2>2, <1>2, <1>3 DEF Jobs!OwnRuns
    <3>2. perOwner'[o] = IF perOwner[o] > 0 THEN perOwner[o] - 1 ELSE 0
        BY <2>2, <1>1, <1>3 DEF JobsTyped
    <3> HIDE DEF G
    <3>3. Cardinality(G \ {q}) = Cardinality(G) - 1 /\ IsFiniteSet(G \ {q})
        BY <2>1, <3>1, FS_RemoveElement
    <3>4. Cardinality(G \ {q}) \in Nat
        BY <3>3, FS_CardinalityType
    <3> QED
        BY <3>1, <3>2, <3>3, <3>4, <2>1
  <2>3. CASE JobOwner(j) # o
    <3>1. Jobs!OwnRuns(o)' = G
        BY <2>3, <1>2, <1>3 DEF Jobs!OwnRuns
    <3>2. perOwner'[o] = perOwner[o]
        BY <2>3, <1>1, <1>3 DEF JobsTyped
    <3> QED
        BY <3>1, <3>2, <2>1
  <2> QED
      BY <2>2, <2>3
<1>9. Jobs!SlotsAreTheRuns'
    BY <1>7, <1>8 DEF Jobs!SlotsAreTheRuns, Jobs!Owners
<1>10. running' \in Nat /\ running' <= running
    BY <1>1, <1>3 DEF JobsTyped
<1>11. Jobs!Ceilings'
  <2>1. running <= MaxRunning /\ running \in Nat
      BY <1>1 DEF JobsInv, JobsTyped, Jobs!Ceilings
  <2>2. running' <= MaxRunning
      BY <2>1, <1>10, JobsAssumption
  <2>3. ASSUME NEW o \in Jobs!Owners PROVE perOwner'[o] <= MaxPerOwner
    <3>1. perOwner[o] <= MaxPerOwner /\ perOwner[o] \in Nat
        BY <1>1 DEF JobsInv, JobsTyped, Jobs!Ceilings
    <3>2. perOwner'[o] \in Nat /\ perOwner'[o] <= perOwner[o]
        BY <1>8
    <3> QED
        BY <3>1, <3>2, JobsAssumption
  <2> QED
      BY <2>2, <2>3 DEF Jobs!Ceilings, Jobs!Owners
<1>12. perOwner' \in [Jobs!Owners -> Nat]
    BY <1>1, <1>3, <1>8 DEF JobsTyped
<1>13. \A i \in JobIds : jobs'[i].every = 0 => jobs'[i] = Jobs!NoJob
    BY <1>1, <1>4, <1>5 DEF JobsTyped
<1>14. JobsTyped'
  <2>1. /\ jobs' \in [JobIds -> JobEntries] /\ renewed' \in SUBSET JobIds
        /\ jobRuns' \in SUBSET (JobIds \X (1..MaxRunning))
      BY <1>1, <1>3, <1>4 DEF JobsTyped
  <2> QED
      BY <2>1, <1>10, <1>12, <1>13 DEF JobsTyped, Jobs!NoJob, Jobs!Owners
<1>15. /\ \A i \in JobIds \ {j} : (i \in Jobs!Held' => i \in Jobs!Held) /\ Jobs!RunsOf(i)' = Jobs!RunsOf(i)
       /\ q \in Jobs!RunsOf(j) /\ Jobs!RunsOf(j)' = Jobs!RunsOf(j) \ {q}
       /\ \A i \in JobIds \ {j} : q \notin Jobs!RunsOf(i)
    BY <1>2, <1>3, <1>4 DEF Jobs!Held, Jobs!RunsOf
<1>16. Jobs!MarkersAreTrue'
  <2> SUFFICES ASSUME NEW i \in JobIds
               PROVE  /\ jobs'[i].running => Jobs!RunsOf(i)' # {}
                      /\ i \notin renewed' => \A r, p \in Jobs!RunsOf(i)' : r = p
                      /\ i \in Jobs!Held' \ renewed' => (jobs'[i].running <=> Jobs!RunsOf(i)' # {})
      BY DEF Jobs!MarkersAreTrue
  <2>1. /\ jobs[i].running => Jobs!RunsOf(i) # {}
        /\ i \notin renewed => \A r, p \in Jobs!RunsOf(i) : r = p
        /\ i \in Jobs!Held \ renewed => (jobs[i].running <=> Jobs!RunsOf(i) # {})
      BY DEF JobsInv, Jobs!MarkersAreTrue
  <2>2. CASE i = j
    <3>1. j \notin renewed' => Jobs!RunsOf(j) = {q}
      <4>1. j \notin renewed => \A r \in Jobs!RunsOf(j) : r = q
          BY <2>1, <2>2, <1>15
      <4>2. j \notin renewed' => j \notin renewed \/ Jobs!RunsOf(j) = {q}
          BY <1>3
      <4> QED
          BY <4>1, <4>2, <1>15
    <3> QED
        BY <2>2, <3>1, <1>4, <1>15
  <2>3. CASE i # j
    <3>1. i \notin renewed' => i \notin renewed
        BY <2>3, <1>3, <1>15
    <3> QED
        BY <2>1, <2>3, <3>1, <1>4, <1>15
  <2> QED
      BY <2>2, <2>3
<1> QED
    BY <1>9, <1>11, <1>14, <1>16 DEF JobsInv

\* What a pass passes over is what has no room beside those before it.
LEMMA PassSkips ==
  ASSUME JobsInv, Jobs!Pass, NEW j \in JobIds, Jobs!Skipped(j)
  PROVE  \/ running + Cardinality(Jobs!Ahead(j)) >= MaxRunning
         \/ perOwner[JobOwner(j)] + Cardinality({i \in Jobs!Ahead(j) : JobOwner(i) = JobOwner(j)}) >= MaxPerOwner
<1> USE JobsCardinality
<1>1. PICK T \in SUBSET Jobs!Due :
        /\ Jobs!Taken(T)
        /\ jobRuns' = jobRuns \cup {Jobs!NewRun(i) : i \in T}
    BY DEF Jobs!Pass
<1>2. \A i \in T : Jobs!NewRun(i)[1] = i /\ Jobs!NewRun(i) \notin jobRuns
    BY <1>1, HandedOver
<1>3. \A i \in JobIds : Jobs!RunsOf(i)' # Jobs!RunsOf(i) <=> i \in T
    BY <1>1, <1>2 DEF Jobs!RunsOf
<1>4. Jobs!Due \in SUBSET JobIds
    BY DEF Jobs!Due, Jobs!Held
<1>5. Jobs!Ahead(j) = {i \in T : Jobs!Before(i, j)}
    BY <1>1, <1>3, <1>4 DEF Jobs!Ahead
<1>6. j \in Jobs!Due /\ ~jobs[j].running /\ j \notin T
    BY <1>3 DEF Jobs!Skipped
<1>7. ~Jobs!Fits(j, Jobs!Ahead(j))
    BY <1>1, <1>5, <1>6 DEF Jobs!Taken
<1>8. running \in Nat /\ perOwner[JobOwner(j)] \in Nat
    BY OwnersHave DEF JobsInv, JobsTyped
<1>9. /\ Cardinality(Jobs!Ahead(j)) \in Nat
      /\ Cardinality({i \in Jobs!Ahead(j) : JobOwner(i) = JobOwner(j)}) \in Nat
  <2>1. Jobs!Ahead(j) \in SUBSET JobIds
      BY <1>4 DEF Jobs!Ahead
  <2> HIDE DEF Jobs!Ahead
  <2> QED
      BY <2>1, GoingFinite
<1> HIDE DEF Jobs!Ahead
<1> QED
    BY <1>6, <1>7, <1>8, <1>9, JobsAssumption DEF Jobs!Fits

\* Nothing but a pass gives a job that is due its next tick.
LEMMA OnlyAPassSkips ==
  ASSUME JobsInv, [Jobs!Next]_Jobs!vars, ~Jobs!Pass, NEW j \in JobIds
  PROVE  ~Jobs!Skipped(j)
<1> SUFFICES ASSUME Jobs!Skipped(j) PROVE FALSE
    OBVIOUS
<1>1. JobsTyped
    BY DEF JobsInv
<1>2. j \in Jobs!Held /\ jobs[j].every \in Nat \ {0} /\ jobs[j].next \in Int
    BY <1>1, HeldHasPeriod DEF Jobs!Skipped, Jobs!Due
<1>3. jobs[j] \in JobEntries
    BY <1>1 DEF JobsTyped
<1>4. jobs'[j].every = jobs[j].every /\ jobs'[j].next = jobs[j].next + jobs[j].every
    BY <1>3 DEF Jobs!Skipped, JobEntries
<1>5. jobs'[j].next # jobs[j].next /\ jobs'[j].next # jobs[j].next - 1
    BY <1>2, <1>4
<1>6. ASSUME NEW i \in JobIds, NEW every \in Periods, NEW next \in 1..every, Jobs!Track(i, every, next)
      PROVE  FALSE
  <2>1. jobs'[j] = jobs[j] \/ /\ jobs'[j].every = every
                              /\ jobs[j].every = every => jobs'[j].next = jobs[j].next
      BY <1>6, <1>1 DEF Jobs!Track, JobsTyped
  <2> QED
      BY <2>1, <1>4, <1>5
<1>7. ASSUME NEW i \in JobIds, Jobs!Untrack(i) PROVE FALSE
  <2>1. jobs'[j] = jobs[j] \/ jobs'[j] = Jobs!NoJob
      BY <1>7, <1>1 DEF Jobs!Untrack, JobsTyped
  <2>2. Jobs!NoJob.every = 0
      BY DEF Jobs!NoJob
  <2> QED
      BY <2>1, <2>2, <1>2, <1>4, <1>5
<1>8. ASSUME NEW i \in jobRuns, Jobs!Finished(i) PROVE FALSE
  <2>1. jobs'[j] = jobs[j] \/ jobs'[j] = Ended(jobs[j])
      BY <1>8, <1>1 DEF Jobs!Finished, JobsTyped, Ended
  <2>2. Ended(jobs[j]).next = jobs[j].next
      BY <1>3 DEF Ended, JobEntries
  <2> QED
      BY <2>1, <2>2, <1>5
<1>9. CASE Jobs!TimePasses
  <2>1. jobs'[j] = Later(jobs[j])
      BY <1>9, <1>2 DEF Jobs!TimePasses, Later
  <2> QED
      BY <2>1, <1>3, <1>5, LaterEntry
<1>10. CASE UNCHANGED Jobs!vars
    BY <1>10, <1>5 DEF Jobs!vars
<1> QED
    BY <1>6, <1>7, <1>8, <1>9, <1>10 DEF Jobs!Next

\* The slots of the scheduler are its runs, neither ceiling is passed, and the markers are true.
LEMMA JobsInvariant == Jobs!Init /\ [][Jobs!Next]_Jobs!vars => []JobsInv
<1>1. JobsInv /\ [Jobs!Next]_Jobs!vars => JobsInv'
  <2> SUFFICES ASSUME JobsInv, [Jobs!Next]_Jobs!vars PROVE JobsInv'
      OBVIOUS
  <2>1. ASSUME NEW j \in JobIds, NEW every \in Periods, NEW next \in 1..every, Jobs!Track(j, every, next)
        PROVE  JobsInv'
      BY <2>1, TrackJobs
  <2>2. ASSUME NEW j \in JobIds, Jobs!Untrack(j) PROVE JobsInv'
      BY <2>2, UntrackJobs
  <2>3. ASSUME NEW r \in jobRuns, Jobs!Finished(r) PROVE JobsInv'
      BY <2>3, FinishedJobs
  <2>4. CASE Jobs!TimePasses
      BY <2>4, TimeJobs
  <2>5. CASE Jobs!Pass
      BY <2>5, PassJobs
  <2>6. CASE UNCHANGED Jobs!vars
      BY <2>6 DEF Jobs!vars, JobsInv, JobsTyped, Jobs!SlotsAreTheRuns, Jobs!Ceilings, Jobs!MarkersAreTrue,
                  Jobs!OwnRuns, Jobs!RunsOf, Jobs!Held
  <2> QED
      BY <2>1, <2>2, <2>3, <2>4, <2>5, <2>6 DEF Jobs!Next
<1> QED
    BY <1>1, JobsBegin, PTL

\* A tick is passed over only for what was due before it, whatever the jobs and the ceilings.
THEOREM TicksAreShared ==
    Jobs!Init /\ [][Jobs!Next]_Jobs!vars => Jobs!SkippedForWhatWasDueBefore
<1>1. JobsInv /\ [Jobs!Next]_Jobs!vars =>
        [\A j \in JobIds : Jobs!Skipped(j) =>
           \/ running + Jobs!Cardinality(Jobs!Ahead(j)) >= MaxRunning
           \/ perOwner[JobOwner(j)] + Jobs!Cardinality({i \in Jobs!Ahead(j) : JobOwner(i) = JobOwner(j)})
                >= MaxPerOwner]_Jobs!vars
    BY PassSkips, OnlyAPassSkips, JobsCardinality
<1> QED
    BY <1>1, JobsInvariant, PTL DEF Jobs!SkippedForWhatWasDueBefore

-----------------------------------------------------------------------------
(* The re-resolve of the proxy.                                            *)

Somebody == Visitors \cup {"nobody"}
Steps    == {"off", "dial", "resolve", "wait", "read", "inspect", "drop", "publish"}
AnswersSaid  == [by : Somebody, open : BOOLEAN, dropped : BOOLEAN, left : Nat]
RequestsSaid == [at : Steps, id : Routed \cup {"none"}, on : Somebody, dropped : BOOLEAN, stale : BOOLEAN]

\* A request that asks about a route as it is now is the one the answer of the route waits for.
IsAsking(q) == q.at \in {"inspect", "drop", "publish"}
Placed(q)   == q.at # "off" => q.id \in Routed
RoutesTyped ==
    /\ answers \in [Routed -> AnswersSaid] /\ reqs \in [Visitors -> RequestsSaid]
    /\ cool \in [Routed -> Nat]
    /\ \A r \in Visitors : Placed(reqs[r])
WindowsAgree == \A i \in Routed : answers[i].left = cool[i]
Answers(r, q) == IsAsking(q) /\ ~q.stale => answers[q.id].open /\ answers[q.id].by = r
RoutesInv == RoutesTyped /\ WindowsAgree /\ \A r \in Visitors : Answers(r, reqs[r])

\* What the steps do to one request, and to one answer.
Stale(q)      == [q EXCEPT !.stale = TRUE]
Goes(q, s)    == [q EXCEPT !.at = s]
Asks(q)       == [q EXCEPT !.at = "inspect", !.stale = FALSE]
WaitsFor(q, b) == [q EXCEPT !.at = "wait", !.on = b]
Drops(q)      == [q EXCEPT !.at = "publish", !.dropped = TRUE]
Starts(i)     == [Routes!Quiet EXCEPT !.at = "dial", !.id = i]
Opened(r)     == [Routes!NoAnswer EXCEPT !.by = r, !.open = TRUE, !.left = Window]
Closed(a, d)  == [a EXCEPT !.open = FALSE, !.dropped = d]
Aged(a)       == [a EXCEPT !.left = IF @ > 0 THEN @ - 1 ELSE 0]

LEMMA RoutesBegin == Routes!Init => RoutesInv
<1> SUFFICES ASSUME Routes!Init PROVE RoutesInv
    OBVIOUS
<1>1. Routes!NoAnswer \in AnswersSaid /\ Routes!NoAnswer.left = 0
    BY DEF Routes!NoAnswer, AnswersSaid, Somebody
<1>2. Routes!Quiet \in RequestsSaid /\ Routes!Quiet.at = "off"
    BY DEF Routes!Quiet, RequestsSaid, Somebody, Steps
<1> QED
    BY <1>1, <1>2 DEF Routes!Init, RoutesInv, RoutesTyped, WindowsAgree, Answers, IsAsking, Placed

\* A step of one request that asks nothing new keeps what the answers say of the others.
LEMMA GoKeeps ==
  ASSUME RoutesInv, NEW r \in Visitors, NEW q \in RequestsSaid, Routes!Go(r, q),
         UNCHANGED <<answers, cool>>, Placed(q), Answers(r, q)
  PROVE  RoutesInv'
<1>1. reqs' = [reqs EXCEPT ![r] = q] /\ reqs \in [Visitors -> RequestsSaid]
    BY DEF Routes!Go, RoutesInv, RoutesTyped
<1>2. \A o \in Visitors : reqs'[o] = IF o = r THEN q ELSE reqs[o]
    BY <1>1
<1>3. RoutesTyped'
    BY <1>1, <1>2 DEF RoutesInv, RoutesTyped, Placed
<1>4. WindowsAgree'
    BY DEF RoutesInv, WindowsAgree
<1>5. \A o \in Visitors : Answers(o, reqs[o])
    BY DEF RoutesInv
<1>6. \A o \in Visitors : Answers(o, reqs[o])'
    BY <1>2, <1>5 DEF Answers, IsAsking
<1> QED
    BY <1>3, <1>4, <1>6 DEF RoutesInv

\* The route is written anew: what was asked of it is stale.
LEMMA ForgetKeeps ==
  ASSUME RoutesInv, NEW i \in Routed, Routes!Forget(i)
  PROVE  RoutesInv'
<1>1. RoutesTyped /\ WindowsAgree
    BY DEF RoutesInv
<1>2. /\ answers' = [answers EXCEPT ![i] = Routes!NoAnswer] /\ cool' = [cool EXCEPT ![i] = 0]
      /\ reqs' = [r \in Visitors |-> IF reqs[r].id = i /\ IsAsking(reqs[r]) THEN Stale(reqs[r]) ELSE reqs[r]]
    BY DEF Routes!Forget, Routes!Asking, IsAsking, Stale
<1>3. \A r \in Visitors : reqs[r] \in RequestsSaid /\ Placed(reqs[r])
    BY <1>1 DEF RoutesTyped
<1>4. \A r \in Visitors :
         /\ reqs'[r] \in RequestsSaid /\ reqs'[r].at = reqs[r].at /\ reqs'[r].id = reqs[r].id
         /\ reqs'[r] = reqs[r] \/ reqs'[r].stale
         /\ reqs[r].id = i /\ IsAsking(reqs[r]) => reqs'[r].stale
  <2>1. \A r \in Visitors :
           /\ Stale(reqs[r]) \in RequestsSaid /\ Stale(reqs[r]).at = reqs[r].at
           /\ Stale(reqs[r]).id = reqs[r].id /\ Stale(reqs[r]).stale
      BY <1>3 DEF Stale, RequestsSaid
  <2> QED
      BY <2>1, <1>2, <1>3
<1>5. Routes!NoAnswer \in AnswersSaid /\ Routes!NoAnswer.left = 0
    BY DEF Routes!NoAnswer, AnswersSaid, Somebody
<1>6. RoutesTyped'
  <2>1. answers' \in [Routed -> AnswersSaid] /\ cool' \in [Routed -> Nat]
      BY <1>1, <1>2, <1>5 DEF RoutesTyped
  <2>2. reqs' \in [Visitors -> RequestsSaid] /\ \A r \in Visitors : Placed(reqs'[r])
      BY <1>2, <1>3, <1>4 DEF Placed
  <2> QED
      BY <2>1, <2>2 DEF RoutesTyped, Placed
<1>7. WindowsAgree'
    BY <1>1, <1>2, <1>5 DEF RoutesTyped, WindowsAgree
<1>8. ASSUME NEW r \in Visitors, IsAsking(reqs'[r]), ~reqs'[r].stale
      PROVE  answers'[reqs'[r].id].open /\ answers'[reqs'[r].id].by = r
  <2>1. reqs'[r] = reqs[r] /\ reqs[r].id # i
      BY <1>4, <1>8 DEF IsAsking
  <2>2. answers[reqs[r].id].open /\ answers[reqs[r].id].by = r
      BY <2>1, <1>8 DEF RoutesInv, Answers
  <2>3. answers'[reqs[r].id] = answers[reqs[r].id]
    <3>1. reqs[r].id \in Routed
        BY <2>1, <1>3, <1>8 DEF Placed, IsAsking
    <3> QED
        BY <3>1, <2>1, <1>1, <1>2 DEF RoutesTyped
  <2> QED
      BY <2>1, <2>2, <2>3
<1> QED
    BY <1>6, <1>7, <1>8 DEF RoutesInv, Answers, IsAsking

\* A request asks of a route of which nobody waits for an answer.
LEMMA AskKeeps ==
  ASSUME RoutesInv, NEW r \in Visitors, reqs[r].at = "resolve", ~answers[reqs[r].id].open, Routes!Ask(r)
  PROVE  RoutesInv'
<1>1. RoutesTyped /\ WindowsAgree /\ \A o \in Visitors : Answers(o, reqs[o])
    BY DEF RoutesInv
<1>2. PICK i \in Routed : i = reqs[r].id
    BY <1>1 DEF RoutesTyped, Placed
<1>3. /\ answers' = [answers EXCEPT ![i] = Opened(r)] /\ cool' = [cool EXCEPT ![i] = Window]
      /\ reqs' = [reqs EXCEPT ![r] = Asks(reqs[r])]
    BY <1>2 DEF Routes!Ask, Routes!Go, Opened, Asks
<1>4. /\ Asks(reqs[r]) \in RequestsSaid /\ Asks(reqs[r]).at = "inspect" /\ Asks(reqs[r]).id = i
      /\ Opened(r) \in AnswersSaid /\ Opened(r).by = r /\ Opened(r).open /\ Opened(r).left = Window
  <2>1. reqs[r] \in RequestsSaid
      BY <1>1 DEF RoutesTyped
  <2>2. Asks(reqs[r]) \in RequestsSaid /\ Asks(reqs[r]).at = "inspect" /\ Asks(reqs[r]).id = i
      BY <2>1, <1>2 DEF Asks, RequestsSaid, Steps
  <2>3. Routes!NoAnswer \in AnswersSaid
      BY DEF Routes!NoAnswer, AnswersSaid, Somebody
  <2>4. Opened(r) \in AnswersSaid /\ Opened(r).by = r /\ Opened(r).open /\ Opened(r).left = Window
      BY <2>3, BoundsAssumption DEF Opened, AnswersSaid, Somebody
  <2> QED
      BY <2>2, <2>4
<1>5. /\ \A o \in Visitors \ {r} : reqs'[o] = reqs[o]
      /\ reqs'[r] = Asks(reqs[r])
      /\ answers'[i] = Opened(r) /\ \A j \in Routed \ {i} : answers'[j] = answers[j] /\ cool'[j] = cool[j]
      /\ cool'[i] = Window
    BY <1>1, <1>3 DEF RoutesTyped
<1>6. RoutesTyped'
  <2>1. answers' \in [Routed -> AnswersSaid] /\ cool' \in [Routed -> Nat] /\ reqs' \in [Visitors -> RequestsSaid]
      BY <1>1, <1>3, <1>4, BoundsAssumption DEF RoutesTyped
  <2>2. \A o \in Visitors : Placed(reqs'[o])
      BY <1>1, <1>4, <1>5 DEF RoutesTyped, Placed
  <2> QED
      BY <2>1, <2>2 DEF RoutesTyped, Placed
<1>7. WindowsAgree'
    BY <1>1, <1>4, <1>5 DEF WindowsAgree
<1>8. ASSUME NEW o \in Visitors, IsAsking(reqs'[o]), ~reqs'[o].stale
      PROVE  answers'[reqs'[o].id].open /\ answers'[reqs'[o].id].by = o
  <2>1. CASE o = r
      BY <2>1, <1>4, <1>5
  <2>2. CASE o # r
    <3>1. reqs'[o] = reqs[o]
        BY <2>2, <1>5
    <3>2. answers[reqs[o].id].open /\ answers[reqs[o].id].by = o
        BY <3>1, <1>1, <1>8 DEF Answers
    <3>3. reqs[o].id # i
        BY <3>2, <1>2
    <3>4. reqs[o].id \in Routed
        BY <3>1, <1>1, <1>8 DEF RoutesTyped, Placed, IsAsking
    <3> QED
        BY <3>1, <3>2, <3>3, <3>4, <1>5
  <2> QED
      BY <2>1, <2>2
<1> QED
    BY <1>6, <1>7, <1>8 DEF RoutesInv, Answers, IsAsking

LEMMA ResolveKeeps ==
  ASSUME RoutesInv, NEW r \in Visitors, Routes!Resolve(r)
  PROVE  RoutesInv'
<1>1. /\ reqs[r] \in RequestsSaid /\ reqs[r].at = "resolve" /\ reqs[r].id \in Routed
      /\ answers[reqs[r].id].by \in Somebody
    BY DEF Routes!Resolve, Routes!At, RoutesInv, RoutesTyped, Placed, AnswersSaid
<1>2. /\ Routes!Quiet \in RequestsSaid /\ Routes!Quiet.at = "off"
      /\ \A b \in Somebody : /\ WaitsFor(reqs[r], b) \in RequestsSaid /\ WaitsFor(reqs[r], b).at = "wait"
                             /\ WaitsFor(reqs[r], b).id = reqs[r].id
  <2>1. Routes!Quiet \in RequestsSaid /\ Routes!Quiet.at = "off"
      BY DEF Routes!Quiet, RequestsSaid, Somebody, Steps
  <2>2. \A b \in Somebody : /\ WaitsFor(reqs[r], b) \in RequestsSaid /\ WaitsFor(reqs[r], b).at = "wait"
                            /\ WaitsFor(reqs[r], b).id = reqs[r].id
      BY <1>1 DEF WaitsFor, RequestsSaid, Steps
  <2> QED
      BY <2>1, <2>2
<1>3. ASSUME Routes!Go(r, WaitsFor(reqs[r], answers[reqs[r].id].by)), UNCHANGED <<answers, cool>>
      PROVE  RoutesInv'
    BY <1>1, <1>2, <1>3, GoKeeps DEF Placed, Answers, IsAsking
<1>4. ASSUME Routes!Go(r, Routes!Quiet), UNCHANGED <<answers, cool>> PROVE RoutesInv'
    BY <1>2, <1>4, GoKeeps DEF Placed, Answers, IsAsking
<1>5. ASSUME ~answers[reqs[r].id].open, Routes!Ask(r) PROVE RoutesInv'
    BY <1>1, <1>5, AskKeeps
<1> QED
    BY <1>3, <1>4, <1>5 DEF Routes!Resolve, WaitsFor

\* The answer closes the entry it opened, and whoever waited goes on.
LEMMA PublishKeeps ==
  ASSUME RoutesInv, NEW r \in Visitors, Routes!Publish(r)
  PROVE  RoutesInv'
<1>1. RoutesTyped /\ WindowsAgree /\ \A o \in Visitors : Answers(o, reqs[o])
    BY DEF RoutesInv
<1>2. PICK i \in Routed : i = reqs[r].id
    BY <1>1 DEF RoutesTyped, Placed, Routes!Publish, Routes!At
<1>3. PICK d \in BOOLEAN : d = reqs[r].dropped
    BY <1>1 DEF RoutesTyped, RequestsSaid
<1>4. /\ UNCHANGED cool
      /\ \/ answers' = answers
         \/ /\ answers[i].by = r /\ answers' = [answers EXCEPT ![i] = Closed(answers[i], d)]
      /\ reqs' = [q \in Visitors |-> IF q = r THEN Routes!Quiet
                     ELSE IF reqs[q].at = "wait" /\ reqs[q].on = r THEN Goes(reqs[q], "read") ELSE reqs[q]]
    BY <1>1, <1>2, <1>3 DEF Routes!Publish, Routes!Settled, Routes!Mine, Routes!Released, Routes!At, Closed, Goes,
         RoutesTyped
<1>5. /\ Closed(answers[i], d) \in AnswersSaid /\ Closed(answers[i], d).left = answers[i].left
  <2>1. answers[i] \in AnswersSaid
      BY <1>1 DEF RoutesTyped
  <2> QED
      BY <2>1 DEF Closed, AnswersSaid
<1>6. \A q \in Visitors : /\ reqs[q] \in RequestsSaid /\ Goes(reqs[q], "read") \in RequestsSaid
                          /\ Goes(reqs[q], "read").at = "read" /\ Goes(reqs[q], "read").id = reqs[q].id
                          /\ Placed(reqs[q])
  <2>1. \A q \in Visitors : reqs[q] \in RequestsSaid /\ Placed(reqs[q])
      BY <1>1 DEF RoutesTyped
  <2>2. "read" \in Steps
      BY DEF Steps
  <2> QED
      BY <2>1, <2>2 DEF Goes, RequestsSaid
<1>7. Routes!Quiet \in RequestsSaid /\ Routes!Quiet.at = "off"
    BY DEF Routes!Quiet, RequestsSaid, Somebody, Steps
<1>8. \A q \in Visitors : \/ reqs'[q] = reqs[q] /\ q # r
                          \/ reqs'[q].at = "off"
                          \/ reqs'[q].at = "read" /\ reqs'[q].id = reqs[q].id /\ reqs[q].at = "wait"
    BY <1>4, <1>6, <1>7
<1>9. /\ answers' \in [Routed -> AnswersSaid]
      /\ \A j \in Routed : answers'[j].left = answers[j].left
      /\ \A j \in Routed : answers[j].by # r => answers'[j] = answers[j]
  <2>1. CASE answers' = answers
      BY <2>1, <1>1 DEF RoutesTyped
  <2>2. CASE answers[i].by = r /\ answers' = [answers EXCEPT ![i] = Closed(answers[i], d)]
    <3> DEFINE a == Closed(answers[i], d)
    <3>1. a \in AnswersSaid /\ a.left = answers[i].left
        BY <1>5
    <3>2. answers[i].by = r /\ answers' = [answers EXCEPT ![i] = a]
        BY <2>2
    <3> HIDE DEF a
    <3> QED
        BY <3>1, <3>2, <1>1 DEF RoutesTyped
  <2> QED
      BY <2>1, <2>2, <1>4
<1>10. RoutesTyped'
  <2>1. reqs' \in [Visitors -> RequestsSaid]
      BY <1>4, <1>6, <1>7
  <2>2. \A q \in Visitors : Placed(reqs'[q])
      BY <1>6, <1>8 DEF Placed
  <2> QED
      BY <2>1, <2>2, <1>1, <1>4, <1>9 DEF RoutesTyped, Placed
<1>11. WindowsAgree'
    BY <1>1, <1>4, <1>9 DEF WindowsAgree
<1>12. ASSUME NEW o \in Visitors, IsAsking(reqs'[o]), ~reqs'[o].stale
       PROVE  answers'[reqs'[o].id].open /\ answers'[reqs'[o].id].by = o
  <2>1. reqs'[o] = reqs[o] /\ o # r
      BY <1>8, <1>12 DEF IsAsking
  <2>2. answers[reqs[o].id].open /\ answers[reqs[o].id].by = o /\ reqs[o].id \in Routed
      BY <2>1, <1>1, <1>6, <1>12 DEF Answers, Placed, IsAsking
  <2> QED
      BY <2>1, <2>2, <1>9
<1> QED
    BY <1>10, <1>11, <1>12 DEF RoutesInv, Answers, IsAsking

LEMMA RoutesTick ==
  ASSUME RoutesInv, Routes!Tick
  PROVE  RoutesInv'
<1>1. RoutesTyped /\ WindowsAgree
    BY DEF RoutesInv
<1>2. /\ answers' = [i \in Routed |-> Aged(answers[i])]
      /\ cool' = [i \in Routed |-> IF cool[i] > 0 THEN cool[i] - 1 ELSE 0]
      /\ UNCHANGED reqs
    BY DEF Routes!Tick, Aged
<1>3. \A i \in Routed : answers[i] \in AnswersSaid /\ answers[i].left = cool[i] /\ cool[i] \in Nat
    BY <1>1 DEF RoutesTyped, WindowsAgree
<1>4. \A i \in Routed : /\ Aged(answers[i]) \in AnswersSaid /\ Aged(answers[i]).open = answers[i].open
                        /\ Aged(answers[i]).by = answers[i].by
                        /\ Aged(answers[i]).left = IF cool[i] > 0 THEN cool[i] - 1 ELSE 0
  <2> SUFFICES ASSUME NEW i \in Routed
               PROVE /\ Aged(answers[i]) \in AnswersSaid /\ Aged(answers[i]).open = answers[i].open
                     /\ Aged(answers[i]).by = answers[i].by
                     /\ Aged(answers[i]).left = IF cool[i] > 0 THEN cool[i] - 1 ELSE 0
      OBVIOUS
  <2> DEFINE n == IF cool[i] > 0 THEN cool[i] - 1 ELSE 0
  <2>1. n \in Nat /\ n = (IF cool[i] > 0 THEN cool[i] - 1 ELSE 0) /\ Aged(answers[i]) = [answers[i] EXCEPT !.left = n]
      BY <1>3 DEF Aged
  <2> HIDE DEF n
  <2> QED
      BY <2>1, <1>3 DEF AnswersSaid
<1>5. RoutesTyped' /\ WindowsAgree'
    BY <1>1, <1>2, <1>3, <1>4 DEF RoutesTyped, WindowsAgree, Placed
<1>6. \A r \in Visitors : IsAsking(reqs[r]) => reqs[r].id \in Routed
    BY <1>1 DEF RoutesTyped, Placed, IsAsking
<1>7. \A i \in Routed : answers'[i].open = answers[i].open /\ answers'[i].by = answers[i].by
    BY <1>2, <1>4
<1>8. \A r \in Visitors : Answers(r, reqs[r])'
    BY <1>2, <1>6, <1>7 DEF RoutesInv, Answers, IsAsking
<1> QED
    BY <1>5, <1>8 DEF RoutesInv

\* The other steps of a request ask nothing new.
LEMMA OthersKeep ==
  ASSUME RoutesInv, NEW r \in Visitors,
         Routes!Lookup(r) \/ Routes!Dial(r) \/ Routes!Inspect(r) \/ Routes!DropPort(r) \/ Routes!Read(r)
  PROVE  RoutesInv'
<1>1. reqs[r] \in RequestsSaid /\ Placed(reqs[r]) /\ Answers(r, reqs[r])
    BY DEF RoutesInv, RoutesTyped
<1>2. Routes!Quiet \in RequestsSaid /\ Routes!Quiet.at = "off"
    BY DEF Routes!Quiet, RequestsSaid, Somebody, Steps
<1>3. \A s \in Steps : /\ Goes(reqs[r], s) \in RequestsSaid /\ Goes(reqs[r], s).at = s
                       /\ Goes(reqs[r], s).id = reqs[r].id /\ Goes(reqs[r], s).stale = reqs[r].stale
    BY <1>1 DEF Goes, RequestsSaid
<1>4. UNCHANGED <<answers, cool>>
    BY DEF Routes!Lookup, Routes!Dial, Routes!Inspect, Routes!DropPort, Routes!Read
<1>5. ASSUME Routes!Go(r, Routes!Quiet) PROVE RoutesInv'
    BY <1>2, <1>4, <1>5, GoKeeps DEF Placed, Answers, IsAsking
<1>6. CASE Routes!Lookup(r)
  <2>1. PICK i \in Routed : Routes!Go(r, Starts(i))
      BY <1>6 DEF Routes!Lookup, Starts
  <2>2. Starts(i) \in RequestsSaid /\ Starts(i).at = "dial" /\ Starts(i).id = i
      BY <1>2 DEF Starts, RequestsSaid, Steps
  <2> QED
      BY <2>1, <2>2, <1>4, GoKeeps DEF Placed, Answers, IsAsking
<1>7. CASE Routes!Dial(r)
  <2>1. reqs[r].at = "dial" /\ "resolve" \in Steps
      BY <1>7 DEF Routes!Dial, Routes!At, Steps
  <2>2. Routes!Go(r, Routes!Quiet) \/ Routes!Go(r, Goes(reqs[r], "resolve"))
      BY <1>7 DEF Routes!Dial, Goes
  <2>3. ASSUME Routes!Go(r, Goes(reqs[r], "resolve")) PROVE RoutesInv'
    <3>1. /\ Placed(Goes(reqs[r], "resolve")) /\ Answers(r, Goes(reqs[r], "resolve"))
          /\ Goes(reqs[r], "resolve") \in RequestsSaid
        BY <2>1, <1>1, <1>3 DEF Placed, Answers, IsAsking
    <3> QED
        BY <3>1, <2>3, <1>4, GoKeeps
  <2> QED
      BY <2>2, <2>3, <1>5
<1>8. CASE Routes!Inspect(r)
  <2>1. reqs[r].at = "inspect" /\ "drop" \in Steps /\ "publish" \in Steps
      BY <1>8 DEF Routes!Inspect, Routes!At, Steps
  <2>2. PICK s \in {"drop", "publish"} : Routes!Go(r, Goes(reqs[r], s))
      BY <1>8 DEF Routes!Inspect, Goes
  <2>3. Placed(Goes(reqs[r], s)) /\ Answers(r, Goes(reqs[r], s)) /\ Goes(reqs[r], s) \in RequestsSaid
      BY <2>1, <1>1, <1>3 DEF Placed, Answers, IsAsking
  <2> QED
      BY <2>2, <2>3, <1>4, GoKeeps
<1>9. CASE Routes!DropPort(r)
  <2>1. reqs[r].at = "drop" /\ Routes!Go(r, Drops(reqs[r]))
      BY <1>9 DEF Routes!DropPort, Routes!At, Drops
  <2>2. /\ Drops(reqs[r]) \in RequestsSaid /\ Drops(reqs[r]).at = "publish"
        /\ Drops(reqs[r]).id = reqs[r].id /\ Drops(reqs[r]).stale = reqs[r].stale
      BY <1>1 DEF Drops, RequestsSaid, Steps
  <2>3. Placed(Drops(reqs[r])) /\ Answers(r, Drops(reqs[r]))
      BY <2>1, <2>2, <1>1 DEF Placed, Answers, IsAsking
  <2> QED
      BY <2>1, <2>2, <2>3, <1>4, GoKeeps
<1>10. CASE Routes!Read(r)
    BY <1>10, <1>5 DEF Routes!Read
<1> QED
    BY <1>6, <1>7, <1>8, <1>9, <1>10

LEMMA RoutesNext ==
  ASSUME RoutesInv, [Routes!Next]_Routes!vars
  PROVE  RoutesInv'
<1>1. ASSUME UNCHANGED <<answers, reqs, cool>> PROVE RoutesInv'
    BY <1>1 DEF RoutesInv, RoutesTyped, WindowsAgree, Answers, Placed, IsAsking
<1>2. ASSUME NEW i \in Routed, Routes!Start(i) \/ Routes!Stop(i) \/ Routes!Register(i) \/ Routes!RoutePort(i)
                               \/ Routes!Exit(i)
      PROVE  RoutesInv'
    BY <1>1, <1>2 DEF Routes!Start, Routes!Stop, Routes!Register, Routes!RoutePort, Routes!Exit
<1>3. ASSUME NEW i \in Routed, Routes!Write(i) \/ Routes!Untrack(i) PROVE RoutesInv'
    BY <1>3, ForgetKeeps DEF Routes!Write, Routes!Untrack
<1>4. ASSUME NEW r \in Visitors, Routes!Lookup(r) \/ Routes!Handle(r) PROVE RoutesInv'
    BY <1>4, OthersKeep, ResolveKeeps, PublishKeeps DEF Routes!Handle
<1>5. CASE Routes!Tick
    BY <1>5, RoutesTick
<1>6. CASE UNCHANGED Routes!vars
    BY <1>1, <1>6 DEF Routes!vars
<1> QED
    BY <1>2, <1>3, <1>4, <1>5, <1>6 DEF Routes!Next

\* Whoever asks, asks of a route nobody else asks about, and that was not asked about in the window.
AsksAlone(r) ==
    Routes!At(r, "resolve") /\ reqs'[r].at = "inspect"
       => /\ cool[reqs[r].id] = 0
          /\ \A q \in Visitors : reqs[q].id = reqs[r].id /\ Routes!Asking(q) => reqs[q].stale
LEMMA OnlyResolveAsks ==
  ASSUME RoutesInv, [Routes!Next]_Routes!vars, NEW r \in Visitors
  PROVE  AsksAlone(r)
<1> SUFFICES ASSUME reqs[r].at = "resolve", reqs'[r].at = "inspect"
             PROVE  /\ cool[reqs[r].id] = 0
                    /\ \A q \in Visitors : reqs[q].id = reqs[r].id /\ Routes!Asking(q) => reqs[q].stale
    BY DEF AsksAlone, Routes!At
<1>1. \A o \in Visitors : reqs[o] \in RequestsSaid
    BY DEF RoutesInv, RoutesTyped
<1>2. Routes!Quiet.at = "off"
    BY DEF Routes!Quiet
<1>3. DOMAIN reqs = Visitors
    BY DEF RoutesInv, RoutesTyped
<1>4. ASSUME NEW o \in Visitors, NEW q, Routes!Go(o, q), o # r PROVE FALSE
    BY <1>3, <1>4 DEF Routes!Go
<1>5. ASSUME NEW i \in Routed, Routes!Forget(i) PROVE FALSE
  <2>1. reqs'[r] = reqs[r] \/ reqs'[r] = Stale(reqs[r])
      BY <1>5 DEF Routes!Forget, Stale
  <2>2. Stale(reqs[r]).at = reqs[r].at
      BY <1>1 DEF Stale, RequestsSaid
  <2> QED
      BY <2>1, <2>2
<1>6. ASSUME reqs' = reqs PROVE FALSE
    BY <1>6
<1>7. ASSUME NEW o \in Visitors, Routes!Publish(o) PROVE FALSE
  <2>1. reqs'[r] = Routes!Quiet \/ reqs'[r] = Goes(reqs[r], "read") \/ reqs'[r] = reqs[r]
      BY <1>7 DEF Routes!Publish, Routes!Released, Goes
  <2>2. Goes(reqs[r], "read").at = "read"
      BY <1>1 DEF Goes, RequestsSaid
  <2> QED
      BY <2>1, <2>2, <1>2
<1>8. ASSUME NEW o \in Visitors, Routes!Lookup(o) \/ Routes!Dial(o) \/ Routes!Inspect(o) \/ Routes!DropPort(o)
                                 \/ Routes!Read(o)
      PROVE  FALSE
  <2>1. reqs[o].at # "resolve"
      BY <1>8 DEF Routes!Lookup, Routes!Dial, Routes!Inspect, Routes!DropPort, Routes!Read, Routes!At
  <2>2. o # r
      BY <2>1
  <2>3. \E q : Routes!Go(o, q)
      BY <1>8 DEF Routes!Lookup, Routes!Dial, Routes!Inspect, Routes!DropPort, Routes!Read
  <2> QED
      BY <2>2, <2>3, <1>4
<1>9. ASSUME NEW o \in Visitors, Routes!Resolve(o)
      PROVE  /\ cool[reqs[r].id] = 0
             /\ \A q \in Visitors : reqs[q].id = reqs[r].id /\ Routes!Asking(q) => reqs[q].stale
  <2>1. \E q : Routes!Go(o, q)
      BY <1>9 DEF Routes!Resolve, Routes!Ask
  <2>2. o = r
      BY <2>1, <1>4
  <2>3. reqs[r].id \in Routed
      BY DEF RoutesInv, RoutesTyped, Placed
  <2>4. ASSUME Routes!Go(r, WaitsFor(reqs[r], answers[reqs[r].id].by)) PROVE FALSE
    <3>1. WaitsFor(reqs[r], answers[reqs[r].id].by).at = "wait"
        BY <1>1 DEF WaitsFor, RequestsSaid
    <3> QED
        BY <3>1, <2>4, <1>3 DEF Routes!Go
  <2>5. ASSUME Routes!Go(r, Routes!Quiet) PROVE FALSE
      BY <2>5, <1>2, <1>3 DEF Routes!Go
  <2>6. ~answers[reqs[r].id].open /\ answers[reqs[r].id].left = 0
      BY <2>2, <2>4, <2>5, <1>9 DEF Routes!Resolve, WaitsFor
  <2> QED
      BY <2>3, <2>6 DEF RoutesInv, WindowsAgree, Answers, IsAsking, Routes!Asking
<1>10. ASSUME NEW i \in Routed,
              Routes!Start(i) \/ Routes!Stop(i) \/ Routes!Register(i) \/ Routes!RoutePort(i) \/ Routes!Exit(i)
       PROVE  FALSE
    BY <1>6, <1>10 DEF Routes!Start, Routes!Stop, Routes!Register, Routes!RoutePort, Routes!Exit
<1>11. ASSUME NEW i \in Routed, Routes!Write(i) \/ Routes!Untrack(i) PROVE FALSE
    BY <1>5, <1>11 DEF Routes!Write, Routes!Untrack
<1>12. ~Routes!Tick /\ ~UNCHANGED Routes!vars
    BY <1>6 DEF Routes!Tick, Routes!vars
<1> QED
    BY <1>7, <1>8, <1>9, <1>10, <1>11, <1>12 DEF Routes!Next, Routes!Handle

\* Requests that fail together ask the runtime once per window and route, whatever rebuilds it.
THEOREM InspectsAreShared ==
    Routes!Init /\ [][Routes!Next]_Routes!vars => Routes!OneInspectPerWindow
<1>1. RoutesInv /\ [Routes!Next]_Routes!vars => RoutesInv'
    BY RoutesNext
<1>2. RoutesInv /\ [Routes!Next]_Routes!vars =>
        [\A r \in Visitors :
           Routes!At(r, "resolve") /\ reqs'[r].at = "inspect"
             => /\ cool[reqs[r].id] = 0
                /\ \A q \in Visitors : reqs[q].id = reqs[r].id /\ Routes!Asking(q) => reqs[q].stale]_Routes!vars
    BY OnlyResolveAsks DEF AsksAlone
<1> QED
    BY <1>1, <1>2, RoutesBegin, PTL DEF Routes!OneInspectPerWindow

-----------------------------------------------------------------------------
(* The listeners of a daemon.                                              *)

LEMMA ConnsCardinality == \A S : Daemon!Cardinality(S) = Cardinality(S)
  BY DEF Daemon!Cardinality, Cardinality

\* A connection that was accepted is on a listener, from a peer.
ConnsSaid == [state : {"open", "closed", "twice"}, on : Bound, from : Addresses]
ConnsTyped ==
    /\ \A c \in Conns : conns[c] = Daemon!Unused \/ conns[c] \in ConnsSaid
    /\ conns = [c \in Conns |-> conns[c]]
    /\ slots \in [Bound -> Int]
    /\ accept \in [Bound -> {"slot", "held"}]
    /\ perPeer \in [Bound -> [Addresses -> Int]]

\* The budget of a listener, and what its peers are charged, whether it serves or not.
Between(k)  == IF accept[k] = "held" THEN 1 ELSE 0
Of(k, a)    == {c \in Daemon!Open(k) : conns[c].from = a}
Budget(k)   == slots[k] + Cardinality(Daemon!Open(k)) + Between(k) = MaxConns
Charged(k)  == Daemon!Capped(k) => \A a \in Addresses : perPeer[k][a] = Cardinality(Of(k, a))
ListenersInv == ConnsTyped /\ \A k \in Bound : Budget(k) /\ Charged(k)

LEMMA OpenFinite ==
  \A k : /\ IsFiniteSet(Daemon!Open(k)) /\ Cardinality(Daemon!Open(k)) \in Nat
         /\ \A a : IsFiniteSet(Of(k, a)) /\ Cardinality(Of(k, a)) \in Nat
<1>1. \A k : Daemon!Open(k) \in SUBSET Conns /\ \A a : Of(k, a) \in SUBSET Conns
    BY DEF Daemon!Open, Of
<1> QED
    BY <1>1, BoundsAssumption, FS_Subset, FS_CardinalityType

\* Nobody is on a listener of a daemon that has just begun.
LEMMA NobodyOn ==
  ASSUME ConnsTyped, \A c \in Conns : conns[c].state # "open",
         \A k \in Bound : slots[k] = MaxConns /\ accept[k] = "slot" /\ \A a \in Addresses : perPeer[k][a] = 0
  PROVE  ListenersInv
<1>1. \A k \in Bound : Daemon!Open(k) = {} /\ \A a : Of(k, a) = {}
    BY DEF Daemon!Open, Of
<1>2. Cardinality({}) = 0
    BY FS_EmptySet
<1>3. \A k \in Bound : Budget(k)
    BY <1>1, <1>2, BoundsAssumption DEF Budget, Between
<1>4. \A k \in Bound : Charged(k)
    BY <1>1, <1>2 DEF Charged
<1> QED
    BY <1>3, <1>4 DEF ListenersInv

LEMMA ListenersBegin == Daemon!Init => ListenersInv
<1> SUFFICES ASSUME Daemon!Init PROVE ListenersInv
    OBVIOUS
<1>1. Daemon!Unused.state # "open"
    BY DEF Daemon!Unused
<1>2. ConnsTyped
    BY BoundsAssumption DEF Daemon!Init, Daemon!Nothing, ConnsTyped
<1> QED
    BY <1>1, <1>2, NobodyOn DEF Daemon!Init, Daemon!Nothing

\* The process is over: its connections are, and the next one begins with every slot.
LEMMA GoneListeners ==
  ASSUME ListenersInv, Daemon!Gone
  PROVE  ListenersInv'
<1>1. \A c \in Conns : conns[c] = Daemon!Unused \/ conns[c] \in ConnsSaid
    BY DEF ListenersInv, ConnsTyped
<1> DEFINE Over(r) == [r EXCEPT !.state = "twice"]
<1>2. \A r \in ConnsSaid : Over(r) \in ConnsSaid /\ Over(r).state = "twice"
    BY DEF ConnsSaid
<1>3. conns' = [c \in Conns |-> IF conns[c].state \in {"open", "closed"} THEN Over(conns[c]) ELSE conns[c]]
    BY DEF Daemon!Gone
<1>4. Daemon!Unused.state = "unused"
    BY DEF Daemon!Unused
<1> HIDE DEF Over
<1>5. \A c \in Conns : /\ conns'[c] = Daemon!Unused \/ conns'[c] \in ConnsSaid
                       /\ conns'[c].state # "open"
    BY <1>1, <1>2, <1>3, <1>4
<1>6. /\ slots' = [k \in Bound |-> MaxConns] /\ accept' = [k \in Bound |-> "slot"]
      /\ perPeer' = [k \in Bound |-> [a \in Addresses |-> 0]]
    BY DEF Daemon!Gone
<1>7. ConnsTyped'
    BY <1>3, <1>5, <1>6, BoundsAssumption DEF ConnsTyped, Daemon!Unused
<1>8. ConnsTyped' /\ (\A c \in Conns : conns'[c].state # "open") =>
        (\A k \in Bound : slots'[k] = MaxConns /\ accept'[k] = "slot" /\ \A a \in Addresses : perPeer'[k][a] = 0)
    BY <1>6
<1>9. \A k \in Bound : Daemon!Open(k)' = {} /\ \A a : Of(k, a)' = {}
    BY <1>5 DEF Daemon!Open, Of
<1>10. Cardinality({}) = 0
    BY FS_EmptySet
<1>11. \A k \in Bound : Budget(k)'
    BY <1>6, <1>9, <1>10, BoundsAssumption DEF Budget, Between
<1>12. \A k \in Bound : Charged(k)'
    BY <1>6, <1>9, <1>10 DEF Charged
<1> QED
    BY <1>7, <1>11, <1>12 DEF ListenersInv

\* A listener whose slots move between the free ones and the one its loop holds.
LEMMA SlotsMove ==
  ASSUME ListenersInv, NEW k \in Bound, UNCHANGED <<conns, perPeer>>, NEW n \in Int, NEW s \in {"slot", "held"},
         slots' = [slots EXCEPT ![k] = n], accept' = [accept EXCEPT ![k] = s],
         n + (IF s = "held" THEN 1 ELSE 0) = slots[k] + Between(k)
  PROVE  ListenersInv'
<1>1. ConnsTyped /\ \A j \in Bound : Budget(j) /\ Charged(j)
    BY DEF ListenersInv
<1>2. ConnsTyped'
    BY <1>1 DEF ConnsTyped, Daemon!Unused
<1>3. \A j \in Bound : Daemon!Open(j)' = Daemon!Open(j) /\ \A a : Of(j, a)' = Of(j, a)
    BY DEF Daemon!Open, Of
<1>4. \A j \in Bound : Charged(j)'
    BY <1>1, <1>3 DEF Charged, Daemon!Capped
<1>5. ASSUME NEW j \in Bound PROVE Budget(j)'
  <2>1. /\ slots[j] \in Int /\ Between(j) \in Int /\ Cardinality(Daemon!Open(j)) \in Nat
        /\ slots[j] + Cardinality(Daemon!Open(j)) + Between(j) = MaxConns
      BY <1>1, OpenFinite DEF ConnsTyped, Budget, Between
  <2>2. slots'[j] + Between(j)' = slots[j] + Between(j) /\ slots'[j] \in Int /\ Between(j)' \in Int
    <3>1. CASE j = k
      <4>1. slots'[j] = n /\ accept'[j] = s
          BY <3>1, <1>1 DEF ConnsTyped
      <4> QED
          BY <3>1, <4>1 DEF Between
    <3>2. CASE j # k
      <4>1. slots'[j] = slots[j] /\ accept'[j] = accept[j]
          BY <3>2, <1>1 DEF ConnsTyped
      <4> QED
          BY <4>1, <2>1 DEF Between
    <3> QED
        BY <3>1, <3>2
  <2> QED
      BY <2>1, <2>2, <1>3 DEF Budget
<1> QED
    BY <1>2, <1>4, <1>5 DEF ListenersInv

LEMMA TakeSlotListeners ==
  ASSUME ListenersInv, NEW k \in Bound, Daemon!TakeSlot(k) PROVE ListenersInv'
<1>1. slots[k] \in Int /\ accept[k] = "slot"
    BY DEF ListenersInv, ConnsTyped, Daemon!TakeSlot
<1>2. /\ slots' = [slots EXCEPT ![k] = slots[k] - 1] /\ accept' = [accept EXCEPT ![k] = "held"]
      /\ UNCHANGED <<conns, perPeer>>
    BY DEF Daemon!TakeSlot
<1>3. slots[k] - 1 \in Int /\ slots[k] - 1 + (IF "held" = "held" THEN 1 ELSE 0) = slots[k] + Between(k)
    BY <1>1 DEF Between
<1> QED
    BY <1>2, <1>3, SlotsMove

LEMMA AcceptFailsListeners ==
  ASSUME ListenersInv, NEW k \in Bound, Daemon!AcceptFails(k) PROVE ListenersInv'
<1>1. slots[k] \in Int /\ accept[k] = "held"
    BY DEF ListenersInv, ConnsTyped, Daemon!AcceptFails
<1>2. /\ slots' = [slots EXCEPT ![k] = slots[k] + 1] /\ accept' = [accept EXCEPT ![k] = "slot"]
      /\ UNCHANGED <<conns, perPeer>>
    BY DEF Daemon!AcceptFails
<1>3. slots[k] + 1 \in Int /\ slots[k] + 1 + (IF "slot" = "held" THEN 1 ELSE 0) = slots[k] + Between(k)
    BY <1>1 DEF Between
<1> QED
    BY <1>2, <1>3, SlotsMove

LEMMA DrainListeners ==
  ASSUME ListenersInv, NEW k \in Bound, Daemon!Drain(k) PROVE ListenersInv'
<1>1. slots[k] \in Int /\ accept[k] \in {"slot", "held"}
    BY DEF ListenersInv, ConnsTyped
<1> DEFINE n == IF accept[k] = "held" THEN slots[k] + 1 ELSE slots[k]
<1>2. /\ slots' = [slots EXCEPT ![k] = n] /\ accept' = [accept EXCEPT ![k] = "slot"]
      /\ UNCHANGED <<conns, perPeer>>
    BY DEF Daemon!Drain
<1>3. n \in Int /\ n + (IF "slot" = "held" THEN 1 ELSE 0) = slots[k] + Between(k)
    BY <1>1 DEF Between
<1> HIDE DEF n
<1> QED
    BY <1>2, <1>3, SlotsMove

\* One listener gains or loses connections, with the slots and the charges of their peers.
LEMMA OneListener ==
  ASSUME ListenersInv, ConnsTyped', NEW k \in Bound,
         \A j \in Bound \ {k} : /\ Daemon!Open(j)' = Daemon!Open(j)
                                /\ \A a \in Addresses : Of(j, a)' = Of(j, a)
                                /\ slots'[j] = slots[j] /\ accept'[j] = accept[j] /\ perPeer'[j] = perPeer[j],
         Budget(k)', Charged(k)'
  PROVE  ListenersInv'
<1>1. \A j \in Bound : Budget(j) /\ Charged(j)
    BY DEF ListenersInv
<1>2. \A j \in Bound \ {k} : Budget(j)'
    BY <1>1 DEF Budget, Between
<1>3. \A j \in Bound \ {k} : Charged(j)'
    BY <1>1 DEF Charged, Daemon!Capped
<1> QED
    BY <1>2, <1>3 DEF ListenersInv

LEMMA AcceptListeners ==
  ASSUME ListenersInv, NEW k \in Bound, NEW c \in Conns, NEW a \in Addresses, Daemon!Accept(k, c, a)
  PROVE  ListenersInv'
<1>1. ConnsTyped /\ Budget(k) /\ Charged(k)
    BY DEF ListenersInv
<1>2. slots[k] \in Int /\ accept[k] = "held" /\ conns[c].state = "unused"
    BY <1>1 DEF ConnsTyped, Daemon!Accept, Daemon!Unused
<1>3. CASE ~Daemon!Takes(k, a)
  <2>1. /\ slots' = [slots EXCEPT ![k] = slots[k] + 1] /\ accept' = [accept EXCEPT ![k] = "slot"]
        /\ UNCHANGED <<conns, perPeer>>
      BY <1>3 DEF Daemon!Accept
  <2>2. slots[k] + 1 \in Int /\ slots[k] + 1 + (IF "slot" = "held" THEN 1 ELSE 0) = slots[k] + Between(k)
      BY <1>2 DEF Between
  <2> QED
      BY <2>1, <2>2, SlotsMove
<1>4. CASE Daemon!Takes(k, a)
  <2> DEFINE r == [state |-> "open", on |-> k, from |-> a]
  <2>1. r \in ConnsSaid /\ r.state = "open" /\ r.on = k /\ r.from = a
      BY DEF ConnsSaid
  <2>2. /\ conns' = [conns EXCEPT ![c] = r] /\ accept' = [accept EXCEPT ![k] = "slot"] /\ UNCHANGED slots
        /\ perPeer' = IF Daemon!Capped(k) THEN [perPeer EXCEPT ![k][a] = @ + 1] ELSE perPeer
      BY <1>4 DEF Daemon!Accept, Daemon!Held
  <2> HIDE DEF r
  <2>3. DOMAIN conns = Conns
      BY <1>1 DEF ConnsTyped
  <2>4. /\ Daemon!Open(k)' = Daemon!Open(k) \cup {c} /\ c \notin Daemon!Open(k)
        /\ \A j \in Bound \ {k} : Daemon!Open(j)' = Daemon!Open(j)
      BY <1>2, <2>1, <2>2, <2>3 DEF Daemon!Open
  <2>5. /\ Of(k, a)' = Of(k, a) \cup {c} /\ c \notin Of(k, a)
        /\ \A b \in Addresses \ {a} : Of(k, b)' = Of(k, b)
        /\ \A j \in Bound \ {k} : \A b \in Addresses : Of(j, b)' = Of(j, b)
      BY <2>1, <2>2, <2>3, <2>4 DEF Of, Daemon!Open
  <2>6. perPeer' \in [Bound -> [Addresses -> Int]]
      BY <1>1, <2>2 DEF ConnsTyped
  <2>7. ConnsTyped'
    <3>1. \A d \in Conns : conns'[d] = Daemon!Unused \/ conns'[d] \in ConnsSaid
        BY <1>1, <2>1, <2>2 DEF ConnsTyped
    <3> QED
        BY <3>1, <1>1, <2>2, <2>6 DEF ConnsTyped, Daemon!Unused
  <2>8. Budget(k)'
    <3>1. Cardinality(Daemon!Open(k)') = Cardinality(Daemon!Open(k)) + 1
        BY <2>4, OpenFinite, FS_AddElement
    <3>2. slots[k] + Cardinality(Daemon!Open(k)) + 1 = MaxConns /\ Cardinality(Daemon!Open(k)) \in Nat
        BY <1>1, <1>2, OpenFinite DEF Budget, Between
    <3>3. slots'[k] = slots[k] /\ accept'[k] = "slot"
        BY <1>1, <2>2 DEF ConnsTyped
    <3>4. Between(k)' = 0
        BY <3>3 DEF Between
    <3> QED
        BY <3>1, <3>2, <3>3, <3>4, <1>2 DEF Budget
  <2>9. Charged(k)'
    <3> SUFFICES ASSUME Daemon!Capped(k), NEW b \in Addresses
                 PROVE  perPeer'[k][b] = Cardinality(Of(k, b)')
        BY DEF Charged, Daemon!Capped
    <3>1. perPeer[k][b] = Cardinality(Of(k, b)) /\ Cardinality(Of(k, b)) \in Nat
        BY <1>1, OpenFinite DEF Charged
    <3>2. CASE b = a
      <4>1. Cardinality(Of(k, b)') = Cardinality(Of(k, b)) + 1
          BY <3>2, <2>5, OpenFinite, FS_AddElement
      <4>2. perPeer'[k][b] = perPeer[k][b] + 1
          BY <3>2, <1>1, <2>2 DEF ConnsTyped
      <4> QED
          BY <3>1, <4>1, <4>2
    <3>3. CASE b # a
        BY <3>1, <3>3, <1>1, <2>2, <2>5 DEF ConnsTyped
    <3> QED
        BY <3>2, <3>3
  <2>10. \A j \in Bound \ {k} : slots'[j] = slots[j] /\ accept'[j] = accept[j] /\ perPeer'[j] = perPeer[j]
      BY <1>1, <2>2 DEF ConnsTyped
  <2> QED
      BY <2>4, <2>5, <2>7, <2>8, <2>9, <2>10, OneListener
<1> QED
    BY <1>3, <1>4

\* The slot of a connection goes back when it is closed, and not when it is closed again.
LEMMA CloseListeners ==
  ASSUME ListenersInv, NEW c \in Conns, Daemon!CloseConn(c)
  PROVE  ListenersInv'
<1>1. ConnsTyped /\ \A j \in Bound : Budget(j) /\ Charged(j)
    BY DEF ListenersInv
<1>2. conns[c] \in ConnsSaid /\ conns[c].state \in {"open", "closed"}
    BY <1>1 DEF ConnsTyped, Daemon!CloseConn, Daemon!Unused
<1>3. PICK k \in Bound, a \in Addresses : k = conns[c].on /\ a = conns[c].from
    BY <1>2 DEF ConnsSaid
<1> DEFINE s == IF conns[c].state = "open" THEN "closed" ELSE "twice"
           r == [conns[c] EXCEPT !.state = s]
<1>4. r \in ConnsSaid /\ r.state # "open" /\ r.on = k /\ r.from = a
  <2>1. s \in {"closed", "twice"}
      OBVIOUS
  <2> HIDE DEF s
  <2> QED
      BY <2>1, <1>2, <1>3 DEF ConnsSaid
<1>5. conns' = [conns EXCEPT ![c] = r] /\ UNCHANGED accept
    BY DEF Daemon!CloseConn
<1> HIDE DEF r
<1>6. DOMAIN conns = Conns
    BY <1>1 DEF ConnsTyped
<1>7. \A d \in Conns : conns'[d] = Daemon!Unused \/ conns'[d] \in ConnsSaid
    BY <1>1, <1>4, <1>5, <1>6 DEF ConnsTyped
<1>8. CASE conns[c].state = "closed"
  <2>1. UNCHANGED <<slots, perPeer>>
      BY <1>8 DEF Daemon!CloseConn, Daemon!GivesBack
  <2>2. /\ \A j \in Bound : Daemon!Open(j)' = Daemon!Open(j)
        /\ \A j \in Bound : \A b \in Addresses : Of(j, b)' = Of(j, b)
    <3>1. \A j \in Bound : Daemon!Open(j)' = Daemon!Open(j)
        BY <1>4, <1>5, <1>6, <1>8 DEF Daemon!Open
    <3>2. \A j \in Bound : \A d \in Daemon!Open(j) : conns'[d] = conns[d]
        BY <1>5, <1>6, <1>8 DEF Daemon!Open
    <3> QED
        BY <3>1, <3>2 DEF Of
  <2>3. ConnsTyped'
      BY <2>1, <1>1, <1>5, <1>7 DEF ConnsTyped, Daemon!Unused
  <2>4. \A j \in Bound : Budget(j)'
      BY <2>1, <2>2, <1>1, <1>5 DEF Budget, Between
  <2>5. \A j \in Bound : Charged(j)'
      BY <2>1, <2>2, <1>1 DEF Charged, Daemon!Capped
  <2> QED
      BY <2>3, <2>4, <2>5 DEF ListenersInv
<1>9. CASE conns[c].state = "open"
  <2>1. /\ slots' = [slots EXCEPT ![k] = @ + 1]
        /\ perPeer' = IF Daemon!Capped(k) THEN [perPeer EXCEPT ![k][a] = @ + (-1)] ELSE perPeer
      BY <1>3, <1>9 DEF Daemon!CloseConn, Daemon!GivesBack, Daemon!Held
  <2>2. /\ Daemon!Open(k)' = Daemon!Open(k) \ {c} /\ c \in Daemon!Open(k)
        /\ \A j \in Bound \ {k} : Daemon!Open(j)' = Daemon!Open(j)
      BY <1>3, <1>4, <1>5, <1>6, <1>9 DEF Daemon!Open
  <2>3. \A d \in Conns \ {c} : conns'[d] = conns[d]
      BY <1>5, <1>6
  <2>4. /\ Of(k, a)' = Of(k, a) \ {c} /\ c \in Of(k, a)
        /\ \A b \in Addresses \ {a} : Of(k, b)' = Of(k, b)
        /\ \A j \in Bound \ {k} : \A b \in Addresses : Of(j, b)' = Of(j, b)
    <3>1. \A j \in Bound : Daemon!Open(j) \in SUBSET Conns
        BY DEF Daemon!Open
    <3>2. \A j \in Bound \ {k} : c \notin Daemon!Open(j)
        BY <1>3 DEF Daemon!Open
    <3> QED
        BY <3>1, <3>2, <2>2, <2>3, <1>3 DEF Of
  <2>5. perPeer' \in [Bound -> [Addresses -> Int]] /\ slots' \in [Bound -> Int]
      BY <1>1, <2>1 DEF ConnsTyped
  <2>6. ConnsTyped'
      BY <2>5, <1>1, <1>5, <1>7 DEF ConnsTyped, Daemon!Unused
  <2>7. Budget(k)'
    <3>1. Cardinality(Daemon!Open(k)') = Cardinality(Daemon!Open(k)) - 1
        BY <2>2, OpenFinite, FS_RemoveElement
    <3>2. /\ slots[k] + Cardinality(Daemon!Open(k)) + Between(k) = MaxConns /\ slots[k] \in Int
          /\ Cardinality(Daemon!Open(k)) \in Nat /\ Between(k) \in Int
        BY <1>1, OpenFinite DEF Budget, Between, ConnsTyped
    <3>3. slots'[k] = slots[k] + 1 /\ Between(k)' = Between(k)
        BY <1>1, <1>5, <2>1 DEF ConnsTyped, Between
    <3> QED
        BY <3>1, <3>2, <3>3 DEF Budget
  <2>8. Charged(k)'
    <3> SUFFICES ASSUME Daemon!Capped(k), NEW b \in Addresses
                 PROVE  perPeer'[k][b] = Cardinality(Of(k, b)')
        BY DEF Charged, Daemon!Capped
    <3>1. perPeer[k][b] = Cardinality(Of(k, b)) /\ Cardinality(Of(k, b)) \in Nat
        BY <1>1, OpenFinite DEF Charged
    <3>2. CASE b = a
      <4>1. Cardinality(Of(k, b)') = Cardinality(Of(k, b)) - 1
          BY <3>2, <2>4, OpenFinite, FS_RemoveElement
      <4>2. perPeer'[k][b] = perPeer[k][b] + (-1)
          BY <3>2, <1>1, <2>1 DEF ConnsTyped
      <4> QED
          BY <3>1, <4>1, <4>2
    <3>3. CASE b # a
        BY <3>1, <3>3, <1>1, <2>1, <2>4 DEF ConnsTyped
    <3> QED
        BY <3>2, <3>3
  <2>9. \A j \in Bound \ {k} : slots'[j] = slots[j] /\ accept'[j] = accept[j] /\ perPeer'[j] = perPeer[j]
      BY <1>1, <1>5, <2>1 DEF ConnsTyped
  <2> QED
      BY <2>2, <2>4, <2>6, <2>7, <2>8, <2>9, OneListener
<1> QED
    BY <1>2, <1>8, <1>9

\* A listener that has drained has closed what was open on it.
LEMMA DrainedListeners ==
  ASSUME ListenersInv, NEW k \in Bound, Daemon!Drained(k)
  PROVE  ListenersInv'
<1> USE ConnsCardinality
<1>1. ConnsTyped /\ \A j \in Bound : Budget(j) /\ Charged(j)
    BY DEF ListenersInv
<1> DEFINE Over(r) == [r EXCEPT !.state = "closed"]
<1>2. \A r \in ConnsSaid : Over(r) \in ConnsSaid /\ Over(r).state = "closed" /\ Over(r).on = r.on
                           /\ Over(r).from = r.from
    BY DEF ConnsSaid
<1>3. /\ conns' = [c \in Conns |-> IF c \in Daemon!Open(k) THEN Over(conns[c]) ELSE conns[c]]
      /\ slots' = [slots EXCEPT ![k] = @ + Cardinality(Daemon!Open(k))]
      /\ perPeer' = [perPeer EXCEPT ![k] = [a \in Addresses |-> 0]]
      /\ UNCHANGED accept
    BY DEF Daemon!Drained
<1> HIDE DEF Over
<1>4. \A c \in Daemon!Open(k) : c \in Conns /\ conns[c] \in ConnsSaid /\ conns[c].on = k /\ conns[c].state = "open"
    BY <1>1 DEF Daemon!Open, Daemon!Unused, ConnsTyped
<1>5. \A c \in Conns : IF c \in Daemon!Open(k) THEN conns'[c] \in ConnsSaid /\ conns'[c].state = "closed"
                       ELSE conns'[c] = conns[c]
    BY <1>2, <1>3, <1>4
<1>6. /\ Daemon!Open(k)' = {}
      /\ \A j \in Bound \ {k} : Daemon!Open(j)' = Daemon!Open(j)
  <2>1. Daemon!Open(k)' = {}
      BY <1>5 DEF Daemon!Open
  <2>2. \A j \in Bound \ {k} : \A c \in Daemon!Open(j) : c \notin Daemon!Open(k)
      BY DEF Daemon!Open
  <2>3. \A j \in Bound \ {k} : Daemon!Open(j)' = Daemon!Open(j)
      BY <2>2, <1>5 DEF Daemon!Open
  <2> QED
      BY <2>1, <2>3
<1>7. /\ \A a \in Addresses : Of(k, a)' = {}
      /\ \A j \in Bound \ {k} : \A a \in Addresses : Of(j, a)' = Of(j, a)
  <2>1. \A j \in Bound \ {k} : \A c \in Daemon!Open(j) : conns'[c] = conns[c]
      BY <1>5 DEF Daemon!Open
  <2> QED
      BY <2>1, <1>6 DEF Of
<1>8. Cardinality(Daemon!Open(k)) \in Nat /\ Cardinality({}) = 0
    BY OpenFinite, FS_EmptySet
<1>9. ConnsTyped'
  <2>1. slots' \in [Bound -> Int] /\ perPeer' \in [Bound -> [Addresses -> Int]]
      BY <1>1, <1>3, <1>8 DEF ConnsTyped
  <2>2. \A c \in Conns : conns'[c] = Daemon!Unused \/ conns'[c] \in ConnsSaid
      BY <1>1, <1>5 DEF ConnsTyped
  <2> QED
      BY <2>1, <2>2, <1>1, <1>3 DEF ConnsTyped, Daemon!Unused
<1>10. Budget(k)'
  <2>1. /\ slots[k] + Cardinality(Daemon!Open(k)) + Between(k) = MaxConns /\ slots[k] \in Int
        /\ Between(k) \in Int
      BY <1>1 DEF Budget, Between, ConnsTyped
  <2>2. slots'[k] = slots[k] + Cardinality(Daemon!Open(k)) /\ Between(k)' = Between(k)
      BY <1>1, <1>3 DEF ConnsTyped, Between
  <2> QED
      BY <2>1, <2>2, <1>6, <1>8 DEF Budget
<1>11. Charged(k)'
  <2>1. \A a \in Addresses : perPeer'[k][a] = 0
      BY <1>1, <1>3 DEF ConnsTyped
  <2> QED
      BY <2>1, <1>7, <1>8 DEF Charged
<1>12. \A j \in Bound \ {k} : slots'[j] = slots[j] /\ accept'[j] = accept[j] /\ perPeer'[j] = perPeer[j]
    BY <1>1, <1>3 DEF ConnsTyped
<1> QED
    BY <1>6, <1>7, <1>9, <1>10, <1>11, <1>12, OneListener

LEMMA ListenersNext ==
  ASSUME ListenersInv, [Daemon!Next]_Daemon!vars
  PROVE  ListenersInv'
<1>1. ASSUME UNCHANGED <<slots, perPeer, accept, conns>> PROVE ListenersInv'
  <2>1. ConnsTyped'
      BY <1>1 DEF ListenersInv, ConnsTyped, Daemon!Unused
  <2>2. \A k \in Bound : Daemon!Open(k)' = Daemon!Open(k) /\ \A a : Of(k, a)' = Of(k, a)
      BY <1>1 DEF Daemon!Open, Of
  <2>3. \A k \in Bound : Budget(k)' /\ Charged(k)'
      BY <2>2, <1>1 DEF ListenersInv, Budget, Between, Charged, Daemon!Capped
  <2> QED
      BY <2>1, <2>3 DEF ListenersInv
<1>2. ASSUME Daemon!Tick \/ Daemon!Start \/ Daemon!Bind \/ Daemon!Serve \/ Daemon!Signal \/ Daemon!Closing
             \/ Daemon!BeginCopy \/ Daemon!EndCopy \/ Daemon!RemoveTorn \/ Daemon!Prune
      PROVE  ListenersInv'
    BY <1>1, <1>2 DEF Daemon!Tick, Daemon!Start, Daemon!Bind, Daemon!Serve, Daemon!Signal, Daemon!Closing,
       Daemon!BeginCopy, Daemon!EndCopy, Daemon!RemoveTorn, Daemon!Prune, Daemon!network
<1>3. ASSUME Daemon!Exit \/ Daemon!Crash PROVE ListenersInv'
    BY <1>3, GoneListeners DEF Daemon!Exit, Daemon!Crash
<1>4. ASSUME NEW c \in Conns, Daemon!CloseConn(c) PROVE ListenersInv'
    BY <1>4, CloseListeners
<1>5. ASSUME NEW k \in Bound, Daemon!TakeSlot(k) \/ Daemon!AcceptFails(k) \/ Daemon!Drain(k) \/ Daemon!Drained(k)
      PROVE  ListenersInv'
    BY <1>5, TakeSlotListeners, AcceptFailsListeners, DrainListeners, DrainedListeners
<1>6. ASSUME NEW k \in Bound, NEW c \in Conns, NEW a \in Addresses, Daemon!Accept(k, c, a) PROVE ListenersInv'
    BY <1>6, AcceptListeners
<1>7. CASE UNCHANGED Daemon!vars
    BY <1>1, <1>7 DEF Daemon!vars, Daemon!network
<1> QED
    BY <1>2, <1>3, <1>4, <1>5, <1>6, <1>7 DEF Daemon!Next

\* Of every listener, the slots left, the one its loop holds and the open connections are the
\* budget, and a peer of the proxy is charged what it has open.
THEOREM BudgetsHold ==
    Daemon!Init /\ [][Daemon!Next]_Daemon!vars => []Daemon!SlotsAreTheConnections
<1>1. ListenersInv /\ [Daemon!Next]_Daemon!vars => ListenersInv'
    BY ListenersNext
<1>2. ListenersInv => Daemon!SlotsAreTheConnections
    BY ConnsCardinality DEF ListenersInv, Budget, Between, Charged, Of, Daemon!SlotsAreTheConnections, Daemon!Live
<1> QED
    BY <1>1, <1>2, ListenersBegin, PTL

-----------------------------------------------------------------------------
(* A copy of an image.                                                     *)

\* Nothing is left to read once a load is done, and nothing is told before both children have ended.
CopyInv ==
    /\ load = "done" => got = Archive /\ image # "no"
    /\ at \in {"begin", "save", "load"} => load = "none"
    /\ at \in {"judge", "untag"} => load \in {"done", "failed"}
    /\ answer = "copied" => load = "done" /\ at \in {"untag", "end"}

LEMMA CopyBegins == Copying!Init => CopyInv
  BY DEF Copying!Init, CopyInv

LEMMA CopyNext ==
    ASSUME CopyInv, [Copying!Next]_Copying!vars
    PROVE  CopyInv'
<1>1. CASE Copying!Kitbashd
  <2>1. CASE Copying!MakePipe \/ Copying!StartSave \/ Copying!StartLoad \/ Copying!CloseBoth \/ Copying!Waited
      BY <2>1 DEF CopyInv, Copying!MakePipe, Copying!StartSave, Copying!StartLoad, Copying!CloseBoth,
                  Copying!Waited, Copying!children
  <2>2. CASE Copying!Judge
      BY <2>2 DEF CopyInv, Copying!Judge, Copying!children
  <2>3. CASE Copying!DropLoadedName
      BY <2>3 DEF CopyInv, Copying!DropLoadedName, Copying!children
  <2> QED
      BY <1>1, <2>1, <2>2, <2>3 DEF Copying!Kitbashd
<1>2. CASE Copying!Saving \/ Copying!SaveDies \/ \E c \in {"save", "load"} : Copying!Hang(c)
    BY <1>2 DEF CopyInv, Copying!Saving, Copying!Write, Copying!SaveEnds, Copying!SaveDies, Copying!Hang
<1>3. CASE Copying!Loading
    BY <1>3 DEF CopyInv, Copying!Loading, Copying!Read, Copying!LoadEnds
<1>4. CASE Copying!LoadDies \/ Copying!OutOfTime
    BY <1>4 DEF CopyInv, Copying!LoadDies, Copying!OutOfTime
<1>5. CASE UNCHANGED Copying!vars
    BY <1>5 DEF CopyInv, Copying!vars
<1> QED
    BY <1>1, <1>2, <1>3, <1>4, <1>5 DEF Copying!Next

\* An image that is answered as copied was loaded whole, whichever child dies, hangs or is killed, and
\* whatever becomes of the name the load gave it.
THEOREM CopiesAreWhole ==
    Copying!Init /\ [][Copying!Next]_Copying!vars => []Copying!CopiedIsWhole
<1>1. CopyInv /\ [Copying!Next]_Copying!vars => CopyInv'
    BY CopyNext
<1>2. CopyInv => Copying!CopiedIsWhole
    BY DEF CopyInv, Copying!CopiedIsWhole
<1> QED
    BY <1>1, <1>2, CopyBegins, PTL

-----------------------------------------------------------------------------
(* The parts together.                                                     *)

\* A behaviour of the whole is one of each part: the others do not touch its variables.
LEMMA EachOnItsOwn ==
    Whole => /\ Spec
             /\ Jobs!Init /\ [][Jobs!Next]_Jobs!vars
             /\ Routes!Init /\ [][Routes!Next]_Routes!vars
             /\ Daemon!Init /\ [][Daemon!Next]_Daemon!vars
             /\ Copying!Init /\ [][Copying!Next]_Copying!vars
<1>1. Begins => Init /\ Jobs!Init /\ Routes!Init /\ Daemon!Init /\ Copying!Init
    BY DEF Begins
<1>2. [Moves]_allVars => [Next]_vars
    BY DEF Moves, allVars
<1>3. [Moves]_allVars => [Jobs!Next]_Jobs!vars
    BY DEF Moves, allVars, schedulerVars, Jobs!vars
<1>4. [Moves]_allVars => [Routes!Next]_Routes!vars
    BY DEF Moves, allVars, routesVars, Routes!vars
<1>5. [Moves]_allVars => [Daemon!Next]_Daemon!vars
    BY DEF Moves, allVars, daemonVars, Daemon!vars, Daemon!process, Daemon!network, Daemon!store
<1>6. [Moves]_allVars => [Copying!Next]_Copying!vars
    BY DEF Moves, allVars, copyVars, Copying!vars
<1>7. AllFairness => Fairness
    BY PTL DEF AllFairness
<1> QED
    BY <1>1, <1>2, <1>3, <1>4, <1>5, <1>6, <1>7, PTL DEF Whole, Spec

\* The slots of the scheduler are its runs, those beside a job that was unregistered or registered anew
\* included, and no ceiling is passed; a marker is of a run that goes, and tells of a job that was not
\* registered anew beside its run exactly whether it runs. The slots of a listener are its connections.
THEOREM SlotsStayTrue == Whole => []SlotsAreTrue
<1>1. JobsInv /\ Daemon!SlotsAreTheConnections => SlotsAreTrue
    BY DEF JobsInv, SlotsAreTrue
<1> QED
    BY <1>1, EachOnItsOwn, JobsInvariant, BudgetsHold, PTL

\* A tick is passed over only for what was due before it, and an inspect serves its window.
THEOREM HostStaysShared == Whole => HostIsShared
  BY EachOnItsOwn, TicksAreShared, InspectsAreShared, PTL DEF HostIsShared

\* What the run of Waits checks of its parts, but for liveness, for every value of its constants.
THEOREM WaitsKeepTheirWord ==
    Whole => /\ []SlotsAreTrue /\ HostIsShared /\ ImplementsKeyedMutex
             /\ []MutualExclusion /\ []EntryWhileUsed /\ []Copying!CopiedIsWhole
  BY EachOnItsOwn, SlotsStayTrue, HostStaysShared, Implements, Exclusion, NoEntryLeaks, CopiesAreWhole, PTL
=============================================================================
