---------------------------- MODULE Fanout_proofs ----------------------------
(***************************************************************************)
(* The fan out keeps its books for any Processes, members and producers:   *)
(* the budget of a queue is what the queue holds, by whatever steps the    *)
(* ends of it count, what is over a budget is bounded by the producers     *)
(* there are, and nothing waits for a Process that it may not read.        *)
(***************************************************************************)
EXTENDS Fanout, FiniteSetTheorems, SequenceTheorems, TLAPS

-----------------------------------------------------------------------------
(* Families of finite sets.                                                *)

IsFamily(f) == IsFiniteSet(DOMAIN f) /\ \A x \in DOMAIN f : IsFiniteSet(f[x])

\* A set and the set of what it holds under one index are equally many.
LEMMA OneIndex ==
    ASSUME NEW x, NEW S, IsFiniteSet(S)
    PROVE  IsFiniteSet({x} \X S) /\ Cardinality({x} \X S) = Cardinality(S)
<1>1. IsFiniteSet({x}) /\ Cardinality({x}) = 1
    BY FS_Singleton
<1>2. Cardinality(S) \in Nat
    BY FS_CardinalityType
<1> QED
    BY <1>1, <1>2, FS_Product

LEMMA FamilyIsFinite ==
    ASSUME NEW f, IsFamily(f)
    PROVE  IsFiniteSet(Contents(f)) /\ Count(f) \in Nat
<1> DEFINE T == {{x} \X f[x] : x \in DOMAIN f}
       h == [x \in DOMAIN f |-> {x} \X f[x]]
<1>1. IsFiniteSet(T)
  <2>1. h \in Surjection(DOMAIN f, T)
      BY DEF Surjection
  <2> QED
      BY <2>1, FS_Surjection DEF IsFamily
<1>2. \A U \in T : IsFiniteSet(U)
  <2>1. \A x \in DOMAIN f : IsFiniteSet(f[x])
      BY DEF IsFamily
  <2>2. \A x \in DOMAIN f : IsFiniteSet({x} \X f[x])
      BY <2>1, OneIndex
  <2> QED
      BY <2>2
<1>3. IsFiniteSet(UNION T)
    BY <1>1, <1>2, FS_UNION
<1> QED
    BY <1>3, FS_CardinalityType DEF Contents, Count

LEMMA NothingHeld == ASSUME NEW f, DOMAIN f = {} PROVE Count(f) = 0
  BY FS_EmptySet DEF Count, Contents

\* Two families that agree but for one index differ by what that index holds.
LEMMA OneMore ==
    ASSUME NEW f, NEW g, IsFamily(f), NEW x, x \notin DOMAIN f, IsFiniteSet(g[x]),
           DOMAIN g = DOMAIN f \cup {x}, \A y \in DOMAIN f : g[y] = f[y]
    PROVE  IsFamily(g) /\ Count(g) = Count(f) + Cardinality(g[x])
<1>1. IsFamily(g)
    BY FS_AddElement DEF IsFamily
<1>2. Contents(g) = Contents(f) \cup ({x} \X g[x])
    BY DEF Contents
<1>3. Contents(f) \cap ({x} \X g[x]) = {}
    BY DEF Contents
<1>4. Cardinality({x} \X g[x]) = Cardinality(g[x]) /\ IsFiniteSet({x} \X g[x])
    BY OneIndex
<1>5. Cardinality(Contents(g)) = Cardinality(Contents(f)) + Cardinality({x} \X g[x]) - Cardinality({})
    BY <1>2, <1>3, <1>4, FamilyIsFinite, FS_Union
<1>6. Cardinality({}) = 0 /\ Cardinality(g[x]) \in Nat /\ Count(f) \in Nat
    BY FS_EmptySet, FS_CardinalityType, FamilyIsFinite
<1> QED
    BY <1>1, <1>4, <1>5, <1>6 DEF Count

\* What a family holds is bounded by its indices and by the largest of its sets.
LEMMA NoMoreThan ==
    ASSUME NEW f, IsFamily(f), NEW n \in Nat, \A x \in DOMAIN f : Cardinality(f[x]) <= n
    PROVE  Count(f) <= Cardinality(DOMAIN f) * n
<1> DEFINE numbered(x) == CHOOSE h \in [f[x] -> 1..n] : \A a, b \in f[x] : h[a] = h[b] => a = b
           h == [c \in Contents(f) |-> <<c[1], numbered(c[1])[c[2]]>>]
<1>1. ASSUME NEW x \in DOMAIN f
      PROVE  /\ numbered(x) \in [f[x] -> 1..n]
             /\ \A a, b \in f[x] : numbered(x)[a] = numbered(x)[b] => a = b
  <2>1. Cardinality(f[x]) \in Nat /\ ExistsBijection(1..Cardinality(f[x]), f[x])
      BY FS_CardinalityType DEF IsFamily
  <2>2. PICK b \in Bijection(1..Cardinality(f[x]), f[x]) : TRUE
      BY <2>1 DEF ExistsBijection
  <2>3. \A a \in f[x] : \E i \in 1..Cardinality(f[x]) : b[i] = a
      BY <2>2 DEF Bijection, Surjection
  <2> DEFINE k == [a \in f[x] |-> CHOOSE i \in 1..Cardinality(f[x]) : b[i] = a]
  <2>4. \A a \in f[x] : k[a] \in 1..Cardinality(f[x]) /\ b[k[a]] = a
      BY <2>3
  <2>5. k \in [f[x] -> 1..n]
      BY <2>1, <2>4
  <2>6. \A a, c \in f[x] : k[a] = k[c] => a = c
      BY <2>4
  <2> HIDE DEF k
  <2>7. \E g \in [f[x] -> 1..n] : \A a, c \in f[x] : g[a] = g[c] => a = c
      BY <2>5, <2>6
  <2> QED
      BY <2>7
<1>2. \A c \in Contents(f) : c = <<c[1], c[2]>> /\ c[1] \in DOMAIN f /\ c[2] \in f[c[1]]
    BY DEF Contents
<1>3. h \in [Contents(f) -> (DOMAIN f) \X (1..n)]
    BY <1>1, <1>2
<1>4. ASSUME NEW c \in Contents(f), NEW d \in Contents(f), h[c] = h[d] PROVE c = d
  <2> HIDE DEF numbered
  <2>1. c[1] = d[1] /\ numbered(c[1])[c[2]] = numbered(d[1])[d[2]]
      BY <1>4
  <2>2. c[2] = d[2]
      BY <1>1, <1>2, <2>1
  <2> QED
      BY <1>2, <2>1, <2>2
<1>5. h \in Injection(Contents(f), (DOMAIN f) \X (1..n))
    BY <1>3, <1>4 DEF Injection, IsInjective
<1>6. IsFiniteSet(1..n) /\ Cardinality(1..n) = n
    BY FS_Interval
<1>7. IsFiniteSet((DOMAIN f) \X (1..n)) /\ Cardinality((DOMAIN f) \X (1..n)) = Cardinality(DOMAIN f) * n
    BY <1>6, FS_Product DEF IsFamily
<1>8. Cardinality(Contents(f)) <= Cardinality((DOMAIN f) \X (1..n))
    BY <1>5, <1>7, FS_Injection
<1> QED
    BY <1>7, <1>8 DEF Count

-----------------------------------------------------------------------------
(* Queues of finite sets.                                                  *)

\* A queue that loses its head holds what that held the less, and one that gets a set that much more.
LEMMA HeadGoes ==
    ASSUME NEW T, NEW q \in Seq(T), q # <<>>, \A s \in T : IsFiniteSet(s)
    PROVE  Count(q) = Cardinality(Head(q)) + Count(Tail(q)) /\ Count(Tail(q)) \in Nat
<1> DEFINE n == Len(q)
           r == [i \in 2..n |-> q[i]]
<1>1. n \in Nat /\ n >= 1 /\ DOMAIN q = 1..n /\ Head(q) = q[1] /\ \A i \in 1..n : q[i] \in T
    BY EmptySeq, LenProperties, HeadTailProperties, ElementOfSeq
<1>2. Tail(q) \in Seq(T) /\ Len(Tail(q)) = n - 1 /\ \A i \in 1..(n-1) : Tail(q)[i] = q[i+1]
    BY HeadTailProperties
<1>3. DOMAIN Tail(q) = 1..(n-1)
    BY <1>1, <1>2, LenProperties
<1>4. IsFamily(r)
    BY <1>1, FS_Interval DEF IsFamily
<1>5. IsFamily(Tail(q))
  <2>1. IsFiniteSet(1..(n-1))
      BY <1>1, FS_Interval
  <2>2. \A i \in 1..(n-1) : i + 1 \in 1..n
      BY <1>1
  <2>3. \A i \in 1..(n-1) : IsFiniteSet(Tail(q)[i])
      BY <1>1, <1>2, <2>2
  <2> QED
      BY <1>3, <2>1, <2>3 DEF IsFamily
<1>6. Count(q) = Count(r) + Cardinality(q[1])
    BY <1>1, <1>4, OneMore
<1>7. Count(r) = Count(Tail(q))
  <2> DEFINE h == [c \in Contents(r) |-> <<c[1] - 1, c[2]>>]
  <2>1. \A c \in Contents(r) : c = <<c[1], c[2]>> /\ c[1] \in 2..n /\ c[2] \in q[c[1]]
      BY DEF Contents
  <2>2. \A c \in Contents(Tail(q)) : c = <<c[1], c[2]>> /\ c[1] \in 1..(n-1) /\ c[2] \in q[c[1] + 1]
      BY <1>2, <1>3 DEF Contents
  <2>3. \A c \in Contents(r) : h[c] \in Contents(Tail(q))
    <3> TAKE c \in Contents(r)
    <3>1. c[1] - 1 \in 1..(n-1) /\ Tail(q)[c[1] - 1] = q[c[1]]
        BY <1>1, <1>2, <2>1
    <3>2. h[c] \in {c[1] - 1} \X Tail(q)[c[1] - 1]
        BY <2>1, <3>1
    <3> QED
        BY <1>3, <3>1, <3>2 DEF Contents
  <2>4. \A c, d \in Contents(r) : h[c] = h[d] => c = d
    <3> TAKE c, d \in Contents(r)
    <3>1. c[1] \in Nat /\ d[1] \in Nat
        BY <1>1, <2>1
    <3>2. HAVE h[c] = h[d]
    <3>3. c[1] - 1 = d[1] - 1 /\ c[2] = d[2]
        BY <3>2
    <3> QED
        BY <2>1, <3>1, <3>3
  <2>5. \A e \in Contents(Tail(q)) : \E c \in Contents(r) : h[c] = e
    <3> TAKE e \in Contents(Tail(q))
    <3>1. e[1] + 1 \in 2..n /\ e[1] + 1 - 1 = e[1] /\ e[2] \in r[e[1] + 1]
        BY <1>1, <2>2
    <3>2. <<e[1] + 1, e[2]>> \in {e[1] + 1} \X r[e[1] + 1]
        BY <3>1
    <3>3. <<e[1] + 1, e[2]>> \in Contents(r)
        BY <3>1, <3>2 DEF Contents
    <3> WITNESS <<e[1] + 1, e[2]>> \in Contents(r)
    <3> QED
        BY <2>2, <3>1, <3>3
  <2>6. h \in Bijection(Contents(r), Contents(Tail(q)))
      BY <2>3, <2>4, <2>5 DEF Bijection, Injection, Surjection, IsInjective
  <2>7. IsFiniteSet(Contents(r))
      BY <1>4, FamilyIsFinite
  <2> QED
      BY <2>6, <2>7, FS_Bijection DEF ExistsBijection, Count
<1>8. Count(Tail(q)) \in Nat /\ Cardinality(q[1]) \in Nat
    BY <1>1, <1>5, FamilyIsFinite, FS_CardinalityType
<1> QED
    BY <1>1, <1>6, <1>7, <1>8

LEMMA SetQueued ==
    ASSUME NEW T, NEW q \in Seq(T), NEW s, \A u \in T : IsFiniteSet(u), IsFiniteSet(s)
    PROVE  Count(Append(q, s)) = Count(q) + Cardinality(s) /\ Count(q) \in Nat
<1>1. DOMAIN q = 1..Len(q) /\ Len(q) \in Nat /\ \A i \in 1..Len(q) : q[i] \in T
    BY LenProperties, ElementOfSeq
<1>2. /\ DOMAIN Append(q, s) = 1..(Len(q) + 1)
      /\ Append(q, s)[Len(q) + 1] = s
      /\ \A i \in 1..Len(q) : Append(q, s)[i] = q[i]
    OBVIOUS
<1>3. IsFamily(q)
    BY <1>1, FS_Interval DEF IsFamily
<1>4. DOMAIN Append(q, s) = DOMAIN q \cup {Len(q) + 1} /\ Len(q) + 1 \notin DOMAIN q
    BY <1>1, <1>2
<1> DEFINE g == Append(q, s)
           x == Len(q) + 1
<1>5. IsFiniteSet(g[x]) /\ DOMAIN g = DOMAIN q \cup {x} /\ x \notin DOMAIN q /\ \A y \in DOMAIN q : g[y] = q[y]
    BY <1>1, <1>2, <1>4
<1>6. g[x] = s
    BY <1>2
<1> HIDE DEF g, x
<1>7. Count(g) = Count(q) + Cardinality(g[x])
    BY <1>3, <1>5, OneMore
<1> QED
    BY <1>3, <1>6, <1>7, FamilyIsFinite DEF g

-----------------------------------------------------------------------------
(* The state.                                                              *)

Largest == Cardinality(Members)
Regs    == (UNION {Registers[k] : k \in Kits}) \cup (UNION {Range(b) : b \in Booted}) \cup {None}
Records == [user : Members \cup Causes \cup {p.owner : p \in Regs}, internal : BOOLEAN]
Batches == {s \in SUBSET Records : IsFiniteSet(s) /\ Cardinality(s) <= Largest}

Subscribers == [id : Kits \cup {None}, reg : Regs, queue : Seq(Batches), held : Int, stop : BOOLEAN]
Workers     == [at : {"none", "wait", "took", "post", "gone"}, hand : Batches]
Sending     == {"check", "send", "add", "evict", "give", "look"}
Exporters   == [at : Sending \cup {"idle", "dispatch", "next"}, recs : Batches, todo : SUBSET Objects,
                to : Objects \cup {None}, size : Nat]

Typed ==
    /\ row \in [Kits -> Regs] /\ changing \in [Kits -> {"no", "track", "untrack"}]
    /\ subs \in [Kits -> Objects \cup {None}]
    /\ closed \in [at : {"boot", "no", "closing", "waiting", "closed"}, wait : SUBSET Objects]
    /\ sub \in [Objects -> Subscribers] /\ worker \in [Objects -> Workers]
    /\ prod \in [Producers -> Exporters]

Made(o) == sub[o].id # None

\* A subscriber that was not made yet is nobody's; one that is subscribed is of its Process, as the
\* row of that says it unless a registration is under way.
Known ==
    /\ \A o \in Objects : ~Made(o) => sub[o] = NoObject /\ worker[o] = NoWorker
    /\ \A o \in closed.wait : Made(o)
    /\ \A p \in Producers :
          /\ prod[p].to # None => Made(prod[p].to)
          /\ \A o \in prod[p].todo : Made(o)
          /\ prod[p].at \in Sending => prod[p].to # None
Subscribed ==
    /\ \A k \in Kits : subs[k] # None =>
          /\ sub[subs[k]].id = k
          /\ changing[k] = "no" => Same(sub[subs[k]].reg, row[k])
    /\ closed.at = "boot" => /\ \A o \in Objects : ~Made(o)
                             /\ \A k \in Kits : changing[k] = "no"
    /\ closed.at # "no" => \A k \in Kits : subs[k] = None

\* What is queued for a subscriber, or in the hand of its worker, it may see.
Filed == \A o \in Objects : \A recs \in Queued(o) : \A r \in recs : Sees(sub[o].reg, r)

\* The room for what producers have checked but not sent yet is spoken for.
Counted(o) ==
    /\ sub[o].held = Count(sub[o].queue) + Taken(o) + Count(Evicted(o)) - Count(Carried(o, "add"))
    /\ Count(sub[o].queue) + Taken(o) + Count(Evicted(o)) + Count(Carried(o, "send"))
         <= QueueBytes + Largest * (Cardinality(Producers) - 1)

FanInv == Typed /\ Known /\ Subscribed /\ Filed /\ \A o \in Objects : Counted(o)

-----------------------------------------------------------------------------
LEMMA Finite ==
    /\ IsFiniteSet(Producers) /\ Cardinality(Producers) \in Nat \ {0}
    /\ Largest \in Nat \ {0} /\ QueueBytes \in Nat
<1>1. IsFiniteSet(Producers)
    BY HostAssumption, FS_AddElement DEF Producers
<1>2. Producers # {} /\ Cardinality(Producers) \in Nat
    BY <1>1, FS_CardinalityType DEF Producers
<1>3. Largest \in Nat
    BY HostAssumption, FS_CardinalityType DEF Largest
<1> QED
    BY <1>1, <1>2, <1>3, HostAssumption, SizesAssumption, FS_EmptySet DEF Largest

\* What a subscriber sees of a batch is a batch.
LEMMA PartIsABatch ==
    ASSUME NEW reg, NEW recs \in Batches
    PROVE  Part(reg, recs) \in Batches /\ Cardinality(Part(reg, recs)) \in 0..Largest
<1>1. Part(reg, recs) \subseteq recs /\ IsFiniteSet(recs)
    BY DEF Part, Batches
<1>2. /\ IsFiniteSet(Part(reg, recs)) /\ Cardinality(Part(reg, recs)) <= Cardinality(recs)
      /\ Cardinality(recs) \in Nat /\ Cardinality(Part(reg, recs)) \in Nat
    BY <1>1, FS_Subset, FS_CardinalityType
<1>3. Cardinality(recs) <= Largest
    BY DEF Batches
<1>4. Cardinality(Part(reg, recs)) <= Largest
    BY <1>2, <1>3, Finite
<1> QED
    BY <1>1, <1>2, <1>4, Finite DEF Batches

LEMMA NoRecords == {} \in Batches
  BY FS_EmptySet, Finite DEF Batches

LEMMA BatchIsFinite == ASSUME NEW s \in Batches PROVE IsFiniteSet(s) /\ Cardinality(s) \in 0..Largest
<1>1. IsFiniteSet(s) /\ Cardinality(s) <= Largest
    BY DEF Batches
<1> QED
    BY <1>1, Finite, FS_CardinalityType
LEMMA BatchesAreFinite == \A s \in Batches : IsFiniteSet(s)
  BY BatchIsFinite

LEMMA QueueIsAFamily ==
    ASSUME NEW q \in Seq(Batches)
    PROVE  IsFamily(q) /\ Count(q) \in Nat
<1>1. DOMAIN q = 1..Len(q) /\ Len(q) \in Nat /\ \A i \in 1..Len(q) : q[i] \in Batches
    BY LenProperties, ElementOfSeq
<1>2. IsFamily(q)
    BY <1>1, FS_Interval, BatchIsFinite DEF IsFamily
<1> QED
    BY <1>2, FamilyIsFinite

LEMMA ProducersAtAStep ==
    ASSUME Typed, NEW o \in Objects, NEW s
    PROVE  /\ IsFamily(Carried(o, s)) /\ Count(Carried(o, s)) \in Nat
           /\ IsFamily(Evicted(o)) /\ Count(Evicted(o)) \in Nat
           /\ \A p \in At(o, s) : Carried(o, s)[p] = Mine(p) /\ Cardinality(Mine(p)) \in 0..Largest
<1>1. IsFiniteSet(At(o, s)) /\ IsFiniteSet(At(o, "give"))
    BY Finite, FS_Subset DEF At
<1>2. \A p \in Producers : Mine(p) \in Batches /\ prod[p].size \in Nat
    BY PartIsABatch DEF Mine, Typed, Exporters
<1>3. \A p \in Producers : IsFiniteSet(Mine(p)) /\ Cardinality(Mine(p)) \in 0..Largest
    BY <1>2, BatchIsFinite
<1>4. \A p \in Producers : IsFiniteSet(1..prod[p].size)
    BY <1>2, FS_Interval
<1>5. IsFamily(Carried(o, s))
    BY <1>1, <1>3 DEF IsFamily, Carried, At
<1>6. IsFamily(Evicted(o))
    BY <1>1, <1>4 DEF IsFamily, Evicted, At
<1> QED
    BY <1>3, <1>5, <1>6, FamilyIsFinite DEF Carried, At

\* What a family holds beside one index, and with it.
Weight(f, x) == IF x \in DOMAIN f THEN Cardinality(f[x]) ELSE 0
Without(f, x) == [y \in DOMAIN f \ {x} |-> f[y]]
LEMMA OneAndTheOthers ==
    ASSUME NEW f, IsFamily(f), NEW x
    PROVE  Count(f) = Count(Without(f, x)) + Weight(f, x) /\ Count(Without(f, x)) \in Nat /\ Weight(f, x) \in Nat
<1> DEFINE g == Without(f, x)
<1>1. IsFamily(g)
    BY FS_RemoveElement DEF IsFamily, Without
<1>2. Count(g) \in Nat
    BY <1>1, FamilyIsFinite
<1>3. CASE x \in DOMAIN f
  <2>1. DOMAIN f = DOMAIN g \cup {x} /\ x \notin DOMAIN g /\ \A y \in DOMAIN g : f[y] = g[y]
      BY <1>3 DEF Without
  <2>2. IsFiniteSet(f[x])
      BY <1>3 DEF IsFamily
  <2> HIDE DEF g
  <2>3. Count(f) = Count(g) + Cardinality(f[x])
      BY <1>1, <2>1, <2>2, OneMore
  <2> QED
      BY <1>2, <1>3, <2>2, <2>3, FS_CardinalityType DEF Weight, g
<1>4. CASE x \notin DOMAIN f
  <2>1. Contents(g) = Contents(f)
      BY <1>4 DEF Without, Contents
  <2> QED
      BY <1>2, <1>4, <2>1 DEF Weight, Count
<1> QED
    BY <1>3, <1>4

\* The same of a state and of the one after it.
Families == \A o \in Objects : IsFamily(Evicted(o)) /\ \A s \in Sending : IsFamily(Carried(o, s))
LEMMA FamiliesAtAStep == Typed => Families
  BY ProducersAtAStep DEF Families

-----------------------------------------------------------------------------
(* What a step changes of the counts.                                      *)

\* What a producer counts for at a subscriber, at a step.
Load(reg, x, o, s) == IF x.at = s /\ x.to = o THEN Cardinality(Part(reg, x.recs)) ELSE 0
Due(x, o)          == IF x.at = "give" /\ x.to = o THEN x.size ELSE 0

\* One producer moves, and every subscriber is of the registration it was.
LEMMA ProducerMoves ==
    ASSUME Typed, Typed', NEW p \in Producers, NEW x, prod' = [prod EXCEPT ![p] = x],
           NEW o \in Objects, sub'[o].reg = sub[o].reg
    PROVE  /\ \A s \in Sending : Count(Carried(o, s))' = Count(Carried(o, s))
                                    - Load(sub[o].reg, prod[p], o, s) + Load(sub[o].reg, x, o, s)
           /\ Count(Evicted(o))' = Count(Evicted(o)) - Due(prod[p], o) + Due(x, o)
<1>1. prod \in [Producers -> Exporters] /\ x = prod'[p] /\ x \in Exporters
    BY DEF Typed
<1>2. ASSUME NEW s \in Sending
      PROVE  Count(Carried(o, s))' = Count(Carried(o, s))
                                    - Load(sub[o].reg, prod[p], o, s) + Load(sub[o].reg, x, o, s)
  <2> DEFINE f == Carried(o, s)
             g == Carried(o, s)'
  <2>1. IsFamily(f) /\ IsFamily(g)
    <3>1. Families'
        BY FamiliesAtAStep, PTL
    <3> QED
        BY <3>1, ProducersAtAStep DEF Families, IsFamily
  <2>2. DOMAIN f = {q \in Producers : prod[q].at = s /\ prod[q].to = o}
        /\ \A q \in DOMAIN f : f[q] = Part(sub[o].reg, prod[q].recs)
      BY DEF Carried, At, Mine, To
  <2>3. DOMAIN g = {q \in Producers : prod'[q].at = s /\ prod'[q].to = o}
        /\ \A q \in DOMAIN g : g[q] = Part(sub'[o].reg, prod'[q].recs)
      BY DEF Carried, At, Mine, To, Part
  <2>4. \A q \in Producers \ {p} : prod'[q] = prod[q]
      BY <1>1
  <2> HIDE DEF f, g
  <2>5. DOMAIN f \ {p} = DOMAIN g \ {p} /\ \A q \in DOMAIN f \ {p} : f[q] = g[q]
      BY <2>2, <2>3, <2>4
  <2>6. Without(f, p) = Without(g, p)
      BY <2>5 DEF Without
  <2>7. Weight(f, p) = Load(sub[o].reg, prod[p], o, s)
      BY <2>2 DEF Weight, Load
  <2>8. Weight(g, p) = Load(sub[o].reg, x, o, s)
      BY <1>1, <2>3 DEF Weight, Load
  <2>9. /\ Count(f) = Count(Without(f, p)) + Weight(f, p)
        /\ Count(g) = Count(Without(f, p)) + Weight(g, p)
        /\ Count(Without(f, p)) \in Nat /\ Weight(f, p) \in Nat /\ Weight(g, p) \in Nat
      BY <2>1, <2>6, OneAndTheOthers
  <2>10. Count(g) = Count(f) - Weight(f, p) + Weight(g, p)
      BY <2>9
  <2>11. Count(Carried(o, s))' = Count(g)
      BY DEF Count, Contents, g
  <2> QED
      BY <2>7, <2>8, <2>10, <2>11 DEF f
<1>3. Count(Evicted(o))' = Count(Evicted(o)) - Due(prod[p], o) + Due(x, o)
  <2> DEFINE f == Evicted(o)
             g == Evicted(o)'
  <2>1. IsFamily(f) /\ IsFamily(g)
    <3>1. Families'
        BY FamiliesAtAStep, PTL
    <3> QED
        BY <3>1, ProducersAtAStep DEF Families, IsFamily
  <2>2. DOMAIN f = {q \in Producers : prod[q].at = "give" /\ prod[q].to = o}
        /\ \A q \in DOMAIN f : f[q] = 1..prod[q].size
      BY DEF Evicted, At
  <2>3. DOMAIN g = {q \in Producers : prod'[q].at = "give" /\ prod'[q].to = o}
        /\ \A q \in DOMAIN g : g[q] = 1..prod'[q].size
      BY DEF Evicted, At
  <2>4. \A q \in Producers \ {p} : prod'[q] = prod[q]
      BY <1>1
  <2>12. \A n \in Nat : Cardinality(1..n) = n
      BY FS_Interval
  <2> HIDE DEF f, g
  <2>5. DOMAIN f \ {p} = DOMAIN g \ {p} /\ \A q \in DOMAIN f \ {p} : f[q] = g[q]
      BY <2>2, <2>3, <2>4
  <2>6. Without(f, p) = Without(g, p)
      BY <2>5 DEF Without
  <2>7. Weight(f, p) = Due(prod[p], o)
      BY <1>1, <2>2, <2>12 DEF Weight, Due, Exporters
  <2>8. Weight(g, p) = Due(x, o)
      BY <1>1, <2>3, <2>12 DEF Weight, Due, Exporters
  <2>9. /\ Count(f) = Count(Without(f, p)) + Weight(f, p)
        /\ Count(g) = Count(Without(f, p)) + Weight(g, p)
        /\ Count(Without(f, p)) \in Nat /\ Weight(f, p) \in Nat /\ Weight(g, p) \in Nat
      BY <2>1, <2>6, OneAndTheOthers
  <2>10. Count(g) = Count(f) - Weight(f, p) + Weight(g, p)
      BY <2>9
  <2>11. Count(Evicted(o))' = Count(g)
      BY DEF Count, Contents, g
  <2> QED
      BY <2>7, <2>8, <2>10, <2>11 DEF f
<1> QED
    BY <1>2, <1>3

\* No producer moves, and a subscriber that was made is of the registration it was.
LEMMA ProducersStay ==
    ASSUME Typed, Known, prod' = prod, NEW o \in Objects, Made(o) => sub'[o].reg = sub[o].reg
    PROVE  /\ \A s \in Sending : Count(Carried(o, s))' = Count(Carried(o, s))
           /\ Count(Evicted(o))' = Count(Evicted(o))
<1>1. Evicted(o)' = Evicted(o)
    BY DEF Evicted, At
<1>2. ASSUME NEW s \in Sending PROVE Carried(o, s)' = Carried(o, s)
  <2>1. At(o, s)' = At(o, s)
      BY DEF At
  <2>2. \A q \in At(o, s) : prod[q].to = o /\ Made(o)
      BY HostAssumption DEF At, Known
  <2>3. \A q \in At(o, s) : Mine(q)' = Mine(q)
      BY <2>2 DEF Mine, To, Part
  <2> QED
      BY <2>1, <2>3 DEF Carried
<1> QED
    BY <1>1, <1>2 DEF Count, Contents

LEMMA CountsAreNumbers ==
    ASSUME Typed, NEW o \in Objects
    PROVE  /\ Count(sub[o].queue) \in Nat /\ Taken(o) \in Nat /\ sub[o].held \in Int
           /\ Count(Evicted(o)) \in Nat /\ Count(Carried(o, "send")) \in Nat /\ Count(Carried(o, "add")) \in Nat
<1>1. sub[o].queue \in Seq(Batches) /\ sub[o].held \in Int /\ worker[o].hand \in Batches
    BY DEF Typed, Subscribers, Workers
<1>2. Taken(o) \in Nat
    BY <1>1, BatchIsFinite, Finite DEF Taken
<1> QED
    BY <1>1, <1>2, QueueIsAFamily, ProducersAtAStep

\* Producers that hold a checked batch or have sent one are others than one that does neither.
LEMMA TheOthersHold ==
    ASSUME Typed, NEW p \in Producers, prod[p].at \notin {"send", "add"}, NEW o \in Objects
    PROVE  Count(Carried(o, "send")) + Count(Carried(o, "add")) <= Largest * (Cardinality(Producers) - 1)
<1> DEFINE both == [q \in At(o, "send") \cup At(o, "add") |-> Mine(q)]
<1>1. DOMAIN both \subseteq Producers \ {p}
    BY DEF At
<1>2. /\ IsFiniteSet(Producers \ {p}) /\ Cardinality(Producers \ {p}) = Cardinality(Producers) - 1
      /\ IsFiniteSet(DOMAIN both) /\ Cardinality(DOMAIN both) <= Cardinality(Producers) - 1
      /\ Cardinality(DOMAIN both) \in Nat
  <2>1. IsFiniteSet(Producers \ {p}) /\ Cardinality(Producers \ {p}) = Cardinality(Producers) - 1
      BY Finite, FS_RemoveElement
  <2> QED
      BY <1>1, <2>1, FS_Subset, FS_CardinalityType
<1>3. \A q \in DOMAIN both : both[q] \in Batches
    BY <1>1, PartIsABatch DEF Mine, Typed, Exporters
<1>4. IsFamily(both) /\ \A q \in DOMAIN both : Cardinality(both[q]) <= Largest
  <2> HIDE DEF both
  <2>1. \A q \in DOMAIN both : IsFiniteSet(both[q]) /\ Cardinality(both[q]) \in 0..Largest
      BY <1>3, BatchIsFinite
  <2> QED
      BY <1>2, <2>1, Finite DEF IsFamily
<1>5. Count(both) <= Cardinality(DOMAIN both) * Largest
  <2> HIDE DEF both
  <2> QED
      BY <1>4, Finite, NoMoreThan
<1>6. Count(both) = Count(Carried(o, "send")) + Count(Carried(o, "add"))
  <2>1. Contents(both) = Contents(Carried(o, "send")) \cup Contents(Carried(o, "add"))
      BY DEF Contents, Carried
  <2>2. Contents(Carried(o, "send")) \cap Contents(Carried(o, "add")) = {}
    <3>1. \A s : \A c \in Contents(Carried(o, s)) : c[1] \in At(o, s)
        BY DEF Contents, Carried
    <3>2. At(o, "send") \cap At(o, "add") = {}
        BY DEF At
    <3> QED
        BY <3>1, <3>2
  <2>3. IsFiniteSet(Contents(Carried(o, "send"))) /\ IsFiniteSet(Contents(Carried(o, "add")))
      BY ProducersAtAStep, FamilyIsFinite
  <2>4. Cardinality(Contents(both)) = Cardinality(Contents(Carried(o, "send")))
                                        + Cardinality(Contents(Carried(o, "add"))) - Cardinality({})
      BY <2>1, <2>2, <2>3, FS_Union
  <2> QED
      BY <2>4, CountsAreNumbers, FS_EmptySet DEF Count
<1>7. Cardinality(DOMAIN both) * Largest <= (Cardinality(Producers) - 1) * Largest
  <2> HIDE DEF both
  <2>1. \A a, b, c \in Nat : a <= b => a * c <= b * c
      OBVIOUS
  <2> QED
      BY <1>2, <2>1, Finite
<1> QED
    BY <1>5, <1>6, <1>7, <1>2, <1>4, Finite, CountsAreNumbers, FamilyIsFinite

\* The registrations and the subscribers they have made stay as they are.
FacesStay == /\ UNCHANGED <<row, changing, subs, closed>>
             /\ \A o \in Objects : sub'[o].id = sub[o].id /\ sub'[o].reg = sub[o].reg
LEMMA FacesAreSubscribed ==
    ASSUME Typed, Subscribed, FacesStay
    PROVE  Subscribed'
<1>1. \A o \in Objects : Made(o)' <=> Made(o)
    BY DEF Made, FacesStay
<1>2. \A k \in Kits : subs[k] # None => subs[k] \in Objects
    BY DEF Typed
<1> QED
    BY <1>1, <1>2 DEF Subscribed, FacesStay, Same

-----------------------------------------------------------------------------
(* Steps of a producer.                                                    *)

\* A producer that moves and counts for nothing else than before, or for what fits.
LEMMA ProducerGoesOn ==
    ASSUME FanInv, NEW p \in Producers, NEW x \in Exporters, prod' = [prod EXCEPT ![p] = x],
           UNCHANGED <<row, changing, subs, closed, sub, worker>>,
           x.to # None => Made(x.to), \A o \in x.todo : Made(o), x.at \in Sending => x.to # None,
           {x.at, prod[p].at} \cap {"add", "give"} = {},
           x.at = "send" => prod[p].at # "send" /\ Fits(x.to, Cardinality(Part(sub[x.to].reg, x.recs)))
    PROVE  FanInv'
<1>1. Typed'
    BY DEF FanInv, Typed
<1>2. prod \in [Producers -> Exporters] /\ prod'[p] = x /\ \A q \in Producers \ {p} : prod'[q] = prod[q]
    BY DEF FanInv, Typed
<1>3. Known'
    BY <1>2 DEF FanInv, Known, Made
<1>4. Subscribed'
    BY FacesAreSubscribed DEF FanInv, FacesStay
<1>5. Filed'
    BY DEF FanInv, Filed, Queued
<1>6. ASSUME NEW o \in Objects PROVE Counted(o)'
  <2>1. /\ Count(Carried(o, "send"))' = Count(Carried(o, "send"))
                                    - Load(sub[o].reg, prod[p], o, "send") + Load(sub[o].reg, x, o, "send")
        /\ Count(Carried(o, "add"))' = Count(Carried(o, "add"))
                                    - Load(sub[o].reg, prod[p], o, "add") + Load(sub[o].reg, x, o, "add")
        /\ Count(Evicted(o))' = Count(Evicted(o)) - Due(prod[p], o) + Due(x, o)
    <3>1. Typed /\ sub'[o].reg = sub[o].reg /\ {"send", "add"} \subseteq Sending
        BY DEF FanInv, Sending
    <3>2. /\ \A s \in Sending : Count(Carried(o, s))' = Count(Carried(o, s))
                                    - Load(sub[o].reg, prod[p], o, s) + Load(sub[o].reg, x, o, s)
          /\ Count(Evicted(o))' = Count(Evicted(o)) - Due(prod[p], o) + Due(x, o)
        BY <1>1, <3>1, ProducerMoves
    <3> QED
        BY <3>1, <3>2
  <2>2. /\ Load(sub[o].reg, prod[p], o, "add") = 0 /\ Load(sub[o].reg, x, o, "add") = 0
        /\ Due(prod[p], o) = 0 /\ Due(x, o) = 0
      BY DEF Load, Due
  <2>3. Load(sub[o].reg, prod[p], o, "send") \in Nat
      BY <1>2, PartIsABatch, Finite DEF Load, Exporters
  <2>4. Load(sub[o].reg, x, o, "send") \in Nat
      BY PartIsABatch, Finite DEF Load, Exporters
  <2>5. /\ Count(Carried(o, "add"))' = Count(Carried(o, "add")) /\ Count(Evicted(o))' = Count(Evicted(o))
        /\ Count(sub[o].queue)' = Count(sub[o].queue) /\ Taken(o)' = Taken(o) /\ sub'[o].held = sub[o].held
    <3>1. Count(Carried(o, "add"))' = Count(Carried(o, "add")) /\ Count(Evicted(o))' = Count(Evicted(o))
        BY <2>1, <2>2, CountsAreNumbers DEF FanInv
    <3>2. Count(sub[o].queue)' = Count(sub[o].queue)
        BY DEF Count, Contents
    <3> QED
        BY <3>1, <3>2 DEF Taken
  <2>6. sub'[o].held = Count(sub[o].queue)' + Taken(o)' + Count(Evicted(o))' - Count(Carried(o, "add"))'
      BY <2>5 DEF FanInv, Counted
  <2>7. Count(sub[o].queue)' + Taken(o)' + Count(Evicted(o))' + Count(Carried(o, "send"))'
         <= QueueBytes + Largest * (Cardinality(Producers) - 1)
    <3> DEFINE room == Largest * (Cardinality(Producers) - 1)
               size == Load(sub[o].reg, x, o, "send")
               load == Load(sub[o].reg, prod[p], o, "send")
    <3>1. room \in Nat
        BY Finite
    <3>2. CASE x.at = "send" /\ x.to = o
      <4>1. prod[p].at \notin {"send", "add"} /\ load = 0
          BY <3>2 DEF Load
      <4>2. sub[o].held + size <= QueueBytes
          BY <3>2 DEF Fits, Load
      <4>3. Count(Carried(o, "send")) + Count(Carried(o, "add")) <= room
          BY <4>1, TheOthersHold DEF FanInv
      <4>4. Count(Carried(o, "send"))' = Count(Carried(o, "send")) + size
          BY <2>1, <2>4, <4>1, CountsAreNumbers DEF FanInv
      <4>5. sub[o].held = Count(sub[o].queue) + Taken(o) + Count(Evicted(o)) - Count(Carried(o, "add"))
          BY DEF FanInv, Counted
      <4> HIDE DEF room, size, load
      <4>6. Count(sub[o].queue) + Taken(o) + Count(Evicted(o)) + (Count(Carried(o, "send")) + size)
               <= QueueBytes + room
          BY <3>1, <2>4, <4>2, <4>3, <4>5, CountsAreNumbers, Finite DEF FanInv, size
      <4> QED
          BY <2>5, <4>4, <4>6 DEF room
    <3>3. CASE ~(x.at = "send" /\ x.to = o)
      <4>1. Load(sub[o].reg, x, o, "send") = 0
          BY <3>3 DEF Load
      <4>2. Count(sub[o].queue) + Taken(o) + Count(Evicted(o)) + Count(Carried(o, "send")) <= QueueBytes + room
          BY DEF FanInv, Counted
      <4> HIDE DEF room
      <4>3. Count(Carried(o, "send"))' <= Count(Carried(o, "send")) /\ Count(Carried(o, "send"))' \in Int
          BY <2>1, <2>3, <4>1, CountsAreNumbers DEF FanInv
      <4>4. Count(sub[o].queue) + Taken(o) + Count(Evicted(o)) + Count(Carried(o, "send"))' <= QueueBytes + room
          BY <3>1, <4>2, <4>3, CountsAreNumbers, Finite DEF FanInv
      <4> QED
          BY <2>5, <4>4 DEF room
    <3> QED
        BY <3>2, <3>3
  <2> QED
      BY <2>6, <2>7 DEF Counted
<1> QED
    BY <1>1, <1>3, <1>4, <1>5, <1>6 DEF FanInv

\* One subscriber that was made changes its queue or its budget, and the others are let alone.
LEMMA SubscriberGoesOn ==
    ASSUME FanInv, Typed', Known', NEW t \in Objects, NEW y \in Subscribers, sub' = [sub EXCEPT ![t] = y],
           y.id = sub[t].id, y.reg = sub[t].reg, UNCHANGED <<row, changing, subs, closed>>,
           \A o \in Objects \ {t} :
              /\ worker'[o] = worker[o]
              /\ Count(Evicted(o))' = Count(Evicted(o))
              /\ \A s \in {"send", "add"} : Count(Carried(o, s))' = Count(Carried(o, s)),
           \A i \in DOMAIN y.queue : \A r \in y.queue[i] : Sees(y.reg, r),
           worker'[t].at \in {"took", "post"} => \A r \in worker'[t].hand : Sees(y.reg, r),
           Counted(t)'
    PROVE  FanInv'
<1>1. sub \in [Objects -> Subscribers] /\ sub'[t] = y /\ \A o \in Objects \ {t} : sub'[o] = sub[o]
    BY DEF FanInv, Typed
<1>2. Subscribed'
    BY <1>1, FacesAreSubscribed DEF FanInv, FacesStay
<1>3. Filed'
  <2>1. ASSUME NEW o \in Objects \ {t} PROVE \A recs \in Queued(o)' : \A r \in recs : Sees(sub'[o].reg, r)
      BY <1>1, <2>1 DEF FanInv, Filed, Queued
  <2>2. \A recs \in Queued(t)' : \A r \in recs : Sees(sub'[t].reg, r)
      BY <1>1 DEF Queued
  <2>3. \A o \in Objects : \A recs \in Queued(o)' : \A r \in recs : Sees(sub'[o].reg, r)
      BY <2>1, <2>2
  <2> QED
      BY <2>3 DEF Filed, Sees, Eligible
<1>4. ASSUME NEW o \in Objects \ {t} PROVE Counted(o)'
  <2>1. Count(sub[o].queue)' = Count(sub[o].queue) /\ sub'[o].held = sub[o].held
      BY <1>1, <1>4 DEF Count, Contents
  <2>2. Taken(o)' = Taken(o)
      BY <1>4 DEF Taken
  <2>3. Counted(o)
      BY DEF FanInv
  <2> QED
      BY <1>4, <2>1, <2>2, <2>3 DEF Counted
<1> QED
    BY <1>2, <1>3, <1>4 DEF FanInv

\* A producer that moves with its subscriber, on which the two of them account for the same.
LEMMA ProducerMovesWith ==
    ASSUME FanInv, NEW p \in Producers, NEW x \in Exporters, prod' = [prod EXCEPT ![p] = x],
           NEW t \in Objects, Made(t), prod[p].to = t, x.to = t, x.recs = prod[p].recs, x.todo = prod[p].todo,
           NEW y \in Subscribers, sub' = [sub EXCEPT ![t] = y], y.id = sub[t].id, y.reg = sub[t].reg,
           UNCHANGED <<row, changing, subs, closed, worker>>,
           \A i \in DOMAIN y.queue : \A r \in y.queue[i] : Sees(y.reg, r),
           y.held - sub[t].held = Count(y.queue) - Count(sub[t].queue) + Due(x, t) - Due(prod[p], t)
               - Load(sub[t].reg, x, t, "add") + Load(sub[t].reg, prod[p], t, "add"),
           Count(y.queue) + Due(x, t) + Load(sub[t].reg, x, t, "send")
               <= Count(sub[t].queue) + Due(prod[p], t) + Load(sub[t].reg, prod[p], t, "send")
    PROVE  FanInv'
<1>1. Typed'
    BY DEF FanInv, Typed
<1>2. /\ prod \in [Producers -> Exporters] /\ prod'[p] = x /\ \A q \in Producers \ {p} : prod'[q] = prod[q]
      /\ sub \in [Objects -> Subscribers] /\ sub'[t] = y /\ \A o \in Objects \ {t} : sub'[o] = sub[o]
    BY DEF FanInv, Typed
<1>3. \A o \in Objects : sub'[o].id # None <=> Made(o)
    BY <1>2 DEF Made
<1>4. Known'
  <2>1. \A o \in Objects : ~(sub'[o].id # None) => sub'[o] = NoObject /\ worker'[o] = NoWorker
      BY <1>2, <1>3 DEF FanInv, Known
  <2>2. \A o \in closed.wait : sub'[o].id # None
      BY <1>3 DEF FanInv, Known, Typed
  <2>3. ASSUME NEW q \in Producers
        PROVE  /\ prod'[q].to # None => sub'[prod'[q].to].id # None
               /\ \A o \in prod'[q].todo : sub'[o].id # None
               /\ prod'[q].at \in Sending => prod'[q].to # None
    <3>1. prod'[q].to = prod[q].to /\ prod'[q].todo = prod[q].todo
        BY <1>2
    <3>2. /\ prod[q].to # None => prod[q].to \in Objects
          /\ prod[q].todo \subseteq Objects
        BY <1>2 DEF Exporters
    <3>3. prod'[q].at \in Sending => prod'[q].to # None
        BY <1>2, HostAssumption DEF FanInv, Known
    <3>4. /\ prod[q].to # None => Made(prod[q].to)
          /\ \A o \in prod[q].todo : Made(o)
        BY DEF FanInv, Known
    <3> QED
        BY <1>3, <3>1, <3>2, <3>3, <3>4
  <2> QED
      BY <2>1, <2>2, <2>3 DEF Known, Made
<1>5. ASSUME NEW o \in Objects
      PROVE  /\ \A s \in {"send", "add"} : Count(Carried(o, s))' = Count(Carried(o, s))
                     - Load(sub[o].reg, prod[p], o, s) + Load(sub[o].reg, x, o, s)
             /\ Count(Evicted(o))' = Count(Evicted(o)) - Due(prod[p], o) + Due(x, o)
  <2>1. sub'[o].reg = sub[o].reg /\ Typed
      BY <1>2 DEF FanInv
  <2>2. \A s \in Sending : Count(Carried(o, s))' = Count(Carried(o, s))
                     - Load(sub[o].reg, prod[p], o, s) + Load(sub[o].reg, x, o, s)
      BY <1>1, <2>1, ProducerMoves
  <2>3. Count(Evicted(o))' = Count(Evicted(o)) - Due(prod[p], o) + Due(x, o)
      BY <1>1, <2>1, ProducerMoves
  <2> QED
      BY <2>2, <2>3 DEF Sending
<1>6. ASSUME NEW o \in Objects \ {t}
      PROVE  /\ Count(Evicted(o))' = Count(Evicted(o))
             /\ \A s \in {"send", "add"} : Count(Carried(o, s))' = Count(Carried(o, s))
  <2>1. /\ Due(prod[p], o) = 0 /\ Due(x, o) = 0
        /\ \A s : Load(sub[o].reg, prod[p], o, s) = 0 /\ Load(sub[o].reg, x, o, s) = 0
      BY <1>6 DEF Due, Load
  <2> QED
      BY <1>5, <2>1, CountsAreNumbers DEF FanInv
<1>7. \A s : Load(sub[t].reg, prod[p], t, s) \in Nat /\ Load(sub[t].reg, x, t, s) \in Nat
  <2>1. prod[p].recs \in Batches
      BY <1>2 DEF Exporters
  <2> QED
      BY <2>1, PartIsABatch, Finite DEF Load
<1>8. Due(prod[p], t) \in Nat /\ Due(x, t) \in Nat
    BY <1>2 DEF Due, Exporters
<1>9. Count(y.queue) \in Nat /\ y.held \in Int
    BY QueueIsAFamily DEF Subscribers
<1>10. Counted(t)'
  <2> DEFINE room == Largest * (Cardinality(Producers) - 1)
  <2>1. room \in Nat
      BY Finite
  <2>2. /\ sub[t].held = Count(sub[t].queue) + Taken(t) + Count(Evicted(t)) - Count(Carried(t, "add"))
        /\ Count(sub[t].queue) + Taken(t) + Count(Evicted(t)) + Count(Carried(t, "send")) <= QueueBytes + room
      BY DEF FanInv, Counted
  <2>3. Taken(t)' = Taken(t)
      BY DEF Taken
  <2>4. Count(sub[t].queue)' = Count(y.queue) /\ sub'[t].held = y.held
      BY <1>2 DEF Count, Contents
  <2> HIDE DEF room
  <2>5. /\ Count(sub[t].queue) \in Nat /\ Taken(t) \in Nat /\ sub[t].held \in Int /\ QueueBytes \in Nat
        /\ Count(Evicted(t)) \in Nat /\ Count(Carried(t, "send")) \in Nat /\ Count(Carried(t, "add")) \in Nat
      BY CountsAreNumbers, Finite DEF FanInv
  <2>6. y.held = Count(y.queue) + Taken(t) + Count(Evicted(t))' - Count(Carried(t, "add"))'
      BY <1>5, <1>7, <1>8, <1>9, <2>2, <2>5
  <2>7. Count(y.queue) + Taken(t) + Count(Evicted(t))' + Count(Carried(t, "send"))' <= QueueBytes + room
      BY <1>5, <1>7, <1>8, <1>9, <2>1, <2>2, <2>5
  <2> QED
      BY <2>3, <2>4, <2>6, <2>7 DEF Counted, room
<1> QED
    BY <1>1, <1>2, <1>4, <1>6, <1>10, SubscriberGoesOn DEF FanInv, Filed, Queued

-----------------------------------------------------------------------------
\* What an export says: a member each, a cause, or what an admin's Process says of all members.
LEMMA BodiesAreBatches == ASSUME Typed, NEW p \in Producers, NEW recs \in Bodies(p) PROVE recs \in Batches
<1> DEFINE about(users, internal) == [user : users, internal : {internal}]
<1>1. \A u, b : Cardinality({[user |-> u, internal |-> b]}) = 1 /\ IsFiniteSet({[user |-> u, internal |-> b]})
    BY FS_Singleton
<1>2. ASSUME NEW u \in Members \cup Causes \cup {q.owner : q \in Regs}, NEW b \in BOOLEAN
      PROVE  {[user |-> u, internal |-> b]} \in Batches
  <2>1. [user |-> u, internal |-> b] \in Records
      BY DEF Records
  <2>2. Cardinality({[user |-> u, internal |-> b]}) = 1 /\ IsFiniteSet({[user |-> u, internal |-> b]})
      BY <1>1
  <2>3. 1 <= Largest
      BY Finite
  <2> QED
      BY <2>1, <2>2, <2>3 DEF Batches
<1>3. about(Members, FALSE) \in Batches
  <2> DEFINE h == [u \in Members |-> [user |-> u, internal |-> FALSE]]
  <2>1. h \in Surjection(Members, about(Members, FALSE))
    <3>1. \A c \in about(Members, FALSE) : c.user \in Members /\ h[c.user] = c
      <4> TAKE c \in about(Members, FALSE)
      <4>1. c.user \in Members /\ c = [user |-> c.user, internal |-> FALSE]
          OBVIOUS
      <4> QED
          BY <4>1
    <3>2. h \in [Members -> about(Members, FALSE)]
        OBVIOUS
    <3> QED
        BY <3>1, <3>2 DEF Surjection
  <2>2. IsFiniteSet(about(Members, FALSE)) /\ Cardinality(about(Members, FALSE)) <= Cardinality(Members)
      BY <2>1, HostAssumption, FS_Surjection
  <2> QED
      BY <2>2 DEF Batches, Records, Largest
<1>4. CASE p = "session"
  <2>1. PICK r : recs = {r} /\ (r \in [user : Causes, internal : {TRUE}] \/ r \in [user : Members, internal : {FALSE}])
      BY <1>4 DEF Bodies
  <2>2. r = [user |-> r.user, internal |-> r.internal] /\ r.user \in Members \cup Causes /\ r.internal \in BOOLEAN
      BY <2>1
  <2> QED
      BY <1>2, <2>1, <2>2
<1>5. CASE p # "session"
  <2>1. row[p] \in Regs
      BY <1>5 DEF Producers, Typed
  <2>2. recs = about({row[p].owner}, FALSE) \/ recs = about(Members, FALSE)
      BY <1>5 DEF Bodies
  <2>3. about({row[p].owner}, FALSE) = {[user |-> row[p].owner, internal |-> FALSE]}
    <3>1. ASSUME NEW a, NEW c \in [user : {a}, internal : {FALSE}] PROVE c = [user |-> a, internal |-> FALSE]
        BY <3>1
    <3>2. \A a : [user |-> a, internal |-> FALSE] \in [user : {a}, internal : {FALSE}]
        OBVIOUS
    <3> QED
        BY <3>1, <3>2
  <2> QED
      BY <1>2, <1>3, <2>1, <2>2, <2>3
<1> QED
    BY <1>4, <1>5

LEMMA IdleIsAnExporter == Idle \in Exporters
  BY NoRecords DEF Idle, Exporters

AtStep(x, at) == [x EXCEPT !.at = at]
LEMMA AStepOfOne ==
    ASSUME NEW x \in Exporters, NEW at \in Sending \cup {"idle", "dispatch", "next"}
    PROVE  /\ AtStep(x, at) \in Exporters /\ AtStep(x, at).at = at /\ AtStep(x, at).to = x.to
           /\ AtStep(x, at).recs = x.recs /\ AtStep(x, at).todo = x.todo /\ AtStep(x, at).size = x.size
  BY DEF AtStep, Exporters

LEMMA ProducerIsSomewhere ==
    ASSUME FanInv, NEW p \in Producers
    PROVE  /\ prod[p] \in Exporters
           /\ prod[p].to # None => prod[p].to \in Objects /\ Made(prod[p].to)
           /\ prod[p].at \in Sending => prod[p].to # None
           /\ \A o \in prod[p].todo : o \in Objects /\ Made(o)
           /\ \A at : Goto(p, at) => prod' = [prod EXCEPT ![p] = AtStep(prod[p], at)]
  BY DEF FanInv, Typed, Known, Exporters, Goto, AtStep

LEMMA ExportBegins == ASSUME FanInv, NEW p \in Producers, Insert(p) PROVE FanInv'
<1>1. PICK recs \in Bodies(p) : prod' = [prod EXCEPT ![p] = [Idle EXCEPT !.at = "dispatch", !.recs = recs]]
    BY DEF Insert
<1> DEFINE x == [Idle EXCEPT !.at = "dispatch", !.recs = recs]
<1>2. recs \in Batches
    BY BodiesAreBatches DEF FanInv
<1>3. x \in Exporters /\ x.at = "dispatch" /\ x.to = None /\ x.todo = {}
    BY <1>2, IdleIsAnExporter DEF Idle, Exporters
<1>4. prod[p].at = "idle" /\ UNCHANGED <<row, changing, subs, closed, sub, worker>>
    BY DEF Insert
<1> HIDE DEF x
<1>5. prod' = [prod EXCEPT ![p] = x]
    BY <1>1 DEF x
<1> QED
    BY <1>3, <1>4, <1>5, ProducerGoesOn DEF Sending

LEMMA CallBegins == ASSUME FanInv, NEW k \in Kits, CallsATool(k) PROVE FanInv'
<1> DEFINE p    == "session"
           recs == {[user |-> row[k].owner, internal |-> FALSE]}
           x    == [Idle EXCEPT !.at = "dispatch", !.recs = recs]
<1>1. /\ p \in Producers /\ prod[p].at = "idle" /\ row[k] # None /\ prod' = [prod EXCEPT ![p] = x]
      /\ UNCHANGED <<row, changing, subs, closed, sub, worker>>
    BY DEF CallsATool, Producers
<1>2. row[k].owner \in {q.owner : q \in Regs}
    BY DEF FanInv, Typed
<1>3. recs \in Batches
  <2>1. recs \subseteq Records
      BY <1>2 DEF Records
  <2>2. Cardinality(recs) = 1 /\ IsFiniteSet(recs)
      BY FS_Singleton
  <2>3. 1 <= Largest
      BY Finite
  <2> QED
      BY <2>1, <2>2, <2>3 DEF Batches
<1>4. x \in Exporters /\ x.at = "dispatch" /\ x.to = None /\ x.todo = {}
    BY <1>3, IdleIsAnExporter DEF Idle, Exporters
<1> HIDE DEF x
<1> QED
    BY <1>1, <1>4, ProducerGoesOn DEF Sending

LEMMA SubscribersAreFound == ASSUME FanInv, NEW p \in Producers, Dispatch(p) PROVE FanInv'
<1>1. prod[p].at = "dispatch" /\ UNCHANGED <<row, changing, subs, closed, sub, worker>>
    BY DEF Dispatch, Fixed
<1>2. prod[p] \in Exporters
    BY ProducerIsSomewhere
<1>3. CASE p \in Kits /\ subs[p] # None
  <2>1. prod' = [prod EXCEPT ![p] = Idle]
      BY <1>3 DEF Dispatch, FanInv, Typed
  <2> QED
      BY <1>1, <2>1, IdleIsAnExporter, ProducerGoesOn DEF Idle, Sending
<1>4. CASE ~(p \in Kits /\ subs[p] # None)
  <2> DEFINE x == [prod[p] EXCEPT !.at = "next", !.todo = {subs[k] : k \in Kits} \ {None}]
  <2>1. prod' = [prod EXCEPT ![p] = x]
      BY <1>4 DEF Dispatch
  <2>6. {subs[k] : k \in Kits} \ {None} \subseteq Objects
      BY DEF FanInv, Typed
  <2>2. x \in Exporters /\ x.at = "next" /\ x.to = prod[p].to /\ x.todo = {subs[k] : k \in Kits} \ {None}
      BY <1>2, <2>6 DEF Exporters
  <2>3. \A o \in x.todo : Made(o)
    <3>1. \A k \in Kits : subs[k] # None => Made(subs[k])
        BY HostAssumption DEF FanInv, Subscribed, Made
    <3> QED
        BY <2>2, <3>1
  <2>4. x.to # None => Made(x.to)
      BY <2>2, ProducerIsSomewhere
  <2> HIDE DEF x
  <2> QED
      BY <1>1, <2>1, <2>2, <2>3, <2>4, ProducerGoesOn DEF Sending
<1> QED
    BY <1>3, <1>4

LEMMA TheNextIsLookedAt == ASSUME FanInv, NEW p \in Producers, NextSubscriber(p) PROVE FanInv'
<1>1. prod[p].at = "next" /\ UNCHANGED <<row, changing, subs, closed, sub, worker>> /\ prod[p] \in Exporters
    BY ProducerIsSomewhere DEF NextSubscriber, Fixed
<1>2. CASE prod[p].todo = {}
  <2>1. prod' = [prod EXCEPT ![p] = Idle]
      BY <1>2 DEF NextSubscriber
  <2> QED
      BY <1>1, <2>1, IdleIsAnExporter, ProducerGoesOn DEF Idle, Sending
<1>3. CASE prod[p].todo # {}
  <2> DEFINE mine(o) == Part(sub[o].reg, prod[p].recs)
             at(o)   == IF mine(o) = {} THEN "next" ELSE IF Fits(o, Cardinality(mine(o))) THEN "send" ELSE "evict"
             x(o)    == [prod[p] EXCEPT !.todo = @ \ {o}, !.to = o, !.at = at(o)]
  <2>1. PICK o \in prod[p].todo : prod' = [prod EXCEPT ![p].todo = @ \ {o}, ![p].to = o, ![p].at = at(o)]
      BY <1>3 DEF NextSubscriber
  <2>2. prod' = [prod EXCEPT ![p] = x(o)]
      BY <2>1 DEF FanInv, Typed
  <2>3. o \in Objects /\ Made(o) /\ o # None
      BY ProducerIsSomewhere, HostAssumption
  <2>4. at(o) \in {"next", "send", "evict"} /\ (at(o) = "send" => Fits(o, Cardinality(mine(o))))
      OBVIOUS
  <2> HIDE DEF at
  <2>5. /\ x(o) \in Exporters /\ x(o).to = o /\ x(o).at = at(o) /\ x(o).todo = prod[p].todo \ {o}
        /\ x(o).recs = prod[p].recs
      BY <1>1, <2>3, <2>4 DEF Exporters, Sending
  <2>6. \A q \in x(o).todo : Made(q)
      BY <2>5, ProducerIsSomewhere
  <2> HIDE DEF x
  <2>7. {x(o).at, prod[p].at} \cap {"add", "give"} = {}
      BY <1>1, <2>4, <2>5
  <2>8. x(o).at = "send" => prod[p].at # "send" /\ Fits(x(o).to, Cardinality(Part(sub[x(o).to].reg, x(o).recs)))
      BY <1>1, <2>4, <2>5
  <2> QED
      BY <1>1, <2>2, <2>3, <2>5, <2>6, <2>7, <2>8, ProducerGoesOn
<1> QED
    BY <1>2, <1>3

\* A producer that looks whether its batch fits goes on where the budget says.
LEMMA ProducerGoesTo ==
    ASSUME FanInv, NEW p \in Producers, NEW at \in {"check", "send", "evict", "look", "next"}, Goto(p, at),
           UNCHANGED <<row, changing, subs, closed, sub, worker>>,
           prod[p].at \in {"check", "look", "send", "evict"}, at = "send" => prod[p].at # "send" /\ Fits(prod[p].to, Size(p))
    PROVE  FanInv'
<1>1. prod[p] \in Exporters /\ prod[p].to # None /\ Made(prod[p].to) /\ \A o \in prod[p].todo : Made(o)
    BY ProducerIsSomewhere DEF Sending
<1> DEFINE x == AtStep(prod[p], at)
<1>2. /\ x \in Exporters /\ x.at = at /\ x.to = prod[p].to /\ x.recs = prod[p].recs /\ x.todo = prod[p].todo
      /\ prod' = [prod EXCEPT ![p] = x]
    BY <1>1, AStepOfOne, ProducerIsSomewhere DEF Sending
<1>3. x.at = "send" => prod[p].at # "send" /\ Fits(x.to, Cardinality(Part(sub[x.to].reg, x.recs)))
    BY <1>2 DEF Size, Mine, To
<1>4. {x.at, prod[p].at} \cap {"add", "give"} = {}
    BY <1>2
<1> HIDE DEF x
<1> QED
    BY <1>1, <1>2, <1>3, <1>4, ProducerGoesOn

LEMMA ProducerChecks == ASSUME FanInv, NEW p \in Producers, Check(p) \/ LookAgain(p) PROVE FanInv'
<1>1. UNCHANGED <<row, changing, subs, closed, sub, worker>> /\ prod[p].at \in {"check", "look"}
    BY DEF Check, LookAgain, Fixed
<1>2. PICK at \in {"check", "send", "evict", "next"} : Goto(p, at) /\ (at = "send" => Fits(prod[p].to, Size(p)))
    BY DEF Check, LookAgain
<1> QED
    BY <1>1, <1>2, ProducerGoesTo

WithQueue(y, q) == [y EXCEPT !.queue = q]
WithHeld(y, h)  == [y EXCEPT !.held = h]
LEMMA QueueOfASubscriber ==
    ASSUME NEW y \in Subscribers, NEW q \in Seq(Batches)
    PROVE  /\ WithQueue(y, q) \in Subscribers /\ WithQueue(y, q).id = y.id /\ WithQueue(y, q).reg = y.reg
           /\ WithQueue(y, q).queue = q /\ WithQueue(y, q).held = y.held
  BY DEF WithQueue, Subscribers
LEMMA BudgetOfASubscriber ==
    ASSUME NEW y \in Subscribers, NEW h \in Int
    PROVE  /\ WithHeld(y, h) \in Subscribers /\ WithHeld(y, h).id = y.id /\ WithHeld(y, h).reg = y.reg
           /\ WithHeld(y, h).queue = y.queue /\ WithHeld(y, h).held = h
  BY DEF WithHeld, Subscribers

\* What a producer knows of the subscriber it is at.
LEMMA SubscriberOfAProducer ==
    ASSUME FanInv, NEW p \in Producers, prod[p].at \in Sending
    PROVE  /\ prod[p] \in Exporters /\ prod[p].to \in Objects /\ Made(prod[p].to)
           /\ To(p) = sub[prod[p].to] /\ To(p) \in Subscribers /\ To(p).queue \in Seq(Batches) /\ To(p).held \in Int
           /\ Mine(p) \in Batches /\ Size(p) = Cardinality(Mine(p)) /\ Size(p) \in Nat
           /\ \A r \in Mine(p) : Sees(To(p).reg, r)
           /\ \A i \in DOMAIN To(p).queue : \A r \in To(p).queue[i] : Sees(To(p).reg, r)
           /\ \A s : Load(To(p).reg, prod[p], prod[p].to, s) = IF prod[p].at = s THEN Size(p) ELSE 0
<1>1. prod[p] \in Exporters /\ prod[p].to \in Objects /\ Made(prod[p].to)
    BY ProducerIsSomewhere
<1>2. To(p) = sub[prod[p].to] /\ To(p) \in Subscribers
    BY <1>1 DEF To, FanInv, Typed
<1>3. Mine(p) \in Batches /\ Cardinality(Mine(p)) \in 0..Largest
    BY <1>1, PartIsABatch DEF Mine, Exporters
<1>4. \A i \in DOMAIN To(p).queue : \A r \in To(p).queue[i] : Sees(To(p).reg, r)
    BY <1>1, <1>2 DEF FanInv, Filed, Queued
<1>5. To(p).queue \in Seq(Batches) /\ To(p).held \in Int
    BY <1>2 DEF Subscribers
<1>6. \A r \in Mine(p) : Sees(To(p).reg, r)
    BY DEF Mine, Part
<1>7. \A s : Load(To(p).reg, prod[p], prod[p].to, s) = IF prod[p].at = s THEN Size(p) ELSE 0
    BY DEF Load, Size, Mine
<1> QED
    BY <1>1, <1>2, <1>3, <1>4, <1>5, <1>6, <1>7, Finite DEF Size

LEMMA Appended ==
    ASSUME NEW q \in Seq(Batches), NEW u \in Batches
    PROVE  \A i \in DOMAIN Append(q, u) : Append(q, u)[i] = u \/ (i \in DOMAIN q /\ Append(q, u)[i] = q[i])
<1>1. /\ Append(q, u) \in Seq(Batches) /\ Len(Append(q, u)) = Len(q) + 1 /\ Append(q, u)[Len(q) + 1] = u
      /\ \A i \in 1..Len(q) : Append(q, u)[i] = q[i]
    BY AppendProperties
<1>2. DOMAIN Append(q, u) = 1..Len(Append(q, u)) /\ DOMAIN q = 1..Len(q) /\ Len(q) \in Nat
    BY <1>1, LenProperties
<1> QED
    BY <1>1, <1>2

\* What is left of a queue may be seen by whoever may see all of it.
LEMMA StillSeen ==
    ASSUME NEW q, NEW rest, NEW reg, \A i \in DOMAIN q : \A r \in q[i] : Sees(reg, r),
           \A i \in DOMAIN rest : \E j \in DOMAIN q : rest[i] = q[j]
    PROVE  \A i \in DOMAIN rest : \A r \in rest[i] : Sees(reg, r)
  OBVIOUS

LEMMA BatchIsSent == ASSUME FanInv, NEW p \in Producers, Send(p) PROVE FanInv'
<1>1. prod[p].at = "send" /\ UNCHANGED <<row, changing, subs, closed, worker>>
    BY DEF Send, Fixed
<1>2. CASE Len(To(p).queue) < QueueDepth
  <2> DEFINE t == prod[p].to
             q == Append(To(p).queue, Mine(p))
             y == WithQueue(sub[t], q)
             x == AtStep(prod[p], "add")
  <2>1. /\ prod[p] \in Exporters /\ t \in Objects /\ Made(t) /\ To(p) = sub[t] /\ sub[t] \in Subscribers
        /\ To(p).queue \in Seq(Batches) /\ Mine(p) \in Batches /\ Size(p) = Cardinality(Mine(p)) /\ Size(p) \in Nat
        /\ sub[t].held \in Int
      BY <1>1, SubscriberOfAProducer DEF Sending
  <2>2. sub' = [sub EXCEPT ![t] = y]
      BY <1>2, <2>1 DEF Send, WithQueue, FanInv, Typed
  <2>3. prod' = [prod EXCEPT ![p] = x] /\ x \in Exporters /\ x.at = "add" /\ x.to = t /\ x.recs = prod[p].recs
        /\ x.todo = prod[p].todo
      BY <1>2, <2>1, ProducerIsSomewhere, AStepOfOne DEF Send, Sending
  <2>4. q \in Seq(Batches) /\ y \in Subscribers /\ y.id = sub[t].id /\ y.reg = sub[t].reg /\ y.queue = q
        /\ y.held = sub[t].held
    <3>1. q \in Seq(Batches)
        BY <2>1, AppendProperties
    <3> HIDE DEF q
    <3> QED
        BY <2>1, <3>1, QueueOfASubscriber
  <2>5. Count(q) = Count(sub[t].queue) + Size(p) /\ Count(sub[t].queue) \in Nat
    <3> HIDE DEF t
    <3> QED
        BY <2>1, BatchesAreFinite, SetQueued
  <2>6. \A i \in DOMAIN q : \A r \in q[i] : Sees(y.reg, r)
    <3>1. /\ \A r \in Mine(p) : Sees(To(p).reg, r)
          /\ \A i \in DOMAIN To(p).queue : \A r \in To(p).queue[i] : Sees(To(p).reg, r)
        BY <1>1, SubscriberOfAProducer DEF Sending
    <3>2. \A i \in DOMAIN q : q[i] = Mine(p) \/ (i \in DOMAIN To(p).queue /\ q[i] = To(p).queue[i])
        BY <2>1, Appended
    <3> HIDE DEF t, q, y
    <3> QED
        BY <2>1, <2>4, <3>1, <3>2
  <2>7. /\ Load(sub[t].reg, prod[p], t, "send") = Size(p) /\ Load(sub[t].reg, prod[p], t, "add") = 0
        /\ Load(sub[t].reg, x, t, "send") = 0 /\ Load(sub[t].reg, x, t, "add") = Size(p)
        /\ Due(prod[p], t) = 0 /\ Due(x, t) = 0
      BY <1>1, <2>1, <2>3 DEF Load, Due, Size, Mine
  <2> HIDE DEF t, q, y, x
  <2>8. y.held - sub[t].held = Count(y.queue) - Count(sub[t].queue) + Due(x, t) - Due(prod[p], t)
               - Load(sub[t].reg, x, t, "add") + Load(sub[t].reg, prod[p], t, "add")
      BY <2>1, <2>4, <2>5, <2>7
  <2>9. Count(y.queue) + Due(x, t) + Load(sub[t].reg, x, t, "send")
               <= Count(sub[t].queue) + Due(prod[p], t) + Load(sub[t].reg, prod[p], t, "send")
      BY <2>1, <2>4, <2>5, <2>7
  <2> QED
      BY <1>1, <2>1, <2>2, <2>3, <2>4, <2>6, <2>8, <2>9, ProducerMovesWith DEF t
<1>3. CASE ~(Len(To(p).queue) < QueueDepth)
    BY <1>1, <1>3, ProducerGoesTo DEF Send
<1> QED
    BY <1>2, <1>3

LEMMA BatchIsCounted == ASSUME FanInv, NEW p \in Producers, AddHeld(p) PROVE FanInv'
<1>1. prod[p].at = "add" /\ UNCHANGED <<row, changing, subs, closed, worker>>
    BY DEF AddHeld, Fixed
<1> DEFINE t == prod[p].to
           y == WithHeld(sub[t], sub[t].held + Size(p))
           x == AtStep(prod[p], "next")
<1>2. /\ prod[p] \in Exporters /\ t \in Objects /\ Made(t) /\ To(p) = sub[t] /\ sub[t] \in Subscribers
      /\ sub[t].held \in Int /\ Size(p) \in Nat /\ sub[t].queue \in Seq(Batches)
    BY <1>1, SubscriberOfAProducer DEF Sending
<1>3. sub' = [sub EXCEPT ![t] = y]
    BY <1>2 DEF AddHeld, WithHeld, FanInv, Typed
<1>4. prod' = [prod EXCEPT ![p] = x] /\ x \in Exporters /\ x.at = "next" /\ x.to = t /\ x.recs = prod[p].recs
      /\ x.todo = prod[p].todo
    BY <1>2, ProducerIsSomewhere, AStepOfOne DEF AddHeld
<1>5. y \in Subscribers /\ y.id = sub[t].id /\ y.reg = sub[t].reg /\ y.queue = sub[t].queue
      /\ y.held = sub[t].held + Size(p)
  <2>1. sub[t].held + Size(p) \in Int
      BY <1>2
  <2> QED
      BY <1>2, <2>1, BudgetOfASubscriber
<1>6. \A i \in DOMAIN y.queue : \A r \in y.queue[i] : Sees(y.reg, r)
    BY <1>1, <1>2, <1>5, SubscriberOfAProducer DEF Sending
<1>7. /\ Load(sub[t].reg, prod[p], t, "send") = 0 /\ Load(sub[t].reg, prod[p], t, "add") = Size(p)
      /\ Load(sub[t].reg, x, t, "send") = 0 /\ Load(sub[t].reg, x, t, "add") = 0
      /\ Due(prod[p], t) = 0 /\ Due(x, t) = 0
    BY <1>1, <1>2, <1>4 DEF Load, Due, Size, Mine
<1>8. Count(sub[t].queue) \in Nat
    BY <1>2, QueueIsAFamily
<1> HIDE DEF t, y, x
<1>9. y.held - sub[t].held = Count(y.queue) - Count(sub[t].queue) + Due(x, t) - Due(prod[p], t)
             - Load(sub[t].reg, x, t, "add") + Load(sub[t].reg, prod[p], t, "add")
    BY <1>2, <1>5, <1>7, <1>8
<1>10. Count(y.queue) + Due(x, t) + Load(sub[t].reg, x, t, "send")
             <= Count(sub[t].queue) + Due(prod[p], t) + Load(sub[t].reg, prod[p], t, "send")
    BY <1>2, <1>5, <1>7, <1>8
<1> QED
    BY <1>1, <1>2, <1>3, <1>4, <1>5, <1>6, <1>9, <1>10, ProducerMovesWith DEF t

Owing(x, at, n) == [x EXCEPT !.at = at, !.size = n]
LEMMA OneThatOwes ==
    ASSUME NEW x \in Exporters, NEW at \in Sending, NEW n \in Nat
    PROVE  /\ Owing(x, at, n) \in Exporters /\ Owing(x, at, n).at = at /\ Owing(x, at, n).to = x.to
           /\ Owing(x, at, n).recs = x.recs /\ Owing(x, at, n).todo = x.todo /\ Owing(x, at, n).size = n
  BY DEF Owing, Exporters

LEMMA OldestIsEvicted == ASSUME FanInv, NEW p \in Producers, Evict(p) PROVE FanInv'
<1>1. prod[p].at = "evict" /\ UNCHANGED <<row, changing, subs, closed, worker>>
    BY DEF Evict, Fixed
<1>2. CASE To(p).queue # <<>>
  <2> DEFINE t == prod[p].to
             q == To(p).queue
             n == Cardinality(Head(q))
             y == WithQueue(sub[t], Tail(q))
             x == Owing(prod[p], "give", n)
  <2>1. /\ prod[p] \in Exporters /\ t \in Objects /\ Made(t) /\ To(p) = sub[t] /\ sub[t] \in Subscribers
        /\ q \in Seq(Batches) /\ sub[t].held \in Int
      BY <1>1, SubscriberOfAProducer DEF Sending
  <2>2. /\ Count(q) = n + Count(Tail(q)) /\ Count(Tail(q)) \in Nat /\ n \in Nat
        /\ Tail(q) \in Seq(Batches) /\ \A i \in DOMAIN Tail(q) : \E j \in DOMAIN q : Tail(q)[i] = q[j]
    <3>1. \A u \in Batches : IsFiniteSet(u)
        BY BatchesAreFinite
    <3>2. Head(q) \in Batches /\ Tail(q) \in Seq(Batches) /\ Len(Tail(q)) = Len(q) - 1
          /\ \A i \in 1..Len(Tail(q)) : Tail(q)[i] = q[i+1]
        BY <1>2, <2>1, HeadTailProperties
    <3>3. DOMAIN Tail(q) = 1..Len(Tail(q)) /\ DOMAIN q = 1..Len(q) /\ Len(q) \in Nat
        BY <2>1, <3>2, LenProperties
    <3>4. \A i \in DOMAIN Tail(q) : i + 1 \in DOMAIN q
        BY <3>2, <3>3
    <3>5. Count(q) = n + Count(Tail(q)) /\ Count(Tail(q)) \in Nat
        BY <1>2, <2>1, <3>1, HeadGoes
    <3>6. n \in Nat
        BY <3>2, BatchIsFinite, Finite
    <3> QED
        BY <3>2, <3>3, <3>4, <3>5, <3>6
  <2>3. sub' = [sub EXCEPT ![t] = y]
      BY <1>2, <2>1 DEF Evict, WithQueue, FanInv, Typed
  <2>4. prod' = [prod EXCEPT ![p] = x]
      BY <1>2, <2>1 DEF Evict, Owing, FanInv, Typed
  <2>5. x \in Exporters /\ x.at = "give" /\ x.to = t /\ x.recs = prod[p].recs /\ x.todo = prod[p].todo /\ x.size = n
    <3>1. "give" \in Sending
        BY DEF Sending
    <3>2. prod[p] \in Exporters /\ n \in Nat /\ prod[p].to = t
        BY <2>1, <2>2
    <3> HIDE DEF n, t
    <3> QED
        BY <3>1, <3>2, OneThatOwes
  <2>6. y \in Subscribers /\ y.id = sub[t].id /\ y.reg = sub[t].reg /\ y.queue = Tail(q) /\ y.held = sub[t].held
      BY <2>1, <2>2, QueueOfASubscriber
  <2>7. \A i \in DOMAIN y.queue : \A r \in y.queue[i] : Sees(y.reg, r)
    <3>1. \A i \in DOMAIN q : \A r \in q[i] : Sees(To(p).reg, r)
        BY <1>1, SubscriberOfAProducer DEF Sending
    <3>2. \A i \in DOMAIN Tail(q) : \A r \in Tail(q)[i] : Sees(To(p).reg, r)
        BY <2>2, <3>1, StillSeen
    <3> HIDE DEF t, q, n, y, x
    <3> QED
        BY <2>1, <2>6, <3>2
  <2>8. /\ \A s \in {"send", "add"} : Load(sub[t].reg, prod[p], t, s) = 0 /\ Load(sub[t].reg, x, t, s) = 0
        /\ Due(prod[p], t) = 0 /\ Due(x, t) = n
      BY <1>1, <2>5 DEF Load, Due
  <2>9. Count(sub[t].queue) = n + Count(y.queue) /\ Count(y.queue) \in Nat
      BY <2>1, <2>2, <2>6
  <2> HIDE DEF t, q, y, x
  <2>10. y.held - sub[t].held = Count(y.queue) - Count(sub[t].queue) + Due(x, t) - Due(prod[p], t)
               - Load(sub[t].reg, x, t, "add") + Load(sub[t].reg, prod[p], t, "add")
      BY <2>1, <2>2, <2>6, <2>8, <2>9
  <2>11. Count(y.queue) + Due(x, t) + Load(sub[t].reg, x, t, "send")
               <= Count(sub[t].queue) + Due(prod[p], t) + Load(sub[t].reg, prod[p], t, "send")
      BY <2>2, <2>8, <2>9
  <2> QED
      BY <1>1, <2>1, <2>3, <2>4, <2>5, <2>6, <2>7, <2>10, <2>11, ProducerMovesWith DEF t
<1>3. CASE To(p).queue = <<>>
    BY <1>1, <1>3, ProducerGoesTo DEF Evict
<1> QED
    BY <1>2, <1>3

LEMMA BytesAreGivenBack == ASSUME FanInv, NEW p \in Producers, GiveBack(p) PROVE FanInv'
<1>1. prod[p].at = "give" /\ UNCHANGED <<row, changing, subs, closed, worker>>
    BY DEF GiveBack, Fixed
<1> DEFINE t == prod[p].to
           n == prod[p].size
           y == WithHeld(sub[t], sub[t].held - n)
           x == Owing(prod[p], "check", 0)
<1>2. /\ prod[p] \in Exporters /\ t \in Objects /\ Made(t) /\ To(p) = sub[t] /\ sub[t] \in Subscribers
      /\ sub[t].held \in Int /\ n \in Nat /\ sub[t].queue \in Seq(Batches)
    BY <1>1, SubscriberOfAProducer DEF Sending, Exporters
<1>3. sub' = [sub EXCEPT ![t] = y]
    BY <1>2 DEF GiveBack, WithHeld, FanInv, Typed
<1>4. prod' = [prod EXCEPT ![p] = x]
    BY DEF GiveBack, Owing, FanInv, Typed
<1>5. x \in Exporters /\ x.at = "check" /\ x.to = t /\ x.recs = prod[p].recs /\ x.todo = prod[p].todo
  <2>1. "check" \in Sending /\ 0 \in Nat
      BY DEF Sending
  <2> QED
      BY <1>2, <2>1, OneThatOwes
<1>6. y \in Subscribers /\ y.id = sub[t].id /\ y.reg = sub[t].reg /\ y.queue = sub[t].queue
      /\ y.held = sub[t].held - n
  <2>1. sub[t].held - n \in Int
      BY <1>2
  <2> QED
      BY <1>2, <2>1, BudgetOfASubscriber
<1>7. \A i \in DOMAIN y.queue : \A r \in y.queue[i] : Sees(y.reg, r)
    BY <1>1, <1>2, <1>6, SubscriberOfAProducer DEF Sending
<1>8. /\ \A s \in {"send", "add"} : Load(sub[t].reg, prod[p], t, s) = 0 /\ Load(sub[t].reg, x, t, s) = 0
      /\ Due(prod[p], t) = n /\ Due(x, t) = 0
    BY <1>1, <1>5 DEF Load, Due
<1>9. Count(sub[t].queue) \in Nat
    BY <1>2, QueueIsAFamily
<1> HIDE DEF t, n, y, x
<1>10. y.held - sub[t].held = Count(y.queue) - Count(sub[t].queue) + Due(x, t) - Due(prod[p], t)
             - Load(sub[t].reg, x, t, "add") + Load(sub[t].reg, prod[p], t, "add")
    BY <1>2, <1>6, <1>8, <1>9
<1>11. Count(y.queue) + Due(x, t) + Load(sub[t].reg, x, t, "send")
             <= Count(sub[t].queue) + Due(prod[p], t) + Load(sub[t].reg, prod[p], t, "send")
    BY <1>2, <1>6, <1>8, <1>9
<1> QED
    BY <1>1, <1>2, <1>3, <1>4, <1>5, <1>6, <1>7, <1>10, <1>11, ProducerMovesWith DEF t

LEMMA ExportGoesOn == ASSUME FanInv, NEW p \in Producers, Export(p) PROVE FanInv'
  BY SubscribersAreFound, TheNextIsLookedAt, ProducerChecks, BatchIsSent, BatchIsCounted, OldestIsEvicted,
     BytesAreGivenBack DEF Export

-----------------------------------------------------------------------------
(* Steps of a worker.                                                      *)

InHand(w) == IF w.at = "took" THEN Cardinality(w.hand) ELSE 0

\* A worker and its subscriber move, and account for the same.
LEMMA WorkerMoves ==
    ASSUME FanInv, NEW t \in Objects, Made(t), NEW w \in Workers, worker' = [worker EXCEPT ![t] = w],
           NEW y \in Subscribers, sub' = [sub EXCEPT ![t] = y], y.id = sub[t].id, y.reg = sub[t].reg,
           UNCHANGED <<row, changing, subs, closed, prod>>,
           \A i \in DOMAIN y.queue : \A r \in y.queue[i] : Sees(y.reg, r),
           w.at \in {"took", "post"} => \A r \in w.hand : Sees(y.reg, r),
           y.held - sub[t].held = Count(y.queue) - Count(sub[t].queue) + InHand(w) - InHand(worker[t]),
           Count(y.queue) + InHand(w) <= Count(sub[t].queue) + InHand(worker[t])
    PROVE  FanInv'
<1>1. Typed'
    BY DEF FanInv, Typed
<1>2. /\ sub \in [Objects -> Subscribers] /\ sub'[t] = y /\ \A o \in Objects \ {t} : sub'[o] = sub[o]
      /\ worker \in [Objects -> Workers] /\ worker'[t] = w /\ \A o \in Objects \ {t} : worker'[o] = worker[o]
    BY DEF FanInv, Typed
<1>3. \A o \in Objects : sub'[o].id # None <=> Made(o)
    BY <1>2 DEF Made
<1>4. Known'
  <2>1. \A o \in Objects : ~(sub'[o].id # None) => sub'[o] = NoObject /\ worker'[o] = NoWorker
      BY <1>2, <1>3 DEF FanInv, Known
  <2>2. \A o \in closed.wait : sub'[o].id # None
      BY <1>3 DEF FanInv, Known, Typed
  <2>3. ASSUME NEW q \in Producers
        PROVE  /\ prod[q].to # None => sub'[prod[q].to].id # None
               /\ \A o \in prod[q].todo : sub'[o].id # None
               /\ prod[q].at \in Sending => prod[q].to # None
      BY <1>3, ProducerIsSomewhere
  <2> QED
      BY <2>1, <2>2, <2>3 DEF Known, Made
<1>5. ASSUME NEW o \in Objects
      PROVE  /\ \A s \in Sending : Count(Carried(o, s))' = Count(Carried(o, s))
             /\ Count(Evicted(o))' = Count(Evicted(o))
  <2>1. Made(o) => sub'[o].reg = sub[o].reg
      BY <1>2
  <2> QED
      BY <2>1, ProducersStay DEF FanInv
<1>6. Counted(t)'
  <2> DEFINE room == Largest * (Cardinality(Producers) - 1)
  <2>1. room \in Nat
      BY Finite
  <2>2. /\ sub[t].held = Count(sub[t].queue) + InHand(worker[t]) + Count(Evicted(t)) - Count(Carried(t, "add"))
        /\ Count(sub[t].queue) + InHand(worker[t]) + Count(Evicted(t)) + Count(Carried(t, "send")) <= QueueBytes + room
      BY DEF FanInv, Counted, Taken, InHand
  <2>3. Taken(t)' = InHand(w) /\ InHand(w) \in Nat /\ InHand(worker[t]) \in Nat
    <3>1. InHand(w) \in Nat
        BY BatchIsFinite, Finite DEF InHand, Workers
    <3>2. InHand(worker[t]) \in Nat
        BY CountsAreNumbers DEF FanInv, Taken, InHand
    <3> QED
        BY <1>2, <3>1, <3>2 DEF Taken, InHand
  <2>4. Count(sub[t].queue)' = Count(y.queue) /\ sub'[t].held = y.held
      BY <1>2 DEF Count, Contents
  <2>5. Count(y.queue) \in Nat /\ y.held \in Int
      BY QueueIsAFamily DEF Subscribers
  <2> HIDE DEF room
  <2>6. /\ Count(sub[t].queue) \in Nat /\ sub[t].held \in Int /\ QueueBytes \in Nat
        /\ Count(Evicted(t)) \in Nat /\ Count(Carried(t, "send")) \in Nat /\ Count(Carried(t, "add")) \in Nat
      BY CountsAreNumbers, Finite DEF FanInv
  <2>7. y.held = Count(y.queue) + InHand(w) + Count(Evicted(t)) - Count(Carried(t, "add"))
      BY <2>2, <2>3, <2>5, <2>6
  <2>8. Count(y.queue) + InHand(w) + Count(Evicted(t)) + Count(Carried(t, "send")) <= QueueBytes + room
      BY <2>1, <2>2, <2>3, <2>5, <2>6
  <2>9. /\ Count(Carried(t, "send"))' = Count(Carried(t, "send")) /\ Count(Carried(t, "add"))' = Count(Carried(t, "add"))
        /\ Count(Evicted(t))' = Count(Evicted(t))
      BY <1>5 DEF Sending
  <2> QED
      BY <2>3, <2>4, <2>7, <2>8, <2>9 DEF Counted, room
<1>7. \A o \in Objects \ {t} :
         /\ worker'[o] = worker[o] /\ Count(Evicted(o))' = Count(Evicted(o))
         /\ \A s \in {"send", "add"} : Count(Carried(o, s))' = Count(Carried(o, s))
    BY <1>2, <1>5 DEF Sending
<1> QED
    BY <1>1, <1>2, <1>4, <1>6, <1>7, SubscriberGoesOn

\* Who works was made, and what it works on it may see.
LEMMA WorkerOfASubscriber ==
    ASSUME FanInv, NEW t \in Objects, worker[t].at # "none"
    PROVE  /\ Made(t) /\ sub[t] \in Subscribers /\ worker[t] \in Workers
           /\ sub[t].queue \in Seq(Batches) /\ sub[t].held \in Int /\ worker[t].hand \in Batches
           /\ Count(sub[t].queue) \in Nat /\ Cardinality(worker[t].hand) \in Nat
           /\ \A i \in DOMAIN sub[t].queue : \A r \in sub[t].queue[i] : Sees(sub[t].reg, r)
           /\ worker[t].at \in {"took", "post"} => \A r \in worker[t].hand : Sees(sub[t].reg, r)
<1>1. Made(t)
    BY DEF FanInv, Known, NoWorker
<1>2. sub[t] \in Subscribers /\ worker[t] \in Workers
    BY DEF FanInv, Typed
<1>3. sub[t].queue \in Seq(Batches) /\ sub[t].held \in Int /\ worker[t].hand \in Batches
    BY <1>2 DEF Subscribers, Workers
<1>4. /\ \A i \in DOMAIN sub[t].queue : \A r \in sub[t].queue[i] : Sees(sub[t].reg, r)
      /\ worker[t].at \in {"took", "post"} => \A r \in worker[t].hand : Sees(sub[t].reg, r)
    BY DEF FanInv, Filed, Queued
<1> QED
    BY <1>1, <1>2, <1>3, <1>4, QueueIsAFamily, BatchIsFinite, Finite

LEMMA WorkGoesOn == ASSUME FanInv, NEW t \in Objects, Work(t) PROVE FanInv'
<1>1. worker[t].at # "none" /\ UNCHANGED <<row, changing, subs, closed, prod>>
    BY DEF Work, Take, Release, Post, LeaveWorker, Others
<1>2. /\ Made(t) /\ sub[t] \in Subscribers /\ worker[t] \in Workers
      /\ sub[t].queue \in Seq(Batches) /\ sub[t].held \in Int /\ worker[t].hand \in Batches
      /\ Count(sub[t].queue) \in Nat /\ Cardinality(worker[t].hand) \in Nat
      /\ \A i \in DOMAIN sub[t].queue : \A r \in sub[t].queue[i] : Sees(sub[t].reg, r)
      /\ worker[t].at \in {"took", "post"} => \A r \in worker[t].hand : Sees(sub[t].reg, r)
    BY <1>1, WorkerOfASubscriber
<1>3. CASE Take(t)
  <2> DEFINE q == sub[t].queue
             y == WithQueue(sub[t], Tail(q))
             w == [at |-> "took", hand |-> Head(q)]
  <2>1. worker[t].at = "wait" /\ q # <<>> /\ worker' = [worker EXCEPT ![t] = w]
      BY <1>3 DEF Take
  <2>2. sub' = [sub EXCEPT ![t] = y]
      BY <1>3 DEF Take, WithQueue, FanInv, Typed
  <2>3. /\ Head(q) \in Batches /\ Tail(q) \in Seq(Batches) /\ 1 \in DOMAIN q /\ Head(q) = q[1]
        /\ \A i \in DOMAIN Tail(q) : i + 1 \in DOMAIN q /\ Tail(q)[i] = q[i+1]
    <3>1. Len(q) \in Nat \ {0} /\ DOMAIN q = 1..Len(q) /\ Head(q) = q[1]
        BY <1>2, <2>1, LenProperties, EmptySeq, HeadTailProperties
    <3>2. Head(q) \in Batches /\ Tail(q) \in Seq(Batches) /\ Len(Tail(q)) = Len(q) - 1
          /\ \A i \in 1..Len(Tail(q)) : Tail(q)[i] = q[i+1]
        BY <1>2, <2>1, HeadTailProperties
    <3>3. DOMAIN Tail(q) = 1..Len(Tail(q))
        BY <3>2, LenProperties
    <3> QED
        BY <3>1, <3>2, <3>3
  <2>4. Count(q) = Cardinality(Head(q)) + Count(Tail(q)) /\ Count(Tail(q)) \in Nat /\ Cardinality(Head(q)) \in Nat
    <3>1. \A u \in Batches : IsFiniteSet(u)
        BY BatchesAreFinite
    <3>2. Count(q) = Cardinality(Head(q)) + Count(Tail(q)) /\ Count(Tail(q)) \in Nat
        BY <1>2, <2>1, <3>1, HeadGoes
    <3> QED
        BY <2>3, <3>2, BatchIsFinite, Finite
  <2>5. /\ y \in Subscribers /\ y.id = sub[t].id /\ y.reg = sub[t].reg /\ y.queue = Tail(q) /\ y.held = sub[t].held
      BY <1>2, <2>3, QueueOfASubscriber
  <2>6. w \in Workers /\ InHand(w) = Cardinality(Head(q)) /\ InHand(worker[t]) = 0
      BY <2>1, <2>3 DEF Workers, InHand
  <2>7. \A i \in DOMAIN y.queue : \A r \in y.queue[i] : Sees(y.reg, r)
    <3>1. \A i \in DOMAIN Tail(q) : \E j \in DOMAIN q : Tail(q)[i] = q[j]
        BY <2>3
    <3>2. \A i \in DOMAIN Tail(q) : \A r \in Tail(q)[i] : Sees(sub[t].reg, r)
        BY <1>2, <3>1, StillSeen
    <3> HIDE DEF q, y, w
    <3> QED
        BY <2>5, <3>2
  <2>8. \A r \in w.hand : Sees(y.reg, r)
      BY <1>2, <2>3, <2>5
  <2> HIDE DEF y, w
  <2>9. /\ y.held - sub[t].held = Count(y.queue) - Count(sub[t].queue) + InHand(w) - InHand(worker[t])
        /\ Count(y.queue) + InHand(w) <= Count(sub[t].queue) + InHand(worker[t])
      BY <1>2, <2>4, <2>5, <2>6
  <2> QED
      BY <1>1, <1>2, <2>1, <2>2, <2>5, <2>6, <2>7, <2>8, <2>9, WorkerMoves
<1>4. CASE Release(t)
  <2> DEFINE n == Cardinality(worker[t].hand)
             y == WithHeld(sub[t], sub[t].held - n)
             w == [worker[t] EXCEPT !.at = "post"]
  <2>1. worker[t].at = "took" /\ worker' = [worker EXCEPT ![t] = w] /\ sub' = [sub EXCEPT ![t] = y]
      BY <1>2, <1>4 DEF Release, Worker, WithHeld, FanInv, Typed
  <2>2. y \in Subscribers /\ y.id = sub[t].id /\ y.reg = sub[t].reg /\ y.queue = sub[t].queue
        /\ y.held = sub[t].held - n
    <3>1. sub[t].held - n \in Int
        BY <1>2
    <3> QED
        BY <1>2, <3>1, BudgetOfASubscriber
  <2>3. w \in Workers /\ w.at = "post" /\ w.hand = worker[t].hand /\ InHand(w) = 0 /\ InHand(worker[t]) = n
      BY <1>2, <2>1 DEF Workers, InHand
  <2>4. \A i \in DOMAIN y.queue : \A r \in y.queue[i] : Sees(y.reg, r)
      BY <1>2, <2>2
  <2>5. \A r \in w.hand : Sees(y.reg, r)
      BY <1>2, <2>1, <2>2, <2>3
  <2> HIDE DEF y, w
  <2>6. /\ y.held - sub[t].held = Count(y.queue) - Count(sub[t].queue) + InHand(w) - InHand(worker[t])
        /\ Count(y.queue) + InHand(w) <= Count(sub[t].queue) + InHand(worker[t])
      BY <1>2, <2>2, <2>3
  <2> QED
      BY <1>1, <1>2, <2>1, <2>2, <2>3, <2>4, <2>5, <2>6, WorkerMoves
<1>5. CASE Post(t) \/ LeaveWorker(t)
  <2>1. PICK w \in {NewWorker, [worker[t] EXCEPT !.at = "gone"]} : worker' = [worker EXCEPT ![t] = w]
      BY <1>5 DEF Post, LeaveWorker, Worker, FanInv, Typed
  <2>2. sub' = [sub EXCEPT ![t] = sub[t]] /\ worker[t].at \in {"post", "wait"}
      BY <1>5 DEF Post, LeaveWorker, FanInv, Typed
  <2>3. w \in Workers /\ w.at \in {"wait", "gone"}
    <3>1. NewWorker \in Workers /\ NewWorker.at = "wait"
        BY NoRecords DEF NewWorker, Workers
    <3>2. [worker[t] EXCEPT !.at = "gone"] \in Workers /\ [worker[t] EXCEPT !.at = "gone"].at = "gone"
        BY <1>2 DEF Workers
    <3> QED
        BY <2>1, <3>1, <3>2
  <2>4. InHand(w) = 0 /\ InHand(worker[t]) = 0
      BY <2>2, <2>3 DEF InHand
  <2>5. /\ sub[t].held - sub[t].held = Count(sub[t].queue) - Count(sub[t].queue) + InHand(w) - InHand(worker[t])
        /\ Count(sub[t].queue) + InHand(w) <= Count(sub[t].queue) + InHand(worker[t])
      BY <1>2, <2>4
  <2> QED
      BY <1>1, <1>2, <2>1, <2>2, <2>3, <2>5, WorkerMoves
<1> QED
    BY <1>3, <1>4, <1>5 DEF Work

-----------------------------------------------------------------------------
(* Registrations, the boot and the close.                                  *)

Kept(o)   == /\ sub'[o].id = sub[o].id /\ sub'[o].reg = sub[o].reg /\ sub'[o].queue = sub[o].queue
             /\ sub'[o].held = sub[o].held /\ worker'[o] = worker[o]
             /\ ~Made(o) => sub'[o] = sub[o]
MadeNew(o) == /\ ~Made(o) /\ sub'[o].id # None /\ sub'[o].queue = <<>> /\ sub'[o].held = 0
              /\ worker'[o] = NewWorker

\* Nobody produces or works: subscribers are told to stop, or made, with an empty queue and budget.
LEMMA SubscribersAreMade ==
    ASSUME FanInv, Typed', Subscribed', prod' = prod, \A o \in closed'.wait : Made(o),
           \A o \in Objects : Kept(o) \/ MadeNew(o)
    PROVE  FanInv'
<1>1. \A o \in Objects : Made(o) => sub'[o].id # None
    BY DEF Made, Kept, MadeNew
<1>2. Known'
  <2>1. \A o \in Objects : ~(sub'[o].id # None) => sub'[o] = NoObject /\ worker'[o] = NoWorker
    <3> TAKE o \in Objects
    <3> HAVE ~(sub'[o].id # None)
    <3>1. ~Made(o) /\ Kept(o)
        BY <1>1 DEF MadeNew
    <3> QED
        BY <3>1 DEF Kept, FanInv, Known
  <2>2. \A o \in closed'.wait : sub'[o].id # None
      BY <1>1 DEF Typed
  <2>3. ASSUME NEW q \in Producers
        PROVE  /\ prod[q].to # None => sub'[prod[q].to].id # None
               /\ \A o \in prod[q].todo : sub'[o].id # None
               /\ prod[q].at \in Sending => prod[q].to # None
      BY <1>1, ProducerIsSomewhere
  <2> QED
      BY <2>1, <2>2, <2>3 DEF Known, Made
<1>3. Filed'
  <2>1. ASSUME NEW o \in Objects PROVE \A recs \in Queued(o)' : \A r \in recs : Sees(sub'[o].reg, r)
    <3>1. CASE Kept(o)
        BY <3>1 DEF Kept, FanInv, Filed, Queued
    <3>2. CASE MadeNew(o)
      <4>1. DOMAIN sub'[o].queue = {}
          BY <3>2 DEF MadeNew
      <4>2. worker'[o].at \notin {"took", "post"}
          BY <3>2 DEF MadeNew, NewWorker
      <4>3. Queued(o)' = {}
          BY <4>1, <4>2 DEF Queued
      <4> QED
          BY <4>3
    <3> QED
        BY <3>1, <3>2
  <2> QED
      BY <2>1 DEF Filed, Sees, Eligible
<1>4. ASSUME NEW o \in Objects PROVE Counted(o)'
  <2>1. Made(o) => sub'[o].reg = sub[o].reg
      BY DEF Kept, MadeNew
  <2>2. /\ Count(Carried(o, "send"))' = Count(Carried(o, "send")) /\ Count(Carried(o, "add"))' = Count(Carried(o, "add"))
        /\ Count(Evicted(o))' = Count(Evicted(o))
      BY <2>1, ProducersStay DEF FanInv, Sending
  <2>3. CASE Kept(o)
    <3>1. Count(sub[o].queue)' = Count(sub[o].queue) /\ Taken(o)' = Taken(o)
        BY <2>3 DEF Kept, Count, Contents, Taken
    <3> QED
        BY <2>2, <2>3, <3>1 DEF Kept, FanInv, Counted
  <2>4. CASE MadeNew(o)
    <3>1. \A s \in Sending : At(o, s) = {}
        BY <2>4, HostAssumption, ProducerIsSomewhere DEF At, MadeNew
    <3>2. \A s \in Sending : DOMAIN Carried(o, s) = {}
        BY <3>1 DEF Carried
    <3>3. DOMAIN Evicted(o) = {}
        BY <3>1 DEF Evicted, Sending
    <3>4. Count(Carried(o, "send")) = 0 /\ Count(Carried(o, "add")) = 0 /\ Count(Evicted(o)) = 0
        BY <3>2, <3>3, NothingHeld DEF Sending
    <3>5. Count(sub[o].queue)' = 0
      <4>1. DOMAIN (<<>>) = {}
          OBVIOUS
      <4>2. Count(<<>>) = 0
          BY <4>1, NothingHeld
      <4> QED
          BY <2>4, <4>2 DEF MadeNew, Count, Contents
    <3>6. Taken(o)' = 0 /\ sub'[o].held = 0
        BY <2>4 DEF MadeNew, Taken, NewWorker
    <3>7. 0 <= QueueBytes + Largest * (Cardinality(Producers) - 1)
      <4>1. Largest * (Cardinality(Producers) - 1) \in Nat
          BY Finite
      <4> QED
          BY <4>1, Finite
    <3> QED
        BY <2>2, <3>4, <3>5, <3>6, <3>7 DEF Counted
  <2> QED
      BY <2>3, <2>4
<1> QED
    BY <1>2, <1>3, <1>4 DEF FanInv

LEMMA RowIsWritten == ASSUME FanInv, NEW k \in Kits, WriteRow(k) PROVE FanInv'
<1>1. UNCHANGED <<subs, closed, sub, worker, prod>> /\ closed.at # "boot" /\ changing[k] = "no"
    BY DEF WriteRow, Serving
<1>2. PICK r \in Regs, c \in {"track", "untrack"} :
         row' = [row EXCEPT ![k] = r] /\ changing' = [changing EXCEPT ![k] = c]
  <2>1. CASE \E q \in Registers[k] : row' = [row EXCEPT ![k] = q] /\ changing' = [changing EXCEPT ![k] = "track"]
    <3>1. PICK q \in Registers[k] : row' = [row EXCEPT ![k] = q] /\ changing' = [changing EXCEPT ![k] = "track"]
        BY <2>1
    <3>2. q \in Regs
        BY DEF Regs
    <3> QED
        BY <3>1, <3>2
  <2>2. CASE row' = [row EXCEPT ![k] = None] /\ changing' = [changing EXCEPT ![k] = "untrack"]
    <3>1. None \in Regs
        BY DEF Regs
    <3> QED
        BY <2>2, <3>1
  <2> QED
      BY <2>1, <2>2 DEF WriteRow
<1>3. Typed'
    BY <1>1, <1>2 DEF FanInv, Typed
<1>4. Subscribed'
  <2>1. /\ \A j \in Kits \ {k} : row'[j] = row[j] /\ changing'[j] = changing[j]
        /\ changing'[k] # "no"
      BY <1>2 DEF FanInv, Typed
  <2> QED
      BY <1>1, <2>1 DEF FanInv, Subscribed, Same, Made
<1>5. \A o \in Objects : Kept(o)
    BY <1>1 DEF Kept
<1> QED
    BY <1>1, <1>3, <1>4, <1>5, SubscribersAreMade DEF FanInv, Known

\* Who is told to stop keeps what it has.
LEMMA ToldToStop ==
    ASSUME NEW y \in Subscribers
    PROVE  /\ [y EXCEPT !.stop = TRUE] \in Subscribers
           /\ [y EXCEPT !.stop = TRUE].id = y.id /\ [y EXCEPT !.stop = TRUE].reg = y.reg
           /\ [y EXCEPT !.stop = TRUE].queue = y.queue /\ [y EXCEPT !.stop = TRUE].held = y.held
  BY DEF Subscribers

LEMMA OneIsStopped ==
    ASSUME FanInv, NEW o \in Objects, Made(o)
    PROVE  /\ Stopped(o) \in [Objects -> Subscribers]
           /\ \A q \in Objects : /\ Stopped(o)[q].id = sub[q].id /\ Stopped(o)[q].reg = sub[q].reg
                                 /\ Stopped(o)[q].queue = sub[q].queue /\ Stopped(o)[q].held = sub[q].held
                                 /\ ~Made(q) => Stopped(o)[q] = sub[q]
<1>1. sub \in [Objects -> Subscribers] /\ sub[o] \in Subscribers
    BY DEF FanInv, Typed
<1> DEFINE y == [sub[o] EXCEPT !.stop = TRUE]
<1>2. Stopped(o) = [sub EXCEPT ![o] = y]
    BY DEF Stopped
<1>3. /\ y \in Subscribers /\ y.id = sub[o].id /\ y.reg = sub[o].reg
      /\ y.queue = sub[o].queue /\ y.held = sub[o].held
    BY <1>1, ToldToStop
<1> HIDE DEF y
<1> QED
    BY <1>1, <1>2, <1>3

LEMMA SubscriberOfAKit ==
    ASSUME FanInv, NEW k \in Kits, subs[k] # None
    PROVE  subs[k] \in Objects /\ Made(subs[k]) /\ sub[subs[k]].id = k
  BY HostAssumption DEF FanInv, Typed, Subscribed, Made

LEMMA EntryGoes == ASSUME FanInv, NEW k \in Kits, Untrack(k) PROVE FanInv'
<1>1. UNCHANGED <<row, closed, worker, prod>> /\ changing[k] # "no"
    BY DEF Untrack
<1>2. changing' = [changing EXCEPT ![k] = "no"] /\ subs' = [subs EXCEPT ![k] = None]
    BY DEF Untrack
<1>3. /\ sub' \in [Objects -> Subscribers]
      /\ \A q \in Objects : /\ sub'[q].id = sub[q].id /\ sub'[q].reg = sub[q].reg
                            /\ sub'[q].queue = sub[q].queue /\ sub'[q].held = sub[q].held
                            /\ ~Made(q) => sub'[q] = sub[q]
  <2>1. CASE subs[k] # None
      BY <2>1, SubscriberOfAKit, OneIsStopped DEF Untrack
  <2>2. CASE subs[k] = None
      BY <2>2 DEF Untrack, FanInv, Typed
  <2> QED
      BY <2>1, <2>2
<1>4. Typed'
    BY <1>1, <1>2, <1>3 DEF FanInv, Typed
<1>5. Subscribed'
  <2>1. closed.at # "boot"
      BY <1>1 DEF FanInv, Subscribed
  <2>2. /\ \A j \in Kits \ {k} : subs'[j] = subs[j] /\ changing'[j] = changing[j]
        /\ subs'[k] = None
      BY <1>2 DEF FanInv, Typed
  <2>3. \A j \in Kits : subs[j] # None => sub'[subs[j]].id = j /\ sub'[subs[j]].reg = sub[subs[j]].reg
      BY <1>3, SubscriberOfAKit
  <2> QED
      BY <1>1, <2>1, <2>2, <2>3 DEF FanInv, Subscribed, Same
<1>6. \A o \in Objects : Kept(o)
    BY <1>1, <1>3 DEF Kept
<1> QED
    BY <1>1, <1>4, <1>5, <1>6, SubscribersAreMade DEF FanInv, Known

LEMMA SubscriberIsNew ==
    ASSUME NEW k \in Kits, NEW r \in Regs
    PROVE  /\ NewSubscriber(k, r) \in Subscribers /\ NewSubscriber(k, r).id = k /\ NewSubscriber(k, r).reg = r
           /\ NewSubscriber(k, r).queue = <<>> /\ NewSubscriber(k, r).held = 0
           /\ NewWorker \in Workers
<1>1. NewSubscriber(k, r) \in Subscribers
    BY DEF NewSubscriber, Subscribers
<1>2. NewWorker \in Workers
    BY NoRecords DEF NewWorker, Workers
<1> QED
    BY <1>1, <1>2 DEF NewSubscriber

LEMMA EntryComes == ASSUME FanInv, NEW k \in Kits, Track(k) PROVE FanInv'
<1>1. /\ UNCHANGED <<row, closed, prod>> /\ changing[k] # "no"
      /\ changing' = [changing EXCEPT ![k] = "no"]
    BY DEF Track
<1>2. closed.at # "boot" /\ row[k] \in Regs
    BY <1>1 DEF FanInv, Subscribed, Typed
<1>3. CASE closed.at # "no" \/ (subs[k] # None /\ Same(sub[subs[k]].reg, row[k]))
  <2>1. UNCHANGED <<subs, sub, worker>>
      BY <1>3 DEF Track
  <2>2. Typed'
      BY <1>1, <2>1 DEF FanInv, Typed
  <2>3. \A j \in Kits \ {k} : changing'[j] = changing[j]
      BY <1>1 DEF FanInv, Typed
  <2>4. subs[k] # None => Same(sub[subs[k]].reg, row[k])
      BY <1>3 DEF FanInv, Subscribed
  <2>5. \A j \in Kits : subs'[j] # None =>
           sub'[subs'[j]].id = j /\ (changing'[j] = "no" => Same(sub'[subs'[j]].reg, row'[j]))
      BY <1>1, <2>1, <2>3, <2>4 DEF FanInv, Subscribed
  <2>6. Subscribed'
      BY <1>1, <1>2, <2>1, <2>5 DEF FanInv, Subscribed, Same
  <2>7. \A o \in Objects : Kept(o)
      BY <2>1 DEF Kept
  <2> QED
      BY <1>1, <2>2, <2>6, <2>7, SubscribersAreMade DEF FanInv, Known
<1>4. CASE closed.at = "no" /\ ~(subs[k] # None /\ Same(sub[subs[k]].reg, row[k]))
  <2> DEFINE o == CHOOSE o \in Free : TRUE
             was == IF subs[k] # None THEN Stopped(subs[k]) ELSE sub
             y == NewSubscriber(k, row[k])
  <2>1. /\ Free # {} /\ subs' = [subs EXCEPT ![k] = o] /\ sub' = [was EXCEPT ![o] = y]
        /\ worker' = [worker EXCEPT ![o] = NewWorker]
      BY <1>4 DEF Track
  <2>2. o \in Objects /\ ~Made(o)
      BY <2>1 DEF Free, Made
  <2>3. /\ was \in [Objects -> Subscribers]
        /\ \A q \in Objects : /\ was[q].id = sub[q].id /\ was[q].reg = sub[q].reg
                              /\ was[q].queue = sub[q].queue /\ was[q].held = sub[q].held
                              /\ ~Made(q) => was[q] = sub[q]
    <3>1. CASE subs[k] # None
        BY <3>1, SubscriberOfAKit, OneIsStopped
    <3>2. CASE subs[k] = None
        BY <3>2 DEF FanInv, Typed
    <3> QED
        BY <3>1, <3>2
  <2>4. /\ y \in Subscribers /\ y.id = k /\ y.reg = row[k] /\ y.queue = <<>> /\ y.held = 0
        /\ NewWorker \in Workers
      BY <1>2, SubscriberIsNew
  <2> HIDE DEF o, was, y
  <2>5. /\ sub' \in [Objects -> Subscribers] /\ sub'[o] = y /\ \A q \in Objects \ {o} : sub'[q] = was[q]
        /\ worker' \in [Objects -> Workers] /\ worker'[o] = NewWorker
        /\ \A q \in Objects \ {o} : worker'[q] = worker[q]
        /\ subs' \in [Kits -> Objects \cup {None}] /\ subs'[k] = o /\ \A j \in Kits \ {k} : subs'[j] = subs[j]
        /\ \A j \in Kits \ {k} : changing'[j] = changing[j]
      BY <1>1, <2>1, <2>2, <2>3, <2>4 DEF FanInv, Typed
  <2>6. Typed'
      BY <1>1, <2>5 DEF FanInv, Typed
  <2>7. ASSUME NEW j \in Kits \ {k}, subs[j] # None
        PROVE  /\ sub'[subs'[j]].id = j /\ (changing'[j] = "no" => Same(sub'[subs'[j]].reg, row'[j]))
    <3>1. subs[j] \in Objects /\ Made(subs[j]) /\ sub[subs[j]].id = j
        BY <2>7, SubscriberOfAKit
    <3>2. sub'[subs[j]] = was[subs[j]] /\ was[subs[j]].id = j /\ was[subs[j]].reg = sub[subs[j]].reg
        BY <2>2, <2>3, <2>5, <3>1
    <3> QED
        BY <1>1, <2>5, <2>7, <3>2 DEF FanInv, Subscribed
  <2>8. sub'[subs'[k]].id = k /\ Same(sub'[subs'[k]].reg, row'[k])
      BY <1>1, <2>4, <2>5 DEF Same
  <2>9. \A j \in Kits : subs'[j] # None =>
           sub'[subs'[j]].id = j /\ (changing'[j] = "no" => Same(sub'[subs'[j]].reg, row'[j]))
      BY <2>5, <2>7, <2>8
  <2>10. Subscribed'
      BY <1>1, <1>4, <2>9 DEF Subscribed, Same
  <2>11. MadeNew(o)
      BY <2>2, <2>4, <2>5, HostAssumption DEF MadeNew
  <2>12. \A q \in Objects \ {o} : Kept(q)
      BY <2>3, <2>5 DEF Kept
  <2> QED
      BY <1>1, <2>6, <2>10, <2>11, <2>12, SubscribersAreMade DEF FanInv, Known
<1> QED
    BY <1>2, <1>3, <1>4

\* A boot finds room for a subscriber of each Process.
LEMMA BootHasRoom ==
    ASSUME FanInv, closed.at = "boot", NEW wanted \in SUBSET Kits
    PROVE  \E new \in Injection(wanted, Free) : TRUE
<1>1. Free = Objects
    BY DEF FanInv, Subscribed, Made, Free
<1>2. PICK f \in Injection(Kits, Objects) : TRUE
    BY HostAssumption
<1>3. [k \in wanted |-> f[k]] \in Injection(wanted, Objects)
    BY <1>2 DEF Injection, IsInjective
<1> QED
    BY <1>1, <1>3

LEMMA SubscribersAreLoaded == ASSUME FanInv, Reload PROVE FanInv'
<1> DEFINE wanted == {k \in Kits : Subscribes(row[k])}
           new == CHOOSE new \in Injection(wanted, Free) : TRUE
           of == AntiFunction(new)
<1>1. /\ UNCHANGED <<row, changing, prod>> /\ closed.at = "boot" /\ closed' = [closed EXCEPT !.at = "no"]
      /\ subs' = [k \in Kits |-> IF k \in wanted THEN new[k] ELSE None]
      /\ sub' = [o \in Objects |-> IF o \in Range(new) THEN NewSubscriber(of[o], row[of[o]]) ELSE sub[o]]
      /\ worker' = [o \in Objects |-> IF o \in Range(new) THEN NewWorker ELSE worker[o]]
    BY DEF Reload
<1>2. new \in Injection(wanted, Free)
    BY <1>1, BootHasRoom
<1> HIDE DEF new
<1>3. /\ DOMAIN new = wanted /\ \A k \in wanted : new[k] \in Objects /\ new[k] \in Range(new)
      /\ \A j, k \in wanted : new[j] = new[k] => j = k
      /\ \A o \in Range(new) : \E k \in wanted : new[k] = o
    BY <1>2 DEF Injection, IsInjective, Range, Free
<1>4. ASSUME NEW o \in Range(new) PROVE of[o] \in wanted /\ new[of[o]] = o
    BY <1>3, <1>4 DEF AntiFunction, Inverse
<1>5. \A k \in wanted : of[new[k]] = k
    BY <1>3, <1>4
<1> HIDE DEF of
<1>6. \A k \in Kits : row[k] \in Regs
    BY DEF FanInv, Typed
<1>7. ASSUME NEW o \in Objects, o \in Range(new)
      PROVE  /\ sub'[o] \in Subscribers /\ sub'[o].id = of[o] /\ sub'[o].reg = row[of[o]]
             /\ sub'[o].queue = <<>> /\ sub'[o].held = 0 /\ worker'[o] = NewWorker /\ NewWorker \in Workers
             /\ of[o] \in Kits
  <2>1. of[o] \in Kits /\ row[of[o]] \in Regs
      BY <1>4, <1>6, <1>7
  <2>2. sub'[o] = NewSubscriber(of[o], row[of[o]]) /\ worker'[o] = NewWorker
      BY <1>1, <1>7
  <2> QED
      BY <2>1, <2>2, SubscriberIsNew
<1>8. ASSUME NEW o \in Objects, o \notin Range(new)
      PROVE  sub'[o] = sub[o] /\ worker'[o] = worker[o]
    BY <1>1, <1>8
<1>9. Typed'
  <2>1. sub' \in [Objects -> Subscribers] /\ worker' \in [Objects -> Workers]
    <3>1. DOMAIN sub' = Objects /\ DOMAIN worker' = Objects /\ sub' = [o \in Objects |-> sub'[o]]
          /\ worker' = [o \in Objects |-> worker'[o]]
        BY <1>1
    <3>2. \A o \in Objects : sub'[o] \in Subscribers /\ worker'[o] \in Workers
        BY <1>7, <1>8 DEF FanInv, Typed
    <3> QED
        BY <3>1, <3>2
  <2>2. subs' \in [Kits -> Objects \cup {None}]
      BY <1>1, <1>3
  <2>3. closed' \in [at : {"boot", "no", "closing", "waiting", "closed"}, wait : SUBSET Objects]
      BY <1>1 DEF FanInv, Typed
  <2> QED
      BY <1>1, <2>1, <2>2, <2>3 DEF FanInv, Typed
<1>10. closed'.at = "no" /\ closed'.wait = closed.wait
    BY <1>1 DEF FanInv, Typed
<1>11. ASSUME NEW k \in Kits, subs'[k] # None
       PROVE  sub'[subs'[k]].id = k /\ Same(sub'[subs'[k]].reg, row'[k])
  <2>1. k \in wanted /\ subs'[k] = new[k]
      BY <1>1, <1>11
  <2>2. sub'[new[k]].id = k /\ sub'[new[k]].reg = row[k]
      BY <1>3, <1>5, <1>7, <2>1
  <2> QED
      BY <1>1, <2>1, <2>2 DEF Same
<1>12. Subscribed'
    BY <1>10, <1>11 DEF Subscribed
<1>13. \A o \in Objects : Kept(o) \/ MadeNew(o)
  <2> TAKE o \in Objects
  <2>1. CASE o \in Range(new)
    <3>1. ~Made(o) /\ None \notin Kits
        BY <1>1, HostAssumption DEF FanInv, Subscribed
    <3> QED
        BY <1>7, <2>1, <3>1 DEF MadeNew
  <2>2. CASE o \notin Range(new)
      BY <1>8, <2>2 DEF Kept
  <2> QED
      BY <2>1, <2>2
<1> QED
    BY <1>1, <1>9, <1>10, <1>12, <1>13, SubscribersAreMade DEF FanInv, Known

LEMMA FanOutCloses == ASSUME FanInv, Close \/ CloseReturns PROVE FanInv'
<1>1. UNCHANGED <<row, changing, sub, worker, prod>>
    BY DEF Close, CloseReturns
<1>2. /\ closed' \in [at : {"closing", "closed"}, wait : SUBSET Objects]
      /\ \A o \in closed'.wait : Made(o)
      /\ subs' \in [Kits -> Objects \cup {None}] /\ \A k \in Kits : subs'[k] = None
  <2>1. CASE Close
    <3>1. \A o \in {subs[k] : k \in Kits} \ {None} : o \in Objects /\ Made(o)
        BY SubscriberOfAKit
    <3> QED
        BY <2>1, <3>1 DEF Close
  <2>2. CASE CloseReturns
    <3>1. closed'.wait = closed.wait /\ closed' \in [at : {"closing", "closed"}, wait : SUBSET Objects]
        BY <2>2 DEF CloseReturns, FanInv, Typed
    <3>2. subs' = subs /\ closed.at # "no"
        BY <2>2 DEF CloseReturns
    <3> QED
        BY <3>1, <3>2 DEF FanInv, Known, Subscribed, Typed
  <2> QED
      BY <2>1, <2>2
<1>3. closed'.at # "boot" /\ closed' \in [at : {"boot", "no", "closing", "waiting", "closed"}, wait : SUBSET Objects]
    BY <1>2
<1>4. Typed'
    BY <1>1, <1>2, <1>3 DEF FanInv, Typed
<1>5. Subscribed'
    BY <1>2, <1>3 DEF Subscribed
<1>6. \A o \in Objects : Kept(o)
    BY <1>1 DEF Kept
<1> QED
    BY <1>1, <1>2, <1>4, <1>5, <1>6, SubscribersAreMade

LEMMA CloseTellsAll == ASSUME FanInv, CloseStops PROVE FanInv'
<1>1. /\ UNCHANGED <<row, changing, subs, worker, prod>> /\ closed.at = "closing"
      /\ closed' = [closed EXCEPT !.at = "waiting"]
      /\ sub' = [o \in Objects |-> IF o \in closed.wait THEN [sub[o] EXCEPT !.stop = TRUE] ELSE sub[o]]
    BY DEF CloseStops
<1>2. ASSUME NEW o \in Objects
      PROVE  /\ sub'[o] \in Subscribers /\ sub'[o].id = sub[o].id /\ sub'[o].reg = sub[o].reg
             /\ sub'[o].queue = sub[o].queue /\ sub'[o].held = sub[o].held /\ (~Made(o) => sub'[o] = sub[o])
  <2>1. sub[o] \in Subscribers /\ (o \in closed.wait => Made(o))
      BY DEF FanInv, Typed, Known
  <2>2. sub'[o] = IF o \in closed.wait THEN [sub[o] EXCEPT !.stop = TRUE] ELSE sub[o]
      BY <1>1
  <2> QED
      BY <2>1, <2>2, ToldToStop
<1>3. closed' \in [at : {"boot", "no", "closing", "waiting", "closed"}, wait : SUBSET Objects]
      /\ closed'.wait = closed.wait /\ closed'.at = "waiting"
    BY <1>1 DEF FanInv, Typed
<1>4. Typed'
  <2>1. sub' \in [Objects -> Subscribers]
    <3>1. sub' = [o \in Objects |-> sub'[o]]
        BY <1>1
    <3> QED
        BY <1>2, <3>1
  <2> QED
      BY <1>1, <1>3, <2>1 DEF FanInv, Typed
<1>5. Subscribed'
  <2>1. \A k \in Kits : subs'[k] = None
      BY <1>1 DEF FanInv, Subscribed
  <2> QED
      BY <1>3, <2>1 DEF Subscribed
<1>6. \A o \in Objects : Kept(o)
    BY <1>1, <1>2 DEF Kept
<1> QED
    BY <1>1, <1>3, <1>4, <1>5, <1>6, SubscribersAreMade DEF FanInv, Known

-----------------------------------------------------------------------------
(* The invariant of the fan out, and what it says.                         *)

LEMMA BootIsInOrder == Init => FanInv
<1> SUFFICES ASSUME Init PROVE FanInv
    OBVIOUS
<1>1. /\ row \in Booted /\ changing = [k \in Kits |-> "no"] /\ subs = [k \in Kits |-> None]
      /\ closed = [at |-> "boot", wait |-> {}] /\ sub = [o \in Objects |-> NoObject]
      /\ worker = [o \in Objects |-> NoWorker] /\ prod = [p \in Producers |-> Idle]
    BY DEF Init
<1>2. Typed
  <2>1. row \in [Kits -> Regs]
    <3>1. row \in [Kits -> Range(row)]
        BY <1>1, HostAssumption
    <3>2. Range(row) \subseteq Regs
        BY <1>1 DEF Regs
    <3> QED
        BY <3>1, <3>2
  <2>2. NoObject \in Subscribers
    <3>1. None \in Regs
        BY DEF Regs
    <3> QED
        BY <3>1 DEF NoObject, Subscribers
  <2>3. NoWorker \in Workers
      BY NoRecords DEF NoWorker, Workers
  <2> QED
      BY <1>1, <2>1, <2>2, <2>3, IdleIsAnExporter DEF Typed
<1>3. \A o \in Objects : ~Made(o)
    BY <1>1 DEF Made, NoObject
<1>4. Known
  <2>1. \A p \in Producers : prod[p].to = None /\ prod[p].todo = {} /\ prod[p].at \notin Sending
      BY <1>1 DEF Idle, Sending
  <2> QED
      BY <1>1, <2>1 DEF Known
<1>5. Subscribed
    BY <1>1, <1>3 DEF Subscribed
<1>6. ASSUME NEW o \in Objects PROVE Queued(o) = {}
    BY <1>1 DEF Queued, NoObject, NoWorker
<1>7. Filed
    BY <1>6 DEF Filed
<1>8. ASSUME NEW o \in Objects PROVE Counted(o)
  <2>1. \A s \in Sending : At(o, s) = {}
      BY <1>1 DEF At, Idle, Sending
  <2>2. \A s \in Sending : DOMAIN Carried(o, s) = {}
      BY <2>1 DEF Carried
  <2>3. DOMAIN Evicted(o) = {}
      BY <2>1 DEF Evicted, Sending
  <2>4. Count(Carried(o, "send")) = 0 /\ Count(Carried(o, "add")) = 0 /\ Count(Evicted(o)) = 0
      BY <2>2, <2>3, NothingHeld DEF Sending
  <2>5. Count(sub[o].queue) = 0 /\ sub[o].held = 0 /\ Taken(o) = 0
    <3>1. DOMAIN sub[o].queue = {}
        BY <1>1 DEF NoObject
    <3> QED
        BY <1>1, <3>1, NothingHeld DEF NoObject, NoWorker, Taken
  <2>6. Largest * (Cardinality(Producers) - 1) \in Nat
      BY Finite
  <2>7. 0 <= QueueBytes + Largest * (Cardinality(Producers) - 1)
      BY <2>6, Finite
  <2> QED
      BY <2>4, <2>5, <2>7 DEF Counted
<1> QED
    BY <1>2, <1>4, <1>5, <1>7, <1>8 DEF FanInv

LEMMA EachStepKeepsIt == FanInv /\ [Next]_vars => FanInv'
<1> SUFFICES ASSUME FanInv, [Next]_vars PROVE FanInv'
    OBVIOUS
<1>1. CASE Reload
    BY <1>1, SubscribersAreLoaded
<1>2. CASE Close \/ CloseReturns
    BY <1>2, FanOutCloses
<1>3. CASE CloseStops
    BY <1>3, CloseTellsAll
<1>4. CASE \E k \in Kits : WriteRow(k) \/ Untrack(k) \/ Track(k) \/ CallsATool(k)
    BY <1>4, RowIsWritten, EntryGoes, EntryComes, CallBegins
<1>5. CASE \E p \in Producers : Insert(p) \/ Export(p)
    BY <1>5, ExportBegins, ExportGoesOn
<1>6. CASE \E o \in Objects : Work(o)
    BY <1>6, WorkGoesOn
<1>7. CASE UNCHANGED vars
  <2>1. UNCHANGED <<row, changing, subs, closed, sub, worker, prod>>
      BY <1>7 DEF vars
  <2>2. Typed' /\ Subscribed'
      BY <2>1 DEF FanInv, Typed, Subscribed, Same, Made
  <2>3. \A o \in Objects : Kept(o)
      BY <2>1 DEF Kept
  <2> QED
      BY <2>1, <2>2, <2>3, SubscribersAreMade DEF FanInv, Known
<1> QED
    BY <1>1, <1>2, <1>3, <1>4, <1>5, <1>6, <1>7 DEF Next

LEMMA BooksAreKept == FanInv => QueuesAreTrue
<1> SUFFICES ASSUME FanInv PROVE QueuesAreTrue
    OBVIOUS
<1>1. ASSUME NEW o \in Objects
      PROVE  /\ sub[o].held = Count(sub[o].queue) + Taken(o) + Count(Evicted(o)) - Count(Carried(o, "add"))
             /\ Count(sub[o].queue) <= QueueBytes + Cardinality(Members) * (Cardinality(Producers) - 1)
  <2> DEFINE room == Largest * (Cardinality(Producers) - 1)
  <2>1. /\ sub[o].held = Count(sub[o].queue) + Taken(o) + Count(Evicted(o)) - Count(Carried(o, "add"))
        /\ Count(sub[o].queue) + Taken(o) + Count(Evicted(o)) + Count(Carried(o, "send")) <= QueueBytes + room
      BY DEF FanInv, Counted
  <2>2. room \in Nat /\ QueueBytes \in Nat
      BY Finite
  <2>3. /\ Count(sub[o].queue) \in Nat /\ Taken(o) \in Nat /\ Count(Evicted(o)) \in Nat
        /\ Count(Carried(o, "send")) \in Nat
      BY CountsAreNumbers DEF FanInv
  <2> HIDE DEF room
  <2>4. Count(sub[o].queue) <= QueueBytes + room
      BY <2>1, <2>2, <2>3
  <2> QED
      BY <2>1, <2>4 DEF room, Largest
<1>2. ASSUME NEW k \in Kits, subs[k] # None, changing[k] = "no",
             NEW recs \in Queued(subs[k]), NEW r \in recs
      PROVE  Readable(r, row[k])
  <2>1. subs[k] \in Objects /\ Same(sub[subs[k]].reg, row[k])
      BY <1>2 DEF FanInv, Typed, Subscribed
  <2>2. Sees(sub[subs[k]].reg, r)
      BY <2>1 DEF FanInv, Filed
  <2> QED
      BY <2>1, <2>2 DEF Sees, Eligible, Same, Readable
<1> QED
    BY <1>1, <1>2 DEF QueuesAreTrue, HeldIsQueued, DeliveredIsReadable

\* A queue counts what it holds, whatever order its producers, its worker and an eviction count in, and
\* is over its budget by no more than what the other producers had checked; and what waits for a
\* Process its owner may read under the registration it has now (fanout.go enqueue, release, track, sees).
THEOREM QueuesStayTrue == Spec => []QueuesAreTrue
<1>1. Spec => []FanInv
    BY BootIsInOrder, EachStepKeepsIt, PTL DEF Spec
<1> QED
    BY <1>1, BooksAreKept, PTL
=============================================================================
