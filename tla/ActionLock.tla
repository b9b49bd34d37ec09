---------------------------- MODULE ActionLock ----------------------------
(***************************************************************************)
(* actionLock of internal/daemon/run.go: one mutex per Process id, made    *)
(* when the first caller asks for the id and dropped when the last one is  *)
(* done with it.                                                           *)
(*                                                                         *)
(* The two sections under a.mu (entering, and dropping the count) are one  *)
(* action each.  Between them a caller takes and returns the mutex of the  *)
(* id, which is an object of its own: what the map holds for an id may by  *)
(* then be another object, and the properties are about that gap.          *)
(***************************************************************************)
EXTENDS Integers, FiniteSets

CONSTANTS Callers,   \* the goroutines that take the lock
          Keys,      \* Process ids
          Locks,     \* the mutexes that can be in memory at once
          NoKey, NoLock

ASSUME CallersAssumption == IsFiniteSet(Callers)
\* Memory never runs out of mutexes: a caller can always be given one no other refers to.
ASSUME LocksAssumption == IsFiniteSet(Locks) /\ Cardinality(Locks) >= Cardinality(Callers)
ASSUME NullAssumption == NoKey \notin Keys /\ NoLock \notin Locks

VARIABLES held,      \* a.held: the mutex of an id, NoLock for no entry
          waits,     \* a.waits: how many callers are using the entry of an id
          locked,    \* the mutexes that are locked
          pc,        \* where each caller is in lock() or in what it answered
          key,       \* the id a caller works on
          ref        \* the mutex a caller's stack refers to

vars == <<held, waits, locked, pc, key, ref>>

-----------------------------------------------------------------------------
Using(k) == {c \in Callers : pc[c] # "idle" /\ key[c] = k}

\* A mutex nothing refers to: the map does not hold it and no caller's stack does.
Fresh(l) == /\ \A k \in Keys : held[k] # l
            /\ \A c \in Callers : pc[c] # "idle" => ref[c] # l

Init == /\ held   = [k \in Keys |-> NoLock]
        /\ waits  = [k \in Keys |-> 0]
        /\ locked = {}
        /\ pc     = [c \in Callers |-> "idle"]
        /\ key    = [c \in Callers |-> NoKey]
        /\ ref    = [c \in Callers |-> NoLock]

\* A mutex that is made without looking for the entry.
EnterUnseen(c, k) ==
    /\ pc[c] = "idle"
    /\ \E l \in Locks :
         /\ Fresh(l)
         /\ held' = [held EXCEPT ![k] = l]
         /\ ref'  = [ref EXCEPT ![c] = l]
    /\ waits' = [waits EXCEPT ![k] = @ + 1]
    /\ pc'  = [pc EXCEPT ![c] = "waiting"]
    /\ key' = [key EXCEPT ![c] = k]
    /\ UNCHANGED locked

\* a.mu section of lock(): the entry of the id, made when there is none.
Enter(c, k) ==
    /\ pc[c] = "idle"
    /\ \E l \in Locks :
         /\ IF held[k] = NoLock THEN Fresh(l) ELSE l = held[k]
         /\ held' = [held EXCEPT ![k] = l]
         /\ ref'  = [ref EXCEPT ![c] = l]
    /\ waits' = [waits EXCEPT ![k] = @ + 1]
    /\ pc'  = [pc EXCEPT ![c] = "waiting"]
    /\ key' = [key EXCEPT ![c] = k]
    /\ UNCHANGED locked

\* lock.Lock()
Acquire(c) ==
    /\ pc[c] = "waiting"
    /\ ref[c] \notin locked
    /\ locked' = locked \cup {ref[c]}
    /\ pc' = [pc EXCEPT ![c] = "holding"]
    /\ UNCHANGED <<held, waits, key, ref>>

\* Returning with the mutex still locked, as an early return that skips the deferred call would.
UnlockSkipped(c) ==
    /\ pc[c] = "holding"
    /\ pc' = [pc EXCEPT ![c] = "released"]
    /\ UNCHANGED <<held, waits, locked, key, ref>>

\* lock.Unlock(), the first line of what lock() answered.
Unlock(c) ==
    /\ pc[c] = "holding"
    /\ locked' = locked \ {ref[c]}
    /\ pc' = [pc EXCEPT ![c] = "released"]
    /\ UNCHANGED <<held, waits, key, ref>>

\* The caller counts itself out of the id and forgets its mutex.
Leave(c) ==
    /\ pc[c] = "released"
    /\ waits' = [waits EXCEPT ![key[c]] = @ - 1]
    /\ pc'  = [pc EXCEPT ![c] = "idle"]
    /\ key' = [key EXCEPT ![c] = NoKey]
    /\ ref' = [ref EXCEPT ![c] = NoLock]
    /\ UNCHANGED locked

\* The a.mu section of what lock() answered: the last caller drops the entry.
Drop(c) ==
    /\ Leave(c)
    /\ held' = [held EXCEPT ![key[c]] = IF waits[key[c]] <= 1 THEN NoLock ELSE @]

Next == \E c \in Callers :
          \/ \E k \in Keys : Enter(c, k)
          \/ Acquire(c)
          \/ Unlock(c)
          \/ Drop(c)

\* A handler that took the lock returns, and a goroutine that is running is scheduled again. A
\* waiter is SF: the mutex is free again and again while others pass, and Go's sync.Mutex hands
\* itself to a waiter that has been passed over (its starvation mode).
Fairness == \A c \in Callers : /\ SF_vars(Acquire(c))
                               /\ WF_vars(Unlock(c))
                               /\ WF_vars(Drop(c))

Spec == Init /\ [][Next]_vars /\ Fairness

-----------------------------------------------------------------------------
PCs == {"idle", "waiting", "holding", "released"}

\* Every variable keeps its type; the counts never go below zero.
TypeOK == /\ held   \in [Keys -> Locks \cup {NoLock}]
          /\ waits  \in [Keys -> Nat]
          /\ locked \in SUBSET Locks
          /\ pc     \in [Callers -> PCs]
          /\ key    \in [Callers -> Keys \cup {NoKey}]
          /\ ref    \in [Callers -> Locks \cup {NoLock}]

\* Two actions of one Process never run at the same time ("actionLock serialises the actions of
\* one Process"): not through an entry that was dropped and made again either.
MutualExclusion ==
    \A c, d \in Callers :
      /\ pc[c] = "holding"
      /\ pc[d] = "holding"
      /\ key[c] = key[d]
      => c = d

\* An id has an entry exactly as long as somebody uses it: a daemon that has served a million
\* Processes holds a map of the ones running now, and one being waited for is never forgotten.
EntryWhileUsed == \A k \in Keys : (held[k] # NoLock) <=> (Using(k) # {})

\* The map of mutexes is the lock the daemon asks for. Between Unlock and Drop a caller already
\* has nothing.
Abstract == INSTANCE KeyedMutex WITH
              None  <- NoKey,
              wants <- [c \in Callers |-> IF pc[c] = "waiting" THEN key[c] ELSE NoKey],
              has   <- [c \in Callers |-> IF pc[c] = "holding" THEN key[c] ELSE NoKey]

\* Every behaviour of the map is one of the lock per Process that run.go asks for.
ImplementsKeyedMutex == Abstract!Spec

\* Whoever asks for the lock of a Process gets it, however many others pass through it.
EveryCallerIsServed == \A c \in Callers : (pc[c] = "waiting") ~> (pc[c] = "holding")

-----------------------------------------------------------------------------
\* The inductive invariant behind the safety properties.
\* A caller refers to the mutex the map holds for its id, and the mutexes of two ids differ.
RefersToEntry == \A c \in Callers : pc[c] # "idle" =>
                   key[c] \in Keys /\ ref[c] \in Locks /\ held[key[c]] = ref[c]
EntriesDiffer == \A j, k \in Keys : held[j] = held[k] /\ held[j] # NoLock => j = k
\* The count of an id is how many callers use it.
WaitsCount    == \A k \in Keys : waits[k] = Cardinality(Using(k))
\* A caller past Lock() has the mutex it refers to, alone.
HoldsLocked   == \A c \in Callers : pc[c] = "holding" => ref[c] \in locked
HoldsAlone    == \A c, d \in Callers :
                   pc[c] = "holding" /\ pc[d] = "holding" /\ ref[c] = ref[d] => c = d

IInv == TypeOK /\ RefersToEntry /\ EntriesDiffer /\ WaitsCount /\ EntryWhileUsed
          /\ HoldsLocked /\ HoldsAlone
=============================================================================
