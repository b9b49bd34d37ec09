---------------------------- MODULE KeyedMutex ----------------------------
(***************************************************************************)
(* What the daemon asks of the lock its Process actions run under: the     *)
(* actions of one Process happen one at a time, and two different          *)
(* Processes have nothing to wait for from each other.  ActionLock is the  *)
(* map of mutexes that promises it (internal/daemon/run.go).               *)
(***************************************************************************)
CONSTANTS Callers,   \* the goroutines: request handlers, ticks, the removal job
          Keys,      \* Process ids
          None       \* no key

VARIABLES wants,     \* the key a caller asked for and does not hold yet
          has        \* the key a caller holds

vars == <<wants, has>>

Init == /\ wants = [c \in Callers |-> None]
        /\ has   = [c \in Callers |-> None]

Ask(c, k) == /\ wants[c] = None /\ has[c] = None
             /\ wants' = [wants EXCEPT ![c] = k]
             /\ UNCHANGED has

\* The one condition there is: nobody has the key.
Grant(c) == /\ wants[c] # None
            /\ \A d \in Callers : has[d] # wants[c]
            /\ has'   = [has EXCEPT ![c] = wants[c]]
            /\ wants' = [wants EXCEPT ![c] = None]

Release(c) == /\ has[c] # None
              /\ has' = [has EXCEPT ![c] = None]
              /\ UNCHANGED wants

Next == \E c \in Callers : (\E k \in Keys : Ask(c, k)) \/ Grant(c) \/ Release(c)

Spec == Init /\ [][Next]_vars
=============================================================================
