------------------------------- MODULE Permits -------------------------------
(***************************************************************************)
(* internal/manifest/permits.go: whether a name is matched by one of the   *)
(* globs a Package declared, as globMatch walks it, and whether a path is  *)
(* below one of the prefixes.  A name, a glob and a path are sequences; a  *)
(* character no tool name has stands for the ones a glob is refused for.   *)
(***************************************************************************)
EXTENDS Integers, Sequences

CONSTANTS
    Letters,   \* the characters of a tool name
    Bad,       \* one that is none of them
    MaxGlob,   \* bound: the length of a glob
    MaxName    \* bound: the length of a name

VARIABLES
    pattern, name,    \* what is matched
    p, n, star, mark, \* globMatch's own: where it is, its last wildcard
    answer            \* walking, yes or no

vars == <<pattern, name, p, n, star, mark, answer>>

Words(S, lo, hi) == UNION {[1 .. k -> S] : k \in lo .. hi}

\* A glob this build cannot read permits nothing.
validToolGlob(glob) == glob # <<>> /\ \A i \in 1 .. Len(glob) : glob[i] \in Letters \cup {"*"}

\* No name is empty; indices count from 1, and a star of 0 is none.
Init ==
    /\ pattern \in Words(Letters \cup {"*", Bad}, 0, MaxGlob)
    /\ name \in Words(Letters, 1, MaxName)
    /\ p = 1 /\ n = 1 /\ star = 0 /\ mark = 0
    /\ answer = IF validToolGlob(pattern) THEN "walking" ELSE "no"

In == answer = "walking" /\ n <= Len(name)
At(c) == p <= Len(pattern) /\ pattern[p] = c

Wildcard ==
    /\ In
    /\ At("*")
    /\ star' = p /\ mark' = n /\ p' = p + 1
    /\ UNCHANGED <<pattern, name, n, answer>>

Letter ==
    /\ In
    /\ ~At("*") /\ At(name[n])
    /\ p' = p + 1 /\ n' = n + 1
    /\ UNCHANGED <<pattern, name, star, mark, answer>>

\* A mutant: the walk goes on where it failed.
FromHere == n

\* One character more than the last wildcard was given.
Resumes == mark + 1

\* The last wildcard is given one more character.
Again ==
    /\ In
    /\ ~At("*") /\ ~At(name[n]) /\ star > 0
    /\ p' = star + 1 /\ mark' = mark + 1 /\ n' = Resumes
    /\ UNCHANGED <<pattern, name, star, answer>>

Fail ==
    /\ In
    /\ ~At("*") /\ ~At(name[n]) /\ star = 0
    /\ answer' = "no"
    /\ UNCHANGED <<pattern, name, p, n, star, mark>>

\* The name is used up: what is left of the pattern may only be wildcards.
Ends ==
    /\ answer = "walking"
    /\ n > Len(name)
    /\ answer' = IF \A i \in p .. Len(pattern) : pattern[i] = "*" THEN "yes" ELSE "no"
    /\ UNCHANGED <<pattern, name, p, n, star, mark>>

Next == Wildcard \/ Letter \/ Again \/ Fail \/ Ends

Spec == Init /\ [][Next]_vars /\ WF_vars(Next)

-----------------------------------------------------------------------------
\* Where each entry of the pattern ends in the name: a wildcard takes any run
\* of it, the empty one included, and a letter takes itself.
InLanguage ==
    \E end \in [0 .. Len(pattern) -> 0 .. Len(name)] :
        /\ end[0] = 0
        /\ end[Len(pattern)] = Len(name)
        /\ \A i \in 1 .. Len(pattern) :
             \/ pattern[i] = "*" /\ end[i - 1] <= end[i]
             \/ end[i] = end[i - 1] + 1 /\ name[end[i]] = pattern[i]

\* The walk, which gives only its last wildcard a second chance, answers what
\* the glob means, and a glob with another character in it matches nothing
\* (permits.go globMatch, Match).
MatchIsTheLanguage ==
    answer # "walking" => (answer = "yes") = (validToolGlob(pattern) /\ InLanguage)

=============================================================================
