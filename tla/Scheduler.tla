----------------------------- MODULE Scheduler -----------------------------
(***************************************************************************)
(* The scheduler of internal/daemon/schedule.go: the registered jobs, the  *)
(* ticks that are due, and the two ceilings on what runs at once, of the   *)
(* host and of one member.                                                 *)
(*                                                                         *)
(* A cron expression is a period.  Time is relative: an entry holds how    *)
(* far off its next tick is, below zero once it is overdue, so the model   *)
(* has no clock to bound.  A pass of the loop (due) is one action, as it   *)
(* is under one mutex; the runs it hands over are goroutines that end in   *)
(* any order, after any time.                                              *)
(***************************************************************************)
EXTENDS Integers, FiniteSets

CONSTANTS Jobs,         \* Process ids, numbered: their order decides between equals
          Owner(_),     \* the member a job belongs to
          Periods,      \* the expressions a job may declare
          MaxRuns,      \* maxRuns of the scheduler
          MaxOwner,     \* maxOwner of the scheduler
          MaxLate       \* how late a pass of the loop may come

VARIABLES jobs,        \* sc.jobs: period, distance to the next tick, and the in flight marker
          running,     \* sc.running
          perOwner,    \* sc.perOwner
          runs,        \* the runs under way, goroutines of runScheduled: a job and a number
          renewed      \* history: the jobs registered anew beside a run of an earlier registration

vars == <<jobs, running, perOwner, runs, renewed>>

-----------------------------------------------------------------------------
Owners  == {Owner(j) : j \in Jobs}
NoJob   == [every |-> 0, next |-> 0, running |-> FALSE]
Held    == {j \in Jobs : jobs[j] # NoJob}
Due     == {j \in Held : jobs[j].next <= 0}

\* The runs of a job, and those of a member.
RunsOf(j)  == {r \in runs : r[1] = j}
OwnRuns(o) == {r \in runs : Owner(r[1]) = o}

\* A run that is handed over is another one than those of the job that go: the number has no meaning
\* beyond that.
NewRun(j) == <<j, CHOOSE n \in 1..MaxRuns : <<j, n>> \notin runs>>

\* The order ticks are taken in: the one due longest first, the lower id between equals.
Before(i, j) == jobs[i].next < jobs[j].next \/ (jobs[i].next = jobs[j].next /\ i < j)

Init ==
    /\ jobs     = [j \in Jobs |-> NoJob]
    /\ running  = 0
    /\ perOwner = [o \in Owners |-> 0]
    /\ runs     = {}
    /\ renewed  = {}

\* track: an entry that is held keeps its next tick unless the expression changed, and its marker. One
\* that is new has no marker, whatever still runs under its id: proc_run takes the id of the job it
\* found, which may have been unregistered since.
Track(j, every, next) ==
    /\ next <= every
    /\ jobs' = [jobs EXCEPT ![j] = [every |-> every,
                                    next |-> IF @.every = every THEN @.next ELSE next,
                                    running |-> @.running]]
    /\ renewed' = renewed \cup {i \in {j} \ Held : RunsOf(i) # {}}
    /\ UNCHANGED <<running, perOwner, runs>>

Untrack(j) ==
    /\ jobs[j] # NoJob
    /\ jobs' = [jobs EXCEPT ![j] = NoJob]
    /\ UNCHANGED <<running, perOwner, runs, renewed>>

\* A pass of the loop comes before the next tick of what is due.
TimePasses ==
    /\ \A j \in Held : jobs[j].next > -MaxLate
    /\ jobs' = [j \in Jobs |-> IF j \in Held THEN [jobs[j] EXCEPT !.next = @ - 1] ELSE NoJob]
    /\ UNCHANGED <<running, perOwner, runs, renewed>>

\* due takes a job whose previous run is over, as long as the host and its owner have room beside
\* those taken ahead of it.
Fits(j, ahead) ==
    /\ ~jobs[j].running
    /\ running + Cardinality(ahead) < MaxRuns
    /\ perOwner[Owner(j)] + Cardinality({i \in ahead : Owner(i) = Owner(j)}) < MaxOwner

\* A pass over the jobs by their ids, whoever has waited longest.
TakenById(T) == \A j \in Due : j \in T <=> Fits(j, {i \in T : i < j})

Taken(T) == \A j \in Due : j \in T <=> Fits(j, {i \in T : Before(i, j)})

\* due: every due job gets its next tick, whether it runs or not.
Pass ==
    /\ Due # {}
    /\ \E T \in SUBSET Due :
          /\ Taken(T)
          /\ jobs' = [j \in Jobs |-> IF j \in Due
                                     THEN [jobs[j] EXCEPT !.next = @ + jobs[j].every,
                                                          !.running = @ \/ j \in T]
                                     ELSE jobs[j]]
          /\ running' = running + Cardinality(T)
          /\ perOwner' = [o \in Owners |-> perOwner[o] + Cardinality({j \in T : Owner(j) = o})]
          /\ runs' = runs \cup {NewRun(j) : j \in T}
          /\ UNCHANGED renewed

\* A run ends: the last one of its job takes with it what was registered beside it.
Leaves(r) ==
    /\ runs' = runs \ {r}
    /\ renewed' = {j \in renewed : RunsOf(j) # {r}}

\* The end of a run that lets an unregistered job keep its slot.
FinishedKeepsSlot(r) ==
    /\ r \in runs
    /\ Leaves(r)
    /\ jobs' = [jobs EXCEPT ![r[1]].running = FALSE]
    /\ running' = IF r[1] \in Held THEN running - 1 ELSE running
    /\ perOwner' = [perOwner EXCEPT ![Owner(r[1])] = IF r[1] \in Held THEN @ - 1 ELSE @]

\* finished, by the goroutine of a run: the slot goes back whether the job is still held or not, and
\* the entry under its id, if there is one, loses its marker.
Finished(r) ==
    /\ r \in runs
    /\ Leaves(r)
    /\ jobs' = [jobs EXCEPT ![r[1]].running = FALSE]
    /\ running' = IF running > 0 THEN running - 1 ELSE 0
    /\ perOwner' = [perOwner EXCEPT ![Owner(r[1])] = IF @ > 0 THEN @ - 1 ELSE 0]

Next ==
    \/ \E j \in Jobs, every \in Periods : \E next \in 1..every : Track(j, every, next)
    \/ \E j \in Jobs : Untrack(j)
    \/ \E r \in runs : Finished(r)
    \/ TimePasses
    \/ Pass

\* Time goes on, the loop wakes when a tick is due, and MaxRunTime ends every run.
Fairness ==
    /\ WF_vars(TimePasses) /\ WF_vars(Pass)
    /\ \A r \in Jobs \X (1..MaxRuns) : WF_vars(Finished(r))

Spec == Init /\ [][Next]_vars /\ Fairness

-----------------------------------------------------------------------------
\* The slots taken are the runs under way, those beside the registration they were started for as
\* well, through any unregistration and registration in between: none is lost, which would skip ticks
\* as busy on a host that is idle, and none is given back twice. So neither ceiling is passed.
SlotsAreTheRuns ==
    /\ running = Cardinality(runs)
    /\ \A o \in Owners : perOwner[o] = Cardinality(OwnRuns(o))

Ceilings == running <= MaxRuns /\ \A o \in Owners : perOwner[o] <= MaxOwner

\* A marker is of a run that goes: none is left behind, which would skip every tick that follows. And
\* of a job that was not registered anew beside a run of it the marker says exactly whether a run of
\* it goes, however often its expression is changed meanwhile: such a job is not run twice at once.
MarkersAreTrue ==
    \A j \in Jobs :
       /\ jobs[j].running => RunsOf(j) # {}
       /\ j \notin renewed => \A r, q \in RunsOf(j) : r = q
       /\ j \in Held \ renewed => (jobs[j].running <=> RunsOf(j) # {})

\* "A job whose previous run is still going is not run twice at once." Refuted: a job that was
\* unregistered and registered again under its id beside its run has no marker, so its next tick
\* starts a second one, whose start removes the container of the first.
NotTwiceAtOnce == \A j \in Jobs : \A r, q \in RunsOf(j) : r = q

\* A tick is skipped as busy only if the host is full or its owner is, and by jobs that are going
\* or were due before it: never for one due later, or one of a higher id due at the same moment.
Skipped(j) == /\ j \in Due /\ ~jobs[j].running /\ RunsOf(j)' = RunsOf(j)
              /\ jobs'[j] = [jobs[j] EXCEPT !.next = @ + jobs[j].every]
Ahead(j)   == {i \in Due : RunsOf(i)' # RunsOf(i) /\ Before(i, j)}
SkippedForWhatWasDueBefore ==
    [][\A j \in Jobs : Skipped(j) =>
         \/ running + Cardinality(Ahead(j)) >= MaxRuns
         \/ perOwner[Owner(j)] + Cardinality({i \in Ahead(j) : Owner(i) = Owner(j)}) >= MaxOwner]_vars
=============================================================================
