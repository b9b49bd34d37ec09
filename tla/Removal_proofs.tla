--------------------------- MODULE Removal_proofs ---------------------------
(***************************************************************************)
(* The removal of members keeps its promises for any names, any number of  *)
(* stops of the daemon and any failures of any step, as long as one        *)
(* users_create or users_remove is under way at a time and PromptStart     *)
(* holds: no home is lost, a name is taken over clean, and a removal is    *)
(* ended by its own job alone.                                             *)
(***************************************************************************)
EXTENDS Removal, TLAPS

\* One users call at a time, and none that is held up before its job starts.
OneCall == Prompt /\ \A q, r \in Requests : q = r

JobRec == [at : Steps \cup {"none"}, failed : BOOLEAN, late : BOOLEAN, unsaid : BOOLEAN]
ReqRec == [at : {"idle", "checked", "begun", "wiping", "creating", "forgetting"}, name : Names \cup {NoName}]

Typed ==
    /\ row \in [Names -> {"none", "removing", "failed", "removed"}]
    /\ account \subseteq Names /\ home \subseteq Names
    /\ job \in [Names -> JobRec]
    /\ req \in [Requests -> ReqRec]

\* A job is at work on what the table says is being removed, and what it has not failed at is done.
JobsOK ==
    \A n \in Names :
       /\ n \in marked <=> job[n].at # "none"
       /\ job[n].at \in Steps \ {"unmark"} => row[n] = "removing"
       /\ job[n].at \in {"moving", "archive"} => n \notin account
       /\ job[n].at \in {"cgroups", "finish"} => job[n].failed \/ n \notin home

\* A call that has begun a removal finds it begun, and one that makes a member has the name for
\* itself.
CallsOK ==
    \A r \in Requests :
       LET n == req[r].name IN
       /\ req[r].at # "idle" => n \in Names
       /\ req[r].at = "begun" => row[n] = "removing"
       /\ req[r].at \in {"wiping", "creating", "forgetting"} =>
             row[n] \in {"none", "removed"} /\ job[n].at \in {"none", "unmark"}
       /\ req[r].at = "forgetting" => n \in account

IInv == Typed /\ JobsOK /\ CallsOK /\ HomesAreKept

\* What no step does to a new account, or to a removal.
CleanStep == \A n \in account' \ account : n \notin home /\ row[n] # "failed"
EndStep   == \A n \in Names : row[n] = "removing" /\ row'[n] # "removing"
                => job[n].at = "finish" /\ row'[n] # "none"

-----------------------------------------------------------------------------
LEMMA InitInvariant == Init => IInv
  BY NamesAssumption
  DEF Init, IInv, Typed, JobsOK, CallsOK, HomesAreKept, AccountKeepsItsHome, OrphanHomeIsOnRecord,
      JobRec, ReqRec, NoJob, NoReq, Steps

\* A step that leaves the account, the jobs and the calls alone.
LEMMA Apart ==
    ASSUME IInv, UNCHANGED <<row, account, home, marked, job, req>>
    PROVE  IInv' /\ CleanStep /\ EndStep
  BY DEF IInv, Typed, JobsOK, CallsOK, HomesAreKept, AccountKeepsItsHome, OrphanHomeIsOnRecord,
         CleanStep, EndStep

\* A step of the one call there is, which leaves the jobs alone.
LEMMA CallStep ==
    ASSUME OneCall, IInv, NEW r \in Requests, NEW q \in ReqRec, req' = [req EXCEPT ![r] = q],
           UNCHANGED <<row, account, home, marked, job>>,
           q.at # "idle" => q.name \in Names,
           q.at = "begun" => row[q.name] = "removing",
           q.at \in {"wiping", "creating", "forgetting"} =>
              row[q.name] \in {"none", "removed"} /\ job[q.name].at \in {"none", "unmark"},
           q.at = "forgetting" => q.name \in account
    PROVE  IInv' /\ CleanStep /\ EndStep
<1>1. req' \in [Requests -> ReqRec] /\ \A t \in Requests : req'[t] = q
    BY DEF IInv, Typed, OneCall
<1>2. Typed' /\ JobsOK' /\ HomesAreKept'
    BY <1>1 DEF IInv, Typed, JobsOK, HomesAreKept, AccountKeepsItsHome, OrphanHomeIsOnRecord
<1>3. CallsOK'
    BY <1>1 DEF CallsOK
<1> QED
    BY <1>2, <1>3 DEF IInv, CleanStep, EndStep

\* The refusals and the wipe change nothing but the call.
LEMMA CheckSteps ==
    ASSUME OneCall, IInv, NEW r \in Requests, NEW by \in Names, NEW n \in Names,
           RemoveCheck(r, by, n) \/ CreateCheck(r, by, n)
    PROVE  IInv' /\ CleanStep /\ EndStep
<1>1. CASE RemoveCheck(r, by, n)
  <2> DEFINE q == [at |-> "checked", name |-> n]
  <2>1. q \in ReqRec /\ q.at = "checked" /\ q.name = n
      BY DEF ReqRec
  <2>2. req' = [req EXCEPT ![r] = q] /\ UNCHANGED <<row, account, home, marked, job>>
      BY <1>1 DEF RemoveCheck, stored, host
  <2> HIDE DEF q
  <2> QED
      BY <2>1, <2>2, CallStep
<1>2. CASE CreateCheck(r, by, n)
  <2> DEFINE q == [at |-> "wiping", name |-> n]
  <2>1. q \in ReqRec /\ q.at = "wiping" /\ q.name = n
      BY DEF ReqRec
  <2>2. req' = [req EXCEPT ![r] = q] /\ UNCHANGED <<row, account, home, marked, job>>
      BY <1>2 DEF CreateCheck, stored, host
  <2>3. row[n] \in {"none", "removed"}
      BY <1>2 DEF CreateCheck, Creatable, IInv, Typed
  <2>4. job[n].at \in {"none", "unmark"}
      BY <2>3 DEF IInv, JobsOK, Typed, JobRec
  <2> HIDE DEF q
  <2> QED
      BY <2>1, <2>2, <2>3, <2>4, CallStep
<1> QED
    BY <1>1, <1>2

LEMMA WipeSteps ==
    ASSUME OneCall, IInv, NEW r \in Requests, CreateWipe(r)
    PROVE  IInv' /\ CleanStep /\ EndStep
<1>1. req[r].at = "wiping" /\ UNCHANGED <<row, account, home, marked, job>>
    BY DEF CreateWipe, stored
<1>2. CASE req' = [req EXCEPT ![r].at = "creating"]
  <2> DEFINE q == [req[r] EXCEPT !.at = "creating"]
  <2>1. q \in ReqRec /\ q.at = "creating" /\ q.name = req[r].name /\ req' = [req EXCEPT ![r] = q]
      BY <1>2 DEF IInv, Typed, ReqRec
  <2> HIDE DEF q
  <2> QED
      BY <1>1, <2>1, CallStep DEF IInv, CallsOK
<1>3. CASE req' = [req EXCEPT ![r] = NoReq]
  <2>1. NoReq \in ReqRec /\ NoReq.at = "idle"
      BY DEF NoReq, ReqRec
  <2> QED
      BY <1>1, <1>3, <2>1, CallStep
<1> QED
    BY <1>2, <1>3 DEF CreateWipe

\* A removal is on record before its job begins.
LEMMA BeginStep ==
    ASSUME OneCall, IInv, NEW r \in Requests, RemoveBegin(r)
    PROVE  IInv' /\ CleanStep /\ EndStep
<1> DEFINE n == req[r].name
           q == [req[r] EXCEPT !.at = "begun"]
<1>1. /\ req[r].at = "checked" /\ n \in Names /\ row' = [row EXCEPT ![n] = "removing"]
      /\ UNCHANGED <<account, home, marked, job>>
    BY DEF RemoveBegin, host, IInv, CallsOK
<1>2. q \in ReqRec /\ q.at = "begun" /\ q.name = n
    BY DEF IInv, Typed, ReqRec
<1>3. req' \in [Requests -> ReqRec] /\ \A t \in Requests : req'[t] = q
    BY <1>2 DEF RemoveBegin, IInv, Typed, OneCall
<1>4. /\ row' \in [Names -> {"none", "removing", "failed", "removed"}]
      /\ \A m \in Names : row'[m] \in {row[m], "removing"} /\ row'[n] = "removing"
    BY <1>1 DEF IInv, Typed
<1> HIDE DEF q, n
<1>5. Typed' /\ JobsOK' /\ HomesAreKept'
    BY <1>1, <1>3, <1>4 DEF IInv, Typed, JobsOK, HomesAreKept, AccountKeepsItsHome, OrphanHomeIsOnRecord
<1>6. CallsOK'
    BY <1>1, <1>2, <1>3, <1>4 DEF CallsOK
<1> QED
    BY <1>1, <1>4, <1>5, <1>6 DEF IInv, CleanStep, EndStep

\* One job for a name, and one that is at work goes on.
LEMMA StartStep ==
    ASSUME OneCall, IInv, NEW r \in Requests, RemoveStart(r)
    PROVE  IInv' /\ CleanStep /\ EndStep
<1> DEFINE n == req[r].name
<1>1. /\ n \in Names /\ row[n] = "removing" /\ marked' = marked \cup {n}
      /\ UNCHANGED <<row, account, home>>
    BY DEF RemoveStart, stored, host, IInv, CallsOK
<1>2. NoReq \in ReqRec /\ NoReq.at = "idle" /\ NewJob \in JobRec /\ NewJob.at = "processes"
    BY DEF NoReq, ReqRec, NoJob, NewJob, JobRec, Steps
<1>3. req' \in [Requests -> ReqRec] /\ \A t \in Requests : req'[t] = NoReq
    BY <1>2 DEF RemoveStart, IInv, Typed, OneCall
<1>4. /\ job' \in [Names -> JobRec]
      /\ \A m \in Names : job'[m] = IF m = n /\ n \notin marked THEN NewJob ELSE job[m]
    BY <1>1, <1>2 DEF RemoveStart, IInv, Typed
<1> HIDE DEF n
<1>5. Typed' /\ HomesAreKept'
    BY <1>1, <1>3, <1>4 DEF IInv, Typed, HomesAreKept, AccountKeepsItsHome, OrphanHomeIsOnRecord
<1>6. JobsOK'
    BY <1>1, <1>2, <1>4 DEF IInv, JobsOK
<1>7. CallsOK'
    BY <1>2, <1>3 DEF CallsOK
<1> QED
    BY <1>1, <1>5, <1>6, <1>7 DEF IInv, CleanStep, EndStep

-----------------------------------------------------------------------------
\* An account is made where no home of an earlier one is left and no job is at work.
LEMMA AccountStep ==
    ASSUME OneCall, IInv, NEW r \in Requests, CreateAccount(r)
    PROVE  IInv' /\ CleanStep /\ EndStep
<1> DEFINE n == req[r].name
<1>1. /\ n \in Names /\ row[n] \in {"none", "removed"} /\ job[n].at \in {"none", "unmark"}
      /\ UNCHANGED <<row, marked, job>>
    BY DEF CreateAccount, stored, IInv, CallsOK
<1>2. NoReq \in ReqRec /\ NoReq.at = "idle"
    BY DEF NoReq, ReqRec
<1>3. CASE UNCHANGED <<account, home>> /\ req' = [req EXCEPT ![r] = NoReq]
    BY <1>1, <1>2, <1>3, CallStep
<1>4. ASSUME n \notin account, account' = account \cup {n}, home' = home \cup {n},
             NEW q \in ReqRec, req' = [req EXCEPT ![r] = q], q.at \in {"idle", "forgetting"},
             q.at = "forgetting" => q.name = n
      PROVE  IInv' /\ CleanStep /\ EndStep
  <2>1. req' \in [Requests -> ReqRec] /\ \A t \in Requests : req'[t] = q
      BY <1>4 DEF IInv, Typed, OneCall
  <2> HIDE DEF n
  <2>2. n \notin home
      BY <1>1, <1>4 DEF IInv, HomesAreKept, OrphanHomeIsOnRecord
  <2>3. Typed' /\ JobsOK'
      BY <1>1, <1>4, <2>1 DEF IInv, Typed, JobsOK
  <2>4. CallsOK'
      BY <1>1, <1>4, <2>1 DEF CallsOK
  <2>5. HomesAreKept'
      BY <1>1, <1>4 DEF IInv, HomesAreKept, AccountKeepsItsHome, OrphanHomeIsOnRecord
  <2> QED
      BY <1>1, <1>4, <2>2, <2>3, <2>4, <2>5 DEF IInv, CleanStep, EndStep
<1>5. CASE n \notin account /\ account' = account \cup {n} /\ home' = home \cup {n}
  <2>1. CASE req' = [req EXCEPT ![r] = NoReq]
      BY <1>2, <1>4, <1>5, <2>1
  <2>2. CASE req' = [req EXCEPT ![r].at = "forgetting"]
    <3> DEFINE q == [req[r] EXCEPT !.at = "forgetting"]
    <3>1. q \in ReqRec /\ q.at = "forgetting" /\ q.name = n /\ req' = [req EXCEPT ![r] = q]
        BY <2>2 DEF IInv, Typed, ReqRec
    <3> HIDE DEF q
    <3> QED
        BY <1>4, <1>5, <3>1
  <2> QED
      BY <1>5, <2>1, <2>2 DEF CreateAccount
<1> QED
    BY <1>3, <1>5 DEF CreateAccount

\* What is forgotten is a removal that ended, of a name that has an account again.
LEMMA ForgetStep ==
    ASSUME OneCall, IInv, NEW r \in Requests, CreateForget(r)
    PROVE  IInv' /\ CleanStep /\ EndStep
<1> DEFINE n == req[r].name
<1>1. /\ n \in Names /\ n \in account /\ row[n] \in {"none", "removed"} /\ job[n].at \in {"none", "unmark"}
      /\ row' = [row EXCEPT ![n] = "none"] /\ UNCHANGED <<account, home, marked, job>>
    BY DEF CreateForget, host, IInv, CallsOK
<1>2. NoReq \in ReqRec /\ NoReq.at = "idle"
    BY DEF NoReq, ReqRec
<1>3. req' \in [Requests -> ReqRec] /\ \A t \in Requests : req'[t] = NoReq
    BY <1>2 DEF CreateForget, IInv, Typed, OneCall
<1>4. /\ row' \in [Names -> {"none", "removing", "failed", "removed"}] /\ row'[n] = "none"
      /\ \A m \in Names \ {n} : row'[m] = row[m]
    BY <1>1 DEF IInv, Typed
<1> HIDE DEF n
<1>5. Typed' /\ JobsOK' /\ HomesAreKept'
    BY <1>1, <1>3, <1>4 DEF IInv, Typed, JobsOK, HomesAreKept, AccountKeepsItsHome,
       OrphanHomeIsOnRecord, Steps
<1>6. CallsOK'
    BY <1>2, <1>3 DEF CallsOK
<1> QED
    BY <1>1, <1>4, <1>5, <1>6 DEF IInv, CleanStep, EndStep

-----------------------------------------------------------------------------
\* A step of a job, before the two that end it: what it leaves undone it has failed at.
LEMMA JobStep ==
    ASSUME IInv, NEW n \in Names, NEW j \in JobRec, job' = [job EXCEPT ![n] = j],
           job[n].at \in Steps \ {"unmark"}, j.at \in Steps \ {"unmark"},
           UNCHANGED <<row, marked, req>>, account' = account \/ account' = account \ {n},
           home' = home \/ (home' = home \ {n} /\ n \notin account'),
           j.at \in {"moving", "archive"} => n \notin account',
           j.at \in {"cgroups", "finish"} => j.failed \/ n \notin home'
    PROVE  IInv' /\ CleanStep /\ EndStep
<1>1. /\ job' \in [Names -> JobRec] /\ job'[n] = j /\ \A m \in Names \ {n} : job'[m] = job[m]
      /\ row[n] = "removing" /\ n \in marked
    BY DEF IInv, Typed, JobsOK, Steps
<1>2. Typed'
    BY <1>1 DEF IInv, Typed
<1>3. JobsOK'
    BY <1>1 DEF IInv, JobsOK, Steps
<1>4. CallsOK'
    BY <1>1 DEF IInv, CallsOK, Steps
<1>5. HomesAreKept'
    BY <1>1 DEF IInv, HomesAreKept, AccountKeepsItsHome, OrphanHomeIsOnRecord
<1> QED
    BY <1>2, <1>3, <1>4, <1>5 DEF IInv, CleanStep, EndStep

\* What Step makes of a job.
LEMMA Stepped ==
    ASSUME IInv, NEW n \in Names, NEW s \in Steps, NEW next \in Steps, NEW ok \in BOOLEAN,
           Step(n, s, next, ok)
    PROVE  \E j \in JobRec :
              /\ job' = [job EXCEPT ![n] = j] /\ j.at = next
              /\ ~ok => j.failed
              /\ job[n].failed => j.failed
              /\ UNCHANGED <<marked, req>> /\ job[n].at = s
<1> DEFINE j == [job[n] EXCEPT !.at = next, !.failed = @ \/ ~ok]
<1>1. job[n] \in JobRec
    BY DEF IInv, Typed
<1>2. (job[n].failed \/ ~ok) \in BOOLEAN
    OBVIOUS
<1>3. j \in JobRec /\ j.at = next /\ j.failed = (job[n].failed \/ ~ok)
    BY <1>1, <1>2 DEF JobRec
<1>4. job' = [job EXCEPT ![n] = j]
    BY DEF Step, IInv, Typed
<1> HIDE DEF j
<1> QED
    BY <1>3, <1>4 DEF Step

LEMMA ExpireStep ==
    ASSUME IInv, NEW n \in Names, Expire(n)
    PROVE  IInv' /\ CleanStep /\ EndStep
<1> DEFINE j == [job[n] EXCEPT !.late = TRUE]
<1>1. j \in JobRec /\ j.at = job[n].at /\ j.failed = job[n].failed
    BY DEF IInv, Typed, JobRec
<1>2. job' = [job EXCEPT ![n] = j]
    BY DEF Expire, IInv, Typed
<1>3. job[n].at \in Steps \ {"unmark"} /\ UNCHANGED <<row, account, home, marked, req>>
    BY DEF Expire, stored, host
<1> HIDE DEF j
<1> QED
    BY <1>1, <1>2, <1>3, JobStep DEF IInv, JobsOK

\* The steps before the account goes.
LEMMA EarlySteps ==
    ASSUME IInv, NEW n \in Names, JobProcesses(n) \/ JobDelete(n)
    PROVE  IInv' /\ CleanStep /\ EndStep
<1>1. PICK s \in {"processes", "registrations", "approvals", "builds", "secrets"}, ok \in BOOLEAN :
         Step(n, s, After[s], ok) /\ UNCHANGED <<row, account, home>>
    BY DEF JobProcesses, JobDelete, After, stored, host
<1>2. After[s] \in {"registrations", "approvals", "builds", "secrets", "account"}
    BY DEF After
<1>3. PICK j \in JobRec : /\ job' = [job EXCEPT ![n] = j] /\ j.at = After[s]
                          /\ UNCHANGED <<marked, req>> /\ job[n].at = s
    BY <1>1, <1>2, Stepped DEF Steps
<1> QED
    BY <1>1, <1>2, <1>3, JobStep DEF Steps

\* The account goes before its home does, or the home stays.
LEMMA LateSteps ==
    ASSUME IInv, NEW n \in Names,
           JobAccount(n) \/ JobMove(n) \/ JobArchive(n) \/ JobCgroups(n)
    PROVE  IInv' /\ CleanStep /\ EndStep
<1>1. CASE JobAccount(n)
  <2>1. PICK next \in {"archive", "cgroups", "moving"}, ok \in BOOLEAN :
           /\ Step(n, "account", next, ok) /\ UNCHANGED <<row, home>>
           /\ \/ next = "archive" /\ n \notin account /\ UNCHANGED account
              \/ next = "cgroups" /\ ~ok /\ UNCHANGED account
              \/ next = "moving" /\ account' = account \ {n}
      BY <1>1 DEF JobAccount, stored
  <2>2. PICK j \in JobRec : /\ job' = [job EXCEPT ![n] = j] /\ j.at = next /\ (~ok => j.failed)
                            /\ UNCHANGED <<marked, req>> /\ job[n].at = "account"
      BY <2>1, Stepped DEF Steps
  <2> QED
      BY <2>1, <2>2, JobStep DEF Steps
<1>2. CASE JobMove(n) \/ JobArchive(n)
  <2>1. PICK s \in {"moving", "archive"}, ok \in BOOLEAN :
           /\ Step(n, s, "cgroups", ok) /\ UNCHANGED <<row, account>>
           /\ home' \in {home, home \ {n}} /\ (ok => home' = home \ {n})
      BY <1>2 DEF JobMove, JobArchive, stored
  <2>2. PICK j \in JobRec : /\ job' = [job EXCEPT ![n] = j] /\ j.at = "cgroups" /\ (~ok => j.failed)
                            /\ UNCHANGED <<marked, req>> /\ job[n].at = s
      BY <2>1, Stepped DEF Steps
  <2>3. n \notin account
      BY <2>2 DEF IInv, JobsOK
  <2> QED
      BY <2>1, <2>2, <2>3, JobStep DEF Steps
<1>3. CASE JobCgroups(n)
  <2>1. PICK ok \in BOOLEAN : Step(n, "cgroups", "finish", ok) /\ UNCHANGED <<row, account>>
                             /\ UNCHANGED home
      BY <1>3 DEF JobCgroups, stored
  <2>2. PICK j \in JobRec : /\ job' = [job EXCEPT ![n] = j] /\ j.at = "finish"
                            /\ (job[n].failed => j.failed)
                            /\ UNCHANGED <<marked, req>> /\ job[n].at = "cgroups"
      BY <2>1, Stepped DEF Steps
  <2>3. job[n].failed \/ n \notin home
      BY <2>2 DEF IInv, JobsOK
  <2> QED
      BY <2>1, <2>2, <2>3, JobStep DEF Steps
<1> QED
    BY <1>1, <1>2, <1>3

\* A removal ends as failed while a home is left, and no call waits for it.
LEMMA FinishStep ==
    ASSUME OneCall, IInv, NEW n \in Names, JobFinish(n)
    PROVE  IInv' /\ CleanStep /\ EndStep
<1>0. PICK ok \in BOOLEAN :
         /\ row' = IF ~ok \/ row[n] = "none" THEN row
                   ELSE [row EXCEPT ![n] = IF job[n].failed THEN "failed" ELSE "removed"]
         /\ job' = [job EXCEPT ![n].at = "unmark", ![n].unsaid = ~ok]
    BY DEF JobFinish
<1> DEFINE j == [job[n] EXCEPT !.at = "unmark", !.unsaid = ~ok]
<1>1. /\ j \in JobRec /\ job' = [job EXCEPT ![n] = j] /\ j.at = "unmark"
      /\ UNCHANGED <<marked, req>> /\ job[n].at = "finish"
    BY <1>0 DEF JobFinish, JobRec, IInv, Typed, Steps
<1> HIDE DEF j
<1>2. /\ job' \in [Names -> JobRec] /\ job'[n] = j /\ \A m \in Names \ {n} : job'[m] = job[m]
      /\ row[n] = "removing" /\ n \in marked /\ (job[n].failed \/ n \notin home)
      /\ UNCHANGED <<account, home>>
    BY <1>1 DEF IInv, Typed, JobsOK, Steps, JobFinish, host
<1>3. /\ row' \in [Names -> {"none", "removing", "failed", "removed"}]
      /\ row'[n] \in {"removing", "failed", "removed"} /\ \A m \in Names \ {n} : row'[m] = row[m]
      /\ row'[n] = "removed" => ~job[n].failed
    BY <1>0, <1>2 DEF IInv, Typed
<1>4. row'[n] \in {"removing", "failed"} \/ n \notin home
    BY <1>2, <1>3
<1>5. \A r \in Requests : req[r].at = "begun" => req[r].name # n
    BY DEF JobFinish, PromptStart, OneCall, IInv, Typed, ReqRec
<1>6. Typed' /\ JobsOK'
    BY <1>1, <1>2, <1>3 DEF IInv, Typed, JobsOK, Steps
<1>7. CallsOK'
    BY <1>1, <1>2, <1>3, <1>5 DEF IInv, CallsOK
<1>8. HomesAreKept'
    BY <1>2, <1>3, <1>4 DEF IInv, Typed, HomesAreKept, AccountKeepsItsHome, OrphanHomeIsOnRecord
<1> QED
    BY <1>1, <1>2, <1>3, <1>6, <1>7, <1>8 DEF IInv, CleanStep, EndStep

LEMMA UnmarkStep ==
    ASSUME IInv, NEW n \in Names, JobUnmark(n)
    PROVE  IInv' /\ CleanStep /\ EndStep
<1>1. /\ job[n].at = "unmark" /\ marked' = marked \ {n} /\ UNCHANGED <<row, account, home, req>>
    BY DEF JobUnmark, stored, host
<1>2. NoJob \in JobRec /\ NoJob.at = "none"
    BY DEF NoJob, JobRec
<1>3. job' \in [Names -> JobRec] /\ job'[n] = NoJob /\ \A m \in Names \ {n} : job'[m] = job[m]
    BY <1>2 DEF JobUnmark, IInv, Typed
<1>4. Typed' /\ JobsOK' /\ HomesAreKept'
    BY <1>1, <1>2, <1>3
    DEF IInv, Typed, JobsOK, Steps, HomesAreKept, AccountKeepsItsHome, OrphanHomeIsOnRecord
<1>5. CallsOK'
    BY <1>1, <1>2, <1>3 DEF IInv, CallsOK
<1> QED
    BY <1>1, <1>4, <1>5 DEF IInv, CleanStep, EndStep

-----------------------------------------------------------------------------
\* A stop takes the jobs and the calls, and the next boot takes up what the table says.
LEMMA BootSteps ==
    ASSUME IInv, Crash \/ Resume
    PROVE  IInv' /\ CleanStep /\ EndStep
<1>1. /\ NoJob \in JobRec /\ NoJob.at = "none" /\ NewJob \in JobRec /\ NewJob.at = "processes"
      /\ NoReq \in ReqRec /\ NoReq.at = "idle"
    BY DEF NoJob, NewJob, JobRec, NoReq, ReqRec, Steps
<1>2. UNCHANGED <<row, account, home>>
    BY DEF Crash, Resume, stored, host
<1>3. CASE Crash
  <2>1. /\ marked' = {} /\ job' = [m \in Names |-> NoJob] /\ req' = [t \in Requests |-> NoReq]
      BY <1>3 DEF Crash
  <2>2. Typed' /\ JobsOK' /\ CallsOK' /\ HomesAreKept'
      BY <1>1, <1>2, <2>1
      DEF IInv, Typed, JobsOK, CallsOK, HomesAreKept, AccountKeepsItsHome, OrphanHomeIsOnRecord, Steps
  <2> QED
      BY <1>2, <2>2 DEF IInv, CleanStep, EndStep
<1>4. CASE Resume
  <2> DEFINE found == {m \in Names : row[m] = "removing"}
  <2>0. CASE UNCHANGED <<marked, job>>
      BY <1>2, <1>4, <2>0, Apart DEF Resume
  <2> SUFFICES ASSUME ~UNCHANGED <<marked, job>> PROVE IInv' /\ CleanStep /\ EndStep
      BY <2>0
  <2>1. /\ marked' = marked \cup found /\ UNCHANGED req
        /\ job' = [m \in Names |-> IF m \in found \ marked THEN NewJob ELSE job[m]]
      BY <1>4 DEF Resume
  <2>2. Typed' /\ JobsOK' /\ HomesAreKept'
      BY <1>1, <1>2, <2>1
      DEF IInv, Typed, JobsOK, HomesAreKept, AccountKeepsItsHome, OrphanHomeIsOnRecord, Steps
  <2>3. CallsOK'
      BY <1>1, <1>2, <2>1 DEF IInv, CallsOK
  <2> QED
      BY <1>2, <2>2, <2>3 DEF IInv, CleanStep, EndStep
<1> QED
    BY <1>3, <1>4

\* Every step keeps the invariant and does neither of what it may never do.
LEMMA NextInvariant ==
    ASSUME OneCall, IInv, [Next]_vars
    PROVE  IInv' /\ CleanStep /\ EndStep
<1>1. CASE UNCHANGED vars
    BY <1>1, Apart DEF vars
<1>2. CASE \/ \E n \in Names, k \in Asks : MemberAsk(n, k)
           \/ MemberWrite \/ Serve
    BY <1>2, Apart DEF MemberAsk, MemberWrite, Serve, stored, host, volatile
<1>3. CASE \E r \in Requests : Handler(r)
    BY <1>3, BeginStep, StartStep, WipeSteps, AccountStep, ForgetStep DEF Handler
<1>4. CASE \E n \in Names : Expire(n) \/ Job(n)
    BY <1>4, ExpireStep, EarlySteps, LateSteps, FinishStep, UnmarkStep DEF Job
<1>5. CASE Crash \/ Resume
    BY <1>5, BootSteps
<1>6. CASE \E r \in Requests, by, n \in Names : RemoveCheck(r, by, n) \/ CreateCheck(r, by, n)
    BY <1>6, CheckSteps
<1> QED
    BY <1>1, <1>2, <1>3, <1>4, <1>5, <1>6 DEF Next

\* No home is lost, whatever fails and however often the daemon stops: an account that is there has
\* its home, and a home without one is on record (host.go Remove, removal.go).
THEOREM Keeps == ASSUME OneCall PROVE Spec => []HomesAreKept
<1>1. IInv /\ [Next]_vars => IInv'
    BY NextInvariant
<1>2. IInv => HomesAreKept
    BY DEF IInv
<1> QED
    BY <1>1, <1>2, InitInvariant, PTL DEF Spec

\* A name is taken over clean, and a removal that has ended was ended by its own job, in a state an
\* admin can read (users.go notCreatable, createUser).
THEOREM TakesOver == ASSUME OneCall PROVE Spec => NamesAreTakenOver
<1>1. IInv /\ [Next]_vars => IInv'
    BY NextInvariant
<1>2. IInv /\ [Next]_vars => [CleanStep]_vars /\ [EndStep]_vars
    BY NextInvariant
<1> QED
    BY <1>1, <1>2, InitInvariant, PTL
    DEF Spec, NamesAreTakenOver, NewAccountIsClean, EndedByItsJob, CleanStep, EndStep

=============================================================================
