------------------------------ MODULE Removal ------------------------------
(***************************************************************************)
(* The life of a member's account: users_create and users_remove of        *)
(* internal/daemon/users.go, the removal job of internal/daemon/removal.go *)
(* with its row in the store (internal/store/removals.go), and the account *)
(* and the home on the host (internal/sysusers/host.go).                   *)
(*                                                                         *)
(* A handler is a request with a program counter: another handler, the job *)
(* and a crash may come between any two of its calls.  The job is one      *)
(* goroutine per name, one action per step, and every step may fail.  What *)
(* the member's own requests leave on the host is a set of kinds, named    *)
(* after the step of the job that takes it away; the containers and the    *)
(* Process rows are the Processes module's.                                *)
(***************************************************************************)
EXTENDS Naturals, FiniteSets

CONSTANTS Names,        \* member names
          Admins,       \* those that are in kitbash-admin when they have an account
          Requests,     \* users_create and users_remove calls under way at once
          Asks,         \* the kinds of work members ask for
          Prompt,       \* see PromptStart
          MaxCrashes,   \* how often the daemon stops
          NoName

\* What is kept under a name besides the account and the home.
Kinds == {"registrations", "approvals", "builds", "secrets", "cgroups"}

ASSUME NamesAssumption == Admins \subseteq Names /\ NoName \notin Names
ASSUME AsksAssumption == Asks \subseteq Kinds
ASSUME PromptAssumption == Prompt \in BOOLEAN
ASSUME MaxCrashesAssumption == MaxCrashes \in Nat

VARIABLES row,       \* the removals table: the state of a name, "none" for no row
          account,   \* names in the group database
          home,      \* names with a directory under /home
          left,      \* what else the host keeps under a name
          up,        \* "down", "serving" before resumeRemovals, "resumed" after it or "unread"
          marked,    \* Server.removing
          job,       \* the removal job of a name: its next step, what went wrong, and whether its end
                     \* could not be recorded
          req,       \* the requests under way
          asking,    \* member requests past notRemoving that have not written yet
          crashes

stored   == <<row>>
host     == <<account, home, left>>
volatile == <<marked, job, req, asking>>
vars     == <<row, account, home, left, up, marked, job, req, asking, crashes>>

-----------------------------------------------------------------------------
\* The kinds whose handlers ask notRemoving first. Approvals and builds do not.
Gated == {"registrations", "secrets", "cgroups"}

NoJob   == [at |-> "none", failed |-> FALSE, late |-> FALSE, unsaid |-> FALSE]
NewJob  == [NoJob EXCEPT !.at = "processes"]
NoReq   == [at |-> "idle", name |-> NoName]

Steps == {"processes", "registrations", "approvals", "builds", "secrets", "account", "moving",
          "archive", "cgroups", "finish", "unmark"}
After == [s \in {"processes", "registrations", "approvals", "builds", "secrets"} |->
            CASE s = "processes"     -> "registrations"
              [] s = "registrations" -> "approvals"
              [] s = "approvals"     -> "builds"
              [] s = "builds"        -> "secrets"
              [] s = "secrets"       -> "account"]

IsAdmin(n) == n \in account /\ n \in Admins

\* A timing assumption, made where Prompt holds: a request is not held up between BeginRemoval and
\* startRemoval, two statements apart, while the job it found takes one of its last two steps.
PromptStart(n) == Prompt => \A r \in Requests : req[r] # [at |-> "begun", name |-> n]

Init ==
    /\ row     = [n \in Names |-> "none"]
    /\ account = Names
    /\ home    = Names
    /\ left    = [n \in Names |-> {}]
    /\ up      = "resumed"
    /\ marked  = {}
    /\ job     = [n \in Names |-> NoJob]
    /\ req     = [r \in Requests |-> NoReq]
    /\ asking  = {}
    /\ crashes = 0

-----------------------------------------------------------------------------
(* users_remove: the refusals, then BeginRemoval, then startRemoval.       *)

\* lastAdmin counts accounts, those being removed included.
LastAdmin(n) == \A m \in Names : IsAdmin(m) => m = n

RemoveCheck(r, by, n) ==
    /\ up # "down"
    /\ req[r] = NoReq
    /\ IsAdmin(by)
    /\ n # by
    /\ n \in account \/ row[n] \in {"removing", "failed"}
    /\ IsAdmin(n) => ~LastAdmin(n)
    /\ req' = [req EXCEPT ![r] = [at |-> "checked", name |-> n]]
    /\ UNCHANGED <<stored, host, up, marked, job, asking, crashes>>

\* BeginRemoval: one transaction that leaves a row that says removing as it is.
RemoveBegin(r) ==
    /\ req[r].at = "checked"
    /\ row' = [row EXCEPT ![req[r].name] = "removing"]
    /\ req' = [req EXCEPT ![r].at = "begun"]
    /\ UNCHANGED <<host, up, marked, job, asking, crashes>>

\* startRemoval: markRemoving, and the job unless the member was marked already.
RemoveStart(r) ==
    LET n == req[r].name IN
    /\ req[r].at = "begun"
    /\ marked' = marked \cup {n}
    /\ job' = IF n \in marked THEN job ELSE [job EXCEPT ![n] = NewJob]
    /\ req' = [req EXCEPT ![r] = NoReq]
    /\ UNCHANGED <<stored, host, up, asking, crashes>>

-----------------------------------------------------------------------------
(* users_create: notCreatable, secrets.RemoveMember, users.Create and the  *)
(* cgroup, DeleteRemoval.                                                  *)

\* Two mistakes in the refusal: a removal that failed, or one that is running, is let through.
NotRefusingFailed(n)   == row[n] # "removing"
NotRefusingRemoving(n) == row[n] # "failed"
Creatable(n) == row[n] \notin {"removing", "failed"}

CreateCheck(r, by, n) ==
    /\ up # "down"
    /\ req[r] = NoReq
    /\ IsAdmin(by)
    /\ Creatable(n)
    /\ req' = [req EXCEPT ![r] = [at |-> "wiping", name |-> n]]
    /\ UNCHANGED <<stored, host, up, marked, job, asking, crashes>>

CreateWipe(r) ==
    /\ req[r].at = "wiping"
    /\ \/ /\ left' = [left EXCEPT ![req[r].name] = @ \ {"secrets"}]
          /\ req' = [req EXCEPT ![r].at = "creating"]
       \/ /\ req' = [req EXCEPT ![r] = NoReq]
          /\ UNCHANGED left
    /\ UNCHANGED <<stored, account, home, up, marked, job, asking, crashes>>

\* useradd -m makes the account over whatever home is there. A later call of Create may fail, and
\* then the account stays and nothing else of the handler runs.
CreateAccount(r) ==
    LET n == req[r].name IN
    /\ req[r].at = "creating"
    /\ \/ /\ n \in account
          /\ req' = [req EXCEPT ![r] = NoReq]
          /\ UNCHANGED <<account, home, left>>
       \/ /\ n \notin account
          /\ account' = account \cup {n}
          /\ home' = home \cup {n}
          /\ \/ /\ left' = [left EXCEPT ![n] = @ \cup {"cgroups"}]
                /\ req' = [req EXCEPT ![r].at = "forgetting"]
             \/ /\ req' = [req EXCEPT ![r] = NoReq]
                /\ UNCHANGED left
    /\ UNCHANGED <<stored, up, marked, job, asking, crashes>>

CreateForget(r) ==
    /\ req[r].at = "forgetting"
    /\ row' = [row EXCEPT ![req[r].name] = "none"]
    /\ req' = [req EXCEPT ![r] = NoReq]
    /\ UNCHANGED <<host, up, marked, job, asking, crashes>>

-----------------------------------------------------------------------------
(* What a member's own requests leave on the host.                         *)

\* A session of the member asks for new work: notRemoving, where the handler asks it.
MemberAsk(n, k) ==
    /\ up # "down"
    /\ n \in account
    /\ k \in Gated => n \notin marked
    /\ asking = {}
    /\ k \notin left[n]
    /\ asking' = {[name |-> n, kind |-> k]}
    /\ UNCHANGED <<stored, host, up, marked, job, req, crashes>>

MemberWrite ==
    /\ \E a \in asking : left' = [left EXCEPT ![a.name] = @ \cup {a.kind}]
    /\ asking' = {}
    /\ UNCHANGED <<stored, account, home, up, marked, job, req, crashes>>

-----------------------------------------------------------------------------
(* removeMember, one action per step.  A step that fails is remembered and *)
(* the job goes on; once RemovalTimeout is over every call that takes the  *)
(* context fails.                                                          *)

\* The job of n does its step s, well or not, and goes on at next.
Step(n, s, next, ok) ==
    /\ job[n].at = s
    /\ job' = [job EXCEPT ![n].at = next, ![n].failed = @ \/ ~ok]
    /\ UNCHANGED <<up, marked, req, asking, crashes>>

Expire(n) ==
    /\ job[n].at \in Steps \ {"unmark"} /\ ~job[n].late
    /\ job' = [job EXCEPT ![n].late = TRUE]
    /\ UNCHANGED <<stored, host, up, marked, req, asking, crashes>>

\* The list, the tickers and names, and the containers of it.
JobProcesses(n) ==
    /\ \E ok \in BOOLEAN : (job[n].late => ~ok) /\ Step(n, "processes", After["processes"], ok)
    /\ UNCHANGED <<stored, host>>

\* DeleteProcessesByOwner, DeleteApprovals, DeleteBuildsByBuilder, secrets.RemoveMember.
JobDelete(n) ==
    /\ job[n].at \in DOMAIN After \ {"processes"}
    /\ \E ok \in BOOLEAN :
         /\ job[n].late => ~ok \/ job[n].at = "secrets"
         /\ left' = IF ok THEN [left EXCEPT ![n] = @ \ {job[n].at}] ELSE left
         /\ Step(n, job[n].at, After[job[n].at], ok)
    /\ UNCHANGED <<stored, account, home>>

\* Two mistakes in the account step: a missing account is read as nothing left to do,
JobAccountTakenAsDone(n) ==
    /\ \/ n \notin account /\ Step(n, "account", "cgroups", TRUE) /\ UNCHANGED account
       \/ n \in account /\ Step(n, "account", "cgroups", FALSE) /\ UNCHANGED account
       \/ /\ n \in account /\ ~job[n].late
          /\ account' = account \ {n}
          /\ Step(n, "account", "moving", TRUE)
    /\ UNCHANGED <<stored, home, left>>

\* and the home is moved before userdel has worked.
JobAccountHomeFirst(n) ==
    /\ home' = home \ {n}
    /\ \/ n \in account /\ Step(n, "account", "cgroups", FALSE) /\ UNCHANGED account
       \/ Step(n, "account", "cgroups", TRUE) /\ account' = account \ {n}
    /\ UNCHANGED <<stored, left>>

\* users.Remove up to userdel. Without an account it is ErrNotFound, and the archive is asked for
\* on its own.
JobAccount(n) ==
    /\ \/ n \notin account /\ Step(n, "account", "archive", TRUE) /\ UNCHANGED account
       \/ n \in account /\ Step(n, "account", "cgroups", FALSE) /\ UNCHANGED account
       \/ /\ n \in account /\ ~job[n].late
          /\ account' = account \ {n}
          /\ Step(n, "account", "moving", TRUE)
    /\ UNCHANGED <<stored, home, left>>

\* The rest of users.Remove: archiveHome, then the subordinate ids, whose failure is a failure of
\* a step that has moved the home already.
JobMove(n) ==
    /\ \E ok, moved \in BOOLEAN :
         /\ ok => moved
         /\ home' = IF moved THEN home \ {n} ELSE home
         /\ Step(n, "moving", "cgroups", ok)
    /\ UNCHANGED <<stored, account, left>>

JobArchive(n) ==
    /\ \E ok \in BOOLEAN :
         /\ home' = IF ok THEN home \ {n} ELSE home
         /\ Step(n, "archive", "cgroups", ok)
    /\ UNCHANGED <<stored, account, left>>

JobCgroups(n) ==
    /\ \E ok \in BOOLEAN :
         /\ left' = IF ok THEN [left EXCEPT ![n] = @ \ {"cgroups"}] ELSE left
         /\ Step(n, "cgroups", "finish", ok)
    /\ UNCHANGED <<stored, account, home>>

\* FinishRemoval updates the row if there is one, under the context of the steps. An error of the
\* store is logged, and the job ends all the same.
JobFinish(n) ==
    /\ PromptStart(n)
    /\ job[n].at = "finish"
    /\ \E ok \in BOOLEAN :
         /\ job[n].late => ~ok
         /\ row' = IF ~ok \/ row[n] = "none" THEN row
                   ELSE [row EXCEPT ![n] = IF job[n].failed THEN "failed" ELSE "removed"]
         /\ job' = [job EXCEPT ![n].at = "unmark", ![n].unsaid = ~ok]
    /\ UNCHANGED <<host, up, marked, req, asking, crashes>>

\* doneRemoving, deferred.
JobUnmark(n) ==
    /\ PromptStart(n)
    /\ job[n].at = "unmark"
    /\ job' = [job EXCEPT ![n] = NoJob]
    /\ marked' = marked \ {n}
    /\ UNCHANGED <<stored, host, up, req, asking, crashes>>

-----------------------------------------------------------------------------
(* The daemon stops and starts.                                            *)

Crash ==
    /\ up # "down" /\ crashes < MaxCrashes
    /\ crashes' = crashes + 1
    /\ up' = "down"
    /\ marked' = {}
    /\ job' = [n \in Names |-> NoJob]
    /\ req' = [r \in Requests |-> NoReq]
    /\ asking' = {}
    /\ UNCHANGED <<stored, host>>

\* The socket serves before Restore runs.
Serve ==
    /\ up = "down"
    /\ up' = "serving"
    /\ UNCHANGED <<stored, host, volatile, crashes>>

\* A boot that takes no removal up again.
ResumeNothing ==
    /\ up = "serving"
    /\ up' = "resumed"
    /\ UNCHANGED <<stored, host, volatile, crashes>>

\* resumeRemovals: startRemoval for every row that says removing, or none when they cannot be read.
Resume ==
    LET found == {n \in Names : row[n] = "removing"} IN
    /\ up = "serving"
    /\ \/ /\ up' = "resumed"
          /\ marked' = marked \cup found
          /\ job' = [n \in Names |-> IF n \in found \ marked THEN NewJob ELSE job[n]]
       \/ up' = "unread" /\ UNCHANGED <<marked, job>>
    /\ UNCHANGED <<stored, host, req, asking, crashes>>

-----------------------------------------------------------------------------
Handler(r) == RemoveBegin(r) \/ RemoveStart(r) \/ CreateWipe(r) \/ CreateAccount(r)
                \/ CreateForget(r)

Job(n) == JobProcesses(n) \/ JobDelete(n) \/ JobAccount(n) \/ JobMove(n) \/ JobArchive(n)
            \/ JobCgroups(n) \/ JobFinish(n) \/ JobUnmark(n)

Next ==
    \/ \E r \in Requests, by, n \in Names : RemoveCheck(r, by, n) \/ CreateCheck(r, by, n)
    \/ \E r \in Requests : Handler(r)
    \/ \E n \in Names, k \in Asks : MemberAsk(n, k)
    \/ MemberWrite
    \/ \E n \in Names : Expire(n) \/ Job(n)
    \/ Crash \/ Serve \/ Resume

\* Goroutines that are running go on running, and the service manager starts kitbashd again. The
\* job is SF because PromptStart holds it back while a request is between its two statements.
Fairness ==
    /\ \A r \in Requests : WF_vars(Handler(r))
    /\ \A n \in Names : SF_vars(Job(n))
    /\ WF_vars(Serve) /\ WF_vars(Resume)

Spec == Init /\ [][Next]_vars /\ Fairness

-----------------------------------------------------------------------------
\* A home is moved only once its account is gone: "a home archived before a failed userdel would
\* leave an account whose home does not exist".
AccountKeepsItsHome == account \subseteq home

\* A home whose account is gone is on record as a removal that has not finished, however often
\* the daemon stopped between userdel and the rename and whatever step failed: it is never behind
\* a name that can be created, and users_list names it to an admin.
OrphanHomeIsOnRecord == \A n \in home \ account : row[n] \in {"removing", "failed"}

\* No home is lost on the way out of an account: neither taken from one that is still there, nor
\* left where no row of a removal tells of it (host.go Remove, removal.go).
HomesAreKept == AccountKeepsItsHome /\ OrphanHomeIsOnRecord

\* A new account is never made over what the removal of an earlier one of that name did not take.
NewAccountIsClean == [][\A n \in account' \ account : n \notin home /\ row[n] # "failed"]_vars

\* Only the job that worked on it ends a removal. A users_create does not lose it, nor a restart.
EndedByItsJob == [][\A n \in Names : row[n] = "removing" /\ row'[n] # "removing"
                      => job[n].at = "finish" /\ row'[n] # "none"]_vars

\* A name that is made again starts clean, and the removal it had is not cut short by that
\* (users.go notCreatable, createUser).
NamesAreTakenOver == NewAccountIsClean /\ EndedByItsJob

\* A removal that a job is working on, or that a stop of the daemon cut short, comes to an end an
\* admin can read, whatever step of it fails and whatever request comes between, unless the store
\* refuses one of two calls: the read of a boot that would take it up, or the record of its end,
\* which it also refuses when the time of the job has run out. What such a call leaves is cut once
\* more at the next stop, and taken up by the next boot that reads its row.
Cut(n)     == up \in {"down", "serving"} /\ row[n] = "removing" /\ n \notin marked
Working(n) == row[n] = "removing" /\ job[n].at \in Steps \ {"unmark"}
CutRemovalEnds == \A n \in Names :
                    Cut(n) \/ Working(n) ~> (row[n] # "removing" \/ up = "unread" \/ job[n].unsaid)

-----------------------------------------------------------------------------
(* What the code's comments say and the code does not do.                  *)

\* A job is such that "the state it ends in is removed or failed with the first step that failed"
\* (removal.go), and a daemon that stopped in the middle of a removal "takes it up again at its next
\* start" (spec/kitbashd-api.yaml). One failed call of the store leaves the row at removing.
RemovalsEnd == \A n \in Names : Cut(n) \/ Working(n) ~> row[n] # "removing"

\* The wipe of users_create takes "whatever a removal that said it finished could not take", "the
\* values of the old account", and "the directory goes before the account exists". (users.go) A
\* member who has an account, and whom nobody removes, keeps their secrets.
MembersKeepTheirSecrets ==
    [][\A n \in account : job[n] = NoJob => left[n] \cap {"secrets"} \subseteq left'[n]]_vars
=============================================================================
