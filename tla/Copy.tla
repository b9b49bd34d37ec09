-------------------------------- MODULE Copy --------------------------------
(***************************************************************************)
(* internal/sysusers/runner.go, CopyImage: podman save of one member piped *)
(* into podman load of another, both children of kitbashd.  The kernel's   *)
(* pipe holds a few chunks; a process that writes into a pipe nobody can   *)
(* read is killed, one that reads an empty pipe waits until nobody can     *)
(* write.  kitbashd holds both ends until both children are started.       *)
(***************************************************************************)
EXTENDS Integers, FiniteSets

CONSTANTS
    Size,     \* bound: the chunks of the archive
    Room,     \* bound: the chunks a pipe holds
    MaxFaults \* bound: calls and children that fail

VARIABLES
    at,      \* where CopyImage is
    save,    \* the child that writes: none, runs, done, failed
    load,    \* the child that reads
    writers, \* who holds the end to write
    readers, \* who holds the end to read
    pipe,    \* the chunks in the pipe
    sent,    \* the chunks save has written
    got,     \* the chunks load has read
    hung,    \* a child that stopped making progress
    late,    \* the budget has run out
    image,   \* the image is in the other store: no, or its names
    answer,
    faults

vars == <<at, save, load, writers, readers, pipe, sent, got, hung, late, image, answer, faults>>
children == <<save, load, writers, readers, pipe, sent, got, hung>>

Init ==
    /\ at = "begin"
    /\ save = "none" /\ load = "none" /\ writers = {} /\ readers = {}
    /\ pipe = 0 /\ sent = 0 /\ got = 0 /\ hung = "none" /\ late = FALSE
    /\ image = "no" /\ answer = "" /\ faults = 0

Fault == faults < MaxFaults /\ faults' = faults + 1

-----------------------------------------------------------------------------
(* pipeline. *)

MakePipe ==
    /\ at = "begin"
    /\ writers' = {"daemon"} /\ readers' = {"daemon"}
    /\ at' = "save"
    /\ UNCHANGED <<save, load, pipe, sent, got, hung, late, image, answer, faults>>

StartSave ==
    /\ at = "save"
    /\ \/ /\ save' = "runs" /\ writers' = writers \cup {"save"}
          /\ at' = "load" /\ UNCHANGED <<readers, answer, faults>>
       \/ /\ Fault
          /\ writers' = {} /\ readers' = {} /\ answer' = "save failed" /\ at' = "end"
          /\ UNCHANGED save
    /\ UNCHANGED <<load, pipe, sent, got, hung, late, image>>

\* A save nobody will read from is killed.
StartLoad ==
    /\ at = "load"
    /\ \/ /\ load' = "runs" /\ readers' = readers \cup {"load"}
          /\ at' = "close" /\ UNCHANGED <<save, writers, answer, faults>>
       \/ /\ Fault
          /\ writers' = {} /\ readers' = {} /\ answer' = "load failed" /\ at' = "end"
          /\ save' = "failed" /\ UNCHANGED load
    /\ UNCHANGED <<pipe, sent, got, hung, late, image>>

\* A mutant: the daemon keeps the end it could write to.
KeepsTheWriter == [w |-> writers, r |-> readers \ {"daemon"}]
\* The daemon gives up its own two ends.
GivesUp == [w |-> writers \ {"daemon"}, r |-> readers \ {"daemon"}]

CloseBoth ==
    /\ at = "close"
    /\ writers' = GivesUp.w /\ readers' = GivesUp.r
    /\ at' = "wait"
    /\ UNCHANGED <<save, load, pipe, sent, got, hung, late, image, answer, faults>>

\* Both are waited for, the one that reads first.
Waited ==
    /\ at = "wait"
    /\ load \in {"done", "failed"} /\ save \in {"done", "failed"}
    /\ at' = "judge"
    /\ UNCHANGED <<children, late, image, answer, faults>>

-----------------------------------------------------------------------------
(* The two children, and the kernel between them. *)

Moves(c) == hung # c

Write ==
    /\ save = "runs" /\ Moves("save") /\ sent < Size
    /\ IF readers = {}
       THEN save' = "failed" /\ writers' = writers \ {"save"} /\ UNCHANGED <<pipe, sent>>
       ELSE pipe < Room /\ pipe' = pipe + 1 /\ sent' = sent + 1 /\ UNCHANGED <<save, writers>>
    /\ UNCHANGED <<at, load, readers, got, hung, late, image, answer, faults>>

SaveEnds ==
    /\ save = "runs" /\ Moves("save") /\ sent = Size
    /\ save' = "done" /\ writers' = writers \ {"save"}
    /\ UNCHANGED <<at, load, readers, pipe, sent, got, hung, late, image, answer, faults>>

SaveDies ==
    /\ save = "runs" /\ Fault
    /\ save' = "failed" /\ writers' = writers \ {"save"}
    /\ UNCHANGED <<at, load, readers, pipe, sent, got, hung, late, image, answer>>

Read ==
    /\ load = "runs" /\ Moves("load") /\ pipe > 0
    /\ pipe' = pipe - 1 /\ got' = got + 1
    /\ UNCHANGED <<at, save, load, writers, readers, sent, hung, late, image, answer, faults>>

\* At the end of the archive the image is there, or what came is no archive.
LoadEnds ==
    /\ load = "runs" /\ Moves("load") /\ pipe = 0 /\ writers = {}
    /\ load' = IF got = Size THEN "done" ELSE "failed"
    /\ image' = IF got = Size THEN "named" ELSE image
    /\ readers' = readers \ {"load"}
    /\ UNCHANGED <<at, save, writers, pipe, sent, got, hung, late, answer, faults>>

LoadDies ==
    /\ load = "runs" /\ Fault
    /\ load' = "failed" /\ readers' = readers \ {"load"}
    /\ UNCHANGED <<at, save, writers, pipe, sent, got, hung, late, image, answer>>

Hang(c) ==
    /\ at = "wait" /\ hung = "none" /\ Fault
    /\ (c = "save" /\ save = "runs") \/ (c = "load" /\ load = "runs")
    /\ hung' = c
    /\ UNCHANGED <<at, save, load, writers, readers, pipe, sent, got, late, image, answer>>

\* One budget for the whole copy; it runs out on a copy that is slow or stuck, and
\* both children are killed.
OutOfTime ==
    /\ at = "wait" /\ ~late
    /\ late' = TRUE
    /\ save' = IF save = "runs" THEN "failed" ELSE save
    /\ load' = IF load = "runs" THEN "failed" ELSE load
    /\ writers' = writers \ {"save"} /\ readers' = readers \ {"load"}
    /\ UNCHANGED <<at, pipe, sent, got, hung, image, answer, faults>>

-----------------------------------------------------------------------------
(* The answer, and the name the load invented. *)

Judge ==
    /\ at = "judge"
    /\ answer' = CASE late -> "timed out"
                   [] save = "failed" -> "save failed"
                   [] load = "failed" -> "load failed"
                   [] OTHER -> "copied"
    /\ at' = IF answer' = "copied" THEN "untag" ELSE "end"
    /\ UNCHANGED <<children, late, image, faults>>

\* Best effort.
DropLoadedName ==
    /\ at = "untag"
    /\ \/ image' = "bare" /\ UNCHANGED faults
       \/ Fault /\ UNCHANGED image
    /\ at' = "end"
    /\ UNCHANGED <<children, late, answer>>

Kitbashd == MakePipe \/ StartSave \/ StartLoad \/ CloseBoth \/ Waited \/ Judge \/ DropLoadedName
Saving   == Write \/ SaveEnds
Loading  == Read \/ LoadEnds

Next ==
    \/ Kitbashd \/ Saving \/ Loading \/ SaveDies \/ LoadDies
    \/ \E c \in {"save", "load"} : Hang(c)
    \/ OutOfTime

\* Each process runs; nothing says the budget runs out.
Fairness == WF_vars(Kitbashd) /\ WF_vars(Saving) /\ WF_vars(Loading)

Spec == Init /\ [][Next]_vars /\ Fairness

-----------------------------------------------------------------------------
\* What is answered as copied is in the other store whole, whatever either child did.
CopiedIsWhole == answer = "copied" => got = Size /\ image # "no"

\* A copy ends without its budget unless a child hangs: neither child is left waiting
\* for an end of the pipe another process forgot to close (pipeline).
OnlyAHangNeedsTheBudget == <>(at = "end" \/ hung # "none")
=============================================================================
