------------------------------- MODULE Session -------------------------------
(***************************************************************************)
(* One session of kitbash-mcp: the tools on its surface, the layers every  *)
(* call goes through (internal/server/server.go New), what a Process is    *)
(* permitted (permits.go), the handlers, and the span and the internal     *)
(* causes a call leaves (internal/telemetry).  Calls run side by side.     *)
(*                                                                         *)
(* How a name matches a glob is Permits.tla: here permits.tools is the set *)
(* of the names some glob matches, and a path is the prefix it is under.   *)
(***************************************************************************)
EXTENDS Integers, Sequences, FiniteSets, SequencesExt

CONSTANTS
    Calls,      \* the calls of the session
    Asked,      \* the names its client calls
    Published,  \* the names a Process of the owner may publish
    Families,   \* the families of this session beside fs: pkg, proc, daemon
    Areas,      \* the prefixes paths are under
    Shared,     \* those of them below the shared root
    Grants,     \* what the Package of the session may declare
    Queue       \* InternalQueue

VARIABLES
    permits,  \* Member, or what the Package declared
    owned,    \* the names the bridge publishes now
    call,     \* the calls
    open,     \* Provider.calls: those whose span is open
    causes,   \* the causes waiting to be reported
    told,     \* those kitbashd has
    over      \* the session ends: causes are recorded no more

vars == <<permits, owned, call, open, causes, told, over>>

Member == [member |-> TRUE]
Idle == [at |-> "idle"]

Fs == {"fs_list", "fs_read", "fs_write", "fs_history"}
Pkg == {"pkg_build", "pkg_import", "pkg_list", "pkg_inspect"}
Proc == {"proc_run", "proc_list", "proc_stop", "proc_logs"}
Tel == {"tel_query", "tel_retention"}
Users == {"users_me", "users_create", "users_list", "users_add_key", "users_remove"}
SecretsTools == {"secrets_set", "secrets_list", "secrets_remove"}
Deciding == {"approvals_list", "approvals_approve", "approvals_reject"}
Daemon == Tel \cup Users \cup SecretsTools \cup (Deciding \ {"approvals_approve"})

\* A session without a client of kitbashd serves none of what lives there.
Surface ==
    Fs \cup owned
       \cup (IF "pkg" \in Families THEN Pkg ELSE {})
       \cup (IF "proc" \in Families THEN Proc ELSE {})
       \cup (IF "daemon" \in Families THEN Daemon \cup Deciding ELSE {})

\* The last added is the outermost.
LayersSwapped == <<"permits", "tracing", "problem">>
Layers == <<"tracing", "permits", "problem">>

Init ==
    /\ permits \in {Member} \cup Grants
    /\ owned \in SUBSET Published
    /\ call = [c \in Calls |-> Idle]
    /\ open = {}
    /\ causes = <<>>
    /\ told = {}
    /\ over = FALSE

-----------------------------------------------------------------------------
\* Internal causes.

\* A mutant: some call in flight, whichever.
AnyOpen == IF open = {} THEN "" ELSE call[CHOOSE c \in open : TRUE].tool

\* The hook that records a cause has no context: with exactly one span open
\* there is no doubt which call failed, and otherwise no tool is named.
Tool == IF Cardinality(open) = 1 THEN call[CHOOSE c \in open : TRUE].tool ELSE ""

\* It is called by the goroutine that failed, so it only queues, and a full
\* queue drops.
Raise(c) ==
    causes' = IF over \/ Len(causes) >= Queue THEN causes
              ELSE Append(causes, [tool |-> Tool, from |-> c])

\* One goroutine reports them; a daemon that is not there loses the cause.
Report ==
    /\ causes # <<>>
    /\ causes' = Tail(causes)
    /\ \/ told' = told \cup {Head(causes)}
       \/ UNCHANGED told
    /\ UNCHANGED <<permits, owned, call, open, over>>

-----------------------------------------------------------------------------
\* What a Process may call.

Narrowed == permits # Member

\* A name is permitted by a glob, or by the word that stands for the tools of
\* the owner's Processes.
Match(t) == t \in permits.tools \/ (permits.packages /\ t \in owned)

TakesPath == {"fs_list", "fs_read", "fs_write", "fs_history", "pkg_build",
              "pkg_import", "pkg_inspect", "proc_run"}

\* A mutant: the paths of a list are not looked at.
NamedFirst(c) == call[c].path

\* Every path a call names, the one of its argument and those of its list.
Named(c) == call[c].path \cup call[c].list

Permitted(c) ==
    LET t == call[c].tool IN
    /\ Match(t)
    /\ t \in TakesPath => permits.paths # {} /\ Named(c) \subseteq permits.paths

-----------------------------------------------------------------------------
\* A call goes down the layers, is handled, and its answer comes up.

Begin(c) ==
    /\ ~over
    /\ call[c] = Idle
    /\ \E t \in Asked, p \in SUBSET Areas, l \in SUBSET Areas :
         /\ Cardinality(p) <= 1
         /\ p # {} => t \in TakesPath
         /\ l # {} => t = "fs_write"
         /\ call' = [call EXCEPT ![c] =
              [at |-> "down", layer |-> 1, tool |-> t, path |-> p, list |-> l,
               out |-> "none", span |-> "none", acted |-> {}]]
    /\ UNCHANGED <<permits, owned, open, causes, told, over>>

StartTool(c) == open' = open \cup {c}
End(c) == open' = open \ {c}
Enter(c, layer) == call' = [call EXCEPT ![c].layer = layer]

Down(c) ==
    /\ call[c].at = "down"
    /\ LET n == call[c].layer IN
       \/ /\ n > Len(Layers)
          /\ call' = [call EXCEPT ![c].at = "handler"]
          /\ UNCHANGED open
       \/ /\ n <= Len(Layers) /\ Layers[n] = "tracing"
          /\ StartTool(c)
          /\ Enter(c, n + 1)
       \/ /\ n <= Len(Layers) /\ Layers[n] = "permits"
          /\ IF Narrowed /\ ~Permitted(c)
               THEN call' = [call EXCEPT ![c].at = "up", ![c].layer = n - 1,
                                         ![c].out = "not-permitted"]
               ELSE Enter(c, n + 1)
          /\ UNCHANGED open
       \/ /\ n <= Len(Layers) /\ Layers[n] = "problem"
          /\ Enter(c, n + 1)
          /\ UNCHANGED open
    /\ UNCHANGED <<permits, owned, causes, told, over>>

Answer(c, out, acted) ==
    call' = [call EXCEPT ![c].at = "up", ![c].layer = Len(Layers),
                         ![c].out = out, ![c].acted = acted]

\* The ways out of a handler that is given no path: an answer, a problem, one
\* of the host's own that is a cause as well, and a panic.
Ends(c, acted) ==
    \/ Answer(c, "ok", acted) /\ UNCHANGED causes
    \/ Answer(c, "problem", acted) /\ UNCHANGED causes
    \/ Answer(c, "internal", acted) /\ Raise(c)
    \/ Answer(c, "panic", acted) /\ UNCHANGED causes

\* The name is not on the surface, or the arguments do not fit its schema: the
\* handler is not reached.
Unfit(c) ==
    /\ call[c].at = "handler"
    /\ \/ call[c].tool \notin Surface /\ Answer(c, "error", {})
       \/ call[c].tool \in Surface /\ Answer(c, "bare", {})
    /\ UNCHANGED <<permits, owned, open, causes, told, over>>

Mixed(c) == call[c].path # {} /\ call[c].list # {}

\* One file or a list of them, and a call that is both forms is refused.
Write(c) ==
    /\ call[c].at = "handler"
    /\ call[c].tool = "fs_write"
    /\ IF Mixed(c)
         THEN Answer(c, "problem", {}) /\ UNCHANGED causes
         ELSE Ends(c, call[c].path \cup call[c].list)
    /\ UNCHANGED <<permits, owned, open, told, over>>

\* The other tools of this session's own services.
Serve(c) ==
    /\ call[c].at = "handler"
    /\ call[c].tool \in Surface \cap ((Fs \cup Pkg \cup Proc) \ {"fs_write"})
    /\ Ends(c, call[c].path)
    /\ UNCHANGED <<permits, owned, open, told, over>>

\* What kitbashd says to a request over its socket: JSON, a problem, a refusal
\* that is none or a body that is not JSON, nothing at all.
Replies == {"json", "problem", "unreadable", "none"}

\* Its answer and its problem come back as they are, and anything else is a
\* problem of this host's own.
Passed(reply) ==
    CASE reply = "json" -> "ok"
      [] reply = "problem" -> "problem"
      [] OTHER -> "internal"

\* What lives in kitbashd is asked over its socket.
Forward(c) ==
    /\ call[c].at = "handler"
    /\ call[c].tool \in Surface \cap Daemon
    /\ \E reply \in Replies :
         /\ Answer(c, Passed(reply), {})
         /\ IF Passed(reply) = "internal" THEN Raise(c) ELSE UNCHANGED causes
    /\ UNCHANGED <<permits, owned, open, told, over>>

\* A mutant: what a Process is permitted is not asked of a queued call.
ApprovesAny(queued) == TRUE

\* The handler runs what was queued where the guard never sees it, so it asks
\* of every path itself.
permittedApproval(queued) == Narrowed => queued \subseteq permits.paths

\* Claiming may fail; what was claimed runs here, or its refusal is the result
\* that is stored.
Approve(c) ==
    /\ call[c].at = "handler"
    /\ call[c].tool = "approvals_approve"
    /\ call[c].tool \in Surface
    /\ \/ Ends(c, {})
       \/ \E queued \in SUBSET Areas \ {{}} :
            /\ queued \subseteq Shared
            /\ permittedApproval(queued)
            /\ Ends(c, queued)
    /\ UNCHANGED <<permits, owned, open, told, over>>

\* A tool of a Process is called where the bridge says it is.
Proxied(c) ==
    /\ call[c].at = "handler"
    /\ call[c].tool \in owned
    /\ Ends(c, {})
    /\ UNCHANGED <<permits, owned, open, told, over>>

\* What the guard of problems makes of an outcome: problem details, always.
Guarded(out) ==
    CASE out = "panic" -> "internal"
      [] out = "bare" -> "problem"
      [] OTHER -> out

Status(out) == IF out = "panic" THEN "unset" ELSE out

Up(c) ==
    /\ call[c].at = "up"
    /\ LET n == call[c].layer  out == call[c].out IN
       \/ /\ n = 0
          /\ call' = [call EXCEPT ![c].at = "answered"]
          /\ UNCHANGED <<open, causes>>
       \/ /\ n > 0 /\ Layers[n] = "problem"
          /\ call' = [call EXCEPT ![c].layer = n - 1, ![c].out = Guarded(out)]
          /\ IF out = "panic" THEN Raise(c) ELSE UNCHANGED causes
          /\ UNCHANGED open
       \/ /\ n > 0 /\ Layers[n] = "permits"
          /\ Enter(c, n - 1)
          /\ UNCHANGED <<open, causes>>
       \/ /\ n > 0 /\ Layers[n] = "tracing"
          /\ call' = [call EXCEPT ![c].layer = n - 1, ![c].span = Status(out)]
          /\ End(c)
          /\ UNCHANGED causes
    /\ UNCHANGED <<permits, owned, told, over>>

-----------------------------------------------------------------------------
\* The bridge publishes and withdraws as Processes come and go.
Publish ==
    /\ owned' \in SUBSET Published
    /\ owned' # owned
    /\ UNCHANGED <<permits, call, open, causes, told, over>>

\* The client is gone: the hook is taken off before the last flush.
Shutdown ==
    /\ ~over
    /\ over' = TRUE
    /\ UNCHANGED <<permits, owned, call, open, causes, told>>

Next ==
    \/ Report \/ Publish \/ Shutdown
    \/ \E c \in Calls :
         \/ Begin(c) \/ Down(c) \/ Up(c)
         \/ Unfit(c) \/ Write(c) \/ Serve(c) \/ Forward(c) \/ Approve(c) \/ Proxied(c)

Spec == Init /\ [][Next]_vars

-----------------------------------------------------------------------------
\* An internal cause names the call that failed or no call at all, with other
\* calls beginning and ending meanwhile (telemetry.go tool).
CauseNamesItsCall ==
    \A i \in told \cup ToSet(causes) : i.tool \in {"", call[i.from].tool}

\* Every answer, a refusal and a panic included, has one span that says of it
\* what the client was told (server.go New, tracing.go).
SpansTellTheAnswers ==
    \A c \in Calls : call[c].at = "answered" => call[c].span = call[c].out

\* Nothing is acted on outside the prefixes a Package declared, neither by an
\* entry of a list nor by approving what somebody queued (permits.go,
\* approve.go).
NothingOutsideThePrefixes ==
    Narrowed => \A c \in Calls : call[c] # Idle => call[c].acted \subseteq permits.paths
=============================================================================
