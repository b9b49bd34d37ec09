------------------------------ MODULE Telemetry ------------------------------
(***************************************************************************)
(* What members and Processes may say in Telemetry and read back from it   *)
(* (internal/daemon identity.go, handlers.go, internal.go and              *)
(* internal/store/store.go): an export is stamped with the identity behind *)
(* its connection and stored in one transaction, a query is narrowed to    *)
(* what its caller may read, the cause of an internal problem is stored    *)
(* for admins alone, and a sweep deletes, signal after signal and a batch  *)
(* at a time, what is older than the window of its signal.                 *)
(*                                                                         *)
(* A request is decided in two steps, the read of who calls and the call   *)
(* of the store, and registrations, admins, windows and the clock change   *)
(* between them.                                                           *)
(***************************************************************************)
EXTENDS Integers, Sequences, FiniteSets

CONSTANTS Members, Procs, Requests,
          Signals,      \* the tables, in the order the sweep takes them
          Windows,      \* the retention windows an admin may set
          Batch,        \* SweepBatch
          QueueDepth,   \* how many causes wait to be written
          Rate, RateWindow,
          MaxClock, MaxRecords, MaxFaults, MaxChanges   \* bounds

VARIABLES admins,   \* the members of the admin group of the host
          row,      \* Process id -> its registration: owner, and whether an admin registered it
          record,   \* the records of the store
          window,   \* signal -> its retention window
          req,      \* request -> where it is, the identity or the filter it goes by
          page,     \* request -> who it answered and with which records
          cause,    \* the queue of internal causes
          rate,     \* member -> how many causes were recorded in the window, and when it ends
          sweep,    \* the signals left to sweep, and the cutoff of each
          clock, faults, changes

vars == <<admins, row, record, window, req, page, cause, rate, sweep, clock, faults, changes>>

Nobody == "nobody"
NoRow  == [owner |-> Nobody, admin |-> FALSE]
Idle   == [at |-> "idle"]
NoPage == [reader |-> Nobody, admin |-> FALSE, records |-> {}]
NoRate == [count |-> 0, until |-> 0]
Tables == {Signals[k] : k \in DOMAIN Signals}
Still  == [left |-> <<>>, cut |-> [s \in Tables |-> 0]]
Producers == Members \cup Procs

\* What a producer writes on a record: a user of its choice, that it is a judgment, that it is internal.
Claims == [user : Members \cup {Nobody}, eval : BOOLEAN, internal : BOOLEAN]

Init ==
    /\ admins \in SUBSET Members
    /\ row = [p \in Procs |-> NoRow]
    /\ record = {}
    /\ window \in [Tables -> Windows]
    /\ req = [r \in Requests |-> Idle]
    /\ page = [r \in Requests |-> NoPage]
    /\ cause = <<>>
    /\ rate = [m \in Members |-> NoRate]
    /\ sweep = Still
    /\ clock = 0 /\ faults = 0 /\ changes = 0
------------------------------------------------------------------------------
\* A record as the store has it. Its sender is who was behind the connection, which no column says.
Stored(s, user, producer, internal, sender, judged) ==
    [signal |-> s, user |-> user, producer |-> producer, internal |-> internal,
     time |-> clock, sender |-> sender, judged |-> judged]

Insert(x) == Cardinality(record) < MaxRecords /\ record' = record \cup {x}
Fault == faults < MaxFaults /\ faults' = faults + 1
Change == changes < MaxChanges /\ changes' = changes + 1

\* queueInternal: a cause on a full queue is dropped.
Queued(c) == IF Len(cause) < QueueDepth THEN Append(cause, c) ELSE cause

\* recordInternal: a problem of the daemon's own.
OwnCause == [user |-> Nobody, at |-> clock]
------------------------------------------------------------------------------
\* The admin group, and the registrations an export is resolved by.
ChangeAdmins ==
    /\ Change
    /\ admins' \in SUBSET Members
    /\ UNCHANGED <<row, record, window, req, page, cause, rate, sweep, clock, faults>>

Register(p, m) ==
    /\ Change /\ row[p] = NoRow
    /\ row' = [row EXCEPT ![p] = [owner |-> m, admin |-> m \in admins]]
    /\ UNCHANGED <<admins, record, window, req, page, cause, rate, sweep, clock, faults>>

Unregister(p) ==
    /\ row[p] # NoRow
    /\ row' = [row EXCEPT ![p] = NoRow]
    /\ UNCHANGED <<admins, record, window, req, page, cause, rate, sweep, clock, faults, changes>>
------------------------------------------------------------------------------
\* socketIdentity and tokenIdentity: who an export is about, who wrote it, and whether it may judge.
SocketIdentity(m) == [user |-> m, producer |-> m, judges |-> FALSE]
TokenIdentity(p)  == [user |-> row[p].owner, producer |-> p, judges |-> row[p].admin]

Identify(r, id) ==
    /\ req[r] = Idle
    /\ req' = [req EXCEPT ![r] = [at |-> "export", id |-> id]]
    /\ UNCHANGED <<admins, row, record, window, page, cause, rate, sweep, clock, faults, changes>>

ExportOverSocket(r, m) == Identify(r, SocketIdentity(m))
ExportOverTCP(r, p)    == row[p] # NoRow /\ Identify(r, TokenIdentity(p))

\* The claims of any judgment believed, whoever wrote it.
StampAnyJudgment(id, c) ==
    [user |-> IF c.eval /\ c.user # Nobody THEN c.user ELSE id.user, internal |-> FALSE]

\* identity.apply
Stamp(id, c) ==
    [user |-> IF id.judges /\ c.eval /\ c.user # Nobody THEN c.user ELSE id.user,
     internal |-> FALSE]

\* export: decode, stamp and insert; a failed insert is an internal problem and its own cause.
Export(r, s, c) ==
    /\ req[r].at = "export"
    /\ LET id == req[r].id
           st == Stamp(id, c)
       IN Insert(Stored(s, st.user, id.producer, st.internal, id.user, id.judges /\ c.eval))
    /\ req' = [req EXCEPT ![r] = Idle]
    /\ UNCHANGED <<admins, row, window, page, cause, rate, sweep, clock, faults, changes>>

ExportFails(r) ==
    /\ req[r].at = "export" /\ Fault
    /\ req' = [req EXCEPT ![r] = Idle]
    /\ cause' = Queued(OwnCause)
    /\ UNCHANGED <<admins, row, record, window, page, rate, sweep, clock, changes>>
------------------------------------------------------------------------------
\* query: the reader and what it asks for become a filter; a member asks for its own records and
\* for nothing internal, and is refused another's and answered nothing for the internal ones.
NoFilter(m, u, i) == [user |-> u, internal |-> i]
Filter(m, u, i) ==
    IF m \in admins THEN [user |-> u, internal |-> i] ELSE [user |-> m, internal |-> "no"]

Ask(r, s, m, u, i) ==
    /\ req[r] = Idle
    /\ m \in admins \/ (u \in {Nobody, m} /\ i # "yes")
    /\ req' = [req EXCEPT ![r] = [at |-> "query", signal |-> s, reader |-> m, admin |-> m \in admins,
                                  until |-> clock, filter |-> Filter(m, u, i)]]
    /\ UNCHANGED <<admins, row, record, window, page, cause, rate, sweep, clock, faults, changes>>

\* conditions
Meets(x, q) ==
    /\ x.signal = q.signal /\ x.time <= q.until
    /\ q.filter.user # Nobody => x.user = q.filter.user
    /\ q.filter.internal = "yes" => x.internal
    /\ q.filter.internal = "no"  => ~x.internal

Answer(r) ==
    /\ req[r].at = "query"
    /\ page' = [page EXCEPT ![r] = [reader |-> req[r].reader, admin |-> req[r].admin,
                                    records |-> {x \in record : Meets(x, req[r])}]]
    /\ req' = [req EXCEPT ![r] = Idle]
    /\ UNCHANGED <<admins, row, record, window, cause, rate, sweep, clock, faults, changes>>
------------------------------------------------------------------------------
\* rateLimiter: the first call of a window opens it, and drops the windows that have passed.
Open(m) == rate[m].count > 0 /\ clock < rate[m].until
Allowed(m) == Open(m) => rate[m].count < Rate
Counted(m) ==
    IF Open(m) THEN [rate EXCEPT ![m].count = @ + 1]
    ELSE [n \in Members |-> IF n = m THEN [count |-> 1, until |-> clock + RateWindow]
                            ELSE IF Open(n) THEN rate[n] ELSE NoRate]

\* internal: a session reports the cause of a problem of its own call.
Report(m) ==
    /\ Change /\ Allowed(m)
    /\ rate' = Counted(m)
    /\ cause' = Queued([user |-> m, at |-> clock])
    /\ UNCHANGED <<admins, row, record, window, req, page, sweep, clock, faults>>

\* writeInternal: a log record about the member, or about nobody, that is marked internal.
WriteCause ==
    /\ cause # <<>>
    /\ LET c == Head(cause) IN Insert([Stored("logs", c.user, c.user, TRUE, c.user, FALSE) EXCEPT !.time = c.at])
    /\ cause' = Tail(cause)
    /\ UNCHANGED <<admins, row, window, req, page, rate, sweep, clock, faults, changes>>

DropCause ==
    /\ cause # <<>> /\ Fault
    /\ cause' = Tail(cause)
    /\ UNCHANGED <<admins, row, record, window, req, page, rate, sweep, clock, changes>>
------------------------------------------------------------------------------
SetRetention(s, w) == window' = [window EXCEPT ![s] = w]

\* retention: an admin sets the window of a signal.
Retention(m, s, w) ==
    /\ Change /\ m \in admins
    /\ SetRetention(s, w)
    /\ UNCHANGED <<admins, row, record, req, page, cause, rate, sweep, clock, faults>>

Due == \E x \in record : x.time < clock - window[x.signal]

\* One window for every signal.
SweepByFirst ==
    /\ sweep.left = <<>> /\ Due
    /\ sweep' = [left |-> Signals, cut |-> [s \in Tables |-> clock - window[Head(Signals)]]]
    /\ UNCHANGED <<admins, row, record, window, req, page, cause, rate, clock, faults, changes>>

\* Sweep reads every window once.
SweepBegins ==
    /\ sweep.left = <<>> /\ Due
    /\ sweep' = [left |-> Signals, cut |-> [s \in Tables |-> clock - window[s]]]
    /\ UNCHANGED <<admins, row, record, window, req, page, cause, rate, clock, faults, changes>>

\* deleteOlder: one statement deletes a batch; a batch that is not full is the last of its table.
Older == {x \in record : x.signal = Head(sweep.left) /\ x.time < sweep.cut[x.signal]}
Batches(set) == {b \in SUBSET set : Cardinality(b) = Batch \/ (Cardinality(b) < Batch /\ b = set)}

SweepBatch ==
    /\ sweep.left # <<>>
    /\ \E b \in Batches(Older) :
         /\ record' = record \ b
         /\ sweep' = IF Cardinality(b) < Batch THEN [sweep EXCEPT !.left = Tail(@)] ELSE sweep
    /\ UNCHANGED <<admins, row, window, req, page, cause, rate, clock, faults, changes>>

\* A failure ends the sweep, and SweepLoop waits for its next tick.
SweepFails ==
    /\ sweep.left # <<>> /\ Fault
    /\ sweep' = Still
    /\ UNCHANGED <<admins, row, record, window, req, page, cause, rate, clock, changes>>

Tick ==
    /\ clock < MaxClock /\ clock' = clock + 1
    /\ UNCHANGED <<admins, row, record, window, req, page, cause, rate, sweep, faults, changes>>

Serve(r) ==
    \/ \E m \in Members : ExportOverSocket(r, m)
    \/ \E p \in Procs : ExportOverTCP(r, p)
    \/ \E s \in Tables, c \in Claims : Export(r, s, c)
    \/ ExportFails(r)
    \/ \E s \in Tables, m \in Members, u \in Members \cup {Nobody}, i \in {"any", "yes", "no"} : Ask(r, s, m, u, i)
    \/ Answer(r)

Next ==
    \/ ChangeAdmins
    \/ \E p \in Procs : Unregister(p) \/ \E m \in Members : Register(p, m)
    \/ \E r \in Requests : Serve(r)
    \/ \E m \in Members : Report(m) \/ \E s \in Tables, w \in Windows : Retention(m, s, w)
    \/ WriteCause \/ DropCause
    \/ SweepBegins \/ SweepBatch \/ SweepFails
    \/ Tick

\* SweepLoop runs for as long as the daemon does, and a batch is one statement of the store.
Fairness == WF_vars(SweepBegins) /\ WF_vars(SweepBatch)

Spec == Init /\ [][Next]_vars /\ Fairness
------------------------------------------------------------------------------
\* A page answered to a member who is not an admin has no internal cause, and nothing that anyone else
\* sent but the judgments of a Process an admin ran (PLAN.md 2.4; identity.go apply, handlers.go query).
MembersReadTheirOwn ==
    \A r \in Requests : page[r].reader # Nobody /\ ~page[r].admin =>
        \A x \in page[r].records : ~x.internal /\ (x.sender = page[r].reader \/ x.judged)

\* Every record that outlives its window is deleted, whatever fails during a sweep, unless an admin
\* gives its signal a longer window first (store.go Sweep, daemon.go SweepLoop).
RetentionIsEnforced ==
    \A s \in Tables, k \in 0..MaxClock :
        (\E x \in record : x.signal = s /\ x.time = k /\ k < clock - window[s])
            ~> (k >= clock - window[s] \/ \A x \in record : ~(x.signal = s /\ x.time = k))
==============================================================================
