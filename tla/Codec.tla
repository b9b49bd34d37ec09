------------------------------- MODULE Codec -------------------------------
(***************************************************************************)
(* One batch of records on its way through kitbash: what the SDK hands the *)
(* exporter of a session (internal/telemetry/transform.go, export.go), the *)
(* request kitbashd decodes (internal/otlp), the record it stores and the  *)
(* request the fan out encodes for a subscriber, which reads it with a     *)
(* decoder of its own.                                                     *)
(*                                                                         *)
(* Bytes, strings and numbers are members of small sets; what a conversion *)
(* does to them is kept.  An AnyValue and the plain value it is stored as  *)
(* are both [kind, of, items].                                             *)
(***************************************************************************)
EXTENDS Integers, Sequences, FiniteSets, SequencesExt, TLC

CONSTANTS
    Batches,    \* what a session's SDK hands its exporters, sequences of records
    Requests,   \* what a producer of its own sends: groups, in a format
    MaxBatches, \* bound: batches and requests
    MaxFaults   \* bound: exports that fail

Signals == {"span", "log", "point"}
\* The kitbash attributes that are text, and those that are flags.
Lifted == {"user", "package", "process", "unit", "path", "tool", "producer", "caller"}
Flags == {"eval", "internal"}
\* The width of an identifier in bytes.
Wide == [trace |-> 16, span |-> 8, parent |-> 8]

VARIABLES
    phase,    \* idle, sent, stored, encoded or read
    batch,    \* what the SDK handed over, <<>> of another producer
    request,  \* the groups on the wire and their format
    stored,   \* what kitbashd stored of it
    body,     \* what the fan out sends
    received, \* what a subscriber reads
    stopped,  \* per signal: the exporter was shut down
    failing,  \* the notice: the last export failed
    batches, faults

vars == <<phase, batch, request, stored, body, received, stopped, failing, batches, faults>>

Nothing == [groups |-> <<>>, format |-> "protobuf"]

Init ==
    /\ phase = "idle"
    /\ batch = <<>> /\ request = Nothing /\ stored = <<>> /\ body = <<>> /\ received = <<>>
    /\ stopped = [s \in Signals |-> FALSE] /\ failing = FALSE
    /\ batches = 0 /\ faults = 0

-----------------------------------------------------------------------------
(* What a session sends. *)

Plain(k, t, s) == [kind |-> k, of |-> t, items |-> s]
Nil == Plain("nil", "", <<>>)
Map(F(_), s) == [i \in DOMAIN s |-> F(s[i])]

\* A count and a time below zero are none; so is a severity off the scale.
unixNano(t) == IF t < 0 THEN 0 ELSE t
severity(s) == IF s \in 1 .. 24 THEN s ELSE 0

\* A typed slice is a list, a value never set is none, one of an unknown kind a word.
RECURSIVE sdkValue(_)
sdkValue(v) ==
    CASE v.kind \in {"string", "bool", "int", "double", "bytes"} -> v
      [] v.kind \in {"strings", "slice"} -> Plain("array", "", Map(sdkValue, v.items))
      [] v.kind = "map" ->
             Plain("kvlist", "", Map(LAMBDA kv : [kv EXCEPT !.val = sdkValue(@)], v.items))
      [] v.kind = "empty" -> Plain("none", "", <<>>)
      [] OTHER -> Plain("string", "INVALID", <<>>)

keyValuesOf(attrs) == Map(LAMBDA kv : [kv EXCEPT !.val = sdkValue(@)], attrs)

\* A span is sent with the identifiers it has; a log record leaves a zero one off.
protoSpan(r) ==
    [sig |-> "span", ids |-> r.ids, time |-> unixNano(r.time), observed |-> 0, text |-> r.text,
     number |-> r.number, body |-> Plain("none", "", <<>>), attrs |-> keyValuesOf(r.attrs), point |-> r.point]
protoLogRecord(r) ==
    [sig |-> "log", ids |-> r.ids, time |-> unixNano(r.time), observed |-> unixNano(r.observed), text |-> r.text,
     number |-> severity(r.number), body |-> sdkValue(r.body), attrs |-> keyValuesOf(r.attrs), point |-> r.point]
proto(r) == IF r.sig = "span" THEN protoSpan(r) ELSE protoLogRecord(r)

\* A mutant: a scope is looked up by its name alone.
ScopeOnly(r) == r.scope

\* One group per resource and scope, filled in the order the records came.
scopeKey(r) == <<r.resource, r.scope>>

ScopeKeys(b) == Map(LAMBDA r : scopeKey(r), b)
FirstOf(b, k) == b[CHOOSE i \in DOMAIN b : scopeKey(b[i]) = k /\ \A j \in 1 .. i - 1 : scopeKey(b[j]) # k]
RECURSIVE InOrder(_)
InOrder(s) == IF s = <<>> THEN <<>>
              ELSE <<Head(s)>> \o InOrder(SelectSeq(Tail(s), LAMBDA k : k # Head(s)))
resourceGroups(b) ==
    Map(LAMBDA k : [resource |-> keyValuesOf(FirstOf(b, k).resource),
                    records |-> Map(proto, SelectSeq(b, LAMBDA r : scopeKey(r) = k))],
        InOrder(ScopeKeys(b)))

\* An exporter that was shut down drops its batch and says nothing.
post(b) ==
    /\ phase = "idle" /\ batches < MaxBatches /\ b # <<>>
    /\ batches' = batches + 1
    /\ \/ /\ stopped[b[1].sig]
          /\ failing' = FALSE
          /\ UNCHANGED <<phase, batch, request, faults>>
       \/ /\ ~stopped[b[1].sig]
          /\ phase' = "sent" /\ batch' = b
          /\ request' = [groups |-> resourceGroups(b), format |-> "protobuf"]
          /\ failing' = FALSE
          /\ UNCHANGED faults
       \/ /\ ~stopped[b[1].sig]
          /\ faults < MaxFaults /\ faults' = faults + 1
          /\ failing' = TRUE
          /\ UNCHANGED <<phase, batch, request>>
    /\ UNCHANGED <<stored, body, received, stopped>>

shutdown(s) ==
    /\ phase = "idle" /\ ~stopped[s]
    /\ stopped' = [stopped EXCEPT ![s] = TRUE]
    /\ UNCHANGED <<phase, batch, request, stored, body, received, failing, batches, faults>>

\* A Process exports what it likes, in either format.
Send(q) ==
    /\ phase = "idle" /\ batches < MaxBatches
    /\ batches' = batches + 1
    /\ phase' = "sent" /\ batch' = <<>> /\ request' = q
    /\ UNCHANGED <<stored, body, received, stopped, failing, faults>>

-----------------------------------------------------------------------------
(* What kitbashd stores of it. *)

\* A later value of a key replaces an earlier one; no key and no value, no attribute.
AsMap(F(_), kvs) ==
    LET said == SelectSeq(Map(LAMBDA kv : [key |-> kv.key, val |-> F(kv.val)], kvs),
                          LAMBDA kv : kv.key # "" /\ kv.val # Nil)
        Said(k) == said[CHOOSE i \in DOMAIN said :
                          said[i].key = k /\ \A j \in i + 1 .. Len(said) : said[j].key # k].val
    IN  [k \in {said[i].key : i \in DOMAIN said} |-> Said(k)]

\* NaN has no spelling in JSON; bytes become their base64; a list keeps its nils.
RECURSIVE value(_)
value(v) ==
    CASE v.kind \in {"string", "bool", "int"} \/ (v.kind = "double" /\ v.of # "NaN") -> v
      [] v.kind = "bytes" -> Plain("string", "base64 of " \o v.of, <<>>)
      [] v.kind = "array" -> Plain("array", "", Map(value, v.items))
      [] v.kind = "kvlist" -> Plain("kvlist", "", AsMap(value, v.items))
      [] OTHER -> Nil

keyValues(kvs) == AsMap(value, kvs)

\* The record wins over its resource; a kitbash attribute that is no text stays
\* among the others, and a flag that is no flag is dropped.
attributes(resource, own) ==
    LET merged == keyValues(own) @@ resource
        texts == {k \in DOMAIN merged \cap Lifted : merged[k].kind = "string"}
        flags == {k \in DOMAIN merged \cap Flags : merged[k].kind = "bool"}
        rest == DOMAIN merged \ (texts \cup Flags)
    IN  [lifted |-> [k \in {t \in texts : merged[t].of # ""} |-> merged[k].of],
         flags |-> [k \in flags |-> merged[k].of],
         other |-> [k \in rest |-> merged[k]]]

\* JSON carries an identifier as text, hex or base64.  Hex of the right length is
\* rewritten to base64, which is what the reader of the message takes it for.
rewrite(id, wide) ==
    IF id.form = "hex" /\ id.len \notin {0, wide}
    THEN [form |-> "raw", len |-> (6 * id.len) \div 4, of |-> "garbled"]
    ELSE [id EXCEPT !.form = "raw"]

unmarshal(format, ids) ==
    IF format = "protobuf" THEN ids ELSE [f \in DOMAIN ids |-> rewrite(ids[f], Wide[f])]

Optional(sig) == IF sig = "span" THEN {"parent"} ELSE DOMAIN Wide
identified(sig, ids) ==
    sig = "point" \/ \A f \in DOMAIN ids :
        ids[f].len = Wide[f] \/ (ids[f].len = 0 /\ f \in Optional(sig))

\* A body that is no text is its JSON.
text(v) == IF v.kind = "string" THEN v.of
           ELSE IF value(v) = Nil THEN "" ELSE "JSON of " \o ToString(value(v))

statusCode(n) == IF n \in {1, 2} THEN n ELSE 0

\* A histogram is its sum when it has one and its count otherwise.
number(p) == IF p.kind \in {"gauge", "sum", "summary"} THEN p.sum
             ELSE IF p.sum # "none" THEN p.sum ELSE p.count
Finite(w) == w.sig # "point" \/ number(w.point) \notin {"NaN", "Inf"}

span(ids, resource, w) ==
    [sig |-> "span", ids |-> ids, time |-> w.time, text |-> w.text, status |-> statusCode(w.number),
     body |-> "", value |-> "none", attrs |-> attributes(resource, w.attrs)]
\* The observed time stands in for one that is not set, the severity's number for its text.
logRecord(ids, resource, w) ==
    [sig |-> "log", ids |-> ids, time |-> IF w.time = 0 THEN w.observed ELSE w.time,
     text |-> IF w.text = "" /\ w.number # 0 THEN "SEVERITY_NUMBER_" \o ToString(w.number) ELSE w.text,
     status |-> 0, body |-> text(w.body), value |-> "none", attrs |-> attributes(resource, w.attrs)]
point(resource, w) ==
    [sig |-> "point", ids |-> <<>>, time |-> w.time, text |-> w.text, status |-> 0,
     body |-> "", value |-> number(w.point), attrs |-> attributes(resource, w.attrs)]
record(format, resource, w) ==
    CASE w.sig = "span"  -> span(unmarshal(format, w.ids), resource, w)
      [] w.sig = "log"   -> logRecord(unmarshal(format, w.ids), resource, w)
      [] w.sig = "point" -> point(resource, w)

Decoded(q) ==
    LET Group(g) == Map(LAMBDA w : record(q.format, keyValues(g.resource), w),
                        SelectSeq(g.records, Finite))
    IN  FlattenSeq(Map(Group, q.groups))

Refused(q) == \E r \in Range(Decoded(q)) : ~identified(r.sig, r.ids)

\* Whole or not at all.
Decode ==
    /\ phase = "sent"
    /\ IF Refused(request) THEN phase' = "idle" /\ stored' = <<>>
                           ELSE phase' = "stored" /\ stored' = Decoded(request)
    /\ UNCHANGED <<batch, request, body, received, stopped, failing, batches, faults>>

-----------------------------------------------------------------------------
(* What a subscriber gets. *)

\* A value that is none is left out, in a list as well.
RECURSIVE anyValue(_)
anyValue(v) ==
    CASE v.kind = "array" -> Plain("array", "", Map(anyValue, SelectSeq(v.items, LAMBDA i : i # Nil)))
      [] v.kind = "kvlist" ->
             Plain("kvlist", "", Map(LAMBDA k : [key |-> k, val |-> anyValue(v.items[k])],
                                     SetToSeq(DOMAIN v.items)))
      [] OTHER -> v

\* A mutant: a flag that is down is left out.
KeyValuesUpOnly(a) ==
    Map(LAMBDA k : [key |-> k, val |-> Plain("string", a.lifted[k], <<>>)],
        SetToSeq(DOMAIN a.lifted \ {"unit", "caller"}))
    \o Map(LAMBDA k : [key |-> k, val |-> Plain("bool", a.flags[k], <<>>)],
           SetToSeq({k \in DOMAIN a.flags : a.flags[k] = "true"}))
    \o Map(LAMBDA k : [key |-> k, val |-> anyValue(a.other[k])], SetToSeq(DOMAIN a.other))

\* Six of the eight texts, the flags and the rest.
KeyValues(a) ==
    Map(LAMBDA k : [key |-> k, val |-> Plain("string", a.lifted[k], <<>>)],
        SetToSeq(DOMAIN a.lifted \ {"unit", "caller"}))
    \o Map(LAMBDA k : [key |-> k, val |-> Plain("bool", a.flags[k], <<>>)],
           SetToSeq(DOMAIN a.flags))
    \o Map(LAMBDA k : [key |-> k, val |-> anyValue(a.other[k])], SetToSeq(DOMAIN a.other))

toHex(ids) == [f \in DOMAIN ids |-> [ids[f] EXCEPT !.form = "hex"]]

\* A body is text, a point a gauge.
encode(r) ==
    [sig |-> r.sig, ids |-> toHex(r.ids), time |-> r.time,
     observed |-> IF r.sig = "log" THEN r.time ELSE 0, text |-> r.text, number |-> r.status,
     body |-> Plain("string", r.body, <<>>), attrs |-> KeyValues(r.attrs),
     point |-> [kind |-> "gauge", sum |-> r.value, count |-> "none"]]

Encode ==
    /\ phase = "stored"
    /\ phase' = "encoded"
    /\ body' = Map(encode, stored)
    /\ UNCHANGED <<batch, request, stored, received, stopped, failing, batches, faults>>

\* A subscriber reads OTLP the way kitbashd does.
Receive ==
    /\ phase = "encoded"
    /\ phase' = "read"
    /\ received' = Decoded([groups |-> <<[resource |-> <<>>, records |-> body]>>, format |-> "json"])
    /\ UNCHANGED <<batch, request, stored, body, stopped, failing, batches, faults>>

Finish ==
    /\ phase = "read"
    /\ phase' = "idle"
    /\ batch' = <<>> /\ request' = Nothing /\ stored' = <<>> /\ body' = <<>> /\ received' = <<>>
    /\ UNCHANGED <<stopped, failing, batches, faults>>

Next ==
    \/ \E b \in Batches : post(b)
    \/ \E s \in Signals : shutdown(s)
    \/ \E q \in Requests : Send(q)
    \/ Decode \/ Encode \/ Receive \/ Finish

Spec == Init /\ [][Next]_vars

-----------------------------------------------------------------------------
\* What is lost by design: the unit and the caller, and the nils of a list.
RECURSIVE WithoutNils(_)
WithoutNils(v) ==
    CASE v.kind = "array" -> [v EXCEPT !.items = Map(WithoutNils, SelectSeq(@, LAMBDA i : i # Nil))]
      [] v.kind = "kvlist" -> [v EXCEPT !.items = [k \in DOMAIN @ |-> WithoutNils(@[k])]]
      [] OTHER -> v

Sent(a) == [a EXCEPT !.lifted = [k \in DOMAIN @ \ {"unit", "caller"} |-> @[k]],
                     !.other = [k \in DOMAIN @ |-> WithoutNils(@[k])]]

\* What a subscriber reads is what was stored, whatever came in: every record, its
\* identifiers, its flags and its other values, but for the unit, the caller and the
\* nils of a list (internal/otlp/encode.go against attributes.go).
DeliveredAsStored ==
    phase = "read" => received = [i \in DOMAIN stored |-> [stored[i] EXCEPT !.attrs = Sent(@)]]

\* Every span and log record a session recorded is stored once and under its own
\* resource, however the batch was grouped (telemetry/transform.go resourceSpans).
FiledUnderItsOwn ==
    phase = "stored" /\ batch # <<>> =>
        LET Own(r) == record("protobuf", keyValues(keyValuesOf(r.resource)), proto(r))
            HowOften(x, s) == Cardinality({i \in DOMAIN s : s[i] = x})
            wanted == Map(Own, batch)
        IN  \A x \in Range(wanted) \cup Range(stored) : HowOften(x, stored) = HowOften(x, wanted)

\* encode.go:26-28 promises a subscriber "the same values a query would return", the
\* stamped attributes among them.
StampsReachTheSubscriber ==
    phase = "read" => \A i \in DOMAIN stored : received[i].attrs.lifted = stored[i].attrs.lifted
=============================================================================
