------------------------------ MODULE MCFanout ------------------------------
(***************************************************************************)
(* Four parts of kitbashd and kitbash-mcp in which what is said once is    *)
(* taken literally afterwards: the records of an export on their way to    *)
(* the queues of kits, those of a batch on the wire and out of the store,  *)
(* the globs of a declaration, and calls that name paths in a list.        *)
(*                                                                         *)
(* The fan out is that of the module this extends; the parts share no      *)
(* state, so a behaviour is one of a single part, chosen at the start, and *)
(* the others stand where they begin.                                      *)
(***************************************************************************)
EXTENDS Fanout

CONSTANTS k1, k2

VARIABLES part,
    pattern, name, atPattern, atName, star, mark, match,           \* Permits
    permits, owned, call, open, causes, told, over,                \* Session
    phase, batch, request, stored, body, received, stopped,        \* Codec
    failing, batches, sendFaults

globsVars == <<pattern, name, atPattern, atName, star, mark, match>>
listsVars == <<permits, owned, call, open, causes, told, over>>
codecVars == <<phase, batch, request, stored, body, received, stopped, failing, batches,
               sendFaults>>
allVars   == <<part, vars, globsVars, listsVars, codecVars>>

-----------------------------------------------------------------------------
\* One Process of a member that may move, become an admin's or leave, and one of an admin.
Reg(o, a, s) == [owner |-> o, admin |-> a, endpoint |-> 1, subscribes |-> s]

Own   == Reg("ann", FALSE, TRUE)
Grown == Reg("ann", TRUE, TRUE)
Judge == Reg("root", TRUE, TRUE)
Mute  == Reg("root", TRUE, FALSE)

MCRegisters == [k \in Kits |-> IF k = k1 THEN {Own, Grown} ELSE {Judge, Mute}]

\* Two subscribers at once, and two producers at once for one.
MCBooted == {[k \in Kits |-> IF k = k1 THEN Grown ELSE Judge],
             [k \in Kits |-> IF k = k1 THEN Own ELSE Mute]}

\* Every pattern of four letters against every name of three.
Globs == INSTANCE Permits WITH
    Letters <- {"a", "b"}, Bad <- "/", MaxGlob <- 4, MaxName <- 3, p <- atPattern, n <- atName,
    answer <- match

\* A session, one call that names paths in a list.
MCGrants == {[tools |-> {"fs_write", "approvals_approve"}, packages |-> TRUE, paths |-> {"own"}]}

Lists == INSTANCE Session WITH
    Calls <- {"c"}, Asked <- {"fs_write", "fs_read", "users_me"}, Published <- {},
    Families <- {"daemon"}, Areas <- {"own", "other"}, Shared <- {"other"}, Grants <- MCGrants,
    Queue <- 1

\* Records of every kind of attribute, resource and time, and three of one batch.
Plain(k, t, l) == [kind |-> k, of |-> t, items |-> l]
Str(t)      == Plain("string", t, <<>>)
KV(k, v)    == [key |-> k, val |-> v]
Raw(l, x)   == [form |-> "raw", len |-> l, of |-> x]
Hex(l, x)   == [form |-> "hex", len |-> l, of |-> x]
Traced(t, s) == [trace |-> t, span |-> s, parent |-> Raw(0, "")]
Record(sig, res, scope, attrs, time, n) ==
    [sig |-> sig, resource |-> res, scope |-> scope, ids |-> Traced(Raw(16, "t"), Raw(8, "s")),
     time |-> time, observed |-> 1, text |-> "", number |-> n, body |-> Str("b"), attrs |-> attrs,
     point |-> [kind |-> "gauge", sum |-> "none", count |-> "none"]]
Flat   == <<KV("user", Str("ann")), KV("eval", Str("true")),
            KV("k", Plain("slice", "", <<Str("x"), Plain("double", "NaN", <<>>), Plain("empty", "", <<>>)>>))>>
Lifted == <<KV("unit", Str("web")), KV("internal", Plain("bool", "false", <<>>)), KV("tool", Plain("int", "1", <<>>))>>
Nested == <<KV("m", Plain("map", "", <<KV("a", Str("x")), KV("", Str("y"))>>)), KV("k", Plain("bytes", "z", <<>>))>>
Named  == <<KV("tool", Str("fs_read")), KV("k", Str("r"))>>
MCBatches ==
    {<<Record(sig, r, s, a, t, n)>> : sig \in {"span", "log"}, r \in {<<>>, Named}, s \in {"x", "y"},
                                      a \in {Flat, Lifted}, t \in {-1, 2}, n \in {0, 2}}
    \cup [1..3 -> {Record("span", r, s, Nested, 1, 1) : r \in {<<>>, Named}, s \in {"x", "y"}}]
OnWire(sig, ids, kind, sum, said) ==
    [sig |-> sig, ids |-> ids, time |-> 0, observed |-> 3, text |-> "", number |-> 1, body |-> said,
     attrs |-> Lifted, point |-> [kind |-> kind, sum |-> sum, count |-> "4"]]
MCRequests ==
    {[format |-> "json", groups |-> <<[resource |-> Named, records |-> <<OnWire(s, i, k, u, b)>>]>>] :
        s \in {"span", "log", "point"},
        i \in {Traced(Hex(16, "t"), Hex(8, "s")), Traced([form |-> "base64", len |-> 16, of |-> "t"], Hex(4, "s"))},
        k \in {"gauge", "histogram"}, u \in {"2", "none", "NaN"},
        b \in {Plain("array", "", <<Str("x"), Plain("double", "NaN", <<>>), Plain("none", "", <<>>)>>), Str("b")}}

\* One batch of up to three records, of a session or off the wire.
Codec == INSTANCE Codec WITH
    Batches <- MCBatches, Requests <- MCRequests, MaxBatches <- 1, MaxFaults <- 1,
    faults <- sendFaults

-----------------------------------------------------------------------------
Parts == {"fanout", "globs", "lists", "codec"}

Begins ==
    /\ part \in Parts
    /\ Init /\ Globs!Init /\ Lists!Init /\ Codec!Init
    /\ part # "fanout" => row = CHOOSE b \in Booted : TRUE
    /\ part # "globs"  => pattern = <<"a">> /\ name = <<"a">>
    /\ part # "lists"  => permits = Lists!Member /\ owned = {}

Moves ==
    /\ UNCHANGED part
    /\ IF part = "fanout" THEN Next       ELSE UNCHANGED vars
    /\ IF part = "globs"  THEN Globs!Next ELSE UNCHANGED globsVars
    /\ IF part = "lists"  THEN Lists!Next ELSE UNCHANGED listsVars
    /\ IF part = "codec"  THEN Codec!Next ELSE UNCHANGED codecVars

Whole == Begins /\ [][Moves]_allVars /\ Fairness

-----------------------------------------------------------------------------
\* What is said is what is meant: a glob permits the names of its language (permits.go globMatch), a
\* call is held to every path of its list (permits.go), and a record is read as it was stored and
\* by its own origin (encode.go, transform.go).
SaidIsMeant ==
    /\ Globs!MatchIsTheLanguage
    /\ Lists!NothingOutsideThePrefixes
    /\ Codec!DeliveredAsStored /\ Codec!FiledUnderItsOwn
=============================================================================
