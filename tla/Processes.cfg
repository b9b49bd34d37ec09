\* One Process, one request at a time, one run, one probe, one stop
\* of the daemon.
CONSTANTS
    Ids        = {p1}
    Sessions   = {s1}
    Ticks      = {t1}
    Probers    = {h1}
    MaxTokens  = 3
    MaxCrashes = 1
    NoId       = NoId
    Nobody     = Nobody
SPECIFICATION Spec
INVARIANTS TablesFollowTheRows
PROPERTIES LateRunsStayTheirOwn NobodyIsHeldUp
