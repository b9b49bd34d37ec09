CONSTANTS
    Processes   = {p1}
    Sessions    = {s1}
    Calls       = {c1}
    MaxSessions = 1
    NoProcess   = NoProcess
    NoSession   = NoSession
CHECK_DEADLOCK FALSE
SPECIFICATION Spec
INVARIANT NoChildLeftBehind
