\* The cap is one, so the second opening meets it. One later call and the opening request are the
\* fewest with one in flight when the other is answered.
CONSTANTS
    Processes   = {p1}
    Sessions    = {s1, s2}
    Calls       = {c1}
    MaxSessions = 1
    NoProcess   = NoProcess
    NoSession   = NoSession
CHECK_DEADLOCK FALSE
SPECIFICATION Spec
INVARIANTS CapHolds ChildrenAreOwned
PROPERTIES SweepSparesWork QuietSessionsEnd
