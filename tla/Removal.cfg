\* One admin, one member who is removed and created again, one users call at a time, two stops of
\* the daemon.
CONSTANTS
    Names      = {a, b}
    Admins     = {a}
    Requests   = {r1}
    Asks       = {"registrations", "approvals"}
    Prompt     = TRUE
    MaxCrashes = 2
    NoName     = NoName
SPECIFICATION Spec
INVARIANTS HomesAreKept
PROPERTIES NamesAreTakenOver CutRemovalEnds
