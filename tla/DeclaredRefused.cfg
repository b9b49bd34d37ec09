\* Two runs, with the manifest changed between them, of Packages with one unit.
CONSTANTS
    Manifests <- OfOneUnit
    Proxied   = TRUE
    MaxUnits  = 1
    MaxRuns   = 2
    MaxMoves  = 2
CHECK_DEADLOCK FALSE
SPECIFICATION Spec
INVARIANT RefusedLeavesWhatRan
