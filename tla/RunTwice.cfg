\* No call fails and no session dies: the ids are of the first run, of the second, and of the third.
CONSTANTS
    Sessions  = {"s"}
    Ids       = {"i", "j", "k"}
    Units     <- TwoImages
    MaxFaults = 0
CHECK_DEADLOCK FALSE
SPECIFICATION Spec
INVARIANT OneJobPerName
