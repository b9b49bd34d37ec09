\* No call of the runtime fails; the daemon is killed between two steps of a boot.
CONSTANTS
    MaxBoots  = 3
    MaxFaults = 0
CHECK_DEADLOCK FALSE
SPECIFICATION Spec
PROPERTY NoBootUnregistersIt
