\* One prompt, no restart of cmux, one lost connection.
SPECIFICATION Spec
CONSTANTS
    MaxTurns = 1
    MaxBoots = 1
    MaxDrops = 1
    MaxLag = 1
    Verbose = {1}
INVARIANTS RecoveredIsWhole
CHECK_DEADLOCK FALSE
