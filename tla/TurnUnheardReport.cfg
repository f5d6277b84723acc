\* One prompt, no restart of cmux, one lost connection.
SPECIFICATION FairSpec
CONSTANTS
    MaxTurns = 1
    MaxBoots = 1
    MaxDrops = 1
    MaxLag = 1
    Verbose = {1}
PROPERTIES FenceAborts
CHECK_DEADLOCK FALSE
