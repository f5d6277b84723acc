\* Two prompts, the second with two texts; one restart of cmux, one lost
\* connection.
SPECIFICATION FairTurnSpec
CONSTANTS
    MaxTurns = 2
    MaxBoots = 2
    MaxDrops = 1
    MaxLag = 1
    Verbose = {2}
INVARIANTS TailIsOneEpoch ResultIsTheTurns
PROPERTIES FenceWakes
CHECK_DEADLOCK FALSE
