CONSTANTS
 UNK = "UNK"
 MaxSets = 4
 MaxTurns = 1
 MaxFaults = 1
 MaxCommands = 7
 MaxUpsets = 1
SPECIFICATION MCSpec
INVARIANT DriversTrue
CHECK_DEADLOCK FALSE
