CONSTANTS
    Provider = {p1}
    Operator = {cmd}
    NoOne = NoOne
    MaxInits = 3
    MaxTurns = 2
    MaxDeaths = 1
SPECIFICATION FairSpec
INVARIANTS TypeOK Openable ConfiguredServes NoTurnForgotten
PROPERTIES InitializeEnds
CHECK_DEADLOCK FALSE
