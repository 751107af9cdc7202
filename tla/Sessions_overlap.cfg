CONSTANTS
    NoCall = NoCall
    Text = {a, b}
    MaxTurns = 2
    MaxSwitches = 1
    MaxRestarts = 0
SPECIFICATION Spec
INVARIANTS SourcesCurrent
CHECK_DEADLOCK FALSE
