CONSTANTS
    NoCall = NoCall
    Text = {a, b, c}
    MaxTurns = 3
    MaxSwitches = 2
    MaxRestarts = 1
SPECIFICATION Spec
PROPERTIES SyncCaptures
CHECK_DEADLOCK FALSE
