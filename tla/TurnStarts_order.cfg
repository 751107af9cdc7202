CONSTANTS
    Session = {s1, s2}
    Text = {hello, thanks}
    MaxTurns = 4
    MaxSwitches = 2
SPECIFICATION Spec
INVARIANTS TypeOK NumbersIncrease
CHECK_DEADLOCK FALSE
