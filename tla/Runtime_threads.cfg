CONSTANTS
    Session = {s1, s2}
    Text = {hello}
    Thread = {h1, h2}
    MaxTurns = 2
    MaxSwitches = 1
SPECIFICATION Spec
INVARIANTS TypeOK FreshRecall AcknowledgedIsReturned WakeupKept Gated
CHECK_DEADLOCK FALSE
