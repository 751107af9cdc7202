CONSTANTS
    NoCall = NoCall
    Text = {a, b, c}
    MaxTurns = 4
    MaxSwitches = 2
    MaxRestarts = 2
SPECIFICATION Spec
INVARIANTS TypeOK CapturedInOrder OnlyLostMarked SourcesAgree RevisionGuarded
CHECK_DEADLOCK FALSE
