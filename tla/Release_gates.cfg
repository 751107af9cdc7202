CONSTANTS
    Scenario = {1, 2}
    Stranger = {0}
    Gate = {isolation, integrity}
    isolation = isolation
    integrity = integrity
    Check <- MCCheck
    GatesOf <- MCGatesOf
    Required <- MCRequired
    GateRequired <- MCGateRequired
    Mutating = {1}
    Endpoint = {tasks, delete}
    Pinned = pinned
    Version = {pinned, newer}
    NoName = NoName
    MaxChanges = 2
SPECIFICATION Spec
INVARIANTS ReleaseIInv PassedIsProven
CHECK_DEADLOCK FALSE
