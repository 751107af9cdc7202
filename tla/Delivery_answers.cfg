CONSTANTS
    turn = turn
    correction = correction
    replacement = replacement
    NoOp = NoOp
    NoToken = NoToken
    Op = {turn, correction, replacement}
    Raw = {turn}
    Target <- MCTarget
    Named <- MCNamed
    Trouble = {"lost", "unavailable", "foreign_body", "garbled", "denied", "invalid", "lock_held", "interrupted", "receipt_pending"}
    MaxRevision = 2
    Worker = {w1}
    Closer = {}
    Token = {t1, t2}
    DependsOn <- MCDependsOn
    ReplacementOf <- MCReplacementOf
    Unblocker = {cmd}
    MaxAbandons = 1
SPECIFICATION FairDeliverySpec
INVARIANTS DeliveryIInv
PROPERTIES Converges
