CONSTANTS
    turn = turn
    correction = correction
    replacement = replacement
    NoOp = NoOp
    NoToken = NoToken
    Op = {turn, correction, replacement}
    Raw = {turn}
    Target <- MCTarget
    Named <- MCNamed
    Trouble = {"lost", "interrupted"}
    MaxRevision = 3
    Worker = {w1, w2}
    Closer = {w2}
    Token = {t1, t2}
    DependsOn <- MCDependsOn
    ReplacementOf <- MCReplacementOf
    Unblocker = {}
    MaxAbandons = 0
SPECIFICATION DeliverySpec
SYMMETRY Symmetry
INVARIANTS EffectOnce DeliveredIsReal HydrationReady KeyKeepsRequest
