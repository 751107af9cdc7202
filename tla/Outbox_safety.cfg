CONSTANTS
    turn = turn
    correction = correction
    replacement = replacement
    NoOp = NoOp
    NoToken = NoToken
    Op = {turn, correction, replacement}
    Worker = {w1, w2}
    Closer = {w2}
    Token = {t1, t2, t3}
    DependsOn <- MCDependsOn
    ReplacementOf <- MCReplacementOf
    Unblocker = {cmd}
    MaxAbandons = 2
SPECIFICATION Spec
SYMMETRY Symmetry
INVARIANTS IInv ExclusiveAttempt DependencyRespected ClaimsAccounted
PROPERTIES FencedWrite NoHotRetry ParkedStays KeepsPromise
