CONSTANTS
    turn = turn
    correction = correction
    replacement = replacement
    NoOp = NoOp
    NoToken = NoToken
    Op = {turn}
    Worker = {w1, w2}
    Closer = {}
    Token = {t1, t2, t3}
    DependsOn <- MCDependsOn
    ReplacementOf <- MCReplacementOf
    Unblocker = {cmd}
    MaxAbandons = 1
SPECIFICATION FairSpec
PROPERTIES FlushTerminates ReplayableAttempted
