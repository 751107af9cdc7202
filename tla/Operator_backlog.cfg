CONSTANTS
    home = home
    work = work
    room = room
    nova = nova
    other = other
    k1 = k1
    k2 = k2
    kWork = kWork
    kWide = kWide
    Terminal = {t1}
    Session = {s1}
    Op = {o1}
    Project = {home, work}
    Space = {room}
    NoName = NoName
    Agent = {nova, other}
    NoAgent = NoAgent
    Canonical = {nova, other}
    Profile = nova
    Key = {k1, k2, kWork, kWide}
    NoKey = NoKey
    Credential <- MCCredential
    EnvKey = k1
    Revocable = {k1}
    MaxSetups = 2
    MaxDeaths = 1
SPECIFICATION FairSpec
INVARIANTS OperatorIInv LeastPrivilege SetupEffective ProbeAccounted
PROPERTIES BacklogDrains
