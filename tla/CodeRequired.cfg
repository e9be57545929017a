SPECIFICATION Spec
CONSTANTS
    Pins = {p1, p2}
    Retry = 1
    MaxKeys = 2
    MaxPoll = 0
    NoKey = NoKey
    Sessions = {s1, s2}
    Configs <- MCConfigs
SYMMETRY Symmetry
INVARIANT CodeRequired
