SPECIFICATION JobsSpec
CONSTANTS
    sa = sa
    sb = sb
    ca = ca
    Passes = {p1}
    Sites = {sa, sb}
    Certs = {ca}
    Uses <- MCUses
    MaxPasses = 2
    MaxAges = 1
    MaxChanges = 3
PROPERTY MovedKeepsName
CHECK_DEADLOCK FALSE
