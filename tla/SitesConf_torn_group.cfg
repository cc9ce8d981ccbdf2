SPECIFICATION Spec
CONSTANTS
    na = na
    nb = nb
    dx = dx
    dy = dy
    p1 = p1
    p2 = p2
    Names = {na, nb}
    Unreadable = Unreadable
    Domains = {dx, dy}
    Extends <- MCNoExtends
    Procs = {p1, p2}
    Ops <- MCMoveOrGroup
    Targets <- MCOwnSites
    Contents <- MCOneGroup
    Submissions <- MCNoSubmissions
    Faults = FALSE
    MaxOps = 3
    MaxBlocks = 2
    MaxLines = 2
INVARIANTS
    NoSiteLost
CHECK_DEADLOCK FALSE
