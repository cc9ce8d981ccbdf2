SPECIFICATION Spec
CONSTANTS
    na = na
    nb = nb
    dx = dx
    dy = dy
    p1 = p1
    p2 = p2
    Names = {na}
    Unreadable = Unreadable
    Domains = {dx, dy}
    Extends <- MCExtends
    Procs = {p1}
    Ops <- MCAllOps
    Targets <- MCAllSites
    Contents <- MCTwoGroups
    Submissions <- MCSubmissions
    Faults = TRUE
    MaxOps = 3
    MaxBlocks = 2
    MaxLines = 1
INVARIANTS
    TypeOK
    Recoverable
PROPERTIES
    ImplementsRegistry
CHECK_DEADLOCK FALSE
