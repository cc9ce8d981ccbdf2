SPECIFICATION Spec
CONSTANTS
    MaxLen = 3
    Texts <- MCHeaded
    Words = {"", "a", "c", "d", "e", "x", "z"}
    Names = {"a"}
    Domains = {"d"}
    Labels = {"", "z"}
    Certs = {"", "c"}
    MaxBlocks = 2
INVARIANTS
    Stable
PROPERTIES
    OthersKept
CHECK_DEADLOCK FALSE
