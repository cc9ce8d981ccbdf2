SPECIFICATION Spec
CONSTANTS
    MaxLen = 2
    Texts <- MCTexts
    Words = {"", "a", "c", "d", "e", "x", "z"}
    Names = {"a"}
    Domains = {"d"}
    Labels = {"", "z"}
    Certs = {"", "c"}
    MaxBlocks = 2
INVARIANTS
    HeaderSticks
CHECK_DEADLOCK FALSE
