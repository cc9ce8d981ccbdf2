SPECIFICATION Spec
CONSTANTS
    c1 = c1
    c2 = c2
    daemon = daemon
    issuer = issuer
    other = other
    Sites = {1, 2}
    Certs = {c1}
    CertOf <- MCShared
    Registered = {c1}
    Procs = {issuer, other}
    Commands <- MCMixed
    MaxVersion = 2
    Faults = TRUE
INVARIANTS
    TypeOK
    GeneratedHaveCert
CHECK_DEADLOCK FALSE
