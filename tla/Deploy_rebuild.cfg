SPECIFICATION FairSpec
CONSTANTS
    c1 = c1
    c2 = c2
    daemon = daemon
    issuer = issuer
    other = other
    Sites = {1, 2}
    Certs = {c1, c2}
    CertOf <- MCCertOf
    Registered = {}
    Procs = {daemon, other}
    Commands <- MCRebuild
    MaxVersion = 2
    Faults = FALSE
INVARIANTS
    RestServesDisk
    RestConfCurrent
PROPERTIES
    RenewalServed
CHECK_DEADLOCK FALSE
