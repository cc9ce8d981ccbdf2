SPECIFICATION SignInSpec
CONSTANTS
    a1 = a1
    a2 = a2
    t1 = t1
    t2 = t2
    t3 = t3
    Addresses = {a1, a2}
    Attempts = {t1, t2, t3}
    MaxFails = 2
    Window = 3
    ann = ann
    bob = bob
    tab1 = tab1
    tab2 = tab2
    Browsers = {ann, bob}
    Tabs = {tab1, tab2}
    BrowserOf <- MCBrowserOf
    MaxSessions = 2
    MaxFlows = 1
    MaxRestarts = 1
INVARIANTS
    TypeOK
    OverrunBounded
    OwnIdentity
PROPERTIES
    LockoutEnds
    EndedStaysEnded
    LiveSessionKept
CHECK_DEADLOCK FALSE
