SPECIFICATION Spec
CONSTANTS
    Requests = {r1, r2}
    t1 = t1  t2 = t2  t3 = t3  panel = panel  guardian = guardian
    Procs = {panel, guardian}  Threads = {t1, t2, t3}  ProcOf <- MCProcOf
    Editors = {t1}  Hooks = {h1}  LogLimit = 1  TailLines = 1
    MaxEvents = 7  MaxEdits = 1  MaxKills = 1
    Jobs = {j1, j2}  IPs = {x, lan}  Private = {lan}  MaxJobs = 2  MaxAged = 2
    Pages = {p1, p2}  Addrs = {x, y, lan}  Local = {lan}
    MaxLive = 1  MaxPages = 3  MaxDays = 1
    Setups = {u1, u2}  Hosts = {h}  MaxSetups = 3  MaxSaves = 2
    Askers = {q1}  Setters = {w1}  Slugs = {"A"}  Boxes = {"box"}
    Category = {2, 3, 4}  PortNumbers = {2, 3, 5}
    MaxProbes = 2  MaxAsks = 1  MaxTargets = 2  MaxSets = 2
INVARIANTS AuditBounded RefusedOncePerThread LookupsBounded OverlapsCutOff
           JailsApplied NextFree
PROPERTIES BansAreFounded PanelFreed
CHECK_DEADLOCK FALSE
