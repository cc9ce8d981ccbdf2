SPECIFICATION Spec
CONSTANTS
    Issuers = {i1, i2}  MaxConnects = 4
    sa = sa  sb = sb  ca = ca  cb = cb
    Passes = {i1, i2}  Sites = {sa, sb}  Certs = {ca, cb}  Uses <- MCUses
    MaxPasses = 2  MaxAges = 1  MaxChanges = 3
    Orders = {o1, o2}  Names = {n1, n2}  MaxOrders = 2
INVARIANTS AccountAccepted RecordsUp
PROPERTIES NamesKept
CHECK_DEADLOCK FALSE
