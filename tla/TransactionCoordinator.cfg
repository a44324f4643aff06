SPECIFICATION Spec
CONSTANTS
    x1 = x1
    x2 = x2
    v = v
    r1 = r1
    r2 = r2
    p = p
    e0 = e0
    e1 = e1
    e2 = e2
    used = used
    total = total
    old = old
    new = new
    Absent = Absent
    Txns = {x1, x2}
    Vouchers = {v}
    Rows = {r1, r2}
    Profiles = {p}
    Entries = {e0, e1, e2}
    Fields = {used, total}
    Stamps = {old, new}
    Ops <- MCOps
    Initial <- MCInitial
    MaxFaults = 2
PROPERTIES
    AllIfCommitted
    NothingIfFailed
CHECK_DEADLOCK FALSE
