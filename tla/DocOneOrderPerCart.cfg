CONSTANTS
    Requests = {r1, r2}
    NoRequest = NoRequest
    Keys = {k1, k2}
    NoKey = NoKey
    Items = {i1}
    Orders = {o1, o2}
    NoOrder = NoOrder
    EditsMeanwhile = FALSE
    MaxCarts = 1
    LastDay = 0
    MaxErrors = 0
    MaxCrashes = 0
SPECIFICATION Spec
SYMMETRY Symmetry
INVARIANT OrderedOnce
