CONSTANTS
    Requests = {r1}
    NoRequest = NoRequest
    Keys = {k1, k2}
    NoKey = NoKey
    Items = {i1, i2}
    Orders = {o1, o2}
    NoOrder = NoOrder
    EditsMeanwhile = FALSE
    MaxCarts = 2
    LastDay = 1
    MaxErrors = 0
    MaxCrashes = 0
SPECIFICATION Spec
SYMMETRY Symmetry
INVARIANT OrderedOnce
