CONSTANTS
    Requests = {r1, r2}
    NoRequest = NoRequest
    Keys = {k1, k2}
    NoKey = NoKey
    Items = {i1, i2}
    Orders = {o1, o2}
    NoOrder = NoOrder
    EditsMeanwhile = TRUE
    MaxCarts = 2
    LastDay = 0
    MaxErrors = 1
    MaxCrashes = 1
SPECIFICATION Spec
SYMMETRY Symmetry
INVARIANT CInv
INVARIANT OneRunPerKey
INVARIANT OneOrderPerKey
INVARIANT RecordTellsTruth
INVARIANT RetryOrdersNothingPaid
