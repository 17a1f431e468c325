CONSTANTS
    Orders = {o1}
    CardOrders = {}
    Requests = {r1, r2}
    NoOrder = NoOrder
    Tries = 3
    RepeatAnswers = {"again", "error"}
    MaxApiErrors = 1
    MaxCrashes = 0
    MaxDbErrors = 1
SPECIFICATION Spec
SYMMETRY SlotSymmetry
INVARIANT AgreeInv
INVARIANT NoEarlyCapture
PROPERTY KeepsPromise
CHECK_DEADLOCK FALSE
