CONSTANTS
    Orders = {o1}
    CardOrders = {o1}
    Requests = {r1, r2}
    NoOrder = NoOrder
    Tries = 3
    RepeatAnswers = {"error"}
    MaxApiErrors = 0
    MaxCrashes = 0
    MaxDbErrors = 0
SPECIFICATION Spec
SYMMETRY SlotSymmetry
CONSTRAINT NoStrayCallback
INVARIANT ChargeKept
CHECK_DEADLOCK FALSE
