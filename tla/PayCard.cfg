CONSTANTS
    Orders = {o1}
    CardOrders = {o1}
    Requests = {r1, r2}
    NoOrder = NoOrder
    Tries = 2
    RepeatAnswers = {"again", "error"}
    MaxApiErrors = 1
    MaxCrashes = 1
    MaxDbErrors = 1
SPECIFICATION Spec
SYMMETRY SlotSymmetry
INVARIANT TypeOK
INVARIANT RecordsAgree
INVARIANT NothingUnpaid
INVARIANT AnnouncedOnce
INVARIANT ProcessedIsDone
INVARIANT RefundedIsRefunded
PROPERTY RepeatIsHarmless
PROPERTY KeepsPromise
CHECK_DEADLOCK FALSE
