CONSTANTS
    Orders = {o1, o2}
    CardOrders = {o1}
    Requests = {r1}
    NoOrder = NoOrder
    Tries = 3
    RepeatAnswers = {"again", "error"}
    MaxApiErrors = 0
    MaxCrashes = 0
    MaxDbErrors = 0
SPECIFICATION FairSpec
CONSTRAINT OneOrder
PROPERTY ChargedIsServed
PROPERTY RequestsEnd
CHECK_DEADLOCK FALSE
