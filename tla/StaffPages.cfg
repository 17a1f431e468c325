CONSTANTS
    Orders = {o1, o2}
    AtOpening = {"PendingPayment", "Accepted"}
    FullEvery = 2
    MaxEvents = 2
    MaxFails = 1
    Charts = {"sales", "top"}
    SalesChart = "sales"
    Periods = {"month", "week"}
    FirstPeriod = "month"
    Nothing = Nothing
    MaxRequests = 3
    MaxEntries = 2
    MaxRetries = 1
    MaxPresses = 2
    MaxVisits = 2
    MaxOutages = 1
SPECIFICATION StaffSpec
INVARIANT BoardTypeOK
INVARIANT ChartMatchesChoice
INVARIANT OneRequestPerAddress
PROPERTY PollLosesNothing
PROPERTY Converges
PROPERTY LoadingEnds
CHECK_DEADLOCK FALSE
