CONSTANTS
    MaxAttempts = 2
    Cards = {c1, c2}
    NoCard = NoCard
    MaxStays = 2
    MaxLost = 1
    WatchSlots = {f1, f2}
    MaxHides = 2
    MaxMisses = 1
    VaultTabs = {t1, t2}
    MaxCards = 2
    MaxCustomers = 2
    MaxCardActs = 3
    MaxMishaps = 1
    Items = {i1, i2}
    AtFirst = {i1}
    Fetches = {g1}
    MaxQuantity = 3
    MaxActs = 5
    MaxFails = 1
SPECIFICATION CustomerSpec
INVARIANT LastChoiceWins
INVARIANT Agrees
INVARIANT ShownIsOrderedAtRest
INVARIANT PageTellsTruth
INVARIANT OnePaymentPerPage
INVARIANT StoredIsAtGateway
INVARIANT ShownAsStored
PROPERTY ChangesAreSent
PROPERTY PaymentsEnd
PROPERTY BadgeNeverGoesBack
PROPERTY EndIsShown
PROPERTY ReadyRings
CHECK_DEADLOCK FALSE
