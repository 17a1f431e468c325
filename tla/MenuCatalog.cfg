CONSTANTS
    Staff = {s1, s2}
    Readers = {c1}
    Options = {a, b}
    Rules <- SmallRules
    Shut = Shut
    MaxSteps = 2
SPECIFICATION MenuSpec
SYMMETRY MenuSymmetry
CONSTRAINT FormsCount
PROPERTY RefusedForAReason
INVARIANT CacheIsCurrent
INVARIANT ToldIsTrue
CHECK_DEADLOCK FALSE
