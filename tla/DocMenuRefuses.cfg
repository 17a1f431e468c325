CONSTANTS
    Staff = {s1}
    Readers = {c1}
    Options = {a, b}
    Rules <- SmallRules
    Shut = Shut
    MaxSteps = 2
SPECIFICATION MenuSpec
SYMMETRY MenuSymmetry
PROPERTY FormIsServersCheck
CHECK_DEADLOCK FALSE
