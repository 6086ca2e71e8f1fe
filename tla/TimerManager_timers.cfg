\* A recurring and a one-shot timer, one user, two waiters, a clock that may be set back.
CONSTANTS
    u1 = u1  u2 = u2  a = a  b = b
    Timers = {1, 2}
    Recurring = {2}
    Users = {u1}
    Waiters = {a, b}
    Periods = {1, 2}
    MaxSleep = 2
    Hour = 1
    MaxTime = 3
    JumpBack = TRUE
SPECIFICATION Spec
SYMMETRY Symmetry
INVARIANTS CancelFindsTimer 
PROPERTIES NeverEarly EndedStaysEnded
CHECK_DEADLOCK FALSE
