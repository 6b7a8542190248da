SPECIFICATION ClockSpec
CONSTANTS
    HWTIMER_NUM = 3
    MaxTicks = 3
    MaxElapsed = 4
    MaxRestarts = 4
    MaxRaces = 1
INVARIANTS NeverEarly
PROPERTIES NoneForgotten
CHECK_DEADLOCK FALSE
