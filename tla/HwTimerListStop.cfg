SPECIFICATION LiveSpec
CONSTANTS
    HWTIMER_NUM = 3
    MaxTicks = 3
    MaxElapsed = 4
PROPERTIES ActiveStopSucceeds
CHECK_DEADLOCK FALSE
