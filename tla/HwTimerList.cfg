SPECIFICATION LiveSpec
CONSTANTS
    HWTIMER_NUM = 3
    MaxTicks = 3
    MaxElapsed = 4
INVARIANTS TypeOK ListsAgree RunsIffActive CounterAgrees WakeUpComing
PROPERTIES StartedTimerFires
CHECK_DEADLOCK FALSE
