---------------------------- MODULE HwTimerClock ----------------------------
(***************************************************************************)
(* How exact the timers of HwTimerList are.  History variables remember    *)
(* when each timer is due, and count the two things that make it drift:    *)
(* setting the hardware timer again (hal_timer_reload rounds) and calls    *)
(* that come when the counter has run out and the interrupt has not been   *)
(* served (the code measures from the head's expiry, not from now).        *)
(***************************************************************************)
EXTENDS HwTimerList

CONSTANTS
    MaxRestarts,   \* bound: how often the hardware timer is set
    MaxRaces       \* bound: calls that find the counter at zero

VARIABLES
    due,           \* ticks left until the moment the caller asked for
    restarts,
    races

clockVars == <<vars, due, restarts, races>>

Expired == enabled /\ value = 0

ClockInit == Init /\ due = [t \in Timers |-> 0] /\ restarts = 0 /\ races = 0

\* The hardware timer is set exactly when another timer becomes the head
NewHead ==
    active' # <<>> /\ (active # <<>> => Head(active) # Head(active'))

(* A step of HwTimerList: active timers get one tick closer when the clock *)
(* ticks, t is due in n ticks when it is started, and an idle one never.   *)
Record(t, n) ==
    /\ due' = [u \in Timers |->
                 IF state'[u] \in {"ACTIVE", "FIRED", "CALLBACK"}
                 THEN IF u = t THEN n
                      ELSE IF elapsed' = elapsed + 1 THEN due[u] - 1 ELSE due[u]
                 ELSE 0]
    /\ restarts' = restarts + (IF NewHead THEN 1 ELSE 0)
    /\ restarts' <= MaxRestarts
    /\ races' <= MaxRaces

ClockTick == Tick /\ races' = races /\ Record(None, 0)
ClockHandler == Handler /\ races' = races /\ Record(None, 0)

Raced == races' = races + (IF Expired THEN 1 ELSE 0)

ClockStart ==
    \E t \in Timers, n \in 1 .. MaxTicks :
        hwtimer_start(t, n) /\ Raced /\ Record(t, n)

ClockStop == \E t \in Timers : hwtimer_stop(t) /\ Raced /\ Record(None, 0)

ClockOther ==
    /\ hwtimer_alloc \/ \E t \in Timers : AllocInit(t) \/ hwtimer_free(t)
    /\ races' = races
    /\ Record(None, 0)

ClockNext ==
    ~halted /\ (ClockTick \/ ClockHandler \/ ClockStart \/ ClockStop \/ ClockOther)

ClockSpec == ClockInit /\ [][ClockNext]_clockVars

-----------------------------------------------------------------------------
Served(t) == state[t] \in {"FIRED", "CALLBACK"}

(* A timer is served no earlier than the caller asked for, by more than    *)
(* one tick for each time the hardware timer was set, as long as no call   *)
(* found the counter run out: hal_timer_reload programs one tick less, and *)
(* the deltas of the list are exact.                                       *)
NeverEarly == races = 0 => \A t \in Timers : Served(t) => due[t] <= restarts

(* An interrupt leaves no timer in the list that was due by more than the  *)
(* margin of the counter: whatever was started, stopped or inserted in     *)
(* between, the deltas add up to the time each caller asked for.           *)
Late == HAL_TIMER_LOAD_DELTA + races
NoneForgotten ==
    [][HandlerExpire => \A t \in Timers : state'[t] = "ACTIVE" => due'[t] + Late > 0]_clockVars

=============================================================================
