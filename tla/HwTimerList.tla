---------------------------- MODULE HwTimerList ----------------------------
(***************************************************************************)
(* The software timers multiplexed on one one-shot hardware timer:         *)
(* utils/hwtimer_list/hwtimer_list.c over platform/hal/hal_timer.c.        *)
(*                                                                         *)
(* An API call runs with interrupts masked (int_lock), so each is one      *)
(* action; the interrupt handler gives the lock up around every callback,  *)
(* and hwtimer_alloc finishes its work after the unlock, so those take     *)
(* several.  A call may come from a thread, from a callback or from an     *)
(* interrupt that preempts the handler.                                    *)
(*                                                                         *)
(* The lists linked through `next' are sequences of timer indexes.  The    *)
(* callback and its parameter are data no property depends on.             *)
(***************************************************************************)
EXTENDS Lists

CONSTANTS
    HWTIMER_NUM,   \* number of timers
    MaxTicks,      \* bound: the longest interval requested
    MaxElapsed     \* bound: how far the clock runs past hal_timer_start before
                   \* the interrupt is served

ASSUME HwTimerAssumption ==
    /\ HWTIMER_NUM \in Nat \ {0}
    /\ MaxTicks \in Nat \ {0}
    /\ MaxElapsed \in Nat \ {0}

Timers == 1 .. HWTIMER_NUM
None == 0

HWTIMER_STATE_T == {"FREE", "ALLOC", "ACTIVE", "FIRED", "CALLBACK"}
HAL_TIMER_LOAD_DELTA == 1

VARIABLES
    state,        \* hwtimer_list.timer[t].state
    time,         \* hwtimer_list.timer[t].time, the delta to the predecessor
    free,         \* hwtimer_list.free
    active,       \* hwtimer_list.active
    fired,        \* hwtimer_list.fired
    taken,        \* popped by hwtimer_alloc, not initialised yet
    isr,          \* where the interrupt handler is
    cur,          \* the timer whose callback the handler runs
    value,        \* hal_timer: the Value register
    enabled,      \* hal_timer: the EN bit of Control
    pending,      \* hal_timer: the interrupt is raised
    elapsed,      \* hal_timer: hal_sys_timer_get() - start_time
    halted        \* a store through NULL raised a hard fault

hal == <<value, enabled, pending, elapsed>>
lists == <<state, time, free, active, fired, taken>>
vars == <<lists, isr, cur, hal, halted>>

(* The sum of the deltas of the first i timers of list s.                  *)
Sum(s) ==
    LET sum[i \in 0 .. Len(s)] == IF i = 0 THEN 0 ELSE sum[i - 1] + time[s[i]]
    IN  sum

(***************************************************************************)
(* hal_timer                                                               *)
(***************************************************************************)
\* Faults a change of the code could bring in are stated next to what they
\* would change, under a name with the suffix `Fault'.
LoadZeroFault(ticks) == ticks - HAL_TIMER_LOAD_DELTA
LoadLongFault(ticks) == ticks + HAL_TIMER_LOAD_DELTA

\* hal_timer_reload programs one tick less than asked for, never zero
Load(ticks) ==
    IF ticks > HAL_TIMER_LOAD_DELTA THEN ticks - HAL_TIMER_LOAD_DELTA ELSE 1

hal_timer_start(ticks, irq) ==
    /\ value' = Load(ticks)
    /\ enabled' = TRUE
    /\ elapsed' = 0
    /\ pending' = irq

hal_timer_stopFault ==
    /\ pending' = FALSE
    /\ UNCHANGED <<value, enabled, elapsed>>

hal_timer_stop ==
    /\ enabled' = FALSE
    /\ pending' = FALSE
    /\ UNCHANGED <<value, elapsed>>

(* One tick of the clock.  The one-shot counter stops at zero and raises   *)
(* the interrupt; the system timer that `elapsed' is read from goes on.    *)
Tick ==
    /\ enabled
    /\ value > 0 \/ elapsed < MaxElapsed
    /\ value' = IF value > 0 THEN value - 1 ELSE 0
    /\ pending' = (pending \/ value = 1)
    /\ elapsed' = elapsed + 1
    /\ UNCHANGED <<lists, isr, cur, enabled, halted>>

(***************************************************************************)
(* The interrupt handler                                                   *)
(***************************************************************************)
\* hal_timer2_irq_handler acknowledges the interrupt
IrqEnter ==
    /\ pending /\ isr = "idle"
    /\ pending' = FALSE
    /\ isr' = "entered"
    /\ UNCHANGED <<lists, cur, value, enabled, elapsed, halted>>

\* ... were the margin of the early return forgotten
SpuriousFault == active # <<>> => time[Head(active)] > elapsed

\* The two early returns of hwtimer_handler: a call made after the interrupt
\* was raised has stopped the timer it was raised for
Spurious ==
    active # <<>> => time[Head(active)] > elapsed + HAL_TIMER_LOAD_DELTA

HandlerSpurious ==
    /\ isr = "entered"
    /\ Spurious
    /\ isr' = "idle"
    /\ UNCHANGED <<lists, cur, hal, halted>>

(* The head and the timers that are due with it move to the fired list,    *)
(* the hardware timer is set for the one after them, and the first of them *)
(* is picked for its callback before the lock is released.                 *)
HandlerExpire ==
    /\ isr = "entered" /\ ~Spurious
    /\ LET over == IF elapsed > time[Head(active)]
                   THEN elapsed - time[Head(active)] ELSE 0
           after == [i \in 1 .. Len(active) |-> Sum(active)[i] - Sum(active)[1]]
       IN  \E k \in 1 .. Len(active) :
             /\ \A i \in 2 .. k : after[i] <= over
             /\ k < Len(active) => after[k + 1] > over
             /\ active' = SubSeq(active, k + 1, Len(active))
             /\ fired' = SubSeq(active, 2, k)
             /\ cur' = active[1]
             /\ state' = [t \in Timers |->
                            IF t = active[1] THEN "CALLBACK"
                            ELSE IF \E i \in 2 .. k : t = active[i] THEN "FIRED"
                            ELSE state[t]]
             /\ LET left == [t \in Timers |->
                              IF \E i \in 1 .. k : t = active[i] THEN 0 ELSE time[t]]
                IN  IF k < Len(active)
                    THEN /\ time' = [left EXCEPT ![active[k + 1]] = after[k + 1] - over]
                         /\ hal_timer_start(after[k + 1] - over, pending)
                    ELSE /\ time' = left
                         /\ hal_timer_stop
    /\ isr' = "callback"
    /\ UNCHANGED <<free, taken, halted>>

(* A callback has returned and the handler has the lock again: the timer   *)
(* is idle unless it was restarted, and the next fired one is taken.       *)
HandlerCallbackDone ==
    /\ isr = "callback"
    /\ LET idle == IF state[cur] = "CALLBACK"
                   THEN [state EXCEPT ![cur] = "ALLOC"] ELSE state
       IN  IF fired = <<>>
           THEN /\ state' = idle
                /\ isr' = "idle" /\ cur' = None
                /\ UNCHANGED fired
           ELSE /\ state' = [idle EXCEPT ![Head(fired)] = "CALLBACK"]
                /\ cur' = Head(fired)
                /\ fired' = Tail(fired)
                /\ UNCHANGED isr
    /\ UNCHANGED <<time, free, active, taken, hal, halted>>

(***************************************************************************)
(* The API                                                                 *)
(***************************************************************************)
hwtimer_alloc ==
    /\ free # <<>>
    /\ taken' = taken \cup {Head(free)}
    /\ free' = Tail(free)
    /\ UNCHANGED <<state, time, active, fired, isr, cur, hal, halted>>

\* The part of hwtimer_alloc after its int_unlock
AllocInit(t) ==
    /\ t \in taken
    /\ taken' = taken \ {t}
    /\ state' = [state EXCEPT ![t] = "ALLOC"]
    /\ UNCHANGED <<time, free, active, fired, isr, cur, hal, halted>>

hwtimer_free(t) ==
    /\ state[t] = "ALLOC"
    /\ state' = [state EXCEPT ![t] = "FREE"]
    /\ free' = <<t>> \o free
    /\ UNCHANGED <<time, active, fired, taken, isr, cur, hal, halted>>

(* Start timer t: alone, before the head (the hardware timer is set again) *)
(* or behind every timer that is due earlier.                              *)
hwtimer_start(t, n) ==
    LET ticks == IF n < HAL_TIMER_LOAD_DELTA THEN HAL_TIMER_LOAD_DELTA ELSE n
        after == [i \in 1 .. Len(active) |-> Sum(active)[i] - Sum(active)[1]]
        left == ticks - value
    IN  /\ state[t] \in {"ALLOC", "CALLBACK"}
        /\ state' = [state EXCEPT ![t] = "ACTIVE"]
        /\ \/ /\ active = <<>>
              /\ active' = <<t>>
              /\ time' = [time EXCEPT ![t] = ticks]
              /\ hal_timer_start(ticks, pending)
           \/ /\ active # <<>> /\ value > ticks
              /\ active' = <<t>> \o active
              /\ time' = [time EXCEPT ![t] = ticks, ![Head(active)] = value - ticks]
              /\ hal_timer_start(ticks, FALSE)
           \/ /\ active # <<>> /\ value <= ticks
              /\ \E k \in 1 .. Len(active) :
                   /\ \A i \in 2 .. k : after[i] < left
                   /\ k < Len(active) => after[k + 1] >= left
                   /\ active' = InsertAfter(active, k, t)
                   /\ time' = [u \in Timers |->
                        IF u = t THEN left - after[k]
                        ELSE IF k < Len(active) /\ u = active[k + 1]
                        THEN after[k + 1] - left ELSE time[u]]
              /\ UNCHANGED hal
        /\ UNCHANGED <<free, fired, taken, isr, cur, halted>>

(* Stop the timer the hardware timer is set for.  When that one has run    *)
(* out, the timers behind it that are due as well get delta 0.             *)
StopHead(t) ==
    /\ state[t] = "ACTIVE" /\ Head(active) = t
    /\ active' = Tail(active)
    /\ state' = [state EXCEPT ![t] = "ALLOC"]
    /\ LET over == IF elapsed > time[t] THEN elapsed - time[t] ELSE 0
           after == [i \in 1 .. Len(active) |-> Sum(active)[i] - Sum(active)[1]]
           next == active[2]
       IN  \/ /\ Len(active) = 1
              /\ hal_timer_stop
              /\ time' = [time EXCEPT ![t] = 0]
           \/ /\ Len(active) > 1 /\ value > 0
              /\ time' = [time EXCEPT ![t] = 0, ![next] = @ + value]
              /\ hal_timer_start(time'[next], FALSE)
           \/ /\ Len(active) > 1 /\ value = 0
              /\ time' = [u \in Timers |->
                   IF \E i \in 2 .. Len(active) : active[i] = u
                   THEN LET i == Position(active, u)
                        IN  IF after[i] <= over THEN 0
                            ELSE IF after[i - 1] <= over THEN after[i] - over
                            ELSE time[u]
                   ELSE 0]
              /\ hal_timer_start(time'[next], FALSE)
    /\ UNCHANGED <<free, fired, taken, isr, cur, halted>>

\* ... were the delta of a stopped timer not handed on
StopBehindFault(t) ==
    /\ state[t] = "ACTIVE" /\ Head(active) # t
    /\ active' = Without(active, Position(active, t))
    /\ state' = [state EXCEPT ![t] = "ALLOC"]
    /\ time' = [time EXCEPT ![t] = 0]
    /\ UNCHANGED <<free, fired, taken, isr, cur, hal, halted>>

(* Stop a timer further down.  Its delta goes to its successor through     *)
(* next->next, which is NULL for the last timer of the list: the store to  *)
(* address 8 is lost or faults.                                            *)
StopBehind(t) ==
    /\ state[t] = "ACTIVE" /\ Head(active) # t
    /\ LET k == Position(active, t)
       IN  \/ /\ active' = Without(active, k)
              /\ state' = [state EXCEPT ![t] = "ALLOC"]
              /\ time' = IF k < Len(active)
                         THEN [time EXCEPT ![t] = 0, ![active[k + 1]] = @ + time[t]]
                         ELSE [time EXCEPT ![t] = 0]
              /\ UNCHANGED halted
           \/ /\ k = Len(active)
              /\ halted' = TRUE
              /\ UNCHANGED <<active, state, time>>
    /\ UNCHANGED <<free, fired, taken, isr, cur, hal>>

\* ... were a fired timer only marked as stopped
StopFiredFault(t) ==
    /\ state[t] = "FIRED"
    /\ state' = [state EXCEPT ![t] = "ALLOC"]
    /\ UNCHANGED <<fired, time, free, active, taken, isr, cur, hal, halted>>

\* Stop a timer that has fired and waits for its callback
StopFired(t) ==
    /\ state[t] = "FIRED"
    /\ fired' = Without(fired, Position(fired, t))
    /\ state' = [state EXCEPT ![t] = "ALLOC"]
    /\ UNCHANGED <<time, free, active, taken, isr, cur, hal, halted>>

hwtimer_stop(t) == StopHead(t) \/ StopBehind(t) \/ StopFired(t)

-----------------------------------------------------------------------------
Init ==
    /\ state = [t \in Timers |-> "FREE"]
    /\ time = [t \in Timers |-> 0]
    /\ free = [i \in 1 .. HWTIMER_NUM |-> i]
    /\ active = <<>> /\ fired = <<>>
    /\ taken = {}
    /\ isr = "idle" /\ cur = None
    /\ value = 0 /\ enabled = FALSE /\ pending = FALSE /\ elapsed = 0
    /\ halted = FALSE

Handler == IrqEnter \/ HandlerSpurious \/ HandlerExpire \/ HandlerCallbackDone

Api ==
    \/ hwtimer_alloc
    \/ \E t \in Timers : AllocInit(t) \/ hwtimer_free(t) \/ hwtimer_stop(t)
    \/ \E t \in Timers, n \in 0 .. MaxTicks : hwtimer_start(t, n)

Next == ~halted /\ (Tick \/ Handler \/ Api)

Spec == Init /\ [][Next]_vars

-----------------------------------------------------------------------------
ListsTypeOK ==
    /\ state \in [Timers -> HWTIMER_STATE_T]
    /\ free \in Seq(Timers) /\ active \in Seq(Timers) /\ fired \in Seq(Timers)
    /\ taken \in SUBSET Timers
    /\ isr \in {"idle", "entered", "callback"}
    /\ cur \in Timers \cup {None}
    /\ enabled \in BOOLEAN /\ pending \in BOOLEAN /\ halted \in BOOLEAN

\* Every variable has its type.
TypeOK ==
    /\ ListsTypeOK
    /\ time \in [Timers -> Nat]
    /\ value \in Nat /\ elapsed \in Nat

(* A timer is in the list its state names and in no other, and once: the   *)
(* interrupt handler, the callbacks it runs and the calls that preempt     *)
(* them never lose a timer or link it twice.  This is what the asserts     *)
(* "active timer not in list" and "fired timer not in list" of             *)
(* hwtimer_stop, and "Invalid state" of hwtimer_alloc, rely on.            *)
ListsAgree ==
    /\ Distinct(free) /\ Distinct(active) /\ Distinct(fired)
    /\ \A t \in Timers :
         /\ t \in InList(active) <=> state[t] = "ACTIVE"
         /\ t \in InList(fired) <=> state[t] = "FIRED"
         /\ t \in InList(free) \cup taken <=> state[t] = "FREE"
         /\ t \notin InList(free) \cap taken
         /\ state[t] = "CALLBACK" => isr = "callback" /\ cur = t

(* Fired timers wait for a callback only while the handler runs, so the    *)
(* next interrupt never overwrites a fired list that still holds timers.   *)
FiredServed ==
    /\ fired # <<>> => isr = "callback"
    /\ isr = "callback" => cur \in Timers

(* The hardware timer runs exactly while a timer is active: what the two   *)
(* asserts of hwtimer_handler ("irq when active is null", "irq occurred    *)
(* too early") rely on when a call slips in between the interrupt and its  *)
(* handler.                                                                *)
RunsIffActive == enabled <=> active # <<>>

(* The asserts of __hwtimer_start_int and hwtimer_stop on the counter: it  *)
(* is never ahead of the head's delta, and when it has run out the head's  *)
(* time is over.                                                           *)
CounterAgrees ==
    active # <<>> =>
      /\ value <= time[Head(active)] \/ value <= HAL_TIMER_LOAD_DELTA
      /\ value = 0 => elapsed + HAL_TIMER_LOAD_DELTA >= time[Head(active)]

(* A counter that has run out is never forgotten: the interrupt is pending *)
(* or its handler has been entered, whatever calls came in between.        *)
WakeUpComing == enabled /\ value = 0 => pending \/ isr = "entered"

-----------------------------------------------------------------------------
(* Time passes and callbacks return.  A caller that holds the lock at the  *)
(* very tick the counter runs out can clear the interrupt by stopping the  *)
(* head; it does not do so every time, so the interrupt, and the handler   *)
(* that finds a timer due, are given strong fairness.                      *)
Fairness ==
    /\ WF_vars(~halted /\ Tick)
    /\ SF_vars(~halted /\ IrqEnter)
    /\ SF_vars(~halted /\ HandlerExpire)
    /\ WF_vars(~halted /\ (HandlerSpurious \/ HandlerCallbackDone))

LiveSpec == Spec /\ Fairness

(* A started timer fires or is stopped, whatever the other timers do.      *)
StartedTimerFires ==
    \A t \in Timers : state[t] = "ACTIVE" ~> halted \/ state[t] # "ACTIVE"

(* What the assert of hwtimer_stop says ("HWTIMER-STOP collapsed": for an  *)
(* active timer the call ends with E_HWTIMER_OK): stopping never brings    *)
(* the system down.                                                        *)
ActiveStopSucceeds == [][~halted']_vars

=============================================================================
