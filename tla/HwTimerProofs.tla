---------------------------- MODULE HwTimerProofs ----------------------------
(***************************************************************************)
(* HwTimerList and HwTimerClock for any number of timers.  Every list      *)
(* agrees with the states of the timers, the asserts of the code about     *)
(* them hold, and so do those about the hardware timer, whose interrupt is *)
(* never forgotten; no timer is served early, and no interrupt leaves one  *)
(* that is due.                                                            *)
(***************************************************************************)
EXTENDS HwTimerClock, ListLemmas

(***************************************************************************)
(* The inductive invariant.  That the lists agree needs that fired timers  *)
(* exist only while the handler runs, or the next interrupt would lose     *)
(* them; and the asserts need that the hardware timer runs exactly while a *)
(* timer is active.                                                        *)
(***************************************************************************)
IInv == ListsTypeOK /\ ListsAgree /\ FiredServed /\ RunsIffActive

\* At the start every timer is in the free list.
LEMMA InitIInv == Init => IInv
<1> SUFFICES ASSUME Init PROVE IInv
  OBVIOUS
<1>1. /\ free \in Seq(Timers) /\ Len(free) = HWTIMER_NUM
      /\ \A i \in 1 .. HWTIMER_NUM : free[i] = i
  BY HwTimerAssumption DEF Init, Timers
<1>2. ListsTypeOK
  <2>1. state \in [Timers -> HWTIMER_STATE_T]
    BY DEF Init, HWTIMER_STATE_T
  <2>2. active \in Seq(Timers) /\ fired \in Seq(Timers)
    BY EmptySeq DEF Init
  <2>3. taken \in SUBSET Timers /\ isr = "idle" /\ cur = None
    BY DEF Init
  <2>4. enabled = FALSE /\ pending = FALSE /\ halted = FALSE
    BY DEF Init
  <2> QED BY <1>1, <2>1, <2>2, <2>3, <2>4 DEF ListsTypeOK
<1>3. InList(free) = Timers /\ Distinct(free)
  BY <1>1 DEF InList, Timers, Distinct
<1>4. InList(<<>>) = {} /\ Distinct(<<>>)
  BY DEF InList, Distinct
<1>5. /\ active = <<>> /\ fired = <<>> /\ taken = {}
      /\ isr = "idle" /\ enabled = FALSE
      /\ \A t \in Timers : state[t] = "FREE"
  BY DEF Init
<1>6. ListsAgree
  <2>1. Distinct(active) /\ Distinct(fired) /\ InList(active) = {} /\ InList(fired) = {}
    BY <1>4, <1>5
  <2> QED BY <1>3, <1>5, <2>1 DEF ListsAgree
<1>7. FiredServed /\ RunsIffActive
  BY <1>5 DEF FiredServed, RunsIffActive
<1> QED
  BY <1>2, <1>6, <1>7 DEF IInv

\* The interrupt and the clock leave the lists alone.
LEMMA ClockStep ==
    ASSUME IInv, Tick \/ IrqEnter \/ HandlerSpurious
    PROVE  IInv'
<1>1. /\ UNCHANGED <<state, free, active, fired, taken, cur, enabled, halted>>
      /\ pending' \in BOOLEAN
      /\ \/ isr' = isr
         \/ isr # "callback" /\ isr' \in {"idle", "entered"}
  BY DEF IInv, ListsTypeOK, Tick, IrqEnter, HandlerSpurious, lists, hal
<1>2. ListsTypeOK'
  BY <1>1 DEF IInv, ListsTypeOK
<1>3. ListsAgree'
  BY <1>1 DEF IInv, ListsAgree, InList, Distinct
<1>4. FiredServed' /\ RunsIffActive'
  BY <1>1 DEF IInv, FiredServed, RunsIffActive
<1> QED BY <1>2, <1>3, <1>4 DEF IInv

\* The handler moves a prefix of the active list to the fired list, which was
\* empty, and its head to the callback.
LEMMA HandlerExpireStep ==
    ASSUME IInv, HandlerExpire
    PROVE  IInv'
<1>1. active # <<>> /\ isr = "entered" /\ isr' = "callback"
  BY DEF HandlerExpire, Spurious
<1>2. /\ active \in Seq(Timers) /\ Distinct(active)
      /\ Len(active) \in Nat \ {0} /\ DOMAIN active = 1 .. Len(active)
      /\ \A i \in 1 .. Len(active) : active[i] \in Timers
  BY <1>1, EmptySeq, LenProperties DEF IInv, ListsTypeOK, ListsAgree
<1>3. PICK k \in 1 .. Len(active) :
        /\ active' = SubSeq(active, k + 1, Len(active))
        /\ fired' = SubSeq(active, 2, k)
        /\ cur' = active[1]
        /\ state' = [t \in Timers |->
                        IF t = active[1] THEN "CALLBACK"
                        ELSE IF \E i \in 2 .. k : t = active[i] THEN "FIRED"
                        ELSE state[t]]
        /\ k < Len(active) => enabled' = TRUE /\ pending' = pending
        /\ ~(k < Len(active)) => enabled' = FALSE /\ pending' = FALSE
        /\ UNCHANGED <<free, taken, halted>>
  BY DEF HandlerExpire, hal_timer_start, hal_timer_stop
<1>4. /\ active' \in Seq(Timers) /\ Distinct(active')
      /\ InList(active') = { active[i] : i \in k + 1 .. Len(active) }
  BY <1>2, <1>3, SegmentProperties
<1>5. /\ fired' \in Seq(Timers) /\ Distinct(fired')
      /\ InList(fired') = { active[i] : i \in 2 .. k }
  <2>1. 2 \in Nat \ {0} /\ k \in 0 .. Len(active)
    BY <1>2
  <2>2. /\ SubSeq(active, 2, k) \in Seq(Timers)
        /\ Distinct(SubSeq(active, 2, k))
        /\ InList(SubSeq(active, 2, k)) = { active[i] : i \in 2 .. k }
    BY <1>2, <2>1, SegmentProperties
  <2> QED BY <1>3, <2>2
<1>6. active' # <<>> <=> k < Len(active)
  <2>1. k < Len(active) => active[k + 1] \in InList(active')
    BY <1>2, <1>4
  <2>2. ~(k < Len(active)) => InList(active') = {}
    BY <1>2, <1>4
  <2>3. active' = <<>> <=> InList(active') = {}
    <3>1. active' # <<>> => active'[1] \in InList(active')
      BY <1>4, EmptySeq DEF InList
    <3>2. InList(<<>>) = {}
      BY DEF InList
    <3> QED BY <3>1, <3>2
  <2> QED BY <2>1, <2>2, <2>3
<1>7. ListsTypeOK'
  <2>1. state' \in [Timers -> HWTIMER_STATE_T]
    BY <1>3 DEF IInv, ListsTypeOK, HWTIMER_STATE_T
  <2>2. cur' \in Timers /\ isr' = "callback"
    BY <1>1, <1>2, <1>3
  <2>3. enabled' \in BOOLEAN /\ pending' \in BOOLEAN /\ halted' \in BOOLEAN
    BY <1>3 DEF IInv, ListsTypeOK
  <2>4. free' \in Seq(Timers) /\ taken' \in SUBSET Timers
    BY <1>3 DEF IInv, ListsTypeOK
  <2> QED BY <1>4, <1>5, <2>1, <2>2, <2>3, <2>4 DEF ListsTypeOK
<1>8. ListsAgree'
  <2>1. Distinct(free') /\ InList(free') = InList(free) /\ taken' = taken
    BY <1>3 DEF IInv, ListsAgree, Distinct, InList
  <2>2. ASSUME NEW t \in Timers
        PROVE  /\ t \in InList(active') <=> state'[t] = "ACTIVE"
               /\ t \in InList(fired') <=> state'[t] = "FIRED"
               /\ state'[t] = "FREE" <=> state[t] = "FREE"
               /\ state'[t] = "CALLBACK" => isr' = "callback" /\ cur' = t
    <3>1. /\ state[t] = "ACTIVE" <=> t \in InList(active)
          /\ state[t] # "CALLBACK"
      BY <1>1 DEF IInv, ListsAgree
    <3>2. state[t] # "FIRED"
      <4>1. fired = <<>>
        BY <1>1 DEF IInv, FiredServed
      <4>2. t \notin InList(fired)
        BY <4>1 DEF InList
      <4> QED BY <4>2 DEF IInv, ListsAgree
    <3>3. CASE t = active[1]
      <4>1. state'[t] = "CALLBACK"
        BY <1>3, <3>3
      <4>2. t \notin InList(active') /\ t \notin InList(fired')
        BY <1>2, <1>4, <1>5, <3>3 DEF Distinct
      <4>3. t \in InList(active)
        BY <1>2, <3>3 DEF InList
      <4> QED BY <1>1, <1>3, <3>1, <3>3, <4>1, <4>2, <4>3
    <3>4. CASE t # active[1] /\ \E i \in 2 .. k : t = active[i]
      <4>1. state'[t] = "FIRED"
        BY <1>3, <3>4
      <4>2. t \notin InList(active') /\ t \in InList(fired')
        BY <1>2, <1>4, <1>5, <3>4 DEF Distinct
      <4>3. t \in InList(active)
        BY <1>2, <3>4 DEF InList
      <4> QED BY <3>1, <4>1, <4>2, <4>3
    <3>5. CASE t # active[1] /\ ~\E i \in 2 .. k : t = active[i]
      <4>1. state'[t] = state[t]
        BY <1>3, <3>5
      <4>2. t \notin InList(fired')
        BY <1>5, <3>5
      <4>3. ASSUME t \in InList(active') PROVE t \in InList(active)
        <5>1. PICK i \in k + 1 .. Len(active) : t = active[i]
          BY <1>4, <4>3
        <5>2. i \in 1 .. Len(active)
          BY <1>2, <5>1
        <5> QED BY <5>1, <5>2 DEF InList
      <4>4. ASSUME t \in InList(active) PROVE t \in InList(active')
        <5>1. PICK i \in 1 .. Len(active) : t = active[i]
          BY <4>4 DEF InList
        <5>2. i \in k + 1 .. Len(active)
          BY <1>2, <3>5, <5>1
        <5> QED BY <1>4, <5>1, <5>2
      <4> QED BY <3>1, <3>2, <4>1, <4>2, <4>3, <4>4
    <3> QED BY <3>3, <3>4, <3>5
  <2> QED BY <1>4, <1>5, <2>1, <2>2 DEF IInv, ListsAgree
<1>9. FiredServed' /\ RunsIffActive'
  BY <1>1, <1>2, <1>3, <1>6 DEF FiredServed, RunsIffActive
<1> QED BY <1>7, <1>8, <1>9 DEF IInv

\* One timer changes its state to x and its place with it: the lists still agree.
LEMMA MoveOne ==
    ASSUME ListsAgree, NEW t \in Timers, NEW x,
           \A u \in Timers : state'[u] = IF u = t THEN x ELSE state[u],
           Distinct(free'), Distinct(active'), Distinct(fired'),
           \A u \in Timers \ {t} :
               /\ u \in InList(active') <=> u \in InList(active)
               /\ u \in InList(fired') <=> u \in InList(fired)
               /\ u \in InList(free') <=> u \in InList(free)
               /\ u \in taken' <=> u \in taken
               /\ state[u] = "CALLBACK" => isr' = isr /\ cur' = cur,
           t \in InList(active') <=> x = "ACTIVE",
           t \in InList(fired') <=> x = "FIRED",
           t \in InList(free') \cup taken' <=> x = "FREE",
           t \notin InList(free') \cap taken',
           x = "CALLBACK" => isr' = "callback" /\ cur' = t
    PROVE  ListsAgree'
<1> SUFFICES ASSUME NEW u \in Timers
             PROVE  /\ u \in InList(active') <=> state'[u] = "ACTIVE"
                    /\ u \in InList(fired') <=> state'[u] = "FIRED"
                    /\ u \in InList(free') \cup taken' <=> state'[u] = "FREE"
                    /\ u \notin InList(free') \cap taken'
                    /\ state'[u] = "CALLBACK" => isr' = "callback" /\ cur' = u
  BY DEF ListsAgree
<1>1. CASE u = t
  BY <1>1
<1>2. CASE u # t
  <2>1. state'[u] = state[u]
    BY <1>2
  <2>2. /\ u \in InList(active') <=> u \in InList(active)
        /\ u \in InList(fired') <=> u \in InList(fired)
        /\ u \in InList(free') <=> u \in InList(free)
        /\ u \in taken' <=> u \in taken
        /\ state[u] = "CALLBACK" => isr' = isr /\ cur' = cur
    BY <1>2
  <2> QED BY <2>1, <2>2 DEF ListsAgree
<1> QED BY <1>1, <1>2

\* The end of hwtimer_alloc and the return of a timer to the free list.
LEMMA AllocFreeStep ==
    ASSUME IInv, NEW t \in Timers, AllocInit(t) \/ hwtimer_free(t)
    PROVE  IInv'
<1>1. /\ UNCHANGED <<active, fired, isr, cur, enabled, pending, halted>>
      /\ state \in [Timers -> HWTIMER_STATE_T]
      /\ Distinct(active') /\ Distinct(fired')
      /\ InList(active') = InList(active) /\ InList(fired') = InList(fired)
  <2>1. UNCHANGED <<active, fired, isr, cur, hal, halted>>
    <3>1. CASE AllocInit(t)
      BY <3>1 DEF AllocInit
    <3>2. CASE hwtimer_free(t)
      BY <3>2 DEF hwtimer_free
    <3> QED BY <3>1, <3>2
  <2>2. active' = active /\ fired' = fired
    BY <2>1
  <2>3. Distinct(active') /\ Distinct(fired')
    BY <2>2 DEF IInv, ListsAgree, Distinct
  <2>4. InList(active') = InList(active) /\ InList(fired') = InList(fired)
    BY <2>2 DEF InList
  <2>5. state \in [Timers -> HWTIMER_STATE_T]
    BY DEF IInv, ListsTypeOK
  <2> QED BY <2>1, <2>3, <2>4, <2>5 DEF hal
<1>2. CASE AllocInit(t)
  <2>1. /\ t \in taken /\ taken' = taken \ {t}
        /\ state' = [state EXCEPT ![t] = "ALLOC"] /\ free' = free
    BY <1>2 DEF AllocInit
  <2>2. /\ state[t] = "FREE"
        /\ t \notin InList(free) /\ t \notin InList(active) /\ t \notin InList(fired)
    BY <2>1 DEF IInv, ListsAgree
  <2>3. Distinct(free') /\ InList(free') = InList(free)
    BY <2>1 DEF IInv, ListsAgree, Distinct, InList
  <2>4. \A u \in Timers : state'[u] = IF u = t THEN "ALLOC" ELSE state[u]
    BY <1>1, <2>1
  <2>5. ListsAgree'
    <3>1. \A u \in Timers \ {t} :
             /\ u \in InList(active') <=> u \in InList(active)
             /\ u \in InList(fired') <=> u \in InList(fired)
             /\ u \in InList(free') <=> u \in InList(free)
             /\ u \in taken' <=> u \in taken
             /\ state[u] = "CALLBACK" => isr' = isr /\ cur' = cur
      BY <1>1, <2>1, <2>3
    <3>2. t \notin InList(active') /\ t \notin InList(fired')
          /\ t \notin InList(free') /\ t \notin taken'
      BY <1>1, <2>1, <2>2, <2>3
    <3>3. ListsAgree
      BY DEF IInv
    <3> QED BY <1>1, <2>3, <2>4, <3>1, <3>2, <3>3, MoveOne
  <2>6. ListsTypeOK'
    BY <1>1, <2>1 DEF IInv, ListsTypeOK, HWTIMER_STATE_T
  <2> QED BY <1>1, <2>5, <2>6 DEF IInv, FiredServed, RunsIffActive
<1>3. CASE hwtimer_free(t)
  <2>1. /\ state[t] = "ALLOC" /\ taken' = taken
        /\ state' = [state EXCEPT ![t] = "FREE"] /\ free' = <<t>> \o free
    BY <1>3 DEF hwtimer_free
  <2>2. /\ t \notin InList(free) /\ t \notin taken
        /\ t \notin InList(active) /\ t \notin InList(fired)
    BY <2>1 DEF IInv, ListsAgree
  <2>3. /\ free' \in Seq(Timers) /\ Distinct(free')
        /\ InList(free') = InList(free) \cup {t}
    BY <2>1, <2>2, PushProperties DEF IInv, ListsTypeOK, ListsAgree
  <2>4. \A u \in Timers : state'[u] = IF u = t THEN "FREE" ELSE state[u]
    BY <1>1, <2>1
  <2>5. ListsAgree'
    <3>1. \A u \in Timers \ {t} :
             /\ u \in InList(active') <=> u \in InList(active)
             /\ u \in InList(fired') <=> u \in InList(fired)
             /\ u \in InList(free') <=> u \in InList(free)
             /\ u \in taken' <=> u \in taken
             /\ state[u] = "CALLBACK" => isr' = isr /\ cur' = cur
      BY <1>1, <2>1, <2>3
    <3>2. t \notin InList(active') /\ t \notin InList(fired')
          /\ t \in InList(free') /\ t \notin taken'
      BY <1>1, <2>1, <2>2, <2>3
    <3>3. ListsAgree
      BY DEF IInv
    <3> QED BY <1>1, <2>3, <2>4, <3>1, <3>2, <3>3, MoveOne
  <2>6. ListsTypeOK'
    BY <1>1, <2>1, <2>3 DEF IInv, ListsTypeOK, HWTIMER_STATE_T
  <2> QED BY <1>1, <2>5, <2>6 DEF IInv, FiredServed, RunsIffActive
<1> QED BY <1>2, <1>3

\* The start of hwtimer_alloc: the timer leaves the free list and is still FREE.
LEMMA AllocStep ==
    ASSUME IInv, hwtimer_alloc
    PROVE  IInv'
<1>1. /\ free # <<>> /\ taken' = taken \cup {Head(free)} /\ free' = Tail(free)
      /\ UNCHANGED <<state, active, fired, isr, cur, enabled, pending, halted>>
  BY DEF hwtimer_alloc, hal
<1>2. /\ Head(free) \in Timers /\ Head(free) \in InList(free)
      /\ free' \in Seq(Timers) /\ Distinct(free')
      /\ InList(free') = InList(free) \ {Head(free)}
  BY <1>1, PopProperties DEF IInv, ListsTypeOK, ListsAgree
<1>3. ListsTypeOK'
  BY <1>1, <1>2 DEF IInv, ListsTypeOK
<1>4. ListsAgree'
  <2>1. /\ Distinct(active') /\ Distinct(fired')
        /\ InList(active') = InList(active) /\ InList(fired') = InList(fired)
    BY <1>1 DEF IInv, ListsAgree, Distinct, InList
  <2>2. InList(free') \cup taken' = InList(free) \cup taken
    BY <1>1, <1>2
  <2>3. \A t \in Timers : t \notin InList(free') \cap taken'
    BY <1>1, <1>2 DEF IInv, ListsAgree
  <2> QED BY <1>1, <1>2, <2>1, <2>2, <2>3 DEF IInv, ListsAgree
<1> QED BY <1>1, <1>3, <1>4 DEF IInv, FiredServed, RunsIffActive

\* Timer t leaves the active list or the fired list and is idle.
LEMMA Unlinked ==
    ASSUME IInv, NEW t \in Timers, state[t] \in {"ACTIVE", "FIRED"},
           state' = [state EXCEPT ![t] = "ALLOC"],
           UNCHANGED <<free, taken, isr, cur>>,
           active' \in Seq(Timers), fired' \in Seq(Timers),
           Distinct(active'), Distinct(fired'),
           InList(active') = InList(active) \ {t},
           InList(fired') = InList(fired) \ {t}
    PROVE  ListsAgree'
<1>1. Distinct(free') /\ InList(free') = InList(free)
  BY DEF IInv, ListsAgree, Distinct, InList
<1>2. t \notin InList(free) /\ t \notin taken
  BY DEF IInv, ListsAgree
<1>3. \A u \in Timers : state'[u] = IF u = t THEN "ALLOC" ELSE state[u]
  BY DEF IInv, ListsTypeOK
<1>4. \A u \in Timers \ {t} :
         /\ u \in InList(active') <=> u \in InList(active)
         /\ u \in InList(fired') <=> u \in InList(fired)
         /\ u \in InList(free') <=> u \in InList(free)
         /\ u \in taken' <=> u \in taken
         /\ state[u] = "CALLBACK" => isr' = isr /\ cur' = cur
  BY <1>1
<1>5. t \notin InList(active') /\ t \notin InList(fired')
      /\ t \notin InList(free') /\ t \notin taken'
  BY <1>1, <1>2
<1>6. ListsAgree
  BY DEF IInv
<1> QED BY <1>1, <1>3, <1>4, <1>5, <1>6, MoveOne

\* A list without t stays as it is.
LEMMA OtherListKept ==
    ASSUME IInv, NEW t \in Timers
    PROVE  /\ state[t] = "ACTIVE" /\ fired' = fired =>
                /\ fired' \in Seq(Timers) /\ Distinct(fired')
                /\ InList(fired') = InList(fired) \ {t}
           /\ state[t] = "FIRED" /\ active' = active =>
                /\ active' \in Seq(Timers) /\ Distinct(active')
                /\ InList(active') = InList(active) \ {t}
<1>1. /\ fired \in Seq(Timers) /\ Distinct(fired)
      /\ active \in Seq(Timers) /\ Distinct(active)
      /\ state[t] = "ACTIVE" => t \notin InList(fired)
      /\ state[t] = "FIRED" => t \notin InList(active)
  BY DEF IInv, ListsTypeOK, ListsAgree
<1>2. ASSUME fired' = fired
      PROVE  (Distinct(fired') <=> Distinct(fired)) /\ InList(fired') = InList(fired)
  BY <1>2 DEF Distinct, InList
<1>3. ASSUME active' = active
      PROVE  (Distinct(active') <=> Distinct(active)) /\ InList(active') = InList(active)
  BY <1>3 DEF Distinct, InList
<1> QED BY <1>1, <1>2, <1>3

\* hwtimer_stop of a fired timer takes it out of the fired list.
LEMMA StopFiredStep ==
    ASSUME IInv, NEW t \in Timers, StopFired(t)
    PROVE  IInv'
<1>1. /\ state[t] = "FIRED" /\ state' = [state EXCEPT ![t] = "ALLOC"]
      /\ fired' = Without(fired, Position(fired, t))
      /\ UNCHANGED <<free, active, taken, isr, cur, enabled, pending, halted>>
  BY DEF StopFired, hal
<1>2. /\ t \in InList(fired) /\ fired \in Seq(Timers) /\ Distinct(fired)
      /\ state \in [Timers -> HWTIMER_STATE_T]
  BY <1>1 DEF IInv, ListsTypeOK, ListsAgree
<1>3. Position(fired, t) \in 1 .. Len(fired) /\ fired[Position(fired, t)] = t
  BY <1>2, PositionProperties
<1>4. /\ fired' \in Seq(Timers) /\ Distinct(fired')
      /\ InList(fired') = InList(fired) \ {t}
  BY <1>1, <1>2, <1>3, WithoutProperties
<1>5. /\ active' \in Seq(Timers) /\ Distinct(active')
      /\ InList(active') = InList(active) \ {t}
  BY <1>1, OtherListKept
<1>6. ListsAgree'
  BY <1>1, <1>4, <1>5, Unlinked
<1>7. ListsTypeOK'
  BY <1>1, <1>2, <1>4 DEF IInv, ListsTypeOK, HWTIMER_STATE_T
<1>8. FiredServed'
  <2>1. fired # <<>>
    BY <1>2 DEF InList
  <2> QED BY <1>1, <2>1 DEF IInv, FiredServed
<1> QED BY <1>1, <1>6, <1>7, <1>8 DEF IInv, RunsIffActive

\* ... and of one behind the head out of the active list, or halts.
LEMMA StopBehindStep ==
    ASSUME IInv, NEW t \in Timers, StopBehind(t)
    PROVE  IInv'
<1> DEFINE k == Position(active, t)
<1>1. /\ state[t] = "ACTIVE" /\ Head(active) # t
      /\ UNCHANGED <<free, fired, taken, isr, cur, enabled, pending>>
  BY DEF StopBehind, hal
<1>2. /\ t \in InList(active) /\ active \in Seq(Timers) /\ Distinct(active)
      /\ state \in [Timers -> HWTIMER_STATE_T]
  BY <1>1 DEF IInv, ListsTypeOK, ListsAgree
<1>3. k \in 1 .. Len(active) /\ active[k] = t
  BY <1>2, PositionProperties
<1>4. active # <<>>
  BY <1>2 DEF InList
<1>5. CASE active' = active /\ state' = state /\ halted' = TRUE
  <2>1. ListsTypeOK'
    BY <1>1, <1>5 DEF IInv, ListsTypeOK
  <2>2. ListsAgree'
    BY <1>1, <1>5 DEF IInv, ListsAgree, Distinct, InList
  <2> QED BY <1>1, <1>5, <2>1, <2>2 DEF IInv, FiredServed, RunsIffActive
<1>6. CASE /\ active' = Without(active, k)
           /\ state' = [state EXCEPT ![t] = "ALLOC"]
           /\ halted' = halted
  <2>1. /\ active' \in Seq(Timers) /\ Distinct(active')
        /\ InList(active') = InList(active) \ {t}
    BY <1>2, <1>3, <1>6, WithoutProperties
  <2>2. /\ fired' \in Seq(Timers) /\ Distinct(fired')
        /\ InList(fired') = InList(fired) \ {t}
    BY <1>1, OtherListKept
  <2>3. ListsAgree'
    BY <1>1, <1>6, <2>1, <2>2, Unlinked
  <2>4. ListsTypeOK'
    BY <1>1, <1>2, <1>6, <2>1 DEF IInv, ListsTypeOK, HWTIMER_STATE_T
  <2>5. active' # <<>>
    <3>1. Head(active) \in InList(active)
      BY <1>2, <1>4, PopProperties
    <3>2. Head(active) \in InList(active')
      BY <1>1, <2>1, <3>1
    <3> QED BY <3>2 DEF InList
  <2>6. RunsIffActive'
    BY <1>1, <1>4, <2>5 DEF IInv, RunsIffActive
  <2>7. FiredServed'
    BY <1>1 DEF IInv, FiredServed
  <2> QED BY <2>3, <2>4, <2>6, <2>7 DEF IInv
<1> QED BY <1>5, <1>6 DEF StopBehind

\* Stopping the head stops the hardware timer when it was the last.
LEMMA StopHeadStep ==
    ASSUME IInv, NEW t \in Timers, StopHead(t)
    PROVE  IInv'
<1>1. /\ state[t] = "ACTIVE" /\ Head(active) = t
      /\ active' = Tail(active)
      /\ state' = [state EXCEPT ![t] = "ALLOC"]
      /\ UNCHANGED <<free, fired, taken, isr, cur, halted>>
  BY DEF StopHead
<1>2. /\ t \in InList(active) /\ active \in Seq(Timers) /\ Distinct(active)
      /\ state \in [Timers -> HWTIMER_STATE_T]
  BY <1>1 DEF IInv, ListsTypeOK, ListsAgree
<1>3. active # <<>>
  BY <1>2 DEF InList
<1>4. /\ active' \in Seq(Timers) /\ Distinct(active')
      /\ InList(active') = InList(active) \ {t}
  BY <1>1, <1>2, <1>3, PopProperties
<1>5. /\ fired' \in Seq(Timers) /\ Distinct(fired')
      /\ InList(fired') = InList(fired) \ {t}
  BY <1>1, OtherListKept
<1>6. ListsAgree'
  BY <1>1, <1>4, <1>5, Unlinked
<1>7. /\ pending' = FALSE /\ enabled' \in BOOLEAN
      /\ enabled' = TRUE <=> Len(active) > 1
  <2>1. Len(active) = 1 \/ Len(active) > 1
    BY <1>2, <1>3, EmptySeq
  <2>2. \/ Len(active) = 1 /\ enabled' = FALSE /\ pending' = FALSE
        \/ Len(active) > 1 /\ enabled' = TRUE /\ pending' = FALSE
    BY DEF StopHead, hal_timer_stop, hal_timer_start
  <2>3. Len(active) = 1 => ~(Len(active) > 1)
    OBVIOUS
  <2>4. CASE Len(active) = 1 /\ enabled' = FALSE /\ pending' = FALSE
    BY <2>3, <2>4
  <2>5. CASE Len(active) > 1 /\ enabled' = TRUE /\ pending' = FALSE
    BY <2>5
  <2> QED BY <2>2, <2>4, <2>5
<1>8. active' # <<>> <=> Len(active) > 1
  <2>1. Len(active') = Len(active) - 1 /\ Len(active) \in Nat
    BY <1>1, <1>2, <1>3, HeadTailProperties, LenProperties
  <2>2. active' # <<>> => Len(active') \in Nat \ {0}
    BY <1>4, EmptySeq
  <2>3. Len(<<>>) = 0
    BY EmptySeq
  <2>4. ASSUME Len(active) > 1 PROVE active' # <<>>
    <3>1. Len(active') # 0
      BY <2>1, <2>4
    <3> QED BY <2>3, <3>1
  <2>5. ASSUME active' # <<>> PROVE Len(active) > 1
    BY <2>1, <2>2, <2>5
  <2> QED BY <2>4, <2>5
<1>9. ListsTypeOK'
  BY <1>1, <1>2, <1>4, <1>5, <1>7 DEF IInv, ListsTypeOK, HWTIMER_STATE_T
<1>10. FiredServed' /\ RunsIffActive'
  BY <1>1, <1>7, <1>8 DEF IInv, FiredServed, RunsIffActive
<1> QED BY <1>6, <1>9, <1>10 DEF IInv

\* A start links the timer, and leaves the hardware timer running.
LEMMA StartStep ==
    ASSUME IInv, NEW t \in Timers, NEW n \in 0 .. MaxTicks, hwtimer_start(t, n)
    PROVE  IInv'
<1>1. /\ state[t] \in {"ALLOC", "CALLBACK"}
      /\ state' = [state EXCEPT ![t] = "ACTIVE"]
      /\ UNCHANGED <<free, fired, taken, isr, cur, halted>>
  BY DEF hwtimer_start
<1>2. /\ active \in Seq(Timers) /\ Distinct(active)
      /\ t \notin InList(active) /\ t \notin InList(fired)
      /\ t \notin InList(free) /\ t \notin taken
      /\ state \in [Timers -> HWTIMER_STATE_T]
  BY <1>1 DEF IInv, ListsTypeOK, ListsAgree
<1>3. /\ active' \in Seq(Timers) /\ Distinct(active') /\ active' # <<>>
      /\ InList(active') = InList(active) \cup {t}
      /\ enabled' = TRUE /\ pending' \in BOOLEAN
  <2>1. CASE active = <<>> /\ active' = <<t>> /\ enabled' = TRUE /\ pending' = pending
    <3>1. <<t>> \in Seq(Timers)
      OBVIOUS
    <3>2. active' = <<t>> \o active
      BY <2>1, <3>1, ConcatEmptySeq
    <3>3. pending' \in BOOLEAN
      BY <2>1 DEF IInv, ListsTypeOK
    <3>4. /\ <<t>> \o active \in Seq(Timers) /\ Distinct(<<t>> \o active)
          /\ <<t>> \o active # <<>>
          /\ InList(<<t>> \o active) = InList(active) \cup {t}
      BY <1>2, PushProperties
    <3> HIDE <2>1
    <3>5. active' \in Seq(Timers) /\ active' # <<>>
      BY <3>2, <3>4
    <3>6. Distinct(active') /\ InList(active') = InList(active) \cup {t}
      BY <3>2, <3>4 DEF Distinct, InList
    <3> QED BY <2>1, <3>3, <3>5, <3>6
  <2>2. CASE active' = <<t>> \o active /\ enabled' = TRUE /\ pending' = FALSE
    BY <1>2, <2>2, PushProperties, ZenonT(60)
  <2>3. CASE /\ active # <<>>
             /\ \E k \in 1 .. Len(active) : active' = InsertAfter(active, k, t)
             /\ UNCHANGED <<enabled, pending>>
    BY <1>2, <2>3, InsertAfterProperties DEF IInv, ListsTypeOK, RunsIffActive
  <2> QED BY <2>1, <2>2, <2>3 DEF hwtimer_start, hal_timer_start, hal
<1>4. ListsAgree'
  <2>1. /\ Distinct(free') /\ Distinct(fired')
        /\ InList(free') = InList(free) /\ InList(fired') = InList(fired)
    BY <1>1 DEF IInv, ListsAgree, Distinct, InList
  <2>2. \A u \in Timers : state'[u] = IF u = t THEN "ACTIVE" ELSE state[u]
    BY <1>1, <1>2
  <2>3. \A u \in Timers \ {t} :
           /\ u \in InList(active') <=> u \in InList(active)
           /\ u \in InList(fired') <=> u \in InList(fired)
           /\ u \in InList(free') <=> u \in InList(free)
           /\ u \in taken' <=> u \in taken
           /\ state[u] = "CALLBACK" => isr' = isr /\ cur' = cur
    BY <1>1, <1>3, <2>1
  <2>4. t \in InList(active') /\ t \notin InList(fired')
        /\ t \notin InList(free') /\ t \notin taken'
    BY <1>1, <1>2, <1>3, <2>1
  <2>5. ListsAgree
    BY DEF IInv
  <2> QED BY <1>3, <2>1, <2>2, <2>3, <2>4, <2>5, MoveOne
<1>5. ListsTypeOK'
  BY <1>1, <1>2, <1>3 DEF IInv, ListsTypeOK, HWTIMER_STATE_T
<1>6. FiredServed'
  BY <1>1 DEF IInv, FiredServed
<1>7. RunsIffActive'
  BY <1>3 DEF RunsIffActive
<1> QED BY <1>4, <1>5, <1>6, <1>7 DEF IInv

\* The handler lets go of the timer it served and takes the next fired one.
LEMMA HandlerCallbackDoneStep ==
    ASSUME IInv, HandlerCallbackDone
    PROVE  IInv'
<1> DEFINE idle == IF state[cur] = "CALLBACK"
                   THEN [state EXCEPT ![cur] = "ALLOC"] ELSE state
<1>1. /\ isr = "callback" /\ cur \in Timers
      /\ UNCHANGED <<free, active, taken, enabled, pending, halted>>
  BY DEF HandlerCallbackDone, hal, IInv, FiredServed
<1>2. /\ state \in [Timers -> HWTIMER_STATE_T]
      /\ fired \in Seq(Timers) /\ Distinct(fired)
  BY DEF IInv, ListsTypeOK, ListsAgree
<1>3. /\ idle \in [Timers -> HWTIMER_STATE_T]
      /\ \A u \in Timers : idle[u] # "CALLBACK"
      /\ \A u \in Timers : state[u] # "CALLBACK" => idle[u] = state[u]
      /\ \A u \in Timers : state[u] = "CALLBACK" => idle[u] = "ALLOC"
  <2>1. \A u \in Timers : state[u] = "CALLBACK" => u = cur
    BY DEF IInv, ListsAgree
  <2> QED BY <1>1, <1>2, <2>1 DEF HWTIMER_STATE_T
<1> HIDE DEF idle
<1>4. /\ Distinct(free') /\ Distinct(active')
      /\ InList(free') = InList(free) /\ InList(active') = InList(active)
  BY <1>1 DEF IInv, ListsAgree, Distinct, InList
<1>5. CASE fired = <<>>
  <2>1. state' = idle /\ isr' = "idle" /\ cur' = None /\ fired' = fired
    BY <1>5 DEF HandlerCallbackDone, idle
  <2>2. ListsTypeOK'
    BY <1>1, <1>3, <2>1 DEF IInv, ListsTypeOK
  <2>3. Distinct(fired') /\ InList(fired') = InList(fired)
    BY <1>2, <2>1 DEF Distinct, InList
  <2>4. ASSUME NEW u \in Timers
        PROVE  /\ u \in InList(active') <=> state'[u] = "ACTIVE"
               /\ u \in InList(fired') <=> state'[u] = "FIRED"
               /\ u \in InList(free') \cup taken' <=> state'[u] = "FREE"
               /\ u \notin InList(free') \cap taken'
               /\ state'[u] # "CALLBACK"
    BY <1>1, <1>3, <1>4, <2>1, <2>3 DEF IInv, ListsAgree
  <2>5. ListsAgree'
    BY <1>4, <2>3, <2>4 DEF ListsAgree
  <2> QED BY <1>1, <1>5, <2>1, <2>2, <2>5 DEF IInv, FiredServed, RunsIffActive
<1>6. CASE fired # <<>>
  <2>1. /\ state' = [idle EXCEPT ![Head(fired)] = "CALLBACK"]
        /\ cur' = Head(fired) /\ fired' = Tail(fired) /\ isr' = "callback"
    BY <1>1, <1>6 DEF HandlerCallbackDone, idle
  <2>2. /\ Head(fired) \in Timers /\ Head(fired) \in InList(fired)
        /\ fired' \in Seq(Timers) /\ Distinct(fired')
        /\ InList(fired') = InList(fired) \ {Head(fired)}
    BY <1>2, <1>6, <2>1, PopProperties
  <2>3. ListsTypeOK'
    BY <1>1, <1>3, <2>1, <2>2 DEF IInv, ListsTypeOK, HWTIMER_STATE_T
  <2>4. state[Head(fired)] = "FIRED"
    BY <2>2 DEF IInv, ListsAgree
  <2>5. ASSUME NEW u \in Timers
        PROVE  /\ u \in InList(active') <=> state'[u] = "ACTIVE"
               /\ u \in InList(fired') <=> state'[u] = "FIRED"
               /\ u \in InList(free') \cup taken' <=> state'[u] = "FREE"
               /\ u \notin InList(free') \cap taken'
               /\ state'[u] = "CALLBACK" => isr' = "callback" /\ cur' = u
    <3>1. state'[u] = IF u = Head(fired) THEN "CALLBACK" ELSE idle[u]
      BY <1>3, <2>1
    <3> QED BY <1>1, <1>3, <1>4, <2>1, <2>2, <2>4, <3>1 DEF IInv, ListsAgree
  <2>6. ListsAgree'
    BY <1>4, <2>2, <2>5 DEF ListsAgree
  <2> QED BY <1>1, <2>1, <2>2, <2>3, <2>6 DEF IInv, FiredServed, RunsIffActive
<1> QED BY <1>5, <1>6

\* Every step keeps the invariant.
LEMMA StepIInv == IInv /\ [Next]_vars => IInv'
<1> SUFFICES ASSUME IInv, [Next]_vars PROVE IInv'
  OBVIOUS
<1>1. CASE Tick \/ IrqEnter \/ HandlerSpurious
  BY <1>1, ClockStep
<1>2. CASE HandlerExpire
  BY <1>2, HandlerExpireStep
<1>3. CASE HandlerCallbackDone
  BY <1>3, HandlerCallbackDoneStep
<1>4. CASE hwtimer_alloc
  BY <1>4, AllocStep
<1>5. ASSUME NEW t \in Timers, AllocInit(t) \/ hwtimer_free(t) PROVE IInv'
  BY <1>5, AllocFreeStep
<1>6. ASSUME NEW t \in Timers, hwtimer_stop(t) PROVE IInv'
  BY <1>6, StopHeadStep, StopBehindStep, StopFiredStep DEF hwtimer_stop
<1>7. ASSUME NEW t \in Timers, NEW n \in 0 .. MaxTicks, hwtimer_start(t, n) PROVE IInv'
  BY <1>7, StartStep
<1>8. CASE UNCHANGED vars
  <2>1. UNCHANGED <<state, free, active, fired, taken, isr, cur, enabled, pending, halted>>
    BY <1>8 DEF vars, lists, hal
  <2>2. ListsTypeOK' /\ FiredServed' /\ RunsIffActive'
    BY <2>1 DEF IInv, ListsTypeOK, FiredServed, RunsIffActive
  <2>3. ListsAgree'
    BY <2>1 DEF IInv, ListsAgree, Distinct, InList
  <2> QED BY <2>2, <2>3 DEF IInv
<1> QED
  BY <1>1, <1>2, <1>3, <1>4, <1>5, <1>6, <1>7, <1>8 DEF Next, Handler, Api

-----------------------------------------------------------------------------
(***************************************************************************)
(* The counter.  The asserts look at it at two moments, when it is below   *)
(* the head's delta and when it has run out; what holds in between is that *)
(* it never lags behind the clock by more than hal_timer_reload took off,  *)
(* and that while it runs it says exactly how long the head has to go.     *)
(***************************************************************************)
HeadCounted ==
    active # <<>> =>
      /\ value <= time[Head(active)] \/ value <= HAL_TIMER_LOAD_DELTA
      /\ value + elapsed + HAL_TIMER_LOAD_DELTA >= time[Head(active)]
      /\ value > 0 => value + elapsed = Load(time[Head(active)])

ClockTyped == time \in [Timers -> Nat] /\ value \in Nat /\ elapsed \in Nat

CInv == ClockTyped /\ HeadCounted /\ WakeUpComing

\* A delta for each timer, and their sums along a list
Deltas == [Timers -> Nat]

SumOver(tm, s) ==
    LET sum[i \in 0 .. Len(s)] == IF i = 0 THEN 0 ELSE sum[i - 1] + tm[s[i]]
    IN  sum

\* The sums of deltas are numbers, and add up.
LEMMA SumOverProperties ==
    ASSUME NEW tm \in Deltas, NEW s \in Seq(Timers)
    PROVE  \A i \in 0 .. Len(s) :
             /\ SumOver(tm, s)[i] \in Int
             /\ SumOver(tm, s)[i] = IF i = 0 THEN 0 ELSE SumOver(tm, s)[i - 1] + tm[s[i]]
<1> DEFINE f == [i \in 1 .. Len(s) |-> tm[s[i]]]
<1>1. Len(s) \in Nat /\ \A i \in 1 .. Len(s) : s[i] \in Timers
  BY LenProperties
<1>2. \A i \in 1 .. Len(s) : f[i] \in Int /\ f[i] = tm[s[i]]
  BY <1>1 DEF Deltas
<1> HIDE DEF f
<1>3. PICK g \in [0 .. Len(s) -> Int] :
         g = [i \in 0 .. Len(s) |-> IF i = 0 THEN 0 ELSE g[i - 1] + f[i]]
  BY <1>1, <1>2, PartialSums
<1>4. g = [i \in 0 .. Len(s) |-> IF i = 0 THEN 0 ELSE g[i - 1] + tm[s[i]]]
  <2>1. \A i \in 0 .. Len(s) : i # 0 => f[i] = tm[s[i]]
    BY <1>1, <1>2
  <2> QED BY <1>3, <2>1
<1>5. SumOver(tm, s) = [i \in 0 .. Len(s) |->
                           IF i = 0 THEN 0 ELSE SumOver(tm, s)[i - 1] + tm[s[i]]]
  BY <1>4 DEF SumOver
<1> DEFINE S == SumOver(tm, s)
<1> HIDE DEF S
<1>6. S = [i \in 0 .. Len(s) |-> IF i = 0 THEN 0 ELSE S[i - 1] + tm[s[i]]]
  BY <1>5 DEF S
<1>7. \A i \in 0 .. Len(s) : S[i] = IF i = 0 THEN 0 ELSE S[i - 1] + tm[s[i]]
  BY <1>6
<1> DEFINE T == {n \in Nat : n <= Len(s) => S[n] \in Int}
<1>8. 0 \in T
  BY <1>1, <1>7
<1>9. ASSUME NEW n \in Nat, n \in T PROVE n + 1 \in T
  <2> SUFFICES ASSUME n + 1 <= Len(s) PROVE S[n + 1] \in Int
    OBVIOUS
  <2>1. S[n] \in Int /\ S[n + 1] = S[n] + tm[s[n + 1]]
    BY <1>1, <1>7, <1>9
  <2>2. tm[s[n + 1]] \in Int
    BY <1>1, <1>9 DEF Deltas
  <2> QED BY <2>1, <2>2
<1> HIDE DEF T
<1>10. \A n \in Nat : n \in T
  BY <1>8, <1>9, AllNumbers
<1>11. \A i \in 0 .. Len(s) : S[i] \in Int
  BY <1>1, <1>10 DEF T
<1> QED BY <1>7, <1>11 DEF S

\* The sums are those of the model.
LEMMA SumIsSumOver ==
    ASSUME NEW s
    PROVE  Sum(s) = SumOver(time, s)
BY DEF Sum, SumOver

\* The same for the sums of the model.
LEMMA SumProperties ==
    ASSUME time \in [Timers -> Nat], NEW s \in Seq(Timers)
    PROVE  \A i \in 0 .. Len(s) :
             /\ Sum(s)[i] \in Int
             /\ Sum(s)[i] = IF i = 0 THEN 0 ELSE Sum(s)[i - 1] + time[s[i]]
BY SumOverProperties, SumIsSumOver DEF Deltas

\* hal_timer_start programs a count that is positive, and at most one tick short.
LEMMA LoadProperties ==
    ASSUME NEW n \in Nat
    PROVE  /\ Load(n) \in Nat \ {0}
           /\ Load(n) <= n \/ Load(n) <= HAL_TIMER_LOAD_DELTA
           /\ Load(n) + HAL_TIMER_LOAD_DELTA >= n
BY DEF Load, HAL_TIMER_LOAD_DELTA

\* The hardware timer is set for the head with the head's delta.
LEMMA SetForHead ==
    ASSUME NEW n \in Nat, NEW irq, hal_timer_start(n, irq), time' \in [Timers -> Nat],
           active' # <<>> => time'[Head(active')] = n
    PROVE  CInv'
<1>1. value' = Load(n) /\ elapsed' = 0
  BY DEF hal_timer_start
<1>2. /\ value' \in Nat \ {0}
      /\ value' <= n \/ value' <= HAL_TIMER_LOAD_DELTA
      /\ value' + HAL_TIMER_LOAD_DELTA >= n
      /\ value' + elapsed' = Load(n)
  BY <1>1, LoadProperties
<1> QED BY <1>1, <1>2 DEF CInv, ClockTyped, HeadCounted, WakeUpComing, HAL_TIMER_LOAD_DELTA

\* The hardware timer is stopped with the last timer.
LEMMA StoppedWithLast ==
    ASSUME CInv, hal_timer_stop, time' \in [Timers -> Nat], active' = <<>>
    PROVE  CInv'
BY DEF CInv, ClockTyped, HeadCounted, WakeUpComing, hal_timer_stop

\* The hardware timer and the head stay as they are.
LEMMA HeadStays ==
    ASSUME CInv, UNCHANGED <<hal, isr>>, time' \in [Timers -> Nat],
           active' # <<>> => /\ active # <<>>
                             /\ time'[Head(active')] = time[Head(active)]
    PROVE  CInv'
BY DEF CInv, ClockTyped, HeadCounted, WakeUpComing, hal

\* At the start no timer is counted.
LEMMA InitCInv == Init => CInv
BY DEF Init, CInv, ClockTyped, HeadCounted, WakeUpComing

\* A tick that brings the counter to zero raises the interrupt.
LEMMA TickCounted ==
    ASSUME IInv, CInv, Tick
    PROVE  CInv'
<1>1. /\ UNCHANGED <<time, active, isr, enabled>>
      /\ value' = IF value > 0 THEN value - 1 ELSE 0
      /\ elapsed' = elapsed + 1 /\ enabled
  BY DEF Tick, lists
<1>2. value \in Nat /\ elapsed \in Nat
  BY DEF CInv, ClockTyped
<1>3. /\ value' \in Nat /\ elapsed' \in Nat /\ value' <= value
      /\ value' + elapsed' >= value + elapsed
      /\ value' = 0 => value = 0 \/ value = 1
  BY <1>1, <1>2
<1>4. ClockTyped'
  BY <1>1, <1>3 DEF CInv, ClockTyped
<1>5. HeadCounted'
  <2> SUFFICES ASSUME active # <<>>
               PROVE  /\ value' <= time[Head(active)] \/ value' <= HAL_TIMER_LOAD_DELTA
                      /\ value' + elapsed' + HAL_TIMER_LOAD_DELTA >= time[Head(active)]
                      /\ value' > 0 => value' + elapsed' = Load(time[Head(active)])
    BY <1>1 DEF HeadCounted
  <2> DEFINE n == time[Head(active)]
  <2>1. /\ value <= n \/ value <= HAL_TIMER_LOAD_DELTA
        /\ value + elapsed + HAL_TIMER_LOAD_DELTA >= n
        /\ value > 0 => value + elapsed = Load(n)
    BY DEF CInv, HeadCounted
  <2>2. n \in Nat
    BY PopProperties DEF IInv, ListsTypeOK, ListsAgree, CInv, ClockTyped
  <2> HIDE DEF n
  <2>3. /\ value' <= n \/ value' <= HAL_TIMER_LOAD_DELTA
        /\ value' + elapsed' + HAL_TIMER_LOAD_DELTA >= n
    <3>1. \A v, e \in Nat : v <= value /\ v + e >= value + elapsed =>
             /\ v <= n \/ v <= HAL_TIMER_LOAD_DELTA
             /\ v + e + HAL_TIMER_LOAD_DELTA >= n
      BY <1>2, <2>1, <2>2 DEF HAL_TIMER_LOAD_DELTA
    <3> QED BY <1>3, <3>1
  <2>4. value' > 0 => value > 0 /\ value' + elapsed' = value + elapsed
    BY <1>1, <1>2
  <2> QED BY <2>1, <2>3, <2>4 DEF n
<1>6. WakeUpComing'
  <2> SUFFICES ASSUME value' = 0 PROVE pending' \/ isr' = "entered"
    BY DEF WakeUpComing
  <2>0. pending \/ value = 1 => pending'
    BY Zenon DEF Tick
  <2>1. CASE value = 0
    <3>1. pending \/ isr = "entered"
      BY <1>1, <2>1 DEF CInv, WakeUpComing
    <3> QED BY <1>1, <2>0, <3>1
  <2>2. CASE value = 1
    BY <2>0, <2>2
  <2>3. value = 0 \/ value = 1
    BY <1>3
  <2> QED BY <2>1, <2>2, <2>3
<1> QED BY <1>4, <1>5, <1>6 DEF CInv

\* What is active is a list of timers, each once.
LEMMA ActiveList ==
    ASSUME IInv, active # <<>>
    PROVE  /\ active \in Seq(Timers) /\ Distinct(active)
           /\ Len(active) \in Nat \ {0}
           /\ \A i \in 1 .. Len(active) : active[i] \in Timers
           /\ Head(active) = active[1] /\ Head(active) \in Timers
           /\ Tail(active) = SubSeq(active, 2, Len(active))
<1>1. active \in Seq(Timers) /\ Distinct(active)
  BY DEF IInv, ListsTypeOK, ListsAgree
<1>2. /\ Len(active) \in Nat \ {0}
      /\ \A i \in 1 .. Len(active) : active[i] \in Timers
  BY <1>1, EmptySeq, LenProperties
<1>3. /\ Head(active) = active[1] /\ Head(active) \in Timers
      /\ Tail(active) = SubSeq(active, 2, Len(active))
  BY <1>1, PopProperties, TailIsSubSeq
<1> QED BY <1>1, <1>2, <1>3

\* The head of what is behind the k-th timer is the next one.
LEMMA HeadBehind ==
    ASSUME IInv, active # <<>>, NEW k \in 1 .. Len(active), k < Len(active)
    PROVE  Head(SubSeq(active, k + 1, Len(active))) = active[k + 1]
<1>1. active \in Seq(Timers) /\ Len(active) \in Nat
      /\ \A i \in 1 .. Len(active) : active[i] \in Timers
  BY ActiveList
<1> DEFINE w == SubSeq(active, k + 1, Len(active))
<1>2. /\ w \in Seq(Timers)
      /\ Len(w) = Len(active) - k
      /\ w[1] = active[k + 1]
  <2>1. \A i \in k + 1 .. Len(active) : active[i] \in Timers
    BY <1>1
  <2>2. /\ w \in Seq(Timers)
        /\ Len(w) = IF k + 1 <= Len(active) THEN Len(active) - (k + 1) + 1 ELSE 0
        /\ \A i \in 1 .. Len(active) - (k + 1) + 1 : w[i] = active[(k + 1) + i - 1]
    BY <1>1, <2>1, SubSeqProperties
  <2> HIDE DEF w
  <2> QED BY <1>1, <2>2
<1> HIDE DEF w
<1>3. w # <<>>
  BY <1>1, <1>2, EmptySeq
<1>4. Head(w) = w[1]
  BY <1>2, <1>3, HeadTailProperties
<1> QED BY <1>2, <1>4 DEF w

\* The distance of a timer from the head is a number, and that of the head is 0.
LEMMA AfterHead ==
    ASSUME IInv, ClockTyped, active # <<>>
    PROVE  LET after == [i \in 1 .. Len(active) |-> Sum(active)[i] - Sum(active)[1]]
           IN  after[1] = 0 /\ \A i \in 1 .. Len(active) : after[i] \in Int
<1>1. active \in Seq(Timers) /\ Len(active) \in Nat \ {0}
  BY ActiveList
<1>2. \A i \in 0 .. Len(active) : Sum(active)[i] \in Int
  BY <1>1, SumProperties DEF ClockTyped
<1> DEFINE S == Sum(active)
<1> HIDE DEF S
<1>3. \A i \in 1 .. Len(active) : S[i] \in Int
  BY <1>1, <1>2 DEF S
<1> QED BY <1>1, <1>3 DEF S

\* The interrupt is taken: what it was raised for is now the handler's concern,
\* and it does not return early when the counter has run out.
LEMMA EnterCounted ==
    ASSUME IInv, CInv, IrqEnter \/ HandlerSpurious
    PROVE  CInv'
<1>1. UNCHANGED <<time, active, value, elapsed, enabled>>
  BY DEF IrqEnter, HandlerSpurious, lists, hal
<1>2. ClockTyped' /\ HeadCounted'
  BY <1>1 DEF CInv, ClockTyped, HeadCounted
<1>3. CASE IrqEnter
  <2>1. isr' = "entered"
    BY <1>3 DEF IrqEnter
  <2> QED BY <1>2, <2>1 DEF CInv, WakeUpComing
<1>4. CASE HandlerSpurious
  <2> SUFFICES ASSUME enabled, value = 0 PROVE FALSE
    BY <1>1, <1>2, <1>4 DEF CInv, WakeUpComing
  <2>1. active # <<>>
    BY DEF IInv, RunsIffActive
  <2>2. time[Head(active)] > elapsed + HAL_TIMER_LOAD_DELTA
    BY <1>4, <2>1 DEF HandlerSpurious, Spurious
  <2>3. /\ elapsed + HAL_TIMER_LOAD_DELTA >= time[Head(active)]
        /\ elapsed \in Nat /\ time[Head(active)] \in Nat
    BY <2>1, ActiveList DEF CInv, HeadCounted, ClockTyped, HAL_TIMER_LOAD_DELTA
  <2> QED BY <2>2, <2>3 DEF HAL_TIMER_LOAD_DELTA
<1> QED BY <1>3, <1>4

\* The handler sets the hardware timer for the next timer, or stops it.
LEMMA ExpireCounted ==
    ASSUME IInv, CInv, HandlerExpire
    PROVE  CInv'
<1> DEFINE over == IF elapsed > time[Head(active)]
                   THEN elapsed - time[Head(active)] ELSE 0
           after == [i \in 1 .. Len(active) |-> Sum(active)[i] - Sum(active)[1]]
<1>1. active # <<>>
  BY DEF HandlerExpire, Spurious
<1>2. /\ Len(active) \in Nat \ {0}
      /\ \A i \in 1 .. Len(active) : active[i] \in Timers
      /\ Head(active) \in Timers /\ active \in Seq(Timers)
  BY <1>1, ActiveList
<1>3. over \in Nat
  BY <1>2 DEF CInv, ClockTyped
<1>4. \A i \in 1 .. Len(active) : after[i] \in Int
  BY <1>1, AfterHead DEF CInv
<1>5. PICK k \in 1 .. Len(active) :
        /\ k < Len(active) => after[k + 1] > over
        /\ active' = SubSeq(active, k + 1, Len(active))
        /\ LET left == [t \in Timers |->
                          IF \E i \in 1 .. k : t = active[i] THEN 0 ELSE time[t]]
           IN  IF k < Len(active)
               THEN /\ time' = [left EXCEPT ![active[k + 1]] = after[k + 1] - over]
                    /\ hal_timer_start(after[k + 1] - over, pending)
               ELSE /\ time' = left
                    /\ hal_timer_stop
  BY DEF HandlerExpire
<1> HIDE DEF over, after
<1> DEFINE left == [t \in Timers |-> IF \E i \in 1 .. k : t = active[i] THEN 0 ELSE time[t]]
<1>6. left \in [Timers -> Nat]
  BY DEF CInv, ClockTyped
<1>7. CASE k < Len(active)
  <2>1. k + 1 \in 1 .. Len(active) /\ after[k + 1] - over \in Nat
    BY <1>2, <1>3, <1>4, <1>5, <1>7
  <2>2. /\ time' = [left EXCEPT ![active[k + 1]] = after[k + 1] - over]
        /\ hal_timer_start(after[k + 1] - over, pending)
    BY <1>5, <1>7
  <2> HIDE DEF left
  <2>3. /\ time' \in [Timers -> Nat]
        /\ time'[active[k + 1]] = after[k + 1] - over
    BY <1>2, <1>6, <2>1, <2>2
  <2>4. Head(active') = active[k + 1]
    BY <1>1, <1>5, <1>7, HeadBehind
  <2> QED BY <2>1, <2>2, <2>3, <2>4, SetForHead
<1>8. CASE ~(k < Len(active))
  <2>1. time' = left /\ hal_timer_stop
    BY <1>5, <1>8
  <2>2. active' = <<>>
    <3>1. k + 1 > Len(active)
      BY <1>2, <1>8
    <3> QED BY <1>2, <1>5, <3>1, SubSeqProperties, EmptySeq
  <2> QED BY <1>6, <2>1, <2>2, StoppedWithLast
<1> QED BY <1>7, <1>8

\* Serving callbacks, handing out timers and taking them back, and stopping one
\* that has fired leave the hardware timer alone.
LEMMA OthersCounted ==
    ASSUME CInv,
           \/ HandlerCallbackDone \/ hwtimer_alloc
           \/ \E t \in Timers : AllocInit(t) \/ hwtimer_free(t) \/ StopFired(t)
    PROVE  CInv'
<1>1. /\ UNCHANGED <<time, active, hal>>
      /\ isr' = isr \/ isr # "entered"
  BY DEF HandlerCallbackDone, hwtimer_alloc, AllocInit, hwtimer_free, StopFired, lists
<1> QED BY <1>1 DEF CInv, ClockTyped, HeadCounted, WakeUpComing, hal

\* A timer that is started becomes the head, and the hardware timer is set for
\* it, or it takes its place behind the head, which keeps its delta.
LEMMA StartCounted ==
    ASSUME IInv, CInv, NEW t \in Timers, NEW n \in 0 .. MaxTicks, hwtimer_start(t, n)
    PROVE  CInv'
<1> DEFINE ticks == IF n < HAL_TIMER_LOAD_DELTA THEN HAL_TIMER_LOAD_DELTA ELSE n
           after == [i \in 1 .. Len(active) |-> Sum(active)[i] - Sum(active)[1]]
           left == ticks - value
<1>1. ticks \in Nat /\ left \in Int /\ value \in Nat /\ time \in [Timers -> Nat]
  BY HwTimerAssumption DEF HAL_TIMER_LOAD_DELTA, CInv, ClockTyped
<1>2. \/ /\ active = <<>> /\ active' = <<t>>
         /\ time' = [time EXCEPT ![t] = ticks]
         /\ hal_timer_start(ticks, pending)
      \/ /\ active # <<>> /\ value > ticks
         /\ active' = <<t>> \o active
         /\ time' = [time EXCEPT ![t] = ticks, ![Head(active)] = value - ticks]
         /\ hal_timer_start(ticks, FALSE)
      \/ /\ active # <<>> /\ value <= ticks
         /\ \E k \in 1 .. Len(active) :
              /\ \A i \in 2 .. k : after[i] < left
              /\ k < Len(active) => after[k + 1] >= left
              /\ active' = InsertAfter(active, k, t)
              /\ time' = [u \in Timers |->
                   IF u = t THEN left - after[k]
                   ELSE IF k < Len(active) /\ u = active[k + 1]
                   THEN after[k + 1] - left ELSE time[u]]
         /\ UNCHANGED hal
  BY DEF hwtimer_start
<1>3. isr' = isr /\ t \notin InList(active)
  BY DEF hwtimer_start, IInv, ListsAgree
<1>4. active # <<>> => after[1] = 0 /\ \A i \in 1 .. Len(active) : after[i] \in Int
  BY AfterHead DEF CInv
<1> HIDE DEF ticks, after, left
<1>5. CASE /\ active = <<>> /\ active' = <<t>>
           /\ time' = [time EXCEPT ![t] = ticks]
           /\ hal_timer_start(ticks, pending)
  <2>1. time' \in [Timers -> Nat] /\ time'[Head(active')] = ticks
    BY <1>1, <1>5
  <2> QED BY <1>1, <1>5, <2>1, SetForHead
<1>6. CASE /\ active # <<>> /\ value > ticks
           /\ active' = <<t>> \o active
           /\ time' = [time EXCEPT ![t] = ticks, ![Head(active)] = value - ticks]
           /\ hal_timer_start(ticks, FALSE)
  <2>1. Head(active) \in Timers /\ Head(active) # t
    BY <1>3, <1>6, PopProperties, ActiveList
  <2>2. Head(active') = t
    <3>1. active \in Seq(Timers)
      BY <1>6, ActiveList
    <3>2. <<t>> \o active \in Seq(Timers) /\ <<t>> \o active # <<>>
      BY <1>3, <3>1, PushProperties DEF IInv, ListsAgree
    <3>3. (<<t>> \o active)[1] = t
      <4>1. <<t>> \in Seq(Timers) /\ Len(<<t>>) = 1 /\ <<t>>[1] = t /\ Len(active) \in Nat
        BY <3>1, LenProperties
      <4>2. 1 \in 1 .. Len(<<t>>) + Len(active)
        BY <4>1
      <4> QED BY <3>1, <4>1, <4>2, ConcatProperties
    <3>4. Head(<<t>> \o active) = (<<t>> \o active)[1]
      BY <3>2, HeadTailProperties
    <3> QED BY <1>6, <3>3, <3>4
  <2>3. time' \in [Timers -> Nat] /\ time'[t] = ticks
    <3>1. value - ticks \in Nat
      BY <1>1, <1>6
    <3>2. time' = [time EXCEPT ![t] = ticks, ![Head(active)] = value - ticks]
      BY <1>6
    <3> QED BY <1>1, <2>1, <3>1, <3>2
  <2> QED BY <1>1, <1>6, <2>2, <2>3, SetForHead
<1>7. CASE /\ active # <<>> /\ value <= ticks
           /\ \E k \in 1 .. Len(active) :
                /\ \A i \in 2 .. k : after[i] < left
                /\ k < Len(active) => after[k + 1] >= left
                /\ active' = InsertAfter(active, k, t)
                /\ time' = [u \in Timers |->
                     IF u = t THEN left - after[k]
                     ELSE IF k < Len(active) /\ u = active[k + 1]
                     THEN after[k + 1] - left ELSE time[u]]
           /\ UNCHANGED hal
  <2>1. PICK k \in 1 .. Len(active) :
          /\ \A i \in 2 .. k : after[i] < left
          /\ k < Len(active) => after[k + 1] >= left
          /\ active' = InsertAfter(active, k, t)
          /\ time' = [u \in Timers |->
               IF u = t THEN left - after[k]
               ELSE IF k < Len(active) /\ u = active[k + 1]
               THEN after[k + 1] - left ELSE time[u]]
    BY <1>7
  <2>2. /\ active \in Seq(Timers) /\ Distinct(active) /\ Len(active) \in Nat \ {0}
        /\ \A i \in 1 .. Len(active) : active[i] \in Timers
        /\ Head(active) = active[1] /\ Head(active) \in Timers
    BY <1>7, ActiveList
  <2>3. left - after[k] \in Nat
    <3>1. CASE k = 1
      BY <1>1, <1>4, <1>7, <3>1 DEF left
    <3>2. CASE k # 1
      <4>1. after[k] < left
        BY <2>1, <2>2, <3>2
      <4> QED BY <1>1, <1>4, <1>7, <4>1
    <3> QED BY <3>1, <3>2
  <2>4. k < Len(active) => after[k + 1] - left \in Nat
    BY <1>1, <1>4, <1>7, <2>1, <2>2, SMTT(30)
  <2>5. time' \in [Timers -> Nat]
    BY <1>1, <2>1, <2>3, <2>4
  <2>6. Head(active) # t /\ (k < Len(active) => Head(active) # active[k + 1])
    <3>1. active[1] \in InList(active)
      BY <2>2 DEF InList
    <3> QED BY <1>3, <2>2, <3>1 DEF Distinct
  <2>7. time'[Head(active)] = time[Head(active)]
    BY <2>1, <2>2, <2>6
  <2>8. Head(active') = Head(active)
    BY <1>3, <2>1, <2>2, InsertAfterProperties, InsertAfterHead
  <2> QED BY <1>3, <1>7, <2>5, <2>7, <2>8, HeadStays
<1> QED BY <1>2, <1>5, <1>6, <1>7

\* A timer behind the head hands its delta on; the head keeps its own.
LEMMA StopBehindCounted ==
    ASSUME IInv, CInv, NEW t \in Timers, StopBehind(t)
    PROVE  CInv'
<1> DEFINE k == Position(active, t)
<1>1. state[t] = "ACTIVE" /\ Head(active) # t /\ UNCHANGED <<hal, isr>>
  BY DEF StopBehind
<1>2. t \in InList(active) /\ active \in Seq(Timers) /\ Distinct(active)
  BY <1>1 DEF IInv, ListsTypeOK, ListsAgree
<1>3. k \in 1 .. Len(active) /\ active[k] = t
  BY <1>2, PositionProperties
<1>4. active # <<>>
  BY <1>2 DEF InList
<1>5. /\ Len(active) \in Nat \ {0}
      /\ \A i \in 1 .. Len(active) : active[i] \in Timers
      /\ Head(active) = active[1] /\ Head(active) \in Timers
  BY <1>4, ActiveList
<1>6. time \in [Timers -> Nat]
  BY DEF CInv, ClockTyped
<1> HIDE DEF k
<1>7. CASE UNCHANGED <<active, time>>
  BY <1>1, <1>6, <1>7, HeadStays
<1>8. CASE /\ active' = Without(active, k)
           /\ time' = IF k < Len(active)
                      THEN [time EXCEPT ![t] = 0, ![active[k + 1]] = @ + time[t]]
                      ELSE [time EXCEPT ![t] = 0]
  <2>1. k # 1
    BY <1>1, <1>3, <1>5
  <2>2. k < Len(active) => k + 1 \in 1 .. Len(active) /\ active[k + 1] \in Timers
                           /\ active[k + 1] # Head(active) /\ active[k + 1] # t
    BY <1>2, <1>3, <1>5 DEF Distinct
  <2>3. time' \in [Timers -> Nat] /\ time'[Head(active)] = time[Head(active)]
    <3>1. CASE k < Len(active)
      BY <1>1, <1>5, <1>6, <1>8, <2>2, <3>1, SMTT(30)
    <3>2. CASE ~(k < Len(active))
      BY <1>1, <1>5, <1>6, <1>8, <3>2
    <3> QED BY <3>1, <3>2
  <2>4. Head(active') = Head(active)
    BY <1>2, <1>3, <1>8, <2>1, WithoutHead
  <2> QED BY <1>1, <1>4, <2>3, <2>4, HeadStays
<1> QED BY <1>7, <1>8 DEF StopBehind, k

\* Stopping the head sets the hardware timer for the next timer, or stops it.
LEMMA StopHeadCounted ==
    ASSUME IInv, CInv, NEW t \in Timers, StopHead(t)
    PROVE  CInv'
<1> DEFINE over == IF elapsed > time[t] THEN elapsed - time[t] ELSE 0
           after == [i \in 1 .. Len(active) |-> Sum(active)[i] - Sum(active)[1]]
           next == active[2]
<1>1. /\ state[t] = "ACTIVE" /\ Head(active) = t
      /\ active' = Tail(active)
  BY DEF StopHead
<1>2. t \in InList(active) /\ time \in [Timers -> Nat] /\ value \in Nat /\ elapsed \in Nat
  BY <1>1 DEF IInv, ListsAgree, CInv, ClockTyped
<1>3. active # <<>>
  BY <1>2 DEF InList
<1>4. /\ active \in Seq(Timers) /\ Distinct(active) /\ Len(active) \in Nat \ {0}
      /\ \A i \in 1 .. Len(active) : active[i] \in Timers
      /\ active[1] = t
      /\ active' = SubSeq(active, 1 + 1, Len(active))
  BY <1>1, <1>3, ActiveList
<1>5. Len(active) > 1 => Head(active') = next /\ next \in Timers /\ next # t
  <2>1. Len(active) > 1 => 1 \in 1 .. Len(active) /\ 1 < Len(active)
    BY <1>4
  <2>2. Len(active) > 1 => Head(active') = next
    BY <1>3, <1>4, <2>1, HeadBehind
  <2> QED BY <1>4, <2>2 DEF Distinct
<1>6. \A i \in 1 .. Len(active) : after[i] \in Int
  BY <1>3, AfterHead DEF CInv
<1>7. over \in Nat
  BY <1>2
<1>8. \/ /\ Len(active) = 1
         /\ hal_timer_stop
         /\ time' = [time EXCEPT ![t] = 0]
      \/ /\ Len(active) > 1 /\ value > 0
         /\ time' = [time EXCEPT ![t] = 0, ![next] = @ + value]
         /\ hal_timer_start(time'[next], FALSE)
      \/ /\ Len(active) > 1 /\ value = 0
         /\ time' = [u \in Timers |->
              IF \E i \in 2 .. Len(active) : active[i] = u
              THEN LET i == Position(active, u)
                   IN  IF after[i] <= over THEN 0
                       ELSE IF after[i - 1] <= over THEN after[i] - over
                       ELSE time[u]
              ELSE 0]
         /\ hal_timer_start(time'[next], FALSE)
  BY DEF StopHead
<1> HIDE DEF over, after, next
<1>9. CASE /\ Len(active) = 1
           /\ hal_timer_stop
           /\ time' = [time EXCEPT ![t] = 0]
  <2>1. active' = <<>>
    BY <1>4, <1>9, SubSeqProperties, EmptySeq
  <2> QED BY <1>2, <1>9, <2>1, StoppedWithLast
<1>10. CASE /\ Len(active) > 1 /\ value > 0
            /\ time' = [time EXCEPT ![t] = 0, ![next] = @ + value]
            /\ hal_timer_start(time'[next], FALSE)
  <2>1. time' \in [Timers -> Nat]
    BY <1>2, <1>5, <1>10
  <2>2. time'[next] \in Nat
    BY <1>5, <1>10, <2>1
  <2> QED BY <1>5, <1>10, <2>1, <2>2, SetForHead
<1>11. CASE /\ Len(active) > 1
            /\ time' = [u \in Timers |->
                 IF \E i \in 2 .. Len(active) : active[i] = u
                 THEN LET i == Position(active, u)
                      IN  IF after[i] <= over THEN 0
                          ELSE IF after[i - 1] <= over THEN after[i] - over
                          ELSE time[u]
                 ELSE 0]
            /\ hal_timer_start(time'[next], FALSE)
  <2>1. ASSUME NEW u \in Timers, \E i \in 2 .. Len(active) : active[i] = u,
               ~(after[Position(active, u)] <= over)
        PROVE  after[Position(active, u)] - over \in Nat
    <3>1. u \in InList(active)
      BY <1>4, <2>1 DEF InList
    <3>2. Position(active, u) \in 1 .. Len(active)
      BY <1>4, <3>1, PositionProperties
    <3> DEFINE p == Position(active, u)
    <3> HIDE DEF p
    <3>3. after[p] \in Int /\ ~(after[p] <= over)
      BY <1>6, <2>1, <3>2 DEF p
    <3>4. after[p] - over \in Nat
      BY <1>7, <3>3
    <3> QED BY <3>4 DEF p
  <2>2. time' \in [Timers -> Nat]
    BY <1>2, <1>11, <2>1
  <2>3. time'[next] \in Nat
    BY <1>5, <1>11, <2>2
  <2> QED BY <1>5, <1>11, <2>2, <2>3, SetForHead
<1> QED BY <1>8, <1>9, <1>10, <1>11

\* Every step keeps what the counter promises.
LEMMA StepCInv == IInv /\ CInv /\ [Next]_vars => CInv'
<1> SUFFICES ASSUME IInv, CInv, [Next]_vars PROVE CInv'
  OBVIOUS
<1>1. CASE Tick
  BY <1>1, TickCounted
<1>2. CASE IrqEnter \/ HandlerSpurious
  BY <1>2, EnterCounted
<1>3. CASE HandlerExpire
  BY <1>3, ExpireCounted
<1>4. CASE HandlerCallbackDone \/ hwtimer_alloc
  BY <1>4, OthersCounted
<1>5. ASSUME NEW t \in Timers, AllocInit(t) \/ hwtimer_free(t) \/ StopFired(t) PROVE CInv'
  BY <1>5, OthersCounted
<1>6. ASSUME NEW t \in Timers, StopHead(t) \/ StopBehind(t) PROVE CInv'
  BY <1>6, StopHeadCounted, StopBehindCounted
<1>7. ASSUME NEW t \in Timers, NEW n \in 0 .. MaxTicks, hwtimer_start(t, n) PROVE CInv'
  BY <1>7, StartCounted
<1>8. CASE UNCHANGED vars
  BY <1>8 DEF vars, lists, hal, CInv, ClockTyped, HeadCounted, WakeUpComing
<1> QED
  BY <1>1, <1>2, <1>3, <1>4, <1>5, <1>6, <1>7, <1>8
  DEF Next, Handler, Api, hwtimer_stop

(* Whatever the number of timers, the lists agree with the states of the   *)
(* timers in every reachable state.                                        *)
THEOREM ListsAlwaysAgree == Spec => []ListsAgree
<1>1. Init => IInv
  BY InitIInv
<1>2. IInv /\ [Next]_vars => IInv'
  BY StepIInv
<1>3. IInv => ListsAgree
  BY DEF IInv
<1> QED BY <1>1, <1>2, <1>3, PTL DEF Spec

\* The counter's invariant rests on that of the lists.
LEMMA BothInvariants == Spec => [](IInv /\ CInv)
<1>1. Init => IInv /\ CInv
  BY InitIInv, InitCInv
<1>2. IInv /\ CInv /\ [Next]_vars => IInv' /\ CInv'
  BY StepIInv, StepCInv
<1> QED BY <1>1, <1>2, PTL DEF Spec

(* Every variable keeps its type; no delta, no count and no distance ever  *)
(* becomes negative (they are unsigned in the code).                       *)
THEOREM TypeCorrect == Spec => []TypeOK
<1>1. IInv /\ CInv => TypeOK
  BY DEF IInv, CInv, ClockTyped, TypeOK
<1> QED BY <1>1, BothInvariants, PTL

(* The asserts on the counter hold whenever a timer is started or stopped: *)
(* it is never ahead of the head, and has run out only at the head's time. *)
THEOREM CounterAlwaysAgrees == Spec => []CounterAgrees
<1>1. ASSUME IInv, CInv PROVE CounterAgrees
  <2> SUFFICES ASSUME active # <<>>
               PROVE  /\ value <= time[Head(active)] \/ value <= HAL_TIMER_LOAD_DELTA
                      /\ value = 0 => elapsed + HAL_TIMER_LOAD_DELTA >= time[Head(active)]
    BY DEF CounterAgrees
  <2> DEFINE n == time[Head(active)]
  <2>1. n \in Nat /\ value \in Nat /\ elapsed \in Nat
    BY <1>1, ActiveList DEF CInv, ClockTyped
  <2>2. /\ value <= n \/ value <= HAL_TIMER_LOAD_DELTA
        /\ value + elapsed + HAL_TIMER_LOAD_DELTA >= n
    BY <1>1 DEF CInv, HeadCounted
  <2> HIDE DEF n
  <2>3. value = 0 => elapsed + HAL_TIMER_LOAD_DELTA >= n
    BY <2>1, <2>2 DEF HAL_TIMER_LOAD_DELTA
  <2> QED BY <2>2, <2>3 DEF n
<1> QED BY <1>1, BothInvariants, PTL

(* Whatever calls slip in between the end of the count, the interrupt and  *)
(* its handler, a counter that has run out has somebody coming for it.     *)
THEOREM WakeUpNeverForgotten == Spec => []WakeUpComing
<1>1. IInv /\ CInv => WakeUpComing
  BY DEF CInv
<1> QED BY <1>1, BothInvariants, PTL

(* The interrupt handler never overwrites a fired list that holds timers,  *)
(* and the asserts it makes about the hardware timer hold.                 *)
THEOREM HandlerAssertsHold == Spec => [](FiredServed /\ RunsIffActive)
<1>1. Init => IInv
  BY InitIInv
<1>2. IInv /\ [Next]_vars => IInv'
  BY StepIInv
<1>3. IInv => FiredServed /\ RunsIffActive
  BY DEF IInv
<1> QED BY <1>1, <1>2, <1>3, PTL DEF Spec

-----------------------------------------------------------------------------
(***************************************************************************)
(* The clock.  The deltas of the list only say when a timer is due counted *)
(* from the last setting of the hardware timer, and only while the head    *)
(* stands; so the proof follows the sums of the deltas along the list.     *)
(* First what each change of the list does to the sums, then what it does  *)
(* to the two margins between a timer's sum and the time it is due.        *)
(***************************************************************************)
\* The first sum is the first delta, and each next one adds a delta.
LEMMA SumSteps ==
    ASSUME NEW tm \in Deltas, NEW s \in Seq(Timers), s # <<>>
    PROVE  /\ Len(s) \in Nat \ {0}
           /\ \A i \in 1 .. Len(s) : s[i] \in Timers /\ tm[s[i]] \in Nat
                                     /\ SumOver(tm, s)[i] \in Int
           /\ SumOver(tm, s)[1] = tm[s[1]]
           /\ \A i \in 1 .. Len(s) - 1 :
                SumOver(tm, s)[i + 1] = SumOver(tm, s)[i] + tm[s[i + 1]]
<1>1. /\ Len(s) \in Nat \ {0}
      /\ \A i \in 1 .. Len(s) : s[i] \in Timers
  BY EmptySeq, LenProperties
<1> DEFINE S == SumOver(tm, s)
<1> HIDE DEF S
<1>2. \A i \in 0 .. Len(s) : S[i] \in Int /\ S[i] = IF i = 0 THEN 0 ELSE S[i - 1] + tm[s[i]]
  BY SumOverProperties DEF S
<1>3. S[1] = tm[s[1]]
  <2>1. 0 \in 0 .. Len(s) /\ 1 \in 0 .. Len(s)
    BY <1>1
  <2>2. S[0] = 0 /\ S[1] = S[0] + tm[s[1]]
    BY <1>2, <2>1
  <2>3. tm[s[1]] \in Nat
    BY <1>1 DEF Deltas
  <2> QED BY <2>2, <2>3
<1>4. ASSUME NEW i \in 1 .. Len(s) - 1 PROVE S[i + 1] = S[i] + tm[s[i + 1]]
  <2>1. i + 1 \in 0 .. Len(s) /\ i + 1 # 0 /\ (i + 1) - 1 = i
    BY <1>1
  <2> QED BY <1>2, <2>1
<1>5. ASSUME NEW i \in 1 .. Len(s) PROVE tm[s[i]] \in Nat /\ S[i] \in Int
  BY <1>1, <1>2 DEF Deltas
<1> QED BY <1>1, <1>3, <1>4, <1>5 DEF S

\* g starts with the first delta and grows by the deltas.
AddsUp(g, tm, s) ==
    /\ \A i \in 1 .. Len(s) : g[i] \in Int
    /\ g[1] = tm[s[1]]
    /\ \A i \in 1 .. Len(s) - 1 : g[i + 1] = g[i] + tm[s[i + 1]]

\* Whatever does so is the sums.
LEMMA SumsAre ==
    ASSUME NEW tm \in Deltas, NEW s \in Seq(Timers), s # <<>>, NEW g, AddsUp(g, tm, s)
    PROVE  \A i \in 1 .. Len(s) : SumOver(tm, s)[i] = g[i]
<1> DEFINE S == SumOver(tm, s)
           T == {n \in Nat : n + 1 <= Len(s) => S[n + 1] = g[n + 1]}
<1> HIDE DEF S
<1>1. /\ Len(s) \in Nat \ {0} /\ S[1] = tm[s[1]]
      /\ \A i \in 1 .. Len(s) - 1 : S[i + 1] = S[i] + tm[s[i + 1]]
  BY SumSteps DEF S
<1>2. 0 \in T
  BY <1>1 DEF AddsUp
<1>3. ASSUME NEW n \in Nat, n \in T PROVE n + 1 \in T
  <2> SUFFICES ASSUME n + 1 + 1 <= Len(s) PROVE S[n + 1 + 1] = g[n + 1 + 1]
    OBVIOUS
  <2>1. n + 1 \in 1 .. Len(s) - 1 /\ S[n + 1] = g[n + 1]
    BY <1>1, <1>3
  <2> QED BY <1>1, <2>1 DEF AddsUp
<1> HIDE DEF T
<1>4. \A n \in Nat : n \in T
  BY <1>2, <1>3, AllNumbers
<1>5. ASSUME NEW i \in 1 .. Len(s) PROVE S[i] = g[i]
  <2>1. i - 1 \in Nat /\ (i - 1) + 1 = i /\ i <= Len(s)
    BY <1>1
  <2>2. i - 1 \in T
    BY <1>4, <2>1
  <2> QED BY <2>1, <2>2 DEF T
<1> QED BY <1>5 DEF S

\* The sums never decrease along the list.
LEMMA SumsGrow ==
    ASSUME NEW tm \in Deltas, NEW s \in Seq(Timers), s # <<>>,
           NEW i \in 1 .. Len(s), NEW j \in i .. Len(s)
    PROVE  SumOver(tm, s)[i] <= SumOver(tm, s)[j]
<1> DEFINE S == SumOver(tm, s)
           T == {n \in Nat : i + n <= Len(s) => S[i] <= S[i + n]}
<1> HIDE DEF S
<1>1. /\ Len(s) \in Nat \ {0}
      /\ \A k \in 1 .. Len(s) : tm[s[k]] \in Nat /\ S[k] \in Int
      /\ \A k \in 1 .. Len(s) - 1 : S[k + 1] = S[k] + tm[s[k + 1]]
  BY SumSteps DEF S
<1>2. 0 \in T
  BY <1>1
<1>3. ASSUME NEW n \in Nat, n \in T PROVE n + 1 \in T
  <2> SUFFICES ASSUME i + (n + 1) <= Len(s) PROVE S[i] <= S[i + (n + 1)]
    OBVIOUS
  <2> DEFINE m == i + n
  <2>1. m \in 1 .. Len(s) - 1 /\ i + (n + 1) = m + 1 /\ S[i] <= S[m]
    BY <1>1, <1>3
  <2> HIDE DEF m
  <2>2. S[m + 1] = S[m] + tm[s[m + 1]] /\ tm[s[m + 1]] \in Nat /\ S[m] \in Int /\ S[i] \in Int
    BY <1>1, <2>1
  <2>3. S[i] <= S[m + 1]
    BY <2>1, <2>2
  <2> QED BY <2>1, <2>3
<1> HIDE DEF T
<1>4. \A n \in Nat : n \in T
  BY <1>2, <1>3, AllNumbers
<1>5. j - i \in Nat /\ i + (j - i) = j
  BY <1>1
<1>6. j - i \in T
  BY <1>4, <1>5
<1>7. i + (j - i) <= Len(s)
  BY <1>1, <1>5
<1>8. S[i] <= S[i + (j - i)]
  BY <1>6, <1>7 DEF T
<1> QED BY <1>5, <1>8 DEF S

\* The k timers at the head are cut off at the sum c.
CutAt(tm, tn, s, k, c) ==
    /\ k < Len(s)
    /\ tn[s[k + 1]] = SumOver(tm, s)[k + 1] - c
    /\ \A i \in k + 2 .. Len(s) : tn[s[i]] = tm[s[i]]

\* w is the rest of s, its sums are lower by c.
Lowered(tm, tn, s, w, k, c) ==
    /\ w # <<>> /\ Len(w) = Len(s) - k
    /\ \A i \in 1 .. Len(w) : /\ w[i] = s[k + i]
                              /\ SumOver(tn, w)[i] = SumOver(tm, s)[k + i] - c

\* A piece at the end of the list: the sums differ by what its first one does.
LEMMA SumsBehind ==
    ASSUME NEW tm \in Deltas, NEW tn \in Deltas,
           NEW s \in Seq(Timers), NEW k \in 1 .. Len(s), NEW c \in Int,
           CutAt(tm, tn, s, k, c)
    PROVE  Lowered(tm, tn, s, SubSeq(s, k + 1, Len(s)), k, c)
<1> DEFINE w == SubSeq(s, k + 1, Len(s))
           S == SumOver(tm, s)
           g == [i \in 1 .. Len(s) - k |-> S[k + i] - c]
<1>9. /\ k < Len(s) /\ tn[s[k + 1]] = SumOver(tm, s)[k + 1] - c
      /\ \A i \in k + 2 .. Len(s) : tn[s[i]] = tm[s[i]]
  BY DEF CutAt
<1>1. /\ Len(s) \in Nat \ {0}
      /\ \A i \in 1 .. Len(s) : s[i] \in Timers /\ tm[s[i]] \in Nat /\ S[i] \in Int
      /\ \A i \in 1 .. Len(s) - 1 : S[i + 1] = S[i] + tm[s[i + 1]]
  <2>1. s # <<>>
    BY EmptySeq
  <2> QED BY <2>1, SumSteps
<1>2. w \in Seq(Timers) /\ Len(w) = Len(s) - k /\ \A i \in 1 .. Len(s) - k : w[i] = s[k + i]
  BY RestElements
<1> HIDE DEF w, S
<1>3. w # <<>>
  BY <1>1, <1>2, <1>9, EmptySeq
<1> DEFINE n == Len(s) - k
<1>0. Len(s) \in Nat \ {0}
  BY <1>1
<1>4. n \in Nat \ {0} /\ Len(w) = n /\ Len(s) = k + n
  <2>1. n \in Nat \ {0} /\ Len(s) = k + n
    BY <1>0, <1>9
  <2>2. Len(w) = n
    BY <1>2
  <2> QED BY <2>1, <2>2
<1> HIDE DEF n
<1>5. \A i \in 1 .. n : /\ k + i \in 1 .. Len(s) /\ w[i] = s[k + i]
                        /\ g[i] = S[k + i] - c /\ g[i] \in Int
  <2> SUFFICES ASSUME NEW i \in 1 .. n
               PROVE  /\ k + i \in 1 .. Len(s) /\ w[i] = s[k + i]
                      /\ g[i] = S[k + i] - c /\ g[i] \in Int
    OBVIOUS
  <2>1. k + i \in 1 .. Len(s) /\ i \in 1 .. Len(s) - k
    BY <1>0, <1>4
  <2>2. S[k + i] \in Int /\ w[i] = s[k + i]
    BY <1>1, <1>2, <2>1
  <2> QED BY <2>1, <2>2
<1>6. g[1] = tn[w[1]]
  BY <1>4, <1>5, <1>9 DEF S
<1> HIDE DEF g
<1>7. ASSUME NEW i \in 1 .. n - 1 PROVE g[i + 1] = g[i] + tn[w[i + 1]]
  <2> DEFINE j == k + i
  <2>1. /\ j \in 1 .. Len(s) - 1 /\ k + (i + 1) = j + 1
        /\ j + 1 \in k + 2 .. Len(s) /\ i + 1 \in 1 .. n /\ i \in 1 .. n
        /\ j \in 1 .. Len(s) /\ j + 1 \in 1 .. Len(s)
    BY <1>4
  <2>2. g[i + 1] = S[j + 1] - c /\ g[i] = S[j] - c /\ w[i + 1] = s[j + 1]
    BY <1>5, <2>1
  <2> HIDE DEF j
  <2>3. S[j + 1] = S[j] + tm[s[j + 1]] /\ S[j] \in Int /\ tm[s[j + 1]] \in Nat
    BY <1>1, <2>1
  <2>4. tn[s[j + 1]] = tm[s[j + 1]]
    BY <1>9, <2>1
  <2> QED BY <2>2, <2>3, <2>4
<1>8. \A i \in 1 .. Len(w) : SumOver(tn, w)[i] = g[i]
  <2>1. AddsUp(g, tn, w)
    BY <1>4, <1>5, <1>6, <1>7 DEF AddsUp
  <2>2. w \in Seq(Timers)
    BY <1>2
  <2> QED BY <1>3, <2>1, <2>2, SumsAre
<1> QED BY <1>2, <1>3, <1>4, <1>5, <1>8 DEF Lowered, w, S

\* All but the head of s keep their delta.
OnlyHead(tm, tn, s) == \A i \in 2 .. Len(s) : tn[s[i]] = tm[s[i]]

\* w is s behind t, its sums differ by what the head's delta and t's do.
Behind(tm, tn, s, w, t) ==
    /\ w # <<>> /\ Len(w) = Len(s) + 1
    /\ w[1] = t /\ SumOver(tn, w)[1] = tn[t]
    /\ \A i \in 1 .. Len(s) :
         /\ w[i + 1] = s[i]
         /\ SumOver(tn, w)[i + 1] = SumOver(tm, s)[i] - tm[s[1]] + tn[s[1]] + tn[t]

\* A new head, whose delta replaces the time until the old one.
LEMMA SumsBefore ==
    ASSUME NEW tm \in Deltas, NEW tn \in Deltas,
           NEW s \in Seq(Timers), s # <<>>, NEW t \in Timers, OnlyHead(tm, tn, s)
    PROVE  Behind(tm, tn, s, <<t>> \o s, t)
<1> USE DEF OnlyHead, Behind
<1> DEFINE w == <<t>> \o s
           S == SumOver(tm, s)
           c == tn[s[1]] + tn[t] - tm[s[1]]
           g == [i \in 1 .. Len(s) + 1 |-> IF i = 1 THEN tn[t] ELSE S[i - 1] + c]
<1>1. /\ Len(s) \in Nat \ {0}
      /\ \A i \in 1 .. Len(s) : s[i] \in Timers /\ tm[s[i]] \in Nat /\ S[i] \in Int
      /\ \A i \in 1 .. Len(s) - 1 : S[i + 1] = S[i] + tm[s[i + 1]]
      /\ S[1] = tm[s[1]]
  BY SumSteps
<1>2. w \in Seq(Timers) /\ Len(w) = Len(s) + 1
      /\ \A i \in 1 .. Len(s) + 1 : w[i] = IF i = 1 THEN t ELSE s[i - 1]
  BY PushElements
<1> HIDE DEF w, S
<1>3. w # <<>> /\ w[1] = t
  BY <1>1, <1>2, EmptySeq
<1>0. Len(s) \in Nat \ {0} /\ Len(w) = Len(s) + 1
  BY <1>1, <1>2
<1>4. tn[t] \in Nat /\ c \in Int /\ \A i \in 1 .. Len(s) : tn[s[i]] \in Nat
  BY <1>1 DEF Deltas
<1>5. \A i \in 1 .. Len(w) : g[i] \in Int
  <2> HIDE DEF c
  <2>1. ASSUME NEW i \in 1 .. Len(w) PROVE g[i] \in Int
    <3>1. i # 1 => i - 1 \in 1 .. Len(s)
      BY <1>0
    <3>2. i # 1 => S[i - 1] \in Int
      BY <1>1, <3>1
    <3> QED BY <1>0, <1>4, <3>2
  <2> QED BY <2>1
<1>6. g[1] = tn[w[1]]
  BY <1>1, <1>3
<1>7. ASSUME NEW i \in 1 .. Len(s) PROVE g[i + 1] = S[i] + c /\ w[i + 1] = s[i]
  <2>1. i + 1 \in 1 .. Len(s) + 1 /\ i + 1 # 1 /\ (i + 1) - 1 = i
    BY <1>1
  <2> HIDE DEF c
  <2> QED BY <1>2, <2>1
<1>8. ASSUME NEW i \in 1 .. Len(w) - 1 PROVE g[i + 1] = g[i] + tn[w[i + 1]]
  <2>1. i \in 1 .. Len(s) /\ g[i + 1] = S[i] + c /\ w[i + 1] = s[i]
    BY <1>1, <1>2, <1>7
  <2>2. CASE i = 1
    <3>1. g[1 + 1] = tm[s[1]] + c /\ g[1] = tn[t] /\ w[1 + 1] = s[1]
      <4>1. g[1] = tn[t]
        BY <1>0
      <4> HIDE DEF g
      <4> QED BY <1>1, <2>1, <2>2, <4>1
    <3>2. tm[s[1]] \in Nat /\ tn[s[1]] \in Nat
      BY <1>1, <1>4
    <3> HIDE DEF g, c
    <3>3. tm[s[1]] + c = tn[t] + tn[s[1]]
      BY <1>4, <3>2 DEF c
    <3> QED BY <2>2, <3>1, <3>3
  <2>3. CASE i # 1
    <3> DEFINE j == i - 1
    <3>1. j \in 1 .. Len(s) - 1 /\ j \in 1 .. Len(s) /\ i = j + 1 /\ i \in 2 .. Len(s)
      BY <1>1, <2>1, <2>3
    <3>2. g[j + 1] = S[j] + c /\ S[j + 1] = S[j] + tm[s[j + 1]] /\ S[j] \in Int
      BY <1>1, <1>7, <3>1
    <3>3. tn[s[i]] = tm[s[i]] /\ tm[s[i]] \in Nat
      BY <1>1, <2>1, <3>1
    <3> HIDE DEF g, c, j
    <3>4. g[i] = S[j] + c /\ S[i] = S[j] + tm[s[i]]
      BY <3>1, <3>2
    <3>5. S[j] + tm[s[i]] + c = S[j] + c + tm[s[i]]
      BY <1>4, <3>2, <3>3
    <3> QED BY <2>1, <3>3, <3>4, <3>5
  <2> QED BY <2>2, <2>3
<1> HIDE DEF g
<1>9. \A i \in 1 .. Len(w) : SumOver(tn, w)[i] = g[i]
  <2>1. AddsUp(g, tn, w)
    BY <1>5, <1>6, <1>8 DEF AddsUp
  <2>2. w \in Seq(Timers)
    BY <1>2
  <2> QED BY <1>3, <2>1, <2>2, SumsAre
<1>10. SumOver(tn, w)[1] = tn[t]
  BY <1>1, <1>2, <1>3, <1>6, <1>9
<1>11. ASSUME NEW i \in 1 .. Len(s)
       PROVE  w[i + 1] = s[i] /\ SumOver(tn, w)[i + 1] = S[i] - tm[s[1]] + tn[s[1]] + tn[t]
  <2>1. i + 1 \in 1 .. Len(w) /\ 1 \in 1 .. Len(s)
    BY <1>1, <1>2
  <2>2. SumOver(tn, w)[i + 1] = S[i] + c /\ w[i + 1] = s[i]
    BY <1>7, <1>9, <2>1
  <2>3. S[i] \in Int /\ tm[s[1]] \in Nat /\ tn[s[1]] \in Nat
    BY <1>1, <1>4, <2>1
  <2>4. S[i] + c = S[i] - tm[s[1]] + tn[s[1]] + tn[t]
    BY <1>4, <2>3, SMTT(30)
  <2> QED BY <2>2, <2>4
<1> QED BY <1>2, <1>3, <1>10, <1>11 DEF w, S

\* InsertAfterElements for a list of timers
LEMMA TimerInserted ==
    ASSUME NEW s \in Seq(Timers), NEW k \in 1 .. Len(s), NEW t \in Timers
    PROVE  /\ InsertAfter(s, k, t) \in Seq(Timers) /\ Len(InsertAfter(s, k, t)) = Len(s) + 1
           /\ \A i \in 1 .. Len(s) + 1 :
                 InsertAfter(s, k, t)[i] =
                   IF i <= k THEN s[i] ELSE IF i = k + 1 THEN t ELSE s[i - 1]
<1> DEFINE w == InsertAfter(s, k, t)
<1>1. /\ w \in Seq(Timers) /\ Len(w) = Len(s) + 1
      /\ \A i \in 1 .. Len(s) + 1 :
            w[i] = IF i <= k THEN s[i] ELSE IF i = k + 1 THEN t ELSE s[i - 1]
  BY InsertAfterElements
<1> HIDE DEF w
<1> QED BY <1>1 DEF w

\* The delta behind the k-th timer is split between t, at the sum c, and the next.
SplitAt(tm, tn, s, k, t, c) ==
    /\ tn[t] = c - SumOver(tm, s)[k]
    /\ k < Len(s) => tn[s[k + 1]] = SumOver(tm, s)[k + 1] - c
    /\ \A i \in 1 .. Len(s) : i # k + 1 => tn[s[i]] = tm[s[i]]

\* w is s with t at the sum c, all others keep their sums.
Inserted(tm, tn, s, w, k, t, c) ==
    /\ w # <<>> /\ Len(w) = Len(s) + 1
    /\ \A i \in 1 .. k : w[i] = s[i] /\ SumOver(tn, w)[i] = SumOver(tm, s)[i]
    /\ w[k + 1] = t /\ SumOver(tn, w)[k + 1] = c
    /\ \A i \in k + 1 .. Len(s) :
         w[i + 1] = s[i] /\ SumOver(tn, w)[i + 1] = SumOver(tm, s)[i]

\* A timer linked behind the k-th at the sum c.
LEMMA SumsInserted ==
    ASSUME NEW tm \in Deltas, NEW tn \in Deltas, NEW s \in Seq(Timers),
           NEW k \in 1 .. Len(s), NEW t \in Timers, NEW c \in Int,
           SplitAt(tm, tn, s, k, t, c)
    PROVE  Inserted(tm, tn, s, InsertAfter(s, k, t), k, t, c)
<1> USE DEF SplitAt, Inserted
<1> DEFINE w == InsertAfter(s, k, t)
           S == SumOver(tm, s)
           g == [i \in 1 .. Len(s) + 1 |->
                   IF i <= k THEN S[i] ELSE IF i = k + 1 THEN c ELSE S[i - 1]]
<1>1. /\ Len(s) \in Nat \ {0} /\ S[1] = tm[s[1]]
      /\ \A i \in 1 .. Len(s) : s[i] \in Timers /\ tm[s[i]] \in Nat /\ S[i] \in Int
      /\ \A i \in 1 .. Len(s) - 1 : S[i + 1] = S[i] + tm[s[i + 1]]
  <2>1. s # <<>>
    BY EmptySeq
  <2> QED BY <2>1, SumSteps
<1>2. w \in Seq(Timers) /\ Len(w) = Len(s) + 1
      /\ \A i \in 1 .. Len(s) + 1 :
           w[i] = IF i <= k THEN s[i] ELSE IF i = k + 1 THEN t ELSE s[i - 1]
  BY TimerInserted
<1>3. ASSUME k < Len(s) PROVE tn[s[k + 1]] = S[k + 1] - c
  BY <1>3
<1> HIDE DEF w, S
<1>4. w # <<>>
  BY <1>1, <1>2, EmptySeq
<1>5. \A i \in 1 .. k : w[i] = s[i] /\ g[i] = S[i] /\ S[i] \in Int
  BY <1>1, <1>2
<1>6. w[k + 1] = t /\ g[k + 1] = c
  BY <1>1, <1>2
<1>7. ASSUME NEW i \in k + 1 .. Len(s)
      PROVE  w[i + 1] = s[i] /\ g[i + 1] = S[i] /\ S[i] \in Int
  <2>1. i + 1 \in 1 .. Len(s) + 1 /\ ~(i + 1 <= k) /\ i + 1 # k + 1 /\ (i + 1) - 1 = i
        /\ i \in 1 .. Len(s)
    BY <1>1
  <2> QED BY <1>1, <1>2, <2>1
<1> HIDE DEF g
<1>8. ASSUME NEW i \in 1 .. Len(w) PROVE g[i] \in Int
  <2>1. CASE i \in 1 .. k
    BY <1>5, <2>1
  <2>2. CASE i = k + 1
    BY <1>6, <2>2
  <2>3. CASE i > k + 1
    <3>1. i - 1 \in k + 1 .. Len(s) /\ (i - 1) + 1 = i
      BY <1>1, <1>2, <2>3
    <3> QED BY <1>7, <3>1
  <2> QED BY <1>1, <1>2, <2>1, <2>2, <2>3
<1>9. g[1] = tn[w[1]]
  <2>1. 1 \in 1 .. k /\ 1 \in 1 .. Len(s) /\ 1 # k + 1
    BY <1>1
  <2> QED BY <1>1, <1>5, <2>1
<1>10. ASSUME NEW i \in 1 .. Len(w) - 1 PROVE g[i + 1] = g[i] + tn[w[i + 1]]
  <2>1. CASE i + 1 <= k
    <3>1. i \in 1 .. k /\ i + 1 \in 1 .. k /\ i + 1 \in 1 .. Len(s) /\ i + 1 # k + 1
          /\ i \in 1 .. Len(s) - 1
      BY <1>1, <1>2, <2>1
    <3> QED BY <1>1, <1>5, <3>1, SMTT(30)
  <2>2. CASE i = k
    <3>1. g[k] = S[k] /\ S[k] \in Int
      BY <1>1, <1>5
    <3>2. tn[t] = c - S[k]
      BY DEF S
    <3> QED BY <1>6, <2>2, <3>1, <3>2
  <2>3. CASE i = k + 1
    <3>1. k + 1 \in k + 1 .. Len(s) /\ k < Len(s)
      BY <1>1, <1>2, <2>3
    <3>2. w[i + 1] = s[k + 1] /\ g[i + 1] = S[k + 1] /\ S[k + 1] \in Int
      BY <1>7, <2>3, <3>1
    <3> QED BY <1>3, <1>6, <2>3, <3>1, <3>2
  <2>4. CASE i > k + 1
    <3> DEFINE j == i - 1
    <3>1. j \in k + 1 .. Len(s) /\ i \in k + 1 .. Len(s) /\ j + 1 = i /\ j \in 1 .. Len(s) - 1
          /\ i \in 1 .. Len(s) /\ i # k + 1
      BY <1>1, <1>2, <2>4
    <3>2. g[i + 1] = S[i] /\ w[i + 1] = s[i]
      BY <1>7, <3>1
    <3>3. g[j + 1] = S[j]
      BY <1>7, <3>1
    <3>4. S[j + 1] = S[j] + tm[s[j + 1]] /\ tn[s[i]] = tm[s[i]]
      BY <1>1, <3>1
    <3> HIDE DEF j
    <3> QED BY <3>1, <3>2, <3>3, <3>4
  <2> QED BY <1>1, <1>2, <2>1, <2>2, <2>3, <2>4
<1>11. \A i \in 1 .. Len(w) : SumOver(tn, w)[i] = g[i]
  <2>1. AddsUp(g, tn, w)
    BY <1>8, <1>9, <1>10 DEF AddsUp
  <2>2. w \in Seq(Timers)
    BY <1>2
  <2> QED BY <1>4, <2>1, <2>2, SumsAre
<1>12. \A i \in 1 .. k : SumOver(tn, w)[i] = S[i]
  <2>1. \A i \in 1 .. k : i \in 1 .. Len(w)
    BY <1>1, <1>2
  <2> QED BY <1>5, <1>11, <2>1
<1>13. SumOver(tn, w)[k + 1] = c
  <2>1. k + 1 \in 1 .. Len(w)
    BY <1>1, <1>2
  <2> QED BY <1>6, <1>11, <2>1
<1>14. \A i \in k + 1 .. Len(s) : SumOver(tn, w)[i + 1] = S[i]
  <2>1. \A i \in k + 1 .. Len(s) : i + 1 \in 1 .. Len(w)
    BY <1>1, <1>2
  <2> QED BY <1>7, <1>11, <2>1
<1> QED BY <1>2, <1>4, <1>5, <1>6, <1>7, <1>12, <1>13, <1>14 DEF w, S

\* The k-th timer hands its delta on to the next.
HandedOn(tm, tn, s, k) ==
    /\ k < Len(s) => tn[s[k + 1]] = tm[s[k + 1]] + tm[s[k]]
    /\ \A i \in 1 .. Len(s) : i # k /\ i # k + 1 => tn[s[i]] = tm[s[i]]

\* w is s without the k-th timer, all others keep their sums.
ClosedUp(tm, tn, s, w, k) ==
    /\ w # <<>> /\ Len(w) = Len(s) - 1
    /\ \A i \in 1 .. k - 1 : w[i] = s[i] /\ SumOver(tn, w)[i] = SumOver(tm, s)[i]
    /\ \A i \in k .. Len(s) - 1 :
         w[i] = s[i + 1] /\ SumOver(tn, w)[i] = SumOver(tm, s)[i + 1]

\* A timer unlinked behind the head.
LEMMA SumsWithout ==
    ASSUME NEW tm \in Deltas, NEW tn \in Deltas,
           NEW s \in Seq(Timers), NEW k \in 2 .. Len(s), HandedOn(tm, tn, s, k)
    PROVE  ClosedUp(tm, tn, s, Without(s, k), k)
<1> USE DEF HandedOn, ClosedUp
<1> DEFINE w == Without(s, k)
           S == SumOver(tm, s)
           g == [i \in 1 .. Len(s) - 1 |-> IF i < k THEN S[i] ELSE S[i + 1]]
<1>0. Len(s) \in Nat /\ k \in 1 .. Len(s) /\ k - 1 \in 1 .. Len(s) - 1
  BY LenProperties
<1>1. /\ S[1] = tm[s[1]]
      /\ \A i \in 1 .. Len(s) : s[i] \in Timers /\ tm[s[i]] \in Nat /\ S[i] \in Int
      /\ \A i \in 1 .. Len(s) - 1 : S[i + 1] = S[i] + tm[s[i + 1]]
  <2>1. s # <<>>
    BY <1>0, EmptySeq
  <2> QED BY <2>1, SumSteps
<1>2. w \in Seq(Timers) /\ Len(w) = Len(s) - 1
      /\ \A i \in 1 .. Len(s) - 1 : w[i] = IF i < k THEN s[i] ELSE s[i + 1]
  BY <1>0, WithoutElements
<1> HIDE DEF w, S
<1>3. w # <<>>
  BY <1>0, <1>2, EmptySeq
<1>4. ASSUME NEW i \in 1 .. k - 1
      PROVE  /\ w[i] = s[i] /\ g[i] = S[i] /\ S[i] \in Int
             /\ i \in 1 .. Len(s) /\ i \in 1 .. Len(s) - 1
  <2>1. i \in 1 .. Len(s) /\ i \in 1 .. Len(s) - 1 /\ i < k
    BY <1>0
  <2> QED BY <1>1, <1>2, <2>1
<1>5. ASSUME NEW i \in k .. Len(s) - 1
      PROVE  /\ w[i] = s[i + 1] /\ g[i] = S[i + 1] /\ S[i + 1] \in Int
             /\ i + 1 \in 1 .. Len(s) /\ i \in 1 .. Len(s) - 1
  <2>1. i + 1 \in 1 .. Len(s) /\ i \in 1 .. Len(s) - 1 /\ ~(i < k)
    BY <1>0
  <2> QED BY <1>1, <1>2, <2>1
<1> HIDE DEF g
<1>6. AddsUp(g, tn, w)
  <2>1. ASSUME NEW i \in 1 .. Len(w) PROVE g[i] \in Int
    <3>1. i \in 1 .. k - 1 \/ i \in k .. Len(s) - 1
      BY <1>0, <1>2
    <3> QED BY <1>4, <1>5, <3>1
  <2>2. g[1] = tn[w[1]]
    <3>1. 1 \in 1 .. k - 1 /\ 1 \in 1 .. Len(s) /\ 1 # k /\ 1 # k + 1
      BY <1>0
    <3>2. tn[s[1]] = tm[s[1]]
      BY <3>1
    <3> QED BY <1>1, <1>4, <3>1, <3>2
  <2>3. ASSUME NEW i \in 1 .. Len(w) - 1 PROVE g[i + 1] = g[i] + tn[w[i + 1]]
    <3>0. i \in 1 .. Len(s) - 2
      BY <1>0, <1>2
    <3>1. CASE i + 1 < k
      <4>1. /\ i \in 1 .. k - 1 /\ i + 1 \in 1 .. k - 1 /\ i + 1 \in 1 .. Len(s)
            /\ i + 1 # k /\ i + 1 # k + 1 /\ i \in 1 .. Len(s) - 1
        BY <1>0, <3>0, <3>1
      <4>2. tn[s[i + 1]] = tm[s[i + 1]] /\ S[i + 1] = S[i] + tm[s[i + 1]]
        BY <1>1, <4>1
      <4> QED BY <1>4, <4>1, <4>2
    <3>2. CASE i + 1 = k
      <4>1. /\ i \in 1 .. k - 1 /\ k \in k .. Len(s) - 1 /\ k < Len(s)
            /\ i \in 1 .. Len(s) - 1 /\ k \in 1 .. Len(s) - 1 /\ k + 1 \in 1 .. Len(s)
        BY <1>0, <3>0, <3>2
      <4>2. S[k] = S[i] + tm[s[k]] /\ S[k + 1] = S[k] + tm[s[k + 1]]
        BY <1>1, <3>2, <4>1
      <4>3. tn[s[k + 1]] = tm[s[k + 1]] + tm[s[k]]
        BY <4>1
      <4>4. S[i] \in Int /\ tm[s[k]] \in Nat /\ tm[s[k + 1]] \in Nat
        BY <1>0, <1>1, <1>4, <4>1
      <4>5. g[i] = S[i] /\ g[k] = S[k + 1] /\ w[k] = s[k + 1]
        BY <1>4, <1>5, <4>1
      <4>6. g[k] = g[i] + tn[w[k]]
        BY <4>2, <4>3, <4>4, <4>5
      <4> QED BY <3>2, <4>6
    <3>3. CASE i + 1 > k
      <4> DEFINE j == i + 1
      <4>1. /\ i \in k .. Len(s) - 1 /\ j \in k .. Len(s) - 1 /\ j + 1 \in 1 .. Len(s)
            /\ j + 1 # k /\ j + 1 # k + 1 /\ j \in 1 .. Len(s) - 1
        BY <1>0, <3>0, <3>3
      <4> HIDE DEF j
      <4>2. tn[s[j + 1]] = tm[s[j + 1]] /\ S[j + 1] = S[j] + tm[s[j + 1]]
        BY <1>1, <4>1
      <4>3. g[i] = S[j]
        BY <1>5, <4>1 DEF j
      <4>4. g[j] = S[j + 1] /\ w[j] = s[j + 1]
        BY <1>5, <4>1
      <4>5. g[j] = g[i] + tn[w[j]]
        BY <4>2, <4>3, <4>4
      <4> QED BY <4>5 DEF j
    <3> QED BY <1>0, <3>0, <3>1, <3>2, <3>3
  <2> QED BY <2>1, <2>2, <2>3 DEF AddsUp
<1>7. \A i \in 1 .. Len(w) : SumOver(tn, w)[i] = g[i]
  BY <1>2, <1>3, <1>6, SumsAre
<1>8. ASSUME NEW i \in 1 .. k - 1 PROVE w[i] = s[i] /\ SumOver(tn, w)[i] = S[i]
  BY <1>2, <1>4, <1>7
<1>9. ASSUME NEW i \in k .. Len(s) - 1 PROVE w[i] = s[i + 1] /\ SumOver(tn, w)[i] = S[i + 1]
  BY <1>2, <1>5, <1>7
<1> QED BY <1>2, <1>3, <1>8, <1>9 DEF w, S

\* How far behind its head the i-th timer of a list is due
Distance(tm, s, i) == SumOver(tm, s)[i] - SumOver(tm, s)[1]

\* The timers behind the head that are due as well get delta 0, and the first
\* that is not the rest of its own.
Caught(tm, tn, s, over) ==
    \A i \in 2 .. Len(s) :
      tn[s[i]] = IF Distance(tm, s, i) <= over THEN 0
                 ELSE IF Distance(tm, s, i - 1) <= over
                 THEN Distance(tm, s, i) - over ELSE tm[s[i]]

\* w is s without its head, its sums are what is left behind the overdue.
Overtaken(tm, tn, s, w, over) ==
    /\ w # <<>> /\ Len(w) = Len(s) - 1
    /\ \A i \in 1 .. Len(w) :
         /\ w[i] = s[1 + i]
         /\ SumOver(tn, w)[i] = IF Distance(tm, s, 1 + i) <= over THEN 0
                                ELSE Distance(tm, s, 1 + i) - over

\* The head is unlinked when it is overdue by `over'.
LEMMA SumsOverdue ==
    ASSUME NEW tm \in Deltas, NEW tn \in Deltas,
           NEW s \in Seq(Timers), Len(s) > 1, NEW over \in Nat, Caught(tm, tn, s, over)
    PROVE  Overtaken(tm, tn, s, SubSeq(s, 1 + 1, Len(s)), over)
<1> USE DEF Caught, Overtaken
<1> DEFINE w == SubSeq(s, 1 + 1, Len(s))
           S == SumOver(tm, s)
           D(i) == Distance(tm, s, i)
           g == [i \in 1 .. Len(s) - 1 |-> IF D(1 + i) <= over THEN 0 ELSE D(1 + i) - over]
<1>0. Len(s) \in Nat \ {0, 1} /\ 1 \in 1 .. Len(s) /\ s # <<>>
  BY LenProperties, EmptySeq
<1>1. /\ \A i \in 1 .. Len(s) : s[i] \in Timers /\ tm[s[i]] \in Nat /\ S[i] \in Int
      /\ \A i \in 1 .. Len(s) - 1 : S[i + 1] = S[i] + tm[s[i + 1]]
  BY <1>0, SumSteps
<1>2. w \in Seq(Timers) /\ Len(w) = Len(s) - 1 /\ \A i \in 1 .. Len(s) - 1 : w[i] = s[1 + i]
  BY <1>0, RestElements
<1> HIDE DEF w, S
<1>3. w # <<>>
  BY <1>0, <1>2, EmptySeq
<1>4. /\ D(1) = 0
      /\ \A i \in 1 .. Len(s) : D(i) \in Int
      /\ \A i \in 1 .. Len(s) - 1 : D(i + 1) = D(i) + tm[s[i + 1]] /\ D(i) <= D(i + 1)
  <2>0. S[1] \in Int
    BY <1>0, <1>1
  <2>1. D(1) = 0
    BY <2>0 DEF Distance, S
  <2>2. ASSUME NEW i \in 1 .. Len(s) PROVE D(i) \in Int /\ D(i) = S[i] - S[1]
    BY <1>1, <2>0 DEF Distance, S
  <2>3. ASSUME NEW i \in 1 .. Len(s) - 1
        PROVE  D(i + 1) = D(i) + tm[s[i + 1]] /\ D(i) <= D(i + 1)
    <3>1. i \in 1 .. Len(s) /\ i + 1 \in 1 .. Len(s)
      BY <1>0
    <3>2. D(i) = S[i] - S[1] /\ D(i + 1) = S[i + 1] - S[1]
      BY <2>2, <3>1
    <3>3. S[i + 1] = S[i] + tm[s[i + 1]] /\ tm[s[i + 1]] \in Nat /\ S[i] \in Int
      BY <1>1, <3>1
    <3> HIDE DEF D
    <3> QED BY <2>0, <3>2, <3>3
  <2> QED BY <2>1, <2>2, <2>3
<1>5. ASSUME NEW i \in 1 .. Len(s) - 1
      PROVE  /\ g[i] = IF D(1 + i) <= over THEN 0 ELSE D(1 + i) - over
             /\ g[i] \in Int
             /\ tn[w[i]] = IF D(1 + i) <= over THEN 0
                           ELSE IF D(i) <= over THEN D(1 + i) - over ELSE tm[s[1 + i]]
  <2>1. 1 + i \in 1 .. Len(s) /\ 1 + i \in 2 .. Len(s) /\ (1 + i) - 1 = i
    BY <1>0
  <2>2. D(1 + i) \in Int
    BY <1>4, <2>1
  <2>3. w[i] = s[1 + i]
    BY <1>2
  <2>4. tn[s[1 + i]] = IF D(1 + i) <= over THEN 0
                       ELSE IF D((1 + i) - 1) <= over THEN D(1 + i) - over ELSE tm[s[1 + i]]
    BY <2>1
  <2> HIDE DEF D
  <2> QED BY <2>1, <2>2, <2>3, <2>4
<1> HIDE DEF g
<1>6. AddsUp(g, tn, w)
  <2>1. \A i \in 1 .. Len(w) : g[i] \in Int
    BY <1>2, <1>5
  <2>2. g[1] = tn[w[1]]
    <3>1. 1 \in 1 .. Len(s) - 1
      BY <1>0
    <3> HIDE DEF D
    <3> QED BY <1>4, <1>5, <3>1
  <2>3. ASSUME NEW i \in 1 .. Len(w) - 1 PROVE g[i + 1] = g[i] + tn[w[i + 1]]
    <3> DEFINE j == i + 1
    <3>1. i \in 1 .. Len(s) - 1 /\ j \in 1 .. Len(s) - 1 /\ 1 + i = j /\ 1 + j = j + 1
          /\ j \in 1 .. Len(s) /\ j + 1 \in 1 .. Len(s)
      BY <1>0, <1>2
    <3> HIDE DEF j, D
    <3>2. g[i] = IF D(j) <= over THEN 0 ELSE D(j) - over
      BY <1>5, <3>1
    <3>3. /\ g[j] = IF D(j + 1) <= over THEN 0 ELSE D(j + 1) - over
          /\ tn[w[j]] = IF D(j + 1) <= over THEN 0
                        ELSE IF D(j) <= over THEN D(j + 1) - over ELSE tm[s[j + 1]]
      BY <1>5, <3>1
    <3>4. /\ D(j) \in Int /\ D(j + 1) \in Int /\ D(j) <= D(j + 1)
          /\ D(j + 1) = D(j) + tm[s[j + 1]] /\ tm[s[j + 1]] \in Nat
      BY <1>1, <1>4, <3>1
    <3>5. g[j] = g[i] + tn[w[j]]
      BY <3>2, <3>3, <3>4, SMTT(30)
    <3> QED BY <3>5 DEF j
  <2> QED BY <2>1, <2>2, <2>3 DEF AddsUp
<1>7. \A i \in 1 .. Len(w) : SumOver(tn, w)[i] = g[i]
  BY <1>2, <1>3, <1>6, SumsAre
<1>8. ASSUME NEW i \in 1 .. Len(w)
      PROVE  /\ w[i] = s[1 + i]
             /\ SumOver(tn, w)[i] = IF D(1 + i) <= over THEN 0 ELSE D(1 + i) - over
  <2> HIDE DEF D
  <2> QED BY <1>2, <1>5, <1>7
<1> QED BY <1>2, <1>3, <1>8 DEF w

\* The time until each active timer, counted from the last hal_timer_start
Until == SumOver(time, active)

(* A timer due in d ticks, whose sum is s, e ticks after the last of r     *)
(* settings of the hardware timer, is not ahead of the clock by more than  *)
(* a tick for each of them but the last ...                                *)
Upper(d, e, s, r) == d + e + 1 <= s + r

(* ... and not behind it by more than the margin and one tick for each of  *)
(* the r calls that found the counter run out, if it does not expire with  *)
(* the head, whose sum is h, at the next tick.                             *)
Lower(d, e, s, h, r) ==
    \/ d + e + 1 + r >= s + (IF h = 0 THEN 1 ELSE 0)
    \/ s = h /\ h <= 1

NotAhead ==
    races = 0 =>
      /\ active # <<>> => restarts >= 1 /\ Until[1] >= 1
      /\ \A i \in 1 .. Len(active) : Upper(due[active[i]], elapsed, Until[i], restarts)

NotBehind ==
    \A i \in 1 .. Len(active) : Lower(due[active[i]], elapsed, Until[i], Until[1], races)

DInv ==
    /\ due \in [Timers -> Int] /\ restarts \in Nat /\ races \in Nat
    /\ NotAhead /\ NotBehind /\ NeverEarly

\* No timer is due before one is started.
LEMMA InitDInv == ClockInit => DInv
<1> SUFFICES ASSUME ClockInit PROVE DInv
  OBVIOUS
<1>1. /\ due \in [Timers -> Int] /\ restarts = 0 /\ races = 0 /\ active = <<>>
      /\ \A t \in Timers : state[t] = "FREE"
  BY DEF ClockInit, Init
<1>2. Len(active) = 0
  BY <1>1
<1> QED BY <1>1, <1>2 DEF DInv, NotAhead, NotBehind, NeverEarly, Served

\* The numbers that the steps are about are numbers.
LEMMA ActiveFacts ==
    ASSUME IInv, CInv, DInv, active # <<>>
    PROVE  /\ active \in Seq(Timers) /\ Distinct(active) /\ Len(active) \in Nat \ {0}
           /\ time \in Deltas /\ elapsed \in Nat /\ value \in Nat
           /\ \A i \in 1 .. Len(active) : active[i] \in Timers /\ time[active[i]] \in Nat
                                          /\ due[active[i]] \in Int /\ Until[i] \in Int
           /\ Until[1] = time[Head(active)] /\ Until[1] \in Nat /\ Head(active) = active[1]
           /\ value + elapsed + 1 >= Until[1]
           /\ value > 0 => value + elapsed = Load(Until[1])
<1>1. /\ active \in Seq(Timers) /\ Distinct(active) /\ Len(active) \in Nat \ {0}
      /\ \A i \in 1 .. Len(active) : active[i] \in Timers
      /\ Head(active) = active[1]
  BY ActiveList
<1>2. time \in Deltas /\ elapsed \in Nat /\ value \in Nat
  BY DEF CInv, ClockTyped, Deltas
<1>3. /\ \A i \in 1 .. Len(active) : time[active[i]] \in Nat /\ Until[i] \in Int
      /\ Until[1] = time[active[1]]
  BY <1>1, <1>2, SumSteps DEF Until
<1>4. \A i \in 1 .. Len(active) : due[active[i]] \in Int
  BY <1>1 DEF DInv
<1>5. /\ value + elapsed + 1 >= Until[1]
      /\ value > 0 => value + elapsed = Load(Until[1])
  BY <1>1, <1>3 DEF CInv, HeadCounted, HAL_TIMER_LOAD_DELTA
<1>6. 1 \in 1 .. Len(active)
  BY <1>1
<1> QED BY <1>1, <1>2, <1>3, <1>4, <1>5, <1>6

\* What a step records of a timer that is active or served after it.
LEMMA Recorded ==
    ASSUME IInv', DInv, NEW t, NEW n \in Int, Record(t, n)
    PROVE  /\ due' \in [Timers -> Int] /\ restarts' \in Nat
           /\ restarts' >= restarts /\ (NewHead => restarts' = restarts + 1)
           /\ \A u \in Timers : u \in InList(active') \/ Served(u)' =>
                due'[u] = IF u = t THEN n
                          ELSE IF elapsed' = elapsed + 1 THEN due[u] - 1 ELSE due[u]
<1>1. due \in [Timers -> Int] /\ restarts \in Nat
  BY DEF DInv
<1>2. due' = [u \in Timers |->
                 IF state'[u] \in {"ACTIVE", "FIRED", "CALLBACK"}
                 THEN IF u = t THEN n
                      ELSE IF elapsed' = elapsed + 1 THEN due[u] - 1 ELSE due[u]
                 ELSE 0]
  BY DEF Record
<1>3. due' \in [Timers -> Int]
  BY <1>1, <1>2
<1>4. restarts' = restarts + (IF NewHead THEN 1 ELSE 0)
  BY DEF Record
<1>5. restarts' \in Nat /\ restarts' >= restarts /\ (NewHead => restarts' = restarts + 1)
  <2>1. CASE NewHead
    BY <1>1, <1>4, <2>1
  <2>2. CASE ~NewHead
    BY <1>1, <1>4, <2>2
  <2> QED BY <2>1, <2>2
<1>6. ASSUME NEW u \in Timers, u \in InList(active') \/ Served(u)'
      PROVE  state'[u] \in {"ACTIVE", "FIRED", "CALLBACK"}
  BY <1>6 DEF IInv, ListsAgree, Served
<1>7. ASSUME NEW u \in Timers, u \in InList(active') \/ Served(u)'
      PROVE  due'[u] = IF u = t THEN n
                       ELSE IF elapsed' = elapsed + 1 THEN due[u] - 1 ELSE due[u]
  <2>1. state'[u] \in {"ACTIVE", "FIRED", "CALLBACK"}
    BY <1>6, <1>7
  <2> QED BY <1>2, <2>1
<1> QED BY <1>3, <1>5, <1>7

\* Timers that are served already stay no earlier than they were.
LEMMA ServedStay ==
    ASSUME IInv', DInv, NEW t, NEW n \in Int, Record(t, n), races' \in {races, races + 1},
           \A u \in Timers : Served(u)' => Served(u) /\ u # t
    PROVE  NeverEarly'
<1> SUFFICES ASSUME races' = 0, NEW u \in Timers, Served(u)'
             PROVE  due'[u] <= restarts'
  BY DEF NeverEarly
<1>1. races = 0 /\ due[u] \in Int /\ restarts \in Nat
  BY DEF DInv
<1>2. due[u] <= restarts
  BY <1>1 DEF DInv, NeverEarly
<1>3. restarts' \in Nat /\ restarts' >= restarts
  BY Recorded
<1>4. due'[u] = due[u] \/ due'[u] = due[u] - 1
  BY Recorded
<1> QED BY <1>1, <1>2, <1>3, <1>4

\* A step that concerns neither the clock nor the active list.
LEMMA QuietDInv ==
    ASSUME IInv, CInv, DInv, IInv', UNCHANGED <<active, time, elapsed>>,
           Record(None, 0), races' \in {races, races + 1},
           \A u \in Timers : Served(u)' => Served(u)
    PROVE  DInv'
<1>1. NeverEarly'
  <2>1. \A u \in Timers : u # None
    BY DEF Timers, None
  <2> QED BY <2>1, ServedStay
<1>2. /\ due' \in [Timers -> Int] /\ restarts' \in Nat /\ restarts' >= restarts
      /\ restarts \in Nat /\ races \in Nat /\ races' \in Nat
  BY Recorded DEF DInv
<1>3. Until' = Until
  BY DEF Until
<1>4. ASSUME NEW i \in 1 .. Len(active)
      PROVE  /\ due'[active[i]] = due[active[i]] /\ due[active[i]] \in Int
             /\ Until[i] \in Int /\ Until[1] \in Int /\ elapsed \in Nat
  <2>1. active # <<>>
    BY <1>4
  <2>2. active[i] \in Timers /\ active[i] \in InList(active') /\ elapsed \in Nat
    BY <2>1, ActiveFacts DEF InList
  <2>3. active[i] # None /\ elapsed' # elapsed + 1
    BY <2>2 DEF Timers, None
  <2>4. due'[active[i]] = due[active[i]]
    BY <2>2, <2>3, Recorded
  <2> QED BY <2>1, <2>4, ActiveFacts
<1>5. NotAhead'
  <2> SUFFICES ASSUME races' = 0
               PROVE  /\ active' # <<>> => restarts' >= 1 /\ Until'[1] >= 1
                      /\ \A i \in 1 .. Len(active') :
                           Upper(due'[active'[i]], elapsed', Until'[i], restarts')
    BY DEF NotAhead
  <2>1. races = 0
    BY <1>2
  <2>2. active # <<>> => restarts >= 1 /\ Until[1] >= 1
    BY <2>1 DEF DInv, NotAhead
  <2>3. ASSUME NEW i \in 1 .. Len(active)
        PROVE  Upper(due[active[i]], elapsed, Until[i], restarts')
    <3>1. Upper(due[active[i]], elapsed, Until[i], restarts)
      BY <2>1 DEF DInv, NotAhead
    <3> QED BY <1>2, <1>4, <3>1, SMTT(30) DEF Upper
  <2> QED BY <1>2, <1>3, <1>4, <2>2, <2>3
<1>6. NotBehind'
  <2>1. ASSUME NEW i \in 1 .. Len(active)
        PROVE  Lower(due[active[i]], elapsed, Until[i], Until[1], races')
    <3>1. Lower(due[active[i]], elapsed, Until[i], Until[1], races)
      BY DEF DInv, NotBehind
    <3> QED BY <1>2, <1>4, <3>1, SMTT(30) DEF Lower
  <2> QED BY <1>3, <1>4, <2>1 DEF NotBehind
<1> QED BY <1>1, <1>2, <1>5, <1>6 DEF DInv

\* A tick brings the timer and the clock closer together.
LEMMA TickMargins ==
    ASSUME NEW d \in Int, NEW e \in Int, NEW s \in Int, NEW h \in Int, NEW r \in Nat
    PROVE  /\ Upper(d, e, s, r) => Upper(d - 1, e + 1, s, r)
           /\ Lower(d, e, s, h, r) => Lower(d - 1, e + 1, s, h, r)
BY DEF Upper, Lower

\* Setting the hardware timer, and a call that finds it run out, only widen
\* the margins.
LEMMA WiderMargins ==
    ASSUME NEW d \in Int, NEW e \in Int, NEW s \in Int, NEW h \in Int,
           NEW r \in Nat, NEW q \in Nat, q >= r
    PROVE  /\ Upper(d, e, s, r) => Upper(d, e, s, q)
           /\ Lower(d, e, s, h, r) => Lower(d, e, s, h, q)
BY DEF Upper, Lower

\* SumsBehind for a step that cuts the head of the active list off
LEMMA UntilBehind ==
    ASSUME time \in Deltas, time' \in Deltas, active \in Seq(Timers),
           NEW k \in 1 .. Len(active), k < Len(active), NEW c \in Int,
           active' = SubSeq(active, k + 1, Len(active)),
           time'[active[k + 1]] = Until[k + 1] - c,
           \A i \in k + 2 .. Len(active) : time'[active[i]] = time[active[i]]
    PROVE  /\ active' # <<>> /\ Len(active') = Len(active) - k
           /\ \A i \in 1 .. Len(active') : /\ active'[i] = active[k + i]
                                           /\ Until'[i] = Until[k + i] - c
<1> DEFINE tm == time
           tn == time'
           s == active
           w == SubSeq(s, k + 1, Len(s))
<1>1. CutAt(tm, tn, s, k, c)
  BY DEF CutAt, Until
<1>2. tm \in Deltas /\ tn \in Deltas /\ s \in Seq(Timers) /\ k \in 1 .. Len(s)
  OBVIOUS
<1>3. active' = w /\ Until' = SumOver(tn, w) /\ Until = SumOver(tm, s) /\ s = active
  BY DEF Until
<1> HIDE DEF tm, tn, s
<1>4. Lowered(tm, tn, s, w, k, c)
  BY <1>1, <1>2, SumsBehind
<1> HIDE DEF w
<1>5. active' # <<>> /\ Len(active') = Len(active) - k
  BY <1>3, <1>4 DEF Lowered
<1>6. ASSUME NEW i \in 1 .. Len(active')
      PROVE  active'[i] = active[k + i] /\ Until'[i] = Until[k + i] - c
  BY <1>3, <1>4 DEF Lowered
<1> QED BY <1>5, <1>6

\* With every tick the timers and the clock come closer together.
LEMMA TickDInv ==
    ASSUME IInv, CInv, DInv, IInv', Tick, races' = races, Record(None, 0)
    PROVE  DInv'
<1>1. UNCHANGED <<state, active, time>> /\ elapsed' = elapsed + 1
  BY DEF Tick, lists
<1>2. /\ due' \in [Timers -> Int] /\ restarts' \in Nat /\ restarts' >= restarts
      /\ restarts \in Nat /\ races \in Nat /\ races' \in Nat
  BY Recorded DEF DInv
<1>3. NeverEarly'
  <2>1. \A u \in Timers : Served(u)' => Served(u) /\ u # None
    BY <1>1 DEF Timers, None, Served
  <2> QED BY <2>1, ServedStay
<1>4. Until' = Until
  BY <1>1 DEF Until
<1>5. ASSUME NEW i \in 1 .. Len(active)
      PROVE  /\ due'[active[i]] = due[active[i]] - 1 /\ due[active[i]] \in Int
             /\ Until[i] \in Int /\ Until[1] \in Int /\ elapsed \in Nat
  <2>1. active # <<>>
    BY <1>5
  <2>2. active[i] \in Timers /\ active[i] \in InList(active')
    BY <1>1, <2>1, ActiveFacts DEF InList
  <2>3. active[i] # None
    BY <2>2 DEF Timers, None
  <2>4. due'[active[i]] = due[active[i]] - 1
    BY <1>1, <2>2, <2>3, Recorded
  <2> QED BY <2>1, <2>4, ActiveFacts
<1>6. NotAhead'
  <2> SUFFICES ASSUME races' = 0
               PROVE  /\ active' # <<>> => restarts' >= 1 /\ Until'[1] >= 1
                      /\ \A i \in 1 .. Len(active') :
                           Upper(due'[active'[i]], elapsed', Until'[i], restarts')
    BY DEF NotAhead
  <2>1. races = 0
    BY <1>2
  <2>2. active # <<>> => restarts >= 1 /\ Until[1] >= 1
    BY <2>1 DEF DInv, NotAhead
  <2>3. ASSUME NEW i \in 1 .. Len(active)
        PROVE  Upper(due[active[i]] - 1, elapsed + 1, Until[i], restarts')
    <3> DEFINE d == due[active[i]]
               s == Until[i]
               h == Until[1]
    <3>1. Upper(d, elapsed, s, restarts)
      BY <2>1 DEF DInv, NotAhead
    <3>2. d \in Int /\ s \in Int /\ h \in Int /\ elapsed \in Int
      BY <1>5
    <3> HIDE DEF d, s, h
    <3>3. Upper(d, elapsed, s, restarts')
      BY <1>2, <3>1, <3>2, WiderMargins
    <3>4. Upper(d - 1, elapsed + 1, s, restarts')
      BY <1>2, <3>2, <3>3, TickMargins
    <3> QED BY <3>4 DEF d, s, h
  <2>4. ASSUME NEW i \in 1 .. Len(active)
        PROVE  Upper(due'[active[i]], elapsed', Until'[i], restarts')
    BY <1>1, <1>4, <1>5, <2>3
  <2>5. active' # <<>> => restarts' >= 1 /\ Until'[1] >= 1
    BY <1>1, <1>2, <1>4, <2>2
  <2> QED BY <1>1, <2>4, <2>5
<1>7. NotBehind'
  <2>1. ASSUME NEW i \in 1 .. Len(active)
        PROVE  Lower(due[active[i]] - 1, elapsed + 1, Until[i], Until[1], races)
    <3>0. Lower(due[active[i]], elapsed, Until[i], Until[1], races)
      BY DEF DInv, NotBehind
    <3> DEFINE d == due[active[i]]
               s == Until[i]
               h == Until[1]
    <3>1. Lower(d, elapsed, s, h, races)
      BY <3>0
    <3>2. d \in Int /\ s \in Int /\ h \in Int /\ elapsed \in Int
      BY <1>5
    <3> HIDE DEF d, s, h
    <3>3. Lower(d - 1, elapsed + 1, s, h, races)
      BY <1>2, <3>1, <3>2, TickMargins
    <3> QED BY <3>3 DEF d, s, h
  <2> QED BY <1>1, <1>4, <1>5, <2>1 DEF NotBehind
<1> QED BY <1>2, <1>3, <1>6, <1>7 DEF DInv

\* What the handler leaves in the list, and what it takes off.
LEMMA ExpireFacts ==
    ASSUME IInv, CInv, DInv, IInv', CInv', HandlerExpire, Record(None, 0)
    PROVE  /\ active # <<>>
           /\ \E k \in 1 .. Len(active), c \in Int :
                /\ c >= elapsed /\ c <= elapsed + 1 /\ c >= Until[1]
                /\ \A i \in 1 .. k : Until[i] <= c
                /\ \A i \in k + 1 .. Len(active) : Until[i] > c
                /\ \A u \in Timers : Served(u)' => \E i \in 1 .. k : u = active[i]
                /\ \A i \in 1 .. Len(active) : due'[active[i]] = due[active[i]]
                /\ Len(active') = Len(active) - k
                /\ k < Len(active) =>
                     /\ elapsed' = 0 /\ restarts' = restarts + 1
                     /\ \A i \in 1 .. Len(active') : /\ active'[i] = active[k + i]
                                                     /\ Until'[i] = Until[k + i] - c
<1> DEFINE over == IF elapsed > time[Head(active)]
                   THEN elapsed - time[Head(active)] ELSE 0
           after == [i \in 1 .. Len(active) |-> Sum(active)[i] - Sum(active)[1]]
           c == Until[1] + over
<1>1. active # <<>> /\ isr = "entered" /\ time[Head(active)] <= elapsed + HAL_TIMER_LOAD_DELTA
  <2>1. active # <<>> /\ isr = "entered" /\ ~(time[Head(active)] > elapsed + HAL_TIMER_LOAD_DELTA)
    BY DEF HandlerExpire, Spurious
  <2>2. time[Head(active)] \in Nat /\ elapsed \in Nat
    <3>1. active # <<>>
      BY <2>1
    <3> QED BY <3>1, ActiveFacts
  <2> QED BY <2>1, <2>2 DEF HAL_TIMER_LOAD_DELTA
<1>2. /\ active \in Seq(Timers) /\ Distinct(active) /\ Len(active) \in Nat \ {0}
      /\ time \in Deltas /\ elapsed \in Nat
      /\ \A i \in 1 .. Len(active) : active[i] \in Timers /\ Until[i] \in Int
      /\ Until[1] = time[Head(active)] /\ Until[1] \in Nat /\ Head(active) = active[1]
  BY <1>1, ActiveFacts
<1>3. /\ over \in Nat /\ c \in Nat /\ c >= elapsed /\ c >= Until[1]
      /\ c <= elapsed + 1
  BY <1>1, <1>2 DEF HAL_TIMER_LOAD_DELTA
<1>4. \A i \in 1 .. Len(active) : after[i] = Until[i] - Until[1]
  BY SumIsSumOver DEF Until
<1>5. PICK k \in 1 .. Len(active) :
        /\ \A i \in 2 .. k : after[i] <= over
        /\ k < Len(active) => after[k + 1] > over
        /\ active' = SubSeq(active, k + 1, Len(active))
        /\ state' = [t \in Timers |->
                       IF t = active[1] THEN "CALLBACK"
                       ELSE IF \E i \in 2 .. k : t = active[i] THEN "FIRED"
                       ELSE state[t]]
        /\ LET left == [t \in Timers |->
                         IF \E i \in 1 .. k : t = active[i] THEN 0 ELSE time[t]]
           IN  IF k < Len(active)
               THEN /\ time' = [left EXCEPT ![active[k + 1]] = after[k + 1] - over]
                    /\ hal_timer_start(after[k + 1] - over, pending)
               ELSE /\ time' = left
                    /\ hal_timer_stop
  BY DEF HandlerExpire
<1> HIDE DEF after
<1>6. \A i \in 1 .. k : Until[i] <= c
  <2> SUFFICES ASSUME NEW i \in 1 .. k PROVE Until[i] <= c
    OBVIOUS
  <2>1. i \in 1 .. Len(active) /\ Until[i] \in Int
    BY <1>2
  <2>2. CASE i = 1
    BY <1>3, <2>2
  <2>3. CASE i # 1
    <3>1. after[i] <= over /\ after[i] = Until[i] - Until[1]
      BY <1>4, <1>5, <2>1, <2>3
    <3> HIDE DEF over
    <3> QED BY <1>2, <1>3, <2>1, <3>1
  <2> QED BY <2>2, <2>3
<1>7. \A i \in k + 1 .. Len(active) : Until[i] > c
  <2> SUFFICES ASSUME NEW i \in k + 1 .. Len(active) PROVE Until[i] > c
    OBVIOUS
  <2>1. k < Len(active) /\ k + 1 \in 1 .. Len(active) /\ i \in 1 .. Len(active)
    BY <1>2
  <2>2. Until[k + 1] <= Until[i]
    BY <1>1, <1>2, <2>1, SumsGrow DEF Until
  <2>3. after[k + 1] > over /\ after[k + 1] = Until[k + 1] - Until[1]
    BY <1>4, <1>5, <2>1
  <2>4. Until[k + 1] \in Int /\ Until[i] \in Int
    BY <1>2, <2>1
  <2> HIDE DEF over
  <2> QED BY <1>2, <1>3, <2>2, <2>3, <2>4
<1>8. \A u \in Timers : Served(u)' => \E i \in 1 .. k : u = active[i]
  <2> SUFFICES ASSUME NEW u \in Timers, Served(u)' PROVE \E i \in 1 .. k : u = active[i]
    OBVIOUS
  <2>1. state[u] # "CALLBACK"
    BY <1>1 DEF IInv, ListsAgree
  <2>2. state[u] # "FIRED"
    <3>1. fired = <<>>
      BY <1>1 DEF IInv, FiredServed
    <3>2. u \notin InList(fired)
      BY <3>1 DEF InList
    <3> QED BY <3>2 DEF IInv, ListsAgree
  <2>3. state'[u] \in {"FIRED", "CALLBACK"}
    BY DEF Served
  <2>4. u = active[1] \/ \E i \in 2 .. k : u = active[i]
    BY <1>5, <2>1, <2>2, <2>3
  <2>5. 1 \in 1 .. k /\ \A i \in 2 .. k : i \in 1 .. k
    BY <1>2
  <2> QED BY <2>4, <2>5
<1>9. Len(active') = Len(active) - k /\ \A i \in 1 .. Len(active) - k : active'[i] = active[k + i]
  <2>1. /\ Len(SubSeq(active, k + 1, Len(active))) = Len(active) - k
        /\ \A i \in 1 .. Len(active) - k :
             SubSeq(active, k + 1, Len(active))[i] = active[k + i]
    BY <1>2, RestElements
  <2> QED BY <1>5, <2>1
<1>10. elapsed' # elapsed + 1 /\ (k < Len(active) => elapsed' = 0)
  <2>1. elapsed' = 0 \/ elapsed' = elapsed
    BY <1>5 DEF hal_timer_start, hal_timer_stop
  <2>2. k < Len(active) => elapsed' = 0
    BY <1>5 DEF hal_timer_start
  <2> QED BY <1>2, <2>1, <2>2
<1>11. \A i \in 1 .. Len(active) : due'[active[i]] = due[active[i]]
  <2> SUFFICES ASSUME NEW i \in 1 .. Len(active), NEW u \in Timers, u = active[i]
               PROVE  due'[u] = due[u]
    BY <1>2
  <2>1. u # None
    BY DEF Timers, None
  <2>2. u \in InList(active') \/ Served(u)'
    <3>1. u \in InList(active)
      BY DEF InList
    <3>2. state[u] = "ACTIVE"
      BY <3>1 DEF IInv, ListsAgree
    <3>3. state'[u] \in {"ACTIVE", "FIRED", "CALLBACK"}
      BY <1>5, <3>2
    <3>4. state'[u] = "ACTIVE" => u \in InList(active')
      BY DEF IInv, ListsAgree
    <3> QED BY <3>3, <3>4 DEF Served
  <2> QED BY <1>10, <2>1, <2>2, Recorded
<1>12. ASSUME k < Len(active)
       PROVE  /\ restarts' = restarts + 1
              /\ \A i \in 1 .. Len(active') : Until'[i] = Until[k + i] - c
  <2> DEFINE left == [t \in Timers |-> IF \E i \in 1 .. k : t = active[i] THEN 0 ELSE time[t]]
  <2>0. k + 1 \in 1 .. Len(active) /\ 1 \in 1 .. Len(active) /\ k + 1 # 1
    BY <1>2, <1>12
  <2>1. time' = [left EXCEPT ![active[k + 1]] = after[k + 1] - over]
    BY <1>5, <1>12
  <2>2. time' \in Deltas
    BY DEF CInv, ClockTyped, Deltas
  <2>3. time'[active[k + 1]] = Until[k + 1] - c
    <3>1. after[k + 1] = Until[k + 1] - Until[1] /\ active[k + 1] \in Timers
      BY <1>2, <1>4, <2>0
    <3>2. time'[active[k + 1]] = after[k + 1] - over
      BY <2>1, <3>1
    <3>3. Until[k + 1] \in Int
      BY <1>2, <2>0
    <3> HIDE DEF over
    <3>4. Until[k + 1] - Until[1] - over = Until[k + 1] - c
      BY <1>2, <1>3, <3>3
    <3> QED BY <3>1, <3>2, <3>4
  <2>4. ASSUME NEW i \in k + 2 .. Len(active) PROVE time'[active[i]] = time[active[i]]
    <3>1. /\ i \in 1 .. Len(active) /\ i # k + 1
          /\ \A j \in 1 .. k : j \in 1 .. Len(active) /\ j # i
      BY <1>2, <2>0
    <3>2. active[i] \in Timers /\ active[i] # active[k + 1] /\ \A j \in 1 .. k : active[i] # active[j]
      BY <1>2, <2>0, <3>1 DEF Distinct
    <3>3. left[active[i]] = time[active[i]]
      BY <3>2
    <3> HIDE DEF left
    <3> QED BY <2>1, <3>2, <3>3
  <2> HIDE DEF c, left
  <2>5. \A i \in 1 .. Len(active') : Until'[i] = Until[k + i] - c
    <3>1. c \in Int /\ active' = SubSeq(active, k + 1, Len(active))
      BY <1>3, <1>5
    <3>2. time \in Deltas /\ active \in Seq(Timers)
      BY <1>2
    <3> QED BY <1>12, <2>2, <2>3, <2>4, <3>1, <3>2, UntilBehind
  <2>6. NewHead
    <3>1. active' # <<>>
      BY <1>2, <1>9, <1>12
    <3>2. Head(active') = active[k + 1]
      BY <1>1, <1>5, <1>12, HeadBehind
    <3>3. active[k + 1] # active[1]
      BY <1>2, <2>0 DEF Distinct
    <3> QED BY <1>2, <3>1, <3>2, <3>3 DEF NewHead
  <2> QED BY <2>5, <2>6, Recorded
<1> HIDE DEF c, over
<1>13. c \in Int
  BY <1>3
<1>14. Len(active') = Len(active) - k /\ (k < Len(active) => elapsed' = 0)
  BY <1>9, <1>10
<1>15. ASSUME k < Len(active)
       PROVE  \A i \in 1 .. Len(active') : /\ active'[i] = active[k + i]
                                           /\ Until'[i] = Until[k + i] - c
  BY <1>9, <1>12, <1>15
<1>16. \E m \in 1 .. Len(active), d \in Int :
         /\ d >= elapsed /\ d <= elapsed + 1 /\ d >= Until[1]
         /\ \A i \in 1 .. m : Until[i] <= d
         /\ \A i \in m + 1 .. Len(active) : Until[i] > d
         /\ \A u \in Timers : Served(u)' => \E i \in 1 .. m : u = active[i]
         /\ \A i \in 1 .. Len(active) : due'[active[i]] = due[active[i]]
         /\ Len(active') = Len(active) - m
         /\ m < Len(active) =>
              /\ elapsed' = 0 /\ restarts' = restarts + 1
              /\ \A i \in 1 .. Len(active') : /\ active'[i] = active[m + i]
                                              /\ Until'[i] = Until[m + i] - d
  <2> WITNESS k \in 1 .. Len(active), c \in Int
  <2> QED BY <1>3, <1>6, <1>7, <1>8, <1>11, <1>12, <1>14, <1>15
<1> QED BY <1>1, <1>16

\* The head expires e ticks after it was set, at the sum c.
LEMMA ExpireMargins ==
    ASSUME NEW d \in Int, NEW e \in Int, NEW s \in Int, NEW h \in Int, NEW g \in Int,
           NEW c \in Int, NEW r \in Nat, e <= c, c <= e + 1, h <= c, g > c
    PROVE  /\ s <= c /\ Upper(d, e, s, r) => d <= r
           /\ s > c /\ Upper(d, e, s, r) => Upper(d, 0, s - c, r + 1)
           /\ s > c /\ Lower(d, e, s, h, r) => Lower(d, 0, s - c, g - c, r) /\ d + 1 + r > 0
BY DEF Upper, Lower

\* The interrupt serves the timers that are due and leaves those that are not.
LEMMA ExpireDInv ==
    ASSUME IInv, CInv, DInv, IInv', CInv', HandlerExpire, races' = races, Record(None, 0)
    PROVE  /\ DInv'
           /\ \A t \in Timers : state'[t] = "ACTIVE" => due'[t] + Late > 0
<1>1. active # <<>>
  BY ExpireFacts
<1>2. PICK k \in 1 .. Len(active), c \in Int :
        /\ c >= elapsed /\ c <= elapsed + 1 /\ c >= Until[1]
        /\ \A i \in 1 .. k : Until[i] <= c
        /\ \A i \in k + 1 .. Len(active) : Until[i] > c
        /\ \A u \in Timers : Served(u)' => \E i \in 1 .. k : u = active[i]
        /\ \A i \in 1 .. Len(active) : due'[active[i]] = due[active[i]]
        /\ Len(active') = Len(active) - k
        /\ k < Len(active) =>
             /\ elapsed' = 0 /\ restarts' = restarts + 1
             /\ \A i \in 1 .. Len(active') : /\ active'[i] = active[k + i]
                                             /\ Until'[i] = Until[k + i] - c
  BY ExpireFacts
<1>3. /\ Len(active) \in Nat \ {0} /\ elapsed \in Int
      /\ \A i \in 1 .. Len(active) : due[active[i]] \in Int /\ Until[i] \in Int
  BY <1>1, ActiveFacts
<1>4. /\ due' \in [Timers -> Int] /\ restarts' \in Nat /\ restarts' >= restarts
      /\ restarts \in Nat /\ races \in Nat /\ races' \in Nat
  BY Recorded DEF DInv
<1>5. 1 \in 1 .. Len(active) /\ Until[1] \in Int
  BY <1>3
<1>6. NeverEarly'
  <2> SUFFICES ASSUME races' = 0, NEW u \in Timers, Served(u)'
               PROVE  due'[u] <= restarts'
    BY DEF NeverEarly
  <2>1. PICK i \in 1 .. k : u = active[i]
    BY <1>2
  <2>2. i \in 1 .. Len(active) /\ Until[i] <= c
    BY <1>2, <1>3
  <2>3. due'[u] = due[active[i]] /\ due[active[i]] \in Int /\ Until[i] \in Int
    BY <1>2, <1>3, <2>1, <2>2
  <2>4. Upper(due[active[i]], elapsed, Until[i], restarts)
    BY <2>2 DEF DInv, NotAhead
  <2> DEFINE d == due[active[i]]
             s == Until[i]
  <2>5. /\ d \in Int /\ s \in Int /\ s <= c /\ Upper(d, elapsed, s, restarts)
        /\ due'[u] = d
    BY <2>2, <2>3, <2>4
  <2> HIDE DEF d, s
  <2>6. d <= restarts
    BY <1>2, <1>3, <1>4, <2>5 DEF Upper
  <2> QED BY <1>4, <2>5, <2>6
<1>7. CASE k < Len(active)
  <2>1. /\ elapsed' = 0 /\ restarts' = restarts + 1 /\ Len(active') = Len(active) - k
        /\ \A i \in 1 .. Len(active') : active'[i] = active[k + i] /\ Until'[i] = Until[k + i] - c
    BY <1>2, <1>7
  <2>2. Len(active') \in Nat \ {0} /\ 1 \in 1 .. Len(active') /\ k + 1 \in 1 .. Len(active)
    BY <1>3, <1>7, <2>1
  <2>3. Until'[1] = Until[k + 1] - c /\ Until[k + 1] \in Int /\ Until[k + 1] > c
    <3>1. k + 1 \in k + 1 .. Len(active)
      BY <2>2
    <3> QED BY <1>2, <1>3, <2>1, <2>2, <3>1
  <2>4. ASSUME NEW i \in 1 .. Len(active')
        PROVE  /\ races' = 0 => Upper(due'[active'[i]], elapsed', Until'[i], restarts')
               /\ Lower(due'[active'[i]], elapsed', Until'[i], Until'[1], races')
               /\ due'[active'[i]] + 1 + races > 0
    <3>1. k + i \in 1 .. Len(active) /\ k + i \in k + 1 .. Len(active)
      BY <1>3, <2>1
    <3>2. /\ due'[active'[i]] = due[active[k + i]] /\ Until'[i] = Until[k + i] - c
          /\ due[active[k + i]] \in Int /\ Until[k + i] \in Int /\ Until[k + i] > c
      BY <1>2, <1>3, <2>1, <3>1
    <3>3. /\ races' = 0 => Upper(due[active[k + i]], elapsed, Until[k + i], restarts)
          /\ Lower(due[active[k + i]], elapsed, Until[k + i], Until[1], races)
      BY <3>1 DEF DInv, NotAhead, NotBehind
    <3> DEFINE d == due[active[k + i]]
               s == Until[k + i]
               h == Until[1]
               g == Until[k + 1]
    <3>4. /\ d \in Int /\ s \in Int /\ h \in Int /\ g \in Int /\ s > c /\ g > c /\ h <= c
          /\ due'[active'[i]] = d /\ Until'[i] = s - c /\ Until'[1] = g - c
      BY <1>2, <1>5, <2>3, <3>2
    <3>5. /\ races' = 0 => Upper(d, elapsed, s, restarts)
          /\ Lower(d, elapsed, s, h, races)
      BY <3>3
    <3> HIDE DEF d, s, h, g
    <3>6. /\ races' = 0 => Upper(d, 0, s - c, restarts + 1)
          /\ Lower(d, 0, s - c, g - c, races)
          /\ d + 1 + races > 0
      BY <1>2, <1>3, <1>4, <3>4, <3>5, ExpireMargins
    <3> QED BY <2>1, <3>4, <3>6
  <2>5. NotAhead'
    <3>1. restarts' >= 1 /\ Until'[1] >= 1
      BY <1>2, <1>4, <2>1, <2>3
    <3> QED BY <2>4, <3>1 DEF NotAhead
  <2>6. NotBehind'
    BY <2>4 DEF NotBehind
  <2>7. ASSUME NEW t \in Timers, state'[t] = "ACTIVE" PROVE due'[t] + Late > 0
    <3>1. t \in InList(active')
      BY <2>7 DEF IInv, ListsAgree
    <3>2. PICK i \in 1 .. Len(active') : t = active'[i]
      BY <3>1 DEF InList
    <3>3. due'[t] + 1 + races > 0
      BY <2>4, <3>2
    <3>4. due'[t] \in Int
      BY <1>4
    <3> QED BY <1>4, <3>3, <3>4 DEF Late, HAL_TIMER_LOAD_DELTA
  <2> QED BY <1>4, <1>6, <2>5, <2>6, <2>7 DEF DInv
<1>8. CASE ~(k < Len(active))
  <2>1. active' = <<>> /\ Len(active') = 0
    <3>1. Len(active') = 0
      BY <1>2, <1>3, <1>8
    <3>2. active' \in Seq(Timers)
      BY DEF IInv, ListsTypeOK
    <3> QED BY <3>1, <3>2, EmptySeq
  <2>2. NotAhead' /\ NotBehind'
    BY <2>1 DEF NotAhead, NotBehind
  <2>3. ASSUME NEW t \in Timers, state'[t] = "ACTIVE" PROVE FALSE
    <3>1. t \in InList(active')
      BY <2>3 DEF IInv, ListsAgree
    <3> QED BY <2>1, <3>1 DEF InList
  <2> QED BY <1>4, <1>6, <2>2, <2>3 DEF DInv
<1> QED BY <1>7, <1>8

\* Both margins of a timer
Exact(d, e, s, h, r, q) == (r = 0 => Upper(d, e, s, q)) /\ Lower(d, e, s, h, r)

\* What is left to show when each active timer's margins are kept
LEMMA FromExact ==
    ASSUME due' \in [Timers -> Int], restarts' \in Nat, races' \in Nat, NeverEarly',
           races' = 0 /\ active' # <<>> => restarts' >= 1 /\ Until'[1] >= 1,
           \A i \in 1 .. Len(active') :
             Exact(due'[active'[i]], elapsed', Until'[i], Until'[1], races', restarts')
    PROVE  DInv'
<1>1. NotAhead'
  BY DEF NotAhead, Exact
<1>2. NotBehind'
  BY DEF NotBehind, Exact
<1> QED BY <1>1, <1>2 DEF DInv

\* Each active timer keeps its margins.
LEMMA AreExact ==
    ASSUME DInv, NEW i \in 1 .. Len(active)
    PROVE  Exact(due[active[i]], elapsed, Until[i], Until[1], races, restarts)
BY DEF DInv, NotAhead, NotBehind, Exact

\* A timer that stays active while the clock stands or starts again keeps its time.
LEMMA KeptDue ==
    ASSUME IInv', DInv, NEW t, NEW n \in Int, Record(t, n), elapsed' # elapsed + 1,
           NEW u \in Timers, u # t, u \in InList(active')
    PROVE  due'[u] = due[u]
BY Recorded

\* Calls of hwtimer_start and hwtimer_stop serve no timer.
LEMMA CallServesNone ==
    ASSUME IInv', DInv, NEW t, NEW n \in Int, Record(t, n), Raced,
           NEW u \in Timers, ~Served(u)', t = u \/ t = None,
           \A v \in Timers : v # u => state'[v] = state[v]
    PROVE  NeverEarly'
<1>1. races' \in {races, races + 1}
  BY DEF Raced, DInv
<1>2. \A v \in Timers : Served(v)' => Served(v) /\ v # t
  BY DEF Served, Timers, None
<1> QED BY <1>1, <1>2, ServedStay

\* A timer the hardware timer was just set for
LEMMA NewExact ==
    ASSUME NEW n \in Nat \ {0}, NEW r \in Nat, NEW q \in Nat, q >= 1
    PROVE  Exact(n, 0, n, n, r, q)
BY DEF Exact, Upper, Lower

\* hwtimer_start with no other timer active.
LEMMA StartAloneDInv ==
    ASSUME IInv, CInv, DInv, IInv', CInv', NeverEarly', NEW t \in Timers, NEW n \in Nat \ {0},
           Raced, Record(t, n), active = <<>>, active' = <<t>>,
           time'[t] = n, elapsed' = 0
    PROVE  DInv'
<1>1. /\ due' \in [Timers -> Int] /\ restarts' = restarts + 1
      /\ restarts \in Nat /\ races' \in Nat
  <2>1. NewHead
    BY DEF NewHead
  <2> QED BY <2>1, Recorded DEF DInv, Raced
<1>2. Len(active') = 1 /\ active'[1] = t /\ active' \in Seq(Timers) /\ active' # <<>>
  OBVIOUS
<1>3. Until'[1] = n
  <2> DEFINE tn == time'
             w == active'
  <2>1. tn \in Deltas /\ w \in Seq(Timers) /\ w # <<>> /\ w[1] = t /\ tn[t] = n
    BY <1>2 DEF CInv, ClockTyped, Deltas
  <2>2. Until' = SumOver(tn, w)
    BY DEF Until
  <2> HIDE DEF tn, w
  <2>3. SumOver(tn, w)[1] = tn[w[1]]
    BY <2>1, SumSteps
  <2> QED BY <2>1, <2>2, <2>3
<1>4. due'[t] = n
  <2>1. t \in InList(active') /\ elapsed' # elapsed + 1
    <3>1. elapsed \in Nat
      BY DEF CInv, ClockTyped
    <3> QED BY <1>2, <3>1 DEF InList
  <2> QED BY <2>1, Recorded
<1>5. Exact(n, 0, n, n, races', restarts')
  <2> DEFINE r == races'
             q == restarts'
  <2>1. r \in Nat /\ q \in Nat /\ q >= 1
    BY <1>1
  <2> HIDE DEF r, q
  <2>2. Exact(n, 0, n, n, r, q)
    BY <2>1, NewExact
  <2> QED BY <2>2 DEF r, q
<1>6. \A i \in 1 .. Len(active') :
        Exact(due'[active'[i]], elapsed', Until'[i], Until'[1], races', restarts')
  <2>1. ASSUME NEW i \in 1 .. Len(active')
        PROVE  Exact(due'[active'[i]], elapsed', Until'[i], Until'[1], races', restarts')
    <3>1. i = 1
      BY <1>2
    <3> QED BY <1>2, <1>3, <1>4, <1>5, <3>1
  <2> QED BY <2>1
<1>7. restarts' >= 1 /\ Until'[1] >= 1 /\ restarts' \in Nat
  BY <1>1, <1>3
<1> QED BY <1>1, <1>6, <1>7, FromExact

\* The head counts value + e ticks, and t is started before it.
LEMMA BeforeMargins ==
    ASSUME NEW d \in Int, NEW e \in Nat, NEW s \in Int, NEW h \in Nat, NEW v \in Nat,
           NEW n \in Nat, NEW r \in Nat, NEW q \in Nat, NEW x \in Int, NEW p \in Nat,
           v > n, n >= 1, v + e = Load(h), x = s - h + v, p = q + 1,
           Exact(d, e, s, h, r, q)
    PROVE  Exact(d, 0, x, n, r, p)
<1>1. h > 1 /\ v + e = h - 1
  BY DEF Load, HAL_TIMER_LOAD_DELTA
<1>2. r = 0 => Upper(d, 0, x, p)
  BY <1>1 DEF Exact, Upper
<1>3. Lower(d, 0, x, n, r)
  BY <1>1 DEF Exact, Lower
<1> QED BY <1>2, <1>3 DEF Exact

\* hwtimer_start before the head, whose delta shrinks to the rest of the count.
LEMMA StartBeforeDInv ==
    ASSUME IInv, CInv, DInv, IInv', CInv', NeverEarly', NEW t \in Timers, NEW n \in Nat \ {0},
           Raced, Record(t, n), active # <<>>, value > n, active' = <<t>> \o active,
           t \notin InList(active),
           time' = [time EXCEPT ![t] = n, ![Head(active)] = value - n], elapsed' = 0
    PROVE  DInv'
<1>1. /\ active \in Seq(Timers) /\ Distinct(active) /\ Len(active) \in Nat \ {0}
      /\ time \in Deltas /\ elapsed \in Nat /\ value \in Nat
      /\ \A i \in 1 .. Len(active) : active[i] \in Timers /\ due[active[i]] \in Int
                                     /\ Until[i] \in Int
      /\ Until[1] = time[active[1]] /\ Until[1] \in Nat /\ Head(active) = active[1]
      /\ value + elapsed = Load(Until[1])
  BY ActiveFacts
<1>2. time' \in Deltas
  BY DEF CInv, ClockTyped, Deltas
<1>3. \A i \in 1 .. Len(active) : active[i] # t /\ (i # 1 => active[i] # active[1])
  <2>1. 1 \in 1 .. Len(active)
    BY <1>1
  <2> QED BY <1>1, <2>1 DEF InList, Distinct
<1>4. time'[t] = n /\ time'[active[1]] = value - n
      /\ \A i \in 2 .. Len(active) : time'[active[i]] = time[active[i]]
  <2>1. 1 \in 1 .. Len(active) /\ \A i \in 2 .. Len(active) : i \in 1 .. Len(active) /\ i # 1
    BY <1>1
  <2>2. time \in [Timers -> Nat]
    BY <1>1 DEF Deltas
  <2> QED BY <1>1, <1>3, <2>1, <2>2
<1>5. Behind(time, time', active, active', t)
  <2> DEFINE tm == time
             tn == time'
             s == active
  <2>1. tm \in Deltas /\ tn \in Deltas /\ s \in Seq(Timers) /\ s # <<>> /\ OnlyHead(tm, tn, s)
    BY <1>1, <1>2, <1>4 DEF OnlyHead
  <2> HIDE DEF tm, tn, s
  <2>2. Behind(tm, tn, s, <<t>> \o s, t)
    BY <2>1, SumsBefore
  <2> QED BY <2>2 DEF tm, tn, s
<1>6. /\ active' # <<>> /\ Len(active') = Len(active) + 1
      /\ active'[1] = t /\ Until'[1] = n
      /\ \A i \in 1 .. Len(active) : active'[i + 1] = active[i]
                                     /\ Until'[i + 1] = Until[i] - Until[1] + value
  <2>1. /\ active' # <<>> /\ Len(active') = Len(active) + 1
        /\ active'[1] = t /\ Until'[1] = time'[t]
        /\ \A i \in 1 .. Len(active) :
             /\ active'[i + 1] = active[i]
             /\ Until'[i + 1] = Until[i] - time[active[1]] + time'[active[1]] + time'[t]
    BY <1>5 DEF Behind, Until
  <2>2. ASSUME NEW i \in 1 .. Len(active) PROVE Until'[i + 1] = Until[i] - Until[1] + value
    <3>1. Until'[i + 1] = Until[i] - Until[1] + (value - n) + n
      BY <1>1, <1>4, <2>1
    <3>2. Until[i] \in Int
      BY <1>1
    <3> QED BY <1>1, <3>1, <3>2
  <2> QED BY <1>4, <2>1, <2>2
<1>7. /\ due' \in [Timers -> Int] /\ restarts' = restarts + 1
      /\ restarts \in Nat /\ races \in Nat /\ races' = races
  <2>1. NewHead
    <3>1. active' \in Seq(Timers)
      BY DEF IInv, ListsTypeOK
    <3>2. Head(active') = t
      BY <1>6
    <3>3. active[1] # t
      <4>1. 1 \in 1 .. Len(active)
        BY <1>1
      <4> QED BY <1>3, <4>1
    <3> QED BY <1>1, <1>6, <3>2, <3>3 DEF NewHead
  <2>2. races' = races
    <3>1. value # 0
      BY <1>1
    <3> QED BY <3>1 DEF Raced, Expired, DInv
  <2> QED BY <2>1, <2>2, Recorded DEF DInv
<1>8. elapsed' # elapsed + 1
  BY <1>1
<1>9. \A i \in 1 .. Len(active') :
        Exact(due'[active'[i]], elapsed', Until'[i], Until'[1], races', restarts')
  <2> SUFFICES ASSUME NEW i \in 1 .. Len(active')
               PROVE  Exact(due'[active'[i]], 0, Until'[i], n, races, restarts')
    BY <1>6, <1>7
  <2>0. i \in Nat
    BY <1>1, <1>6
  <2>1. active'[i] \in InList(active')
    BY DEF InList
  <2>2. CASE i = 1
    <3>1. due'[t] = n
      BY <1>6, <1>8, <2>1, <2>2, Recorded, SMTT(30)
    <3>2. Exact(n, 0, n, n, races, restarts')
      <4> DEFINE q == restarts'
      <4>1. q \in Nat /\ q >= 1
        BY <1>7
      <4> HIDE DEF q
      <4>2. Exact(n, 0, n, n, races, q)
        BY <1>7, <4>1, NewExact
      <4> QED BY <4>2 DEF q
    <3> QED BY <1>6, <2>2, <3>1, <3>2
  <2>3. CASE i # 1
    <3> DEFINE j == i - 1
    <3>1. j \in 1 .. Len(active) /\ j + 1 = i
      BY <1>1, <1>6, <2>3
    <3> HIDE DEF j
    <3>2. active'[i] = active[j] /\ active[j] \in Timers /\ active[j] # t
      BY <1>1, <1>3, <1>6, <3>1
    <3>3. due'[active'[i]] = due[active[j]]
      <4> DEFINE u == active'[i]
      <4>1. u \in Timers /\ u # t /\ u \in InList(active') /\ u = active[j]
        BY <2>1, <3>2
      <4> HIDE DEF u
      <4>2. due'[u] = due[u]
        BY <1>8, <4>1, KeptDue
      <4> QED BY <4>1, <4>2 DEF u
    <3>4. Exact(due[active[j]], elapsed, Until[j], Until[1], races, restarts)
      BY <3>1, AreExact
    <3>5. due[active[j]] \in Int /\ Until[j] \in Int
      BY <1>1, <3>1
    <3>6. Until'[i] = Until[j] - Until[1] + value
      BY <1>6, <3>1
    <3> DEFINE d == due[active[j]]
               s == Until[j]
               h == Until[1]
               x == Until'[i]
               p == restarts'
    <3>7. /\ d \in Int /\ s \in Int /\ h \in Nat /\ x \in Int /\ p \in Nat
          /\ Exact(d, elapsed, s, h, races, restarts)
          /\ value + elapsed = Load(h) /\ x = s - h + value /\ p = restarts + 1
      <4>1. Until[j] - Until[1] + value \in Int
        BY <1>1, <3>5
      <4> QED BY <1>1, <1>7, <3>4, <3>5, <3>6, <4>1
    <3>8. due'[active'[i]] = d
      BY <3>3
    <3> HIDE DEF d, s, h, x, p
    <3>9. /\ elapsed \in Nat /\ value \in Nat /\ value > n /\ n >= 1 /\ n \in Nat
          /\ restarts \in Nat /\ races \in Nat
      BY <1>1, <1>7
    <3>10. Exact(d, 0, x, n, races, p)
      BY <3>7, <3>9, BeforeMargins
    <3> QED BY <3>8, <3>10 DEF x, p
  <2> QED BY <2>2, <2>3
<1>10. restarts' >= 1 /\ Until'[1] >= 1 /\ restarts' \in Nat /\ races' \in Nat
  BY <1>6, <1>7
<1> QED BY <1>7, <1>9, <1>10, FromExact

\* t is started v - e ticks behind a head that counts them.
LEMMA BehindMargins ==
    ASSUME NEW n \in Nat, NEW e \in Nat, NEW h \in Nat, NEW v \in Nat, NEW c \in Int,
           NEW r \in Nat, NEW q \in Nat, c = h + n - v, v + e + 1 >= h,
           r = 0 => v + e = Load(h) /\ h >= 1 /\ q >= 1
    PROVE  Exact(n, e, c, h, r, q)
<1>1. r = 0 => Upper(n, e, c, q)
  BY DEF Upper, Load, HAL_TIMER_LOAD_DELTA
<1>2. Lower(n, e, c, h, r)
  BY DEF Lower
<1> QED BY <1>1, <1>2 DEF Exact

\* A timer that stays where it is keeps its margins.
LEMMA StillExact ==
    ASSUME NEW d \in Int, NEW e \in Nat, NEW s \in Int, NEW h \in Int,
           NEW r \in Nat, NEW q \in Nat, NEW r2 \in Nat, NEW q2 \in Nat,
           r2 >= r, q2 >= q, Exact(d, e, s, h, r, q)
    PROVE  Exact(d, e, s, h, r2, q2)
<1>1. r2 = 0 => r = 0
  OBVIOUS
<1>2. r2 = 0 => Upper(d, e, s, q2)
  BY <1>1 DEF Exact, Upper
<1>3. Lower(d, e, s, h, r2)
  BY DEF Exact, Lower
<1> QED BY <1>2, <1>3 DEF Exact

\* hwtimer_start behind the head, with the clock going on.
LEMMA StartBehindDInv ==
    ASSUME IInv, CInv, DInv, IInv', CInv', NeverEarly', NEW t \in Timers, NEW n \in Nat \ {0},
           Raced, Record(t, n), active # <<>>, value <= n, t \notin InList(active),
           NEW k \in 1 .. Len(active), active' = InsertAfter(active, k, t),
           UNCHANGED elapsed, NEW c \in Int, c = Until[1] + n - value,
           SplitAt(time, time', active, k, t, c)
    PROVE  DInv'
<1>1. /\ active \in Seq(Timers) /\ Len(active) \in Nat \ {0}
      /\ time \in Deltas /\ elapsed \in Nat /\ value \in Nat
      /\ \A i \in 1 .. Len(active) : active[i] \in Timers /\ due[active[i]] \in Int
                                     /\ Until[i] \in Int
      /\ Until[1] \in Nat
      /\ value + elapsed + 1 >= Until[1]
      /\ value > 0 => value + elapsed = Load(Until[1])
  BY ActiveFacts
<1>2. time' \in Deltas
  BY DEF CInv, ClockTyped, Deltas
<1>3. \A i \in 1 .. Len(active) : active[i] # t
  BY DEF InList
<1>4. Inserted(time, time', active, active', k, t, c)
  <2> DEFINE tm == time
             tn == time'
             s == active
  <2>1. tm \in Deltas /\ tn \in Deltas /\ s \in Seq(Timers) /\ k \in 1 .. Len(s)
        /\ SplitAt(tm, tn, s, k, t, c)
    BY <1>1, <1>2
  <2> HIDE DEF tm, tn, s
  <2>2. Inserted(tm, tn, s, InsertAfter(s, k, t), k, t, c)
    BY <2>1, SumsInserted
  <2> QED BY <2>2 DEF tm, tn, s
<1>5. /\ active' # <<>> /\ Len(active') = Len(active) + 1
      /\ \A i \in 1 .. k : active'[i] = active[i] /\ Until'[i] = Until[i]
      /\ active'[k + 1] = t /\ Until'[k + 1] = c
      /\ \A i \in k + 1 .. Len(active) : active'[i + 1] = active[i] /\ Until'[i + 1] = Until[i]
  BY <1>4 DEF Inserted, Until
<1>6. Until'[1] = Until[1]
  BY <1>1, <1>5
<1>7. /\ due' \in [Timers -> Int] /\ restarts' >= restarts /\ restarts' \in Nat
      /\ restarts \in Nat /\ races \in Nat /\ races' \in Nat /\ races' >= races
  BY Recorded DEF DInv, Raced
<1>8. elapsed' # elapsed + 1
  BY <1>1
<1>9. races' = 0 => value > 0 /\ races = 0 /\ restarts >= 1 /\ Until[1] >= 1
  <2> SUFFICES ASSUME races' = 0 PROVE value > 0 /\ races = 0 /\ restarts >= 1 /\ Until[1] >= 1
    OBVIOUS
  <2>1. races = 0 /\ ~Expired
    BY <1>7 DEF Raced
  <2>2. enabled
    BY DEF IInv, RunsIffActive
  <2>3. value # 0
    BY <2>1, <2>2 DEF Expired
  <2>4. restarts >= 1 /\ Until[1] >= 1
    BY <2>1 DEF DInv, NotAhead
  <2> QED BY <1>1, <2>1, <2>3, <2>4
<1>10. Exact(n, elapsed, c, Until[1], races', restarts')
  <2> DEFINE r == races'
             q == restarts'
             h == Until[1]
  <2>1. /\ n \in Nat /\ elapsed \in Nat /\ value \in Nat /\ h \in Nat /\ r \in Nat /\ q \in Nat
        /\ c = h + n - value /\ value + elapsed + 1 >= h
    BY <1>1, <1>7
  <2>2. r = 0 => value + elapsed = Load(h) /\ h >= 1 /\ q >= 1
    BY <1>1, <1>7, <1>9
  <2> HIDE DEF r, q, h
  <2>3. Exact(n, elapsed, c, h, r, q)
    BY <2>1, <2>2, BehindMargins
  <2> QED BY <2>3 DEF r, q, h
<1>11. ASSUME NEW i \in 1 .. Len(active), NEW u \in Timers, u = active[i], u \in InList(active')
       PROVE  Exact(due'[u], elapsed, Until[i], Until[1], races', restarts')
  <2>1. due'[u] = due[u]
    BY <1>3, <1>8, <1>11, KeptDue
  <2>2. Exact(due[u], elapsed, Until[i], Until[1], races, restarts)
    BY <1>11, AreExact
  <2> DEFINE d == due[u]
             s == Until[i]
             h == Until[1]
             r == races'
             q == restarts'
  <2>3. d \in Int /\ s \in Int /\ h \in Int /\ elapsed \in Nat
    BY <1>1, <1>11
  <2>4. r \in Nat /\ q \in Nat /\ r >= races /\ q >= restarts /\ races \in Nat /\ restarts \in Nat
    BY <1>7
  <2>5. Exact(d, elapsed, s, h, races, restarts)
    BY <2>2
  <2> HIDE DEF d, s, h, r, q
  <2>6. Exact(d, elapsed, s, h, r, q)
    BY <2>3, <2>4, <2>5, StillExact
  <2> QED BY <2>1, <2>6 DEF d, s, h, r, q
<1>12. ASSUME NEW i \in 1 .. Len(active')
       PROVE  Exact(due'[active'[i]], elapsed', Until'[i], Until'[1], races', restarts')
  <2> SUFFICES ASSUME NEW u, u = active'[i]
               PROVE  Exact(due'[u], elapsed, Until'[i], Until[1], races', restarts')
    BY <1>6
  <2>1. u \in InList(active')
    BY DEF InList
  <2>2. CASE i \in 1 .. k
    <3>1. i \in 1 .. Len(active) /\ u = active[i] /\ Until'[i] = Until[i]
      BY <1>1, <1>5, <2>2
    <3> QED BY <1>1, <1>11, <2>1, <3>1
  <2>3. CASE i = k + 1
    <3>1. u = t /\ Until'[i] = c
      BY <1>5, <2>3
    <3>2. due'[u] = n
      BY <1>8, <2>1, <3>1, Recorded
    <3> QED BY <1>10, <3>1, <3>2
  <2>4. CASE i > k + 1
    <3> DEFINE j == i - 1
    <3>1. j \in 1 .. Len(active) /\ j \in k + 1 .. Len(active) /\ j + 1 = i
      BY <1>1, <1>5, <2>4
    <3> HIDE DEF j
    <3>2. u = active[j] /\ Until'[i] = Until[j]
      BY <1>5, <3>1
    <3> QED BY <1>1, <1>11, <2>1, <3>1, <3>2
  <2> QED BY <1>1, <1>5, <2>2, <2>3, <2>4
<1>13. races' = 0 => restarts' >= 1 /\ Until'[1] >= 1
  BY <1>6, <1>7, <1>9
<1> QED BY <1>7, <1>12, <1>13, FromExact

\* Starting a timer puts it, and leaves the others, where they are due.
LEMMA StartDInv ==
    ASSUME IInv, CInv, DInv, IInv', CInv', NEW t \in Timers, NEW n \in 1 .. MaxTicks,
           hwtimer_start(t, n), Raced, Record(t, n)
    PROVE  DInv'
<1> DEFINE after == [i \in 1 .. Len(active) |-> Sum(active)[i] - Sum(active)[1]]
           ticks == IF n < HAL_TIMER_LOAD_DELTA THEN HAL_TIMER_LOAD_DELTA ELSE n
           left == ticks - value
<1>1. n \in Nat \ {0} /\ ticks = n
  BY HwTimerAssumption DEF HAL_TIMER_LOAD_DELTA
<1>2. /\ state[t] \in {"ALLOC", "CALLBACK"}
      /\ state' = [state EXCEPT ![t] = "ACTIVE"]
      /\ \/ /\ active = <<>>
            /\ active' = <<t>>
            /\ time' = [time EXCEPT ![t] = ticks]
            /\ hal_timer_start(ticks, pending)
         \/ /\ active # <<>> /\ value > ticks
            /\ active' = <<t>> \o active
            /\ time' = [time EXCEPT ![t] = ticks, ![Head(active)] = value - ticks]
            /\ hal_timer_start(ticks, FALSE)
         \/ /\ active # <<>> /\ value <= ticks
            /\ \E k \in 1 .. Len(active) :
                 /\ \A i \in 2 .. k : after[i] < left
                 /\ k < Len(active) => after[k + 1] >= left
                 /\ active' = InsertAfter(active, k, t)
                 /\ time' = [u \in Timers |->
                      IF u = t THEN left - after[k]
                      ELSE IF k < Len(active) /\ u = active[k + 1]
                      THEN after[k + 1] - left ELSE time[u]]
            /\ UNCHANGED hal
  BY DEF hwtimer_start
<1> HIDE DEF after, ticks, left
<1>3. NeverEarly'
  <2>1. state \in [Timers -> HWTIMER_STATE_T] /\ state' = [state EXCEPT ![t] = "ACTIVE"]
    BY <1>2 DEF IInv, ListsTypeOK
  <2>2. ~Served(t)' /\ \A v \in Timers : v # t => state'[v] = state[v]
    BY <2>1 DEF Served
  <2>3. n \in Int
    BY <1>1
  <2> QED BY <2>2, <2>3, CallServesNone
<1>4. t \notin InList(active)
  BY <1>2 DEF IInv, ListsAgree
<1>5. CASE active = <<>> /\ active' = <<t>> /\ time' = [time EXCEPT ![t] = ticks]
           /\ hal_timer_start(ticks, pending)
  <2>1. time'[t] = n
    BY <1>1, <1>5 DEF CInv, ClockTyped
  <2>2. elapsed' = 0
    BY <1>5 DEF hal_timer_start
  <2> QED BY <1>1, <1>3, <1>5, <2>1, <2>2, StartAloneDInv
<1>6. CASE /\ active # <<>> /\ value > ticks
           /\ active' = <<t>> \o active
           /\ time' = [time EXCEPT ![t] = ticks, ![Head(active)] = value - ticks]
           /\ hal_timer_start(ticks, FALSE)
  <2>1. elapsed' = 0
    BY <1>6 DEF hal_timer_start
  <2> QED BY <1>1, <1>3, <1>4, <1>6, <2>1, StartBeforeDInv
<1>7. CASE /\ active # <<>> /\ value <= ticks
           /\ \E k \in 1 .. Len(active) :
                /\ active' = InsertAfter(active, k, t)
                /\ time' = [u \in Timers |->
                     IF u = t THEN left - after[k]
                     ELSE IF k < Len(active) /\ u = active[k + 1]
                     THEN after[k + 1] - left ELSE time[u]]
           /\ UNCHANGED hal
  <2>1. PICK k \in 1 .. Len(active) :
          /\ active' = InsertAfter(active, k, t)
          /\ time' = [u \in Timers |->
               IF u = t THEN left - after[k]
               ELSE IF k < Len(active) /\ u = active[k + 1]
               THEN after[k + 1] - left ELSE time[u]]
    BY <1>7
  <2> DEFINE c == Until[1] + n - value
  <2>2. /\ active \in Seq(Timers) /\ Distinct(active) /\ Len(active) \in Nat \ {0}
        /\ Until[1] \in Nat /\ value \in Nat
        /\ \A i \in 1 .. Len(active) : active[i] \in Timers /\ Until[i] \in Int
    BY <1>7, ActiveFacts
  <2>3. \A i \in 1 .. Len(active) : after[i] = Until[i] - Until[1]
    BY SumIsSumOver DEF Until, after
  <2>4. c \in Int
    BY <1>1, <2>2
  <2>5. \A i \in 1 .. Len(active) : active[i] # t
    BY <1>4 DEF InList
  <2>6. time'[t] = c - Until[k]
    <3>1. time'[t] = left - after[k] /\ after[k] = Until[k] - Until[1] /\ Until[k] \in Int
      BY <2>1, <2>2, <2>3
    <3> QED BY <1>1, <2>2, <3>1 DEF left
  <2>7. ASSUME k < Len(active) PROVE time'[active[k + 1]] = Until[k + 1] - c
    <3>1. k + 1 \in 1 .. Len(active)
      BY <2>2, <2>7
    <3>2. /\ time'[active[k + 1]] = after[k + 1] - left
          /\ after[k + 1] = Until[k + 1] - Until[1] /\ Until[k + 1] \in Int
      BY <2>1, <2>2, <2>3, <2>5, <2>7, <3>1
    <3> QED BY <1>1, <2>2, <3>2 DEF left
  <2>8. ASSUME NEW i \in 1 .. Len(active), i # k + 1 PROVE time'[active[i]] = time[active[i]]
    <3>1. k < Len(active) => active[i] # active[k + 1]
      <4>1. k < Len(active) => k + 1 \in 1 .. Len(active)
        BY <2>2
      <4> QED BY <2>2, <2>8, <4>1 DEF Distinct
    <3>2. active[i] \in Timers /\ active[i] # t
      BY <2>2, <2>5
    <3> QED BY <2>1, <3>1, <3>2
  <2>9. SplitAt(time, time', active, k, t, c)
    <3> HIDE DEF c
    <3> QED BY <2>6, <2>7, <2>8 DEF SplitAt, Until
  <2>10. elapsed' = elapsed
    BY <1>7 DEF hal
  <2>11. c = Until[1] + n - value
    OBVIOUS
  <2> HIDE DEF c
  <2> QED BY <1>1, <1>3, <1>4, <1>7, <2>1, <2>4, <2>9, <2>10, <2>11, StartBehindDInv
<1> QED BY <1>2, <1>5, <1>6, <1>7

\* Stopping a timer serves none.
LEMMA StopServesNone ==
    ASSUME IInv, DInv, IInv', NEW t \in Timers, Raced, Record(None, 0),
           state' = [state EXCEPT ![t] = "ALLOC"]
    PROVE  NeverEarly'
<1>1. state \in [Timers -> HWTIMER_STATE_T]
  BY DEF IInv, ListsTypeOK
<1>2. ~Served(t)' /\ \A v \in Timers : v # t => state'[v] = state[v]
  BY <1>1 DEF Served
<1> QED BY <1>2, CallServesNone

\* The counter of the head is v when e ticks have passed, and the next timer,
\* with the sum g, becomes the head.
LEMMA NextMargins ==
    ASSUME NEW d \in Int, NEW e \in Nat, NEW s \in Int, NEW h \in Nat, NEW g \in Int,
           NEW v \in Nat \ {0}, NEW r \in Nat, NEW q \in Nat, NEW x \in Int, NEW y \in Int,
           NEW p \in Nat, v + e = Load(h), h <= g, g <= s,
           x = s - h + v, y = g - h + v, p = q + 1, Exact(d, e, s, h, r, q)
    PROVE  Exact(d, 0, x, y, r, p)
<1>1. IF h > 1 THEN v + e = h - 1 ELSE v = 1 /\ e = 0
  BY DEF Load, HAL_TIMER_LOAD_DELTA
<1>2. r = 0 => Upper(d, 0, x, p)
  BY <1>1 DEF Exact, Upper
<1>3. Lower(d, 0, x, y, r)
  <2>1. CASE d + e + 1 + r >= s + (IF h = 0 THEN 1 ELSE 0)
    BY <1>1, <2>1 DEF Lower
  <2>2. CASE s = h /\ h <= 1
    BY <1>1, <2>2 DEF Lower
  <2> QED BY <2>1, <2>2 DEF Exact, Lower
<1> QED BY <1>2, <1>3 DEF Exact

\* The next timer takes over from a head at h that has v ticks to go.
LEMMA TakesOver ==
    ASSUME NEW h \in Nat, NEW v \in Nat \ {0}, NEW m \in Nat, NEW g \in Int, g = h + m
    PROVE  /\ h - v \in Int /\ m + v = g - (h - v)
           /\ g - (h - v) = g - h + v /\ g - h + v >= 1 /\ g - h + v \in Int
OBVIOUS

\* hwtimer_stop of the head while the counter runs.
LEMMA StopCountingDInv ==
    ASSUME IInv, CInv, DInv, IInv', CInv', NeverEarly', Raced, Record(None, 0),
           active # <<>>, value > 0, 1 < Len(active),
           active' = SubSeq(active, 1 + 1, Len(active)),
           time' = [time EXCEPT ![active[1]] = 0, ![active[2]] = @ + value],
           elapsed' = 0
    PROVE  DInv'
<1>1. /\ active \in Seq(Timers) /\ Distinct(active) /\ Len(active) \in Nat \ {0}
      /\ time \in Deltas /\ elapsed \in Nat /\ value \in Nat
      /\ \A i \in 1 .. Len(active) : active[i] \in Timers /\ due[active[i]] \in Int
                                     /\ Until[i] \in Int
      /\ Until[1] \in Nat /\ Head(active) = active[1]
      /\ value + elapsed = Load(Until[1])
  BY ActiveFacts
<1>2. time' \in Deltas
  BY DEF CInv, ClockTyped, Deltas
<1>3. 1 \in 1 .. Len(active) /\ 2 \in 1 .. Len(active) /\ active[1] # active[2]
  BY <1>1 DEF Distinct
<1>4. Until[2] = Until[1] + time[active[2]] /\ time[active[2]] \in Nat /\ Until[2] \in Int
  <2>1. 1 \in 1 .. Len(active) - 1
    BY <1>1
  <2>2. Until[1 + 1] = Until[1] + time[active[1 + 1]] /\ time[active[2]] \in Nat
    BY <1>1, <1>3, <2>1, SumSteps DEF Until
  <2> QED BY <1>1, <1>3, <2>2
<1> DEFINE c == Until[1] - value
<1>5. time'[active[1 + 1]] = Until[1 + 1] - c /\ c \in Int
  <2>1. time'[active[2]] = time[active[2]] + value
    <3> DEFINE a == active[1]
               b == active[2]
    <3>1. a \in Timers /\ b \in Timers /\ a # b /\ time \in [Timers -> Nat]
          /\ time' = [time EXCEPT ![a] = 0, ![b] = @ + value]
      BY <1>1, <1>3 DEF Deltas
    <3> HIDE DEF a, b
    <3>2. time'[b] = time[b] + value
      BY <3>1
    <3> QED BY <3>2 DEF b
  <2>2. value \in Nat \ {0} /\ Until[1] \in Nat
    BY <1>1
  <2>3. /\ Until[1] - value \in Int
        /\ time[active[2]] + value = Until[2] - (Until[1] - value)
    <3> DEFINE h == Until[1]
               g == Until[2]
               m == time[active[2]]
    <3>1. h \in Nat /\ m \in Nat /\ g \in Int /\ g = h + m
      BY <1>4, <2>2
    <3> HIDE DEF h, g, m
    <3>2. h - value \in Int /\ m + value = g - (h - value)
      BY <2>2, <3>1, TakesOver
    <3> QED BY <3>2 DEF h, g, m
  <2>4. 1 + 1 = 2
    OBVIOUS
  <2> QED BY <2>1, <2>3, <2>4
<1>6. \A i \in 1 + 2 .. Len(active) : time'[active[i]] = time[active[i]]
  <2> SUFFICES ASSUME NEW i \in 1 + 2 .. Len(active) PROVE time'[active[i]] = time[active[i]]
    OBVIOUS
  <2>1. i \in 1 .. Len(active) /\ i # 1 /\ i # 2
    BY <1>1
  <2>2. active[i] \in Timers /\ active[i] # active[1] /\ active[i] # active[2]
    BY <1>1, <1>3, <2>1 DEF Distinct
  <2> QED BY <1>1, <2>2 DEF Deltas
<1> HIDE DEF c
<1>7. /\ active' # <<>> /\ Len(active') = Len(active) - 1
      /\ \A i \in 1 .. Len(active') : active'[i] = active[1 + i] /\ Until'[i] = Until[1 + i] - c
  BY <1>1, <1>2, <1>3, <1>5, <1>6, UntilBehind
<1>8. /\ due' \in [Timers -> Int] /\ restarts' = restarts + 1
      /\ restarts \in Nat /\ races \in Nat /\ races' = races
  <2>1. NewHead
    <3>1. Head(active') = active[1 + 1]
      BY <1>3, HeadBehind
    <3> QED BY <1>1, <1>3, <1>7, <3>1 DEF NewHead
  <2>2. races' = races
    <3>1. value # 0
      BY <1>1
    <3> QED BY <3>1 DEF Raced, Expired, DInv
  <2> QED BY <2>1, <2>2, Recorded DEF DInv
<1>9. 1 \in 1 .. Len(active') /\ Until'[1] = Until[2] - Until[1] + value /\ Until'[1] >= 1
      /\ Until'[1] \in Int
  <2>1. 1 \in 1 .. Len(active')
    BY <1>1, <1>7
  <2>2. Until'[1] = Until[2] - c
    BY <1>7, <2>1
  <2>3. value \in Nat \ {0} /\ Until[1] \in Nat
    BY <1>1
  <2>4. /\ Until[2] - c = Until[2] - Until[1] + value
        /\ Until[2] - Until[1] + value >= 1 /\ Until[2] - Until[1] + value \in Int
    <3> DEFINE h == Until[1]
               g == Until[2]
               m == time[active[2]]
    <3>1. h \in Nat /\ m \in Nat /\ g \in Int /\ g = h + m /\ c = h - value
      BY <1>4, <2>3 DEF c
    <3> HIDE DEF h, g, m
    <3>2. g - c = g - h + value /\ g - h + value >= 1 /\ g - h + value \in Int
      BY <2>3, <3>1, TakesOver
    <3> QED BY <3>2 DEF h, g, m
  <2> QED BY <2>1, <2>2, <2>4
<1>10. ASSUME NEW i \in 1 .. Len(active')
       PROVE  Exact(due'[active'[i]], elapsed', Until'[i], Until'[1], races', restarts')
  <2> DEFINE j == 1 + i
  <2>1. j \in 1 .. Len(active) /\ j \in 2 .. Len(active)
    BY <1>1, <1>7
  <2>2. active'[i] = active[j] /\ Until'[i] = Until[j] - c
    BY <1>7
  <2> HIDE DEF j
  <2>3. due'[active'[i]] = due[active[j]]
    <3> DEFINE u == active'[i]
    <3>1. u \in Timers /\ u # None /\ u \in InList(active') /\ u = active[j]
      BY <1>1, <2>1, <2>2 DEF InList, Timers, None
    <3>2. elapsed' # elapsed + 1
      BY <1>1
    <3> HIDE DEF u
    <3>3. due'[u] = due[u]
      BY <3>1, <3>2, KeptDue
    <3> QED BY <3>1, <3>3 DEF u
  <2>4. Exact(due[active[j]], elapsed, Until[j], Until[1], races, restarts)
    BY <2>1, AreExact
  <2>5. Until[1] <= Until[2] /\ Until[2] <= Until[j] /\ Until[j] \in Int /\ due[active[j]] \in Int
    <3>1. Until[2] <= Until[j]
      BY <1>1, <1>3, <2>1, SumsGrow DEF Until
    <3> QED BY <1>1, <1>4, <2>1, <3>1, SMTT(30)
  <2> DEFINE d == due[active[j]]
             s == Until[j]
             h == Until[1]
             g == Until[2]
             x == Until'[i]
             y == Until'[1]
             p == restarts'
  <2>6. /\ d \in Int /\ s \in Int /\ h \in Nat /\ g \in Int /\ p \in Nat /\ y \in Int
        /\ value + elapsed = Load(h) /\ h <= g /\ g <= s
        /\ y = g - h + value /\ p = restarts + 1
        /\ Exact(d, elapsed, s, h, races, restarts)
    BY <1>1, <1>4, <1>8, <1>9, <2>4, <2>5
  <2>7. x = s - c /\ c = h - value
    BY <2>2 DEF c
  <2>8. due'[active'[i]] = d
    BY <2>3
  <2> HIDE DEF d, s, h, g, x, y, p
  <2>9. /\ elapsed \in Nat /\ value \in Nat \ {0}
        /\ restarts \in Nat /\ races \in Nat
    BY <1>1, <1>8
  <2>10. x = s - h + value /\ x \in Int
    BY <2>6, <2>7, <2>9
  <2>11. Exact(d, 0, x, y, races, p)
    BY <2>6, <2>9, <2>10, NextMargins
  <2> QED BY <1>8, <2>8, <2>11 DEF x, y, p
<1> QED BY <1>8, <1>9, <1>10, FromExact

\* The head is stopped with its counter run out, e ticks after it was set: a
\* timer due behind it is overdue with it, or is left the rest.
LEMMA OverdueMargins ==
    ASSUME NEW d \in Int, NEW e \in Nat, NEW s \in Int, NEW h \in Nat, NEW g \in Int,
           NEW over \in Nat, NEW r \in Nat, NEW q \in Nat, NEW x \in Int, NEW y \in Int,
           NEW p \in Nat, over = IF e > h THEN e - h ELSE 0, h <= g, g <= s,
           x = IF s - h <= over THEN 0 ELSE s - h - over,
           y = IF g - h <= over THEN 0 ELSE g - h - over,
           Exact(d, e, s, h, r, q)
    PROVE  Exact(d, 0, x, y, r + 1, p)
<1>1. Lower(d, 0, x, y, r + 1)
  <2>1. CASE s - h <= over
    <3>1. x = 0 /\ y = 0
      BY <2>1
    <3> QED BY <3>1 DEF Lower
  <2>2. CASE s - h > over
    <3>1. x = s - h - over /\ over >= e - h /\ s # h
      BY <2>2
    <3>2. d + e + 1 + r >= s
      BY <3>1 DEF Exact, Lower
    <3>3. x <= s - e
      BY <3>1
    <3>4. d + 0 + 1 + (r + 1) >= x + 1
      BY <3>2, <3>3
    <3> QED BY <3>4 DEF Lower
  <2> QED BY <2>1, <2>2
<1>2. r + 1 # 0
  OBVIOUS
<1> QED BY <1>1, <1>2 DEF Exact

\* hwtimer_stop of the head when the counter has run out.
LEMMA StopRunOutDInv ==
    ASSUME IInv, CInv, DInv, IInv', CInv', NeverEarly', Raced, Record(None, 0),
           active # <<>>, value = 0, 1 < Len(active),
           active' = SubSeq(active, 1 + 1, Len(active)),
           NEW over, over = (IF elapsed > Until[1] THEN elapsed - Until[1] ELSE 0),
           Caught(time, time', active, over), elapsed' = 0
    PROVE  DInv'
<1>1. /\ active \in Seq(Timers) /\ Len(active) \in Nat \ {0}
      /\ time \in Deltas /\ elapsed \in Nat /\ value \in Nat
      /\ \A i \in 1 .. Len(active) : active[i] \in Timers /\ due[active[i]] \in Int
                                     /\ Until[i] \in Int
      /\ Until[1] \in Nat
  BY ActiveFacts
<1>2. time' \in Deltas
  BY DEF CInv, ClockTyped, Deltas
<1>3. over \in Nat
  BY <1>1
<1>4. Overtaken(time, time', active, active', over)
  <2> DEFINE tm == time
             tn == time'
             s == active
  <2>1. tm \in Deltas /\ tn \in Deltas /\ s \in Seq(Timers) /\ Len(s) > 1
        /\ Caught(tm, tn, s, over)
    BY <1>1, <1>2
  <2> HIDE DEF tm, tn, s
  <2>2. Overtaken(tm, tn, s, SubSeq(s, 1 + 1, Len(s)), over)
    BY <1>3, <2>1, SumsOverdue
  <2> QED BY <2>2 DEF tm, tn, s
<1>5. /\ active' # <<>> /\ Len(active') = Len(active) - 1
      /\ \A i \in 1 .. Len(active') :
           /\ active'[i] = active[1 + i]
           /\ Until'[i] = IF Until[1 + i] - Until[1] <= over THEN 0
                          ELSE Until[1 + i] - Until[1] - over
  BY <1>4 DEF Overtaken, Distance, Until
<1>6. /\ due' \in [Timers -> Int] /\ restarts' \in Nat
      /\ restarts \in Nat /\ races \in Nat /\ races' = races + 1
  <2>1. enabled
    BY DEF IInv, RunsIffActive
  <2> QED BY <2>1, Recorded DEF DInv, Raced, Expired
<1>7. 1 \in 1 .. Len(active') /\ 2 \in 1 .. Len(active) /\ 1 \in 1 .. Len(active)
  BY <1>1, <1>5
<1>8. /\ Until'[1] = IF Until[2] - Until[1] <= over THEN 0 ELSE Until[2] - Until[1] - over
      /\ Until[2] \in Int
  <2>1. 1 + 1 = 2
    OBVIOUS
  <2> QED BY <1>1, <1>5, <1>7, <2>1
<1>9. ASSUME NEW i \in 1 .. Len(active')
      PROVE  Exact(due'[active'[i]], elapsed', Until'[i], Until'[1], races', restarts')
  <2> DEFINE j == 1 + i
  <2>1. j \in 1 .. Len(active) /\ j \in 2 .. Len(active)
    BY <1>1, <1>5
  <2>2. active'[i] = active[j]
        /\ Until'[i] = IF Until[j] - Until[1] <= over THEN 0 ELSE Until[j] - Until[1] - over
    BY <1>5
  <2> HIDE DEF j
  <2>3. due'[active'[i]] = due[active[j]]
    <3> DEFINE u == active'[i]
    <3>1. u \in Timers /\ u # None /\ u \in InList(active') /\ u = active[j]
      BY <1>1, <2>1, <2>2 DEF InList, Timers, None
    <3>2. elapsed' # elapsed + 1
      BY <1>1
    <3> HIDE DEF u
    <3>3. due'[u] = due[u]
      BY <3>1, <3>2, KeptDue
    <3> QED BY <3>1, <3>3 DEF u
  <2>4. Exact(due[active[j]], elapsed, Until[j], Until[1], races, restarts)
    BY <2>1, AreExact
  <2>5. Until[1] <= Until[2] /\ Until[2] <= Until[j] /\ Until[j] \in Int /\ due[active[j]] \in Int
    <3>1. 2 \in 1 .. Len(active) /\ j \in 2 .. Len(active) /\ 2 \in 1 .. Len(active)
      BY <1>7, <2>1
    <3>2. Until[2] <= Until[j]
      BY <1>1, <3>1, SumsGrow DEF Until
    <3>3. Until[1] <= Until[2]
      BY <1>1, <1>7, SumsGrow DEF Until
    <3> QED BY <1>1, <2>1, <3>2, <3>3
  <2> DEFINE d == due[active[j]]
             s == Until[j]
             h == Until[1]
             g == Until[2]
             x == Until'[i]
             y == Until'[1]
             p == restarts'
  <2>6. /\ d \in Int /\ s \in Int /\ h \in Nat /\ g \in Int /\ p \in Nat
        /\ h <= g /\ g <= s /\ over = IF elapsed > h THEN elapsed - h ELSE 0
        /\ Exact(d, elapsed, s, h, races, restarts)
    BY <1>1, <1>6, <1>8, <2>4, <2>5
  <2>7. /\ x = IF s - h <= over THEN 0 ELSE s - h - over
        /\ y = IF g - h <= over THEN 0 ELSE g - h - over
    BY <1>8, <2>2
  <2>8. due'[active'[i]] = d /\ races' = races + 1
    BY <1>6, <2>3
  <2>9. elapsed \in Nat /\ restarts \in Nat /\ races \in Nat
    BY <1>1, <1>6
  <2> HIDE DEF d, s, h, g, x, y, p
  <2>10. x \in Int /\ y \in Int
    BY <1>3, <2>6, <2>7
  <2>11. Exact(d, 0, x, y, races + 1, p)
    BY <1>3, <2>6, <2>7, <2>9, <2>10, OverdueMargins
  <2> QED BY <2>8, <2>11 DEF x, y, p
<1>10. races' # 0 /\ races' \in Nat
  BY <1>6
<1> QED BY <1>6, <1>9, <1>10, FromExact

\* Stopping the head leaves the others where they are due.
LEMMA StopHeadDInv ==
    ASSUME IInv, CInv, DInv, IInv', CInv', NEW t \in Timers, StopHead(t), Raced,
           Record(None, 0)
    PROVE  DInv'
<1> DEFINE over == IF elapsed > time[t] THEN elapsed - time[t] ELSE 0
           after == [i \in 1 .. Len(active) |-> Sum(active)[i] - Sum(active)[1]]
           next == active[2]
<1>1. /\ state[t] = "ACTIVE" /\ Head(active) = t
      /\ active' = Tail(active)
      /\ state' = [state EXCEPT ![t] = "ALLOC"]
  BY DEF StopHead
<1>2. active # <<>>
  <2>1. t \in InList(active)
    BY <1>1 DEF IInv, ListsAgree
  <2> QED BY <2>1 DEF InList
<1>3. /\ active \in Seq(Timers) /\ Distinct(active) /\ Len(active) \in Nat \ {0}
      /\ value \in Nat /\ time \in Deltas
      /\ active[1] = t /\ Until[1] = time[t]
      /\ active' = SubSeq(active, 1 + 1, Len(active))
      /\ \A i \in 1 .. Len(active) : active[i] \in Timers
  BY <1>1, <1>2, ActiveFacts
<1>4. NeverEarly'
  BY <1>1, StopServesNone
<1>5. \/ /\ Len(active) = 1
         /\ hal_timer_stop
         /\ time' = [time EXCEPT ![t] = 0]
      \/ /\ Len(active) > 1 /\ value > 0
         /\ time' = [time EXCEPT ![t] = 0, ![next] = @ + value]
         /\ hal_timer_start(time'[next], FALSE)
      \/ /\ Len(active) > 1 /\ value = 0
         /\ time' = [u \in Timers |->
              IF \E i \in 2 .. Len(active) : active[i] = u
              THEN LET i == Position(active, u)
                   IN  IF after[i] <= over THEN 0
                       ELSE IF after[i - 1] <= over THEN after[i] - over
                       ELSE time[u]
              ELSE 0]
         /\ hal_timer_start(time'[next], FALSE)
  BY DEF StopHead
<1>6. \A i \in 1 .. Len(active) : after[i] = Distance(time, active, i)
  BY SumIsSumOver DEF Distance
<1> HIDE DEF over, after, next
<1>7. CASE Len(active) = 1
  <2>1. active' = <<>> /\ Len(active') = 0
    BY <1>3, <1>7, SubSeqProperties, EmptySeq
  <2>2. due' \in [Timers -> Int] /\ restarts' \in Nat /\ races' \in Nat
    BY Recorded DEF DInv, Raced
  <2>3. \A i \in 1 .. Len(active') :
          Exact(due'[active'[i]], elapsed', Until'[i], Until'[1], races', restarts')
    BY <2>1
  <2> QED BY <1>4, <2>1, <2>2, <2>3, FromExact
<1>8. CASE /\ Len(active) > 1 /\ value > 0
           /\ time' = [time EXCEPT ![t] = 0, ![next] = @ + value]
           /\ hal_timer_start(time'[next], FALSE)
  <2>1. elapsed' = 0 /\ 1 < Len(active)
    BY <1>3, <1>8 DEF hal_timer_start
  <2>2. time' = [time EXCEPT ![active[1]] = 0, ![active[2]] = @ + value]
    BY <1>3, <1>8 DEF next
  <2> QED BY <1>2, <1>3, <1>4, <1>8, <2>1, <2>2, StopCountingDInv
<1>9. CASE /\ Len(active) > 1 /\ value = 0
           /\ time' = [u \in Timers |->
                IF \E i \in 2 .. Len(active) : active[i] = u
                THEN LET i == Position(active, u)
                     IN  IF after[i] <= over THEN 0
                         ELSE IF after[i - 1] <= over THEN after[i] - over
                         ELSE time[u]
                ELSE 0]
           /\ hal_timer_start(time'[next], FALSE)
  <2>1. elapsed' = 0 /\ 1 < Len(active)
    BY <1>3, <1>9 DEF hal_timer_start
  <2>2. ASSUME NEW i \in 2 .. Len(active)
        PROVE  time'[active[i]] = IF after[i] <= over THEN 0
                                  ELSE IF after[i - 1] <= over THEN after[i] - over
                                  ELSE time[active[i]]
    <3>1. i \in 1 .. Len(active)
      BY <1>3
    <3> DEFINE u == active[i]
    <3>2. Position(active, u) = i
      BY <1>3, <3>1, PositionUnique
    <3>3. u \in Timers /\ \E m \in 2 .. Len(active) : active[m] = u
      BY <1>3, <3>1
    <3> HIDE DEF u
    <3>4. time'[u] = IF after[i] <= over THEN 0
                     ELSE IF after[i - 1] <= over THEN after[i] - over
                     ELSE time[u]
      BY <1>9, <3>2, <3>3
    <3> QED BY <3>4 DEF u
  <2>3. Caught(time, time', active, over)
    <3>1. ASSUME NEW i \in 2 .. Len(active)
          PROVE  after[i] = Distance(time, active, i) /\ after[i - 1] = Distance(time, active, i - 1)
      <4>1. i \in 1 .. Len(active) /\ i - 1 \in 1 .. Len(active)
        BY <1>3
      <4> QED BY <1>6, <4>1
    <3> QED BY <2>2, <3>1 DEF Caught
  <2>4. over = IF elapsed > Until[1] THEN elapsed - Until[1] ELSE 0
    BY <1>3 DEF over
  <2> QED BY <1>2, <1>3, <1>4, <1>9, <2>1, <2>3, <2>4, StopRunOutDInv
<1> QED BY <1>5, <1>7, <1>8, <1>9

\* Stopping a timer behind the head leaves the others where they are due.
LEMMA StopBehindDInv ==
    ASSUME IInv, CInv, DInv, IInv', CInv', NEW t \in Timers, StopBehind(t), Raced,
           Record(None, 0)
    PROVE  DInv'
<1> DEFINE k == Position(active, t)
<1>1. state[t] = "ACTIVE" /\ Head(active) # t /\ UNCHANGED <<elapsed, fired>>
  BY DEF StopBehind, hal
<1>2. t \in InList(active) /\ active # <<>>
  <2>1. t \in InList(active)
    BY <1>1 DEF IInv, ListsAgree
  <2> QED BY <2>1 DEF InList
<1>3. /\ active \in Seq(Timers) /\ Distinct(active) /\ Len(active) \in Nat \ {0}
      /\ time \in Deltas /\ elapsed \in Nat
      /\ \A i \in 1 .. Len(active) : active[i] \in Timers /\ time[active[i]] \in Nat
                                     /\ due[active[i]] \in Int /\ Until[i] \in Int
      /\ Head(active) = active[1]
  BY <1>2, ActiveFacts
<1>4. k \in 2 .. Len(active) /\ active[k] = t
  <2>1. k \in 1 .. Len(active) /\ active[k] = t
    BY <1>2, <1>3, PositionProperties
  <2>2. k # 1
    BY <1>1, <1>3, <2>1
  <2> HIDE DEF k
  <2> QED BY <1>3, <2>1, <2>2
<1>5. \/ /\ active' = Without(active, k)
         /\ state' = [state EXCEPT ![t] = "ALLOC"]
         /\ time' = IF k < Len(active)
                    THEN [time EXCEPT ![t] = 0, ![active[k + 1]] = @ + time[t]]
                    ELSE [time EXCEPT ![t] = 0]
      \/ UNCHANGED <<active, state, time>>
  BY DEF StopBehind
<1> HIDE DEF k
<1>6. /\ due' \in [Timers -> Int] /\ restarts' >= restarts /\ restarts' \in Nat
      /\ restarts \in Nat /\ races \in Nat /\ races' \in Nat /\ races' >= races
      /\ races' \in {races, races + 1}
  BY Recorded DEF DInv, Raced
<1>7. CASE UNCHANGED <<active, state, time>>
  <2>1. \A u \in Timers : Served(u)' => Served(u)
    BY <1>7 DEF Served
  <2> QED BY <1>1, <1>6, <1>7, <2>1, QuietDInv
<1>8. CASE /\ active' = Without(active, k)
           /\ state' = [state EXCEPT ![t] = "ALLOC"]
           /\ time' = IF k < Len(active)
                      THEN [time EXCEPT ![t] = 0, ![active[k + 1]] = @ + time[t]]
                      ELSE [time EXCEPT ![t] = 0]
  <2>1. NeverEarly'
    BY <1>8, StopServesNone
  <2>2. time' \in Deltas
    BY DEF CInv, ClockTyped, Deltas
  <2>3. HandedOn(time, time', active, k)
    <3>1. ASSUME k < Len(active) PROVE time'[active[k + 1]] = time[active[k + 1]] + time[active[k]]
      <4>1. k + 1 \in 1 .. Len(active) /\ k \in 1 .. Len(active) /\ k + 1 # k
        BY <1>3, <1>4, <3>1
      <4>2. active[k + 1] \in Timers
        BY <1>3, <4>1
      <4> QED BY <1>3, <1>4, <1>8, <3>1, <4>2 DEF Deltas
    <3>2. ASSUME NEW i \in 1 .. Len(active), i # k, i # k + 1
          PROVE  time'[active[i]] = time[active[i]]
      <4>1. k \in 1 .. Len(active) /\ (k < Len(active) => k + 1 \in 1 .. Len(active))
        BY <1>3, <1>4
      <4>2. /\ active[i] \in Timers /\ active[i] # t
            /\ k < Len(active) => active[i] # active[k + 1]
        BY <1>3, <1>4, <3>2, <4>1 DEF Distinct
      <4>3. CASE k < Len(active)
        BY <1>3, <1>8, <4>2, <4>3 DEF Deltas
      <4>4. CASE ~(k < Len(active))
        BY <1>3, <1>8, <4>2, <4>4 DEF Deltas
      <4> QED BY <4>3, <4>4
    <3> QED BY <3>1, <3>2 DEF HandedOn
  <2>4. ClosedUp(time, time', active, active', k)
    <3> DEFINE tm == time
               tn == time'
               s == active
    <3>1. tm \in Deltas /\ tn \in Deltas /\ s \in Seq(Timers) /\ k \in 2 .. Len(s)
          /\ HandedOn(tm, tn, s, k) /\ active' = Without(s, k)
      BY <1>3, <1>4, <1>8, <2>2, <2>3
    <3> HIDE DEF tm, tn, s
    <3>2. ClosedUp(tm, tn, s, Without(s, k), k)
      BY <3>1, SumsWithout
    <3> QED BY <3>1, <3>2 DEF tm, tn, s
  <2>5. /\ active' # <<>> /\ Len(active') = Len(active) - 1
        /\ \A i \in 1 .. k - 1 : active'[i] = active[i] /\ Until'[i] = Until[i]
        /\ \A i \in k .. Len(active) - 1 : active'[i] = active[i + 1] /\ Until'[i] = Until[i + 1]
    BY <2>4 DEF ClosedUp, Until
  <2>6. Until'[1] = Until[1] /\ 1 \in 1 .. Len(active) /\ Until[1] \in Int
    <3>1. 1 \in 1 .. k - 1 /\ 1 \in 1 .. Len(active)
      BY <1>3, <1>4
    <3> QED BY <1>3, <2>5, <3>1
  <2>7. elapsed' # elapsed + 1
    BY <1>1, <1>3
  <2>8. ASSUME NEW i \in 1 .. Len(active), NEW u \in Timers, u = active[i], u \in InList(active')
        PROVE  Exact(due'[u], elapsed, Until[i], Until[1], races', restarts')
    <3>1. due'[u] = due[u]
      <4>1. u # None
        BY DEF Timers, None
      <4> QED BY <2>7, <2>8, <4>1, KeptDue
    <3>2. Exact(due[u], elapsed, Until[i], Until[1], races, restarts)
      BY <2>8, AreExact
    <3> DEFINE d == due[u]
               s == Until[i]
               h == Until[1]
               r == races'
               q == restarts'
    <3>3. d \in Int /\ s \in Int /\ h \in Int /\ elapsed \in Nat
      BY <1>3, <2>6, <2>8
    <3>4. r \in Nat /\ q \in Nat /\ r >= races /\ q >= restarts /\ races \in Nat /\ restarts \in Nat
      BY <1>6
    <3>5. Exact(d, elapsed, s, h, races, restarts)
      BY <3>2
    <3> HIDE DEF d, s, h, r, q
    <3>6. Exact(d, elapsed, s, h, r, q)
      BY <3>3, <3>4, <3>5, StillExact
    <3> QED BY <3>1, <3>6 DEF d, s, h, r, q
  <2>9. ASSUME NEW i \in 1 .. Len(active')
        PROVE  Exact(due'[active'[i]], elapsed', Until'[i], Until'[1], races', restarts')
    <3> SUFFICES ASSUME NEW u, u = active'[i]
                 PROVE  Exact(due'[u], elapsed, Until'[i], Until[1], races', restarts')
      BY <1>1, <2>6
    <3>1. u \in InList(active')
      BY DEF InList
    <3>2. CASE i \in 1 .. k - 1
      <4>1. i \in 1 .. Len(active) /\ u = active[i] /\ Until'[i] = Until[i]
        BY <1>3, <1>4, <2>5, <3>2
      <4> QED BY <1>3, <2>8, <3>1, <4>1
    <3>3. CASE i \in k .. Len(active) - 1
      <4> DEFINE j == i + 1
      <4>1. j \in 1 .. Len(active) /\ u = active[j] /\ Until'[i] = Until[j]
        BY <1>3, <1>4, <2>5, <3>3
      <4> HIDE DEF j
      <4> QED BY <1>3, <2>8, <3>1, <4>1
    <3> QED BY <1>3, <1>4, <2>5, <3>2, <3>3
  <2>10. races' = 0 => restarts' >= 1 /\ Until'[1] >= 1
    <3> SUFFICES ASSUME races' = 0 PROVE restarts' >= 1 /\ Until'[1] >= 1
      OBVIOUS
    <3>1. races = 0
      BY <1>6
    <3>2. restarts >= 1 /\ Until[1] >= 1
      BY <1>2, <3>1 DEF DInv, NotAhead
    <3> QED BY <1>6, <2>6, <3>2
  <2> QED BY <1>6, <2>1, <2>9, <2>10, FromExact
<1> QED BY <1>5, <1>7, <1>8

\* Entering and leaving the handler, handing out timers and taking them back,
\* and stopping a timer that waits for its callback.
LEMMA OthersDInv ==
    ASSUME IInv, CInv, DInv, IInv', Record(None, 0), races' \in {races, races + 1},
           \/ IrqEnter \/ HandlerSpurious \/ HandlerCallbackDone \/ hwtimer_alloc
           \/ \E t \in Timers : AllocInit(t) \/ hwtimer_free(t) \/ StopFired(t)
    PROVE  DInv'
<1>1. UNCHANGED <<active, time, elapsed>>
  BY DEF IrqEnter, HandlerSpurious, HandlerCallbackDone, hwtimer_alloc, AllocInit,
         hwtimer_free, StopFired, hal, lists
<1>2. ASSUME NEW u \in Timers, Served(u)' PROVE Served(u)
  <2>1. CASE IrqEnter \/ HandlerSpurious \/ hwtimer_alloc
    BY <1>2, <2>1 DEF IrqEnter, HandlerSpurious, hwtimer_alloc, lists, Served
  <2>2. ASSUME NEW t \in Timers, AllocInit(t) \/ hwtimer_free(t) \/ StopFired(t)
        PROVE  Served(u)
    <3>1. state \in [Timers -> HWTIMER_STATE_T]
          /\ \E s \in {"ALLOC", "FREE"} : state' = [state EXCEPT ![t] = s]
      BY <2>2 DEF IInv, ListsTypeOK, AllocInit, hwtimer_free, StopFired
    <3> QED BY <1>2, <3>1 DEF Served
  <2>3. CASE HandlerCallbackDone
    <3> DEFINE idle == IF state[cur] = "CALLBACK"
                       THEN [state EXCEPT ![cur] = "ALLOC"] ELSE state
    <3>1. \/ state' = idle
          \/ fired # <<>> /\ state' = [idle EXCEPT ![Head(fired)] = "CALLBACK"]
      BY <2>3 DEF HandlerCallbackDone
    <3>2. state \in [Timers -> HWTIMER_STATE_T]
      BY DEF IInv, ListsTypeOK
    <3>3. idle \in [Timers -> HWTIMER_STATE_T] /\ (idle[u] = state[u] \/ idle[u] = "ALLOC")
      BY <3>2 DEF HWTIMER_STATE_T
    <3> HIDE DEF idle
    <3>4. fired # <<>> => state[Head(fired)] = "FIRED"
      <4> SUFFICES ASSUME fired # <<>> PROVE state[Head(fired)] = "FIRED"
        OBVIOUS
      <4>1. fired \in Seq(Timers)
        BY DEF IInv, ListsTypeOK
      <4>2. Head(fired) = fired[1] /\ 1 \in 1 .. Len(fired) /\ fired[1] \in Timers
        BY <4>1
      <4>3. Head(fired) \in InList(fired)
        BY <4>2 DEF InList
      <4> QED BY <4>2, <4>3 DEF IInv, ListsAgree
    <3>5. CASE u = Head(fired) /\ fired # <<>>
      BY <3>4, <3>5 DEF Served
    <3>6. CASE ~(u = Head(fired) /\ fired # <<>>)
      <4>1. state'[u] = idle[u]
        BY <3>1, <3>3, <3>6
      <4> QED BY <1>2, <3>3, <4>1 DEF Served
    <3> QED BY <3>5, <3>6
  <2> QED BY <2>1, <2>2, <2>3
<1> QED BY <1>1, <1>2, QuietDInv

\* A step of the clock is a step of the timers.
LEMMA ClockIsList ==
    /\ ClockInit => Init
    /\ [ClockNext]_clockVars => [Next]_vars
<1>1. ClockInit => Init
  BY DEF ClockInit
<1>2. ASSUME ClockNext PROVE Next
  <2>1. \A n \in 1 .. MaxTicks : n \in 0 .. MaxTicks
    BY HwTimerAssumption
  <2> QED BY <1>2, <2>1 DEF ClockNext, ClockTick, ClockHandler, ClockStart, ClockStop,
                     ClockOther, Next, Api
<1>3. UNCHANGED clockVars => UNCHANGED vars
  BY DEF clockVars
<1> QED BY <1>1, <1>2, <1>3

\* Only the interrupt serves timers.
LEMMA OthersServeNone ==
    ASSUME IInv,
           \/ Tick \/ IrqEnter \/ HandlerSpurious \/ HandlerCallbackDone \/ hwtimer_alloc
           \/ \E t \in Timers : AllocInit(t) \/ hwtimer_free(t) \/ hwtimer_stop(t)
           \/ \E t \in Timers, n \in 1 .. MaxTicks : hwtimer_start(t, n)
    PROVE  ~HandlerExpire
<1>1. \/ isr' = isr \/ isr # "entered" \/ isr' # "callback"
  BY DEF Tick, IrqEnter, HandlerSpurious, HandlerCallbackDone, hwtimer_alloc, AllocInit,
         hwtimer_free, hwtimer_stop, StopHead, StopBehind, StopFired, hwtimer_start
<1> QED BY <1>1 DEF HandlerExpire

\* Every step keeps the margins; the interrupt leaves no timer overdue.
LEMMA StepDInv ==
    ASSUME IInv, CInv, DInv, ClockNext
    PROVE  /\ DInv'
           /\ HandlerExpire => \A t \in Timers : state'[t] = "ACTIVE" => due'[t] + Late > 0
<1>1. IInv' /\ CInv'
  BY ClockIsList, StepIInv, StepCInv
<1>2. races \in Nat
  BY DEF DInv
<1>3. CASE ClockTick
  <2>1. DInv'
    BY <1>1, <1>3, TickDInv DEF ClockTick
  <2> QED BY <1>3, <2>1, OthersServeNone DEF ClockTick
<1>4. CASE ClockHandler
  <2>1. CASE HandlerExpire
    BY <1>1, <1>4, <2>1, ExpireDInv DEF ClockHandler
  <2>2. CASE IrqEnter \/ HandlerSpurious \/ HandlerCallbackDone
    <3>1. DInv'
      BY <1>1, <1>4, <2>2, OthersDInv DEF ClockHandler
    <3> QED BY <2>2, <3>1, OthersServeNone
  <2> QED BY <1>4, <2>1, <2>2 DEF ClockHandler, Handler
<1>5. CASE ClockStart
  <2>1. PICK t \in Timers, n \in 1 .. MaxTicks : hwtimer_start(t, n) /\ Raced /\ Record(t, n)
    BY <1>5 DEF ClockStart
  <2>2. DInv'
    BY <1>1, <2>1, StartDInv
  <2> QED BY <2>1, <2>2, OthersServeNone
<1>6. CASE ClockStop
  <2>1. PICK t \in Timers : hwtimer_stop(t) /\ Raced /\ Record(None, 0)
    BY <1>6 DEF ClockStop
  <2>2. ASSUME StopHead(t) PROVE DInv'
    BY <1>1, <2>1, <2>2, StopHeadDInv
  <2>3. ASSUME StopBehind(t) PROVE DInv'
    BY <1>1, <2>1, <2>3, StopBehindDInv
  <2>4. ASSUME StopFired(t) PROVE DInv'
    <3>1. races' \in {races, races + 1}
      BY <1>2, <2>1 DEF Raced
    <3> QED BY <1>1, <2>1, <2>4, <3>1, OthersDInv
  <2>5. DInv'
    BY <2>1, <2>2, <2>3, <2>4 DEF hwtimer_stop
  <2> QED BY <2>1, <2>5, OthersServeNone
<1>7. CASE ClockOther
  <2>1. DInv'
    BY <1>1, <1>7, OthersDInv DEF ClockOther
  <2> QED BY <1>7, <2>1, OthersServeNone DEF ClockOther
<1> QED BY <1>3, <1>4, <1>5, <1>6, <1>7 DEF ClockNext

\* A step that changes nothing changes no margin.
LEMMA StutterDInv == DInv /\ UNCHANGED clockVars => DInv'
<1> SUFFICES ASSUME DInv, UNCHANGED clockVars PROVE DInv'
  OBVIOUS
<1>1. UNCHANGED <<state, active, time, elapsed, due, restarts, races>>
  BY DEF clockVars, vars, lists, hal
<1>2. Until' = Until
  BY <1>1 DEF Until
<1>3. NotAhead' /\ NotBehind' /\ NeverEarly'
  BY <1>1, <1>2 DEF DInv, NotAhead, NotBehind, NeverEarly, Served, Upper, Lower
<1> QED BY <1>1, <1>3 DEF DInv

\* All three invariants hold in every state of HwTimerClock.
LEMMA ClockInvariants == ClockSpec => [](IInv /\ CInv /\ DInv)
<1>1. ClockInit => IInv /\ CInv /\ DInv
  BY ClockIsList, InitIInv, InitCInv, InitDInv
<1>2. IInv /\ CInv /\ DInv /\ [ClockNext]_clockVars => (IInv /\ CInv /\ DInv)'
  BY ClockIsList, StepIInv, StepCInv, StepDInv, StutterDInv
<1> QED BY <1>1, <1>2, PTL DEF ClockSpec

(* As long as no call comes when the counter has run out, no timer is      *)
(* served earlier than its caller asked for by more than a tick for each   *)
(* time the hardware timer was set.                                        *)
THEOREM NeverServedEarly == ClockSpec => []NeverEarly
<1>1. DInv => NeverEarly
  BY DEF DInv
<1> QED BY <1>1, ClockInvariants, PTL

(* An interrupt leaves no timer in the list that was due by more than the  *)
(* margin of the counter and a tick for each call that found it run out.   *)
THEOREM NoneIsForgotten == ClockSpec => NoneForgotten
<1> DEFINE A == HandlerExpire =>
                  \A t \in Timers : state'[t] = "ACTIVE" => due'[t] + Late > 0
           I == IInv /\ CInv /\ DInv
<1>1. I /\ ClockNext => A
  BY StepDInv
<1> HIDE DEF I, A
<1>2. I /\ [ClockNext]_clockVars => [A]_clockVars
  BY <1>1
<1>3. [][I /\ [ClockNext]_clockVars]_clockVars => [][A]_clockVars
  BY <1>2, PTL
<1>4. ClockSpec => []I
  BY ClockInvariants DEF I
<1>5. ClockSpec => [][A]_clockVars
  BY <1>3, <1>4, PTL DEF ClockSpec
<1> QED BY <1>5 DEF NoneForgotten, A

=============================================================================
