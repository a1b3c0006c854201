------------------------------- MODULE NrfRtc -------------------------------
(***************************************************************************)
(* An RTC peripheral (NRF_RTC.c): a counter of ticks of the LF clock, of   *)
(* which a period is not a whole number of microseconds.  The code keeps   *)
(* the time, in fractions of a microsecond, at which the counter would     *)
(* have been 0: a time that may lie before the start of the simulation.    *)
(* The time of each event is then rounded up to a microsecond.             *)
(*                                                                         *)
(* The RTCs share nothing but Timer_RTC and the phase of the LF clock: the *)
(* model is of one.  "rtc_todo" is what remains of the calls under way, as *)
(* pairs <<operation, argument>>: each event may call tasks through the    *)
(* PPI before the next one is looked at.                                   *)
(***************************************************************************)
EXTENDS Integers, Sequences

CONSTANTS
  SubUs,               \* fractions in a microsecond: 2^SUB_US_BITS
  LfPeriod,            \* LF_CLOCK_PERIOD, in fractions of a microsecond
  Prescaler,           \* PRESCALER
  CounterMask,         \* RTC_COUNTER_MASK: the greatest count
  OverflowValue,       \* RTC_TRIGGER_OVERFLOW_COUNTER_VALUE
  NCc,                 \* N_CC: how many CC registers
  RtcCcValues,         \* the values that the software writes to them
  RtcInts,             \* the CC registers of which the software enables interrupts
  RtcEvts,             \* the events that the software enables for the PPI
  RtcRoutes,           \* choices of the tasks that the PPI calls at each event
  RtcHorizon           \* bound: the end of time, in microseconds

ASSUME SubUsAssumption     == SubUs \in Nat \ {0}
ASSUME LfPeriodAssumption  == LfPeriod \in Nat /\ SubUs <= LfPeriod  \* 30.5 microseconds
ASSUME PrescalerAssumption == Prescaler \in Nat
ASSUME MaskAssumption      == CounterMask \in Nat \ {0} /\ OverflowValue \in 0 .. CounterMask

Cc       == 1 .. NCc
OVRFLW   == 0                                      \* as an event, beside the CCs
RtcEvent == Cc \union {OVRFLW}
TickTime == LfPeriod * (Prescaler + 1)
RtcWrap  == TickTime * (CounterMask + 1)           \* time_of_1_counter_wrap_sub_us()
RTC_NEVER == RtcHorizon + 3 * RtcWrap              \* TIME_NEVER

ASSUME RtcHorizonAssumption == RtcHorizon \in Nat /\ NCc \in Nat

(* The software writes to CC counts that the counter can reach: a CC        *)
(* register of the hardware is as wide as it.                              *)
ASSUME RtcSoftwareAssumption ==
  RtcCcValues \subseteq 0 .. CounterMask /\ RtcInts \subseteq Cc /\ RtcEvts \subseteq RtcEvent

RtcTasks == {"START", "STOP", "CLEAR", "TRIGOVRFLW"}

ASSUME RtcRoutesAssumption ==
  \A routes \in RtcRoutes : routes \in [RtcEvent -> Seq(RtcTasks)]

(* What the handler calls, and with what.                                  *)
RtcEntry == (RtcTasks \X {0}) \union ({"handle"} \X RtcEvent) \union ({"overflowed"} \X Nat)
              \union {<<"master", 0>>}

VARIABLES
  rtc_now,                           \* external: the time of the engine
  first_lf_tick_time_sub_us,
  RTC_Running,
  RTC_counter_startT_sub_us,         \* the time at which the counter was 0, or 0 ...
  RTC_counter_startT_negative_sub_us,\* ... and how long before 0 that was
  counter,                           \* the count while stopped
  RTC_CC, cc_timers,                 \* cc_timers[OVRFLW] is overflow_timer
  overflow_timer_sub_us,
  Timer_RTC,
  RTC_EVENTS, RTC_INTEN,
  RTC_EVTEN,                         \* the events that go to the PPI
  rtc_irq,                           \* external: the interrupt is pending
  rtc_routes, rtc_todo,
  lf_phase,                          \* auxiliary: fractions since the LF clock ticked
  phase,                             \* auxiliary: while it runs, since the counter was 0
  rtc_due,                           \* auxiliary: the events of this microsecond
  lf_moved                           \* auxiliary: the LF clock has started while it ran

rtcStart  == <<RTC_counter_startT_sub_us, RTC_counter_startT_negative_sub_us>>
rtcTimers == <<cc_timers, overflow_timer_sub_us, Timer_RTC>>
rtcRun    == <<RTC_Running, rtcStart, counter, RTC_CC, rtcTimers, phase>>
rtcIrq    == <<RTC_EVENTS, RTC_INTEN, RTC_EVTEN, rtc_irq>>
rtcTime   == <<rtc_now, first_lf_tick_time_sub_us, lf_phase, rtc_due, lf_moved, rtc_routes>>
rtcVars   == <<rtcTime, rtcRun, rtcIrq, rtc_todo>>

-----------------------------------------------------------------------------
(* Mutant: rounded down, an event comes before its time.                   *)
UsTimeDown(subUs) == subUs \div SubUs

(* sub_us_time_to_us_time(): rounded up.                                   *)
UsTime(subUs) == (subUs + SubUs - 1) \div SubUs

NowSubUs == rtc_now * SubUs                        \* get_hw_time_sub_us()

(* get_last_lf_tick_time_sub_us().                                         *)
LastLfTick ==
  ((NowSubUs - first_lf_tick_time_sub_us) \div LfPeriod) * LfPeriod + first_lf_tick_time_sub_us

TimeSubUsToCounter(delta)   == delta \div TickTime
CounterToTimeSubUs(count)   == count * TickTime

(* get_counter_match_time(): the first match later than now.               *)
MatchSubUs(count) ==
  LET match    == CounterToTimeSubUs(count)
      start    == RTC_counter_startT_sub_us'
      negative == RTC_counter_startT_negative_sub_us'
      first == IF start > 0 THEN start + match
               ELSE IF match > negative THEN match - negative
               ELSE RtcWrap + match - negative
  IN  IF first > NowSubUs THEN first
      ELSE first + ((NowSubUs - first) \div RtcWrap + 1) * RtcWrap

CountOf(e) == IF e = OVRFLW THEN CounterMask + 1 ELSE RTC_CC'[e]

MatchTime(e) == IF RTC_Running' THEN UsTime(MatchSubUs(CountOf(e))) ELSE RTC_NEVER

FirstRtcTimer ==
  LET times == {cc_timers'[e] : e \in RtcEvent} \union {RTC_NEVER}
  IN  CHOOSE time \in times : \A u \in times : time <= u

(* update_master_timer().                                                  *)
UpdateRtcMaster == Timer_RTC' = IF RTC_Running' THEN FirstRtcTimer ELSE RTC_NEVER

(* update_overflow_timer(), the fractions of it.                           *)
UpdateOverflowSubUs ==
  overflow_timer_sub_us' = IF RTC_Running' THEN MatchSubUs(CounterMask + 1) ELSE RTC_NEVER

(* update_timers().                                                        *)
UpdateTimers ==
  /\ cc_timers' = [e \in RtcEvent |-> MatchTime(e)]
  /\ UpdateOverflowSubUs
  /\ UpdateRtcMaster

(* nrf_rtc_init(); the LF clock has not ticked.                            *)
RtcInit ==
  /\ rtc_now = 0 /\ first_lf_tick_time_sub_us = 0
  /\ RTC_Running = FALSE
  /\ RTC_counter_startT_sub_us = RTC_NEVER /\ RTC_counter_startT_negative_sub_us = 0
  /\ counter = 0 /\ RTC_CC = [c \in Cc |-> 0]
  /\ cc_timers = [e \in RtcEvent |-> RTC_NEVER]
  /\ overflow_timer_sub_us = RTC_NEVER /\ Timer_RTC = RTC_NEVER
  /\ RTC_EVENTS = {} /\ RTC_INTEN = {} /\ RTC_EVTEN = {} /\ rtc_irq = FALSE
  /\ rtc_routes \in RtcRoutes
  /\ rtc_todo = <<>>
  /\ lf_phase = 0 /\ phase = 0 /\ rtc_due = {} /\ lf_moved = FALSE

-----------------------------------------------------------------------------
(* Mutant: a start before the time 0 is lost.                              *)
SetCounterToNotNegative(count) ==
  LET gone  == CounterToTimeSubUs(count)
      start == LastLfTick - gone
  IN  /\ RTC_counter_startT_sub_us' = IF start >= 0 THEN start ELSE 0
      /\ RTC_counter_startT_negative_sub_us' = 0
      /\ counter' = count
      /\ UNCHANGED RTC_CC
      /\ UpdateTimers
      /\ phase' = (gone + lf_phase) % RtcWrap

(* set_counter_to(): the count starts at the last tick of the LF clock.    *)
SetCounterTo(count) ==
  LET gone  == CounterToTimeSubUs(count)
      start == LastLfTick - gone
  IN  /\ RTC_counter_startT_sub_us' = IF start >= 0 THEN start ELSE 0
      /\ RTC_counter_startT_negative_sub_us' = IF start >= 0 THEN 0 ELSE -start
      /\ counter' = count
      /\ UNCHANGED RTC_CC
      /\ UpdateTimers
      /\ phase' = (gone + lf_phase) % RtcWrap

(* What nrf_rtc_update_COUNTER() reads, and a STOP keeps.                  *)
CountNow ==
  IF RTC_Running
    THEN TimeSubUsToCounter(NowSubUs - RTC_counter_startT_sub_us
                              + RTC_counter_startT_negative_sub_us) % (CounterMask + 1)
    ELSE counter

RtcTASKS_START ==
  IF RTC_Running THEN UNCHANGED rtcRun
  ELSE RTC_Running' = TRUE /\ SetCounterTo(counter)

RtcTASKS_STOP ==
  IF ~RTC_Running THEN UNCHANGED rtcRun
  ELSE /\ RTC_Running' = FALSE
       /\ counter' = CountNow
       /\ phase' = CountNow * TickTime
       /\ cc_timers' = [e \in RtcEvent |-> RTC_NEVER]
       /\ UpdateRtcMaster
       /\ UNCHANGED <<rtcStart, RTC_CC, overflow_timer_sub_us>>

RtcTask(op) ==
  \/ op = "START" /\ RtcTASKS_START
  \/ op = "STOP" /\ RtcTASKS_STOP
  \/ op = "CLEAR" /\ UNCHANGED RTC_Running /\ SetCounterTo(0)
  \/ op = "TRIGOVRFLW" /\ UNCHANGED RTC_Running /\ SetCounterTo(OverflowValue)

-----------------------------------------------------------------------------
(* handle_event(): to the PPI if EVTEN has the event, which calls its      *)
(* tasks, then to the interrupt controller, which they do not touch.       *)
HandleEvent(e) ==
  /\ RTC_EVENTS' = RTC_EVENTS \union {e}
  /\ rtc_irq' = (rtc_irq \/ e \in RTC_INTEN)
  /\ UNCHANGED <<RTC_INTEN, RTC_EVTEN>>

Routed(e) == IF e \in RTC_EVTEN
               THEN [i \in DOMAIN rtc_routes[e] |-> <<rtc_routes[e][i], 0>>]
               ELSE <<>>

MatchesNow(e) == cc_timers[e] = Timer_RTC

RtcTaskCall ==
  /\ rtc_todo # <<>> /\ Head(rtc_todo)[1] \in RtcTasks
  /\ RtcTask(Head(rtc_todo)[1])
  /\ rtc_todo' = Tail(rtc_todo)
  /\ UNCHANGED <<rtcTime, rtcIrq>>

(* handle_cc_event() and handle_overflow_event(), of an event that does    *)
(* not match now.                                                          *)
RtcNoMatch ==
  /\ rtc_todo # <<>> /\ Head(rtc_todo)[1] = "handle"
  /\ ~MatchesNow(Head(rtc_todo)[2])
  /\ rtc_todo' = Tail(rtc_todo)
  /\ UNCHANGED <<rtcTime, rtcRun, rtcIrq>>

RtcCcEvent ==
  /\ rtc_todo # <<>> /\ Head(rtc_todo)[1] = "handle"
  /\ LET e == Head(rtc_todo)[2]
     IN  /\ e # OVRFLW /\ MatchesNow(e)
         /\ UNCHANGED <<RTC_Running, rtcStart, counter, RTC_CC, phase>>
         /\ cc_timers' = [cc_timers EXCEPT ![e] = MatchTime(e)]
         /\ UNCHANGED <<overflow_timer_sub_us, Timer_RTC>>
         /\ HandleEvent(e)
         /\ rtc_todo' = Routed(e) \o Tail(rtc_todo)
  /\ UNCHANGED rtcTime

RtcOverflowEvent ==
  /\ rtc_todo # <<>> /\ Head(rtc_todo) = <<"handle", OVRFLW>>
  /\ MatchesNow(OVRFLW)
  /\ UNCHANGED <<RTC_Running, rtcStart, counter, RTC_CC, phase>>
  /\ cc_timers' = [cc_timers EXCEPT ![OVRFLW] = MatchTime(OVRFLW)]
  /\ UpdateOverflowSubUs
  /\ UNCHANGED Timer_RTC
  /\ HandleEvent(OVRFLW)
  /\ rtc_todo' = Routed(OVRFLW) \o <<<<"overflowed", overflow_timer_sub_us>>>> \o Tail(rtc_todo)
  /\ UNCHANGED rtcTime

(* The end of handle_overflow_event(): the counter was 0 at the overflow.  *)
RtcOverflowed ==
  /\ rtc_todo # <<>> /\ Head(rtc_todo)[1] = "overflowed"
  /\ RTC_counter_startT_sub_us' = Head(rtc_todo)[2]
  /\ RTC_counter_startT_negative_sub_us' = 0
  /\ rtc_todo' = Tail(rtc_todo)
  /\ UNCHANGED <<rtcTime, RTC_Running, counter, RTC_CC, rtcTimers, phase, rtcIrq>>

(* The end of nrf_rtc_timer_triggered().                                   *)
RtcMaster ==
  /\ rtc_todo # <<>> /\ Head(rtc_todo)[1] = "master"
  /\ UNCHANGED <<RTC_Running, rtcStart, counter, RTC_CC, cc_timers, overflow_timer_sub_us, phase>>
  /\ UpdateRtcMaster
  /\ rtc_todo' = Tail(rtc_todo)
  /\ UNCHANGED <<rtcTime, rtcIrq>>

(* nrf_rtc_timer_triggered(): the events one after the other, the overflow *)
(* last.                                                                   *)
RtcTimerTriggered ==
  /\ rtc_todo = <<>> /\ rtc_now = Timer_RTC
  /\ rtc_todo' = [i \in Cc |-> <<"handle", i>>] \o <<<<"handle", OVRFLW>>, <<"master", 0>>>>
  /\ UNCHANGED <<rtcTime, rtcRun, rtcIrq>>

-----------------------------------------------------------------------------
(* A microsecond passes.  The events whose count is passed in it are due.  *)
Passed(e) ==
  LET togo == ((IF e = OVRFLW THEN 0 ELSE RTC_CC[e]) * TickTime - phase) % RtcWrap
  IN  (IF togo = 0 THEN RtcWrap ELSE togo) <= SubUs

RtcTick ==
  /\ rtc_todo = <<>> /\ rtc_now < RtcHorizon /\ rtc_now < Timer_RTC
  /\ rtc_now' = rtc_now + 1
  /\ lf_phase' = (lf_phase + SubUs) % LfPeriod
  /\ phase' = IF RTC_Running THEN (phase + SubUs) % RtcWrap ELSE phase
  /\ rtc_due' = IF RTC_Running THEN {e \in RtcEvent : Passed(e)} ELSE {}
  /\ UNCHANGED <<first_lf_tick_time_sub_us, lf_moved, rtc_routes, RTC_Running, rtcStart, counter,
                 RTC_CC, rtcTimers, rtcIrq, rtc_todo>>

(* nrf_rtc_notify_first_lf_tick(), from the CLOCK's own handler, each time  *)
(* the LF clock has started.                                               *)
RtcFirstLfTick ==
  /\ rtc_todo = <<>>
  /\ first_lf_tick_time_sub_us' = NowSubUs
  /\ lf_phase' = 0
  /\ lf_moved' = (lf_moved \/ RTC_Running)
  /\ UNCHANGED <<rtc_now, rtc_due, rtc_routes, rtcRun, rtcIrq, rtc_todo>>

RtcSoftwareTask ==
  /\ rtc_todo = <<>>
  /\ \E op \in RtcTasks : rtc_todo' = <<<<op, 0>>>>
  /\ UNCHANGED <<rtcTime, rtcRun, rtcIrq>>

(* nrf_rtc_regw_sideeffects_CC().                                          *)
RtcSoftwareCc ==
  /\ rtc_todo = <<>>
  /\ \E c \in Cc, value \in RtcCcValues :
       /\ RTC_CC' = [RTC_CC EXCEPT ![c] = value]
       /\ UNCHANGED <<RTC_Running, rtcStart, counter, overflow_timer_sub_us, phase>>
       /\ IF RTC_Running THEN cc_timers' = [cc_timers EXCEPT ![c] = MatchTime(c)] /\ UpdateRtcMaster
                         ELSE UNCHANGED <<cc_timers, Timer_RTC>>
  /\ UNCHANGED <<rtcTime, rtcIrq, rtc_todo>>

(* Mutant: events that have happened before do not interrupt.              *)
RtcIntenSetNewOnly(c) ==
  /\ RTC_INTEN' = RTC_INTEN \union {c}
  /\ UNCHANGED rtc_irq

(* nrf_rtc_regw_sideeffect_INTENSET(): newly enabled, already happened.    *)
RtcIntenSet(c) ==
  /\ RTC_INTEN' = RTC_INTEN \union {c}
  /\ rtc_irq' = (rtc_irq \/ (c \in RTC_EVENTS /\ c \notin RTC_INTEN))

(* EVTENSET and EVTENCLR.                                                  *)
RtcSoftwareEvents ==
  /\ rtc_todo = <<>>
  /\ \E e \in RtcEvts : RTC_EVTEN' \in {RTC_EVTEN \union {e}, RTC_EVTEN \ {e}}
  /\ UNCHANGED <<rtcTime, rtcRun, RTC_EVENTS, RTC_INTEN, rtc_irq, rtc_todo>>

(* INTENSET, INTENCLR, and a handler that clears the events it is called for. *)
RtcSoftwareInterrupts ==
  /\ rtc_todo = <<>>
  /\ \/ \E c \in RtcInts :
          /\ RtcIntenSet(c) \/ (RTC_INTEN' = RTC_INTEN \ {c} /\ UNCHANGED rtc_irq)
          /\ UNCHANGED RTC_EVENTS
     \/ rtc_irq' = FALSE /\ RTC_EVENTS' = {} /\ UNCHANGED RTC_INTEN
  /\ UNCHANGED <<rtcTime, rtcRun, RTC_EVTEN, rtc_todo>>

RtcNext ==
  \/ RtcTaskCall \/ RtcNoMatch \/ RtcCcEvent \/ RtcOverflowEvent \/ RtcOverflowed \/ RtcMaster
  \/ RtcTimerTriggered \/ RtcTick \/ RtcFirstLfTick
  \/ RtcSoftwareTask \/ RtcSoftwareCc \/ RtcSoftwareEvents \/ RtcSoftwareInterrupts

RtcSpec == RtcInit /\ [][RtcNext]_rtcVars

-----------------------------------------------------------------------------
(* The variables keep their types (NRF_RTC.c:44-60).                       *)
RtcTypeOK ==
  /\ rtc_now \in 0 .. RtcHorizon
  /\ first_lf_tick_time_sub_us \in 0 .. NowSubUs
  /\ RTC_Running \in BOOLEAN
  /\ RTC_counter_startT_sub_us \in Nat /\ RTC_counter_startT_negative_sub_us \in Nat
  /\ counter \in 0 .. CounterMask
  /\ RTC_CC \in [Cc -> 0 .. CounterMask]
  /\ cc_timers \in [RtcEvent -> 0 .. RTC_NEVER]
  /\ overflow_timer_sub_us \in Nat /\ Timer_RTC \in 0 .. RTC_NEVER
  /\ RTC_EVENTS \subseteq RtcEvent /\ RTC_INTEN \subseteq RtcInts
  /\ RTC_EVTEN \subseteq RtcEvts /\ rtc_irq \in BOOLEAN
  /\ rtc_routes \in RtcRoutes
  /\ rtc_todo \in Seq(RtcEntry)
  /\ lf_phase \in 0 .. LfPeriod - 1 /\ phase \in 0 .. RtcWrap - 1
  /\ rtc_due \subseteq RtcEvent /\ lf_moved \in BOOLEAN

(* Whatever started, stopped, cleared or moved the counter near its        *)
(* overflow, however long after the last tick of the LF clock, and before  *)
(* or after the time 0 that this puts its start (RTC_counter_startT):        *)
(* the time kept for each event is the next at which the count reaches it, *)
(* rounded up, or this one if it is due.                                   *)
RtcTimesAreRight ==
  rtc_todo = <<>> =>
    \A e \in RtcEvent :
      IF RTC_Running
        THEN LET togo == ((IF e = OVRFLW THEN 0 ELSE RTC_CC[e]) * TickTime - phase) % RtcWrap
             IN  \/ cc_timers[e] = rtc_now + UsTime(IF togo = 0 THEN RtcWrap ELSE togo)
                 \/ cc_timers[e] = rtc_now /\ e \in rtc_due
        ELSE cc_timers[e] = RTC_NEVER

(* COUNTER reads the ticks counted since the counter was 0, or the value   *)
(* that a STOP kept (nrf_rtc_update_COUNTER()).                            *)
RtcCounterReads ==
  (rtc_todo = <<>> /\ RTC_Running) => CountNow = phase \div TickTime

(* However the counter was moved, its events come, and it reads, as if it  *)
(* had been counted tick by tick ("it is like the counter was set on the   *)
(* last LF clock tick", NRF_RTC.c:233).                                    *)
RtcAlwaysMatchesTheCount == RtcTimesAreRight /\ RtcCounterReads

(* handle_overflow_event() takes the overflow for the last tick of the LF  *)
(* clock, even if a task that it has called has just set the counter: it   *)
(* is, unless that clock has started again while the counter ran.          *)
OverflowIsATick ==
  lf_moved => \A i \in DOMAIN rtc_routes[OVRFLW] : rtc_routes[OVRFLW][i] = "STOP"

(* But for that, the events and the reading match the count.               *)
RtcMatchesTheCount == OverflowIsATick => RtcAlwaysMatchesTheCount

(* A COMPARE or OVRFLW event is signalled only in the microsecond in which *)
(* the counter reached it ("This CC is matching now", NRF_RTC.c:329),      *)
(* whatever the tasks called for the events before it have done.           *)
RtcEventIsOnTime ==
  [][OverflowIsATick =>
       \A e \in RtcEvent : e \in RTC_EVENTS' \ RTC_EVENTS => e \in rtc_due]_rtcVars

(* No interrupt is lost between an event and the software enabling it, in  *)
(* either order: a pending, enabled event has the interrupt pending.       *)
RtcInterruptNotLost ==
  \A c \in RtcInts \intersect RTC_INTEN : c \in RTC_EVENTS => rtc_irq
=============================================================================
