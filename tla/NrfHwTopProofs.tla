---------------------------- MODULE NrfHwTopProofs ----------------------------
(***************************************************************************)
(* The event engine for any number of timers, any horizon and any          *)
(* interrupts: what is exposed to the scheduler is the first timer, none   *)
(* is missed, busy waits and ticks are on time, and the engine drives the  *)
(* interrupt controller as IrqCtrl specifies it.                           *)
(***************************************************************************)
EXTENDS NrfHwTop, CommonProofs

LEMMA TimersAreNumbers ==
  /\ TimerId \subseteq Nat /\ (\A time \in Time : time \in Nat) /\ TIME_NEVER \in Time
  /\ Horizon \in Nat /\ TIME_NEVER = Horizon + 1 /\ TickerPeriodMax \in Nat
  /\ fake_timer \in TimerId /\ fw_test_ticker \in TimerId /\ irq_ctrl_timer \in TimerId
  /\ fake_timer = 0 /\ fw_test_ticker = 1 /\ irq_ctrl_timer = 2
BY TopAssumption, HorizonAssumption
   DEF TimerId, Time, TIME_NEVER, fake_timer, fw_test_ticker, irq_ctrl_timer

(* Among the timers there is a first one, in time and then in the table.   *)
LEMMA ThereIsAFirst ==
  ASSUME NEW timers \in [TimerId -> Time]
  PROVE  \E t \in TimerId : IsFirst(timers, t)
<1> DEFINE after == TIME_NEVER + 1
           best  == Highest(TimerId, timers, after)
<1>1. /\ TimerId \subseteq Nat /\ after \in Nat
      /\ \A t \in TimerId : timers[t] \in Nat /\ timers[t] < after
  BY TimersAreNumbers DEF Time
<1>2. Preempting(TimerId, timers, after) = TimerId /\ TimerId # {}
  BY <1>1, TimersAreNumbers DEF Preempting
<1>3. best \in TimerId /\ \A t \in TimerId : Precedes(timers, best, t)
  BY <1>1, <1>2, HighestIsReady
<1> QED
  BY <1>3 DEF Precedes, IsFirst

(* What is exposed is what the scheduler must look at next.                *)
Exposed == /\ IsFirst(Timer, nrf_hw_next_timer_to_trigger)
           /\ timer_nrf_main_timer = Timer[nrf_hw_next_timer_to_trigger]

(* nrf_hw_find_next_timer_to_trigger() exposes the first timer.            *)
LEMMA FindNextExposes ==
  ASSUME Timer' \in [TimerId -> Time], FindNext
  PROVE  /\ Exposed'
         /\ nrf_hw_next_timer_to_trigger' \in TimerId /\ timer_nrf_main_timer' \in Time
<1> DEFINE first == CHOOSE t \in TimerId : IsFirst(Timer', t)
<1>1. first \in TimerId /\ IsFirst(Timer', first)
  BY ThereIsAFirst
<1>2. nrf_hw_next_timer_to_trigger' = first /\ timer_nrf_main_timer' = Timer'[first]
  BY DEF FindNext
<1> QED
  BY <1>1, <1>2 DEF Exposed, IsFirst

-----------------------------------------------------------------------------
(* The invariant. *)

(* While no handler is suspended the engine is up to date.                 *)
UpToDate == suspended = "none" => Exposed

(* The controller's delta cycle is in this microsecond or not asked for.   *)
IrqTimerDue == Timer[irq_ctrl_timer] \in {now, TIME_NEVER}

(* A tick that was set is never left behind.                               *)
TickToCome == now <= ticker_internal

(* The busy-wait timer is set to what is asked for, or it has come, and    *)
(* the controller is about to wake the CPU for it, locked or not.          *)
FakeFollows ==
  \/ Timer[fake_timer] = asked
  \/ /\ cpu = "halted" /\ suspended = "none" /\ lock_ignore = TRUE
     /\ Timer[fake_timer] = TIME_NEVER /\ asked = now /\ Timer[irq_ctrl_timer] = now

EngineInv ==
  /\ EngineTypeOK
  /\ UpToDate
  /\ NoTimerIsMissed
  /\ IrqTimerDue
  /\ TickerServesBoth
  /\ TickToCome
  /\ FakeFollows

LEMMA TypesAreNumbers ==
  ASSUME EngineTypeOK
  PROVE  /\ now \in Nat /\ asked \in Nat /\ timer_nrf_main_timer \in Nat
         /\ \A t \in TimerId : Timer[t] \in Nat
BY HorizonAssumption DEF EngineTypeOK, Time, TIME_NEVER

LEMMA EngineInit == Init => EngineInv
<1> SUFFICES ASSUME Init PROVE EngineInv
  OBVIOUS
<1> USE TimersAreNumbers
<1>1. Timer = [t \in TimerId |-> TIME_NEVER] /\ now = 0
  BY DEF Init
<1>2. EngineTypeOK
  <2>1. 0 \in TimerId /\ 0 \in 0 .. Horizon
    OBVIOUS
  <2> QED
    BY <1>1, <2>1 DEF Init, EngineTypeOK
<1>3. UpToDate
  <2>1. \A u \in TimerId : 0 <= u
    OBVIOUS
  <2> QED
    BY <1>1, <2>1 DEF Init, UpToDate, Exposed, IsFirst
<1>4. NoTimerIsMissed
  BY <1>1 DEF NoTimerIsMissed
<1>5. \A t \in {fake_timer, fw_test_ticker, irq_ctrl_timer} : Timer[t] = TIME_NEVER
  BY <1>1
<1>6. IrqTimerDue /\ TickerServesBoth /\ TickToCome /\ FakeFollows
  BY <1>1, <1>5 DEF Init, IrqTimerDue, TickerServesBoth, TickToCome, FakeFollows
<1> QED
  BY <1>2, <1>3, <1>4, <1>6 DEF EngineInv

-----------------------------------------------------------------------------
(* A handler or a register write that looks up the next timer again keeps  *)
(* what concerns the engine, if it sets timers to no time that has passed. *)
LEMMA LookedUpAgain ==
  ASSUME EngineInv, UNCHANGED now, Timer' \in [TimerId -> now .. TIME_NEVER], FindNext
  PROVE  /\ Timer' \in [TimerId -> Time]
         /\ nrf_hw_next_timer_to_trigger' \in TimerId /\ timer_nrf_main_timer' \in Time
         /\ UpToDate' /\ NoTimerIsMissed'
<1>1. now \in 0 .. Horizon
  BY DEF EngineInv, EngineTypeOK
<1>2. Timer' \in [TimerId -> Time]
  BY <1>1, TimersAreNumbers DEF Time
<1>3. NoTimerIsMissed'
  BY <1>1, TimersAreNumbers DEF NoTimerIsMissed
<1> QED
  BY <1>2, <1>3, FindNextExposes DEF UpToDate

(* The timers as they are: none is in the past.                            *)
LEMMA TimersToCome ==
  ASSUME EngineInv
  PROVE  /\ Timer \in [TimerId -> now .. TIME_NEVER]
         /\ now \in now .. TIME_NEVER /\ TIME_NEVER \in now .. TIME_NEVER
         /\ ticker_internal \in Time /\ ticker_internal \in now .. TIME_NEVER
BY TimersAreNumbers DEF EngineInv, EngineTypeOK, NoTimerIsMissed, TickToCome, Time

(* What the scheduler calls is due, and nothing before it in the table is. *)
LEMMA ReachedIsFirst ==
  ASSUME EngineInv, NEW t, Reached(t)
  PROVE  /\ t \in TimerId /\ Timer[t] = now /\ cpu = "halted" /\ suspended = "none"
         /\ \A u \in TimerId : u < t => Timer[u] > now
<1>1. t \in TimerId /\ Timer[t] = now /\ IsFirst(Timer, t) /\ cpu = "halted" /\ suspended = "none"
  BY DEF EngineInv, EngineTypeOK, UpToDate, Exposed, Reached, SchedulerRuns
<1>2. Timer \in [TimerId -> Time] /\ now \in Nat
  BY DEF EngineInv, EngineTypeOK
<1> QED
  BY <1>1, <1>2, TimersAreNumbers DEF IsFirst

-----------------------------------------------------------------------------
(* Each step preserves it.  The interrupt controller's steps are seen as   *)
(* those of IrqCtrl: what they do to the CPU and to its right to wake it.  *)

(* A call of a peripheral into the controller.                             *)
LEMMA UsesIrqKeeps ==
  ASSUME UsesIrq
  PROVE  cpu' = cpu /\ (lock_ignore = TRUE => lock_ignore' = TRUE)
BY DEF UsesIrq, irqVars, Irq!PeripheralPulse, Irq!RaiseLevelIrqLine, Irq!LowerLevelIrqLine,
       Irq!SetIrq, Irq!lockVars, Irq!cpuVars

(* A peripheral, from its handler or a register write, sets its timer and  *)
(* may pend the controller's.                                              *)
LEMMA PeripheralKeeps ==
  ASSUME EngineInv, NEW t \in Peripherals, UsesIrq, FindNext,
         UNCHANGED <<now, tickerVars, suspended, asked>>,
         \E time \in now .. TIME_NEVER : Timer' \in MayPend([Timer EXCEPT ![t] = time])
  PROVE  EngineInv'
<1>1. PICK time \in now .. TIME_NEVER : Timer' \in MayPend([Timer EXCEPT ![t] = time])
  OBVIOUS
<1>2. t \in TimerId /\ t \notin {fake_timer, fw_test_ticker, irq_ctrl_timer}
  BY DEF Peripherals
<1>3. /\ Timer' \in [TimerId -> now .. TIME_NEVER]
      /\ Timer'[fake_timer] = Timer[fake_timer]
      /\ Timer'[fw_test_ticker] = Timer[fw_test_ticker]
      /\ Timer'[irq_ctrl_timer] \in {Timer[irq_ctrl_timer], now}
  BY <1>1, <1>2, TimersToCome, TimersAreNumbers DEF MayPend
<1>4. EngineTypeOK' /\ UpToDate' /\ NoTimerIsMissed'
  BY <1>3, LookedUpAgain DEF EngineInv, EngineTypeOK, tickerVars
<1>5. (IrqTimerDue /\ TickerServesBoth /\ TickToCome)'
  BY <1>3 DEF EngineInv, IrqTimerDue, TickerServesBoth, TickToCome, tickerVars
<1>6. FakeFollows'
  BY <1>3, UsesIrqKeeps DEF EngineInv, FakeFollows
<1> QED
  BY <1>4, <1>5, <1>6 DEF EngineInv

LEMMA AdvanceTimeKeeps ==
  ASSUME EngineInv, AdvanceTime PROVE EngineInv'
<1>1. /\ timer_nrf_main_timer > now /\ timer_nrf_main_timer # TIME_NEVER
      /\ now' = timer_nrf_main_timer /\ suspended = "none"
      /\ UNCHANGED <<Timer, mainVars, tickerVars, suspended, asked, irqVars>>
  BY DEF AdvanceTime, SchedulerRuns
<1>2. EngineTypeOK /\ Exposed
  BY <1>1 DEF EngineInv, UpToDate
<1>3. /\ Timer \in [TimerId -> Time] /\ now \in Nat /\ timer_nrf_main_timer \in Nat
      /\ \A t \in TimerId : timer_nrf_main_timer <= Timer[t]
  BY <1>2, TypesAreNumbers DEF EngineTypeOK, Exposed, IsFirst
<1>4. Timer[irq_ctrl_timer] = TIME_NEVER /\ Timer[fw_test_ticker] # now
  BY <1>1, <1>3, TimersAreNumbers DEF EngineInv, IrqTimerDue
<1>5. EngineTypeOK' /\ UpToDate' /\ NoTimerIsMissed'
  <2>1. timer_nrf_main_timer \in 0 .. Horizon
    BY <1>1, <1>2, <1>3, HorizonAssumption DEF EngineTypeOK, Time, TIME_NEVER
  <2>2. EngineTypeOK' /\ NoTimerIsMissed'
    BY <1>1, <1>2, <1>3, <2>1 DEF EngineTypeOK, NoTimerIsMissed, mainVars, tickerVars
  <2>3. UpToDate'
    BY <1>1, <1>2 DEF UpToDate, Exposed, mainVars, IsFirst
  <2> QED
    BY <2>2, <2>3
<1>a. timer_nrf_main_timer <= ticker_internal
  BY <1>1, <1>3, <1>4, TimersAreNumbers DEF EngineInv, TickerServesBoth
<1>6. (IrqTimerDue /\ TickerServesBoth /\ TickToCome)'
  BY <1>1, <1>4, <1>a DEF EngineInv, IrqTimerDue, TickerServesBoth, TickToCome, tickerVars
<1>7. Timer[irq_ctrl_timer] # now
  BY <1>2, <1>4, TimersAreNumbers DEF EngineTypeOK
<1>8. FakeFollows'
  BY <1>1, <1>7 DEF EngineInv, FakeFollows
<1> QED
  BY <1>5, <1>6, <1>8 DEF EngineInv

LEMMA FakeTimerKeeps ==
  ASSUME EngineInv, FakeTimerTriggered PROVE EngineInv'
<1>1. /\ Reached(fake_timer) /\ FindNext
      /\ UNCHANGED <<now, tickerVars, suspended, asked>>
      /\ Timer' = [Timer EXCEPT ![fake_timer] = TIME_NEVER, ![irq_ctrl_timer] = now]
      /\ lock_ignore' = TRUE /\ cpu' = cpu
  BY DEF FakeTimerTriggered, Irq!FakeTimerTriggered, Irq!SetIrq, Irq!cpuVars
<1>2. Timer[fake_timer] = now /\ cpu = "halted" /\ suspended = "none"
  BY <1>1, ReachedIsFirst
<1>3. /\ Timer' \in [TimerId -> now .. TIME_NEVER]
      /\ Timer'[fake_timer] = TIME_NEVER
      /\ Timer'[fw_test_ticker] = Timer[fw_test_ticker]
      /\ Timer'[irq_ctrl_timer] = now
  BY <1>1, TimersToCome, TimersAreNumbers
<1>4. EngineTypeOK' /\ UpToDate' /\ NoTimerIsMissed'
  BY <1>1, <1>3, LookedUpAgain DEF EngineInv, EngineTypeOK, tickerVars
<1>5. (IrqTimerDue /\ TickerServesBoth /\ TickToCome)'
  BY <1>1, <1>3 DEF EngineInv, IrqTimerDue, TickerServesBoth, TickToCome, tickerVars
<1>6. now # TIME_NEVER
  BY TimersAreNumbers DEF EngineInv, EngineTypeOK
<1>7. FakeFollows'
  BY <1>1, <1>2, <1>3, <1>6 DEF EngineInv, FakeFollows
<1> QED
  BY <1>4, <1>5, <1>7 DEF EngineInv

(* The busy-wait timer comes first in the table: when another handler      *)
(* wakes the CPU, a busy-wait is over if and only if its timer has come.   *)
LEMMA WakingKeeps ==
  ASSUME EngineInv, NEW t \in TimerId, t # fake_timer, Reached(t), Awoken, UNCHANGED now,
         Timer'[fake_timer] = Timer[fake_timer],
         cpu' = "halted" => Timer[fake_timer] = asked
  PROVE  FakeFollows'
<1>1. Timer[fake_timer] > now /\ now # TIME_NEVER
  BY ReachedIsFirst, TimersAreNumbers DEF EngineInv, EngineTypeOK
<1>2. Timer[fake_timer] \in Nat /\ now \in Nat /\ asked \in Nat
  BY TypesAreNumbers, TimersAreNumbers DEF EngineInv
<1>3. CASE Timer[fake_timer] = asked
  BY <1>1, <1>2, <1>3 DEF Awoken, FakeFollows
<1>4. CASE Timer[fake_timer] # asked
  <2>1. Timer[fake_timer] = TIME_NEVER /\ asked = now /\ cpu' # "halted"
    BY <1>4 DEF EngineInv, FakeFollows
  <2>2. asked' = TIME_NEVER
    BY <2>1, <1>2 DEF Awoken
  <2> QED
    BY <2>1, <2>2 DEF FakeFollows
<1> QED
  BY <1>3, <1>4

LEMMA TickerAwakesKeeps ==
  ASSUME EngineInv, TickerAwakesCpu PROVE EngineInv'
<1>1. /\ Reached(fw_test_ticker) /\ awake_cpu_asap /\ awake_cpu_asap' = FALSE
      /\ suspended' = "ticker" /\ Awoken
      /\ UNCHANGED <<now, Timer, mainVars, ticker_internal, ticker_period>>
  BY DEF TickerAwakesCpu
<1>2. cpu' = "vectoring"
  BY DEF TickerAwakesCpu, Irq!TickerAwakesCpu, Irq!RaisingFromHwNow
<1>3. FakeFollows'
  BY <1>1, <1>2, WakingKeeps, TimersAreNumbers
<1>4. asked' \in Time
  BY <1>1, TimersAreNumbers DEF Awoken, EngineInv, EngineTypeOK
<1>5. EngineTypeOK'
  BY <1>1, <1>4 DEF EngineInv, EngineTypeOK, mainVars
<1>6. (UpToDate /\ NoTimerIsMissed /\ IrqTimerDue)'
  BY <1>1 DEF EngineInv, UpToDate, NoTimerIsMissed, IrqTimerDue
<1>7. (TickerServesBoth /\ TickToCome)'
  BY <1>1 DEF EngineInv, TickerServesBoth, TickToCome
<1> QED
  BY <1>3, <1>5, <1>6, <1>7 DEF EngineInv

LEMMA IrqCtrlKeeps ==
  ASSUME EngineInv, IrqCtrlTriggered PROVE EngineInv'
<1>1. /\ Reached(irq_ctrl_timer) /\ Awoken
      /\ UNCHANGED <<now, tickerVars>>
      /\ Timer' = [Timer EXCEPT ![irq_ctrl_timer] = TIME_NEVER]
      /\ IF cpu' = "halted" THEN FindNext /\ UNCHANGED suspended
                            ELSE suspended' = "irq_ctrl" /\ UNCHANGED mainVars
  BY DEF IrqCtrlTriggered
<1>2. lock_ignore = TRUE => cpu' = "vectoring"
  BY DEF IrqCtrlTriggered, Irq!TimerTriggered, Irq!RaisingFromHwNow
<1>3. /\ Timer' \in [TimerId -> now .. TIME_NEVER]
      /\ Timer'[fake_timer] = Timer[fake_timer]
      /\ Timer'[fw_test_ticker] = Timer[fw_test_ticker]
      /\ Timer'[irq_ctrl_timer] = TIME_NEVER
  BY <1>1, TimersToCome, TimersAreNumbers
<1>4. cpu' = "halted" => Timer[fake_timer] = asked
  BY <1>2 DEF EngineInv, FakeFollows
<1>5. FakeFollows'
  BY <1>1, <1>3, <1>4, WakingKeeps, TimersAreNumbers
<1>6. (IrqTimerDue /\ TickerServesBoth /\ TickToCome)'
  <2>1. suspended = "none"
    BY <1>1, ReachedIsFirst
  <2>2. suspended' # "ticker"
    BY <1>1, <2>1
  <2> QED
    BY <1>1, <1>3, <2>1, <2>2 DEF EngineInv, IrqTimerDue, TickerServesBoth, TickToCome, tickerVars
<1>7. asked' \in Time
  BY <1>1, TimersAreNumbers DEF Awoken, EngineInv, EngineTypeOK
<1>8. CASE cpu' = "halted"
  <2>1. EngineTypeOK' /\ UpToDate' /\ NoTimerIsMissed'
    BY <1>1, <1>3, <1>7, <1>8, LookedUpAgain DEF EngineInv, EngineTypeOK, tickerVars
  <2> QED
    BY <1>5, <1>6, <2>1 DEF EngineInv
<1>9. CASE cpu' # "halted"
  <2>1. Timer' \in [TimerId -> Time] /\ NoTimerIsMissed'
    BY <1>1, <1>3, TimersAreNumbers DEF EngineInv, EngineTypeOK, Time, NoTimerIsMissed
  <2>2. EngineTypeOK' /\ UpToDate'
    BY <1>1, <1>7, <1>9, <2>1 DEF EngineInv, EngineTypeOK, UpToDate, mainVars, tickerVars
  <2> QED
    BY <1>5, <1>6, <2>1, <2>2 DEF EngineInv
<1> QED
  BY <1>8, <1>9

(* A delay from now is no time that has passed.                            *)
LEMMA LaterIsToCome ==
  ASSUME EngineTypeOK, NEW delta \in Nat
  PROVE  Later(delta) \in now .. TIME_NEVER /\ Later(delta) \in Time
BY TypesAreNumbers, HorizonAssumption DEF Later, Time, TIME_NEVER, EngineTypeOK

(* The ticker's handler and the software set its timer: to its tick, or to *)
(* now for a request to wake the CPU.                                      *)
LEMMA TickerTimeKeeps ==
  ASSUME EngineInv, FindNext, suspended # "ticker" \/ cpu # "halted",
         UNCHANGED <<now, suspended, asked, irqVars>>,
         awake_cpu_asap' \in BOOLEAN, ticker_period' \in Nat,
         ticker_internal' \in now .. TIME_NEVER, ticker_internal' \in Time,
         Timer' = [Timer EXCEPT ![fw_test_ticker] = TickerTime]
  PROVE  EngineInv'
<1>1. TickerTime \in now .. TIME_NEVER
  BY TimersToCome DEF TickerTime
<1>2. /\ Timer' \in [TimerId -> now .. TIME_NEVER]
      /\ Timer'[fake_timer] = Timer[fake_timer]
      /\ Timer'[fw_test_ticker] = TickerTime
      /\ Timer'[irq_ctrl_timer] = Timer[irq_ctrl_timer]
  BY <1>1, TimersToCome, TimersAreNumbers
<1>3. EngineTypeOK' /\ UpToDate' /\ NoTimerIsMissed'
  BY <1>2, LookedUpAgain DEF EngineInv, EngineTypeOK
<1>4. (IrqTimerDue /\ TickerServesBoth /\ TickToCome)'
  BY <1>2 DEF EngineInv, IrqTimerDue, TickerServesBoth, TickToCome, TickerTime
<1>5. FakeFollows'
  BY <1>2 DEF EngineInv, FakeFollows, irqVars
<1> QED
  BY <1>3, <1>4, <1>5 DEF EngineInv

(* The next tick that the software or bst_tick() sets is one to come.      *)
LEMMA SetTickIsToCome ==
  ASSUME EngineTypeOK, SetsTick
  PROVE  /\ ticker_period' \in Nat
         /\ ticker_internal' \in now .. TIME_NEVER /\ ticker_internal' \in Time
<1>1. ASSUME NEW period \in 1 .. TickerPeriodMax
      PROVE  Later(period) \in now .. TIME_NEVER /\ Later(period) \in Time
  <2>1. period \in Nat
    BY HorizonAssumption
  <2> QED
    BY <2>1, LaterIsToCome
<1>2. CASE ticker_period' \in 1 .. TickerPeriodMax /\ ticker_internal' = Later(ticker_period')
  BY <1>1, <1>2, HorizonAssumption
<1>3. CASE ticker_internal' \in now .. TIME_NEVER /\ ticker_period' = ticker_period
  BY <1>3, TypesAreNumbers DEF EngineTypeOK, Time
<1> QED
  BY <1>2, <1>3 DEF SetsTick

LEMMA TickerTicksKeeps ==
  ASSUME EngineInv, TickerTicks PROVE EngineInv'
<1>1. suspended = "none"
  BY ReachedIsFirst DEF TickerTicks
<1>2. EngineTypeOK /\ ticker_period \in Nat
  BY TimersAreNumbers DEF EngineInv, EngineTypeOK
<1>3. /\ ticker_period' \in Nat
      /\ ticker_internal' \in now .. TIME_NEVER /\ ticker_internal' \in Time
  <2>1. CASE ticker_internal' = Later(ticker_period) /\ UNCHANGED ticker_period
    BY <1>2, <2>1, LaterIsToCome
  <2>2. CASE SetsTick
    BY <1>2, <2>2, SetTickIsToCome
  <2> QED
    BY <2>1, <2>2 DEF TickerTicks
<1> QED
  BY <1>1, <1>2, <1>3, TickerTimeKeeps DEF TickerTicks, EngineTypeOK

LEMMA TickerSetKeeps ==
  ASSUME EngineInv, TickerSet \/ AwakeCpuAsap PROVE EngineInv'
<1>1. EngineTypeOK /\ cpu # "halted"
  BY DEF EngineInv, TickerSet, AwakeCpuAsap, SoftwareRuns
<1>2. CASE TickerSet
  <2>1. ticker_period' \in Nat /\ ticker_internal' \in now .. TIME_NEVER /\ ticker_internal' \in Time
    BY <1>1, <1>2, SetTickIsToCome DEF TickerSet
  <2> QED
    BY <1>1, <1>2, <2>1, TickerTimeKeeps DEF TickerSet, EngineTypeOK
<1>3. CASE AwakeCpuAsap
  <2>1. ticker_internal \in now .. TIME_NEVER
    BY TimersToCome
  <2> QED
    BY <1>1, <1>3, <2>1, TickerTimeKeeps DEF AwakeCpuAsap, EngineTypeOK
<1> QED
  BY <1>2, <1>3

LEMMA HaltKeeps ==
  ASSUME EngineInv, Halt PROVE EngineInv'
<1>1. /\ cpu = "running" /\ suspended' = "none"
      /\ UNCHANGED <<now, tickerVars, asked>>
  BY DEF Halt, SoftwareRuns
<1>2. Timer[fake_timer] = asked
  BY <1>1 DEF EngineInv, FakeFollows
<1>3. CASE suspended = "none" /\ UNCHANGED <<Timer, mainVars>>
  BY <1>1, <1>2, <1>3
     DEF EngineInv, EngineTypeOK, UpToDate, Exposed, IsFirst, NoTimerIsMissed, IrqTimerDue,
         TickerServesBoth, TickToCome, FakeFollows, mainVars, tickerVars
<1>4. CASE /\ suspended = "ticker" /\ FindNext
           /\ Timer' = [Timer EXCEPT ![fw_test_ticker] =
                          IF awake_cpu_asap THEN now ELSE ticker_internal]
  <2>1. /\ Timer' \in [TimerId -> now .. TIME_NEVER]
        /\ Timer'[fake_timer] = Timer[fake_timer]
        /\ Timer'[fw_test_ticker] = IF awake_cpu_asap THEN now ELSE ticker_internal
        /\ Timer'[irq_ctrl_timer] = Timer[irq_ctrl_timer]
    BY <1>4, TimersToCome, TimersAreNumbers
  <2>2. EngineTypeOK' /\ UpToDate' /\ NoTimerIsMissed'
    BY <1>1, <1>4, <2>1, LookedUpAgain DEF EngineInv, EngineTypeOK, tickerVars
  <2> QED
    BY <1>1, <1>2, <2>1, <2>2
       DEF EngineInv, IrqTimerDue, TickerServesBoth, TickToCome, FakeFollows, tickerVars
<1>5. CASE suspended = "irq_ctrl" /\ FindNext /\ UNCHANGED Timer
  <2>1. EngineTypeOK' /\ UpToDate' /\ NoTimerIsMissed'
    BY <1>1, <1>5, TimersToCome, LookedUpAgain DEF EngineInv, EngineTypeOK, tickerVars
  <2> QED
    BY <1>1, <1>2, <1>5, <2>1
       DEF EngineInv, IrqTimerDue, TickerServesBoth, TickToCome, FakeFollows, tickerVars
<1>6. suspended \in {"none", "ticker", "irq_ctrl"}
  BY DEF EngineInv, EngineTypeOK
<1> QED
  BY <1>3, <1>4, <1>5, <1>6 DEF Halt

LEMMA WakeInTimeKeeps ==
  ASSUME EngineInv, NEW time \in now .. Horizon, FakeTimerWakeInTime(time) PROVE EngineInv'
<1>1. /\ asked' = IF time < asked THEN time ELSE asked
      /\ UNCHANGED <<now, tickerVars, suspended, irqVars>>
      /\ Timer[fake_timer] = asked
  BY DEF FakeTimerWakeInTime, SoftwareRuns, EngineInv, FakeFollows
<1>2. /\ asked \in Nat /\ now \in Nat /\ time \in Nat
      /\ time \in now .. TIME_NEVER /\ time \in Time
  BY TypesAreNumbers, HorizonAssumption DEF EngineInv, EngineTypeOK, Time, TIME_NEVER
<1>3. CASE asked > time /\ Timer' = [Timer EXCEPT ![fake_timer] = time] /\ FindNext
  <2>1. /\ Timer' \in [TimerId -> now .. TIME_NEVER]
        /\ Timer'[fake_timer] = time
        /\ Timer'[fw_test_ticker] = Timer[fw_test_ticker]
        /\ Timer'[irq_ctrl_timer] = Timer[irq_ctrl_timer]
    BY <1>2, <1>3, TimersToCome, TimersAreNumbers
  <2>2. asked' = time
    BY <1>1, <1>2, <1>3
  <2>3. EngineTypeOK' /\ UpToDate' /\ NoTimerIsMissed'
    BY <1>1, <1>2, <1>3, <2>1, <2>2, LookedUpAgain DEF EngineInv, EngineTypeOK, tickerVars
  <2> QED
    BY <1>1, <2>1, <2>2, <2>3
       DEF EngineInv, IrqTimerDue, TickerServesBoth, TickToCome, FakeFollows, tickerVars
<1>4. CASE ~(asked > time) /\ UNCHANGED <<Timer, mainVars>>
  <2>1. asked' = asked
    BY <1>1, <1>2, <1>4
  <2> QED
    BY <1>1, <1>4, <2>1
       DEF EngineInv, EngineTypeOK, UpToDate, Exposed, IsFirst, NoTimerIsMissed, IrqTimerDue,
           TickerServesBoth, TickToCome, FakeFollows, mainVars, tickerVars
<1> QED
  BY <1>1, <1>3, <1>4 DEF FakeTimerWakeInTime

(* Steps that leave the engine alone while the CPU runs, or change nothing. *)
LEMMA IdleKeeps ==
  ASSUME EngineInv, cpu # "halted" \/ UNCHANGED irqVars,
         UNCHANGED <<now, Timer, mainVars, tickerVars, suspended, asked>>
  PROVE  EngineInv'
BY DEF EngineInv, EngineTypeOK, UpToDate, Exposed, IsFirst, NoTimerIsMissed, IrqTimerDue,
       TickerServesBoth, TickToCome, FakeFollows, mainVars, tickerVars, irqVars

LEMMA EngineStep == EngineInv /\ [Next]_vars => EngineInv'
<1> SUFFICES ASSUME EngineInv, [Next]_vars PROVE EngineInv'
  OBVIOUS
<1>1. CASE AdvanceTime
  BY <1>1, AdvanceTimeKeeps
<1>2. CASE FakeTimerTriggered
  BY <1>2, FakeTimerKeeps
<1>3. CASE TickerAwakesCpu
  BY <1>3, TickerAwakesKeeps
<1>4. CASE TickerTicks
  BY <1>4, TickerTicksKeeps
<1>5. CASE IrqCtrlTriggered
  BY <1>5, IrqCtrlKeeps
<1>6. ASSUME NEW t \in Peripherals, PeripheralTriggered(t) PROVE EngineInv'
  BY <1>6, PeripheralKeeps DEF PeripheralTriggered
<1>7. CASE Halt
  BY <1>7, HaltKeeps
<1>8. CASE UsesIrqCtrl
  BY <1>8, IdleKeeps DEF UsesIrqCtrl
<1>9. ASSUME NEW time \in now .. Horizon, FakeTimerWakeInTime(time) PROVE EngineInv'
  BY <1>9, WakeInTimeKeeps
<1>10. CASE TickerSet \/ AwakeCpuAsap
  BY <1>10, TickerSetKeeps
<1>11. ASSUME NEW t \in Peripherals, RegisterWrite(t) PROVE EngineInv'
  BY <1>11, PeripheralKeeps DEF RegisterWrite
<1>12. CASE UNCHANGED vars
  BY <1>12, IdleKeeps DEF vars
<1> QED
  BY <1>1, <1>2, <1>3, <1>4, <1>5, <1>6, <1>7, <1>8, <1>9, <1>10, <1>11, <1>12
     DEF Next, SomeTimerReached, Software

-----------------------------------------------------------------------------
(* The variables of the engine keep their types.                           *)
THEOREM EngineTypeCorrect == Spec => []EngineTypeOK
<1>1. EngineInv => EngineTypeOK
  BY DEF EngineInv
<1> QED
  BY <1>1, EngineInit, EngineStep, PTL DEF Spec

(* What is exposed to the scheduler whenever it looks is the first timer,  *)
(* and no timer that is armed is ever passed.                              *)
THEOREM NoTimerIsEverMissed == Spec => [](NextIsFirst /\ NoTimerIsMissed)
<1>1. EngineInv => NextIsFirst /\ NoTimerIsMissed
  BY DEF EngineInv, UpToDate, Exposed, NextIsFirst, SchedulerRuns
<1> QED
  BY <1>1, EngineInit, EngineStep, PTL DEF Spec

(* A CPU that waits for a time is awake at that time.                      *)
THEOREM BusyWaitsAreOnTime == Spec => []BusyWaitIsOnTime
<1>1. EngineInv => BusyWaitIsOnTime
  <2> SUFFICES ASSUME EngineInv PROVE now <= asked
    BY DEF BusyWaitIsOnTime
  <2>1. now <= Timer[fake_timer] /\ now <= now
    BY TimersAreNumbers, TypesAreNumbers DEF EngineInv, NoTimerIsMissed
  <2> QED
    BY <2>1 DEF EngineInv, FakeFollows
<1> QED
  BY <1>1, EngineInit, EngineStep, PTL DEF Spec

(* The ticks come at their times, whatever requests to wake the CPU come   *)
(* between them on the same timer.                                         *)
THEOREM TicksAreOnTime == Spec => TicksOnTime
<1> DEFINE OnTime == /\ TickerTicks => ticker_internal = now
                     /\ now' # now => now' <= ticker_internal
<1>1. ASSUME EngineInv, TickerTicks PROVE ticker_internal = now
  <2>1. Timer[fw_test_ticker] = now /\ suspended = "none"
    BY <1>1, ReachedIsFirst DEF TickerTicks
  <2> QED
    BY <1>1, <2>1 DEF EngineInv, TickerServesBoth, TickerTicks
<1>2. ASSUME EngineInv', Next, now' # now PROVE now' <= ticker_internal
  <2>1. AdvanceTime
    BY <1>2 DEF Next, SomeTimerReached, Software, FakeTimerTriggered, TickerAwakesCpu,
                TickerTicks, IrqCtrlTriggered, PeripheralTriggered, Halt, UsesIrqCtrl,
                FakeTimerWakeInTime, TickerSet, AwakeCpuAsap, RegisterWrite
  <2>2. ticker_internal' = ticker_internal
    BY <2>1 DEF AdvanceTime, tickerVars
  <2>3. ticker_internal' \in now' .. TIME_NEVER
    BY <1>2, TypesAreNumbers DEF EngineInv, EngineTypeOK, Time, TickToCome
  <2>4. now' \in Int
    BY <1>2, TypesAreNumbers DEF EngineInv, EngineTypeOK
  <2> QED
    BY <2>2, <2>3, <2>4
<1>3. EngineInv /\ EngineInv' /\ [Next]_vars => [OnTime]_vars
  BY <1>1, <1>2
<1> QED
  BY <1>3, EngineInit, EngineStep, PTL DEF Spec, TicksOnTime

(* Timers due in the same microsecond are served in the order of the table.*)
THEOREM TimersAreServedInOrder == Spec => ServedInOrder
<1> DEFINE Ordered == \A t \in TimerId :
                        Reached(t) /\ SomeTimerReached =>
                          /\ Timer[t] = now
                          /\ \A u \in TimerId : u < t => Timer[u] # now
<1>1. ASSUME EngineInv PROVE Ordered
  <2> SUFFICES ASSUME NEW t \in TimerId, Reached(t)
               PROVE  Timer[t] = now /\ \A u \in TimerId : u < t => Timer[u] # now
    OBVIOUS
  <2>1. Timer[t] = now /\ (\A u \in TimerId : u < t => Timer[u] > now) /\ now \in Nat
    BY <1>1, ReachedIsFirst, TypesAreNumbers DEF EngineInv
  <2> QED
    BY <2>1
<1>2. EngineInv /\ [Next]_vars => [Ordered]_vars
  BY <1>1
<1> QED
  BY <1>2, EngineInit, EngineStep, PTL DEF Spec, ServedInOrder

-----------------------------------------------------------------------------
(* The refinement.  The controller's delta cycle, "now" in IrqCtrl, is the *)
(* time of its timer here: steps that do not call the controller must not  *)
(* bring that time about, or let it pass.                                  *)

LEMMA IrqInit == Init => Irq!Init
<1> SUFFICES ASSUME Init PROVE Timer_irq_ctrl = "never"
  BY DEF Init
<1>1. Timer[irq_ctrl_timer] = TIME_NEVER /\ now = 0
  BY TimersAreNumbers DEF Init
<1> QED
  BY <1>1, TimersAreNumbers DEF Timer_irq_ctrl

(* A step of the models or the software outside of the controller.         *)
LEMMA OutsideOfIrqCtrl ==
  ASSUME UNCHANGED <<now, irqVars>>, Timer'[irq_ctrl_timer] = Timer[irq_ctrl_timer]
  PROVE  UNCHANGED Irq!vars
BY DEF irqVars, Timer_irq_ctrl, Irq!vars, Irq!pendVars, Irq!lockVars, Irq!prioVars, Irq!cpuVars

LEMMA IrqStep == EngineInv /\ [Next]_vars => [Irq!Next]_(Irq!vars)
<1> SUFFICES ASSUME EngineInv, [Next]_vars PROVE Irq!Next \/ UNCHANGED Irq!vars
  OBVIOUS
<1> USE DEF Irq!Next, Irq!Hardware, Irq!Software
<1>1. CASE AdvanceTime
  <2>1. /\ suspended = "none" /\ timer_nrf_main_timer > now
        /\ timer_nrf_main_timer # TIME_NEVER /\ now' = timer_nrf_main_timer
        /\ UNCHANGED <<Timer, irqVars>>
    BY <1>1 DEF AdvanceTime, SchedulerRuns
  <2>2. /\ Timer[irq_ctrl_timer] \in {now, TIME_NEVER} /\ now \in Nat
        /\ timer_nrf_main_timer <= Timer[irq_ctrl_timer] /\ timer_nrf_main_timer \in Nat
    BY <2>1, TimersAreNumbers, TypesAreNumbers
       DEF EngineInv, IrqTimerDue, UpToDate, Exposed, IsFirst, EngineTypeOK
  <2>3. Timer_irq_ctrl' = Timer_irq_ctrl
    BY <2>1, <2>2 DEF Timer_irq_ctrl
  <2> QED
    BY <2>1, <2>3 DEF irqVars, Irq!vars, Irq!pendVars, Irq!lockVars, Irq!prioVars, Irq!cpuVars
<1>2. CASE FakeTimerTriggered
  BY <1>2 DEF FakeTimerTriggered
<1>3. CASE TickerAwakesCpu
  BY <1>3 DEF TickerAwakesCpu
<1>4. CASE TickerTicks \/ TickerSet \/ AwakeCpuAsap
  <2>1. UNCHANGED <<now, irqVars>> /\ Timer' = [Timer EXCEPT ![fw_test_ticker] = TickerTime]
    BY <1>4 DEF TickerTicks, TickerSet, AwakeCpuAsap
  <2>2. Timer'[irq_ctrl_timer] = Timer[irq_ctrl_timer]
    BY <2>1, TimersAreNumbers DEF EngineInv, EngineTypeOK
  <2> QED
    BY <2>1, <2>2, OutsideOfIrqCtrl
<1>5. CASE IrqCtrlTriggered
  BY <1>5 DEF IrqCtrlTriggered
<1>6. ASSUME NEW t \in Peripherals, PeripheralTriggered(t) \/ RegisterWrite(t)
      PROVE  Irq!Next \/ UNCHANGED Irq!vars
  <2>1. UsesIrq
    BY <1>6 DEF PeripheralTriggered, RegisterWrite
  <2>2. CASE UNCHANGED <<irqVars, Timer_irq_ctrl>>
    BY <2>2 DEF irqVars, Irq!vars, Irq!pendVars, Irq!lockVars, Irq!prioVars, Irq!cpuVars
  <2> QED
    BY <2>1, <2>2 DEF UsesIrq
<1>7. CASE Halt
  BY <1>7 DEF Halt
<1>8. CASE UsesIrqCtrl
  BY <1>8 DEF UsesIrqCtrl
<1>9. ASSUME NEW time \in now .. Horizon, FakeTimerWakeInTime(time)
      PROVE  UNCHANGED Irq!vars
  <2>1. UNCHANGED <<now, irqVars>> /\ (Timer' = [Timer EXCEPT ![fake_timer] = time] \/ Timer' = Timer)
    BY <1>9 DEF FakeTimerWakeInTime
  <2>2. Timer'[irq_ctrl_timer] = Timer[irq_ctrl_timer]
    BY <2>1, TimersAreNumbers DEF EngineInv, EngineTypeOK
  <2> QED
    BY <2>1, <2>2, OutsideOfIrqCtrl
<1>10. CASE UNCHANGED vars
  BY <1>10, OutsideOfIrqCtrl DEF vars
<1> QED
  BY <1>1, <1>2, <1>3, <1>4, <1>5, <1>6, <1>7, <1>8, <1>9, <1>10
     DEF Next, SomeTimerReached, Software

(* The engine drives the interrupt controller as IrqCtrl specifies it.     *)
THEOREM EngineImplementsIrqCtrl == Spec => ImplementsIrqCtrl
BY EngineInit, EngineStep, IrqInit, IrqStep, PTL DEF Spec, ImplementsIrqCtrl, Irq!Spec

(* What is proved of the controller alone holds in the engine.             *)
Ctrl == INSTANCE IrqCtrlProofs

(* The controller of the theorems is the one of the engine.                *)
LEMMA SameCtrl ==
  /\ Irq!Init => Ctrl!Init
  /\ [Irq!Next]_(Irq!vars) => [Ctrl!Next]_(Ctrl!vars)
<1>1. Irq!Init => Ctrl!Init
  BY DEF Irq!Init, Ctrl!Init, Irq!ThreadPrio, Ctrl!ThreadPrio
<1>2. Irq!Next => Ctrl!Next
  BY DEF Irq!Next, Irq!Hardware, Irq!Software, Irq!TimerTriggered, Irq!FakeTimerTriggered,
         Irq!TickerAwakesCpu, Irq!PeripheralPulse, Irq!RaiseLevelIrqLine,
         Irq!LowerLevelIrqLine, Irq!PeripheralRuns, Irq!EnableIrq, Irq!DisableIrq,
         Irq!SwRaisesIrq, Irq!PrioSet, Irq!ChangeLock, Irq!ClearAllEnabledIrqs,
         Irq!ClearAllIrqs, Irq!Halt, Irq!Vector, Irq!HandlerReturns, Irq!SetIrq, Irq!Pend,
         Irq!RaiseImFromSw, Irq!RaisingFromHwNow, Irq!PHONY_HARD_IRQ, Irq!Active,
         Irq!HighestPrioIrq, Irq!Highest, Irq!Preempting, Irq!Precedes, Irq!ThreadPrio,
         Irq!pendVars, Irq!lockVars, Irq!prioVars, Irq!cpuVars,
         Ctrl!Next, Ctrl!Hardware, Ctrl!Software, Ctrl!TimerTriggered,
         Ctrl!FakeTimerTriggered, Ctrl!TickerAwakesCpu, Ctrl!PeripheralPulse,
         Ctrl!RaiseLevelIrqLine, Ctrl!LowerLevelIrqLine, Ctrl!PeripheralRuns,
         Ctrl!EnableIrq, Ctrl!DisableIrq, Ctrl!SwRaisesIrq, Ctrl!PrioSet, Ctrl!ChangeLock,
         Ctrl!ClearAllEnabledIrqs, Ctrl!ClearAllIrqs, Ctrl!Halt, Ctrl!Vector,
         Ctrl!HandlerReturns, Ctrl!SetIrq, Ctrl!Pend, Ctrl!RaiseImFromSw,
         Ctrl!RaisingFromHwNow, Ctrl!PHONY_HARD_IRQ, Ctrl!Active, Ctrl!HighestPrioIrq,
         Ctrl!Highest, Ctrl!Preempting, Ctrl!Precedes, Ctrl!ThreadPrio, Ctrl!pendVars,
         Ctrl!lockVars, Ctrl!prioVars, Ctrl!cpuVars
<1>3. UNCHANGED Irq!vars => UNCHANGED Ctrl!vars
  BY DEF Irq!vars, Irq!pendVars, Irq!lockVars, Irq!prioVars, Irq!cpuVars,
         Ctrl!vars, Ctrl!pendVars, Ctrl!lockVars, Ctrl!prioVars, Ctrl!cpuVars
<1> QED
  BY <1>1, <1>2, <1>3

(* Driven by the engine, the controller loses no wake-up: a CPU that halts *)
(* with an interrupt to take has the controller's timer due in the same    *)
(* microsecond, which the engine does not let pass.                        *)
THEOREM EngineLosesNoWakeUp ==
  ASSUME Ctrl!IrqAssumption, Ctrl!PrioAssumption
  PROVE  Spec => [](Ctrl!NoLostWakeUp /\ NextIsFirst /\ NoTimerIsMissed)
<1>1. Ctrl!Spec => []Ctrl!NoLostWakeUp
  BY Ctrl!NoWakeUpIsLost, PTL
<1>2. Spec => Ctrl!Spec
  BY SameCtrl, EngineImplementsIrqCtrl, PTL DEF ImplementsIrqCtrl, Irq!Spec, Ctrl!Spec
<1> QED
  BY <1>1, <1>2, NoTimerIsEverMissed, PTL
=============================================================================
