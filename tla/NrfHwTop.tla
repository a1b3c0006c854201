------------------------------ MODULE NrfHwTop ------------------------------
(***************************************************************************)
(* The event engine of the models (NRF_HW_model_top.c), with the models    *)
(* that exist to wake the CPU: the busy-wait timer (fake_timer.c), the     *)
(* test ticker (bstest_ticker.c) and the interrupt controller (IrqCtrl).   *)
(* The other peripherals are timers whose handlers re-arm them and use     *)
(* their interrupt as they like.                                           *)
(*                                                                         *)
(* Everything runs in one thread.  The scheduler calls one handler per     *)
(* delta cycle; a handler that wakes the CPU is suspended while the        *)
(* software runs, and resumes when the software halts the CPU again.       *)
(***************************************************************************)
EXTENDS Integers, Sequences

CONSTANTS
  NumberOfNRFHWTimers,  \* timers, in order of priority
  Horizon,              \* bound: the last microsecond of the simulation
  TickerPeriodMax,      \* bound: the longest period of the test ticker
  IRQ, Prio             \* as in IrqCtrl

(* The timers that are told apart, by their index in Timers[].              *)
fake_timer     == 0
fw_test_ticker == 1
irq_ctrl_timer == 2

TimerId     == 0 .. NumberOfNRFHWTimers - 1
Peripherals == TimerId \ {fake_timer, fw_test_ticker, irq_ctrl_timer}
TIME_NEVER  == Horizon + 1
Time        == 0 .. TIME_NEVER

ASSUME TopAssumption == NumberOfNRFHWTimers \in Nat /\ NumberOfNRFHWTimers > 2
ASSUME HorizonAssumption == Horizon \in Nat /\ TickerPeriodMax \in Nat

VARIABLES
  now,                            \* tm_get_hw_time()
  Timer,                          \* *Timers[]
  timer_nrf_main_timer,           \* the timer exposed to the scheduler
  nrf_hw_next_timer_to_trigger,
  awake_cpu_asap,                 \* bstest_ticker.c
  ticker_internal,                \*   Timer_event_fw_test_ticker_internal
  ticker_period,                  \*   fw_test_ticker_tick_period
  suspended,                      \* the handler that woke the CPU, or "none"
  asked,                          \* earliest busy-wait not yet over, or TIME_NEVER
  irq_lines, irq_status, irq_premask, irq_mask, irqs_locked, lock_ignore,
  irq_prio, currently_running_prio, cpu, handlers

Timer_irq_ctrl == IF Timer[irq_ctrl_timer] = now THEN "now" ELSE "never"

Irq == INSTANCE IrqCtrl

mainVars   == <<timer_nrf_main_timer, nrf_hw_next_timer_to_trigger>>
tickerVars == <<awake_cpu_asap, ticker_internal, ticker_period>>
irqVars    == <<irq_lines, irq_status, irq_premask, irq_mask, irqs_locked, lock_ignore,
                irq_prio, currently_running_prio, cpu, handlers>>
vars == <<now, Timer, mainVars, tickerVars, suspended, asked, irqVars>>

(* nrf_hw_initialize(): every timer is off, then the next one is looked up. *)
Init ==
  /\ now = 0
  /\ Timer = [t \in TimerId |-> TIME_NEVER]
  /\ timer_nrf_main_timer = TIME_NEVER /\ nrf_hw_next_timer_to_trigger = 0
  /\ awake_cpu_asap = FALSE
  /\ ticker_internal = TIME_NEVER /\ ticker_period = TIME_NEVER
  /\ suspended = "none" /\ asked = TIME_NEVER
  /\ Irq!Init

-----------------------------------------------------------------------------
(* Operators.                                                               *)

(* Mutant: the last of the timers due at the same time goes first.          *)
IsFirstLast(timers, t) == \A u \in TimerId : timers[t] < timers[u]
                                           \/ (timers[t] = timers[u] /\ u <= t)

(* Mutant: the controller's timer is left out of the table.                 *)
IsFirstNoIrqCtrl(timers, t) ==
  /\ t # irq_ctrl_timer
  /\ \A u \in TimerId \ {irq_ctrl_timer} : timers[t] < timers[u]
                                           \/ (timers[t] = timers[u] /\ t <= u)

(* The timer the loop over Timers[] ends on: the strict comparison keeps    *)
(* the first one of those due at the same time.                             *)
IsFirst(timers, t) == \A u \in TimerId : timers[t] < timers[u]
                                       \/ (timers[t] = timers[u] /\ t <= u)

(* Mutant: the loop over the timers stops one short of the last.            *)
FindNextButLast ==
  LET first == CHOOSE t \in TimerId \ {NumberOfNRFHWTimers - 1} :
                 \A u \in TimerId \ {NumberOfNRFHWTimers - 1} :
                    Timer'[t] < Timer'[u] \/ (Timer'[t] = Timer'[u] /\ t <= u)
  IN  /\ nrf_hw_next_timer_to_trigger' = first
      /\ timer_nrf_main_timer' = Timer'[first]

(* nrf_hw_find_next_timer_to_trigger(), on the new values of the timers.    *)
FindNext ==
  LET first == CHOOSE t \in TimerId : IsFirst(Timer', t)
  IN  /\ nrf_hw_next_timer_to_trigger' = first
      /\ timer_nrf_main_timer' = Timer'[first]

(* The timers, the interrupt controller's being due or not in this delta.   *)
MayPend(timers) == {timers, [timers EXCEPT ![irq_ctrl_timer] = now]}

(* Beyond the horizon is never.                                             *)
Later(delta) == IF now + delta > Horizon THEN TIME_NEVER ELSE now + delta

(* bst_ticker_find_next_time(), but for its call to find_next.              *)
TickerTime == IF awake_cpu_asap' THEN now ELSE ticker_internal'

(* bst_ticker_set_period() and bst_ticker_set_next_tick_*(), but for the    *)
(* bst_ticker_find_next_time() they end with.                               *)
SetsTick ==
  \/ /\ ticker_period' \in 1 .. TickerPeriodMax
     /\ ticker_internal' = Later(ticker_period')
  \/ /\ ticker_internal' \in now .. TIME_NEVER
     /\ UNCHANGED ticker_period

-----------------------------------------------------------------------------
(* The scheduler: nrf_hw_some_timer_reached() when the timer it was shown   *)
(* is reached and no software runs.                                         *)

SchedulerRuns == cpu = "halted" /\ suspended = "none"
Reached(t) ==
  /\ SchedulerRuns
  /\ timer_nrf_main_timer = now
  /\ nrf_hw_next_timer_to_trigger = t

(* External: time advances to the next thing to do.                         *)
AdvanceTime ==
  /\ SchedulerRuns
  /\ timer_nrf_main_timer > now /\ timer_nrf_main_timer # TIME_NEVER
  /\ now' = timer_nrf_main_timer
  /\ UNCHANGED <<Timer, mainVars, tickerVars, suspended, asked, irqVars>>

(* A CPU that is running at the time its busy-wait asked for is done.       *)
Awoken == asked' = IF cpu' # "halted" /\ now >= asked THEN TIME_NEVER ELSE asked

(* Mutant: the busy-wait timer does not ask for the CPU to be woken.        *)
FakeTimerTriggeredSilent ==
  /\ Reached(fake_timer)
  /\ Timer' = [Timer EXCEPT ![fake_timer] = TIME_NEVER]
  /\ FindNext
  /\ UNCHANGED <<now, tickerVars, suspended, asked, irqVars>>

(* fake_timer_triggered().                                                  *)
FakeTimerTriggered ==
  /\ Reached(fake_timer)
  /\ UNCHANGED <<now, tickerVars, suspended, asked>>
  /\ Timer' = [Timer EXCEPT ![fake_timer] = TIME_NEVER, ![irq_ctrl_timer] = now]
  /\ FindNext
  /\ Irq!FakeTimerTriggered

(* bst_ticker_triggered(), asked to wake the CPU: it does so in the middle  *)
(* of the handler, which finds the next tick when the CPU halts.            *)
TickerAwakesCpu ==
  /\ Reached(fw_test_ticker) /\ awake_cpu_asap
  /\ awake_cpu_asap' = FALSE
  /\ suspended' = "ticker"
  /\ UNCHANGED <<now, Timer, mainVars, ticker_internal, ticker_period>>
  /\ Irq!TickerAwakesCpu
  /\ Awoken

(* Mutant: the tick does not give way to the request to wake the CPU.       *)
TickerTicksAnyway ==
  /\ Reached(fw_test_ticker)
  /\ \/ ticker_internal' = Later(ticker_period) /\ UNCHANGED ticker_period
     \/ SetsTick
  /\ awake_cpu_asap' \in BOOLEAN
  /\ Timer' = [Timer EXCEPT ![fw_test_ticker] = TickerTime]
  /\ FindNext
  /\ UNCHANGED <<now, suspended, asked, irqVars>>

(* bst_ticker_triggered(), at a tick: the next one is a period later, unless *)
(* the test's bst_tick() (external), called then, sets another, maybe in    *)
(* this microsecond, or another period; it may ask for the CPU to be woken. *)
TickerTicks ==
  /\ Reached(fw_test_ticker) /\ ~awake_cpu_asap
  /\ \/ ticker_internal' = Later(ticker_period) /\ UNCHANGED ticker_period
     \/ SetsTick
  /\ awake_cpu_asap' \in BOOLEAN
  /\ Timer' = [Timer EXCEPT ![fw_test_ticker] = TickerTime]
  /\ FindNext
  /\ UNCHANGED <<now, suspended, asked, irqVars>>

(* hw_irq_ctrl_timer_triggered(): the timer is cleared before the CPU is    *)
(* woken, and the next one looked up after.                                 *)
IrqCtrlTriggered ==
  /\ Reached(irq_ctrl_timer)
  /\ UNCHANGED <<now, tickerVars>>
  /\ Timer' = [Timer EXCEPT ![irq_ctrl_timer] = TIME_NEVER]
  /\ Irq!TimerTriggered
  /\ IF cpu' = "halted"
       THEN FindNext /\ UNCHANGED suspended
       ELSE suspended' = "irq_ctrl" /\ UNCHANGED mainVars
  /\ Awoken

(* Calls of a peripheral into the interrupt controller, if any.             *)
UsesIrq ==
  \/ UNCHANGED <<irqVars, Timer_irq_ctrl>>
  \/ \E irq \in IRQ : \/ Irq!PeripheralPulse(irq)
                      \/ Irq!RaiseLevelIrqLine(irq)
                      \/ Irq!LowerLevelIrqLine(irq)

(* The handler of another peripheral: it re-arms its timer, maybe for one   *)
(* more delta cycle of this microsecond, or leaves it off.                  *)
PeripheralTriggered(t) ==
  /\ Reached(t)
  /\ UNCHANGED <<now, tickerVars, suspended, asked>>
  /\ \E time \in now .. TIME_NEVER : Timer' \in MayPend([Timer EXCEPT ![t] = time])
  /\ UsesIrq
  /\ FindNext

-----------------------------------------------------------------------------
(* The software, while the CPU runs.                                        *)

SoftwareRuns == cpu = "running"

(* What is left of the handler that woke the CPU runs when it halts.        *)
Halt ==
  /\ SoftwareRuns
  /\ UNCHANGED <<now, tickerVars, asked>>
  /\ CASE suspended = "none" -> UNCHANGED <<Timer, mainVars>>
       [] suspended = "ticker" ->
            /\ Timer' = [Timer EXCEPT ![fw_test_ticker] =
                           IF awake_cpu_asap THEN now ELSE ticker_internal]
            /\ FindNext
       [] suspended = "irq_ctrl" -> UNCHANGED Timer /\ FindNext
  /\ suspended' = "none"
  /\ Irq!Halt

(* The software's dealings with the interrupt controller alone.             *)
UsesIrqCtrl ==
  /\ cpu # "halted"
  /\ UNCHANGED <<now, Timer, mainVars, tickerVars, suspended, asked>>
  /\ \/ Irq!Vector
     \/ Irq!HandlerReturns
     \/ \E irq \in IRQ : Irq!EnableIrq(irq) \/ Irq!DisableIrq(irq) \/ Irq!SwRaisesIrq(irq)
     \/ \E new_lock \in BOOLEAN : Irq!ChangeLock(new_lock)
     \/ Irq!ClearAllEnabledIrqs
     \/ Irq!ClearAllIrqs

(* Mutant: a later busy-wait replaces an earlier one.                       *)
FakeTimerWakeInTimeLast(time) ==
  /\ SoftwareRuns
  /\ Timer' = [Timer EXCEPT ![fake_timer] = time]
  /\ FindNext
  /\ asked' = IF time < asked THEN time ELSE asked
  /\ UNCHANGED <<now, tickerVars, suspended, irqVars>>

(* fake_timer_wake_in_time(): the earliest request prevails.                *)
FakeTimerWakeInTime(time) ==
  /\ SoftwareRuns
  /\ asked' = IF time < asked THEN time ELSE asked
  /\ IF Timer[fake_timer] > time
       THEN Timer' = [Timer EXCEPT ![fake_timer] = time] /\ FindNext
       ELSE UNCHANGED <<Timer, mainVars>>
  /\ UNCHANGED <<now, tickerVars, suspended, irqVars>>

(* The software sets the ticker.                                            *)
TickerSet ==
  /\ SoftwareRuns
  /\ SetsTick
  /\ UNCHANGED awake_cpu_asap
  /\ Timer' = [Timer EXCEPT ![fw_test_ticker] = TickerTime]
  /\ FindNext
  /\ UNCHANGED <<now, suspended, asked, irqVars>>

(* bst_awake_cpu_asap().                                                    *)
AwakeCpuAsap ==
  /\ SoftwareRuns
  /\ awake_cpu_asap' = TRUE
  /\ UNCHANGED <<ticker_internal, ticker_period>>
  /\ Timer' = [Timer EXCEPT ![fw_test_ticker] = TickerTime]
  /\ FindNext
  /\ UNCHANGED <<now, suspended, asked, irqVars>>

(* A register write whose side effect starts or stops a peripheral.         *)
RegisterWrite(t) ==
  /\ SoftwareRuns
  /\ UNCHANGED <<now, tickerVars, suspended, asked>>
  /\ \E time \in now .. TIME_NEVER : Timer' \in MayPend([Timer EXCEPT ![t] = time])
  /\ UsesIrq
  /\ FindNext

-----------------------------------------------------------------------------
SomeTimerReached ==
  \/ FakeTimerTriggered
  \/ TickerAwakesCpu
  \/ TickerTicks
  \/ IrqCtrlTriggered
  \/ \E t \in Peripherals : PeripheralTriggered(t)

Software ==
  \/ Halt
  \/ UsesIrqCtrl
  \/ \E time \in now .. Horizon : FakeTimerWakeInTime(time)
  \/ TickerSet
  \/ AwakeCpuAsap
  \/ \E t \in Peripherals : RegisterWrite(t)

Next == AdvanceTime \/ SomeTimerReached \/ Software

Spec == Init /\ [][Next]_vars

(* The scheduler keeps calling what is due and then advances the time, and  *)
(* neither a peripheral nor the test's bst_tick() re-arms its timer for     *)
(* ever in the same microsecond.                                            *)
TimeIsFree ==
  cpu # "halted" \/ \A t \in Peripherals \union {fw_test_ticker} : Timer[t] # now
FairSpec == /\ Spec
            /\ WF_vars(AdvanceTime) /\ WF_vars(SomeTimerReached)
            /\ []<>TimeIsFree

-----------------------------------------------------------------------------
(* Properties.                                                              *)

(* The types of the engine's state; those of the controller are IrqCtrl's.  *)
EngineTypeOK ==
  /\ now \in 0 .. Horizon
  /\ Timer \in [TimerId -> Time]
  /\ timer_nrf_main_timer \in Time /\ nrf_hw_next_timer_to_trigger \in TimerId
  /\ awake_cpu_asap \in BOOLEAN
  /\ ticker_internal \in Time /\ ticker_period \in Nat
  /\ suspended \in {"none", "ticker", "irq_ctrl"}
  /\ asked \in Time

(* What the scheduler goes by is never stale when it looks at it: the timer *)
(* exposed to it is the earliest one, and the handler that will be called   *)
(* is that of the first timer due then, although every model and the        *)
(* software change timers behind its back.                                  *)
NextIsFirst ==
  SchedulerRuns => /\ IsFirst(Timer, nrf_hw_next_timer_to_trigger)
                   /\ timer_nrf_main_timer = Timer[nrf_hw_next_timer_to_trigger]

(* No timer is ever missed: time does not pass one that is armed.           *)
NoTimerIsMissed == \A t \in TimerId : now <= Timer[t]

(* A busy-waiting CPU is awake at the time it asked for, with interrupts    *)
(* locked or not, whatever wakes it or re-arms its timer in between         *)
(* (fake_timer.c: "at least when <time> comes").                            *)
BusyWaitIsOnTime == now <= asked

(* The ticker's one timer serves both the tick and the request to wake the  *)
(* CPU: the request is served in its own microsecond ("in this same         *)
(* microsecond, in a following delta") and costs no tick.                   *)
TickerServesBoth ==
  /\ awake_cpu_asap => Timer[fw_test_ticker] = now
  /\ ~awake_cpu_asap /\ suspended # "ticker" => Timer[fw_test_ticker] = ticker_internal

(* The tick that was set last, by the software, by the period or by         *)
(* bst_tick() itself, is the one that comes, in its own microsecond, and is *)
(* never passed over, whatever requests to wake the CPU share its timer.    *)
TicksOnTime ==
  [][/\ TickerTicks => ticker_internal = now
     /\ now' # now => now' <= ticker_internal]_vars

(* Timers due in the same microsecond are served in the order of Timers[],  *)
(* each in a delta cycle of its own.                                        *)
ServedInOrder ==
  [][\A t \in TimerId :
       Reached(t) /\ SomeTimerReached =>
         /\ Timer[t] = now
         /\ \A u \in TimerId : u < t => Timer[u] # now]_vars

(* The engine drives the interrupt controller as the controller expects:    *)
(* its own delta cycle comes in the microsecond it asked for.               *)
ImplementsIrqCtrl == Irq!Spec

(* A CPU halted in a busy-wait is woken.                                    *)
BusyWaitEnds == (cpu = "halted" /\ asked # TIME_NEVER) ~> (cpu # "halted")
=============================================================================
