------------------------------- MODULE Clock -------------------------------
(***************************************************************************)
(* The clock control (NRF_CLOCK.c): the HF and LF clocks, the calibration  *)
(* of the LF oscillator, the calibration timer, and their interrupt.       *)
(*                                                                         *)
(* Signalling an event calls the PPI, which may call tasks of the clock    *)
(* itself before the handler that signalled continues: such handlers are   *)
(* split there, and what is left of them is in "stack".  One unit of time  *)
(* is one unit of CTIV, a quarter of a second.                             *)
(***************************************************************************)
EXTENDS Integers, Sequences

CONSTANTS
  Routes,     \* the tasks that the PPI calls at each event
  IntEvents,  \* bound: events whose EVENTS_ register and interrupt are kept track of
  MaxDepth,   \* bound: handlers suspended at an event
  CtivMax,    \* bound: the longest time of the calibration timer
  Horizon     \* bound: the last unit of time

ClockEvent == {"HFCLKSTARTED", "LFCLKSTARTED", "DONE", "CTTO", "CTSTARTED", "CTSTOPPED"}
ClockTask  == {"HFCLKSTART", "HFCLKSTOP", "LFCLKSTART", "LFCLKSTOP", "CAL", "CTSTART", "CTSTOP"}

ASSUME RoutesAssumption == Routes \in [ClockEvent -> SUBSET ClockTask]
ASSUME IntEventsAssumption == IntEvents \subseteq ClockEvent
ASSUME BoundAssumption  == MaxDepth \in Nat /\ CtivMax \in Nat /\ Horizon \in Nat

TIME_NEVER == Horizon + CtivMax + 1
Time       == 0 .. TIME_NEVER
TimerName  == {"HF", "LF", "cal", "caltimer"}

VARIABLES
  now,              \* tm_get_hw_time()
  timer,            \* Timer_CLOCK_HF, Timer_CLOCK_LF, Timer_LF_cal, Timer_caltimer
  Timer_CLOCK,      \* the earliest one, as the event engine knows it
  HF_Clock_state, LF_Clock_state, caltimer_state,
  HFCLKRUN, HFCLKSTAT, LFCLKRUN, LFCLKSTAT,  \* "running" in those registers
  CTIV,
  EVENTS,           \* the events whose register is 1
  CLOCK_INTEN,
  clock_int_line,
  stack             \* [event, rest]: what is left to run after an event

timerVars == <<timer, Timer_CLOCK>>
hfVars  == <<HF_Clock_state, HFCLKRUN, HFCLKSTAT>>
lfVars  == <<LF_Clock_state, LFCLKRUN, LFCLKSTAT>>
ctVars  == <<caltimer_state, CTIV>>
intVars == <<EVENTS, CLOCK_INTEN, clock_int_line>>
vars == <<now, timerVars, hfVars, lfVars, ctVars, intVars, stack>>

(* nrf_clock_init().                                                        *)
Init ==
  /\ now = 0
  /\ timer = [t \in TimerName |-> TIME_NEVER] /\ Timer_CLOCK = TIME_NEVER
  /\ HF_Clock_state = "Stopped" /\ LF_Clock_state = "Stopped"
  /\ caltimer_state = "Stopped"
  /\ HFCLKRUN = FALSE /\ HFCLKSTAT = FALSE /\ LFCLKRUN = FALSE /\ LFCLKSTAT = FALSE
  /\ CTIV = 0
  /\ EVENTS = {} /\ CLOCK_INTEN = {} /\ clock_int_line = FALSE
  /\ stack = <<>>

-----------------------------------------------------------------------------
Idle == stack = <<>>

(* Mutant: the timer of the calibration timer is left out.                  *)
UpdateMasterTimerThree ==
  Timer_CLOCK' = CHOOSE time \in Time :
                   /\ \E t \in TimerName \ {"caltimer"} : time = timer'[t]
                   /\ \A t \in TimerName \ {"caltimer"} : time <= timer'[t]

(* nrf_clock_update_master_timer().                                         *)
UpdateMasterTimer ==
  Timer_CLOCK' = CHOOSE time \in Time : /\ \E t \in TimerName : time = timer'[t]
                                        /\ \A t \in TimerName : time <= timer'[t]

SetTimer(t, time) == timer' = [timer EXCEPT ![t] = time] /\ UpdateMasterTimer

(* Mutant: the line is only ever raised.                                    *)
EvalInterruptRaises == clock_int_line' = (clock_int_line \/ EVENTS' \cap CLOCK_INTEN' # {})

(* nrf_clock_eval_interrupt(): the level of the interrupt line.             *)
EvalInterrupt == clock_int_line' = (EVENTS' \cap CLOCK_INTEN' # {})

(* nrf_clock_event_*(), up to where the PPI calls the tasks of the event.   *)
Signal(event, rest) ==
  /\ EVENTS' = EVENTS \cup ({event} \cap IntEvents)
  /\ UNCHANGED CLOCK_INTEN
  /\ EvalInterrupt
  /\ stack' = Append(stack, [event |-> event, rest |-> rest])

-----------------------------------------------------------------------------
(* Tasks, called by the software through their registers or by the PPI.     *)

Called(task) ==
  \/ Idle
  \/ /\ ~Idle /\ Len(stack) < MaxDepth
     /\ task \in Routes[stack[Len(stack)].event]

TASKS_LFCLKSTART ==
  /\ Called("LFCLKSTART")
  /\ LFCLKRUN' = TRUE
  /\ LF_Clock_state' = "Starting"
  /\ SetTimer("LF", now)
  /\ UNCHANGED <<now, hfVars, LFCLKSTAT, ctVars, intVars, stack>>

TASKS_LFCLKSTOP ==
  /\ Called("LFCLKSTOP")
  /\ LF_Clock_state \in {"Started", "Starting"}
  /\ LFCLKRUN' = FALSE
  /\ LF_Clock_state' = "Stopping"
  /\ SetTimer("LF", now)
  /\ UNCHANGED <<now, hfVars, LFCLKSTAT, ctVars, intVars, stack>>

TASKS_HFCLKSTART ==
  /\ Called("HFCLKSTART")
  /\ HF_Clock_state \in {"Stopped", "Stopping"}
  /\ HF_Clock_state' = "Starting"
  /\ HFCLKRUN' = TRUE
  /\ SetTimer("HF", now)
  /\ UNCHANGED <<now, HFCLKSTAT, lfVars, ctVars, intVars, stack>>

(* Mutant: the clock stops and no timer is set to say so.                   *)
TASKS_HFCLKSTOPUntimed ==
  /\ Called("HFCLKSTOP")
  /\ HF_Clock_state \in {"Started", "Starting"}
  /\ HFCLKRUN' = FALSE
  /\ HF_Clock_state' = "Stopping"
  /\ UNCHANGED <<now, timerVars, HFCLKSTAT, lfVars, ctVars, intVars, stack>>

TASKS_HFCLKSTOP ==
  /\ Called("HFCLKSTOP")
  /\ HF_Clock_state \in {"Started", "Starting"}
  /\ HFCLKRUN' = FALSE
  /\ HF_Clock_state' = "Stopping"
  /\ SetTimer("HF", now)
  /\ UNCHANGED <<now, HFCLKSTAT, lfVars, ctVars, intVars, stack>>

TASKS_CAL ==
  /\ Called("CAL")
  /\ SetTimer("cal", now)
  /\ UNCHANGED <<now, hfVars, lfVars, ctVars, intVars, stack>>

(* Started again, the calibration timer goes on and the event comes.        *)
TASKS_CTSTART ==
  /\ Called("CTSTART")
  /\ IF caltimer_state = "Started"
       THEN UNCHANGED <<timerVars, caltimer_state>>
       ELSE caltimer_state' = "Started" /\ SetTimer("caltimer", now + CTIV)
  /\ Signal("CTSTARTED", "nothing")
  /\ UNCHANGED <<now, hfVars, lfVars, CTIV>>

(* Mutant: the state is not reset with the timer.                           *)
TASKS_CTSTOPTimerOnly ==
  /\ Called("CTSTOP")
  /\ SetTimer("caltimer", TIME_NEVER)
  /\ Signal("CTSTOPPED", "nothing")
  /\ UNCHANGED <<now, hfVars, lfVars, ctVars>>

TASKS_CTSTOP ==
  /\ Called("CTSTOP")
  /\ caltimer_state' = "Stopped"
  /\ SetTimer("caltimer", TIME_NEVER)
  /\ Signal("CTSTOPPED", "nothing")
  /\ UNCHANGED <<now, hfVars, lfVars, CTIV>>

-----------------------------------------------------------------------------
(* The other register writes of the software.                               *)

WriteCTIV ==
  /\ Idle
  /\ CTIV' \in 0 .. CtivMax
  /\ UNCHANGED <<now, timerVars, hfVars, lfVars, caltimer_state, intVars, stack>>

WriteINTENSET(event) ==
  /\ Idle
  /\ CLOCK_INTEN' = CLOCK_INTEN \cup {event}
  /\ UNCHANGED EVENTS
  /\ EvalInterrupt
  /\ UNCHANGED <<now, timerVars, hfVars, lfVars, ctVars, stack>>

WriteINTENCLR(event) ==
  /\ Idle
  /\ CLOCK_INTEN' = CLOCK_INTEN \ {event}
  /\ UNCHANGED EVENTS
  /\ EvalInterrupt
  /\ UNCHANGED <<now, timerVars, hfVars, lfVars, ctVars, stack>>

(* The software clears an event (nrf_clock_regw_sideeffects_EVENTS_all()).  *)
ClearEvent(event) ==
  /\ Idle
  /\ EVENTS' = EVENTS \ {event}
  /\ UNCHANGED CLOCK_INTEN
  /\ EvalInterrupt
  /\ UNCHANGED <<now, timerVars, hfVars, lfVars, ctVars, stack>>

-----------------------------------------------------------------------------
(* nrf_clock_timer_triggered(), when the event engine calls it: the first   *)
(* of HF, LF, calibration and calibration timer that is due.                *)

Triggered(t) ==
  /\ Idle /\ Timer_CLOCK = now /\ timer[t] = Timer_CLOCK
  /\ t \in {"LF", "cal", "caltimer"} => timer["HF"] # Timer_CLOCK
  /\ t \in {"cal", "caltimer"} => timer["LF"] # Timer_CLOCK
  /\ t = "caltimer" => timer["cal"] # Timer_CLOCK

(* nrf_clock_HFTimer_triggered().                                           *)
HFTimerTriggered ==
  /\ Triggered("HF")
  /\ CASE HF_Clock_state = "Starting" ->
            /\ HF_Clock_state' = "Started"
            /\ HFCLKSTAT' = TRUE
            /\ Signal("HFCLKSTARTED", "HFTimer")
            /\ UNCHANGED timerVars
       [] HF_Clock_state = "Stopping" ->
            /\ HF_Clock_state' = "Stopped"
            /\ HFCLKSTAT' = FALSE
            /\ SetTimer("HF", TIME_NEVER)
            /\ UNCHANGED <<intVars, stack>>
       [] OTHER ->
            /\ SetTimer("HF", TIME_NEVER)
            /\ UNCHANGED <<HF_Clock_state, HFCLKSTAT, intVars, stack>>
  /\ UNCHANGED <<now, HFCLKRUN, lfVars, ctVars>>

(* Mutant: the status stays up when the clock has stopped.                  *)
LFTimerTriggeredStatusStays ==
  /\ Triggered("LF")
  /\ IF LF_Clock_state = "Starting"
       THEN /\ LFCLKSTAT' = TRUE
            /\ Signal("LFCLKSTARTED", "LFTimer")
            /\ UNCHANGED <<timerVars, LF_Clock_state>>
       ELSE /\ LF_Clock_state' = "Stopped"
            /\ SetTimer("LF", TIME_NEVER)
            /\ UNCHANGED <<LFCLKSTAT, intVars, stack>>
  /\ UNCHANGED <<now, LFCLKRUN, hfVars, ctVars>>

(* nrf_clock_LFTimer_triggered(): a clock that starts stays "Starting".     *)
LFTimerTriggered ==
  /\ Triggered("LF")
  /\ CASE LF_Clock_state = "Starting" ->
            /\ LFCLKSTAT' = TRUE
            /\ Signal("LFCLKSTARTED", "LFTimer")
            /\ UNCHANGED <<timerVars, LF_Clock_state>>
       [] LF_Clock_state = "Stopping" ->
            /\ LF_Clock_state' = "Stopped"
            /\ LFCLKSTAT' = FALSE
            /\ SetTimer("LF", TIME_NEVER)
            /\ UNCHANGED <<intVars, stack>>
       [] OTHER ->
            /\ SetTimer("LF", TIME_NEVER)
            /\ UNCHANGED <<LF_Clock_state, LFCLKSTAT, intVars, stack>>
  /\ UNCHANGED <<now, LFCLKRUN, hfVars, ctVars>>

(* nrf_clock_LF_cal_triggered().                                            *)
LFCalTriggered ==
  /\ Triggered("cal")
  /\ SetTimer("cal", TIME_NEVER)
  /\ Signal("DONE", "nothing")
  /\ UNCHANGED <<now, hfVars, lfVars, ctVars>>

(* nrf_clock_caltimer_triggered().                                          *)
CaltimerTriggered ==
  /\ Triggered("caltimer")
  /\ caltimer_state' = "Stopped"
  /\ SetTimer("caltimer", TIME_NEVER)
  /\ Signal("CTTO", "nothing")
  /\ UNCHANGED <<now, hfVars, lfVars, CTIV>>

(* The PPI is done with an event: the handler that signalled it continues.  *)
Return ==
  /\ ~Idle
  /\ LET rest == stack[Len(stack)].rest
     IN  CASE rest = "HFTimer" -> SetTimer("HF", TIME_NEVER)
           [] rest = "LFTimer" -> SetTimer("LF", TIME_NEVER)
           [] OTHER -> UNCHANGED timerVars
  /\ stack' = SubSeq(stack, 1, Len(stack) - 1)
  /\ UNCHANGED <<now, hfVars, lfVars, ctVars, intVars>>

(* External: time advances to the next unit when nothing is due before.     *)
AdvanceTime ==
  /\ Idle /\ Timer_CLOCK # now /\ now < Horizon
  /\ now' = now + 1
  /\ UNCHANGED <<timerVars, hfVars, lfVars, ctVars, intVars, stack>>

-----------------------------------------------------------------------------
Tasks ==
  \/ TASKS_LFCLKSTART \/ TASKS_LFCLKSTOP \/ TASKS_HFCLKSTART \/ TASKS_HFCLKSTOP
  \/ TASKS_CAL \/ TASKS_CTSTART \/ TASKS_CTSTOP

Next ==
  \/ Tasks
  \/ WriteCTIV
  \/ \E event \in IntEvents :
        WriteINTENSET(event) \/ WriteINTENCLR(event) \/ ClearEvent(event)
  \/ HFTimerTriggered \/ LFTimerTriggered \/ LFCalTriggered \/ CaltimerTriggered
  \/ Return
  \/ AdvanceTime

Spec == Init /\ [][Next]_vars

-----------------------------------------------------------------------------
(* Properties.                                                              *)

(* The interrupt line says whether an enabled event is raised, after any    *)
(* mix of events, of register writes and of tasks the PPI called meanwhile. *)
LineFollowsEvents == clock_int_line <=> EVENTS \cap CLOCK_INTEN # {}

(* The event engine knows the earliest of the four timers whenever it looks *)
(* at it, and no one of them is ever left behind.                           *)
MasterTimerIsFirst ==
  /\ Idle => /\ \E t \in TimerName : Timer_CLOCK = timer[t]
             /\ \A t \in TimerName : Timer_CLOCK <= timer[t]
  /\ \A t \in TimerName : now <= timer[t]

(* The calibration timer runs exactly when its timer is armed: the          *)
(* "programming error" of nrf_clock_caltimer_triggered() does not occur.    *)
CaltimerRunsWhenArmed == caltimer_state = "Started" <=> timer["caltimer"] # TIME_NEVER

(* The status registers agree with the state of the clocks.                 *)
StatusFollowsState ==
  /\ HFCLKRUN <=> HF_Clock_state \in {"Starting", "Started"}
  /\ LFCLKRUN <=> LF_Clock_state \in {"Starting", "Started"}
  /\ HF_Clock_state = "Started" => HFCLKSTAT
  /\ HF_Clock_state = "Stopped" => ~HFCLKSTAT
  /\ LF_Clock_state = "Stopped" => ~LFCLKSTAT

(* NRF_CLOCK.c on HFCLKSTART and HFCLKSTOP: "we assume the clock is ready   *)
(* in 1 delta", "we assume the clock is stopped in 1 delta": a clock on its *)
(* way is in one of the next delta cycles of this time.                     *)
HfSettlesInOneDelta ==
  Idle /\ HF_Clock_state \in {"Starting", "Stopping"} => timer["HF"] = now

(* The same of LFCLKSTOP, "we assume the clock is stopped in 1 delta".  (An *)
(* LF clock that has started stays "Starting": its handler never says       *)
(* "Started", and LFCLKSTOP takes both for running.)                        *)
LfStopsInOneDelta == Idle /\ LF_Clock_state = "Stopping" => timer["LF"] = now

(* Both: a clock on its way arrives in this very microsecond, and is never  *)
(* left half way by a nested call.  This is of a PPI that does not lead, by *)
(* whatever chain of events and tasks, from the event of a clock that has   *)
(* started to the stop of that same clock; each conjunct is false of a PPI  *)
(* that does, as the timer is turned off after the event.                   *)
ClocksSettleInOneDelta == HfSettlesInOneDelta /\ LfStopsInOneDelta
=============================================================================
