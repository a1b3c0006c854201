---------------------------- MODULE OneShotProofs ----------------------------
(***************************************************************************)
(* The peripherals in which a task starts something that a timer ends: the *)
(* clocks (Clock), the flash (Nvmc) and the small peripherals              *)
(* (SmallPeripherals), for any times, any routes of the PPI and any writes *)
(* of the software.                                                        *)
(***************************************************************************)
EXTENDS Clock, Nvmc, SmallPeripherals, SequenceTheorems, TLAPS


-----------------------------------------------------------------------------
(* The clock control, for every depth of nested events.                      *)

(* The types that the invariants need.                                      *)

Typed ==
  /\ now \in Nat /\ now <= Horizon
  /\ timer \in [TimerName -> Nat]
  /\ \A t \in TimerName : timer[t] <= TIME_NEVER
  /\ CTIV \in Nat /\ CTIV <= CtivMax
  /\ caltimer_state \in {"Stopped", "Started"}

(* The constants are natural numbers, and no calibration ends at "never".   *)
LEMMA Bounds == /\ Horizon \in Nat /\ CtivMax \in Nat /\ TIME_NEVER \in Nat
                /\ \A t, c \in Nat : t <= Horizon /\ c <= CtivMax => t + c < TIME_NEVER
BY BoundAssumption DEF TIME_NEVER

(* Every change of a timer is one of these, and the engine is told.         *)
LEMMA TimerChange ==
  ASSUME Typed, Next
  PROVE  \/ UNCHANGED timerVars /\ UNCHANGED caltimer_state
         \/ /\ \E t \in TimerName \ {"caltimer"}, time \in {now, TIME_NEVER} : SetTimer(t, time)
            /\ UNCHANGED caltimer_state
         \/ SetTimer("caltimer", now + CTIV) /\ caltimer_state' = "Started"
         \/ SetTimer("caltimer", TIME_NEVER) /\ caltimer_state' = "Stopped"
<1> USE DEF ctVars, TimerName
<1>1. CASE Tasks
  <2>1. CASE TASKS_CTSTART
    BY <2>1 DEF TASKS_CTSTART
  <2>2. CASE TASKS_CTSTOP
    BY <2>2 DEF TASKS_CTSTOP
  <2>3. CASE TASKS_LFCLKSTART \/ TASKS_LFCLKSTOP
    BY <2>3 DEF TASKS_LFCLKSTART, TASKS_LFCLKSTOP
  <2>4. CASE TASKS_HFCLKSTART \/ TASKS_HFCLKSTOP
    BY <2>4 DEF TASKS_HFCLKSTART, TASKS_HFCLKSTOP
  <2>5. CASE TASKS_CAL
    BY <2>5 DEF TASKS_CAL
  <2> QED BY <1>1, <2>1, <2>2, <2>3, <2>4, <2>5 DEF Tasks
<1>2. CASE WriteCTIV
  BY <1>2 DEF WriteCTIV
<1>3. ASSUME NEW event \in IntEvents,
             WriteINTENSET(event) \/ WriteINTENCLR(event) \/ ClearEvent(event)
      PROVE  UNCHANGED timerVars /\ UNCHANGED caltimer_state
  BY <1>3 DEF WriteINTENSET, WriteINTENCLR, ClearEvent
<1>4. CASE HFTimerTriggered
  BY <1>4 DEF HFTimerTriggered
<1>5. CASE LFTimerTriggered
  BY <1>5 DEF LFTimerTriggered
<1>6. CASE LFCalTriggered
  BY <1>6 DEF LFCalTriggered
<1>7. CASE CaltimerTriggered
  BY <1>7 DEF CaltimerTriggered
<1>8. CASE Return
  <2> DEFINE rest == stack[Len(stack)].rest
  <2>1. /\ UNCHANGED ctVars
        /\ CASE rest = "HFTimer" -> SetTimer("HF", TIME_NEVER)
             [] rest = "LFTimer" -> SetTimer("LF", TIME_NEVER)
             [] OTHER -> UNCHANGED timerVars
    BY <1>8 DEF Return
  <2> QED BY <2>1
<1>9. CASE AdvanceTime
  BY <1>9 DEF AdvanceTime
<1> QED BY <1>1, <1>2, <1>3, <1>4, <1>5, <1>6, <1>7, <1>8, <1>9 DEF Next

(* The time and CTIV stay within their bounds.                              *)
LEMMA TimeStep ==
  ASSUME Typed, [Next]_vars
  PROVE  /\ now' \in Nat /\ now' <= Horizon
         /\ CTIV' \in Nat /\ CTIV' <= CtivMax
         /\ now' = now \/ AdvanceTime
<1> USE Bounds DEF Typed, ctVars
<1>1. CASE WriteCTIV
  BY <1>1 DEF WriteCTIV
<1>2. CASE AdvanceTime
  BY <1>2 DEF AdvanceTime
<1>3. ASSUME Next, ~WriteCTIV, ~AdvanceTime PROVE UNCHANGED <<now, CTIV>>
  BY <1>3 DEF Next, Tasks, TASKS_LFCLKSTART, TASKS_LFCLKSTOP, TASKS_HFCLKSTART, TASKS_HFCLKSTOP,
     TASKS_CAL, TASKS_CTSTART, TASKS_CTSTOP, WriteINTENSET, WriteINTENCLR, ClearEvent,
     HFTimerTriggered, LFTimerTriggered, LFCalTriggered, CaltimerTriggered, Return
<1>4. CASE UNCHANGED vars
  BY <1>4 DEF vars
<1> QED BY <1>1, <1>2, <1>3, <1>4

-----------------------------------------------------------------------------
(* The timers.  The engine knows the earliest one between all the steps,    *)
(* not only when it looks: that is what is inductive.                       *)

MasterIsMinimum ==
  /\ \E t \in TimerName : Timer_CLOCK = timer[t]
  /\ \A t \in TimerName : Timer_CLOCK <= timer[t]

(* nrf_clock_update_master_timer() finds the earliest of the four.          *)
LEMMA MasterUpdated ==
  ASSUME timer' \in [TimerName -> Time], UpdateMasterTimer
  PROVE  MasterIsMinimum'
<1>1. \E time \in Time : /\ \E t \in TimerName : time = timer'[t]
                         /\ \A t \in TimerName : time <= timer'[t]
  BY Bounds DEF TimerName, Time
<1> QED BY <1>1 DEF UpdateMasterTimer, MasterIsMinimum

TimerInv == /\ Typed
            /\ MasterIsMinimum
            /\ \A t \in TimerName : now <= timer[t]
            /\ CaltimerRunsWhenArmed

(* Setting a timer from now on keeps what is said of the timers.            *)
LEMMA SetTimerKeeps ==
  ASSUME TimerInv, NEW t \in TimerName, NEW time \in Nat, SetTimer(t, time),
         now <= time, time <= TIME_NEVER
  PROVE  /\ timer' \in [TimerName -> Nat]
         /\ \A u \in TimerName : timer'[u] <= TIME_NEVER /\ now <= timer'[u]
         /\ timer'[t] = time /\ \A u \in TimerName \ {t} : timer'[u] = timer[u]
         /\ MasterIsMinimum'
<1>1. /\ timer' = [timer EXCEPT ![t] = time] /\ UpdateMasterTimer
  BY DEF SetTimer
<1>2. /\ timer' \in [TimerName -> Nat]
      /\ \A u \in TimerName : timer'[u] <= TIME_NEVER /\ now <= timer'[u]
      /\ timer'[t] = time /\ \A u \in TimerName \ {t} : timer'[u] = timer[u]
  BY <1>1 DEF TimerInv, Typed
<1>3. timer' \in [TimerName -> Time]
  BY <1>2, Bounds DEF Time
<1> QED BY <1>1, <1>2, <1>3, MasterUpdated

(* Every step keeps the four timers and the one of the engine in order.     *)
LEMMA TimerStep == TimerInv /\ [Next]_vars => TimerInv'
<1> SUFFICES ASSUME TimerInv, [Next]_vars PROVE TimerInv'
  OBVIOUS
<1>1. /\ now' \in Nat /\ now' <= Horizon
      /\ CTIV' \in Nat /\ CTIV' <= CtivMax
      /\ now' = now \/ AdvanceTime
  BY TimeStep DEF TimerInv
<1>2. now <= TIME_NEVER /\ now \in Nat /\ now < TIME_NEVER
  BY Bounds DEF TimerInv, Typed, TIME_NEVER
<1>3. "caltimer" \in TimerName
  BY DEF TimerName
<1>4. ASSUME timer' \in [TimerName -> Nat],
             \A u \in TimerName : timer'[u] <= TIME_NEVER /\ now' <= timer'[u],
             MasterIsMinimum', caltimer_state' \in {"Stopped", "Started"},
             CaltimerRunsWhenArmed'
      PROVE  TimerInv'
  BY <1>1, <1>4 DEF TimerInv, Typed
<1>5. CASE AdvanceTime
  <2>1. /\ Timer_CLOCK # now /\ now' = now + 1
        /\ UNCHANGED <<timer, Timer_CLOCK, caltimer_state>>
    BY <1>5 DEF AdvanceTime, timerVars, ctVars
  <2>2. \A u \in TimerName : now + 1 <= timer[u]
    BY <1>2, <2>1 DEF TimerInv, Typed, MasterIsMinimum
  <2> QED BY <1>4, <2>1, <2>2 DEF TimerInv, Typed, MasterIsMinimum, CaltimerRunsWhenArmed
<1>6. ASSUME now' = now, UNCHANGED timerVars, UNCHANGED caltimer_state PROVE TimerInv'
  BY <1>4, <1>6 DEF timerVars, TimerInv, Typed, MasterIsMinimum, CaltimerRunsWhenArmed
<1>7. ASSUME now' = now, NEW t \in TimerName \ {"caltimer"}, NEW time \in {now, TIME_NEVER},
             SetTimer(t, time), UNCHANGED caltimer_state
      PROVE  TimerInv'
  <2>1. time \in Nat /\ now <= time /\ time <= TIME_NEVER
    BY <1>2, Bounds
  <2> QED BY <1>3, <1>4, <1>7, <2>1, SetTimerKeeps DEF TimerInv, Typed, CaltimerRunsWhenArmed
<1>8. ASSUME now' = now, SetTimer("caltimer", now + CTIV), caltimer_state' = "Started"
      PROVE  TimerInv'
  <2>1. now + CTIV \in Nat /\ now <= now + CTIV /\ now + CTIV < TIME_NEVER
    BY Bounds DEF TimerInv, Typed
  <2> QED BY <1>3, <1>4, <1>8, <2>1, SetTimerKeeps, Bounds DEF CaltimerRunsWhenArmed
<1>9. ASSUME now' = now, SetTimer("caltimer", TIME_NEVER), caltimer_state' = "Stopped"
      PROVE  TimerInv'
  BY <1>2, <1>3, <1>4, <1>9, SetTimerKeeps, Bounds DEF CaltimerRunsWhenArmed
<1>10. CASE Next
  BY <1>1, <1>5, <1>6, <1>7, <1>8, <1>9, <1>10, TimerChange DEF TimerInv
<1>11. CASE UNCHANGED vars
  BY <1>6, <1>11 DEF vars, timerVars, ctVars
<1> QED BY <1>10, <1>11

(* The four timers and the one of the engine, in every state.               *)
LEMMA TimersInOrder == Spec => []TimerInv
<1>1. Init => TimerInv
  BY Bounds DEF Init, TimerInv, Typed, MasterIsMinimum, CaltimerRunsWhenArmed, TimerName
<1> QED BY <1>1, TimerStep, PTL DEF Spec

(* The event engine always knows the earliest of the clock's timers, and    *)
(* time passes none of them (nrf_clock_update_master_timer).                *)
THEOREM MasterTimerIsRight == Spec => []MasterTimerIsFirst
<1>1. TimerInv => MasterTimerIsFirst
  BY DEF TimerInv, MasterIsMinimum, MasterTimerIsFirst
<1> QED BY <1>1, TimersInOrder, PTL

(* The calibration timer is armed if and only if it runs: the programming   *)
(* error of nrf_clock_caltimer_triggered() cannot be reached.               *)
THEOREM CaltimerIsRight == Spec => []CaltimerRunsWhenArmed
<1>1. TimerInv => CaltimerRunsWhenArmed
  BY DEF TimerInv
<1> QED BY <1>1, TimersInOrder, PTL

-----------------------------------------------------------------------------
(* The interrupt line and the status registers.                             *)

(* No step changes the events or their enabling and leaves the line alone.  *)
LEMMA LineStep == LineFollowsEvents /\ [Next]_vars => LineFollowsEvents'
<1> SUFFICES ASSUME LineFollowsEvents, [Next]_vars PROVE LineFollowsEvents'
  OBVIOUS
<1>1. ASSUME EvalInterrupt PROVE LineFollowsEvents'
  BY <1>1 DEF EvalInterrupt, LineFollowsEvents
<1>2. ASSUME UNCHANGED intVars PROVE LineFollowsEvents'
  BY <1>2 DEF intVars, LineFollowsEvents
<1>3. CASE Tasks
  BY <1>1, <1>2, <1>3 DEF Tasks, TASKS_LFCLKSTART, TASKS_LFCLKSTOP, TASKS_HFCLKSTART,
     TASKS_HFCLKSTOP, TASKS_CAL, TASKS_CTSTART, TASKS_CTSTOP, Signal
<1>4. ASSUME NEW event \in IntEvents,
             WriteINTENSET(event) \/ WriteINTENCLR(event) \/ ClearEvent(event)
      PROVE  LineFollowsEvents'
  BY <1>1, <1>4 DEF WriteINTENSET, WriteINTENCLR, ClearEvent
<1>5. CASE HFTimerTriggered
  BY <1>1, <1>2, <1>5 DEF HFTimerTriggered, Signal
<1>6. CASE LFTimerTriggered
  BY <1>1, <1>2, <1>6 DEF LFTimerTriggered, Signal
<1>7. CASE LFCalTriggered \/ CaltimerTriggered
  BY <1>1, <1>7 DEF LFCalTriggered, CaltimerTriggered, Signal
<1>8. CASE WriteCTIV \/ Return \/ AdvanceTime
  BY <1>2, <1>8 DEF WriteCTIV, Return, AdvanceTime
<1>9. CASE UNCHANGED vars
  BY <1>2, <1>9 DEF vars
<1> QED BY <1>3, <1>4, <1>5, <1>6, <1>7, <1>8, <1>9 DEF Next

(* The interrupt line of the clock always is the level of its events        *)
(* (nrf_clock_eval_interrupt).                                              *)
THEOREM LineIsRight == Spec => []LineFollowsEvents
<1>1. Init => LineFollowsEvents
  BY DEF Init, LineFollowsEvents
<1> QED BY <1>1, LineStep, PTL DEF Spec

(* Each step that changes the state of a clock changes its status with it.  *)
LEMMA StatusStep == StatusFollowsState /\ [Next]_vars => StatusFollowsState'
<1> SUFFICES ASSUME StatusFollowsState, [Next]_vars PROVE StatusFollowsState'
  OBVIOUS
<1>1. ASSUME UNCHANGED <<hfVars, lfVars>> PROVE StatusFollowsState'
  BY <1>1 DEF hfVars, lfVars, StatusFollowsState
<1>2. CASE TASKS_LFCLKSTART \/ TASKS_LFCLKSTOP
  BY <1>2 DEF TASKS_LFCLKSTART, TASKS_LFCLKSTOP, hfVars, StatusFollowsState
<1>3. CASE TASKS_HFCLKSTART \/ TASKS_HFCLKSTOP
  BY <1>3 DEF TASKS_HFCLKSTART, TASKS_HFCLKSTOP, lfVars, StatusFollowsState
<1>4. CASE HFTimerTriggered
  BY <1>4 DEF HFTimerTriggered, lfVars, StatusFollowsState
<1>5. CASE LFTimerTriggered
  BY <1>5 DEF LFTimerTriggered, hfVars, StatusFollowsState
<1>6. CASE \/ TASKS_CAL \/ TASKS_CTSTART \/ TASKS_CTSTOP \/ WriteCTIV
           \/ (\E event \in IntEvents :
                 WriteINTENSET(event) \/ WriteINTENCLR(event) \/ ClearEvent(event))
           \/ LFCalTriggered \/ CaltimerTriggered \/ Return \/ AdvanceTime \/ UNCHANGED vars
  BY <1>1, <1>6 DEF TASKS_CAL, TASKS_CTSTART, TASKS_CTSTOP, WriteCTIV, WriteINTENSET,
     WriteINTENCLR, ClearEvent, LFCalTriggered, CaltimerTriggered, Return, AdvanceTime, vars
<1> QED BY <1>2, <1>3, <1>4, <1>5, <1>6 DEF Next, Tasks

(* The status registers never contradict the state of the clocks.           *)
THEOREM StatusIsRight == Spec => []StatusFollowsState
<1>1. Init => StatusFollowsState
  BY DEF Init, StatusFollowsState
<1> QED BY <1>1, StatusStep, PTL DEF Spec

-----------------------------------------------------------------------------
(* The clocks on their way.                                                 *)

(* The events that may be under way, one in another, while the PPI serves  *)
(* "event": those of the tasks that it calls, and so on.  A set that holds *)
(* them all.                                                               *)
Encloses(S, event) ==
  /\ event \in S
  /\ \A e \in S : /\ "CTSTART" \in Routes[e] => "CTSTARTED" \in S
                  /\ "CTSTOP" \in Routes[e]  => "CTSTOPPED" \in S

(* The PPI calls "task" for "event", or for an event of a task that it     *)
(* calls meanwhile.                                                        *)
LeadsTo(event, task) == \A S \in SUBSET ClockEvent : Encloses(S, event) => \E e \in S : task \in Routes[e]

(* No event of a clock that has started stops that clock.                  *)
NoClockStopsItself == ~LeadsTo("HFCLKSTARTED", "HFCLKSTOP") /\ ~LeadsTo("LFCLKSTARTED", "LFCLKSTOP")

(* Out of the handler of its timer, a clock on its way has that timer set  *)
(* to now; in the middle of that handler no task stops it, because of the  *)
(* events under way, of which only the first has more to do than return.   *)
Suspended(rest, S) == stack # <<>> /\ stack[1].rest = rest => \A i \in 1 .. Len(stack) : stack[i].event \in S
SettleInv(H, L) ==
  /\ stack \in Seq([event : ClockEvent, rest : {"nothing", "HFTimer", "LFTimer"}])
  /\ \A i \in 2 .. Len(stack) : stack[i].rest = "nothing"
  /\ Suspended("HFTimer", H) /\ Suspended("LFTimer", L)
  /\ stack # <<>> /\ stack[1].rest = "HFTimer" => HF_Clock_state = "Started"
  /\ stack # <<>> /\ stack[1].rest = "LFTimer" => LF_Clock_state = "Starting"
  /\ HF_Clock_state \in {"Starting", "Stopping"} => timer["HF"] = now
  /\ LF_Clock_state = "Stopping" => timer["LF"] = now

Opaque(H, L) ==
  /\ Encloses(H, "HFCLKSTARTED") /\ \A e \in H : "HFCLKSTOP" \notin Routes[e]
  /\ Encloses(L, "LFCLKSTARTED") /\ \A e \in L : "LFCLKSTOP" \notin Routes[e]

(* A signal in the middle of a handler adds to what is under way an event  *)
(* that its sets of events hold.                                           *)
LEMMA SignalSettles ==
  ASSUME NEW H \in SUBSET ClockEvent, NEW L \in SUBSET ClockEvent, SettleInv(H, L),
         NEW event \in ClockEvent, NEW rest \in {"nothing", "HFTimer", "LFTimer"},
         stack' = Append(stack, [event |-> event, rest |-> rest]),
         stack # <<>> => rest = "nothing",
         stack = <<>> /\ rest = "HFTimer" => event \in H /\ HF_Clock_state' = "Started",
         stack = <<>> /\ rest = "LFTimer" => event \in L /\ LF_Clock_state' = "Starting",
         stack # <<>> /\ stack[1].rest = "HFTimer" => event \in H /\ HF_Clock_state' = "Started",
         stack # <<>> /\ stack[1].rest = "LFTimer" => event \in L /\ LF_Clock_state' = "Starting",
         HF_Clock_state' \in {"Starting", "Stopping"} => timer'["HF"] = now',
         LF_Clock_state' = "Stopping" => timer'["LF"] = now'
  PROVE  SettleInv(H, L)'
<1> DEFINE entry == [event |-> event, rest |-> rest]
           Entry == [event : ClockEvent, rest : {"nothing", "HFTimer", "LFTimer"}]
<1>1. stack \in Seq(Entry) /\ entry \in Entry
  BY DEF SettleInv
<1>2. /\ stack' \in Seq(Entry) /\ Len(stack') = Len(stack) + 1
      /\ \A i \in 1 .. Len(stack) : stack'[i] = stack[i]
      /\ stack'[Len(stack) + 1] = entry
  BY <1>1
<1>3. Len(stack) \in Nat /\ (stack = <<>> <=> Len(stack) = 0)
  BY <1>1
<1>4. stack' # <<>> /\ stack'[1] = IF stack = <<>> THEN entry ELSE stack[1]
  BY <1>2, <1>3
<1>5. \A i \in 2 .. Len(stack') : stack'[i].rest = "nothing"
  BY <1>2, <1>3 DEF SettleInv
<1>6. ASSUME NEW r \in {"HFTimer", "LFTimer"}, NEW S, Suspended(r, S),
             stack'[1].rest = r => event \in S
      PROVE  Suspended(r, S)'
  BY <1>2, <1>3, <1>4, <1>6 DEF Suspended
<1>7. Suspended("HFTimer", H)' /\ Suspended("LFTimer", L)'
  BY <1>4, <1>6 DEF SettleInv
<1> QED BY <1>2, <1>4, <1>5, <1>7 DEF SettleInv

(* A step that neither signals nor returns.                                *)
LEMMA QuietSettles ==
  ASSUME NEW H, NEW L, SettleInv(H, L), stack' = stack,
         stack # <<>> /\ stack[1].rest = "HFTimer" => HF_Clock_state' = "Started",
         stack # <<>> /\ stack[1].rest = "LFTimer" => LF_Clock_state' = "Starting",
         HF_Clock_state' \in {"Starting", "Stopping"} => timer'["HF"] = now',
         LF_Clock_state' = "Stopping" => timer'["LF"] = now'
  PROVE  SettleInv(H, L)'
BY DEF SettleInv, Suspended

(* The tasks that the PPI calls are those of the event it serves.          *)
LEMMA CalledInside ==
  ASSUME NEW H \in SUBSET ClockEvent, NEW L \in SUBSET ClockEvent, Opaque(H, L), SettleInv(H, L),
         NEW task, Called(task), stack # <<>>
  PROVE  /\ stack[1].rest = "HFTimer" => /\ task # "HFCLKSTOP"
                                         /\ task = "CTSTART" => "CTSTARTED" \in H
                                         /\ task = "CTSTOP" => "CTSTOPPED" \in H
         /\ stack[1].rest = "LFTimer" => /\ task # "LFCLKSTOP"
                                         /\ task = "CTSTART" => "CTSTARTED" \in L
                                         /\ task = "CTSTOP" => "CTSTOPPED" \in L
<1>1. task \in Routes[stack[Len(stack)].event]
  BY DEF Called, Idle
<1>2. Len(stack) \in 1 .. Len(stack)
  BY DEF SettleInv
<1>3. stack[1].rest = "HFTimer" => stack[Len(stack)].event \in H
  BY <1>2 DEF SettleInv, Suspended
<1>4. stack[1].rest = "LFTimer" => stack[Len(stack)].event \in L
  BY <1>2 DEF SettleInv, Suspended
<1> QED BY <1>1, <1>3, <1>4 DEF Opaque, Encloses

(* Setting a timer.                                                        *)
LEMMA TimerIsSet ==
  ASSUME Typed, NEW t \in TimerName, NEW time, SetTimer(t, time)
  PROVE  timer'[t] = time /\ \A u \in TimerName \ {t} : timer'[u] = timer[u]
BY DEF Typed, SetTimer

LEMMA SettleStep ==
  ASSUME NEW H \in SUBSET ClockEvent, NEW L \in SUBSET ClockEvent, Opaque(H, L),
         TimerInv, SettleInv(H, L), [Next]_vars
  PROVE  SettleInv(H, L)'
<1> USE DEF hfVars, lfVars, ctVars, timerVars
<1>a. Typed /\ "HF" \in TimerName /\ "LF" \in TimerName /\ "cal" \in TimerName /\ "caltimer" \in TimerName
  BY DEF TimerInv, TimerName
<1>b. /\ HF_Clock_state \in {"Starting", "Stopping"} => timer["HF"] = now
      /\ LF_Clock_state = "Stopping" => timer["LF"] = now
      /\ stack # <<>> /\ stack[1].rest = "HFTimer" => HF_Clock_state = "Started"
      /\ stack # <<>> /\ stack[1].rest = "LFTimer" => LF_Clock_state = "Starting"
  BY DEF SettleInv
<1>1. CASE TASKS_LFCLKSTART
  <2>1. timer'["HF"] = timer["HF"]
    BY <1>1, <1>a, TimerIsSet DEF TASKS_LFCLKSTART
  <2> QED BY <1>1, <1>b, <2>1, QuietSettles DEF TASKS_LFCLKSTART
<1>2. CASE TASKS_LFCLKSTOP
  <2>1. timer'["HF"] = timer["HF"] /\ timer'["LF"] = now
    BY <1>2, <1>a, TimerIsSet DEF TASKS_LFCLKSTOP
  <2>2. ~(stack # <<>> /\ stack[1].rest = "LFTimer")
    BY <1>2, CalledInside DEF TASKS_LFCLKSTOP
  <2> QED BY <1>2, <1>b, <2>1, <2>2, QuietSettles DEF TASKS_LFCLKSTOP
<1>3. CASE TASKS_HFCLKSTART
  <2>1. timer'["LF"] = timer["LF"] /\ timer'["HF"] = now
    BY <1>3, <1>a, TimerIsSet DEF TASKS_HFCLKSTART
  <2> QED BY <1>3, <1>b, <2>1, QuietSettles DEF TASKS_HFCLKSTART
<1>4. CASE TASKS_HFCLKSTOP
  <2>1. timer'["LF"] = timer["LF"] /\ timer'["HF"] = now
    BY <1>4, <1>a, TimerIsSet DEF TASKS_HFCLKSTOP
  <2>2. ~(stack # <<>> /\ stack[1].rest = "HFTimer")
    BY <1>4, CalledInside DEF TASKS_HFCLKSTOP
  <2> QED BY <1>4, <1>b, <2>1, <2>2, QuietSettles DEF TASKS_HFCLKSTOP
<1>5. CASE TASKS_CAL
  <2>1. timer'["LF"] = timer["LF"] /\ timer'["HF"] = timer["HF"]
    BY <1>5, <1>a, TimerIsSet DEF TASKS_CAL
  <2> QED BY <1>5, <1>b, <2>1, QuietSettles DEF TASKS_CAL
<1>6. CASE TASKS_CTSTART
  <2>1. timer'["LF"] = timer["LF"] /\ timer'["HF"] = timer["HF"]
    BY <1>6, <1>a, TimerIsSet DEF TASKS_CTSTART
  <2>2. /\ stack # <<>> /\ stack[1].rest = "HFTimer" => "CTSTARTED" \in H
        /\ stack # <<>> /\ stack[1].rest = "LFTimer" => "CTSTARTED" \in L
    BY <1>6, CalledInside DEF TASKS_CTSTART
  <2>3. stack' = Append(stack, [event |-> "CTSTARTED", rest |-> "nothing"]) /\ "CTSTARTED" \in ClockEvent
    BY <1>6 DEF TASKS_CTSTART, Signal, ClockEvent
  <2>4. now' = now /\ UNCHANGED <<HF_Clock_state, LF_Clock_state>>
    BY <1>6 DEF TASKS_CTSTART
  <2> QED BY <1>b, <2>1, <2>2, <2>3, <2>4, SignalSettles
<1>7. CASE TASKS_CTSTOP
  <2>1. timer'["LF"] = timer["LF"] /\ timer'["HF"] = timer["HF"]
    BY <1>7, <1>a, TimerIsSet DEF TASKS_CTSTOP
  <2>2. /\ stack # <<>> /\ stack[1].rest = "HFTimer" => "CTSTOPPED" \in H
        /\ stack # <<>> /\ stack[1].rest = "LFTimer" => "CTSTOPPED" \in L
    BY <1>7, CalledInside DEF TASKS_CTSTOP
  <2>3. stack' = Append(stack, [event |-> "CTSTOPPED", rest |-> "nothing"]) /\ "CTSTOPPED" \in ClockEvent
    BY <1>7 DEF TASKS_CTSTOP, Signal, ClockEvent
  <2>4. now' = now /\ UNCHANGED <<HF_Clock_state, LF_Clock_state>>
    BY <1>7 DEF TASKS_CTSTOP
  <2> QED BY <1>b, <2>1, <2>2, <2>3, <2>4, SignalSettles
<1>8. CASE HFTimerTriggered
  <2>1. stack = <<>> /\ now' = now /\ UNCHANGED LF_Clock_state
    BY <1>8 DEF HFTimerTriggered, Triggered, Idle
  <2>2. CASE HF_Clock_state = "Starting"
    <3>1. /\ HF_Clock_state' = "Started" /\ UNCHANGED timer
          /\ stack' = Append(stack, [event |-> "HFCLKSTARTED", rest |-> "HFTimer"])
      BY <1>8, <2>2 DEF HFTimerTriggered, Signal
    <3>2. "HFCLKSTARTED" \in H /\ "HFCLKSTARTED" \in ClockEvent
      BY DEF Opaque, Encloses, ClockEvent
    <3> QED BY <1>b, <2>1, <3>1, <3>2, SignalSettles
  <2>3. CASE HF_Clock_state # "Starting"
    <3>1. /\ SetTimer("HF", TIME_NEVER) /\ UNCHANGED stack
          /\ HF_Clock_state' \notin {"Starting", "Stopping"}
      BY <1>8, <2>3 DEF HFTimerTriggered
    <3>2. timer'["LF"] = timer["LF"]
      BY <1>a, <3>1, TimerIsSet
    <3> QED BY <1>b, <2>1, <3>1, <3>2, QuietSettles
  <2> QED BY <2>2, <2>3
<1>9. CASE LFTimerTriggered
  <2>1. stack = <<>> /\ now' = now /\ UNCHANGED HF_Clock_state
    BY <1>9 DEF LFTimerTriggered, Triggered, Idle
  <2>2. CASE LF_Clock_state = "Starting"
    <3>1. /\ UNCHANGED <<timer, LF_Clock_state>>
          /\ stack' = Append(stack, [event |-> "LFCLKSTARTED", rest |-> "LFTimer"])
      BY <1>9, <2>2 DEF LFTimerTriggered, Signal
    <3>2. "LFCLKSTARTED" \in L /\ "LFCLKSTARTED" \in ClockEvent
      BY DEF Opaque, Encloses, ClockEvent
    <3> QED BY <1>b, <2>1, <2>2, <3>1, <3>2, SignalSettles
  <2>3. CASE LF_Clock_state # "Starting"
    <3>1. /\ SetTimer("LF", TIME_NEVER) /\ UNCHANGED stack
          /\ LF_Clock_state' # "Stopping"
      BY <1>9, <2>3 DEF LFTimerTriggered
    <3>2. timer'["HF"] = timer["HF"]
      BY <1>a, <3>1, TimerIsSet
    <3> QED BY <1>b, <2>1, <3>1, <3>2, QuietSettles
  <2> QED BY <2>2, <2>3
<1>10. CASE LFCalTriggered
  <2>1. /\ stack = <<>> /\ now' = now /\ UNCHANGED <<HF_Clock_state, LF_Clock_state>>
        /\ SetTimer("cal", TIME_NEVER)
        /\ stack' = Append(stack, [event |-> "DONE", rest |-> "nothing"]) /\ "DONE" \in ClockEvent
    BY <1>10 DEF LFCalTriggered, Triggered, Idle, Signal, ClockEvent
  <2>2. timer'["LF"] = timer["LF"] /\ timer'["HF"] = timer["HF"]
    BY <1>a, <2>1, TimerIsSet
  <2> QED BY <1>b, <2>1, <2>2, SignalSettles
<1>11. CASE CaltimerTriggered
  <2>1. /\ stack = <<>> /\ now' = now /\ UNCHANGED <<HF_Clock_state, LF_Clock_state>>
        /\ SetTimer("caltimer", TIME_NEVER)
        /\ stack' = Append(stack, [event |-> "CTTO", rest |-> "nothing"]) /\ "CTTO" \in ClockEvent
    BY <1>11 DEF CaltimerTriggered, Triggered, Idle, Signal, ClockEvent
  <2>2. timer'["LF"] = timer["LF"] /\ timer'["HF"] = timer["HF"]
    BY <1>a, <2>1, TimerIsSet
  <2> QED BY <1>b, <2>1, <2>2, SignalSettles
<1>12. CASE Return
  <2> DEFINE Entry == [event : ClockEvent, rest : {"nothing", "HFTimer", "LFTimer"}]
             n == Len(stack)
             rest == stack[n].rest
  <2>1. /\ stack # <<>> /\ stack' = SubSeq(stack, 1, n - 1)
        /\ UNCHANGED <<now, HF_Clock_state, LF_Clock_state>>
        /\ CASE rest = "HFTimer" -> SetTimer("HF", TIME_NEVER)
             [] rest = "LFTimer" -> SetTimer("LF", TIME_NEVER)
             [] OTHER -> UNCHANGED <<timer, Timer_CLOCK>>
    BY <1>12 DEF Return, Idle
  <2>2. stack \in Seq(Entry) /\ n \in Nat /\ n > 0
    BY <2>1 DEF SettleInv
  <2>3. /\ stack' \in Seq(Entry) /\ Len(stack') = n - 1
        /\ \A i \in 1 .. (n - 1) : stack'[i] = stack[i]
    <3> HIDE DEF Entry
    <3>1. \A i \in 1 .. (n - 1) : stack[i] \in Entry
      BY <2>2
    <3> HIDE DEF n
    <3> QED BY <2>1, <2>2, <3>1, SubSeqProperties
  <2>4. stack' # <<>> => n > 1 /\ stack'[1] = stack[1]
    BY <2>2, <2>3
  <2>5. \A i \in 2 .. Len(stack') : stack'[i].rest = "nothing"
    BY <2>2, <2>3 DEF SettleInv
  <2>6. ASSUME NEW r, NEW S, Suspended(r, S) PROVE Suspended(r, S)'
    BY <2>2, <2>3, <2>4, <2>6 DEF Suspended
  <2>7. n > 1 => rest = "nothing"
    BY <2>2 DEF SettleInv
  <2>8. /\ HF_Clock_state \in {"Starting", "Stopping"} => timer'["HF"] = now
        /\ LF_Clock_state = "Stopping" => timer'["LF"] = now
    <3>1. CASE rest = "HFTimer"
      <4>1. HF_Clock_state = "Started"
        BY <1>b, <2>1, <2>2, <2>7, <3>1
      <4>2. timer'["LF"] = timer["LF"]
        BY <1>a, <2>1, <3>1, TimerIsSet
      <4> QED BY <1>b, <4>1, <4>2
    <3>2. CASE rest = "LFTimer"
      <4>1. LF_Clock_state = "Starting"
        BY <1>b, <2>1, <2>2, <2>7, <3>2
      <4>2. timer'["HF"] = timer["HF"]
        BY <1>a, <2>1, <3>2, TimerIsSet
      <4> QED BY <1>b, <4>1, <4>2
    <3>3. CASE rest # "HFTimer" /\ rest # "LFTimer"
      BY <1>b, <2>1, <3>3
    <3> QED BY <3>1, <3>2, <3>3
  <2>9. Suspended("HFTimer", H)' /\ Suspended("LFTimer", L)'
    BY <2>6 DEF SettleInv
  <2> HIDE DEF rest, n
  <2> QED BY <1>b, <2>1, <2>3, <2>4, <2>5, <2>8, <2>9 DEF SettleInv
<1>13. CASE AdvanceTime
  <2>1. Timer_CLOCK # now /\ UNCHANGED <<timer, HF_Clock_state, LF_Clock_state, stack>>
    BY <1>13 DEF AdvanceTime
  <2>2. timer["HF"] # now /\ timer["LF"] # now
    BY <1>a, <2>1 DEF TimerInv, MasterIsMinimum, Typed
  <2> QED BY <1>b, <2>1, <2>2, QuietSettles
<1>14. CASE \/ WriteCTIV \/ UNCHANGED vars
            \/ \E event \in IntEvents : WriteINTENSET(event) \/ WriteINTENCLR(event) \/ ClearEvent(event)
  BY <1>b, <1>14, QuietSettles DEF WriteCTIV, WriteINTENSET, WriteINTENCLR, ClearEvent, vars
<1> QED BY <1>1, <1>2, <1>3, <1>4, <1>5, <1>6, <1>7, <1>8, <1>9, <1>10, <1>11, <1>12, <1>13, <1>14 DEF Next, Tasks

(* A clock on its way arrives in the same microsecond, if no event of a    *)
(* clock that has started leads the PPI to stop that clock (the comments   *)
(* of NRF_CLOCK.c: "in 1 delta").  Finding 2 is a route that does.         *)
THEOREM ClocksSettle == NoClockStopsItself => (Spec => []ClocksSettleInOneDelta)
<1> SUFFICES ASSUME NoClockStopsItself PROVE Spec => []ClocksSettleInOneDelta
  OBVIOUS
<1>1. PICK H \in SUBSET ClockEvent : Encloses(H, "HFCLKSTARTED") /\ \A e \in H : "HFCLKSTOP" \notin Routes[e]
  BY DEF NoClockStopsItself, LeadsTo
<1>2. PICK L \in SUBSET ClockEvent : Encloses(L, "LFCLKSTARTED") /\ \A e \in L : "LFCLKSTOP" \notin Routes[e]
  BY DEF NoClockStopsItself, LeadsTo
<1>3. Opaque(H, L)
  BY <1>1, <1>2 DEF Opaque
<1>4. Init => SettleInv(H, L)
  BY DEF Init, SettleInv, Suspended
<1>5. TimerInv /\ SettleInv(H, L) /\ [Next]_vars => SettleInv(H, L)'
  BY <1>3, SettleStep
<1>6. SettleInv(H, L) => ClocksSettleInOneDelta
  BY DEF SettleInv, ClocksSettleInOneDelta, HfSettlesInOneDelta, LfStopsInOneDelta
<1> QED BY <1>4, <1>5, <1>6, TimersInOrder, PTL DEF Spec

-----------------------------------------------------------------------------
(* The erases of the flash: what is erased was accepted and ran for its      *)
(* time, and partial erases add up.                                         *)

(* A write clears bits: it erases nothing.                                 *)
LEMMA WrittenContents ==
  ASSUME NEW c \in Contents, NEW d \in Written(c)
  PROVE  /\ d \in Contents
         /\ d = "erased" => c = "erased"
BY DEF Contents, Written

-----------------------------------------------------------------------------
(* Types. *)

LEMMA AtBootType ==
  ASSUME NEW old \in [Storage -> Contents], NEW exited \in BOOLEAN
  PROVE  AtBoot(old, exited) \in [Storage -> Contents]
BY DEF AtBoot, Contents

LEMMA NvmcInitType == NvmcInit => NvmcTypeOK
<1> SUFFICES ASSUME NvmcInit PROVE NvmcTypeOK
  OBVIOUS
<1>1. content \in [Storage -> Contents]
  BY AtBootType DEF NvmcInit
<1>2. page_erased \in [FlashPages -> BOOLEAN] /\ overlooked \subseteq FlashPages
  BY DEF NvmcInit, IsErased, Overlooks
<1>3. erase_address \in FlashPages
  BY FlashPagesAssumption DEF NvmcInit
<1>4. partial \in [FlashPages -> 0 .. PageTime]
  BY FlashTimesAssumption DEF NvmcInit
<1> QED
  BY <1>1, <1>2, <1>3, <1>4 DEF NvmcInit, NvmcTypeOK, FLASH_NEVER

LEMMA NvmcStepType == NvmcTypeOK /\ [NvmcNext]_nvmcVars => NvmcTypeOK'
<1> SUFFICES ASSUME NvmcTypeOK, [NvmcNext]_nvmcVars PROVE NvmcTypeOK'
  OBVIOUS
<1> USE FlashTimesAssumption DEF NvmcTypeOK
<1>1. ASSUME NEW p \in FlashPages, ErasePage(p) PROVE NvmcTypeOK'
  BY <1>1 DEF ErasePage, Starts, flashOp, flashState, Storage
<1>2. ASSUME NEW p \in FlashPages, NEW d \in PartialTimes, ErasePagePartial(p, d)
      PROVE  NvmcTypeOK'
  <2>1. d \in Nat /\ PageTime \in Nat
    OBVIOUS
  <2>2. time_under_erase' \in [FlashPages -> Nat]
    BY <1>2, <2>1 DEF ErasePagePartial
  <2>3. partial' \in [FlashPages -> 0 .. PageTime]
    BY <1>2, <2>1 DEF ErasePagePartial, Least
  <2>4. accepted' \subseteq Storage
    BY <1>2 DEF ErasePagePartial, Starts, Storage
  <2> QED
    BY <1>2, <2>1, <2>2, <2>3, <2>4 DEF ErasePagePartial, Starts
<1>3. CASE EraseUicr
  BY <1>3 DEF EraseUicr, Starts, flashState, Storage
<1>4. CASE EraseAll
  BY <1>4 DEF EraseAll, Starts, flashState, Storage
<1>5. ASSUME NEW s \in Storage, NmvcWriteWord(s) PROVE NvmcTypeOK'
  <2>1. PICK d \in Written(content[s]) : content' = [content EXCEPT ![s] = d]
    BY <1>5 DEF NmvcWriteWord
  <2>2. content' \in [Storage -> Contents]
    BY <2>1, WrittenContents
  <2>3. partial' \in [FlashPages -> 0 .. PageTime]
    BY <1>5 DEF NmvcWriteWord
  <2> QED
    BY <1>5, <2>2, <2>3 DEF NmvcWriteWord, Starts
<1>6. CASE NvmcTimerTriggered
  BY <1>6 DEF NvmcTimerTriggered, Contents, FLASH_NEVER
<1>7. CASE NvmcTick
  BY <1>7 DEF NvmcTick, flashState, FLASH_NEVER
<1>8. CASE SoftwareConfigNvmc
  BY <1>8 DEF SoftwareConfigNvmc, flashState, flashOp
<1>9. ASSUME NEW exited \in BOOLEAN, Restart(exited) PROVE NvmcTypeOK'
  <2>1. content' \in [Storage -> Contents]
    BY <1>9, AtBootType DEF Restart
  <2>2. page_erased' \in [FlashPages -> BOOLEAN] /\ overlooked' \subseteq FlashPages
    BY <1>9 DEF Restart, IsErased, Overlooks
  <2> QED
    BY <1>9, <2>1, <2>2 DEF Restart, FLASH_NEVER
<1>10. CASE UNCHANGED nvmcVars
  BY <1>10 DEF nvmcVars, flashState, flashOp
<1> QED
  BY <1>1, <1>2, <1>3, <1>4, <1>5, <1>6, <1>7, <1>8, <1>9, <1>10 DEF NvmcNext

(* The variables of the controller keep their types.                       *)
THEOREM NvmcTypeCorrect == NvmcSpec => []NvmcTypeOK
<1>1. NvmcInit => NvmcTypeOK
  BY NvmcInitType
<1>2. NvmcTypeOK /\ [NvmcNext]_nvmcVars => NvmcTypeOK'
  BY NvmcStepType
<1> QED
  BY <1>1, <1>2, PTL DEF NvmcSpec

-----------------------------------------------------------------------------
(* What ends was accepted: what the operation under way will erase is what *)
(* the auxiliary variable says.                                            *)
CompletesTheAccepted == Completed \subseteq accepted

LEMMA AcceptedInit == NvmcInit => CompletesTheAccepted
BY DEF NvmcInit, CompletesTheAccepted, Completed

LEMMA AcceptedStep ==
  NvmcTypeOK /\ CompletesTheAccepted /\ [NvmcNext]_nvmcVars => CompletesTheAccepted'
<1> SUFFICES ASSUME NvmcTypeOK, CompletesTheAccepted, [NvmcNext]_nvmcVars
             PROVE  CompletesTheAccepted'
  OBVIOUS
<1> USE DEF CompletesTheAccepted, Completed
<1>1. ASSUME NEW p \in FlashPages, ErasePage(p) PROVE CompletesTheAccepted'
  BY <1>1 DEF ErasePage, Starts, flashOp, flashState
<1>2. ASSUME NEW p \in FlashPages, NEW d \in PartialTimes, ErasePagePartial(p, d)
      PROVE  CompletesTheAccepted'
  BY <1>2 DEF ErasePagePartial, Starts
<1>3. CASE EraseUicr
  BY <1>3 DEF EraseUicr, Starts
<1>4. CASE EraseAll
  BY <1>4 DEF EraseAll, Starts
<1>5. ASSUME NEW s \in Storage, NmvcWriteWord(s) PROVE CompletesTheAccepted'
  BY <1>5 DEF NmvcWriteWord, Starts
<1>6. CASE NvmcTimerTriggered
  BY <1>6 DEF NvmcTimerTriggered
<1>7. CASE NvmcTick
  BY <1>7 DEF NvmcTick, flashState
<1>8. CASE SoftwareConfigNvmc
  BY <1>8 DEF SoftwareConfigNvmc, flashState, flashOp
<1>9. ASSUME NEW exited \in BOOLEAN, Restart(exited) PROVE CompletesTheAccepted'
  BY <1>9 DEF Restart
<1>10. CASE UNCHANGED nvmcVars
  BY <1>10 DEF nvmcVars, flashState, flashOp
<1> QED
  BY <1>1, <1>2, <1>3, <1>4, <1>5, <1>6, <1>7, <1>8, <1>9, <1>10 DEF NvmcNext

(* Data is lost only at the end of an erase that was accepted for it and   *)
(* ran for its time, or by a start again for which it is not kept.         *)
THEOREM OnlyWhatWasAcceptedIsErased == NvmcSpec => OnlyTheAcceptedIsErased
<1> DEFINE Loses(s) == content[s] # "erased" /\ content'[s] = "erased"
           Allowed(s) == \/ s \in accepted /\ Timer_NVMC = 0
                         \/ \E exited \in BOOLEAN : Restart(exited) /\ ~Kept(s, exited)
           Keeps == \A s \in Storage : Loses(s) => Allowed(s)
<1>1. ASSUME NvmcTypeOK, CompletesTheAccepted, NvmcNext PROVE Keeps
  <2> SUFFICES ASSUME NEW s \in Storage, Loses(s) PROVE Allowed(s)
    OBVIOUS
  <2>1. CASE content' = content
    BY <2>1
  <2>2. ASSUME NEW t \in Storage, NmvcWriteWord(t) PROVE FALSE
    <3>1. PICK d \in Written(content[t]) : content' = [content EXCEPT ![t] = d]
      BY <2>2 DEF NmvcWriteWord
    <3>2. content[t] \in Contents
      BY <1>1 DEF NvmcTypeOK
    <3>3. d = "erased" => content[t] = "erased"
      BY <3>2, WrittenContents
    <3> QED
      BY <3>1, <3>3, <1>1 DEF NvmcTypeOK
  <2>3. CASE NvmcTimerTriggered
    <3>1. s \in Completed
      BY <2>3, <1>1 DEF NvmcTimerTriggered, NvmcTypeOK
    <3> QED
      BY <3>1, <2>3, <1>1 DEF CompletesTheAccepted, NvmcTimerTriggered
  <2>4. ASSUME NEW exited \in BOOLEAN, Restart(exited) PROVE Allowed(s)
    <3>1. content'[s] = IF Kept(s, exited) THEN content[s] ELSE "erased"
      BY <2>4 DEF Restart, AtBoot
    <3>2. ~Kept(s, exited)
      BY <3>1
    <3> QED
      BY <2>4, <3>2
  <2>5. \/ content' = content \/ NvmcTimerTriggered
        \/ \E t \in Storage : NmvcWriteWord(t)
        \/ \E exited \in BOOLEAN : Restart(exited)
    BY <1>1 DEF NvmcNext, ErasePage, ErasePagePartial, EraseUicr, EraseAll, NvmcTick,
                SoftwareConfigNvmc, flashState
  <2> HIDE DEF Allowed, Loses
  <2> QED
    BY <2>1, <2>2, <2>3, <2>4, <2>5
<1>2. NvmcTypeOK /\ CompletesTheAccepted /\ [NvmcNext]_nvmcVars => [Keeps]_nvmcVars
  BY <1>1
<1>3. NvmcInit => NvmcTypeOK /\ CompletesTheAccepted
  BY NvmcInitType, AcceptedInit
<1>4. NvmcTypeOK /\ CompletesTheAccepted /\ [NvmcNext]_nvmcVars
        => (NvmcTypeOK /\ CompletesTheAccepted)'
  BY NvmcStepType, AcceptedStep
<1> QED
  BY <1>2, <1>3, <1>4, PTL DEF NvmcSpec, OnlyTheAcceptedIsErased

-----------------------------------------------------------------------------
(* Partial erases.  What the controller takes for erased is erased, but    *)
(* for what the boot overlooked.                                           *)
ErasedPagesAreErased ==
  \A p \in FlashPages \ overlooked : page_erased[p] => content[p] = "erased"

(* The time it has summed up for a page that it does not take for erased   *)
(* is at least that of the partial erases since the last write.            *)
SumCoversPartial ==
  \A p \in FlashPages : page_erased[p] \/ time_under_erase[p] >= partial[p]

(* A page that has had its time is erased, or about to be.                 *)
FullTimeIsErased ==
  \A p \in FlashPages \ overlooked : partial[p] >= PageTime =>
    \/ content[p] = "erased"
    \/ flash_op = "erase_partial" /\ erase_address = p /\ time_under_erase[p] >= PageTime

EraseInv == NvmcTypeOK /\ ErasedPagesAreErased /\ SumCoversPartial /\ FullTimeIsErased

LEMMA EraseInvInit == NvmcInit => EraseInv
<1> SUFFICES ASSUME NvmcInit PROVE EraseInv
  OBVIOUS
<1>1. NvmcTypeOK
  BY NvmcInitType
<1>2. ErasedPagesAreErased
  BY DEF NvmcInit, ErasedPagesAreErased, Overlooks
<1>3. \A p \in FlashPages : partial[p] = 0 /\ time_under_erase[p] = 0
  BY DEF NvmcInit
<1>4. SumCoversPartial /\ FullTimeIsErased
  BY <1>3, FlashTimesAssumption DEF SumCoversPartial, FullTimeIsErased
<1> QED
  BY <1>1, <1>2, <1>4 DEF EraseInv

LEMMA EraseInvStep == EraseInv /\ [NvmcNext]_nvmcVars => EraseInv'
<1> SUFFICES ASSUME EraseInv, [NvmcNext]_nvmcVars PROVE EraseInv'
  OBVIOUS
<1> DEFINE Parts == ErasedPagesAreErased /\ SumCoversPartial /\ FullTimeIsErased
<1>0. NvmcTypeOK /\ Parts /\ NvmcTypeOK'
  BY NvmcStepType DEF EraseInv
<1> SUFFICES Parts'
  BY <1>0 DEF EraseInv
<1>a. PageTime \in Nat \ {0} /\ PartialTimes \subseteq Nat
  BY FlashTimesAssumption
<1>1. ASSUME UNCHANGED flashState, flash_op # "erase_partial" \/ UNCHANGED <<flash_op, erase_address>>
      PROVE  Parts'
  BY <1>0, <1>1 DEF flashState, ErasedPagesAreErased, SumCoversPartial, FullTimeIsErased
<1>2. ASSUME NEW p \in FlashPages, ErasePage(p) PROVE Parts'
  BY <1>1, <1>2 DEF ErasePage, Starts, Accepts, flashOp
<1>3. ASSUME NEW p \in FlashPages, NEW d \in PartialTimes, ErasePagePartial(p, d) PROVE Parts'
  <2> DEFINE sum == IF page_erased[p] THEN time_under_erase
                    ELSE [time_under_erase EXCEPT ![p] = @ + d]
  <2>1. /\ time_under_erase' = sum
        /\ partial' = [partial EXCEPT ![p] = Least(@ + d, PageTime)]
        /\ flash_op = "idle" /\ flash_op' = "erase_partial" /\ erase_address' = p
        /\ UNCHANGED <<content, page_erased, overlooked>>
    BY <1>3 DEF ErasePagePartial, Accepts, Starts
  <2>2. /\ partial[p] \in 0 .. PageTime /\ time_under_erase[p] \in Nat /\ d \in Nat
        /\ partial'[p] = Least(partial[p] + d, PageTime)
    BY <1>0, <1>a, <2>1 DEF NvmcTypeOK
  <2>3. \A q \in FlashPages \ {p} : /\ time_under_erase'[q] = time_under_erase[q]
                                    /\ partial'[q] = partial[q]
    BY <1>0, <2>1 DEF NvmcTypeOK
  <2>4. page_erased[p] \/ time_under_erase'[p] >= partial'[p]
    BY <1>0, <1>a, <2>1, <2>2 DEF NvmcTypeOK, SumCoversPartial, Least
  <2>5. ErasedPagesAreErased'
    BY <1>0, <2>1 DEF ErasedPagesAreErased
  <2>6. SumCoversPartial'
    BY <1>0, <2>1, <2>3, <2>4 DEF SumCoversPartial
  <2>7. FullTimeIsErased'
    <3> SUFFICES ASSUME NEW q \in FlashPages \ overlooked, partial'[q] >= PageTime
                 PROVE  \/ content'[q] = "erased"
                        \/ erase_address' = q /\ time_under_erase'[q] >= PageTime
      BY <2>1 DEF FullTimeIsErased
    <3>1. CASE q # p
      BY <1>0, <2>1, <2>3, <3>1 DEF FullTimeIsErased
    <3>2. CASE q = p /\ page_erased[p]
      BY <1>0, <2>1, <3>2 DEF ErasedPagesAreErased
    <3>3. CASE q = p /\ ~page_erased[p]
      <4>1. time_under_erase'[p] \in Nat /\ partial'[p] \in Nat
        BY <1>0 DEF NvmcTypeOK
      <4> QED
        BY <1>a, <2>1, <2>4, <3>3, <4>1
    <3> QED
      BY <3>1, <3>2, <3>3
  <2> QED
    BY <2>5, <2>6, <2>7
<1>4. CASE EraseUicr
  BY <1>1, <1>4 DEF EraseUicr, Accepts
<1>5. CASE EraseAll
  BY <1>1, <1>5 DEF EraseAll, Accepts
<1>6. ASSUME NEW s \in Storage, NmvcWriteWord(s) PROVE Parts'
  <2>1. PICK d \in Written(content[s]) : content' = [content EXCEPT ![s] = d]
    BY <1>6 DEF NmvcWriteWord
  <2>2. /\ page_erased' = [p \in FlashPages |-> p # s /\ page_erased[p]]
        /\ partial' = [p \in FlashPages |-> IF p = s THEN 0 ELSE partial[p]]
        /\ time_under_erase' = time_under_erase /\ overlooked' = overlooked \ {s}
        /\ flash_op = "idle"
    BY <1>6 DEF NmvcWriteWord, Accepts
  <2>3. content[s] \in Contents /\ content \in [Storage -> Contents]
    BY <1>0 DEF NvmcTypeOK
  <2>5. ErasedPagesAreErased'
    BY <1>0, <2>1, <2>2, <2>3 DEF ErasedPagesAreErased, Storage
  <2>6. SumCoversPartial'
    BY <1>0, <2>2 DEF SumCoversPartial, NvmcTypeOK
  <2>7. FullTimeIsErased'
    BY <1>0, <1>a, <2>1, <2>2, <2>3 DEF FullTimeIsErased, NvmcTypeOK, Storage
  <2> QED
    BY <2>5, <2>6, <2>7
<1>7. CASE NvmcTimerTriggered
  <2>1. /\ content' = [s \in Storage |-> IF s \in Completed THEN "erased" ELSE content[s]]
        /\ time_under_erase' = [p \in FlashPages |->
                                 IF p \in Completed THEN 0 ELSE time_under_erase[p]]
        /\ page_erased' = [p \in FlashPages |-> p \in Completed \/ page_erased[p]]
        /\ partial' = partial /\ overlooked' = overlooked \ Completed
    BY <1>7 DEF NvmcTimerTriggered
  <2>2. \A p \in FlashPages : flash_op = "erase_partial" /\ erase_address = p
                               /\ time_under_erase[p] >= PageTime => p \in Completed
    BY DEF Completed
  <2>3. ErasedPagesAreErased'
    BY <1>0, <2>1 DEF ErasedPagesAreErased, Storage
  <2>4. SumCoversPartial'
    BY <1>0, <2>1 DEF SumCoversPartial
  <2>5. \A p \in FlashPages \ overlooked' : partial'[p] >= PageTime => content'[p] = "erased"
    BY <1>0, <2>1, <2>2 DEF FullTimeIsErased, Storage
  <2> QED
    BY <2>3, <2>4, <2>5 DEF FullTimeIsErased
<1>8. CASE NvmcTick
  BY <1>1, <1>8 DEF NvmcTick
<1>9. CASE SoftwareConfigNvmc
  BY <1>1, <1>9 DEF SoftwareConfigNvmc, flashOp
<1>10. ASSUME NEW exited \in BOOLEAN, Restart(exited) PROVE Parts'
  <2>1. ErasedPagesAreErased'
    BY <1>10 DEF Restart, ErasedPagesAreErased, Overlooks
  <2>2. (SumCoversPartial /\ FullTimeIsErased)'
    BY <1>10, <1>a DEF Restart, SumCoversPartial, FullTimeIsErased
  <2> QED
    BY <2>1, <2>2
<1>11. CASE UNCHANGED nvmcVars
  BY <1>1, <1>11 DEF nvmcVars, flashOp
<1> QED
  BY <1>0, <1>2, <1>3, <1>4, <1>5, <1>6, <1>7, <1>8, <1>9, <1>10, <1>11 DEF NvmcNext

(* Partial erases that have taken the time of a whole one since the last   *)
(* write have erased the page, whatever came in between, if the boot has   *)
(* not overlooked it.                                                      *)
THEOREM PartialErasesAreWholeOnes == NvmcSpec => []PartialErasesAddUp
<1>1. NvmcInit => EraseInv
  BY EraseInvInit
<1>2. EraseInv /\ [NvmcNext]_nvmcVars => EraseInv'
  BY EraseInvStep
<1>3. EraseInv => PartialErasesAddUp
  BY DEF EraseInv, FullTimeIsErased, PartialErasesAddUp, AddUp
<1> QED
  BY <1>1, <1>2, <1>3, PTL DEF NvmcSpec

-----------------------------------------------------------------------------
(* The small peripherals.                                                   *)

SmallCall == (SmallTask \union SmallEvent) \X Nat

(* What is called behind the first call: tasks, and the END of the resolver  *)
(* after its RESOLVED or NOTRESOLVED, last.                                  *)
Settled(t) == \A i \in 1 .. Len(t) : t[i][1] \in SmallEvent => t[i][1] = "END" /\ i = Len(t)

LastEnd(t) == IF t # <<>> /\ t[Len(t)][1] = "END" THEN 1 ELSE 0

Is(event, events) == IF event \in events THEN 1 ELSE 0
FirstIs(s, events) == IF s # <<>> /\ Head(s)[1] \in events THEN 1 ELSE 0
LaterEnd(s) == IF s = <<>> THEN 0 ELSE LastEnd(Tail(s))
InOrder(s) == s = <<>> \/ Settled(Tail(s))

Running(b) == IF b THEN 1 ELSE 0

(* The ends that are still to be signalled, of what has stopped running.    *)
EcbEnds(s) == FirstIs(s, {"ENDECB", "ERRORECB"})
AarEnds(s) == FirstIs(s, {"END"}) + LaterEnd(s)
CcmEnds(s) == FirstIs(s, {"ENDCRYPT"})

AnswersAgree ==
  /\ answers_due["ECB"] = Running(started["ECB"]) + EcbEnds(calls)
  /\ answers_due["AAR"] = Running(started["AAR"]) + AarEnds(calls)
  /\ answers_due["CCM"] = Running(decryption_ongoing) + CcmEnds(calls)

TimersAgree ==
  \A e \in Engines : small_timer[e] \in Nat \union {SMALL_NEVER}
                     /\ (started[e] <=> small_timer[e] # SMALL_NEVER)

SmallInv ==
  /\ small_cfg \in SmallConfigs
  /\ started \in [Engines -> BOOLEAN] /\ DOMAIN small_timer = Engines
  /\ decryption_ongoing \in BOOLEAN
  /\ DOMAIN answers_due = {"ECB", "AAR", "CCM"}
  /\ calls \in Seq(SmallCall) /\ InOrder(calls)
  /\ AnswersAgree /\ TimersAgree

(* Calls of which the first is no event.                                     *)
LEMMA SettledCalls ==
  ASSUME NEW t \in Seq(SmallCall), Settled(t)
  PROVE  /\ InOrder(t) /\ FirstIs(t, {"END"}) + LaterEnd(t) = LastEnd(t)
         /\ FirstIs(t, {"ENDECB", "ERRORECB"}) = 0 /\ FirstIs(t, {"ENDCRYPT"}) = 0
<1>1. CASE t = <<>>
  BY <1>1 DEF InOrder, FirstIs, LaterEnd, LastEnd
<1>2. CASE t # <<>>
  <2>1. /\ Tail(t) \in Seq(SmallCall) /\ Head(t) = t[1]
        /\ Len(t) \in Nat /\ Len(t) > 0 /\ Len(Tail(t)) = Len(t) - 1
        /\ \A i \in 1 .. Len(t) - 1 : Tail(t)[i] = t[i + 1]
    BY <1>2
  <2>2. PICK one \in 1 .. Len(t) : one = 1
    BY <2>1
  <2>3. Head(t)[1] \in SmallEvent => Head(t)[1] = "END" /\ Len(t) = 1
    BY <2>1, <2>2 DEF Settled
  <2>4. Settled(Tail(t))
    <3>0. PICK l \in Nat : l = Len(Tail(t)) /\ l = Len(t) - 1
      <4>1. Len(t) - 1 \in Nat /\ Len(Tail(t)) = Len(t) - 1
        BY <2>1
      <4> QED BY <4>1, Zenon
    <3>1. SUFFICES ASSUME NEW i \in 1 .. l, Tail(t)[i][1] \in SmallEvent
                   PROVE  Tail(t)[i][1] = "END" /\ i = l
      BY <3>0 DEF Settled
    <3>2. PICK j \in 1 .. Len(t) : j = i + 1 /\ t[j] = Tail(t)[i]
      <4>1. i + 1 \in 1 .. Len(t) /\ t[i + 1] = Tail(t)[i]
        BY <2>1, <3>0
      <4> QED BY <4>1
    <3>3. t[j][1] = "END" /\ j = Len(t)
      BY <3>1, <3>2 DEF Settled
    <3>4. Tail(t)[i][1] = "END"
      BY <3>2, <3>3
    <3>5. i = l
      BY <3>0, <3>2, <3>3, <2>1
    <3> QED BY <3>4, <3>5
  <2>5. CASE Len(t) = 1
    <3>1. Tail(t) = <<>>
      <4>1. \A u \in Seq(SmallCall) : Len(u) = 0 => u = <<>>
        OBVIOUS
      <4>2. Len(Tail(t)) = 0
        BY <2>1, <2>5
      <4> QED BY <2>1, <4>1, <4>2
    <3>2. LaterEnd(t) = 0 /\ LastEnd(t) = FirstIs(t, {"END"})
      BY <1>2, <2>1, <2>5, <3>1 DEF LaterEnd, LastEnd, FirstIs
    <3>3. FirstIs(t, {"END"}) \in {0, 1}
      BY DEF FirstIs
    <3>4. Head(t)[1] \notin {"ENDECB", "ERRORECB"} /\ Head(t)[1] \notin {"ENDCRYPT"}
      BY <2>3 DEF SmallEvent
    <3>5. FirstIs(t, {"ENDECB", "ERRORECB"}) = 0 /\ FirstIs(t, {"ENDCRYPT"}) = 0
      BY <3>4 DEF FirstIs
    <3>6. FirstIs(t, {"END"}) + LaterEnd(t) = LastEnd(t)
      BY <3>2, <3>3
    <3> QED BY <2>4, <3>5, <3>6 DEF InOrder
  <2>6. CASE Len(t) # 1
    <3>0. /\ Head(t)[1] \notin {"END"} /\ Head(t)[1] \notin {"ENDECB", "ERRORECB"}
          /\ Head(t)[1] \notin {"ENDCRYPT"}
      BY <2>3, <2>6 DEF SmallEvent
    <3>1. FirstIs(t, {"END"}) = 0 /\ FirstIs(t, {"ENDECB", "ERRORECB"}) = 0
          /\ FirstIs(t, {"ENDCRYPT"}) = 0
      BY <3>0 DEF FirstIs
    <3>2. Tail(t)[Len(Tail(t))] = t[Len(t)] /\ Len(Tail(t)) > 0
      BY <2>1, <2>6
    <3>3. Tail(t) # <<>>
      <4>1. \A u \in Seq(SmallCall) : Len(u) > 0 => u # <<>>
        OBVIOUS
      <4> QED BY <2>1, <3>2, <4>1
    <3>4. LaterEnd(t) = LastEnd(t) /\ LastEnd(t) \in {0, 1}
      BY <1>2, <3>2, <3>3 DEF LaterEnd, LastEnd
    <3> QED BY <2>4, <3>1, <3>4 DEF InOrder
  <2> QED BY <2>5, <2>6
<1> QED BY <1>1, <1>2

(* Tasks before settled calls leave them settled.                           *)
LEMMA TasksFirst ==
  ASSUME NEW s \in Seq(SmallTask \X Nat), NEW t \in Seq(SmallCall), Settled(t)
  PROVE  s \o t \in Seq(SmallCall) /\ Settled(s \o t) /\ LastEnd(s \o t) = LastEnd(t)
<1>1. \A i \in 1 .. Len(s) : s[i] \in SmallTask \X Nat /\ s[i] \in SmallCall
  BY DEF SmallCall
<1>2. s \in Seq(SmallCall) /\ Len(s) \in Nat /\ Len(t) \in Nat
  <2>1. SmallTask \X Nat \subseteq SmallCall
    BY DEF SmallCall
  <2>2. s \in Seq(SmallCall)
    BY <2>1, SeqMonotonic
  <2> QED BY <2>2, LenProperties
<1>3. /\ s \o t \in Seq(SmallCall) /\ Len(s \o t) = Len(s) + Len(t)
      /\ \A i \in 1 .. Len(s) + Len(t) : (s \o t)[i] = IF i <= Len(s) THEN s[i] ELSE t[i - Len(s)]
  BY <1>2
<1>4. \A i \in 1 .. Len(s \o t) : \/ (s \o t)[i][1] \in SmallTask
                                \/ \E j \in 1 .. Len(t) : i = Len(s) + j /\ (s \o t)[i] = t[j]
  <2> TAKE i \in 1 .. Len(s \o t)
  <2>1. CASE i <= Len(s)
    BY <1>1, <1>2, <1>3, <2>1
  <2>2. CASE i > Len(s)
    <3>1. PICK j \in 1 .. Len(t) : j = i - Len(s) /\ i = Len(s) + j
      BY <1>2, <1>3, <2>2
    <3>2. (s \o t)[i] = t[j]
      BY <1>2, <1>3, <2>2, <3>1
    <3> QED BY <3>1, <3>2
  <2> QED BY <1>2, <1>3, <2>1, <2>2
<1>5. \A x \in SmallTask : x \notin SmallEvent
  BY DEF SmallTask, SmallEvent
<1>6. Settled(s \o t)
  <2>1. SUFFICES ASSUME NEW i \in 1 .. Len(s \o t), (s \o t)[i][1] \in SmallEvent
                 PROVE  (s \o t)[i][1] = "END" /\ i = Len(s \o t)
    BY DEF Settled
  <2>2. PICK j \in 1 .. Len(t) : i = Len(s) + j /\ (s \o t)[i] = t[j]
    BY <1>4, <1>5, <2>1
  <2> QED BY <1>3, <2>1, <2>2 DEF Settled
<1>7. LastEnd(s \o t) = LastEnd(t)
  <2>1. CASE t = <<>>
    <3>1. s \o t = s
      BY <1>2, <2>1
    <3>2. s # <<>> => s[Len(s)] \in SmallTask \X Nat
      OBVIOUS
    <3>3. s # <<>> => s[Len(s)][1] # "END"
      BY <3>2, <1>5 DEF SmallEvent
    <3> QED BY <2>1, <3>1, <3>3 DEF LastEnd
  <2>2. CASE t # <<>>
    <3>1. Len(t) > 0
      BY <2>2
    <3>2. (s \o t)[Len(s \o t)] = t[Len(t)] /\ Len(s \o t) > 0
      BY <1>2, <1>3, <3>1
    <3>3. s \o t # <<>>
      <4>1. \A u \in Seq(SmallCall) : Len(u) > 0 => u # <<>>
        OBVIOUS
      <4> QED BY <1>3, <3>2, <4>1
    <3> QED BY <2>2, <3>2, <3>3 DEF LastEnd
  <2> QED BY <2>1, <2>2
<1> QED BY <1>3, <1>6, <1>7

(* An event before settled calls is in order.                            *)
LEMMA EventFirst ==
  ASSUME NEW event \in SmallEvent, NEW t \in Seq(SmallCall), Settled(t),
         NEW n \in Nat, NEW s, s = <<<<event, n>>>> \o t
  PROVE  /\ s \in Seq(SmallCall) /\ InOrder(s) /\ LaterEnd(s) = LastEnd(t)
         /\ s # <<>> /\ Head(s)[1] = event
<1>1. <<event, n>> \in SmallCall
  BY DEF SmallCall
<1>2. s \in Seq(SmallCall) /\ s # <<>> /\ Head(s) = <<event, n>> /\ Tail(s) = t
  BY <1>1
<1>3. InOrder(s)
  BY <1>2 DEF InOrder
<1>4. LaterEnd(s) = LastEnd(t)
  BY <1>2 DEF LaterEnd
<1>5. Head(s)[1] = event
  BY <1>2
<1> QED BY <1>2, <1>3, <1>4, <1>5

-----------------------------------------------------------------------------
(* What is left when the first call has been made, and the end that      *)
(* this call signals.                                                    *)
LEMMA Popped ==
  ASSUME NEW s \in Seq(SmallCall), s # <<>>, InOrder(s)
  PROVE  /\ Tail(s) \in Seq(SmallCall) /\ Settled(Tail(s)) /\ LastEnd(Tail(s)) \in {0, 1}
         /\ Head(s) \in SmallCall
         /\ EcbEnds(s) = Is(Head(s)[1], {"ENDECB", "ERRORECB"})
         /\ AarEnds(s) = Is(Head(s)[1], {"END"}) + LastEnd(Tail(s))
         /\ CcmEnds(s) = Is(Head(s)[1], {"ENDCRYPT"})
<1>1. Tail(s) \in Seq(SmallCall) /\ Head(s) \in SmallCall
  OBVIOUS
<1>2. Settled(Tail(s)) /\ LaterEnd(s) = LastEnd(Tail(s))
  BY DEF InOrder, LaterEnd
<1>3. LastEnd(Tail(s)) \in {0, 1}
  BY DEF LastEnd
<1>4. /\ FirstIs(s, {"ENDECB", "ERRORECB"}) = Is(Head(s)[1], {"ENDECB", "ERRORECB"})
      /\ FirstIs(s, {"END"}) = Is(Head(s)[1], {"END"})
      /\ FirstIs(s, {"ENDCRYPT"}) = Is(Head(s)[1], {"ENDCRYPT"})
  BY DEF FirstIs, Is
<1> QED BY <1>1, <1>2, <1>3, <1>4 DEF EcbEnds, AarEnds, CcmEnds

(* What is left when the first call is done and calls nothing.              *)
LEMMA Silent ==
  ASSUME NEW t \in Seq(SmallCall), Settled(t)
  PROVE  InOrder(t) /\ EcbEnds(t) = 0 /\ AarEnds(t) = LastEnd(t) /\ CcmEnds(t) = 0
BY SettledCalls DEF EcbEnds, AarEnds, CcmEnds

(* What is left when the first call is done and signals an event.        *)
LEMMA Aloud ==
  ASSUME NEW event \in SmallEvent, NEW t \in Seq(SmallCall), Settled(t),
         NEW n \in Nat, NEW s, s = <<<<event, n>>>> \o t
  PROVE  /\ s \in Seq(SmallCall) /\ InOrder(s)
         /\ EcbEnds(s) = Is(event, {"ENDECB", "ERRORECB"})
         /\ AarEnds(s) = Is(event, {"END"}) + LastEnd(t)
         /\ CcmEnds(s) = Is(event, {"ENDCRYPT"})
<1>1. s \in Seq(SmallCall) /\ InOrder(s) /\ LaterEnd(s) = LastEnd(t) /\ s # <<>> /\ Head(s)[1] = event
  BY EventFirst
<1>2. /\ FirstIs(s, {"ENDECB", "ERRORECB"}) = Is(event, {"ENDECB", "ERRORECB"})
      /\ FirstIs(s, {"END"}) = Is(event, {"END"})
      /\ FirstIs(s, {"ENDCRYPT"}) = Is(event, {"ENDCRYPT"})
  BY <1>1 DEF FirstIs, Is
<1> QED BY <1>1, <1>2 DEF EcbEnds, AarEnds, CcmEnds

(* What a task finds: no end is due for the task itself.                    *)
LEMMA TaskFinds ==
  ASSUME SmallInv, calls # <<>>, Op \in SmallTask
  PROVE  /\ Tail(calls) \in Seq(SmallCall) /\ Settled(Tail(calls))
         /\ LastEnd(Tail(calls)) \in {0, 1} /\ Head(calls) \in SmallCall
         /\ answers_due["ECB"] = Running(started["ECB"])
         /\ answers_due["AAR"] = Running(started["AAR"]) + LastEnd(Tail(calls))
         /\ answers_due["CCM"] = Running(decryption_ongoing)
<1>1. calls \in Seq(SmallCall) /\ InOrder(calls) /\ AnswersAgree
      /\ started \in [Engines -> BOOLEAN] /\ decryption_ongoing \in BOOLEAN
  BY DEF SmallInv
<1>2. /\ Tail(calls) \in Seq(SmallCall) /\ Settled(Tail(calls)) /\ LastEnd(Tail(calls)) \in {0, 1}
      /\ Head(calls) \in SmallCall
      /\ EcbEnds(calls) = Is(Op, {"ENDECB", "ERRORECB"})
      /\ AarEnds(calls) = Is(Op, {"END"}) + LastEnd(Tail(calls))
      /\ CcmEnds(calls) = Is(Op, {"ENDCRYPT"})
  BY <1>1, Popped DEF Op
<1>3. Op \notin {"ENDECB", "ERRORECB"} /\ Op # "END" /\ Op # "ENDCRYPT"
  BY DEF SmallTask
<1>4. Running(FALSE) = 0 /\ \A b : Running(b) \in {0, 1}
  BY DEF Running
<1>5. EcbEnds(calls) = 0 /\ AarEnds(calls) = LastEnd(Tail(calls)) /\ CcmEnds(calls) = 0
  <2>1. Is(Op, {"ENDECB", "ERRORECB"}) = 0 /\ Is(Op, {"END"}) = 0
        /\ Is(Op, {"ENDCRYPT"}) = 0
    BY <1>3 DEF Is
  <2> QED BY <1>2, <2>1
<1>6. {started["ECB"], started["AAR"]} \subseteq BOOLEAN
  BY <1>1 DEF Engines
<1> QED BY <1>1, <1>2, <1>4, <1>5, <1>6 DEF AnswersAgree

(* After a task that calls nothing further.                                 *)
LEMMA SilentTask ==
  ASSUME SmallInv, calls # <<>>, Op \in SmallTask, UNCHANGED small_cfg,
         calls' = Tail(calls),
         started' \in [Engines -> BOOLEAN], DOMAIN small_timer' = Engines, TimersAgree',
         decryption_ongoing' \in BOOLEAN, DOMAIN answers_due' = {"ECB", "AAR", "CCM"},
         answers_due'["ECB"] = answers_due["ECB"] - Running(started["ECB"]) + Running(started'["ECB"]),
         answers_due'["AAR"] = answers_due["AAR"] - Running(started["AAR"]) + Running(started'["AAR"]),
         answers_due'["CCM"] = answers_due["CCM"] - Running(decryption_ongoing)
                                 + Running(decryption_ongoing')
  PROVE  SmallInv'
<1>1. /\ Tail(calls) \in Seq(SmallCall) /\ Settled(Tail(calls)) /\ LastEnd(Tail(calls)) \in {0, 1}
      /\ answers_due["ECB"] = Running(started["ECB"])
      /\ answers_due["AAR"] = Running(started["AAR"]) + LastEnd(Tail(calls))
      /\ answers_due["CCM"] = Running(decryption_ongoing)
  BY TaskFinds
<1>2. calls' \in Seq(SmallCall) /\ InOrder(calls') /\ EcbEnds(calls') = 0
      /\ AarEnds(calls') = LastEnd(Tail(calls)) /\ CcmEnds(calls') = 0
  BY <1>1, Silent
<1>3. \A b : Running(b) \in {0, 1}
  BY DEF Running
<1>4. /\ {started["ECB"], started["AAR"], decryption_ongoing} \subseteq BOOLEAN
      /\ {started'["ECB"], started'["AAR"], decryption_ongoing'} \subseteq BOOLEAN
  BY DEF SmallInv, Engines
<1>5. AnswersAgree'
  BY <1>1, <1>2, <1>3, <1>4 DEF AnswersAgree
<1> QED BY <1>2, <1>5 DEF SmallInv, InOrder

(* After a task that signals an event.                                      *)
LEMMA AloudTask ==
  ASSUME SmallInv, calls # <<>>, Op \in SmallTask, UNCHANGED small_cfg,
         NEW event \in SmallEvent, NEW n \in Nat,
         calls' = <<<<event, n>>>> \o Tail(calls),
         started' \in [Engines -> BOOLEAN], DOMAIN small_timer' = Engines, TimersAgree',
         decryption_ongoing' \in BOOLEAN, DOMAIN answers_due' = {"ECB", "AAR", "CCM"},
         answers_due'["ECB"] = answers_due["ECB"] - Running(started["ECB"]) + Running(started'["ECB"])
                                 + Is(event, {"ENDECB", "ERRORECB"}),
         answers_due'["AAR"] = answers_due["AAR"] - Running(started["AAR"]) + Running(started'["AAR"])
                                 + Is(event, {"END"}),
         answers_due'["CCM"] = answers_due["CCM"] - Running(decryption_ongoing)
                                 + Running(decryption_ongoing') + Is(event, {"ENDCRYPT"})
  PROVE  SmallInv'
<1>1. /\ Tail(calls) \in Seq(SmallCall) /\ Settled(Tail(calls)) /\ LastEnd(Tail(calls)) \in {0, 1}
      /\ answers_due["ECB"] = Running(started["ECB"])
      /\ answers_due["AAR"] = Running(started["AAR"]) + LastEnd(Tail(calls))
      /\ answers_due["CCM"] = Running(decryption_ongoing)
  BY TaskFinds
<1>2. /\ calls' \in Seq(SmallCall) /\ InOrder(calls')
      /\ EcbEnds(calls') = Is(event, {"ENDECB", "ERRORECB"})
      /\ AarEnds(calls') = Is(event, {"END"}) + LastEnd(Tail(calls))
      /\ CcmEnds(calls') = Is(event, {"ENDCRYPT"})
  BY <1>1, Aloud, Zenon
<1>3. \A b : Running(b) \in {0, 1}
  BY DEF Running
<1>4. /\ {started["ECB"], started["AAR"], decryption_ongoing} \subseteq BOOLEAN
      /\ {started'["ECB"], started'["AAR"], decryption_ongoing'} \subseteq BOOLEAN
  BY DEF SmallInv, Engines
<1>5. /\ Is(event, {"ENDECB", "ERRORECB"}) \in {0, 1}
      /\ Is(event, {"END"}) \in {0, 1} /\ Is(event, {"ENDCRYPT"}) \in {0, 1}
  BY DEF Is
<1>6. AnswersAgree'
  <2>0. {Running(started["ECB"]), Running(started'["ECB"]), Running(started["AAR"]), Running(started'["AAR"]),
         Running(decryption_ongoing), Running(decryption_ongoing')} \subseteq {0, 1}
    BY DEF Running
  <2>1. answers_due'["ECB"] = Running(started'["ECB"]) + EcbEnds(calls')
    BY <1>1, <1>2, <1>5, <2>0
  <2>2. answers_due'["AAR"] = Running(started'["AAR"]) + AarEnds(calls')
    BY <1>1, <1>2, <1>5, <2>0
  <2>3. answers_due'["CCM"] = Running(decryption_ongoing') + CcmEnds(calls')
    BY <1>1, <1>2, <1>5, <2>0
  <2> QED BY <2>1, <2>2, <2>3 DEF AnswersAgree
<1> QED BY <1>2, <1>6 DEF SmallInv, InOrder

-----------------------------------------------------------------------------
(* An engine that is started gets a time, and one that is stopped none.  *)
LEMMA EngineSet ==
  ASSUME SmallInv, NEW e \in Engines, NEW b \in BOOLEAN, NEW time,
         Set(e, b, time), b => time \in Nat, ~b => time = SMALL_NEVER
  PROVE  /\ started' \in [Engines -> BOOLEAN] /\ DOMAIN small_timer' = Engines /\ TimersAgree'
         /\ started'[e] = b /\ \A f \in Engines \ {e} : started'[f] = started[f]
<1>1. started \in [Engines -> BOOLEAN] /\ DOMAIN small_timer = Engines /\ TimersAgree
  BY DEF SmallInv
<1>2. /\ started' \in [Engines -> BOOLEAN] /\ DOMAIN small_timer' = Engines
      /\ started'[e] = b /\ small_timer'[e] = time
      /\ \A f \in Engines \ {e} : started'[f] = started[f] /\ small_timer'[f] = small_timer[f]
  BY <1>1 DEF Set
<1>3. time \in Nat \union {SMALL_NEVER} /\ (b <=> time # SMALL_NEVER)
  BY DEF SMALL_NEVER
<1>4. TimersAgree'
  <2>1. SUFFICES ASSUME NEW f \in Engines
                 PROVE  /\ small_timer'[f] \in Nat \union {SMALL_NEVER}
                        /\ started'[f] <=> small_timer'[f] # SMALL_NEVER
    BY DEF TimersAgree
  <2>2. CASE f = e
    BY <1>2, <1>3, <2>2
  <2>3. CASE f # e
    BY <1>1, <1>2, <2>3 DEF TimersAgree
  <2> QED BY <2>2, <2>3
<1> QED BY <1>2, <1>4

(* Nothing happens to the engines.                                       *)
LEMMA EngineStays ==
  ASSUME SmallInv, UNCHANGED <<started, small_timer>>
  PROVE  started' \in [Engines -> BOOLEAN] /\ DOMAIN small_timer' = Engines /\ TimersAgree'
BY DEF SmallInv, TimersAgree

(* One more or one less is due of one engine.                            *)
LEMMA AnswersDue ==
  ASSUME SmallInv, NEW e \in {"ECB", "AAR", "CCM"}, NEW n \in Int, Due(e, n)
  PROVE  /\ DOMAIN answers_due' = {"ECB", "AAR", "CCM"}
         /\ answers_due'[e] = answers_due[e] + n
         /\ \A f \in {"ECB", "AAR", "CCM"} \ {e} : answers_due'[f] = answers_due[f]
BY DEF SmallInv, Due

(* What is due are numbers.                                              *)
LEMMA AnswersAreNumbers ==
  ASSUME SmallInv
  PROVE  /\ {answers_due["ECB"], answers_due["AAR"], answers_due["CCM"]} \subseteq Int
         /\ DOMAIN answers_due = {"ECB", "AAR", "CCM"} /\ decryption_ongoing \in BOOLEAN
         /\ started \in [Engines -> BOOLEAN]
<1>1. \A s, S : FirstIs(s, S) \in {0, 1} /\ LastEnd(s) \in {0, 1}
  BY DEF FirstIs, LastEnd
<1>2. {EcbEnds(calls), AarEnds(calls), CcmEnds(calls)} \subseteq Int
  <2>1. LaterEnd(calls) \in {0, 1}
    BY <1>1 DEF LaterEnd
  <2> QED BY <1>1, <2>1 DEF EcbEnds, AarEnds, CcmEnds
<1>3. \A b : Running(b) \in {0, 1}
  BY DEF Running
<1>4. AnswersAgree
  BY DEF SmallInv
<1>5. {Running(started["ECB"]), Running(started["AAR"]), Running(decryption_ongoing)} \subseteq {0, 1}
  BY <1>3
<1>6. {answers_due["ECB"], answers_due["AAR"], answers_due["CCM"]} \subseteq Int
  BY <1>2, <1>4, <1>5 DEF AnswersAgree
<1> QED BY <1>6 DEF SmallInv

(* The start of the thermometer or of the random number generator.       *)
LEMMA StartOnceStep ==
  ASSUME SmallInv, calls # <<>>, Op \in SmallTask, UNCHANGED small_cfg,
         NEW e \in {"TEMP", "RNG"}, NEW time \in Nat, StartOnce(e, time)
  PROVE  SmallInv'
<1>0. /\ {answers_due["ECB"], answers_due["AAR"], answers_due["CCM"]} \subseteq Int
      /\ DOMAIN answers_due = {"ECB", "AAR", "CCM"} /\ decryption_ongoing \in BOOLEAN
      /\ started \in [Engines -> BOOLEAN]
  BY AnswersAreNumbers
<1>1. UNCHANGED <<answers_due, decryption_ongoing>> /\ calls' = Tail(calls)
  BY DEF StartOnce, ccmVars
<1>2. /\ started' \in [Engines -> BOOLEAN] /\ DOMAIN small_timer' = Engines /\ TimersAgree'
      /\ started'["ECB"] = started["ECB"] /\ started'["AAR"] = started["AAR"]
  <2>1. CASE started[e]
    BY <2>1, EngineStays DEF StartOnce
  <2>2. CASE ~started[e]
    <3>1. Set(e, TRUE, time)
      BY <2>2 DEF StartOnce
    <3>2. e \in Engines /\ "ECB" \in Engines \ {e} /\ "AAR" \in Engines \ {e}
      BY DEF Engines
    <3> QED BY <3>1, <3>2, EngineSet
  <2> QED BY <2>1, <2>2
<1>3. \A b : Running(b) \in {0, 1}
  BY DEF Running
<1>4. /\ answers_due["ECB"] = answers_due["ECB"] - Running(started["ECB"]) + Running(started'["ECB"])
      /\ answers_due["AAR"] = answers_due["AAR"] - Running(started["AAR"]) + Running(started'["AAR"])
      /\ answers_due["CCM"] = answers_due["CCM"] - Running(decryption_ongoing)
                                + Running(decryption_ongoing')
  BY <1>0, <1>1, <1>2, <1>3
<1> QED BY <1>0, <1>1, <1>2, <1>4, SilentTask

(* Their stop, which signals nothing.                                    *)
LEMMA StopSilentlyStep ==
  ASSUME SmallInv, calls # <<>>, Op \in SmallTask, UNCHANGED small_cfg,
         NEW e \in {"TEMP", "RNG"}, StopSilently(e)
  PROVE  SmallInv'
<1>0. /\ {answers_due["ECB"], answers_due["AAR"], answers_due["CCM"]} \subseteq Int
      /\ DOMAIN answers_due = {"ECB", "AAR", "CCM"} /\ decryption_ongoing \in BOOLEAN
      /\ started \in [Engines -> BOOLEAN]
  BY AnswersAreNumbers
<1>1. UNCHANGED <<answers_due, decryption_ongoing>> /\ calls' = Tail(calls)
  BY DEF StopSilently, ccmVars
<1>2. /\ started' \in [Engines -> BOOLEAN] /\ DOMAIN small_timer' = Engines /\ TimersAgree'
      /\ started'["ECB"] = started["ECB"] /\ started'["AAR"] = started["AAR"]
  <2>1. Set(e, FALSE, SMALL_NEVER)
    BY DEF StopSilently
  <2>2. e \in Engines /\ "ECB" \in Engines \ {e} /\ "AAR" \in Engines \ {e}
    BY DEF Engines
  <2> QED BY <2>1, <2>2, EngineSet
<1>3. \A b : Running(b) \in {0, 1}
  BY DEF Running
<1>4. /\ answers_due["ECB"] = answers_due["ECB"] - Running(started["ECB"]) + Running(started'["ECB"])
      /\ answers_due["AAR"] = answers_due["AAR"] - Running(started["AAR"]) + Running(started'["AAR"])
      /\ answers_due["CCM"] = answers_due["CCM"] - Running(decryption_ongoing)
                                + Running(decryption_ongoing')
  BY <1>0, <1>1, <1>2, <1>3
<1> QED BY <1>0, <1>1, <1>2, <1>4, SilentTask

(* The start of the cipher or of the resolver, running or not.           *)
LEMMA StartAgainStep ==
  ASSUME SmallInv, calls # <<>>, Op \in SmallTask, UNCHANGED small_cfg,
         NEW e \in {"ECB", "AAR"}, NEW time \in Nat, StartAgain(e, time)
  PROVE  SmallInv'
<1>0. /\ {answers_due["ECB"], answers_due["AAR"], answers_due["CCM"]} \subseteq Int
      /\ DOMAIN answers_due = {"ECB", "AAR", "CCM"} /\ decryption_ongoing \in BOOLEAN
      /\ started \in [Engines -> BOOLEAN]
  BY AnswersAreNumbers
<1>1. /\ UNCHANGED decryption_ongoing /\ calls' = Tail(calls)
      /\ Set(e, TRUE, time) /\ Due(e, IF started[e] THEN 0 ELSE 1)
  BY DEF StartAgain, ccmVars
<1>2. /\ started' \in [Engines -> BOOLEAN] /\ DOMAIN small_timer' = Engines /\ TimersAgree'
      /\ started'[e] = TRUE /\ \A f \in Engines \ {e} : started'[f] = started[f]
  <2>1. e \in Engines
    BY DEF Engines
  <2> QED BY <1>1, <2>1, EngineSet
<1>3. /\ DOMAIN answers_due' = {"ECB", "AAR", "CCM"}
      /\ answers_due'[e] = answers_due[e] + (IF started[e] THEN 0 ELSE 1)
      /\ \A f \in {"ECB", "AAR", "CCM"} \ {e} : answers_due'[f] = answers_due[f]
  BY <1>1, AnswersDue
<1>4. \A b : Running(b) = IF b THEN 1 ELSE 0
  BY DEF Running
<1>5. answers_due'[e] = answers_due[e] - Running(started[e]) + Running(started'[e])
  BY <1>0, <1>2, <1>3, <1>4
<1>6. \A f \in {"ECB", "AAR"} \ {e} :
         answers_due'[f] = answers_due[f] - Running(started[f]) + Running(started'[f])
  BY <1>0, <1>2, <1>3, <1>4 DEF Engines
<1>7. answers_due'["CCM"] = answers_due["CCM"] - Running(decryption_ongoing)
                                + Running(decryption_ongoing')
  BY <1>0, <1>1, <1>3, <1>4
<1>8. /\ answers_due'["ECB"] = answers_due["ECB"] - Running(started["ECB"]) + Running(started'["ECB"])
      /\ answers_due'["AAR"] = answers_due["AAR"] - Running(started["AAR"]) + Running(started'["AAR"])
  BY <1>5, <1>6
<1> QED BY <1>0, <1>1, <1>2, <1>3, <1>7, <1>8, SilentTask

-----------------------------------------------------------------------------
(* Their stop, which signals the end of what was running.                *)
LEMMA StopAloudStep ==
  ASSUME SmallInv, calls # <<>>, Op \in SmallTask, UNCHANGED small_cfg,
         NEW e, NEW event, <<e, event>> \in {<<"ECB", "ERRORECB">>, <<"AAR", "END">>},
         StopAloud(e, event)
  PROVE  SmallInv'
<1>0. /\ {answers_due["ECB"], answers_due["AAR"], answers_due["CCM"]} \subseteq Int
      /\ DOMAIN answers_due = {"ECB", "AAR", "CCM"} /\ decryption_ongoing \in BOOLEAN
      /\ started \in [Engines -> BOOLEAN]
  BY AnswersAreNumbers
<1>1. UNCHANGED <<answers_due, decryption_ongoing>>
  BY DEF StopAloud, ccmVars
<1>2. \A b : Running(b) = IF b THEN 1 ELSE 0
  BY DEF Running
<1>3. answers_due'["CCM"] = answers_due["CCM"] - Running(decryption_ongoing)
                              + Running(decryption_ongoing')
  BY <1>0, <1>1, <1>2
<1>4. e \in Engines /\ event \in SmallEvent
  BY DEF Engines, SmallEvent
<1>5. CASE started[e]
  <2>1. Set(e, FALSE, SMALL_NEVER) /\ calls' = <<<<event, 0>>>> \o Tail(calls)
    BY <1>5 DEF StopAloud, Event
  <2>2. /\ started' \in [Engines -> BOOLEAN] /\ DOMAIN small_timer' = Engines /\ TimersAgree'
        /\ started'[e] = FALSE /\ \A f \in Engines \ {e} : started'[f] = started[f]
    BY <1>4, <2>1, EngineSet
  <2>3. Is(event, {"ENDCRYPT"}) = 0
    BY DEF Is
  <2>4. /\ Is(event, {"ENDECB", "ERRORECB"}) = Running(started["ECB"]) - Running(started'["ECB"])
        /\ Is(event, {"END"}) = Running(started["AAR"]) - Running(started'["AAR"])
    <3>1. CASE e = "ECB" /\ event = "ERRORECB"
      <4>1. Is(event, {"ENDECB", "ERRORECB"}) = 1 /\ Is(event, {"END"}) = 0
        BY <3>1 DEF Is
      <4>2. started["ECB"] /\ ~started'["ECB"] /\ started'["AAR"] = started["AAR"]
        BY <3>1, <1>5, <2>2 DEF Engines
      <4>3. Running(started["ECB"]) = 1 /\ Running(started'["ECB"]) = 0
        BY <4>2 DEF Running
      <4>4. Running(started["AAR"]) = Running(started'["AAR"]) /\ Running(started["AAR"]) \in {0, 1}
        BY <4>2 DEF Running
      <4> QED BY <4>1, <4>3, <4>4
    <3>2. CASE e = "AAR" /\ event = "END"
      <4>1. Is(event, {"ENDECB", "ERRORECB"}) = 0 /\ Is(event, {"END"}) = 1
        BY <3>2 DEF Is
      <4>2. started["AAR"] /\ ~started'["AAR"] /\ started'["ECB"] = started["ECB"]
        BY <3>2, <1>5, <2>2 DEF Engines
      <4>3. Running(started["AAR"]) = 1 /\ Running(started'["AAR"]) = 0
        BY <4>2 DEF Running
      <4>4. Running(started["ECB"]) = Running(started'["ECB"]) /\ Running(started["ECB"]) \in {0, 1}
        BY <4>2 DEF Running
      <4> QED BY <4>1, <4>3, <4>4
    <3> QED BY <3>1, <3>2
  <2>5. /\ Is(event, {"ENDECB", "ERRORECB"}) \in Int /\ Is(event, {"END"}) \in Int
        /\ {Running(started["ECB"]), Running(started'["ECB"]), Running(started["AAR"]),
            Running(started'["AAR"])} \subseteq {0, 1}
    BY DEF Is, Running
  <2>6. answers_due'["ECB"] = answers_due["ECB"] - Running(started["ECB"]) + Running(started'["ECB"])
                                + Is(event, {"ENDECB", "ERRORECB"})
    BY <1>0, <1>1, <2>4, <2>5
  <2>7. answers_due'["AAR"] = answers_due["AAR"] - Running(started["AAR"]) + Running(started'["AAR"])
                                + Is(event, {"END"})
    BY <1>0, <1>1, <2>4, <2>5
  <2>8. answers_due'["CCM"] = answers_due["CCM"] - Running(decryption_ongoing)
                                + Running(decryption_ongoing') + Is(event, {"ENDCRYPT"})
    <3>1. Running(decryption_ongoing) \in {0, 1}
      BY DEF Running
    <3> QED BY <1>0, <1>1, <2>3, <3>1
  <2>9. decryption_ongoing' \in BOOLEAN /\ DOMAIN answers_due' = {"ECB", "AAR", "CCM"}
    BY <1>0, <1>1
  <2> QED BY <1>4, <2>1, <2>2, <2>6, <2>7, <2>8, <2>9, AloudTask
<1>6. CASE ~started[e]
  <2>1. UNCHANGED <<started, small_timer>> /\ calls' = Tail(calls)
    BY <1>6 DEF StopAloud
  <2>2. started' \in [Engines -> BOOLEAN] /\ DOMAIN small_timer' = Engines /\ TimersAgree'
    BY <2>1, EngineStays
  <2>3. {Running(started["ECB"]), Running(started["AAR"])} \subseteq {0, 1}
    BY DEF Running
  <2>4. /\ answers_due'["ECB"] = answers_due["ECB"] - Running(started["ECB"]) + Running(started'["ECB"])
        /\ answers_due'["AAR"] = answers_due["AAR"] - Running(started["AAR"]) + Running(started'["AAR"])
    BY <1>0, <1>1, <2>1, <2>3
  <2> QED BY <1>0, <1>1, <1>3, <2>1, <2>2, <2>4, SilentTask
<1> QED BY <1>5, <1>6

(* What a task of the packet cipher leaves of the other engines.             *)
LEMMA OtherEnginesStay ==
  ASSUME SmallInv, UNCHANGED engineVars,
         answers_due'["ECB"] = answers_due["ECB"], answers_due'["AAR"] = answers_due["AAR"]
  PROVE  /\ started' \in [Engines -> BOOLEAN] /\ DOMAIN small_timer' = Engines /\ TimersAgree'
         /\ answers_due'["ECB"] = answers_due["ECB"] - Running(started["ECB"]) + Running(started'["ECB"])
         /\ answers_due'["AAR"] = answers_due["AAR"] - Running(started["AAR"]) + Running(started'["AAR"])
<1>1. {answers_due["ECB"], answers_due["AAR"], answers_due["CCM"]} \subseteq Int
  BY AnswersAreNumbers
<1>2. UNCHANGED <<started, small_timer>>
  BY DEF engineVars
<1>3. {Running(started["ECB"]), Running(started["AAR"])} \subseteq {0, 1}
  BY DEF Running
<1> QED BY <1>1, <1>2, <1>3, EngineStays

(* After a task that signals an event which ends nothing.                    *)
LEMMA NeutralTask ==
  ASSUME SmallInv, calls # <<>>, Op \in SmallTask, UNCHANGED small_cfg,
         NEW event \in {"ENDKSGEN", "TRIGGERED"}, NEW n \in Nat,
         calls' = <<<<event, n>>>> \o Tail(calls),
         UNCHANGED engineVars, UNCHANGED <<answers_due, decryption_ongoing>>
  PROVE  SmallInv'
<1>0. /\ {answers_due["ECB"], answers_due["AAR"], answers_due["CCM"]} \subseteq Int
      /\ DOMAIN answers_due = {"ECB", "AAR", "CCM"} /\ decryption_ongoing \in BOOLEAN
  BY AnswersAreNumbers
<1>2. /\ started' \in [Engines -> BOOLEAN] /\ DOMAIN small_timer' = Engines /\ TimersAgree'
      /\ answers_due'["ECB"] = answers_due["ECB"] - Running(started["ECB"]) + Running(started'["ECB"])
      /\ answers_due'["AAR"] = answers_due["AAR"] - Running(started["AAR"]) + Running(started'["AAR"])
  BY OtherEnginesStay
<1>3. /\ Is(event, {"ENDECB", "ERRORECB"}) = 0 /\ Is(event, {"END"}) = 0
      /\ Is(event, {"ENDCRYPT"}) = 0 /\ event \in SmallEvent
  BY DEF Is, SmallEvent
<1>4. {Running(started["ECB"]), Running(started'["ECB"]), Running(started["AAR"]),
       Running(started'["AAR"]), Running(decryption_ongoing)} \subseteq {0, 1}
  BY DEF Running
<1>5. answers_due'["ECB"] = answers_due["ECB"] - Running(started["ECB"]) + Running(started'["ECB"])
                              + Is(event, {"ENDECB", "ERRORECB"})
  BY <1>0, <1>2, <1>3, <1>4
<1>6. answers_due'["AAR"] = answers_due["AAR"] - Running(started["AAR"]) + Running(started'["AAR"])
                              + Is(event, {"END"})
  BY <1>0, <1>2, <1>3, <1>4
<1>7. answers_due'["CCM"] = answers_due["CCM"] - Running(decryption_ongoing)
                              + Running(decryption_ongoing') + Is(event, {"ENDCRYPT"})
  BY <1>0, <1>3, <1>4
<1>8. decryption_ongoing' \in BOOLEAN /\ DOMAIN answers_due' = {"ECB", "AAR", "CCM"}
  BY <1>0
<1> QED BY <1>2, <1>3, <1>5, <1>6, <1>7, <1>8, AloudTask

(* The key stream of the packet cipher.                                  *)
LEMMA KsgenStep ==
  ASSUME SmallInv, calls # <<>>, Op \in SmallTask, UNCHANGED small_cfg, Ksgen
  PROVE  SmallInv'
<1>1. /\ UNCHANGED engineVars /\ UNCHANGED <<answers_due, decryption_ongoing>>
      /\ calls' = <<<<"ENDKSGEN", 0>>>> \o Tail(calls)
  BY DEF Ksgen, ccmVars, Event
<1> QED BY <1>1, NeutralTask

(* A trigger of the EGU.                                                 *)
LEMMA TriggerStep ==
  ASSUME SmallInv, calls # <<>>, Op \in SmallTask, UNCHANGED small_cfg,
         NEW n \in Nat, Trigger(n)
  PROVE  SmallInv'
<1>0. /\ {answers_due["ECB"], answers_due["AAR"], answers_due["CCM"]} \subseteq Int
      /\ DOMAIN answers_due = {"ECB", "AAR", "CCM"} /\ decryption_ongoing \in BOOLEAN
  BY AnswersAreNumbers
<1>1. /\ UNCHANGED engineVars /\ UNCHANGED <<answers_due, decryption_ongoing>>
      /\ calls' = <<<<"TRIGGERED", n>>>> \o Tail(calls)
  BY DEF Trigger, ccmVars
<1> QED BY <1>0, <1>1, NeutralTask

(* An encryption signals its end; a decryption waits for the packet.     *)
LEMMA CryptStep ==
  ASSUME SmallInv, calls # <<>>, Op \in SmallTask, UNCHANGED small_cfg, Crypt
  PROVE  SmallInv'
<1>0. /\ {answers_due["ECB"], answers_due["AAR"], answers_due["CCM"]} \subseteq Int
      /\ DOMAIN answers_due = {"ECB", "AAR", "CCM"} /\ decryption_ongoing \in BOOLEAN
  BY AnswersAreNumbers
<1>1. UNCHANGED engineVars
  BY DEF Crypt
<1>2. \A n \in Int : Due("CCM", n) =>
        /\ DOMAIN answers_due' = {"ECB", "AAR", "CCM"} /\ answers_due'["CCM"] = answers_due["CCM"] + n
        /\ answers_due'["ECB"] = answers_due["ECB"] /\ answers_due'["AAR"] = answers_due["AAR"]
  BY AnswersDue
<1>3. \A b : Running(b) = IF b THEN 1 ELSE 0
  BY DEF Running
<1>4. CASE CCM_MODE = "Encryption"
  <2>1. /\ calls' = <<<<"ENDCRYPT", 0>>>> \o Tail(calls) /\ Due("CCM", 1)
        /\ decryption_ongoing' = decryption_ongoing
    BY <1>4 DEF Crypt, Event
  <2>2. /\ DOMAIN answers_due' = {"ECB", "AAR", "CCM"} /\ answers_due'["CCM"] = answers_due["CCM"] + 1
        /\ answers_due'["ECB"] = answers_due["ECB"] /\ answers_due'["AAR"] = answers_due["AAR"]
    BY <1>2, <2>1
  <2>3. /\ started' \in [Engines -> BOOLEAN] /\ DOMAIN small_timer' = Engines /\ TimersAgree'
        /\ answers_due'["ECB"] = answers_due["ECB"] - Running(started["ECB"]) + Running(started'["ECB"])
        /\ answers_due'["AAR"] = answers_due["AAR"] - Running(started["AAR"]) + Running(started'["AAR"])
    BY <1>1, <2>2, OtherEnginesStay
  <2>4. /\ Is("ENDCRYPT", {"ENDECB", "ERRORECB"}) = 0 /\ Is("ENDCRYPT", {"END"}) = 0
        /\ Is("ENDCRYPT", {"ENDCRYPT"}) = 1 /\ "ENDCRYPT" \in SmallEvent
    BY DEF Is, SmallEvent
  <2>5. {Running(started["ECB"]), Running(started'["ECB"]), Running(started["AAR"]),
         Running(started'["AAR"]), Running(decryption_ongoing)} \subseteq {0, 1}
    BY DEF Running
  <2>6. answers_due'["ECB"] = answers_due["ECB"] - Running(started["ECB"]) + Running(started'["ECB"])
                                + Is("ENDCRYPT", {"ENDECB", "ERRORECB"})
    BY <1>0, <2>3, <2>4, <2>5
  <2>7. answers_due'["AAR"] = answers_due["AAR"] - Running(started["AAR"]) + Running(started'["AAR"])
                                + Is("ENDCRYPT", {"END"})
    BY <1>0, <2>3, <2>4, <2>5
  <2>8. answers_due'["CCM"] = answers_due["CCM"] - Running(decryption_ongoing)
                                + Running(decryption_ongoing') + Is("ENDCRYPT", {"ENDCRYPT"})
    <3>1. Running(decryption_ongoing') = Running(decryption_ongoing)
      BY <2>1
    <3> QED BY <1>0, <2>2, <2>4, <2>5, <3>1
  <2>9. decryption_ongoing' \in BOOLEAN
    BY <1>0, <2>1
  <2> QED BY <2>1, <2>2, <2>3, <2>4, <2>6, <2>7, <2>8, <2>9, AloudTask
<1>5. CASE CCM_MODE # "Encryption"
  <2>1. /\ calls' = Tail(calls) /\ decryption_ongoing' = TRUE
        /\ Due("CCM", IF decryption_ongoing THEN 0 ELSE 1)
    BY <1>5 DEF Crypt
  <2>2. /\ DOMAIN answers_due' = {"ECB", "AAR", "CCM"}
        /\ answers_due'["CCM"] = answers_due["CCM"] + (IF decryption_ongoing THEN 0 ELSE 1)
        /\ answers_due'["ECB"] = answers_due["ECB"] /\ answers_due'["AAR"] = answers_due["AAR"]
    BY <1>2, <2>1
  <2>3. /\ started' \in [Engines -> BOOLEAN] /\ DOMAIN small_timer' = Engines /\ TimersAgree'
        /\ answers_due'["ECB"] = answers_due["ECB"] - Running(started["ECB"]) + Running(started'["ECB"])
        /\ answers_due'["AAR"] = answers_due["AAR"] - Running(started["AAR"]) + Running(started'["AAR"])
    BY <1>1, <2>2, OtherEnginesStay
  <2>4. answers_due'["CCM"] = answers_due["CCM"] - Running(decryption_ongoing)
                                + Running(decryption_ongoing')
    <3>1. Running(decryption_ongoing') = 1
      BY <2>1 DEF Running
    <3>2. /\ (IF decryption_ongoing THEN 0 ELSE 1) = 1 - Running(decryption_ongoing)
          /\ Running(decryption_ongoing) \in {0, 1}
      BY DEF Running
    <3> QED BY <1>0, <2>2, <3>1, <3>2
  <2> QED BY <2>1, <2>2, <2>3, <2>4, SilentTask
<1> QED BY <1>4, <1>5

(* The stop of the packet cipher drops the decryption.                   *)
LEMMA CcmStopStep ==
  ASSUME SmallInv, calls # <<>>, Op \in SmallTask, UNCHANGED small_cfg, CcmStop
  PROVE  SmallInv'
<1>0. /\ {answers_due["ECB"], answers_due["AAR"], answers_due["CCM"]} \subseteq Int
      /\ DOMAIN answers_due = {"ECB", "AAR", "CCM"} /\ decryption_ongoing \in BOOLEAN
  BY AnswersAreNumbers
<1>1. /\ UNCHANGED engineVars /\ calls' = Tail(calls) /\ decryption_ongoing' = FALSE
      /\ Due("CCM", IF decryption_ongoing THEN 0 - 1 ELSE 0)
  BY DEF CcmStop
<1>2. /\ DOMAIN answers_due' = {"ECB", "AAR", "CCM"}
      /\ answers_due'["CCM"] = answers_due["CCM"] + (IF decryption_ongoing THEN 0 - 1 ELSE 0)
      /\ answers_due'["ECB"] = answers_due["ECB"] /\ answers_due'["AAR"] = answers_due["AAR"]
  BY <1>1, AnswersDue
<1>3. /\ started' \in [Engines -> BOOLEAN] /\ DOMAIN small_timer' = Engines /\ TimersAgree'
      /\ answers_due'["ECB"] = answers_due["ECB"] - Running(started["ECB"]) + Running(started'["ECB"])
      /\ answers_due'["AAR"] = answers_due["AAR"] - Running(started["AAR"]) + Running(started'["AAR"])
  BY <1>1, <1>2, OtherEnginesStay
<1>4. \A b : Running(b) = IF b THEN 1 ELSE 0
  BY DEF Running
<1>5. answers_due'["CCM"] = answers_due["CCM"] - Running(decryption_ongoing)
                              + Running(decryption_ongoing')
  BY <1>0, <1>1, <1>2, <1>4
<1> QED BY <1>1, <1>2, <1>3, <1>5, SilentTask

(* A task of a peripheral that is not enabled.                           *)
LEMMA IgnoredStep ==
  ASSUME SmallInv, SmallTaskIgnored
  PROVE  SmallInv'
<1>0. /\ {answers_due["ECB"], answers_due["AAR"], answers_due["CCM"]} \subseteq Int
      /\ DOMAIN answers_due = {"ECB", "AAR", "CCM"} /\ decryption_ongoing \in BOOLEAN
  BY AnswersAreNumbers
<1>1. /\ UNCHANGED small_cfg /\ UNCHANGED engineVars /\ UNCHANGED <<answers_due, decryption_ongoing>>
      /\ calls' = Tail(calls) /\ calls # <<>> /\ Op \in SmallTask
  BY DEF SmallTaskIgnored, ccmVars
<1>3. /\ started' \in [Engines -> BOOLEAN] /\ DOMAIN small_timer' = Engines /\ TimersAgree'
      /\ answers_due'["ECB"] = answers_due["ECB"] - Running(started["ECB"]) + Running(started'["ECB"])
      /\ answers_due'["AAR"] = answers_due["AAR"] - Running(started["AAR"]) + Running(started'["AAR"])
  BY <1>1, OtherEnginesStay
<1>4. answers_due'["CCM"] = answers_due["CCM"] - Running(decryption_ongoing)
                              + Running(decryption_ongoing')
  <2>1. Running(decryption_ongoing) \in {0, 1}
    BY DEF Running
  <2> QED BY <1>0, <1>1, <2>1
<1> QED BY <1>0, <1>1, <1>3, <1>4, SilentTask

-----------------------------------------------------------------------------
(* Every task keeps the invariant.                                       *)
LEMMA SmallTaskStep ==
  ASSUME SmallInv, SmallTaskCall
  PROVE  SmallInv'
<1>1. calls # <<>> /\ Op \in SmallTask /\ UNCHANGED small_cfg
  BY DEF SmallTaskCall
<1>2. /\ {TempTime, RngFirstTime, EcbTime} \subseteq Nat /\ AarTimes \subseteq Nat
      /\ Head(calls)[2] \in Nat
  <2>1. Head(calls) \in SmallCall
    BY <1>1, TaskFinds
  <2> QED BY <2>1, SmallTimesAssumption DEF SmallCall
<1>3. CASE StartOnce("TEMP", TempTime) \/ StartOnce("RNG", RngFirstTime)
  BY <1>1, <1>2, <1>3, StartOnceStep
<1>4. CASE StopSilently("TEMP") \/ StopSilently("RNG")
  BY <1>1, <1>4, StopSilentlyStep
<1>5. CASE StartAgain("ECB", EcbTime)
  BY <1>1, <1>2, <1>5, StartAgainStep
<1>6. CASE \E time \in AarTimes : StartAgain("AAR", time)
  BY <1>1, <1>2, <1>6, StartAgainStep
<1>7. CASE StopAloud("ECB", "ERRORECB")
  BY <1>1, <1>7, StopAloudStep
<1>8. CASE StopAloud("AAR", "END")
  BY <1>1, <1>8, StopAloudStep
<1>9. CASE Ksgen \/ Crypt \/ CcmStop
  BY <1>1, <1>9, KsgenStep, CryptStep, CcmStopStep
<1>10. CASE Trigger(Head(calls)[2])
  BY <1>1, <1>2, <1>10, TriggerStep
<1> QED BY <1>3, <1>4, <1>5, <1>6, <1>7, <1>8, <1>9, <1>10 DEF SmallTaskCall

(* What a signal calls: the tasks of its route and of the shortcut.         *)
LEMMA SignalStep ==
  ASSUME SmallInv, SmallSignal
  PROVE  SmallInv'
<1> DEFINE short == IF Op = "ENDKSGEN" /\ small_cfg.CCM_SHORTS THEN Event("CRYPT") ELSE <<>>
           tasks == small_cfg.routes[Op] \o short
<1>1. calls # <<>> /\ Op \in SmallEvent /\ calls' = tasks \o Tail(calls)
      /\ UNCHANGED <<small_cfg, engineVars, decryption_ongoing>>
  BY DEF SmallSignal, ccmVars
<1>2. tasks \in Seq(SmallTask \X Nat)
  <2>1. small_cfg.routes[Op] \in Seq(SmallTask \X Nat)
    BY <1>1, SmallSoftwareAssumption DEF SmallInv
  <2>2. short \in Seq(SmallTask \X Nat)
    <3>1. <<"CRYPT", 0>> \in SmallTask \X Nat
      BY DEF SmallTask
    <3>2. <<<<"CRYPT", 0>>>> \in Seq(SmallTask \X Nat) /\ <<>> \in Seq(SmallTask \X Nat)
      BY <3>1
    <3> QED BY <3>2 DEF Event
  <2> QED BY <2>1, <2>2
<1>3. /\ Tail(calls) \in Seq(SmallCall) /\ Settled(Tail(calls)) /\ LastEnd(Tail(calls)) \in {0, 1}
      /\ EcbEnds(calls) = Is(Op, {"ENDECB", "ERRORECB"})
      /\ AarEnds(calls) = Is(Op, {"END"}) + LastEnd(Tail(calls))
      /\ CcmEnds(calls) = Is(Op, {"ENDCRYPT"})
  <2>1. calls \in Seq(SmallCall) /\ InOrder(calls)
    BY DEF SmallInv
  <2> QED BY <1>1, <2>1, Popped DEF Op
<1>4. /\ tasks \o Tail(calls) \in Seq(SmallCall) /\ Settled(tasks \o Tail(calls))
      /\ LastEnd(tasks \o Tail(calls)) = LastEnd(Tail(calls))
  <2> HIDE DEF tasks
  <2> QED BY <1>2, <1>3, TasksFirst
<1>5. /\ calls' \in Seq(SmallCall) /\ InOrder(calls') /\ EcbEnds(calls') = 0
      /\ AarEnds(calls') = LastEnd(Tail(calls)) /\ CcmEnds(calls') = 0
  <2>1. PICK s \in Seq(SmallCall) : s = tasks \o Tail(calls)
    BY <1>4
  <2> HIDE DEF tasks
  <2>2. Settled(s) /\ LastEnd(s) = LastEnd(Tail(calls))
    BY <1>4, <2>1
  <2>3. InOrder(s) /\ EcbEnds(s) = 0 /\ AarEnds(s) = LastEnd(s) /\ CcmEnds(s) = 0
    BY <2>2, Silent
  <2>4. calls' = s
    BY <1>1, <2>1
  <2> QED BY <2>2, <2>3, <2>4 DEF EcbEnds, AarEnds, CcmEnds, LaterEnd, FirstIs, InOrder
<1>6. /\ {answers_due["ECB"], answers_due["AAR"], answers_due["CCM"]} \subseteq Int
      /\ DOMAIN answers_due = {"ECB", "AAR", "CCM"} /\ decryption_ongoing \in BOOLEAN
  BY AnswersAreNumbers
<1>7. /\ DOMAIN answers_due' = {"ECB", "AAR", "CCM"}
      /\ answers_due'["ECB"] = answers_due["ECB"] - Is(Op, {"ENDECB", "ERRORECB"})
      /\ answers_due'["AAR"] = answers_due["AAR"] - Is(Op, {"END"})
      /\ answers_due'["CCM"] = answers_due["CCM"] - Is(Op, {"ENDCRYPT"})
  <2>1. CASE Op \in {"ENDECB", "ERRORECB"}
    <3>1. Due("ECB", 0 - 1)
      BY <2>1 DEF SmallSignal
    <3>2. /\ Is(Op, {"ENDECB", "ERRORECB"}) = 1 /\ Is(Op, {"END"}) = 0 /\ Is(Op, {"ENDCRYPT"}) = 0
      BY <2>1 DEF Is
    <3> QED BY <1>6, <3>1, <3>2 DEF Due
  <2>2. CASE Op = "END"
    <3>1. Due("AAR", 0 - 1)
      BY <2>2 DEF SmallSignal
    <3>2. /\ Is(Op, {"ENDECB", "ERRORECB"}) = 0 /\ Is(Op, {"END"}) = 1 /\ Is(Op, {"ENDCRYPT"}) = 0
      BY <2>2 DEF Is
    <3> QED BY <1>6, <3>1, <3>2 DEF Due
  <2>3. CASE Op = "ENDCRYPT"
    <3>1. Due("CCM", 0 - 1)
      BY <2>3 DEF SmallSignal
    <3>2. /\ Is(Op, {"ENDECB", "ERRORECB"}) = 0 /\ Is(Op, {"END"}) = 0 /\ Is(Op, {"ENDCRYPT"}) = 1
      BY <2>3 DEF Is
    <3> QED BY <1>6, <3>1, <3>2 DEF Due
  <2>4. CASE Op \notin {"ENDECB", "ERRORECB"} /\ Op # "END" /\ Op # "ENDCRYPT"
    <3>1. UNCHANGED answers_due
      BY <2>4 DEF SmallSignal
    <3>2. /\ Is(Op, {"ENDECB", "ERRORECB"}) = 0 /\ Is(Op, {"END"}) = 0 /\ Is(Op, {"ENDCRYPT"}) = 0
      BY <2>4 DEF Is
    <3> QED BY <1>6, <3>1, <3>2
  <2> QED BY <2>1, <2>2, <2>3, <2>4
<1>8. UNCHANGED <<small_cfg, started, small_timer, decryption_ongoing>>
  BY <1>1 DEF engineVars
<1>9. AnswersAgree'
  <2>1. AnswersAgree
    BY DEF SmallInv
  <2>2. {Running(started["ECB"]), Running(started["AAR"]), Running(decryption_ongoing)} \subseteq {0, 1}
    BY DEF Running
  <2>3. {Is(Op, {"ENDECB", "ERRORECB"}), Is(Op, {"END"}), Is(Op, {"ENDCRYPT"})} \subseteq {0, 1}
    BY DEF Is
  <2>4. answers_due'["ECB"] = Running(started["ECB"]) + EcbEnds(calls')
    BY <1>3, <1>5, <1>7, <2>1, <2>2, <2>3 DEF AnswersAgree
  <2>5. answers_due'["AAR"] = Running(started["AAR"]) + AarEnds(calls')
    BY <1>3, <1>5, <1>7, <2>1, <2>2, <2>3 DEF AnswersAgree
  <2>6. answers_due'["CCM"] = Running(decryption_ongoing) + CcmEnds(calls')
    BY <1>3, <1>5, <1>7, <2>1, <2>2, <2>3 DEF AnswersAgree
  <2> QED BY <1>8, <2>4, <2>5, <2>6 DEF AnswersAgree
<1> QED BY <1>5, <1>7, <1>8, <1>9, EngineStays DEF SmallInv

(* Nothing is due to be signalled when there is nothing to be done.         *)
LEMMA IdleAnswers ==
  ASSUME SmallInv, calls = <<>>
  PROVE  /\ answers_due["ECB"] = Running(started["ECB"]) /\ answers_due["AAR"] = Running(started["AAR"])
         /\ answers_due["CCM"] = Running(decryption_ongoing)
<1>1. EcbEnds(calls) = 0 /\ AarEnds(calls) = 0 /\ CcmEnds(calls) = 0
  BY DEF EcbEnds, AarEnds, CcmEnds, FirstIs, LaterEnd
<1>2. {Running(started["ECB"]), Running(started["AAR"]), Running(decryption_ongoing)} \subseteq {0, 1}
  BY DEF Running
<1> QED BY <1>1, <1>2 DEF SmallInv, AnswersAgree

-----------------------------------------------------------------------------
(* From idle, what is signalled are the ends of what stops running.      *)
LEMMA FromIdle ==
  ASSUME SmallInv, calls = <<>>, UNCHANGED <<small_cfg, answers_due>>,
         started' \in [Engines -> BOOLEAN], DOMAIN small_timer' = Engines, TimersAgree',
         decryption_ongoing' \in BOOLEAN,
         calls' \in Seq(SmallCall), InOrder(calls'),
         EcbEnds(calls') = Running(started["ECB"]) - Running(started'["ECB"]),
         AarEnds(calls') = Running(started["AAR"]) - Running(started'["AAR"]),
         CcmEnds(calls') = Running(decryption_ongoing) - Running(decryption_ongoing')
  PROVE  SmallInv'
<1>1. /\ answers_due["ECB"] = Running(started["ECB"]) /\ answers_due["AAR"] = Running(started["AAR"])
      /\ answers_due["CCM"] = Running(decryption_ongoing)
  BY IdleAnswers
<1>2. /\ {Running(started["ECB"]), Running(started["AAR"]), Running(decryption_ongoing)} \subseteq {0, 1}
      /\ {Running(started'["ECB"]), Running(started'["AAR"]), Running(decryption_ongoing')} \subseteq {0, 1}
  BY DEF Running
<1>3. answers_due'["ECB"] = Running(started'["ECB"]) + EcbEnds(calls')
  BY <1>1, <1>2
<1>4. answers_due'["AAR"] = Running(started'["AAR"]) + AarEnds(calls')
  BY <1>1, <1>2
<1>5. answers_due'["CCM"] = Running(decryption_ongoing') + CcmEnds(calls')
  BY <1>1, <1>2
<1>6. AnswersAgree'
  BY <1>3, <1>4, <1>5 DEF AnswersAgree
<1> QED BY <1>6 DEF SmallInv, InOrder

(* The only call that is to be made.                                     *)
LEMMA Alone ==
  ASSUME NEW call \in SmallCall, NEW s, s = <<call>>
  PROVE  /\ s \in Seq(SmallCall) /\ Settled(<<>>) /\ InOrder(s)
         /\ EcbEnds(s) = Is(call[1], {"ENDECB", "ERRORECB"}) /\ AarEnds(s) = Is(call[1], {"END"})
         /\ CcmEnds(s) = Is(call[1], {"ENDCRYPT"})
<1>1. s \in Seq(SmallCall) /\ s # <<>> /\ Head(s) = call /\ Tail(s) = <<>>
  OBVIOUS
<1>2. Settled(<<>>) /\ LastEnd(<<>>) = 0
  BY DEF Settled, LastEnd
<1>3. InOrder(s) /\ LaterEnd(s) = 0
  BY <1>1, <1>2 DEF InOrder, LaterEnd
<1>4. /\ FirstIs(s, {"ENDECB", "ERRORECB"}) = Is(call[1], {"ENDECB", "ERRORECB"})
      /\ FirstIs(s, {"END"}) = Is(call[1], {"END"})
      /\ FirstIs(s, {"ENDCRYPT"}) = Is(call[1], {"ENDCRYPT"})
  BY <1>1 DEF FirstIs, Is
<1>5. Is(call[1], {"END"}) \in {0, 1}
  BY DEF Is
<1> QED BY <1>1, <1>2, <1>3, <1>4, <1>5 DEF EcbEnds, AarEnds, CcmEnds

(* What is due was running.                                              *)
LEMMA IdleTimer ==
  ASSUME SmallInv, NEW e \in Engines, IsDue(e)
  PROVE  started[e]
BY DEF SmallInv, TimersAgree, IsDue, SMALL_NEVER

(* The thermometer or the random number generator is done.               *)
LEMMA TempTimerStep ==
  ASSUME SmallInv, TempTimerTriggered \/ RngTimerTriggered
  PROVE  SmallInv'
<1>1. /\ calls = <<>> /\ UNCHANGED <<small_cfg, answers_due, decryption_ongoing>>
      /\ \E event \in {"DATARDY", "VALRDY"} : calls' = <<<<event, 0>>>>
      /\ \E e \in {"TEMP", "RNG"}, b \in BOOLEAN, time \in Nat \union {SMALL_NEVER} :
           Set(e, b, time) /\ (b => time \in Nat) /\ (~b => time = SMALL_NEVER)
  <2>1. RngTime \in Nat
    BY SmallTimesAssumption
  <2>2. CASE TempTimerTriggered
    BY <2>2 DEF TempTimerTriggered, IsDue, ccmVars, Event
  <2>3. CASE RngTimerTriggered
    <3>1. CASE small_cfg.RNG_SHORTS
      BY <2>3, <3>1 DEF RngTimerTriggered, IsDue, ccmVars, Event
    <3>2. CASE ~small_cfg.RNG_SHORTS
      BY <2>1, <2>3, <3>2 DEF RngTimerTriggered, IsDue, ccmVars, Event
    <3> QED BY <3>1, <3>2
  <2> QED BY <2>2, <2>3
<1>2. PICK event \in {"DATARDY", "VALRDY"} : calls' = <<<<event, 0>>>>
  BY <1>1
<1>3. PICK e \in {"TEMP", "RNG"}, b \in BOOLEAN, time \in Nat \union {SMALL_NEVER} :
        Set(e, b, time) /\ (b => time \in Nat) /\ (~b => time = SMALL_NEVER)
  BY <1>1
<1>4. /\ started' \in [Engines -> BOOLEAN] /\ DOMAIN small_timer' = Engines /\ TimersAgree'
      /\ started'["ECB"] = started["ECB"] /\ started'["AAR"] = started["AAR"]
  <2>1. e \in Engines /\ "ECB" \in Engines \ {e} /\ "AAR" \in Engines \ {e}
    BY DEF Engines
  <2> QED BY <1>3, <2>1, EngineSet
<1>5. <<event, 0>> \in SmallCall
  BY DEF SmallCall, SmallEvent
<1>6. /\ calls' \in Seq(SmallCall) /\ InOrder(calls') /\ EcbEnds(calls') = 0
      /\ AarEnds(calls') = 0 /\ CcmEnds(calls') = 0
  <2>1. /\ Is(event, {"ENDECB", "ERRORECB"}) = 0 /\ Is(event, {"END"}) = 0
        /\ Is(event, {"ENDCRYPT"}) = 0 /\ <<event, 0>>[1] = event
    BY DEF Is
  <2> QED BY <1>2, <1>5, <2>1, Alone
<1>7. {Running(started["ECB"]), Running(started["AAR"]), Running(decryption_ongoing)} \subseteq {0, 1}
  BY DEF Running
<1>8. decryption_ongoing' \in BOOLEAN /\ decryption_ongoing' = decryption_ongoing
  BY <1>1 DEF SmallInv
<1>9. /\ EcbEnds(calls') = Running(started["ECB"]) - Running(started'["ECB"])
      /\ AarEnds(calls') = Running(started["AAR"]) - Running(started'["AAR"])
      /\ CcmEnds(calls') = Running(decryption_ongoing) - Running(decryption_ongoing')
  BY <1>4, <1>6, <1>7, <1>8
<1> QED BY <1>1, <1>4, <1>6, <1>8, <1>9, FromIdle

(* The cipher is done.                                                   *)
LEMMA EcbTimerStep ==
  ASSUME SmallInv, EcbTimerTriggered
  PROVE  SmallInv'
<1>1. /\ calls = <<>> /\ UNCHANGED <<small_cfg, answers_due, decryption_ongoing>>
      /\ calls' = <<<<"ENDECB", 0>>>> /\ Set("ECB", FALSE, SMALL_NEVER) /\ IsDue("ECB")
  BY DEF EcbTimerTriggered, IsDue, ccmVars, Event
<1>2. started["ECB"]
  BY <1>1, IdleTimer DEF Engines
<1>3. /\ started' \in [Engines -> BOOLEAN] /\ DOMAIN small_timer' = Engines /\ TimersAgree'
      /\ started'["ECB"] = FALSE /\ started'["AAR"] = started["AAR"]
  <2>1. "ECB" \in Engines /\ "AAR" \in Engines \ {"ECB"}
    BY DEF Engines
  <2> QED BY <1>1, <2>1, EngineSet
<1>4. <<"ENDECB", 0>> \in SmallCall
  BY DEF SmallCall, SmallEvent
<1>5. /\ calls' \in Seq(SmallCall) /\ InOrder(calls') /\ EcbEnds(calls') = 1
      /\ AarEnds(calls') = 0 /\ CcmEnds(calls') = 0
  <2>1. /\ Is("ENDECB", {"ENDECB", "ERRORECB"}) = 1 /\ Is("ENDECB", {"END"}) = 0
        /\ Is("ENDECB", {"ENDCRYPT"}) = 0 /\ <<"ENDECB", 0>>[1] = "ENDECB"
    BY DEF Is
  <2> QED BY <1>1, <1>4, <2>1, Alone
<1>6. Running(started["ECB"]) = 1 /\ Running(started'["ECB"]) = 0
  BY <1>2, <1>3 DEF Running
<1>7. {Running(started["AAR"]), Running(decryption_ongoing)} \subseteq {0, 1}
  BY DEF Running
<1>8. decryption_ongoing' \in BOOLEAN /\ decryption_ongoing' = decryption_ongoing
  BY <1>1 DEF SmallInv
<1>9. /\ EcbEnds(calls') = Running(started["ECB"]) - Running(started'["ECB"])
      /\ AarEnds(calls') = Running(started["AAR"]) - Running(started'["AAR"])
      /\ CcmEnds(calls') = Running(decryption_ongoing) - Running(decryption_ongoing')
  BY <1>3, <1>5, <1>6, <1>7, <1>8
<1> QED BY <1>1, <1>3, <1>5, <1>8, <1>9, FromIdle

(* The resolver is done: its result is signalled, and then its end.      *)
LEMMA AarTimerStep ==
  ASSUME SmallInv, AarTimerTriggered
  PROVE  SmallInv'
<1>1. /\ calls = <<>> /\ UNCHANGED <<small_cfg, answers_due, decryption_ongoing>>
      /\ Set("AAR", FALSE, SMALL_NEVER) /\ IsDue("AAR")
      /\ \E event \in {"RESOLVED", "NOTRESOLVED"} : calls' = <<<<event, 0>>>> \o <<<<"END", 0>>>>
  BY DEF AarTimerTriggered, IsDue, ccmVars, Event
<1>2. started["AAR"]
  BY <1>1, IdleTimer DEF Engines
<1>3. /\ started' \in [Engines -> BOOLEAN] /\ DOMAIN small_timer' = Engines /\ TimersAgree'
      /\ started'["AAR"] = FALSE /\ started'["ECB"] = started["ECB"]
  <2>1. "AAR" \in Engines /\ "ECB" \in Engines \ {"AAR"}
    BY DEF Engines
  <2> QED BY <1>1, <2>1, EngineSet
<1>4. PICK t \in Seq(SmallCall) : t = <<<<"END", 0>>>> /\ Settled(t) /\ LastEnd(t) = 1
  <2>1. <<"END", 0>> \in SmallCall
    BY DEF SmallCall, SmallEvent
  <2>2. PICK t \in Seq(SmallCall) : t = <<<<"END", 0>>>>
    <3>1. <<<<"END", 0>>>> \in Seq(SmallCall)
      BY <2>1
    <3> QED BY <3>1, Zenon
  <2>3. Len(t) = 1 /\ t[1] = <<"END", 0>> /\ t # <<>>
    BY <2>2
  <2>4. LastEnd(t) = 1
    BY <2>3 DEF LastEnd
  <2>5. Settled(t)
    <3>1. t[1][1] = "END"
      BY <2>3
    <3>2. \A i \in 1 .. Len(t) : t[i][1] = "END" /\ i = Len(t)
      BY <2>3, <3>1
    <3> QED BY <3>2 DEF Settled
  <2> QED BY <2>2, <2>4, <2>5
<1>5. PICK event \in {"RESOLVED", "NOTRESOLVED"} : calls' = <<<<event, 0>>>> \o t
  BY <1>1, <1>4
<1>6. /\ calls' \in Seq(SmallCall) /\ InOrder(calls') /\ EcbEnds(calls') = 0
      /\ AarEnds(calls') = 1 /\ CcmEnds(calls') = 0
  <2>1. /\ Is(event, {"ENDECB", "ERRORECB"}) = 0 /\ Is(event, {"END"}) = 0
        /\ Is(event, {"ENDCRYPT"}) = 0 /\ event \in SmallEvent
    BY DEF Is, SmallEvent
  <2>2. 0 \in Nat
    OBVIOUS
  <2>3. /\ calls' \in Seq(SmallCall) /\ InOrder(calls')
        /\ EcbEnds(calls') = Is(event, {"ENDECB", "ERRORECB"})
        /\ AarEnds(calls') = Is(event, {"END"}) + LastEnd(t)
        /\ CcmEnds(calls') = Is(event, {"ENDCRYPT"})
    BY <1>4, <1>5, <2>1, <2>2, Aloud, Zenon
  <2> QED BY <1>4, <2>1, <2>3
<1>7. Running(started["AAR"]) = 1 /\ Running(started'["AAR"]) = 0
  BY <1>2, <1>3 DEF Running
<1>8. {Running(started["ECB"]), Running(decryption_ongoing)} \subseteq {0, 1}
  BY DEF Running
<1>9. decryption_ongoing' \in BOOLEAN /\ decryption_ongoing' = decryption_ongoing
  BY <1>1 DEF SmallInv
<1>10. /\ EcbEnds(calls') = Running(started["ECB"]) - Running(started'["ECB"])
       /\ AarEnds(calls') = Running(started["AAR"]) - Running(started'["AAR"])
       /\ CcmEnds(calls') = Running(decryption_ongoing) - Running(decryption_ongoing')
  BY <1>3, <1>6, <1>7, <1>8, <1>9
<1> QED BY <1>1, <1>3, <1>6, <1>9, <1>10, FromIdle

(* The packet of the decryption is there.                                *)
LEMMA ReceivedStep ==
  ASSUME SmallInv, RadioReceivedPacket
  PROVE  SmallInv'
<1>1. /\ calls = <<>> /\ UNCHANGED <<small_cfg, answers_due, started, small_timer>>
      /\ decryption_ongoing /\ decryption_ongoing' = FALSE /\ calls' = <<<<"ENDCRYPT", 0>>>>
  BY DEF RadioReceivedPacket, engineVars, Event
<1>2. started' \in [Engines -> BOOLEAN] /\ DOMAIN small_timer' = Engines /\ TimersAgree'
  BY <1>1, EngineStays
<1>3. <<"ENDCRYPT", 0>> \in SmallCall
  BY DEF SmallCall, SmallEvent
<1>4. /\ calls' \in Seq(SmallCall) /\ InOrder(calls') /\ EcbEnds(calls') = 0
      /\ AarEnds(calls') = 0 /\ CcmEnds(calls') = 1
  <2>1. /\ Is("ENDCRYPT", {"ENDECB", "ERRORECB"}) = 0 /\ Is("ENDCRYPT", {"END"}) = 0
        /\ Is("ENDCRYPT", {"ENDCRYPT"}) = 1 /\ <<"ENDCRYPT", 0>>[1] = "ENDCRYPT"
    BY DEF Is
  <2> QED BY <1>1, <1>3, <2>1, Alone
<1>5. Running(decryption_ongoing) = 1 /\ Running(decryption_ongoing') = 0
  BY <1>1 DEF Running
<1>6. {Running(started["AAR"]), Running(started["ECB"])} \subseteq {0, 1}
  BY DEF Running
<1>7. /\ EcbEnds(calls') = Running(started["ECB"]) - Running(started'["ECB"])
      /\ AarEnds(calls') = Running(started["AAR"]) - Running(started'["AAR"])
      /\ CcmEnds(calls') = Running(decryption_ongoing) - Running(decryption_ongoing')
  <2>1. /\ Running(started'["ECB"]) = Running(started["ECB"])
        /\ Running(started'["AAR"]) = Running(started["AAR"])
    BY <1>1
  <2> QED BY <1>4, <1>5, <1>6, <2>1
<1>8. decryption_ongoing' \in BOOLEAN
  BY <1>1
<1> QED BY <1>1, <1>2, <1>4, <1>7, <1>8, FromIdle

(* The software writes a task to an idle peripheral.                        *)
LEMMA SoftwareTaskStep ==
  ASSUME SmallInv, SmallSoftwareTask
  PROVE  SmallInv'
<1>1. /\ calls = <<>>
      /\ UNCHANGED <<small_cfg, answers_due, started, small_timer, decryption_ongoing>>
  BY DEF SmallSoftwareTask, engineVars, ccmVars
<1>2. PICK task \in SmallTask, n \in EguEvents : calls' = <<<<task, n>>>>
  BY DEF SmallSoftwareTask
<1>3. <<task, n>> \in SmallCall /\ <<task, n>>[1] = task
  BY SmallSoftwareAssumption DEF SmallCall
<1>4. /\ calls' \in Seq(SmallCall) /\ InOrder(calls') /\ EcbEnds(calls') = 0
      /\ AarEnds(calls') = 0 /\ CcmEnds(calls') = 0
  <2>1. /\ Is(task, {"ENDECB", "ERRORECB"}) = 0 /\ Is(task, {"END"}) = 0
        /\ Is(task, {"ENDCRYPT"}) = 0
    BY DEF Is, SmallTask
  <2> QED BY <1>2, <1>3, <2>1, Alone
<1>5. started' \in [Engines -> BOOLEAN] /\ DOMAIN small_timer' = Engines /\ TimersAgree'
  BY <1>1, EngineStays
<1>6. {Running(started["AAR"]), Running(started["ECB"]), Running(decryption_ongoing)} \subseteq {0, 1}
  BY DEF Running
<1>7. decryption_ongoing' \in BOOLEAN /\ decryption_ongoing' = decryption_ongoing
  BY <1>1 DEF SmallInv
<1>8. /\ EcbEnds(calls') = Running(started["ECB"]) - Running(started'["ECB"])
      /\ AarEnds(calls') = Running(started["AAR"]) - Running(started'["AAR"])
      /\ CcmEnds(calls') = Running(decryption_ongoing) - Running(decryption_ongoing')
  BY <1>1, <1>4, <1>6, <1>7
<1> QED BY <1>1, <1>4, <1>5, <1>7, <1>8, FromIdle

-----------------------------------------------------------------------------
(* Time passes, if nothing is due.                                       *)
LEMMA SmallTickStep ==
  ASSUME SmallInv, SmallTick
  PROVE  SmallInv'
<1>1. /\ calls = <<>> /\ UNCHANGED <<small_cfg, answers_due, started, decryption_ongoing, calls>>
      /\ small_timer' = [e \in Engines |-> IF small_timer[e] = SMALL_NEVER THEN SMALL_NEVER
                                                                          ELSE small_timer[e] - 1]
      /\ \A e \in Engines : small_timer[e] # 0
  BY DEF SmallTick, ccmVars
<1>2. TimersAgree'
  <2>1. SUFFICES ASSUME NEW e \in Engines
                 PROVE  /\ small_timer'[e] \in Nat \union {SMALL_NEVER}
                        /\ started'[e] <=> small_timer'[e] # SMALL_NEVER
    BY DEF TimersAgree
  <2>2. /\ small_timer[e] \in Nat \union {SMALL_NEVER} /\ small_timer[e] # 0
        /\ started[e] <=> small_timer[e] # SMALL_NEVER
    BY <1>1 DEF SmallInv, TimersAgree
  <2>3. CASE small_timer[e] = SMALL_NEVER
    BY <1>1, <2>2, <2>3
  <2>4. CASE small_timer[e] # SMALL_NEVER
    <3>1. small_timer'[e] = small_timer[e] - 1 /\ small_timer[e] \in Nat \ {0}
      BY <1>1, <2>2, <2>4
    <3>2. small_timer'[e] \in Nat /\ small_timer'[e] # SMALL_NEVER
      BY <3>1 DEF SMALL_NEVER
    <3> QED BY <1>1, <2>2, <2>4, <3>2
  <2> QED BY <2>3, <2>4
<1>3. DOMAIN small_timer' = Engines
  BY <1>1
<1>4. AnswersAgree'
  BY <1>1 DEF SmallInv, AnswersAgree, EcbEnds, AarEnds, CcmEnds, FirstIs, LaterEnd
<1> QED BY <1>1, <1>2, <1>3, <1>4 DEF SmallInv, InOrder

(* The steps that change none of what the invariant is about.               *)
LEMMA UnseenStep ==
  ASSUME SmallInv, \/ SmallSoftwareMode \/ EguSoftwareInterrupts \/ UNCHANGED smallVars
  PROVE  SmallInv'
<1>1. UNCHANGED <<small_cfg, answers_due, started, small_timer, decryption_ongoing, calls>>
  BY DEF SmallSoftwareMode, EguSoftwareInterrupts, smallVars, engineVars, ccmVars
<1> QED BY <1>1 DEF SmallInv, AnswersAgree, TimersAgree, InOrder, EcbEnds, AarEnds, CcmEnds,
                    FirstIs, LaterEnd

(* The invariant holds, whatever the PPI starts or stops in the middle   *)
(* of the signals.                                                       *)
THEOREM SmallInvariant == SmallSpec => []SmallInv
<1>1. SmallInit => SmallInv
  <2>1. SUFFICES ASSUME SmallInit PROVE SmallInv
    OBVIOUS
  <2>2. calls = <<>> /\ calls \in Seq(SmallCall) /\ InOrder(calls)
    BY <2>1 DEF SmallInit, InOrder
  <2>3. EcbEnds(calls) = 0 /\ AarEnds(calls) = 0 /\ CcmEnds(calls) = 0
    BY <2>2 DEF EcbEnds, AarEnds, CcmEnds, FirstIs, LaterEnd
  <2>4. TimersAgree
    BY <2>1 DEF SmallInit, TimersAgree
  <2>5. AnswersAgree
    BY <2>1, <2>3 DEF SmallInit, AnswersAgree, Running, Engines
  <2> QED BY <2>1, <2>2, <2>4, <2>5 DEF SmallInit, SmallInv
<1>2. SmallInv /\ [SmallNext]_smallVars => SmallInv'
  <2>1. SUFFICES ASSUME SmallInv, [SmallNext]_smallVars PROVE SmallInv'
    OBVIOUS
  <2>2. CASE SmallTaskCall
    BY <2>1, <2>2, SmallTaskStep
  <2>3. CASE SmallTaskIgnored
    BY <2>1, <2>3, IgnoredStep
  <2>4. CASE SmallSignal
    BY <2>1, <2>4, SignalStep
  <2>5. CASE TempTimerTriggered \/ RngTimerTriggered
    BY <2>1, <2>5, TempTimerStep
  <2>6. CASE EcbTimerTriggered
    BY <2>1, <2>6, EcbTimerStep
  <2>7. CASE AarTimerTriggered
    BY <2>1, <2>7, AarTimerStep
  <2>8. CASE RadioReceivedPacket
    BY <2>1, <2>8, ReceivedStep
  <2>9. CASE SmallTick
    BY <2>1, <2>9, SmallTickStep
  <2>10. CASE SmallSoftwareTask
    BY <2>1, <2>10, SoftwareTaskStep
  <2>11. CASE SmallSoftwareMode \/ EguSoftwareInterrupts \/ UNCHANGED smallVars
    BY <2>1, <2>11, UnseenStep
  <2> QED BY <2>1, <2>2, <2>3, <2>4, <2>5, <2>6, <2>7, <2>8, <2>9, <2>10, <2>11 DEF SmallNext
<1> QED BY <1>1, <1>2, PTL DEF SmallSpec

(* Each start of the ciphers and of the resolver is answered once, by    *)
(* its end, an error or a stop, and what runs has its timer running.     *)
THEOREM SmallAnswers == SmallSpec => []EachStartIsAnsweredOnce
<1>1. SmallInv => EachStartIsAnsweredOnce
  BY IdleAnswers DEF SmallInv, TimersAgree, EachStartIsAnsweredOnce, Running
<1> QED BY <1>1, SmallInvariant, PTL

(* The interrupt line of the EGU is the level of its enabled events.     *)
THEOREM EguLine == SmallSpec => []EguLineFollowsEvents
<1>1. SmallInit => EguLineFollowsEvents
  BY DEF SmallInit, EguLineFollowsEvents
<1>2. EguLineFollowsEvents /\ [SmallNext]_smallVars => EguLineFollowsEvents'
  <2>1. SUFFICES ASSUME EguLineFollowsEvents, [SmallNext]_smallVars PROVE EguLineFollowsEvents'
    OBVIOUS
  <2>2. CASE UNCHANGED eguVars
    BY <2>1, <2>2 DEF EguLineFollowsEvents, eguVars
  <2>3. CASE EguEvalInterrupt
    BY <2>3 DEF EguEvalInterrupt, EguLineFollowsEvents
  <2>4. CASE SmallTaskCall
    <3>1. UNCHANGED eguVars \/ EguEvalInterrupt
      BY <2>4 DEF SmallTaskCall, StartOnce, StopSilently, StartAgain, StopAloud, Ksgen, Crypt,
                  CcmStop, Trigger
    <3> QED BY <3>1, <2>2, <2>3
  <2>5. CASE EguSoftwareInterrupts
    BY <2>5, <2>3 DEF EguSoftwareInterrupts, EguInterrupts
  <2>6. CASE SmallTaskIgnored \/ SmallSignal \/ TempTimerTriggered \/ RngTimerTriggered
             \/ EcbTimerTriggered \/ AarTimerTriggered
    BY <2>2, <2>6 DEF SmallTaskIgnored, SmallSignal, TempTimerTriggered, RngTimerTriggered,
                      EcbTimerTriggered, AarTimerTriggered
  <2>7. CASE RadioReceivedPacket \/ SmallTick \/ SmallSoftwareTask \/ SmallSoftwareMode
             \/ UNCHANGED smallVars
    BY <2>2, <2>7 DEF RadioReceivedPacket, SmallTick, SmallSoftwareTask, SmallSoftwareMode, smallVars
  <2> QED BY <2>1, <2>4, <2>5, <2>6, <2>7 DEF SmallNext
<1> QED BY <1>1, <1>2, PTL DEF SmallSpec
=============================================================================
