------------------------------ MODULE NrfTimer ------------------------------
(***************************************************************************)
(* The TIMER peripherals (NRF_TIMER.c): counters of microseconds or of the *)
(* task COUNT, compared with the CC registers.  In timer mode the code     *)
(* keeps no counter, but the time at which it would have been 0, and for   *)
(* each comparator (a timer and one of its CC registers) the time of its   *)
(* next match.                                                             *)
(*                                                                         *)
(* The matches of one time are collected first and then signalled, from    *)
(* the last; each may call tasks, in the middle of that, through the PPI.  *)
(* "tmr_todo" is what is still to be done, first things first, each a pair *)
(* of an operation and the comparator (or its timer) that it is about, or  *)
(* of a loop and the comparators that it has still to serve.               *)
(***************************************************************************)
EXTENDS Integers, Sequences

CONSTANTS
  Comparators,       \* the pairs <<timer, cc>>, in the order of the loops over them
  UsPerTick,         \* microseconds of a tick, 2^PRESCALER / 16, or 1 ...
  TicksPerUs,        \* ... if a microsecond has several ticks, 16 / 2^PRESCALER
  BitMask,           \* mask_from_bitmode(): the greatest count
  SwTasks,           \* the tasks, with their comparator, that the software triggers
  SwCcs,             \* <<comparator, value>>: the software's writes to CC registers
  SwInts,            \* the comparators whose events the software enables and handles
  TimerSettings,     \* [mode, shorts, routes]: what the software configures
  TimerHorizon       \* bound: the end of time

ASSUME BitMaskAssumption == BitMask \in Nat \ {0}

(* The base clock has 16 periods in a microsecond, and PRESCALER is the     *)
(* power of 2 of them that a tick takes; the narrowest counter, of 8 bits,  *)
(* wraps after several microseconds.                                       *)
ASSUME TickAssumption ==
  /\ UsPerTick \in Nat \ {0} /\ TicksPerUs \in Nat \ {0}
  /\ UsPerTick = 1 \/ TicksPerUs = 1
  /\ (BitMask + 1) % TicksPerUs = 0 /\ TicksPerUs <= BitMask

ASSUME TimerHorizonAssumption == TimerHorizon \in Nat
ASSUME ComparatorsAssumption  == Comparators \in Seq(Nat \X Nat) /\ Comparators # <<>>

Comparator == {Comparators[i] : i \in DOMAIN Comparators}
TimerId    == {c[1] : c \in Comparator}
TimerTasks == {"START", "STOP", "SHUTDOWN", "CLEAR", "CAPTURE", "COUNT"}
TimerCall  == TimerTasks \X Comparator

(* The software writes to CC counts that the timer can reach; for a greater *)
(* one the first match would come after a whole wrap (NRF_TIMER.c:152-156). *)
ASSUME TimerSoftwareAssumption ==
  /\ SwTasks \subseteq TimerCall
  /\ SwCcs \subseteq Comparator \X (0 .. BitMask)
  /\ SwInts \subseteq Comparator

(* Only CLEAR and STOP have shortcuts, and the PPI calls tasks.            *)
ASSUME TimerSettingsAssumption ==
  \A setting \in TimerSettings :
    /\ setting.mode \in [TimerId -> {"timer", "count"}]
    /\ setting.shorts \subseteq {"CLEAR", "STOP"} \X Comparator
    /\ setting.routes \in [Comparator -> Seq(TimerCall)]

(* Mutant: the base clock of 1 MHz.                                        *)
TimeToCounterSlow(delta) == delta \div UsPerTick

TimeToCounter(delta)   == (delta * TicksPerUs) \div UsPerTick
CounterToTime(counter) == (counter * UsPerTick) \div TicksPerUs

WrapTime   == CounterToTime(BitMask + 1)          \* time_of_1_counter_wrap()
TMR_NEVER  == TimerHorizon + 3 * WrapTime         \* TIME_NEVER

VARIABLES
  tmr_now,               \* external: the time of the engine
  tmr_cfg,               \* MODE and SHORTS of the timers; the tasks the PPI calls
  Timer_running,
  Timer_counter_startT,  \* the time at which the counter was, or would be, 0
  Counter,               \* in count mode, and in timer mode while stopped
  CC, CC_timers, Timer_TIMERs,
  EVENTS_COMPARE,        \* of SwInts: nothing reads the others
  TIMER_INTEN, TIMER_int_line,
  tmr_todo,              \* the calls still to be made
  elapsed                \* auxiliary: the microseconds (tasks in count mode) counted

countVars == <<Timer_running, Timer_counter_startT, Counter, elapsed>>
matchVars == <<CC, CC_timers, Timer_TIMERs>>
eventVars == <<EVENTS_COMPARE, TIMER_INTEN, TIMER_int_line>>
tmrVars == <<tmr_now, tmr_cfg, countVars, matchVars, eventVars, tmr_todo>>

-----------------------------------------------------------------------------
IsTimer(t) == tmr_cfg.mode[t] = "timer"

(* The loop of update_cc_timer(): the first match later than now.          *)
NextMatch(start, count) ==
  LET first == start + CounterToTime(count)
  IN  IF first > tmr_now THEN first
      ELSE first + ((tmr_now - first) \div WrapTime + 1) * WrapTime

(* update_cc_timer(), with the values that its caller has just assigned.   *)
CcTimer(c) ==
  IF Timer_running'[c[1]] /\ IsTimer(c[1])
    THEN NextMatch(Timer_counter_startT'[c[1]], CC'[c])
    ELSE TMR_NEVER

CcTimersOf(t) ==
  [c \in Comparator |-> IF c[1] = t THEN CcTimer(c) ELSE CC_timers[c]]

(* update_master_timer().                                                  *)
FirstMatch ==
  LET times == {CC_timers'[c] : c \in {d \in Comparator : Timer_running'[d[1]] /\ IsTimer(d[1])}}
                 \union {TMR_NEVER}
  IN  CHOOSE time \in times : \A u \in times : time <= u

(* nrf_timer_eval_interrupts(): the line is the level of the enabled events. *)
TimerEvalInterrupts(t) ==
  TIMER_int_line' = [TIMER_int_line EXCEPT ![t] =
     \E c \in SwInts : c[1] = t /\ EVENTS_COMPARE'[c] /\ c \in TIMER_INTEN']

(* nrf_hw_model_timer_init().                                              *)
TimerInit ==
  /\ tmr_now = 0
  /\ tmr_cfg \in TimerSettings
  /\ Timer_running = [t \in TimerId |-> FALSE]
  /\ Timer_counter_startT = [t \in TimerId |-> TMR_NEVER]
  /\ Counter = [t \in TimerId |-> 0]
  /\ elapsed = [t \in TimerId |-> 0]
  /\ CC = [c \in Comparator |-> 0]
  /\ CC_timers = [c \in Comparator |-> TMR_NEVER]
  /\ Timer_TIMERs = TMR_NEVER
  /\ EVENTS_COMPARE = [c \in SwInts |-> FALSE]
  /\ TIMER_INTEN = {}
  /\ TIMER_int_line = [t \in TimerId |-> FALSE]
  /\ tmr_todo = <<>>

-----------------------------------------------------------------------------
(* Tasks.  Each changes a part of countVars and matchVars.                 *)

TimerTASK_START(t) ==
  IF Timer_running[t] THEN UNCHANGED <<countVars, matchVars>>
  ELSE /\ Timer_running' = [Timer_running EXCEPT ![t] = TRUE]
       /\ Timer_counter_startT' = IF IsTimer(t)
            THEN [Timer_counter_startT EXCEPT ![t] = tmr_now - CounterToTime(Counter[t])]
            ELSE Timer_counter_startT
       /\ UNCHANGED <<Counter, elapsed, CC>>
       /\ IF IsTimer(t) THEN CC_timers' = CcTimersOf(t) /\ Timer_TIMERs' = FirstMatch
                        ELSE UNCHANGED <<CC_timers, Timer_TIMERs>>

TimerTASK_STOP(t) ==
  IF ~Timer_running[t] THEN UNCHANGED <<countVars, matchVars>>
  ELSE /\ Timer_running' = [Timer_running EXCEPT ![t] = FALSE]
       /\ Counter' = IF IsTimer(t)
            THEN [Counter EXCEPT ![t] = TimeToCounter(tmr_now - Timer_counter_startT[t])]
            ELSE Counter
       /\ elapsed' = [elapsed EXCEPT ![t] = IF IsTimer(t) THEN @ - (@ % UsPerTick) ELSE @]
       /\ UNCHANGED <<Timer_counter_startT, CC>>
       /\ CC_timers' = CcTimersOf(t)
       /\ Timer_TIMERs' = FirstMatch

TimerTASK_SHUTDOWN(t) ==
  /\ Timer_running' = [Timer_running EXCEPT ![t] = FALSE]
  /\ Counter' = [Counter EXCEPT ![t] = 0]
  /\ Timer_counter_startT' = [Timer_counter_startT EXCEPT ![t] = TMR_NEVER]
  /\ elapsed' = [elapsed EXCEPT ![t] = 0]
  /\ UNCHANGED CC
  /\ CC_timers' = CcTimersOf(t)
  /\ Timer_TIMERs' = FirstMatch

TimerTASK_CLEAR(t) ==
  /\ Counter' = [Counter EXCEPT ![t] = 0]
  /\ elapsed' = [elapsed EXCEPT ![t] = 0]
  /\ UNCHANGED <<Timer_running, CC>>
  /\ IF IsTimer(t)
       THEN /\ Timer_counter_startT' = [Timer_counter_startT EXCEPT ![t] = tmr_now]
            /\ CC_timers' = CcTimersOf(t)
            /\ Timer_TIMERs' = FirstMatch
       ELSE UNCHANGED <<Timer_counter_startT, CC_timers, Timer_TIMERs>>

(* A time difference, of unsigned 64-bit numbers: TIME_NEVER is the greatest. *)
SinceStart(t) ==
  IF Timer_counter_startT[t] = TMR_NEVER THEN tmr_now + 1 ELSE tmr_now - Timer_counter_startT[t]

(* What a capture reads: for a timer that was never started it is garbage  *)
(* (the code warns), for one that is stopped, the count it would have had  *)
(* without the stop.                                                       *)
Captured(t) ==
  (IF IsTimer(t) THEN TimeToCounter(SinceStart(t)) ELSE Counter[t]) % (BitMask + 1)

TimerTASK_CAPTURE(c) ==
  /\ CC' = [CC EXCEPT ![c] = Captured(c[1])]
  /\ UNCHANGED countVars
  /\ IF IsTimer(c[1])
       THEN CC_timers' = [CC_timers EXCEPT ![c] = CcTimer(c)] /\ Timer_TIMERs' = FirstMatch
       ELSE UNCHANGED <<CC_timers, Timer_TIMERs>>

(* nrf_timer_TASK_COUNT(), up to its loop.                                 *)
TimerTASK_COUNT(t) ==
  IF IsTimer(t) \/ ~Timer_running[t] THEN UNCHANGED <<countVars, matchVars>>
  ELSE /\ Counter' = [Counter EXCEPT ![t] = (@ + 1) % (BitMask + 1)]
       /\ elapsed' = [elapsed EXCEPT ![t] = (@ + 1) % (BitMask + 1)]
       /\ UNCHANGED <<Timer_running, Timer_counter_startT, matchVars>>

TimerTask(op, c) ==
  \/ op = "START"    /\ TimerTASK_START(c[1])
  \/ op = "STOP"     /\ TimerTASK_STOP(c[1])
  \/ op = "SHUTDOWN" /\ TimerTASK_SHUTDOWN(c[1])
  \/ op = "CLEAR"    /\ TimerTASK_CLEAR(c[1])
  \/ op = "CAPTURE"  /\ TimerTASK_CAPTURE(c)
  \/ op = "COUNT"    /\ TimerTASK_COUNT(c[1])

(* A loop with some comparators still to serve, in the order of the loops  *)
(* over them or from the last.                                             *)
Loop(op, set) == IF set = {} THEN <<>> ELSE <<<<op, set>>>>

FirstOf(set) ==
  Comparators[CHOOSE i \in DOMAIN Comparators :
                /\ Comparators[i] \in set
                /\ \A j \in DOMAIN Comparators : Comparators[j] \in set => i <= j]

LastOf(set) ==
  Comparators[CHOOSE i \in DOMAIN Comparators :
                /\ Comparators[i] \in set
                /\ \A j \in DOMAIN Comparators : Comparators[j] \in set => j <= i]

(* What a task leaves to be done: the loop of nrf_timer_TASK_COUNT().      *)
AfterTask(op, c) ==
  IF op = "COUNT" /\ ~IsTimer(c[1]) /\ Timer_running[c[1]]
    THEN Loop("compare", {d \in Comparator : d[1] = c[1]})
    ELSE <<>>

(* nrf_timer_signal_COMPARE(): the shortcuts, then the event.              *)
Shortcut(op, c) == IF <<op, c>> \in tmr_cfg.shorts THEN <<<<op, c>>>> ELSE <<>>
SignalCompare(c) == Shortcut("CLEAR", c) \o Shortcut("STOP", c) \o <<<<"event", c>>>>

-----------------------------------------------------------------------------
(* The next of the calls that are to be made.                              *)
TimerTaskCall ==
  /\ tmr_todo # <<>> /\ Head(tmr_todo)[1] \in TimerTasks
  /\ LET op == Head(tmr_todo)[1]
         c  == Head(tmr_todo)[2]
     IN  /\ TimerTask(op, c)
         /\ tmr_todo' = AfterTask(op, c) \o Tail(tmr_todo)
  /\ UNCHANGED <<tmr_now, tmr_cfg, eventVars>>

(* An iteration of the loop of nrf_timer_TASK_COUNT().                     *)
TimerCompare ==
  /\ tmr_todo # <<>> /\ Head(tmr_todo)[1] = "compare"
  /\ LET c    == FirstOf(Head(tmr_todo)[2])
         rest == Loop("compare", Head(tmr_todo)[2] \ {c})
     IN  tmr_todo' = (IF Counter[c[1]] = CC[c] % (BitMask + 1) THEN SignalCompare(c) ELSE <<>>)
                       \o rest \o Tail(tmr_todo)
  /\ UNCHANGED <<tmr_now, tmr_cfg, countVars, matchVars, eventVars>>

(* An iteration of the loop of nrf_hw_model_timer_timer_triggered().       *)
TimerMatch ==
  /\ tmr_todo # <<>> /\ Head(tmr_todo)[1] = "match"
  /\ LET c    == LastOf(Head(tmr_todo)[2])
         rest == Loop("match", Head(tmr_todo)[2] \ {c})
     IN  /\ UNCHANGED <<countVars, CC, Timer_TIMERs>>
         /\ CC_timers' = [CC_timers EXCEPT ![c] = CcTimer(c)]
         /\ tmr_todo' = SignalCompare(c) \o rest \o Tail(tmr_todo)
  /\ UNCHANGED <<tmr_now, tmr_cfg, eventVars>>

(* The rest of nrf_timer_signal_COMPARE(), and what the PPI calls.         *)
TimerEvent ==
  /\ tmr_todo # <<>> /\ Head(tmr_todo)[1] = "event"
  /\ LET c == Head(tmr_todo)[2]
     IN  /\ EVENTS_COMPARE' = [d \in SwInts |-> d = c \/ EVENTS_COMPARE[d]]
         /\ UNCHANGED TIMER_INTEN
         /\ TimerEvalInterrupts(c[1])
         /\ tmr_todo' = tmr_cfg.routes[c] \o Tail(tmr_todo)
  /\ UNCHANGED <<tmr_now, tmr_cfg, countVars, matchVars>>

(* The end of nrf_hw_model_timer_timer_triggered().                        *)
TimerMaster ==
  /\ tmr_todo # <<>> /\ Head(tmr_todo)[1] = "master"
  /\ UNCHANGED <<countVars, CC, CC_timers>>
  /\ Timer_TIMERs' = FirstMatch
  /\ tmr_todo' = Tail(tmr_todo)
  /\ UNCHANGED <<tmr_now, tmr_cfg, eventVars>>

(* nrf_hw_model_timer_timer_triggered(): collects the matches.             *)
TimerTriggered ==
  /\ tmr_todo = <<>> /\ tmr_now = Timer_TIMERs
  /\ LET matches == {c \in Comparator : Timer_running[c[1]] /\ IsTimer(c[1])
                                          /\ CC_timers[c] = Timer_TIMERs}
     IN  tmr_todo' = Loop("match", matches) \o <<<<"master", Comparators[1]>>>>
  /\ UNCHANGED <<tmr_now, tmr_cfg, countVars, matchVars, eventVars>>

-----------------------------------------------------------------------------
(* The engine lets a microsecond pass when no timer is due.                *)
TimerTick ==
  /\ tmr_todo = <<>> /\ tmr_now < TimerHorizon /\ tmr_now < Timer_TIMERs
  /\ tmr_now' = tmr_now + 1
  /\ elapsed' = [t \in TimerId |->
       IF Timer_running[t] /\ IsTimer(t) THEN (elapsed[t] + 1) % WrapTime ELSE elapsed[t]]
  /\ UNCHANGED <<tmr_cfg, Timer_running, Timer_counter_startT, Counter,
                 matchVars, eventVars, tmr_todo>>

(* A write to a TASKS register.                                            *)
TimerSoftwareTask ==
  /\ tmr_todo = <<>>
  /\ \E task \in SwTasks : tmr_todo' = <<task>>
  /\ UNCHANGED <<tmr_now, tmr_cfg, countVars, matchVars, eventVars>>

(* Mutant: the write waits for the next START.                             *)
SoftwareCcNotTimed(c, value) ==
  /\ CC' = [CC EXCEPT ![c] = value]
  /\ UNCHANGED <<countVars, CC_timers, Timer_TIMERs>>

(* nrf_timer_regw_sideeffects_CC().                                        *)
SoftwareCc(c, value) ==
  /\ CC' = [CC EXCEPT ![c] = value]
  /\ UNCHANGED countVars
  /\ IF Timer_running[c[1]] /\ IsTimer(c[1])
       THEN CC_timers' = [CC_timers EXCEPT ![c] = CcTimer(c)] /\ Timer_TIMERs' = FirstMatch
       ELSE UNCHANGED <<CC_timers, Timer_TIMERs>>

TimerSoftwareCc ==
  /\ tmr_todo = <<>>
  /\ \E write \in SwCcs : SoftwareCc(write[1], write[2])
  /\ UNCHANGED <<tmr_now, tmr_cfg, eventVars, tmr_todo>>

(* A handler clears an event; INTENSET and INTENCLR.                       *)
TimerSoftwareInterrupts ==
  /\ tmr_todo = <<>>
  /\ \E c \in SwInts :
       /\ \/ /\ EVENTS_COMPARE' = [EVENTS_COMPARE EXCEPT ![c] = FALSE]
             /\ UNCHANGED TIMER_INTEN
          \/ /\ TIMER_INTEN' \in {TIMER_INTEN \union {c}, TIMER_INTEN \ {c}}
             /\ UNCHANGED EVENTS_COMPARE
       /\ TimerEvalInterrupts(c[1])
  /\ UNCHANGED <<tmr_now, tmr_cfg, countVars, matchVars, tmr_todo>>

TimerNext ==
  \/ TimerTaskCall \/ TimerCompare \/ TimerMatch \/ TimerEvent \/ TimerMaster
  \/ TimerTriggered \/ TimerTick
  \/ TimerSoftwareTask \/ TimerSoftwareCc \/ TimerSoftwareInterrupts

TimerSpec == TimerInit /\ [][TimerNext]_tmrVars

-----------------------------------------------------------------------------
(* What the handlers call, and the comparators of their loops.             *)
TimerEntry == TimerCall \union ({"event", "master"} \X Comparator)
                \union ({"compare", "match"} \X ((SUBSET Comparator) \ {{}}))

(* The variables keep their types (NRF_TIMER.c:44-55).                     *)
TimerTypeOK ==
  /\ tmr_now \in 0 .. TimerHorizon
  /\ tmr_cfg \in TimerSettings
  /\ Timer_running \in [TimerId -> BOOLEAN]
  /\ Timer_counter_startT \in [TimerId -> 0 .. TMR_NEVER]
  /\ Counter \in [TimerId -> Nat]
  /\ elapsed \in [TimerId -> Nat]
  /\ CC \in [Comparator -> 0 .. BitMask]
  /\ CC_timers \in [Comparator -> 0 .. TMR_NEVER]
  /\ Timer_TIMERs \in 0 .. TMR_NEVER
  /\ EVENTS_COMPARE \in [SwInts -> BOOLEAN]
  /\ TIMER_INTEN \subseteq SwInts
  /\ TIMER_int_line \in [TimerId -> BOOLEAN]
  /\ tmr_todo \in Seq(TimerEntry)

(* Whatever the software and the PPI start, stop, clear, capture and write *)
(* in whatever order, and however often the counter has wrapped, each      *)
(* comparator's time is the next one at which the microseconds counted     *)
(* will be those of its CC register: CC_timers (NRF_TIMER.c:150-161) says  *)
(* what the timer that is never simulated tick by tick would do, rounded   *)
(* down to a microsecond; a count that is reached less than one after the  *)
(* start is then that of the next wrap.  A match that is due now may still *)
(* be waiting for the engine.                                              *)
ComparatorTimesAreRight ==
  tmr_todo = <<>> =>
    \A c \in Comparator :
      IF Timer_running[c[1]] /\ IsTimer(c[1])
        THEN LET togo == ((CC[c] * UsPerTick) \div TicksPerUs - elapsed[c[1]]) % WrapTime
             IN  CC_timers[c] \in {tmr_now + (IF togo = 0 THEN WrapTime ELSE togo)}
                                   \union (IF togo = 0 THEN {tmr_now} ELSE {})
        ELSE CC_timers[c] = TMR_NEVER

(* The one timer that the engine knows is never behind and is the earliest *)
(* match of any comparator of any timer (update_master_timer()), also when *)
(* a task that a match itself has caused moved it.                         *)
TimerMasterIsFirst ==
  tmr_todo = <<>> =>
    /\ Timer_TIMERs >= tmr_now
    /\ \A c \in Comparator : Timer_TIMERs <= CC_timers[c]
    /\ Timer_TIMERs = TMR_NEVER \/ \E c \in Comparator : Timer_TIMERs = CC_timers[c]

(* Each match comes when the timer, had it been run tick by tick, would    *)
(* have it: the comparators' times are right and the engine has the first. *)
TimerMatchesTheCount == ComparatorTimesAreRight /\ TimerMasterIsFirst

(* A capture, of a timer that runs, or that counts tasks, reads the count  *)
(* that the timer would hold, whatever happened to it before               *)
(* (nrf_timer_TASK_CAPTURE()): it is given by the time of the last start.  *)
CaptureReadsTheCount ==
  [][\A c \in Comparator :
       (tmr_todo # <<>> /\ Head(tmr_todo) = <<"CAPTURE", c>> /\ tmr_todo' = Tail(tmr_todo)
          /\ (Timer_running[c[1]] \/ ~IsTimer(c[1])))
       => CC'[c] = (IF IsTimer(c[1]) THEN (elapsed[c[1]] * TicksPerUs) \div UsPerTick
                                     ELSE elapsed[c[1]])]_tmrVars
=============================================================================
