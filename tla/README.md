# A TLA+ model of the nRF52 hardware models

The repository simulates the peripherals of an nRF52833 so that embedded
software can run on a workstation, in a simulated radio environment
(BabbleSim).  The code is C, single threaded in effect, and driven by events:
it is full of handlers that call each other through the PPI, of one timer that
stands for several, and of state that the software changes while a handler is
suspended.  That is what these modules model.  Every definition is translated
from the code under `src/HW_models` (paths below are relative to it);
`PROJECT.json` gives the lines of each.

## 1. The system

    software (external)  --register writes, side effects-->  peripherals
          ^                                                  |   |   |
          | vectoring, priority, clear          timers <-----+   |   +--> PPI
          |                                        |             |         |
    CPU (external) <-- wake-up -- irq_ctrl <-- interrupt lines --+   tasks of
          ^                          |                               peripherals
          |                          v
    time machine (external) <-- NRF_HW_model_top: one timer, one handler at a time

*Everything is one thread.*  The time machine looks at one timer
(`timer_nrf_main_timer`), advances the time to it and calls
`nrf_hw_some_timer_reached()`, which calls one handler: a *delta cycle*.
Several delta cycles may happen in one microsecond.  When a handler wakes the
CPU (`posix_interrupt_raised()`), the handler is suspended and the software
runs, in zero simulated time, until it halts the CPU again; a register write of
the software runs its side effects in the software's own thread.  A peripheral
that signals an event calls `nrf_ppi_event()`, which calls the tasks of the
enabled channels at once, in the middle of the handler that signalled it; those
tasks may signal events in turn.  So the interleavings that matter are not of
threads but of *nested calls*: what has been read, and what is still to be
written, around a call that runs other people's code.

### 1.1 Components

| Component (code) | State | Operations | Talks to | What is hard | What makes it correct |
|---|---|---|---|---|---|
| Interrupt controller (`irq_ctrl.c`) | lines, pended before and after the mask, mask, lock, phony-interrupt flag, priorities, running priority, its timer | pulse, raise and lower a line, raise at once, raise from software, enable, disable, lock, clear, clear all, re-evaluate a line on return | peripherals, CPU, event engine | interrupts pended, masked, locked and handled in any order; nesting; a wake-up due while the CPU decides to sleep | no wake-up and no level interrupt is lost; handlers nest by priority; the answer is the highest priority |
| Event engine (`NRF_HW_model_top.c`) | the table of 15 timers, the next one, the exposed one | find the next timer; call its handler | every peripheral, the time machine | anybody changes a timer at any moment; several are due together | what is exposed is never stale; no timer is missed; order within a microsecond |
| Busy-wait timer (`fake_timer.c`) | its timer | wake in time; triggered | CPU, irq_ctrl | waits that overlap, with interrupts locked or not | the CPU is awake in time |
| Test ticker (`bstest_ticker.c`) | the tick, its period, a request to wake the CPU | set the period or a tick, awake as soon as possible, triggered | irq_ctrl, test code | one timer for two purposes; the software runs in the middle of the handler | ticks are on time and a wake-up costs none |
| PPI (`NRF_PPI.c`) | channel registers, groups, routing tables, task queue | register side effects, signal an event, group tasks | every peripheral | events signalled from tasks of events, on one queue; tables that cache registers | each event gets all its tasks, once |
| CLOCK (`NRF_CLOCK.c`) | states of the HF and LF clocks, status registers, calibration timer, interrupt line | seven tasks, four timers, events and their interrupt | PPI, irq_ctrl, event engine, RTC | a task called by the PPI for an event of the handler that is not finished | clocks settle; the first timer is known; line, status and states agree |
| RADIO (`NRF_RADIO*.c`) | main state and sub-state, TIFS machine, abort machine, three timers, bit counter | TXEN, RXEN, START, STOP, DISABLE, CCA, ED, BCSTART..., and the handlers | the Phy (external), PPI, CCM, irq_ctrl | the Phy asks later whether to abort; an event reaches the PPI in mid-handler and disables the radio; TIFS | each request to the Phy is answered; a stop always aborts; TIFS switches or is off |
| TIMER (`NRF_TIMER.c`) | counters, start times, CC timers | start, stop, clear, capture, count, compare with shortcuts | PPI, irq_ctrl, event engine | matches collected, then signalled one by one, each able to change the others; width and prescaler | each match at the count it is set to; captures equal the count |
| RTC (`NRF_RTC.c`) | start times in parts of a microsecond, CC and overflow timers | start, stop, clear, trigger overflow | PPI, irq_ctrl, CLOCK | fractions, a start before time 0, the 24-bit wrap | matches and overflows at the LF ticks they are due |
| EGU (`NRF_EGU.c`) | events, enables, lines | trigger | PPI, irq_ctrl | many events, one line, tasks that signal | line = an enabled event is raised |
| TEMP, RNG, AES ECB | started flag, one timer each | start, stop, triggered, shortcuts | irq_ctrl, PPI | a stop racing the result; restart by shortcut | nothing is delivered after a stop |
| AAR, CCM (`NRF_AAR.c`, `NRF_AES_CCM.c`) | running flags, one timer (AAR) | start, stop, crypt, packet received | RADIO, PPI, irq_ctrl | a decryption asked for before the packet is there | each start ends, once |
| GPIO, GPIOTE (`NRF_GPIO*.c`, `NRF_GPIOTE.c`) | pin levels, overrides, latches, channel configurations | output, input, configuration, detect; tasks and events of the channels | each other, PPI, irq_ctrl, test inputs | callbacks from pin to channel and back; outputs short-circuited to inputs | levels and latches follow the pins; an edge is one event of its channel |
| NVMC, UICR (`NRF_NVMC.c`) | operation in progress, erased pages, time under erase | write, erases, partial erase, triggered | CPU | erases that add up piece by piece | a page is erased when its time is complete |
| FICR, POWER, low level | constants | - | - | - | - |
| BLECrypt_if, crc, trivial_xo, hw_args, stubs | - | data transformations, arguments | - | - | - |
| nrfx HAL replacements (`../nrfx`) | - | each writes a register and calls its side effect | peripherals | - | - |

The hazards of this code, each at the line where it bites and with the
properties that would show it going wrong, are listed in `PROJECT.json`
(`hazards`).  Seven have no property, only a note.  Of two of them nothing in the
repository says what should happen: `nrf_ppi_event()` calls itself without end when
events and tasks are routed in a cycle (`NRF_PPI.c:671`), and the bit counter's start is
lost when a route from BCMATCH stops and starts it again
(`NRF_RADIO_bitcounter.c:31`).  The others are limits of the code that section 5.1
describes and no run shows.

## 2. The modules

| Module | Models | Composed with |
|---|---|---|
| `IrqPriority` | which interrupt is handed to the CPU: the comment of `hw_irq_ctrl_get_highest_prio_irq()` as an operator | used by the next two |
| `IrqSearch` | the loop that looks for it, turn by turn | shown to return what `IrqPriority` says |
| `IrqCtrl` | the interrupt controller and the CPU's half of the contract | abstract specification for `NrfHwTop` |
| `NrfHwTop` | event engine, busy-wait timer, ticker, the controller's timer | `Irq == INSTANCE IrqCtrl`; implements `IrqCtrl` |
| `Ppi` | the PPI | - |
| `Clock` | the clock control, under any routing of its events to its tasks | the PPI is the constant `Routes` |
| `RadioStates` | the diagram `docs/RADIO_states.svg` | abstract specification for `Radio` |
| `Radio` | the radio, and the Phy it talks to | implements `RadioStates`; the PPI is `Routes`, the other models a timer |
| `NrfTimer` | the TIMERs | routes in the configuration |
| `NrfRtc` | an RTC on the LF clock | routes in the configuration |
| `Nvmc` | flash, UICR and their controller, with restarts on the files | - |
| `SmallPeripherals` | TEMP, RNG, ECB, AAR, CCM and EGU, connected by the PPI | routes in the configuration |
| `Gpio` | the pins, the shorts between them, the channels of GPIOTE | GPIO, its backend and GPIOTE in one module |
| `MC*` | constants for TLC | instances of `IrqSearch`, `IrqCtrl`, `NrfHwTop`, `Ppi`, `Clock`, `Radio`, `NrfRtc` and `Gpio`; `MCRouting` puts together those of `Ppi` and `Gpio`, and `MCPeripherals` those of the clock and the RTC with `NrfTimer`, `Nvmc` and `SmallPeripherals` |
| `IrqSearchProofs`, `IrqCtrlProofs`, `NrfHwTopProofs`, `RadioProofs` | theorems | each extends the module it is about; `NrfHwTopProofs` also instantiates `IrqCtrlProofs` |
| `RoutingProofs` | theorems | extends `Ppi` and `Gpio`: what connects peripherals |
| `CounterProofs` | theorems | extends `NrfTimer` and `NrfRtc`: the start time of a counter, modulo its wrap |
| `OneShotProofs` | theorems | extends `Clock`, `Nvmc` and `SmallPeripherals`: what a task starts and a timer ends |
| `CommonProofs` | lemmas on priorities, least elements and remainders | extended by the proofs of the controller, the engine, the counters and the GPIO |

Parts of the system share a run: in a behaviour of `MCPeripherals`, or of `MCRouting`, one of
them moves and the others stand still.  They have no variable in common and
call each other only through the PPI, so that what one can do to another is what
a route in its configuration does.

*Calls that nest.*  Every module whose code signals events has the same device
for the calls that a signal makes in the middle of a handler: a sequence of what
is still to be done, first things first (`todo` of `Radio`, `tmr_todo`,
`rtc_todo`, `io_todo`, `calls`, `stack` of `Clock`).  A handler assigns what the
code assigns before the signal, and leaves the signal and the code after it in
the sequence; a task that the PPI or a shortcut calls puts its own calls in
front.  Nothing else moves while the sequence is not empty, as in the code; the
software runs when it is empty.

### 2.1 IrqCtrl, IrqPriority, IrqSearch

The sets `irq_lines`, `irq_status`, `irq_premask`, `irq_mask` are the bit masks
of the same names; `irqs_locked`, `lock_ignore`, `irq_prio` and
`currently_running_prio` are the variables of the code.  `Timer_irq_ctrl` only
ever is "now" or `TIME_NEVER` (set_irq sets it to the current time and the time
does not advance past it: `NrfHwTop` shows that), so the module keeps no time.
Each function of `irq_ctrl.c` that changes state is an operator or action of
its name (`SetIrq`, `RaiseImFromSw`, `RaisingFromHwNow`, `EnableIrq`, ...).

The CPU is the board's code, outside of the repository, and is marked external
in the map.  It is in one of three conditions: *halted* (the models run),
*running* (software), or *vectoring*, the loop that takes interrupts one by one
out of the controller: ask for the highest priority, set the running priority,
clear the interrupt, call the handler, re-evaluate its line, restore the
priority.  `handlers` is the stack of handlers with the priority each of them
will restore.  The software may do anything the interface allows while it is
running, inside a handler or not, with one restriction taken from how priorities
are used: an interrupt's priority is set while it is disabled, not pended and
not being handled.

`IrqSearch` runs the loop itself for every status, table and running priority.
`__builtin_ffs()` takes an int, so the loop sees `FfsWidth` = 32 bits of a
64-bit status; what happens beyond is undefined in C (a shift by -1, a read
before the table) and is modelled as a choice over what a build can do.

### 2.2 NrfHwTop

`Timer` is `*Timers[]`, in order of priority, with three timers by name and the
rest as peripherals whose handlers re-arm them as they like and raise
interrupts.  `SomeTimerReached` is `nrf_hw_some_timer_reached()`: one handler,
then `FindNext` where the code calls `nrf_hw_find_next_timer_to_trigger()`.
The ticker's handler wakes the CPU in its middle: it is split there, and
`suspended` says that the rest of it is still to come when the CPU halts again.
The test's callback `bst_tick()` (external) may set the period or the next tick
(`SetsTick`), or ask for the CPU to be woken, or do nothing.
`asked` is an auxiliary variable: the earliest busy-wait that is not over yet,
which no variable of the code keeps.  The controller's own state is that of
`IrqCtrl`, through `Irq!`.  The software's `PrioSet` is left out here (it
touches neither a timer nor the CPU's state).

### 2.3 Ppi

`EEP`, `TEP`, `FORK`, `CHEN`, `CHG` are the registers; `evt_to_ch`, `tep_f`,
`fork_tep_f` the routing tables computed from them; `q` is the task queue.  A
call of `nrf_ppi_event()` in progress is a record in `frames`: the slot its loop
in `nrf_ppi_dequeue_all_tasks()` is at, the task it is running, and, as
auxiliaries, the tasks its event asked for that have not been called since
(`owed`) and those of them that it put in the queue itself (`queued`): the others
were there already, from an event around it, and are called once for both.  All calls share one queue: an inner call serves what is left of the
outer one's and empties the queue, which is why the order of nested calls is
the interesting part.  `InOrder` gives the queue's order: by channel, the task
endpoint before the fork.  The software may write the endpoints of any channel.  A
write to the event endpoint of a pre-programmed one takes the channel out of its
event's mask, silently, and none is ever put back (`NRF_PPI.c:735-738`); `cut` is
auxiliary, the channels that this has happened to.  A write to its task endpoint
changes the register alone.  Not modelled: `nrf_ppi_regw_sideeffects()`, which
calls the side effects that are modelled for every channel in turn.

### 2.4 Clock

Four timers (`timer`) behind one (`Timer_CLOCK`), the two clock state machines
with `HFCLKRUN`, `HFCLKSTAT`, `LFCLKRUN`, `LFCLKSTAT`, the calibration timer
and the interrupt.  A handler or task that signals an event may be followed,
*before it continues*, by the tasks the PPI calls for it: `stack` holds what is
left to do of each such handler, and `Routes` says which tasks the PPI may call
for which event (any subset, in any order, at each occurrence).  One unit of
time is one unit of CTIV, 0.25 s; everything else the clock does takes a delta
cycle.  Not modelled: the LF clock's source registers, which nothing reads.  What
the first LF tick tells the RTC is `RtcFirstLfTick` of `NrfRtc`.

The code never sets the LF clock's state to "Started": it stays "Starting" when
it runs, and LFCLKSTOP accepts both.  The model does the same.

### 2.5 Radio, RadioStates

`radio_state` and `radio_sub_state` are the main machine, `TIFS_state` the
automatic switch, `abort_fsm_state` and `aborting_set` the abort procedure; the
four timers are those of the code (`Timer_RADIO`, `Timer_TIFS`,
`Timer_RADIO_abort_reeval`, `Timer_RADIO_bitcounter`).  A timer holds the time
*left* to it, and `Tick` lowers them all: no time is kept, so that the run is over
unbounded time.  `TASKS_*` are the tasks, `StartTx`, `StartRx`, `StartCcaEd` the
requests to the Phy, `RadioTimer`, `AbortReevalTimer` and `BitCounterTimer` the
timers' handlers, `Continue` what is left of a handler that signalled an event.

The Phy (external) is what it is waiting for: a request, an answer to its question
whether to abort, or an answer to an address.  It may find the end of a
transmission or of a measurement, or an address, at any time up to its bounds.
A call that it does not expect makes it `"error"`.  It asks again at the time the
radio gave it (`update_abort_struct()`): the next timer of all, where `other` stands
for the first timer of the other models and `awake` for what a handler of the
software does then.  `tifs_due` is auxiliary: the time at which the switch must
have happened.

`RadioStates` is the diagram of the main machine.  A state that the radio does not
stay in by itself (ramp-ups, a transmission, a measurement...) must be left; `Radio`
is shown to implement it, with its fairness, by `FollowsTheDiagram`.

*What the program may not do.*  Three things break the radio.  The third is a finding
(`radio_address`); nothing in the repository says what the first two should do.

* Another transmission, reception or measurement that starts while the Phy still
  awaits the answer to the one that was stopped: its request is sent out of turn.
  `Careless` = `{}` keeps the software from starting it itself; a shortcut can, when
  the software starts and disables the radio in one awakening, which `SwCalls` = 1
  leaves out of the run.  Of the theorems it is a hypothesis on the behaviour
  (`StartsInTurn`).
* Software that calls DISABLE in the time that the automatic switch waits for its own:
  the ramp-down's timer is taken back with that of the switch (`NRF_RADIO.c:428`).  The
  radio stays in its ramp-down, which no theorem of safety excludes; `Careless` = `{}`
  leaves it out of the run.
* A PPI that stops or disables the radio by an event that is signalled between the end
  of an address and the answer to the Phy (ADDRESS, FRAMESTART, DEVMATCH...):
  `Rx_Addr_received()` goes on as if nothing had happened (`NRF_RADIO.c:977-1011`),
  arms the payload's timer in a state that has no use for it and answers a Phy that
  nobody awaits.  `MCStopAtAddress` is such a PPI; the routes of the passing run are
  without it, and of the theorems it is the hypothesis `QuietAddresses`.

### 2.6 NrfTimer, NrfRtc

Neither counts: both keep the time at which the counter was 0 and compute the next
match of each comparator.  So what can go wrong is arithmetic in the middle of
nested calls, and each module carries a counter that *is* counted, as an auxiliary:
`elapsed` (the microseconds or COUNTs since 0) and `phase` (the fractions since 0).

`NrfTimer` has all the timers in one module, for they share the master timer
`Timer_TIMERs`.  A setting (`tmr_cfg`) holds mode, shortcuts and routes.  The base
clock has 16 periods in a microsecond, of which PRESCALER takes a power of 2 for a
tick: a tick is `UsPerTick` microseconds, or a microsecond has `TicksPerUs` ticks.
In the second case times are rounded down to a microsecond: a count that is reached
less than one after the start has the time of the start, which the code takes
for that of the next wrap (`NRF_TIMER.c:152-156`); `TimerMatchesTheCount` says so.
`NrfRtc` is one RTC; its unit is a fraction of a microsecond, `SubUs` of which are a
microsecond, and `LfPeriod` the tick of the LF clock, which is not a multiple of
it.  `RTC_EVTEN` holds the events that go to the PPI.  `RtcFirstLfTick` comes each time
the LF clock has started, whether or not the RTC runs.  `rtc_due` is auxiliary: the
events that the counter reaches in this microsecond; so is `lf_moved`: whether the LF
clock has started while the RTC ran.  From then on an overflow need not be a tick of
that clock, and a task that the overflow calls does not set the counter as the code
assumes (5.1): the properties of the passing run are for routes without such
a task, or a clock that has not moved (`OverflowIsATick`).  RTCs share only
`Timer_RTC`; the TICK event is not supported by the code.

### 2.7 Nvmc

A page is *erased*, *written* or *zeroed* (nothing but zeroes in what the scan at
boot looks at).  Flash and UICR have each their own options: in RAM, or in a file that
is erased at the start, or removed at the exit, or neither.  The boot takes for erased
the pages that it does not look at (all, without the option of the warnings; all but
`ScannedPages` with it) or that it finds full of zeroes: `overlooked` is auxiliary, those
of them that hold something since before it.  Each operation's side effect is an action, guarded by the two
checks that ignore it, and its end is `NvmcTimerTriggered`.  `Restart` is the fault
model: the program exits or is killed in any state and starts again on what is left of
the files.  `accepted` and `partial` are auxiliary: what
the operation under way is to erase, and for how long a page was partially erased
since it was last written.

### 2.8 SmallPeripherals

Engines that a task starts and a timer ends (`started`, `small_timer`), the packet
cipher, which has no timer, and the EGU.  `calls` is the sequence of nested calls;
`small_cfg` the shortcuts, enables and routes.  `answers_due` is auxiliary: the ends
still to be signalled for what was asked.  The cipher's software has set ECBDATAPTR: with
a null one the code ends the program (`NRF_AES_ECB.c:139`).  Left out: what they compute, and their
interrupts but the EGU's, which are only pended when enabled.

### 2.9 Gpio

Registers are sets of pins.  `pin_owner` and `external_OUT` are the overrides that a
channel of GPIOTE puts on a pin.  A change of an output runs `EvalOutputs`, then a
`PropagateOutput` per changed pin: an iteration of the loop, lowest pin first, with the
levels of the start of the loop, which drives each pin shorted to it (the backend,
`EvalInput`).  `EvalInputs` follows, a `Notify` per changed pin (which may be an event
of a channel and call tasks of others), then `EvalSense`.  A loop is one entry of
`io_todo`, with the set of pins it has left (`PinLoop`), and a nested change is served
between two of its iterations.  `SoftwarePinCnf` is a write to PIN_CNF with its
direction, input and sense, and evaluates what has changed of them, in the code's order.
`CarefulSoftware` restricts the configurations of channels to those of `CarefulConfig`: a
channel is given no pin that the PSEL of another holds, nor pin 0, and one whose tasks
the PPI calls stays in its mode and on its pin.  `io_error` is the
"Programming error" that stops the simulation.  Left out: the files of stimuli and
of outputs; `TestDrives` is any of their lines.

## 3. The runs

| Run | Instance | States | What it shows |
|---|---|---|---|
| `irq_search` | 4 interrupts, 3 priorities, ffs() sees 3 | all inputs | `AnswerIsHighest`: the loop returns what its comment promises, including ties and the running priority; `AnswersWhenVisible`: it returns when ffs() sees all that is pended |
| `irq_search_hang` | the same | | violation of `AlwaysAnswers`: see findings |
| `irq_ctrl` | 3 interrupts, 2 priorities | 595 k | `HandlersNestByPrio`, `NoLostWakeUp`, `PendingConsistent`, `LevelNotLost`, and the liveness `WakesUp` |
| `hw_top` | 4 timers, 1 interrupt, time 0..2 | 189 k | `NoTimerIsMissed`, `BusyWaitIsOnTime`, `TicksOnTime`, `ServedInOrder`; `ImplementsIrqCtrl`, the refinement of `IrqCtrl`; and the liveness `BusyWaitEnds` |
| `routing` | one of the two in each behaviour | 2.15 M | PPI (a programmable and a fixed channel, 4 tasks, 2 events, 1 group, 3 nested calls): `RoutesFollowRegisters`, `EventIsServed`, `OncePerEvent`; GPIO (5 pins, 3 shorts, two channels that take pins over from each other): `PinsSettle`, `ShortFollowsOutput`, `ChannelKnowsItsLevel`, `ChannelsOwnTheirPins` |
| `ppi_collapse` | the PPI of it | | violation of `TwoEventsTriggerTwice`: see findings |
| `gpio_shorts` | the pins of it, and two shorts of the channel's pin | | violation of `ShortFollowsOutput`: see findings |
| `clock_hf_stop` | every event to every task | | violation of `HfSettlesInOneDelta`: see findings |
| `radio` | four settings of shortcuts, a PPI that stops, disables and starts it in mid-handler, one thing done by the software in each awakening | 440 k | `PhyIsAnsweredOnce`: no call to the Phy out of turn; `StoppedRadioAborts`: what was stopped will be answered "abort"; `NoProgrammingError`; `TifsSwitchIsOnTime`; the liveness `StoppedRadioFreesThePhy`; the refinement `FollowsTheDiagram` |
| `radio_address` | a PPI that disables the radio at an ADDRESS | | violation of `AddressAwaitsItsAnswer`: see findings |
| `peripherals` | see 3.1; one of five in each behaviour | 2.26 M | CLOCK: `LineFollowsEvents`, `MasterTimerIsFirst`, `CaltimerRunsWhenArmed`, `StatusFollowsState`, `ClocksSettleInOneDelta`; TIMER, of two ticks in a microsecond: `TimerMatchesTheCount`, `CaptureReadsTheCount`; RTC: `RtcMatchesTheCount`, `RtcEventIsOnTime`, `RtcInterruptNotLost`; NVMC: `PartialErasesAddUp`, `OnlyTheAcceptedIsErased`; the small ones: `EachStartIsAnsweredOnce`, `EguLineFollowsEvents` |
| `rtc_spurious` | 2 comparators, the compare event to CLEAR | | violation of `RtcEventIsOnTime`: see findings |

The types are theorems for the controller, the engine, the PPI, the clock, the radio,
the NVMC, the TIMERs, the RTC, the small peripherals and the GPIO, and no run spends
a property on them.

### 3.1 Bounds, and why they are enough

* *Interrupts and priorities.*  Three interrupts of two priorities can nest
  (two levels), tie, and queue behind one another, and the third is there to be
  pended meanwhile; the controller treats interrupts alike otherwise.  The
  theorems hold for any number.  `IrqSearch` has three below the width of ffs()
  and one beyond it.
* *Time.*  In `hw_top` and of the clock, `Horizon` (2 microseconds, or 2 units of CTIV)
  lets a timer be armed, replaced by an earlier and by a later one, reached and
  passed; `TIME_NEVER` is the first value beyond what a timer can be armed for.
  What is asked for beyond the horizon is not represented.  The theorems hold for
  any horizon.
* *Timers of the engine.*  Three by name and one peripheral: a tie of a peripheral
  with each of the others occurs, and a peripheral of a later position stands for
  all.
* *PPI.*  Two channels feed the same and different tasks, as task and as fork, and
  the software writes the endpoints of both, the pre-programmed one too; one task signals an event and one changes the enabled channels in mid-loop.
  `MaxDepth` = 3 bounds a recursion that the code does not bound (events and
  tasks routed in a cycle); three calls are an outer, an inner and one between.
* *Clock.*  The routes of the run (`MCNoClockStopsItself`) are all but those that lead, by
  any chain, from a clock that has started to its own stop: what they do to the HF clock is
  shown by `clock_hf_stop`, and to the LF one said in 5.1.  `IntEvents` limits the events whose register and interrupt are
  tracked, to keep the product of independent event bits small; the others
  still go to the PPI.  `MaxDepth` bounds handlers suspended at an event.
* *Radio.*  Durations of 1 to 5: what matters of them is their order (a ramp-up is
  shorter than TIFS, an address ends before its payload, a chain delay is not 0).
  `Never` is beyond all of them.
  `AddressMax`, `OtherMax` and `BccMax` let the Phy, the other models and the bit
  counter be due before, with and after each of the radio's timers.  `SwCalls` = 1
  per awakening, of which there are any number.  `MaxTodo` = 7 stops only the PPI,
  in chains of events that come back to themselves.  The theorems hold for any
  durations in the order that their hypotheses give, any settings and any number of calls.
* *TIMER.*  Two timers, of two comparators and of one: two matches of one timer in
  one microsecond, a match of another with them, and a timer that counts the
  matches of the other.  The counter, of two bits with ticks of half a microsecond,
  wraps in the 3 microseconds of `TimerHorizon`; ticks longer than a microsecond are left
  to the theorems, which hold of both.  The shortcuts and routes lead from each comparator to the others.
* *RTC.*  Two routings: the overflow clears the counter, or it stops and starts it, each
  while EVTEN has the event; `rtc_spurious` has the ones of a comparator.  A tick of 3 halves of a microsecond, so that ticks fall on and between
  microseconds; a counter of 2 bits; `RtcHorizon` = 6 is a wrap, so that a TRIGOVRFLW, which
  starts in the middle of one, is followed by an overflow and a match after it; it lets each start of the LF clock, and a start before time 0, come at any time of it.
* *NVMC.*  Two pages, so that an operation on one comes between those on the
  other; a whole erase of 3 units, made of partial ones of 0 and 2 that add up
  to more.  The scan sees one of the pages, as the code's sees only a part.
  Four command lines: a file that is kept, erased or removed, and RAM, for flash and for
  UICR, with and without the warnings.  The theorems hold for any number of pages, any
  scan, any options and any times.
* *Small peripherals.*  A delay of 1 for each engine, so that all of them end
  together or one after the other; chains of up to three through the PPI, and ends
  that start again what has ended, in two configurations.
* *GPIO.*  A pin of the software shorted to two pins, one of them that of an event
  channel, which toggles the pin of a task channel, which is shorted to a sensed pin, whose
  DETECT event clears the task channel's pin: a chain through every part, and
  the channel of events may be moved along it or disabled.  The task channel is one of events
  first, on the pin that the other one leaves, or leaves it to it.  A board on which a change of an
  output comes back to toggle it again, without end, is left out: the code calls itself
  until its stack is full.  The theorems hold for any pins, channels, wires and routes
  (those of section 4 that have a hypothesis, under it, and these instances meet them).

Deadlock is checked except in `hw_top`, where the simulation stops at the
horizon, and in the two runs of `IrqSearch`, whose loop ends.

### 3.2 Fairness

* `IrqCtrl`: weak fairness of `TimerTriggered` (the time machine calls a due
  timer before it lets the time pass) and of `Vector` (the CPU's vectoring loop
  is sequential code that goes on).  Nothing is assumed of handlers, of the
  software or of the peripherals.
* `NrfHwTop`: weak fairness of `SomeTimerReached` and `AdvanceTime`, the loop
  of the time machine, and that neither a peripheral nor the test's tick re-arms itself for
  ever in the same microsecond (`TimeIsFree`): each has finitely many things to do in one,
  and one that did not would stop the simulation.  The software may
  stop halfway for ever: only a *halted* CPU is promised to be woken.
* `Radio`: weak fairness of `Next`, nothing of any action: the simulation goes on.
  Calls under way are sequential code, time passes when no timer is due, and
  the software's steps in one awakening are bounded; other timers may always be
  due soon, and the Phy may always ask again.
* `RadioStates` promises the end of each state that ends by itself, which that
  fairness is shown to give.
* `IrqSearch`: weak fairness of the loop.

## 4. What is proved

The proofs are for every value of the constants, under the named assumptions of
each module (`IrqAssumption`: interrupts are numbers below 32; `PrioAssumption`:
priorities are bytes; `TaskAssumption`, `ChannelAssumption` of `Ppi`: the tables
are well formed and tasks finitely many; the clock's and the engine's bounds are
naturals; the flash has finitely many pages, and times that are not 0; the lists of
tasks that the PPI calls are lists of tasks; a tick of the LF clock, 30.5
microseconds, is not shorter than one; the pins of the GPIO include pin 0, which is
the pin of a channel out of reset, and wires, configurations and routes are between
pins and channels that there are; the radio's delays, summed as far as its timers sum
them, end before `TIME_NEVER`, and the chain's delay before an address).  Two say what the software may
do: `TimerSoftwareAssumption` and `RtcSoftwareAssumption`, that it writes to a CC
register only counts that the counter can reach.  A TIMER's register is wider than a counter of
few bits, and for a greater count the code puts the first match a wrap late
(`NRF_TIMER.c:152-156`).

* **IrqSearch** - `SearchIsCorrect`: the loop, if it returns, returns the
  interrupt its comment promises, for every set of interrupts, every priority
  table and every width of ffs().  The invariant (`IInv`) says, of the
  bits already cleared from the copy, that `winner` is the best of those that
  preempt, and that every bit left has a higher number than those taken, which
  is why a strict comparison settles ties.  It gives the winner up only when a
  bit is left that ffs() never sees, and then the loop does not return.
* **IrqCtrl** - `TypeCorrect`, `PendingIsConsistent`, `PhonyIsAlwaysDue`,
  `NoWakeUpIsLost`, `LevelIsNotLost`, `HandlersNest`.  `PendingIsConsistent` is of what is
  enabled; what was disabled since it was pended may stay (5.1).  `NoLostWakeUp` is not
  inductive: it speaks of the highest priority, which an unlock, an enable or a
  return changes at once.  What is inductive (`ReadyIsDue`) is that whatever
  may preempt while the CPU is not vectoring has the timer due, together with
  the consistency of pended and enabled; `HandlersNestByPrio` is needed for the
  priority that a return restores; `LevelNotLost` follows step by step, from
  the types and the shape of the stack of handlers.
* **Ppi** - `PpiTypeCorrect`, `RoutesAreRight`, `EveryEventIsServed`,
  `TasksAreCalledOnce`.  The strengthening `QueueIsOwed` ties the queue to the
  stack of calls: what is in the queue was put there by exactly one call in progress, at
  or after the slot the innermost loop is at; what a call is owed was put there by it
  or by a call around it.  With it, an inner call that empties the shared queue is seen to
  have served the outer ones first, at any depth of nesting (`MaxDepth` is any
  natural number), and a call of a task to settle what one event queued and, with it, at
  most events signalled inside that one: the collapse of finding 4, and no other.
  `RoutesAreRight` is of writes to all channels, the pre-programmed ones included.
* **Clock** - `MasterTimerIsRight`, `CaltimerIsRight`, `LineIsRight`,
  `StatusIsRight`, under *any* routing of events to tasks, and `ClocksSettle` under those
  of which it is true.  The first two rest on
  one lemma, `TimerChange`: whatever step is taken, in a task or in what is left
  of a suspended handler, it leaves the timers alone, or sets one of them to the
  current time or to never, or arms or disarms the calibration timer together
  with its state, and always tells the engine.  The bounds on the time
  (`Typed`) are needed for an armed calibration timer never to look like one
  that is off.
  `ClocksSettle` assumes `NoClockStopsItself`: no event of a clock that has started
  leads, through tasks and their events, to that clock's stop; the routes of finding 2 do,
  and their twins for the LF clock (5.1).  Its invariant (`SettleInv`) is about the handlers under way: the suspended
  handler of a clock's timer is the outermost, and whatever is nested in it belongs to a set of
  events that are not routed to the stop, so that the rest of it does not take back a
  timer that somebody has set.
* **Radio** - six theorems, for any durations, shortcuts and routes, with hypotheses
  where the property is false without them (2.5).  All rest on lemmas about
  `todo`: what is left in the middle of a nested call, and that the end of a
  handler is the last entry (`EndsAreLast`), so that at most one of them waits.
  `RadioTypes`: the types.
  `DiagramSteps`: the refinement of `RadioStates` step by step, its fairness apart.
  `TimerIsAlwaysExpected` (`NoProgrammingError`), under `QuietAddresses`: `TimerInv` ties
  the sub-state and the timer of the radio to its state, and to the part of a handler
  that waits, for between an event and the rest of its handler they do not fit.
  `TifsSwitchOnTime` (`TifsSwitchIsOnTime`), under `RampDownFits`, that the delay that the
  switch waits is not shorter than a ramp-down: `TifsInv` follows the time at which the
  switch is due from the end of a packet, through a ramp-down and the switch's own
  timer, to the ramp-up, and says that whatever leaves that path takes the switch
  back.
  `PhyIsAlwaysAnsweredOnce` and `StoppedRadioAlwaysAborts`, under `PhyRules` (both
  hypotheses, and `TailFits`: the delay of the transmission chain is not longer than a
  ramp-up to receive) and for behaviours whose steps obey `StartsInTurn`.  Neither is
  inductive: that the Phy was not called out of turn says nothing of when it will
  call.  `PhyInv` relates the time at which the Phy ends by itself to what is left of
  the radio's packet, and to the time at which the radio said that it should ask
  again, which is always sooner (`AnswersFit`); a transmission whose radio has already
  gone on is in its chain delay and ends before the radio can ask for anything
  else (`TxFits`); and the Phy waits for the answer to an address exactly while the
  radio is at the address (`AddressFits`).  TLC checked each of these invariants
  in the instance of the run, which meets the hypotheses, and `PhyInv` also with
  careless software and two calls in each awakening, in the steps that `StartsInTurn` admits.
* **NrfHwTop** - `NoTimerIsEverMissed`, `BusyWaitsAreOnTime`, `TicksAreOnTime`,
  `TimersAreServedInOrder`, for any number of peripherals that set their timers as
  they like and any horizon.  The invariant (`EngineInv`): what is exposed is the
  first timer of the table *except* while the ticker's handler is suspended, when the
  engine has not looked again (`UpToDate`); no armed timer is in the past; the
  busy-wait timer is set to what was asked, or has come and the controller is about to
  wake the CPU (`FakeFollows`).  That a first timer exists is the lemma about priorities
  of `CommonProofs`, read with times for priorities.
  `EngineImplementsIrqCtrl`: every step of the engine is a step of `IrqCtrl` or
  leaves the controller alone, for which the invariant must say that the controller's
  timer only is set to the current time (`IrqTimerDue`).  `EngineLosesNoWakeUp`
  composes the two: the theorem of the controller alone, in the engine.
* **Nvmc** - `OnlyWhatWasAcceptedIsErased` and `PartialErasesAreWholeOnes`, with no
  hypothesis on the options, the scan or what is written.  The second is of the pages that
  are not `overlooked`: those the boot has taken for erased never are (5.1).  Its invariant
  (`EraseInv`) says that a page taken for erased is one, or is overlooked, and ties the
  time the code sums up to what a page was given since it was last written
  (`SumCoversPartial`), over operations on other pages and restarts in between.

* **NrfTimer** - `TimerMatches`, `TimerCaptures`, `TimerTypes`, for any comparators,
  width, prescaler, shortcuts and routes.  `TimerMatchesTheCount` says when the next
  match is due by a counter (`elapsed`) that the code does not keep.  The invariant ties
  the two (`CountAgrees`: while a timer runs, its start time is the current time less
  `elapsed`, modulo the wrap, and a stopped one holds the ticks of it) and says of each
  comparator that it is set to what is left of a wrap until its count (`TimesAgree`),
  *or* to now, if its count is reached in this microsecond: so it is until the loop under
  way serves it, or a task called meanwhile sets it again.  The master timer is the
  first of them except while that loop's last statement is still to come.  The loop of
  `update_cc_timer()` is shown to end at what is left of the wrap (`NextMatchIsRight`),
  for ticks longer and shorter than a microsecond, by lemmas on quotients and remainders of a wrap that is not constant
  (`Remainder`, `RemainderIsUnique`: the solvers know neither).  The invariant holds
  in the middle of any chain of tasks.
* **NrfRtc** - `RtcMatches`, `RtcOnTime`, `RtcTypes`, `RtcInterrupts`, for any tick in
  fractions of a microsecond, any width, any starts of the LF clock and any events enabled.  The invariant: the start
  time, negative or not, is `phase` before now, modulo the wrap (`StartAgrees`); each
  comparator and the overflow are set to the microsecond in which what is left of the
  wrap ends, or to now if the counter has reached them in this one (`EventsAgree`);
  while a comparator is still to be compared with `Timer_RTC`, that is the current time
  and the RTC runs (`EntryAgrees`).  The last part
  is false for the routes of finding 3, and the rest of the handler of an overflow
  overwrites what a TRIGOVRFLW sets (5.1): the first three theorems assume
  `CarefulRoutes`, that a comparator is routed to START alone, and the overflow to any
  task but TRIGOVRFLW; and `RtcMatches` and `RtcOnTime` speak, as the properties do, of
  the states in which an overflow is a tick of the LF clock (`OverflowIsATick`, 5.1).
  `RtcInterrupts` holds of every route.
* **SmallPeripherals** - `SmallAnswers`, `EguLine`, for any delays and routes.  The
  invariant balances an account: the ends owed to what was started
  (`answers_due`) are one for each engine that runs and one for each that
  `calls`, at any depth, has still to signal.  It takes lemmas on how the account of a
  sequence changes when calls are put in front of it, and that a task called for one
  of the two events of the resolver's end finds the engine as the other left it.

* **Gpio** - three theorems without a hypothesis: `IoTypes`, `LevelsInvariant` and
  `PinsSettleAlways`, for any pins, wires, channels, configurations and routes.  The
  invariant (`LevelsInv`): outputs are behind the registers only when they are evaluated
  next; inputs, and the detected pins, only while the call that evaluates them is
  somewhere in `io_todo`.  Changes nested to any depth therefore settle.
  The other three are false of some configurations (finding 5, and 5.1), and
  their hypotheses are what keeps away from those; without the last conjunct of
  `CarefulConfig`, say, TLC finds the "Programming error".
  `ChannelsOwn`, for `CarefulSoftware`, of which the pins may change hands in any order:
  by `OwnersInv` a channel lacks its pin only while it exchanges it, and no task
  reaches it then.
  `ShortsFollow`, under `CarefulBoard` (wires lead from outputs to pins that are never
  one, at most one of them to each pin; from an output that only the GPIO drives as many
  as one likes, from one that a channel drives at most one): by `ShortsInv` a shorted input
  has its output's level unless a propagation or a drive still waits, and those that nested
  calls leave waiting never are of the same pin, so that an outer loop does not write
  an old level over a new one.  That the outputs of the GPIO do not change while a loop
  over their wires is under way is the invariant `KnownOutputs` of which pins drive.
  `ChannelKnows`, for `CarefulSoftware` and under `OutputsToInputs` (wires lead from
  outputs to pins that never are): by `KnowsInv` the level that a channel has stored is
  its pin's, *or* the pin waits to be notified, *or* the channel has just taken the pin
  and has stored the level that the input will have once evaluated.

Only checked by TLC, in the instances above: liveness (`WakesUp`, `BusyWaitEnds`,
`AnswersWhenVisible`, `StoppedRadioFreesThePhy`), which the proof system does not
reach, and with it `FollowsTheDiagram` as a whole, whose abstract specification has
fairness: its steps are `DiagramSteps`.  Every safety property of a passing run is
stated by a theorem.

## 5. Findings

1. `irq_search_hang` - `irq_ctrl.c:111` takes `__builtin_ffs()` of a 64-bit
   status.  With only an interrupt above 31 pended the loop never ends.  RTC2
   has number 34.
2. `clock_hf_stop` - the handler of the HF timer turns the timer off after it
   has signalled HFCLKSTARTED (`NRF_CLOCK.c:299`): if the PPI has called HFCLKSTOP
   for that event, the stop's timer is lost and the clock is "Stopping" for ever.
3. `rtc_spurious` - `nrf_rtc_timer_triggered()` compares each comparator with the
   global `Timer_RTC` (`NRF_RTC.c:329`), which a CLEAR or STOP that the PPI calls for
   an earlier comparator has moved: a later comparator is then signalled ahead of its
   time.
4. `ppi_collapse` - an event signalled from a task of another, whose queue holds a task
   already that the inner one asks for, triggers it once for the two (`NRF_PPI.c:653`), not
   twice as the notes say (14-16).
5. `gpio_shorts` - when the first short of an output leads to a change of the output
   itself, the second is left at the old level (`NRF_GPIO_backend.c:91-97`), although
   `docs/GPIO.md:65` lets an output be shorted to several inputs.
6. `radio_address` - when the PPI disables the radio for the ADDRESS of a reception, the
   handler of that address goes on and answers a Phy that has its answer
   (`NRF_RADIO.c:1000`).

### 5.1 Other limits of the code

Met while modelling, and shown by no run: the models do as the code does, and the constants of
the passing runs, or the properties themselves, say which of them they keep away from.

* *Interrupt controller.*  An interrupt that is disabled after it was pended stays in
  `irq_status` and is vectored (`irq_ctrl.c:164`), although the comment on `irq_mask`
  (28-29) says that the mask selects which are.
* *Clock.*  Finding 2 for the other clock: the handler of the LF timer turns it off after it
  has signalled LFCLKSTARTED (`NRF_CLOCK.c:281`), and so loses the stop that the PPI has
  called for it.
* *Radio.*  The first two things of 2.5 that the program may not do; and a BCMATCH that the
  PPI routes to BCSTOP and BCSTART takes back the timer of that start
  (`NRF_RADIO_bitcounter.c:31`).
* *PPI.*  A pre-programmed channel whose event endpoint is written is cut off for good
  (`NRF_PPI.c:735-738`).
* *TIMER.*  A match that was collected is signalled although a task called for another
  one of the same microsecond has just cleared or stopped its timer (`NRF_TIMER.c:447-453`).
  A count reached less than a microsecond after the start matches a wrap late.
  A capture of a stopped one reads the time since its start, as if it had not been stopped
  (`NRF_TIMER.c:283`).
* *RTC.*  When the LF clock is started again out of phase while the RTC runs, a counter that
  its own overflow has cleared is put back to the overflow's time (`NRF_RTC.c:358`), which is
  no tick of that clock any more.  The start that a TRIGOVRFLW sets, called by the PPI for the overflow
  itself, is overwritten by the rest of the handler (`NRF_RTC.c:358`); enabling the
  interrupt of an overflow that has happened raises none, as it does for a compare.
* *NVMC.*  Without the option of the warnings, which should only warn
  (`NRF_NVMC.c:671`), every page is taken for erased at the start (147), and partial erases
  of a page that an earlier run has written never erase it.  With it, the same is true
  of the pages that the scan leaves out (150) and of pages of zeroes.
* *GPIO.*  A pin that was driven high stays high when its DIR bit is cleared
  (`NRF_GPIO.c:416`), although the notes of the file (lines 25-27) say that it is lowered at
  once; and one that is high as an input stays high when it becomes an output of level 0,
  for `nrf_gpio_eval_outputs()` returns before it writes the levels (408-412).
* *GPIOTE.*  Configuring a channel gives back the pin it held before, which for a fresh channel
  is pin 0, whoever has it (`NRF_GPIOTE.c:267-271`): the next task of its owner ends the
  simulation.  Of two channels that know a pin only the first is told of its edges, be it
  disabled (165-170).  A pin is given back while the channel is still in task mode
  (270, before 273): a task called by the PPI in between ends the simulation.

## 6. What is left

Worth adding, in order of importance:

* an instance of `Radio` for each of the first two things of 2.5, once the repository says what the radio
  should do then;
* `nrf_ppi_regw_sideeffects()`, and a composition of `Ppi` with `Radio` and
  `NrfTimer` in place of their routes: it needs a bound on the nesting of calls that
  leaves TLC an instance small enough;
* several RTCs on one `Timer_RTC`;
* the fairness half of `FollowsTheDiagram`, and `StartsInTurn` derived from what the
  software and the shortcuts may do, in place of a hypothesis on behaviours.

Not modelled: the FICR and POWER registers, the command line arguments, the crystal
and the stubs (no behaviour over time); the cipher, the CRC and the content of packets
(bit-level data: what the radio does with them is a choice of outcomes); the durations of
the radio's parts (constants); and the HAL replacements (each function is a register
write and its side effect, which are the software actions of the component modules).
