-------------------------------- MODULE Gpio --------------------------------
(***************************************************************************)
(* The pins of a GPIO port (NRF_GPIO.c), their short-circuits outside of   *)
(* the chip (NRF_GPIO_backend.c), and the channels of the GPIOTE           *)
(* (NRF_GPIOTE.c), which drive pins for tasks and make events of their     *)
(* changes.  A register with a bit per pin is the set of its pins.         *)
(*                                                                         *)
(* One change runs through all of them: an output drives the inputs that   *)
(* it is shorted to, an input that changes is an event of a channel, the   *)
(* PPI calls a task for it, and that changes another output, all in the    *)
(* middle of the first change.  "io_todo" is what remains to be done.      *)
(***************************************************************************)
EXTENDS Integers, Sequences

CONSTANTS
  Pins,               \* of the port, numbers
  Channels,           \* N_GPIOTE_CHANNELS, in the order of their numbers: 1 .. n
  Shorted,            \* for each pin, the sequence of the pins it is shorted to
  ChannelConfigs,     \* [ch, mode, pin, polarity, outinit]: writes to CONFIG
  ChannelRoutes,      \* the tasks <<task, ch>> that the PPI calls at each event
  TestPins,           \* pins that tests and the input file drive
  OutputPins,         \* pins of which the software writes OUT and DIR
  InputPins,          \* pins that the software configures as inputs with SENSE
  CarefulSoftware,    \* whether it configures channels as CarefulConfig says
  SignalInts          \* bound: the events of which interrupts are enabled

ASSUME PinsAssumption     == Pins \subseteq Nat /\ 0 \in Pins
ASSUME ChannelsAssumption == Channels \subseteq Nat \ {0}

PORT       == 0                             \* EVENTS_PORT, beside EVENTS_IN[ch]
IoEvent    == Channels \union {PORT}
IoTask     == {"OUT", "SET", "CLR"}
Polarities == {"None", "LoToHi", "HiToLo", "Toggle"}

(* The wires are between pins, the channels have pins, and the PPI calls   *)
(* tasks of channels.                                                      *)
ASSUME BoardAssumption ==
  /\ Shorted \in [Pins -> Seq(Pins)]
  /\ OutputPins \union InputPins \union TestPins \subseteq Pins
ASSUME GpioteAssumption ==
  /\ ChannelConfigs \subseteq [ch : Channels, mode : {"Disabled", "Event", "Task"}, pin : Pins,
                               polarity : Polarities, outinit : BOOLEAN]
  /\ ChannelRoutes \in [IoEvent -> Seq(IoTask \X Channels)]
  /\ SignalInts \subseteq IoEvent
  /\ CarefulSoftware \in BOOLEAN

(* The software's choices of a channel in state Disabled, out of reset.    *)
UnusedChannel == [mode |-> "Disabled", pin |-> 0, polarity |-> "None", level |-> FALSE]

VARIABLES
  OUT, DIR, INPUT, SENSE_mask, SENSE_inv, DETECTMODE,  \* INPUT: the connected inputs
  pin_owner,          \* who has the pin: "gpio", or a channel in "Event" or "Task" mode
  external_OUT,       \* the output values of the channels
  O_level, IO_level, IN_level,
  DETECT, LDETECT, DETECT_signal,
  ch_status, IO_EVENTS, GPIOTE_ITEN, gpiote_int_line,
  io_todo,
  io_error            \* the "Programming error" that ended the simulation, or "none"

pinCfg  == <<OUT, DIR, INPUT, SENSE_mask, SENSE_inv, DETECTMODE>>
pinCtl  == <<pin_owner, external_OUT>>
pinIo   == <<O_level, IO_level, IN_level>>
pinSns  == <<DETECT, LDETECT, DETECT_signal>>
gpioteVars == <<IO_EVENTS, GPIOTE_ITEN, gpiote_int_line>>
ioVars  == <<pinCfg, pinCtl, pinIo, pinSns, ch_status, gpioteVars, io_todo, io_error>>

-----------------------------------------------------------------------------
(* get_enabled_inputs(), get_dir() and the output values, with the masks   *)
(* of the pins whose configuration a peripheral overrides.                 *)
EnabledInputs == {n \in Pins : \/ pin_owner[n] = "gpio" /\ n \in INPUT
                               \/ pin_owner[n] = "Event"}

Dir == {n \in Pins : \/ pin_owner[n] = "gpio" /\ n \in DIR
                     \/ pin_owner[n] = "Task"}

OutValues == {n \in Pins : IF pin_owner[n] = "gpio" THEN n \in OUT ELSE n \in external_OUT}

(* The loops over the pins of a mask, from the lowest (__builtin_ffs()):   *)
(* what is left of one, if anything is.                                    *)
LowestOf(pins) == CHOOSE n \in pins : \A m \in pins : n <= m
PinLoop(entry) == IF entry[2] = {} THEN <<>> ELSE <<entry>>

(* nrf_gpiote_eval_interrupt().                                            *)
GpioteEvalInterrupt == gpiote_int_line' = \E e \in GPIOTE_ITEN' : e \in IO_EVENTS'

RoutedTasks(e) == [i \in DOMAIN ChannelRoutes[e] |->
                     <<"task", ChannelRoutes[e][i][1], ChannelRoutes[e][i][2]>>]

(* nrf_gpiote_events_in() and nrf_gpiote_events_port(): what they change.  *)
SignalEvent(e) ==
  /\ IO_EVENTS' = IO_EVENTS \union {e}
  /\ UNCHANGED GPIOTE_ITEN
  /\ GpioteEvalInterrupt

(* nrf_gpio_init(), nrf_gpiote_init(): inputs disconnected.                *)
IoInit ==
  /\ OUT = {} /\ DIR = {} /\ INPUT = {} /\ SENSE_mask = {} /\ SENSE_inv = {}
  /\ DETECTMODE = "DETECT"
  /\ pin_owner = [n \in Pins |-> "gpio"] /\ external_OUT = {}
  /\ O_level = {} /\ IO_level = {} /\ IN_level = {}
  /\ DETECT = {} /\ LDETECT = {} /\ DETECT_signal = FALSE
  /\ ch_status = [ch \in Channels |-> UnusedChannel]
  /\ IO_EVENTS = {} /\ GPIOTE_ITEN = {} /\ gpiote_int_line = FALSE
  /\ io_todo = <<>> /\ io_error = "none"

IoOp == Head(io_todo)[1]

-----------------------------------------------------------------------------
Driven == Dir \intersect OutValues

Differing(new, old) == (new \ old) \union (old \ new)

(* nrf_gpio_eval_outputs(), to its loop: the pins that change are propagated *)
(* with the values that they have now.                                       *)
EvalOutputs ==
  /\ io_todo # <<>> /\ IoOp = "outputs"
  /\ IF Driven = O_level
       THEN UNCHANGED <<O_level, IO_level>> /\ io_todo' = Tail(io_todo)
       ELSE /\ O_level' = Driven
            /\ IO_level' = (IO_level \ Dir) \union Driven
            /\ io_todo' = <<<<"propagate", Differing(Driven, O_level), Driven>>, <<"inputs">>>>
                            \o Tail(io_todo)
  /\ UNCHANGED <<pinCfg, pinCtl, IN_level, pinSns, ch_status, gpioteVars, io_error>>

(* Mutant: the pins shorted to an output hear of its rises only.           *)
ShortDrivesRises(n, value) ==
  IF value THEN [i \in DOMAIN Shorted[n] |-> <<"drive", Shorted[n][i], TRUE>>] ELSE <<>>

(* nrf_gpio_backend_short_propagate().                                     *)
ShortDrives(n, value) == [i \in DOMAIN Shorted[n] |-> <<"drive", Shorted[n][i], value>>]

(* An iteration of the loop of nrf_gpio_eval_outputs().                    *)
PropagateOutput ==
  /\ io_todo # <<>> /\ IoOp = "propagate"
  /\ LET n      == LowestOf(Head(io_todo)[2])
         values == Head(io_todo)[3]
     IN  io_todo' = ShortDrives(n, n \in values)
                      \o PinLoop(<<"propagate", Head(io_todo)[2] \ {n}, values>>)
                      \o Tail(io_todo)
  /\ UNCHANGED <<pinCfg, pinCtl, pinIo, pinSns, ch_status, gpioteVars, io_error>>

(* nrf_gpio_eval_input(): something outside drives a pin.                  *)
EvalInput ==
  /\ io_todo # <<>> /\ IoOp = "drive"
  /\ LET n     == Head(io_todo)[2]
         value == Head(io_todo)[3]
     IN  IF n \in Dir \/ (n \in IO_level) = value
           THEN UNCHANGED IO_level /\ io_todo' = Tail(io_todo)
           ELSE /\ IO_level' = IF value THEN IO_level \union {n} ELSE IO_level \ {n}
                /\ io_todo' = <<<<"inputs">>>> \o Tail(io_todo)
  /\ UNCHANGED <<pinCfg, pinCtl, O_level, IN_level, pinSns, ch_status, gpioteVars, io_error>>

(* nrf_gpio_eval_inputs(): each pin that changes is notified, then sensed. *)
EvalInputs ==
  /\ io_todo # <<>> /\ IoOp = "inputs"
  /\ IN_level' = IO_level \intersect EnabledInputs
  /\ io_todo' = PinLoop(<<"notify", Differing(IN_level', IN_level)>>) \o <<<<"sense">>>>
                  \o Tail(io_todo)
  /\ UNCHANGED <<pinCfg, pinCtl, O_level, IO_level, pinSns, ch_status, gpioteVars, io_error>>

(* nrf_gpio_update_detect_signal().                                        *)
DetectSignal == IF DETECTMODE = "DETECT" THEN DETECT' # {} ELSE LDETECT' # {}

Sensed ==
  /\ DETECT' = Differing(IN_level, SENSE_inv) \intersect SENSE_mask
  /\ LDETECT' = LDETECT \union DETECT'
  /\ DETECT_signal' = DetectSignal

(* nrf_gpio_eval_sense(): an event of the port at a rise of the signal.    *)
EvalSense ==
  /\ io_todo # <<>> /\ IoOp = "sense"
  /\ Sensed
  /\ IF DETECT_signal' /\ ~DETECT_signal
       THEN SignalEvent(PORT) /\ io_todo' = RoutedTasks(PORT) \o Tail(io_todo)
       ELSE UNCHANGED gpioteVars /\ io_todo' = Tail(io_todo)
  /\ UNCHANGED <<pinCfg, pinCtl, pinIo, ch_status, io_error>>

-----------------------------------------------------------------------------
(* Mutant: a channel that sees an edge it does not look for forgets it.    *)
LevelAtEdgesOnly(status, value) ==
  \/ status.polarity = "LoToHi" /\ value
  \/ status.polarity = "HiToLo" /\ ~value
  \/ status.polarity = "Toggle"

(* When nrf_gpiote_input_change_ntf() keeps the new level.                 *)
KeepsLevel(status, value) == status.polarity # "None"

IsEdge(status, value) ==
  /\ status.level # value
  /\ \/ status.polarity = "LoToHi" /\ value
     \/ status.polarity = "HiToLo" /\ ~value
     \/ status.polarity = "Toggle"

(* The first channel that knows the pin, be it disabled or in task mode.   *)
ChannelsOf(n) == {ch \in Channels : ch_status[ch].pin = n}

(* nrf_gpio_input_change_sideeffects(), nrf_gpiote_input_change_ntf(), for *)
(* the next pin of the loop of nrf_gpio_eval_inputs(), at its level of now. *)
Notify ==
  /\ io_todo # <<>> /\ IoOp = "notify"
  /\ LET n     == LowestOf(Head(io_todo)[2])
         rest  == PinLoop(<<"notify", Head(io_todo)[2] \ {n}>>) \o Tail(io_todo)
         value == n \in IN_level
         ch    == CHOOSE c \in ChannelsOf(n) : \A d \in ChannelsOf(n) : c <= d
     IN  IF pin_owner[n] # "Event"
           THEN UNCHANGED <<ch_status, gpioteVars, io_error>> /\ io_todo' = rest
         ELSE IF ChannelsOf(n) = {}
           THEN /\ io_error' = "notified of a pin that is not connected"
                /\ UNCHANGED <<ch_status, gpioteVars>> /\ io_todo' = <<>>
           ELSE /\ UNCHANGED io_error
                /\ ch_status' = IF KeepsLevel(ch_status[ch], value)
                     THEN [ch_status EXCEPT ![ch].level = value] ELSE ch_status
                /\ IF IsEdge(ch_status[ch], value)
                     THEN SignalEvent(ch) /\ io_todo' = RoutedTasks(ch) \o rest
                     ELSE UNCHANGED gpioteVars /\ io_todo' = rest
  /\ UNCHANGED <<pinCfg, pinCtl, pinIo, pinSns>>

(* The level that nrf_gpiote_TASKS_OUT(), _SET() or _CLR() gives a channel *)
(* in task mode; without a polarity, a TASK_OUT does nothing.              *)
LevelAfter(task, status) ==
  CASE task = "SET" -> TRUE
    [] task = "CLR" -> FALSE
    [] task = "OUT" /\ status.polarity = "LoToHi" -> TRUE
    [] task = "OUT" /\ status.polarity = "HiToLo" -> FALSE
    [] task = "OUT" /\ status.polarity = "Toggle" -> ~status.level

(* A task of a channel and nrf_gpio_peri_change_output(): the pin must be  *)
(* the channel's.                                                          *)
ChannelTask ==
  /\ io_todo # <<>> /\ IoOp = "task"
  /\ LET task   == Head(io_todo)[2]
         ch     == Head(io_todo)[3]
         status == ch_status[ch]
     IN  IF status.mode # "Task" \/ (task = "OUT" /\ status.polarity = "None")
           THEN UNCHANGED <<ch_status, external_OUT, io_error>> /\ io_todo' = Tail(io_todo)
           ELSE LET level == LevelAfter(task, status)
                IN  /\ ch_status' = [ch_status EXCEPT ![ch].level = level]
                    /\ IF pin_owner[status.pin] = "gpio"
                         THEN /\ io_error' = "toggles an output it does not own"
                              /\ UNCHANGED external_OUT /\ io_todo' = <<>>
                         ELSE /\ external_OUT' = IF level THEN external_OUT \union {status.pin}
                                                 ELSE external_OUT \ {status.pin}
                              /\ io_todo' = <<<<"outputs">>>> \o Tail(io_todo)
                              /\ UNCHANGED io_error
  /\ UNCHANGED <<pinCfg, pin_owner, pinIo, pinSns, gpioteVars>>

(* Mutant: a channel that is moved to another pin keeps the old one.       *)
LeavesPinOnDisable(ch, config) ==
  config.mode = "Disabled" /\ ch_status[ch].mode # "Disabled"

(* nrf_gpiote_regw_sideeffects_CONFIG(): when the old pin is given back.   *)
LeavesPin(ch, config) ==
  \/ config.pin # ch_status[ch].pin
  \/ config.mode = "Disabled" /\ ch_status[ch].mode # "Disabled"

(* nrf_gpio_peri_pin_control(), for the old pin of a channel.              *)
ReleasePin ==
  /\ io_todo # <<>> /\ IoOp = "config"
  /\ LET config == Head(io_todo)[2]
     IN  IF LeavesPin(config.ch, config)
           THEN /\ pin_owner' = [pin_owner EXCEPT ![ch_status[config.ch].pin] = "gpio"]
                /\ io_todo' = <<<<"outputs">>, <<"inputs">>, <<"take", config>>>> \o Tail(io_todo)
           ELSE /\ UNCHANGED pin_owner
                /\ io_todo' = <<<<"take", config>>>> \o Tail(io_todo)
  /\ UNCHANGED <<pinCfg, external_OUT, pinIo, pinSns, ch_status, gpioteVars, io_error>>

(* The rest of nrf_gpiote_regw_sideeffects_CONFIG(), and                   *)
(* nrf_gpio_peri_pin_control() for the new pin.                            *)
TakePin ==
  /\ io_todo # <<>> /\ IoOp = "take"
  /\ LET config == Head(io_todo)[2]
         level  == CASE config.mode = "Event" -> config.pin \in IO_level
                     [] config.mode = "Task" -> config.outinit
                     [] OTHER -> ch_status[config.ch].level
     IN  /\ ch_status' = [ch_status EXCEPT ![config.ch] =
              [mode |-> config.mode, pin |-> config.pin,
               polarity |-> config.polarity, level |-> level]]
         /\ IF config.mode = "Disabled"
              THEN UNCHANGED pinCtl /\ io_todo' = Tail(io_todo)
              ELSE /\ pin_owner' = [pin_owner EXCEPT ![config.pin] = config.mode]
                   /\ external_OUT' =
                        IF config.mode = "Event" THEN external_OUT
                        ELSE IF level THEN external_OUT \union {config.pin}
                        ELSE external_OUT \ {config.pin}
                   /\ io_todo' = <<<<"outputs">>, <<"inputs">>>> \o Tail(io_todo)
  /\ UNCHANGED <<pinCfg, pinIo, pinSns, gpioteVars, io_error>>

-----------------------------------------------------------------------------
(* Writes to OUT, DIR and the SET and CLR registers of both.               *)
SoftwareOutputs ==
  /\ \/ OUT' \in SUBSET OutputPins /\ UNCHANGED DIR
     \/ DIR' \in SUBSET OutputPins /\ UNCHANGED OUT
  /\ io_todo' = <<<<"outputs">>>>
  /\ UNCHANGED <<INPUT, SENSE_mask, SENSE_inv, DETECTMODE, pinCtl, pinIo, pinSns, ch_status,
                 gpioteVars, io_error>>

Put(n, into, set) == IF into THEN set \union {n} ELSE set \ {n}

(* nrf_gpio_regw_sideeffects_PIN_CNF(): what it evaluates depends on what  *)
(* changed.                                                                *)
SoftwarePinCnf ==
  /\ \E n \in Pins, output, connected \in BOOLEAN, sense \in {"off", "high", "low"} :
       /\ output => n \in OutputPins
       /\ connected \/ sense # "off" => n \in InputPins
       /\ DIR'        = Put(n, output, DIR)
       /\ INPUT'      = Put(n, connected, INPUT)
       /\ SENSE_mask' = Put(n, sense # "off", SENSE_mask)
       /\ SENSE_inv'  = Put(n, sense = "low", SENSE_inv)
  /\ io_todo' = (IF DIR' # DIR THEN <<<<"outputs">>>> ELSE <<>>)
                  \o (IF INPUT' # INPUT THEN <<<<"inputs">>>> ELSE <<>>)
                  \o (IF SENSE_mask' # SENSE_mask \/ SENSE_inv' # SENSE_inv
                        THEN <<<<"sense">>>> ELSE <<>>)
  /\ UNCHANGED <<OUT, DETECTMODE, pinCtl, pinIo, pinSns, ch_status, gpioteVars, io_error>>

(* Mutant: the new mode waits for the next change.                         *)
SoftwareDetectModeNotSensed ==
  /\ DETECTMODE' \in {"DETECT", "LDETECT"}
  /\ UNCHANGED <<OUT, DIR, INPUT, SENSE_mask, SENSE_inv, pinCtl, pinIo, pinSns, ch_status,
                 gpioteVars, io_todo, io_error>>

SoftwareDetectMode ==
  /\ DETECTMODE' \in {"DETECT", "LDETECT"}
  /\ io_todo' = <<<<"sense">>>>
  /\ UNCHANGED <<OUT, DIR, INPUT, SENSE_mask, SENSE_inv, pinCtl, pinIo, pinSns, ch_status,
                 gpioteVars, io_error>>

(* nrf_gpio_regw_sideeffects_LATCH(): the pins still sensed stay latched,  *)
(* and what stays is signalled again.                                      *)
SoftwareLatch ==
  /\ \E cleared \in (SUBSET InputPins) \ {{}} :
       LDETECT' = (LDETECT \ cleared) \union DETECT
  /\ UNCHANGED DETECT
  /\ DETECT_signal' = DetectSignal
  /\ IF LDETECT' # {} /\ DETECTMODE = "LDETECT"
       THEN SignalEvent(PORT) /\ io_todo' = RoutedTasks(PORT)
       ELSE UNCHANGED <<gpioteVars, io_todo>>
  /\ UNCHANGED <<pinCfg, pinCtl, pinIo, ch_status, io_error>>

(* The PPI calls tasks of the channel.                                     *)
Routed(ch) == \E e \in IoEvent : \E i \in DOMAIN ChannelRoutes[e] : ChannelRoutes[e][i][2] = ch

(* What the software must do for its channels to keep their pins: a channel *)
(* is given no pin that the PSEL of another one holds, be that disabled, nor*)
(* pin 0, which the PSEL of a channel out of reset holds; and a channel in  *)
(* task mode, of which the PPI calls tasks, stays with its pin.             *)
CarefulConfig(config) ==
  /\ config.pin # 0
  /\ \A ch \in Channels \ {config.ch} : ch_status[ch].pin # config.pin
  /\ ch_status[config.ch].mode = "Task" /\ Routed(config.ch)
       => config.mode = "Task" /\ config.pin = ch_status[config.ch].pin

SoftwareGpiote ==
  /\ \/ \E config \in ChannelConfigs : /\ CarefulSoftware => CarefulConfig(config)
                                       /\ io_todo' = <<<<"config", config>>>>
     \/ \E task \in IoTask, ch \in Channels : io_todo' = <<<<"task", task, ch>>>>
  /\ UNCHANGED <<pinCfg, pinCtl, pinIo, pinSns, ch_status, gpioteVars, io_error>>

(* A handler clears an event; INTENSET and INTENCLR.                       *)
SoftwareGpioteInterrupts ==
  /\ \E e \in SignalInts :
       \/ IO_EVENTS' = IO_EVENTS \ {e} /\ UNCHANGED GPIOTE_ITEN
       \/ GPIOTE_ITEN' \in {GPIOTE_ITEN \union {e}, GPIOTE_ITEN \ {e}} /\ UNCHANGED IO_EVENTS
  /\ GpioteEvalInterrupt
  /\ UNCHANGED <<pinCfg, pinCtl, pinIo, pinSns, ch_status, io_todo, io_error>>

(* nrf_gpio_test_change_pin_level(), and the next line of the input file.  *)
TestDrives ==
  /\ \E n \in TestPins, value \in BOOLEAN : io_todo' = <<<<"drive", n, value>>>>
  /\ UNCHANGED <<pinCfg, pinCtl, pinIo, pinSns, ch_status, gpioteVars, io_error>>

IoSoftware ==
  /\ io_todo = <<>> /\ io_error = "none"
  /\ \/ SoftwareOutputs \/ SoftwarePinCnf \/ SoftwareDetectMode \/ SoftwareLatch
     \/ SoftwareGpiote \/ SoftwareGpioteInterrupts \/ TestDrives

IoNext ==
  \/ EvalOutputs \/ PropagateOutput \/ EvalInput \/ EvalInputs \/ EvalSense \/ Notify \/ ChannelTask
  \/ ReleasePin \/ TakePin \/ IoSoftware

IoSpec == IoInit /\ [][IoNext]_ioVars

-----------------------------------------------------------------------------
(* What remains to be done; a loop has pins left.                          *)
IoEntry ==
  {<<"outputs">>, <<"inputs">>, <<"sense">>}
  \union ({"propagate"} \X ((SUBSET Pins) \ {{}}) \X SUBSET Pins)
  \union ({"notify"} \X ((SUBSET Pins) \ {{}}))
  \union ({"drive"} \X Pins \X BOOLEAN) \union ({"task"} \X IoTask \X Channels)
  \union ({"config", "take"} \X ChannelConfigs)

(* The variables keep their types (NRF_GPIO.c:48-71, NRF_GPIOTE.c:27-40).  *)
IoTypeOK ==
  /\ \A set \in {OUT, DIR, INPUT, SENSE_mask, SENSE_inv, external_OUT, O_level, IO_level, IN_level,
                 DETECT, LDETECT} : set \subseteq Pins
  /\ DETECTMODE \in {"DETECT", "LDETECT"} /\ DETECT_signal \in BOOLEAN
  /\ pin_owner \in [Pins -> {"gpio", "Event", "Task"}]
  /\ ch_status \in [Channels -> [mode : {"Disabled", "Event", "Task"}, pin : Pins,
                                 polarity : Polarities, level : BOOLEAN]]
  /\ IO_EVENTS \subseteq IoEvent /\ GPIOTE_ITEN \subseteq SignalInts
  /\ gpiote_int_line \in BOOLEAN
  /\ io_todo \in Seq(IoEntry)

(* However changes of outputs, inputs and owners have called one another,  *)
(* once the last of them returns every level is what the configuration     *)
(* says: the outputs driven high, the inputs that are connected and high,  *)
(* those of them that are sensed, and the signal to the GPIOTE.  An        *)
(* evaluation that a nested call made useless, or a missing one, shows.    *)
PinsSettle ==
  (io_todo = <<>> /\ io_error = "none") =>
    /\ O_level = Driven /\ Driven \subseteq IO_level
    /\ IN_level = IO_level \intersect EnabledInputs
    /\ DETECT = Differing(IN_level, SENSE_inv) \intersect SENSE_mask
    /\ DETECT \subseteq LDETECT
    /\ DETECT_signal = IF DETECTMODE = "DETECT" THEN DETECT # {} ELSE LDETECT # {}

(* A pin that is shorted to an output, and is driven by nothing else,      *)
(* follows it (nrf_gpio_backend_short_propagate(); "it is possible to short *)
(* one output to several (up to 8) inputs", docs/GPIO.md:65): also when the *)
(* change that it makes leads, through a channel, its event and the PPI, to *)
(* changes of other outputs before the loop over the shorts ends, or, if    *)
(* the output has this short alone, of the output itself.                  *)
ShortFollowsOutput ==
  (io_todo = <<>> /\ io_error = "none") =>
    \A n \in Pins : \A i \in DOMAIN Shorted[n] :
      Shorted[n][i] \notin Dir \union TestPins => (Shorted[n][i] \in IO_level <=> n \in O_level)

(* The level from which a channel tells the next edge of its pin is the    *)
(* pin's (gpiote_ch_status[].level): no edge is seen twice or missed, not  *)
(* even those of the time when the channel takes a pin, in an input that   *)
(* was not connected, or of a task that the event itself has called.       *)
ChannelKnowsItsLevel ==
  (io_todo = <<>> /\ io_error = "none") =>
    \A ch \in Channels :
      LET status == ch_status[ch]
      IN  /\ status.mode = "Event" /\ status.polarity # "None" => (status.level <=> status.pin \in IN_level)
          /\ status.mode = "Task" => (status.level <=> status.pin \in O_level)

(* If the software is careful, then whatever pins channels take over from  *)
(* one another, none is left with a pin that has been given back to the    *)
(* GPIO: its next task would end the simulation ("Programming error",      *)
(* NRF_GPIO.c:251-255), and so would a change of a pin that a channel has  *)
(* forgotten (NRF_GPIOTE.c:173).                                           *)
ChannelsOwnTheirPins ==
  io_todo = <<>> =>
    /\ io_error = "none"
    /\ \A ch \in Channels : ch_status[ch].mode # "Disabled" =>
                              pin_owner[ch_status[ch].pin] = ch_status[ch].mode
=============================================================================
