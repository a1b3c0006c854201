------------------------------- MODULE Radio -------------------------------
(***************************************************************************)
(* The radio (NRF_RADIO.c with its signals, timings, utils and bit         *)
(* counter): the main state machine, the automatic switch after TIFS, the  *)
(* procedure by which a stopped radio tells the Phy to abort, and the Phy  *)
(* as an external process that answers each request and may ask again.     *)
(*                                                                         *)
(* Signalling an event calls the PPI and then the tasks of the shortcuts,  *)
(* in the middle of the handler that signalled: "todo" is what is still to *)
(* be run, first things first.  A timer holds the time left to it, so that *)
(* the passing of time (Tick) lowers all of them and needs no bound.       *)
(***************************************************************************)
EXTENDS Integers, Sequences, FiniteSets

CONSTANTS
  Never,              \* TIME_NEVER
  TxChain, RxChain,   \* nrfra_timings_get_TX_chain_delay(), ..._Rx_chain_delay()
  RampUp, TifsRampUp, \* nrfra_timings_get_rampup_time(), by direction: as usual,
                      \* and with the automatic switch after TIFS
  TxRampDown,         \* nrfra_timings_get_TX_rampdown_time(); that of Rx is 0
  AddressTime, PayloadTime, CrcTime,  \* durations of the parts of a packet
  CcaTime,            \* the duration of a CCA or ED measurement
  Tifs,               \* the register TIFS
  Configs,            \* values of [SHORTS, fast] that the software sets
  Routes,             \* the tasks that the PPI calls at each event
  IntEvents,          \* the events whose interrupt wakes the software
  Careless,           \* "restart": the software asks the Phy for something else
                      \* while it awaits an answer; "disable": the software
                      \* disables the radio when the automatic switch does so
  AddressMax,         \* bound: the Phy finds an address that soon
  OtherMax,           \* bound: the longest timer of the other models
  BccMax,             \* bound: the longest time of the bit counter
  SwCalls,            \* bound: what the software does in one awakening
  MaxTodo             \* bound: calls that nest in one another

RadioEvent ==
  {"READY", "TXREADY", "RXREADY", "ADDRESS", "FRAMESTART", "PAYLOAD", "END", "PHYEND",
   "DISABLED", "SYNC", "CRCOK", "CRCERROR", "RSSIEND", "DEVMATCH", "DEVMISS", "BCMATCH",
   "CCAIDLE", "CCABUSY", "CCASTOPPED", "EDEND", "EDSTOPPED"}
RadioTask ==
  {"TXEN", "RXEN", "START", "STOP", "DISABLE", "CCASTART", "CCASTOP", "EDSTART", "EDSTOP",
   "RSSISTART", "RSSISTOP", "BCSTART", "BCSTOP"}

(* Whether a task asks the Phy for something, now or after a ramp-up.       *)
Requests == {"TXEN", "RXEN", "START", "CCASTART", "EDSTART"}

(* What is left of a handler, or is called, after what it signals: neither   *)
(* an event nor a task.                                                     *)
Parts == {"fake_TRXEN_TIFS", "prepare_TIFS_Tx", "prepare_TIFS_Rx", "Rx_Addr_received",
          "Rx_cont_after_addr", "bitcounter_done"}

(* The registers SHORTS and MODECNF0.RU out of reset.                       *)
ResetConfig == [SHORTS |-> {}, fast |-> FALSE]

(* The time from the end of a packet, Tx or Rx, to the automatic enabling.  *)
TifsDelta == [Tx |-> Tifs + TxChain - TifsRampUp["RX"] - 3,
              Rx |-> Tifs - RxChain - TxChain - TifsRampUp["TX"] + 1]

(* No time that is waited for comes to "never", a transmission is heard     *)
(* after its start, and the software sets a TIFS that leaves the radio the  *)
(* time to ramp up (the code's delta is unsigned, and does not check it).   *)
ASSUME RadioTimesAssumption ==
  /\ {Never, TxChain, RxChain, TxRampDown, AddressTime, PayloadTime, CrcTime, CcaTime, Tifs,
      AddressMax, OtherMax, BccMax} \subseteq Nat
  /\ {RampUp, TifsRampUp} \subseteq [{"TX", "RX"} -> Nat]
  /\ \A direction \in {"TX", "RX"} :
        RampUp[direction] < Never /\ TifsRampUp[direction] < Never
  /\ TxRampDown < Never /\ CcaTime < Never /\ OtherMax < Never /\ BccMax < Never
  /\ AddressTime + PayloadTime + CrcTime < Never
  /\ AddressMax + RxChain + PayloadTime + CrcTime < Never
  /\ TxChain <= AddressTime
  /\ \A end \in {"Tx", "Rx"}, direction \in {"TX", "RX"} :
        TifsDelta[end] >= 0 /\ TifsDelta[end] + TifsRampUp[direction] < Never
ASSUME RadioSettingsAssumption ==
  /\ Configs \subseteq [SHORTS : SUBSET (RadioEvent \X RadioTask), fast : BOOLEAN]
  /\ Routes \in [RadioEvent -> SUBSET RadioTask]
  /\ SwCalls \in Nat

VARIABLES
  radio_state, radio_sub_state, Timer_RADIO,
  TIFS_state, TIFS_ToTxNotRx, Timer_TIFS,
  abort_fsm_state, aborting_set, Timer_RADIO_abort_reeval,
  CRC_OK,                           \* of rx_status
  bit_counter_running, Timer_RADIO_bitcounter,
  rssi_sampling_on,
  config,                           \* the registers SHORTS and MODECNF0.RU
  phy,                              \* external: what the Phy is waiting for
  phy_end,                          \* external: the end of what the Phy is at
  other,                            \* external: the first timer of the other models
  awake,                            \* external: what the software may still do now
  todo,                             \* the calls still to be made
  tifs_due                          \* auxiliary: when the TIFS switch must be done

mainVars  == <<radio_state, radio_sub_state, Timer_RADIO>>
tifsVars  == <<TIFS_state, TIFS_ToTxNotRx, Timer_TIFS, tifs_due>>
abortVars == <<abort_fsm_state, aborting_set, Timer_RADIO_abort_reeval>>
bcVars    == <<bit_counter_running, Timer_RADIO_bitcounter>>
phyVars   == <<phy, phy_end>>
envVars   == <<config, other>>
vars == <<mainVars, tifsVars, abortVars, CRC_OK, bcVars, rssi_sampling_on,
          phyVars, envVars, awake, todo>>

(* nrf_radio_init(), radio_reset().                                         *)
Init ==
  /\ radio_state = "DISABLED" /\ radio_sub_state = "INVALID" /\ Timer_RADIO = Never
  /\ TIFS_state = "DISABLE" /\ TIFS_ToTxNotRx = FALSE /\ Timer_TIFS = Never
  /\ abort_fsm_state = "none" /\ aborting_set = FALSE /\ Timer_RADIO_abort_reeval = Never
  /\ CRC_OK = FALSE
  /\ bit_counter_running = FALSE /\ Timer_RADIO_bitcounter = Never
  /\ rssi_sampling_on = FALSE
  /\ config = ResetConfig
  /\ phy = "idle" /\ phy_end = Never /\ other \in 1 .. OtherMax
  /\ awake = SwCalls /\ todo = <<>> /\ tifs_due = Never

-----------------------------------------------------------------------------
(* Calls still to be made.  An event is followed by the tasks the PPI still *)
(* has to call for it.                                                      *)

Entry == [what : RadioEvent \union RadioTask \union Parts, tasks : SUBSET RadioTask]
Call(what) == [what |-> what, tasks |-> IF what \in RadioEvent THEN Routes[what] ELSE {}]
Calls(names) == [i \in DOMAIN names |-> Call(names[i])]

(* The shortcuts of an event, in the order in which the code looks at them. *)
ShortcutTasks ==
  [event \in RadioEvent |->
     CASE event = "READY"      -> <<"START", "EDSTART">>
       [] event = "ADDRESS"    -> <<"RSSISTART", "BCSTART">>
       [] event = "FRAMESTART" -> <<"BCSTART">>
       [] event = "END"        -> <<"DISABLE", "START">>
       [] event = "PHYEND"     -> <<"DISABLE", "START">>
       [] event = "DISABLED"   -> <<"TXEN", "RXEN", "RSSISTOP">>
       [] event = "TXREADY"    -> <<"START">>
       [] event = "RXREADY"    -> <<"START", "CCASTART">>
       [] event = "CCAIDLE"    -> <<"STOP", "TXEN">>
       [] event = "CCABUSY"    -> <<"DISABLE">>
       [] event = "EDEND"      -> <<"DISABLE">>
       [] OTHER                -> <<>>]

Has(event, task) == <<event, task>> \in config.SHORTS

(* nrfra_is_HW_TIFS_enabled().                                              *)
IsHwTifsEnabled ==
  /\ Has("END", "DISABLE")
  /\ Has("DISABLED", "TXEN") \/ Has("DISABLED", "RXEN")
  /\ ~config.fast

(* What an event calls after the PPI.  With the automatic TIFS the radio is *)
(* not enabled by the shortcut but by a fake task.                          *)
Shortcuts(event) ==
  LET enabled(task) == /\ Has(event, task)
                       /\ ~(event = "DISABLED" /\ IsHwTifsEnabled /\ task \in {"TXEN", "RXEN"})
      fake == IF event = "DISABLED" /\ IsHwTifsEnabled THEN <<"fake_TRXEN_TIFS">> ELSE <<>>
      tasks == ShortcutTasks[event]
      ith(i) == IF i \in DOMAIN tasks /\ enabled(tasks[i]) THEN <<tasks[i]>> ELSE <<>>
  IN  Calls(fake \o ith(1) \o ith(2) \o ith(3))

-----------------------------------------------------------------------------
(* The Phy.                                                                 *)

MinOf(times) == CHOOSE t \in times : \A u \in times : t <= u

(* update_abort_struct(): the radio wants to be asked again at the next     *)
(* timer of all; "main" is its own one.  (Its abort timer is off here.)     *)
NextTimer(main) == MinOf({main, Timer_RADIO_bitcounter, other})

(* The Phy is done, or it awaits an answer at the time "recheck".           *)
PhyIsDone ==
  /\ phy' = "idle" /\ phy_end' = Never
  /\ abort_fsm_state' = "none" /\ Timer_RADIO_abort_reeval' = Never
PhyAsksAgain(kind, recheck, end) ==
  /\ phy' = kind /\ phy_end' = end
  /\ abort_fsm_state' = kind /\ Timer_RADIO_abort_reeval' = recheck

(* A call that the Phy does not expect: it is waiting for another one.      *)
PhyError == phy' = "error" /\ UNCHANGED <<phy_end, abort_fsm_state, Timer_RADIO_abort_reeval>>

(* Mutant: the request to abort is not taken back.                          *)
PhyRespondsAgain(kind, recheck, end) ==
  /\ IF aborting_set \/ end <= recheck THEN PhyIsDone
                                       ELSE PhyAsksAgain(kind, recheck, end)
  /\ UNCHANGED aborting_set

(* handle_Tx_response(), handle_CCA_response(): the Phy goes on to the end  *)
(* unless it is told to abort, or to ask again before.                      *)
PhyResponds(kind, recheck, end) ==
  /\ IF aborting_set \/ end <= recheck THEN PhyIsDone
                                       ELSE PhyAsksAgain(kind, recheck, end)
  /\ aborting_set' = FALSE

(* handle_Rx_response() of a packet whose address was accepted.             *)
HandleRxEnd(recheck) ==
  /\ PhyResponds("Rx", recheck, phy_end)
  /\ IF phy' = "idle" /\ radio_state = "RX" /\ ~aborting_set
       THEN CRC_OK' \in BOOLEAN ELSE UNCHANGED CRC_OK

(* handle_Rx_response() while the Phy looks for an address: the answer may  *)
(* be the time of one, which is received a chain delay later.               *)
HandleRxSearch(recheck, mainTimer, subState) ==
  /\ aborting_set' = FALSE
  /\ \/ /\ \/ aborting_set /\ PhyIsDone
           \/ ~aborting_set /\ recheck # Never /\ PhyAsksAgain("Rx", recheck, Never)
        /\ Timer_RADIO' = mainTimer /\ radio_sub_state' = subState
     \/ /\ ~aborting_set /\ radio_state' = "RX"
        /\ \E t \in 1 .. MinOf({recheck, AddressMax}) :
              /\ phy_end' = t + PayloadTime + CrcTime
              /\ Timer_RADIO' = t + RxChain
        /\ phy' = "address"
        /\ abort_fsm_state' = "none" /\ Timer_RADIO_abort_reeval' = Never
        /\ radio_sub_state' = "RX_WAIT_FOR_ADDRESS_END"

-----------------------------------------------------------------------------
(* start_Tx(), start_Rx(), start_CCA_ED(), then the calls of "rest".        *)

StartTx(rest) ==
  /\ radio_state' = "TX" /\ radio_sub_state' = "TX_WAIT_FOR_ADDRESS_END"
  /\ Timer_RADIO' = AddressTime - TxChain
  /\ IF phy = "idle"
       THEN PhyResponds("Tx", NextTimer(Never), AddressTime + PayloadTime + CrcTime)
       ELSE PhyError /\ aborting_set' = FALSE
  /\ todo' = rest
  /\ UNCHANGED <<tifsVars, CRC_OK, bcVars, rssi_sampling_on, envVars>>

StartRx(rest) ==
  /\ radio_state' = "RX"
  /\ CRC_OK' = FALSE
  /\ IF phy = "idle"
       THEN HandleRxSearch(NextTimer(Timer_RADIO), Never, "INVALID")
       ELSE /\ PhyError /\ aborting_set' = FALSE
            /\ Timer_RADIO' = Never /\ radio_sub_state' = "INVALID"
  /\ todo' = rest
  /\ UNCHANGED <<tifsVars, bcVars, rssi_sampling_on, envVars>>

(* The state is "CCA" or "ED", by cca_status.CCA_notED; a measurement may    *)
(* end before its time.                                                     *)
StartCcaEd(state, rest) ==
  /\ radio_state' = state
  /\ IF phy = "idle"
       THEN \E end \in 1 .. CcaTime :
              /\ PhyResponds("CCA", NextTimer(Timer_RADIO), end)
              /\ Timer_RADIO' = IF phy' = "idle" THEN end ELSE CcaTime
       ELSE /\ PhyError /\ aborting_set' = FALSE
            /\ Timer_RADIO' = CcaTime
  /\ todo' = rest
  /\ UNCHANGED <<radio_sub_state, tifsVars, CRC_OK, bcVars, rssi_sampling_on, envVars>>

-----------------------------------------------------------------------------
(* Tasks.                                                                   *)

(* nrf_radio_stop_bit_counter().                                            *)
StopBitCounter == bit_counter_running' = FALSE /\ Timer_RADIO_bitcounter' = Never

(* Mutant: the end of the address is still awaited.                         *)
AbortIfNeededStillWaits ==
  /\ aborting_set' = (aborting_set \/ abort_fsm_state # "none")
  /\ IF radio_sub_state = "RX_WAIT_FOR_ADDRESS_END"
       THEN IF phy = "address" THEN phy' = "idle" /\ phy_end' = Never
                               ELSE phy' = "error" /\ UNCHANGED phy_end
       ELSE UNCHANGED phyVars
  /\ UNCHANGED <<radio_sub_state, abort_fsm_state, Timer_RADIO_abort_reeval>>

(* abort_if_needed(): an answer that the Phy awaits will be an abort; if it *)
(* waits for the end of an address, it is told at once.                     *)
AbortIfNeeded ==
  /\ aborting_set' = (aborting_set \/ abort_fsm_state # "none")
  /\ IF radio_sub_state = "RX_WAIT_FOR_ADDRESS_END"
       THEN /\ radio_sub_state' = "INVALID"
            /\ IF phy = "address" THEN phy' = "idle" /\ phy_end' = Never
                                  ELSE phy' = "error" /\ UNCHANGED phy_end
       ELSE UNCHANGED <<radio_sub_state, phyVars>>
  /\ UNCHANGED <<abort_fsm_state, Timer_RADIO_abort_reeval>>

Ignored(rest) == /\ todo' = rest
                 /\ UNCHANGED <<mainVars, tifsVars, abortVars, CRC_OK, bcVars,
                                rssi_sampling_on, phyVars, envVars>>

(* Mutant: only the shortcuts of now tell a switch after TIFS.              *)
RampupTimeByShortcuts(direction, fromHwTifs) ==
  IF ~config.fast /\ IsHwTifsEnabled THEN TifsRampUp[direction] ELSE RampUp[direction]

(* nrfra_timings_get_rampup_time().                                         *)
RampupTime(direction, fromHwTifs) ==
  IF ~config.fast /\ (fromHwTifs \/ IsHwTifsEnabled) THEN TifsRampUp[direction]
                                                      ELSE RampUp[direction]

(* Mutant: the state is not looked at.                                      *)
IsReadyAlways == TRUE

IsReady == radio_state \in {"DISABLED", "TXIDLE", "RXIDLE"}

(* TXEN and RXEN; the auxiliary tifs_due goes on only from the TIFS timer.  *)
TASKS_TXEN(fromHwTifs, rest) ==
  IF IsReady
    THEN /\ radio_state' = "TXRU"
         /\ Timer_RADIO' = RampupTime("TX", fromHwTifs)
         /\ TIFS_state' = IF fromHwTifs THEN "DISABLE" ELSE TIFS_state
         /\ tifs_due' = IF fromHwTifs THEN tifs_due ELSE Never
         /\ todo' = rest
         /\ UNCHANGED <<radio_sub_state, TIFS_ToTxNotRx, Timer_TIFS, abortVars, CRC_OK,
                        bcVars, rssi_sampling_on, phyVars, envVars>>
    ELSE Ignored(rest)

TASKS_RXEN(fromHwTifs, rest) ==
  IF IsReady
    THEN /\ radio_state' = "RXRU"
         /\ Timer_RADIO' = RampupTime("RX", fromHwTifs)
         /\ TIFS_state' = "DISABLE"
         /\ tifs_due' = IF fromHwTifs THEN tifs_due ELSE Never
         /\ todo' = rest
         /\ UNCHANGED <<radio_sub_state, TIFS_ToTxNotRx, Timer_TIFS, abortVars, CRC_OK,
                        bcVars, rssi_sampling_on, phyVars, envVars>>
    ELSE Ignored(rest)

TASKS_START(rest) ==
  CASE radio_state = "TXIDLE" ->
         /\ radio_state' = "TXSTARTING" /\ Timer_RADIO' = TxChain
         /\ todo' = rest
         /\ UNCHANGED <<radio_sub_state, tifsVars, abortVars, CRC_OK, bcVars,
                        rssi_sampling_on, phyVars, envVars>>
    [] radio_state = "RXIDLE" -> StartRx(rest)
    [] OTHER -> Ignored(rest)

TASKS_CCASTART(rest) == IF radio_state = "RXIDLE" THEN StartCcaEd("CCA", rest) ELSE Ignored(rest)
TASKS_EDSTART(rest)  == IF radio_state = "RXIDLE" THEN StartCcaEd("ED", rest) ELSE Ignored(rest)

(* Mutant: the end of the measurement still comes.                          *)
StopCcaEdTimerRuns(state, event, rest) ==
  IF radio_state = state
    THEN /\ AbortIfNeeded
         /\ radio_state' = "RXIDLE" /\ UNCHANGED Timer_RADIO
         /\ todo' = <<Call(event)>> \o rest
         /\ UNCHANGED <<tifsVars, CRC_OK, bcVars, rssi_sampling_on, envVars>>
    ELSE Ignored(rest)

(* CCASTOP, EDSTOP.                                                         *)
StopCcaEd(state, event, rest) ==
  IF radio_state = state
    THEN /\ AbortIfNeeded
         /\ radio_state' = "RXIDLE" /\ Timer_RADIO' = Never
         /\ todo' = <<Call(event)>> \o rest
         /\ UNCHANGED <<tifsVars, CRC_OK, bcVars, rssi_sampling_on, envVars>>
    ELSE Ignored(rest)

(* Mutant: a measurement is not aborted.                                    *)
IsActiveTxRx == radio_state \in {"TX", "RX"}

IsActive == radio_state \in {"TX", "RX", "CCA", "ED"}
Idle == IF radio_state \in {"TX", "TXSTARTING"} THEN "TXIDLE" ELSE "RXIDLE"

TASKS_STOP(rest) ==
  /\ StopBitCounter
  /\ IF IsActive THEN AbortIfNeeded ELSE UNCHANGED <<radio_sub_state, abortVars, phyVars>>
  /\ IF IsActive \/ radio_state = "TXSTARTING"
       THEN radio_state' = Idle /\ Timer_RADIO' = Never
       ELSE UNCHANGED <<radio_state, Timer_RADIO>>
  /\ todo' = rest
  /\ UNCHANGED <<tifsVars, CRC_OK, rssi_sampling_on, envVars>>

(* A radio that is disabled says so again; DISABLE also gives up the        *)
(* automatic switch, whose time Timer_RADIO may hold.                       *)
TASKS_DISABLE(rest) ==
  LET tx == radio_state \in {"TXRU", "TXIDLE", "TXSTARTING", "TX"}
      rx == radio_state \in {"RXRU", "RXIDLE", "RX", "CCA", "ED"}
  IN  /\ StopBitCounter
      /\ IF IsActive THEN AbortIfNeeded ELSE UNCHANGED <<radio_sub_state, abortVars, phyVars>>
      /\ radio_state' = IF tx THEN "TXDISABLE" ELSE IF rx THEN "RXDISABLE" ELSE radio_state
      /\ Timer_RADIO' = IF tx THEN TxRampDown ELSE IF rx THEN 0
                        ELSE IF TIFS_state # "DISABLE" THEN Never ELSE Timer_RADIO
      /\ TIFS_state' = "DISABLE"
      /\ Timer_TIFS' = IF TIFS_state # "DISABLE" THEN Never ELSE Timer_TIFS
      /\ tifs_due' = Never
      /\ todo' = IF radio_state = "DISABLED" THEN <<Call("DISABLED")>> \o rest ELSE rest
      /\ UNCHANGED <<TIFS_ToTxNotRx, CRC_OK, rssi_sampling_on, envVars>>

TASKS_RSSI(on, rest) ==
  /\ rssi_sampling_on' = on
  /\ todo' = rest
  /\ UNCHANGED <<mainVars, tifsVars, abortVars, CRC_OK, bcVars, phyVars, envVars>>

(* The software sets BCC freely: the match comes after any time.            *)
TASKS_BCSTART(rest) ==
  /\ IF bit_counter_running THEN UNCHANGED bcVars
       ELSE bit_counter_running' = TRUE /\ Timer_RADIO_bitcounter' \in 1 .. BccMax
  /\ todo' = rest
  /\ UNCHANGED <<mainVars, tifsVars, abortVars, CRC_OK, rssi_sampling_on, phyVars,
                 envVars>>

TASKS_BCSTOP(rest) ==
  /\ StopBitCounter
  /\ todo' = rest
  /\ UNCHANGED <<mainVars, tifsVars, abortVars, CRC_OK, rssi_sampling_on, phyVars,
                 envVars>>

RunTask(task, rest) ==
  CASE task = "TXEN"      -> TASKS_TXEN(FALSE, rest)
    [] task = "RXEN"      -> TASKS_RXEN(FALSE, rest)
    [] task = "START"     -> TASKS_START(rest)
    [] task = "STOP"      -> TASKS_STOP(rest)
    [] task = "DISABLE"   -> TASKS_DISABLE(rest)
    [] task = "CCASTART"  -> TASKS_CCASTART(rest)
    [] task = "CCASTOP"   -> StopCcaEd("CCA", "CCASTOPPED", rest)
    [] task = "EDSTART"   -> TASKS_EDSTART(rest)
    [] task = "EDSTOP"    -> StopCcaEd("ED", "EDSTOPPED", rest)
    [] task = "RSSISTART" -> TASKS_RSSI(TRUE, rest)
    [] task = "RSSISTOP"  -> TASKS_RSSI(FALSE, rest)
    [] task = "BCSTART"   -> TASKS_BCSTART(rest)
    [] task = "BCSTOP"    -> TASKS_BCSTOP(rest)

-----------------------------------------------------------------------------
(* The calls under way.                                                     *)

(* nrf_ppi_event(): the PPI calls any of the tasks routed from the event.   *)
PpiCallsTask ==
  /\ todo # <<>> /\ Len(todo) < MaxTodo
  /\ \E task \in Head(todo).tasks :
        RunTask(task, <<[Head(todo) EXCEPT !.tasks = @ \ {task}]>> \o Tail(todo))
  /\ UNCHANGED awake

(* The shortcuts and the interrupt of an event.                             *)
SignalEnds ==
  /\ todo # <<>> /\ Head(todo).what \in RadioEvent
  /\ todo' = Shortcuts(Head(todo).what) \o Tail(todo)
  /\ awake' = IF Head(todo).what \in IntEvents THEN SwCalls ELSE awake
  /\ UNCHANGED <<mainVars, tifsVars, abortVars, CRC_OK, bcVars, rssi_sampling_on,
                 phyVars, envVars>>

ShortcutCallsTask ==
  /\ todo # <<>> /\ Head(todo).what \in RadioTask
  /\ RunTask(Head(todo).what, Tail(todo))
  /\ UNCHANGED awake

Continues(what) == todo # <<>> /\ Head(todo).what = what

(* nrf_radio_fake_task_TRXEN_TIFS().                                        *)
FakeTaskTrxenTifs ==
  /\ Continues("fake_TRXEN_TIFS")
  /\ IF TIFS_state = "WAITING_FOR_DISABLE"
       THEN TIFS_state' = "TRIGGERING_TRX_EN" /\ Timer_RADIO' = Timer_TIFS
       ELSE UNCHANGED <<TIFS_state, Timer_RADIO>>
  /\ todo' = Tail(todo)
  /\ UNCHANGED <<radio_state, radio_sub_state, TIFS_ToTxNotRx, Timer_TIFS, tifs_due, abortVars,
                 CRC_OK, bcVars, rssi_sampling_on, phyVars, envVars, awake>>

(* maybe_prepare_TIFS(): when to enable the radio so that it is ready at    *)
(* the time the register TIFS asks for.                                     *)
MaybePrepareTifs ==
  \E end \in {"Tx", "Rx"} :
    /\ Continues(IF end = "Tx" THEN "prepare_TIFS_Tx" ELSE "prepare_TIFS_Rx")
    /\ IF IsHwTifsEnabled
         THEN LET toTx == Has("DISABLED", "TXEN")
              IN  /\ TIFS_ToTxNotRx' = toTx
                  /\ Timer_TIFS' = TifsDelta[end]
                  /\ TIFS_state' = "WAITING_FOR_DISABLE"
                  /\ tifs_due' = TifsDelta[end] + TifsRampUp[IF toTx THEN "TX" ELSE "RX"]
         ELSE TIFS_state' = "DISABLE" /\ UNCHANGED <<TIFS_ToTxNotRx, Timer_TIFS, tifs_due>>
    /\ todo' = Tail(todo)
    /\ UNCHANGED <<mainVars, abortVars, CRC_OK, bcVars, rssi_sampling_on, phyVars,
                   envVars, awake>>

(* Rx_Addr_received(), to the signals; the software chooses whether it wants *)
(* addresses to be matched.                                                  *)
RxAddrReceived ==
  /\ Continues("Rx_Addr_received")
  /\ \E match \in {<<>>, <<"DEVMATCH">>, <<"DEVMISS">>} :
        todo' = Calls((IF rssi_sampling_on THEN <<"RSSIEND">> ELSE <<>>) \o match
                      \o <<"Rx_cont_after_addr">>) \o Tail(todo)
  /\ UNCHANGED <<mainVars, tifsVars, abortVars, CRC_OK, bcVars, rssi_sampling_on,
                 phyVars, envVars, awake>>

(* Its end, which answers the Phy that the packet is rejected (it is longer *)
(* than MAXLEN) or accepted, and that of the handler that called it.        *)
RxContAfterAddr ==
  /\ Continues("Rx_cont_after_addr")
  /\ IF phy = "address"
       THEN \/ PhyIsDone /\ aborting_set' = FALSE /\ UNCHANGED CRC_OK
            \/ HandleRxEnd(NextTimer(Timer_RADIO))
       ELSE PhyError /\ aborting_set' = FALSE /\ UNCHANGED CRC_OK
  /\ radio_sub_state' = "RX_WAIT_FOR_PAYLOAD_END"
  /\ Timer_RADIO' = PayloadTime
  /\ todo' = Tail(todo)
  /\ UNCHANGED <<radio_state, tifsVars, bcVars, rssi_sampling_on, envVars, awake>>

(* The end of nrf_radio_bitcounter_timer_triggered().                       *)
BitCounterDone ==
  /\ Continues("bitcounter_done")
  /\ Timer_RADIO_bitcounter' = Never
  /\ todo' = Tail(todo)
  /\ UNCHANGED <<mainVars, tifsVars, abortVars, CRC_OK, bit_counter_running,
                 rssi_sampling_on, phyVars, envVars, awake>>

Continue == \/ PpiCallsTask \/ SignalEnds \/ ShortcutCallsTask \/ FakeTaskTrxenTifs
            \/ MaybePrepareTifs \/ RxAddrReceived \/ RxContAfterAddr \/ BitCounterDone

-----------------------------------------------------------------------------
(* Timers.                                                                  *)

Quiet == todo = <<>> /\ awake = 0

(* A state of the main machine ends: the next state, its timer, the calls.  *)
MainStep(state, sub, timer, names) ==
  /\ radio_state' = state /\ radio_sub_state' = sub /\ Timer_RADIO' = timer
  /\ todo' = Calls(names)
  /\ UNCHANGED <<tifsVars, abortVars, CRC_OK, bcVars, rssi_sampling_on, phyVars,
                 envVars>>

IsTifsSwitch == radio_state = "DISABLED" /\ TIFS_state = "TRIGGERING_TRX_EN"

(* The states in which the timer of the main machine may expire.            *)
TimerIsExpected ==
  \/ radio_state \in {"TXRU", "RXRU", "TXSTARTING", "CCA", "ED", "TXDISABLE", "RXDISABLE"}
  \/ radio_state = "TX" /\ radio_sub_state \in {"TX_WAIT_FOR_ADDRESS_END",
                                "TX_WAIT_FOR_PAYLOAD_END", "TX_WAIT_FOR_CRC_END"}
  \/ radio_state = "RX" /\ radio_sub_state \in {"RX_WAIT_FOR_ADDRESS_END",
                                "RX_WAIT_FOR_PAYLOAD_END", "RX_WAIT_FOR_CRC_END"}
  \/ IsTifsSwitch

(* nrf_radio_timer_triggered().                                             *)
RadioTimer ==
  /\ Quiet /\ Timer_RADIO = 0
  /\ \/ /\ radio_state = "TXRU"
        /\ MainStep("TXIDLE", radio_sub_state, Never, <<"READY", "TXREADY">>)
     \/ /\ radio_state = "RXRU"
        /\ MainStep("RXIDLE", radio_sub_state, Never, <<"READY", "RXREADY">>)
     \/ radio_state = "TXSTARTING" /\ StartTx(<<>>)
     \/ /\ radio_state = "TX" /\ radio_sub_state = "TX_WAIT_FOR_ADDRESS_END"
        /\ MainStep("TX", "TX_WAIT_FOR_PAYLOAD_END", PayloadTime, <<"ADDRESS", "FRAMESTART">>)
     \/ /\ radio_state = "TX" /\ radio_sub_state = "TX_WAIT_FOR_PAYLOAD_END"
        /\ MainStep("TX", "TX_WAIT_FOR_CRC_END", CrcTime, <<"PAYLOAD">>)
     \/ /\ radio_state = "TX" /\ radio_sub_state = "TX_WAIT_FOR_CRC_END"
        /\ MainStep("TXIDLE", "INVALID", Never, <<"BCSTOP", "END", "PHYEND", "prepare_TIFS_Tx">>)
     \/ /\ radio_state = "RX" /\ radio_sub_state = "RX_WAIT_FOR_ADDRESS_END"
        /\ MainStep("RX", radio_sub_state, Never,
                    <<"SYNC", "ADDRESS", "FRAMESTART", "Rx_Addr_received">>)
     \/ /\ radio_state = "RX" /\ radio_sub_state = "RX_WAIT_FOR_PAYLOAD_END"
        /\ MainStep("RX", "RX_WAIT_FOR_CRC_END", CrcTime, <<"PAYLOAD">>)
     \/ /\ radio_state = "RX" /\ radio_sub_state = "RX_WAIT_FOR_CRC_END"
        /\ MainStep("RXIDLE", "INVALID", Never, <<IF CRC_OK THEN "CRCOK" ELSE "CRCERROR",
                                                 "BCSTOP", "PHYEND", "END", "prepare_TIFS_Rx">>)
     \/ /\ radio_state = "CCA"
        /\ \E event \in {"CCABUSY", "CCAIDLE"} :
              MainStep("RXIDLE", radio_sub_state, Never, <<event>>)
     \/ radio_state = "ED" /\ MainStep("RXIDLE", radio_sub_state, Never, <<"EDEND">>)
     \/ /\ radio_state \in {"TXDISABLE", "RXDISABLE"}
        /\ MainStep("DISABLED", radio_sub_state, Never, <<"BCSTOP", "DISABLED">>)
     \/ IsTifsSwitch /\ TIFS_ToTxNotRx /\ TASKS_TXEN(TRUE, <<>>)
     \/ IsTifsSwitch /\ ~TIFS_ToTxNotRx /\ TASKS_RXEN(TRUE, <<>>)
  /\ UNCHANGED awake

(* nrf_radio_bitcounter_timer_triggered().                                  *)
BitCounterTimer ==
  /\ Quiet /\ Timer_RADIO # 0 /\ Timer_RADIO_bitcounter = 0
  /\ todo' = Calls(<<"BCMATCH", "bitcounter_done">>)
  /\ UNCHANGED <<mainVars, tifsVars, abortVars, CRC_OK, bcVars, rssi_sampling_on,
                 phyVars, envVars, awake>>

(* nrf_radio_timer_abort_reeval_triggered(), the last timer of a time, and  *)
(* the answer to the Phy: Tx_, Rx_ or CCA_abort_eval_respond().             *)
AbortReevalTimer ==
  /\ Quiet /\ Timer_RADIO # 0 /\ Timer_RADIO_bitcounter # 0 /\ other # 0
  /\ Timer_RADIO_abort_reeval = 0
  /\ LET recheck == NextTimer(Timer_RADIO)
     IN  \/ /\ abort_fsm_state = "Tx"
            /\ PhyResponds("Tx", recheck, phy_end)
            /\ UNCHANGED <<mainVars, CRC_OK>>
         \/ /\ abort_fsm_state = "Rx" /\ phy_end = Never
            /\ HandleRxSearch(recheck, Timer_RADIO, radio_sub_state)
            /\ UNCHANGED <<radio_state, CRC_OK>>
         \/ /\ abort_fsm_state = "Rx" /\ phy_end # Never
            /\ HandleRxEnd(recheck)
            /\ UNCHANGED mainVars
         \/ /\ abort_fsm_state = "CCA"
            /\ PhyResponds("CCA", recheck, phy_end)
            /\ Timer_RADIO' = IF phy' = "idle" /\ radio_state \in {"CCA", "ED"} THEN phy_end
                              ELSE Timer_RADIO
            /\ UNCHANGED <<radio_state, radio_sub_state, CRC_OK>>
  /\ UNCHANGED <<tifsVars, bcVars, rssi_sampling_on, envVars, awake, todo>>

(* A timer of another model: its task or its interrupt may do anything.     *)
OtherTimer ==
  /\ Quiet /\ other = 0
  /\ other' \in (1 .. OtherMax) \union {Never}
  /\ awake' = SwCalls
  /\ UNCHANGED <<mainVars, tifsVars, abortVars, CRC_OK, bcVars, rssi_sampling_on,
                 phyVars, config, todo>>

Lower(timer) == IF timer = Never THEN Never ELSE timer - 1

(* The time passes up to the next timer.                                    *)
Tick ==
  /\ Quiet
  /\ 0 \notin {Timer_RADIO, Timer_RADIO_bitcounter, Timer_RADIO_abort_reeval, other}
  /\ Timer_RADIO' = Lower(Timer_RADIO)
  /\ Timer_RADIO_bitcounter' = Lower(Timer_RADIO_bitcounter)
  /\ Timer_RADIO_abort_reeval' = Lower(Timer_RADIO_abort_reeval)
  /\ other' = Lower(other)
  /\ phy_end' = IF phy_end = 0 THEN 0 ELSE Lower(phy_end)
  /\ Timer_TIFS' = IF Timer_TIFS = 0 THEN 0 ELSE Lower(Timer_TIFS)
  /\ tifs_due' = IF tifs_due = 0 THEN Never ELSE Lower(tifs_due)
  /\ UNCHANGED <<radio_state, radio_sub_state, TIFS_state, TIFS_ToTxNotRx, abort_fsm_state,
                 aborting_set, CRC_OK, bit_counter_running, rssi_sampling_on,
                 config, phy, awake, todo>>

-----------------------------------------------------------------------------
(* The software, awake, writes a register or does nothing more.             *)

SoftwareStep == todo = <<>> /\ awake > 0 /\ awake' = awake - 1

(* nrf_radio_regw_sideeffects_TASKS_*(); those of RSSI only warn.           *)
SoftwareTask ==
  /\ SoftwareStep
  /\ \E task \in RadioTask \ {"RSSISTART", "RSSISTOP"} :
        /\ task \in Requests => phy = "idle" \/ "restart" \in Careless
        /\ task = "DISABLE" /\ TIFS_state = "WAITING_FOR_DISABLE" => "disable" \in Careless
        /\ RunTask(task, <<>>)

(* SHORTS and MODECNF0 are written, or left as they are; a fast ramp-up has *)
(* no time to keep.                                                         *)
SoftwareConfig ==
  /\ SoftwareStep
  /\ config' \in Configs
  /\ tifs_due' = IF config'.fast THEN Never ELSE tifs_due
  /\ UNCHANGED <<mainVars, TIFS_state, TIFS_ToTxNotRx, Timer_TIFS, abortVars, CRC_OK,
                 bcVars, rssi_sampling_on, phyVars, other, todo>>

(* nrf_radio_regw_sideeffects_BCC(): the new time is in the past, or not.   *)
SoftwareBcc ==
  /\ SoftwareStep /\ bit_counter_running
  /\ Timer_RADIO_bitcounter' \in (1 .. BccMax) \union {Never}
  /\ UNCHANGED <<mainVars, tifsVars, abortVars, CRC_OK, bit_counter_running,
                 rssi_sampling_on, phyVars, envVars, todo>>

(* nrf_radio_regw_sideeffects_POWER(), after the radio was powered off;     *)
(* radio_reset().                                                           *)
SoftwarePowerOn ==
  /\ SoftwareStep
  /\ aborting_set' = (aborting_set \/ abort_fsm_state # "none")
  /\ IF radio_sub_state = "RX_WAIT_FOR_ADDRESS_END" THEN phy' = "idle" /\ phy_end' = Never
                                                    ELSE UNCHANGED phyVars
  /\ radio_state' = "DISABLED" /\ radio_sub_state' = "INVALID" /\ Timer_RADIO' = Never
  /\ TIFS_state' = "DISABLE" /\ TIFS_ToTxNotRx' = FALSE /\ Timer_TIFS' = Never
  /\ tifs_due' = Never
  /\ rssi_sampling_on' = FALSE
  /\ StopBitCounter
  /\ config' = ResetConfig
  /\ UNCHANGED <<abort_fsm_state, Timer_RADIO_abort_reeval, CRC_OK, other, todo>>

Software == SoftwareTask \/ SoftwareConfig \/ SoftwareBcc \/ SoftwarePowerOn

Next == \/ Continue \/ RadioTimer \/ BitCounterTimer \/ AbortReevalTimer \/ OtherTimer
        \/ Tick \/ Software

(* The engine runs the calls and the timers that are due, and time passes   *)
(* when none is; the software does a bounded number of things at a time.    *)
Spec == Init /\ [][Next]_vars /\ WF_vars(Next)

-----------------------------------------------------------------------------
(* Properties.                                                              *)

States == {"DISABLED", "TXRU", "TXIDLE", "TXSTARTING", "TX", "TXDISABLE",
           "RXRU", "RXIDLE", "RX", "CCA", "ED", "RXDISABLE"}
Times  == 0 .. Never

(* The types of the variables.                                              *)
TypeOK ==
  /\ radio_state \in States
  /\ radio_sub_state \in {"INVALID", "TX_WAIT_FOR_ADDRESS_END", "TX_WAIT_FOR_PAYLOAD_END",
        "TX_WAIT_FOR_CRC_END", "RX_WAIT_FOR_ADDRESS_END", "RX_WAIT_FOR_PAYLOAD_END",
        "RX_WAIT_FOR_CRC_END"}
  /\ TIFS_state \in {"DISABLE", "WAITING_FOR_DISABLE", "TRIGGERING_TRX_EN"}
  /\ {Timer_RADIO, Timer_TIFS, Timer_RADIO_abort_reeval, Timer_RADIO_bitcounter, phy_end, other,
      tifs_due} \subseteq Times
  /\ abort_fsm_state \in {"none", "Tx", "Rx", "CCA"}
  /\ {aborting_set, CRC_OK, TIFS_ToTxNotRx, bit_counter_running,
      rssi_sampling_on} \subseteq BOOLEAN
  /\ config \in Configs \union {ResetConfig}
  /\ phy \in {"idle", "Tx", "Rx", "CCA", "address", "error"}
  /\ awake \in 0 .. SwCalls
  /\ todo \in Seq(Entry)

(* The Phy is never called while it waits for another answer: a procedure   *)
(* starts after the last one has ended, and an address is answered once,    *)
(* whatever the radio was told in between.                                  *)
PhyIsAnsweredOnce == phy # "error"

(* A radio that has left the state in which it asked the Phy for something  *)
(* will tell the Phy to abort; only a transmission may end by itself, the   *)
(* chain delay before it ends on the air.                                   *)
ActiveStates == [Tx |-> {"TX"}, Rx |-> {"RX"}, CCA |-> {"CCA", "ED"}]
StoppedRadioAborts ==
  /\ phy \in DOMAIN ActiveStates /\ ~aborting_set =>
        \/ radio_state \in ActiveStates[phy]
        \/ phy = "Tx" /\ phy_end <= TxChain
  /\ phy = "address" => radio_state = "RX"
  /\ aborting_set => phy \in DOMAIN ActiveStates

(* The timer of the main state machine expires only in a state that expects *)
(* it: the branches that the code reports as a programming error, or as one *)
(* that should not have happened, are never reached.                        *)
NoProgrammingError == Timer_RADIO = 0 => TimerIsExpected

(* With the automatic switch the radio is ready at the time that the end of *)
(* the last packet and the register TIFS set, even if the software has      *)
(* cleared the shortcuts by then.                                           *)
TifsSwitchIsOnTime ==
  radio_state \in {"TXRU", "RXRU"} /\ tifs_due # Never => Timer_RADIO = tifs_due

(* The Phy awaits the answer to an address whenever it is given one         *)
(* (NRF_RADIO.c:975, "the Phy was left waiting for a response"): what the    *)
(* signals of Rx_Addr_received() and of its caller called has not stopped    *)
(* the radio meanwhile.                                                     *)
AddressAwaitsItsAnswer ==
  todo # <<>> /\ Head(todo).what = "Rx_cont_after_addr" => phy = "address"

(* A radio that was stopped frees the Phy.                                  *)
StoppedRadioFreesThePhy == aborting_set ~> ~aborting_set /\ phy # "error"

(* The main machine goes through the states of its diagram, and every state *)
(* that ends by itself is left: it implements RadioStates.                  *)
Diagram == INSTANCE RadioStates WITH state <- radio_state
FollowsTheDiagram == Diagram!Spec
=============================================================================
