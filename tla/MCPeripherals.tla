--------------------------- MODULE MCPeripherals ---------------------------
(* The peripherals that share no variable (what one asks of another passes    *)
(* through the PPI), each alone: one of them moves in a behaviour.            *)
EXTENDS MCClock, MCRtc, NrfTimer, Nvmc, SmallPeripherals

VARIABLE unit    \* the one that this behaviour is about

(* Two timers, of two CC registers and of one.                                *)
c11 == <<1, 1>>
c12 == <<1, 2>>
c21 == <<2, 1>>
MCComparators == <<c11, c12, c21>>
NoTimerRoutes == [c \in {c11, c12, c21} |-> <<>>]
MCTimerSettings ==
  { [mode |-> <<"timer", "timer">>, shorts |-> {<<"CLEAR", c11>>},
     routes |-> [NoTimerRoutes EXCEPT ![c21] = <<<<"CAPTURE", c12>>>>,
                                      ![c12] = <<<<"STOP", c21>>>>]],
    [mode |-> <<"timer", "count">>, shorts |-> {<<"CLEAR", c21>>, <<"STOP", c12>>},
     routes |-> [NoTimerRoutes EXCEPT ![c11] = <<<<"COUNT", c21>>>>,
                                      ![c12] = <<<<"CAPTURE", c21>>>>,
                                      ![c21] = <<<<"CLEAR", c11>>>>]] }
MCSwTasks == {<<"START", c11>>, <<"STOP", c11>>, <<"CLEAR", c11>>, <<"CAPTURE", c12>>,
              <<"START", c21>>, <<"SHUTDOWN", c21>>, <<"COUNT", c21>>}
MCSwCcs  == {<<c11, 1>>, <<c11, 2>>, <<c21, 3>>}
MCSwInts == {c12}

(* Each of the flash and the UICR in RAM, which is the default, or in a file  *)
(* that is erased at the start, or removed at the exit, or neither.           *)
Ram    == [in_ram |-> TRUE,  erase_at_start |-> FALSE, rm_at_exit |-> FALSE]
File   == [in_ram |-> FALSE, erase_at_start |-> FALSE, rm_at_exit |-> FALSE]
Erased == [in_ram |-> FALSE, erase_at_start |-> TRUE,  rm_at_exit |-> FALSE]
Temp   == [in_ram |-> FALSE, erase_at_start |-> FALSE, rm_at_exit |-> TRUE]
MCNvmcArgs == {[flash |-> Ram,    uicr |-> Temp,   erase_warnings |-> TRUE],
               [flash |-> File,   uicr |-> Ram,    erase_warnings |-> FALSE],
               [flash |-> File,   uicr |-> Erased, erase_warnings |-> TRUE],
               [flash |-> Temp,   uicr |-> File,   erase_warnings |-> TRUE]}

(* Chains through the PPI: one from the EGU to the thermometer, to the cipher *)
(* and its stop; and ends that start again what has ended.                    *)
Call(task) == <<<<task, 1>>>>
NoSmallRoutes == [event \in SmallEvent |-> <<>>]
MCSmallConfigs ==
  { [RNG_SHORTS |-> TRUE, CCM_SHORTS |-> TRUE, ENABLE |-> TRUE,
     routes |-> [NoSmallRoutes EXCEPT !["TRIGGERED"] = Call("TEMP_START"),
                                      !["DATARDY"] = Call("STARTECB") \o Call("RNG_START"),
                                      !["VALRDY"] = Call("STOPECB"),
                                      !["RESOLVED"] = Call("AAR_START"),
                                      !["END"] = Call("AAR_STOP")]],
    [RNG_SHORTS |-> FALSE, CCM_SHORTS |-> FALSE, ENABLE |-> FALSE,
     routes |-> [NoSmallRoutes EXCEPT !["ENDECB"] = Call("STARTECB") \o Call("TEMP_STOP"),
                                      !["DATARDY"] = Call("TRIGGER"),
                                      !["VALRDY"] = Call("RNG_STOP")]] }

MCInit ==
  /\ Init /\ TimerInit /\ RtcInit /\ NvmcInit /\ SmallInit
  /\ unit \in {"clock", "timer", "rtc", "nvmc", "small"}
  /\ unit # "timer" => tmr_cfg = CHOOSE setting \in TimerSettings : TRUE
  /\ unit # "rtc"   => rtc_routes = CHOOSE routes \in RtcRoutes : TRUE
  /\ unit # "nvmc"  => /\ nvmc_args = CHOOSE args \in NvmcArgs : TRUE
                       /\ \A s \in Storage : content[s] = "erased"
  /\ unit # "small" => small_cfg = CHOOSE config \in SmallConfigs : TRUE

MCNext ==
  \/ unit = "clock" /\ Next      /\ UNCHANGED <<unit, tmrVars, rtcVars, nvmcVars, smallVars>>
  \/ unit = "timer" /\ TimerNext /\ UNCHANGED <<unit, vars, rtcVars, nvmcVars, smallVars>>
  \/ unit = "rtc"   /\ RtcNext   /\ UNCHANGED <<unit, vars, tmrVars, nvmcVars, smallVars>>
  \/ unit = "nvmc"  /\ NvmcNext  /\ UNCHANGED <<unit, vars, tmrVars, rtcVars, smallVars>>
  \/ unit = "small" /\ SmallNext /\ UNCHANGED <<unit, vars, tmrVars, rtcVars, nvmcVars>>

MCSpec == MCInit /\ [][MCNext]_<<unit, vars, tmrVars, rtcVars, nvmcVars, smallVars>>
=============================================================================
