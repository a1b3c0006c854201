------------------------------- MODULE MCGpio -------------------------------
(* Five pins and two channels: of events, and of tasks.                      *)
EXTENDS Gpio

(* Configurations of one channel; those without a pulse are disabled.        *)
AsEvent(ch, pin, polarity) ==
  [ch : {ch}, mode : {"Event"}, pin : {pin}, polarity : {polarity}, outinit : {FALSE}]
AsTask(ch, pin) == [ch : {ch}, mode : {"Task"}, pin : {pin}, polarity : {"Toggle"}, outinit : BOOLEAN]
Disabled(ch, pin) ==
  [ch : {ch}, mode : {"Disabled"}, pin : {pin}, polarity : {"None"}, outinit : {FALSE}]

(* The software's output shorted to the pin of an event and to a pin of its  *)
(* own; the channel's one to a sensed pin.                                   *)
MCShorted == [n \in Pins |-> CASE n = 1 -> <<2, 0>> [] n = 4 -> <<3>> [] OTHER -> <<>>]

(* The channels take over pins 2 and 3 from each other, until the second one *)
(* becomes one of tasks, which the events call.                              *)
MCChannelConfigs ==
  UNION {AsEvent(1, 2, "LoToHi"), AsEvent(1, 3, "HiToLo"), Disabled(1, 2),
         AsEvent(2, 3, "Toggle"), Disabled(2, 3), AsTask(2, 4)}
MCChannelRoutes == [e \in IoEvent |-> CASE e = 1 -> <<<<"OUT", 2>>>>
                                        [] e = PORT -> <<<<"CLR", 2>>>>
                                        [] OTHER -> <<>>]

(* A second short of the output that the event of the first one changes.     *)
MCTwoShorts == [n \in Pins |-> CASE n = 4 -> <<3, 0>> [] OTHER -> <<>>]
=============================================================================
