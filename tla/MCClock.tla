------------------------------ MODULE MCClock ------------------------------
(***************************************************************************)
(* Instances of Clock for TLC.  The PPI routes every event to every task,  *)
(* or any but those that lead from the start of a clock to its stop.       *)
(***************************************************************************)
EXTENDS Clock

MCIntEvents == {"HFCLKSTARTED", "CTTO"}
MCNoEvents  == {}

MCAnyRoute == [event \in ClockEvent |-> ClockTask]

MCNoClockStopsItself ==
  [event \in ClockEvent |->
     ClockTask \ CASE event = "HFCLKSTARTED" -> {"HFCLKSTOP", "CTSTART", "CTSTOP"}
                   [] event = "LFCLKSTARTED" -> {"LFCLKSTOP", "CTSTART", "CTSTOP"}
                   [] OTHER -> {}]
=============================================================================
