------------------------------ MODULE MCRadio ------------------------------
(***************************************************************************)
(* Instances of Radio: durations of one to five microseconds, four          *)
(* settings of the shortcuts and a PPI that stops the radio at some events. *)
(***************************************************************************)
EXTENDS Radio

MCRampUp     == [TX |-> 1, RX |-> 1]
MCTifsRampUp == [TX |-> 2, RX |-> 2]

Setting(shorts, fast) == [SHORTS |-> shorts, fast |-> fast]

(* After power on; an automatic switch to Tx; one to Rx, with a CCA before  *)
(* a Tx; a fast ramp-up, that starts on READY.                              *)
MCConfigs ==
  {Setting({}, FALSE),
   Setting({<<"READY", "START">>, <<"END", "DISABLE">>, <<"DISABLED", "TXEN">>,
            <<"ADDRESS", "RSSISTART">>, <<"ADDRESS", "BCSTART">>, <<"DISABLED", "RSSISTOP">>},
           FALSE),
   Setting({<<"RXREADY", "CCASTART">>, <<"CCAIDLE", "STOP">>, <<"CCAIDLE", "TXEN">>,
            <<"CCABUSY", "DISABLE">>, <<"TXREADY", "START">>, <<"END", "DISABLE">>,
            <<"DISABLED", "RXEN">>}, FALSE),
   Setting({<<"READY", "EDSTART">>, <<"EDEND", "DISABLE">>, <<"PHYEND", "START">>,
            <<"FRAMESTART", "BCSTART">>}, TRUE)}

NoRoutes == [event \in RadioEvent |-> {}]

(* What the PPI of a careful program calls.                                 *)
MCRoutes ==
  [NoRoutes EXCEPT !["BCMATCH"] = {"DISABLE"}, !["PAYLOAD"] = {"STOP"}, !["CRCERROR"] = {"START"}]

(* What it calls in a program that gives up a packet at its address.        *)
MCStopAtAddress == [NoRoutes EXCEPT !["ADDRESS"] = {"DISABLE"}]
=============================================================================
