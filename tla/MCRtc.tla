-------------------------------- MODULE MCRtc -------------------------------
(* Instances of NrfRtc for TLC: a counter of four counts, that wraps in the   *)
(* time of a behaviour, and ticks of one microsecond and a half.              *)
EXTENDS NrfRtc

NoRtcRoutes == [e \in RtcEvent |-> <<>>]

(* At an overflow the counter is cleared, or it is stopped and started again; *)
(* a comparator's START would find it running.                                *)
MCRtcRoutes == {[NoRtcRoutes EXCEPT ![OVRFLW] = <<"CLEAR">>],
                [NoRtcRoutes EXCEPT ![OVRFLW] = <<"STOP", "START">>]}

(* At a comparator's match the counter is cleared.                            *)
MCRtcRoutesClear == {[NoRtcRoutes EXCEPT ![1] = <<"CLEAR">>]}
=============================================================================
