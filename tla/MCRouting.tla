----------------------------- MODULE MCRouting -----------------------------
(***************************************************************************)
(* The instances of Ppi and of Gpio for TLC, which share no variable: one  *)
(* of the two moves in a behaviour.                                        *)
(***************************************************************************)
EXTENDS MCPpi, MCGpio

VARIABLE unit    \* the one that this behaviour is about: "ppi" or "gpio"

MCInit == Init /\ IoInit /\ unit \in {"ppi", "gpio"}

MCNext ==
  \/ unit = "ppi"  /\ Next   /\ UNCHANGED <<unit, ioVars>>
  \/ unit = "gpio" /\ IoNext /\ UNCHANGED <<unit, vars>>

MCSpec == MCInit /\ [][MCNext]_<<unit, vars, ioVars>>
=============================================================================
