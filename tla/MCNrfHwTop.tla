----------------------------- MODULE MCNrfHwTop -----------------------------
(***************************************************************************)
(* Instances of NrfHwTop for TLC: one peripheral next to the three models  *)
(* that wake the CPU, one interrupt, and two or three microseconds.        *)
(***************************************************************************)
EXTENDS NrfHwTop

MCIRQ  == {0}
MCPrio == {255}
=============================================================================
