---------------------------- MODULE MCIrqSearch ----------------------------
(***************************************************************************)
(* Instance of IrqSearch for TLC: four interrupts of which ffs() sees the  *)
(* first three, and priorities that tie.                                   *)
(***************************************************************************)
EXTENDS IrqSearch

MCIRQ  == 0 .. 3
MCPrio == {0, 7, 255}
=============================================================================
