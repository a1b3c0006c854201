----------------------------- MODULE MCIrqCtrl -----------------------------
(***************************************************************************)
(* Instances of IrqCtrl for TLC: three interrupts at two priorities, so    *)
(* that handlers nest, tie and queue behind one another.                   *)
(***************************************************************************)
EXTENDS IrqCtrl

MCIRQ  == {0, 1, 2}
MCPrio == {1, 255}
=============================================================================
