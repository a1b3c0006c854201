---------------------------- MODULE IrqPriority ----------------------------
(***************************************************************************)
(* Which pended interrupt the interrupt controller hands to the CPU, as    *)
(* the comment on hw_irq_ctrl_get_highest_prio_irq() (irq_ctrl.c) states   *)
(* it.  IrqSearch models the loop that looks for it.                       *)
(***************************************************************************)
EXTENDS Integers

ThreadPrio == 256     \* currently_running_prio when no handler runs

(* The pended interrupts that would preempt a handler of priority running.  *)
Preempting(status, prio, running) == {i \in status : prio[i] < running}

(* i is served before j: by priority, then by number.                       *)
Precedes(prio, i, j) ==
  prio[i] < prio[j] \/ (prio[i] = prio[j] /\ i <= j)

(* The interrupt to serve, or -1.                                           *)
Highest(status, prio, running) ==
  LET ready == Preempting(status, prio, running)
  IN  IF ready = {} THEN -1
      ELSE CHOOSE i \in ready : \A j \in ready : Precedes(prio, i, j)
=============================================================================
