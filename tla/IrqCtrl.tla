------------------------------ MODULE IrqCtrl ------------------------------
(***************************************************************************)
(* The interrupt controller of the SOC (irq_ctrl.c) and its contract with  *)
(* the simulated CPU.                                                      *)
(*                                                                         *)
(* The hardware models run only while the CPU is halted, in zero simulated *)
(* time; the software runs, also in zero time, until it halts the CPU      *)
(* again.  Both call the controller: the models directly, and the software *)
(* through register writes whose side effects run in the software's own    *)
(* thread.  The CPU itself is the board's code, which is outside of this   *)
(* repository: it is modelled from the contract stated in irq_ctrl.c       *)
(* (get_highest_prio_irq, set_cur_prio, clear_irq, the handler,            *)
(* reeval_level_irq on the way out).                                       *)
(***************************************************************************)
EXTENDS IrqPriority, Sequences

CONSTANTS
  IRQ,   \* the interrupt numbers in use (see IrqSearch for those above 31)
  Prio   \* the interrupt priorities in use (0 is the highest)

PHONY_HARD_IRQ  == 65535

ASSUME IrqAssumption  == IRQ \subseteq 0 .. 31
ASSUME PrioAssumption == Prio \subseteq 0 .. 255 /\ 255 \in Prio

VARIABLES
  irq_lines,               \* level of the interrupt lines from the peripherals
  irq_status,              \* "pended and not masked interrupts"
  irq_premask,             \* interrupts pended before the mask
  irq_mask,                \* the interrupts that are enabled
  irqs_locked,             \* the overall interrupt lock
  lock_ignore,             \* the hard phony interrupt overrides the lock once
  irq_prio,                \* priority of each interrupt
  currently_running_prio,  \* priority of the running handler, or ThreadPrio
  Timer_irq_ctrl,          \* "now" when the controller is due in this microsecond
  cpu,                     \* what the CPU does (external)
  handlers                 \* the handlers being run, outermost first (external)

pendVars == <<irq_lines, irq_status, irq_premask, irq_mask>>
lockVars == <<irqs_locked, lock_ignore, Timer_irq_ctrl>>
prioVars == <<irq_prio, currently_running_prio>>
cpuVars  == <<cpu, handlers>>
vars     == <<pendVars, lockVars, prioVars, cpuVars>>

-----------------------------------------------------------------------------
(* hw_irq_ctrl_init().  irq_lines and irq_status keep their static zero.    *)
Init ==
  /\ irq_lines = {} /\ irq_status = {} /\ irq_premask = {} /\ irq_mask = {}
  /\ irqs_locked = FALSE /\ lock_ignore = FALSE
  /\ irq_prio = [i \in IRQ |-> 255]
  /\ currently_running_prio = ThreadPrio
  /\ Timer_irq_ctrl = "never"
  /\ cpu = "running" /\ handlers = <<>>

-----------------------------------------------------------------------------
(* Operators of the controller.                                             *)

(* Mutant: a pended interrupt is handed over whatever runs.                 *)
HighestPrioIrqIgnoresRunning ==
  IF irqs_locked THEN -1 ELSE Highest(irq_status, irq_prio, ThreadPrio)

(* hw_irq_ctrl_get_highest_prio_irq(), whose loop IrqSearch models.         *)
HighestPrioIrq ==
  IF irqs_locked THEN -1 ELSE Highest(irq_status, irq_prio, currently_running_prio)

(* The pending half of hw_irq_ctrl_irq_raise_prefix().                      *)
Pend(irq) ==
  /\ irq_premask' = irq_premask \cup ({irq} \cap IRQ)
  /\ irq_status' = irq_status \cup ({irq} \cap IRQ \cap irq_mask)

(* hw_irq_ctrl_set_irq(): pend, and wake the CPU one delta cycle later.     *)
SetIrq(irq) ==
  /\ Pend(irq)
  /\ lock_ignore' = (lock_ignore \/ irq = PHONY_HARD_IRQ)
  /\ Timer_irq_ctrl' = IF ~irqs_locked \/ lock_ignore' THEN "now" ELSE Timer_irq_ctrl
  /\ UNCHANGED <<irq_mask, irqs_locked>>

(* hw_irq_ctrl_raise_im_from_sw(): pend, and vector at once if unlocked.    *)
RaiseImFromSw(irq) ==
  /\ Pend(irq)
  /\ cpu' = IF irqs_locked THEN cpu ELSE "vectoring"

(* irq_raising_from_hw_now(), with the phony request, if any, already noted *)
(* in ignore.  posix_interrupt_raised() hands the control to the CPU.       *)
RaisingFromHwNow(ignore) ==
  IF ~irqs_locked \/ ignore
    THEN lock_ignore' = FALSE  /\ cpu' = "vectoring"
    ELSE lock_ignore' = ignore /\ cpu' = cpu

-----------------------------------------------------------------------------
(* Steps of the hardware models, while the CPU is halted.                   *)

(* Mutant: the delayed wake-up forgets the phony interrupt's right to it.   *)
TimerTriggeredHonoursLock ==
  /\ cpu = "halted" /\ Timer_irq_ctrl = "now"
  /\ Timer_irq_ctrl' = "never"
  /\ RaisingFromHwNow(FALSE)
  /\ UNCHANGED <<pendVars, irqs_locked, prioVars, handlers>>

(* hw_irq_ctrl_timer_triggered(): the controller's own delta cycle.         *)
TimerTriggered ==
  /\ cpu = "halted" /\ Timer_irq_ctrl = "now"
  /\ Timer_irq_ctrl' = "never"
  /\ RaisingFromHwNow(lock_ignore)
  /\ UNCHANGED <<pendVars, irqs_locked, prioVars, handlers>>

(* fake_timer_triggered(): the busy-wait timer wakes a locked CPU.          *)
FakeTimerTriggered ==
  /\ cpu = "halted"
  /\ SetIrq(PHONY_HARD_IRQ)
  /\ UNCHANGED <<irq_lines, prioVars, cpuVars>>

(* bst_ticker_triggered() asked to wake the CPU: hw_irq_ctrl_raise_im().    *)
TickerAwakesCpu ==
  /\ cpu = "halted"
  /\ Pend(PHONY_HARD_IRQ)
  /\ RaisingFromHwNow(TRUE)
  /\ UNCHANGED <<irq_lines, irq_mask, irqs_locked, Timer_irq_ctrl, prioVars, handlers>>

(* Calls a peripheral makes from its timer or from the side effect of a     *)
(* register write: a pulse, or a change of its interrupt line.              *)
PeripheralRuns == cpu \in {"halted", "running"}

PeripheralPulse(irq) ==
  /\ PeripheralRuns
  /\ SetIrq(irq)
  /\ UNCHANGED <<irq_lines, prioVars, cpuVars>>

(* hw_irq_ctrl_raise_level_irq_line() on a line that was low.               *)
RaiseLevelIrqLine(irq) ==
  /\ PeripheralRuns
  /\ irq \notin irq_lines
  /\ irq_lines' = irq_lines \cup {irq}
  /\ SetIrq(irq)
  /\ UNCHANGED <<prioVars, cpuVars>>

(* hw_irq_ctrl_lower_level_irq_line(): what is pended stays pended.         *)
LowerLevelIrqLine(irq) ==
  /\ PeripheralRuns
  /\ irq \in irq_lines
  /\ irq_lines' = irq_lines \ {irq}
  /\ UNCHANGED <<irq_status, irq_premask, irq_mask, lockVars, prioVars, cpuVars>>

-----------------------------------------------------------------------------
(* Steps of the software, on the CPU.                                       *)

Active == {handlers[k].irq : k \in 1 .. Len(handlers)}

(* hw_irq_ctrl_prio_set().  The software gives an interrupt its priority    *)
(* while it is disabled, unpended and not being handled.                    *)
PrioSet(irq, prio) ==
  /\ cpu = "running"
  /\ irq \notin irq_mask \cup irq_premask \cup Active
  /\ irq_prio' = [irq_prio EXCEPT ![irq] = prio]
  /\ UNCHANGED <<pendVars, lockVars, currently_running_prio, cpuVars>>

(* Mutant: enabling does not look at what was pended while disabled.        *)
EnableIrqMaskOnly(irq) ==
  /\ cpu = "running"
  /\ irq_mask' = irq_mask \cup {irq}
  /\ UNCHANGED <<irq_lines, irq_status, irq_premask, lockVars, prioVars, cpuVars>>

(* hw_irq_ctrl_enable_irq(): a pending interrupt is taken at once.          *)
EnableIrq(irq) ==
  /\ cpu = "running"
  /\ irq_mask' = irq_mask \cup {irq}
  /\ IF irq \in irq_premask
       THEN /\ irq_status' = irq_status \cup {irq}
            /\ cpu' = IF irqs_locked THEN cpu ELSE "vectoring"
       ELSE UNCHANGED <<irq_status, cpu>>
  /\ UNCHANGED <<irq_lines, irq_premask, lockVars, prioVars, handlers>>

(* hw_irq_ctrl_disable_irq(): only the mask changes.                        *)
DisableIrq(irq) ==
  /\ cpu = "running"
  /\ irq_mask' = irq_mask \ {irq}
  /\ UNCHANGED <<irq_lines, irq_status, irq_premask, lockVars, prioVars, cpuVars>>

(* Mutant: unlocking does not look at what was pended while locked.         *)
ChangeLockOnly(new_lock) ==
  /\ cpu = "running"
  /\ irqs_locked' = new_lock
  /\ UNCHANGED <<pendVars, lock_ignore, Timer_irq_ctrl, prioVars, cpuVars>>

(* hw_irq_ctrl_change_lock(): what was pended meanwhile is taken on unlock. *)
ChangeLock(new_lock) ==
  /\ cpu = "running"
  /\ irqs_locked' = new_lock
  /\ cpu' = IF irqs_locked /\ ~new_lock /\ irq_status # {} THEN "vectoring" ELSE cpu
  /\ UNCHANGED <<pendVars, lock_ignore, Timer_irq_ctrl, prioVars, handlers>>

(* The software raises an interrupt by hand, to be taken immediately.       *)
SwRaisesIrq(irq) ==
  /\ cpu = "running"
  /\ RaiseImFromSw(irq)
  /\ UNCHANGED <<irq_lines, irq_mask, lockVars, prioVars, handlers>>

(* hw_irq_ctrl_clear_all_enabled_irqs() and hw_irq_ctrl_clear_all_irqs().   *)
ClearAllEnabledIrqs ==
  /\ cpu = "running"
  /\ irq_status' = {}
  /\ irq_premask' = irq_premask \ irq_mask
  /\ UNCHANGED <<irq_lines, irq_mask, lockVars, prioVars, cpuVars>>

ClearAllIrqs ==
  /\ cpu = "running"
  /\ irq_status' = {} /\ irq_premask' = {}
  /\ UNCHANGED <<irq_lines, irq_mask, lockVars, prioVars, cpuVars>>

(* External: the software halts the CPU (idle, or k_busy_wait()).           *)
Halt ==
  /\ cpu = "running"
  /\ cpu' = "halted"
  /\ UNCHANGED <<pendVars, lockVars, prioVars, handlers>>

(* External: one turn of the loop that vectors to the handlers; it takes    *)
(* the interrupt out of the controller with hw_irq_ctrl_clear_irq().        *)
Vector ==
  /\ cpu = "vectoring"
  /\ LET irq == HighestPrioIrq IN
       IF irq = -1
         THEN /\ cpu' = "running"
              /\ UNCHANGED <<irq_status, irq_premask, currently_running_prio, handlers>>
         ELSE /\ cpu' = "running"
              /\ handlers' = Append(handlers, [irq |-> irq, last |-> currently_running_prio])
              /\ currently_running_prio' = irq_prio[irq]
              /\ irq_status' = irq_status \ {irq}
              /\ irq_premask' = irq_premask \ {irq}
  /\ UNCHANGED <<irq_lines, irq_mask, lockVars, irq_prio>>

(* Mutant: the interrupt line is not looked at when its handler returns.    *)
HandlerReturnsNoReeval ==
  /\ cpu = "running" /\ handlers # <<>>
  /\ currently_running_prio' = handlers[Len(handlers)].last
  /\ handlers' = SubSeq(handlers, 1, Len(handlers) - 1)
  /\ cpu' = "vectoring"
  /\ UNCHANGED <<pendVars, lockVars, irq_prio>>

(* External: a handler returns.  hw_irq_ctrl_reeval_level_irq() pends its   *)
(* interrupt again if its line is still up, then the loop goes on.          *)
HandlerReturns ==
  /\ cpu = "running" /\ handlers # <<>>
  /\ LET done == handlers[Len(handlers)]
         again == {done.irq} \cap irq_lines
     IN  /\ irq_premask' = irq_premask \cup again
         /\ irq_status' = irq_status \cup (again \cap irq_mask)
         /\ currently_running_prio' = done.last
         /\ handlers' = SubSeq(handlers, 1, Len(handlers) - 1)
  /\ cpu' = "vectoring"
  /\ UNCHANGED <<irq_lines, irq_mask, lockVars, irq_prio>>

-----------------------------------------------------------------------------
Hardware ==
  \/ TimerTriggered
  \/ FakeTimerTriggered
  \/ TickerAwakesCpu
  \/ \E irq \in IRQ : \/ PeripheralPulse(irq)
                      \/ RaiseLevelIrqLine(irq)
                      \/ LowerLevelIrqLine(irq)

Software ==
  \/ \E irq \in IRQ : \/ EnableIrq(irq)
                      \/ DisableIrq(irq)
                      \/ SwRaisesIrq(irq)
                      \/ \E prio \in Prio : PrioSet(irq, prio)
  \/ \E new_lock \in BOOLEAN : ChangeLock(new_lock)
  \/ ClearAllEnabledIrqs
  \/ ClearAllIrqs
  \/ Halt
  \/ Vector
  \/ HandlerReturns

Next == Hardware \/ Software

Spec == Init /\ [][Next]_vars

(* The scheduler calls a due timer before it lets the time pass, and the    *)
(* CPU runs its vectoring loop to the end.  Nothing is assumed of the       *)
(* handlers, nor of the peripherals.                                        *)
Fairness == WF_vars(TimerTriggered) /\ WF_vars(Vector)
FairSpec == Spec /\ Fairness

-----------------------------------------------------------------------------
(* Properties.                                                              *)

Handler == [irq : IRQ, last : Prio \cup {ThreadPrio}]

(* The types of the controller's state and of the CPU's stack of handlers.  *)
TypeOK ==
  /\ irq_lines \subseteq IRQ /\ irq_mask \subseteq IRQ
  /\ irq_premask \subseteq IRQ /\ irq_status \subseteq IRQ
  /\ irqs_locked \in BOOLEAN /\ lock_ignore \in BOOLEAN
  /\ irq_prio \in [IRQ -> Prio]
  /\ currently_running_prio \in Prio \cup {ThreadPrio}
  /\ Timer_irq_ctrl \in {"never", "now"}
  /\ cpu \in {"halted", "running", "vectoring"}
  /\ handlers \in Seq(Handler)

(* irq_status never forgets a pended interrupt that is enabled, in whatever *)
(* order it was pended, enabled and disabled, and never invents one that    *)
(* irq_premask does not know (enable_irq, raise_prefix, reeval, clear).  It *)
(* may keep one that was disabled since, which is then still vectored.      *)
PendingConsistent ==
  /\ irq_premask \cap irq_mask \subseteq irq_status
  /\ irq_status \subseteq irq_premask

(* The handlers on the CPU's stack preempt each other strictly, and         *)
(* currently_running_prio is the priority of the innermost one: the value   *)
(* get_highest_prio_irq compares with is never stale after a return.        *)
PrioBelow(k) == IF k = 0 THEN ThreadPrio ELSE irq_prio[handlers[k].irq]

HandlersNestByPrio ==
  /\ \A k \in 1 .. Len(handlers) :
       /\ irq_prio[handlers[k].irq] < handlers[k].last
       /\ handlers[k].last = PrioBelow(k - 1)
  /\ currently_running_prio = PrioBelow(Len(handlers))

(* No lost wake-up: when the CPU halts, or has halted, with an unlocked     *)
(* interrupt that would preempt what it was running, the controller's timer *)
(* is due in this same microsecond (set_irq, change_lock, enable_irq and    *)
(* the vectoring loop leave nothing behind).                                *)
NoLostWakeUp ==
  cpu \in {"running", "halted"} /\ HighestPrioIrq # -1 => Timer_irq_ctrl = "now"

(* A phony hard interrupt that waits for its delta cycle is never           *)
(* forgotten, whatever is locked or raised in the meantime.                 *)
PhonyIsDue == lock_ignore => Timer_irq_ctrl = "now"

(* A level interrupt keeps interrupting until its line is lowered: once its *)
(* line is up, no step takes its interrupt out of both the pended ones and  *)
(* those being handled, but the software throwing away all that is pended.  *)
LevelKept ==
  \A irq \in irq_lines' :
    irq \notin irq_lines \/ irq \in irq_premask \cup Active
      => irq \in irq_premask' \cup Active'

LevelNotLost == [][ClearAllEnabledIrqs \/ ClearAllIrqs \/ LevelKept]_vars

(* A halted CPU with something to wake up for does wake up: an unlocked     *)
(* interrupt it may take, or the busy-wait timer even when locked.          *)
WakesUp ==
  (cpu = "halted" /\ (lock_ignore \/ HighestPrioIrq # -1)) ~> (cpu = "vectoring")
=============================================================================
