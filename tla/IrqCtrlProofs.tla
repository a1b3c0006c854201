--------------------------- MODULE IrqCtrlProofs ---------------------------
(***************************************************************************)
(* The safety invariants of the interrupt controller, for every set of     *)
(* interrupts and priorities.                                              *)
(***************************************************************************)
EXTENDS IrqCtrl, CommonProofs, SequenceTheorems

-----------------------------------------------------------------------------
(* Facts about the constants and the search.                                *)

(* Priorities are natural numbers.                                         *)
LEMMA PrioRange ==
  /\ \A p \in Prio : p \in Nat
  /\ \A p \in Prio \cup {ThreadPrio} : p \in Nat
<1>1. \A p \in Prio : p \in Nat
  BY PrioAssumption
<1>2. ThreadPrio \in Nat
  BY DEF ThreadPrio
<1> QED BY <1>1, <1>2

(* The interrupt that is handed over, in a state of the right type.         *)
LEMMA HandedOver ==
  ASSUME TypeOK
  PROVE  /\ HighestPrioIrq # -1 =>
              /\ ~irqs_locked
              /\ HighestPrioIrq \in Preempting(irq_status, irq_prio, currently_running_prio)
              /\ \A j \in irq_status : ~(irq_prio[j] < irq_prio[HighestPrioIrq])
         /\ ~irqs_locked /\ Preempting(irq_status, irq_prio, currently_running_prio) # {}
              => HighestPrioIrq # -1
<1> DEFINE ready == Preempting(irq_status, irq_prio, currently_running_prio)
<1>1. irq_status \in SUBSET Nat
  BY IrqAssumption DEF TypeOK
<1>2. \A i \in irq_status : irq_prio[i] \in Nat
  BY PrioRange DEF TypeOK
<1>3. currently_running_prio \in Nat
  BY PrioRange DEF TypeOK
<1> DEFINE first == Highest(irq_status, irq_prio, currently_running_prio)
<1>4. ready # {} => first \in ready /\ \A j \in ready : Precedes(irq_prio, first, j)
  BY <1>1, <1>2, <1>3, HighestIsReady
<1>5. ready = {} => first = -1
  BY DEF Highest
<1>6. \A i \in ready : i # -1
  BY <1>1 DEF Preempting
<1>7. ready # {} => \A j \in irq_status : ~(irq_prio[j] < irq_prio[first])
  <2> SUFFICES ASSUME ready # {}, NEW j \in irq_status PROVE ~(irq_prio[j] < irq_prio[first])
    OBVIOUS
  <2>1. irq_prio[first] \in Nat /\ irq_prio[j] \in Nat /\ irq_prio[first] < currently_running_prio
    BY <1>2, <1>4 DEF Preempting
  <2>2. CASE j \in ready
    BY <2>1, <2>2, <1>4 DEF Precedes
  <2>3. CASE j \notin ready
    BY <2>1, <2>3, <1>3 DEF Preempting
  <2> QED BY <2>2, <2>3
<1> QED BY <1>4, <1>5, <1>6, <1>7 DEF HighestPrioIrq

-----------------------------------------------------------------------------
(* Type correctness.                                                        *)

(* Every step keeps the types of the state.                                 *)
LEMMA TypeStep == TypeOK /\ [Next]_vars => TypeOK'
<1> SUFFICES ASSUME TypeOK, [Next]_vars PROVE TypeOK'
  OBVIOUS
<1> USE DEF TypeOK, pendVars, lockVars, prioVars, cpuVars
<1>1. CASE TimerTriggered
  BY <1>1 DEF TimerTriggered, RaisingFromHwNow
<1>2. CASE FakeTimerTriggered
  BY <1>2 DEF FakeTimerTriggered, SetIrq, Pend
<1>3. CASE TickerAwakesCpu
  BY <1>3 DEF TickerAwakesCpu, Pend, RaisingFromHwNow
<1>4. ASSUME NEW irq \in IRQ, PeripheralPulse(irq) PROVE TypeOK'
  BY <1>4 DEF PeripheralPulse, SetIrq, Pend
<1>5. ASSUME NEW irq \in IRQ, RaiseLevelIrqLine(irq) PROVE TypeOK'
  BY <1>5 DEF RaiseLevelIrqLine, SetIrq, Pend
<1>6. ASSUME NEW irq \in IRQ, LowerLevelIrqLine(irq) PROVE TypeOK'
  BY <1>6 DEF LowerLevelIrqLine
<1>7. ASSUME NEW irq \in IRQ, EnableIrq(irq) PROVE TypeOK'
  BY <1>7 DEF EnableIrq
<1>8. ASSUME NEW irq \in IRQ, DisableIrq(irq) PROVE TypeOK'
  BY <1>8 DEF DisableIrq
<1>9. ASSUME NEW irq \in IRQ, SwRaisesIrq(irq) PROVE TypeOK'
  BY <1>9 DEF SwRaisesIrq, RaiseImFromSw, Pend
<1>10. ASSUME NEW irq \in IRQ, NEW prio \in Prio, PrioSet(irq, prio) PROVE TypeOK'
  BY <1>10 DEF PrioSet
<1>11. ASSUME NEW new_lock \in BOOLEAN, ChangeLock(new_lock) PROVE TypeOK'
  BY <1>11 DEF ChangeLock
<1>12. CASE ClearAllEnabledIrqs
  BY <1>12 DEF ClearAllEnabledIrqs
<1>13. CASE ClearAllIrqs
  BY <1>13 DEF ClearAllIrqs
<1>14. CASE Halt
  BY <1>14 DEF Halt
<1>15. CASE Vector
  <2>1. CASE HighestPrioIrq = -1
    BY <1>15, <2>1 DEF Vector
  <2>2. CASE HighestPrioIrq # -1
    <3> DEFINE irq == HighestPrioIrq
    <3>1. irq \in IRQ
      BY <2>2, HandedOver DEF Preempting
    <3>2. [irq |-> irq, last |-> currently_running_prio] \in Handler
      BY <3>1 DEF Handler
    <3>3. handlers' \in Seq(Handler)
      BY <1>15, <2>2, <3>2 DEF Vector
    <3>4. currently_running_prio' \in Prio
      BY <1>15, <2>2, <3>1 DEF Vector
    <3> QED BY <1>15, <2>2, <3>3, <3>4 DEF Vector
  <2> QED BY <2>1, <2>2
<1>16. CASE HandlerReturns
  <2>1. handlers[Len(handlers)] \in Handler
    BY <1>16 DEF HandlerReturns
  <2>2. SubSeq(handlers, 1, Len(handlers) - 1) \in Seq(Handler)
    BY <1>16 DEF HandlerReturns
  <2> QED BY <1>16, <2>1, <2>2 DEF HandlerReturns, Handler
<1>17. CASE UNCHANGED vars
  BY <1>17 DEF vars
<1> QED BY <1>1, <1>2, <1>3, <1>4, <1>5, <1>6, <1>7, <1>8, <1>9, <1>10, <1>11, <1>12,
           <1>13, <1>14, <1>15, <1>16, <1>17 DEF Next, Hardware, Software

(* The controller's variables keep their types (irq_ctrl.c's statics).      *)
THEOREM TypeCorrect == Spec => []TypeOK
<1>1. Init => TypeOK
  <2> SUFFICES ASSUME Init PROVE TypeOK
    OBVIOUS
  <2>1. 255 \in Prio
    BY PrioAssumption
  <2>2. irq_prio \in [IRQ -> Prio]
    BY <2>1 DEF Init
  <2>3. handlers \in Seq(Handler)
    BY DEF Init
  <2> QED BY <2>2, <2>3 DEF Init, TypeOK
<1> QED BY <1>1, TypeStep, PTL DEF Spec

-----------------------------------------------------------------------------
(* What is pended.                                                          *)

(* Vectoring takes one interrupt out of the controller, or none.            *)
LEMMA VectorPends ==
  ASSUME TypeOK, Vector
  PROVE  \/ UNCHANGED <<irq_lines, irq_status, irq_premask, irq_mask, handlers>>
         \/ \E irq \in IRQ :
              /\ irq_status' = irq_status \ {irq}
              /\ irq_premask' = irq_premask \ {irq}
              /\ handlers' = Append(handlers, [irq |-> irq, last |-> currently_running_prio])
              /\ UNCHANGED <<irq_lines, irq_mask>>
<1>1. CASE HighestPrioIrq = -1
  BY <1>1 DEF Vector
<1>2. CASE HighestPrioIrq # -1
  <2>1. HighestPrioIrq \in IRQ
    BY <1>2, HandedOver DEF Preempting, TypeOK
  <2> QED BY <1>2, <2>1 DEF Vector
<1> QED BY <1>1, <1>2

(* Every step keeps irq_status in accord with irq_premask and irq_mask.     *)
LEMMA PendingStep == TypeOK /\ PendingConsistent /\ [Next]_vars => PendingConsistent'
<1> SUFFICES ASSUME TypeOK, PendingConsistent, [Next]_vars PROVE PendingConsistent'
  OBVIOUS
<1> USE DEF PendingConsistent, pendVars
<1>1. ASSUME NEW irq, Pend(irq), UNCHANGED irq_mask PROVE PendingConsistent'
  BY <1>1 DEF Pend
<1>2. ASSUME Hardware PROVE PendingConsistent'
  BY <1>1, <1>2 DEF Hardware, TimerTriggered, FakeTimerTriggered, TickerAwakesCpu,
     PeripheralPulse, RaiseLevelIrqLine, LowerLevelIrqLine, SetIrq
<1>3. ASSUME NEW irq \in IRQ, EnableIrq(irq) PROVE PendingConsistent'
  BY <1>3 DEF EnableIrq
<1>4. ASSUME NEW irq \in IRQ, SwRaisesIrq(irq) PROVE PendingConsistent'
  BY <1>1, <1>4 DEF SwRaisesIrq, RaiseImFromSw
<1>5. ASSUME NEW irq \in IRQ, DisableIrq(irq) PROVE PendingConsistent'
  BY <1>5 DEF DisableIrq
<1>6. CASE ClearAllEnabledIrqs
  BY <1>6 DEF ClearAllEnabledIrqs
<1>7. CASE ClearAllIrqs
  BY <1>7 DEF ClearAllIrqs
<1>8. CASE Vector
  BY <1>8, VectorPends
<1>9. CASE HandlerReturns
  BY <1>9 DEF HandlerReturns
<1>10. ASSUME UNCHANGED pendVars PROVE PendingConsistent'
  BY <1>10
<1>11. ASSUME \/ \E irq \in IRQ, prio \in Prio : PrioSet(irq, prio)
              \/ \E new_lock \in BOOLEAN : ChangeLock(new_lock)
              \/ Halt
              \/ UNCHANGED vars
       PROVE  UNCHANGED pendVars
  BY <1>11 DEF PrioSet, ChangeLock, Halt, vars
<1> QED BY <1>2, <1>3, <1>4, <1>5, <1>6, <1>7, <1>8, <1>9, <1>10, <1>11 DEF Next, Software

(* irq_status holds every pended interrupt that is enabled and none that is *)
(* not pended (irq_ctrl.c, all writers of irq_status and irq_premask).      *)
THEOREM PendingIsConsistent == Spec => []PendingConsistent
<1>1. Init => PendingConsistent
  BY DEF Init, PendingConsistent
<1> QED BY <1>1, PendingStep, TypeCorrect, PTL DEF Spec

(* A phony interrupt waiting for its delta is not forgotten (set_irq,       *)
(* raise_im, the controller's timer).                                       *)
THEOREM PhonyIsAlwaysDue == Spec => []PhonyIsDue
<1>1. Init => PhonyIsDue
  BY DEF Init, PhonyIsDue
<1>2. TypeOK /\ PhonyIsDue /\ [Next]_vars => PhonyIsDue'
  <2> SUFFICES ASSUME TypeOK, PhonyIsDue, [Next]_vars PROVE PhonyIsDue'
    OBVIOUS
  <2> USE DEF PhonyIsDue, lockVars
  <2>1. ASSUME NEW irq, SetIrq(irq) PROVE PhonyIsDue'
    BY <2>1 DEF SetIrq
  <2>2. CASE TimerTriggered
    BY <2>2 DEF TimerTriggered, RaisingFromHwNow, TypeOK
  <2>3. CASE TickerAwakesCpu
    BY <2>3 DEF TickerAwakesCpu, RaisingFromHwNow
  <2>4. CASE Hardware
    BY <2>1, <2>2, <2>3, <2>4 DEF Hardware, FakeTimerTriggered, PeripheralPulse,
       RaiseLevelIrqLine, LowerLevelIrqLine
  <2>5. ASSUME Software PROVE UNCHANGED <<lock_ignore, Timer_irq_ctrl>>
    BY <2>5 DEF Software, EnableIrq, DisableIrq, SwRaisesIrq, PrioSet, ChangeLock,
       ClearAllEnabledIrqs, ClearAllIrqs, Halt, Vector, HandlerReturns
  <2> QED BY <2>4, <2>5 DEF Next, vars
<1> QED BY <1>1, <1>2, TypeCorrect, PTL DEF Spec

-----------------------------------------------------------------------------
(* No lost wake-up.                                                         *)

Ready == Preempting(irq_status, irq_prio, currently_running_prio)

(* The strengthening of NoLostWakeUp that is inductive: it speaks of all    *)
(* that would preempt, not of the one the search returns.                   *)
ReadyIsDue ==
  cpu \in {"running", "halted"} /\ ~irqs_locked /\ Ready # {} => Timer_irq_ctrl = "now"

(* Entering the handler of the highest priority leaves nothing that would   *)
(* preempt it.                                                              *)
LEMMA VectorLeavesNone ==
  ASSUME TypeOK, Vector
  PROVE  ~irqs_locked => Ready' = {}
<1> SUFFICES ASSUME ~irqs_locked PROVE Ready' = {}
  OBVIOUS
<1>1. CASE HighestPrioIrq = -1
  <2>1. Ready = {}
    BY <1>1, HandedOver DEF Ready
  <2>2. Ready' = Ready
    BY <1>1 DEF Ready, Preempting, Vector
  <2> QED BY <2>1, <2>2
<1>2. CASE HighestPrioIrq # -1
  <2>1. /\ irq_status' \subseteq irq_status /\ irq_prio' = irq_prio
        /\ currently_running_prio' = irq_prio[HighestPrioIrq]
    BY <1>2 DEF Vector
  <2>2. \A j \in irq_status : ~(irq_prio[j] < irq_prio[HighestPrioIrq])
    BY <1>2, HandedOver
  <2> QED BY <2>1, <2>2 DEF Ready, Preempting
<1> QED BY <1>1, <1>2

(* Every step that leaves an interrupt to take also leaves a way to it.     *)
LEMMA WakeUpStep ==
  TypeOK /\ PendingConsistent /\ ReadyIsDue /\ [Next]_vars => ReadyIsDue'
<1> SUFFICES ASSUME TypeOK, PendingConsistent, ReadyIsDue, [Next]_vars PROVE ReadyIsDue'
  OBVIOUS
<1> USE DEF ReadyIsDue, lockVars, prioVars, cpuVars
<1>1. ASSUME UNCHANGED <<irq_status, prioVars>> PROVE Ready' = Ready
  BY <1>1 DEF Ready, Preempting
<1>2. ASSUME irq_status' = {} PROVE Ready' = {}
  BY <1>2 DEF Ready, Preempting
<1>3. CASE TimerTriggered
  BY <1>1, <1>3 DEF TimerTriggered, RaisingFromHwNow, pendVars
<1>4. ASSUME NEW irq, SetIrq(irq) PROVE ReadyIsDue'
  BY <1>4 DEF SetIrq
<1>5. CASE TickerAwakesCpu
  BY <1>5 DEF TickerAwakesCpu, RaisingFromHwNow
<1>6. ASSUME NEW irq \in IRQ, LowerLevelIrqLine(irq) PROVE ReadyIsDue'
  BY <1>1, <1>6 DEF LowerLevelIrqLine
<1>7. CASE Hardware
  BY <1>3, <1>4, <1>5, <1>6, <1>7 DEF Hardware, FakeTimerTriggered, PeripheralPulse,
     RaiseLevelIrqLine
<1>8. ASSUME NEW irq \in IRQ, EnableIrq(irq) PROVE ReadyIsDue'
  BY <1>1, <1>8 DEF EnableIrq
<1>9. ASSUME NEW irq \in IRQ, DisableIrq(irq) PROVE ReadyIsDue'
  BY <1>1, <1>9 DEF DisableIrq
<1>10. ASSUME NEW irq \in IRQ, SwRaisesIrq(irq) PROVE ReadyIsDue'
  BY <1>10 DEF SwRaisesIrq, RaiseImFromSw
<1>11. ASSUME NEW irq \in IRQ, NEW prio \in Prio, PrioSet(irq, prio) PROVE ReadyIsDue'
  <2>1. irq \notin irq_status /\ irq_status' = irq_status
    BY <1>11 DEF PrioSet, PendingConsistent, pendVars
  <2>2. \A j \in irq_status : irq_prio'[j] = irq_prio[j]
    BY <1>11, <2>1 DEF PrioSet, TypeOK
  <2>3. Ready' = Ready
    BY <1>11, <2>1, <2>2 DEF PrioSet, Ready, Preempting
  <2> QED BY <1>11, <2>3 DEF PrioSet
<1>12. ASSUME NEW new_lock \in BOOLEAN, ChangeLock(new_lock) PROVE ReadyIsDue'
  <2>1. Ready' = Ready /\ (irq_status = {} => Ready = {})
    BY <1>1, <1>12 DEF ChangeLock, pendVars, Ready, Preempting
  <2> QED BY <1>12, <2>1 DEF ChangeLock
<1>13. CASE ClearAllEnabledIrqs \/ ClearAllIrqs
  BY <1>2, <1>13 DEF ClearAllEnabledIrqs, ClearAllIrqs
<1>14. CASE Halt
  BY <1>1, <1>14 DEF Halt, pendVars
<1>15. CASE Vector
  BY <1>15, VectorLeavesNone DEF Vector
<1>16. CASE HandlerReturns
  BY <1>16 DEF HandlerReturns
<1>17. CASE UNCHANGED vars
  BY <1>1, <1>17 DEF vars, pendVars
<1> QED BY <1>7, <1>8, <1>9, <1>10, <1>11, <1>12, <1>13, <1>14, <1>15, <1>16, <1>17
        DEF Next, Software

(* No lost wake-up: an unlocked interrupt that would preempt what the CPU   *)
(* was doing always has the controller's timer due (set_irq, change_lock,   *)
(* enable_irq, raise_im_from_sw, the vectoring loop).                       *)
THEOREM NoWakeUpIsLost == Spec => []NoLostWakeUp
<1>1. Init => ReadyIsDue
  BY DEF Init, ReadyIsDue, Ready, Preempting
<1>2. TypeOK /\ ReadyIsDue => NoLostWakeUp
  BY HandedOver DEF ReadyIsDue, NoLostWakeUp, Ready
<1> QED BY <1>1, <1>2, WakeUpStep, TypeCorrect, PendingIsConsistent, PTL DEF Spec

-----------------------------------------------------------------------------
(* Level interrupts.                                                        *)

(* The handlers below the innermost one stay when it returns.               *)
LEMMA ActiveAfterReturn ==
  ASSUME TypeOK, handlers # <<>>, handlers' = SubSeq(handlers, 1, Len(handlers) - 1)
  PROVE  /\ Len(handlers) \in Nat \ {0}
         /\ Len(handlers') = Len(handlers) - 1
         /\ \A k \in 1 .. Len(handlers) - 1 : handlers'[k] = handlers[k]
         /\ Active \subseteq Active' \cup {handlers[Len(handlers)].irq}
<1>1. PICK n \in Nat \ {0} : n = Len(handlers)
  BY EmptySeq DEF TypeOK
<1>2. \A k \in 1 .. n : handlers[k] \in Handler
  BY <1>1 DEF TypeOK
<1>3. /\ Len(handlers') = n - 1
      /\ \A k \in 1 .. n - 1 : handlers'[k] = handlers[k]
  <2>1. 1 \in Int /\ n - 1 \in Int /\ \A k \in 1 .. n - 1 : handlers[k] \in Handler
    BY <1>1, <1>2
  <2>2. /\ Len(handlers') = IF 1 <= n - 1 THEN n - 1 - 1 + 1 ELSE 0
        /\ \A k \in 1 .. n - 1 - 1 + 1 : handlers'[k] = handlers[1 + k - 1]
    BY <1>1, <2>1, SubSeqProperties
  <2>3. Len(handlers') = n - 1
    <3>1. (IF 1 <= n - 1 THEN n - 1 - 1 + 1 ELSE 0) = n - 1
      OBVIOUS
    <3> QED BY <2>2, <3>1
  <2>4. ASSUME NEW k \in 1 .. n - 1 PROVE handlers'[k] = handlers[k]
    <3>1. k \in 1 .. n - 1 - 1 + 1 /\ 1 + k - 1 = k
      BY <1>1
    <3> QED BY <2>2, <3>1
  <2> QED BY <2>3, <2>4
<1> QED BY <1>1, <1>3 DEF Active

(* Entering a handler adds its interrupt to those being handled.            *)
LEMMA ActiveAfterEntry ==
  ASSUME TypeOK, NEW irq, NEW last, handlers' = Append(handlers, [irq |-> irq, last |-> last])
  PROVE  Active' = Active \cup {irq}
<1> DEFINE n == Len(handlers)
<1>1. n \in Nat /\ Len(handlers') = n + 1 /\ handlers'[n + 1].irq = irq
  BY DEF TypeOK
<1>2. \A k \in 1 .. n : handlers'[k] = handlers[k]
  BY DEF TypeOK
<1> QED BY <1>1, <1>2 DEF Active

(* Every step keeps the interrupts of the lines that are up alive.          *)
LEMMA LevelStep ==
  TypeOK /\ [Next]_vars => ClearAllEnabledIrqs \/ ClearAllIrqs \/ LevelKept
<1> SUFFICES ASSUME TypeOK, [Next]_vars, ~ClearAllEnabledIrqs, ~ClearAllIrqs,
                    NEW i \in irq_lines', i \notin irq_lines \/ i \in irq_premask \cup Active
             PROVE  i \in irq_premask' \cup Active'
  BY DEF LevelKept
<1> DEFINE Goal == i \in irq_premask' \cup Active'
<1>1. i \in irq_lines => i \in irq_premask \cup Active
  OBVIOUS
<1>2. UNCHANGED handlers => Active' = Active
  BY DEF Active
<1>3. ASSUME irq_lines' \subseteq irq_lines, irq_premask \subseteq irq_premask',
             UNCHANGED handlers
      PROVE  Goal
  BY <1>1, <1>2, <1>3
<1>4. ASSUME NEW irq \in IRQ, RaiseLevelIrqLine(irq) PROVE Goal
  BY <1>1, <1>2, <1>4 DEF RaiseLevelIrqLine, SetIrq, Pend, cpuVars
<1>5. CASE Vector
  <2>1. CASE UNCHANGED <<irq_lines, irq_status, irq_premask, irq_mask, handlers>>
    BY <1>1, <1>2, <2>1
  <2>2. ASSUME NEW irq \in IRQ,
               irq_premask' = irq_premask \ {irq}, UNCHANGED irq_lines,
               handlers' = Append(handlers, [irq |-> irq, last |-> currently_running_prio])
        PROVE  Goal
    <3>1. Active' = Active \cup {irq}
      BY <2>2, ActiveAfterEntry
    <3> QED BY <1>1, <2>2, <3>1
  <2> QED BY <1>5, <2>1, <2>2, VectorPends
<1>6. CASE HandlerReturns
  BY <1>1, <1>6, ActiveAfterReturn DEF HandlerReturns
<1>7. CASE TimerTriggered \/ FakeTimerTriggered \/ TickerAwakesCpu
  BY <1>3, <1>7 DEF TimerTriggered, FakeTimerTriggered, TickerAwakesCpu, SetIrq, Pend,
     pendVars, cpuVars
<1>8. ASSUME NEW irq \in IRQ,
             \/ PeripheralPulse(irq) \/ LowerLevelIrqLine(irq) \/ EnableIrq(irq)
             \/ DisableIrq(irq) \/ SwRaisesIrq(irq)
             \/ \E prio \in Prio : PrioSet(irq, prio)
      PROVE  Goal
  BY <1>3, <1>8 DEF PeripheralPulse, LowerLevelIrqLine, EnableIrq, DisableIrq, SwRaisesIrq,
     PrioSet, SetIrq, RaiseImFromSw, Pend, pendVars, cpuVars
<1>9. CASE \/ \E new_lock \in BOOLEAN : ChangeLock(new_lock)
           \/ Halt
           \/ UNCHANGED vars
  BY <1>3, <1>9 DEF ChangeLock, Halt, pendVars, cpuVars, vars
<1> QED BY <1>4, <1>5, <1>6, <1>7, <1>8, <1>9 DEF Next, Hardware, Software

(* A level interrupt interrupts until its line is lowered                   *)
(* (raise_level_irq_line, lower_level_irq_line, reeval_level_irq).          *)
THEOREM LevelIsNotLost == Spec => LevelNotLost
<1> QED BY LevelStep, TypeCorrect, PTL DEF Spec, LevelNotLost

-----------------------------------------------------------------------------
(* Nesting of the handlers.                                                 *)

(* Every step keeps the stack of handlers strictly ordered by priority.     *)
LEMMA NestStep ==
  TypeOK /\ HandlersNestByPrio /\ [Next]_vars => HandlersNestByPrio'
<1> SUFFICES ASSUME TypeOK, HandlersNestByPrio, [Next]_vars PROVE HandlersNestByPrio'
  OBVIOUS
<1>1. PICK n \in Nat : n = Len(handlers) /\ \A k \in 1 .. n : handlers[k] \in Handler
  BY DEF TypeOK
<1>2. ASSUME UNCHANGED handlers, UNCHANGED currently_running_prio,
             \A i \in Active : irq_prio'[i] = irq_prio[i]
      PROVE  HandlersNestByPrio'
  <2>1. \A k \in 1 .. n : irq_prio'[handlers[k].irq] = irq_prio[handlers[k].irq]
    BY <1>1, <1>2 DEF Active
  <2>2. \A k \in 0 .. n : PrioBelow(k)' = PrioBelow(k)
    BY <1>1, <1>2, <2>1 DEF PrioBelow
  <2> QED BY <1>1, <1>2, <2>1, <2>2 DEF HandlersNestByPrio
<1>3. ASSUME NEW irq \in IRQ, NEW prio \in Prio, PrioSet(irq, prio) PROVE HandlersNestByPrio'
  <2>1. irq \notin Active /\ irq_prio' = [irq_prio EXCEPT ![irq] = prio]
    BY <1>3 DEF PrioSet
  <2>2. \A i \in Active : irq_prio'[i] = irq_prio[i]
    BY <2>1, <1>1 DEF Active, TypeOK, Handler
  <2> QED BY <1>2, <1>3, <2>2 DEF PrioSet, cpuVars
<1>4. CASE Vector /\ HighestPrioIrq # -1
  <2> DEFINE irq == HighestPrioIrq
  <2>1. irq_prio[irq] < currently_running_prio
    BY <1>4, HandedOver DEF Preempting
  <2>2. /\ handlers' = Append(handlers, [irq |-> irq, last |-> currently_running_prio])
        /\ currently_running_prio' = irq_prio[irq]
        /\ irq_prio' = irq_prio
    BY <1>4 DEF Vector
  <2>3. /\ Len(handlers') = n + 1
        /\ handlers'[n + 1] = [irq |-> irq, last |-> currently_running_prio]
        /\ \A k \in 1 .. n : handlers'[k] = handlers[k]
    BY <1>1, <2>2 DEF TypeOK
  <2>4. \A k \in 0 .. n : PrioBelow(k)' = PrioBelow(k)
    BY <1>1, <2>2, <2>3 DEF PrioBelow
  <2>5. PrioBelow(n + 1)' = irq_prio[irq]
    BY <1>1, <2>2, <2>3 DEF PrioBelow
  <2>6. \A k \in 1 .. n : /\ irq_prio'[handlers'[k].irq] < handlers'[k].last
                          /\ handlers'[k].last = PrioBelow(k - 1)'
    BY <1>1, <2>2, <2>3, <2>4 DEF HandlersNestByPrio
  <2>7. /\ irq_prio'[handlers'[n + 1].irq] < handlers'[n + 1].last
        /\ handlers'[n + 1].last = PrioBelow(n)'
    BY <1>1, <2>1, <2>2, <2>3, <2>4 DEF HandlersNestByPrio
  <2> QED BY <1>1, <2>2, <2>3, <2>5, <2>6, <2>7 DEF HandlersNestByPrio
<1>5. CASE HandlerReturns
  <2>1. /\ n # 0
        /\ Len(handlers') = n - 1
        /\ \A k \in 1 .. n - 1 : handlers'[k] = handlers[k]
        /\ irq_prio' = irq_prio /\ currently_running_prio' = handlers[n].last
    BY <1>1, <1>5, ActiveAfterReturn DEF HandlerReturns
  <2>2. \A k \in 0 .. n - 1 : PrioBelow(k)' = PrioBelow(k)
    BY <1>1, <2>1 DEF PrioBelow
  <2>3. handlers[n].last = PrioBelow(n - 1)
    BY <1>1, <2>1 DEF HandlersNestByPrio
  <2>4. \A k \in 1 .. n - 1 : /\ irq_prio'[handlers'[k].irq] < handlers'[k].last
                              /\ handlers'[k].last = PrioBelow(k - 1)'
    BY <1>1, <2>1, <2>2 DEF HandlersNestByPrio
  <2> QED BY <1>1, <2>1, <2>2, <2>3, <2>4 DEF HandlersNestByPrio
<1>6. ASSUME \/ Hardware
             \/ \E irq \in IRQ : EnableIrq(irq) \/ DisableIrq(irq) \/ SwRaisesIrq(irq)
             \/ \E new_lock \in BOOLEAN : ChangeLock(new_lock)
             \/ ClearAllEnabledIrqs \/ ClearAllIrqs \/ Halt
             \/ Vector /\ HighestPrioIrq = -1
             \/ UNCHANGED vars
      PROVE  UNCHANGED <<handlers, irq_prio, currently_running_prio>>
  BY <1>6 DEF Hardware, TimerTriggered, FakeTimerTriggered, TickerAwakesCpu, PeripheralPulse,
     RaiseLevelIrqLine, LowerLevelIrqLine, EnableIrq, DisableIrq, SwRaisesIrq, ChangeLock,
     ClearAllEnabledIrqs, ClearAllIrqs, Halt, Vector, vars, prioVars, cpuVars
<1> QED BY <1>2, <1>3, <1>4, <1>5, <1>6 DEF Next, Software

(* The handlers preempt each other strictly by priority, and the priority   *)
(* that the search compares with is that of the innermost one               *)
(* (get_highest_prio_irq, set_cur_prio).                                    *)
THEOREM HandlersNest == Spec => []HandlersNestByPrio
<1>1. Init => HandlersNestByPrio
  BY DEF Init, HandlersNestByPrio, PrioBelow
<1> QED BY <1>1, NestStep, TypeCorrect, PTL DEF Spec
=============================================================================
