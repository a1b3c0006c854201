-------------------------- MODULE IrqSearchProofs --------------------------
(***************************************************************************)
(* Partial correctness of the interrupt search, for every set of interrupt *)
(* numbers, every set of priorities and every width of ffs().              *)
(***************************************************************************)
EXTENDS IrqSearch, CommonProofs

-----------------------------------------------------------------------------
(* The inductive invariant.                                                 *)

Seen == pended \ left

(* The bits are taken in increasing order.                                  *)
TakenInOrder == \A i \in Seen, j \in left : i < j

(* winner is the interrupt to serve among those that were seen.             *)
WinnerOfSeen ==
  LET ready == Preempting(Seen, irq_prio, running)
  IN  \/ /\ winner = -1 /\ winner_prio = 256 /\ ready = {}
      \/ /\ winner \in ready /\ winner_prio = irq_prio[winner]
         /\ \A j \in ready : Precedes(irq_prio, winner, j)

(* A stray byte is only considered when a bit is left that ffs() never sees.*)
Stuck == \E i \in left : ~(i < FfsWidth)

IInv == TypeOK /\ TakenInOrder /\ (Stuck \/ WinnerOfSeen)

-----------------------------------------------------------------------------
(* Every priority fits its byte; the thread's is lower than all of them.    *)
LEMMA PrioRange ==
  /\ \A p \in Prio : p \in Nat /\ p < 256
  /\ \A p \in Prio \cup {ThreadPrio} : p \in Nat /\ p <= 256
<1>1. \A p \in Prio : p \in Nat /\ p < 256
  BY PrioAssumption
<1>2. \A p \in {ThreadPrio} : p \in Nat /\ p <= 256
  BY DEF ThreadPrio
<1> QED BY <1>1, <1>2

-----------------------------------------------------------------------------
(* The invariant holds in the initial states.                               *)
LEMMA InitIInv == Init => IInv
<1> SUFFICES ASSUME Init PROVE IInv
  OBVIOUS
<1>1. TypeOK
  BY DEF Init, TypeOK
<1>2. Seen = {}
  BY DEF Init, Seen
<1>3. TakenInOrder
  BY <1>2 DEF TakenInOrder
<1>4. WinnerOfSeen
  BY <1>2 DEF Init, WinnerOfSeen, Preempting
<1> QED BY <1>1, <1>3, <1>4 DEF IInv

(* Every turn of the loop, and its return, preserve it.                     *)
LEMMA NextIInv == IInv /\ [Next]_vars => IInv'
<1> SUFFICES ASSUME IInv, [Next]_vars PROVE IInv'
  OBVIOUS
<1> USE IrqAssumption, PrioAssumption, FfsAssumption
<1>1. CASE TakeLowest
  <2>1. PICK irq \in Visible : /\ \A j \in Visible : irq <= j
                               /\ left' = left \ {irq}
                               /\ Consider(irq, irq_prio[irq])
    BY <1>1 DEF TakeLowest
  <2>2. UNCHANGED inputs /\ UNCHANGED returned
    BY <1>1 DEF TakeLowest
  <2>3. irq \in left /\ irq \in pended /\ irq \in IRQ /\ irq < FfsWidth /\ irq \in Nat
    BY DEF Visible, IInv, TypeOK
  <2>4. TypeOK'
    BY <2>1, <2>2, <2>3 DEF IInv, TypeOK, Consider, inputs
  <2>5. Seen' = Seen \cup {irq}
    BY <2>1, <2>2, <2>3 DEF Seen, inputs
  <2>6. TakenInOrder'
    <3>1. \A j \in left' : irq < j
      <4> SUFFICES ASSUME NEW j \in left' PROVE irq < j
        OBVIOUS
      <4>1. j \in left /\ j # irq /\ j \in Nat
        BY <2>1 DEF IInv, TypeOK
      <4>2. CASE j < FfsWidth
        BY <4>1, <4>2, <2>1, <2>3 DEF Visible
      <4>3. CASE ~(j < FfsWidth)
        BY <4>1, <4>3, <2>3
      <4> QED BY <4>2, <4>3
    <3> QED BY <3>1, <2>1, <2>5 DEF IInv, TakenInOrder
  <2>7. Stuck => Stuck'
    BY <2>1, <2>3 DEF Stuck
  <2>8. WinnerOfSeen => WinnerOfSeen'
    <3> SUFFICES ASSUME WinnerOfSeen PROVE WinnerOfSeen'
      OBVIOUS
    <3> DEFINE ready == Preempting(Seen, irq_prio, running)
    <3>1. Seen \subseteq IRQ /\ irq_prio \in [IRQ -> Prio]
      BY DEF IInv, TypeOK, Seen
    <3>2. ready \subseteq Seen /\ \A i \in ready : irq_prio[i] \in Nat /\ i \in Nat /\ i < irq
      <4>1. ready \subseteq Seen /\ \A i \in ready : irq_prio[i] \in Prio /\ i \in Nat
        BY <3>1 DEF Preempting
      <4> QED BY <4>1, <2>3, PrioRange DEF IInv, TakenInOrder
    <3>3. irq_prio[irq] \in Nat /\ irq_prio[irq] < 256 /\ running \in Nat
      <4>1. irq_prio[irq] \in Prio /\ running \in Prio \cup {ThreadPrio}
        BY <3>1, <2>3 DEF IInv, TypeOK
      <4> QED BY <4>1, PrioRange
    <3>4. ready' = IF irq_prio[irq] < running THEN ready \cup {irq} ELSE ready
      BY <2>2, <2>5 DEF Preempting, inputs
    <3>5. CASE winner_prio > irq_prio[irq] /\ running > irq_prio[irq]
      <4>1. winner' = irq /\ winner_prio' = irq_prio[irq] /\ irq_prio' = irq_prio
        BY <2>1, <2>2, <3>5 DEF Consider, inputs
      <4>2. ready' = ready \cup {irq}
        BY <3>4, <3>5, <3>3
      <4>3. \A j \in ready : irq_prio[irq] < irq_prio[j]
        <5> SUFFICES ASSUME NEW j \in ready PROVE irq_prio[irq] < irq_prio[j]
          OBVIOUS
        <5>1. winner \in ready /\ winner_prio = irq_prio[winner] /\ Precedes(irq_prio, winner, j)
          BY DEF WinnerOfSeen
        <5>2. irq_prio[winner] \in Nat /\ irq_prio[j] \in Nat /\ irq_prio[irq] \in Nat
          BY <5>1, <3>2, <3>3
        <5>3. irq_prio[winner] <= irq_prio[j]
          BY <5>1, <5>2 DEF Precedes
        <5>4. irq_prio[winner] > irq_prio[irq]
          BY <5>1, <3>5
        <5> QED BY <5>2, <5>3, <5>4
      <4>4. \A j \in ready' : Precedes(irq_prio, irq, j)
        BY <4>2, <4>3, <2>3 DEF Precedes
      <4> QED BY <4>1, <4>2, <4>4 DEF WinnerOfSeen
    <3>6. CASE ~(winner_prio > irq_prio[irq] /\ running > irq_prio[irq])
      <4>1. winner' = winner /\ winner_prio' = winner_prio /\ irq_prio' = irq_prio
        BY <2>1, <2>2, <3>6 DEF Consider, inputs
      <4>2. CASE ~(irq_prio[irq] < running)
        <5>1. ready' = ready
          BY <3>4, <4>2
        <5> QED BY <4>1, <5>1 DEF WinnerOfSeen
      <4>3. CASE irq_prio[irq] < running
        <5>1. ready' = ready \cup {irq} /\ ~(winner_prio > irq_prio[irq])
          BY <3>4, <4>3, <3>6, <3>3
        <5>2. winner \in ready /\ winner_prio = irq_prio[winner]
          BY <5>1, <3>3 DEF WinnerOfSeen
        <5>3. Precedes(irq_prio, winner, irq)
          <6>1. irq_prio[winner] \in Nat /\ irq_prio[irq] \in Nat /\ winner < irq
            BY <5>2, <3>2, <3>3
          <6>2. irq_prio[winner] <= irq_prio[irq]
            BY <5>1, <5>2, <6>1
          <6>3. winner \in Nat
            BY <5>2, <3>2
          <6> QED BY <6>1, <6>2, <6>3, <2>3 DEF Precedes
        <5>4. \A j \in ready' : Precedes(irq_prio, winner, j)
          BY <5>1, <5>2, <5>3 DEF WinnerOfSeen
        <5> QED BY <4>1, <5>1, <5>2, <5>4 DEF WinnerOfSeen
      <4> QED BY <4>2, <4>3
    <3> QED BY <3>5, <3>6
  <2> QED BY <2>4, <2>6, <2>7, <2>8 DEF IInv
<1>2. CASE TakeNothing
  <2>1. UNCHANGED <<inputs, left, returned>> /\ left # {} /\ Visible = {}
    BY <1>2 DEF TakeNothing
  <2>2. PICK stray \in Prio : Consider(-1, stray)
    BY <1>2 DEF TakeNothing
  <2>3. TypeOK'
    BY <2>1, <2>2 DEF IInv, TypeOK, Consider, inputs
  <2>4. TakenInOrder'
    BY <2>1 DEF IInv, TakenInOrder, Seen, inputs
  <2>5. Stuck'
    BY <2>1 DEF Stuck, Visible
  <2> QED BY <2>3, <2>4, <2>5 DEF IInv
<1>3. CASE Return
  BY <1>3 DEF Return, IInv, TypeOK, TakenInOrder, Stuck, WinnerOfSeen, Seen, inputs
<1>4. CASE UNCHANGED vars
  BY <1>4 DEF vars, IInv, TypeOK, TakenInOrder, Stuck, WinnerOfSeen, Seen, inputs
<1> QED BY <1>1, <1>2, <1>3, <1>4 DEF Next

-----------------------------------------------------------------------------
(* A state in which the loop has returned has nothing left to look at.      *)
LEMMA ReturnedIsDone == Spec => [](returned => left = {})
<1>1. Init => (returned => left = {})
  BY DEF Init
<1>2. (returned => left = {}) /\ [Next]_vars => (returned => left = {})'
  BY DEF Next, TakeLowest, TakeNothing, Return, vars, Visible
<1> QED BY <1>1, <1>2, PTL DEF Spec

(* What the loop of hw_irq_ctrl_get_highest_prio_irq() returns, whenever it *)
(* returns, is the pended interrupt its comment promises, whatever is       *)
(* pended and whatever the priorities are.                                  *)
THEOREM SearchIsCorrect == Spec => []AnswerIsHighest
<1>1. IInv /\ (returned => left = {}) => AnswerIsHighest
  <2> SUFFICES ASSUME IInv, left = {}, returned
               PROVE  winner = Highest(pended, irq_prio, running)
    BY DEF AnswerIsHighest
  <2>1. Seen = pended /\ ~Stuck
    BY DEF Seen, Stuck
  <2>2. WinnerOfSeen
    BY <2>1 DEF IInv
  <2> DEFINE ready == Preempting(pended, irq_prio, running)
  <2>3. CASE ready = {}
    BY <2>1, <2>2, <2>3 DEF WinnerOfSeen, Highest
  <2>4. CASE ready # {}
    <3>1. winner \in ready /\ \A j \in ready : Precedes(irq_prio, winner, j)
      BY <2>1, <2>2, <2>4 DEF WinnerOfSeen
    <3>2. pended \in SUBSET Nat
      BY IrqAssumption DEF IInv, TypeOK
    <3>3. running \in Prio \cup {ThreadPrio} /\ \A i \in pended : irq_prio[i] \in Prio
      BY DEF IInv, TypeOK
    <3>4. running \in Nat /\ \A i \in pended : irq_prio[i] \in Nat
      BY <3>3, PrioRange
    <3> QED BY <3>1, <3>2, <3>4, HighestIsUnique
  <2> QED BY <2>3, <2>4
<1> QED BY <1>1, InitIInv, NextIInv, ReturnedIsDone, PTL DEF Spec
=============================================================================
