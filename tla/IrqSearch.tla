----------------------------- MODULE IrqSearch -----------------------------
(***************************************************************************)
(* The loop of hw_irq_ctrl_get_highest_prio_irq() (irq_ctrl.c), one turn   *)
(* per step, for every status, priority table and running priority.        *)
(*                                                                         *)
(* The loop takes the lowest set bit of its copy of irq_status with        *)
(* __builtin_ffs().  The copy has 64 bits and the argument of ffs() is an  *)
(* int: an interrupt whose number is FfsWidth or more is never found.      *)
(* ffs() then returns 0, the loop shifts by -1 and reads irq_prio[-1],     *)
(* both undefined: as the supported compilers build it the shift sets bit  *)
(* 63, which no interrupt uses, and the read gives some byte.              *)
(***************************************************************************)
EXTENDS IrqPriority

CONSTANTS
  IRQ,        \* interrupt numbers
  Prio,       \* interrupt priorities, which are also the values of a stray byte
  FfsWidth    \* bits of the status that ffs() can see: 32

ASSUME IrqAssumption  == IRQ \subseteq Nat
ASSUME PrioAssumption == Prio \subseteq 0 .. 255
ASSUME FfsAssumption  == FfsWidth \in Nat

VARIABLES
  pended, irq_prio, running,     \* what the loop reads: it changes none of them
  left,                          \* the loop's copy of irq_status
  winner, winner_prio,
  returned                       \* has it returned winner?

inputs == <<pended, irq_prio, running>>
vars   == <<inputs, left, winner, winner_prio, returned>>

Init ==
  /\ pended \in SUBSET IRQ
  /\ irq_prio \in [IRQ -> Prio]
  /\ running \in Prio \cup {ThreadPrio}
  /\ left = pended
  /\ winner = -1 /\ winner_prio = 256
  /\ returned = FALSE

Visible == {i \in left : i < FfsWidth}

(* Mutant: of two equal priorities the later interrupt wins.                *)
ConsiderTiesLate(irq, prio) ==
  IF winner_prio >= prio /\ running > prio
    THEN winner' = irq /\ winner_prio' = prio
    ELSE UNCHANGED <<winner, winner_prio>>

(* The comparison at the end of a turn.                                     *)
Consider(irq, prio) ==
  IF winner_prio > prio /\ running > prio
    THEN winner' = irq /\ winner_prio' = prio
    ELSE UNCHANGED <<winner, winner_prio>>

(* Mutant: the bit that was looked at is not cleared.                       *)
TakeLowestNoClear ==
  /\ ~returned
  /\ \E irq \in Visible :
       /\ \A j \in Visible : irq <= j
       /\ left' = left
       /\ Consider(irq, irq_prio[irq])
  /\ UNCHANGED <<inputs, returned>>

(* A turn that finds a bit: clear it and consider its interrupt.            *)
TakeLowest ==
  /\ ~returned
  /\ \E irq \in Visible :
       /\ \A j \in Visible : irq <= j
       /\ left' = left \ {irq}
       /\ Consider(irq, irq_prio[irq])
  /\ UNCHANGED <<inputs, returned>>

(* A turn that finds none although the copy is not zero: nothing is cleared *)
(* and the byte before the priority table is considered.                    *)
TakeNothing ==
  /\ ~returned /\ left # {} /\ Visible = {}
  /\ \E stray \in Prio : Consider(-1, stray)
  /\ UNCHANGED <<inputs, left, returned>>

Return ==
  /\ ~returned /\ left = {}
  /\ returned' = TRUE
  /\ UNCHANGED <<inputs, left, winner, winner_prio>>

Next == TakeLowest \/ TakeNothing \/ Return

(* The loop is sequential code: it goes on.                                 *)
Spec     == Init /\ [][Next]_vars
FairSpec == Spec /\ WF_vars(Next)

-----------------------------------------------------------------------------
(* Properties.                                                              *)

TypeOK ==
  /\ pended \subseteq IRQ /\ left \subseteq pended
  /\ irq_prio \in [IRQ -> Prio]
  /\ running \in Prio \cup {ThreadPrio}
  /\ winner \in IRQ \cup {-1}
  /\ winner_prio \in Prio \cup {256}
  /\ returned \in BOOLEAN

(* What get_highest_prio_irq returns is the pended interrupt its comment    *)
(* promises: the highest priority, the lowest number among equals, -1 when  *)
(* none would preempt the running one.                                      *)
AnswerIsHighest ==
  returned => winner = Highest(pended, irq_prio, running)

(* It does return when ffs() can see every interrupt that is pended.        *)
AnswersWhenVisible == (\A i \in pended : i < FfsWidth) => <>returned

(* The comment promises an answer for whatever is pended.                   *)
AlwaysAnswers == <>returned
=============================================================================
