---------------------------- MODULE CommonProofs ----------------------------
(***************************************************************************)
(* Facts that the proofs of several components use: about remainders, the  *)
(* least of a set of numbers, and the interrupt that the controller hands  *)
(* to the CPU, for any set of interrupt numbers and any priorities.        *)
(***************************************************************************)
EXTENDS IrqPriority, WellFoundedInduction, TLAPS

(* A non-empty set of natural numbers has a least element.                  *)
LEMMA NatMinimum ==
  ASSUME NEW T \in SUBSET Nat, T # {}
  PROVE  \E x \in T : \A y \in T : x <= y
<1> DEFINE Less == OpToRel(<, Nat)
<1>1. IsWellFoundedOn(Less, Nat)
  BY NatLessThanWellFounded
<1>2. \A x, y \in Nat : <<x, y>> \in Less <=> x < y
  BY DEF OpToRel
<1> HIDE DEF Less
<1>3. PICK x \in T : \A y \in T : ~ (<<y, x>> \in Less)
  BY <1>1, WFMin
<1>4. \A y \in T : x <= y
  <2> TAKE y \in T
  <2>1. ~(y < x)
    BY <1>2, <1>3
  <2> QED BY <2>1
<1> QED BY <1>4

(* Highest is unambiguous: an interrupt that precedes all the ready ones is *)
(* the one the specification of get_highest_prio_irq() chooses.             *)
LEMMA HighestIsUnique ==
  ASSUME NEW S \in SUBSET Nat, NEW prio, \A i \in S : prio[i] \in Nat, NEW run \in Nat,
         NEW w \in Preempting(S, prio, run),
         \A j \in Preempting(S, prio, run) : Precedes(prio, w, j)
  PROVE  Highest(S, prio, run) = w
<1> DEFINE ready == Preempting(S, prio, run)
           first(i) == \A j \in ready : Precedes(prio, i, j)
<1>1. ready \subseteq S /\ ready # {}
  BY DEF Preempting
<1>2. \A v \in ready : first(v) => v = w
  <2> SUFFICES ASSUME NEW v \in ready, first(v) PROVE v = w
    OBVIOUS
  <2>1. Precedes(prio, v, w) /\ Precedes(prio, w, v)
    OBVIOUS
  <2>2. v \in Nat /\ w \in Nat /\ prio[v] \in Nat /\ prio[w] \in Nat
    BY <1>1
  <2> QED BY <2>1, <2>2 DEF Precedes
<1>3. (CHOOSE i \in ready : first(i)) = w
  BY <1>2
<1> QED BY <1>1, <1>3 DEF Highest

(* Whenever some interrupt would preempt, there is one to serve, and it is  *)
(* the first of those that would: -1 means that none would.                 *)
LEMMA HighestIsReady ==
  ASSUME NEW S \in SUBSET Nat, NEW prio, \A i \in S : prio[i] \in Nat, NEW run \in Nat,
         Preempting(S, prio, run) # {}
  PROVE  /\ Highest(S, prio, run) \in Preempting(S, prio, run)
         /\ \A j \in Preempting(S, prio, run) : Precedes(prio, Highest(S, prio, run), j)
<1> DEFINE ready == Preempting(S, prio, run)
           prios == {prio[i] : i \in ready}
<1>1. ready \subseteq S
  BY DEF Preempting
<1>2. PICK p \in prios : \A q \in prios : p <= q
  <2>1. prios \in SUBSET Nat /\ prios # {}
    BY <1>1
  <2> QED BY <2>1, NatMinimum
<1> DEFINE ties == {i \in ready : prio[i] = p}
<1>3. PICK w \in ties : \A j \in ties : w <= j
  <2>1. ties \in SUBSET Nat /\ ties # {}
    BY <1>1
  <2> QED BY <2>1, NatMinimum
<1>4. \A j \in ready : Precedes(prio, w, j)
  <2> TAKE j \in ready
  <2>1. p <= prio[j] /\ prio[w] = p /\ prio[j] \in Nat /\ p \in Nat
    BY <1>1, <1>2
  <2>2. prio[j] = p => w <= j
    BY <1>3
  <2> QED BY <2>1, <2>2 DEF Precedes
<1>5. Highest(S, prio, run) = w
  BY <1>4, HighestIsUnique
<1> QED BY <1>4, <1>5

(* Quotient and remainder of a division.                                 *)
LEMMA Remainder ==
  ASSUME NEW W \in Nat \ {0}, NEW x \in Int
  PROVE  \E q \in Int, r \in 0 .. W - 1 : x = q * W + r /\ x \div W = q /\ x % W = r
<1>1. x \div W \in Int /\ x % W \in 0 .. W - 1 /\ x = (x \div W) * W + (x % W)
  OBVIOUS
<1> QED BY <1>1

(* A number is the multiple and the remainder that make it up.           *)
LEMMA RemainderIsUnique ==
  ASSUME NEW W \in Nat \ {0}, NEW k \in Int, NEW r \in 0 .. W - 1
  PROVE  (k * W + r) % W = r /\ (k * W + r) \div W = k
OBVIOUS
=============================================================================
