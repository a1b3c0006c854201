---------------------------- MODULE RoutingProofs ----------------------------
(***************************************************************************)
(* What leads events to tasks: the PPI, and the pins with the channels of  *)
(* the GPIOTE, for every depth of nested events.                           *)
(*                                                                         *)
(* The PPI, for every set of channels, events and tasks: the routing       *)
(* tables and the task queue.                                              *)
(*                                                                         *)
(* The GPIO and the GPIOTE, for every set of pins and channels, every      *)
(* board, every set of configurations and every routes of the PPI: the     *)
(* levels (without any hypothesis), the owners of the pins, the wires, and *)
(* the levels that the channels know.  Each is what its property says once *)
(* the last call has returned, extended to the states in the middle of a   *)
(* change by what remains to be done.                                      *)
(***************************************************************************)
EXTENDS Ppi, Gpio, CommonProofs, SequenceTheorems, FiniteSetTheorems

-----------------------------------------------------------------------------
(* The PPI.                                                                 *)

(* The inductive invariant: the queue holds exactly the tasks that events   *)
(* in progress put there, each task once and by one event; what an event is *)
(* owed was put there by it or by one around it; and the innermost loop has *)
(* no task behind it.                                                       *)

QueuedByOne ==
  \A t \in Task : \A k, l \in DOMAIN frames :
     t \in frames[k].queued /\ t \in frames[l].queued => k = l
OwedIsQueued ==
  \A t \in Task : \A j \in DOMAIN frames :
     t \in frames[j].owed => \E k \in DOMAIN frames : k <= j /\ t \in frames[k].queued

QueueIsOwed ==
  /\ \A t \in Task : t \in Pending(q) <=> \E k \in DOMAIN frames : t \in frames[k].queued
  /\ QueuedByOne /\ OwedIsQueued
  /\ \A i, j \in DOMAIN q : i # j /\ q[i] = q[j] => q[i] = NULL
  /\ Busy => \A i \in DOMAIN q : i < frames[top].next => q[i] = NULL

-----------------------------------------------------------------------------
(* Facts about the operators.                                               *)

(* An event only asks for modelled tasks.                                   *)
LEMMA AskedAreTasks ==
  ASSUME TypeOK, NEW event \in Event
  PROVE  Asked(ChMask(event)) \subseteq Task
BY DEF TypeOK, Asked, ChMask

(* What the queue holds are tasks, found at its slots.                      *)
LEMMA PendingAreTasks ==
  ASSUME TypeOK
  PROVE  /\ Pending(q) \subseteq Task
         /\ \A t \in Task : t \in Pending(q) <=> \E i \in DOMAIN q : q[i] = t
<1>1. DOMAIN q = 1 .. Len(q) /\ \A i \in DOMAIN q : q[i] \in Task \cup {NULL}
  BY DEF TypeOK
<1> QED BY <1>1, TaskAssumption DEF Pending

(* Queueing the tasks of an event adds those that are missing, once each.   *)
LEMMA Enqueued ==
  ASSUME TypeOK, QueueIsOwed, NEW event \in Event, EnqueueTasks(ChMask(event))
  PROVE  /\ q' \in Seq(Task \cup {NULL})
         /\ \A t \in Task : t \in Pending(q)' <=> t \in Pending(q) \/ t \in Asked(ChMask(event))
         /\ \A i, j \in DOMAIN q' : i # j /\ q'[i] = q'[j] => q'[i] = NULL
<1> DEFINE tasks == Asked(ChMask(event)) \ Pending(q)
<1>1. tasks \subseteq Task
  BY AskedAreTasks
<1>2. Cardinality(tasks) \in Nat
  BY <1>1, TaskAssumption, FS_Subset, FS_CardinalityType
<1>3. PICK new \in InOrder(ChMask(event), tasks) : q' = q \o new
  BY DEF EnqueueTasks
<1>4. /\ new \in [1 .. Cardinality(tasks) -> tasks]
      /\ \A t \in tasks : \E i \in DOMAIN new : new[i] = t
      /\ \A i, j \in DOMAIN new : i # j => new[i] # new[j]
  BY <1>3 DEF InOrder
<1> HIDE DEF tasks
<1>5. new \in Seq(tasks) /\ DOMAIN new = 1 .. Len(new) /\ Len(new) \in Nat
  BY <1>2, <1>4
<1>6. q \in Seq(Task \cup {NULL}) /\ new \in Seq(Task \cup {NULL})
  BY <1>1, <1>5 DEF TypeOK
<1>7. /\ q' \in Seq(Task \cup {NULL})
      /\ DOMAIN q = 1 .. Len(q) /\ Len(q) \in Nat
      /\ DOMAIN q' = 1 .. Len(q) + Len(new)
      /\ \A i \in DOMAIN q : q'[i] = q[i]
      /\ \A i \in DOMAIN new : q'[Len(q) + i] = new[i]
      /\ \A i \in DOMAIN q' : i \notin DOMAIN q => i - Len(q) \in DOMAIN new /\ q'[i] = new[i - Len(q)]
  BY <1>3, <1>5, <1>6
<1>8. \A t \in Task : t \in Pending(q) <=> \E i \in DOMAIN q : q[i] = t
  BY PendingAreTasks
<1>9. \A i \in DOMAIN new : new[i] \in tasks
  BY <1>4
<1>10. ASSUME NEW t \in Task
       PROVE  (\E i \in DOMAIN q' : q'[i] = t) <=> t \in Pending(q) \/ t \in tasks
  <2>1. ASSUME NEW i \in DOMAIN q', q'[i] = t PROVE t \in Pending(q) \/ t \in tasks
    <3>1. CASE i \in DOMAIN q
      BY <2>1, <3>1, <1>7, <1>8
    <3>2. CASE i \notin DOMAIN q
      BY <2>1, <3>2, <1>7, <1>9
    <3> QED BY <3>1, <3>2
  <2>2. ASSUME t \in Pending(q) PROVE \E i \in DOMAIN q' : q'[i] = t
    <3>1. PICK i \in DOMAIN q : q[i] = t
      BY <2>2, <1>8
    <3>2. i \in DOMAIN q' /\ q'[i] = t
      BY <3>1, <1>5, <1>7
    <3> QED BY <3>2
  <2>3. ASSUME t \in tasks PROVE \E i \in DOMAIN q' : q'[i] = t
    <3>1. PICK i \in DOMAIN new : new[i] = t
      BY <2>3, <1>4
    <3>2. Len(q) + i \in DOMAIN q' /\ q'[Len(q) + i] = t
      BY <3>1, <1>5, <1>7
    <3> QED BY <3>2
  <2> QED BY <2>1, <2>2, <2>3
<1>11. \A t \in Task : t \in Pending(q)' <=> \E i \in DOMAIN q' : q'[i] = t
  BY TaskAssumption DEF Pending
<1>12. \A t \in Task : t \in Pending(q)' <=> t \in Pending(q) \/ t \in Asked(ChMask(event))
  BY <1>10, <1>11 DEF tasks
<1>13. ASSUME NEW i \in DOMAIN q', NEW j \in DOMAIN q', i # j, q'[i] = q'[j]
       PROVE  q'[i] = NULL
  <2>1. CASE i \in DOMAIN q /\ j \in DOMAIN q
    BY <1>13, <2>1, <1>7 DEF QueueIsOwed
  <2>2. CASE i \notin DOMAIN q /\ j \notin DOMAIN q
    <3>1. i - Len(q) # j - Len(q)
      BY <1>13, <1>7, <1>5
    <3> QED BY <1>13, <2>2, <3>1, <1>4, <1>7
  <2>3. ASSUME NEW k \in DOMAIN q, NEW l \in DOMAIN q', l \notin DOMAIN q PROVE q'[k] # q'[l]
    <3>1. q'[l] \in tasks /\ q'[k] = q[k]
      BY <2>3, <1>7, <1>9
    <3>2. q'[l] \in Task /\ q'[l] \notin Pending(q)
      BY <3>1, <1>1 DEF tasks
    <3> QED BY <3>1, <3>2, <1>8
  <2> QED BY <1>13, <2>1, <2>2, <2>3
<1> QED BY <1>7, <1>12, <1>13

(* Which calls of nrf_ppi_event() are in progress after one more begins.    *)
LEMMA Signalled ==
  ASSUME TypeOK, NEW event \in Event, NrfPpiEvent(event), ChMask(event) # {}
  PROVE  /\ EnqueueTasks(ChMask(event))
         /\ frames' \in Seq(Frame)
         /\ DOMAIN frames = 1 .. Len(frames) /\ Len(frames) \in Nat
         /\ DOMAIN frames' = 1 .. Len(frames) + 1 /\ Len(frames') = Len(frames) + 1
         /\ \A k \in DOMAIN frames : frames'[k] = frames[k]
         /\ frames'[Len(frames) + 1].next = 1
         /\ frames'[Len(frames) + 1].owed = Asked(ChMask(event))
         /\ frames'[Len(frames) + 1].queued = Asked(ChMask(event)) \ Pending(q)
<1> DEFINE new == NewFrame(ChMask(event), 1)
<1>1. new \in Frame /\ new.next = 1 /\ new.owed = Asked(ChMask(event))
      /\ new.queued = Asked(ChMask(event)) \ Pending(q)
  BY AskedAreTasks DEF Frame, NewFrame
<1>2. frames \in Seq(Frame)
  BY DEF TypeOK
<1>3. EnqueueTasks(ChMask(event)) /\ frames' = Append(frames, new)
  BY DEF NrfPpiEvent
<1> HIDE DEF new
<1>4. /\ frames' \in Seq(Frame)
      /\ DOMAIN frames = 1 .. Len(frames) /\ Len(frames) \in Nat
      /\ DOMAIN frames' = 1 .. Len(frames) + 1 /\ Len(frames') = Len(frames) + 1
      /\ \A k \in DOMAIN frames : frames'[k] = frames[k]
      /\ frames'[Len(frames) + 1] = new
  BY <1>1, <1>2, <1>3
<1> QED BY <1>1, <1>3, <1>4

(* What a call of a task does to the calls in progress.                     *)
LEMMA Called ==
  ASSUME TypeOK, NEW i \in DOMAIN q, CallTask(i)
  PROVE  /\ q[i] \in Task
         /\ Busy /\ top \in DOMAIN frames
         /\ frames' \in Seq(Frame)
         /\ DOMAIN frames' = DOMAIN frames /\ Len(frames') = Len(frames)
         /\ \A k \in DOMAIN frames : /\ frames'[k].owed = frames[k].owed \ {q[i]}
                                     /\ frames'[k].queued = frames[k].queued \ {q[i]}
         /\ frames'[top].next = i + 1
<1>1. Busy /\ q[i] # NULL /\ q[i] \in Task \cup {NULL} /\ i \in Nat
  BY DEF CallTask, IsNextSlot, TypeOK
<1>2. frames \in Seq(Frame) /\ Len(frames) \in Nat /\ DOMAIN frames = 1 .. Len(frames)
  BY DEF TypeOK
<1>3. top \in DOMAIN frames
  BY <1>1, <1>2 DEF Busy, top
<1>4. \A k \in DOMAIN frames : frames[k] \in Frame
  BY <1>2
<1> DEFINE called == [frames EXCEPT ![top].next = i + 1, ![top].task = q[i]]
<1>5. /\ DOMAIN called = DOMAIN frames
      /\ \A k \in DOMAIN frames : /\ called[k] \in Frame /\ called[k].owed = frames[k].owed
                                  /\ called[k].queued = frames[k].queued
      /\ called[top].next = i + 1
  <2>1. /\ DOMAIN called = DOMAIN frames
        /\ \A k \in DOMAIN frames : k # top => called[k] = frames[k]
        /\ called[top] = [frames[top] EXCEPT !.next = i + 1, !.task = q[i]]
    BY <1>3
  <2> HIDE DEF called
  <2>2. frames[top] \in Frame /\ i + 1 \in Nat
    BY <1>1, <1>3, <1>4
  <2>3. called[top] = [next |-> i + 1, task |-> q[i], owed |-> frames[top].owed,
                       queued |-> frames[top].queued]
    BY <2>1, <2>2 DEF Frame
  <2>4. /\ called[top] \in Frame /\ called[top].owed = frames[top].owed
        /\ called[top].queued = frames[top].queued
        /\ called[top].next = i + 1
    BY <1>1, <2>2, <2>3 DEF Frame
  <2> QED BY <1>4, <2>1, <2>4
<1>6. frames' = Paid(called, q[i])
  BY DEF CallTask
<1> HIDE DEF called
<1> DEFINE fewer(f) == [next |-> f.next, task |-> f.task, owed |-> f.owed \ {q[i]},
                        queued |-> f.queued \ {q[i]}]
<1>7. frames' = [k \in DOMAIN frames |-> fewer(called[k])]
  <2>1. ASSUME NEW f \in Frame
        PROVE  [f EXCEPT !.owed = f.owed \ {q[i]}, !.queued = f.queued \ {q[i]}] = fewer(f)
    <3> DEFINE g == [next |-> f.next, task |-> f.task, owed |-> f.owed \ {q[i]},
                     queued |-> f.queued]
    <3>1. [f EXCEPT !.owed = f.owed \ {q[i]}] = g
      BY DEF Frame
    <3>2. [g EXCEPT !.queued = f.queued \ {q[i]}] = fewer(f)
      OBVIOUS
    <3> QED BY <3>1, <3>2
  <2> HIDE DEF fewer
  <2> QED BY <1>5, <1>6, <2>1 DEF Paid
<1>8. /\ DOMAIN frames' = DOMAIN frames
      /\ \A k \in DOMAIN frames : /\ frames'[k] \in Frame
                                  /\ frames'[k].owed = frames[k].owed \ {q[i]}
                                  /\ frames'[k].queued = frames[k].queued \ {q[i]}
                                  /\ frames'[k].next = called[k].next
  <2>1. ASSUME NEW f \in Frame
        PROVE  /\ fewer(f) \in Frame /\ fewer(f).next = f.next
               /\ fewer(f).owed = f.owed \ {q[i]} /\ fewer(f).queued = f.queued \ {q[i]}
    BY DEF Frame
  <2> HIDE DEF fewer
  <2> QED BY <1>5, <1>7, <2>1
<1> HIDE DEF fewer
<1>9. frames' \in [1 .. Len(frames) -> Frame]
  BY <1>2, <1>7, <1>8
<1>10. frames' \in Seq(Frame) /\ Len(frames') = Len(frames)
  BY <1>2, <1>9
<1> QED BY <1>1, <1>3, <1>5, <1>8, <1>10

(* What the return of a task does to them.                                  *)
LEMMA Returned ==
  ASSUME TypeOK, Busy, Returns
  PROVE  /\ top \in DOMAIN frames
         /\ frames' \in Seq(Frame)
         /\ DOMAIN frames' = DOMAIN frames /\ Len(frames') = Len(frames)
         /\ \A k \in DOMAIN frames : /\ frames'[k].owed = frames[k].owed
                                     /\ frames'[k].queued = frames[k].queued
                                     /\ frames'[k].next = frames[k].next
<1>1. frames \in Seq(Frame) /\ Len(frames) \in Nat /\ DOMAIN frames = 1 .. Len(frames)
  BY DEF TypeOK
<1>2. top \in DOMAIN frames /\ \A k \in DOMAIN frames : frames[k] \in Frame
  BY <1>1 DEF Busy, top
<1>3. frames' = [frames EXCEPT ![top].task = NULL]
  BY DEF Returns
<1>4. /\ DOMAIN frames' = DOMAIN frames
      /\ \A k \in DOMAIN frames : /\ frames'[k] \in Frame
                                  /\ frames'[k].owed = frames[k].owed
                                  /\ frames'[k].queued = frames[k].queued
                                  /\ frames'[k].next = frames[k].next
  BY <1>2, <1>3 DEF Frame
<1>5. frames' \in [1 .. Len(frames) -> Frame]
  BY <1>1, <1>3, <1>4
<1>6. frames' \in Seq(Frame) /\ Len(frames') = Len(frames)
  BY <1>1, <1>5
<1> QED BY <1>2, <1>4, <1>6

-----------------------------------------------------------------------------
(* Type correctness.                                                        *)

(* The registers and the tables keep their types.                           *)
LEMMA SoftwareTypeStep == TypeOK /\ Software => TypeOK'
<1> SUFFICES ASSUME TypeOK, Software PROVE TypeOK'
  OBVIOUS
<1> USE DEF TypeOK, regVars, routeVars
<1>1. ASSUME NEW ch \in Channel, NEW address \in Event \cup {NULL, Unmodelled},
             WriteEEP(ch, address)
      PROVE  TypeOK'
  <2>1. evt_to_ch' \in [Event -> SUBSET Channel]
    BY <1>1 DEF WriteEEP, RegwSideeffectsEEP, FedBy
  <2>2. cut' \subseteq Fixed
    BY <1>1 DEF WriteEEP
  <2> QED BY <1>1, <2>1, <2>2 DEF WriteEEP
<1>2. ASSUME NEW ch \in Channel, NEW address \in Task \cup {NULL, Unmodelled},
             WriteTEP(ch, address)
      PROVE  TypeOK'
  BY <1>2 DEF WriteTEP, FindTask
<1>3. ASSUME NEW ch \in Channel, NEW address \in Task \cup {NULL, Unmodelled},
             WriteFORK(ch, address)
      PROVE  TypeOK'
  BY <1>3 DEF WriteFORK, FindTask
<1>4. ASSUME NEW ch \in Channel, WriteCHENSET(ch) \/ WriteCHENCLR(ch) PROVE TypeOK'
  BY <1>4 DEF WriteCHENSET, WriteCHENCLR
<1>5. ASSUME NEW g \in Group, NEW channels \in SUBSET Channel, WriteCHG(g, channels)
      PROVE  TypeOK'
  BY <1>5 DEF WriteCHG
<1>6. ASSUME NEW g \in Group, NEW enable \in BOOLEAN, WriteTASKS_CHG(g, enable)
      PROVE  TypeOK'
  BY <1>6 DEF WriteTASKS_CHG, ChgEnDis
<1> QED BY <1>1, <1>2, <1>3, <1>4, <1>5, <1>6 DEF Software

(* And so do the queue and the calls in progress.                           *)
LEMMA DispatchTypeStep ==
  ASSUME TypeOK, QueueIsOwed, Dispatch \/ \E event \in Event : PeripheralSignals(event)
  PROVE  TypeOK'
<1> USE DEF regVars, routeVars
<1>1. SUFFICES /\ q' \in Seq(Task \cup {NULL}) /\ frames' \in Seq(Frame)
               /\ UNCHANGED <<regVars, routeVars>> /\ CHEN' \subseteq Channel
  BY DEF TypeOK
<1>2. ASSUME NEW event \in Event, NrfPpiEvent(event), UNCHANGED <<regVars, routeVars, CHEN>>
      PROVE  /\ q' \in Seq(Task \cup {NULL}) /\ frames' \in Seq(Frame)
             /\ UNCHANGED <<regVars, routeVars>> /\ CHEN' \subseteq Channel
  <2>1. CASE ChMask(event) = {}
    BY <1>2, <2>1 DEF NrfPpiEvent, TypeOK
  <2>2. CASE ChMask(event) # {}
    BY <1>2, <2>2, Signalled, Enqueued DEF TypeOK
  <2> QED BY <2>1, <2>2
<1>3. ASSUME NEW i \in DOMAIN q, CallTask(i)
      PROVE  /\ q' \in Seq(Task \cup {NULL}) /\ frames' \in Seq(Frame)
             /\ UNCHANGED <<regVars, routeVars>> /\ CHEN' \subseteq Channel
  <2>1. q' \in Seq(Task \cup {NULL})
    BY <1>3 DEF CallTask, TypeOK
  <2> QED BY <1>3, <2>1, Called DEF CallTask, TypeOK
<1>4. ASSUME NEW t \in Task, TaskReturns(t)
      PROVE  /\ q' \in Seq(Task \cup {NULL}) /\ frames' \in Seq(Frame)
             /\ UNCHANGED <<regVars, routeVars>> /\ CHEN' \subseteq Channel
  BY <1>4, Returned DEF TaskReturns, Running, TypeOK
<1>5. ASSUME NEW g \in Group, NEW enable \in BOOLEAN, ChgTaskReturns(g, enable)
      PROVE  /\ q' \in Seq(Task \cup {NULL}) /\ frames' \in Seq(Frame)
             /\ UNCHANGED <<regVars, routeVars>> /\ CHEN' \subseteq Channel
  <2>1. CHEN' \subseteq Channel
    BY <1>5 DEF ChgTaskReturns, ChgEnDis, TypeOK
  <2> QED BY <1>5, <2>1, Returned DEF ChgTaskReturns, Running, TypeOK
<1>6. CASE DequeueDone
  <2>1. frames' \in Seq(Frame)
    BY <1>6, SubSeqProperties DEF DequeueDone, LoopIsOver, Busy, top, TypeOK
  <2> QED BY <1>6, <2>1 DEF DequeueDone, TypeOK
<1> QED BY <1>2, <1>3, <1>4, <1>5, <1>6 DEF Dispatch, PeripheralSignals, TaskSignals

-----------------------------------------------------------------------------
(* The queue.                                                               *)

(* No step of the software concerns the queue.                              *)
LEMMA SoftwareIsApart == Software => UNCHANGED <<q, frames>>
BY DEF Software, WriteEEP, WriteTEP, WriteFORK, WriteCHENSET, WriteCHENCLR, WriteCHG, WriteTASKS_CHG

(* When a loop is over, no event in progress is owed a task.                *)
LEMMA NothingIsOwed ==
  ASSUME TypeOK, QueueIsOwed, LoopIsOver
  PROVE  /\ \A i \in DOMAIN q : q[i] = NULL
         /\ \A k \in DOMAIN frames : frames[k].owed = {}
<1>1. top \in Nat /\ DOMAIN q \subseteq Nat /\ top \in DOMAIN frames
      /\ \A k \in DOMAIN frames : frames[k] \in Frame
  BY DEF TypeOK, top, LoopIsOver, Busy
<1>2. \A i \in DOMAIN q : q[i] = NULL
  BY <1>1 DEF LoopIsOver, QueueIsOwed, Frame
<1>3. \A t \in Task : t \notin Pending(q)
  BY <1>2 DEF Pending
<1>4. \A k \in DOMAIN frames : frames[k].owed \subseteq Task
  BY <1>1 DEF Frame
<1> QED BY <1>2, <1>3, <1>4 DEF QueueIsOwed, OwedIsQueued

(* Every step keeps the queue in accord with what is owed.                  *)
LEMMA QueueStep ==
  ASSUME TypeOK, QueueIsOwed, [Next]_vars
  PROVE  QueueIsOwed'
<1>1. ASSUME UNCHANGED <<q, frames>> PROVE QueueIsOwed'
  BY <1>1 DEF QueueIsOwed, QueuedByOne, OwedIsQueued, Pending, Busy, top
<1>2. ASSUME NEW event \in Event, NrfPpiEvent(event) PROVE QueueIsOwed'
  <2>1. CASE ChMask(event) = {}
    BY <1>1, <1>2, <2>1 DEF NrfPpiEvent
  <2>2. CASE ChMask(event) # {}
    <3>1. /\ q' \in Seq(Task \cup {NULL})
          /\ \A t \in Task : t \in Pending(q)' <=> t \in Pending(q) \/ t \in Asked(ChMask(event))
          /\ \A i, j \in DOMAIN q' : i # j /\ q'[i] = q'[j] => q'[i] = NULL
      BY <1>2, <2>2, Signalled, Enqueued
    <3>2. /\ DOMAIN frames = 1 .. Len(frames) /\ Len(frames) \in Nat
          /\ DOMAIN frames' = 1 .. Len(frames) + 1 /\ Len(frames') = Len(frames) + 1
          /\ \A k \in DOMAIN frames : frames'[k] = frames[k]
          /\ frames'[Len(frames) + 1].next = 1
          /\ frames'[Len(frames) + 1].owed = Asked(ChMask(event))
          /\ frames'[Len(frames) + 1].queued = Asked(ChMask(event)) \ Pending(q)
      BY <1>2, <2>2, Signalled
    <3> DEFINE n == Len(frames) + 1
    <3>5. /\ DOMAIN frames' = DOMAIN frames \cup {n} /\ n \notin DOMAIN frames
          /\ \A k \in DOMAIN frames : k <= n /\ k \in DOMAIN frames'
          /\ n \in DOMAIN frames' /\ n <= n
      BY <3>2
    <3> HIDE DEF n
    <3>6. /\ \A k \in DOMAIN frames : frames'[k] = frames[k]
          /\ frames'[n].owed = Asked(ChMask(event))
          /\ frames'[n].queued = Asked(ChMask(event)) \ Pending(q)
      BY <3>2 DEF n
    <3>3. ASSUME NEW t \in Task
          PROVE  (\E k \in DOMAIN frames' : t \in frames'[k].queued)
                 <=> t \in Pending(q) \/ t \in Asked(ChMask(event))
      BY <3>5, <3>6 DEF QueueIsOwed
    <3>7. QueuedByOne'
      <4>1. \A t \in Task, k \in DOMAIN frames : t \in frames[k].queued => t \notin frames'[n].queued
        BY <3>6 DEF QueueIsOwed
      <4> QED BY <4>1, <3>5, <3>6 DEF QueueIsOwed, QueuedByOne
    <3>8. OwedIsQueued'
      <4> SUFFICES ASSUME NEW t \in Task, NEW j \in DOMAIN frames', t \in frames'[j].owed
                   PROVE  \E k \in DOMAIN frames' : k <= j /\ t \in frames'[k].queued
        BY DEF OwedIsQueued
      <4>1. CASE j \in DOMAIN frames
        BY <4>1, <3>5, <3>6 DEF QueueIsOwed, OwedIsQueued
      <4>2. CASE j = n /\ t \in Pending(q)
        BY <4>2, <3>5, <3>6 DEF QueueIsOwed
      <4>3. CASE j = n /\ t \notin Pending(q)
        BY <4>3, <3>5, <3>6
      <4> QED BY <3>5, <4>1, <4>2, <4>3
    <3>4. \A i \in DOMAIN q' : ~(i < frames'[top'].next)
      BY <3>1, <3>2 DEF top
    <3> QED BY <3>1, <3>3, <3>4, <3>7, <3>8 DEF QueueIsOwed
  <2> QED BY <2>1, <2>2
<1>3. ASSUME NEW n \in DOMAIN q, CallTask(n) PROVE QueueIsOwed'
  <2>1. /\ q[n] \in Task /\ Busy /\ top \in DOMAIN frames
        /\ DOMAIN frames' = DOMAIN frames /\ Len(frames') = Len(frames)
        /\ \A k \in DOMAIN frames : /\ frames'[k].owed = frames[k].owed \ {q[n]}
                                    /\ frames'[k].queued = frames[k].queued \ {q[n]}
        /\ frames'[top].next = n + 1
    BY <1>3, Called
  <2>2. /\ DOMAIN q' = DOMAIN q /\ q'[n] = NULL
        /\ \A i \in DOMAIN q : i # n => q'[i] = q[i]
        /\ DOMAIN q \subseteq Nat
    BY <1>3 DEF CallTask, TypeOK
  <2>3. \A i, j \in DOMAIN q' : i # j /\ q'[i] = q'[j] => q'[i] = NULL
    BY <2>2 DEF QueueIsOwed
  <2>4. ASSUME NEW i \in DOMAIN q', i < frames'[top'].next PROVE q'[i] = NULL
    <3>1. i \in DOMAIN q /\ i \in Nat /\ n \in Nat /\ i <= n
      BY <2>1, <2>2, <2>4 DEF top
    <3>2. frames[top].next \in Nat /\ frames[top].next <= n
      <4>1. frames[top] \in Frame
        BY <2>1 DEF TypeOK
      <4> QED BY <1>3, <4>1 DEF Frame, CallTask, IsNextSlot
    <3>3. CASE i = n
      BY <2>2, <3>3
    <3>4. CASE i < frames[top].next
      BY <2>1, <2>2, <3>1, <3>4 DEF QueueIsOwed
    <3>5. CASE frames[top].next <= i /\ i < n
      BY <1>3, <2>2, <3>1, <3>5 DEF CallTask, IsNextSlot
    <3> QED BY <3>1, <3>2, <3>3, <3>4, <3>5
  <2>5. ASSUME NEW t \in Task PROVE t \in Pending(q)' <=> t \in Pending(q) /\ t # q[n]
    <3>1. t \in Pending(q) <=> \E i \in DOMAIN q : q[i] = t
      BY PendingAreTasks
    <3>2. t \in Pending(q)' <=> \E i \in DOMAIN q' : q'[i] = t
      BY TaskAssumption DEF Pending
    <3>3. q[n] # NULL /\ t # NULL
      BY <2>1, TaskAssumption
    <3>4. \A i \in DOMAIN q : i # n => q[i] # q[n] \/ q[i] = NULL
      BY DEF QueueIsOwed
    <3> QED BY <2>2, <3>1, <3>2, <3>3, <3>4
  <2>6. \A t \in Task : t \in Pending(q)' <=> \E k \in DOMAIN frames' : t \in frames'[k].queued
    BY <2>1, <2>5 DEF QueueIsOwed
  <2>7. QueuedByOne' /\ OwedIsQueued'
    BY <2>1 DEF QueueIsOwed, QueuedByOne, OwedIsQueued
  <2> QED BY <2>3, <2>4, <2>6, <2>7 DEF QueueIsOwed
<1>4. ASSUME Busy, Returns, q' = q PROVE QueueIsOwed'
  <2>1. /\ top \in DOMAIN frames
        /\ DOMAIN frames' = DOMAIN frames /\ Len(frames') = Len(frames)
        /\ \A k \in DOMAIN frames : /\ frames'[k].owed = frames[k].owed
                                    /\ frames'[k].queued = frames[k].queued
                                    /\ frames'[k].next = frames[k].next
    BY <1>4, Returned
  <2>2. /\ \A t \in Task : t \in Pending(q)' <=> \E k \in DOMAIN frames' : t \in frames'[k].queued
        /\ \A i, j \in DOMAIN q' : i # j /\ q'[i] = q'[j] => q'[i] = NULL
    BY <1>4, <2>1 DEF QueueIsOwed, Pending
  <2>3. \A i \in DOMAIN q' : i < frames'[top'].next => q'[i] = NULL
    BY <1>4, <2>1 DEF QueueIsOwed, top
  <2>4. QueuedByOne' /\ OwedIsQueued'
    BY <2>1 DEF QueueIsOwed, QueuedByOne, OwedIsQueued
  <2> QED BY <2>2, <2>3, <2>4 DEF QueueIsOwed
<1>5. CASE DequeueDone
  <2>1. \A k \in DOMAIN frames : frames[k].owed = {}
    BY <1>5, NothingIsOwed DEF DequeueDone
  <2>2. frames \in Seq(Frame) /\ Len(frames) # 0 /\ Len(frames) \in Nat
    BY <1>5 DEF DequeueDone, LoopIsOver, Busy, TypeOK
  <2>3. \A k \in DOMAIN frames' : k \in DOMAIN frames /\ frames'[k] = frames[k]
    BY <1>5, <2>2, SubSeqProperties DEF DequeueDone, top
  <2>4. q' = <<>> /\ DOMAIN q' = {}
    BY <1>5 DEF DequeueDone
  <2>5. \A t \in Task : t \notin Pending(q) /\ t \notin Pending(q)'
    <3>1. \A i \in DOMAIN q : q[i] = NULL
      BY <1>5, NothingIsOwed DEF DequeueDone
    <3> QED BY <2>4, <3>1 DEF Pending
  <2>6. \A t \in Task : \A k \in DOMAIN frames : t \notin frames[k].queued
    BY <2>5 DEF QueueIsOwed
  <2>7. QueuedByOne' /\ OwedIsQueued'
    BY <2>1, <2>3, <2>6 DEF QueuedByOne, OwedIsQueued
  <2> QED BY <2>3, <2>4, <2>5, <2>6, <2>7 DEF QueueIsOwed
<1>6. ASSUME Dispatch PROVE QueueIsOwed'
  BY <1>2, <1>3, <1>4, <1>5, <1>6
     DEF Dispatch, TaskSignals, TaskReturns, ChgTaskReturns, Running
<1>7. CASE Next
  BY <1>1, <1>2, <1>6, <1>7, SoftwareIsApart DEF Next, PeripheralSignals
<1>8. CASE UNCHANGED vars
  BY <1>1, <1>8 DEF vars
<1> QED BY <1>7, <1>8

-----------------------------------------------------------------------------
(* The theorems.                                                            *)

(* The two invariants, which need each other, hold in every state.          *)
LEMMA QueueInvariant == Spec => [](TypeOK /\ QueueIsOwed)
<1>1. Init => TypeOK /\ QueueIsOwed
  <2> SUFFICES ASSUME Init PROVE TypeOK /\ QueueIsOwed
    OBVIOUS
  <2>1. TypeOK
    <3>1. q \in Seq(Task \cup {NULL}) /\ frames \in Seq(Frame)
      BY EmptySeq DEF Init
    <3>2. /\ evt_to_ch \in [Event -> SUBSET Channel]
          /\ tep_f \in [Channel -> Task \cup {NULL}]
          /\ fork_tep_f \in [Channel -> Task \cup {NULL}]
      BY ChannelAssumption DEF Init
    <3>3. /\ EEP \in [Channel -> Event \cup {NULL, Unmodelled}]
          /\ TEP \in [Channel -> Task \cup {NULL, Unmodelled}]
          /\ FORK \in [Channel -> Task \cup {NULL, Unmodelled}]
          /\ CHEN \subseteq Channel /\ cut \subseteq Fixed
          /\ CHG \in [Group -> SUBSET Channel]
      BY DEF Init
    <3> QED BY <3>1, <3>2, <3>3 DEF TypeOK
  <2>2. DOMAIN q = {} /\ DOMAIN frames = {} /\ ~Busy
    BY DEF Init, Busy
  <2> QED BY <2>1, <2>2 DEF QueueIsOwed, QueuedByOne, OwedIsQueued, Pending
<1>2. TypeOK /\ QueueIsOwed /\ [Next]_vars => (TypeOK /\ QueueIsOwed)'
  <2> SUFFICES ASSUME TypeOK, QueueIsOwed, [Next]_vars PROVE TypeOK' /\ QueueIsOwed'
    OBVIOUS
  <2>1. ASSUME Next PROVE TypeOK'
    <3>1. CASE Software
      BY <3>1, SoftwareTypeStep
    <3>2. CASE Dispatch \/ \E event \in Event : PeripheralSignals(event)
      BY <3>2, DispatchTypeStep
    <3> QED BY <2>1, <3>1, <3>2 DEF Next
  <2>2. ASSUME UNCHANGED vars PROVE TypeOK'
    <3>1. UNCHANGED <<EEP, TEP, FORK, CHG, cut, CHEN, evt_to_ch, tep_f, fork_tep_f, q, frames>>
      BY <2>2 DEF vars, regVars, routeVars
    <3> QED BY <3>1 DEF TypeOK
  <2> QED BY <2>1, <2>2, QueueStep
<1> QED BY <1>1, <1>2, PTL DEF Spec

(* The registers, the tables, the queue and the call stack keep their       *)
(* types: the queue never holds anything but modelled tasks (find_task).    *)
THEOREM PpiTypeCorrect == Spec => []TypeOK
BY QueueInvariant, PTL

(* nrf_ppi_event() returns with all the tasks of its event called, although *)
(* the loop of a nested event serves, and empties, the queue of the outer   *)
(* one (nrf_ppi_dequeue_all_tasks).                                         *)
THEOREM EveryEventIsServed == Spec => []EventIsServed
<1>1. TypeOK /\ QueueIsOwed => EventIsServed
  BY NothingIsOwed DEF EventIsServed, LoopIsOver, Busy, top, TypeOK
<1> QED BY <1>1, QueueInvariant, PTL

(* A call of a task is the one that one event in progress queued and has    *)
(* not had, and that event is the outermost of those that it settles        *)
(* (nrf_ppi_enqueue_task).                                                  *)
THEOREM TasksAreCalledOnce == Spec => OncePerEvent
<1> DEFINE Settled(t) == \E k \in DOMAIN frames :
                            /\ t \in frames[k].queued
                            /\ \A j \in DOMAIN frames : t \in frames[j].owed => k <= j
<1>1. ASSUME TypeOK, QueueIsOwed, NEW i \in DOMAIN q, CallTask(i)
      PROVE  Settled(q[i])
  <2>1. q[i] \in Task
    BY <1>1, Called
  <2>2. q[i] \in Pending(q)
    BY <1>1, <2>1, PendingAreTasks
  <2>3. PICK k \in DOMAIN frames : q[i] \in frames[k].queued
    BY <1>1, <2>1, <2>2 DEF QueueIsOwed
  <2>4. \A j \in DOMAIN frames : q[i] \in frames[j].owed => k <= j
    BY <1>1, <2>1, <2>3 DEF QueueIsOwed, OwedIsQueued, QueuedByOne
  <2> QED BY <2>3, <2>4
<1>2. TypeOK /\ QueueIsOwed => [\A i \in DOMAIN q : CallTask(i) => Settled(q[i])]_vars
  BY <1>1
<1> QED BY <1>2, QueueInvariant, PTL DEF OncePerEvent

(* The side effects of the register writes keep the routing tables equal to *)
(* the registers, and the pre-programmed channels as they were set up until *)
(* their EEP is written: then, and for good, no event feeds them.           *)
THEOREM RoutesAreRight == Spec => []RoutesFollowRegisters
<1>1. Init => RoutesFollowRegisters
  BY ChannelAssumption, TaskAssumption DEF Init, RoutesFollowRegisters
<1>2. TypeOK /\ RoutesFollowRegisters /\ [Next]_vars => RoutesFollowRegisters'
  <2> SUFFICES ASSUME TypeOK, RoutesFollowRegisters, [Next]_vars PROVE RoutesFollowRegisters'
    OBVIOUS
  <2>1. ASSUME NEW ch \in Channel, NEW address \in Event \cup {NULL, Unmodelled},
               WriteEEP(ch, address)
        PROVE  RoutesFollowRegisters'
    <3>1. /\ EEP' = [EEP EXCEPT ![ch] = address] /\ cut' = cut \cup ({ch} \cap Fixed)
          /\ UNCHANGED <<TEP, FORK, tep_f, fork_tep_f>>
      BY <2>1 DEF WriteEEP
    <3>2. \A c \in Channel, e \in Event :
             c \in evt_to_ch'[e]
               <=> \/ c # ch /\ c \in evt_to_ch[e]
                   \/ c = ch /\ ch \notin Fixed /\ address = e
      <4>1. \A e \in Event : evt_to_ch'[e] = (evt_to_ch[e] \ {ch}) \cup FedBy(e, ch)
        BY <2>1 DEF WriteEEP, RegwSideeffectsEEP
      <4>2. EEP'[ch] = address
        BY <3>1 DEF TypeOK
      <4>3. \A e \in Event : FedBy(e, ch) = IF ch \notin Fixed /\ address = e THEN {ch} ELSE {}
        BY <4>2 DEF FedBy, Programmable
      <4> QED BY <4>1, <4>3
    <3>3. \A c \in Channel, e \in Event :
             c \in evt_to_ch'[e] <=> IF c \in Fixed THEN e = FixedEvent[c] /\ c \notin cut'
                                                    ELSE e = EEP'[c]
      <4> SUFFICES ASSUME NEW c \in Channel, NEW e \in Event
                   PROVE  c \in evt_to_ch'[e] <=> IF c \in Fixed THEN e = FixedEvent[c] /\ c \notin cut'
                                                                 ELSE e = EEP'[c]
        OBVIOUS
      <4>1. CASE c = ch
        <5>1. EEP'[ch] = address /\ (ch \in Fixed => ch \in cut')
          BY <3>1 DEF TypeOK
        <5>2. c \in evt_to_ch'[e] <=> ch \notin Fixed /\ address = e
          BY <3>2, <4>1
        <5> QED BY <4>1, <5>1, <5>2
      <4>2. CASE c # ch
        <5>1. EEP'[c] = EEP[c] /\ (c \in cut' <=> c \in cut)
          BY <3>1, <4>2 DEF TypeOK
        <5>2. c \in evt_to_ch'[e] <=> c \in evt_to_ch[e]
          BY <3>2, <4>2
        <5> QED BY <5>1, <5>2 DEF RoutesFollowRegisters
      <4> QED BY <4>1, <4>2
    <3>4. \A c \in Channel, t \in Task :
             /\ tep_f'[c] = t <=> t = IF c \in Fixed THEN FixedTask[c] ELSE TEP'[c]
             /\ fork_tep_f'[c] = t <=> t = FORK'[c]
      BY <3>1 DEF RoutesFollowRegisters
    <3> QED BY <3>3, <3>4 DEF RoutesFollowRegisters
  <2>2. ASSUME NEW ch \in Channel, NEW address \in Task \cup {NULL, Unmodelled},
               WriteTEP(ch, address)
        PROVE  RoutesFollowRegisters'
    <3>1. /\ TEP' = [TEP EXCEPT ![ch] = address]
          /\ tep_f' = [tep_f EXCEPT ![ch] = IF ch \in Programmable THEN FindTask(address) ELSE tep_f[ch]]
          /\ UNCHANGED <<EEP, FORK, cut, evt_to_ch, fork_tep_f>>
      BY <2>2 DEF WriteTEP
    <3>2. \A t \in Task : FindTask(address) = t <=> t = address
      BY TaskAssumption DEF FindTask
    <3>3. ASSUME NEW c \in Channel, NEW t \in Task
          PROVE  tep_f'[c] = t <=> t = IF c \in Fixed THEN FixedTask[c] ELSE TEP'[c]
      <4>1. CASE c # ch
        BY <3>1, <4>1 DEF RoutesFollowRegisters, TypeOK
      <4>2. CASE c = ch /\ c \in Fixed
        BY <3>1, <4>2 DEF RoutesFollowRegisters, TypeOK, Programmable
      <4>3. CASE c = ch /\ c \notin Fixed
        BY <3>1, <3>2, <4>3 DEF TypeOK, Programmable
      <4> QED BY <4>1, <4>2, <4>3
    <3> QED BY <3>1, <3>3 DEF RoutesFollowRegisters
  <2>3. ASSUME NEW ch \in Channel, NEW address \in Task \cup {NULL, Unmodelled},
               WriteFORK(ch, address)
        PROVE  RoutesFollowRegisters'
    BY <2>3, TaskAssumption DEF WriteFORK, FindTask, RoutesFollowRegisters, TypeOK, Programmable
  <2>4. ASSUME UNCHANGED <<EEP, TEP, FORK, cut, routeVars>> PROVE RoutesFollowRegisters'
    BY <2>4 DEF routeVars, RoutesFollowRegisters
  <2>5. CASE Dispatch \/ (\E event \in Event : PeripheralSignals(event)) \/ UNCHANGED vars
    BY <2>4, <2>5 DEF Dispatch, PeripheralSignals, CallTask, TaskReturns, TaskSignals,
       ChgTaskReturns, DequeueDone, vars, regVars
  <2>6. CASE Software
    BY <2>1, <2>2, <2>3, <2>4, <2>6 DEF Software, WriteCHENSET, WriteCHENCLR, WriteCHG,
       WriteTASKS_CHG, regVars
  <2> QED BY <2>5, <2>6 DEF Next
<1> QED BY <1>1, <1>2, PpiTypeCorrect, PTL DEF Spec

-----------------------------------------------------------------------------
(* The GPIO and the GPIOTE: the calls that remain to be made.              *)

(* All of them, those after the first, and whether one of them is an "op". *)
Entries(s) == {s[i] : i \in 1 .. Len(s)}
Later(s)   == {s[i] : i \in 2 .. Len(s)}
Has(s, op) == \E e \in Entries(s) : e[1] = op

(* The calls that belong to a write to CONFIG, of which nothing waits      *)
(* behind.                                                                 *)
Ends == {"config", "take"}
EndsAreLast(s) == \A i \in 1 .. Len(s) : s[i][1] \in Ends => i = Len(s)

(* One call or none.                                                        *)
LEMMA OneEntry ==
  /\ Entries(<<>>) = {} /\ Later(<<>>) = {} /\ <<>> \in Seq(IoEntry) /\ EndsAreLast(<<>>)
  /\ \A x \in IoEntry :
       /\ <<x>> \in Seq(IoEntry) /\ <<x>> # <<>> /\ Head(<<x>>) = x
       /\ Entries(<<x>>) = {x} /\ Later(<<x>>) = {} /\ EndsAreLast(<<x>>)
BY DEF Entries, Later, EndsAreLast

(* The first call and the rest.                                             *)
LEMMA TakenOff ==
  ASSUME NEW s \in Seq(IoEntry), s # <<>>
  PROVE  /\ Head(s) \in IoEntry /\ Tail(s) \in Seq(IoEntry)
         /\ Entries(s) = {Head(s)} \union Entries(Tail(s)) /\ Later(s) = Entries(Tail(s))
         /\ Later(Tail(s)) \subseteq Entries(Tail(s))
<1>1. Len(s) \in Nat \ {0} /\ Head(s) = s[1] /\ s[1] \in IoEntry
  OBVIOUS
<1>2. Tail(s) \in Seq(IoEntry) /\ Len(Tail(s)) = Len(s) - 1
  OBVIOUS
<1>3. \A i \in 1 .. Len(s) - 1 : Tail(s)[i] = s[i + 1]
  OBVIOUS
<1>4. Later(s) \subseteq Entries(Tail(s))
  <2>1. ASSUME NEW i \in 2 .. Len(s) PROVE s[i] \in Entries(Tail(s))
    <3>1. i - 1 \in 1 .. Len(s) - 1 /\ Tail(s)[i - 1] = s[i]
      BY <1>1, <1>3
    <3> QED BY <1>2, <3>1 DEF Entries
  <2> QED BY <2>1 DEF Later
<1>5. Entries(Tail(s)) \subseteq Later(s)
  <2>1. ASSUME NEW i \in 1 .. Len(s) - 1 PROVE Tail(s)[i] \in Later(s)
    <3>1. i + 1 \in 2 .. Len(s)
      BY <1>1
    <3> QED BY <1>3, <3>1 DEF Later
  <2> QED BY <1>2, <2>1 DEF Entries
<1>6. Entries(s) = {s[1]} \union Later(s)
  <2>1. 1 .. Len(s) = {1} \union (2 .. Len(s))
    BY <1>1
  <2> QED BY <2>1 DEF Entries, Later
<1>7. Later(Tail(s)) \subseteq Entries(Tail(s))
  <2>1. 2 .. Len(Tail(s)) \subseteq 1 .. Len(Tail(s))
    BY <1>1, <1>2
  <2> QED BY <2>1 DEF Later, Entries
<1> QED BY <1>1, <1>2, <1>4, <1>5, <1>6, <1>7

(* Calls that are put in front of others.                                   *)
LEMMA Joined ==
  ASSUME NEW p \in Seq(IoEntry), NEW t \in Seq(IoEntry)
  PROVE  /\ p \o t \in Seq(IoEntry)
         /\ Entries(p \o t) = Entries(p) \union Entries(t)
         /\ p = <<>> => p \o t = t
         /\ p # <<>> => /\ p \o t # <<>> /\ Head(p \o t) = Head(p)
                        /\ Later(p \o t) = Later(p) \union Entries(t)
<1>1. /\ p \o t \in Seq(IoEntry) /\ Len(p) \in Nat /\ Len(t) \in Nat
      /\ Len(p \o t) = Len(p) + Len(t)
      /\ \A i \in 1 .. Len(p) + Len(t) : (p \o t)[i] = IF i <= Len(p) THEN p[i] ELSE t[i - Len(p)]
  OBVIOUS
<1>2. \A i \in 1 .. Len(p) : i \in 1 .. Len(p \o t) /\ (p \o t)[i] = p[i]
  BY <1>1
<1>3. \A i \in 1 .. Len(t) : Len(p) + i \in 1 .. Len(p \o t) /\ (p \o t)[Len(p) + i] = t[i]
  BY <1>1
<1>4. \A i \in 1 .. Len(p \o t) : i \in 1 .. Len(p) \/ (i - Len(p) \in 1 .. Len(t) /\ (p \o t)[i] = t[i - Len(p)])
  BY <1>1
<1>5. Entries(p \o t) = Entries(p) \union Entries(t)
  <2>1. Entries(p) \subseteq Entries(p \o t)
    BY <1>2 DEF Entries
  <2>2. Entries(t) \subseteq Entries(p \o t)
    BY <1>3 DEF Entries
  <2>3. Entries(p \o t) \subseteq Entries(p) \union Entries(t)
    BY <1>2, <1>4 DEF Entries
  <2> QED BY <2>1, <2>2, <2>3
<1>6. p = <<>> => p \o t = t
  OBVIOUS
<1>7. ASSUME p # <<>> PROVE p \o t # <<>> /\ Head(p \o t) = Head(p)
  BY <1>1, <1>7
<1>8. ASSUME p # <<>> PROVE Later(p \o t) = Later(p) \union Entries(t)
  <2>0. Len(p) > 0
    BY <1>8
  <2>1. Later(p) \subseteq Later(p \o t)
    <3>1. 2 .. Len(p) \subseteq 2 .. Len(p \o t) /\ 2 .. Len(p) \subseteq 1 .. Len(p)
      BY <1>1
    <3> QED BY <1>2, <3>1 DEF Later
  <2>2. Entries(t) \subseteq Later(p \o t)
    <3>1. \A i \in 1 .. Len(t) : Len(p) + i \in 2 .. Len(p \o t)
      BY <1>1, <2>0
    <3> QED BY <1>3, <3>1 DEF Later, Entries
  <2>3. Later(p \o t) \subseteq Later(p) \union Entries(t)
    <3>1. \A i \in 2 .. Len(p \o t) : i \in 1 .. Len(p \o t) /\ (i \in 1 .. Len(p) => i \in 2 .. Len(p))
      BY <1>1
    <3> QED BY <1>2, <1>4, <3>1 DEF Later, Entries
  <2> QED BY <2>1, <2>2, <2>3
<1> QED BY <1>1, <1>5, <1>6, <1>7, <1>8

(* A configuration remains the last of the calls.                           *)
LEMMA OrderKept ==
  ASSUME NEW s \in Seq(IoEntry), s # <<>>, EndsAreLast(s)
  PROVE  EndsAreLast(Tail(s)) /\ (Head(s)[1] \in Ends => Tail(s) = <<>>)
<1>1. Len(s) \in Nat \ {0} /\ Head(s) = s[1] /\ Tail(s) \in Seq(IoEntry) /\ Len(Tail(s)) = Len(s) - 1
  OBVIOUS
<1>2. \A i \in 1 .. Len(s) - 1 : i + 1 \in 1 .. Len(s) /\ Tail(s)[i] = s[i + 1]
  OBVIOUS
<1>3. EndsAreLast(Tail(s))
  <2>1. ASSUME NEW i \in 1 .. Len(s) - 1, Tail(s)[i][1] \in Ends PROVE i = Len(s) - 1
    <3>1. i + 1 \in 1 .. Len(s) /\ s[i + 1][1] \in Ends
      BY <1>2, <2>1
    <3>2. i + 1 = Len(s)
      BY <3>1 DEF EndsAreLast
    <3>3. i \in Int
      OBVIOUS
    <3> QED BY <3>2, <3>3
  <2> QED BY <1>1, <2>1 DEF EndsAreLast
<1>4. ASSUME Head(s)[1] \in Ends PROVE Tail(s) = <<>>
  <2>0. 1 \in 1 .. Len(s) /\ s[1][1] \in Ends
    BY <1>1, <1>4
  <2>1. 1 = Len(s)
    BY <2>0 DEF EndsAreLast
  <2>2. \A t \in Seq(IoEntry) : Len(t) = 0 => t = <<>>
    OBVIOUS
  <2>3. Len(Tail(s)) = 0 /\ Tail(s) \in Seq(IoEntry)
    <3>1. Len(Tail(s)) = 1 - 1 /\ Tail(s) \in Seq(IoEntry)
      BY <1>1, <2>1, Zenon
    <3> QED BY <3>1
  <2> QED BY <2>2, <2>3
<1> QED BY <1>3, <1>4

(* It stays the last when other calls are put in front.                    *)
LEMMA OrderJoined ==
  ASSUME NEW p \in Seq(IoEntry), NEW t \in Seq(IoEntry), EndsAreLast(t),
         \A e \in Entries(p) : e[1] \notin Ends
  PROVE  EndsAreLast(p \o t)
<1>1. /\ p \o t \in Seq(IoEntry) /\ Len(p) \in Nat /\ Len(t) \in Nat
      /\ Len(p \o t) = Len(p) + Len(t)
      /\ \A i \in 1 .. Len(p) + Len(t) : (p \o t)[i] = IF i <= Len(p) THEN p[i] ELSE t[i - Len(p)]
  OBVIOUS
<1>2. ASSUME NEW i \in 1 .. Len(p) + Len(t), (p \o t)[i][1] \in Ends PROVE i = Len(p) + Len(t)
  <2>1. CASE i <= Len(p)
    <3>1. i \in 1 .. Len(p) /\ (p \o t)[i] = p[i]
      BY <1>1, <2>1
    <3> QED BY <1>2, <3>1 DEF Entries
  <2>2. CASE i > Len(p)
    <3>1. i - Len(p) \in 1 .. Len(t) /\ (p \o t)[i] = t[i - Len(p)]
      BY <1>1, <2>2
    <3>2. i - Len(p) = Len(t)
      BY <1>2, <3>1 DEF EndsAreLast
    <3> QED BY <1>1, <3>2
  <2> QED BY <1>1, <2>1, <2>2
<1> QED BY <1>1, <1>2 DEF EndsAreLast

(* What remains when the first call has been made and has left "p".         *)
LEMMA NextCalls ==
  ASSUME NEW s \in Seq(IoEntry), s # <<>>, EndsAreLast(s),
         NEW p \in Seq(IoEntry), \A e \in Entries(p) : e[1] \notin Ends,
         NEW t, t = p \o Tail(s)
  PROVE  /\ t \in Seq(IoEntry) /\ EndsAreLast(t)
         /\ Entries(t) = Entries(p) \union Entries(Tail(s))
         /\ Later(t) \subseteq Entries(Tail(s)) \union Later(p)
         /\ t # <<>> => \/ p # <<>> /\ Head(t) = Head(p)
                        \/ p = <<>> /\ Head(t) \in Entries(Tail(s))
         /\ \A op : Has(s, op) /\ Head(s)[1] # op => Has(t, op)
<1>1. /\ Head(s) \in IoEntry /\ Tail(s) \in Seq(IoEntry)
      /\ Entries(s) = {Head(s)} \union Entries(Tail(s)) /\ Later(Tail(s)) \subseteq Entries(Tail(s))
  BY TakenOff
<1>2. EndsAreLast(Tail(s))
  BY OrderKept
<1>3. EndsAreLast(p \o Tail(s))
  BY <1>1, <1>2, OrderJoined
<1>4. /\ t \in Seq(IoEntry) /\ Entries(t) = Entries(p) \union Entries(Tail(s))
      /\ p = <<>> => t = Tail(s)
      /\ p # <<>> => t # <<>> /\ Head(t) = Head(p) /\ Later(t) = Later(p) \union Entries(Tail(s))
  BY <1>1, Joined
<1>5. t # <<>> => Head(t) \in Entries(t)
  BY <1>4, TakenOff
<1>6. \A op : Has(s, op) /\ Head(s)[1] # op => Has(t, op)
  BY <1>1, <1>4 DEF Has
<1> QED BY <1>1, <1>3, <1>4, <1>5, <1>6

(* What the calls look like.                                                *)
LEMMA EntryForms ==
  /\ <<"outputs">> \in IoEntry /\ <<"inputs">> \in IoEntry /\ <<"sense">> \in IoEntry
  /\ \A S \in (SUBSET Pins) \ {{}}, V \in SUBSET Pins : <<"propagate", S, V>> \in IoEntry
  /\ \A S \in (SUBSET Pins) \ {{}} : <<"notify", S>> \in IoEntry
  /\ \A n \in Pins, v \in BOOLEAN : <<"drive", n, v>> \in IoEntry
  /\ \A task \in IoTask, ch \in Channels : <<"task", task, ch>> \in IoEntry
  /\ \A op \in Ends, config \in ChannelConfigs : <<op, config>> \in IoEntry
BY DEF IoEntry, Ends

(* What they carry.                                                        *)
LEMMA EntryParts ==
  ASSUME NEW e \in IoEntry
  PROVE  /\ e[1] = "propagate" => e[2] \in (SUBSET Pins) \ {{}} /\ e[3] \in SUBSET Pins
         /\ e[1] = "notify" => e[2] \in (SUBSET Pins) \ {{}}
         /\ e[1] = "drive" => e[2] \in Pins /\ e[3] \in BOOLEAN
         /\ e[1] = "task" => e[2] \in IoTask /\ e[3] \in Channels
         /\ e[1] \in Ends => e[2] \in ChannelConfigs
         /\ e[1] = "inputs" => e = <<"inputs">>
BY DEF IoEntry, Ends

(* A set of pins has a lowest.                                             *)
LEMMA LowestIsIn ==
  ASSUME NEW S \in (SUBSET Pins) \ {{}}
  PROVE  LowestOf(S) \in S
<1>1. S \in SUBSET Nat /\ S # {}
  <2>1. S \subseteq Pins /\ S # {}
    OBVIOUS
  <2>2. Pins \subseteq Nat
    BY PinsAssumption
  <2> QED BY <2>1, <2>2
<1>2. PICK n \in S : \A m \in S : n <= m
  BY <1>1, NatMinimum
<1> QED BY <1>2 DEF LowestOf

(* What the loops and the PPI leave to be called.                           *)
LEMMA LoopCalls ==
  ASSUME NEW e, e[2] # {} => e \in IoEntry
  PROVE  /\ PinLoop(e) \in Seq(IoEntry)
         /\ Entries(PinLoop(e)) = (IF e[2] = {} THEN {} ELSE {e})
         /\ Later(PinLoop(e)) = {}
         /\ PinLoop(e) # <<>> => Head(PinLoop(e)) = e /\ e[2] # {}
BY OneEntry DEF PinLoop

(* The tasks that the PPI calls for an event are calls of tasks.           *)
LEMMA TaskCalls ==
  ASSUME NEW e \in IoEvent
  PROVE  /\ RoutedTasks(e) \in Seq(IoEntry)
         /\ \A x \in Entries(RoutedTasks(e)) : x[1] = "task"
<1>1. ChannelRoutes[e] \in Seq(IoTask \X Channels)
  BY GpioteAssumption
<1>2. PICK l \in Nat : l = Len(ChannelRoutes[e])
  BY <1>1
<1>3. DOMAIN ChannelRoutes[e] = 1 .. l
  BY <1>1, <1>2
<1>4. \A i \in 1 .. l : ChannelRoutes[e][i][1] \in IoTask /\ ChannelRoutes[e][i][2] \in Channels
  BY <1>1, <1>2
<1>5. RoutedTasks(e) = [i \in 1 .. l |-> <<"task", ChannelRoutes[e][i][1], ChannelRoutes[e][i][2]>>]
  BY <1>3 DEF RoutedTasks
<1>6. \A i \in 1 .. l : <<"task", ChannelRoutes[e][i][1], ChannelRoutes[e][i][2]>> \in IoEntry
  BY <1>4, EntryForms
<1>7. RoutedTasks(e) \in Seq(IoEntry) /\ Len(RoutedTasks(e)) = l
  BY <1>5, <1>6
<1>8. \A i \in 1 .. l : RoutedTasks(e)[i][1] = "task"
  BY <1>5
<1> QED BY <1>7, <1>8 DEF Entries

(* The wires of an output are driven one after the other.                  *)
LEMMA DriveCalls ==
  ASSUME NEW n \in Pins, NEW v \in BOOLEAN
  PROVE  /\ ShortDrives(n, v) \in Seq(IoEntry) /\ Len(ShortDrives(n, v)) = Len(Shorted[n])
         /\ Entries(ShortDrives(n, v)) = {<<"drive", t, v>> : t \in Entries(Shorted[n])}
<1>1. Shorted[n] \in Seq(Pins)
  BY BoardAssumption
<1>2. PICK l \in Nat : l = Len(Shorted[n])
  BY <1>1
<1>3. DOMAIN Shorted[n] = 1 .. l
  BY <1>1, <1>2
<1>4. ShortDrives(n, v) = [i \in 1 .. l |-> <<"drive", Shorted[n][i], v>>]
  BY <1>3 DEF ShortDrives
<1>5. \A i \in 1 .. l : <<"drive", Shorted[n][i], v>> \in IoEntry
  BY <1>1, <1>2, EntryForms
<1>6. ShortDrives(n, v) \in Seq(IoEntry) /\ Len(ShortDrives(n, v)) = l
  <2>1. PICK f : f = ShortDrives(n, v)
    OBVIOUS
  <2>2. f = [i \in 1 .. l |-> f[i]] /\ \A i \in 1 .. l : f[i] \in IoEntry
    BY <1>4, <1>5, <2>1
  <2>3. f \in [1 .. l -> IoEntry]
    BY <2>2
  <2> QED BY <2>1, <2>3
<1>7. Entries(ShortDrives(n, v)) = {ShortDrives(n, v)[i] : i \in 1 .. l}
  BY <1>6 DEF Entries
<1>8. Entries(Shorted[n]) = {Shorted[n][i] : i \in 1 .. l}
  BY <1>2 DEF Entries
<1> QED BY <1>2, <1>4, <1>6, <1>7, <1>8

-----------------------------------------------------------------------------
(* The levels.                                                             *)

(* The call that is made next; what DETECT and its signal are when they    *)
(* agree with the inputs.                                                  *)
First(op) == io_todo # <<>> /\ Head(io_todo)[1] = op
Sense     == Differing(IN_level, SENSE_inv) \intersect SENSE_mask
Detected  == IF DETECTMODE = "DETECT" THEN DETECT # {} ELSE LDETECT # {}

(* The outputs, the inputs and the port's sensing agree with the           *)
(* configuration and with one another, but for what is about to be         *)
(* evaluated.                                                              *)
OutputsAgree == O_level \subseteq IO_level /\ (~First("outputs") => O_level = Driven)
InputsAgree  == Has(io_todo, "inputs") \/ IN_level = IO_level \intersect EnabledInputs
SenseAgrees  == Has(io_todo, "sense") \/ (DETECT = Sense /\ DETECT_signal = Detected)

(* The inductive invariant of the levels. The outputs are never behind but *)
(* when they are evaluated next; the others can be for as long as they     *)
(* wait to be evaluated.                                                   *)
LevelsInv ==
  /\ IoTypeOK /\ EndsAreLast(io_todo)
  /\ OutputsAgree
  /\ DETECT \subseteq LDETECT
  /\ io_error = "none" => InputsAgree /\ SenseAgrees

(* Nothing waits when nothing remains to be done.                          *)
LEMMA NothingHas == \A op : ~Has(<<>>, op)
BY OneEntry DEF Has

(* Two parts of what an action leaves.                                      *)
LEMMA BothParts ==
  ASSUME NEW a \in Seq(IoEntry), NEW b \in Seq(IoEntry),
         \A e \in Entries(a) : e[1] \notin Ends, \A e \in Entries(b) : e[1] \notin Ends
  PROVE  /\ a \o b \in Seq(IoEntry) /\ Entries(a \o b) = Entries(a) \union Entries(b)
         /\ \A e \in Entries(a \o b) : e[1] \notin Ends
BY Joined

(* Outputs are pins.                                                       *)
LEMMA DrivenPins == Driven \subseteq Pins /\ Dir \subseteq Pins
BY DEF Driven, Dir

(* Out of reset every level is low, and nothing remains to be done.        *)
LEMMA LevelsInitInv == IoInit => LevelsInv
<1> SUFFICES ASSUME IoInit PROVE LevelsInv
  OBVIOUS
<1> USE DEF IoInit
<1>1. IoTypeOK
  BY PinsAssumption, OneEntry DEF IoTypeOK, UnusedChannel, Polarities
<1>2. Driven = {} /\ EndsAreLast(io_todo)
  BY OneEntry DEF Driven, Dir
<1> QED BY <1>1, <1>2 DEF LevelsInv, OutputsAgree, InputsAgree, SenseAgrees, Sense, Detected, Differing

(* nrf_gpio_eval_outputs() has the outputs driven and their changes        *)
(* propagated before anything else.                                        *)
LEMMA EvalOutputsLevels ==
  ASSUME LevelsInv, EvalOutputs
  PROVE  LevelsInv'
<1> USE DEF EvalOutputs, IoOp
<1>1. /\ IoTypeOK /\ io_todo \in Seq(IoEntry) /\ io_todo # <<>> /\ EndsAreLast(io_todo)
      /\ Head(io_todo)[1] = "outputs" /\ O_level \subseteq IO_level
  BY DEF LevelsInv, IoTypeOK, OutputsAgree
<1>2. UNCHANGED <<pinCfg, pinCtl>> /\ Driven' = Driven /\ Dir' = Dir /\ EnabledInputs' = EnabledInputs
  BY DEF pinCfg, pinCtl, Driven, Dir, OutValues, EnabledInputs
<1>3. O_level' = Driven /\ O_level' \subseteq IO_level'
  BY <1>1
<1>4. O_level' \subseteq Pins /\ IO_level' \subseteq Pins
  BY <1>1, DrivenPins DEF IoTypeOK
<1>5. SenseAgrees => Has(io_todo, "sense") \/ (DETECT' = Sense' /\ DETECT_signal' = Detected')
  BY <1>2 DEF SenseAgrees, Sense, Detected, pinSns, pinCfg
<1>6. CASE Driven = O_level
  <2>1. io_todo' = <<>> \o Tail(io_todo) /\ UNCHANGED IO_level
    BY <1>1, <1>6
  <2>2. /\ io_todo' \in Seq(IoEntry) /\ EndsAreLast(io_todo')
        /\ \A op : Has(io_todo, op) /\ op # "outputs" => Has(io_todo', op)
    BY <1>1, <2>1, OneEntry, NextCalls
  <2>3. IoTypeOK'
    BY <1>1, <1>4, <2>2 DEF IoTypeOK, pinCfg, pinCtl, pinSns, gpioteVars
  <2> QED BY <1>2, <1>3, <1>5, <2>1, <2>2, <2>3
           DEF LevelsInv, OutputsAgree, InputsAgree, SenseAgrees, pinSns
<1>7. CASE Driven # O_level
  <2> DEFINE p == <<<<"propagate", Differing(Driven, O_level), Driven>>, <<"inputs">>>>
             x == <<"propagate", Differing(Driven, O_level), Driven>>
  <2>1. io_todo' = p \o Tail(io_todo)
    BY <1>7
  <2>2. Differing(Driven, O_level) \in (SUBSET Pins) \ {{}}
    BY <1>1, <1>7, DrivenPins DEF Differing, IoTypeOK
  <2>3. x \in IoEntry /\ <<"inputs">> \in IoEntry
    BY <2>2, DrivenPins, EntryForms
  <2>4. p \in Seq(IoEntry) /\ Entries(p) = {x, <<"inputs">>}
    BY <2>3 DEF Entries
  <2>5. /\ io_todo' \in Seq(IoEntry) /\ EndsAreLast(io_todo')
        /\ Entries(io_todo') = Entries(p) \union Entries(Tail(io_todo))
        /\ \A op : Has(io_todo, op) /\ op # "outputs" => Has(io_todo', op)
    <3>1. \A e \in Entries(p) : e[1] \notin Ends
      BY <2>4 DEF Ends
    <3> HIDE DEF p
    <3> QED BY <1>1, <2>1, <2>4, <3>1, NextCalls
  <2>6. Has(io_todo', "inputs")
    <3>1. <<"inputs">> \in Entries(io_todo') /\ <<"inputs">>[1] = "inputs"
      BY <2>4, <2>5
    <3> QED BY <3>1 DEF Has
  <2>7. IoTypeOK'
    BY <1>1, <1>4, <2>5 DEF IoTypeOK, pinCfg, pinCtl, pinSns, gpioteVars
  <2> QED BY <1>2, <1>3, <1>5, <2>5, <2>6, <2>7
           DEF LevelsInv, OutputsAgree, InputsAgree, SenseAgrees, pinSns
<1> QED BY <1>6, <1>7

(* What a step that moves no level and no configuration needs.              *)
LEMMA StillLevels ==
  ASSUME LevelsInv, io_todo # <<>>, Head(io_todo)[1] \notin {"outputs", "inputs", "sense"},
         UNCHANGED <<pinCfg, pinCtl, pinIo, pinSns>>, IoTypeOK', EndsAreLast(io_todo'),
         io_error' = "none" => io_error = "none" /\ \A op : Has(io_todo, op) /\ Head(io_todo)[1] # op => Has(io_todo', op)
  PROVE  LevelsInv'
<1>1. /\ Driven' = Driven /\ EnabledInputs' = EnabledInputs /\ Sense' = Sense /\ Detected' = Detected
      /\ UNCHANGED <<O_level, IO_level, IN_level, DETECT, LDETECT, DETECT_signal>>
  BY DEF pinCfg, pinCtl, pinIo, pinSns, Driven, Dir, OutValues, EnabledInputs, Sense, Detected
<1>2. O_level = Driven /\ O_level \subseteq IO_level
  BY DEF LevelsInv, OutputsAgree, First
<1>3. io_error' = "none" => InputsAgree' /\ SenseAgrees'
  BY <1>1 DEF LevelsInv, InputsAgree, SenseAgrees
<1> QED BY <1>1, <1>2, <1>3 DEF LevelsInv, OutputsAgree

(* A change that is propagated leaves the levels to those it drives.       *)
LEMMA PropagateOutputLevels ==
  ASSUME LevelsInv, PropagateOutput
  PROVE  LevelsInv'
<1> USE DEF PropagateOutput, IoOp
<1>1. /\ IoTypeOK /\ io_todo \in Seq(IoEntry) /\ io_todo # <<>> /\ EndsAreLast(io_todo)
      /\ Head(io_todo)[1] = "propagate" /\ Head(io_todo) \in IoEntry
  BY TakenOff DEF LevelsInv, IoTypeOK
<1> DEFINE pins == Head(io_todo)[2]
           values == Head(io_todo)[3]
           n == LowestOf(pins)
           l == PinLoop(<<"propagate", pins \ {n}, values>>)
           p == ShortDrives(n, n \in values) \o l
<1>2. pins \in (SUBSET Pins) \ {{}} /\ values \in SUBSET Pins
  BY <1>1, EntryParts
<1>3. n \in Pins /\ (n \in values) \in BOOLEAN
  BY <1>2, LowestIsIn
<1>4. /\ ShortDrives(n, n \in values) \in Seq(IoEntry)
      /\ \A e \in Entries(ShortDrives(n, n \in values)) : e[1] \notin Ends
  <2> HIDE DEF n, pins
  <2>1. PICK v : v = (n \in values)
    OBVIOUS
  <2>5. v \in BOOLEAN
    BY <1>3, <2>1
  <2>2. \A t : <<"drive", t, v>>[1] \notin Ends
    BY DEF Ends
  <2>3. /\ ShortDrives(n, v) \in Seq(IoEntry)
        /\ Entries(ShortDrives(n, v)) = {<<"drive", t, v>> : t \in Entries(Shorted[n])}
    BY <1>3, <2>5, DriveCalls
  <2>4. \A e \in Entries(ShortDrives(n, v)) : e[1] \notin Ends
    BY <2>2, <2>3
  <2> QED BY <2>1, <2>3, <2>4
<1>5. l \in Seq(IoEntry) /\ \A e \in Entries(l) : e[1] \notin Ends
  <2> DEFINE x == <<"propagate", pins \ {n}, values>>
  <2>1. x[2] = pins \ {n} /\ x[1] = "propagate"
    OBVIOUS
  <2>2. x[2] # {} => x \in IoEntry
    BY <1>2, <2>1, EntryForms
  <2> HIDE DEF x
  <2>3. PinLoop(x) \in Seq(IoEntry) /\ Entries(PinLoop(x)) \subseteq {x}
    BY <2>2, LoopCalls
  <2>4. \A e \in Entries(PinLoop(x)) : e[1] \notin Ends
    BY <2>1, <2>3 DEF Ends
  <2> QED BY <2>3, <2>4 DEF x
<1>6. p \in Seq(IoEntry) /\ \A e \in Entries(p) : e[1] \notin Ends
  <2>1. PICK a : a = ShortDrives(n, n \in values)
    OBVIOUS
  <2> HIDE DEF l
  <2> QED BY <1>4, <1>5, <2>1, BothParts
<1>7. io_todo' = p \o Tail(io_todo)
  OBVIOUS
<1> HIDE DEF p
<1>8. /\ io_todo' \in Seq(IoEntry) /\ EndsAreLast(io_todo')
      /\ \A op : Has(io_todo, op) /\ Head(io_todo)[1] # op => Has(io_todo', op)
  BY <1>1, <1>6, <1>7, NextCalls
<1>9. IoTypeOK'
  BY <1>1, <1>8 DEF IoTypeOK, pinCfg, pinCtl, pinIo, pinSns, gpioteVars
<1> QED BY <1>1, <1>8, <1>9, StillLevels

(* nrf_gpio_eval_input() leaves the outputs alone, and has the inputs      *)
(* evaluated when one changes.                                             *)
LEMMA EvalInputLevels ==
  ASSUME LevelsInv, EvalInput
  PROVE  LevelsInv'
<1> USE DEF EvalInput, IoOp
<1>1. /\ IoTypeOK /\ io_todo \in Seq(IoEntry) /\ io_todo # <<>> /\ EndsAreLast(io_todo)
      /\ Head(io_todo)[1] = "drive" /\ Head(io_todo) \in IoEntry
      /\ O_level = Driven /\ O_level \subseteq IO_level
  BY TakenOff DEF LevelsInv, IoTypeOK, OutputsAgree, First
<1>2. Head(io_todo)[2] \in Pins
  BY <1>1, EntryParts
<1>3. CASE Head(io_todo)[2] \in Dir \/ (Head(io_todo)[2] \in IO_level) = Head(io_todo)[3]
  <2>1. io_todo' = <<>> \o Tail(io_todo) /\ UNCHANGED IO_level
    BY <1>1, <1>3
  <2>2. /\ io_todo' \in Seq(IoEntry) /\ EndsAreLast(io_todo')
        /\ \A op : Has(io_todo, op) /\ Head(io_todo)[1] # op => Has(io_todo', op)
    BY <1>1, <2>1, OneEntry, NextCalls
  <2>3. IoTypeOK'
    BY <1>1, <2>1, <2>2 DEF IoTypeOK, pinCfg, pinCtl, pinIo, pinSns, gpioteVars
  <2> QED BY <1>1, <2>1, <2>2, <2>3, StillLevels DEF pinIo
<1>4. CASE ~(Head(io_todo)[2] \in Dir \/ (Head(io_todo)[2] \in IO_level) = Head(io_todo)[3])
  <2>1. /\ io_todo' = <<<<"inputs">>>> \o Tail(io_todo)
        /\ IO_level' \subseteq IO_level \union {Head(io_todo)[2]}
        /\ IO_level \ {Head(io_todo)[2]} \subseteq IO_level'
    BY <1>4
  <2>2. /\ io_todo' \in Seq(IoEntry) /\ EndsAreLast(io_todo')
        /\ Has(io_todo', "inputs")
        /\ \A op : Has(io_todo, op) /\ Head(io_todo)[1] # op => Has(io_todo', op)
    <3>1. /\ <<<<"inputs">>>> \in Seq(IoEntry) /\ Entries(<<<<"inputs">>>>) = {<<"inputs">>}
      BY EntryForms, OneEntry
    <3>2. <<"inputs">>[1] \notin Ends /\ <<"inputs">>[1] = "inputs"
      BY DEF Ends
    <3>4. PICK p : p = <<<<"inputs">>>>
      OBVIOUS
    <3>5. /\ p \in Seq(IoEntry) /\ Entries(p) = {<<"inputs">>} /\ \A e \in Entries(p) : e[1] \notin Ends
          /\ io_todo' = p \o Tail(io_todo)
      BY <2>1, <3>1, <3>2, <3>4
    <3>3. /\ io_todo' \in Seq(IoEntry) /\ EndsAreLast(io_todo')
          /\ Entries(io_todo') = {<<"inputs">>} \union Entries(Tail(io_todo))
          /\ \A op : Has(io_todo, op) /\ Head(io_todo)[1] # op => Has(io_todo', op)
      BY <1>1, <3>5, NextCalls
    <3> QED BY <3>2, <3>3 DEF Has
  <2>3. IoTypeOK'
    BY <1>1, <1>2, <2>1, <2>2 DEF IoTypeOK, pinCfg, pinCtl, pinSns, gpioteVars
  <2>4. /\ Driven' = Driven /\ Sense' = Sense /\ Detected' = Detected
        /\ UNCHANGED <<O_level, DETECT, LDETECT, DETECT_signal>>
    BY DEF pinCfg, pinCtl, pinSns, Driven, Dir, OutValues, Sense, Detected
  <2>5. O_level' \subseteq IO_level'
    BY <1>1, <1>4, <2>1, <2>4 DEF Driven
  <2> QED BY <1>1, <2>2, <2>3, <2>4, <2>5 DEF LevelsInv, OutputsAgree, InputsAgree, SenseAgrees
<1> QED BY <1>3, <1>4

(* nrf_gpio_eval_inputs() brings the inputs up to date, and has them       *)
(* sensed.                                                                 *)
LEMMA EvalInputsLevels ==
  ASSUME LevelsInv, EvalInputs
  PROVE  LevelsInv'
<1> USE DEF EvalInputs, IoOp
<1>1. /\ IoTypeOK /\ io_todo \in Seq(IoEntry) /\ io_todo # <<>> /\ EndsAreLast(io_todo)
      /\ Head(io_todo)[1] = "inputs" /\ O_level = Driven /\ O_level \subseteq IO_level
  BY DEF LevelsInv, IoTypeOK, OutputsAgree, First
<1> DEFINE S == Differing(IN_level', IN_level)
           l == PinLoop(<<"notify", S>>)
           p == l \o <<<<"sense">>>>
<1>2. IN_level' \subseteq Pins /\ S \in SUBSET Pins
  BY <1>1 DEF IoTypeOK, EnabledInputs, Differing
<1>3. l \in Seq(IoEntry) /\ \A e \in Entries(l) : e[1] \notin Ends
  <2> DEFINE x == <<"notify", S>>
  <2>1. x[2] = S /\ x[1] = "notify"
    OBVIOUS
  <2>2. x[2] # {} => x \in IoEntry
    BY <1>2, <2>1, EntryForms
  <2> HIDE DEF x
  <2>3. PinLoop(x) \in Seq(IoEntry) /\ Entries(PinLoop(x)) \subseteq {x}
    BY <2>2, LoopCalls
  <2>4. \A e \in Entries(PinLoop(x)) : e[1] \notin Ends
    BY <2>1, <2>3 DEF Ends
  <2> QED BY <2>3, <2>4 DEF x
<1>4. p \in Seq(IoEntry) /\ <<"sense">> \in Entries(p) /\ \A e \in Entries(p) : e[1] \notin Ends
  <2> HIDE DEF l
  <2>1. <<<<"sense">>>> \in Seq(IoEntry) /\ Entries(<<<<"sense">>>>) = {<<"sense">>}
    BY EntryForms, OneEntry
  <2>2. <<"sense">>[1] \notin Ends
    BY DEF Ends
  <2>3. PICK b : b = <<<<"sense">>>>
    OBVIOUS
  <2>4. b \in Seq(IoEntry) /\ <<"sense">> \in Entries(b) /\ \A e \in Entries(b) : e[1] \notin Ends
    BY <2>1, <2>2, <2>3
  <2> QED BY <1>3, <2>3, <2>4, BothParts
<1>5. io_todo' = p \o Tail(io_todo)
  OBVIOUS
<1> HIDE DEF p
<1>6. /\ io_todo' \in Seq(IoEntry) /\ EndsAreLast(io_todo') /\ Has(io_todo', "sense")
  <2>1. /\ io_todo' \in Seq(IoEntry) /\ EndsAreLast(io_todo')
        /\ Entries(io_todo') = Entries(p) \union Entries(Tail(io_todo))
    BY <1>1, <1>4, <1>5, NextCalls
  <2>2. <<"sense">>[1] = "sense"
    OBVIOUS
  <2> QED BY <1>4, <2>1, <2>2 DEF Has
<1>7. IoTypeOK'
  BY <1>1, <1>2, <1>6 DEF IoTypeOK, pinCfg, pinCtl, pinSns, gpioteVars
<1>8. /\ Driven' = Driven /\ EnabledInputs' = EnabledInputs
      /\ UNCHANGED <<O_level, IO_level, DETECT, LDETECT>>
  BY DEF pinCfg, pinCtl, pinSns, Driven, Dir, OutValues, EnabledInputs
<1>9. IN_level' = IO_level' \intersect EnabledInputs'
  BY <1>8
<1> QED BY <1>1, <1>6, <1>7, <1>8, <1>9 DEF LevelsInv, OutputsAgree, InputsAgree, SenseAgrees

(* An event: its tasks are called, and the registers keep their types.      *)
LEMMA EventTypes ==
  ASSUME IoTypeOK, NEW e \in IoEvent, SignalEvent(e)
  PROVE  IO_EVENTS' \subseteq IoEvent /\ GPIOTE_ITEN' \subseteq SignalInts /\ gpiote_int_line' \in BOOLEAN
BY DEF IoTypeOK, SignalEvent, GpioteEvalInterrupt

(* The tasks of an event are put before a write to CONFIG that waits.      *)
LEMMA TaskCallsInOrder ==
  ASSUME NEW e \in IoEvent
  PROVE  /\ RoutedTasks(e) \in Seq(IoEntry) /\ \A x \in Entries(RoutedTasks(e)) : x[1] \notin Ends
         /\ EndsAreLast(RoutedTasks(e))
<1>1. RoutedTasks(e) \in Seq(IoEntry) /\ \A x \in Entries(RoutedTasks(e)) : x[1] \notin Ends
  BY TaskCalls DEF Ends
<1>2. EndsAreLast(RoutedTasks(e))
  BY <1>1 DEF Entries, EndsAreLast
<1> QED BY <1>1, <1>2

(* nrf_gpio_eval_sense() brings DETECT, LATCH and the signal up to date.   *)
LEMMA EvalSenseLevels ==
  ASSUME LevelsInv, EvalSense
  PROVE  LevelsInv'
<1> USE DEF EvalSense, IoOp
<1>1. /\ IoTypeOK /\ io_todo \in Seq(IoEntry) /\ io_todo # <<>> /\ EndsAreLast(io_todo)
      /\ Head(io_todo)[1] = "sense" /\ O_level = Driven /\ O_level \subseteq IO_level
  BY DEF LevelsInv, IoTypeOK, OutputsAgree, First
<1>2. /\ Driven' = Driven /\ EnabledInputs' = EnabledInputs /\ Sense' = Sense
      /\ UNCHANGED <<O_level, IO_level, IN_level, DETECTMODE, io_error>>
  BY DEF pinCfg, pinCtl, pinIo, Driven, Dir, OutValues, EnabledInputs, Sense
<1>3. /\ DETECT' = Sense' /\ DETECT' \subseteq LDETECT' /\ DETECT_signal' = Detected'
      /\ DETECT' \subseteq Pins /\ LDETECT' \subseteq Pins /\ DETECT_signal' \in BOOLEAN
  <2>1. DETECT' = Sense /\ LDETECT' = LDETECT \union DETECT' /\ DETECT_signal' = DetectSignal
    BY DEF Sensed, Sense
  <2>2. DetectSignal = Detected' /\ DetectSignal \in BOOLEAN
    BY <1>2 DEF DetectSignal, Detected
  <2>3. Sense \subseteq Pins
    BY <1>1 DEF Sense, IoTypeOK
  <2> QED BY <1>1, <1>2, <2>1, <2>2, <2>3 DEF IoTypeOK
<1>4. PICK p \in Seq(IoEntry) : io_todo' = p \o Tail(io_todo) /\ \A e \in Entries(p) : e[1] \notin Ends
  <2>1. PORT \in IoEvent
    BY DEF IoEvent
  <2>2. Tail(io_todo) = <<>> \o Tail(io_todo)
    BY <1>1
  <2> QED BY <2>1, <2>2, OneEntry, TaskCallsInOrder
<1>5. /\ io_todo' \in Seq(IoEntry) /\ EndsAreLast(io_todo')
      /\ \A op : Has(io_todo, op) /\ Head(io_todo)[1] # op => Has(io_todo', op)
  BY <1>1, <1>4, NextCalls
<1>6. IO_EVENTS' \subseteq IoEvent /\ GPIOTE_ITEN' \subseteq SignalInts /\ gpiote_int_line' \in BOOLEAN
  <2>1. PORT \in IoEvent
    BY DEF IoEvent
  <2>2. CASE SignalEvent(PORT)
    BY <1>1, <2>1, <2>2, EventTypes
  <2>3. CASE UNCHANGED gpioteVars
    BY <1>1, <2>3 DEF gpioteVars, IoTypeOK
  <2> QED BY <2>2, <2>3
<1>7. IoTypeOK'
  BY <1>1, <1>2, <1>3, <1>5, <1>6 DEF IoTypeOK, pinCfg, pinCtl
<1> QED BY <1>1, <1>2, <1>3, <1>5, <1>7 DEF LevelsInv, OutputsAgree, InputsAgree, SenseAgrees

(* A pin that has channels has a first one.                                *)
LEMMA FirstChannel ==
  ASSUME NEW n \in Pins, ChannelsOf(n) # {}
  PROVE  (CHOOSE c \in ChannelsOf(n) : \A d \in ChannelsOf(n) : c <= d) \in ChannelsOf(n)
<1>1. ChannelsOf(n) \in SUBSET Nat /\ ChannelsOf(n) # {}
  BY ChannelsAssumption DEF ChannelsOf
<1>2. PICK c \in ChannelsOf(n) : \A d \in ChannelsOf(n) : c <= d
  BY <1>1, NatMinimum
<1> QED BY <1>2

(* A notification changes nothing but a level.                             *)
LEMMA StatusKept ==
  ASSUME IoTypeOK, NEW ch \in Channels, NEW n
  PROVE  (IF KeepsLevel(ch_status[ch], n \in IN_level)
            THEN [ch_status EXCEPT ![ch].level = n \in IN_level] ELSE ch_status)
           \in [Channels -> [mode : {"Disabled", "Event", "Task"}, pin : Pins,
                             polarity : Polarities, level : BOOLEAN]]
<1>1. \A v \in BOOLEAN : [ch_status EXCEPT ![ch].level = v]
         \in [Channels -> [mode : {"Disabled", "Event", "Task"}, pin : Pins,
                           polarity : Polarities, level : BOOLEAN]]
  BY DEF IoTypeOK
<1>2. CASE n \in IN_level
  BY <1>1, <1>2 DEF IoTypeOK
<1>3. CASE n \notin IN_level
  <2>1. (n \in IN_level) = FALSE
    BY <1>3
  <2>2. [ch_status EXCEPT ![ch].level = n \in IN_level] = [ch_status EXCEPT ![ch].level = FALSE]
    BY <2>1
  <2> QED BY <1>1, <2>2 DEF IoTypeOK
<1> QED BY <1>2, <1>3

(* A notification moves no level of a pin; if nobody knows the pin, the    *)
(* simulation ends.                                                        *)
LEMMA NotifyLevels ==
  ASSUME LevelsInv, Notify
  PROVE  LevelsInv'
<1> USE DEF Notify, IoOp
<1>1. /\ IoTypeOK /\ io_todo \in Seq(IoEntry) /\ io_todo # <<>> /\ EndsAreLast(io_todo)
      /\ Head(io_todo)[1] = "notify" /\ Head(io_todo) \in IoEntry
  BY TakenOff DEF LevelsInv, IoTypeOK
<1> DEFINE pins == Head(io_todo)[2]
           n == LowestOf(pins)
           x == <<"notify", pins \ {n}>>
           l == PinLoop(x)
           rest == l \o Tail(io_todo)
           ch == CHOOSE c \in ChannelsOf(n) : \A d \in ChannelsOf(n) : c <= d
           value == n \in IN_level
<1>2. pins \in (SUBSET Pins) \ {{}} /\ n \in Pins
  BY <1>1, EntryParts, LowestIsIn
<1>3. l \in Seq(IoEntry) /\ \A e \in Entries(l) : e[1] \notin Ends
  <2>1. x[2] = pins \ {n} /\ x[1] = "notify"
    OBVIOUS
  <2>2. x[2] # {} => x \in IoEntry
    BY <1>2, <2>1, EntryForms
  <2> HIDE DEF x
  <2>3. PinLoop(x) \in Seq(IoEntry) /\ Entries(PinLoop(x)) \subseteq {x}
    BY <2>2, LoopCalls
  <2>4. \A e \in Entries(PinLoop(x)) : e[1] \notin Ends
    BY <2>1, <2>3 DEF Ends
  <2> QED BY <2>3, <2>4
<1>4. UNCHANGED <<pinCfg, pinCtl, pinIo, pinSns>>
  OBVIOUS
<1> HIDE DEF l
<1>5. /\ rest \in Seq(IoEntry) /\ EndsAreLast(rest)
      /\ \A op : Has(io_todo, op) /\ Head(io_todo)[1] # op => Has(rest, op)
  BY <1>1, <1>3, NextCalls
<1>6. CASE pin_owner[n] # "Event"
  <2>1. UNCHANGED <<ch_status, gpioteVars, io_error>> /\ io_todo' = rest
    BY <1>6 DEF l
  <2>2. IoTypeOK'
    BY <1>1, <1>4, <1>5, <2>1 DEF IoTypeOK, pinCfg, pinCtl, pinIo, pinSns, gpioteVars
  <2> QED BY <1>1, <1>4, <1>5, <2>1, <2>2, StillLevels
<1>7. CASE pin_owner[n] = "Event" /\ ChannelsOf(n) = {}
  <2>1. UNCHANGED <<ch_status, gpioteVars>> /\ io_todo' = <<>> /\ io_error' # "none"
    BY <1>7
  <2>2. IoTypeOK' /\ EndsAreLast(io_todo')
    BY <1>1, <1>4, <2>1, OneEntry DEF IoTypeOK, pinCfg, pinCtl, pinIo, pinSns, gpioteVars
  <2> QED BY <1>1, <1>4, <2>1, <2>2, StillLevels
<1>8. CASE pin_owner[n] = "Event" /\ ChannelsOf(n) # {}
  <2>1. ch \in Channels
    BY <1>2, <1>8, FirstChannel DEF ChannelsOf
  <2>2. /\ UNCHANGED io_error
        /\ ch_status' = IF KeepsLevel(ch_status[ch], value)
                          THEN [ch_status EXCEPT ![ch].level = value] ELSE ch_status
        /\ \/ SignalEvent(ch) /\ io_todo' = RoutedTasks(ch) \o rest
           \/ UNCHANGED gpioteVars /\ io_todo' = rest
    <3>1. CASE IsEdge(ch_status[ch], value)
      BY <1>8, <3>1 DEF l
    <3>2. CASE ~IsEdge(ch_status[ch], value)
      BY <1>8, <3>2 DEF l
    <3> QED BY <3>1, <3>2
  <2> HIDE DEF ch, rest
  <2>3. ch_status' \in [Channels -> [mode : {"Disabled", "Event", "Task"}, pin : Pins,
                                     polarity : Polarities, level : BOOLEAN]]
    BY <1>1, <2>1, <2>2, StatusKept
  <2>4. ch \in IoEvent
    BY <2>1 DEF IoEvent
  <2>5. IO_EVENTS' \subseteq IoEvent /\ GPIOTE_ITEN' \subseteq SignalInts /\ gpiote_int_line' \in BOOLEAN
    BY <1>1, <2>2, <2>4, EventTypes DEF IoTypeOK, gpioteVars
  <2>6. /\ io_todo' \in Seq(IoEntry) /\ EndsAreLast(io_todo')
        /\ \A op : Has(rest, op) => Has(io_todo', op)
    <3>1. CASE io_todo' = rest
      BY <1>5, <3>1
    <3>2. CASE io_todo' = RoutedTasks(ch) \o rest
      <4>1. /\ io_todo' \in Seq(IoEntry) /\ EndsAreLast(io_todo')
            /\ Entries(io_todo') = Entries(RoutedTasks(ch)) \union Entries(rest)
        BY <1>5, <2>4, <3>2, TaskCallsInOrder, OrderJoined, Joined
      <4> QED BY <4>1 DEF Has
    <3> QED BY <2>2, <3>1, <3>2
  <2>7. IoTypeOK'
    BY <1>1, <1>4, <2>3, <2>5, <2>6 DEF IoTypeOK, pinCfg, pinCtl, pinIo, pinSns
  <2> QED BY <1>1, <1>4, <1>5, <2>2, <2>6, <2>7, StillLevels
<1> QED BY <1>6, <1>7, <1>8

(* A task that does something gives a channel a level.                     *)
LEMMA TaskLevels ==
  ASSUME NEW task \in IoTask, NEW status, status.polarity \in Polarities,
         status.level \in BOOLEAN, ~(task = "OUT" /\ status.polarity = "None")
  PROVE  LevelAfter(task, status) \in BOOLEAN
BY DEF LevelAfter, IoTask, Polarities

(* A task has the outputs evaluated next.                                  *)
LEMMA ChannelTaskLevels ==
  ASSUME LevelsInv, ChannelTask
  PROVE  LevelsInv'
<1>1. /\ IoTypeOK /\ io_todo \in Seq(IoEntry) /\ io_todo # <<>> /\ EndsAreLast(io_todo)
      /\ Head(io_todo)[1] = "task" /\ Head(io_todo) \in IoEntry
      /\ O_level = Driven /\ O_level \subseteq IO_level
  BY TakenOff DEF ChannelTask, IoOp, LevelsInv, IoTypeOK, OutputsAgree, First
<1> DEFINE task == Head(io_todo)[2]
           ch == Head(io_todo)[3]
           status == ch_status[ch]
           level == LevelAfter(task, status)
           idle == status.mode # "Task" \/ (task = "OUT" /\ status.polarity = "None")
<1>6. /\ UNCHANGED <<pinCfg, pin_owner, pinIo, pinSns, gpioteVars>>
      /\ idle => UNCHANGED <<ch_status, external_OUT, io_error>> /\ io_todo' = Tail(io_todo)
      /\ ~idle => /\ ch_status' = [ch_status EXCEPT ![ch].level = level]
                  /\ IF pin_owner[status.pin] = "gpio"
                       THEN /\ io_error' = "toggles an output it does not own"
                            /\ UNCHANGED external_OUT /\ io_todo' = <<>>
                       ELSE /\ external_OUT' = IF level THEN external_OUT \union {status.pin}
                                               ELSE external_OUT \ {status.pin}
                            /\ io_todo' = <<<<"outputs">>>> \o Tail(io_todo)
                            /\ UNCHANGED io_error
  BY DEF ChannelTask
<1>2. task \in IoTask /\ ch \in Channels
  BY <1>1, EntryParts
<1>3. /\ UNCHANGED <<pinCfg, pin_owner, pinIo, pinSns, gpioteVars>>
      /\ status \in [mode : {"Disabled", "Event", "Task"}, pin : Pins, polarity : Polarities, level : BOOLEAN]
  BY <1>1, <1>2, <1>6 DEF IoTypeOK
<1>4. CASE idle
  <2>0. UNCHANGED <<ch_status, external_OUT, io_error>> /\ io_todo' = Tail(io_todo)
    BY <1>4, <1>6
  <2>1. UNCHANGED <<ch_status, external_OUT, io_error>> /\ io_todo' = <<>> \o Tail(io_todo)
    <3> HIDE DEF idle
    <3> QED BY <1>1, <2>0
  <2>2. /\ io_todo' \in Seq(IoEntry) /\ EndsAreLast(io_todo')
        /\ \A op : Has(io_todo, op) /\ Head(io_todo)[1] # op => Has(io_todo', op)
    BY <1>1, <2>1, OneEntry, NextCalls
  <2>3. IoTypeOK'
    BY <1>1, <1>3, <2>1, <2>2 DEF IoTypeOK, pinCfg, pinIo, pinSns, gpioteVars
  <2> QED BY <1>1, <1>3, <2>1, <2>2, <2>3, StillLevels DEF pinCtl
<1>5. CASE ~idle
  <2>1. level \in BOOLEAN
    BY <1>2, <1>3, <1>5, TaskLevels
  <2>2. ch_status' = [ch_status EXCEPT ![ch].level = level]
    BY <1>5, <1>6
  <2>3. ch_status' \in [Channels -> [mode : {"Disabled", "Event", "Task"}, pin : Pins,
                                     polarity : Polarities, level : BOOLEAN]]
    <3> HIDE DEF level, ch, idle
    <3> QED BY <1>1, <1>2, <2>1, <2>2 DEF IoTypeOK
  <2>4. CASE pin_owner[status.pin] = "gpio"
    <3>1. io_error' # "none" /\ UNCHANGED external_OUT /\ io_todo' = <<>>
      BY <1>5, <1>6, <2>4
    <3>2. IoTypeOK' /\ EndsAreLast(io_todo')
      BY <1>1, <1>3, <2>3, <3>1, OneEntry DEF IoTypeOK, pinCfg, pinIo, pinSns, gpioteVars
    <3> QED BY <1>1, <1>3, <3>1, <3>2, StillLevels DEF pinCtl
  <2>5. CASE pin_owner[status.pin] # "gpio"
    <3>1. /\ external_OUT' \subseteq external_OUT \union {status.pin}
          /\ io_todo' = <<<<"outputs">>>> \o Tail(io_todo) /\ UNCHANGED io_error
      BY <1>5, <1>6, <2>5
    <3>2. PICK p : p = <<<<"outputs">>>>
      OBVIOUS
    <3>3. /\ p \in Seq(IoEntry) /\ Entries(p) = {<<"outputs">>} /\ p # <<>> /\ Head(p) = <<"outputs">>
          /\ \A e \in Entries(p) : e[1] \notin Ends
      <4>1. <<"outputs">>[1] \notin Ends /\ <<"outputs">> \in IoEntry
        BY EntryForms DEF Ends
      <4> QED BY <3>2, <4>1, OneEntry
    <3>4. /\ io_todo' \in Seq(IoEntry) /\ EndsAreLast(io_todo')
          /\ \A op : Has(io_todo, op) /\ Head(io_todo)[1] # op => Has(io_todo', op)
          /\ First("outputs")'
      <4>1. <<"outputs">>[1] = "outputs" /\ Tail(io_todo) \in Seq(IoEntry) /\ io_todo' = p \o Tail(io_todo)
        BY <1>1, <3>1, <3>2
      <4>2. io_todo' # <<>> /\ Head(io_todo') = <<"outputs">>
        BY <3>3, <4>1, Joined
      <4> QED BY <1>1, <3>3, <4>1, <4>2, NextCalls DEF First
    <3>5. IoTypeOK'
      BY <1>1, <1>3, <2>3, <3>1, <3>4 DEF IoTypeOK, pinCfg, pinIo, pinSns, gpioteVars
    <3>6. /\ EnabledInputs' = EnabledInputs /\ Sense' = Sense /\ Detected' = Detected
          /\ UNCHANGED <<O_level, IO_level, IN_level, DETECT, LDETECT, DETECT_signal>>
      BY <1>3 DEF pinCfg, pinIo, pinSns, EnabledInputs, Sense, Detected
    <3>7. io_error' = "none" => InputsAgree' /\ SenseAgrees'
      BY <1>1, <3>1, <3>4, <3>6 DEF LevelsInv, InputsAgree, SenseAgrees
    <3> QED BY <1>1, <3>4, <3>5, <3>6, <3>7 DEF LevelsInv, OutputsAgree
  <2> QED BY <2>4, <2>5
<1> QED BY <1>4, <1>5

(* The owner of a pin and the channel of a CONFIG that is written.          *)
LEMMA ConfigParts ==
  ASSUME NEW config \in ChannelConfigs
  PROVE  /\ config.ch \in Channels /\ config.mode \in {"Disabled", "Event", "Task"} /\ config.pin \in Pins
         /\ config.polarity \in Polarities /\ config.outinit \in BOOLEAN
BY GpioteAssumption

(* What is called for a pin that has changed hands: "e" is what remains of  *)
(* the write to CONFIG, or nothing does.                                    *)
LEMMA OwnerCalls ==
  ASSUME NEW t \in Seq(IoEntry), EndsAreLast(t), NEW s, s = <<<<"outputs">>, <<"inputs">>>> \o t
  PROVE  /\ s \in Seq(IoEntry) /\ EndsAreLast(s) /\ s # <<>> /\ Head(s) = <<"outputs">>
         /\ Has(s, "outputs") /\ Has(s, "inputs")
         /\ Entries(s) = {<<"outputs">>, <<"inputs">>} \union Entries(t)
         /\ Later(s) = {<<"inputs">>} \union Entries(t)
<1>1. PICK p : p = <<<<"outputs">>, <<"inputs">>>>
  OBVIOUS
<1>2. p \in Seq(IoEntry) /\ Entries(p) = {<<"outputs">>, <<"inputs">>} /\ p # <<>> /\ Head(p) = <<"outputs">>
      /\ Later(p) = {<<"inputs">>}
  BY <1>1, EntryForms DEF Entries, Later
<1>3. <<"outputs">>[1] = "outputs" /\ <<"inputs">>[1] = "inputs"
  OBVIOUS
<1>4. \A e \in Entries(p) : e[1] \notin Ends
  BY <1>2, <1>3 DEF Ends
<1>5. s = p \o t
  BY <1>1
<1>6. /\ s \in Seq(IoEntry) /\ Entries(s) = Entries(p) \union Entries(t) /\ s # <<>> /\ Head(s) = Head(p)
      /\ Later(s) = Later(p) \union Entries(t)
  <2>1. /\ p \o t \in Seq(IoEntry) /\ Entries(p \o t) = Entries(p) \union Entries(t)
        /\ p # <<>> => /\ p \o t # <<>> /\ Head(p \o t) = Head(p)
                       /\ Later(p \o t) = Later(p) \union Entries(t)
    BY <1>2, Joined
  <2> QED BY <1>2, <1>5, <2>1
<1>7. EndsAreLast(s)
  BY <1>2, <1>4, <1>5, OrderJoined
<1> QED BY <1>2, <1>3, <1>6, <1>7 DEF Has

(* A pin that is given back has its output and its input evaluated.        *)
LEMMA ReleasePinLevels ==
  ASSUME LevelsInv, ReleasePin
  PROVE  LevelsInv'
<1>1. /\ IoTypeOK /\ io_todo \in Seq(IoEntry) /\ io_todo # <<>> /\ EndsAreLast(io_todo)
      /\ Head(io_todo)[1] = "config" /\ Head(io_todo) \in IoEntry
      /\ O_level = Driven /\ O_level \subseteq IO_level
  BY TakenOff DEF ReleasePin, IoOp, LevelsInv, IoTypeOK, OutputsAgree, First
<1> DEFINE config == Head(io_todo)[2]
           x == <<"take", config>>
<1>2. UNCHANGED <<pinCfg, external_OUT, pinIo, pinSns, ch_status, gpioteVars, io_error>>
  BY DEF ReleasePin
<1>3. config \in ChannelConfigs /\ Tail(io_todo) = <<>>
  BY <1>1, EntryParts, OrderKept DEF Ends
<1>4. /\ <<x>> \in Seq(IoEntry) /\ EndsAreLast(<<x>>) /\ Entries(<<x>>) = {x} /\ Head(<<x>>) = x /\ <<x>> # <<>>
      /\ x[1] = "take"
  BY <1>3, EntryForms, OneEntry DEF Ends
<1>5. \A op : Has(io_todo, op) => op = "config"
  <2>1. Entries(io_todo) = {Head(io_todo)} \union Entries(Tail(io_todo))
    BY <1>1, TakenOff
  <2>2. Entries(Tail(io_todo)) = {}
    BY <1>3, OneEntry
  <2> QED BY <1>1, <2>1, <2>2 DEF Has
<1>6. CASE LeavesPin(config.ch, config)
  <2>1. /\ pin_owner' = [pin_owner EXCEPT ![ch_status[config.ch].pin] = "gpio"]
        /\ io_todo' = <<<<"outputs">>, <<"inputs">>, x>> \o Tail(io_todo)
    BY <1>6 DEF ReleasePin
  <2> HIDE DEF x
  <2>8. PICK t : t = <<x>>
    OBVIOUS
  <2>2. io_todo' = <<<<"outputs">>, <<"inputs">>>> \o t
    <3>1. \A a, b, c : <<a, b, c>> \o <<>> = <<a, b>> \o <<c>>
      OBVIOUS
    <3> QED BY <1>3, <2>1, <2>8, <3>1
  <2>9. t \in Seq(IoEntry) /\ EndsAreLast(t)
    BY <1>4, <2>8
  <2>3. io_todo' \in Seq(IoEntry) /\ EndsAreLast(io_todo') /\ First("outputs")' /\ Has(io_todo', "inputs")
    <3>1. <<"outputs">>[1] = "outputs"
      OBVIOUS
    <3>2. /\ io_todo' \in Seq(IoEntry) /\ EndsAreLast(io_todo') /\ io_todo' # <<>> /\ Head(io_todo') = <<"outputs">>
          /\ Has(io_todo', "inputs")
      BY <2>2, <2>9, OwnerCalls
    <3> QED BY <3>1, <3>2 DEF First
  <2>4. pin_owner' \in [Pins -> {"gpio", "Event", "Task"}]
    BY <1>1, <2>1 DEF IoTypeOK
  <2>5. IoTypeOK'
    BY <1>1, <1>2, <2>3, <2>4 DEF IoTypeOK, pinCfg, pinIo, pinSns, gpioteVars
  <2>6. /\ Sense' = Sense /\ Detected' = Detected
        /\ UNCHANGED <<O_level, IO_level, DETECT, LDETECT, DETECT_signal, io_error>>
    BY <1>2 DEF pinCfg, pinIo, pinSns, Sense, Detected
  <2>7. io_error = "none" => DETECT = Sense /\ DETECT_signal = Detected
    BY <1>5 DEF LevelsInv, SenseAgrees
  <2> QED BY <1>1, <2>3, <2>5, <2>6, <2>7 DEF LevelsInv, OutputsAgree, InputsAgree, SenseAgrees
<1>7. CASE ~LeavesPin(config.ch, config)
  <2>1. UNCHANGED pin_owner /\ io_todo' = <<x>>
    BY <1>3, <1>7 DEF ReleasePin
  <2>2. IoTypeOK' /\ EndsAreLast(io_todo')
    BY <1>1, <1>2, <1>4, <2>1 DEF IoTypeOK, pinCfg, pinIo, pinSns, gpioteVars
  <2> QED BY <1>1, <1>2, <1>5, <2>1, <2>2, StillLevels DEF pinCtl
<1> QED BY <1>6, <1>7

(* So has a pin that is taken.                                             *)
LEMMA TakePinLevels ==
  ASSUME LevelsInv, TakePin
  PROVE  LevelsInv'
<1>1. /\ IoTypeOK /\ io_todo \in Seq(IoEntry) /\ io_todo # <<>> /\ EndsAreLast(io_todo)
      /\ Head(io_todo)[1] = "take" /\ Head(io_todo) \in IoEntry
      /\ O_level = Driven /\ O_level \subseteq IO_level
  BY TakenOff DEF TakePin, IoOp, LevelsInv, IoTypeOK, OutputsAgree, First
<1> DEFINE config == Head(io_todo)[2]
           level == CASE config.mode = "Event" -> config.pin \in IO_level
                      [] config.mode = "Task" -> config.outinit
                      [] OTHER -> ch_status[config.ch].level
<1>2. /\ UNCHANGED <<pinCfg, pinIo, pinSns, gpioteVars, io_error>>
      /\ ch_status' = [ch_status EXCEPT ![config.ch] =
              [mode |-> config.mode, pin |-> config.pin,
               polarity |-> config.polarity, level |-> level]]
  BY DEF TakePin
<1>3. config \in ChannelConfigs /\ Tail(io_todo) = <<>>
  BY <1>1, EntryParts, OrderKept DEF Ends
<1>4. level \in BOOLEAN
  <2>1. CASE config.mode = "Event"
    <3>1. CASE config.pin \in IO_level
      BY <2>1, <3>1
    <3>2. CASE config.pin \notin IO_level
      <4>1. level = FALSE
        BY <2>1, <3>2
      <4> QED BY <4>1
    <3> QED BY <3>1, <3>2
  <2>2. CASE config.mode = "Task"
    BY <1>3, <2>2, ConfigParts
  <2>3. CASE config.mode = "Disabled"
    BY <1>1, <1>3, <2>3, ConfigParts DEF IoTypeOK
  <2> QED BY <1>3, <2>1, <2>2, <2>3, ConfigParts
<1>5. ch_status' \in [Channels -> [mode : {"Disabled", "Event", "Task"}, pin : Pins,
                                   polarity : Polarities, level : BOOLEAN]]
  <2> HIDE DEF level, config
  <2> QED BY <1>1, <1>2, <1>3, <1>4, ConfigParts DEF IoTypeOK
<1>6. \A op : Has(io_todo, op) => op = "take"
  <2>1. Entries(io_todo) = {Head(io_todo)} \union Entries(Tail(io_todo))
    BY <1>1, TakenOff
  <2>2. Entries(Tail(io_todo)) = {}
    BY <1>3, OneEntry
  <2> QED BY <1>1, <2>1, <2>2 DEF Has
<1>7. CASE config.mode = "Disabled"
  <2>1. UNCHANGED pinCtl /\ io_todo' = <<>>
    BY <1>3, <1>7 DEF TakePin
  <2>2. IoTypeOK' /\ EndsAreLast(io_todo')
    BY <1>1, <1>2, <1>5, <2>1, OneEntry DEF IoTypeOK, pinCfg, pinCtl, pinIo, pinSns, gpioteVars
  <2> QED BY <1>1, <1>2, <1>6, <2>1, <2>2, StillLevels
<1>8. CASE config.mode # "Disabled"
  <2>1. /\ pin_owner' = [pin_owner EXCEPT ![config.pin] = config.mode]
        /\ external_OUT' = IF config.mode = "Event" THEN external_OUT
                           ELSE IF level THEN external_OUT \union {config.pin}
                           ELSE external_OUT \ {config.pin}
        /\ io_todo' = <<<<"outputs">>, <<"inputs">>>> \o Tail(io_todo)
    BY <1>8 DEF TakePin
  <2>2. io_todo' \in Seq(IoEntry) /\ EndsAreLast(io_todo') /\ First("outputs")' /\ Has(io_todo', "inputs")
    <3>1. <<"outputs">>[1] = "outputs"
      OBVIOUS
    <3>2. Tail(io_todo) \in Seq(IoEntry) /\ EndsAreLast(Tail(io_todo))
      BY <1>3, OneEntry
    <3>3. /\ io_todo' \in Seq(IoEntry) /\ EndsAreLast(io_todo') /\ io_todo' # <<>> /\ Head(io_todo') = <<"outputs">>
          /\ Has(io_todo', "inputs")
      BY <2>1, <3>2, OwnerCalls
    <3> QED BY <3>1, <3>3 DEF First
  <2> HIDE DEF level, config
  <2>4. pin_owner' \in [Pins -> {"gpio", "Event", "Task"}] /\ external_OUT' \subseteq Pins
    BY <1>1, <1>3, <1>8, <2>1, ConfigParts DEF IoTypeOK
  <2>5. IoTypeOK'
    BY <1>1, <1>2, <1>5, <2>2, <2>4 DEF IoTypeOK, pinCfg, pinIo, pinSns, gpioteVars
  <2>6. /\ Sense' = Sense /\ Detected' = Detected
        /\ UNCHANGED <<O_level, IO_level, DETECT, LDETECT, DETECT_signal, io_error>>
    BY <1>2 DEF pinCfg, pinIo, pinSns, Sense, Detected
  <2>7. io_error = "none" => DETECT = Sense /\ DETECT_signal = Detected
    BY <1>6 DEF LevelsInv, SenseAgrees
  <2> QED BY <1>1, <2>2, <2>5, <2>6, <2>7 DEF LevelsInv, OutputsAgree, InputsAgree, SenseAgrees
<1> QED BY <1>7, <1>8

(* What every level is when nothing remains to be done.                     *)
LEMMA SettledLevels ==
  ASSUME LevelsInv, io_todo = <<>>, io_error = "none"
  PROVE  /\ IoTypeOK /\ O_level = Driven /\ O_level \subseteq IO_level /\ DETECT \subseteq LDETECT
         /\ IN_level = IO_level \intersect EnabledInputs
         /\ DETECT = Sense /\ DETECT_signal = Detected
BY NothingHas DEF LevelsInv, OutputsAgree, InputsAgree, SenseAgrees, First

(* A call that the software or the world makes, of which one knows the type.*)
LEMMA OneCall ==
  ASSUME NEW x \in IoEntry, NEW s, s = <<x>>
  PROVE  s \in Seq(IoEntry) /\ EndsAreLast(s) /\ s # <<>> /\ Head(s) = x /\ Has(s, x[1])
BY OneEntry DEF Has

(* A call that the software makes when the last one has returned changes   *)
(* no level yet.                                                           *)
LEMMA NewCallLevels ==
  ASSUME LevelsInv, io_todo = <<>>, io_error = "none",
         UNCHANGED <<pinCfg, pinCtl, pinIo, pinSns, io_error>>, IoTypeOK', EndsAreLast(io_todo')
  PROVE  LevelsInv'
<1>1. /\ Driven' = Driven /\ EnabledInputs' = EnabledInputs /\ Sense' = Sense /\ Detected' = Detected
      /\ UNCHANGED <<O_level, IO_level, IN_level, DETECT, LDETECT, DETECT_signal>>
  BY DEF pinCfg, pinCtl, pinIo, pinSns, Driven, Dir, OutValues, EnabledInputs, Sense, Detected
<1> QED BY <1>1, SettledLevels DEF LevelsInv, OutputsAgree, InputsAgree, SenseAgrees

(* The outputs of a write to OUT or DIR are evaluated next.                *)
LEMMA OutputsLevels ==
  ASSUME LevelsInv, io_todo = <<>>, io_error = "none", SoftwareOutputs
  PROVE  LevelsInv'
<1> USE DEF SoftwareOutputs
<1>1. io_todo' \in Seq(IoEntry) /\ EndsAreLast(io_todo') /\ First("outputs")'
  BY EntryForms, OneCall DEF First
<1>2. OutputPins \subseteq Pins
  BY BoardAssumption
<1>3. OUT' \subseteq Pins /\ DIR' \subseteq Pins
  BY <1>2, SettledLevels DEF IoTypeOK
<1>4. IoTypeOK'
  BY <1>1, <1>3, SettledLevels DEF IoTypeOK, pinCtl, pinIo, pinSns, gpioteVars
<1>5. /\ EnabledInputs' = EnabledInputs /\ Sense' = Sense /\ Detected' = Detected
      /\ UNCHANGED <<O_level, IO_level, IN_level, DETECT, LDETECT, DETECT_signal>>
  BY DEF pinCtl, pinIo, pinSns, EnabledInputs, Sense, Detected
<1> QED BY <1>1, <1>4, <1>5, SettledLevels DEF LevelsInv, OutputsAgree, InputsAgree, SenseAgrees

(* What a write to PIN_CNF has evaluated: the outputs first.                *)
LEMMA PinCnfCalls ==
  ASSUME SoftwarePinCnf
  PROVE  /\ io_todo' \in Seq(IoEntry) /\ EndsAreLast(io_todo')
         /\ Entries(io_todo') \subseteq {<<"outputs">>, <<"inputs">>, <<"sense">>}
         /\ DIR' # DIR => First("outputs")'
         /\ INPUT' # INPUT => Has(io_todo', "inputs")
         /\ (SENSE_mask' # SENSE_mask \/ SENSE_inv' # SENSE_inv) => Has(io_todo', "sense")
<1> DEFINE senses == SENSE_mask' # SENSE_mask \/ SENSE_inv' # SENSE_inv
           a == IF DIR' # DIR THEN <<<<"outputs">>>> ELSE <<>>
           b == IF INPUT' # INPUT THEN <<<<"inputs">>>> ELSE <<>>
           c == IF senses THEN <<<<"sense">>>> ELSE <<>>
<1>1. io_todo' = (a \o b) \o c
  BY DEF SoftwarePinCnf
<1>2. <<"outputs">>[1] = "outputs" /\ <<"inputs">>[1] = "inputs" /\ <<"sense">>[1] = "sense"
  OBVIOUS
<1>3. /\ a \in Seq(IoEntry) /\ Entries(a) \subseteq {<<"outputs">>}
      /\ DIR' # DIR => a # <<>> /\ Head(a) = <<"outputs">>
  BY EntryForms, OneEntry
<1>4. /\ b \in Seq(IoEntry) /\ Entries(b) \subseteq {<<"inputs">>}
      /\ INPUT' # INPUT => <<"inputs">> \in Entries(b)
  BY EntryForms, OneEntry
<1>5. /\ c \in Seq(IoEntry) /\ Entries(c) \subseteq {<<"sense">>} /\ EndsAreLast(c)
      /\ senses => <<"sense">> \in Entries(c)
  BY EntryForms, OneEntry
<1> HIDE DEF a, b, c
<1>6. /\ a \o b \in Seq(IoEntry) /\ Entries(a \o b) = Entries(a) \union Entries(b)
      /\ DIR' # DIR => a \o b # <<>> /\ Head(a \o b) = <<"outputs">>
  BY <1>3, <1>4, Joined
<1>7. PICK d : d = a \o b
  OBVIOUS
<1>8. /\ d \in Seq(IoEntry) /\ Entries(d) = Entries(a) \union Entries(b) /\ io_todo' = d \o c
      /\ DIR' # DIR => d # <<>> /\ Head(d) = <<"outputs">>
      /\ \A e \in Entries(d) : e[1] \notin Ends
  BY <1>1, <1>2, <1>3, <1>4, <1>6, <1>7 DEF Ends
<1>9. /\ io_todo' \in Seq(IoEntry) /\ Entries(io_todo') = Entries(d) \union Entries(c)
      /\ d # <<>> => io_todo' # <<>> /\ Head(io_todo') = Head(d)
  BY <1>5, <1>8, Joined
<1>10. EndsAreLast(io_todo')
  BY <1>5, <1>8, OrderJoined
<1>11. DIR' # DIR => First("outputs")'
  BY <1>2, <1>8, <1>9 DEF First
<1>12. (INPUT' # INPUT => Has(io_todo', "inputs")) /\ (senses => Has(io_todo', "sense"))
  BY <1>2, <1>4, <1>5, <1>8, <1>9 DEF Has
<1>13. Entries(io_todo') \subseteq {<<"outputs">>, <<"inputs">>, <<"sense">>}
  BY <1>3, <1>4, <1>5, <1>8, <1>9
<1> QED BY <1>9, <1>10, <1>11, <1>12, <1>13

(* A write to PIN_CNF has evaluated what its change is about.              *)
LEMMA PinCnfLevels ==
  ASSUME LevelsInv, io_todo = <<>>, io_error = "none", SoftwarePinCnf
  PROVE  LevelsInv'
<1>1. /\ io_todo' \in Seq(IoEntry) /\ EndsAreLast(io_todo')
      /\ DIR' # DIR => First("outputs")'
      /\ INPUT' # INPUT => Has(io_todo', "inputs")
      /\ (SENSE_mask' # SENSE_mask \/ SENSE_inv' # SENSE_inv) => Has(io_todo', "sense")
  BY PinCnfCalls
<1>2. UNCHANGED <<OUT, DETECTMODE, pinCtl, pinIo, pinSns, ch_status, gpioteVars, io_error>>
  BY DEF SoftwarePinCnf
<1>3. DIR' \subseteq Pins /\ INPUT' \subseteq Pins /\ SENSE_mask' \subseteq Pins /\ SENSE_inv' \subseteq Pins
  BY SettledLevels DEF IoTypeOK, SoftwarePinCnf, Put
<1>4. IoTypeOK'
  BY <1>1, <1>2, <1>3, SettledLevels DEF IoTypeOK, pinCtl, pinIo, pinSns, gpioteVars
<1>5. /\ DIR' = DIR => Driven' = Driven
      /\ INPUT' = INPUT => EnabledInputs' = EnabledInputs
      /\ (SENSE_mask' = SENSE_mask /\ SENSE_inv' = SENSE_inv) => Sense' = Sense
      /\ Detected' = Detected
      /\ UNCHANGED <<O_level, IO_level, IN_level, DETECT, LDETECT, DETECT_signal>>
  BY <1>2 DEF pinCtl, pinIo, pinSns, Driven, Dir, OutValues, EnabledInputs, Sense, Detected
<1>6. OutputsAgree'
  BY <1>1, <1>5, SettledLevels DEF OutputsAgree
<1>7. InputsAgree' /\ SenseAgrees'
  BY <1>1, <1>5, SettledLevels DEF InputsAgree, SenseAgrees
<1> QED BY <1>1, <1>4, <1>5, <1>6, <1>7, SettledLevels DEF LevelsInv

(* A write to DETECTMODE has the port sensed again.                        *)
LEMMA DetectModeLevels ==
  ASSUME LevelsInv, io_todo = <<>>, io_error = "none", SoftwareDetectMode
  PROVE  LevelsInv'
<1> USE DEF SoftwareDetectMode
<1>1. io_todo' \in Seq(IoEntry) /\ EndsAreLast(io_todo') /\ Has(io_todo', "sense")
  <2>1. <<"sense">>[1] = "sense"
    OBVIOUS
  <2> QED BY <2>1, EntryForms, OneCall
<1>2. IoTypeOK'
  BY <1>1, SettledLevels DEF IoTypeOK, pinCtl, pinIo, pinSns, gpioteVars
<1>3. /\ Driven' = Driven /\ EnabledInputs' = EnabledInputs
      /\ UNCHANGED <<O_level, IO_level, IN_level, DETECT, LDETECT>>
  BY DEF pinCtl, pinIo, pinSns, Driven, Dir, OutValues, EnabledInputs
<1> QED BY <1>1, <1>2, <1>3, SettledLevels DEF LevelsInv, OutputsAgree, InputsAgree, SenseAgrees

(* A write to LATCH brings the signal up to date itself.                   *)
LEMMA LatchLevels ==
  ASSUME LevelsInv, io_todo = <<>>, io_error = "none", SoftwareLatch
  PROVE  LevelsInv'
<1> USE DEF SoftwareLatch
<1>1. PICK cleared \in (SUBSET InputPins) \ {{}} : LDETECT' = (LDETECT \ cleared) \union DETECT
  OBVIOUS
<1>2. /\ UNCHANGED <<DETECT, pinCfg, pinCtl, pinIo, ch_status, io_error>>
      /\ Driven' = Driven /\ EnabledInputs' = EnabledInputs /\ Sense' = Sense
      /\ UNCHANGED <<O_level, IO_level, IN_level, DETECTMODE>>
  BY DEF pinCfg, pinCtl, pinIo, Driven, Dir, OutValues, EnabledInputs, Sense
<1>3. DETECT_signal' = Detected' /\ DETECT_signal' \in BOOLEAN
  BY <1>2 DEF DetectSignal, Detected
<1>4. LDETECT' \subseteq Pins /\ DETECT' \subseteq LDETECT'
  BY <1>1, <1>2, SettledLevels DEF IoTypeOK
<1>5. /\ IO_EVENTS' \subseteq IoEvent /\ GPIOTE_ITEN' \subseteq SignalInts /\ gpiote_int_line' \in BOOLEAN
      /\ io_todo' \in Seq(IoEntry) /\ EndsAreLast(io_todo')
  <2>1. PORT \in IoEvent
    BY DEF IoEvent
  <2>2. CASE SignalEvent(PORT) /\ io_todo' = RoutedTasks(PORT)
    BY <2>1, <2>2, EventTypes, TaskCallsInOrder, SettledLevels
  <2>3. CASE UNCHANGED <<gpioteVars, io_todo>>
    BY <2>3, OneEntry, SettledLevels DEF gpioteVars, IoTypeOK
  <2> QED BY <2>2, <2>3
<1>6. IoTypeOK'
  BY <1>2, <1>3, <1>4, <1>5, SettledLevels DEF IoTypeOK, pinCfg, pinCtl
<1> QED BY <1>2, <1>3, <1>4, <1>5, <1>6, SettledLevels DEF LevelsInv, OutputsAgree, InputsAgree, SenseAgrees

(* The other calls of the software, and the tests', change no level        *)
(* themselves.                                                             *)
LEMMA OtherSoftwareLevels ==
  ASSUME LevelsInv, io_todo = <<>>, io_error = "none",
         SoftwareGpiote \/ SoftwareGpioteInterrupts \/ TestDrives
  PROVE  LevelsInv'
<1>1. UNCHANGED <<pinCfg, pinCtl, pinIo, pinSns, ch_status, io_error>>
  BY DEF SoftwareGpiote, SoftwareGpioteInterrupts, TestDrives
<1>2. io_todo' \in Seq(IoEntry) /\ EndsAreLast(io_todo')
  <2>1. CASE SoftwareGpiote
    <3>1. \A config \in ChannelConfigs : <<"config", config>> \in IoEntry
      BY EntryForms DEF Ends
    <3> QED BY <2>1, <3>1, EntryForms, OneCall DEF SoftwareGpiote
  <2>2. CASE SoftwareGpioteInterrupts
    BY <2>2, OneEntry DEF SoftwareGpioteInterrupts
  <2>3. CASE TestDrives
    <3>1. TestPins \subseteq Pins
      BY BoardAssumption
    <3> QED BY <2>3, <3>1, EntryForms, OneCall DEF TestDrives
  <2> QED BY <2>1, <2>2, <2>3
<1>3. IO_EVENTS' \subseteq IoEvent /\ GPIOTE_ITEN' \subseteq SignalInts /\ gpiote_int_line' \in BOOLEAN
  <2>1. CASE SoftwareGpioteInterrupts
    BY <2>1, GpioteAssumption, SettledLevels DEF SoftwareGpioteInterrupts, GpioteEvalInterrupt, IoTypeOK
  <2>2. CASE UNCHANGED gpioteVars
    BY <2>2, SettledLevels DEF gpioteVars, IoTypeOK
  <2> QED BY <2>1, <2>2 DEF SoftwareGpiote, TestDrives
<1>4. IoTypeOK'
  BY <1>1, <1>2, <1>3, SettledLevels DEF IoTypeOK, pinCfg, pinCtl, pinIo, pinSns
<1> QED BY <1>1, <1>2, <1>4, NewCallLevels

(* Every step keeps the levels.                                            *)
LEMMA LevelsStep ==
  ASSUME LevelsInv, [IoNext]_ioVars
  PROVE  LevelsInv'
<1>1. CASE IoSoftware
  BY <1>1, OutputsLevels, PinCnfLevels, DetectModeLevels, LatchLevels, OtherSoftwareLevels DEF IoSoftware
<1>2. CASE UNCHANGED ioVars
  <2>1. UNCHANGED <<pinCfg, pinCtl, pinIo, pinSns, ch_status, gpioteVars, io_todo, io_error>>
    BY <1>2 DEF ioVars
  <2> QED BY <2>1 DEF pinCfg, pinCtl, pinIo, pinSns, gpioteVars, LevelsInv, IoTypeOK, OutputsAgree, InputsAgree,
          SenseAgrees, First, Driven, Dir, OutValues, EnabledInputs, Sense, Detected
<1> QED BY <1>1, <1>2, EvalOutputsLevels, PropagateOutputLevels, EvalInputLevels, EvalInputsLevels,
           EvalSenseLevels, NotifyLevels, ChannelTaskLevels, ReleasePinLevels, TakePinLevels DEF IoNext

(* In every state, for any pins, wires, channels, configurations and       *)
(* routes of the PPI, the levels agree but for what is about to be         *)
(* evaluated.                                                              *)
THEOREM LevelsInvariant == IoSpec => []LevelsInv
<1>1. LevelsInv /\ [IoNext]_ioVars => LevelsInv'
  BY LevelsStep
<1> QED BY <1>1, LevelsInitInv, PTL DEF IoSpec

(* The variables of the GPIO and the GPIOTE keep their types               *)
(* (NRF_GPIO.c:48-71, NRF_GPIOTE.c:27-40).                                 *)
THEOREM IoTypes == IoSpec => []IoTypeOK
BY LevelsInvariant, PTL DEF LevelsInv

(* However the changes of outputs, inputs and owners have called one       *)
(* another, once the last call returns every level is what the             *)
(* configuration says (PinsSettle), without any hypothesis on the wires,   *)
(* the channels or the routes.                                             *)
THEOREM PinsSettleAlways == IoSpec => []PinsSettle
<1>1. LevelsInv => PinsSettle
  BY SettledLevels DEF PinsSettle, Sense, Detected
<1> QED BY <1>1, LevelsInvariant, PTL

-----------------------------------------------------------------------------
(* The owners of the pins.                                                 *)

(* The wires, and the pins at their ends.                                  *)
IsShort(n, t) == t \in Entries(Shorted[n])
Targets == {t \in Pins : \E n \in Pins : IsShort(n, t)}

(* The state of a channel; a channel that is about to take a pin.          *)
Status  == [mode : {"Disabled", "Event", "Task"}, pin : Pins, polarity : Polarities, level : BOOLEAN]
Taking(ch) == \E e \in Entries(io_todo) : e[1] = "take" /\ e[2].ch = ch

(* Its pin is not another channel's, nor pin 0, which is that of the        *)
(* channels that have never been configured.                                *)
Apart(ch) == /\ ch_status[ch].mode # "Disabled" => ch_status[ch].pin # 0
             /\ \A d \in Channels \ {ch} : ch_status[d].pin = ch_status[ch].pin => ch_status[ch].pin = 0

(* It owns its pin, but for the time in which it exchanges it for another;  *)
(* then no task reaches it.                                                 *)
Owns(ch) == ch_status[ch].mode # "Disabled" =>
              \/ pin_owner[ch_status[ch].pin] = ch_status[ch].mode
              \/ /\ pin_owner[ch_status[ch].pin] = "gpio" /\ Taking(ch)
                 /\ ~(ch_status[ch].mode = "Task" /\ Routed(ch))

(* Who has a pin is a channel of that pin and mode; a call fits the        *)
(* owners, and a configuration is careful.                                 *)
Owned(n) == pin_owner[n] # "gpio" =>
              \E ch \in Channels : ch_status[ch].pin = n /\ ch_status[ch].mode = pin_owner[n]

CallFits(e) == /\ e[1] \in Ends => CarefulConfig(e[2])
               /\ e[1] = "take" /\ LeavesPin(e[2].ch, e[2]) => pin_owner[ch_status[e[2].ch].pin] = "gpio"
               /\ e[1] = "task" => Routed(e[3]) \/ io_todo = <<e>>

(* The inductive invariant of the owners.                                  *)
OwnersInv ==
  /\ io_error = "none"
  /\ \A ch \in Channels : Apart(ch) /\ Owns(ch)
  /\ \A n \in Pins : Owned(n)
  /\ \A e \in Entries(io_todo) : CallFits(e)

(* Out of reset the pins are the GPIO's.                                   *)
LEMMA OwnersInitInv == IoInit => OwnersInv
<1> SUFFICES ASSUME IoInit PROVE OwnersInv
  OBVIOUS
<1>1. /\ io_error = "none" /\ \A n \in Pins : pin_owner[n] = "gpio"
      /\ \A ch \in Channels : ch_status[ch].mode = "Disabled" /\ ch_status[ch].pin = 0
  BY DEF IoInit, UnusedChannel
<1>2. Entries(io_todo) = {}
  BY OneEntry DEF IoInit
<1> QED BY <1>1, <1>2 DEF OwnersInv, Apart, Owns, Owned

(* A step in which no pin changes hands and no channel its mode.            *)
LEMMA StillOwners ==
  ASSUME IoTypeOK, OwnersInv, IoTypeOK', io_todo # <<>>, Head(io_todo)[1] \notin Ends,
         UNCHANGED <<pin_owner, io_error>>,
         \A ch \in Channels : ch_status'[ch].mode = ch_status[ch].mode /\ ch_status'[ch].pin = ch_status[ch].pin,
         NEW p \in Seq(IoEntry), io_todo' = p \o Tail(io_todo),
         \A e \in Entries(p) : e[1] \notin Ends /\ (e[1] = "task" => Routed(e[3]))
  PROVE  OwnersInv'
<1>1. /\ io_todo \in Seq(IoEntry) /\ io_todo' \in Seq(IoEntry) /\ Tail(io_todo) \in Seq(IoEntry)
      /\ Entries(io_todo) = {Head(io_todo)} \union Entries(Tail(io_todo))
      /\ Entries(io_todo') = Entries(p) \union Entries(Tail(io_todo))
  <2>1. io_todo \in Seq(IoEntry) /\ io_todo' \in Seq(IoEntry)
    BY DEF IoTypeOK
  <2>2. Tail(io_todo) \in Seq(IoEntry) /\ Entries(io_todo) = {Head(io_todo)} \union Entries(Tail(io_todo))
    BY <2>1, TakenOff
  <2> QED BY <2>1, <2>2, Joined
<1>2. \A e : e[1] = "take" /\ e \in Entries(io_todo) => e \in Entries(io_todo')
  BY <1>1 DEF Ends
<1>3. ASSUME NEW ch \in Channels PROVE Apart(ch)' /\ Owns(ch)'
  <2>1. Taking(ch) => Taking(ch)'
    BY <1>2 DEF Taking
  <2> QED BY <2>1 DEF OwnersInv, Apart, Owns
<1>4. ASSUME NEW n \in Pins PROVE Owned(n)'
  BY DEF OwnersInv, Owned
<1>5. ASSUME NEW e \in Entries(io_todo') PROVE CallFits(e)'
  <2>1. CASE e \in Entries(p)
    BY <2>1 DEF CallFits, Ends
  <2>2. CASE e \in Entries(Tail(io_todo))
    <3>1. CallFits(e) /\ e \in IoEntry
      BY <1>1, <2>2 DEF OwnersInv, Entries
    <3>2. e[1] \in Ends => e[2].ch \in Channels
      BY <3>1, EntryParts, ConfigParts
    <3>3. io_todo # <<e>>
      <4>1. SUFFICES ASSUME io_todo = <<e>> PROVE FALSE
        OBVIOUS
      <4>2. Tail(io_todo) = <<>>
        BY <4>1
      <4> QED BY <2>2, <4>2, OneEntry
    <3>4. e[1] = "take" /\ LeavesPin(e[2].ch, e[2])' => LeavesPin(e[2].ch, e[2])
      BY <3>2 DEF LeavesPin, Ends
    <3>5. e[1] \in Ends => CarefulConfig(e[2])'
      BY <3>1, <3>2 DEF CallFits, CarefulConfig
    <3> QED BY <3>1, <3>2, <3>3, <3>4, <3>5 DEF CallFits, Ends
  <2> QED BY <1>1, <1>5, <2>1, <2>2
<1> QED BY <1>3, <1>4, <1>5 DEF OwnersInv

(* The tasks that the PPI calls are those of its routes.                   *)
LEMMA RoutedCalls ==
  ASSUME NEW e \in IoEvent
  PROVE  \A x \in Entries(RoutedTasks(e)) : x[1] = "task" /\ Routed(x[3])
<1>1. ChannelRoutes[e] \in Seq(IoTask \X Channels)
  BY GpioteAssumption
<1>2. PICK l \in Nat : l = Len(ChannelRoutes[e])
  BY <1>1
<1>3. DOMAIN ChannelRoutes[e] = 1 .. l
  BY <1>1, <1>2
<1>5. RoutedTasks(e) = [i \in 1 .. l |-> <<"task", ChannelRoutes[e][i][1], ChannelRoutes[e][i][2]>>]
  BY <1>3 DEF RoutedTasks
<1>7. RoutedTasks(e) \in Seq(IoEntry)
  BY TaskCalls
<1>8. Len(RoutedTasks(e)) = l
  BY <1>5, <1>7
<1>9. ASSUME NEW i \in 1 .. l PROVE RoutedTasks(e)[i][1] = "task" /\ Routed(RoutedTasks(e)[i][3])
  <2>1. RoutedTasks(e)[i][1] = "task" /\ RoutedTasks(e)[i][3] = ChannelRoutes[e][i][2]
    BY <1>5
  <2>2. i \in DOMAIN ChannelRoutes[e]
    BY <1>3
  <2> QED BY <2>1, <2>2 DEF Routed
<1> QED BY <1>8, <1>9 DEF Entries

(* What an action leaves to be called before the rest: no change of owners, *)
(* the tasks of an event, and no change of an output unless it is one.      *)
Continues(p) ==
  /\ p \in Seq(IoEntry) /\ io_todo' = p \o Tail(io_todo)
  /\ \A e \in Entries(p) :
       /\ e[1] \notin Ends /\ (e[1] = "task" => Routed(e[3])) /\ (e[1] = "drive" => e[2] \in Targets)
       /\ Head(io_todo)[1] \notin {"outputs", "propagate"} => e[1] \notin {"propagate", "drive"}

(* The rest of a loop over pins is of the loop.                            *)
LEMMA LoopKept ==
  ASSUME NEW S \in SUBSET Pins, NEW V \in SUBSET Pins
  PROVE  /\ PinLoop(<<"notify", S>>) \in Seq(IoEntry)
         /\ \A e \in Entries(PinLoop(<<"notify", S>>)) : e[1] = "notify"
         /\ PinLoop(<<"propagate", S, V>>) \in Seq(IoEntry)
         /\ \A e \in Entries(PinLoop(<<"propagate", S, V>>)) : e[1] = "propagate"
<1>1. ASSUME NEW x, x[2] = S, S # {} => x \in IoEntry
      PROVE  PinLoop(x) \in Seq(IoEntry) /\ Entries(PinLoop(x)) \subseteq {x}
  BY <1>1, LoopCalls
<1>2. /\ <<"notify", S>>[2] = S /\ <<"notify", S>>[1] = "notify" /\ (S # {} => <<"notify", S>> \in IoEntry)
      /\ <<"propagate", S, V>>[2] = S /\ <<"propagate", S, V>>[1] = "propagate"
      /\ (S # {} => <<"propagate", S, V>> \in IoEntry)
  BY EntryForms
<1> QED BY <1>1, <1>2

(* The evaluation of the levels leaves calls of that kind.                 *)
LEMMA PinCalls ==
  ASSUME LevelsInv, EvalOutputs \/ PropagateOutput \/ EvalInput \/ EvalInputs \/ EvalSense
  PROVE  \E p : Continues(p)
<1>1. /\ IoTypeOK /\ io_todo \in Seq(IoEntry) /\ io_todo # <<>> /\ EndsAreLast(io_todo) /\ Head(io_todo) \in IoEntry
      /\ Tail(io_todo) \in Seq(IoEntry) /\ <<>> \o Tail(io_todo) = Tail(io_todo)
  <2>1. io_todo \in Seq(IoEntry) /\ IoTypeOK /\ EndsAreLast(io_todo)
    BY DEF LevelsInv, IoTypeOK
  <2>2. io_todo # <<>>
    BY DEF EvalOutputs, PropagateOutput, EvalInput, EvalInputs, EvalSense
  <2>3. Head(io_todo) \in IoEntry /\ Tail(io_todo) \in Seq(IoEntry)
    BY <2>1, <2>2, TakenOff
  <2> QED BY <2>1, <2>2, <2>3
<1>2. ASSUME io_todo' = Tail(io_todo) PROVE Continues(<<>>)
  BY <1>1, <1>2, OneEntry DEF Continues, Ends
<1>3. ASSUME NEW x, x \in {<<"outputs">>, <<"inputs">>, <<"sense">>}, io_todo' = <<x>> \o Tail(io_todo)
      PROVE  Continues(<<x>>)
  <2>1. x \in IoEntry /\ x[1] \notin {"take", "task", "propagate", "drive"}
    BY <1>3, EntryForms
  <2>2. <<x>> \in Seq(IoEntry) /\ Entries(<<x>>) = {x}
    BY <2>1, OneEntry
  <2> QED BY <1>3, <2>1, <2>2 DEF Continues, Ends
<1>4. CASE EvalOutputs
  <2>1. CASE io_todo' # Tail(io_todo)
    <3> DEFINE x == <<"propagate", Differing(Driven, O_level), Driven>>
               p == <<x, <<"inputs">>>>
    <3>1. io_todo' = p \o Tail(io_todo) /\ Driven # O_level /\ Head(io_todo)[1] = "outputs"
      BY <1>4, <2>1 DEF EvalOutputs, IoOp
    <3>2. x \in IoEntry /\ x[1] = "propagate" /\ <<"inputs">> \in IoEntry /\ <<"inputs">>[1] = "inputs"
      <4>1. Differing(Driven, O_level) \in (SUBSET Pins) \ {{}}
        BY <1>1, <3>1, DrivenPins DEF Differing, IoTypeOK
      <4> QED BY <4>1, DrivenPins, EntryForms
    <3> HIDE DEF x
    <3>3. p \in Seq(IoEntry) /\ Entries(p) = {x, <<"inputs">>}
      BY <3>2 DEF Entries
    <3> QED BY <3>1, <3>2, <3>3 DEF Continues, Ends
  <2> QED BY <1>2, <2>1
<1>5. CASE PropagateOutput
  <2> DEFINE pins == Head(io_todo)[2]
             values == Head(io_todo)[3]
             n == LowestOf(pins)
             x == <<"propagate", pins \ {n}, values>>
  <2>1. io_todo' = ShortDrives(n, n \in values) \o PinLoop(x) \o Tail(io_todo) /\ Head(io_todo)[1] = "propagate"
    BY <1>5 DEF PropagateOutput, IoOp
  <2>2. pins \in (SUBSET Pins) \ {{}} /\ values \in SUBSET Pins /\ n \in Pins
    BY <1>1, <2>1, EntryParts, LowestIsIn
  <2>3. PinLoop(x) \in Seq(IoEntry) /\ \A e \in Entries(PinLoop(x)) : e[1] = "propagate"
    <3>1. pins \ {n} \in SUBSET Pins
      BY <2>2
    <3> HIDE DEF n, pins, values
    <3> QED BY <2>2, <3>1, LoopKept
  <2>4. PICK v : v = (n \in values)
    OBVIOUS
  <2>5. v \in BOOLEAN
    BY <2>2, <2>4
  <2> HIDE DEF n, pins, x
  <2>6. ShortDrives(n, v) \in Seq(IoEntry) /\ \A e \in Entries(ShortDrives(n, v)) : e[1] = "drive" /\ e[2] \in Targets
    <3>1. /\ ShortDrives(n, v) \in Seq(IoEntry)
          /\ Entries(ShortDrives(n, v)) = {<<"drive", t, v>> : t \in Entries(Shorted[n])}
      BY <2>2, <2>5, DriveCalls
    <3>2. Shorted[n] \in Seq(Pins)
      BY <2>2, BoardAssumption
    <3>3. \A t \in Entries(Shorted[n]) : t \in Targets /\ <<"drive", t, v>>[1] = "drive" /\ <<"drive", t, v>>[2] = t
      BY <2>2, <3>2 DEF Entries, Targets, IsShort
    <3> QED BY <3>1, <3>3
  <2>7. PICK a, b : a = ShortDrives(n, n \in values) /\ b = PinLoop(x)
    OBVIOUS
  <2>8. /\ a \in Seq(IoEntry) /\ b \in Seq(IoEntry) /\ io_todo' = (a \o b) \o Tail(io_todo)
        /\ \A e \in Entries(a) : e[1] = "drive" /\ e[2] \in Targets /\ \A d \in Entries(b) : d[1] = "propagate"
    BY <2>1, <2>3, <2>4, <2>6, <2>7
  <2>9. a \o b \in Seq(IoEntry) /\ Entries(a \o b) = Entries(a) \union Entries(b)
    BY <2>8, Joined
  <2>10. \A e \in Entries(b) : e[1] = "propagate"
    BY <2>3, <2>7
  <2>11. Continues(a \o b)
    BY <2>1, <2>8, <2>9, <2>10 DEF Continues, Ends
  <2> QED BY <2>11
<1>6. CASE EvalInput
  BY <1>2, <1>3, <1>6 DEF EvalInput
<1>7. CASE EvalInputs
  <2> DEFINE S == Differing(IN_level', IN_level)
             x == <<"notify", S>>
  <2>1. io_todo' = PinLoop(x) \o <<<<"sense">>>> \o Tail(io_todo)
    BY <1>7 DEF EvalInputs
  <2>2. S \in SUBSET Pins
    BY <1>1, <1>7 DEF EvalInputs, IoTypeOK, EnabledInputs, Differing
  <2>3. PinLoop(x) \in Seq(IoEntry) /\ Entries(PinLoop(x)) \subseteq {x} /\ x[1] = "notify"
    <3>1. x[2] = S /\ x[1] = "notify"
      OBVIOUS
    <3>2. x[2] # {} => x \in IoEntry
      BY <2>2, <3>1, EntryForms
    <3> HIDE DEF x
    <3> QED BY <3>1, <3>2, LoopCalls
  <2> HIDE DEF x
  <2>4. PICK a, b : a = PinLoop(x) /\ b = <<<<"sense">>>>
    OBVIOUS
  <2>5. /\ b \in Seq(IoEntry) /\ Entries(b) = {<<"sense">>} /\ <<"sense">>[1] = "sense"
        /\ a \in Seq(IoEntry) /\ Entries(a) \subseteq {x} /\ io_todo' = (a \o b) \o Tail(io_todo)
    BY <2>1, <2>3, <2>4, EntryForms, OneEntry
  <2>6. a \o b \in Seq(IoEntry) /\ Entries(a \o b) = Entries(a) \union Entries(b)
    BY <2>5, Joined
  <2>7. Continues(a \o b)
    BY <2>3, <2>5, <2>6 DEF Continues, Ends
  <2> QED BY <2>7
<1>8. CASE EvalSense
  <2>1. PORT \in IoEvent
    BY DEF IoEvent
  <2>2. CASE io_todo' = Tail(io_todo)
    BY <1>2, <2>2
  <2>3. CASE io_todo' = RoutedTasks(PORT) \o Tail(io_todo)
    <3>1. \A e \in Entries(RoutedTasks(PORT)) : e[1] = "task" /\ Routed(e[3])
      BY <2>1, RoutedCalls
    <3>2. Continues(RoutedTasks(PORT))
      BY <2>1, <2>3, <3>1, TaskCalls DEF Continues, Ends
    <3> QED BY <3>2
  <2> QED BY <1>8, <2>2, <2>3 DEF EvalSense
<1> QED BY <1>4, <1>5, <1>6, <1>7, <1>8

(* It changes no owners.                                                   *)
LEMMA PinOwners ==
  ASSUME LevelsInv, OwnersInv, EvalOutputs \/ PropagateOutput \/ EvalInput \/ EvalInputs \/ EvalSense
  PROVE  OwnersInv'
<1>1. PICK p : Continues(p)
  BY PinCalls
<1>2. LevelsInv'
  BY EvalOutputsLevels, PropagateOutputLevels, EvalInputLevels, EvalInputsLevels, EvalSenseLevels
<1>3. io_todo # <<>> /\ Head(io_todo)[1] \notin Ends /\ UNCHANGED <<pin_owner, ch_status, io_error>>
  BY DEF EvalOutputs, PropagateOutput, EvalInput, EvalInputs, EvalSense, IoOp, pinCtl, Ends
<1> QED BY <1>1, <1>2, <1>3, StillOwners DEF Continues, LevelsInv

(* The pin "n" is notified to its channel; the rest of the loop is to do.    *)
NotifiesNext(n) ==
  /\ n \in Head(io_todo)[2]
  /\ \A m \in Head(io_todo)[2] \ {n} : \E e \in Entries(io_todo') : e[1] = "notify" /\ m \in e[2]
  /\ \/ pin_owner[n] # "Event" /\ UNCHANGED ch_status
     \/ pin_owner[n] = "Event" /\ \E ch \in ChannelsOf(n) :
          ch_status' = IF KeepsLevel(ch_status[ch], n \in IN_level)
                         THEN [ch_status EXCEPT ![ch].level = n \in IN_level] ELSE ch_status

(* A notification, unless nobody knows the pin.                             *)
LEMMA NotifyCalls ==
  ASSUME LevelsInv, Notify
  PROVE  \/ /\ io_error' # "none" /\ io_todo' = <<>>
            /\ \E n \in Pins : pin_owner[n] = "Event" /\ ChannelsOf(n) = {}
         \/ /\ UNCHANGED <<pin_owner, io_error>>
            /\ \A c \in Channels : ch_status'[c].mode = ch_status[c].mode /\ ch_status'[c].pin = ch_status[c].pin
            /\ \E p : Continues(p)
            /\ \E n \in Pins : NotifiesNext(n)
<1>1. /\ IoTypeOK /\ io_todo \in Seq(IoEntry) /\ io_todo # <<>> /\ Head(io_todo)[1] = "notify" /\ Head(io_todo) \in IoEntry
      /\ Tail(io_todo) \in Seq(IoEntry)
  BY TakenOff DEF Notify, IoOp, LevelsInv, IoTypeOK
<1> DEFINE pins == Head(io_todo)[2]
           n == LowestOf(pins)
           x == <<"notify", pins \ {n}>>
           l == PinLoop(x)
           ch == CHOOSE c \in ChannelsOf(n) : \A d \in ChannelsOf(n) : c <= d
           value == n \in IN_level
<1>3. pins \in (SUBSET Pins) \ {{}} /\ n \in Pins /\ n \in pins
  BY <1>1, EntryParts, LowestIsIn
<1>4. /\ l \in Seq(IoEntry) /\ \A e \in Entries(l) : e[1] = "notify"
      /\ pins \ {n} # {} => \E e \in Entries(l) : e[1] = "notify" /\ e[2] = pins \ {n}
  <2>1. pins \ {n} \in SUBSET Pins
    BY <1>3
  <2>2. x[1] = "notify" /\ x[2] = pins \ {n} /\ (x[2] # {} => x \in IoEntry)
    BY <2>1, EntryForms
  <2> HIDE DEF n, pins, x
  <2>3. PinLoop(x) \in Seq(IoEntry) /\ Entries(PinLoop(x)) = (IF x[2] = {} THEN {} ELSE {x})
    BY <2>2, LoopCalls
  <2> QED BY <2>2, <2>3
<1>5. /\ UNCHANGED pin_owner
      /\ \/ pin_owner[n] # "Event" /\ UNCHANGED <<ch_status, io_error>> /\ io_todo' = l \o Tail(io_todo)
         \/ pin_owner[n] = "Event" /\ ChannelsOf(n) = {} /\ io_error' # "none" /\ io_todo' = <<>>
         \/ /\ pin_owner[n] = "Event" /\ ChannelsOf(n) # {}
            /\ ch_status' = IF KeepsLevel(ch_status[ch], value)
                              THEN [ch_status EXCEPT ![ch].level = value] ELSE ch_status
            /\ \/ io_todo' = RoutedTasks(ch) \o (l \o Tail(io_todo))
               \/ io_todo' = l \o Tail(io_todo)
            /\ UNCHANGED io_error
  BY DEF Notify, pinCtl
<1> HIDE DEF l, ch, x
<1>2. io_todo' = l \o Tail(io_todo) => Continues(l)
  BY <1>4 DEF Continues, Ends
<1>9. ASSUME NEW p \in Seq(IoEntry), Entries(l) \subseteq Entries(p), io_todo' = p \o Tail(io_todo)
      PROVE  \A m \in pins \ {n} : \E e \in Entries(io_todo') : e[1] = "notify" /\ m \in e[2]
  <2>1. Entries(io_todo') = Entries(p) \union Entries(Tail(io_todo))
    BY <1>1, <1>9, Joined
  <2> HIDE DEF pins, n
  <2> QED BY <1>4, <1>9, <2>1
<1>10. ASSUME \A m \in pins \ {n} : \E e \in Entries(io_todo') : e[1] = "notify" /\ m \in e[2],
              \/ pin_owner[n] # "Event" /\ UNCHANGED ch_status
              \/ pin_owner[n] = "Event" /\ \E c \in ChannelsOf(n) :
                   ch_status' = IF KeepsLevel(ch_status[c], n \in IN_level)
                                  THEN [ch_status EXCEPT ![c].level = n \in IN_level] ELSE ch_status
       PROVE  NotifiesNext(n)
  <2>1. n \in Head(io_todo)[2] /\ \A m \in Head(io_todo)[2] \ {n} : \E e \in Entries(io_todo') : e[1] = "notify" /\ m \in e[2]
    BY <1>3, <1>10
  <2> HIDE DEF n, pins
  <2> QED BY <1>10, <2>1, Zenon DEF NotifiesNext
<1>6. CASE pin_owner[n] # "Event" /\ UNCHANGED <<ch_status, io_error>> /\ io_todo' = l \o Tail(io_todo)
  <2>1. NotifiesNext(n)
    <3>1. \A m \in pins \ {n} : \E e \in Entries(io_todo') : e[1] = "notify" /\ m \in e[2]
      BY <1>4, <1>6, <1>9
    <3> QED BY <1>6, <1>10, <3>1
  <2> QED BY <1>2, <1>3, <1>5, <1>6, <2>1
<1>7. CASE pin_owner[n] = "Event" /\ ChannelsOf(n) = {} /\ io_error' # "none" /\ io_todo' = <<>>
  BY <1>3, <1>7
<1>8. CASE /\ pin_owner[n] = "Event" /\ ChannelsOf(n) # {}
           /\ ch_status' = IF KeepsLevel(ch_status[ch], value)
                             THEN [ch_status EXCEPT ![ch].level = value] ELSE ch_status
           /\ \/ io_todo' = RoutedTasks(ch) \o (l \o Tail(io_todo))
              \/ io_todo' = l \o Tail(io_todo)
           /\ UNCHANGED io_error
  <2>1. ch \in ChannelsOf(n) /\ ch \in Channels
    BY <1>3, <1>8, FirstChannel DEF ChannelsOf, ch
  <2>5. (\A m \in pins \ {n} : \E e \in Entries(io_todo') : e[1] = "notify" /\ m \in e[2]) => NotifiesNext(n)
    <3>1. \E c \in ChannelsOf(n) :
            ch_status' = IF KeepsLevel(ch_status[c], n \in IN_level)
                           THEN [ch_status EXCEPT ![c].level = n \in IN_level] ELSE ch_status
      BY <1>8, <2>1
    <3> HIDE DEF n, pins
    <3> QED BY <1>8, <1>10, <3>1, Zenon
  <2>2. \A c \in Channels : ch_status'[c].mode = ch_status[c].mode /\ ch_status'[c].pin = ch_status[c].pin
    <3>1. ch_status' = ch_status \/ ch_status' = [ch_status EXCEPT ![ch].level = value]
      BY <1>8
    <3>2. ch_status[ch] \in Status /\ ch_status \in [Channels -> Status]
      BY <1>1, <2>1 DEF IoTypeOK, Status
    <3> HIDE DEF value
    <3> QED BY <2>1, <3>1, <3>2 DEF Status
  <2>3. CASE io_todo' = l \o Tail(io_todo)
    <3>1. NotifiesNext(n)
      BY <1>4, <1>9, <2>3, <2>5
    <3> QED BY <1>2, <1>3, <1>5, <1>8, <2>2, <2>3, <3>1
  <2>4. CASE io_todo' = RoutedTasks(ch) \o (l \o Tail(io_todo))
    <3>1. ch \in IoEvent
      BY <2>1 DEF IoEvent
    <3>2. PICK a : a = RoutedTasks(ch)
      OBVIOUS
    <3>3. a \in Seq(IoEntry) /\ \A e \in Entries(a) : e[1] = "task" /\ Routed(e[3])
      BY <3>1, <3>2, TaskCalls, RoutedCalls
    <3>4. a \o l \in Seq(IoEntry) /\ Entries(a \o l) = Entries(a) \union Entries(l)
      BY <1>4, <3>3, Joined
    <3>5. io_todo' = (a \o l) \o Tail(io_todo)
      <4>1. io_todo' = a \o (l \o Tail(io_todo))
        BY <2>4, <3>2
      <4>2. PICK t : t = Tail(io_todo)
        OBVIOUS
      <4> QED BY <1>1, <1>4, <3>3, <4>1, <4>2
    <3>6. Continues(a \o l)
      BY <1>4, <3>3, <3>4, <3>5 DEF Continues, Ends
    <3>7. NotifiesNext(n)
      BY <1>9, <2>5, <3>4, <3>5
    <3> QED BY <1>3, <1>5, <1>8, <2>2, <3>6, <3>7
  <2> QED BY <1>8, <2>3, <2>4
<1> QED BY <1>5, <1>6, <1>7, <1>8

(* A notification finds the channel of the pin.                            *)
LEMMA NotifyOwners ==
  ASSUME LevelsInv, OwnersInv, Notify
  PROVE  OwnersInv'
<1>1. IoTypeOK /\ IoTypeOK' /\ io_todo # <<>> /\ Head(io_todo)[1] \notin Ends
  BY NotifyLevels DEF LevelsInv, Notify, IoOp, Ends
<1>2. ~(\E n \in Pins : pin_owner[n] = "Event" /\ ChannelsOf(n) = {})
  BY DEF OwnersInv, Owned, ChannelsOf
<1> QED BY <1>1, <1>2, NotifyCalls, StillOwners DEF Continues, Ends

(* A task of a channel finds the pin in the channel's hands.               *)
LEMMA ChannelTaskOwners ==
  ASSUME LevelsInv, OwnersInv, ChannelTask
  PROVE  OwnersInv'
<1>1. /\ IoTypeOK /\ io_todo \in Seq(IoEntry) /\ io_todo # <<>> /\ Head(io_todo)[1] = "task" /\ Head(io_todo) \in IoEntry
      /\ Tail(io_todo) \in Seq(IoEntry) /\ Entries(io_todo) = {Head(io_todo)} \union Entries(Tail(io_todo))
  BY TakenOff DEF ChannelTask, IoOp, LevelsInv, IoTypeOK
<1>2. IoTypeOK'
  BY ChannelTaskLevels DEF LevelsInv
<1> DEFINE task == Head(io_todo)[2]
           ch == Head(io_todo)[3]
           status == ch_status[ch]
           level == LevelAfter(task, status)
           idle == status.mode # "Task" \/ (task = "OUT" /\ status.polarity = "None")
<1>3. task \in IoTask /\ ch \in Channels /\ status.pin \in Pins
  BY <1>1, EntryParts DEF IoTypeOK
<1>4. /\ UNCHANGED pin_owner
      /\ idle => UNCHANGED <<ch_status, io_error>> /\ io_todo' = Tail(io_todo)
      /\ ~idle => /\ status.mode = "Task" /\ ch_status' = [ch_status EXCEPT ![ch].level = level]
                  /\ pin_owner[status.pin] # "gpio" =>
                       io_todo' = <<<<"outputs">>>> \o Tail(io_todo) /\ UNCHANGED io_error
  BY DEF ChannelTask
<1> HIDE DEF level
<1>5. CASE idle
  <2>1. io_todo' = <<>> \o Tail(io_todo) /\ UNCHANGED <<ch_status, io_error>>
    <3>1. UNCHANGED <<ch_status, io_error>> /\ io_todo' = Tail(io_todo)
      BY <1>4, <1>5
    <3> HIDE DEF idle
    <3> QED BY <1>1, <3>1
  <2> QED BY <1>1, <1>2, <1>4, <2>1, OneEntry, StillOwners DEF Ends
<1>6. CASE ~idle
  <2>1. pin_owner[status.pin] = "Task"
    <3>1. Owns(ch) /\ CallFits(Head(io_todo)) /\ status.mode = "Task"
      BY <1>1, <1>3, <1>4, <1>6 DEF OwnersInv
    <3>2. Routed(ch) \/ io_todo = <<Head(io_todo)>>
      BY <1>1, <3>1 DEF CallFits
    <3>3. CASE Routed(ch)
      BY <3>1, <3>3 DEF Owns
    <3>4. CASE io_todo = <<Head(io_todo)>>
      <4>1. Entries(io_todo) = {Head(io_todo)}
        BY <1>1, <3>4, OneEntry
      <4>2. ~Taking(ch)
        BY <1>1, <4>1 DEF Taking
      <4> QED BY <3>1, <4>2 DEF Owns
    <3> QED BY <3>2, <3>3, <3>4
  <2>2. PICK p : p = <<<<"outputs">>>>
    OBVIOUS
  <2>3. io_todo' = p \o Tail(io_todo) /\ UNCHANGED io_error
    BY <1>4, <1>6, <2>1, <2>2
  <2>4. p \in Seq(IoEntry) /\ \A e \in Entries(p) : e[1] \notin Ends /\ (e[1] = "task" => Routed(e[3]))
    <3>1. p \in Seq(IoEntry) /\ Entries(p) = {<<"outputs">>}
      BY <2>2, EntryForms, OneEntry
    <3>2. <<"outputs">>[1] = "outputs"
      OBVIOUS
    <3> QED BY <3>1, <3>2 DEF Ends
  <2>5. \A c \in Channels : ch_status'[c].mode = ch_status[c].mode /\ ch_status'[c].pin = ch_status[c].pin
    <3>1. ch_status' = [ch_status EXCEPT ![ch].level = level]
      BY <1>4, <1>6
    <3> HIDE DEF idle
    <3> QED BY <1>1, <1>3, <3>1 DEF IoTypeOK
  <2> HIDE DEF idle
  <2> QED BY <1>1, <1>2, <1>4, <2>3, <2>4, <2>5, StillOwners DEF Ends
<1> QED BY <1>5, <1>6

(* The write to CONFIG that gives a pin back leaves a channel without its  *)
(* pin, which takes another next.                                          *)
LEMMA ReleasePinOwners ==
  ASSUME LevelsInv, OwnersInv, ReleasePin
  PROVE  OwnersInv'
<1>1. /\ IoTypeOK /\ io_todo \in Seq(IoEntry) /\ io_todo # <<>> /\ EndsAreLast(io_todo)
      /\ Head(io_todo)[1] = "config" /\ Head(io_todo) \in IoEntry
  BY TakenOff DEF ReleasePin, IoOp, LevelsInv, IoTypeOK
<1> DEFINE config == Head(io_todo)[2]
           x == <<"take", config>>
           old == ch_status[config.ch]
<1>2. config \in ChannelConfigs /\ Tail(io_todo) = <<>> /\ config.ch \in Channels /\ old.pin \in Pins
  BY <1>1, EntryParts, OrderKept, ConfigParts DEF Ends, IoTypeOK
<1>3. UNCHANGED <<ch_status, io_error>>
  BY DEF ReleasePin
<1>4. <<x>> \in Seq(IoEntry) /\ EndsAreLast(<<x>>) /\ Entries(<<x>>) = {x} /\ x[1] = "take" /\ x[2] = config
  BY <1>2, EntryForms, OneEntry DEF Ends
<1>5. Entries(io_todo) = {Head(io_todo)}
  BY <1>1, <1>2, TakenOff, OneEntry
<1>6. \A ch : ~Taking(ch)
  BY <1>1, <1>5 DEF Taking
<1>7. \A ch \in Channels : ch_status[ch].mode # "Disabled" => pin_owner[ch_status[ch].pin] = ch_status[ch].mode
  BY <1>6 DEF OwnersInv, Owns
<1>8. \A ch \in Channels : Apart(ch)'
  BY <1>3 DEF OwnersInv, Apart
<1>11. ASSUME NEW c, c = config PROVE CarefulConfig(c) /\ CarefulConfig(c)'
  <2>1. CallFits(Head(io_todo))
    BY <1>5 DEF OwnersInv
  <2>2. CarefulConfig(c)
    BY <1>1, <1>11, <2>1 DEF CallFits, Ends
  <2> QED BY <1>3, <2>2 DEF CarefulConfig
<1>9. CASE LeavesPin(config.ch, config)
  <2>1. /\ pin_owner' = [pin_owner EXCEPT ![old.pin] = "gpio"]
        /\ io_todo' = <<<<"outputs">>, <<"inputs">>, x>> \o <<>>
    BY <1>2, <1>9 DEF ReleasePin
  <2> HIDE DEF x, config
  <2>2. PICK t : t = <<x>>
    OBVIOUS
  <2>3. io_todo' = <<<<"outputs">>, <<"inputs">>>> \o t
    <3>1. \A a, b, c : <<a, b, c>> \o <<>> = <<a, b>> \o <<c>>
      OBVIOUS
    <3> QED BY <2>1, <2>2, <3>1
  <2>4. Entries(io_todo') = {<<"outputs">>, <<"inputs">>, x}
    <3>1. t \in Seq(IoEntry) /\ EndsAreLast(t) /\ Entries(t) = {x}
      BY <1>4, <2>2
    <3>2. Entries(io_todo') = {<<"outputs">>, <<"inputs">>} \union Entries(t)
      BY <2>3, <3>1, OwnerCalls
    <3> QED BY <3>1, <3>2
  <2>5. /\ \A n \in Pins : pin_owner'[n] = IF n = old.pin THEN "gpio" ELSE pin_owner[n]
    BY <1>1, <1>2, <2>1 DEF IoTypeOK
  <2>6. ASSUME NEW ch, ch = config.ch PROVE Taking(ch)'
    <3>1. x \in Entries(io_todo') /\ x[1] = "take" /\ x[2].ch = ch
      BY <1>4, <2>4, <2>6
    <3> QED BY <3>1 DEF Taking
  <2>7. ASSUME NEW ch \in Channels PROVE Owns(ch)'
    <3>1. SUFFICES ASSUME ch_status[ch].mode # "Disabled" PROVE Owns(ch)'
      BY <1>3 DEF Owns
    <3>2. /\ ch_status[ch].pin \in Pins /\ pin_owner[ch_status[ch].pin] = ch_status[ch].mode
      BY <1>1, <1>7, <3>1 DEF IoTypeOK
    <3>4. CASE ch = config.ch
      <4>1. ~(ch_status[ch].mode = "Task" /\ Routed(ch))
        BY <1>9, <1>11, <3>4 DEF CarefulConfig, LeavesPin
      <4> QED BY <1>3, <2>5, <2>6, <3>2, <3>4, <4>1 DEF Owns
    <3>5. CASE ch # config.ch
      <4>1. ch_status[ch].pin # old.pin
        BY <1>2, <3>1, <3>5 DEF OwnersInv, Apart
      <4> QED BY <1>3, <2>5, <3>2, <4>1 DEF Owns
    <3> QED BY <3>4, <3>5
  <2>8. ASSUME NEW n \in Pins PROVE Owned(n)'
    BY <1>3, <2>5 DEF Owned, OwnersInv
  <2>9. ASSUME NEW e \in Entries(io_todo') PROVE CallFits(e)'
    <3>1. <<"outputs">>[1] = "outputs" /\ <<"inputs">>[1] = "inputs"
      OBVIOUS
    <3>2. CASE e = x
      <4>1. CarefulConfig(e[2])'
        <5>1. e[2] = config
          BY <1>4, <3>2
        <5> QED BY <1>11, <5>1
      <4>2. pin_owner'[ch_status'[e[2].ch].pin] = "gpio"
        BY <1>2, <1>3, <1>4, <2>5, <3>2
      <4>3. e[1] = "take"
        BY <1>4, <3>2
      <4> QED BY <4>1, <4>2, <4>3 DEF CallFits
    <3>3. CASE e \in {<<"outputs">>, <<"inputs">>}
      BY <3>1, <3>3 DEF CallFits, Ends
    <3> QED BY <2>4, <2>9, <3>2, <3>3
  <2> QED BY <1>3, <1>8, <2>7, <2>8, <2>9 DEF OwnersInv
<1>10. CASE ~LeavesPin(config.ch, config)
  <2>1. UNCHANGED pin_owner /\ io_todo' = <<x>>
    <3>1. UNCHANGED pin_owner /\ io_todo' = <<x>> \o <<>>
      BY <1>2, <1>10 DEF ReleasePin
    <3> HIDE DEF x
    <3> QED BY <3>1
  <2>2. \A ch \in Channels : Owns(ch)'
    BY <1>3, <1>7, <2>1 DEF Owns
  <2>3. \A n \in Pins : Owned(n)'
    BY <1>3, <2>1 DEF Owned, OwnersInv
  <2>4. CallFits(x)'
    BY <1>2, <1>3, <1>4, <1>10, <1>11, <2>1 DEF CallFits, LeavesPin, Ends
  <2> QED BY <1>3, <1>4, <1>8, <2>1, <2>2, <2>3, <2>4 DEF OwnersInv
<1> QED BY <1>9, <1>10

(* The write to CONFIG ends with the channel having its pin.               *)
LEMMA TakePinOwners ==
  ASSUME LevelsInv, OwnersInv, TakePin
  PROVE  OwnersInv'
<1>1. /\ IoTypeOK /\ io_todo \in Seq(IoEntry) /\ io_todo # <<>> /\ EndsAreLast(io_todo)
      /\ Head(io_todo)[1] = "take" /\ Head(io_todo) \in IoEntry
  BY TakenOff DEF TakePin, IoOp, LevelsInv, IoTypeOK
<1> DEFINE config == Head(io_todo)[2]
           old == ch_status[config.ch]
<1>2. /\ config \in ChannelConfigs /\ Tail(io_todo) = <<>> /\ config.ch \in Channels /\ old.pin \in Pins /\ config.pin \in Pins
      /\ config.mode \in {"Disabled", "Event", "Task"}
  BY <1>1, EntryParts, OrderKept, ConfigParts DEF Ends, IoTypeOK
<1>3. /\ UNCHANGED io_error
      /\ \A ch \in Channels : /\ ch = config.ch => ch_status'[ch].mode = config.mode /\ ch_status'[ch].pin = config.pin
                              /\ ch # config.ch => ch_status'[ch] = ch_status[ch]
  <2>1. \E level : ch_status' = [ch_status EXCEPT ![config.ch] =
              [mode |-> config.mode, pin |-> config.pin, polarity |-> config.polarity, level |-> level]]
    BY DEF TakePin
  <2> QED BY <1>1, <1>2, <2>1 DEF TakePin, IoTypeOK
<1>4. Entries(io_todo) = {Head(io_todo)}
  BY <1>1, <1>2, TakenOff, OneEntry
<1>5. CallFits(Head(io_todo))
  BY <1>4 DEF OwnersInv
<1>6. (LeavesPin(config.ch, config) => pin_owner[old.pin] = "gpio") /\ CarefulConfig(config)
  BY <1>1, <1>5 DEF CallFits, Ends
<1>7. ASSUME NEW ch \in Channels PROVE Apart(ch)'
  <2>1. CASE ch = config.ch
    BY <1>3, <1>6, <2>1 DEF Apart, CarefulConfig
  <2>2. CASE ch # config.ch
    <3>1. ch_status[ch].pin # config.pin /\ Apart(ch)
      BY <1>6, <2>2 DEF CarefulConfig, OwnersInv
    <3> QED BY <1>2, <1>3, <2>2, <3>1 DEF Apart
  <2> QED BY <2>1, <2>2
<1>8. ASSUME NEW ch \in Channels, ch # config.ch, ch_status[ch].mode # "Disabled"
      PROVE  /\ pin_owner[ch_status[ch].pin] = ch_status[ch].mode
             /\ ch_status[ch].pin # config.pin /\ ch_status[ch].pin \in Pins
  <2>1. ~Taking(ch)
    BY <1>4, <1>8 DEF Taking
  <2>2. Owns(ch) /\ ch_status[ch].pin # config.pin
    BY <1>6, <1>8 DEF OwnersInv, CarefulConfig
  <2> QED BY <1>1, <1>8, <2>1, <2>2 DEF Owns, IoTypeOK
<1>9. ASSUME NEW n \in Pins, pin_owner[n] # "gpio", config.mode = "Disabled" \/ n # config.pin
      PROVE  \E ch \in Channels : ch # config.ch /\ ch_status[ch].pin = n /\ ch_status[ch].mode = pin_owner[n]
  <2>1. PICK ch \in Channels : ch_status[ch].pin = n /\ ch_status[ch].mode = pin_owner[n]
    BY <1>9 DEF OwnersInv, Owned
  <2>2. ASSUME ch = config.ch PROVE FALSE
    <3>1. ~LeavesPin(config.ch, config)
      BY <1>6, <1>9, <2>1, <2>2
    <3>2. config.pin = n /\ (config.mode = "Disabled" => ch_status[ch].mode = "Disabled")
      BY <2>1, <2>2, <3>1 DEF LeavesPin
    <3>3. old.mode = "Disabled"
      BY <1>9, <2>2, <3>2
    <3>4. pin_owner[n] = "Disabled"
      BY <2>1, <2>2, <3>3
    <3> QED BY <1>1, <3>4 DEF IoTypeOK
  <2> QED BY <2>1, <2>2
<1>10. CASE config.mode = "Disabled"
  <2>1. UNCHANGED pin_owner /\ io_todo' = <<>>
    BY <1>2, <1>10 DEF TakePin, pinCtl
  <2>2. \A ch \in Channels : Owns(ch)'
    BY <1>3, <1>8, <1>10, <2>1 DEF Owns
  <2>3. \A n \in Pins : Owned(n)'
    BY <1>3, <1>9, <1>10, <2>1 DEF Owned
  <2>4. Entries(io_todo') = {}
    BY <2>1, OneEntry
  <2> QED BY <1>3, <1>7, <2>2, <2>3, <2>4 DEF OwnersInv
<1>11. CASE config.mode # "Disabled"
  <2>1. /\ pin_owner' = [pin_owner EXCEPT ![config.pin] = config.mode]
        /\ io_todo' = <<<<"outputs">>, <<"inputs">>>> \o Tail(io_todo)
    BY <1>11 DEF TakePin
  <2>2. \A n \in Pins : pin_owner'[n] = IF n = config.pin THEN config.mode ELSE pin_owner[n]
    BY <1>1, <1>2, <2>1 DEF IoTypeOK
  <2>3. \A ch \in Channels : Owns(ch)'
    BY <1>2, <1>3, <1>8, <2>2 DEF Owns
  <2>4. ASSUME NEW n \in Pins PROVE Owned(n)'
    <3>1. CASE n = config.pin
      BY <1>2, <1>3, <2>2, <3>1 DEF Owned
    <3>2. CASE n # config.pin
      BY <1>3, <1>9, <2>2, <3>2 DEF Owned
    <3> QED BY <3>1, <3>2
  <2>5. \A e \in Entries(io_todo') : CallFits(e)'
    <3>1. Tail(io_todo) \in Seq(IoEntry) /\ EndsAreLast(Tail(io_todo)) /\ Entries(Tail(io_todo)) = {}
      BY <1>2, OneEntry
    <3>2. Entries(io_todo') = {<<"outputs">>, <<"inputs">>} \union Entries(Tail(io_todo))
      BY <2>1, <3>1, OwnerCalls
    <3>3. <<"outputs">>[1] = "outputs" /\ <<"inputs">>[1] = "inputs"
      OBVIOUS
    <3> QED BY <3>1, <3>2, <3>3 DEF CallFits, Ends
  <2> QED BY <1>3, <1>7, <2>3, <2>4, <2>5 DEF OwnersInv
<1> QED BY <1>10, <1>11

(* What the software and the world call.                                    *)
LEMMA SoftwareCalls ==
  ASSUME IoSoftware, NEW e \in Entries(io_todo')
  PROVE  /\ e[1] \notin {"take", "propagate", "notify"}
         /\ e[1] = "task" => Routed(e[3]) \/ io_todo' = <<e>>
         /\ e[1] = "drive" => io_todo' = <<e>> /\ e[2] \in TestPins
         /\ e[1] = "config" /\ CarefulSoftware => CarefulConfig(e[2])
<1>1. ASSUME NEW x \in IoEntry, io_todo' = <<x>>, x[1] \notin {"take", "propagate", "notify"},
             x[1] = "drive" => x[2] \in TestPins,
             x[1] = "config" /\ CarefulSoftware => CarefulConfig(x[2])
      PROVE  /\ e[1] \notin {"take", "propagate", "notify"}
             /\ e[1] = "task" => io_todo' = <<e>>
             /\ e[1] = "drive" => io_todo' = <<e>> /\ e[2] \in TestPins
             /\ e[1] = "config" /\ CarefulSoftware => CarefulConfig(e[2])
  <2>1. e = x
    BY <1>1, OneEntry
  <2> QED BY <1>1, <2>1
<1>2. <<"outputs">>[1] = "outputs" /\ <<"inputs">>[1] = "inputs" /\ <<"sense">>[1] = "sense"
  OBVIOUS
<1>3. CASE SoftwareOutputs \/ SoftwareDetectMode
  BY <1>1, <1>2, <1>3, EntryForms DEF SoftwareOutputs, SoftwareDetectMode
<1>4. CASE SoftwarePinCnf
  BY <1>2, <1>4, PinCnfCalls
<1>5. CASE SoftwareLatch
  <2>1. PORT \in IoEvent
    BY DEF IoEvent
  <2>2. CASE io_todo' = RoutedTasks(PORT)
    <3>1. e[1] = "task" /\ Routed(e[3])
      BY <2>1, <2>2, RoutedCalls
    <3> QED BY <3>1
  <2>3. CASE io_todo' = io_todo
    BY <2>3, OneEntry DEF IoSoftware
  <2> QED BY <1>5, <2>2, <2>3 DEF SoftwareLatch
<1>6. CASE SoftwareGpiote
  <2>1. \A config \in ChannelConfigs : /\ <<"config", config>> \in IoEntry /\ <<"config", config>>[1] = "config"
                                       /\ <<"config", config>>[2] = config
    BY EntryForms DEF Ends
  <2>2. \A task \in IoTask, ch \in Channels : <<"task", task, ch>> \in IoEntry /\ <<"task", task, ch>>[1] = "task"
    BY EntryForms
  <2>3. CASE \E config \in ChannelConfigs : /\ CarefulSoftware => CarefulConfig(config)
                                            /\ io_todo' = <<<<"config", config>>>>
    BY <1>1, <2>1, <2>3
  <2>4. CASE \E task \in IoTask, ch \in Channels : io_todo' = <<<<"task", task, ch>>>>
    BY <1>1, <2>2, <2>4
  <2> QED BY <1>6, <2>3, <2>4 DEF SoftwareGpiote
<1>7. CASE SoftwareGpioteInterrupts
  BY <1>7, OneEntry DEF SoftwareGpioteInterrupts, IoSoftware
<1>8. CASE TestDrives
  <2>1. \A n \in Pins, v \in BOOLEAN : /\ <<"drive", n, v>> \in IoEntry /\ <<"drive", n, v>>[1] = "drive"
                                     /\ <<"drive", n, v>>[2] = n
    BY EntryForms
  <2>2. TestPins \subseteq Pins
    BY BoardAssumption
  <2> QED BY <1>1, <1>8, <2>1, <2>2 DEF TestDrives
<1> QED BY <1>3, <1>4, <1>5, <1>6, <1>7, <1>8 DEF IoSoftware

(* What the software calls changes no owner before it is made.             *)
LEMMA SoftwareOwners ==
  ASSUME CarefulSoftware, LevelsInv, OwnersInv, IoSoftware
  PROVE  OwnersInv'
<1>1. UNCHANGED <<pin_owner, ch_status, io_error>> /\ io_todo = <<>>
  BY DEF IoSoftware, SoftwareOutputs, SoftwarePinCnf, SoftwareDetectMode, SoftwareLatch, SoftwareGpiote,
         SoftwareGpioteInterrupts, TestDrives, pinCtl
<1>2. \A ch : ~Taking(ch)
  BY <1>1, OneEntry DEF Taking
<1>3. /\ \A ch \in Channels : Apart(ch)' /\ Owns(ch)'
      /\ \A n \in Pins : Owned(n)'
  BY <1>1, <1>2 DEF OwnersInv, Apart, Owns, Owned
<1>4. \A e \in Entries(io_todo') : CallFits(e)'
  <2>1. ASSUME NEW e \in Entries(io_todo'), e[1] \in Ends PROVE CarefulConfig(e[2])'
    <3>1. CarefulConfig(e[2])
      BY <2>1, SoftwareCalls DEF Ends
    <3> QED BY <1>1, <3>1 DEF CarefulConfig
  <2> QED BY <2>1, SoftwareCalls DEF CallFits
<1> QED BY <1>1, <1>3, <1>4 DEF OwnersInv

(* In every state, of a careful software: each channel has its pin but     *)
(* while it exchanges it, and no "Programming error" ends the simulation.  *)
THEOREM OwnersInvariant == CarefulSoftware => (IoSpec => []OwnersInv)
<1> SUFFICES ASSUME CarefulSoftware PROVE IoSpec => []OwnersInv
  OBVIOUS
<1>1. LevelsInv /\ OwnersInv /\ [IoNext]_ioVars => OwnersInv'
  <2> SUFFICES ASSUME LevelsInv, OwnersInv, [IoNext]_ioVars PROVE OwnersInv'
    OBVIOUS
  <2>1. CASE UNCHANGED ioVars
    <3>1. UNCHANGED <<pin_owner, ch_status, io_todo, io_error>>
      BY <2>1 DEF ioVars, pinCtl
    <3> QED BY <3>1 DEF OwnersInv, Apart, Owns, Owned, CallFits, CarefulConfig, Taking, LeavesPin
  <2> QED BY <2>1, PinOwners, NotifyOwners, ChannelTaskOwners, ReleasePinOwners, TakePinOwners, SoftwareOwners
          DEF IoNext
<1> QED BY <1>1, OwnersInitInv, LevelsInvariant, PTL DEF IoSpec

(* The channels own their pins once the last call returns                  *)
(* (ChannelsOwnTheirPins, NRF_GPIO.c:251-255, NRF_GPIOTE.c:173), for every *)
(* board and every software that is careful: also when pins move from one  *)
(* channel to another, and while tasks come in the middle of that.         *)
THEOREM ChannelsOwn == CarefulSoftware => (IoSpec => []ChannelsOwnTheirPins)
<1>1. OwnersInv => ChannelsOwnTheirPins
  <2> SUFFICES ASSUME OwnersInv, io_todo = <<>> PROVE ChannelsOwnTheirPins
    BY DEF ChannelsOwnTheirPins
  <2>1. \A ch : ~Taking(ch)
    BY OneEntry DEF Taking
  <2> QED BY <2>1 DEF OwnersInv, Owns, ChannelsOwnTheirPins
<1> QED BY <1>1, OwnersInvariant, PTL

-----------------------------------------------------------------------------
(* The wires.                                                              *)

(* The pins that channels can drive. Shorts are from outputs to inputs.     *)
ChannelPins == {c.pin : c \in {d \in ChannelConfigs : d.mode = "Task"}}
OutputsToInputs == \A t \in Targets : t \notin OutputPins /\ t \notin ChannelPins

(* A board on which an input follows the output that it is wired to: wires *)
(* from outputs to inputs, as many as one likes from an output that only    *)
(* the GPIO drives, one from an output that a channel can drive, which the  *)
(* PPI can change in the middle of the loop over its wires; and no two      *)
(* outputs on one input.                                                    *)
CarefulBoard ==
  /\ OutputsToInputs
  /\ \A n \in ChannelPins : Len(Shorted[n]) <= 1
  /\ \A m, n, t \in Pins : IsShort(m, t) /\ IsShort(n, t) => m = n

(* At most one pin, or pins of the GPIO; the pins whose output is about to *)
(* change, those that are to be driven, and those of which a change waits   *)
(* to be propagated.                                                        *)
AtMostOne(S) == \A m, n \in S : m = n
OfGpio(S)    == \A n \in S : pin_owner[n] = "gpio"
OutDiff      == Differing(Driven, O_level)
Drives(t, s) == \E e \in Entries(s) : e[1] = "drive" /\ e[2] = t
Waits(n, s)  == \E e \in Entries(s) : e[1] = "propagate" /\ n \in e[2]

(* The outputs are those that the software and the channels can drive.      *)
KnownOutputs == DIR \subseteq OutputPins /\ \A n \in Pins : pin_owner[n] = "Task" => n \in ChannelPins

(* The outputs that are about to change are one, or the software's, and no  *)
(* change of theirs waits to be propagated, in the loops over pins and over *)
(* wires.                                                                   *)
ChangesAreClear(s) ==
  s # <<>> /\ Head(s)[1] = "outputs" =>
    /\ AtMostOne(OutDiff) \/ OfGpio(OutDiff)
    /\ \A e \in Later(s) : e[1] = "propagate" => e[2] \intersect OutDiff = {}
    /\ \A e \in Later(s) : e[1] = "drive" => \A n \in OutDiff : ~IsShort(n, e[2])

(* What waits to be propagated is the level of now, and a change of the     *)
(* software if it is not the next.                                          *)
PropagationFits(s) ==
  /\ \A e \in Entries(s) : e[1] = "propagate" => \A n \in e[2] : n \in e[3] <=> n \in O_level
  /\ \A e \in Later(s) : e[1] = "propagate" => OfGpio(e[2])
  /\ s # <<>> /\ Head(s)[1] = "propagate" => AtMostOne(Head(s)[2]) \/ OfGpio(Head(s)[2])

(* The level that an output drives is its level; what comes between does    *)
(* not change it.                                                           *)
DriveFits(s) ==
  /\ \A e \in Entries(s) : e[1] = "drive" =>
       \A n \in Pins : IsShort(n, e[2]) /\ e[2] \notin TestPins => (e[3] <=> n \in O_level)
  /\ \A e \in Later(s) : e[1] = "drive" => \A n \in Pins : IsShort(n, e[2]) => pin_owner[n] # "Task"

(* A shorted input has the level of its output, but for what remains to be *)
(* propagated or driven.                                                   *)
ShortsAgree(s) ==
  \A n, t \in Pins : IsShort(n, t) /\ t \notin TestPins =>
    \/ t \in IO_level <=> n \in O_level
    \/ Waits(n, s)
    \/ Drives(t, s)

(* The inductive invariant of the wires.                                   *)
ShortsInv ==
  /\ ChangesAreClear(io_todo) /\ PropagationFits(io_todo) /\ DriveFits(io_todo)
  /\ io_error = "none" => ShortsAgree(io_todo)

(* No step makes an output of another pin.                                 *)
LEMMA OutputsStep ==
  ASSUME LevelsInv, KnownOutputs, [IoNext]_ioVars
  PROVE  KnownOutputs'
<1>1. DIR' \subseteq OutputPins
  BY DEF KnownOutputs, IoNext, EvalOutputs, PropagateOutput, EvalInput, EvalInputs, EvalSense, Notify, ChannelTask,
         ReleasePin, TakePin, IoSoftware, SoftwareOutputs, SoftwarePinCnf, SoftwareDetectMode, SoftwareLatch,
         SoftwareGpiote, SoftwareGpioteInterrupts, TestDrives, ioVars, pinCfg, Put
<1>2. CASE UNCHANGED pin_owner
  BY <1>1, <1>2 DEF KnownOutputs
<1>3. CASE ReleasePin
  <2>1. \E n : pin_owner' = [pin_owner EXCEPT ![n] = "gpio"] \/ pin_owner' = pin_owner
    BY <1>3 DEF ReleasePin
  <2> QED BY <1>1, <2>1 DEF KnownOutputs, LevelsInv, IoTypeOK
<1>4. CASE TakePin
  <2>1. PICK config : config = Head(io_todo)[2]
    OBVIOUS
  <2>2. /\ pin_owner' = [pin_owner EXCEPT ![config.pin] = config.mode] \/ pin_owner' = pin_owner
        /\ io_todo # <<>> /\ Head(io_todo)[1] = "take"
    BY <1>4, <2>1 DEF TakePin, IoOp, pinCtl
  <2>3. config \in ChannelConfigs
    <3>1. io_todo \in Seq(IoEntry)
      BY DEF LevelsInv, IoTypeOK
    <3> QED BY <2>1, <2>2, <3>1, TakenOff, EntryParts DEF Ends
  <2>4. ASSUME NEW n \in Pins, pin_owner'[n] = "Task" PROVE n \in ChannelPins
    <3>1. pin_owner[n] = "Task" \/ (n = config.pin /\ config.mode = "Task")
      BY <2>2, <2>4 DEF LevelsInv, IoTypeOK
    <3> QED BY <2>3, <3>1 DEF KnownOutputs, ChannelPins
  <2> QED BY <1>1, <2>4 DEF KnownOutputs
<1> QED BY <1>2, <1>3, <1>4
        DEF IoNext, EvalOutputs, PropagateOutput, EvalInput, EvalInputs, EvalSense, Notify, ChannelTask,
            IoSoftware, SoftwareOutputs, SoftwarePinCnf, SoftwareDetectMode, SoftwareLatch,
            SoftwareGpiote, SoftwareGpioteInterrupts, TestDrives, ioVars, pinCtl

(* The outputs are always those pins.                                      *)
THEOREM OutputsInvariant == IoSpec => []KnownOutputs
<1>1. IoInit => KnownOutputs
  BY DEF IoInit, KnownOutputs
<1>2. LevelsInv /\ KnownOutputs /\ [IoNext]_ioVars => KnownOutputs'
  BY OutputsStep
<1> QED BY <1>1, <1>2, LevelsInvariant, PTL DEF IoSpec

(* Out of reset every level is low.                                        *)
LEMMA ShortsInitInv == IoInit => ShortsInv
<1> SUFFICES ASSUME IoInit PROVE ShortsInv
  OBVIOUS
<1>1. /\ io_todo = <<>> /\ DIR = {} /\ O_level = {} /\ IO_level = {} /\ \A n \in Pins : pin_owner[n] = "gpio"
  BY DEF IoInit
<1> QED BY <1>1, OneEntry DEF ShortsInv, ChangesAreClear, PropagationFits, DriveFits, ShortsAgree

(* A step that changes no output, does not propagate a change and leaves    *)
(* nothing else to be propagated or driven.                                 *)
LEMMA StillShorts ==
  ASSUME LevelsInv, ShortsInv, LevelsInv', io_todo # <<>>, Head(io_todo)[1] # "propagate",
         UNCHANGED <<O_level, pin_owner, DIR>>,
         NEW p \in Seq(IoEntry), io_todo' = p \o Tail(io_todo),
         \A e \in Entries(p) : e[1] \notin {"propagate", "drive"},
         /\ AtMostOne(OutDiff')
         /\ \A e \in Entries(Tail(io_todo)) : e[1] = "propagate" => e[2] \intersect OutDiff' = {}
         /\ \A e \in Entries(Tail(io_todo)) : e[1] = "drive" => \A n \in OutDiff' : ~IsShort(n, e[2]),
         io_error' = "none" => io_error = "none",
         \A n, t \in Pins : IsShort(n, t) /\ t \notin TestPins =>
           \/ t \in IO_level' <=> t \in IO_level
           \/ t \in IO_level' <=> n \in O_level,
         Head(io_todo)[1] = "drive" => (Head(io_todo)[2] \in Targets \ TestPins => (Head(io_todo)[2] \in IO_level' <=> Head(io_todo)[3]))
  PROVE  ShortsInv'
<1>1. /\ io_todo \in Seq(IoEntry) /\ io_todo' \in Seq(IoEntry) /\ Tail(io_todo) \in Seq(IoEntry) /\ Head(io_todo) \in IoEntry
      /\ Entries(io_todo) = {Head(io_todo)} \union Entries(Tail(io_todo)) /\ Later(io_todo) = Entries(Tail(io_todo))
      /\ Later(Tail(io_todo)) \subseteq Entries(Tail(io_todo))
  <2>1. io_todo \in Seq(IoEntry) /\ io_todo' \in Seq(IoEntry)
    BY DEF LevelsInv, IoTypeOK
  <2> QED BY <2>1, TakenOff
<1>2. /\ Entries(io_todo') = Entries(p) \union Entries(Tail(io_todo))
      /\ Later(io_todo') \subseteq Entries(io_todo')
      /\ io_todo' # <<>> => Head(io_todo') \in Entries(io_todo')
  <2>1. Later(io_todo') \subseteq Entries(io_todo') /\ (io_todo' # <<>> => Head(io_todo') \in Entries(io_todo'))
    <3>1. CASE io_todo' = <<>>
      BY <3>1, OneEntry
    <3>2. CASE io_todo' # <<>>
      <4>1. /\ Entries(io_todo') = {Head(io_todo')} \union Entries(Tail(io_todo'))
            /\ Later(io_todo') = Entries(Tail(io_todo'))
        BY <1>1, <3>2, TakenOff
      <4> QED BY <4>1
    <3> QED BY <3>1, <3>2
  <2> QED BY <1>1, <2>1, Joined
<1>3. \A e \in Entries(io_todo') : e[1] \in {"propagate", "drive"} => e \in Later(io_todo) /\ e \in Entries(io_todo)
  BY <1>1, <1>2
<1>5. PropagationFits(io_todo)'
  BY <1>1, <1>2, <1>3 DEF ShortsInv, PropagationFits, OfGpio
<1>6. DriveFits(io_todo)'
  BY <1>2, <1>3 DEF ShortsInv, DriveFits
<1>7. ChangesAreClear(io_todo)'
  <2>1. \A e \in Later(io_todo') : e[1] = "propagate" => e[2] \intersect OutDiff' = {}
    BY <1>1, <1>2, <1>3
  <2>2. \A e \in Later(io_todo') : e[1] = "drive" => \A n \in OutDiff' : ~IsShort(n, e[2])
    BY <1>1, <1>2, <1>3
  <2> QED BY <2>1, <2>2 DEF ChangesAreClear, AtMostOne
<1>8. ASSUME io_error = "none" PROVE ShortsAgree(io_todo)'
  <2> SUFFICES ASSUME NEW n \in Pins, NEW t \in Pins, IsShort(n, t), t \notin TestPins
               PROVE  (t \in IO_level' <=> n \in O_level) \/ Waits(n, io_todo') \/ Drives(t, io_todo')
    BY DEF ShortsAgree
  <2>1. CASE t \in IO_level <=> n \in O_level
    BY <2>1
  <2>2. CASE Waits(n, io_todo)
    BY <1>1, <1>2, <2>2 DEF Waits
  <2>4. CASE \E e \in Entries(Tail(io_todo)) : e[1] = "drive" /\ e[2] = t
    BY <1>2, <2>4 DEF Drives
  <2>3. CASE Head(io_todo)[1] = "drive" /\ Head(io_todo)[2] = t
    <3>1. t \in Targets \ TestPins
      BY DEF Targets
    <3>2. Head(io_todo)[3] <=> n \in O_level
      BY <1>1, <2>3 DEF ShortsInv, DriveFits
    <3> QED BY <2>3, <3>1, <3>2
  <2> QED BY <1>1, <1>8, <2>1, <2>2, <2>3, <2>4 DEF ShortsInv, ShortsAgree, Drives
<1> QED BY <1>5, <1>6, <1>7, <1>8 DEF ShortsInv

(* A pin at the end of a wire is driven by its wire alone.                 *)
LEMMA TargetsAreNotDriven ==
  ASSUME OutputsToInputs, KnownOutputs, NEW t \in Targets
  PROVE  t \notin Dir /\ t \notin Driven
BY DEF OutputsToInputs, KnownOutputs, Targets, Dir, Driven

(* What a step needs after which no change of an output waits.              *)
LEMMA FreshShorts ==
  ASSUME IoTypeOK', AtMostOne(OutDiff') \/ OfGpio(OutDiff)',
         \A e \in Entries(io_todo') : e[1] # "propagate" /\ (e[1] = "drive" => io_todo' = <<e>> /\ e[2] \in TestPins),
         io_error' = "none" =>
           \A n, t \in Pins : IsShort(n, t) /\ t \notin TestPins => (t \in IO_level' <=> n \in O_level')
  PROVE  ShortsInv'
<1>1. io_todo' \in Seq(IoEntry)
  BY DEF IoTypeOK
<1>2. /\ io_todo' # <<>> => Head(io_todo') \in Entries(io_todo')
      /\ \A e \in Later(io_todo') : e \in Entries(io_todo') /\ io_todo' # <<e>>
  <2>1. CASE io_todo' = <<>>
    BY <2>1, OneEntry
  <2>2. CASE io_todo' # <<>>
    <3>1. /\ Entries(io_todo') = {Head(io_todo')} \union Entries(Tail(io_todo'))
          /\ Later(io_todo') = Entries(Tail(io_todo'))
      BY <1>1, <2>2, TakenOff
    <3>2. ASSUME NEW e \in Later(io_todo'), io_todo' = <<e>> PROVE FALSE
      <4>1. Tail(io_todo') = <<>>
        BY <3>2
      <4> QED BY <3>1, <3>2, <4>1, OneEntry
    <3> QED BY <3>1, <3>2
  <2> QED BY <2>1, <2>2
<1>3. ChangesAreClear(io_todo)' /\ PropagationFits(io_todo)'
  BY <1>2 DEF ChangesAreClear, PropagationFits, OfGpio, AtMostOne
<1>4. DriveFits(io_todo)'
  BY <1>2 DEF DriveFits
<1>5. io_error' = "none" => ShortsAgree(io_todo)'
  BY DEF ShortsAgree
<1> QED BY <1>3, <1>4, <1>5 DEF ShortsInv

(* A change of the outputs waits to be propagated, and none of them waited *)
(* already.                                                                *)
LEMMA EvalOutputsShorts ==
  ASSUME CarefulBoard, LevelsInv, KnownOutputs, ShortsInv, EvalOutputs
  PROVE  ShortsInv'
<1>1. /\ IoTypeOK /\ io_todo \in Seq(IoEntry) /\ io_todo # <<>> /\ Head(io_todo)[1] = "outputs"
      /\ Tail(io_todo) \in Seq(IoEntry) /\ Later(io_todo) = Entries(Tail(io_todo))
      /\ Entries(io_todo) = {Head(io_todo)} \union Entries(Tail(io_todo))
  BY TakenOff DEF EvalOutputs, IoOp, LevelsInv, IoTypeOK
<1>2. /\ LevelsInv' /\ UNCHANGED <<pin_owner, DIR, io_error>> /\ Driven' = Driven /\ Dir' = Dir
  BY EvalOutputsLevels DEF EvalOutputs, pinCfg, pinCtl, Driven, Dir, OutValues
<1>3. CASE Driven = O_level
  <2>1. /\ io_todo' = <<>> \o Tail(io_todo) /\ UNCHANGED <<O_level, IO_level>>
    BY <1>1, <1>3 DEF EvalOutputs
  <2>2. OutDiff' = {}
    BY <1>2, <1>3, <2>1 DEF OutDiff, Differing
  <2>3. AtMostOne(OutDiff') /\ \A e : e[2] \intersect OutDiff' = {} /\ \A n \in OutDiff' : ~IsShort(n, e[2])
    BY <2>2 DEF AtMostOne
  <2> QED BY <1>1, <1>2, <2>1, <2>3, OneEntry, StillShorts
<1>4. CASE Driven # O_level
  <2> DEFINE x == <<"propagate", OutDiff, Driven>>
             p == <<x, <<"inputs">>>>
  <2>1. /\ io_todo' = p \o Tail(io_todo) /\ O_level' = Driven /\ IO_level' = (IO_level \ Dir) \union Driven
    BY <1>4 DEF EvalOutputs, OutDiff
  <2>2. x \in IoEntry /\ <<"inputs">> \in IoEntry /\ <<"inputs">>[1] = "inputs"
        /\ x[1] = "propagate" /\ x[2] = OutDiff /\ x[3] = Driven
    <3>1. OutDiff \in (SUBSET Pins) \ {{}}
      BY <1>1, <1>4, DrivenPins DEF OutDiff, Differing, IoTypeOK
    <3> QED BY <3>1, DrivenPins, EntryForms
  <2> HIDE DEF x
  <2>3. p \in Seq(IoEntry) /\ p # <<>> /\ Head(p) = x /\ Entries(p) = {x, <<"inputs">>} /\ Later(p) = {<<"inputs">>}
    BY <2>2 DEF Entries, Later
  <2> HIDE DEF p
  <2>4. /\ Entries(io_todo') = {x, <<"inputs">>} \union Entries(Tail(io_todo)) /\ io_todo' # <<>> /\ Head(io_todo') = x
        /\ Later(io_todo') = {<<"inputs">>} \union Entries(Tail(io_todo))
    <3>1. PICK t \in Seq(IoEntry) : t = Tail(io_todo)
      BY <1>1
    <3>2. /\ Entries(p \o t) = Entries(p) \union Entries(t)
          /\ p # <<>> => /\ p \o t # <<>> /\ Head(p \o t) = Head(p)
                         /\ Later(p \o t) = Later(p) \union Entries(t)
      BY <2>3, Joined
    <3> QED BY <2>1, <2>3, <3>1, <3>2
  <2>5. \A n : n \notin OutDiff => (n \in O_level' <=> n \in O_level)
    BY <2>1 DEF OutDiff, Differing
  <2>6. /\ AtMostOne(OutDiff) \/ OfGpio(OutDiff)
        /\ \A e \in Entries(Tail(io_todo)) : e[1] = "propagate" => e[2] \intersect OutDiff = {}
        /\ \A e \in Entries(Tail(io_todo)) : e[1] = "drive" => \A n \in OutDiff : ~IsShort(n, e[2])
    BY <1>1 DEF ShortsInv, ChangesAreClear
  <2>7. ChangesAreClear(io_todo)'
    BY <2>2, <2>4 DEF ChangesAreClear
  <2>8. PropagationFits(io_todo)'
    <3>1. ASSUME NEW e \in Entries(io_todo'), e[1] = "propagate", NEW n \in e[2] PROVE n \in e[3] <=> n \in O_level'
      <4>1. CASE e = x
        BY <2>1, <2>2, <4>1
      <4>2. CASE e \in Entries(Tail(io_todo))
        <5>1. n \notin OutDiff /\ (n \in e[3] <=> n \in O_level)
          BY <1>1, <2>6, <3>1, <4>2 DEF ShortsInv, PropagationFits
        <5> QED BY <2>5, <5>1
      <4> QED BY <2>2, <2>4, <3>1, <4>1, <4>2
    <3>2. \A e \in Later(io_todo') : e[1] = "propagate" => OfGpio(e[2])'
      BY <1>1, <1>2, <2>2, <2>4 DEF ShortsInv, PropagationFits, OfGpio
    <3>3. AtMostOne(Head(io_todo')[2]) \/ OfGpio(OutDiff)
      BY <2>2, <2>4, <2>6
    <3>4. OfGpio(OutDiff) => \A n \in Head(io_todo')[2] : pin_owner'[n] = "gpio"
      BY <1>2, <2>2, <2>4 DEF OfGpio
    <3> QED BY <3>1, <3>2, <3>3, <3>4 DEF PropagationFits, OfGpio
  <2>9. DriveFits(io_todo)'
    <3>1. ASSUME NEW e \in Entries(io_todo'), e[1] = "drive", NEW n \in Pins, IsShort(n, e[2]), e[2] \notin TestPins
          PROVE  e[3] <=> n \in O_level'
      <4>1. e \in Entries(Tail(io_todo))
        BY <2>2, <2>4, <3>1
      <4>2. n \notin OutDiff /\ (e[3] <=> n \in O_level)
        BY <1>1, <2>6, <3>1, <4>1 DEF ShortsInv, DriveFits
      <4> QED BY <2>5, <4>2
    <3>2. ASSUME NEW e \in Later(io_todo'), e[1] = "drive", NEW n \in Pins, IsShort(n, e[2])
          PROVE  pin_owner'[n] # "Task"
      <4>1. e \in Later(io_todo)
        BY <1>1, <2>2, <2>4, <3>2
      <4> QED BY <1>2, <3>2, <4>1 DEF ShortsInv, DriveFits
    <3> QED BY <3>1, <3>2 DEF DriveFits
  <2>10. ASSUME io_error = "none" PROVE ShortsAgree(io_todo)'
    <3> SUFFICES ASSUME NEW n \in Pins, NEW t \in Pins, IsShort(n, t), t \notin TestPins
                 PROVE  (t \in IO_level' <=> n \in O_level') \/ Waits(n, io_todo') \/ Drives(t, io_todo')
      BY DEF ShortsAgree
    <3>1. CASE n \in OutDiff
      BY <2>2, <2>4, <3>1 DEF Waits
    <3>2. CASE n \notin OutDiff
      <4>1. t \in IO_level' <=> t \in IO_level
        <5>1. t \notin Dir /\ t \notin Driven
          BY TargetsAreNotDriven DEF Targets, CarefulBoard
        <5> QED BY <2>1, <5>1
      <4>2. (t \in IO_level <=> n \in O_level) \/ Waits(n, io_todo) \/ Drives(t, io_todo)
        BY <1>1, <2>10 DEF ShortsInv, ShortsAgree
      <4>3. (Waits(n, io_todo) => Waits(n, io_todo')) /\ (Drives(t, io_todo) => Drives(t, io_todo'))
        BY <1>1, <2>4 DEF Waits, Drives
      <4> QED BY <2>5, <3>2, <4>1, <4>2, <4>3
    <3> QED BY <3>1, <3>2
  <2> QED BY <1>2, <2>7, <2>8, <2>9, <2>10 DEF ShortsInv
<1> QED BY <1>3, <1>4

(* A change that is propagated drives its wires next; those that wait      *)
(* behind the first are not of a pin that a channel drives.                *)
LEMMA PropagateOutputShorts ==
  ASSUME CarefulBoard, LevelsInv, KnownOutputs, ShortsInv, PropagateOutput
  PROVE  ShortsInv'
<1>1. /\ IoTypeOK /\ io_todo \in Seq(IoEntry) /\ io_todo # <<>> /\ Head(io_todo)[1] = "propagate"
      /\ Head(io_todo) \in IoEntry
      /\ Tail(io_todo) \in Seq(IoEntry) /\ Later(io_todo) = Entries(Tail(io_todo))
      /\ Entries(io_todo) = {Head(io_todo)} \union Entries(Tail(io_todo))
      /\ Later(Tail(io_todo)) \subseteq Entries(Tail(io_todo))
      /\ O_level = Driven
  BY TakenOff DEF PropagateOutput, IoOp, LevelsInv, IoTypeOK, OutputsAgree, First
<1>2. /\ LevelsInv' /\ UNCHANGED <<pin_owner, DIR, io_error, O_level, IO_level>> /\ Driven' = Driven
  BY PropagateOutputLevels DEF PropagateOutput, pinCfg, pinCtl, pinIo, Driven, Dir, OutValues
<1> DEFINE pins == Head(io_todo)[2]
           values == Head(io_todo)[3]
           n == LowestOf(pins)
           x == <<"propagate", pins \ {n}, values>>
<1>3. PICK v : v = (n \in values)
  OBVIOUS
<1>4. pins \in (SUBSET Pins) \ {{}} /\ values \in SUBSET Pins /\ n \in pins /\ n \in Pins /\ v \in BOOLEAN
  BY <1>1, <1>3, EntryParts, LowestIsIn
<1>5. PICK d, l, t : d = ShortDrives(n, v) /\ l = PinLoop(x) /\ t = Tail(io_todo)
  OBVIOUS
<1>6. io_todo' = (d \o l) \o t
  BY <1>3, <1>5 DEF PropagateOutput
<1>7. /\ d \in Seq(IoEntry) /\ Len(d) = Len(Shorted[n])
      /\ Entries(d) = {<<"drive", s, v>> : s \in Entries(Shorted[n])}
  <2> HIDE DEF n
  <2> QED BY <1>4, <1>5, DriveCalls
<1>8. /\ l \in Seq(IoEntry) /\ Entries(l) = (IF pins \ {n} = {} THEN {} ELSE {x}) /\ Later(l) = {}
      /\ l # <<>> => Head(l) = x /\ pins \ {n} # {}
      /\ x[1] = "propagate" /\ x[2] = pins \ {n} /\ x[3] = values
  <2>1. x[1] = "propagate" /\ x[2] = pins \ {n} /\ x[3] = values /\ (x[2] # {} => x \in IoEntry)
    BY <1>4, EntryForms
  <2> HIDE DEF x
  <2> QED BY <1>5, <2>1, LoopCalls
<1>9. v <=> n \in O_level
  BY <1>1, <1>3, <1>4 DEF ShortsInv, PropagationFits
<1>10. AtMostOne(pins) \/ OfGpio(pins)
  BY <1>1 DEF ShortsInv, PropagationFits
<1> HIDE DEF n, x, pins, values
<1>11. /\ d # <<>> => Head(d) \in Entries(d)
       /\ d = <<>> => Entries(d) = {} /\ Later(d) = {}
       /\ Later(d) \subseteq Entries(d)
       /\ pin_owner[n] = "Task" => Later(d) = {}
  <2>1. d # <<>> => Head(d) \in Entries(d) /\ Later(d) \subseteq Entries(d)
    <3>1. d # <<>> => Entries(d) = {Head(d)} \union Entries(Tail(d)) /\ Later(d) = Entries(Tail(d))
      BY <1>7, TakenOff
    <3> QED BY <3>1
  <2>2. ASSUME pin_owner[n] = "Task" PROVE Later(d) = {}
    <3>1. Len(d) <= 1
      BY <1>4, <1>7, <2>2 DEF KnownOutputs, CarefulBoard
    <3>2. PICK k : k = Len(d)
      OBVIOUS
    <3>3. k \in Nat
      BY <1>7, <3>2
    <3>4. k <= 1
      BY <3>1, <3>2
    <3>5. 2 .. k = {}
      BY <3>3, <3>4
    <3> QED BY <3>2, <3>5 DEF Later
  <2>3. d = <<>> => Entries(d) = {} /\ Later(d) = {}
    BY OneEntry
  <2> QED BY <2>1, <2>2, <2>3
<1>12. /\ d \o l \in Seq(IoEntry) /\ Entries(d \o l) = Entries(d) \union Entries(l)
       /\ d = <<>> => d \o l = l
       /\ d # <<>> => d \o l # <<>> /\ Head(d \o l) = Head(d) /\ Later(d \o l) = Later(d) \union Entries(l)
  BY <1>7, <1>8, <1>11, Joined
<1>13. /\ Entries(io_todo') = Entries(d) \union Entries(l) \union Entries(t)
       /\ d # <<>> => io_todo' # <<>> /\ Head(io_todo') = Head(d)
                       /\ Later(io_todo') = Later(d) \union Entries(l) \union Entries(t)
       /\ d = <<>> /\ l # <<>> => io_todo' # <<>> /\ Head(io_todo') = x /\ Later(io_todo') = Entries(t)
       /\ d = <<>> /\ l = <<>> => io_todo' = t
  <2>1. PICK a : a = d \o l
    OBVIOUS
  <2>2. t \in Seq(IoEntry) /\ a \in Seq(IoEntry)
    BY <1>1, <1>5, <1>12, <2>1
  <2>3. /\ Entries(a \o t) = Entries(a) \union Entries(t)
        /\ a = <<>> => a \o t = t
        /\ a # <<>> => a \o t # <<>> /\ Head(a \o t) = Head(a) /\ Later(a \o t) = Later(a) \union Entries(t)
    BY <2>2, Joined
  <2> QED BY <1>6, <1>8, <1>12, <2>1, <2>3
<1>14. /\ t # <<>> => Head(t) \in Later(io_todo) /\ Later(t) \subseteq Later(io_todo)
       /\ t = <<>> => Later(t) = {}
       /\ Entries(t) = Later(io_todo)
  <2>1. t \in Seq(IoEntry) /\ Entries(t) = Later(io_todo) /\ Later(t) \subseteq Entries(t)
    BY <1>1, <1>5
  <2>2. t # <<>> => Head(t) \in Entries(t)
    BY <2>1, TakenOff
  <2> QED BY <2>1, <2>2, OneEntry
<1>15. /\ \A e \in Entries(t) : e[1] = "propagate" => OfGpio(e[2])
       /\ \A e \in Entries(t) : e[1] = "drive" => \A m \in Pins : IsShort(m, e[2]) => pin_owner[m] # "Task"
       /\ \A e \in Entries(t) : e[1] = "drive" =>
            \A m \in Pins : IsShort(m, e[2]) /\ e[2] \notin TestPins => (e[3] <=> m \in O_level)
       /\ \A e \in Entries(t) : e[1] = "propagate" => \A m \in e[2] : m \in e[3] <=> m \in O_level
  BY <1>1, <1>14 DEF ShortsInv, DriveFits, PropagationFits
<1>16. \A e \in Entries(l) : e = x /\ e[1] = "propagate" /\ OfGpio(e[2])
  BY <1>4, <1>8, <1>10 DEF OfGpio, AtMostOne
<1>17. \A e \in Entries(l) : \A m \in e[2] : m \in e[3] <=> m \in O_level
  BY <1>1, <1>8, <1>16 DEF ShortsInv, PropagationFits, pins, values
<1>18. \A e \in Entries(d) : \E s \in Entries(Shorted[n]) : e = <<"drive", s, v>> /\ e[1] = "drive" /\ e[2] = s /\ e[3] = v
  BY <1>7
<1>19. /\ Later(io_todo') \subseteq Later(d) \union Entries(l) \union Entries(t)
       /\ io_todo' # <<>> => \/ Head(io_todo') \in Entries(d)
                             \/ Head(io_todo') \in Entries(l) \union Entries(t)
  BY <1>8, <1>11, <1>13, <1>14
<1>20. ChangesAreClear(io_todo)'
  <2>1. OutDiff' = {}
    BY <1>1, <1>2 DEF OutDiff, Differing
  <2> QED BY <2>1 DEF ChangesAreClear, AtMostOne
<1>21. PropagationFits(io_todo)'
  <2>1. \A e \in Entries(io_todo') : e[1] = "propagate" => \A m \in e[2] : m \in e[3] <=> m \in O_level'
    BY <1>2, <1>13, <1>15, <1>17, <1>18
  <2>2. \A e \in Entries(l) \union Entries(t) : e[1] = "propagate" => OfGpio(e[2])'
    BY <1>2, <1>15, <1>16 DEF OfGpio
  <2>3. \A e \in Later(io_todo') : e[1] = "propagate" => OfGpio(e[2])'
    BY <1>11, <1>18, <1>19, <2>2
  <2> QED BY <1>18, <1>19, <2>1, <2>2, <2>3 DEF PropagationFits, OfGpio
<1>22. DriveFits(io_todo)'
  <2>1. \A e \in Entries(l) : e[1] # "drive"
    BY <1>16
  <2>2. ASSUME NEW e \in Entries(d), NEW m \in Pins, IsShort(m, e[2]) PROVE m = n /\ (e[3] <=> m \in O_level)
    <3>1. PICK s \in Entries(Shorted[n]) : e[2] = s /\ e[3] = v
      BY <1>18
    <3>2. s \in Pins
      <4>1. Shorted[n] \in Seq(Pins)
        BY <1>4, BoardAssumption
      <4> QED BY <4>1 DEF Entries
    <3>3. m = n
      BY <1>4, <2>2, <3>1, <3>2 DEF CarefulBoard, IsShort
    <3> QED BY <1>9, <3>1, <3>3
  <2>3. ASSUME NEW e \in Entries(io_todo'), e[1] = "drive", NEW m \in Pins, IsShort(m, e[2]), e[2] \notin TestPins
        PROVE  e[3] <=> m \in O_level
    <3>1. CASE e \in Entries(d)
      BY <2>2, <2>3, <3>1
    <3>2. CASE e \in Entries(t)
      BY <1>15, <2>3, <3>2
    <3> QED BY <1>13, <2>1, <2>3, <3>1, <3>2
  <2>4. ASSUME NEW e \in Later(io_todo'), e[1] = "drive", NEW m \in Pins, IsShort(m, e[2])
        PROVE  pin_owner[m] # "Task"
    <3>1. CASE e \in Later(d)
      BY <1>11, <2>2, <2>4, <3>1
    <3>2. CASE e \in Entries(t)
      BY <1>15, <2>4, <3>2
    <3> QED BY <1>19, <2>1, <2>4, <3>1, <3>2
  <2> QED BY <1>2, <2>3, <2>4 DEF DriveFits
<1>23. ASSUME io_error = "none" PROVE ShortsAgree(io_todo)'
  <2> SUFFICES ASSUME NEW m \in Pins, NEW s \in Pins, IsShort(m, s), s \notin TestPins
               PROVE  \/ s \in IO_level <=> m \in O_level
                      \/ Waits(m, io_todo')
                      \/ Drives(s, io_todo')
    BY <1>2 DEF ShortsAgree
  <2>1. (s \in IO_level <=> m \in O_level) \/ Waits(m, io_todo) \/ Drives(s, io_todo)
    BY <1>1, <1>23 DEF ShortsInv, ShortsAgree
  <2>2. CASE Waits(m, io_todo) /\ m # n
    <3>1. PICK e \in Entries(io_todo) : e[1] = "propagate" /\ m \in e[2]
      BY <2>2 DEF Waits
    <3>2. CASE e = Head(io_todo)
      <4>1. x \in Entries(l) /\ m \in x[2]
        BY <1>8, <2>2, <3>1, <3>2 DEF pins
      <4> QED BY <1>8, <1>13, <4>1 DEF Waits
    <3>3. CASE e \in Entries(t)
      BY <1>13, <3>1, <3>3 DEF Waits
    <3> QED BY <1>1, <1>5, <3>2, <3>3
  <2>3. CASE m = n
    <3>1. <<"drive", s, v>> \in Entries(d)
      BY <1>7, <2>3 DEF IsShort
    <3>2. <<"drive", s, v>>[1] = "drive" /\ <<"drive", s, v>>[2] = s
      OBVIOUS
    <3> QED BY <1>13, <3>1, <3>2 DEF Drives
  <2>4. CASE Drives(s, io_todo)
    BY <1>1, <1>5, <1>13, <2>4 DEF Drives
  <2> QED BY <2>1, <2>2, <2>3, <2>4
<1> QED BY <1>2, <1>20, <1>21, <1>22, <1>23 DEF ShortsInv

(* A wire that is driven gets its output's level; the inputs are evaluated *)
(* without a change of an output.                                          *)
LEMMA EvalInputShorts ==
  ASSUME CarefulBoard, LevelsInv, KnownOutputs, ShortsInv, EvalInput \/ EvalInputs \/ EvalSense
  PROVE  ShortsInv'
<1>1. PICK p : Continues(p)
  BY PinCalls
<1>2. /\ io_todo # <<>> /\ Head(io_todo)[1] \in {"drive", "inputs", "sense"}
      /\ UNCHANGED <<O_level, pin_owner, DIR, io_error>> /\ Driven' = Driven /\ Dir' = Dir
  BY DEF EvalInput, EvalInputs, EvalSense, IoOp, pinIo, pinCfg, pinCtl, Driven, Dir, OutValues
<1>3. LevelsInv'
  BY EvalInputLevels, EvalInputsLevels, EvalSenseLevels
<1>4. AtMostOne(OutDiff') /\ \A e : e[2] \intersect OutDiff' = {} /\ \A n \in OutDiff' : ~IsShort(n, e[2])
  <2>1. OutDiff' = {}
    BY <1>2 DEF LevelsInv, OutputsAgree, First, OutDiff, Differing
  <2> QED BY <2>1 DEF AtMostOne
<1>5. \A e \in Entries(p) : e[1] \notin {"propagate", "drive"}
  BY <1>1, <1>2 DEF Continues
<1>6. CASE EvalInputs \/ EvalSense
  <2>1. UNCHANGED IO_level /\ Head(io_todo)[1] # "drive"
    BY <1>6 DEF EvalInputs, EvalSense, IoOp, pinIo
  <2> QED BY <1>1, <1>2, <1>3, <1>4, <1>5, <2>1, StillShorts DEF Continues
<1>7. CASE EvalInput
  <2>1. /\ \A t : t # Head(io_todo)[2] => (t \in IO_level' <=> t \in IO_level)
        /\ Head(io_todo)[2] \notin Dir => (Head(io_todo)[2] \in IO_level' <=> Head(io_todo)[3])
        /\ Head(io_todo)[1] = "drive"
    <3>1. Head(io_todo)[3] \in BOOLEAN
      <4>1. Head(io_todo) \in IoEntry /\ Head(io_todo)[1] = "drive"
        BY <1>2, <1>7, TakenOff DEF EvalInput, IoOp, LevelsInv, IoTypeOK
      <4> QED BY <4>1, EntryParts
    <3>2. CASE Head(io_todo)[3]
      BY <1>7, <3>1, <3>2 DEF EvalInput, IoOp
    <3>3. CASE ~Head(io_todo)[3]
      BY <1>7, <3>1, <3>3 DEF EvalInput, IoOp
    <3> QED BY <3>2, <3>3
  <2>2. Head(io_todo)[2] \in Targets => Head(io_todo)[2] \notin Dir
    BY TargetsAreNotDriven DEF CarefulBoard
  <2>3. ASSUME NEW n \in Pins, NEW t \in Pins, IsShort(n, t), t \notin TestPins
        PROVE  (t \in IO_level' <=> t \in IO_level) \/ (t \in IO_level' <=> n \in O_level)
    <3>1. CASE t # Head(io_todo)[2]
      BY <2>1, <3>1
    <3>2. CASE t = Head(io_todo)[2]
      <4>1. t \in Targets
        BY <2>3 DEF Targets
      <4>2. Head(io_todo)[3] <=> n \in O_level
        <5>1. Head(io_todo) \in Entries(io_todo)
          BY <1>2, TakenOff DEF LevelsInv, IoTypeOK
        <5> QED BY <2>1, <2>3, <3>2, <5>1 DEF ShortsInv, DriveFits
      <4> QED BY <2>1, <2>2, <3>2, <4>1, <4>2
    <3> QED BY <3>1, <3>2
  <2>4. Head(io_todo)[2] \in Targets \ TestPins => (Head(io_todo)[2] \in IO_level' <=> Head(io_todo)[3])
    BY <2>1, <2>2
  <2> QED BY <1>1, <1>2, <1>3, <1>4, <1>5, <2>3, <2>4, StillShorts DEF Continues
<1> QED BY <1>6, <1>7

(* Each shorted input has the level of its output now.                     *)
PlainlyAgree == \A n, t \in Pins : IsShort(n, t) /\ t \notin TestPins => (t \in IO_level <=> n \in O_level)

(* A step that ends the simulation.                                        *)
LEMMA ErrorShorts ==
  ASSUME LevelsInv, ShortsInv, LevelsInv', UNCHANGED <<pin_owner, DIR>>, io_todo' = <<>>, io_error' # "none"
  PROVE  ShortsInv'
<1>2. OutDiff' = {}
  BY DEF LevelsInv, OutputsAgree, First, OutDiff, Differing
<1> QED BY <1>2, FreshShorts, OneEntry DEF LevelsInv, AtMostOne

(* A notification moves no level of a pin.                                 *)
LEMMA NotifyShorts ==
  ASSUME CarefulBoard, LevelsInv, KnownOutputs, ShortsInv, Notify
  PROVE  ShortsInv'
<1>1. /\ io_todo # <<>> /\ Head(io_todo)[1] = "notify" /\ UNCHANGED <<O_level, IO_level, pin_owner, DIR>>
      /\ Driven' = Driven /\ LevelsInv'
  BY NotifyLevels DEF Notify, IoOp, pinCfg, pinCtl, pinIo, Driven, Dir, OutValues
<1>2. CASE io_error' # "none" /\ io_todo' = <<>>
  BY <1>1, <1>2, ErrorShorts
<1>3. CASE UNCHANGED io_error /\ \E p : Continues(p)
  <2>1. PICK p : Continues(p)
    BY <1>3
  <2>2. AtMostOne(OutDiff') /\ \A e : e[2] \intersect OutDiff' = {} /\ \A n \in OutDiff' : ~IsShort(n, e[2])
    <3>1. OutDiff' = {}
      BY <1>1 DEF LevelsInv, OutputsAgree, First, OutDiff, Differing
    <3> QED BY <3>1 DEF AtMostOne
  <2> QED BY <1>1, <1>3, <2>1, <2>2, StillShorts DEF Continues
<1> QED BY <1>2, <1>3, NotifyCalls

(* A task of a channel: nothing, an error, or another value of its pin.     *)
LEMMA ChannelTaskCalls ==
  ASSUME LevelsInv, ChannelTask
  PROVE  \/ UNCHANGED <<ch_status, external_OUT, io_error>> /\ Continues(<<>>)
         \/ io_error' # "none" /\ io_todo' = <<>> /\ UNCHANGED external_OUT
         \/ /\ UNCHANGED io_error /\ \E p : Continues(p)
            /\ \E n \in Pins : /\ pin_owner[n] # "gpio"
                               /\ \A m : m # n => (m \in external_OUT' <=> m \in external_OUT)
<1>1. /\ IoTypeOK /\ io_todo \in Seq(IoEntry) /\ io_todo # <<>> /\ Head(io_todo)[1] = "task" /\ Head(io_todo) \in IoEntry
      /\ Tail(io_todo) \in Seq(IoEntry)
  BY TakenOff DEF ChannelTask, IoOp, LevelsInv, IoTypeOK
<1> DEFINE task == Head(io_todo)[2]
           ch == Head(io_todo)[3]
           status == ch_status[ch]
           level == LevelAfter(task, status)
           idle == status.mode # "Task" \/ (task = "OUT" /\ status.polarity = "None")
<1>3. ch \in Channels /\ status.pin \in Pins
  BY <1>1, EntryParts DEF IoTypeOK
<1>4. /\ idle => UNCHANGED <<ch_status, external_OUT, io_error>> /\ io_todo' = Tail(io_todo)
      /\ ~idle => IF pin_owner[status.pin] = "gpio"
                    THEN io_error' # "none" /\ io_todo' = <<>> /\ UNCHANGED external_OUT
                    ELSE /\ external_OUT' = IF level THEN external_OUT \union {status.pin}
                                            ELSE external_OUT \ {status.pin}
                         /\ io_todo' = <<<<"outputs">>>> \o Tail(io_todo) /\ UNCHANGED io_error
  BY DEF ChannelTask
<1> HIDE DEF level, status, idle
<1>5. CASE idle
  <2>1. Continues(<<>>)
    BY <1>1, <1>4, <1>5, OneEntry DEF Continues, Ends
  <2> QED BY <1>4, <1>5, <2>1
<1>6. CASE ~idle /\ pin_owner[status.pin] # "gpio"
  <2>1. PICK p : p = <<<<"outputs">>>>
    OBVIOUS
  <2>2. p \in Seq(IoEntry) /\ Entries(p) = {<<"outputs">>} /\ <<"outputs">>[1] = "outputs"
    BY <2>1, EntryForms, OneEntry
  <2>3. Continues(p)
    BY <1>4, <1>6, <2>1, <2>2 DEF Continues, Ends
  <2> QED BY <1>3, <1>4, <1>6, <2>3
<1> QED BY <1>4, <1>5, <1>6

(* A task changes one output, which is evaluated next.                     *)
LEMMA ChannelTaskShorts ==
  ASSUME CarefulBoard, LevelsInv, KnownOutputs, ShortsInv, ChannelTask
  PROVE  ShortsInv'
<1>1. /\ io_todo # <<>> /\ Head(io_todo)[1] = "task" /\ UNCHANGED <<OUT, O_level, IO_level, pin_owner, DIR>>
      /\ LevelsInv' /\ O_level = Driven /\ Dir' = Dir
      /\ Tail(io_todo) \in Seq(IoEntry) /\ Entries(Tail(io_todo)) = Later(io_todo)
  <2>1. /\ io_todo # <<>> /\ Head(io_todo)[1] = "task" /\ UNCHANGED <<OUT, O_level, IO_level, pin_owner, DIR>>
    BY DEF ChannelTask, IoOp, pinCfg, pinIo
  <2> QED BY <2>1, TakenOff, ChannelTaskLevels DEF LevelsInv, IoTypeOK, OutputsAgree, First, Dir
<1>2. CASE io_error' # "none" /\ io_todo' = <<>>
  BY <1>1, <1>2, ErrorShorts
<1>3. CASE UNCHANGED <<external_OUT, io_error>> /\ Continues(<<>>)
  <2>1. AtMostOne(OutDiff') /\ \A e : e[2] \intersect OutDiff' = {} /\ \A n \in OutDiff' : ~IsShort(n, e[2])
    <3>1. Driven' = Driven
      BY <1>1, <1>3 DEF Driven, Dir, OutValues
    <3>2. OutDiff' = {}
      BY <1>1, <3>1 DEF OutDiff, Differing
    <3> QED BY <3>2 DEF AtMostOne
  <2> QED BY <1>1, <1>3, <2>1, StillShorts DEF Continues
<1>4. CASE /\ UNCHANGED io_error /\ \E p : Continues(p)
           /\ \E n \in Pins : /\ pin_owner[n] # "gpio"
                              /\ \A m : m # n => (m \in external_OUT' <=> m \in external_OUT)
  <2>1. PICK p : Continues(p)
    BY <1>4
  <2>2. PICK n \in Pins : pin_owner[n] # "gpio" /\ \A m : m # n => (m \in external_OUT' <=> m \in external_OUT)
    BY <1>4
  <2>3. OutDiff' \subseteq {n}
    BY <1>1, <2>2 DEF OutDiff, Differing, Driven, OutValues
  <2>4. AtMostOne(OutDiff') /\ \A e \in Entries(Tail(io_todo)) : e[1] = "propagate" => e[2] \intersect OutDiff' = {}
    BY <1>1, <2>2, <2>3 DEF AtMostOne, ShortsInv, PropagationFits, OfGpio
  <2>5. OutDiff' \subseteq Pins /\ \A m \in OutDiff' : pin_owner[m] = "Task"
    <3>1. \A m \in OutDiff' : m \in Dir
      BY <1>1, <2>2 DEF OutDiff, Differing, Driven
    <3>2. \A m \in OutDiff' : m = n
      BY <2>3
    <3> QED BY <2>2, <3>1, <3>2 DEF Dir
  <2>6. \A e \in Entries(Tail(io_todo)) : e[1] = "drive" => \A m \in OutDiff' : ~IsShort(m, e[2])
    BY <1>1, <2>5 DEF ShortsInv, DriveFits
  <2> QED BY <1>1, <1>4, <2>1, <2>4, <2>6, StillShorts DEF Continues
<1> QED BY <1>2, <1>3, <1>4, ChannelTaskCalls

(* A pin that is shorted agrees with its output when no change waits.       *)
LEMMA NothingWaits ==
  ASSUME ShortsInv, io_error = "none", io_todo \in Seq(IoEntry),
         \A e \in Entries(io_todo) : e[1] \notin {"propagate", "drive"}
  PROVE  PlainlyAgree
<1>1. io_todo # <<>> => Head(io_todo) \in Entries(io_todo)
  BY TakenOff
<1> QED BY <1>1 DEF ShortsInv, ShortsAgree, Waits, Drives, PlainlyAgree

(* A pin that is given back is one output that changes.                    *)
LEMMA ReleasePinShorts ==
  ASSUME CarefulBoard, LevelsInv, KnownOutputs, ShortsInv, ReleasePin
  PROVE  ShortsInv'
<1>1. /\ IoTypeOK /\ io_todo \in Seq(IoEntry) /\ io_todo # <<>> /\ EndsAreLast(io_todo)
      /\ Head(io_todo)[1] = "config" /\ Head(io_todo) \in IoEntry /\ O_level = Driven
      /\ LevelsInv' /\ UNCHANGED <<OUT, DIR, external_OUT, O_level, IO_level, ch_status, io_error>>
  BY ReleasePinLevels, TakenOff DEF ReleasePin, IoOp, LevelsInv, IoTypeOK, OutputsAgree, First, pinCfg, pinIo
<1> DEFINE config == Head(io_todo)[2]
           x == <<"take", config>>
           old == ch_status[config.ch].pin
<1>2. /\ config \in ChannelConfigs /\ Tail(io_todo) = <<>> /\ old \in Pins
  BY <1>1, EntryParts, OrderKept, ConfigParts DEF Ends, IoTypeOK
<1>3. \A e \in Entries(io_todo) : e[1] = "config"
  <2>1. Entries(io_todo) = {Head(io_todo)} \union Entries(Tail(io_todo))
    BY <1>1, TakenOff
  <2>2. Entries(Tail(io_todo)) = {}
    BY <1>2, OneEntry
  <2> QED BY <1>1, <2>1, <2>2
<1>4. io_error' = "none" => PlainlyAgree'
  BY <1>1, <1>3, NothingWaits DEF PlainlyAgree
<1>5. /\ \A n \in Pins : n # old => pin_owner'[n] = pin_owner[n]
      /\ \A n \in Pins : pin_owner'[n] \in {"gpio", pin_owner[n]}
      /\ io_todo' \in {<<<<"outputs">>, <<"inputs">>>> \o <<x>>, <<x>>}
  <2>1. CASE LeavesPin(config.ch, config)
    <3>1. /\ pin_owner' = [pin_owner EXCEPT ![old] = "gpio"]
          /\ io_todo' = <<<<"outputs">>, <<"inputs">>, x>> \o <<>>
      BY <1>2, <2>1 DEF ReleasePin
    <3> HIDE DEF x, old
    <3>2. \A a, b, c : <<a, b, c>> \o <<>> = <<a, b>> \o <<c>>
      OBVIOUS
    <3>3. io_todo' = <<<<"outputs">>, <<"inputs">>>> \o <<x>>
      BY <3>1, <3>2
    <3>4. \A n \in Pins : pin_owner'[n] = IF n = old THEN "gpio" ELSE pin_owner[n]
      BY <1>1, <1>2, <3>1 DEF IoTypeOK
    <3> QED BY <3>3, <3>4
  <2>2. CASE ~LeavesPin(config.ch, config)
    <3>1. UNCHANGED pin_owner /\ io_todo' = <<x>> \o <<>>
      BY <1>2, <2>2 DEF ReleasePin
    <3> HIDE DEF x
    <3> QED BY <3>1
  <2> QED BY <2>1, <2>2
<1>6. \A e \in Entries(io_todo') : e[1] \notin {"propagate", "drive"}
  <2>1. x \in IoEntry /\ x[1] = "take"
    BY <1>2, EntryForms DEF Ends
  <2> HIDE DEF x
  <2>2. PICK t : t = <<x>>
    OBVIOUS
  <2>3. t \in Seq(IoEntry) /\ EndsAreLast(t) /\ Entries(t) = {x}
    BY <2>1, <2>2, OneEntry
  <2>4. Entries(io_todo') \subseteq {<<"outputs">>, <<"inputs">>, x}
    BY <1>5, <2>2, <2>3, OwnerCalls
  <2>5. <<"outputs">>[1] = "outputs" /\ <<"inputs">>[1] = "inputs"
    OBVIOUS
  <2> QED BY <2>1, <2>4, <2>5
<1> HIDE DEF old
<1>7. AtMostOne(OutDiff')
  <2>1. OutDiff' \subseteq {old}
    BY <1>1, <1>5 DEF OutDiff, Differing, Driven, Dir, OutValues
  <2> QED BY <2>1 DEF AtMostOne
<1> QED BY <1>1, <1>4, <1>6, <1>7, FreshShorts DEF LevelsInv, PlainlyAgree

(* So is a pin that is taken.                                              *)
LEMMA TakePinShorts ==
  ASSUME CarefulBoard, LevelsInv, KnownOutputs, ShortsInv, TakePin
  PROVE  ShortsInv'
<1>1. /\ IoTypeOK /\ io_todo \in Seq(IoEntry) /\ io_todo # <<>> /\ EndsAreLast(io_todo)
      /\ Head(io_todo)[1] = "take" /\ Head(io_todo) \in IoEntry /\ O_level = Driven
      /\ LevelsInv' /\ UNCHANGED <<OUT, DIR, O_level, IO_level, io_error>>
  BY TakePinLevels, TakenOff DEF TakePin, IoOp, LevelsInv, IoTypeOK, OutputsAgree, First, pinCfg, pinIo
<1> DEFINE config == Head(io_todo)[2]
<1>2. config \in ChannelConfigs /\ Tail(io_todo) = <<>>
  BY <1>1, EntryParts, OrderKept DEF Ends
<1>3. \A e \in Entries(io_todo) : e[1] = "take"
  <2>1. Entries(io_todo) = {Head(io_todo)} \union Entries(Tail(io_todo))
    BY <1>1, TakenOff
  <2>2. Entries(Tail(io_todo)) = {}
    BY <1>2, OneEntry
  <2> QED BY <1>1, <2>1, <2>2
<1>4. io_error' = "none" => PlainlyAgree'
  BY <1>1, <1>3, NothingWaits DEF PlainlyAgree
<1>5. /\ \A n \in Pins : n # config.pin => pin_owner'[n] = pin_owner[n] /\ (n \in external_OUT' <=> n \in external_OUT)
      /\ config.pin \in Pins => pin_owner'[config.pin] \in {config.mode, pin_owner[config.pin]}
  BY <1>1, <1>2 DEF TakePin, pinCtl, IoTypeOK
<1>6. \A e \in Entries(io_todo') : e[1] \notin {"propagate", "drive"}
  <2>1. io_todo' = <<>> \/ io_todo' = <<<<"outputs">>, <<"inputs">>>> \o Tail(io_todo)
    BY <1>2 DEF TakePin
  <2>2. Tail(io_todo) \in Seq(IoEntry) /\ EndsAreLast(Tail(io_todo)) /\ Entries(Tail(io_todo)) = {}
    BY <1>2, OneEntry
  <2>3. Entries(io_todo') \subseteq {<<"outputs">>, <<"inputs">>}
    <3>1. CASE io_todo' = <<>>
      BY <3>1, OneEntry
    <3>2. CASE io_todo' = <<<<"outputs">>, <<"inputs">>>> \o Tail(io_todo)
      <4>1. Entries(io_todo') = {<<"outputs">>, <<"inputs">>} \union Entries(Tail(io_todo))
        BY <2>2, <3>2, OwnerCalls
      <4> QED BY <2>2, <4>1
    <3> QED BY <2>1, <3>1, <3>2
  <2>4. <<"outputs">>[1] = "outputs" /\ <<"inputs">>[1] = "inputs"
    OBVIOUS
  <2> QED BY <2>3, <2>4
<1>7. AtMostOne(OutDiff')
  <2>1. PICK m : m = config.pin
    OBVIOUS
  <2>2. OutDiff' \subseteq {m}
    BY <1>1, <1>5, <2>1 DEF OutDiff, Differing, Driven, Dir, OutValues
  <2> QED BY <2>2 DEF AtMostOne
<1> QED BY <1>1, <1>4, <1>6, <1>7, FreshShorts DEF LevelsInv, PlainlyAgree

(* What the software changes in OUT or DIR are outputs of the GPIO.        *)
LEMMA SoftwareShorts ==
  ASSUME CarefulBoard, LevelsInv, KnownOutputs, ShortsInv, IoSoftware
  PROVE  ShortsInv'
<1>1. /\ io_todo = <<>> /\ io_error = "none" /\ UNCHANGED <<pinCtl, pinIo, io_error>> /\ IoTypeOK /\ O_level = Driven
  BY SettledLevels DEF IoSoftware, SoftwareOutputs, SoftwarePinCnf, SoftwareDetectMode, SoftwareLatch, SoftwareGpiote,
         SoftwareGpioteInterrupts, TestDrives
<1>2. PlainlyAgree
  BY <1>1, NothingWaits, OneEntry
<1>3. IoTypeOK'
  BY LevelsStep DEF LevelsInv, IoNext
<1>6. OfGpio(OutDiff)'
  BY <1>1 DEF OfGpio, OutDiff, Differing, Driven, Dir, OutValues, pinCtl, pinIo
<1>7. \A e \in Entries(io_todo') : e[1] # "propagate" /\ (e[1] = "drive" => io_todo' = <<e>> /\ e[2] \in TestPins)
  BY <1>1, SoftwareCalls
<1> QED BY <1>1, <1>2, <1>3, <1>6, <1>7, FreshShorts DEF PlainlyAgree, pinIo

(* Every step keeps the wires.                                             *)
LEMMA ShortsStep ==
  ASSUME CarefulBoard, LevelsInv, KnownOutputs, ShortsInv, [IoNext]_ioVars
  PROVE  ShortsInv'
<1>1. CASE UNCHANGED ioVars
  <2>1. UNCHANGED <<OUT, DIR, pin_owner, external_OUT, O_level, IO_level, io_todo, io_error>>
    BY <1>1 DEF ioVars, pinCfg, pinCtl, pinIo
  <2> QED BY <2>1 DEF ShortsInv, ChangesAreClear, PropagationFits, DriveFits, ShortsAgree,
          Waits, Drives, OfGpio, AtMostOne, OutDiff, Driven, Dir, OutValues
<1> QED BY <1>1, EvalOutputsShorts, PropagateOutputShorts, EvalInputShorts, NotifyShorts, ChannelTaskShorts,
           ReleasePinShorts, TakePinShorts, SoftwareShorts DEF IoNext

(* In every state, on a careful board: a shorted input has its output's    *)
(* level but for what remains to be propagated.                            *)
THEOREM ShortsInvariant == CarefulBoard => (IoSpec => []ShortsInv)
<1> SUFFICES ASSUME CarefulBoard PROVE IoSpec => []ShortsInv
  OBVIOUS
<1>1. LevelsInv /\ KnownOutputs /\ ShortsInv /\ [IoNext]_ioVars => ShortsInv'
  BY ShortsStep
<1>2. OutputsToInputs
  BY DEF CarefulBoard
<1> QED BY <1>1, <1>2, ShortsInitInv, LevelsInvariant, OutputsInvariant, PTL DEF IoSpec

(* Once the last call returns, each shorted input that no test drives has  *)
(* the level of its output (ShortFollowsOutput, NRF_GPIO_backend.c:91-96), *)
(* on every careful board: an output that only the GPIO drives has as many *)
(* wires as one likes, one that a channel drives has one, and the PPI can  *)
(* change outputs in the middle of the loops over the pins and the wires.  *)
THEOREM ShortsFollow == CarefulBoard => (IoSpec => []ShortFollowsOutput)
<1>1. IoTypeOK /\ ShortsInv => ShortFollowsOutput
  <2> SUFFICES ASSUME IoTypeOK, ShortsInv, io_todo = <<>>, io_error = "none",
                      NEW n \in Pins, NEW i \in DOMAIN Shorted[n], Shorted[n][i] \notin Dir \union TestPins
               PROVE  Shorted[n][i] \in IO_level <=> n \in O_level
    BY DEF ShortFollowsOutput
  <2>1. PlainlyAgree
    BY NothingWaits, OneEntry
  <2>2. Shorted[n] \in Seq(Pins)
    BY BoardAssumption
  <2>3. Shorted[n][i] \in Pins /\ IsShort(n, Shorted[n][i])
    BY <2>2 DEF IsShort, Entries
  <2> QED BY <2>1, <2>3 DEF PlainlyAgree
<1> QED BY <1>1, ShortsInvariant, IoTypes, PTL

-----------------------------------------------------------------------------
(* The levels that the channels know.                                      *)

(* The channel looks at the edges of its pin; the pin is yet to be         *)
(* notified.                                                               *)
Watches(ch)  == /\ ch_status[ch].mode = "Event" /\ ch_status[ch].polarity # "None"
                /\ pin_owner[ch_status[ch].pin] = "Event"
Notified(n)  == \E e \in Entries(io_todo) : e[1] = "notify" /\ n \in e[2]

(* A channel that has just taken its pin knows the level that the inputs    *)
(* will have once they are evaluated, and no drive comes before that.       *)
KnowsNext(ch) ==
  /\ ch_status[ch].level <=> ch_status[ch].pin \in IO_level
  /\ Has(io_todo, "inputs")
  /\ ch_status[ch].pin \in Targets =>
       \/ First("inputs")
       \/ First("outputs") /\ O_level = Driven /\ Head(Tail(io_todo)) = <<"inputs">>

(* A channel knows its pin's level, or is about to be told, or knew it     *)
(* before; a channel in task mode knows its output value.                  *)
EventLevel(ch) == Watches(ch) =>
                    \/ ch_status[ch].level <=> ch_status[ch].pin \in IN_level
                    \/ Notified(ch_status[ch].pin)
                    \/ KnowsNext(ch)
TaskLevel(ch)  == ch_status[ch].mode = "Task" => (ch_status[ch].level <=> ch_status[ch].pin \in external_OUT)

DrivesOnlyTargets == \A e \in Entries(io_todo) : e[1] = "drive" => e[2] \in Targets \/ io_todo = <<e>>

(* The inductive invariant of the levels that the channels know; only the  *)
(* ends of wires are driven behind the back of other calls.                *)
KnowsInv == DrivesOnlyTargets /\ \A ch \in Channels : EventLevel(ch) /\ TaskLevel(ch)

(* Out of reset no channel looks at a pin.                                 *)
LEMMA KnowsInitInv == IoInit => KnowsInv
<1> SUFFICES ASSUME IoInit PROVE KnowsInv
  OBVIOUS
<1>1. /\ Entries(io_todo) = {}
      /\ \A ch \in Channels : ch_status[ch].mode = "Disabled"
  BY OneEntry DEF IoInit, UnusedChannel
<1> QED BY <1>1 DEF KnowsInv, DrivesOnlyTargets, EventLevel, TaskLevel, Watches

(* A pin has one channel.                                                   *)
LEMMA OnePin ==
  ASSUME OwnersInv, NEW c \in Channels, ch_status[c].mode # "Disabled"
  PROVE  \A d \in Channels : ch_status[d].pin = ch_status[c].pin => d = c
BY DEF OwnersInv, Apart

(* What waits stays in what is to do when the first call is taken off.      *)
LEMMA StillCalled ==
  ASSUME LevelsInv, KnowsInv, io_todo # <<>>, NEW p, Continues(p)
  PROVE  /\ DrivesOnlyTargets'
         /\ \A e \in Entries(io_todo) : e = Head(io_todo) \/ e \in Entries(io_todo')
         /\ Has(io_todo, "inputs") /\ Head(io_todo)[1] # "inputs" => Has(io_todo', "inputs")
         /\ \A n : Notified(n) /\ Head(io_todo)[1] # "notify" => Notified(n)'
<1>1. /\ io_todo \in Seq(IoEntry) /\ Tail(io_todo) \in Seq(IoEntry) /\ p \in Seq(IoEntry) /\ io_todo' = p \o Tail(io_todo)
      /\ Entries(io_todo) = {Head(io_todo)} \union Entries(Tail(io_todo))
  BY TakenOff DEF LevelsInv, IoTypeOK, Continues
<1>2. Entries(io_todo') = Entries(p) \union Entries(Tail(io_todo))
  BY <1>1, Joined
<1>3. DrivesOnlyTargets'
  <2> SUFFICES ASSUME NEW e \in Entries(io_todo'), e[1] = "drive" PROVE e[2] \in Targets
    BY DEF DrivesOnlyTargets
  <2>1. CASE e \in Entries(p)
    BY <2>1 DEF Continues
  <2>2. CASE e \in Entries(Tail(io_todo))
    <3>1. io_todo # <<e>>
      <4>1. SUFFICES ASSUME io_todo = <<e>> PROVE FALSE
        OBVIOUS
      <4>2. Tail(io_todo) = <<>>
        BY <4>1
      <4> QED BY <2>2, <4>2, OneEntry
    <3> QED BY <1>1, <2>2, <3>1 DEF KnowsInv, DrivesOnlyTargets
  <2> QED BY <1>2, <2>1, <2>2
<1>4. \A e \in Entries(io_todo) : e = Head(io_todo) \/ e \in Entries(io_todo')
  BY <1>1, <1>2
<1> QED BY <1>3, <1>4 DEF Has, Notified

(* A step in which no channel changes and no input is read.                 *)
LEMMA StillKnows ==
  ASSUME LevelsInv, KnowsInv, io_todo # <<>>, Head(io_todo)[1] # "notify",
         UNCHANGED <<ch_status, pin_owner, external_OUT, IN_level>>, NEW p, Continues(p),
         \A ch \in Channels : Watches(ch) /\ KnowsNext(ch) => KnowsNext(ch)'
  PROVE  KnowsInv'
<1>1. DrivesOnlyTargets' /\ \A n : Notified(n) => Notified(n)'
  BY StillCalled
<1>2. ASSUME NEW ch \in Channels PROVE EventLevel(ch)' /\ TaskLevel(ch)'
  <2>1. /\ Watches(ch)' <=> Watches(ch)
        /\ ch_status'[ch].pin = ch_status[ch].pin
        /\ (ch_status[ch].level <=> ch_status[ch].pin \in IN_level)'
             <=> (ch_status[ch].level <=> ch_status[ch].pin \in IN_level)
    BY DEF Watches
  <2>2. Notified(ch_status[ch].pin) => Notified(ch_status[ch].pin)'
    BY <1>1, <2>1 DEF Notified
  <2>3. TaskLevel(ch)'
    BY DEF KnowsInv, TaskLevel
  <2>4. EventLevel(ch)'
    BY <2>1, <2>2 DEF KnowsInv, EventLevel
  <2> QED BY <2>3, <2>4
<1> QED BY <1>1, <1>2 DEF KnowsInv

(* The evaluation of the outputs and the wires moves no pin of which a     *)
(* channel knows the level that its input will have.                       *)
LEMMA PinKnows ==
  ASSUME OutputsToInputs, LevelsInv, KnowsInv,
         EvalOutputs \/ PropagateOutput \/ EvalInput \/ EvalSense
  PROVE  KnowsInv'
<1>1. PICK p : Continues(p)
  BY PinCalls
<1>2. /\ io_todo # <<>> /\ io_todo \in Seq(IoEntry) /\ Head(io_todo)[1] \notin {"notify", "inputs"}
      /\ UNCHANGED <<ch_status, pin_owner, external_OUT, IN_level, DIR, OUT>>
      /\ Dir' = Dir /\ Driven' = Driven
  BY DEF EvalOutputs, PropagateOutput, EvalInput, EvalSense, IoOp, pinCtl, pinIo, pinCfg, LevelsInv, IoTypeOK,
         Dir, Driven, OutValues
<1>3. ASSUME NEW ch \in Channels, Watches(ch), KnowsNext(ch) PROVE KnowsNext(ch)'
  <2> DEFINE n == ch_status[ch].pin
  <2>1. Has(io_todo', "inputs")
    BY <1>1, <1>2, <1>3, StillCalled DEF KnowsNext
  <2>2. n \notin Dir /\ n \notin Driven /\ n' = n
    BY <1>2, <1>3 DEF Watches, Dir, Driven
  <2>3. n \in Targets => First("outputs") /\ O_level = Driven /\ Head(Tail(io_todo)) = <<"inputs">>
    BY <1>2, <1>3 DEF KnowsNext, First
  <2> HIDE DEF n
  <2>4. n \in IO_level' <=> n \in IO_level
    <3>1. CASE EvalOutputs
      BY <2>2, <3>1 DEF EvalOutputs
    <3>2. CASE PropagateOutput \/ EvalSense
      BY <3>2 DEF PropagateOutput, EvalSense, pinIo
    <3>3. CASE EvalInput
      <4>1. Head(io_todo)[1] = "drive" /\ n \notin Targets
        BY <2>3, <3>3 DEF EvalInput, IoOp, First
      <4>2. io_todo # <<Head(io_todo)>>
        <5>1. SUFFICES ASSUME io_todo = <<Head(io_todo)>> PROVE FALSE
          OBVIOUS
        <5>2. Entries(io_todo) = {Head(io_todo)}
          BY <1>2, <5>1, TakenOff, OneEntry
        <5> QED BY <1>3, <4>1, <5>2 DEF KnowsNext, Has
      <4>3. Head(io_todo)[2] \in Targets
        BY <1>2, <4>1, <4>2, TakenOff DEF KnowsInv, DrivesOnlyTargets
      <4> QED BY <3>3, <4>1, <4>3 DEF EvalInput
    <3> QED BY <3>1, <3>2, <3>3
  <2>5. n \in Targets => First("inputs")'
    <3> SUFFICES ASSUME n \in Targets PROVE First("inputs")'
      OBVIOUS
    <3>1. EvalOutputs
      BY <2>3 DEF First, PropagateOutput, EvalInput, EvalSense, IoOp
    <3>2. io_todo' = Tail(io_todo) /\ Head(io_todo') = <<"inputs">>
      BY <2>3, <3>1 DEF EvalOutputs
    <3>3. io_todo' # <<>>
      BY <2>1, NothingHas
    <3>4. <<"inputs">>[1] = "inputs"
      OBVIOUS
    <3> QED BY <3>2, <3>3, <3>4 DEF First
  <2>6. (ch_status'[ch].level <=> ch_status[ch].level) /\ ch_status'[ch].pin = n /\ ch_status[ch].pin = n
    BY <1>2 DEF n
  <2> QED BY <1>3, <2>1, <2>4, <2>5, <2>6 DEF KnowsNext
<1> QED BY <1>1, <1>2, <1>3, StillKnows

(* The inputs that change are notified, and those that were awaited are    *)
(* there.                                                                  *)
LEMMA EvalInputsKnows ==
  ASSUME LevelsInv, KnowsInv, EvalInputs
  PROVE  KnowsInv'
<1>1. PICK p : Continues(p)
  BY PinCalls
<1>2. /\ io_todo # <<>> /\ Head(io_todo)[1] = "inputs" /\ IoTypeOK /\ Tail(io_todo) \in Seq(IoEntry)
      /\ UNCHANGED <<ch_status, pin_owner, external_OUT>>
      /\ IN_level' = IO_level \intersect EnabledInputs
  BY TakenOff DEF EvalInputs, IoOp, pinCtl, LevelsInv, IoTypeOK
<1>3. DrivesOnlyTargets' /\ \A n : Notified(n) => Notified(n)'
  BY <1>1, <1>2, StillCalled
<1>4. ASSUME NEW n, n \in Differing(IN_level', IN_level) PROVE Notified(n)'
  <2> DEFINE S == Differing(IN_level', IN_level)
             x == <<"notify", S>>
  <2>1. io_todo' = PinLoop(x) \o <<<<"sense">>>> \o Tail(io_todo)
    BY DEF EvalInputs
  <2>2. S \in (SUBSET Pins) \ {{}} /\ x[2] = S /\ x[1] = "notify"
    BY <1>2, <1>4 DEF IoTypeOK, EnabledInputs, Differing
  <2>3. x \in IoEntry
    BY <2>2, EntryForms
  <2> HIDE DEF x, S
  <2>4. PinLoop(x) \in Seq(IoEntry) /\ Entries(PinLoop(x)) = {x}
    BY <2>2, <2>3, LoopCalls
  <2>5. PICK a, b : a = PinLoop(x) /\ b = <<<<"sense">>>>
    OBVIOUS
  <2>6. a \in Seq(IoEntry) /\ b \in Seq(IoEntry) /\ Entries(a) = {x} /\ io_todo' = (a \o b) \o Tail(io_todo)
    BY <2>1, <2>4, <2>5, EntryForms, OneEntry
  <2>7. a \o b \in Seq(IoEntry) /\ Entries(a \o b) = Entries(a) \union Entries(b)
    BY <2>6, Joined
  <2>8. Entries(io_todo') = Entries(a \o b) \union Entries(Tail(io_todo))
    BY <1>2, <2>6, <2>7, Joined
  <2>9. n \in S
    BY <1>4 DEF S
  <2> QED BY <2>2, <2>6, <2>7, <2>8, <2>9 DEF Notified
<1>5. ASSUME NEW ch \in Channels PROVE EventLevel(ch)' /\ TaskLevel(ch)'
  <2>1. TaskLevel(ch)'
    BY <1>2 DEF KnowsInv, TaskLevel
  <2>2. SUFFICES ASSUME Watches(ch) PROVE (ch_status[ch].level <=> ch_status[ch].pin \in IN_level') \/ Notified(ch_status[ch].pin)'
    BY <1>2, <2>1 DEF EventLevel, Watches
  <2>3. CASE ch_status[ch].level <=> ch_status[ch].pin \in IN_level
    <3>1. ch_status'[ch].pin = ch_status[ch].pin
      BY <1>2
    <3> QED BY <1>4, <2>3, <3>1 DEF Differing, Notified
  <2>4. CASE Notified(ch_status[ch].pin)
    <3>1. ch_status'[ch].pin = ch_status[ch].pin
      BY <1>2
    <3> QED BY <1>3, <2>4, <3>1 DEF Notified
  <2>5. CASE KnowsNext(ch)
    <3>1. ch_status[ch].pin \in EnabledInputs
      BY <1>2, <2>2 DEF Watches, EnabledInputs, IoTypeOK
    <3> QED BY <1>2, <2>5, <3>1 DEF KnowsNext
  <2> QED BY <2>2, <2>3, <2>4, <2>5 DEF KnowsInv, EventLevel
<1> QED BY <1>3, <1>5 DEF KnowsInv

(* A notification gives the channel of the pin its level.                   *)
LEMMA NotifyKnows ==
  ASSUME LevelsInv, OwnersInv, KnowsInv, OwnersInv', Notify
  PROVE  KnowsInv'
<1>1. /\ io_todo # <<>> /\ Head(io_todo)[1] = "notify" /\ IoTypeOK
      /\ UNCHANGED <<pin_owner, external_OUT, IN_level, IO_level>>
  BY DEF Notify, IoOp, pinCtl, pinIo, LevelsInv
<1>2. /\ \A c \in Channels : ch_status'[c].mode = ch_status[c].mode /\ ch_status'[c].pin = ch_status[c].pin
      /\ \E p : Continues(p)
      /\ \E n \in Pins : NotifiesNext(n)
  BY NotifyCalls DEF OwnersInv
<1>3. PICK p : Continues(p)
  BY <1>2
<1>4. PICK n \in Pins : NotifiesNext(n)
  BY <1>2
<1>5. /\ DrivesOnlyTargets'
      /\ \A e \in Entries(io_todo) : e = Head(io_todo) \/ e \in Entries(io_todo')
      /\ Has(io_todo, "inputs") => Has(io_todo', "inputs")
  BY <1>1, <1>3, StillCalled
<1>6. ASSUME NEW m, m # n, Notified(m) PROVE Notified(m)'
  <2>1. PICK e \in Entries(io_todo) : e[1] = "notify" /\ m \in e[2]
    BY <1>6 DEF Notified
  <2>2. CASE e = Head(io_todo)
    BY <1>4, <1>6, <2>1, <2>2 DEF NotifiesNext, Notified
  <2>3. CASE e \in Entries(io_todo')
    BY <2>1, <2>3 DEF Notified
  <2> QED BY <1>5, <2>2, <2>3
<1>7. PICK v : v = (n \in IN_level)
  OBVIOUS
<1>8. /\ pin_owner[n] # "Event" => UNCHANGED ch_status
      /\ pin_owner[n] = "Event" => \E d \in Channels :
           /\ ch_status[d].pin = n
           /\ \A c \in Channels : c # d => ch_status'[c] = ch_status[c]
           /\ ch_status[d].polarity # "None" => (ch_status'[d].level <=> n \in IN_level)
           /\ ch_status'[d].polarity = ch_status[d].polarity
  <2>1. CASE pin_owner[n] # "Event"
    BY <1>4, <2>1 DEF NotifiesNext
  <2>2. CASE pin_owner[n] = "Event"
    <3>1. PICK d \in Channels : /\ ch_status[d].pin = n
                                /\ ch_status' = IF KeepsLevel(ch_status[d], v)
                                                  THEN [ch_status EXCEPT ![d].level = v] ELSE ch_status
      BY <1>4, <1>7, <2>2 DEF NotifiesNext, ChannelsOf
    <3>2. ch_status \in [Channels -> Status] /\ ch_status[d] \in Status
      BY <1>1 DEF IoTypeOK, Status
    <3>3. \A c \in Channels : c # d => ch_status'[c] = ch_status[c]
      BY <3>1, <3>2
    <3>4. ch_status'[d].polarity = ch_status[d].polarity
      BY <3>1, <3>2 DEF Status
    <3>5. ch_status[d].polarity # "None" => ch_status'[d].level = v
      BY <3>1, <3>2 DEF Status, KeepsLevel
    <3> QED BY <1>7, <2>2, <3>1, <3>3, <3>4, <3>5
  <2> QED BY <2>1, <2>2
<1>9. ASSUME NEW ch \in Channels PROVE EventLevel(ch)' /\ TaskLevel(ch)'
  <2>1. CASE ch_status'[ch] = ch_status[ch] /\ ~(ch_status[ch].pin = n /\ Watches(ch))
    <3>1. TaskLevel(ch)'
      BY <1>1, <2>1 DEF KnowsInv, TaskLevel
    <3>2. SUFFICES ASSUME Watches(ch) PROVE EventLevel(ch)'
      BY <1>1, <2>1, <3>1 DEF EventLevel, Watches
    <3>3. Notified(ch_status[ch].pin) => Notified(ch_status[ch].pin)'
      <4>1. ch_status[ch].pin # n /\ ch_status'[ch].pin = ch_status[ch].pin
        BY <2>1, <3>2
      <4> QED BY <1>6, <4>1 DEF Notified
    <3>4. KnowsNext(ch) => KnowsNext(ch)'
      BY <1>1, <1>5, <2>1 DEF KnowsNext, First
    <3>5. \/ ch_status[ch].level <=> ch_status[ch].pin \in IN_level
          \/ Notified(ch_status[ch].pin)
          \/ KnowsNext(ch)
      BY <3>2 DEF KnowsInv, EventLevel
    <3>6. (ch_status[ch].level <=> ch_status[ch].pin \in IN_level)
            => (ch_status[ch].level <=> ch_status[ch].pin \in IN_level)'
      BY <1>1, <2>1
    <3> QED BY <3>3, <3>4, <3>5, <3>6 DEF EventLevel
  <2>2. CASE ch_status[ch].pin = n /\ Watches(ch)
    <3>1. PICK d \in Channels : /\ ch_status[d].pin = n
                                /\ ch_status[d].polarity # "None" => (ch_status'[d].level <=> n \in IN_level)
      BY <1>8, <2>2 DEF Watches
    <3>2. d = ch
      BY <2>2, <3>1, OnePin DEF Watches
    <3> QED BY <1>1, <1>2, <2>2, <3>1, <3>2 DEF EventLevel, TaskLevel, Watches
  <2>3. CASE ch_status'[ch] # ch_status[ch] /\ ~(ch_status[ch].pin = n /\ Watches(ch))
    <3>1. pin_owner[n] = "Event" /\ ch_status[ch].pin = n /\ ch_status'[ch].polarity = ch_status[ch].polarity
      BY <1>8, <2>3
    <3>2. PICK c \in Channels : ch_status[c].pin = n /\ ch_status[c].mode = "Event"
      BY <3>1 DEF OwnersInv, Owned
    <3>3. c = ch
      BY <3>1, <3>2, OnePin
    <3> QED BY <1>1, <1>2, <2>3, <3>1, <3>2, <3>3 DEF EventLevel, TaskLevel, Watches
  <2> QED BY <2>1, <2>2, <2>3
<1> QED BY <1>5, <1>9 DEF KnowsInv

(* A task of a channel changes its level with the value of its pin.         *)
LEMMA ChannelTaskKnows ==
  ASSUME LevelsInv, OwnersInv, KnowsInv, OwnersInv', ChannelTask
  PROVE  KnowsInv'
<1>1. /\ IoTypeOK /\ io_todo \in Seq(IoEntry) /\ io_todo # <<>> /\ Head(io_todo)[1] = "task" /\ Head(io_todo) \in IoEntry
      /\ UNCHANGED <<pin_owner, IN_level, IO_level>>
  BY TakenOff DEF ChannelTask, IoOp, LevelsInv, IoTypeOK, pinIo
<1>10. PICK d : d = Head(io_todo)[3]
  OBVIOUS
<1> DEFINE task == Head(io_todo)[2]
           status == ch_status[d]
           level == LevelAfter(task, status)
           idle == status.mode # "Task" \/ (task = "OUT" /\ status.polarity = "None")
<1>2. task \in IoTask /\ d \in Channels /\ status.pin \in Pins /\ status.polarity \in Polarities /\ status.level \in BOOLEAN
  BY <1>1, <1>10, EntryParts DEF IoTypeOK
<1>3. /\ idle => UNCHANGED <<ch_status, external_OUT>>
      /\ ~idle => /\ status.mode = "Task" /\ ch_status' = [ch_status EXCEPT ![d].level = level]
                  /\ pin_owner[status.pin] # "gpio" =>
                       external_OUT' = IF level THEN external_OUT \union {status.pin} ELSE external_OUT \ {status.pin}
                  /\ pin_owner[status.pin] = "gpio" => io_error' # "none"
  BY <1>10 DEF ChannelTask
<1>4. ~idle => level \in BOOLEAN
  BY <1>2, TaskLevels
<1> HIDE DEF level, idle, task
<1>5. PICK p : Continues(p)
  BY ChannelTaskCalls DEF OwnersInv
<1>6. /\ DrivesOnlyTargets' /\ \A n : Notified(n) => Notified(n)'
      /\ Has(io_todo, "inputs") => Has(io_todo', "inputs")
  BY <1>1, <1>5, StillCalled
<1>7. ASSUME NEW ch \in Channels, ch_status'[ch] = ch_status[ch] PROVE EventLevel(ch)'
  <2>1. SUFFICES ASSUME Watches(ch) PROVE EventLevel(ch)'
    BY <1>1, <1>7 DEF EventLevel, Watches
  <2>2. Notified(ch_status[ch].pin) => Notified(ch_status[ch].pin)'
    BY <1>6, <1>7 DEF Notified
  <2>3. KnowsNext(ch) => KnowsNext(ch)'
    BY <1>1, <1>6, <1>7 DEF KnowsNext, First
  <2> QED BY <1>1, <1>7, <2>1, <2>2, <2>3 DEF KnowsInv, EventLevel
<1>8. CASE idle
  <2>1. UNCHANGED <<ch_status, external_OUT>>
    BY <1>3, <1>8
  <2>2. \A ch \in Channels : TaskLevel(ch)'
    BY <2>1 DEF KnowsInv, TaskLevel
  <2> QED BY <1>6, <1>7, <2>1, <2>2 DEF KnowsInv
<1>9. CASE ~idle
  <2>1. PICK n : n = status.pin
    OBVIOUS
  <2>2. /\ status.mode = "Task" /\ level \in BOOLEAN /\ n \in Pins
        /\ external_OUT' = IF level THEN external_OUT \union {n} ELSE external_OUT \ {n}
    BY <1>2, <1>3, <1>4, <1>9, <2>1 DEF OwnersInv
  <2>3. /\ \A c \in Channels : c # d => ch_status'[c] = ch_status[c]
        /\ ch_status'[d].level = level /\ ch_status'[d].mode = "Task" /\ ch_status'[d].pin = n
    <3>1. ch_status \in [Channels -> Status] /\ ch_status[d] \in Status
      BY <1>1, <1>2 DEF IoTypeOK, Status
    <3>2. ch_status' = [ch_status EXCEPT ![d].level = level]
      BY <1>3, <1>9
    <3> QED BY <1>2, <2>1, <2>2, <3>1, <3>2 DEF Status
  <2>4. EventLevel(d)' /\ TaskLevel(d)'
    <3>1. level <=> n \in external_OUT'
      <4>1. CASE level = TRUE
        BY <2>2, <4>1
      <4>2. CASE level = FALSE
        BY <2>2, <4>2
      <4> QED BY <2>2, <4>1, <4>2
    <3> QED BY <2>3, <3>1 DEF EventLevel, TaskLevel, Watches
  <2>5. ASSUME NEW ch \in Channels, ch # d PROVE TaskLevel(ch)'
    <3>1. ch_status[ch].mode = "Task" => ch_status[ch].pin # n
      BY <1>2, <2>1, <2>5, OnePin
    <3> QED BY <2>2, <2>3, <2>5, <3>1 DEF KnowsInv, TaskLevel
  <2>6. ASSUME NEW ch \in Channels PROVE EventLevel(ch)' /\ TaskLevel(ch)'
    <3>1. CASE ch = d
      BY <2>4, <3>1
    <3>2. CASE ch # d
      BY <1>7, <2>3, <2>5, <3>2
    <3> QED BY <3>1, <3>2
  <2> QED BY <1>6, <2>6 DEF KnowsInv
<1> QED BY <1>8, <1>9

(* When nothing waits but one call of the software's.                       *)
LEMMA PlainlyKnows ==
  ASSUME KnowsInv, \A e \in Entries(io_todo) : e[1] \notin {"notify", "inputs"}, NEW ch \in Channels, Watches(ch)
  PROVE  ch_status[ch].level <=> ch_status[ch].pin \in IN_level
BY DEF KnowsInv, EventLevel, Notified, KnowsNext, Has

(* A channel that gives its pin back looks at none.                        *)
LEMMA ReleasePinKnows ==
  ASSUME LevelsInv, KnowsInv, ReleasePin
  PROVE  KnowsInv'
<1>1. /\ io_todo \in Seq(IoEntry) /\ io_todo # <<>> /\ EndsAreLast(io_todo) /\ IoTypeOK
      /\ Head(io_todo)[1] = "config" /\ Head(io_todo) \in IoEntry
  BY TakenOff DEF ReleasePin, IoOp, LevelsInv, IoTypeOK
<1> DEFINE config == Head(io_todo)[2]
           x == <<"take", config>>
           old == ch_status[config.ch]
<1>2. config \in ChannelConfigs /\ Tail(io_todo) = <<>> /\ config.ch \in Channels /\ old.pin \in Pins
  BY <1>1, EntryParts, OrderKept, ConfigParts DEF Ends, IoTypeOK
<1>3. UNCHANGED <<ch_status, external_OUT, IN_level>>
  BY DEF ReleasePin, pinIo
<1>4. <<x>> \in Seq(IoEntry) /\ EndsAreLast(<<x>>) /\ Entries(<<x>>) = {x} /\ x[1] = "take"
  BY <1>2, EntryForms, OneEntry DEF Ends
<1>5. Entries(io_todo) = {Head(io_todo)}
  BY <1>1, <1>2, TakenOff, OneEntry
<1>6. \A ch \in Channels : Watches(ch) => (ch_status[ch].level <=> ch_status[ch].pin \in IN_level)
  BY <1>1, <1>5, PlainlyKnows
<1>7. \A n \in Pins : pin_owner'[n] = "Event" => pin_owner[n] = "Event"
  BY <1>1, <1>2 DEF ReleasePin, IoTypeOK
<1>8. \A e \in Entries(io_todo') : e[1] # "drive"
  <2> HIDE DEF x
  <2>1. PICK t : t = <<x>>
    OBVIOUS
  <2>2. io_todo' = <<<<"outputs">>, <<"inputs">>>> \o t \/ io_todo' = t
    <3>1. io_todo' = <<<<"outputs">>, <<"inputs">>, x>> \o <<>> \/ io_todo' = <<x>> \o <<>>
      BY <1>2 DEF ReleasePin, x
    <3>2. \A a, b, c : <<a, b, c>> \o <<>> = <<a, b>> \o <<c>> /\ <<c>> \o <<>> = <<c>>
      OBVIOUS
    <3> QED BY <2>1, <3>1, <3>2
  <2>3. t \in Seq(IoEntry) /\ EndsAreLast(t) /\ Entries(t) = {x}
    BY <1>4, <2>1
  <2>4. Entries(io_todo') \subseteq {<<"outputs">>, <<"inputs">>, x}
    BY <2>2, <2>3, OwnerCalls
  <2>5. <<"outputs">>[1] = "outputs" /\ <<"inputs">>[1] = "inputs"
    OBVIOUS
  <2> QED BY <1>4, <2>4, <2>5
<1>9. ASSUME NEW ch \in Channels PROVE EventLevel(ch)' /\ TaskLevel(ch)'
  <2>1. TaskLevel(ch)'
    BY <1>3 DEF KnowsInv, TaskLevel
  <2>2. ch_status[ch].pin \in Pins
    BY <1>1 DEF IoTypeOK
  <2> QED BY <1>3, <1>6, <1>7, <2>1, <2>2 DEF EventLevel, Watches
<1> QED BY <1>8, <1>9 DEF KnowsInv, DrivesOnlyTargets

(* A channel that takes its pin knows the level that the pin has, or gives  *)
(* it its own.                                                              *)
LEMMA TakePinKnows ==
  ASSUME OutputsToInputs, LevelsInv, KnownOutputs, OwnersInv, KnowsInv, TakePin
  PROVE  KnowsInv'
<1>1. /\ IoTypeOK /\ io_todo \in Seq(IoEntry) /\ io_todo # <<>> /\ EndsAreLast(io_todo)
      /\ Head(io_todo)[1] = "take" /\ Head(io_todo) \in IoEntry
  BY TakenOff DEF TakePin, IoOp, LevelsInv, IoTypeOK
<1>14. PICK config : config = Head(io_todo)[2]
  OBVIOUS
<1> DEFINE level == CASE config.mode = "Event" -> config.pin \in IO_level
                    [] config.mode = "Task" -> config.outinit
                    [] OTHER -> ch_status[config.ch].level
<1>2. /\ config \in ChannelConfigs /\ Tail(io_todo) = <<>> /\ config.ch \in Channels /\ config.pin \in Pins
      /\ config.outinit \in BOOLEAN /\ config.mode \in {"Disabled", "Event", "Task"}
  BY <1>1, <1>14, EntryParts, OrderKept, ConfigParts DEF Ends, IoTypeOK
<1>3. UNCHANGED <<IN_level, IO_level, O_level, OUT, DIR>>
  BY DEF TakePin, pinIo, pinCfg
<1>4. /\ \A ch \in Channels : ch # config.ch => ch_status'[ch] = ch_status[ch]
      /\ ch_status'[config.ch].mode = config.mode /\ ch_status'[config.ch].pin = config.pin
      /\ ch_status'[config.ch].level = level
  <2>1. PICK l : l = level
    OBVIOUS
  <2>2. ch_status' = [ch_status EXCEPT ![config.ch] =
              [mode |-> config.mode, pin |-> config.pin, polarity |-> config.polarity, level |-> l]]
    BY <1>14, <2>1 DEF TakePin
  <2> HIDE DEF level
  <2> QED BY <1>1, <1>2, <2>1, <2>2 DEF IoTypeOK
<1>5. config.mode = "Disabled" => UNCHANGED pinCtl /\ io_todo' = <<>>
  BY <1>2, <1>14 DEF TakePin
<1>6. config.mode # "Disabled" =>
        /\ pin_owner' = [pin_owner EXCEPT ![config.pin] = config.mode]
        /\ external_OUT' = IF config.mode = "Event" THEN external_OUT
                           ELSE IF level THEN external_OUT \union {config.pin}
                           ELSE external_OUT \ {config.pin}
        /\ io_todo' = <<<<"outputs">>, <<"inputs">>>> \o Tail(io_todo)
  BY <1>14 DEF TakePin
<1>7. /\ config.mode = "Event" => level = (config.pin \in IO_level)
      /\ config.mode = "Task" => level = config.outinit
  OBVIOUS
<1> HIDE DEF level
<1>8. /\ \A n \in Pins : n # config.pin \/ config.mode = "Disabled" => pin_owner'[n] = pin_owner[n]
      /\ \A n : n # config.pin \/ config.mode = "Disabled" => (n \in external_OUT' <=> n \in external_OUT)
  BY <1>1, <1>2, <1>5, <1>6 DEF pinCtl, IoTypeOK
<1>9. Entries(io_todo) = {Head(io_todo)}
  BY <1>1, <1>2, TakenOff, OneEntry
<1>10. \A e \in Entries(io_todo') : e[1] # "drive"
  <2>1. CASE config.mode = "Disabled"
    BY <1>5, <2>1, OneEntry
  <2>2. CASE config.mode # "Disabled"
    <3>1. Entries(io_todo') = {<<"outputs">>, <<"inputs">>} \union Entries(<<>>)
      BY <1>2, <1>6, <2>2, OwnerCalls, OneEntry
    <3>2. <<"outputs">>[1] = "outputs" /\ <<"inputs">>[1] = "inputs"
      OBVIOUS
    <3> QED BY <3>1, <3>2, OneEntry
  <2> QED BY <2>1, <2>2
<1>11. ASSUME NEW ch \in Channels, ch # config.ch PROVE EventLevel(ch)' /\ TaskLevel(ch)'
  <2>1. ch_status[ch].pin # config.pin /\ ch_status[ch].pin \in Pins
    <3>1. CallFits(Head(io_todo))
      BY <1>9 DEF OwnersInv
    <3>2. CarefulConfig(config)
      BY <1>1, <1>14, <3>1 DEF CallFits, Ends
    <3> QED BY <1>1, <1>11, <3>2 DEF CarefulConfig, IoTypeOK
  <2>2. TaskLevel(ch)'
    BY <1>4, <1>8, <1>11, <2>1 DEF KnowsInv, TaskLevel
  <2>3. Watches(ch)' => Watches(ch)
    BY <1>4, <1>8, <1>11, <2>1 DEF Watches
  <2>4. Watches(ch) => (ch_status[ch].level <=> ch_status[ch].pin \in IN_level)
    BY <1>1, <1>9, PlainlyKnows
  <2> QED BY <1>3, <1>4, <1>11, <2>2, <2>3, <2>4 DEF EventLevel
<1>12. CASE config.mode = "Event"
  <2>1. /\ pin_owner' = [pin_owner EXCEPT ![config.pin] = "Event"] /\ external_OUT' = external_OUT
        /\ io_todo' = <<<<"outputs">>, <<"inputs">>>>
    <3>1. pin_owner' = [pin_owner EXCEPT ![config.pin] = "Event"] /\ external_OUT' = external_OUT
      BY <1>6, <1>12
    <3>2. io_todo' = <<<<"outputs">>, <<"inputs">>>> \o <<>>
      BY <1>2, <1>6, <1>12
    <3> QED BY <3>1, <3>2
  <2>2. config.pin \in Targets => O_level' = Driven'
    <3> SUFFICES ASSUME config.pin \in Targets PROVE O_level' = Driven'
      OBVIOUS
    <3>1. O_level = Driven
      BY <1>1 DEF LevelsInv, OutputsAgree, First
    <3>2. config.pin \notin Dir
      BY TargetsAreNotDriven
    <3>3. \A n \in Pins : n # config.pin => (n \in Driven' <=> n \in Driven)
      BY <1>1, <1>3, <1>8, <2>1 DEF Driven, Dir, OutValues
    <3>4. config.pin \notin Driven'
      BY <1>1, <1>2, <2>1 DEF Driven, Dir, IoTypeOK
    <3>5. Driven' \subseteq Pins /\ Driven \subseteq Pins
      BY DEF Driven, Dir
    <3>6. config.pin \notin Driven
      BY <3>2 DEF Driven
    <3> QED BY <1>3, <3>1, <3>3, <3>4, <3>5, <3>6
  <2>3. /\ io_todo' # <<>> /\ Head(io_todo') = <<"outputs">> /\ Head(Tail(io_todo')) = <<"inputs">>
        /\ <<"outputs">>[1] = "outputs"
    BY <2>1
  <2>4. Has(io_todo', "inputs")
    <3>1. <<"inputs">> \in Entries(io_todo') /\ <<"inputs">>[1] = "inputs"
      BY <2>1 DEF Entries
    <3> QED BY <3>1 DEF Has
  <2>5. KnowsNext(config.ch)'
    <3>1. ch_status'[config.ch].level <=> ch_status'[config.ch].pin \in IO_level'
      BY <1>3, <1>4, <1>7, <1>12
    <3> QED BY <1>4, <2>2, <2>3, <2>4, <3>1 DEF KnowsNext, First
  <2>6. EventLevel(config.ch)' /\ TaskLevel(config.ch)'
    BY <1>4, <1>12, <2>5 DEF EventLevel, TaskLevel
  <2> QED BY <1>10, <1>11, <2>6 DEF KnowsInv, DrivesOnlyTargets
<1>13. CASE config.mode # "Event"
  <2>1. EventLevel(config.ch)'
    BY <1>4, <1>13 DEF EventLevel, Watches
  <2>2. ASSUME config.mode = "Task" PROVE level <=> config.pin \in external_OUT'
    <3>1. level \in BOOLEAN /\ external_OUT' = IF level THEN external_OUT \union {config.pin} ELSE external_OUT \ {config.pin}
      BY <1>2, <1>6, <1>7, <2>2
    <3>2. CASE level = TRUE
      BY <3>1, <3>2
    <3>3. CASE level = FALSE
      BY <3>1, <3>3
    <3> QED BY <3>1, <3>2, <3>3
  <2>3. TaskLevel(config.ch)'
    BY <1>4, <2>2 DEF TaskLevel
  <2> QED BY <1>10, <1>11, <2>1, <2>3 DEF KnowsInv, DrivesOnlyTargets
<1> QED BY <1>12, <1>13

(* What the software calls changes no level before it is made.             *)
LEMMA SoftwareKnows ==
  ASSUME KnowsInv, IoSoftware
  PROVE  KnowsInv'
<1>1. UNCHANGED <<pin_owner, ch_status, external_OUT, IN_level>> /\ io_todo = <<>>
  BY DEF IoSoftware, SoftwareOutputs, SoftwarePinCnf, SoftwareDetectMode, SoftwareLatch, SoftwareGpiote,
         SoftwareGpioteInterrupts, TestDrives, pinCtl, pinIo
<1>2. Entries(io_todo) = {}
  BY <1>1, OneEntry
<1>3. \A ch \in Channels : Watches(ch) => (ch_status[ch].level <=> ch_status[ch].pin \in IN_level)
  BY <1>2, PlainlyKnows
<1>4. ASSUME NEW ch \in Channels PROVE EventLevel(ch)' /\ TaskLevel(ch)'
  BY <1>1, <1>3 DEF KnowsInv, EventLevel, TaskLevel, Watches
<1>5. DrivesOnlyTargets'
  BY SoftwareCalls DEF DrivesOnlyTargets
<1> QED BY <1>4, <1>5 DEF KnowsInv

(* Every step keeps the levels that the channels know.                     *)
LEMMA KnowsStep ==
  ASSUME OutputsToInputs, LevelsInv, KnownOutputs, OwnersInv, KnowsInv,
         OwnersInv', [IoNext]_ioVars
  PROVE  KnowsInv'
<1>1. CASE UNCHANGED ioVars
  <2>1. UNCHANGED <<OUT, DIR, pin_owner, external_OUT, O_level, IO_level, IN_level, ch_status, io_todo>>
    BY <1>1 DEF ioVars, pinCfg, pinCtl, pinIo
  <2> QED BY <2>1 DEF KnowsInv, DrivesOnlyTargets, EventLevel, TaskLevel, Watches, Notified, KnowsNext, First,
          Driven, Dir, OutValues
<1> QED BY <1>1, PinKnows, EvalInputsKnows, NotifyKnows, ChannelTaskKnows, ReleasePinKnows, TakePinKnows,
           SoftwareKnows DEF IoNext

(* In every state: each channel knows its level, or is about to.           *)
THEOREM KnowsInvariant == CarefulSoftware /\ OutputsToInputs => (IoSpec => []KnowsInv)
<1> SUFFICES ASSUME CarefulSoftware, OutputsToInputs PROVE IoSpec => []KnowsInv
  OBVIOUS
<1>1. LevelsInv /\ KnownOutputs /\ OwnersInv /\ KnowsInv /\ OwnersInv' /\ [IoNext]_ioVars => KnowsInv'
  BY KnowsStep
<1> QED BY <1>1, KnowsInitInv, LevelsInvariant, OutputsInvariant, OwnersInvariant, PTL DEF IoSpec

(* Once the last call returns, the level from which a channel tells the    *)
(* next edge is the level of its pin (ChannelKnowsItsLevel, NRF_GPIOTE.c   *)
(* gpiote_ch_status[].level), for every careful software and wires from    *)
(* outputs to inputs.                                                      *)
THEOREM ChannelKnows == CarefulSoftware /\ OutputsToInputs => (IoSpec => []ChannelKnowsItsLevel)
<1>1. LevelsInv /\ OwnersInv /\ KnowsInv => ChannelKnowsItsLevel
  <2> SUFFICES ASSUME LevelsInv, OwnersInv, KnowsInv, io_todo = <<>>, io_error = "none", NEW ch \in Channels
               PROVE  /\ ch_status[ch].mode = "Event" /\ ch_status[ch].polarity # "None"
                           => (ch_status[ch].level <=> ch_status[ch].pin \in IN_level)
                      /\ ch_status[ch].mode = "Task" => (ch_status[ch].level <=> ch_status[ch].pin \in O_level)
    BY DEF ChannelKnowsItsLevel
  <2>1. Entries(io_todo) = {}
    BY OneEntry
  <2>2. ch_status[ch].mode # "Disabled" => pin_owner[ch_status[ch].pin] = ch_status[ch].mode
    BY <2>1 DEF OwnersInv, Owns, Taking
  <2>3. Watches(ch) => (ch_status[ch].level <=> ch_status[ch].pin \in IN_level)
    BY <2>1, PlainlyKnows
  <2>4. ASSUME ch_status[ch].mode = "Task" PROVE ch_status[ch].level <=> ch_status[ch].pin \in O_level
    <3>1. O_level = Driven /\ ch_status[ch].pin \in Pins
      BY SettledLevels DEF IoTypeOK
    <3>2. ch_status[ch].pin \in Driven <=> ch_status[ch].pin \in external_OUT
      BY <2>2, <2>4, <3>1 DEF Driven, Dir, OutValues
    <3> QED BY <2>4, <3>1, <3>2 DEF KnowsInv, TaskLevel
  <2> QED BY <2>2, <2>3, <2>4 DEF Watches
<1> QED BY <1>1, LevelsInvariant, OwnersInvariant, KnowsInvariant, PTL
=============================================================================
