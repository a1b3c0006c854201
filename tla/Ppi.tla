-------------------------------- MODULE Ppi --------------------------------
(***************************************************************************)
(* The programmable peripheral interconnect (NRF_PPI.c): the channel       *)
(* registers, the routing tables kept for them, and the signalling of an   *)
(* event, which calls the tasks of the enabled channels.                   *)
(*                                                                         *)
(* A task is a function of a peripheral, and may signal an event itself:   *)
(* nrf_ppi_event() runs inside nrf_ppi_event(), on one shared task queue.  *)
(* The stack of those calls is in "frames", the innermost one last.        *)
(***************************************************************************)
EXTENDS Naturals, Sequences, FiniteSets

CONSTANTS
  Channel,      \* channel numbers
  FixedEvent,   \* the pre-programmed channels: the event and the task of each
  FixedTask,
  Event,        \* the modelled events
  Task,         \* the modelled tasks
  Group,        \* channel groups
  EnTask,       \* the task that enables, and the one that disables, each group
  DisTask,
  Raises,       \* the events that each task may signal before it returns
  MaxDepth      \* bound: nested calls of nrf_ppi_event()

NULL       == "NULL"          \* a null pointer
Unmodelled == "unmodelled"    \* an address that is in no table
Fixed      == DOMAIN FixedEvent
Programmable == Channel \ Fixed

ASSUME ChannelAssumption ==
  /\ Channel \subseteq Nat
  /\ Fixed \subseteq Channel
  /\ FixedEvent \in [Fixed -> Event] /\ FixedTask \in [Fixed -> Task]
ASSUME TaskAssumption ==
  /\ IsFiniteSet(Task)
  /\ NULL \notin Task /\ Unmodelled \notin Task
  /\ NULL \notin Event /\ Unmodelled \notin Event
  /\ EnTask \in [Group -> Task] /\ DisTask \in [Group -> Task]
  /\ Raises \in [Task -> SUBSET Event]
ASSUME DepthAssumption == MaxDepth \in Nat

VARIABLES
  EEP, TEP, FORK,       \* NRF_PPI_regs: CH[].EEP, CH[].TEP, FORK[].TEP
  CHEN, CHG,            \*   and the sets of channels in CHEN and CHG[]
  evt_to_ch,            \* ppi_evt_to_ch[].channels_mask
  tep_f, fork_tep_f,    \* ppi_ch_tasks[]
  q,                    \* tasks_queue: q[0 .. used - 1]
  frames,               \* the calls of nrf_ppi_event() in progress
  cut                   \* auxiliary: the pre-programmed channels of which EEP was written

regVars == <<EEP, TEP, FORK, CHG, cut>>
routeVars == <<evt_to_ch, tep_f, fork_tep_f>>
vars == <<regVars, CHEN, routeVars, q, frames>>

(* A call in progress: the queue slot its loop is at, the task it runs, and *)
(* (auxiliary) the tasks its event asked for that were not called since, and *)
(* those of them that the event itself put in the queue.                    *)
Frame == [next : Nat, task : Task \cup {NULL}, owed : SUBSET Task, queued : SUBSET Task]

(* nrf_ppi_init() and set_fixed_channel_routes().                           *)
Init ==
  /\ EEP = [ch \in Channel |-> NULL] /\ TEP = [ch \in Channel |-> NULL]
  /\ FORK = [ch \in Channel |-> NULL]
  /\ CHEN = {} /\ CHG = [g \in Group |-> {}]
  /\ evt_to_ch = [e \in Event |-> {ch \in Fixed : FixedEvent[ch] = e}]
  /\ tep_f = [ch \in Channel |-> IF ch \in Fixed THEN FixedTask[ch] ELSE NULL]
  /\ fork_tep_f = [ch \in Channel |-> NULL]
  /\ q = <<>> /\ frames = <<>> /\ cut = {}

-----------------------------------------------------------------------------
(* Register writes of the software, with their side effects.  The software  *)
(* does not run while an event is signalled.                                *)

Idle == frames = <<>>

(* find_task(), for an address that may also be NULL.                       *)
FindTask(address) == IF address \in Task THEN address ELSE NULL

(* The channels that the address in EEP gives to an event.                  *)
FedBy(e, ch) == IF ch \in Programmable /\ EEP'[ch] = e THEN {ch} ELSE {}

(* Mutant: the channel keeps the event it had.                              *)
RegwSideeffectsEEPKeep(ch) ==
  evt_to_ch' = [e \in Event |-> evt_to_ch[e] \cup FedBy(e, ch)]

(* nrf_ppi_regw_sideeffects_EEP().  A pre-programmed channel is taken out   *)
(* of the masks like any other, and no event is looked up for it.           *)
RegwSideeffectsEEP(ch) ==
  evt_to_ch' = [e \in Event |-> (evt_to_ch[e] \ {ch}) \cup FedBy(e, ch)]

WriteEEP(ch, address) ==
  /\ Idle
  /\ EEP' = [EEP EXCEPT ![ch] = address]
  /\ RegwSideeffectsEEP(ch)
  /\ cut' = cut \cup ({ch} \cap Fixed)
  /\ UNCHANGED <<TEP, FORK, CHG, CHEN, tep_f, fork_tep_f, q, frames>>

(* nrf_ppi_regw_sideeffects_TEP(): a pre-programmed channel keeps its task. *)
WriteTEP(ch, address) ==
  /\ Idle
  /\ TEP' = [TEP EXCEPT ![ch] = address]
  /\ tep_f' = [tep_f EXCEPT ![ch] = IF ch \in Programmable THEN FindTask(address) ELSE @]
  /\ UNCHANGED <<EEP, FORK, CHG, cut, CHEN, evt_to_ch, fork_tep_f, q, frames>>

(* nrf_ppi_regw_sideeffects_FORK_TEP(), for fixed channels too.             *)
WriteFORK(ch, address) ==
  /\ Idle
  /\ FORK' = [FORK EXCEPT ![ch] = address]
  /\ fork_tep_f' = [fork_tep_f EXCEPT ![ch] = FindTask(address)]
  /\ UNCHANGED <<EEP, TEP, CHG, cut, CHEN, evt_to_ch, tep_f, q, frames>>

(* nrf_ppi_regw_sideeffects_CHENSET() and _CHENCLR().                       *)
WriteCHENSET(ch) ==
  /\ Idle
  /\ CHEN' = CHEN \cup {ch}
  /\ UNCHANGED <<regVars, routeVars, q, frames>>

WriteCHENCLR(ch) ==
  /\ Idle
  /\ CHEN' = CHEN \ {ch}
  /\ UNCHANGED <<regVars, routeVars, q, frames>>

WriteCHG(g, channels) ==
  /\ Idle
  /\ CHG' = [CHG EXCEPT ![g] = channels]
  /\ UNCHANGED <<EEP, TEP, FORK, cut, CHEN, routeVars, q, frames>>

(* nrf_ppi_TASK_CHG_ENDIS().                                                *)
ChgEnDis(g, enable) == CHEN' = IF enable THEN CHEN \cup CHG[g] ELSE CHEN \ CHG[g]

(* nrf_ppi_regw_sideeffects_TASKS_CHG_EN() and _DIS().                      *)
WriteTASKS_CHG(g, enable) ==
  /\ Idle
  /\ ChgEnDis(g, enable)
  /\ UNCHANGED <<regVars, routeVars, q, frames>>

-----------------------------------------------------------------------------
(* nrf_ppi_event().                                                         *)

(* The enabled channels of an event, and the tasks they ask for.            *)
ChMask(event) == evt_to_ch[event] \cap CHEN
Asked(mask) == ({tep_f[ch] : ch \in mask} \cup {fork_tep_f[ch] : ch \in mask}) \ {NULL}

(* t comes before u in the loop over the channels, TEP before FORK.         *)
AskedBefore(mask, t, u) ==
  \E ch \in mask :
     /\ tep_f[ch] = t \/ (fork_tep_f[ch] = t /\ tep_f[ch] # u)
     /\ \A c \in mask : c < ch => u \notin {tep_f[c], fork_tep_f[c]}

(* The tasks that the queue holds.                                          *)
Pending(queue) == {queue[i] : i \in DOMAIN queue} \ {NULL}

(* The new tasks in the order of their channels, each one once.             *)
InOrder(mask, tasks) ==
  {s \in [1 .. Cardinality(tasks) -> tasks] :
     /\ \A t \in tasks : \E i \in DOMAIN s : s[i] = t
     /\ \A i, j \in DOMAIN s : i # j => s[i] # s[j]
     /\ \A i, j \in DOMAIN s : i < j => AskedBefore(mask, s[i], s[j])}

(* nrf_ppi_enqueue_task(), for each task of the channels: a task that the   *)
(* queue holds already is left out.                                         *)
EnqueueTasks(mask) ==
  \E new \in InOrder(mask, Asked(mask) \ Pending(q)) : q' = q \o new

(* The call of an event that begins, with its loop at a slot.               *)
NewFrame(mask, slot) ==
  [next |-> slot, task |-> NULL, owed |-> Asked(mask), queued |-> Asked(mask) \ Pending(q)]

(* Mutant: the loop starts at the first task of this event.                 *)
NrfPpiEventOwnOnly(event) ==
  LET mask == ChMask(event)
  IN  IF mask = {}
        THEN UNCHANGED <<q, frames>>
        ELSE /\ Len(frames) < MaxDepth
             /\ EnqueueTasks(mask)
             /\ frames' = Append(frames, NewFrame(mask, Len(q) + 1))

(* Signal an event: queue its tasks, and call nrf_ppi_dequeue_all_tasks().  *)
NrfPpiEvent(event) ==
  LET mask == ChMask(event)
  IN  IF mask = {}
        THEN UNCHANGED <<q, frames>>
        ELSE /\ Len(frames) < MaxDepth
             /\ EnqueueTasks(mask)
             /\ frames' = Append(frames, NewFrame(mask, 1))

(* A peripheral signals an event.                                           *)
PeripheralSignals(event) ==
  /\ Idle
  /\ NrfPpiEvent(event)
  /\ UNCHANGED <<regVars, CHEN, routeVars>>

-----------------------------------------------------------------------------
(* nrf_ppi_dequeue_all_tasks(), in the innermost call.                      *)

Busy == frames # <<>>
top  == Len(frames)
IsNextSlot(i) ==
  /\ Busy /\ frames[top].task = NULL
  /\ i \in DOMAIN q /\ i >= frames[top].next
  /\ q[i] # NULL
  /\ \A j \in DOMAIN q : frames[top].next <= j /\ j < i => q[j] = NULL

(* A task is called.  The queue has one slot for it, whoever asked for it:  *)
(* with the slot empty no event in progress gets another call.              *)
Paid(fs, t) == [k \in DOMAIN fs |-> [fs[k] EXCEPT !.owed = @ \ {t}, !.queued = @ \ {t}]]

(* Mutant: the slot of the task that is called is not cleared.              *)
CallTaskKeepSlot(i) ==
  /\ IsNextSlot(i)
  /\ frames' = Paid([frames EXCEPT ![top].next = i + 1, ![top].task = q[i]], q[i])
  /\ UNCHANGED <<regVars, CHEN, routeVars, q>>

(* The next task that is left in the queue is called.                       *)
CallTask(i) ==
  /\ IsNextSlot(i)
  /\ q' = [q EXCEPT ![i] = NULL]
  /\ frames' = Paid([frames EXCEPT ![top].next = i + 1, ![top].task = q[i]], q[i])
  /\ UNCHANGED <<regVars, CHEN, routeVars>>

Running(t) == Busy /\ frames[top].task = t

(* The task of a peripheral signals an event before it returns.             *)
TaskSignals(t, event) ==
  /\ Running(t) /\ event \in Raises[t]
  /\ NrfPpiEvent(event)
  /\ UNCHANGED <<regVars, CHEN, routeVars>>

Returns == frames' = [frames EXCEPT ![top].task = NULL]

TaskReturns(t) ==
  /\ Running(t)
  /\ \A g \in Group : t # EnTask[g] /\ t # DisTask[g]
  /\ Returns
  /\ UNCHANGED <<regVars, CHEN, routeVars, q>>

(* The PPI's own tasks.                                                     *)
ChgTaskReturns(g, enable) ==
  /\ Running(IF enable THEN EnTask[g] ELSE DisTask[g])
  /\ ChgEnDis(g, enable)
  /\ Returns
  /\ UNCHANGED <<regVars, routeVars, q>>

(* The loop is over: the queue is emptied and nrf_ppi_event() returns.      *)
LoopIsOver == /\ Busy /\ frames[top].task = NULL
              /\ \A i \in DOMAIN q : frames[top].next <= i => q[i] = NULL

DequeueDone ==
  /\ LoopIsOver
  /\ q' = <<>>
  /\ frames' = SubSeq(frames, 1, top - 1)
  /\ UNCHANGED <<regVars, CHEN, routeVars>>

-----------------------------------------------------------------------------
Software ==
  \/ \E ch \in Channel :
       \/ \E address \in Event \cup {NULL, Unmodelled} : WriteEEP(ch, address)
       \/ \E address \in Task \cup {NULL, Unmodelled} : WriteTEP(ch, address) \/ WriteFORK(ch, address)
       \/ WriteCHENSET(ch)
       \/ WriteCHENCLR(ch)
  \/ \E g \in Group :
       \/ \E channels \in SUBSET Channel : WriteCHG(g, channels)
       \/ \E enable \in BOOLEAN : WriteTASKS_CHG(g, enable)

Dispatch ==
  \/ \E i \in DOMAIN q : CallTask(i)
  \/ \E t \in Task : TaskReturns(t) \/ (\E event \in Event : TaskSignals(t, event))
  \/ \E g \in Group, enable \in BOOLEAN : ChgTaskReturns(g, enable)
  \/ DequeueDone

Next ==
  \/ Software
  \/ \E event \in Event : PeripheralSignals(event)
  \/ Dispatch

Spec == Init /\ [][Next]_vars

-----------------------------------------------------------------------------
(* Properties.                                                              *)

TypeOK ==
  /\ EEP \in [Channel -> Event \cup {NULL, Unmodelled}]
  /\ TEP \in [Channel -> Task \cup {NULL, Unmodelled}]
  /\ FORK \in [Channel -> Task \cup {NULL, Unmodelled}]
  /\ CHEN \subseteq Channel
  /\ CHG \in [Group -> SUBSET Channel]
  /\ evt_to_ch \in [Event -> SUBSET Channel]
  /\ tep_f \in [Channel -> Task \cup {NULL}]
  /\ fork_tep_f \in [Channel -> Task \cup {NULL}]
  /\ q \in Seq(Task \cup {NULL})
  /\ frames \in Seq(Frame)
  /\ cut \subseteq Fixed

(* The tables built from the registers to signal events fast say what the   *)
(* registers say, after any sequence of writes, to whichever channel: a     *)
(* programmable channel is fed by the event in its EEP and by no other; a   *)
(* pre-programmed one by its own event until its EEP is first written, and  *)
(* by none after that, whatever was written.  Its task never changes.       *)
RoutesFollowRegisters ==
  /\ \A ch \in Channel, e \in Event :
       ch \in evt_to_ch[e] <=> IF ch \in Fixed THEN e = FixedEvent[ch] /\ ch \notin cut
                                              ELSE e = EEP[ch]
  /\ \A ch \in Channel, t \in Task :
       /\ tep_f[ch] = t <=> t = IF ch \in Fixed THEN FixedTask[ch] ELSE TEP[ch]
       /\ fork_tep_f[ch] = t <=> t = FORK[ch]

(* No task is lost: when nrf_ppi_event() returns, each task its event asked *)
(* for was called since the event was signalled, however its tasks nested   *)
(* other events on the same queue.                                          *)
EventIsServed == LoopIsOver => frames[top].owed = {}

(* No task is called for nothing, and for one event not twice (NRF_PPI.c:   *)
(* "to filter out duplicate tasks caused by the same event"): a call is one *)
(* that an event in progress put in the queue and has not had.  Others that *)
(* count on that same call were all signalled inside that event.            *)
OncePerEvent ==
  [][\A i \in DOMAIN q : CallTask(i) =>
       \E k \in DOMAIN frames :
          /\ q[i] \in frames[k].queued
          /\ \A j \in DOMAIN frames : q[i] \in frames[j].owed => k <= j]_vars

(* Two events that trigger the same task trigger it twice (NRF_PPI.c, the   *)
(* notes): each call of a task is for one event.                            *)
TwoEventsTriggerTwice ==
  [][\A i \in DOMAIN q : CallTask(i) =>
       \E k \in DOMAIN frames : {j \in DOMAIN frames : q[i] \in frames[j].owed} = {k}]_vars
=============================================================================
