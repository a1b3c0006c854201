---------------------------- MODULE RadioProofs ----------------------------
(***************************************************************************)
(* What Radio keeps for any durations, any shortcuts and any routes of the *)
(* PPI: the types; the diagram of the main machine; its timer; the switch  *)
(* after TIFS; and what the Phy is told.                                   *)
(***************************************************************************)
EXTENDS Radio, SequenceTheorems, TLAPS

-----------------------------------------------------------------------------
(* The calls still to be made.                                              *)

Names == RadioEvent \union RadioTask \union Parts

(* An entry still calls some of the tasks routed from its event.            *)
Routed == {e \in Entry : e.tasks \subseteq Call(e.what).tasks}

(* What the entries are.                                                    *)
Whats(s) == {s[i].what : i \in DOMAIN s}

(* The ends of handlers: nothing is left to call after them.                *)
Ends == {"prepare_TIFS_Tx", "prepare_TIFS_Rx", "Rx_Addr_received", "Rx_cont_after_addr",
         "bitcounter_done"}
EndsAreLast(s) == \A i \in DOMAIN s : s[i].what \in Ends => i = Len(s)

LEMMA KindsAreApart ==
  /\ RadioEvent \intersect RadioTask = {}
  /\ RadioEvent \intersect Parts = {}
  /\ RadioTask \intersect Parts = {}
  /\ Ends \subseteq Parts
BY DEF RadioEvent, RadioTask, Parts, Ends

LEMMA CallIsRouted ==
  ASSUME NEW what \in Names
  PROVE  Call(what) \in Routed /\ Call(what).what = what
BY RadioSettingsAssumption DEF Call, Routed, Entry, Names

LEMMA RoutedParts ==
  ASSUME NEW e \in Routed
  PROVE  /\ e \in Entry /\ e.what \in Names /\ e.tasks \subseteq RadioTask
         /\ e.what \in RadioEvent => e.tasks \subseteq Routes[e.what]
         /\ e.what \notin RadioEvent => e.tasks = {}
BY DEF Routed, Call, Entry, Names

(* A list of calls by their names.                                          *)
Elements(names) == {names[i] : i \in 1 .. Len(names)}

LEMMA CallsAre ==
  ASSUME NEW names \in Seq(Names)
  PROVE  /\ Calls(names) \in Seq(Routed)
         /\ Len(Calls(names)) = Len(names)
         /\ \A i \in 1 .. Len(names) : Calls(names)[i].what = names[i]
         /\ Whats(Calls(names)) = Elements(names)
<1>1. DOMAIN Calls(names) = 1 .. Len(names) /\ Len(names) \in Nat
      /\ DOMAIN names = 1 .. Len(names)
  BY DEF Calls
<1>2. \A i \in 1 .. Len(names) :
        Calls(names)[i] \in Routed /\ Calls(names)[i].what = names[i]
  <2> TAKE i \in 1 .. Len(names)
  <2>1. names[i] \in Names
    OBVIOUS
  <2>2. Calls(names)[i] = Call(names[i])
    BY <1>1 DEF Calls
  <2> QED BY <2>1, <2>2, CallIsRouted
<1>3. Calls(names) \in [1 .. Len(names) -> Routed]
  BY <1>1, <1>2 DEF Calls
<1>4. Calls(names) \in Seq(Routed)
  BY <1>1, <1>3, IsASeq
<1>5. Len(Calls(names)) = Len(names)
  BY <1>1, <1>4, LenProperties
<1>6. Whats(Calls(names)) = Elements(names)
  BY <1>1, <1>2 DEF Whats, Elements
<1> QED BY <1>2, <1>4, <1>5, <1>6

(* The first call and the others.                                           *)
LEMMA TakenOff ==
  ASSUME NEW s \in Seq(Routed), s # <<>>
  PROVE  /\ Head(s) \in Routed /\ Tail(s) \in Seq(Routed)
         /\ Whats(s) = {Head(s).what} \union Whats(Tail(s))
         /\ EndsAreLast(s) => /\ EndsAreLast(Tail(s))
                              /\ Head(s).what \in Ends => Tail(s) = <<>> /\ Whats(Tail(s)) = {}
<1> DEFINE t == Tail(s)
<1>1. /\ Head(s) \in Routed /\ t \in Seq(Routed) /\ Len(t) = Len(s) - 1
      /\ \A i \in 1 .. Len(t) : t[i] = s[i + 1]
  BY HeadTailProperties
<1>2. Len(s) \in Nat /\ Len(s) # 0 /\ DOMAIN s = 1 .. Len(s) /\ Head(s) = s[1]
  BY EmptySeq, LenProperties
<1>3. DOMAIN t = 1 .. Len(t) /\ Len(t) \in Nat
  BY <1>1, LenProperties
<1> HIDE DEF t
<1>4. Whats(s) = {Head(s).what} \union Whats(t)
  <2>1. \A i \in DOMAIN s : i = 1 \/ (i - 1 \in DOMAIN t /\ t[i - 1] = s[i])
    BY <1>1, <1>2, <1>3
  <2>2. \A i \in DOMAIN t : i + 1 \in DOMAIN s /\ t[i] = s[i + 1]
    BY <1>1, <1>2, <1>3
  <2>3. Whats(s) \subseteq {Head(s).what} \union Whats(t)
    BY <2>1, <1>2 DEF Whats
  <2>4. {Head(s).what} \union Whats(t) \subseteq Whats(s)
    BY <2>2, <1>2 DEF Whats
  <2> QED BY <2>3, <2>4
<1>5. EndsAreLast(s) => EndsAreLast(t)
  BY <1>1, <1>2, <1>3 DEF EndsAreLast
<1>6. ASSUME EndsAreLast(s), Head(s).what \in Ends PROVE t = <<>> /\ Whats(t) = {}
  <2>1. Len(s) = 1
    BY <1>2, <1>6 DEF EndsAreLast
  <2>2. t = <<>>
    BY <2>1, <1>1, <1>3, EmptySeq
  <2> QED BY <2>2 DEF Whats
<1> QED BY <1>1, <1>4, <1>5, <1>6 DEF t

(* Calls put before others.                                                 *)
LEMMA PutBefore ==
  ASSUME NEW s \in Seq(Routed), NEW t \in Seq(Routed)
  PROVE  /\ s \o t \in Seq(Routed)
         /\ Whats(s \o t) = Whats(s) \union Whats(t)
         /\ Whats(s) \intersect Ends = {} /\ EndsAreLast(t) => EndsAreLast(s \o t)
         /\ EndsAreLast(s) /\ t = <<>> => EndsAreLast(s \o t)
<1> DEFINE st == s \o t
<1>1. /\ st \in Seq(Routed) /\ Len(st) = Len(s) + Len(t)
      /\ \A i \in 1 .. Len(s) + Len(t) : st[i] = IF i <= Len(s) THEN s[i] ELSE t[i - Len(s)]
  BY ConcatProperties
<1>2. /\ DOMAIN s = 1 .. Len(s) /\ DOMAIN t = 1 .. Len(t) /\ DOMAIN st = 1 .. Len(st)
      /\ Len(s) \in Nat /\ Len(t) \in Nat
  BY <1>1, LenProperties
<1>3. t = <<>> => st = s
  BY ConcatEmptySeq
<1> HIDE DEF st
<1>4. /\ \A i \in DOMAIN s : i \in DOMAIN st /\ st[i] = s[i]
      /\ \A i \in DOMAIN t : i + Len(s) \in DOMAIN st /\ st[i + Len(s)] = t[i]
      /\ \A i \in DOMAIN st : \/ i \in DOMAIN s /\ st[i] = s[i]
                              \/ i - Len(s) \in DOMAIN t /\ st[i] = t[i - Len(s)]
  BY <1>1, <1>2
<1>5. Whats(st) = Whats(s) \union Whats(t)
  BY <1>4 DEF Whats
<1>6. ASSUME Whats(s) \intersect Ends = {}, EndsAreLast(t) PROVE EndsAreLast(st)
  <2> SUFFICES ASSUME NEW i \in DOMAIN st, st[i].what \in Ends PROVE i = Len(st)
    BY DEF EndsAreLast
  <2>1. CASE i \in DOMAIN s /\ st[i] = s[i]
    <3>1. s[i].what \in Whats(s)
      BY <2>1 DEF Whats
    <3> QED BY <2>1, <3>1, <1>6
  <2>2. CASE i - Len(s) \in DOMAIN t /\ st[i] = t[i - Len(s)]
    <3>1. i - Len(s) = Len(t)
      BY <2>2, <1>6 DEF EndsAreLast
    <3> QED BY <3>1, <1>1, <1>2
  <2> QED BY <2>1, <2>2, <1>4
<1> QED BY <1>1, <1>3, <1>5, <1>6 DEF st

(* A single call.                                                           *)
LEMMA OneCall ==
  ASSUME NEW e \in Routed
  PROVE  /\ <<e>> \in Seq(Routed) /\ Whats(<<e>>) = {e.what} /\ EndsAreLast(<<e>>)
BY DEF Whats, EndsAreLast

LEMMA NoCall == <<>> \in Seq(Routed) /\ Whats(<<>>) = {} /\ EndsAreLast(<<>>)
BY DEF Whats, EndsAreLast

-----------------------------------------------------------------------------
(* Types.                                                                   *)

(* TypeOK but for the calls and what the software may do.                   *)
MachineTypes ==
  /\ radio_state \in States
  /\ radio_sub_state \in {"INVALID", "TX_WAIT_FOR_ADDRESS_END", "TX_WAIT_FOR_PAYLOAD_END",
        "TX_WAIT_FOR_CRC_END", "RX_WAIT_FOR_ADDRESS_END", "RX_WAIT_FOR_PAYLOAD_END",
        "RX_WAIT_FOR_CRC_END"}
  /\ TIFS_state \in {"DISABLE", "WAITING_FOR_DISABLE", "TRIGGERING_TRX_EN"}
  /\ {Timer_RADIO, Timer_TIFS, Timer_RADIO_abort_reeval, Timer_RADIO_bitcounter, phy_end, other,
      tifs_due} \subseteq Times
  /\ abort_fsm_state \in {"none", "Tx", "Rx", "CCA"}
  /\ {aborting_set, CRC_OK, TIFS_ToTxNotRx, bit_counter_running,
      rssi_sampling_on} \subseteq BOOLEAN
  /\ config \in Configs \union {ResetConfig}
  /\ phy \in {"idle", "Tx", "Rx", "CCA", "address", "error"}

TypeInv == MachineTypes /\ awake \in 0 .. SwCalls /\ todo \in Seq(Routed)

LEMMA TypesOfInv == TypeInv => TypeOK
<1>1. Seq(Routed) \subseteq Seq(Entry)
  BY SeqMonotonic DEF Routed
<1> QED BY <1>1 DEF TypeInv, MachineTypes, TypeOK

LEMMA Constants ==
  /\ Never \in Nat /\ Never # 0 /\ TxChain \in Nat /\ RxChain \in Nat /\ TxRampDown \in Nat
  /\ AddressTime \in Nat /\ PayloadTime \in Nat /\ CrcTime \in Nat /\ CcaTime \in Nat
  /\ AddressMax \in Nat /\ OtherMax \in Nat /\ BccMax \in Nat
  /\ TxRampDown < Never /\ CcaTime < Never /\ OtherMax < Never /\ BccMax < Never
  /\ AddressTime + PayloadTime + CrcTime < Never
  /\ AddressMax + RxChain + PayloadTime + CrcTime < Never
  /\ TxChain <= AddressTime
BY RadioTimesAssumption

LEMMA RampUps ==
  ASSUME NEW direction \in {"TX", "RX"}
  PROVE  /\ RampUp[direction] \in Nat /\ RampUp[direction] < Never
         /\ TifsRampUp[direction] \in Nat /\ TifsRampUp[direction] < Never
BY RadioTimesAssumption

LEMMA TifsDeltas ==
  ASSUME NEW end \in {"Tx", "Rx"}, NEW direction \in {"TX", "RX"}
  PROVE  /\ TifsDelta[end] \in Nat
         /\ TifsDelta[end] + TifsRampUp[direction] < Never
<1>1. /\ TifsRampUp["TX"] \in Nat /\ TifsRampUp["RX"] \in Nat
      /\ Tifs \in Nat /\ TxChain \in Nat /\ RxChain \in Nat
  BY RampUps, RadioTimesAssumption
<1>2. TifsDelta[end] \in Int
  BY <1>1 DEF TifsDelta
<1> QED BY <1>2, RadioTimesAssumption

LEMMA RampupTimes ==
  ASSUME NEW direction \in {"TX", "RX"}
  PROVE  RampupTime(direction, FALSE) \in Times /\ RampupTime(direction, TRUE) \in Times
<1>1. RampUp[direction] \in Times /\ TifsRampUp[direction] \in Times
  BY RampUps, Constants DEF Times
<1> QED BY <1>1, Zenon DEF RampupTime

LEMMA MinOfThree ==
  ASSUME NEW a \in Nat, NEW b \in Nat, NEW c \in Nat
  PROVE  /\ MinOf({a, b, c}) \in {a, b, c}
         /\ MinOf({a, b, c}) <= a /\ MinOf({a, b, c}) <= b /\ MinOf({a, b, c}) <= c
<1> DEFINE S == {a, b, c}
<1>1. \E t \in S : \A u \in S : t <= u
  <2>1. CASE a <= b /\ a <= c
    BY <2>1
  <2>2. CASE b <= a /\ b <= c
    BY <2>2
  <2>3. CASE c <= a /\ c <= b
    BY <2>3
  <2> QED BY <2>1, <2>2, <2>3
<1>2. MinOf(S) \in S /\ \A u \in S : MinOf(S) <= u
  BY <1>1 DEF MinOf
<1> QED BY <1>2

LEMMA MinOfTwo ==
  ASSUME NEW a \in Nat, NEW b \in Nat
  PROVE  MinOf({a, b}) \in Nat /\ MinOf({a, b}) <= a /\ MinOf({a, b}) <= b
<1>1. {a, b} = {a, b, b}
  OBVIOUS
<1> QED BY <1>1, MinOfThree

LEMMA NextTimers ==
  ASSUME MachineTypes, NEW main \in Times
  PROVE  /\ NextTimer(main) \in Times /\ NextTimer(main) <= main
         /\ NextTimer(main) <= Timer_RADIO_bitcounter /\ NextTimer(main) <= other
<1>1. {main, Timer_RADIO_bitcounter, other} \subseteq Times /\ Times \subseteq Nat
  BY Constants DEF MachineTypes, Times
<1> QED BY <1>1, MinOfThree DEF NextTimer

LEMMA RespondsTypes ==
  ASSUME MachineTypes, NEW kind \in {"Tx", "Rx", "CCA"}, NEW recheck \in Times,
         NEW end \in Times, PhyResponds(kind, recheck, end)
  PROVE  /\ phy' \in {"idle", kind} /\ phy_end' \in Times
         /\ abort_fsm_state' \in {"none", "Tx", "Rx", "CCA"}
         /\ Timer_RADIO_abort_reeval' \in Times /\ aborting_set' = FALSE
BY Constants DEF MachineTypes, PhyResponds, PhyIsDone, PhyAsksAgain, Times

LEMMA ErrorTypes ==
  ASSUME MachineTypes, PhyError
  PROVE  /\ phy' = "error" /\ phy_end' \in Times
         /\ abort_fsm_state' \in {"none", "Tx", "Rx", "CCA"}
         /\ Timer_RADIO_abort_reeval' \in Times
BY DEF MachineTypes, PhyError

LEMMA SearchTypes ==
  ASSUME MachineTypes, NEW recheck \in Times, NEW mainTimer \in Times,
         NEW subState, HandleRxSearch(recheck, mainTimer, subState)
  PROVE  /\ phy' \in {"idle", "Rx", "address"} /\ phy_end' \in Times
         /\ abort_fsm_state' \in {"none", "Tx", "Rx", "CCA"}
         /\ Timer_RADIO_abort_reeval' \in Times /\ aborting_set' = FALSE
         /\ Timer_RADIO' \in Times /\ radio_sub_state' \in {subState, "RX_WAIT_FOR_ADDRESS_END"}
<1>1. MinOf({recheck, AddressMax}) \in Nat /\ MinOf({recheck, AddressMax}) <= AddressMax
  BY MinOfTwo, Constants DEF Times
<1>2. ASSUME NEW t \in 1 .. MinOf({recheck, AddressMax})
      PROVE  t + PayloadTime + CrcTime \in Times /\ t + RxChain \in Times
  BY <1>1, Constants DEF Times
<1>3. Never \in Times
  BY Constants DEF Times
<1> QED BY <1>2, <1>3 DEF HandleRxSearch, PhyIsDone, PhyAsksAgain

(* A task calls at most an event, before what was to be called.             *)
Announced == {"DISABLED", "CCASTOPPED", "EDSTOPPED"}
LEMMA TaskCalls ==
  ASSUME NEW task \in RadioTask, NEW rest \in Seq(Routed), RunTask(task, rest)
  PROVE  /\ \/ todo' = rest
            \/ \E event \in Announced :
                  /\ todo' = <<Call(event)>> \o rest
                  /\ event = "DISABLED" => /\ task = "DISABLE"
                                           /\ radio_state = "DISABLED" /\ radio_state' = "DISABLED"
         /\ todo' \in Seq(Routed)
<1>1. \/ todo' = rest
      \/ \E event \in Announced :
            /\ todo' = <<Call(event)>> \o rest
            /\ event = "DISABLED" => /\ task = "DISABLE"
                                     /\ radio_state = "DISABLED" /\ radio_state' = "DISABLED"
  <2>1. CASE task \in {"TXEN", "RXEN"}
    BY <2>1 DEF RunTask, TASKS_TXEN, TASKS_RXEN, Ignored
  <2>2. CASE task \in {"START", "CCASTART", "EDSTART"}
    BY <2>2 DEF RunTask, TASKS_START, TASKS_CCASTART, TASKS_EDSTART, StartRx, StartCcaEd, Ignored
  <2>3. CASE task = "STOP"
    BY <2>3 DEF RunTask, TASKS_STOP
  <2>4. CASE task = "DISABLE"
    BY <2>4 DEF RunTask, TASKS_DISABLE, Announced
  <2>5. CASE task \in {"CCASTOP", "EDSTOP"}
    BY <2>5 DEF RunTask, StopCcaEd, Ignored, Announced
  <2>6. CASE task \in {"RSSISTART", "RSSISTOP", "BCSTART", "BCSTOP"}
    BY <2>6 DEF RunTask, TASKS_RSSI, TASKS_BCSTART, TASKS_BCSTOP
  <2> QED BY <2>1, <2>2, <2>3, <2>4, <2>5, <2>6 DEF RadioTask
<1>2. \A event \in Announced : <<Call(event)>> \o rest \in Seq(Routed)
  <2> TAKE event \in Announced
  <2>1. Call(event) \in Routed
    BY CallIsRouted DEF Announced, Names, RadioEvent
  <2> QED BY <2>1, OneCall, PutBefore
<1> QED BY <1>1, <1>2

LEMMA AbortTypes ==
  ASSUME MachineTypes, AbortIfNeeded
  PROVE  /\ phy' \in {phy, "idle", "error"} /\ phy_end' \in Times
         /\ abort_fsm_state' = abort_fsm_state
         /\ Timer_RADIO_abort_reeval' = Timer_RADIO_abort_reeval
         /\ aborting_set' \in BOOLEAN
         /\ radio_sub_state' \in {radio_sub_state, "INVALID"}
BY Constants DEF MachineTypes, AbortIfNeeded, phyVars, Times

LEMMA TaskTypes ==
  ASSUME MachineTypes, NEW task \in RadioTask, NEW rest \in Seq(Routed), RunTask(task, rest)
  PROVE  MachineTypes'
<1> USE DEF mainVars, tifsVars, abortVars, bcVars, phyVars, envVars
<1>0. /\ Never \in Times /\ TxChain \in Times /\ TxRampDown \in Times /\ 0 \in Times /\ CcaTime \in Times
      /\ AddressTime - TxChain \in Times /\ AddressTime + PayloadTime + CrcTime \in Times
      /\ \A end \in 1 .. CcaTime : end \in Times
      /\ \A end \in 1 .. BccMax : end \in Times
  BY Constants DEF Times
<1>1. Ignored(rest) => MachineTypes'
  BY DEF Ignored, MachineTypes
<1>2. CASE task \in {"TXEN", "RXEN"}
  <2>1. \A direction \in {"TX", "RX"} : RampupTime(direction, FALSE) \in Times
    BY RampupTimes
  <2> QED BY <1>0, <1>1, <1>2, <2>1 DEF RunTask, TASKS_TXEN, TASKS_RXEN, MachineTypes, States
<1>3. CASE task = "START"
  <2>1. CASE radio_state = "TXIDLE"
    BY <1>0, <1>3, <2>1 DEF RunTask, TASKS_START, MachineTypes, States
  <2>2. CASE radio_state = "RXIDLE"
    <3>1. StartRx(rest)
      BY <1>3, <2>2 DEF RunTask, TASKS_START
    <3>2. CASE phy = "idle"
      <4>1. HandleRxSearch(NextTimer(Timer_RADIO), Never, "INVALID")
        BY <3>1, <3>2 DEF StartRx
      <4>2. NextTimer(Timer_RADIO) \in Times
        BY NextTimers DEF MachineTypes
      <4> HIDE DEF mainVars, abortVars, phyVars
      <4> QED BY <4>1, <4>2, <1>0, <3>1, SearchTypes DEF StartRx, MachineTypes, States
    <3>3. CASE phy # "idle"
      BY <1>0, <3>1, <3>3, ErrorTypes DEF StartRx, MachineTypes, States
    <3> QED BY <3>2, <3>3
  <2>3. CASE radio_state \notin {"TXIDLE", "RXIDLE"}
    BY <1>1, <1>3, <2>3 DEF RunTask, TASKS_START
  <2> QED BY <2>1, <2>2, <2>3
<1>4. CASE task \in {"CCASTART", "EDSTART"}
  <2>1. CASE radio_state = "RXIDLE"
    <3>1. PICK state \in {"CCA", "ED"} : StartCcaEd(state, rest)
      BY <1>4, <2>1 DEF RunTask, TASKS_CCASTART, TASKS_EDSTART
    <3>2. CASE phy = "idle"
      <4>1. PICK end \in 1 .. CcaTime :
                   /\ PhyResponds("CCA", NextTimer(Timer_RADIO), end)
                   /\ Timer_RADIO' = IF phy' = "idle" THEN end ELSE CcaTime
        BY <3>1, <3>2 DEF StartCcaEd
      <4>2. NextTimer(Timer_RADIO) \in Times
        BY NextTimers DEF MachineTypes
      <4> QED BY <4>1, <4>2, <1>0, <3>1, RespondsTypes DEF StartCcaEd, MachineTypes, States
    <3>3. CASE phy # "idle"
      BY <1>0, <3>1, <3>3, ErrorTypes DEF StartCcaEd, MachineTypes, States
    <3> QED BY <3>2, <3>3
  <2>2. CASE radio_state # "RXIDLE"
    BY <1>1, <1>4, <2>2 DEF RunTask, TASKS_CCASTART, TASKS_EDSTART
  <2> QED BY <2>1, <2>2
<1>5. CASE task = "STOP"
  <2>1. TASKS_STOP(rest)
    BY <1>5 DEF RunTask
  <2> QED BY <2>1, <1>0, AbortTypes DEF TASKS_STOP, StopBitCounter, Idle, MachineTypes, States
<1>6. CASE task = "DISABLE"
  <2>1. TASKS_DISABLE(rest)
    BY <1>6 DEF RunTask
  <2>2. radio_state' \in States /\ Timer_RADIO' \in Times
    BY <2>1, <1>0 DEF TASKS_DISABLE, MachineTypes, States
  <2>3. Timer_TIFS' \in Times /\ tifs_due' \in Times /\ TIFS_state' = "DISABLE"
    BY <2>1, <1>0 DEF TASKS_DISABLE, MachineTypes
  <2>4. Timer_RADIO_bitcounter' \in Times /\ bit_counter_running' \in BOOLEAN
    BY <2>1, <1>0 DEF TASKS_DISABLE, StopBitCounter
  <2>5. /\ phy' \in {phy, "idle", "error"} /\ phy_end' \in Times
        /\ abort_fsm_state' = abort_fsm_state
        /\ Timer_RADIO_abort_reeval' = Timer_RADIO_abort_reeval
        /\ aborting_set' \in BOOLEAN
        /\ radio_sub_state' \in {radio_sub_state, "INVALID"}
    BY <2>1, AbortTypes DEF TASKS_DISABLE, MachineTypes
  <2>6. UNCHANGED <<TIFS_ToTxNotRx, CRC_OK, rssi_sampling_on, config, other>>
    BY <2>1 DEF TASKS_DISABLE
  <2> QED BY <2>2, <2>3, <2>4, <2>5, <2>6 DEF MachineTypes
<1>7. CASE task \in {"CCASTOP", "EDSTOP"}
  <2>1. PICK state \in {"CCA", "ED"}, event \in Announced : StopCcaEd(state, event, rest)
    BY <1>7 DEF RunTask, Announced
  <2>2. CASE radio_state = state
    BY <2>1, <2>2, <1>0, AbortTypes DEF StopCcaEd, MachineTypes, States
  <2>3. CASE radio_state # state
    BY <1>1, <2>1, <2>3 DEF StopCcaEd
  <2> QED BY <2>2, <2>3
<1>8. CASE task \in {"RSSISTART", "RSSISTOP"}
  BY <1>8 DEF RunTask, TASKS_RSSI, MachineTypes
<1>9. CASE task \in {"BCSTART", "BCSTOP"}
  <2>1. Timer_RADIO_bitcounter' \in Times /\ bit_counter_running' \in BOOLEAN
    <3>1. Timer_RADIO_bitcounter \in Times /\ bit_counter_running \in BOOLEAN
      BY DEF MachineTypes
    <3>2. CASE task = "BCSTART"
      <4>1. IF bit_counter_running
              THEN /\ bit_counter_running' = bit_counter_running
                   /\ Timer_RADIO_bitcounter' = Timer_RADIO_bitcounter
              ELSE bit_counter_running' = TRUE /\ Timer_RADIO_bitcounter' \in 1 .. BccMax
        BY <3>2 DEF RunTask, TASKS_BCSTART
      <4>2. CASE bit_counter_running
        BY <4>1, <4>2, <3>1
      <4>3. CASE ~bit_counter_running
        <5>1. bit_counter_running' = TRUE
          BY <4>1, <4>3
        <5>2. Timer_RADIO_bitcounter' \in 1 .. BccMax
          BY <4>1, <4>3
        <5>3. Timer_RADIO_bitcounter' \in Times
          BY <5>2, Constants DEF Times
        <5> QED BY <5>1, <5>3
      <4> QED BY <4>2, <4>3
    <3>3. CASE task = "BCSTOP"
      BY <1>0, <3>3 DEF RunTask, TASKS_BCSTOP, StopBitCounter
    <3> QED BY <1>9, <3>2, <3>3
  <2>2. UNCHANGED <<mainVars, tifsVars, abortVars, CRC_OK, rssi_sampling_on, phyVars, envVars>>
    BY <1>9 DEF RunTask, TASKS_BCSTART, TASKS_BCSTOP
  <2> QED BY <2>1, <2>2 DEF MachineTypes
<1> QED BY <1>2, <1>3, <1>4, <1>5, <1>6, <1>7, <1>8, <1>9 DEF RadioTask

LEMMA NamesJoined ==
  ASSUME NEW s \in Seq(Names), NEW t \in Seq(Names)
  PROVE  s \o t \in Seq(Names) /\ Elements(s \o t) = Elements(s) \union Elements(t)
<1> DEFINE st == s \o t
<1>1. /\ st \in Seq(Names) /\ Len(st) = Len(s) + Len(t)
      /\ \A i \in 1 .. Len(s) + Len(t) : st[i] = IF i <= Len(s) THEN s[i] ELSE t[i - Len(s)]
  BY ConcatProperties
<1>2. Len(s) \in Nat /\ Len(t) \in Nat
  BY LenProperties
<1> HIDE DEF st
<1>3. Elements(st) \subseteq Elements(s) \union Elements(t)
  <2>1. ASSUME NEW i \in 1 .. Len(st) PROVE st[i] \in Elements(s) \union Elements(t)
    <3>1. CASE i <= Len(s)
      BY <1>1, <1>2, <3>1 DEF Elements
    <3>2. CASE ~(i <= Len(s))
      <4>1. i - Len(s) \in 1 .. Len(t) /\ st[i] = t[i - Len(s)]
        BY <1>1, <1>2, <3>2
      <4> QED BY <4>1 DEF Elements
    <3> QED BY <3>1, <3>2
  <2> QED BY <2>1 DEF Elements
<1>4. Elements(s) \union Elements(t) \subseteq Elements(st)
  <2>1. ASSUME NEW i \in 1 .. Len(s) PROVE s[i] \in Elements(st)
    <3>1. i \in 1 .. Len(st) /\ st[i] = s[i]
      BY <1>1, <1>2
    <3> QED BY <3>1 DEF Elements
  <2>2. ASSUME NEW i \in 1 .. Len(t) PROVE t[i] \in Elements(st)
    <3> DEFINE k == i + Len(s)
    <3>1. k \in 1 .. Len(st) /\ k - Len(s) = i /\ ~(k <= Len(s))
      BY <1>1, <1>2
    <3> HIDE DEF k
    <3>2. st[k] = t[i]
      BY <3>1, <1>1
    <3> QED BY <3>1, <3>2 DEF Elements
  <2> QED BY <2>1, <2>2 DEF Elements
<1> QED BY <1>1, <1>3, <1>4 DEF st

LEMMA FewNames ==
  /\ <<>> \in Seq(Names) /\ Elements(<<>>) = {}
  /\ \A a \in Names : <<a>> \in Seq(Names) /\ Elements(<<a>>) = {a}
  /\ \A a, b \in Names : <<a, b>> \in Seq(Names) /\ Elements(<<a, b>>) = {a, b}
  /\ \A a, b, c, d \in Names :
        <<a, b, c, d>> \in Seq(Names) /\ Elements(<<a, b, c, d>>) = {a, b, c, d}
  /\ \A a, b, c, d, e \in Names :
        <<a, b, c, d, e>> \in Seq(Names) /\ Elements(<<a, b, c, d, e>>) = {a, b, c, d, e}
<1>1. <<>> \in Seq(Names) /\ Elements(<<>>) = {}
  BY DEF Elements
<1>2. \A a \in Names : <<a>> \in Seq(Names) /\ Elements(<<a>>) = {a}
  BY DEF Elements
<1>3. \A a, b \in Names : <<a, b>> \in Seq(Names) /\ Elements(<<a, b>>) = {a, b}
  <2> TAKE a, b \in Names
  <2>1. 1 .. Len(<<a, b>>) = {1, 2}
    OBVIOUS
  <2> QED BY <2>1 DEF Elements
<1>4. \A a, b, c, d \in Names :
        <<a, b, c, d>> \in Seq(Names) /\ Elements(<<a, b, c, d>>) = {a, b, c, d}
  <2> TAKE a, b, c, d \in Names
  <2>1. 1 .. Len(<<a, b, c, d>>) = {1, 2, 3, 4}
    OBVIOUS
  <2> QED BY <2>1 DEF Elements
<1>5. \A a, b, c, d, e \in Names :
        <<a, b, c, d, e>> \in Seq(Names) /\ Elements(<<a, b, c, d, e>>) = {a, b, c, d, e}
  <2> TAKE a, b, c, d, e \in Names
  <2>1. 1 .. Len(<<a, b, c, d, e>>) = {1, 2, 3, 4, 5}
    OBVIOUS
  <2> QED BY <2>1 DEF Elements
<1> QED BY <1>1, <1>2, <1>3, <1>4, <1>5

(* What an event calls by its shortcuts: the tasks that are set, and the    *)
(* fake task in the place of those that enable the radio.                   *)
LEMMA ShortcutCalls ==
  ASSUME NEW event \in RadioEvent
  PROVE  /\ Shortcuts(event) \in Seq(Routed)
         /\ Whats(Shortcuts(event)) \intersect Ends = {}
         /\ \A what \in Whats(Shortcuts(event)) :
              \/ what = "fake_TRXEN_TIFS" /\ event = "DISABLED" /\ IsHwTifsEnabled
              \/ /\ what \in RadioTask /\ Has(event, what)
                 /\ \E i \in DOMAIN ShortcutTasks[event] : what = ShortcutTasks[event][i]
                 /\ event = "DISABLED" /\ IsHwTifsEnabled => what \notin {"TXEN", "RXEN"}
<1> DEFINE enabled(task) == /\ Has(event, task)
                            /\ ~(event = "DISABLED" /\ IsHwTifsEnabled /\ task \in {"TXEN", "RXEN"})
           fake == IF event = "DISABLED" /\ IsHwTifsEnabled THEN <<"fake_TRXEN_TIFS">> ELSE <<>>
           tasks == ShortcutTasks[event]
           ith(i) == IF i \in DOMAIN tasks /\ enabled(tasks[i]) THEN <<tasks[i]>> ELSE <<>>
           names == fake \o ith(1) \o ith(2) \o ith(3)
           Right(what) ==
              \/ what = "fake_TRXEN_TIFS" /\ event = "DISABLED" /\ IsHwTifsEnabled
              \/ /\ what \in RadioTask /\ Has(event, what)
                 /\ \E i \in DOMAIN ShortcutTasks[event] : what = ShortcutTasks[event][i]
                 /\ event = "DISABLED" /\ IsHwTifsEnabled => what \notin {"TXEN", "RXEN"}
<1>1. \A i \in DOMAIN tasks : tasks[i] \in RadioTask
  BY DEF ShortcutTasks, RadioEvent, RadioTask
<1>2. fake \in Seq(Names) /\ \A what \in Elements(fake) : Right(what)
  <2>1. "fake_TRXEN_TIFS" \in Names
    BY DEF Names, Parts
  <2>2. CASE event = "DISABLED" /\ IsHwTifsEnabled
    <3>1. fake = <<"fake_TRXEN_TIFS">>
      BY <2>2
    <3> HIDE DEF fake
    <3> QED BY <2>1, <2>2, <3>1, FewNames
  <2>3. CASE ~(event = "DISABLED" /\ IsHwTifsEnabled)
    <3>1. fake = <<>>
      BY <2>3
    <3> HIDE DEF fake
    <3> QED BY <3>1, FewNames
  <2> QED BY <2>2, <2>3
<1> HIDE DEF fake
<1>3. ASSUME NEW i \in {1, 2, 3}
      PROVE  ith(i) \in Seq(Names) /\ \A what \in Elements(ith(i)) : Right(what)
  <2>1. CASE i \in DOMAIN tasks /\ enabled(tasks[i])
    <3>1. ith(i) = <<tasks[i]>>
      BY <2>1
    <3>2. tasks[i] \in RadioTask /\ tasks[i] \in Names
      BY <1>1, <2>1 DEF Names
    <3>3. Right(tasks[i])
      BY <2>1, <3>2
    <3>4. ith(i) \in Seq(Names) /\ Elements(ith(i)) = {tasks[i]}
      BY <3>1, <3>2, FewNames
    <3> HIDE DEF Right, ith, tasks
    <3> QED BY <3>3, <3>4
  <2>2. CASE ~(i \in DOMAIN tasks /\ enabled(tasks[i]))
    <3>1. ith(i) = <<>>
      BY <2>2
    <3> HIDE DEF ith
    <3> QED BY <3>1, FewNames
  <2> QED BY <2>1, <2>2
<1> HIDE DEF ith, Right
<1>4. names \in Seq(Names) /\ \A what \in Elements(names) : Right(what)
  <2>1. fake \o ith(1) \in Seq(Names) /\ \A what \in Elements(fake \o ith(1)) : Right(what)
    BY <1>2, <1>3, NamesJoined
  <2>2. /\ fake \o ith(1) \o ith(2) \in Seq(Names)
        /\ \A what \in Elements(fake \o ith(1) \o ith(2)) : Right(what)
    BY <2>1, <1>3, NamesJoined
  <2> QED BY <2>2, <1>3, NamesJoined
<1>5. Shortcuts(event) = Calls(names)
  BY DEF Shortcuts, fake, ith
<1> HIDE DEF names
<1>6. Shortcuts(event) \in Seq(Routed) /\ Whats(Shortcuts(event)) = Elements(names)
  BY <1>4, <1>5, CallsAre
<1>7. \A what : Right(what) => what \notin Ends
  BY DEF Right, RadioTask, Ends
<1> QED BY <1>4, <1>6, <1>7 DEF Right

LEMMA CurrentCall ==
  ASSUME TypeInv, todo # <<>>
  PROVE  /\ Head(todo) \in Routed /\ Tail(todo) \in Seq(Routed)
         /\ Head(todo).what \in Names /\ Head(todo).tasks \subseteq RadioTask
         /\ Whats(todo) = {Head(todo).what} \union Whats(Tail(todo))
         /\ EndsAreLast(todo) => /\ EndsAreLast(Tail(todo))
                                 /\ Head(todo).what \in Ends => Tail(todo) = <<>>
BY TakenOff, RoutedParts DEF TypeInv

(* What is to be called after one of the tasks that the PPI calls.          *)
PpiRest(task) == <<[Head(todo) EXCEPT !.tasks = @ \ {task}]>> \o Tail(todo)
LEMMA PpiRests ==
  ASSUME TypeInv, todo # <<>>, NEW task
  PROVE  /\ PpiRest(task) \in Seq(Routed)
         /\ Whats(PpiRest(task)) = Whats(todo)
         /\ EndsAreLast(todo) => EndsAreLast(PpiRest(task))
<1> DEFINE h == Head(todo)
           e == [h EXCEPT !.tasks = @ \ {task}]
<1>1. h \in Routed /\ h.what \in Names /\ Tail(todo) \in Seq(Routed)
  BY CurrentCall
<1>2. e \in Routed /\ e.what = h.what
  BY <1>1 DEF Routed, Entry
<1>3. <<e>> \in Seq(Routed) /\ Whats(<<e>>) = {h.what} /\ EndsAreLast(<<e>>)
  BY <1>2, OneCall
<1>4. PpiRest(task) = <<e>> \o Tail(todo)
  BY DEF PpiRest
<1>5. PpiRest(task) \in Seq(Routed) /\ Whats(PpiRest(task)) = {h.what} \union Whats(Tail(todo))
  BY <1>1, <1>3, <1>4, PutBefore
<1>6. ASSUME EndsAreLast(todo) PROVE EndsAreLast(PpiRest(task))
  <2>1. EndsAreLast(Tail(todo)) /\ (h.what \in Ends => Tail(todo) = <<>>)
    BY <1>6, CurrentCall
  <2>2. CASE h.what \in Ends
    BY <2>1, <2>2, <1>1, <1>3, <1>4, PutBefore
  <2>3. CASE h.what \notin Ends
    <3>1. Whats(<<e>>) \intersect Ends = {}
      BY <2>3, <1>3
    <3> HIDE DEF e
    <3> QED BY <2>1, <3>1, <1>1, <1>3, <1>4, PutBefore
  <2> QED BY <2>2, <2>3
<1> QED BY <1>5, <1>6, CurrentCall

(* The task under way and what comes after it, whoever calls it.            *)
LEMMA TasksRun ==
  ASSUME TypeInv, PpiCallsTask \/ ShortcutCallsTask \/ SoftwareTask
  PROVE  \E task \in RadioTask, rest \in Seq(Routed) :
            /\ RunTask(task, rest)
            /\ \/ /\ todo # <<>> /\ task \in Head(todo).tasks /\ rest = PpiRest(task)
                  /\ awake' = awake
               \/ todo # <<>> /\ task = Head(todo).what /\ rest = Tail(todo) /\ awake' = awake
               \/ /\ SoftwareStep /\ rest = <<>>
                  /\ task = "DISABLE" /\ TIFS_state = "WAITING_FOR_DISABLE"
                        => "disable" \in Careless
                  /\ task \in Requests => phy = "idle" \/ "restart" \in Careless
<1>1. CASE PpiCallsTask
  <2>1. PICK task \in Head(todo).tasks : RunTask(task, PpiRest(task))
    BY <1>1 DEF PpiCallsTask, PpiRest
  <2>2. task \in RadioTask /\ PpiRest(task) \in Seq(Routed)
    BY <1>1, CurrentCall, PpiRests DEF PpiCallsTask
  <2> QED BY <1>1, <2>1, <2>2 DEF PpiCallsTask
<1>2. CASE ShortcutCallsTask
  BY <1>2, CurrentCall DEF ShortcutCallsTask
<1>3. CASE SoftwareTask
  BY <1>3, NoCall DEF SoftwareTask
<1> QED BY <1>1, <1>2, <1>3

(* The calls of the handlers of the timers.                                 *)
LEMMA ListCalls ==
  ASSUME NEW names \in Seq(Names),
         \A i \in 1 .. Len(names) : names[i] \in Ends => i = Len(names)
  PROVE  /\ Calls(names) \in Seq(Routed) /\ Whats(Calls(names)) = Elements(names)
         /\ EndsAreLast(Calls(names))
<1>1. /\ Calls(names) \in Seq(Routed) /\ Whats(Calls(names)) = Elements(names)
      /\ Len(Calls(names)) = Len(names)
      /\ \A i \in 1 .. Len(names) : Calls(names)[i].what = names[i]
  BY CallsAre
<1>2. DOMAIN Calls(names) = 1 .. Len(names)
  BY <1>1, LenProperties
<1> QED BY <1>1, <1>2 DEF EndsAreLast

LEMMA EventCalls ==
  ASSUME NEW a \in RadioEvent
  PROVE  /\ Calls(<<a>>) \in Seq(Routed) /\ Whats(Calls(<<a>>)) = {a}
         /\ EndsAreLast(Calls(<<a>>))
<1>0. a \in Names /\ a \notin Ends
  BY DEF Names, RadioEvent, Ends
<1> DEFINE names == <<a>>
<1>1. names \in Seq(Names) /\ Elements(names) = {a}
  BY <1>0, FewNames
<1>2. Len(names) = 1 /\ \A i \in 1 .. 1 : i # 1 => names[i] \notin Ends
  BY <1>0 DEF Ends
<1> HIDE DEF names
<1>3. Calls(names) \in Seq(Routed) /\ Whats(Calls(names)) = {a} /\ EndsAreLast(Calls(names))
  BY <1>1, <1>2, ListCalls
<1> QED BY <1>3 DEF names

LEMMA PairCalls ==
  ASSUME NEW a \in Names \ Ends, NEW b \in Names
  PROVE  /\ Calls(<<a, b>>) \in Seq(Routed) /\ Whats(Calls(<<a, b>>)) = {a, b}
         /\ EndsAreLast(Calls(<<a, b>>))
<1> DEFINE names == <<a, b>>
<1>1. names \in Seq(Names) /\ Elements(names) = {a, b}
  BY FewNames
<1>2. Len(names) = 2 /\ \A i \in 1 .. 2 : i # 2 => names[i] \notin Ends
  BY DEF Ends
<1> HIDE DEF names
<1>3. Calls(names) \in Seq(Routed) /\ Whats(Calls(names)) = {a, b} /\ EndsAreLast(Calls(names))
  BY <1>1, <1>2, ListCalls
<1> QED BY <1>3 DEF names

LEMMA EndCalls ==
  /\ LET calls == Calls(<<"BCSTOP", "END", "PHYEND", "prepare_TIFS_Tx">>)
     IN  /\ calls \in Seq(Routed) /\ EndsAreLast(calls)
         /\ Whats(calls) = {"BCSTOP", "END", "PHYEND", "prepare_TIFS_Tx"}
  /\ LET calls == Calls(<<"SYNC", "ADDRESS", "FRAMESTART", "Rx_Addr_received">>)
     IN  /\ calls \in Seq(Routed) /\ EndsAreLast(calls)
         /\ Whats(calls) = {"SYNC", "ADDRESS", "FRAMESTART", "Rx_Addr_received"}
  /\ \A event \in {"CRCOK", "CRCERROR"} :
        LET calls == Calls(<<event, "BCSTOP", "PHYEND", "END", "prepare_TIFS_Rx">>)
        IN  /\ calls \in Seq(Routed) /\ EndsAreLast(calls)
            /\ Whats(calls) = {event, "BCSTOP", "PHYEND", "END", "prepare_TIFS_Rx"}
<1>0. /\ {"BCSTOP", "END", "PHYEND", "SYNC", "ADDRESS", "FRAMESTART", "CRCOK", "CRCERROR"}
           \subseteq Names \ Ends
      /\ {"prepare_TIFS_Tx", "prepare_TIFS_Rx", "Rx_Addr_received"} \subseteq Names
  BY DEF Names, RadioEvent, RadioTask, Parts, Ends
<1>1. ASSUME NEW a \in Names \ Ends, NEW b \in Names \ Ends, NEW c \in Names \ Ends, NEW d \in Names
      PROVE  LET calls == Calls(<<a, b, c, d>>)
             IN  /\ calls \in Seq(Routed) /\ EndsAreLast(calls) /\ Whats(calls) = {a, b, c, d}
  <2> DEFINE names == <<a, b, c, d>>
  <2>1. names \in Seq(Names) /\ Elements(names) = {a, b, c, d}
    BY FewNames
  <2>2. Len(names) = 4 /\ \A i \in 1 .. 4 : i # 4 => names[i] \notin Ends
    BY DEF Ends
  <2> HIDE DEF names
  <2>3. Calls(names) \in Seq(Routed) /\ Whats(Calls(names)) = {a, b, c, d} /\ EndsAreLast(Calls(names))
    BY <2>1, <2>2, ListCalls
  <2> QED BY <2>3 DEF names
<1>2. ASSUME NEW a \in Names \ Ends, NEW b \in Names \ Ends, NEW c \in Names \ Ends,
             NEW d \in Names \ Ends, NEW e \in Names
      PROVE  LET calls == Calls(<<a, b, c, d, e>>)
             IN  /\ calls \in Seq(Routed) /\ EndsAreLast(calls) /\ Whats(calls) = {a, b, c, d, e}
  <2> DEFINE names == <<a, b, c, d, e>>
  <2>1. names \in Seq(Names) /\ Elements(names) = {a, b, c, d, e}
    BY FewNames
  <2>2. Len(names) = 5 /\ \A i \in 1 .. 5 : i # 5 => names[i] \notin Ends
    BY DEF Ends
  <2> HIDE DEF names
  <2>3. Calls(names) \in Seq(Routed) /\ Whats(Calls(names)) = {a, b, c, d, e} /\ EndsAreLast(Calls(names))
    BY <2>1, <2>2, ListCalls
  <2> QED BY <2>3 DEF names
<1>3. LET calls == Calls(<<"BCSTOP", "END", "PHYEND", "prepare_TIFS_Tx">>)
      IN  /\ calls \in Seq(Routed) /\ EndsAreLast(calls)
          /\ Whats(calls) = {"BCSTOP", "END", "PHYEND", "prepare_TIFS_Tx"}
  BY <1>0, <1>1
<1>4. LET calls == Calls(<<"SYNC", "ADDRESS", "FRAMESTART", "Rx_Addr_received">>)
      IN  /\ calls \in Seq(Routed) /\ EndsAreLast(calls)
          /\ Whats(calls) = {"SYNC", "ADDRESS", "FRAMESTART", "Rx_Addr_received"}
  BY <1>0, <1>1
<1>5. ASSUME NEW event \in {"CRCOK", "CRCERROR"}
      PROVE  LET calls == Calls(<<event, "BCSTOP", "PHYEND", "END", "prepare_TIFS_Rx">>)
             IN  /\ calls \in Seq(Routed) /\ EndsAreLast(calls)
                 /\ Whats(calls) = {event, "BCSTOP", "PHYEND", "END", "prepare_TIFS_Rx"}
  <2>1. event \in Names \ Ends
    BY <1>0
  <2>2. /\ "BCSTOP" \in Names \ Ends /\ "PHYEND" \in Names \ Ends /\ "END" \in Names \ Ends
        /\ "prepare_TIFS_Rx" \in Names
    BY <1>0
  <2> QED BY <2>1, <2>2, <1>2
<1> QED BY <1>3, <1>4, <1>5

LEMMA RadioTimerTypes == TypeInv /\ RadioTimer => MachineTypes' /\ todo' \in Seq(Routed)
<1> SUFFICES ASSUME TypeInv, RadioTimer PROVE MachineTypes' /\ todo' \in Seq(Routed)
  OBVIOUS
<1>0. /\ Never \in Times /\ PayloadTime \in Times /\ CrcTime \in Times
      /\ AddressTime - TxChain \in Times /\ AddressTime + PayloadTime + CrcTime \in Times
  BY Constants DEF Times
<1>7. RampupTime("TX", TRUE) \in Times /\ RampupTime("RX", TRUE) \in Times
  BY RampupTimes
<1>1. ASSUME NEW state \in States,
             NEW sub \in {radio_sub_state, "INVALID", "TX_WAIT_FOR_PAYLOAD_END",
                          "TX_WAIT_FOR_CRC_END", "RX_WAIT_FOR_CRC_END"},
             NEW timer \in {Never, PayloadTime, CrcTime}, NEW names,
             Calls(names) \in Seq(Routed), MainStep(state, sub, timer, names)
      PROVE  MachineTypes' /\ todo' \in Seq(Routed)
  BY <1>0, <1>1
     DEF MainStep, TypeInv, MachineTypes, mainVars, tifsVars, abortVars, bcVars, phyVars, envVars
<1>2. CASE radio_state = "TXSTARTING" /\ StartTx(<<>>)
  <2> USE DEF mainVars, tifsVars, abortVars, bcVars, phyVars, envVars
  <2>1. CASE phy = "idle"
    <3>1. PhyResponds("Tx", NextTimer(Never), AddressTime + PayloadTime + CrcTime)
      BY <1>2, <2>1 DEF StartTx
    <3>2. NextTimer(Never) \in Times
      BY <1>0, NextTimers DEF TypeInv
    <3> QED BY <3>1, <3>2, <1>2, <1>0, RespondsTypes, NoCall
            DEF StartTx, TypeInv, MachineTypes, States
  <2>2. CASE phy # "idle"
    BY <1>2, <2>2, <1>0, ErrorTypes, NoCall DEF StartTx, TypeInv, MachineTypes, States
  <2> QED BY <2>1, <2>2
<1>3. CASE TASKS_TXEN(TRUE, <<>>) \/ TASKS_RXEN(TRUE, <<>>)
  <2> USE DEF mainVars, tifsVars, abortVars, bcVars, phyVars, envVars
  <2>1. CASE TASKS_TXEN(TRUE, <<>>)
    BY <2>1, <1>0, <1>7, NoCall DEF TASKS_TXEN, Ignored, TypeInv, MachineTypes, States
  <2>2. CASE TASKS_RXEN(TRUE, <<>>)
    BY <2>2, <1>0, <1>7, NoCall DEF TASKS_RXEN, Ignored, TypeInv, MachineTypes, States
  <2> QED BY <1>3, <2>1, <2>2
<1>4. CASE \/ MainStep("TXIDLE", radio_sub_state, Never, <<"READY", "TXREADY">>)
           \/ MainStep("RXIDLE", radio_sub_state, Never, <<"READY", "RXREADY">>)
           \/ MainStep("TX", "TX_WAIT_FOR_PAYLOAD_END", PayloadTime, <<"ADDRESS", "FRAMESTART">>)
           \/ MainStep("DISABLED", radio_sub_state, Never, <<"BCSTOP", "DISABLED">>)
  <2>1. {"READY", "TXREADY", "RXREADY", "ADDRESS", "FRAMESTART", "BCSTOP", "DISABLED"}
          \subseteq Names \ Ends
    BY DEF Names, RadioEvent, RadioTask, Ends
  <2>2. \A a, b \in {"READY", "TXREADY", "RXREADY", "ADDRESS", "FRAMESTART", "BCSTOP", "DISABLED"} :
           Calls(<<a, b>>) \in Seq(Routed)
    BY <2>1, PairCalls
  <2> QED BY <1>4, <2>2, <1>1 DEF States
<1>5. CASE \/ MainStep("TX", "TX_WAIT_FOR_CRC_END", CrcTime, <<"PAYLOAD">>)
           \/ MainStep("RX", "RX_WAIT_FOR_CRC_END", CrcTime, <<"PAYLOAD">>)
           \/ \E event \in {"CCABUSY", "CCAIDLE"} :
                 MainStep("RXIDLE", radio_sub_state, Never, <<event>>)
           \/ MainStep("RXIDLE", radio_sub_state, Never, <<"EDEND">>)
  <2>1. \A a \in {"PAYLOAD", "CCABUSY", "CCAIDLE", "EDEND"} : Calls(<<a>>) \in Seq(Routed)
    BY EventCalls DEF RadioEvent
  <2> QED BY <1>5, <2>1, <1>1 DEF States
<1>6. CASE \/ MainStep("TXIDLE", "INVALID", Never, <<"BCSTOP", "END", "PHYEND", "prepare_TIFS_Tx">>)
           \/ MainStep("RX", radio_sub_state, Never,
                       <<"SYNC", "ADDRESS", "FRAMESTART", "Rx_Addr_received">>)
           \/ MainStep("RXIDLE", "INVALID", Never, <<IF CRC_OK THEN "CRCOK" ELSE "CRCERROR",
                                                     "BCSTOP", "PHYEND", "END", "prepare_TIFS_Rx">>)
  BY <1>6, EndCalls, <1>1 DEF States
<1> QED BY <1>2, <1>3, <1>4, <1>5, <1>6 DEF RadioTimer

LEMMA AbortReevalTypes == TypeInv /\ AbortReevalTimer => MachineTypes'
<1> SUFFICES ASSUME TypeInv, AbortReevalTimer PROVE MachineTypes'
  OBVIOUS
<1>0. MachineTypes /\ Timer_RADIO \in Times /\ phy_end \in Times
  BY DEF TypeInv, MachineTypes
<1>1. NextTimer(Timer_RADIO) \in Times
  BY <1>0, NextTimers
<1>2. UNCHANGED <<tifsVars, bcVars, rssi_sampling_on, envVars, awake, todo>>
  BY DEF AbortReevalTimer
<1> DEFINE recheck == NextTimer(Timer_RADIO)
<1> HIDE DEF recheck
<1>3. CASE PhyResponds("Tx", recheck, phy_end) /\ UNCHANGED <<mainVars, CRC_OK>>
  BY <1>0, <1>1, <1>2, <1>3, RespondsTypes
     DEF MachineTypes, recheck, mainVars, tifsVars, bcVars, envVars
<1>4. CASE HandleRxSearch(recheck, Timer_RADIO, radio_sub_state) /\ UNCHANGED <<radio_state, CRC_OK>>
  BY <1>0, <1>1, <1>2, <1>4, SearchTypes
     DEF MachineTypes, recheck, tifsVars, bcVars, envVars
<1>5. CASE HandleRxEnd(recheck) /\ UNCHANGED mainVars
  <2>1. PhyResponds("Rx", recheck, phy_end) /\ CRC_OK' \in BOOLEAN
    BY <1>0, <1>5 DEF HandleRxEnd, MachineTypes
  <2> QED BY <1>0, <1>1, <1>2, <1>5, <2>1, RespondsTypes
          DEF MachineTypes, recheck, mainVars, tifsVars, bcVars, envVars
<1>6. CASE /\ PhyResponds("CCA", recheck, phy_end)
           /\ Timer_RADIO' = IF phy' = "idle" /\ radio_state \in {"CCA", "ED"} THEN phy_end
                              ELSE Timer_RADIO
           /\ UNCHANGED <<radio_state, radio_sub_state, CRC_OK>>
  BY <1>0, <1>1, <1>2, <1>6, RespondsTypes
     DEF MachineTypes, recheck, tifsVars, bcVars, envVars
<1> QED BY <1>3, <1>4, <1>5, <1>6 DEF AbortReevalTimer, recheck

LEMMA PutRest ==
  ASSUME NEW calls \in Seq(Routed), NEW rest \in Seq(Routed)
  PROVE  calls \o rest \in Seq(Routed)
BY PutBefore

(* What Rx_Addr_received() calls.                                           *)
AddressCalls(match) ==
  Calls((IF rssi_sampling_on THEN <<"RSSIEND">> ELSE <<>>) \o match \o <<"Rx_cont_after_addr">>)
LEMMA AddressCallsAre ==
  ASSUME NEW match \in {<<>>, <<"DEVMATCH">>, <<"DEVMISS">>}
  PROVE  /\ AddressCalls(match) \in Seq(Routed) /\ EndsAreLast(AddressCalls(match))
         /\ Whats(AddressCalls(match)) \subseteq {"RSSIEND", "DEVMATCH", "DEVMISS", "Rx_cont_after_addr"}
         /\ "Rx_cont_after_addr" \in Whats(AddressCalls(match))
<1> DEFINE rssi == IF rssi_sampling_on THEN <<"RSSIEND">> ELSE <<>>
           names == rssi \o match \o <<"Rx_cont_after_addr">>
<1>1. {"RSSIEND", "DEVMATCH", "DEVMISS"} \subseteq Names \ Ends /\ "Rx_cont_after_addr" \in Names
  BY DEF Names, RadioEvent, Parts, Ends
<1>2. rssi = <<"RSSIEND">> \/ rssi = <<>>
  OBVIOUS
<1>3. AddressCalls(match) = Calls(names)
  BY DEF AddressCalls
<1> HIDE DEF rssi
<1>4. rssi \in Seq(Names) /\ Elements(rssi) \subseteq {"RSSIEND"}
  <2>1. CASE rssi = <<"RSSIEND">>
    BY <2>1, <1>1, FewNames
  <2>2. CASE rssi = <<>>
    BY <2>2, FewNames
  <2> QED BY <1>2, <2>1, <2>2
<1>5. match \in Seq(Names) /\ Elements(match) \subseteq {"DEVMATCH", "DEVMISS"}
  <2>1. CASE match = <<>>
    BY <2>1, FewNames
  <2>2. CASE match = <<"DEVMATCH">>
    BY <2>2, <1>1, FewNames
  <2>3. CASE match = <<"DEVMISS">>
    BY <2>3, <1>1, FewNames
  <2> QED BY <2>1, <2>2, <2>3
<1>6. /\ <<"Rx_cont_after_addr">> \in Seq(Names)
      /\ Elements(<<"Rx_cont_after_addr">>) = {"Rx_cont_after_addr"}
  BY <1>1, FewNames
<1> DEFINE front == rssi \o match
<1>7. front \in Seq(Names) /\ Elements(front) \subseteq {"RSSIEND", "DEVMATCH", "DEVMISS"}
  BY <1>4, <1>5, NamesJoined
<1> HIDE DEF front
<1>8. names \in Seq(Names) /\ Elements(names) = Elements(front) \union {"Rx_cont_after_addr"}
  BY <1>6, <1>7, NamesJoined DEF front
<1>9. \A i \in 1 .. Len(names) : names[i] \in Ends => i = Len(names)
  <2>1. names = Append(front, "Rx_cont_after_addr")
    BY <1>1, <1>7, AppendIsConcat DEF front
  <2>2. /\ Len(names) = Len(front) + 1 /\ Len(front) \in Nat
        /\ \A i \in 1 .. Len(front) : names[i] = front[i]
    BY <1>1, <1>7, <2>1, AppendProperties, LenProperties
  <2>3. \A i \in 1 .. Len(front) : front[i] \notin Ends
    <3>1. \A i \in 1 .. Len(front) : front[i] \in Elements(front)
      BY DEF Elements
    <3> QED BY <3>1, <1>7, <1>1
  <2> HIDE DEF names
  <2> QED BY <2>2, <2>3
<1> HIDE DEF names
<1> QED BY <1>3, <1>7, <1>8, <1>9, ListCalls

LEMMA TypeStep == TypeInv /\ [Next]_vars => TypeInv'
<1> SUFFICES ASSUME TypeInv, [Next]_vars PROVE TypeInv'
  OBVIOUS
<1> USE DEF mainVars, tifsVars, abortVars, bcVars, phyVars, envVars
<1>0. /\ MachineTypes /\ awake \in 0 .. SwCalls /\ todo \in Seq(Routed) /\ SwCalls \in Nat
      /\ Never \in Times /\ 0 \in Times /\ PayloadTime \in Times /\ <<>> \in Seq(Routed)
  BY Constants, NoCall, RadioSettingsAssumption DEF TypeInv, Times
<1>1. CASE PpiCallsTask \/ ShortcutCallsTask \/ SoftwareTask
  <2>1. PICK task \in RadioTask, rest \in Seq(Routed) :
           RunTask(task, rest) /\ (awake' = awake \/ SoftwareStep)
    BY <1>1, TasksRun
  <2>2. MachineTypes' /\ todo' \in Seq(Routed)
    BY <2>1, <1>0, TaskTypes, TaskCalls
  <2>3. awake' \in 0 .. SwCalls
    BY <2>1, <1>0 DEF SoftwareStep
  <2> QED BY <2>2, <2>3 DEF TypeInv
<1>2. CASE SignalEnds
  <2>1. todo' \in Seq(Routed)
    BY <1>2, CurrentCall, ShortcutCalls, PutRest DEF SignalEnds
  <2> QED BY <1>0, <1>2, <2>1 DEF SignalEnds, TypeInv, MachineTypes
<1>3. CASE FakeTaskTrxenTifs
  <2>1. todo' \in Seq(Routed)
    BY <1>3, CurrentCall DEF FakeTaskTrxenTifs, Continues
  <2> QED BY <1>0, <1>3, <2>1 DEF FakeTaskTrxenTifs, TypeInv, MachineTypes
<1>4. CASE MaybePrepareTifs
  <2>1. todo' \in Seq(Routed)
    BY <1>4, CurrentCall DEF MaybePrepareTifs, Continues
  <2>2. PICK end \in {"Tx", "Rx"} :
          IF IsHwTifsEnabled
            THEN LET toTx == Has("DISABLED", "TXEN")
                 IN  /\ TIFS_ToTxNotRx' = toTx
                     /\ Timer_TIFS' = TifsDelta[end]
                     /\ TIFS_state' = "WAITING_FOR_DISABLE"
                     /\ tifs_due' = TifsDelta[end] + TifsRampUp[IF toTx THEN "TX" ELSE "RX"]
            ELSE TIFS_state' = "DISABLE" /\ UNCHANGED <<TIFS_ToTxNotRx, Timer_TIFS, tifs_due>>
    BY <1>4 DEF MaybePrepareTifs
  <2>3. /\ TIFS_ToTxNotRx' \in BOOLEAN /\ Timer_TIFS' \in Times /\ tifs_due' \in Times
        /\ TIFS_state' \in {"DISABLE", "WAITING_FOR_DISABLE", "TRIGGERING_TRX_EN"}
    <3>1. /\ TifsDelta[end] \in Times
          /\ TifsDelta[end] + TifsRampUp["TX"] \in Times
          /\ TifsDelta[end] + TifsRampUp["RX"] \in Times
      BY TifsDeltas, RampUps, Constants DEF Times
    <3>2. Has("DISABLED", "TXEN") \in BOOLEAN
      BY DEF Has
    <3> QED BY <2>2, <3>1, <3>2, <1>0 DEF MachineTypes
  <2>4. UNCHANGED <<mainVars, abortVars, CRC_OK, bcVars, rssi_sampling_on, phyVars, envVars, awake>>
    BY <1>4 DEF MaybePrepareTifs
  <2> QED BY <1>0, <2>1, <2>3, <2>4 DEF TypeInv, MachineTypes
<1>5. CASE RxAddrReceived
  <2>1. PICK match \in {<<>>, <<"DEVMATCH">>, <<"DEVMISS">>} :
           todo' = AddressCalls(match) \o Tail(todo)
    BY <1>5 DEF RxAddrReceived, AddressCalls
  <2>2. todo' \in Seq(Routed)
    BY <1>5, <2>1, CurrentCall, AddressCallsAre, PutRest DEF RxAddrReceived, Continues
  <2> QED BY <1>0, <1>5, <2>2 DEF RxAddrReceived, TypeInv, MachineTypes
<1>6. CASE RxContAfterAddr
  <2>1. todo' \in Seq(Routed)
    BY <1>6, CurrentCall DEF RxContAfterAddr, Continues
  <2>2. /\ phy' \in {"idle", "Tx", "Rx", "CCA", "address", "error"} /\ phy_end' \in Times
        /\ abort_fsm_state' \in {"none", "Tx", "Rx", "CCA"}
        /\ Timer_RADIO_abort_reeval' \in Times /\ aborting_set' = FALSE /\ CRC_OK' \in BOOLEAN
    <3>1. NextTimer(Timer_RADIO) \in Times /\ phy_end \in Times /\ CRC_OK \in BOOLEAN
      BY <1>0, NextTimers DEF MachineTypes
    <3>2. CASE phy # "address"
      BY <1>0, <1>6, <3>1, <3>2, ErrorTypes DEF RxContAfterAddr
    <3>3. CASE PhyIsDone /\ aborting_set' = FALSE /\ UNCHANGED CRC_OK
      BY <1>0, <3>1, <3>3 DEF PhyIsDone
    <3>4. CASE HandleRxEnd(NextTimer(Timer_RADIO))
      <4>1. PhyResponds("Rx", NextTimer(Timer_RADIO), phy_end) /\ CRC_OK' \in BOOLEAN
        BY <3>1, <3>4 DEF HandleRxEnd
      <4> QED BY <1>0, <3>1, <4>1, RespondsTypes
    <3> QED BY <1>6, <3>2, <3>3, <3>4 DEF RxContAfterAddr
  <2>3. /\ radio_sub_state' = "RX_WAIT_FOR_PAYLOAD_END" /\ Timer_RADIO' = PayloadTime
        /\ UNCHANGED <<radio_state, tifsVars, bcVars, rssi_sampling_on, envVars, awake>>
    BY <1>6 DEF RxContAfterAddr
  <2> QED BY <1>0, <2>1, <2>2, <2>3 DEF TypeInv, MachineTypes
<1>7. CASE BitCounterDone
  <2>1. todo' \in Seq(Routed)
    BY <1>7, CurrentCall DEF BitCounterDone, Continues
  <2> QED BY <1>0, <1>7, <2>1 DEF BitCounterDone, TypeInv, MachineTypes
<1>8. CASE RadioTimer
  <2>1. MachineTypes' /\ todo' \in Seq(Routed)
    BY <1>8, RadioTimerTypes
  <2>2. awake' = awake
    BY <1>8 DEF RadioTimer
  <2> QED BY <1>0, <2>1, <2>2 DEF TypeInv
<1>9. CASE BitCounterTimer
  <2>1. todo' \in Seq(Routed)
    <3>1. "BCMATCH" \in Names \ Ends /\ "bitcounter_done" \in Names
      BY DEF Names, RadioEvent, Parts, Ends
    <3> QED BY <1>9, <3>1, PairCalls DEF BitCounterTimer
  <2> QED BY <1>0, <1>9, <2>1 DEF BitCounterTimer, TypeInv, MachineTypes
<1>10. CASE AbortReevalTimer
  <2>1. MachineTypes'
    BY <1>10, AbortReevalTypes
  <2> QED BY <1>0, <1>10, <2>1 DEF AbortReevalTimer, TypeInv
<1>11. CASE OtherTimer
  <2>1. other' \in Times
    BY <1>11, Constants DEF OtherTimer, Times
  <2>2. awake' = SwCalls /\ SwCalls \in 0 .. SwCalls
    BY <1>0, <1>11 DEF OtherTimer
  <2> QED BY <1>0, <1>11, <2>1, <2>2 DEF OtherTimer, TypeInv, MachineTypes
<1>12. CASE Tick
  <2>1. \A timer \in Times : timer # 0 => Lower(timer) \in Times
    BY Constants DEF Lower, Times
  <2>2. {Timer_RADIO, Timer_TIFS, Timer_RADIO_abort_reeval, Timer_RADIO_bitcounter, phy_end, other,
         tifs_due} \subseteq Times
    BY <1>0 DEF MachineTypes
  <2>3. /\ Timer_RADIO' \in Times /\ Timer_RADIO_bitcounter' \in Times
        /\ Timer_RADIO_abort_reeval' \in Times /\ other' \in Times
    BY <1>12, <2>1, <2>2 DEF Tick
  <2>4. Timer_TIFS' \in Times /\ phy_end' \in Times /\ tifs_due' \in Times
    BY <1>0, <1>12, <2>1, <2>2 DEF Tick
  <2> QED BY <1>0, <1>12, <2>3, <2>4 DEF Tick, TypeInv, MachineTypes
<1>13. CASE SoftwareConfig
  <2>1. awake' \in 0 .. SwCalls
    BY <1>0, <1>13 DEF SoftwareConfig, SoftwareStep
  <2>2. tifs_due' \in Times
    BY <1>0, <1>13 DEF SoftwareConfig, MachineTypes
  <2> QED BY <1>0, <1>13, <2>1, <2>2 DEF SoftwareConfig, TypeInv, MachineTypes
<1>14. CASE SoftwareBcc
  <2>1. awake' \in 0 .. SwCalls
    BY <1>0, <1>14 DEF SoftwareBcc, SoftwareStep
  <2>2. Timer_RADIO_bitcounter' \in Times
    BY <1>14, Constants DEF SoftwareBcc, Times
  <2> QED BY <1>0, <1>14, <2>1, <2>2 DEF SoftwareBcc, TypeInv, MachineTypes
<1>15. CASE SoftwarePowerOn
  <2>1. awake' \in 0 .. SwCalls
    BY <1>0, <1>15 DEF SoftwarePowerOn, SoftwareStep
  <2>2. /\ phy' \in {phy, "idle"} /\ phy_end' \in Times
    BY <1>0, <1>15 DEF SoftwarePowerOn, MachineTypes
  <2>3. aborting_set' \in BOOLEAN
    BY <1>15 DEF SoftwarePowerOn
  <2> QED BY <1>0, <1>15, <2>1, <2>2, <2>3
          DEF SoftwarePowerOn, StopBitCounter, TypeInv, MachineTypes, States
<1>16. CASE UNCHANGED vars
  BY <1>0, <1>16 DEF vars, TypeInv, MachineTypes
<1> QED BY <1>1, <1>2, <1>3, <1>4, <1>5, <1>6, <1>7, <1>8, <1>9, <1>10, <1>11, <1>12, <1>13,
           <1>14, <1>15, <1>16 DEF Next, Continue, Software

LEMMA TypeInit == Init => TypeInv
<1> SUFFICES ASSUME Init PROVE TypeInv
  OBVIOUS
<1>1. awake \in 0 .. SwCalls
  BY RadioSettingsAssumption DEF Init
<1>2. other \in Times /\ Never \in Times
  BY Constants DEF Init, Times
<1> QED BY <1>1, <1>2, NoCall DEF Init, TypeInv, MachineTypes, States

LEMMA TypesHold == Spec => []TypeInv
BY TypeInit, TypeStep, PTL DEF Spec

(* The variables keep their types, the calls to be made included: the code  *)
(* of the radio never leaves the values it declares, whatever the durations, *)
(* the shortcuts, the routes and the software.                              *)
THEOREM RadioTypes == Spec => []TypeOK
BY TypesHold, TypesOfInv, PTL

-----------------------------------------------------------------------------
(* The diagram of the main machine.                                         *)

InDiagram == Diagram!Next \/ radio_state' = radio_state

LEMMA TaskInDiagram ==
  ASSUME NEW task \in RadioTask, NEW rest, RunTask(task, rest)
  PROVE  InDiagram
<1> USE DEF mainVars, InDiagram, Diagram!Next
<1>1. CASE task \in {"TXEN", "RXEN"}
  BY <1>1 DEF RunTask, TASKS_TXEN, TASKS_RXEN, IsReady, Ignored, Diagram!Enable
<1>2. CASE task \in {"START", "CCASTART", "EDSTART"}
  BY <1>2 DEF RunTask, TASKS_START, TASKS_CCASTART, TASKS_EDSTART, StartRx, StartCcaEd, Ignored,
              Diagram!Start
<1>3. CASE task = "STOP"
  BY <1>3 DEF RunTask, TASKS_STOP, IsActive, Idle, Diagram!Stop
<1>4. CASE task = "DISABLE"
  <2>1. TASKS_DISABLE(rest)
    BY <1>4 DEF RunTask
  <2>2. radio_state' = IF radio_state \in {"TXRU", "TXIDLE", "TXSTARTING", "TX"} THEN "TXDISABLE"
                       ELSE IF radio_state \in {"RXRU", "RXIDLE", "RX", "CCA", "ED"} THEN "RXDISABLE"
                       ELSE radio_state
    BY <2>1 DEF TASKS_DISABLE
  <2> QED BY <2>2 DEF Diagram!Disable
<1>5. CASE task \in {"CCASTOP", "EDSTOP"}
  BY <1>5 DEF RunTask, StopCcaEd, Ignored, Diagram!Stop
<1>6. CASE task \in {"RSSISTART", "RSSISTOP", "BCSTART", "BCSTOP"}
  BY <1>6 DEF RunTask, TASKS_RSSI, TASKS_BCSTART, TASKS_BCSTOP
<1> QED BY <1>1, <1>2, <1>3, <1>4, <1>5, <1>6 DEF RadioTask

LEMMA DiagramStep == TypeInv /\ [Next]_vars => InDiagram
<1> SUFFICES ASSUME TypeInv, [Next]_vars PROVE InDiagram
  OBVIOUS
<1> USE DEF mainVars
<1>1. CASE PpiCallsTask \/ ShortcutCallsTask \/ SoftwareTask
  BY <1>1, TasksRun, TaskInDiagram
<1>2. CASE RadioTimer
  <2>1. CASE IsTifsSwitch /\ (TASKS_TXEN(TRUE, <<>>) \/ TASKS_RXEN(TRUE, <<>>))
    BY <2>1 DEF TASKS_TXEN, TASKS_RXEN, Ignored, IsTifsSwitch, InDiagram, Diagram!Next, Diagram!Enable
  <2>2. CASE ~(IsTifsSwitch /\ (TASKS_TXEN(TRUE, <<>>) \/ TASKS_RXEN(TRUE, <<>>)))
    <3>1. \/ radio_state = "TXRU" /\ radio_state' = "TXIDLE"
          \/ radio_state = "RXRU" /\ radio_state' = "RXIDLE"
          \/ radio_state = "TXSTARTING" /\ radio_state' = "TX"
          \/ radio_state = "TX" /\ radio_state' \in {"TX", "TXIDLE"}
          \/ radio_state = "RX" /\ radio_state' \in {"RX", "RXIDLE"}
          \/ radio_state \in {"CCA", "ED"} /\ radio_state' = "RXIDLE"
          \/ radio_state \in {"TXDISABLE", "RXDISABLE"} /\ radio_state' = "DISABLED"
      BY <1>2, <2>2 DEF RadioTimer, StartTx, MainStep
    <3> QED BY <3>1 DEF InDiagram, Diagram!Next, Diagram!Ends, Diagram!EndOf, Diagram!RxEnds
  <2> QED BY <2>1, <2>2
<1>3. CASE AbortReevalTimer
  BY <1>3 DEF AbortReevalTimer, InDiagram
<1>4. CASE SoftwarePowerOn
  BY <1>4 DEF SoftwarePowerOn, InDiagram, Diagram!Next, Diagram!Reset
<1>5. CASE Tick
  BY <1>5 DEF Tick, InDiagram
<1>6. CASE SignalEnds \/ FakeTaskTrxenTifs \/ MaybePrepareTifs \/ RxAddrReceived \/ RxContAfterAddr
           \/ BitCounterDone \/ BitCounterTimer \/ OtherTimer \/ SoftwareConfig \/ SoftwareBcc
           \/ UNCHANGED vars
  BY <1>6 DEF SignalEnds, FakeTaskTrxenTifs, MaybePrepareTifs, RxAddrReceived, RxContAfterAddr,
              BitCounterDone, BitCounterTimer, OtherTimer, SoftwareConfig, SoftwareBcc, vars,
              InDiagram
<1> QED BY <1>1, <1>2, <1>3, <1>4, <1>5, <1>6 DEF Next, Continue, Software

(* The main machine starts disabled and goes only along the arrows of       *)
(* docs/RADIO_states.svg, whoever calls the tasks and however calls nest:   *)
(* the safety half of FollowsTheDiagram.                                    *)
THEOREM DiagramSteps == Spec => Diagram!Init /\ [][Diagram!Next]_radio_state
<1>1. Init => Diagram!Init
  BY DEF Init, Diagram!Init
<1>2. TypeInv /\ [Next]_vars => [Diagram!Next]_radio_state
  BY DiagramStep DEF InDiagram
<1> QED BY <1>1, <1>2, TypesHold, PTL DEF Spec

-----------------------------------------------------------------------------
(* The timer of the main machine.                                           *)

(* The PPI neither stops nor disables the radio by an event that a handler  *)
(* signals between the end of an address and its answer to the Phy.         *)
QuietAddresses ==
  \A event \in {"SYNC", "ADDRESS", "FRAMESTART", "RSSIEND", "DEVMATCH", "DEVMISS"} :
     Routes[event] \intersect {"STOP", "DISABLE"} = {}

Left == Whats(todo)

(* What is still to come of the end of a packet, of an address, of a disable. *)
Preparing == Left \intersect {"prepare_TIFS_Tx", "prepare_TIFS_Rx"} # {}
Continuing == Left \intersect {"Rx_Addr_received", "Rx_cont_after_addr"} # {}
Disabling == Left \intersect {"DISABLED", "fake_TRXEN_TIFS"} # {}

(* What may come with the end of an address.                                *)
Harmless == {"SYNC", "ADDRESS", "FRAMESTART", "RSSIEND", "DEVMATCH", "DEVMISS", "RSSISTART",
             "BCSTART", "Rx_Addr_received", "Rx_cont_after_addr"}
DisabledStates == {"DISABLED", "TXRU", "RXRU", "TXDISABLE", "RXDISABLE"}

TimerFits == Timer_RADIO # Never => TimerIsExpected
PartsFit ==
  /\ Preparing => radio_state # "DISABLED"
  /\ Disabling => radio_state \in DisabledStates
  /\ Continuing => /\ radio_state = "RX" /\ radio_sub_state = "RX_WAIT_FOR_ADDRESS_END"
                   /\ Timer_RADIO = Never /\ Left \subseteq Harmless
TxWaits == radio_state = "TX" => radio_sub_state \in {"TX_WAIT_FOR_ADDRESS_END",
                                       "TX_WAIT_FOR_PAYLOAD_END", "TX_WAIT_FOR_CRC_END"}
TimerInv == EndsAreLast(todo) /\ TimerFits /\ PartsFit /\ TxWaits

(* Where a task leads from some states.                                     *)
LEMMA TaskStates ==
  ASSUME NEW task \in RadioTask, NEW rest, RunTask(task, rest)
  PROVE  /\ radio_state \in DisabledStates => radio_state' \in DisabledStates
         /\ radio_state # "DISABLED" => radio_state' # "DISABLED"
<1> USE DEF mainVars, DisabledStates
<1>1. CASE task \in {"TXEN", "RXEN"}
  BY <1>1 DEF RunTask, TASKS_TXEN, TASKS_RXEN, IsReady, Ignored
<1>2. CASE task \in {"START", "CCASTART", "EDSTART"}
  BY <1>2 DEF RunTask, TASKS_START, TASKS_CCASTART, TASKS_EDSTART, StartRx, StartCcaEd, Ignored
<1>3. CASE task = "STOP"
  BY <1>3 DEF RunTask, TASKS_STOP, IsActive, Idle
<1>4. CASE task = "DISABLE"
  <2>1. radio_state' = IF radio_state \in {"TXRU", "TXIDLE", "TXSTARTING", "TX"} THEN "TXDISABLE"
                       ELSE IF radio_state \in {"RXRU", "RXIDLE", "RX", "CCA", "ED"} THEN "RXDISABLE"
                       ELSE radio_state
    BY <1>4 DEF RunTask, TASKS_DISABLE
  <2> QED BY <2>1
<1>5. CASE task \in {"CCASTOP", "EDSTOP"}
  BY <1>5 DEF RunTask, StopCcaEd, Ignored
<1>6. CASE task \in {"RSSISTART", "RSSISTOP", "BCSTART", "BCSTOP"}
  BY <1>6 DEF RunTask, TASKS_RSSI, TASKS_BCSTART, TASKS_BCSTOP
<1> QED BY <1>1, <1>2, <1>3, <1>4, <1>5, <1>6 DEF RadioTask

(* While a packet is received only STOP and DISABLE do something.           *)
LEMMA TaskInRx ==
  ASSUME NEW task \in RadioTask \ {"STOP", "DISABLE"}, NEW rest, RunTask(task, rest),
         radio_state = "RX"
  PROVE  /\ UNCHANGED <<mainVars, tifsVars, abortVars, CRC_OK, phyVars, envVars>>
         /\ todo' = rest
<1>1. CASE task \in {"TXEN", "RXEN", "START", "CCASTART", "EDSTART"}
  BY <1>1 DEF RunTask, TASKS_TXEN, TASKS_RXEN, IsReady, TASKS_START, TASKS_CCASTART,
              TASKS_EDSTART, Ignored
<1>2. CASE task \in {"CCASTOP", "EDSTOP"}
  BY <1>2 DEF RunTask, StopCcaEd, Ignored
<1>3. CASE task \in {"RSSISTART", "RSSISTOP", "BCSTART", "BCSTOP"}
  BY <1>3 DEF RunTask, TASKS_RSSI, TASKS_BCSTART, TASKS_BCSTOP
<1> QED BY <1>1, <1>2, <1>3 DEF RadioTask

LEMMA TaskTimer ==
  ASSUME MachineTypes, NEW task \in RadioTask, NEW rest, RunTask(task, rest), TimerFits, TxWaits
  PROVE  TimerFits' /\ TxWaits'
<1> USE DEF mainVars, tifsVars
<1>0. Ignored(rest) => TimerFits' /\ TxWaits'
  BY DEF Ignored, TimerFits, TimerIsExpected, IsTifsSwitch, TxWaits
<1>1. CASE task \in {"TXEN", "RXEN"}
  BY <1>0, <1>1 DEF RunTask, TASKS_TXEN, TASKS_RXEN, TimerFits, TimerIsExpected, TxWaits
<1>2. CASE task = "START"
  <2>1. CASE radio_state = "TXIDLE"
    BY <1>2, <2>1 DEF RunTask, TASKS_START, TimerFits, TimerIsExpected, TxWaits
  <2>2. CASE radio_state = "RXIDLE"
    <3>1. StartRx(rest)
      BY <1>2, <2>2 DEF RunTask, TASKS_START
    <3>2. \/ Timer_RADIO' = Never
          \/ radio_sub_state' = "RX_WAIT_FOR_ADDRESS_END"
      BY <3>1 DEF StartRx, HandleRxSearch
    <3> QED BY <3>1, <3>2 DEF StartRx, TimerFits, TimerIsExpected, TxWaits
  <2>3. CASE radio_state \notin {"TXIDLE", "RXIDLE"}
    BY <1>0, <1>2, <2>3 DEF RunTask, TASKS_START
  <2> QED BY <2>1, <2>2, <2>3
<1>3. CASE task \in {"CCASTART", "EDSTART"}
  BY <1>0, <1>3 DEF RunTask, TASKS_CCASTART, TASKS_EDSTART, StartCcaEd, TimerFits,
                    TimerIsExpected, TxWaits
<1>4. CASE task = "STOP"
  <2>1. TASKS_STOP(rest)
    BY <1>4 DEF RunTask
  <2>2. CASE IsActive \/ radio_state = "TXSTARTING"
    BY <2>1, <2>2 DEF TASKS_STOP, Idle, TimerFits, TxWaits
  <2>3. CASE ~(IsActive \/ radio_state = "TXSTARTING")
    BY <2>1, <2>3 DEF TASKS_STOP, IsActive, TimerFits, TimerIsExpected, IsTifsSwitch, TxWaits,
                      abortVars
  <2> QED BY <2>2, <2>3
<1>5. CASE task = "DISABLE"
  <2>1. TASKS_DISABLE(rest)
    BY <1>5 DEF RunTask
  <2>2. /\ radio_state' = IF radio_state \in {"TXRU", "TXIDLE", "TXSTARTING", "TX"} THEN "TXDISABLE"
                          ELSE IF radio_state \in {"RXRU", "RXIDLE", "RX", "CCA", "ED"}
                                 THEN "RXDISABLE" ELSE radio_state
        /\ radio_state = "DISABLED" =>
              Timer_RADIO' = IF TIFS_state # "DISABLE" THEN Never ELSE Timer_RADIO
    BY <2>1 DEF TASKS_DISABLE
  <2>3. radio_state' \in {"TXDISABLE", "RXDISABLE", "DISABLED"}
        /\ (radio_state' = "DISABLED" => radio_state = "DISABLED")
    BY <2>2 DEF MachineTypes, States
  <2>4. CASE radio_state' = "DISABLED"
    BY <2>2, <2>3, <2>4 DEF TimerFits, TimerIsExpected, IsTifsSwitch, TxWaits
  <2>5. CASE radio_state' # "DISABLED"
    BY <2>3, <2>5 DEF TimerFits, TimerIsExpected, TxWaits
  <2> QED BY <2>4, <2>5
<1>6. CASE task \in {"CCASTOP", "EDSTOP"}
  BY <1>0, <1>6 DEF RunTask, StopCcaEd, TimerFits, TxWaits
<1>7. CASE task \in {"RSSISTART", "RSSISTOP", "BCSTART", "BCSTOP"}
  BY <1>7 DEF RunTask, TASKS_RSSI, TASKS_BCSTART, TASKS_BCSTOP, TimerFits, TimerIsExpected,
              IsTifsSwitch, TxWaits
<1> QED BY <1>1, <1>2, <1>3, <1>4, <1>5, <1>6, <1>7 DEF RadioTask

(* What is left after a task.                                               *)
LEMMA TaskLeft ==
  ASSUME TypeInv, NEW task \in RadioTask, NEW rest \in Seq(Routed), RunTask(task, rest),
         EndsAreLast(rest), Whats(rest) \subseteq Left
  PROVE  /\ EndsAreLast(todo') /\ Left' \subseteq Left \union Announced
         /\ "DISABLED" \in Left' \ Left => /\ task = "DISABLE"
                                           /\ radio_state = "DISABLED" /\ radio_state' = "DISABLED"
<1>1. CASE todo' = rest
  BY <1>1 DEF Left
<1>2. CASE todo' # rest
  <2>1. PICK event \in Announced :
               /\ todo' = <<Call(event)>> \o rest
               /\ event = "DISABLED" => /\ task = "DISABLE"
                                        /\ radio_state = "DISABLED" /\ radio_state' = "DISABLED"
    BY <1>2, TaskCalls
  <2>2. Call(event) \in Routed /\ Call(event).what = event
    BY CallIsRouted DEF Announced, Names, RadioEvent
  <2>3. <<Call(event)>> \in Seq(Routed) /\ Whats(<<Call(event)>>) = {event}
    BY <2>2, OneCall
  <2>4. {event} \intersect Ends = {}
    BY DEF Announced, Ends
  <2>5. EndsAreLast(todo') /\ Left' = {event} \union Whats(rest)
    BY <2>1, <2>3, <2>4, PutBefore DEF Left
  <2> QED BY <2>1, <2>5
<1> QED BY <1>1, <1>2

LEMMA TaskParts ==
  ASSUME QuietAddresses, TypeInv, TimerInv, NEW task \in RadioTask, NEW rest \in Seq(Routed),
         RunTask(task, rest), EndsAreLast(rest), Whats(rest) \subseteq Left,
         Continuing => task \notin {"STOP", "DISABLE"}
  PROVE  TimerInv'
<1>1. /\ EndsAreLast(todo') /\ Left' \subseteq Left \union Announced
      /\ "DISABLED" \in Left' \ Left => /\ task = "DISABLE"
                                        /\ radio_state = "DISABLED" /\ radio_state' = "DISABLED"
  BY TaskLeft
<1>2. TimerFits' /\ TxWaits'
  BY TaskTimer DEF TypeInv, TimerInv
<1>3. Preparing' => radio_state' # "DISABLED"
  BY <1>1, TaskStates DEF Preparing, Announced, TimerInv, PartsFit
<1>4. Disabling' => radio_state' \in DisabledStates
  <2>1. Disabling' => Disabling \/ "DISABLED" \in Left' \ Left
    BY <1>1 DEF Disabling, Announced
  <2> QED BY <1>1, <2>1, TaskStates DEF TimerInv, PartsFit, DisabledStates
<1>5. ASSUME Continuing'
      PROVE  /\ radio_state' = "RX" /\ radio_sub_state' = "RX_WAIT_FOR_ADDRESS_END"
             /\ Timer_RADIO' = Never /\ Left' \subseteq Harmless
  <2>1. Continuing
    BY <1>1, <1>5 DEF Continuing, Announced
  <2>2. /\ radio_state = "RX" /\ radio_sub_state = "RX_WAIT_FOR_ADDRESS_END"
        /\ Timer_RADIO = Never /\ Left \subseteq Harmless
    BY <2>1 DEF TimerInv, PartsFit
  <2>3. UNCHANGED mainVars /\ todo' = rest
    BY <2>1, <2>2, TaskInRx
  <2> QED BY <2>2, <2>3 DEF mainVars, Left
<1> QED BY <1>1, <1>2, <1>3, <1>4, <1>5 DEF TimerInv, PartsFit

(* The current call is one of those that are left; so are those after it.   *)
LEMMA NowLeft ==
  ASSUME TypeInv, EndsAreLast(todo), todo # <<>>
  PROVE  /\ Head(todo).what \in Left /\ Left = {Head(todo).what} \union Whats(Tail(todo))
         /\ EndsAreLast(Tail(todo)) /\ Tail(todo) \in Seq(Routed)
         /\ Head(todo).what \in Ends => Tail(todo) = <<>> /\ Whats(Tail(todo)) = {}
BY CurrentCall, NoCall DEF Left

LEMMA TasksTimerStep ==
  ASSUME QuietAddresses, TypeInv, TimerInv, PpiCallsTask \/ ShortcutCallsTask \/ SoftwareTask
  PROVE  TimerInv'
<1>1. PICK task \in RadioTask, rest \in Seq(Routed) :
            /\ RunTask(task, rest)
            /\ \/ todo # <<>> /\ task \in Head(todo).tasks /\ rest = PpiRest(task)
               \/ todo # <<>> /\ task = Head(todo).what /\ rest = Tail(todo)
               \/ SoftwareStep /\ rest = <<>>
  BY TasksRun
<1>2. EndsAreLast(todo) /\ (Continuing => Left \subseteq Harmless)
  BY DEF TimerInv, PartsFit
<1>3. CASE todo # <<>> /\ task \in Head(todo).tasks /\ rest = PpiRest(task)
  <2>1. EndsAreLast(rest) /\ Whats(rest) \subseteq Left
    BY <1>2, <1>3, PpiRests DEF Left
  <2>2. Continuing => task \notin {"STOP", "DISABLE"}
    <3> SUFFICES ASSUME Continuing PROVE task \notin {"STOP", "DISABLE"}
      OBVIOUS
    <3>1. Head(todo).what \in Harmless
      BY <1>2, <1>3, NowLeft
    <3>2. Head(todo) \in Routed
      BY <1>3, CurrentCall
    <3>3. Head(todo).what \in RadioEvent /\ task \in Routes[Head(todo).what]
      BY <1>3, <3>2, RoutedParts
    <3>4. Head(todo).what \in {"SYNC", "ADDRESS", "FRAMESTART", "RSSIEND", "DEVMATCH", "DEVMISS"}
      BY <3>1, <3>3 DEF Harmless, RadioEvent
    <3> QED BY <3>3, <3>4 DEF QuietAddresses
  <2> QED BY <1>1, <2>1, <2>2, TaskParts
<1>4. CASE todo # <<>> /\ task = Head(todo).what /\ rest = Tail(todo)
  <2>1. EndsAreLast(rest) /\ Whats(rest) \subseteq Left /\ task \in Left
    BY <1>2, <1>4, NowLeft
  <2>2. Continuing => task \notin {"STOP", "DISABLE"}
    BY <1>2, <2>1 DEF Harmless
  <2> QED BY <1>1, <2>1, <2>2, TaskParts
<1>5. CASE SoftwareStep /\ rest = <<>>
  <2>1. EndsAreLast(rest) /\ Whats(rest) \subseteq Left /\ ~Continuing
    BY <1>5, NoCall DEF SoftwareStep, Continuing, Left
  <2> QED BY <1>1, <2>1, TaskParts
<1> QED BY <1>1, <1>3, <1>4, <1>5

(* The shortcuts of an event take its place.                                *)
LEMMA SignalLeft ==
  ASSUME TypeInv, EndsAreLast(todo), SignalEnds
  PROVE  /\ EndsAreLast(todo')
         /\ Head(todo).what \in RadioEvent
         /\ Left' = Whats(Shortcuts(Head(todo).what)) \union Whats(Tail(todo))
<1>1. /\ todo # <<>> /\ Head(todo).what \in RadioEvent
      /\ todo' = Shortcuts(Head(todo).what) \o Tail(todo)
  BY DEF SignalEnds
<1>2. /\ Shortcuts(Head(todo).what) \in Seq(Routed)
      /\ Whats(Shortcuts(Head(todo).what)) \intersect Ends = {}
  BY <1>1, ShortcutCalls
<1> QED BY <1>1, <1>2, NowLeft, PutBefore DEF Left

(* Which events call what may disturb.                                      *)
LEMMA ShortcutsOf ==
  ASSUME NEW event \in RadioEvent, NEW what \in Whats(Shortcuts(event))
  PROVE  /\ what \in RadioTask \union {"fake_TRXEN_TIFS"}
         /\ what = "fake_TRXEN_TIFS" => event = "DISABLED" /\ IsHwTifsEnabled
         /\ what \in {"TXEN", "RXEN"} => event \in {"DISABLED", "CCAIDLE"}
         /\ what = "DISABLE" => event \in {"END", "PHYEND", "CCABUSY", "EDEND"} /\ Has(event, what)
         /\ what = "STOP" => event = "CCAIDLE"
         /\ event \in Harmless => what \in Harmless
         /\ event = "DISABLED" /\ IsHwTifsEnabled => what \notin {"TXEN", "RXEN"}
<1>1. CASE what = "fake_TRXEN_TIFS" /\ event = "DISABLED" /\ IsHwTifsEnabled
  BY <1>1 DEF Harmless
<1>2. CASE ~(what = "fake_TRXEN_TIFS" /\ event = "DISABLED" /\ IsHwTifsEnabled)
  <2>1. /\ what \in RadioTask /\ Has(event, what)
        /\ event = "DISABLED" /\ IsHwTifsEnabled => what \notin {"TXEN", "RXEN"}
    BY <1>2, ShortcutCalls
  <2>2. PICK i \in DOMAIN ShortcutTasks[event] : what = ShortcutTasks[event][i]
    BY <1>2, ShortcutCalls
  <2>3. /\ what \in {"TXEN", "RXEN"} => event \in {"DISABLED", "CCAIDLE"}
        /\ what = "DISABLE" => event \in {"END", "PHYEND", "CCABUSY", "EDEND"}
        /\ what = "STOP" => event = "CCAIDLE"
        /\ event \in Harmless => what \in Harmless
    BY <2>2 DEF ShortcutTasks, RadioEvent, Harmless
  <2>4. what # "fake_TRXEN_TIFS"
    BY <2>1 DEF RadioTask
  <2> QED BY <2>1, <2>3, <2>4
<1> QED BY <1>1, <1>2

LEMMA RadioTimerTimerStep ==
  ASSUME TypeInv, TimerInv, RadioTimer
  PROVE  TimerInv'
<1> USE DEF mainVars
<1>0. /\ todo = <<>>
      /\ {"READY", "TXREADY", "RXREADY", "ADDRESS", "FRAMESTART", "BCSTOP", "DISABLED"}
           \subseteq Names \ Ends
  BY DEF RadioTimer, Quiet, Names, RadioEvent, RadioTask, Ends
<1>1. ASSUME NEW state, NEW sub, NEW timer, NEW names, MainStep(state, sub, timer, names),
             EndsAreLast(Calls(names)),
             Whats(Calls(names)) \intersect {"Rx_Addr_received", "Rx_cont_after_addr"} = {},
             \/ state \notin {"TX", "DISABLED"} /\ timer = Never
                  /\ Whats(Calls(names)) \intersect {"DISABLED", "fake_TRXEN_TIFS"} = {}
             \/ state = "TX" /\ sub \in {"TX_WAIT_FOR_PAYLOAD_END", "TX_WAIT_FOR_CRC_END"}
                  /\ Whats(Calls(names)) \intersect {"DISABLED", "fake_TRXEN_TIFS"} = {}
             \/ state = "RX" /\ sub = "RX_WAIT_FOR_CRC_END"
                  /\ Whats(Calls(names)) \intersect {"DISABLED", "fake_TRXEN_TIFS"} = {}
             \/ state = "DISABLED" /\ timer = Never
                  /\ Whats(Calls(names)) \intersect {"prepare_TIFS_Tx", "prepare_TIFS_Rx"} = {}
      PROVE  TimerInv'
  BY <1>1 DEF MainStep, TimerInv, TimerFits, TimerIsExpected, PartsFit, TxWaits, Left, Preparing,
              Disabling, Continuing, DisabledStates
<1>2. CASE \/ MainStep("TXIDLE", radio_sub_state, Never, <<"READY", "TXREADY">>)
           \/ MainStep("RXIDLE", radio_sub_state, Never, <<"READY", "RXREADY">>)
           \/ MainStep("TX", "TX_WAIT_FOR_PAYLOAD_END", PayloadTime, <<"ADDRESS", "FRAMESTART">>)
           \/ MainStep("DISABLED", radio_sub_state, Never, <<"BCSTOP", "DISABLED">>)
  <2>1. \A a, b \in {"READY", "TXREADY", "RXREADY", "ADDRESS", "FRAMESTART", "BCSTOP", "DISABLED"} :
           EndsAreLast(Calls(<<a, b>>)) /\ Whats(Calls(<<a, b>>)) = {a, b}
    BY <1>0, PairCalls
  <2>2. CASE \/ MainStep("TXIDLE", radio_sub_state, Never, <<"READY", "TXREADY">>)
             \/ MainStep("RXIDLE", radio_sub_state, Never, <<"READY", "RXREADY">>)
    <3>1. /\ EndsAreLast(Calls(<<"READY", "TXREADY">>))
          /\ Whats(Calls(<<"READY", "TXREADY">>)) = {"READY", "TXREADY"}
          /\ EndsAreLast(Calls(<<"READY", "RXREADY">>))
          /\ Whats(Calls(<<"READY", "RXREADY">>)) = {"READY", "RXREADY"}
      BY <2>1
    <3> QED BY <2>2, <3>1, <1>1
  <2>3. CASE MainStep("TX", "TX_WAIT_FOR_PAYLOAD_END", PayloadTime, <<"ADDRESS", "FRAMESTART">>)
    <3>1. /\ EndsAreLast(Calls(<<"ADDRESS", "FRAMESTART">>))
          /\ Whats(Calls(<<"ADDRESS", "FRAMESTART">>)) = {"ADDRESS", "FRAMESTART"}
      BY <2>1
    <3> QED BY <2>3, <3>1, <1>1
  <2>4. CASE MainStep("DISABLED", radio_sub_state, Never, <<"BCSTOP", "DISABLED">>)
    <3>1. /\ EndsAreLast(Calls(<<"BCSTOP", "DISABLED">>))
          /\ Whats(Calls(<<"BCSTOP", "DISABLED">>)) = {"BCSTOP", "DISABLED"}
      BY <2>1
    <3> QED BY <2>4, <3>1, <1>1
  <2> QED BY <1>2, <2>2, <2>3, <2>4
<1>3. CASE \/ MainStep("TX", "TX_WAIT_FOR_CRC_END", CrcTime, <<"PAYLOAD">>)
           \/ MainStep("RX", "RX_WAIT_FOR_CRC_END", CrcTime, <<"PAYLOAD">>)
           \/ \E event \in {"CCABUSY", "CCAIDLE"} :
                 MainStep("RXIDLE", radio_sub_state, Never, <<event>>)
           \/ MainStep("RXIDLE", radio_sub_state, Never, <<"EDEND">>)
  <2>1. \A a \in {"PAYLOAD", "CCABUSY", "CCAIDLE", "EDEND"} :
           EndsAreLast(Calls(<<a>>)) /\ Whats(Calls(<<a>>)) = {a}
    BY EventCalls DEF RadioEvent
  <2> QED BY <1>3, <2>1, <1>1
<1>4. CASE MainStep("TXIDLE", "INVALID", Never, <<"BCSTOP", "END", "PHYEND", "prepare_TIFS_Tx">>)
  BY <1>4, EndCalls, <1>1
<1>5. CASE MainStep("RXIDLE", "INVALID", Never, <<IF CRC_OK THEN "CRCOK" ELSE "CRCERROR",
                                                  "BCSTOP", "PHYEND", "END", "prepare_TIFS_Rx">>)
  <2>1. PICK event \in {"CRCOK", "CRCERROR"} : MainStep("RXIDLE", "INVALID", Never,
                             <<event, "BCSTOP", "PHYEND", "END", "prepare_TIFS_Rx">>)
    BY <1>5
  <2> QED BY <2>1, EndCalls, <1>1
<1>6. CASE /\ radio_state = "RX" /\ radio_sub_state = "RX_WAIT_FOR_ADDRESS_END"
           /\ MainStep("RX", radio_sub_state, Never,
                       <<"SYNC", "ADDRESS", "FRAMESTART", "Rx_Addr_received">>)
  BY <1>6, EndCalls DEF MainStep, TimerInv, TimerFits, PartsFit, TxWaits, Left, Preparing,
                        Disabling, Continuing, Harmless
<1>7. CASE StartTx(<<>>)
  BY <1>7, NoCall DEF StartTx, TimerInv, TimerFits, TimerIsExpected, PartsFit, TxWaits, Left,
                      Preparing, Disabling, Continuing
<1>8. CASE IsTifsSwitch /\ (TASKS_TXEN(TRUE, <<>>) \/ TASKS_RXEN(TRUE, <<>>))
  <2>1. radio_state' \in {"TXRU", "RXRU"} /\ todo' = <<>>
    BY <1>8 DEF IsTifsSwitch, IsReady, TASKS_TXEN, TASKS_RXEN
  <2> QED BY <2>1, NoCall DEF TimerInv, TimerFits, TimerIsExpected, PartsFit, TxWaits, Left,
                      Preparing, Disabling, Continuing
<1> QED BY <1>2, <1>3, <1>4, <1>5, <1>6, <1>7, <1>8 DEF RadioTimer

LEMMA TimerStep == QuietAddresses /\ TypeInv /\ TimerInv /\ [Next]_vars => TimerInv'
<1> SUFFICES ASSUME QuietAddresses, TypeInv, TimerInv, [Next]_vars PROVE TimerInv'
  OBVIOUS
<1> USE DEF mainVars
<1>0. EndsAreLast(todo) /\ TimerFits /\ PartsFit /\ TxWaits
  BY DEF TimerInv
<1>1. CASE PpiCallsTask \/ ShortcutCallsTask \/ SoftwareTask
  BY <1>1, TasksTimerStep
<1>2. CASE SignalEnds
  <2> DEFINE event == Head(todo).what
  <2>1. /\ EndsAreLast(todo') /\ event \in RadioEvent /\ event \in Left
        /\ Left' = Whats(Shortcuts(event)) \union Whats(Tail(todo))
        /\ Whats(Tail(todo)) \subseteq Left
    BY <1>0, <1>2, SignalLeft, NowLeft DEF SignalEnds
  <2>2. UNCHANGED <<radio_state, radio_sub_state, Timer_RADIO, TIFS_state>>
    BY <1>2 DEF SignalEnds, tifsVars
  <2> HIDE DEF event
  <2>3. \A what \in Whats(Shortcuts(event)) :
           /\ what \in RadioTask \union {"fake_TRXEN_TIFS"}
           /\ what = "fake_TRXEN_TIFS" => event = "DISABLED"
           /\ event \in Harmless => what \in Harmless
    BY <2>1, ShortcutsOf
  <2>4. (Preparing' => Preparing) /\ (Continuing' => Continuing)
    BY <2>1, <2>3 DEF Preparing, Continuing, RadioTask
  <2>5. Disabling' => Disabling
    BY <2>1, <2>3 DEF Disabling, RadioTask
  <2>6. Continuing' => Left' \subseteq Harmless
    BY <2>1, <2>3, <2>4, <1>0 DEF PartsFit
  <2> QED BY <1>0, <2>1, <2>2, <2>4, <2>5, <2>6
          DEF TimerInv, TimerFits, TimerIsExpected, IsTifsSwitch, PartsFit, TxWaits
<1>3. CASE FakeTaskTrxenTifs
  <2>1. /\ "fake_TRXEN_TIFS" \in Left /\ Left' \subseteq Left /\ EndsAreLast(todo')
    BY <1>0, <1>3, NowLeft DEF FakeTaskTrxenTifs, Continues, Left
  <2>2. radio_state \in DisabledStates /\ ~Continuing
    BY <2>1, <1>0 DEF PartsFit, Disabling, Harmless
  <2>3. /\ UNCHANGED <<radio_state, radio_sub_state>>
        /\ \/ UNCHANGED <<TIFS_state, Timer_RADIO>>
           \/ TIFS_state' = "TRIGGERING_TRX_EN"
    BY <1>3 DEF FakeTaskTrxenTifs
  <2>4. TimerFits' /\ TxWaits'
    BY <1>0, <2>2, <2>3 DEF TimerFits, TimerIsExpected, IsTifsSwitch, TxWaits, DisabledStates
  <2> QED BY <1>0, <2>1, <2>2, <2>3, <2>4 DEF TimerInv, PartsFit, Preparing, Disabling, Continuing
<1>4. CASE MaybePrepareTifs
  <2>1. Preparing /\ Left' = {} /\ EndsAreLast(todo')
    <3>1. todo # <<>> /\ Head(todo).what \in {"prepare_TIFS_Tx", "prepare_TIFS_Rx"}
          /\ todo' = Tail(todo)
      BY <1>4 DEF MaybePrepareTifs, Continues
    <3> QED BY <1>0, <3>1, NowLeft DEF Preparing, Left, Ends
  <2>2. radio_state # "DISABLED" /\ UNCHANGED mainVars
    BY <1>0, <1>4, <2>1 DEF PartsFit, MaybePrepareTifs
  <2> QED BY <1>0, <2>1, <2>2 DEF TimerInv, TimerFits, TimerIsExpected, IsTifsSwitch, TxWaits,
                                  PartsFit, Preparing, Disabling, Continuing
<1>5. CASE RxAddrReceived
  <2>1. PICK match \in {<<>>, <<"DEVMATCH">>, <<"DEVMISS">>} :
           todo' = AddressCalls(match) \o Tail(todo)
    BY <1>5 DEF RxAddrReceived, AddressCalls
  <2>2. Tail(todo) = <<>> /\ Continuing
    BY <1>0, <1>5, NowLeft DEF RxAddrReceived, Continues, Ends, Continuing
  <2>3. todo' = AddressCalls(match)
    BY <2>1, <2>2, AddressCallsAre, ConcatEmptySeq
  <2>4. EndsAreLast(todo') /\ Left' \subseteq Harmless
        /\ ~Preparing' /\ ~Disabling'
    BY <2>3, AddressCallsAre DEF Left, Harmless, Preparing, Disabling
  <2>5. UNCHANGED <<mainVars, TIFS_state>>
    BY <1>5 DEF RxAddrReceived, tifsVars
  <2> QED BY <1>0, <2>2, <2>4, <2>5 DEF TimerInv, TimerFits, TimerIsExpected, IsTifsSwitch,
                                        TxWaits, PartsFit
<1>6. CASE RxContAfterAddr
  <2>1. Left' = {} /\ EndsAreLast(todo') /\ Continuing
    BY <1>0, <1>6, NowLeft DEF RxContAfterAddr, Continues, Ends, Left, Continuing
  <2>2. radio_state = "RX" /\ radio_state' = "RX" /\ radio_sub_state' = "RX_WAIT_FOR_PAYLOAD_END"
    BY <1>0, <1>6, <2>1 DEF RxContAfterAddr, PartsFit
  <2> QED BY <2>1, <2>2 DEF TimerInv, TimerFits, TimerIsExpected, TxWaits, PartsFit, Preparing,
                            Disabling, Continuing
<1>7. CASE BitCounterDone
  <2>1. Left' = {} /\ EndsAreLast(todo')
    BY <1>0, <1>7, NowLeft DEF BitCounterDone, Continues, Ends, Left
  <2>2. UNCHANGED <<mainVars, TIFS_state>>
    BY <1>7 DEF BitCounterDone, tifsVars
  <2> QED BY <1>0, <2>1, <2>2 DEF TimerInv, TimerFits, TimerIsExpected, IsTifsSwitch, TxWaits,
                                  PartsFit, Preparing, Disabling, Continuing
<1>8. CASE RadioTimer
  BY <1>8, RadioTimerTimerStep
<1>9. CASE BitCounterTimer
  <2>1. "BCMATCH" \in Names \ Ends /\ "bitcounter_done" \in Names
    BY DEF Names, RadioEvent, Parts, Ends
  <2>2. EndsAreLast(todo') /\ Left' = {"BCMATCH", "bitcounter_done"}
    BY <1>9, <2>1, PairCalls DEF BitCounterTimer, Left
  <2>3. UNCHANGED <<mainVars, TIFS_state>>
    BY <1>9 DEF BitCounterTimer, tifsVars
  <2> QED BY <1>0, <2>2, <2>3 DEF TimerInv, TimerFits, TimerIsExpected, IsTifsSwitch, TxWaits,
                                  PartsFit, Preparing, Disabling, Continuing
<1>10. CASE AbortReevalTimer
  <2>1. todo = <<>> /\ todo' = <<>> /\ UNCHANGED <<radio_state, TIFS_state>>
    BY <1>10 DEF AbortReevalTimer, Quiet, tifsVars
  <2>2. \/ UNCHANGED <<radio_sub_state, Timer_RADIO>>
        \/ radio_state = "RX" /\ radio_sub_state' = "RX_WAIT_FOR_ADDRESS_END"
        \/ radio_state \in {"CCA", "ED"}
    BY <1>10 DEF AbortReevalTimer, HandleRxSearch
  <2> QED BY <1>0, <2>1, <2>2, NoCall DEF TimerInv, TimerFits, TimerIsExpected, IsTifsSwitch,
                                  TxWaits, PartsFit, Left, Preparing, Disabling, Continuing
<1>11. CASE Tick
  <2>1. todo = <<>> /\ todo' = <<>> /\ UNCHANGED <<radio_state, radio_sub_state, TIFS_state>>
    BY <1>11 DEF Tick, Quiet
  <2>2. Timer_RADIO' # Never => Timer_RADIO # Never
    BY <1>11 DEF Tick, Lower
  <2> QED BY <1>0, <2>1, <2>2, NoCall DEF TimerInv, TimerFits, TimerIsExpected, IsTifsSwitch,
                                  TxWaits, PartsFit, Left, Preparing, Disabling, Continuing
<1>12. CASE SoftwarePowerOn
  <2>1. todo = <<>> /\ todo' = <<>> /\ radio_state' = "DISABLED" /\ Timer_RADIO' = Never
    BY <1>12 DEF SoftwarePowerOn, SoftwareStep
  <2> QED BY <2>1, NoCall DEF TimerInv, TimerFits, TxWaits, PartsFit, Left, Preparing, Disabling,
                              Continuing
<1>13. CASE OtherTimer \/ SoftwareConfig \/ SoftwareBcc \/ UNCHANGED vars
  <2>1. UNCHANGED <<todo, mainVars, TIFS_state>>
    BY <1>13 DEF OtherTimer, SoftwareConfig, SoftwareBcc, vars, tifsVars
  <2> QED BY <1>0, <2>1 DEF TimerInv, TimerFits, TimerIsExpected, IsTifsSwitch, TxWaits,
                            PartsFit, Left, Preparing, Disabling, Continuing
<1> QED BY <1>1, <1>2, <1>3, <1>4, <1>5, <1>6, <1>7, <1>8, <1>9, <1>10, <1>11, <1>12, <1>13
        DEF Next, Continue, Software

LEMMA TimerInit == Init => TimerInv
BY NoCall DEF Init, TimerInv, TimerFits, TxWaits, PartsFit, Left, Preparing, Disabling, Continuing

LEMMA TimersHold == ASSUME QuietAddresses PROVE Spec => []TimerInv
<1>1. TypeInv /\ TimerInv /\ [Next]_vars => TimerInv'
  BY TimerStep
<1> QED BY <1>1, TimerInit, TypesHold, PTL DEF Spec

(* The timer of the main machine expires only in the states that expect it: *)
(* nrf_radio_timer_triggered() reaches none of its "programming error"      *)
(* branches, if the PPI does not stop the radio while the handler of an     *)
(* address runs.                                                            *)
THEOREM TimerIsAlwaysExpected == QuietAddresses => (Spec => []NoProgrammingError)
<1> SUFFICES ASSUME QuietAddresses PROVE Spec => []NoProgrammingError
  OBVIOUS
<1>1. TimerInv => NoProgrammingError
  BY Constants DEF TimerInv, TimerFits, NoProgrammingError
<1>2. Spec => []TimerInv
  BY TimersHold
<1> QED BY <1>1, <1>2, PTL

-----------------------------------------------------------------------------
(* The switch after TIFS.                                                   *)

(* The radio has ramped down before it is to ramp up again.                 *)
RampDownFits == TxRampDown <= TifsDelta.Tx /\ TxRampDown <= TifsDelta.Rx

RampingUp == {"TXRU", "RXRU"}
RampingDown == {"TXDISABLE", "RXDISABLE"}
SwitchTime == TifsRampUp[IF TIFS_ToTxNotRx THEN "TX" ELSE "RX"]

(* A packet has ended, and a time is set for the next one.                  *)
IsCounting == TIFS_state = "WAITING_FOR_DISABLE" /\ tifs_due # Never

(* The time that is due is that of the TIFS timer and then of the main one. *)
DueFits ==
  /\ config.fast => tifs_due = Never
  /\ TifsSwitchIsOnTime
  /\ IsCounting /\ (radio_state \in RampingDown \/ Disabling) => tifs_due = Timer_TIFS + SwitchTime
  /\ IsCounting /\ radio_state \in RampingDown => Timer_RADIO <= Timer_TIFS
  /\ TIFS_state = "TRIGGERING_TRX_EN" /\ radio_state = "DISABLED" /\ tifs_due # Never =>
        tifs_due = Timer_RADIO + SwitchTime

(* In which states of the main machine the switch may be under way.         *)
TifsStates ==
  /\ IsCounting => radio_state \notin RampingUp
  /\ radio_state \in RampingDown => TIFS_state # "TRIGGERING_TRX_EN"
  /\ radio_state = "RXRU" => TIFS_state # "WAITING_FOR_DISABLE"

(* What a handler that has not ended can count on.                          *)
TifsParts ==
  /\ Preparing \/ Continuing => /\ ~Disabling /\ radio_state # "DISABLED"
                                /\ radio_state \in RampingDown => TIFS_state = "DISABLE"
                                /\ radio_state \in RampingUp => tifs_due = Never
  /\ Preparing /\ radio_state \in RampingDown => Timer_RADIO <= TxRampDown
  /\ Preparing /\ IsHwTifsEnabled =>
        Left \intersect {"END", "DISABLE"} # {} \/ radio_state \in RampingDown
  /\ Disabling /\ radio_state \in RampingDown => TIFS_state = "DISABLE"

TifsInv == EndsAreLast(todo) /\ DueFits /\ TifsStates /\ TifsParts

(* What the tasks do to the switch.                                         *)
LEMMA TaskTifs ==
  ASSUME TypeInv, NEW task \in RadioTask, NEW rest, RunTask(task, rest)
  PROVE  /\ UNCHANGED <<config, TIFS_ToTxNotRx>>
         /\ \/ /\ task \in {"TXEN", "RXEN"} /\ tifs_due' = Never
               /\ radio_state \notin RampingDown
               /\ radio_state' = IF task = "TXEN" THEN "TXRU" ELSE "RXRU"
               /\ TIFS_state' = IF task = "TXEN" THEN TIFS_state ELSE "DISABLE"
            \/ /\ task = "DISABLE" /\ tifs_due' = Never /\ TIFS_state' = "DISABLE"
               /\ radio_state' \in RampingDown \union {"DISABLED"}
               /\ radio_state' = "DISABLED" => radio_state = "DISABLED"
               /\ radio_state \in RampingDown /\ TIFS_state = "DISABLE" => Timer_RADIO' = Timer_RADIO
               /\ radio_state \notin RampingDown /\ radio_state' \in RampingDown =>
                     Timer_RADIO' <= TxRampDown
            \/ /\ task # "DISABLE"
               /\ UNCHANGED <<TIFS_state, Timer_TIFS, tifs_due>>
               /\ \/ UNCHANGED <<radio_state, Timer_RADIO>>
                  \/ /\ radio_state \notin RampingUp \union RampingDown \union {"DISABLED"}
                     /\ radio_state' \notin RampingUp \union RampingDown \union {"DISABLED"}
<1> USE DEF mainVars, tifsVars, envVars, RampingUp, RampingDown
<1>1. CASE task \in {"TXEN", "RXEN"}
  BY <1>1 DEF RunTask, TASKS_TXEN, TASKS_RXEN, IsReady, Ignored
<1>2. CASE task \in {"START", "CCASTART", "EDSTART"}
  BY <1>2 DEF RunTask, TASKS_START, TASKS_CCASTART, TASKS_EDSTART, StartRx, StartCcaEd, Ignored
<1>3. CASE task = "STOP"
  BY <1>3 DEF RunTask, TASKS_STOP, IsActive, Idle
<1>4. CASE task = "DISABLE"
  <2>1. TASKS_DISABLE(rest)
    BY <1>4 DEF RunTask
  <2>2. /\ tifs_due' = Never /\ TIFS_state' = "DISABLE" /\ UNCHANGED <<config, TIFS_ToTxNotRx>>
        /\ radio_state' = IF radio_state \in {"TXRU", "TXIDLE", "TXSTARTING", "TX"} THEN "TXDISABLE"
                          ELSE IF radio_state \in {"RXRU", "RXIDLE", "RX", "CCA", "ED"}
                                 THEN "RXDISABLE" ELSE radio_state
        /\ radio_state \in {"TXRU", "TXIDLE", "TXSTARTING", "TX"} => Timer_RADIO' = TxRampDown
        /\ radio_state \in {"RXRU", "RXIDLE", "RX", "CCA", "ED"} => Timer_RADIO' = 0
        /\ radio_state \in RampingDown /\ TIFS_state = "DISABLE" => Timer_RADIO' = Timer_RADIO
    BY <2>1 DEF TASKS_DISABLE
  <2>3. radio_state \in States
    BY DEF TypeInv, MachineTypes
  <2> QED BY <1>4, <2>2, <2>3, Constants DEF States
<1>5. CASE task \in {"CCASTOP", "EDSTOP"}
  BY <1>5 DEF RunTask, StopCcaEd, Ignored
<1>6. CASE task \in {"RSSISTART", "RSSISTOP", "BCSTART", "BCSTOP"}
  BY <1>6 DEF RunTask, TASKS_RSSI, TASKS_BCSTART, TASKS_BCSTOP
<1> QED BY <1>1, <1>2, <1>3, <1>4, <1>5, <1>6 DEF RadioTask

LEMMA TaskTifsStep ==
  ASSUME TypeInv, TifsInv, NEW task \in RadioTask, NEW rest \in Seq(Routed),
         RunTask(task, rest), EndsAreLast(rest), Whats(rest) \subseteq Left,
         Left \subseteq Whats(rest) \union {task}
  PROVE  TifsInv'
<1>1. /\ EndsAreLast(todo') /\ Left' \subseteq Left \union Announced
      /\ "DISABLED" \in Left' \ Left => /\ task = "DISABLE"
                                        /\ radio_state = "DISABLED" /\ radio_state' = "DISABLED"
  BY TaskLeft
<1>2. Whats(rest) \subseteq Left'
  <2>1. CASE todo' = rest
    BY <2>1 DEF Left
  <2>2. CASE todo' # rest
    <3>1. PICK event \in Announced : todo' = <<Call(event)>> \o rest
      BY <2>2, TaskCalls
    <3>2. <<Call(event)>> \in Seq(Routed)
      BY CallIsRouted, OneCall DEF Announced, Names, RadioEvent
    <3> QED BY <3>1, <3>2, PutBefore DEF Left
  <2> QED BY <2>1, <2>2
<1>3. /\ (Preparing' => Preparing) /\ (Continuing' => Continuing)
      /\ Disabling' => Disabling \/ (task = "DISABLE" /\ radio_state' = "DISABLED")
  BY <1>1 DEF Preparing, Continuing, Disabling, Announced
<1>4. Left \intersect {"END", "DISABLE"} # {} =>
         Left' \intersect {"END", "DISABLE"} # {} \/ task = "DISABLE"
  BY <1>2 DEF RadioTask
<1>5. (IsHwTifsEnabled' <=> IsHwTifsEnabled) /\ SwitchTime' = SwitchTime
  BY TaskTifs DEF IsHwTifsEnabled, Has, SwitchTime
<1>6. CASE /\ task \in {"TXEN", "RXEN"} /\ tifs_due' = Never
           /\ radio_state \notin RampingDown
           /\ radio_state' = IF task = "TXEN" THEN "TXRU" ELSE "RXRU"
           /\ TIFS_state' = IF task = "TXEN" THEN TIFS_state ELSE "DISABLE"
  <2>1. DueFits'
    BY <1>6 DEF TifsInv, DueFits, TifsSwitchIsOnTime, IsCounting
  <2>2. TifsStates'
    BY <1>6 DEF TifsStates, IsCounting, RampingUp, RampingDown
  <2>3. TifsParts'
    BY <1>3, <1>4, <1>5, <1>6, TaskStates DEF TifsInv, TifsParts, RampingUp, RampingDown
  <2> QED BY <1>1, <2>1, <2>2, <2>3 DEF TifsInv
<1>7. CASE /\ task = "DISABLE" /\ tifs_due' = Never /\ TIFS_state' = "DISABLE"
           /\ radio_state' \in RampingDown \union {"DISABLED"}
           /\ radio_state' = "DISABLED" => radio_state = "DISABLED"
           /\ radio_state \in RampingDown /\ TIFS_state = "DISABLE" => Timer_RADIO' = Timer_RADIO
           /\ radio_state \notin RampingDown /\ radio_state' \in RampingDown =>
                 Timer_RADIO' <= TxRampDown
  <2>1. DueFits'
    BY <1>7 DEF TifsInv, DueFits, TifsSwitchIsOnTime, IsCounting
  <2>2. TifsStates'
    BY <1>7 DEF TifsStates, IsCounting, RampingUp, RampingDown
  <2>3. Preparing \/ Continuing => radio_state' \in RampingDown
    BY <1>7 DEF TifsInv, TifsParts
  <2>4. TifsParts'
    BY <1>3, <1>7, <2>3 DEF TifsInv, TifsParts, RampingUp, RampingDown
  <2> QED BY <1>1, <2>1, <2>2, <2>4 DEF TifsInv
<1>8. CASE /\ task # "DISABLE"
           /\ UNCHANGED <<TIFS_state, Timer_TIFS, tifs_due>>
           /\ \/ UNCHANGED <<radio_state, Timer_RADIO>>
              \/ /\ radio_state \notin RampingUp \union RampingDown \union {"DISABLED"}
                 /\ radio_state' \notin RampingUp \union RampingDown \union {"DISABLED"}
  <2>1. config' = config
    BY TaskTifs
  <2>2. DueFits'
    BY <1>3, <1>5, <1>8, <2>1 DEF TifsInv, DueFits, TifsSwitchIsOnTime, IsCounting, RampingUp, RampingDown
  <2>3. TifsStates'
    BY <1>8 DEF TifsInv, TifsStates, IsCounting, RampingUp, RampingDown
  <2>4. TifsParts'
    BY <1>3, <1>4, <1>5, <1>8, TaskStates DEF TifsInv, TifsParts, RampingUp, RampingDown
  <2> QED BY <1>1, <2>2, <2>3, <2>4 DEF TifsInv
<1> QED BY <1>6, <1>7, <1>8, TaskTifs

(* The shortcut of the end of a packet, if it is set, disables the radio.   *)
LEMMA EndDisables ==
  ASSUME Has("END", "DISABLE")
  PROVE  "DISABLE" \in Whats(Shortcuts("END"))
<1> DEFINE enabled(task) == /\ Has("END", task)
                            /\ ~("END" = "DISABLED" /\ IsHwTifsEnabled /\ task \in {"TXEN", "RXEN"})
           fake == IF "END" = "DISABLED" /\ IsHwTifsEnabled THEN <<"fake_TRXEN_TIFS">> ELSE <<>>
           tasks == ShortcutTasks["END"]
           ith(i) == IF i \in DOMAIN tasks /\ enabled(tasks[i]) THEN <<tasks[i]>> ELSE <<>>
           names == fake \o ith(1) \o ith(2) \o ith(3)
<1>1. tasks = <<"DISABLE", "START">>
  BY DEF ShortcutTasks, RadioEvent
<1>2. "DISABLE" \in Names /\ "START" \in Names
  BY DEF Names, RadioTask
<1>3. fake = <<>> /\ fake \in Seq(Names)
  BY FewNames
<1>4. ith(1) = <<"DISABLE">>
  BY <1>1
<1>5. ith(1) \in Seq(Names) /\ Elements(ith(1)) = {"DISABLE"}
  <2> HIDE DEF ith
  <2> QED BY <1>2, <1>4, FewNames
<1>6. ith(2) \in {<<>>, <<"START">>} /\ ith(3) = <<>>
  BY <1>1
<1>7. Shortcuts("END") = Calls(names)
  BY DEF Shortcuts
<1> HIDE DEF fake, ith
<1>8. ith(2) \in Seq(Names) /\ ith(3) \in Seq(Names)
  BY <1>2, <1>6, FewNames
<1> DEFINE two == fake \o ith(1)
           three == two \o ith(2)
<1>9. two \in Seq(Names) /\ "DISABLE" \in Elements(two)
  BY <1>3, <1>5, NamesJoined
<1>10. names = three \o ith(3)
  OBVIOUS
<1> HIDE DEF two, names
<1>11. three \in Seq(Names) /\ "DISABLE" \in Elements(three)
  BY <1>8, <1>9, NamesJoined
<1> HIDE DEF three
<1>12. names \in Seq(Names) /\ "DISABLE" \in Elements(names)
  BY <1>8, <1>10, <1>11, NamesJoined
<1> QED BY <1>7, <1>12, CallsAre

LEMMA TasksTifsStep ==
  ASSUME TypeInv, TifsInv, PpiCallsTask \/ ShortcutCallsTask \/ SoftwareTask
  PROVE  TifsInv'
<1>1. PICK task \in RadioTask, rest \in Seq(Routed) :
            /\ RunTask(task, rest)
            /\ \/ todo # <<>> /\ task \in Head(todo).tasks /\ rest = PpiRest(task)
               \/ todo # <<>> /\ task = Head(todo).what /\ rest = Tail(todo)
               \/ SoftwareStep /\ rest = <<>>
  BY TasksRun
<1>2. EndsAreLast(todo)
  BY DEF TifsInv
<1>3. EndsAreLast(rest) /\ Whats(rest) \subseteq Left /\ Left \subseteq Whats(rest) \union {task}
  <2>1. CASE todo # <<>> /\ task \in Head(todo).tasks /\ rest = PpiRest(task)
    BY <1>2, <2>1, PpiRests DEF Left
  <2>2. CASE todo # <<>> /\ task = Head(todo).what /\ rest = Tail(todo)
    BY <1>2, <2>2, NowLeft
  <2>3. CASE SoftwareStep /\ rest = <<>>
    BY <2>3, NoCall DEF SoftwareStep, Left
  <2> QED BY <1>1, <2>1, <2>2, <2>3
<1> QED BY <1>1, <1>3, TaskTifsStep

LEMMA RadioTimerTifsStep ==
  ASSUME TypeInv, TifsInv, RadioTimer
  PROVE  TifsInv'
<1> USE DEF mainVars, tifsVars, envVars
<1>0. /\ todo = <<>> /\ Timer_RADIO = 0
      /\ {"READY", "TXREADY", "RXREADY", "ADDRESS", "FRAMESTART", "BCSTOP", "DISABLED"}
           \subseteq Names \ Ends
  BY DEF RadioTimer, Quiet, Names, RadioEvent, RadioTask, Ends
<1>1. ASSUME NEW state, NEW sub, NEW timer, NEW names, MainStep(state, sub, timer, names),
             EndsAreLast(Calls(names)),
             state \notin RampingUp \union RampingDown,
             \/ /\ state # "DISABLED"
                /\ Whats(Calls(names)) \intersect {"DISABLED", "fake_TRXEN_TIFS"} = {}
                /\ \/ "END" \in Whats(Calls(names))
                   \/ Whats(Calls(names)) \intersect {"prepare_TIFS_Tx", "prepare_TIFS_Rx"} = {}
             \/ /\ state = "DISABLED" /\ radio_state \in RampingDown
                /\ Whats(Calls(names)) \intersect {"prepare_TIFS_Tx", "prepare_TIFS_Rx",
                      "Rx_Addr_received", "Rx_cont_after_addr"} = {}
      PROVE  TifsInv'
  <2>1. /\ todo' = Calls(names) /\ radio_state' = state
        /\ UNCHANGED <<TIFS_state, TIFS_ToTxNotRx, Timer_TIFS, tifs_due, config>>
    BY <1>1 DEF MainStep
  <2>2. DueFits'
    BY <1>1, <2>1 DEF TifsInv, TifsStates, DueFits, TifsSwitchIsOnTime, IsCounting, SwitchTime,
                      RampingUp, RampingDown, Left, Disabling
  <2>3. TifsStates'
    BY <1>1, <2>1 DEF TifsStates, RampingUp, RampingDown
  <2>4. TifsParts'
    BY <1>1, <2>1 DEF TifsParts, Left, Preparing, Continuing, Disabling, RampingUp, RampingDown
  <2> QED BY <1>1, <2>1, <2>2, <2>3, <2>4 DEF TifsInv
<1>2. CASE \/ MainStep("TXIDLE", radio_sub_state, Never, <<"READY", "TXREADY">>)
           \/ MainStep("RXIDLE", radio_sub_state, Never, <<"READY", "RXREADY">>)
           \/ MainStep("TX", "TX_WAIT_FOR_PAYLOAD_END", PayloadTime, <<"ADDRESS", "FRAMESTART">>)
  <2>1. \A a, b \in {"READY", "TXREADY", "RXREADY", "ADDRESS", "FRAMESTART"} :
           EndsAreLast(Calls(<<a, b>>)) /\ Whats(Calls(<<a, b>>)) = {a, b}
    BY <1>0, PairCalls
  <2>2. CASE MainStep("TXIDLE", radio_sub_state, Never, <<"READY", "TXREADY">>)
    <3>1. /\ EndsAreLast(Calls(<<"READY", "TXREADY">>))
          /\ Whats(Calls(<<"READY", "TXREADY">>)) = {"READY", "TXREADY"}
      BY <2>1
    <3> QED BY <2>2, <3>1, <1>1 DEF RampingUp, RampingDown
  <2>3. CASE MainStep("RXIDLE", radio_sub_state, Never, <<"READY", "RXREADY">>)
    <3>1. /\ EndsAreLast(Calls(<<"READY", "RXREADY">>))
          /\ Whats(Calls(<<"READY", "RXREADY">>)) = {"READY", "RXREADY"}
      BY <2>1
    <3> QED BY <2>3, <3>1, <1>1 DEF RampingUp, RampingDown
  <2>4. CASE MainStep("TX", "TX_WAIT_FOR_PAYLOAD_END", PayloadTime, <<"ADDRESS", "FRAMESTART">>)
    <3>1. /\ EndsAreLast(Calls(<<"ADDRESS", "FRAMESTART">>))
          /\ Whats(Calls(<<"ADDRESS", "FRAMESTART">>)) = {"ADDRESS", "FRAMESTART"}
      BY <2>1
    <3> QED BY <2>4, <3>1, <1>1 DEF RampingUp, RampingDown
  <2> QED BY <1>2, <2>2, <2>3, <2>4
<1>3. CASE \/ MainStep("TX", "TX_WAIT_FOR_CRC_END", CrcTime, <<"PAYLOAD">>)
           \/ MainStep("RX", "RX_WAIT_FOR_CRC_END", CrcTime, <<"PAYLOAD">>)
           \/ \E event \in {"CCABUSY", "CCAIDLE"} :
                 MainStep("RXIDLE", radio_sub_state, Never, <<event>>)
           \/ MainStep("RXIDLE", radio_sub_state, Never, <<"EDEND">>)
  <2>1. \A a \in {"PAYLOAD", "CCABUSY", "CCAIDLE", "EDEND"} :
           EndsAreLast(Calls(<<a>>)) /\ Whats(Calls(<<a>>)) = {a}
    BY EventCalls DEF RadioEvent
  <2> QED BY <1>3, <2>1, <1>1 DEF RampingUp, RampingDown
<1>4. CASE MainStep("TXIDLE", "INVALID", Never, <<"BCSTOP", "END", "PHYEND", "prepare_TIFS_Tx">>)
  <2> DEFINE names == <<"BCSTOP", "END", "PHYEND", "prepare_TIFS_Tx">>
  <2>1. /\ EndsAreLast(Calls(names))
        /\ Whats(Calls(names)) = {"BCSTOP", "END", "PHYEND", "prepare_TIFS_Tx"}
    BY EndCalls
  <2> HIDE DEF names
  <2>2. MainStep("TXIDLE", "INVALID", Never, names)
    BY <1>4 DEF names
  <2> QED BY <2>1, <2>2, <1>1 DEF RampingUp, RampingDown
<1>5. CASE MainStep("RXIDLE", "INVALID", Never, <<IF CRC_OK THEN "CRCOK" ELSE "CRCERROR",
                                                  "BCSTOP", "PHYEND", "END", "prepare_TIFS_Rx">>)
  <2>1. PICK event \in {"CRCOK", "CRCERROR"} : MainStep("RXIDLE", "INVALID", Never,
                             <<event, "BCSTOP", "PHYEND", "END", "prepare_TIFS_Rx">>)
    BY <1>5
  <2> DEFINE names == <<event, "BCSTOP", "PHYEND", "END", "prepare_TIFS_Rx">>
  <2>2. /\ EndsAreLast(Calls(names))
        /\ Whats(Calls(names)) = {event, "BCSTOP", "PHYEND", "END", "prepare_TIFS_Rx"}
    BY EndCalls
  <2> HIDE DEF names
  <2>3. MainStep("RXIDLE", "INVALID", Never, names)
    BY <2>1 DEF names
  <2> QED BY <2>2, <2>3, <1>1 DEF RampingUp, RampingDown
<1>6. CASE MainStep("RX", radio_sub_state, Never,
                    <<"SYNC", "ADDRESS", "FRAMESTART", "Rx_Addr_received">>)
  <2> DEFINE names == <<"SYNC", "ADDRESS", "FRAMESTART", "Rx_Addr_received">>
  <2>1. /\ EndsAreLast(Calls(names))
        /\ Whats(Calls(names)) = {"SYNC", "ADDRESS", "FRAMESTART", "Rx_Addr_received"}
    BY EndCalls
  <2> HIDE DEF names
  <2>2. MainStep("RX", radio_sub_state, Never, names)
    BY <1>6 DEF names
  <2> QED BY <2>1, <2>2, <1>1 DEF RampingUp, RampingDown
<1>7. CASE /\ radio_state \in {"TXDISABLE", "RXDISABLE"}
           /\ MainStep("DISABLED", radio_sub_state, Never, <<"BCSTOP", "DISABLED">>)
  <2>1. /\ EndsAreLast(Calls(<<"BCSTOP", "DISABLED">>))
        /\ Whats(Calls(<<"BCSTOP", "DISABLED">>)) = {"BCSTOP", "DISABLED"}
    BY <1>0, PairCalls
  <2> QED BY <1>7, <2>1, <1>1 DEF RampingUp, RampingDown
<1>8. CASE StartTx(<<>>)
  <2>1. radio_state' = "TX" /\ todo' = <<>> /\ UNCHANGED <<tifsVars, config>>
    BY <1>8 DEF StartTx
  <2> QED BY <2>1, NoCall DEF TifsInv, DueFits, TifsSwitchIsOnTime, IsCounting, TifsStates,
                  TifsParts, RampingUp, RampingDown, Left, Preparing, Continuing, Disabling
<1>9. CASE /\ IsTifsSwitch
           /\ \/ TIFS_ToTxNotRx /\ TASKS_TXEN(TRUE, <<>>)
              \/ ~TIFS_ToTxNotRx /\ TASKS_RXEN(TRUE, <<>>)
  <2>1. /\ radio_state' \in RampingUp /\ todo' = <<>> /\ TIFS_state' = "DISABLE"
        /\ UNCHANGED <<tifs_due, config>>
    BY <1>9 DEF IsTifsSwitch, IsReady, TASKS_TXEN, TASKS_RXEN, RampingUp
  <2>2. tifs_due # Never => Timer_RADIO' = tifs_due
    <3> SUFFICES ASSUME tifs_due # Never PROVE Timer_RADIO' = tifs_due
      OBVIOUS
    <3>1. tifs_due = Timer_RADIO + SwitchTime /\ ~config.fast
      BY <1>9 DEF IsTifsSwitch, TifsInv, DueFits
    <3>2. TifsRampUp["TX"] \in Nat /\ TifsRampUp["RX"] \in Nat
      BY RampUps
    <3>3. CASE TIFS_ToTxNotRx
      <4>1. Timer_RADIO' = TifsRampUp["TX"]
        BY <1>9, <3>1, <3>3 DEF IsTifsSwitch, IsReady, TASKS_TXEN, RampupTime
      <4>2. SwitchTime = TifsRampUp["TX"]
        BY <3>3 DEF SwitchTime
      <4> QED BY <3>1, <3>2, <4>1, <4>2, <1>0
    <3>4. CASE ~TIFS_ToTxNotRx
      <4>1. Timer_RADIO' = TifsRampUp["RX"]
        BY <1>9, <3>1, <3>4 DEF IsTifsSwitch, IsReady, TASKS_RXEN, RampupTime
      <4>2. SwitchTime = TifsRampUp["RX"]
        BY <3>4 DEF SwitchTime
      <4> QED BY <3>1, <3>2, <4>1, <4>2, <1>0
    <3> QED BY <3>3, <3>4
  <2> QED BY <2>1, <2>2, NoCall DEF TifsInv, DueFits, TifsSwitchIsOnTime, IsCounting, TifsStates,
                  TifsParts, RampingUp, RampingDown, Left, Preparing, Continuing, Disabling
<1> QED BY <1>2, <1>3, <1>4, <1>5, <1>6, <1>7, <1>8, <1>9 DEF RadioTimer

LEMMA SignalTifsStep ==
  ASSUME TypeInv, TifsInv, SignalEnds
  PROVE  TifsInv'
<1> DEFINE event == Head(todo).what
<1>1. /\ EndsAreLast(todo') /\ event \in RadioEvent
      /\ Left = {event} \union Whats(Tail(todo))
      /\ Left' = Whats(Shortcuts(event)) \union Whats(Tail(todo))
  BY SignalLeft, NowLeft DEF SignalEnds, TifsInv
<1>2. UNCHANGED <<radio_state, Timer_RADIO, TIFS_state, TIFS_ToTxNotRx, Timer_TIFS, tifs_due, config>>
  BY DEF SignalEnds, mainVars, tifsVars, envVars
<1>3. Has("END", "DISABLE") => "DISABLE" \in Whats(Shortcuts("END"))
  BY EndDisables
<1> HIDE DEF event
<1>4. \A what \in Whats(Shortcuts(event)) :
         /\ what \in RadioTask \union {"fake_TRXEN_TIFS"}
         /\ what = "fake_TRXEN_TIFS" => event = "DISABLED"
  BY <1>1, ShortcutsOf
<1>5. (Preparing' => Preparing) /\ (Continuing' => Continuing) /\ (Disabling' => Disabling)
  BY <1>1, <1>4 DEF Preparing, Continuing, Disabling, RadioTask
<1>6. IsHwTifsEnabled' <=> IsHwTifsEnabled
  BY <1>2 DEF IsHwTifsEnabled, Has
<1>7. IsHwTifsEnabled /\ Left \intersect {"END", "DISABLE"} # {} =>
         Left' \intersect {"END", "DISABLE"} # {}
  <2> SUFFICES ASSUME IsHwTifsEnabled, Left \intersect {"END", "DISABLE"} # {}
               PROVE  Left' \intersect {"END", "DISABLE"} # {}
    OBVIOUS
  <2>1. CASE event = "END"
    BY <1>1, <1>3, <2>1 DEF IsHwTifsEnabled
  <2>2. CASE event # "END"
    BY <1>1, <2>2 DEF RadioEvent
  <2> QED BY <2>1, <2>2
<1>8. DueFits'
  BY <1>2, <1>5 DEF TifsInv, DueFits, TifsSwitchIsOnTime, IsCounting, SwitchTime
<1>9. TifsStates'
  BY <1>2 DEF TifsInv, TifsStates, IsCounting
<1>10. TifsParts'
  BY <1>2, <1>5, <1>6, <1>7 DEF TifsInv, TifsParts
<1> QED BY <1>1, <1>8, <1>9, <1>10 DEF TifsInv

LEMMA PrepareTifsStep ==
  ASSUME RampDownFits, TypeInv, TifsInv, MaybePrepareTifs
  PROVE  TifsInv'
<1>1. /\ Preparing /\ Left' = {} /\ EndsAreLast(todo') /\ Left \intersect {"END", "DISABLE"} = {}
  <2>1. todo # <<>> /\ Head(todo).what \in {"prepare_TIFS_Tx", "prepare_TIFS_Rx"}
        /\ todo' = Tail(todo)
    BY DEF MaybePrepareTifs, Continues
  <2> QED BY <2>1, NowLeft DEF TifsInv, Preparing, Left, Ends
<1>2. UNCHANGED <<radio_state, Timer_RADIO, config>>
  BY DEF MaybePrepareTifs, mainVars, envVars
<1>3. ~Preparing' /\ ~Continuing' /\ ~Disabling'
  BY <1>1 DEF Preparing, Continuing, Disabling
<1>4. CASE IsHwTifsEnabled
  <2>1. PICK end \in {"Tx", "Rx"} :
           /\ Timer_TIFS' = TifsDelta[end] /\ TIFS_state' = "WAITING_FOR_DISABLE"
           /\ TIFS_ToTxNotRx' = Has("DISABLED", "TXEN")
           /\ tifs_due' = TifsDelta[end]
                            + TifsRampUp[IF Has("DISABLED", "TXEN") THEN "TX" ELSE "RX"]
    BY <1>4 DEF MaybePrepareTifs
  <2>2. radio_state \in RampingDown /\ Timer_RADIO <= TxRampDown
    BY <1>1, <1>4 DEF TifsInv, TifsParts
  <2>3. tifs_due' = Timer_TIFS' + SwitchTime'
    BY <2>1 DEF SwitchTime
  <2>4. Timer_RADIO <= Timer_TIFS'
    <3>1. Timer_RADIO \in Nat /\ TxRampDown \in Nat /\ TifsDelta[end] \in Nat
      BY Constants, TifsDeltas DEF TypeInv, MachineTypes, Times
    <3>2. TxRampDown <= TifsDelta[end]
      BY DEF RampDownFits
    <3> QED BY <2>1, <2>2, <3>1, <3>2
  <2>5. ~config.fast
    BY <1>4 DEF IsHwTifsEnabled
  <2>6. DueFits'
    BY <1>2, <2>1, <2>2, <2>3, <2>4, <2>5
       DEF DueFits, TifsSwitchIsOnTime, IsCounting, RampingDown
  <2>7. TifsStates'
    BY <1>2, <2>1, <2>2 DEF TifsStates, RampingUp, RampingDown
  <2> QED BY <1>1, <1>3, <2>6, <2>7 DEF TifsInv, TifsParts
<1>5. CASE ~IsHwTifsEnabled
  <2>1. TIFS_state' = "DISABLE" /\ UNCHANGED <<TIFS_ToTxNotRx, Timer_TIFS, tifs_due>>
    BY <1>5 DEF MaybePrepareTifs
  <2>2. DueFits'
    BY <1>2, <2>1 DEF TifsInv, DueFits, TifsSwitchIsOnTime, IsCounting
  <2>3. TifsStates'
    BY <1>2, <2>1 DEF TifsStates, IsCounting
  <2> QED BY <1>1, <1>3, <2>2, <2>3 DEF TifsInv, TifsParts
<1> QED BY <1>4, <1>5

LEMMA TickTifsStep ==
  ASSUME TypeInv, TifsInv, Tick
  PROVE  TifsInv'
<1>1. /\ todo = <<>> /\ todo' = <<>> /\ Timer_RADIO # 0
      /\ UNCHANGED <<radio_state, TIFS_state, TIFS_ToTxNotRx, config>>
      /\ Timer_RADIO' = Lower(Timer_RADIO)
      /\ Timer_TIFS' = IF Timer_TIFS = 0 THEN 0 ELSE Lower(Timer_TIFS)
      /\ tifs_due' = IF tifs_due = 0 THEN Never ELSE Lower(tifs_due)
  BY DEF Tick, Quiet
<1>2. /\ Timer_RADIO \in Nat /\ Timer_TIFS \in Nat /\ tifs_due \in Nat /\ Never \in Nat
      /\ Timer_RADIO <= Never /\ Timer_TIFS <= Never /\ tifs_due <= Never
  BY Constants DEF TypeInv, MachineTypes, Times
<1>3. SwitchTime \in Nat /\ SwitchTime' = SwitchTime
  <2>1. TifsRampUp["TX"] \in Nat /\ TifsRampUp["RX"] \in Nat
    BY RampUps
  <2> QED BY <1>1, <2>1 DEF SwitchTime
<1>4. tifs_due' # Never => tifs_due # Never /\ tifs_due # 0 /\ tifs_due' = tifs_due - 1
  BY <1>1 DEF Lower
<1>5. Timer_RADIO # Never => Timer_RADIO' = Timer_RADIO - 1
  BY <1>1 DEF Lower
<1>6. Timer_TIFS # Never /\ Timer_TIFS # 0 => Timer_TIFS' = Timer_TIFS - 1
  BY <1>1 DEF Lower
<1>7. ~Disabling' /\ ~Preparing' /\ ~Continuing' /\ EndsAreLast(todo')
  BY <1>1, NoCall DEF Disabling, Preparing, Continuing, Left
<1>8. ASSUME IsCounting', radio_state' \in RampingDown
      PROVE  tifs_due' = Timer_TIFS' + SwitchTime' /\ Timer_RADIO' <= Timer_TIFS'
  <2>1. tifs_due = Timer_TIFS + SwitchTime /\ Timer_RADIO <= Timer_TIFS
    BY <1>1, <1>4, <1>8 DEF TifsInv, DueFits, IsCounting
  <2>2. tifs_due # Never /\ tifs_due' = tifs_due - 1
    BY <1>4, <1>8 DEF IsCounting
  <2>3. Timer_TIFS # 0 /\ Timer_TIFS # Never /\ Timer_RADIO # Never
    BY <1>1, <1>2, <1>3, <2>1, <2>2
  <2> QED BY <1>2, <1>3, <1>5, <1>6, <2>1, <2>2, <2>3
<1>9. ASSUME TIFS_state' = "TRIGGERING_TRX_EN", radio_state' = "DISABLED", tifs_due' # Never
      PROVE  tifs_due' = Timer_RADIO' + SwitchTime'
  <2>1. tifs_due = Timer_RADIO + SwitchTime /\ tifs_due # Never /\ tifs_due' = tifs_due - 1
    BY <1>1, <1>4, <1>9 DEF TifsInv, DueFits
  <2>2. Timer_RADIO # Never
    BY <1>2, <1>3, <2>1
  <2> QED BY <1>2, <1>3, <1>5, <2>1, <2>2
<1>10. TifsSwitchIsOnTime'
  BY <1>1, <1>4, <1>5 DEF TifsInv, DueFits, TifsSwitchIsOnTime
<1>11. config'.fast => tifs_due' = Never
  BY <1>1, <1>4 DEF TifsInv, DueFits
<1>12. DueFits'
  BY <1>7, <1>8, <1>9, <1>10, <1>11 DEF DueFits
<1>13. TifsStates'
  BY <1>1, <1>4 DEF TifsInv, TifsStates, IsCounting
<1> QED BY <1>7, <1>12, <1>13 DEF TifsInv, TifsParts

LEMMA TifsStep == RampDownFits /\ TypeInv /\ TifsInv /\ [Next]_vars => TifsInv'
<1> SUFFICES ASSUME RampDownFits, TypeInv, TifsInv, [Next]_vars PROVE TifsInv'
  OBVIOUS
<1> USE DEF mainVars, tifsVars, envVars
<1>0. EndsAreLast(todo)
  BY DEF TifsInv
<1>1. CASE PpiCallsTask \/ ShortcutCallsTask \/ SoftwareTask
  BY <1>1, TasksTifsStep
<1>2. CASE SignalEnds
  BY <1>2, SignalTifsStep
<1>3. CASE FakeTaskTrxenTifs
  <2>1. /\ "fake_TRXEN_TIFS" \in Left /\ Left' \subseteq Left /\ EndsAreLast(todo')
    BY <1>0, <1>3, NowLeft DEF FakeTaskTrxenTifs, Continues, Left
  <2>2. Disabling /\ ~Preparing /\ ~Continuing /\ ~Preparing' /\ ~Continuing'
    BY <2>1 DEF TifsInv, TifsParts, Disabling, Preparing, Continuing
  <2>3. UNCHANGED <<radio_state, TIFS_ToTxNotRx, Timer_TIFS, tifs_due, config>>
    BY <1>3 DEF FakeTaskTrxenTifs
  <2>4. CASE TIFS_state = "WAITING_FOR_DISABLE"
    <3>1. TIFS_state' = "TRIGGERING_TRX_EN" /\ Timer_RADIO' = Timer_TIFS
      BY <1>3, <2>4 DEF FakeTaskTrxenTifs
    <3>2. DueFits'
      BY <2>2, <2>3, <2>4, <3>1 DEF TifsInv, DueFits, TifsStates, TifsSwitchIsOnTime, IsCounting,
                                    SwitchTime, RampingUp
    <3>3. TifsStates'
      BY <2>2, <2>3, <2>4, <3>1 DEF TifsInv, TifsParts, TifsStates, IsCounting
    <3>4. TifsParts'
      BY <2>2, <2>3, <2>4, <3>1 DEF TifsInv, TifsParts
    <3> QED BY <2>1, <3>2, <3>3, <3>4 DEF TifsInv
  <2>5. CASE TIFS_state # "WAITING_FOR_DISABLE"
    <3>1. UNCHANGED <<TIFS_state, Timer_RADIO>>
      BY <1>3, <2>5 DEF FakeTaskTrxenTifs
    <3>2. DueFits'
      BY <2>2, <2>3, <3>1 DEF TifsInv, DueFits, TifsSwitchIsOnTime, IsCounting, SwitchTime
    <3> QED BY <2>1, <2>2, <2>3, <3>1, <3>2 DEF TifsInv, TifsParts, TifsStates, IsCounting
  <2> QED BY <2>4, <2>5
<1>4. CASE MaybePrepareTifs
  BY <1>4, PrepareTifsStep
<1>5. CASE RxAddrReceived
  <2>1. PICK match \in {<<>>, <<"DEVMATCH">>, <<"DEVMISS">>} :
           todo' = AddressCalls(match) \o Tail(todo)
    BY <1>5 DEF RxAddrReceived, AddressCalls
  <2>2. Tail(todo) = <<>> /\ Continuing
    BY <1>0, <1>5, NowLeft DEF RxAddrReceived, Continues, Ends, Continuing
  <2>3. todo' = AddressCalls(match)
    BY <2>1, <2>2, AddressCallsAre, ConcatEmptySeq
  <2>4. EndsAreLast(todo') /\ ~Preparing' /\ ~Disabling'
    BY <2>3, AddressCallsAre DEF Left, Preparing, Disabling
  <2>5. UNCHANGED <<mainVars, tifsVars, config>>
    BY <1>5 DEF RxAddrReceived
  <2>6. DueFits'
    BY <2>4, <2>5 DEF TifsInv, DueFits, TifsSwitchIsOnTime, IsCounting, SwitchTime
  <2> QED BY <2>2, <2>4, <2>5, <2>6 DEF TifsInv, TifsParts, TifsStates, IsCounting
<1>6. CASE RxContAfterAddr
  <2>1. Left' = {} /\ EndsAreLast(todo') /\ Continuing
    BY <1>0, <1>6, NowLeft DEF RxContAfterAddr, Continues, Ends, Left, Continuing
  <2>2. /\ ~Preparing' /\ ~Continuing' /\ ~Disabling'
        /\ UNCHANGED <<radio_state, tifsVars, config>>
    BY <1>6, <2>1 DEF RxContAfterAddr, Preparing, Continuing, Disabling
  <2>3. /\ radio_state # "DISABLED"
        /\ radio_state \in RampingDown => TIFS_state = "DISABLE"
        /\ radio_state \in RampingUp => tifs_due = Never
    BY <2>1 DEF TifsInv, TifsParts
  <2>4. DueFits'
    BY <2>2, <2>3 DEF TifsInv, DueFits, TifsSwitchIsOnTime, IsCounting, SwitchTime, RampingUp
  <2> QED BY <2>1, <2>2, <2>4 DEF TifsInv, TifsParts, TifsStates, IsCounting
<1>7. CASE BitCounterDone \/ BitCounterTimer
  <2>1. /\ Left' \subseteq {"BCMATCH", "bitcounter_done"} /\ EndsAreLast(todo')
    <3>1. CASE BitCounterDone
      BY <1>0, <3>1, NowLeft DEF BitCounterDone, Continues, Ends, Left
    <3>2. CASE BitCounterTimer
      <4>1. "BCMATCH" \in Names \ Ends /\ "bitcounter_done" \in Names
        BY DEF Names, RadioEvent, Parts, Ends
      <4> QED BY <3>2, <4>1, PairCalls DEF BitCounterTimer, Left
    <3> QED BY <1>7, <3>1, <3>2
  <2>2. UNCHANGED <<mainVars, tifsVars, config>>
    BY <1>7 DEF BitCounterDone, BitCounterTimer
  <2>3. ~Preparing' /\ ~Continuing' /\ ~Disabling'
    BY <2>1 DEF Preparing, Continuing, Disabling
  <2>4. DueFits'
    BY <2>2, <2>3 DEF TifsInv, DueFits, TifsSwitchIsOnTime, IsCounting, SwitchTime
  <2> QED BY <2>1, <2>2, <2>3, <2>4 DEF TifsInv, TifsParts, TifsStates, IsCounting
<1>8. CASE RadioTimer
  BY <1>8, RadioTimerTifsStep
<1>9. CASE AbortReevalTimer
  <2>1. todo = <<>> /\ todo' = <<>> /\ UNCHANGED <<radio_state, tifsVars, config>>
    BY <1>9 DEF AbortReevalTimer, Quiet
  <2>2. Timer_RADIO' = Timer_RADIO \/ radio_state \in {"CCA", "ED", "RX"}
    BY <1>9 DEF AbortReevalTimer, HandleRxSearch
  <2>3. ~Preparing' /\ ~Continuing' /\ ~Disabling' /\ EndsAreLast(todo')
    BY <2>1, NoCall DEF Preparing, Continuing, Disabling, Left
  <2>4. DueFits'
    BY <2>1, <2>2, <2>3 DEF TifsInv, DueFits, TifsSwitchIsOnTime, IsCounting, SwitchTime, RampingDown
  <2> QED BY <2>1, <2>3, <2>4 DEF TifsInv, TifsParts, TifsStates, IsCounting
<1>10. CASE Tick
  BY <1>10, TickTifsStep
<1>11. CASE SoftwareConfig
  <2>1. todo = <<>> /\ todo' = <<>> /\ UNCHANGED <<mainVars, TIFS_state, TIFS_ToTxNotRx, Timer_TIFS>>
    BY <1>11 DEF SoftwareConfig, SoftwareStep
  <2>2. tifs_due' = IF config'.fast THEN Never ELSE tifs_due
    BY <1>11 DEF SoftwareConfig
  <2>3. ~Preparing' /\ ~Continuing' /\ ~Disabling' /\ EndsAreLast(todo')
    BY <2>1, NoCall DEF Preparing, Continuing, Disabling, Left
  <2>4. DueFits'
    BY <2>1, <2>2, <2>3 DEF TifsInv, DueFits, TifsSwitchIsOnTime, IsCounting, SwitchTime
  <2> QED BY <2>1, <2>2, <2>3, <2>4 DEF TifsInv, TifsParts, TifsStates, IsCounting
<1>12. CASE SoftwarePowerOn
  <2>1. /\ todo = <<>> /\ todo' = <<>> /\ radio_state' = "DISABLED" /\ TIFS_state' = "DISABLE"
        /\ tifs_due' = Never
    BY <1>12 DEF SoftwarePowerOn, SoftwareStep
  <2> QED BY <2>1, NoCall DEF TifsInv, DueFits, TifsSwitchIsOnTime, IsCounting, TifsStates,
                  TifsParts, RampingUp, RampingDown, Left, Preparing, Continuing, Disabling
<1>13. CASE OtherTimer \/ SoftwareBcc \/ UNCHANGED vars
  <2>1. UNCHANGED <<todo, mainVars, tifsVars, config>>
    BY <1>13 DEF OtherTimer, SoftwareBcc, vars
  <2>2. /\ Left' = Left /\ (Preparing' <=> Preparing) /\ (Continuing' <=> Continuing)
        /\ (Disabling' <=> Disabling) /\ (IsHwTifsEnabled' <=> IsHwTifsEnabled)
    BY <2>1 DEF Left, Preparing, Continuing, Disabling, IsHwTifsEnabled, Has
  <2> QED BY <2>1, <2>2 DEF TifsInv, DueFits, TifsSwitchIsOnTime, IsCounting, SwitchTime,
                            TifsStates, TifsParts
<1> QED BY <1>1, <1>2, <1>3, <1>4, <1>5, <1>6, <1>7, <1>8, <1>9, <1>10, <1>11, <1>12, <1>13
        DEF Next, Continue, Software

LEMMA TifsInit == Init => TifsInv
BY NoCall DEF Init, TifsInv, DueFits, TifsSwitchIsOnTime, IsCounting, TifsStates, TifsParts,
              ResetConfig, RampingUp, RampingDown, Left, Preparing, Continuing, Disabling

(* Whenever the automatic switch enables the radio, it is ready at the time *)
(* that the end of the last packet and the register TIFS set, whatever the  *)
(* PPI and the software do in between, if the time that the TIFS timer is   *)
(* given leaves the radio the time to ramp down.                            *)
THEOREM TifsSwitchOnTime == RampDownFits => (Spec => []TifsSwitchIsOnTime)
<1> SUFFICES ASSUME RampDownFits PROVE Spec => []TifsSwitchIsOnTime
  OBVIOUS
<1>1. TypeInv /\ TifsInv /\ [Next]_vars => TifsInv'
  BY TifsStep
<1>2. TifsInv => TifsSwitchIsOnTime
  BY DEF TifsInv, DueFits
<1> QED BY <1>1, <1>2, TifsInit, TypesHold, PTL DEF Spec

-----------------------------------------------------------------------------
(* The Phy.                                                                 *)

(* What the software and the PPI must not do (2.5 of the README): nothing   *)
(* is asked of the Phy while it still has to be told to abort.              *)
ActiveState == {"TX", "RX", "CCA", "ED"}
StartsInTurn == radio_state' # radio_state /\ radio_state' \in ActiveState => ~aborting_set

(* A transmission has left the chain before a reception can start.          *)
TailFits == TxChain <= RampUp["RX"] /\ TxChain <= TifsRampUp["RX"]

(* What the radio asked, and must tell of an abort.                         *)
Procedure == {"Tx", "Rx", "CCA"}

(* The time from the end of this part of a packet to the end of the packet. *)
PacketRest ==
  IF radio_sub_state = "TX_WAIT_FOR_ADDRESS_END" THEN PayloadTime + CrcTime
  ELSE IF radio_sub_state \in {"TX_WAIT_FOR_PAYLOAD_END", "RX_WAIT_FOR_PAYLOAD_END"} THEN CrcTime
  ELSE 0

(* The radio knows what the Phy waits for, and answers before its end.      *)
AnswersFit ==
  /\ phy # "error"
  /\ phy \notin Procedure =>
        abort_fsm_state = "none" /\ Timer_RADIO_abort_reeval = Never /\ ~aborting_set
  /\ phy \in Procedure => abort_fsm_state = phy /\ Timer_RADIO_abort_reeval < phy_end
  /\ phy \in {"Tx", "CCA", "address"} => phy_end < Never
  /\ aborting_set => radio_state \notin ActiveState

(* A transmission ends on the air a chain delay after the radio's end.      *)
OnAir == radio_state = "TX" /\ phy_end <= Timer_RADIO + PacketRest + TxChain
InChain ==
  /\ radio_state \notin ActiveState \union {"RXIDLE"} /\ phy_end <= TxChain
  /\ radio_state \in {"TXSTARTING", "RXRU"} => phy_end <= Timer_RADIO
TxFits == phy = "Tx" /\ ~aborting_set => OnAir \/ InChain

(* A reception looks for an address, or it ends with the packet.            *)
Searches == phy_end = Never /\ radio_sub_state = "INVALID"
Receives ==
  /\ phy_end < Never
  /\ radio_sub_state \in {"RX_WAIT_FOR_PAYLOAD_END", "RX_WAIT_FOR_CRC_END"}
  /\ phy_end <= Timer_RADIO + PacketRest
RxFits == phy = "Rx" /\ ~aborting_set => radio_state = "RX" /\ (Searches \/ Receives)

CcaFits == phy = "CCA" /\ ~aborting_set =>
             radio_state \in {"CCA", "ED"} /\ phy_end <= Timer_RADIO

(* The Phy waits for the answer to an address while the radio hears it.     *)
AddressFits ==
  /\ phy = "address" <=> radio_sub_state = "RX_WAIT_FOR_ADDRESS_END"
  /\ phy = "address" =>
        /\ radio_state = "RX"
        /\ phy_end <= PayloadTime + CrcTime + (IF Continuing THEN 0 ELSE Timer_RADIO)

PhyInv == AnswersFit /\ TxFits /\ RxFits /\ CcaFits /\ AddressFits

(* Times are numbers, and Never is the last of them.                        *)
LEMMA TimesAre ==
  ASSUME TypeInv
  PROVE  /\ Timer_RADIO \in Nat /\ Timer_RADIO_abort_reeval \in Nat /\ phy_end \in Nat
         /\ Timer_RADIO <= Never /\ Timer_RADIO_abort_reeval <= Never /\ phy_end <= Never
         /\ Never \in Nat /\ PacketRest \in Nat
BY Constants DEF TypeInv, MachineTypes, Times, PacketRest

(* What leaves the machine and the Phy as they are.                         *)
LEMMA PhyLeftAlone ==
  ASSUME TypeInv, PhyInv, UNCHANGED <<mainVars, abortVars, phyVars>>, Continuing' => Continuing
  PROVE  PhyInv'
<1> USE DEF mainVars, abortVars, phyVars
<1>1. PacketRest' = PacketRest
  BY DEF PacketRest
<1>2. AnswersFit' /\ TxFits' /\ RxFits' /\ CcaFits'
  BY <1>1 DEF PhyInv, AnswersFit, TxFits, OnAir, InChain, RxFits, Searches, Receives, CcaFits
<1>3. AddressFits'
  BY TimesAre, Constants DEF PhyInv, AddressFits
<1> QED BY <1>2, <1>3 DEF PhyInv

(* The Phy is free when the radio is ready to start something.              *)
LEMMA PhyIsFree ==
  ASSUME TypeInv, PhyInv, ~aborting_set,
         radio_state = "RXIDLE" \/ (radio_state = "TXSTARTING" /\ Timer_RADIO = 0)
  PROVE  phy = "idle"
<1>1. phy # "Tx"
  BY TimesAre DEF PhyInv, AnswersFit, TxFits, OnAir, InChain, Procedure
<1>2. phy \notin {"Rx", "CCA", "address", "error"}
  BY DEF PhyInv, AnswersFit, RxFits, CcaFits, AddressFits
<1> QED BY <1>1, <1>2 DEF TypeInv, MachineTypes

LEMMA PhyResponse ==
  ASSUME MachineTypes, ~aborting_set, NEW kind \in Procedure, NEW recheck \in Times, NEW end,
         PhyResponds(kind, recheck, end)
  PROVE  /\ aborting_set' = FALSE
         /\ \/ /\ phy' = "idle" /\ abort_fsm_state' = "none"
               /\ Timer_RADIO_abort_reeval' = Never /\ phy_end' = Never
            \/ /\ phy' = kind /\ abort_fsm_state' = kind /\ phy_end' = end
               /\ Timer_RADIO_abort_reeval' = recheck /\ ~(end <= recheck)
BY DEF PhyResponds, PhyIsDone, PhyAsksAgain

(* A search asks again or finds an address.                                 *)
LEMMA PhySearch ==
  ASSUME MachineTypes, ~aborting_set, NEW recheck \in Times, NEW mainTimer,
         HandleRxSearch(recheck, mainTimer, "INVALID")
  PROVE  /\ aborting_set' = FALSE
         /\ \/ /\ phy' = "Rx" /\ abort_fsm_state' = "Rx" /\ phy_end' = Never
               /\ Timer_RADIO_abort_reeval' < Never
               /\ Timer_RADIO' = mainTimer /\ radio_sub_state' = "INVALID"
            \/ /\ phy' = "address" /\ abort_fsm_state' = "none"
               /\ Timer_RADIO_abort_reeval' = Never
               /\ radio_state' = "RX" /\ radio_sub_state' = "RX_WAIT_FOR_ADDRESS_END"
               /\ phy_end' < Never /\ phy_end' <= PayloadTime + CrcTime + Timer_RADIO'
<1>1. MinOf({recheck, AddressMax}) \in Nat /\ MinOf({recheck, AddressMax}) <= AddressMax
  BY MinOfTwo, Constants DEF Times
<1>2. ASSUME NEW t \in 1 .. MinOf({recheck, AddressMax})
      PROVE  /\ t + PayloadTime + CrcTime < Never
             /\ t + PayloadTime + CrcTime <= PayloadTime + CrcTime + (t + RxChain)
  BY <1>1, Constants
<1>3. recheck # Never => recheck < Never
  BY Constants DEF Times
<1> QED BY <1>2, <1>3 DEF HandleRxSearch, PhyIsDone, PhyAsksAgain

(* The end of abort_if_needed(): the radio is in no active state any more.  *)
LEMMA PhyOfStopped ==
  ASSUME TypeInv, PhyInv, radio_state \in ActiveState, radio_state' \notin ActiveState,
         AbortIfNeeded
  PROVE  PhyInv'
<1>1. ~aborting_set
  BY DEF PhyInv, AnswersFit
<1>2. /\ UNCHANGED <<abort_fsm_state, Timer_RADIO_abort_reeval>>
      /\ aborting_set' = (abort_fsm_state # "none")
  BY <1>1 DEF AbortIfNeeded
<1>3. CASE phy = "address"
  <2>1. /\ phy' = "idle" /\ radio_sub_state' = "INVALID" /\ abort_fsm_state = "none"
        /\ Timer_RADIO_abort_reeval = Never
    BY <1>3 DEF AbortIfNeeded, PhyInv, AnswersFit, AddressFits, Procedure
  <2> QED BY <1>2, <2>1 DEF PhyInv, AnswersFit, TxFits, RxFits, CcaFits, AddressFits, Procedure
<1>4. CASE phy # "address"
  <2>1. UNCHANGED <<phy, phy_end, radio_sub_state>> /\ radio_sub_state # "RX_WAIT_FOR_ADDRESS_END"
    BY <1>4 DEF AbortIfNeeded, PhyInv, AddressFits, phyVars
  <2>2. AnswersFit'
    BY <1>2, <1>4, <2>1 DEF PhyInv, AnswersFit, Procedure
  <2>3. phy \in Procedure => aborting_set'
    BY <1>2 DEF PhyInv, AnswersFit, Procedure
  <2> QED BY <1>4, <2>1, <2>2, <2>3 DEF PhyInv, TxFits, RxFits, CcaFits, AddressFits, Procedure
<1> QED BY <1>3, <1>4

(* A radio in no active state goes to another.                              *)
LEMMA PhyOfInactive ==
  ASSUME TypeInv, PhyInv, radio_state \notin ActiveState, radio_state' \notin ActiveState,
         UNCHANGED <<radio_sub_state, abortVars, phyVars>>,
         phy = "Tx" /\ InChain => InChain'
  PROVE  PhyInv'
<1> USE DEF abortVars, phyVars
<1>1. AnswersFit' /\ CcaFits' /\ AddressFits' /\ RxFits'
  BY DEF PhyInv, AnswersFit, RxFits, CcaFits, AddressFits, ActiveState
<1>2. TxFits'
  BY DEF PhyInv, TxFits, OnAir, ActiveState
<1> QED BY <1>1, <1>2 DEF PhyInv

(* Something starts.                                                        *)
LEMMA PhyOfStartRx ==
  ASSUME TypeInv, TimerInv, PhyInv, StartsInTurn, radio_state = "RXIDLE", NEW rest, StartRx(rest),
         ~Continuing'
  PROVE  PhyInv'
<1>1. ~aborting_set
  BY DEF StartRx, StartsInTurn, ActiveState
<1>2. phy = "idle"
  BY <1>1, PhyIsFree
<1>3. radio_state' = "RX" /\ HandleRxSearch(NextTimer(Timer_RADIO), Never, "INVALID")
  BY <1>2 DEF StartRx
<1>4. NextTimer(Timer_RADIO) \in Times /\ MachineTypes
  BY NextTimers DEF TypeInv, MachineTypes
<1>5. /\ aborting_set' = FALSE
      /\ \/ /\ phy' = "Rx" /\ abort_fsm_state' = "Rx" /\ phy_end' = Never
            /\ Timer_RADIO_abort_reeval' < Never
            /\ Timer_RADIO' = Never /\ radio_sub_state' = "INVALID"
         \/ /\ phy' = "address" /\ abort_fsm_state' = "none"
            /\ Timer_RADIO_abort_reeval' = Never
            /\ radio_state' = "RX" /\ radio_sub_state' = "RX_WAIT_FOR_ADDRESS_END"
            /\ phy_end' < Never /\ phy_end' <= PayloadTime + CrcTime + Timer_RADIO'
  BY <1>1, <1>3, <1>4, PhySearch
<1> QED BY <1>3, <1>5 DEF PhyInv, AnswersFit, TxFits, RxFits, Searches, CcaFits, AddressFits, Procedure

LEMMA PhyOfStartCca ==
  ASSUME TypeInv, PhyInv, StartsInTurn, radio_state = "RXIDLE", NEW rest,
         NEW state \in {"CCA", "ED"}, StartCcaEd(state, rest)
  PROVE  PhyInv'
<1>1. ~aborting_set
  BY DEF StartCcaEd, StartsInTurn, ActiveState
<1>2. phy = "idle"
  BY <1>1, PhyIsFree
<1>3. PICK end \in 1 .. CcaTime :
            /\ PhyResponds("CCA", NextTimer(Timer_RADIO), end)
            /\ Timer_RADIO' = IF phy' = "idle" THEN end ELSE CcaTime
  BY <1>2 DEF StartCcaEd
<1>4. NextTimer(Timer_RADIO) \in Times /\ MachineTypes
  BY NextTimers DEF TypeInv, MachineTypes
<1>5. /\ aborting_set' = FALSE
      /\ \/ /\ phy' = "idle" /\ abort_fsm_state' = "none"
            /\ Timer_RADIO_abort_reeval' = Never /\ phy_end' = Never
         \/ /\ phy' = "CCA" /\ abort_fsm_state' = "CCA" /\ phy_end' = end
            /\ Timer_RADIO_abort_reeval' = NextTimer(Timer_RADIO)
            /\ ~(end <= NextTimer(Timer_RADIO))
  BY <1>1, <1>3, <1>4, PhyResponse DEF Procedure
<1>6. /\ radio_state' = state /\ radio_sub_state' = radio_sub_state
      /\ radio_sub_state # "RX_WAIT_FOR_ADDRESS_END"
  BY <1>2 DEF StartCcaEd, PhyInv, AddressFits
<1>7. /\ NextTimer(Timer_RADIO) \in Nat /\ end \in Nat /\ end <= CcaTime /\ CcaTime < Never
      /\ CcaTime \in Nat /\ Never \in Nat
  BY <1>4, Constants DEF Times
<1>8. AnswersFit'
  BY <1>5, <1>6, <1>7 DEF AnswersFit, Procedure
<1>9. CcaFits'
  BY <1>3, <1>5, <1>6, <1>7 DEF CcaFits
<1> QED BY <1>5, <1>6, <1>8, <1>9 DEF PhyInv, TxFits, RxFits, AddressFits

LEMMA PhyOfStartTx ==
  ASSUME TypeInv, PhyInv, StartsInTurn, radio_state = "TXSTARTING", Timer_RADIO = 0, NEW rest,
         StartTx(rest)
  PROVE  PhyInv'
<1>1. ~aborting_set
  BY DEF StartTx, StartsInTurn, ActiveState
<1>2. phy = "idle"
  BY <1>1, PhyIsFree
<1> DEFINE end == AddressTime + PayloadTime + CrcTime
<1>3. /\ PhyResponds("Tx", NextTimer(Never), end)
      /\ radio_state' = "TX" /\ radio_sub_state' = "TX_WAIT_FOR_ADDRESS_END"
      /\ Timer_RADIO' = AddressTime - TxChain
  BY <1>2 DEF StartTx
<1>4. NextTimer(Never) \in Times /\ MachineTypes
  BY NextTimers, Constants DEF TypeInv, MachineTypes, Times
<1>5. /\ aborting_set' = FALSE
      /\ \/ /\ phy' = "idle" /\ abort_fsm_state' = "none"
            /\ Timer_RADIO_abort_reeval' = Never /\ phy_end' = Never
         \/ /\ phy' = "Tx" /\ abort_fsm_state' = "Tx" /\ phy_end' = end
            /\ Timer_RADIO_abort_reeval' = NextTimer(Never) /\ ~(end <= NextTimer(Never))
  BY <1>1, <1>3, <1>4, PhyResponse DEF Procedure
<1>6. NextTimer(Never) \in Nat
  BY <1>4, Constants DEF Times
<1>7. AnswersFit'
  BY <1>5, <1>6, Constants DEF AnswersFit, Procedure
<1>8. TxFits'
  BY <1>3, <1>5, Constants DEF TxFits, OnAir, PacketRest
<1> QED BY <1>3, <1>5, <1>7, <1>8 DEF PhyInv, RxFits, CcaFits, AddressFits

LEMMA RampUpsCoverTail ==
  ASSUME TailFits
  PROVE  TxChain <= RampupTime("RX", FALSE) /\ TxChain <= RampupTime("RX", TRUE)
BY Zenon DEF TailFits, RampupTime

LEMMA PhyOfEnable ==
  ASSUME TypeInv, PhyInv, TailFits, NEW rest,
         \/ TASKS_TXEN(FALSE, rest) \/ TASKS_TXEN(TRUE, rest)
         \/ TASKS_RXEN(FALSE, rest) \/ TASKS_RXEN(TRUE, rest),
         Continuing' => Continuing
  PROVE  PhyInv'
<1>1. CASE IsReady
  <2>1. \/ radio_state' = "TXRU"
        \/ /\ radio_state' = "RXRU"
           /\ Timer_RADIO' = RampupTime("RX", FALSE) \/ Timer_RADIO' = RampupTime("RX", TRUE)
    BY <1>1 DEF TASKS_TXEN, TASKS_RXEN
  <2>2. radio_state' = "RXRU" => TxChain <= Timer_RADIO'
    BY <2>1, RampUpsCoverTail
  <2>3. UNCHANGED <<radio_sub_state, abortVars, phyVars>>
    BY <1>1 DEF TASKS_TXEN, TASKS_RXEN
  <2>4. Timer_RADIO' \in Nat
    <3>1. \A direction \in {"TX", "RX"} :
             RampupTime(direction, FALSE) \in Times /\ RampupTime(direction, TRUE) \in Times
      BY RampupTimes
    <3>2. \/ Timer_RADIO' = RampupTime("TX", FALSE) \/ Timer_RADIO' = RampupTime("TX", TRUE)
          \/ Timer_RADIO' = RampupTime("RX", FALSE) \/ Timer_RADIO' = RampupTime("RX", TRUE)
      BY <1>1 DEF TASKS_TXEN, TASKS_RXEN
    <3>3. Timer_RADIO' \in Times
      BY <3>1, <3>2, Zenon
    <3> QED BY <3>3, Constants DEF Times
  <2>5. phy = "Tx" /\ InChain => InChain'
    <3>1. phy_end' = phy_end
      BY <2>3 DEF phyVars
    <3>2. radio_state' \in {"TXRU", "RXRU"}
      BY <2>1
    <3> QED BY <2>2, <2>4, <3>1, <3>2, TimesAre, Constants DEF InChain, ActiveState
  <2> QED BY <1>1, <2>1, <2>3, <2>5, PhyOfInactive DEF IsReady, ActiveState
<1>2. CASE ~IsReady
  <2>1. UNCHANGED <<mainVars, abortVars, phyVars>>
    BY <1>2 DEF TASKS_TXEN, TASKS_RXEN, Ignored
  <2> QED BY <2>1, PhyLeftAlone
<1> QED BY <1>1, <1>2

LEMMA PhyOfStop ==
  ASSUME TypeInv, PhyInv, NEW rest, TASKS_STOP(rest), Continuing' => Continuing
  PROVE  PhyInv'
<1>1. CASE IsActive
  <2>1. AbortIfNeeded /\ radio_state' \in {"TXIDLE", "RXIDLE"}
    BY <1>1 DEF TASKS_STOP, Idle
  <2> QED BY <1>1, <2>1, PhyOfStopped DEF IsActive, ActiveState
<1>2. CASE radio_state = "TXSTARTING"
  <2>1. /\ radio_state' = "TXIDLE" /\ UNCHANGED <<radio_sub_state, abortVars, phyVars>>
    BY <1>2 DEF TASKS_STOP, Idle, IsActive
  <2> QED BY <1>2, <2>1, PhyOfInactive DEF InChain, ActiveState, phyVars
<1>3. CASE ~IsActive /\ radio_state # "TXSTARTING"
  <2>1. UNCHANGED <<mainVars, abortVars, phyVars>>
    BY <1>3 DEF TASKS_STOP, mainVars
  <2> QED BY <2>1, PhyLeftAlone
<1> QED BY <1>1, <1>2, <1>3

LEMMA PhyOfDisable ==
  ASSUME TypeInv, PhyInv, NEW rest, TASKS_DISABLE(rest)
  PROVE  PhyInv'
<1>1. radio_state' = IF radio_state \in {"TXRU", "TXIDLE", "TXSTARTING", "TX"} THEN "TXDISABLE"
                     ELSE IF radio_state \in {"RXRU", "RXIDLE", "RX", "CCA", "ED"} THEN "RXDISABLE"
                     ELSE radio_state
  BY DEF TASKS_DISABLE
<1>2. radio_state' \in {"TXDISABLE", "RXDISABLE", "DISABLED"}
  BY <1>1 DEF TypeInv, MachineTypes, States
<1>3. CASE IsActive
  <2>1. AbortIfNeeded
    BY <1>3 DEF TASKS_DISABLE
  <2> QED BY <1>2, <1>3, <2>1, PhyOfStopped DEF IsActive, ActiveState
<1>4. CASE ~IsActive
  <2>1. UNCHANGED <<radio_sub_state, abortVars, phyVars>>
    BY <1>4 DEF TASKS_DISABLE
  <2>2. InChain => InChain'
    BY <1>2, <2>1 DEF InChain, ActiveState, phyVars
  <2> QED BY <1>2, <1>4, <2>1, <2>2, PhyOfInactive DEF IsActive, ActiveState
<1> QED BY <1>3, <1>4

LEMMA PhyOfCcaStop ==
  ASSUME TypeInv, PhyInv, NEW rest, NEW state \in {"CCA", "ED"}, NEW event,
         StopCcaEd(state, event, rest), Continuing' => Continuing
  PROVE  PhyInv'
<1>1. CASE radio_state = state
  BY <1>1, PhyOfStopped DEF StopCcaEd, ActiveState
<1>2. CASE radio_state # state
  BY <1>2, PhyLeftAlone DEF StopCcaEd, Ignored
<1> QED BY <1>1, <1>2

LEMMA TaskPhy ==
  ASSUME TypeInv, TimerInv, PhyInv, TailFits, StartsInTurn, NEW task \in RadioTask,
         NEW rest \in Seq(Routed), RunTask(task, rest), EndsAreLast(rest), Whats(rest) \subseteq Left
  PROVE  PhyInv'
<1>0. Continuing' => Continuing
  BY TaskLeft DEF Continuing, Announced
<1>1. ASSUME Ignored(rest) PROVE PhyInv'
  BY <1>0, <1>1, PhyLeftAlone DEF Ignored
<1>2. CASE task \in {"TXEN", "RXEN"}
  BY <1>0, <1>2, PhyOfEnable DEF RunTask
<1>3. CASE task = "START"
  <2>1. CASE radio_state = "TXIDLE"
    <3>1. /\ radio_state' = "TXSTARTING" /\ Timer_RADIO' = TxChain
          /\ UNCHANGED <<radio_sub_state, abortVars, phyVars>>
      BY <1>3, <2>1 DEF RunTask, TASKS_START
    <3> QED BY <2>1, <3>1, PhyOfInactive DEF InChain, ActiveState, phyVars
  <2>2. CASE radio_state = "RXIDLE"
    <3>1. StartRx(rest)
      BY <1>3, <2>2 DEF RunTask, TASKS_START
    <3>2. ~Continuing
      BY <2>2 DEF TimerInv, PartsFit
    <3> QED BY <1>0, <2>2, <3>1, <3>2, PhyOfStartRx
  <2>3. CASE radio_state \notin {"TXIDLE", "RXIDLE"}
    BY <1>1, <1>3, <2>3 DEF RunTask, TASKS_START
  <2> QED BY <2>1, <2>2, <2>3
<1>4. CASE task \in {"CCASTART", "EDSTART"}
  BY <1>1, <1>4, PhyOfStartCca DEF RunTask, TASKS_CCASTART, TASKS_EDSTART
<1>5. CASE task = "STOP"
  BY <1>0, <1>5, PhyOfStop DEF RunTask
<1>6. CASE task = "DISABLE"
  BY <1>6, PhyOfDisable DEF RunTask
<1>7. CASE task \in {"CCASTOP", "EDSTOP"}
  BY <1>0, <1>7, PhyOfCcaStop DEF RunTask
<1>8. CASE task \in {"RSSISTART", "RSSISTOP", "BCSTART", "BCSTOP"}
  <2>1. UNCHANGED <<mainVars, abortVars, phyVars>>
    BY <1>8 DEF RunTask, TASKS_RSSI, TASKS_BCSTART, TASKS_BCSTOP
  <2> QED BY <1>0, <2>1, PhyLeftAlone
<1> QED BY <1>2, <1>3, <1>4, <1>5, <1>6, <1>7, <1>8 DEF RadioTask

LEMMA TasksPhyStep ==
  ASSUME TypeInv, TimerInv, PhyInv, TailFits, StartsInTurn,
         PpiCallsTask \/ ShortcutCallsTask \/ SoftwareTask
  PROVE  PhyInv'
<1>1. PICK task \in RadioTask, rest \in Seq(Routed) :
            /\ RunTask(task, rest)
            /\ \/ todo # <<>> /\ task \in Head(todo).tasks /\ rest = PpiRest(task)
               \/ todo # <<>> /\ task = Head(todo).what /\ rest = Tail(todo)
               \/ SoftwareStep /\ rest = <<>>
  BY TasksRun
<1>2. EndsAreLast(todo)
  BY DEF TimerInv
<1>3. EndsAreLast(rest) /\ Whats(rest) \subseteq Left
  <2>1. CASE todo # <<>> /\ task \in Head(todo).tasks /\ rest = PpiRest(task)
    BY <1>2, <2>1, PpiRests DEF Left
  <2>2. CASE todo # <<>> /\ task = Head(todo).what /\ rest = Tail(todo)
    BY <1>2, <2>2, NowLeft
  <2>3. CASE SoftwareStep /\ rest = <<>>
    BY <2>3, NoCall DEF SoftwareStep, Left
  <2> QED BY <1>1, <2>1, <2>2, <2>3
<1> QED BY <1>1, <1>3, TaskPhy

LEMMA RadioTimerPhyStep ==
  ASSUME TypeInv, TimerInv, PhyInv, TailFits, StartsInTurn, RadioTimer
  PROVE  PhyInv'
<1> USE DEF mainVars
<1>0. Timer_RADIO = 0 /\ todo = <<>> /\ ~Continuing
  BY NoCall DEF RadioTimer, Quiet, Continuing, Left
<1>1. ASSUME NEW state, NEW sub, NEW timer, NEW names, MainStep(state, sub, timer, names)
      PROVE  /\ radio_state' = state /\ radio_sub_state' = sub /\ Timer_RADIO' = timer
             /\ UNCHANGED <<abort_fsm_state, aborting_set, Timer_RADIO_abort_reeval, phy, phy_end>>
             /\ UNCHANGED <<abortVars, phyVars>>
  BY <1>1 DEF MainStep, abortVars, phyVars
<1>2. CASE radio_state = "TXRU" /\ MainStep("TXIDLE", radio_sub_state, Never, <<"READY", "TXREADY">>)
  BY <1>2, <1>1, PhyOfInactive DEF InChain, ActiveState
<1>3. CASE radio_state = "RXRU" /\ MainStep("RXIDLE", radio_sub_state, Never, <<"READY", "RXREADY">>)
  <2>1. ~(phy = "Tx" /\ InChain)
    BY <1>0, <1>3, TimesAre DEF PhyInv, AnswersFit, InChain, Procedure
  <2> QED BY <1>3, <2>1, <1>1, PhyOfInactive DEF ActiveState
<1>4. CASE radio_state = "TXSTARTING" /\ StartTx(<<>>)
  BY <1>0, <1>4, PhyOfStartTx
<1>5. CASE /\ radio_state = "TX" /\ radio_sub_state = "TX_WAIT_FOR_ADDRESS_END"
           /\ MainStep("TX", "TX_WAIT_FOR_PAYLOAD_END", PayloadTime, <<"ADDRESS", "FRAMESTART">>)
  <2>1. PacketRest = PayloadTime + CrcTime /\ PacketRest' = CrcTime
    BY <1>1, <1>5 DEF PacketRest
  <2>2. phy = "Tx" => OnAir'
    BY <1>0, <1>1, <1>5, <2>1, TimesAre, Constants DEF PhyInv, AnswersFit, TxFits, OnAir, InChain, ActiveState
  <2> QED BY <1>1, <1>5, <2>2 DEF PhyInv, AnswersFit, TxFits, RxFits, CcaFits, AddressFits
<1>6. CASE /\ radio_state = "TX" /\ radio_sub_state = "TX_WAIT_FOR_PAYLOAD_END"
           /\ MainStep("TX", "TX_WAIT_FOR_CRC_END", CrcTime, <<"PAYLOAD">>)
  <2>1. PacketRest = CrcTime /\ PacketRest' = 0
    BY <1>1, <1>6 DEF PacketRest
  <2>2. phy = "Tx" => OnAir'
    BY <1>0, <1>1, <1>6, <2>1, TimesAre, Constants DEF PhyInv, AnswersFit, TxFits, OnAir, InChain, ActiveState
  <2> QED BY <1>1, <1>6, <2>2 DEF PhyInv, AnswersFit, TxFits, RxFits, CcaFits, AddressFits
<1>7. CASE /\ radio_state = "TX" /\ radio_sub_state = "TX_WAIT_FOR_CRC_END"
           /\ MainStep("TXIDLE", "INVALID", Never, <<"BCSTOP", "END", "PHYEND", "prepare_TIFS_Tx">>)
  <2>1. PacketRest = 0
    BY <1>7 DEF PacketRest
  <2>2. phy = "Tx" => InChain'
    BY <1>0, <1>1, <1>7, <2>1, TimesAre, Constants DEF PhyInv, AnswersFit, TxFits, OnAir, InChain, ActiveState
  <2> QED BY <1>1, <1>7, <2>2 DEF PhyInv, AnswersFit, TxFits, RxFits, CcaFits, AddressFits, ActiveState
<1>8. CASE /\ radio_state = "RX" /\ radio_sub_state = "RX_WAIT_FOR_ADDRESS_END"
           /\ MainStep("RX", radio_sub_state, Never,
                       <<"SYNC", "ADDRESS", "FRAMESTART", "Rx_Addr_received">>)
  <2>1. phy = "address" /\ phy_end <= PayloadTime + CrcTime /\ ~aborting_set
    BY <1>0, <1>8, TimesAre, Constants DEF PhyInv, AnswersFit, AddressFits, Procedure
  <2>2. AnswersFit'
    BY <1>1, <1>8, <2>1 DEF PhyInv, AnswersFit
  <2>3. AddressFits'
    BY <1>1, <1>8, <2>1, TimesAre, Constants DEF AddressFits
  <2> QED BY <1>1, <1>8, <2>1, <2>2, <2>3 DEF PhyInv, TxFits, RxFits, CcaFits
<1>9. CASE /\ radio_state = "RX" /\ radio_sub_state = "RX_WAIT_FOR_PAYLOAD_END"
           /\ MainStep("RX", "RX_WAIT_FOR_CRC_END", CrcTime, <<"PAYLOAD">>)
  <2>1. PacketRest = CrcTime /\ PacketRest' = 0
    BY <1>1, <1>9 DEF PacketRest
  <2>2. RxFits'
    BY <1>0, <1>1, <1>9, <2>1, TimesAre, Constants DEF PhyInv, RxFits, Searches, Receives
  <2> QED BY <1>1, <1>9, <2>2 DEF PhyInv, AnswersFit, TxFits, OnAir, InChain, CcaFits, AddressFits
<1>10. CASE /\ radio_state = "RX" /\ radio_sub_state = "RX_WAIT_FOR_CRC_END"
            /\ MainStep("RXIDLE", "INVALID", Never, <<IF CRC_OK THEN "CRCOK" ELSE "CRCERROR",
                                                  "BCSTOP", "PHYEND", "END", "prepare_TIFS_Rx">>)
  <2>1. PacketRest = 0
    BY <1>10 DEF PacketRest
  <2>2. phy \notin Procedure
    BY <1>0, <1>10, <2>1, TimesAre DEF PhyInv, AnswersFit, TxFits, OnAir, InChain, RxFits, Searches,
                                       Receives, CcaFits, ActiveState, Procedure
  <2> QED BY <1>1, <1>10, <2>2 DEF PhyInv, AnswersFit, TxFits, RxFits, CcaFits, AddressFits, Procedure
<1>11. CASE /\ radio_state \in {"CCA", "ED"}
            /\ \E event \in {"CCABUSY", "CCAIDLE", "EDEND"} :
                  MainStep("RXIDLE", radio_sub_state, Never, <<event>>)
  <2>1. phy \notin Procedure
    BY <1>0, <1>11, TimesAre DEF PhyInv, AnswersFit, TxFits, OnAir, InChain, RxFits, CcaFits,
                                 ActiveState, Procedure
  <2>2. PICK event \in {"CCABUSY", "CCAIDLE", "EDEND"} :
           MainStep("RXIDLE", radio_sub_state, Never, <<event>>)
    BY <1>11
  <2> QED BY <1>1, <1>11, <2>1, <2>2 DEF PhyInv, AnswersFit, TxFits, RxFits, CcaFits, AddressFits,
                                         Procedure
<1>12. CASE /\ radio_state \in {"TXDISABLE", "RXDISABLE"}
            /\ MainStep("DISABLED", radio_sub_state, Never, <<"BCSTOP", "DISABLED">>)
  BY <1>12, <1>1, PhyOfInactive DEF InChain, ActiveState
<1>13. CASE TASKS_TXEN(TRUE, <<>>) \/ TASKS_RXEN(TRUE, <<>>)
  <2>1. todo' = <<>>
    BY <1>13 DEF TASKS_TXEN, TASKS_RXEN, Ignored
  <2>2. ~Continuing'
    BY <2>1, NoCall DEF Continuing, Left
  <2> QED BY <1>13, <2>2, PhyOfEnable
<1> QED BY <1>2, <1>3, <1>4, <1>5, <1>6, <1>7, <1>8, <1>9, <1>10, <1>11, <1>12, <1>13 DEF RadioTimer

LEMMA AbortReevalPhyStep ==
  ASSUME TypeInv, PhyInv, AbortReevalTimer
  PROVE  PhyInv'
<1> USE DEF mainVars
<1>0. todo = <<>> /\ todo' = <<>> /\ radio_state' = radio_state
  BY DEF AbortReevalTimer, Quiet
<1>1. ~Continuing /\ ~Continuing' /\ phy \in Procedure /\ abort_fsm_state = phy
  BY <1>0, NoCall DEF Continuing, Left, AbortReevalTimer, PhyInv, AnswersFit, Procedure
<1> DEFINE recheck == NextTimer(Timer_RADIO)
<1>2. recheck \in Times /\ MachineTypes
  BY NextTimers DEF TypeInv, MachineTypes
<1> HIDE DEF recheck
<1>3. CASE aborting_set
  <2>1. /\ PhyIsDone /\ aborting_set' = FALSE
        /\ radio_sub_state' = radio_sub_state
    <3>1. CASE phy = "Rx" /\ phy_end = Never
      BY <1>1, <1>3, <3>1 DEF AbortReevalTimer, HandleRxSearch
    <3>2. CASE ~(phy = "Rx" /\ phy_end = Never)
      BY <1>1, <1>3, <3>2 DEF AbortReevalTimer, PhyResponds, HandleRxEnd
    <3> QED BY <3>1, <3>2
  <2> QED BY <1>1, <2>1 DEF PhyIsDone, PhyInv, AnswersFit, TxFits, RxFits, CcaFits, AddressFits,
                            Procedure
<1>4. CASE ~aborting_set /\ phy = "Rx" /\ phy_end = Never
  <2>1. HandleRxSearch(recheck, Timer_RADIO, radio_sub_state)
    BY <1>1, <1>4 DEF AbortReevalTimer, recheck
  <2>2. radio_state = "RX" /\ radio_sub_state = "INVALID"
    BY <1>4, Constants DEF PhyInv, RxFits, Searches, Receives
  <2>3. /\ aborting_set' = FALSE
        /\ \/ /\ phy' = "Rx" /\ abort_fsm_state' = "Rx" /\ phy_end' = Never
              /\ Timer_RADIO_abort_reeval' < Never
              /\ Timer_RADIO' = Timer_RADIO /\ radio_sub_state' = "INVALID"
           \/ /\ phy' = "address" /\ abort_fsm_state' = "none"
              /\ Timer_RADIO_abort_reeval' = Never
              /\ radio_state' = "RX" /\ radio_sub_state' = "RX_WAIT_FOR_ADDRESS_END"
              /\ phy_end' < Never /\ phy_end' <= PayloadTime + CrcTime + Timer_RADIO'
    BY <1>2, <1>4, <2>1, <2>2, PhySearch
  <2> QED BY <1>0, <1>1, <2>2, <2>3 DEF PhyInv, AnswersFit, TxFits, RxFits, Searches, CcaFits,
                                        AddressFits, Procedure
<1>5. CASE ~aborting_set /\ ~(phy = "Rx" /\ phy_end = Never)
  <2>1. /\ PhyResponds(phy, recheck, phy_end)
        /\ radio_sub_state' = radio_sub_state
        /\ phy' # "idle" => Timer_RADIO' = Timer_RADIO
    BY <1>1, <1>5 DEF AbortReevalTimer, HandleRxEnd, recheck
  <2>2. /\ aborting_set' = FALSE
        /\ \/ /\ phy' = "idle" /\ abort_fsm_state' = "none"
              /\ Timer_RADIO_abort_reeval' = Never /\ phy_end' = Never
           \/ /\ phy' = phy /\ abort_fsm_state' = phy /\ phy_end' = phy_end
              /\ Timer_RADIO_abort_reeval' = recheck /\ ~(phy_end <= recheck)
    BY <1>1, <1>2, <1>5, <2>1, PhyResponse
  <2>3. CASE phy' = "idle"
    BY <1>1, <2>1, <2>2, <2>3 DEF PhyInv, AnswersFit, TxFits, RxFits, CcaFits, AddressFits,
                                  Procedure
  <2>4. CASE phy' # "idle"
    <3>1. /\ phy' = phy /\ abort_fsm_state' = phy /\ phy_end' = phy_end /\ Timer_RADIO' = Timer_RADIO
          /\ Timer_RADIO_abort_reeval' = recheck /\ ~(phy_end <= recheck)
      BY <2>1, <2>2, <2>4
    <3>2. recheck \in Nat
      BY <1>2, Constants DEF Times
    <3>3. PacketRest' = PacketRest
      BY <2>1 DEF PacketRest
    <3>4. AnswersFit'
      BY <1>1, <2>2, <3>1, <3>2, TimesAre DEF PhyInv, AnswersFit, Procedure
    <3>5. TxFits' /\ RxFits' /\ CcaFits'
      BY <1>0, <1>5, <2>1, <3>1, <3>3 DEF PhyInv, TxFits, OnAir, InChain, RxFits, Searches, Receives,
                                          CcaFits
    <3> QED BY <1>1, <2>1, <3>1, <3>4, <3>5 DEF PhyInv, AddressFits, Procedure
  <2> QED BY <2>3, <2>4
<1> QED BY <1>3, <1>4, <1>5

LEMMA TickPhyStep ==
  ASSUME TypeInv, PhyInv, Tick
  PROVE  PhyInv'
<1> USE DEF mainVars
<1>0. todo = <<>> /\ todo' = <<>>
  BY DEF Tick, Quiet
<1>1. ~Continuing /\ ~Continuing'
  BY <1>0, NoCall DEF Continuing, Left
<1>2. /\ UNCHANGED <<radio_state, radio_sub_state, abort_fsm_state, aborting_set, phy>>
      /\ Timer_RADIO # 0 /\ Timer_RADIO_abort_reeval # 0
      /\ Timer_RADIO' = IF Timer_RADIO = Never THEN Never ELSE Timer_RADIO - 1
      /\ Timer_RADIO_abort_reeval' = IF Timer_RADIO_abort_reeval = Never THEN Never
                                     ELSE Timer_RADIO_abort_reeval - 1
      /\ phy_end' = IF phy_end = 0 THEN 0 ELSE IF phy_end = Never THEN Never ELSE phy_end - 1
  BY DEF Tick, Lower
<1>3. PacketRest' = PacketRest
  BY <1>2 DEF PacketRest
<1>4. phy_end < Never => phy_end' < Never
  BY <1>2, TimesAre, Constants
<1>5. ASSUME NEW rest \in Nat, phy_end < Never, phy_end <= Timer_RADIO + rest
      PROVE  phy_end' <= Timer_RADIO' + rest
  BY <1>2, <1>5, TimesAre, Constants
<1>6. phy_end <= TxChain /\ phy_end < Never => phy_end' <= TxChain
  BY <1>2, TimesAre, Constants
<1>7. AnswersFit'
  BY <1>2, <1>4, TimesAre DEF PhyInv, AnswersFit, Procedure
<1>8. TxFits'
  <2> SUFFICES ASSUME phy = "Tx", ~aborting_set PROVE OnAir' \/ InChain'
    BY <1>2 DEF TxFits
  <2>1. phy_end < Never
    BY DEF PhyInv, AnswersFit
  <2>2. PacketRest + TxChain \in Nat
    BY TimesAre, Constants
  <2>3. CASE OnAir
    <3>1. phy_end <= Timer_RADIO + (PacketRest + TxChain)
      BY <2>3, TimesAre, Constants DEF OnAir
    <3>2. phy_end' <= Timer_RADIO' + (PacketRest + TxChain)
      BY <2>1, <2>2, <3>1, <1>5
    <3>3. Timer_RADIO' \in Nat
      BY <1>2, TimesAre
    <3> QED BY <1>2, <1>3, <2>3, <3>2, <3>3, TimesAre, Constants DEF OnAir
  <2>4. CASE InChain
    <3>1. phy_end <= Timer_RADIO => phy_end' <= Timer_RADIO'
      BY <1>2, <2>1, TimesAre
    <3> QED BY <1>2, <1>6, <2>1, <2>4, <3>1 DEF InChain
  <2> QED BY <2>3, <2>4 DEF PhyInv, TxFits
<1>9. RxFits'
  BY <1>2, <1>3, <1>4, <1>5, TimesAre DEF PhyInv, RxFits, Searches, Receives
<1>10. CcaFits'
  BY <1>2, TimesAre DEF PhyInv, AnswersFit, CcaFits
<1>11. AddressFits'
  BY <1>1, <1>2, <1>5, TimesAre, Constants DEF PhyInv, AnswersFit, AddressFits
<1> QED BY <1>7, <1>8, <1>9, <1>10, <1>11 DEF PhyInv

LEMMA ContinuePhyStep ==
  ASSUME TypeInv, TimerInv, TifsStates, PhyInv,
         FakeTaskTrxenTifs \/ RxAddrReceived \/ RxContAfterAddr
  PROVE  PhyInv'
<1> USE DEF mainVars
<1>0. EndsAreLast(todo)
  BY DEF TimerInv
<1>1. CASE FakeTaskTrxenTifs
  <2>1. "fake_TRXEN_TIFS" \in Left /\ Left' \subseteq Left
    BY <1>0, <1>1, NowLeft DEF FakeTaskTrxenTifs, Continues, Left
  <2>2. radio_state \in DisabledStates /\ ~Continuing /\ ~Continuing'
    BY <2>1 DEF TimerInv, PartsFit, Disabling, Harmless, Continuing
  <2>3. /\ UNCHANGED <<radio_state, radio_sub_state, abortVars, phyVars>>
        /\ radio_state = "RXRU" => Timer_RADIO' = Timer_RADIO
    BY <1>1 DEF FakeTaskTrxenTifs, TifsStates
  <2>4. InChain => InChain'
    BY <2>2, <2>3 DEF InChain, DisabledStates, phyVars
  <2> QED BY <2>2, <2>3, <2>4, PhyOfInactive DEF DisabledStates, ActiveState
<1>2. CASE RxAddrReceived
  <2>1. Continuing
    BY <1>0, <1>2, NowLeft DEF RxAddrReceived, Continues, Continuing
  <2> QED BY <1>2, <2>1, PhyLeftAlone DEF RxAddrReceived
<1>3. CASE RxContAfterAddr
  <2>1. Left' = {} /\ Continuing
    BY <1>0, <1>3, NowLeft DEF RxContAfterAddr, Continues, Ends, Left, Continuing
  <2>2. /\ radio_state = "RX" /\ radio_sub_state = "RX_WAIT_FOR_ADDRESS_END"
        /\ Timer_RADIO = Never
    BY <2>1 DEF TimerInv, PartsFit
  <2>3. /\ phy = "address" /\ phy_end < Never /\ phy_end <= PayloadTime + CrcTime
        /\ ~aborting_set
    BY <2>1, <2>2, TimesAre, Constants DEF PhyInv, AnswersFit, AddressFits, Procedure
  <2>4. /\ radio_state' = "RX" /\ radio_sub_state' = "RX_WAIT_FOR_PAYLOAD_END"
        /\ Timer_RADIO' = PayloadTime /\ PacketRest' = CrcTime
    BY <1>3, <2>2 DEF RxContAfterAddr, PacketRest
  <2>5. CASE PhyIsDone /\ aborting_set' = FALSE
    BY <2>4, <2>5 DEF PhyIsDone, PhyInv, AnswersFit, TxFits, RxFits, CcaFits, AddressFits, Procedure
  <2>6. CASE HandleRxEnd(NextTimer(Timer_RADIO))
    <3>1. NextTimer(Timer_RADIO) \in Times /\ MachineTypes
      BY NextTimers DEF TypeInv, MachineTypes
    <3>2. NextTimer(Timer_RADIO) \in Nat
      BY <3>1, Constants DEF Times
    <3>3. /\ aborting_set' = FALSE
          /\ \/ /\ phy' = "idle" /\ abort_fsm_state' = "none"
                /\ Timer_RADIO_abort_reeval' = Never /\ phy_end' = Never
             \/ /\ phy' = "Rx" /\ abort_fsm_state' = "Rx" /\ phy_end' = phy_end
                /\ Timer_RADIO_abort_reeval' = NextTimer(Timer_RADIO)
                /\ ~(phy_end <= NextTimer(Timer_RADIO))
      BY <2>3, <2>6, <3>1, PhyResponse DEF HandleRxEnd, Procedure
    <3>4. AnswersFit'
      BY <2>3, <3>2, <3>3, TimesAre DEF AnswersFit, Procedure
    <3>5. RxFits'
      BY <2>3, <2>4, <3>3 DEF RxFits, Receives
    <3> QED BY <2>4, <3>3, <3>4, <3>5 DEF PhyInv, TxFits, CcaFits, AddressFits
  <2> QED BY <1>3, <2>3, <2>5, <2>6 DEF RxContAfterAddr
<1> QED BY <1>1, <1>2, <1>3

LEMMA PowerOnPhyStep ==
  ASSUME TypeInv, PhyInv, SoftwarePowerOn
  PROVE  PhyInv'
<1>1. /\ radio_state' = "DISABLED" /\ radio_sub_state' = "INVALID"
      /\ UNCHANGED <<abort_fsm_state, Timer_RADIO_abort_reeval>>
      /\ aborting_set' = (aborting_set \/ abort_fsm_state # "none")
      /\ IF phy = "address" THEN phy' = "idle" ELSE phy' = phy /\ phy_end' = phy_end
  BY DEF SoftwarePowerOn, PhyInv, AddressFits, phyVars
<1>2. phy \in Procedure <=> aborting_set'
  BY <1>1 DEF PhyInv, AnswersFit, Procedure
<1> QED BY <1>1, <1>2 DEF PhyInv, AnswersFit, TxFits, RxFits, CcaFits, AddressFits, Procedure,
                          ActiveState

LEMMA PhyStep ==
  ASSUME QuietAddresses, RampDownFits, TailFits, TypeInv, TimerInv, TifsInv, PhyInv, [Next]_vars,
         [StartsInTurn]_vars
  PROVE  PhyInv'
<1>1. CASE PpiCallsTask \/ ShortcutCallsTask \/ SoftwareTask
  <2>1. CASE StartsInTurn
    BY <1>1, <2>1, TasksPhyStep
  <2>2. CASE UNCHANGED vars
    BY <2>2, PhyLeftAlone DEF vars, Continuing, Left
  <2> QED BY <2>1, <2>2
<1>2. CASE RadioTimer
  <2>1. CASE StartsInTurn
    BY <1>2, <2>1, RadioTimerPhyStep
  <2>2. CASE UNCHANGED vars
    BY <2>2, PhyLeftAlone DEF vars, Continuing, Left
  <2> QED BY <2>1, <2>2
<1>3. CASE SignalEnds
  <2> DEFINE event == Head(todo).what
  <2>1. /\ event \in RadioEvent /\ Left' = Whats(Shortcuts(event)) \union Whats(Tail(todo))
        /\ Whats(Tail(todo)) \subseteq Left
    BY <1>3, SignalLeft, NowLeft DEF SignalEnds, TimerInv
  <2> HIDE DEF event
  <2>2. \A what \in Whats(Shortcuts(event)) : what \in RadioTask \union {"fake_TRXEN_TIFS"}
    BY <2>1, ShortcutsOf
  <2>3. Continuing' => Continuing
    BY <2>1, <2>2 DEF Continuing, RadioTask
  <2> QED BY <1>3, <2>3, PhyLeftAlone DEF SignalEnds
<1>4. CASE FakeTaskTrxenTifs \/ RxAddrReceived \/ RxContAfterAddr
  BY <1>4, ContinuePhyStep DEF TifsInv
<1>5. CASE MaybePrepareTifs \/ BitCounterDone
  <2>1. Left' \subseteq Left
    BY <1>5, NowLeft DEF MaybePrepareTifs, BitCounterDone, Continues, Left, TimerInv
  <2> QED BY <1>5, <2>1, PhyLeftAlone DEF MaybePrepareTifs, BitCounterDone, Continuing
<1>6. CASE BitCounterTimer
  <2>1. "BCMATCH" \in Names \ Ends /\ "bitcounter_done" \in Names
    BY DEF Names, RadioEvent, Parts, Ends
  <2>2. Left' = {"BCMATCH", "bitcounter_done"}
    BY <1>6, <2>1, PairCalls DEF BitCounterTimer, Left
  <2> QED BY <1>6, <2>2, PhyLeftAlone DEF BitCounterTimer, Continuing
<1>7. CASE AbortReevalTimer
  BY <1>7, AbortReevalPhyStep
<1>8. CASE Tick
  BY <1>8, TickPhyStep
<1>9. CASE SoftwarePowerOn
  BY <1>9, PowerOnPhyStep
<1>10. CASE OtherTimer \/ SoftwareConfig \/ SoftwareBcc \/ UNCHANGED vars
  BY <1>10, PhyLeftAlone DEF OtherTimer, SoftwareConfig, SoftwareBcc, vars, Continuing, Left
<1> QED BY <1>1, <1>2, <1>3, <1>4, <1>5, <1>6, <1>7, <1>8, <1>9, <1>10 DEF Next, Continue, Software

LEMMA PhyInit == Init => PhyInv
BY DEF Init, PhyInv, AnswersFit, TxFits, RxFits, CcaFits, AddressFits, Procedure, ActiveState

(* What the theorems about the Phy suppose of the program and the times.    *)
PhyRules == QuietAddresses /\ RampDownFits /\ TailFits

LEMMA PhyHolds == ASSUME PhyRules PROVE Spec /\ [][StartsInTurn]_vars => []PhyInv
<1>1. QuietAddresses /\ RampDownFits /\ TailFits
  BY DEF PhyRules
<1>2. TypeInv /\ TimerInv /\ TifsInv /\ PhyInv /\ [Next]_vars /\ [StartsInTurn]_vars => PhyInv'
  BY <1>1, PhyStep
<1>3. Spec => []TimerInv
  BY <1>1, TimersHold
<1>4. TypeInv /\ TifsInv /\ [Next]_vars => TifsInv'
  BY <1>1, TifsStep
<1> QED BY <1>2, <1>3, <1>4, PhyInit, TifsInit, TypesHold, PTL DEF Spec

(* Nothing is asked of the Phy while it waits for another answer, and an    *)
(* address is answered once, whatever stops the radio at any moment: in the *)
(* middle of a packet, of a measurement, or of the chain's delay.           *)
THEOREM PhyIsAlwaysAnsweredOnce ==
  PhyRules => (Spec /\ [][StartsInTurn]_vars => []PhyIsAnsweredOnce)
<1> SUFFICES ASSUME PhyRules PROVE Spec /\ [][StartsInTurn]_vars => []PhyIsAnsweredOnce
  OBVIOUS
<1>1. PhyInv => PhyIsAnsweredOnce
  BY DEF PhyInv, AnswersFit, PhyIsAnsweredOnce
<1> QED BY <1>1, PhyHolds, PTL

(* A radio that has stopped while the Phy works for it will tell the Phy so, *)
(* but for a transmission that is over but for the chain's delay.           *)
THEOREM StoppedRadioAlwaysAborts ==
  PhyRules => (Spec /\ [][StartsInTurn]_vars => []StoppedRadioAborts)
<1> SUFFICES ASSUME PhyRules PROVE Spec /\ [][StartsInTurn]_vars => []StoppedRadioAborts
  OBVIOUS
<1>1. PhyInv => StoppedRadioAborts
  BY DEF PhyInv, AnswersFit, TxFits, OnAir, InChain, RxFits, CcaFits, AddressFits,
         StoppedRadioAborts, ActiveStates, Procedure
<1> QED BY <1>1, PhyHolds, PTL
=============================================================================
