-------------------------- MODULE SmallPeripherals --------------------------
(***************************************************************************)
(* The peripherals that a task starts and a timer ends: the thermometer    *)
(* (NRF_TEMP.c), the random number generator (NRF_RNG.c), the cipher       *)
(* (NRF_AES_ECB.c) and the address resolver (NRF_AAR.c); the packet        *)
(* cipher (NRF_AES_CCM.c), which takes no time; and the events for the     *)
(* software (NRF_EGU.c).  The PPI connects them: an event calls tasks of   *)
(* these peripherals, in the middle of the handler that signals it.        *)
(* "calls" is what is still to be done, first things first.                *)
(*                                                                         *)
(* What they compute, and the interrupts they only pend, are left out.     *)
(***************************************************************************)
EXTENDS Integers, Sequences

CONSTANTS
  TempTime, RngFirstTime, RngTime, EcbTime,   \* T_TEMP, the delays of the RNG, ECB_t_ECB
  AarTimes,          \* the delays of the resolver, by the number of keys it tries
  EguEvents,         \* the events of an EGU
  SmallConfigs       \* [RNG_SHORTS, CCM_SHORTS, ENABLE, routes]: what the software configures

ASSUME SmallTimesAssumption ==
  {TempTime, RngFirstTime, RngTime, EcbTime} \union AarTimes \subseteq Nat

Engines     == {"TEMP", "RNG", "ECB", "AAR"}
SMALL_NEVER == 0 - 1                        \* TIME_NEVER

SmallEvent == {"DATARDY", "VALRDY", "ENDECB", "ERRORECB", "RESOLVED", "NOTRESOLVED", "END",
               "ENDKSGEN", "ENDCRYPT", "TRIGGERED"}
SmallTask  == {"TEMP_START", "TEMP_STOP", "RNG_START", "RNG_STOP", "STARTECB", "STOPECB",
               "AAR_START", "AAR_STOP", "KSGEN", "CRYPT", "CCM_STOP", "TRIGGER"}

(* The PPI calls tasks, and no events.                                     *)
ASSUME SmallSoftwareAssumption ==
  /\ EguEvents \subseteq Nat
  /\ \A config \in SmallConfigs : config.routes \in [SmallEvent -> Seq(SmallTask \X Nat)]

VARIABLES
  small_cfg,
  started,               \* TEMP_hw_started, RNG_hw_started, ECB_Running, AAR_Running
  small_timer,           \* Timer_TEMP, Timer_RNG, Timer_ECB, Timer_AAR, as the time left
  matching_irk,          \* whether the resolver has found a key
  CCM_MODE, decryption_ongoing,
  EVENTS_TRIGGERED, EGU_INTEN, egu_int_line,
  calls,                 \* the calls still to be made: <<task or event, event number>>
  answers_due            \* auxiliary: the ends that are to be signalled for what was asked

engineVars == <<started, small_timer, matching_irk>>
ccmVars    == <<CCM_MODE, decryption_ongoing>>
eguVars    == <<EVENTS_TRIGGERED, EGU_INTEN, egu_int_line>>
smallVars  == <<small_cfg, engineVars, ccmVars, eguVars, calls, answers_due>>

SmallInit ==
  /\ small_cfg \in SmallConfigs
  /\ started = [e \in Engines |-> FALSE]
  /\ small_timer = [e \in Engines |-> SMALL_NEVER]
  /\ matching_irk = FALSE
  /\ CCM_MODE = "Decryption" /\ decryption_ongoing = FALSE
  /\ EVENTS_TRIGGERED = {} /\ EGU_INTEN = {} /\ egu_int_line = FALSE
  /\ calls = <<>>
  /\ answers_due = [e \in {"ECB", "AAR", "CCM"} |-> 0]

-----------------------------------------------------------------------------
(* The state of an engine and its timer, which change together.            *)
Set(e, running, time) ==
  /\ started' = [started EXCEPT ![e] = running]
  /\ small_timer' = [small_timer EXCEPT ![e] = time]

Due(e, n) == answers_due' = [answers_due EXCEPT ![e] = @ + n]

Event(e) == <<<<e, 0>>>>

(* nrf_temp_task_start(), nrf_rng_task_start(): nothing, while running.    *)
StartOnce(e, time) ==
  /\ IF started[e] THEN UNCHANGED <<started, small_timer>> ELSE Set(e, TRUE, time)
  /\ calls' = Tail(calls)
  /\ UNCHANGED <<matching_irk, ccmVars, eguVars, answers_due>>

(* nrf_temp_task_stop(), nrf_rng_task_stop().                              *)
StopSilently(e) ==
  /\ Set(e, FALSE, SMALL_NEVER)
  /\ calls' = Tail(calls)
  /\ UNCHANGED <<matching_irk, ccmVars, eguVars, answers_due>>

(* nrf_ecb_TASK_STARTECB() and nrf_aar_TASK_START() start again.           *)
StartAgain(e, time) ==
  /\ Set(e, TRUE, time)
  /\ Due(e, IF started[e] THEN 0 ELSE 1)
  /\ calls' = Tail(calls)
  /\ UNCHANGED <<ccmVars, eguVars>>

(* Mutant: the end is signalled again.                                     *)
StopAloudAlways(e, event) ==
  /\ Set(e, FALSE, SMALL_NEVER) /\ calls' = Event(event) \o Tail(calls)
  /\ UNCHANGED <<matching_irk, ccmVars, eguVars, answers_due>>

(* nrf_ecb_TASK_STOPECB(), nrf_aar_TASK_STOP(): the end is signalled.      *)
StopAloud(e, event) ==
  /\ IF started[e]
       THEN Set(e, FALSE, SMALL_NEVER) /\ calls' = Event(event) \o Tail(calls)
       ELSE UNCHANGED <<started, small_timer>> /\ calls' = Tail(calls)
  /\ UNCHANGED <<matching_irk, ccmVars, eguVars, answers_due>>

(* nrf_ccm_TASK_KSGEN(), which takes no time.                              *)
Ksgen ==
  /\ calls' = Event("ENDKSGEN") \o Tail(calls)
  /\ UNCHANGED <<engineVars, ccmVars, eguVars, answers_due>>

(* nrf_ccm_TASK_CRYPT(): an encryption is done at once, a decryption when   *)
(* the radio has received the packet.                                       *)
Crypt ==
  /\ IF CCM_MODE = "Encryption"
       THEN /\ calls' = Event("ENDCRYPT") \o Tail(calls)
            /\ Due("CCM", 1) /\ UNCHANGED decryption_ongoing
       ELSE /\ calls' = Tail(calls)
            /\ decryption_ongoing' = TRUE
            /\ Due("CCM", IF decryption_ongoing THEN 0 ELSE 1)
  /\ UNCHANGED <<engineVars, CCM_MODE, eguVars>>

(* nrf_ccm_TASK_STOP().                                                    *)
CcmStop ==
  /\ decryption_ongoing' = FALSE
  /\ Due("CCM", IF decryption_ongoing THEN 0 - 1 ELSE 0)
  /\ calls' = Tail(calls)
  /\ UNCHANGED <<engineVars, CCM_MODE, eguVars>>

(* nrf_egu_eval_interrupt().                                               *)
EguEvalInterrupt == egu_int_line' = (EVENTS_TRIGGERED' \intersect EGU_INTEN' # {})

(* nrf_egu_TASK_TRIGGER().                                                 *)
Trigger(n) ==
  /\ EVENTS_TRIGGERED' = EVENTS_TRIGGERED \union {n}
  /\ UNCHANGED EGU_INTEN
  /\ EguEvalInterrupt
  /\ calls' = <<<<"TRIGGERED", n>>>> \o Tail(calls)
  /\ UNCHANGED <<engineVars, ccmVars, answers_due>>

Op == Head(calls)[1]

(* The resolver and the packet cipher do nothing until they are enabled.   *)
IsOff(task) == ~small_cfg.ENABLE /\ task \in {"AAR_START", "KSGEN", "CRYPT"}

SmallTaskIgnored ==
  /\ calls # <<>> /\ Op \in SmallTask /\ IsOff(Op)
  /\ calls' = Tail(calls)
  /\ UNCHANGED <<small_cfg, engineVars, ccmVars, eguVars, answers_due>>

SmallTaskCall ==
  /\ calls # <<>> /\ Op \in SmallTask /\ ~IsOff(Op)
  /\ \/ Op = "TEMP_START" /\ StartOnce("TEMP", TempTime)
     \/ Op = "TEMP_STOP"  /\ StopSilently("TEMP")
     \/ Op = "RNG_START"  /\ StartOnce("RNG", RngFirstTime)
     \/ Op = "RNG_STOP"   /\ StopSilently("RNG")
     \/ Op = "STARTECB"   /\ StartAgain("ECB", EcbTime) /\ UNCHANGED matching_irk
     \/ Op = "STOPECB"    /\ StopAloud("ECB", "ERRORECB")
     \/ Op = "AAR_START"  /\ (\E time \in AarTimes : StartAgain("AAR", time))
                          /\ matching_irk' \in BOOLEAN
     \/ Op = "AAR_STOP"   /\ StopAloud("AAR", "END")
     \/ Op = "KSGEN"      /\ Ksgen
     \/ Op = "CRYPT"      /\ Crypt
     \/ Op = "CCM_STOP"   /\ CcmStop
     \/ Op = "TRIGGER"    /\ Trigger(Head(calls)[2])
  /\ UNCHANGED small_cfg

(* An event is signalled: the tasks that the PPI calls, and the shortcut.  *)
SmallSignal ==
  /\ calls # <<>> /\ Op \in SmallEvent
  /\ calls' = small_cfg.routes[Op]
                \o (IF Op = "ENDKSGEN" /\ small_cfg.CCM_SHORTS THEN Event("CRYPT") ELSE <<>>)
                \o Tail(calls)
  /\ CASE Op \in {"ENDECB", "ERRORECB"} -> Due("ECB", 0 - 1)
       [] Op = "END"      -> Due("AAR", 0 - 1)
       [] Op = "ENDCRYPT" -> Due("CCM", 0 - 1)
       [] OTHER           -> UNCHANGED answers_due
  /\ UNCHANGED <<small_cfg, engineVars, ccmVars, eguVars>>

-----------------------------------------------------------------------------
IsDue(e) == calls = <<>> /\ small_timer[e] = 0

(* nrf_temp_timer_triggered().                                             *)
TempTimerTriggered ==
  /\ IsDue("TEMP")
  /\ Set("TEMP", FALSE, SMALL_NEVER)
  /\ calls' = Event("DATARDY")
  /\ UNCHANGED <<small_cfg, matching_irk, ccmVars, eguVars, answers_due>>

(* nrf_rng_timer_triggered(): the shortcut comes before the event.         *)
RngTimerTriggered ==
  /\ IsDue("RNG")
  /\ IF small_cfg.RNG_SHORTS THEN Set("RNG", FALSE, SMALL_NEVER) ELSE Set("RNG", TRUE, RngTime)
  /\ calls' = Event("VALRDY")
  /\ UNCHANGED <<small_cfg, matching_irk, ccmVars, eguVars, answers_due>>

(* nrf_ecb_timer_triggered(), for a software that has set ECBDATAPTR: with   *)
(* none the code ends the program with an error (NRF_AES_ECB.c:139), and    *)
(* signals nothing.                                                         *)
EcbTimerTriggered ==
  /\ IsDue("ECB")
  /\ Set("ECB", FALSE, SMALL_NEVER)
  /\ calls' = Event("ENDECB")
  /\ UNCHANGED <<small_cfg, matching_irk, ccmVars, eguVars, answers_due>>

(* nrf_aar_timer_triggered().                                              *)
AarTimerTriggered ==
  /\ IsDue("AAR")
  /\ Set("AAR", FALSE, SMALL_NEVER)
  /\ calls' = Event(IF matching_irk THEN "RESOLVED" ELSE "NOTRESOLVED") \o Event("END")
  /\ UNCHANGED <<small_cfg, matching_irk, ccmVars, eguVars, answers_due>>

(* The radio has received a packet: nrf_ccm_radio_received_packet().       *)
RadioReceivedPacket ==
  /\ calls = <<>> /\ decryption_ongoing
  /\ decryption_ongoing' = FALSE
  /\ calls' = Event("ENDCRYPT")
  /\ UNCHANGED <<small_cfg, engineVars, CCM_MODE, eguVars, answers_due>>

(* The engine lets a unit of time pass.                                    *)
SmallTick ==
  /\ calls = <<>> /\ \A e \in Engines : small_timer[e] # 0
  /\ small_timer' = [e \in Engines |-> IF small_timer[e] = SMALL_NEVER THEN SMALL_NEVER
                                                                      ELSE small_timer[e] - 1]
  /\ UNCHANGED <<small_cfg, started, matching_irk, ccmVars, eguVars, calls, answers_due>>

-----------------------------------------------------------------------------
(* Writes to the TASKS registers, and to the MODE of the cipher.           *)
SmallSoftwareTask ==
  /\ calls = <<>>
  /\ \E task \in SmallTask, n \in EguEvents : calls' = <<<<task, n>>>>
  /\ UNCHANGED <<small_cfg, engineVars, ccmVars, eguVars, answers_due>>

SmallSoftwareMode ==
  /\ calls = <<>>
  /\ CCM_MODE' \in {"Encryption", "Decryption"}
  /\ UNCHANGED <<small_cfg, engineVars, decryption_ongoing, eguVars, calls, answers_due>>

(* Mutant: the line is not looked at when an interrupt is disabled.        *)
EguInterruptsOnSet(n) ==
  \/ /\ EGU_INTEN' = EGU_INTEN \union {n} /\ UNCHANGED EVENTS_TRIGGERED /\ EguEvalInterrupt
  \/ /\ EGU_INTEN' = EGU_INTEN \ {n} /\ UNCHANGED <<EVENTS_TRIGGERED, egu_int_line>>

(* The side effects of INTENSET, INTENCLR and EVENTS_TRIGGERED.            *)
EguInterrupts(n) ==
  /\ \/ EGU_INTEN' \in {EGU_INTEN \union {n}, EGU_INTEN \ {n}} /\ UNCHANGED EVENTS_TRIGGERED
     \/ EVENTS_TRIGGERED' = EVENTS_TRIGGERED \ {n} /\ UNCHANGED EGU_INTEN
  /\ EguEvalInterrupt

EguSoftwareInterrupts ==
  /\ calls = <<>>
  /\ \E n \in EguEvents : EguInterrupts(n)
  /\ UNCHANGED <<small_cfg, engineVars, ccmVars, calls, answers_due>>

SmallNext ==
  \/ SmallTaskCall \/ SmallTaskIgnored \/ SmallSignal
  \/ TempTimerTriggered \/ RngTimerTriggered \/ EcbTimerTriggered \/ AarTimerTriggered
  \/ RadioReceivedPacket \/ SmallTick
  \/ SmallSoftwareTask \/ SmallSoftwareMode \/ EguSoftwareInterrupts

SmallSpec == SmallInit /\ [][SmallNext]_smallVars

-----------------------------------------------------------------------------
(* Each start of the ciphers and of the resolver is answered once, by its  *)
(* end, an error or a stop, whatever the PPI starts or stops in the middle *)
(* of the signals of another end; and what runs has its timer running.     *)
EachStartIsAnsweredOnce ==
  /\ calls = <<>> =>
       /\ \A e \in {"ECB", "AAR"} : answers_due[e] = IF started[e] THEN 1 ELSE 0
       /\ answers_due["CCM"] = IF decryption_ongoing THEN 1 ELSE 0
  /\ \A e \in Engines : started[e] <=> small_timer[e] # SMALL_NEVER

(* The interrupt line of the EGU is the level of its enabled events, after *)
(* any of the writes that change either (nrf_egu_eval_interrupt()).        *)
EguLineFollowsEvents == egu_int_line <=> EVENTS_TRIGGERED \intersect EGU_INTEN # {}
=============================================================================
