-------------------------------- MODULE Nvmc --------------------------------
(***************************************************************************)
(* The flash and the UICR behind their controller (NRF_NVMC.c): one        *)
(* operation at a time, which takes its time; erases that come to effect   *)
(* when they end; partial erases, whose times add up; and the restart of   *)
(* the program, in any state, on the files in which the content is kept.   *)
(* Reading changes nothing and is left out.                                *)
(***************************************************************************)
EXTENDS Integers, FiniteSets

CONSTANTS
  FlashPages,         \* FLASH_N_PAGES of them
  ScannedPages,       \* those in the part of the flash that is scanned at boot
  PageTime, AllTime, WriteTime,    \* flash_t_erasepage, flash_t_eraseall, flash_t_write
  PartialTimes,       \* the values of ERASEPAGEPARTIALCFG, as durations
  NvmcArgs            \* the command line: [flash, uicr, erase_warnings], the first
                      \* two as [in_ram, erase_at_start, rm_at_exit]

ASSUME FlashPagesAssumption  == /\ FlashPages # {} /\ IsFiniteSet(FlashPages)
                                /\ ScannedPages \subseteq FlashPages
ASSUME FlashTimesAssumption  == /\ {PageTime, AllTime, WriteTime} \subseteq Nat \ {0}
                                /\ PartialTimes \subseteq Nat

UICR    == "UICR"
Storage == FlashPages \union {UICR}
FLASH_NEVER == 0 - 1              \* TIME_NEVER

(* What a page holds: nothing; something; or nothing but zeroes in all the *)
(* words that the scan at boot looks at.                                   *)
Contents == {"erased", "written", "zeroed"}

VARIABLES
  nvmc_args,
  content,                        \* of the storage
  WEN,                            \* CONFIG: "Ren", "Wen" or "Een"
  READY, flash_op,
  erase_address,                  \* the page that it is in
  Timer_NVMC,                     \* as the time left
  time_under_erase, page_erased,
  accepted,                       \* auxiliary: what the operation under way erases
  partial,                        \* auxiliary: for how long a page was erased since it was written
  overlooked                      \* auxiliary: the pages that hold something since before the
                                  \* boot, which took them for erased

flashOp    == <<READY, flash_op, erase_address, Timer_NVMC, accepted>>
flashState == <<content, time_under_erase, page_erased, partial, overlooked>>
nvmcVars   == <<nvmc_args, WEN, flashOp, flashState>>

(* What a storage held is kept if it is in a file that is neither erased   *)
(* at the start nor removed at the end; a new file is erased.              *)
StorageArgs(s)  == IF s = UICR THEN nvmc_args.uicr ELSE nvmc_args.flash
Kept(s, exited) == /\ ~StorageArgs(s).in_ram /\ ~StorageArgs(s).erase_at_start
                   /\ ~(exited /\ StorageArgs(s).rm_at_exit)
AtBoot(old, exited) == [s \in Storage |-> IF Kept(s, exited) THEN old[s] ELSE "erased"]

(* nrfhw_nvmc_uicr_init() scans a part of the flash for pages that are not *)
(* erased, and only if the warnings are on.                                *)
IsErased(c) == [p \in FlashPages |-> ~nvmc_args.erase_warnings \/ p \notin ScannedPages
                                       \/ c[p] = "zeroed"]
Overlooks(c) == {p \in FlashPages : IsErased(c)[p] /\ c[p] # "erased"}

(* The start, on the files that there may be of an earlier run.            *)
NvmcInit ==
  /\ nvmc_args \in NvmcArgs
  /\ \E old \in [Storage -> Contents] : content = AtBoot(old, FALSE)
  /\ WEN = "Ren" /\ READY = TRUE /\ flash_op = "idle" /\ Timer_NVMC = FLASH_NEVER
  /\ time_under_erase = [p \in FlashPages |-> 0]
  /\ page_erased = IsErased(content) /\ overlooked = Overlooks(content)
  /\ accepted = {} /\ partial = [p \in FlashPages |-> 0]
  /\ erase_address = CHOOSE p \in FlashPages : TRUE

(* The program exits, or is killed, and starts again.                      *)
Restart(exited) ==
  /\ content' = AtBoot(content, exited)
  /\ WEN' = "Ren" /\ READY' = TRUE /\ flash_op' = "idle" /\ Timer_NVMC' = FLASH_NEVER
  /\ time_under_erase' = [p \in FlashPages |-> 0]
  /\ page_erased' = IsErased(content') /\ overlooked' = Overlooks(content')
  /\ accepted' = {} /\ partial' = [p \in FlashPages |-> 0]
  /\ UNCHANGED <<nvmc_args, erase_address>>

-----------------------------------------------------------------------------
(* The two checks that make the controller ignore an operation.            *)
Accepts(enable) == WEN = enable /\ flash_op = "idle"

Starts(op, time, erases) ==
  /\ flash_op' = op /\ READY' = FALSE /\ Timer_NVMC' = time /\ accepted' = erases

(* Mutant: the address is kept before the check for a running operation.   *)
ErasePageAddressFirst(p) ==
  /\ erase_address' = p
  /\ IF Accepts("Een") THEN Starts("erase", PageTime, {p})
                       ELSE UNCHANGED <<flash_op, READY, Timer_NVMC, accepted>>
  /\ UNCHANGED <<nvmc_args, WEN, flashState>>

(* nrfhw_nvmc_erase_page().                                                *)
ErasePage(p) ==
  /\ IF Accepts("Een") THEN Starts("erase", PageTime, {p}) /\ erase_address' = p
                       ELSE UNCHANGED flashOp
  /\ UNCHANGED <<nvmc_args, WEN, flashState>>

(* The side effects of ERASEUICR and ERASEALL.                             *)
EraseUicr ==
  /\ Accepts("Een") /\ Starts("erase_uicr", PageTime, {UICR})
  /\ UNCHANGED <<nvmc_args, WEN, erase_address, flashState>>

EraseAll ==
  /\ Accepts("Een") /\ Starts("erase_all", AllTime, Storage)
  /\ UNCHANGED <<nvmc_args, WEN, erase_address, flashState>>

Least(m, n) == IF m <= n THEN m ELSE n

(* The side effects of ERASEPAGEPARTIAL.                                   *)
ErasePagePartial(p, duration) ==
  /\ Accepts("Een")
  /\ erase_address' = p
  /\ time_under_erase' = IF page_erased[p] THEN time_under_erase
                         ELSE [time_under_erase EXCEPT ![p] = @ + duration]
  /\ partial' = [partial EXCEPT ![p] = Least(@ + duration, PageTime)]
  /\ Starts("erase_partial", duration, IF partial'[p] >= PageTime \/ time_under_erase'[p] >= PageTime
                                         THEN {p} ELSE {})
  /\ UNCHANGED <<nvmc_args, WEN, content, page_erased, overlooked>>

(* What a write may make of a page: it clears bits, or none.               *)
Written(c) == CASE c = "erased"  -> {"erased", "written"}
                [] c = "written" -> {"written", "zeroed"}
                [] c = "zeroed"  -> {"zeroed"}

(* Mutant: the page still counts as erased.                                *)
NmvcWriteWordStillErased(s) ==
  /\ Accepts("Wen") /\ Starts("write", WriteTime, {})
  /\ \E c \in Written(content[s]) : content' = [content EXCEPT ![s] = c]
  /\ partial' = [p \in FlashPages |-> IF p = s THEN 0 ELSE partial[p]]
  /\ UNCHANGED <<nvmc_args, WEN, erase_address, time_under_erase, page_erased, overlooked>>

(* nrfhw_nmvc_write_word(): the content changes at once.                   *)
NmvcWriteWord(s) ==
  /\ Accepts("Wen") /\ Starts("write", WriteTime, {})
  /\ \E c \in Written(content[s]) : content' = [content EXCEPT ![s] = c]
  /\ page_erased' = [p \in FlashPages |-> p # s /\ page_erased[p]] /\ overlooked' = overlooked \ {s}
  /\ partial' = [p \in FlashPages |-> IF p = s THEN 0 ELSE partial[p]]
  /\ UNCHANGED <<nvmc_args, WEN, erase_address, time_under_erase>>

-----------------------------------------------------------------------------
(* What the end of an operation erases: the nrfhw_nvmc_complete_erase...().  *)
Completed ==
  CASE flash_op = "erase"         -> {erase_address}
    [] flash_op = "erase_partial" ->
         IF time_under_erase[erase_address] >= PageTime THEN {erase_address} ELSE {}
    [] flash_op = "erase_uicr"    -> {UICR}
    [] flash_op = "erase_all"     -> Storage
    [] OTHER                      -> {}

(* nrfhw_nvmc_timer_triggered().                                           *)
NvmcTimerTriggered ==
  /\ Timer_NVMC = 0
  /\ content' = [s \in Storage |-> IF s \in Completed THEN "erased" ELSE content[s]]
  /\ time_under_erase' = [p \in FlashPages |-> IF p \in Completed THEN 0 ELSE time_under_erase[p]]
  /\ page_erased' = [p \in FlashPages |-> p \in Completed \/ page_erased[p]]
  /\ overlooked' = overlooked \ Completed
  /\ flash_op' = "idle" /\ READY' = TRUE /\ Timer_NVMC' = FLASH_NEVER /\ accepted' = {}
  /\ UNCHANGED <<nvmc_args, WEN, erase_address, partial>>

(* The engine lets a unit of time pass.                                    *)
NvmcTick ==
  /\ Timer_NVMC > 0 /\ Timer_NVMC' = Timer_NVMC - 1
  /\ UNCHANGED <<nvmc_args, WEN, READY, flash_op, erase_address, accepted, flashState>>

(* The register CONFIG has no side effect.                                 *)
SoftwareConfigNvmc ==
  /\ WEN' \in {"Ren", "Wen", "Een"}
  /\ UNCHANGED <<nvmc_args, flashOp, flashState>>

NvmcNext ==
  \/ \E p \in FlashPages : ErasePage(p) \/ \E duration \in PartialTimes : ErasePagePartial(p, duration)
  \/ EraseUicr \/ EraseAll
  \/ \E s \in Storage : NmvcWriteWord(s)
  \/ NvmcTimerTriggered \/ NvmcTick \/ SoftwareConfigNvmc
  \/ \E exited \in BOOLEAN : Restart(exited)

NvmcSpec == NvmcInit /\ [][NvmcNext]_nvmcVars

-----------------------------------------------------------------------------
(* The variables keep their types (NRF_NVMC.c:84-89).                      *)
NvmcTypeOK ==
  /\ nvmc_args \in NvmcArgs
  /\ content \in [Storage -> Contents]
  /\ WEN \in {"Ren", "Wen", "Een"} /\ READY \in BOOLEAN
  /\ flash_op \in {"idle", "write", "erase", "erase_partial", "erase_uicr", "erase_all"}
  /\ erase_address \in FlashPages
  /\ Timer_NVMC \in Nat \union {FLASH_NEVER}
  /\ time_under_erase \in [FlashPages -> Nat] /\ page_erased \in [FlashPages -> BOOLEAN]
  /\ accepted \subseteq Storage /\ partial \in [FlashPages -> 0 .. PageTime]
  /\ overlooked \subseteq FlashPages

(* Partial erases add up (nrfhw_nvmc_complete_erase_partial()): when those *)
(* of a page since it was last written, or since the start, have taken the *)
(* time of a whole erase, the page is erased, whatever other operations    *)
(* came in between; but for the pages that the boot overlooked.            *)
AddUp(pages) ==
  flash_op = "idle" => \A p \in pages : partial[p] >= PageTime => content[p] = "erased"

PartialErasesAddUp == AddUp(FlashPages \ overlooked)

(* Data is lost only at the end of an erase that was accepted for it, and  *)
(* ran for its whole time, or by a start again for which its own storage is*)
(* not kept; what is asked for while the flash is busy, or while erasing is*)
(* not enabled, has no effect (BUSY_CHECK, ERASE_ENABLED_CHECK).           *)
OnlyTheAcceptedIsErased ==
  [][\A s \in Storage : content[s] # "erased" /\ content'[s] = "erased" =>
       \/ s \in accepted /\ Timer_NVMC = 0
       \/ \E exited \in BOOLEAN : Restart(exited) /\ ~Kept(s, exited)]_nvmcVars
=============================================================================
