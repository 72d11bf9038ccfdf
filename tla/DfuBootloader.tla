--------------------------- MODULE DfuBootloader ---------------------------
(***************************************************************************)
(* The bootloader of the Ubertooth (firmware/bootloader): the DFU request  *)
(* handlers (dfu.cpp, dfu.h), the flash writer they call (flash.h), the    *)
(* boot decision (bootloader.cpp, main) and the two things the application *)
(* does to enter it (bluetooth_rxtx.c: UBERTOOTH_FLASH, UBERTOOTH_RESET).  *)
(*                                                                         *)
(* Flash memory is addressed in blocks of transfer_size (256) bytes, the   *)
(* unit every DFU request uses (wValue * transfer_size).  Addresses,       *)
(* sector numbers and the DFU states keep the numbers of the source.       *)
(***************************************************************************)
EXTENDS Naturals, FiniteSets

CONSTANTS
  Block,        \* the wValues a host sends, and the blocks whose content is
                \* kept (those past the end of the flash are never written)
  Payload,      \* what a host may put in a block
  WLength,      \* the wLengths a host sends
  IapFault      \* the IAP ROM calls that may fail: "prepare", "erase", "copy"

ASSUME BlockAssumption == Block \subseteq {b \in Nat : b < 65536} /\ 0 \in Block
ASSUME PayloadAssumption ==
  Payload \cap {"bootloader", "blank", "dirty"} = {}
ASSUME WLengthAssumption == WLength \subseteq Nat
ASSUME IapFaultAssumption == IapFault \subseteq {"prepare", "erase", "copy"}

VARIABLES
  running,          \* what the CPU executes
  vbus,             \* USB bus power seen by the bootloader
  entry_pin,        \* the DFU jumper on the expansion header
  bootloader_ctrl,  \* the RAM word that survives a reset, not a power cycle
  requested_mode,   \* the application's requested_mode: RESET or anything else
  use_timeout,      \* bootloader.cpp: DFU mode was entered by pin
  state, status,    \* dfu.cpp: the DFU state machine
  virginity,        \* dfu.cpp: no request has changed the state yet
  flash,            \* the content of every block
  reply             \* how the last control transfer was answered

bootVars == <<running, vbus, entry_pin, bootloader_ctrl, requested_mode, use_timeout>>
dfuVars == <<state, status, virginity, flash, reply>>
vars == <<running, vbus, entry_pin, bootloader_ctrl, requested_mode, use_timeout,
          state, status, virginity, flash, reply>>
-----------------------------------------------------------------------------
(* dfu.h: enum State (the values are compared and sent as bytes) *)
APPIDLE == 0
APPDETACH == 1
DFUIDLE == 2
DFUDNLOAD_SYNC == 3
DFUDNBUSY == 4
DFUDNLOAD_IDLE == 5
DFUMANIFEST_SYNC == 6
DFUMANIFEST == 7
DFUMANIFEST_WAIT_RESET == 8
DFUUPLOAD_IDLE == 9
DFUERROR == 10
(* dfu.cpp never enters the others, two of which the host tool waits in *)
State == {APPDETACH, DFUIDLE, DFUDNLOAD_SYNC, DFUDNLOAD_IDLE, DFUMANIFEST_SYNC, DFUERROR}

(* dfu.h: the members of enum Status that dfu.cpp uses *)
Status == {"OK", "ERRWRITE", "ERRPROG", "ERRADDRESS", "ERRUNKNOWN", "ERRSTALLEDPKT"}

detach_timeout_ms == 15000
transfer_size == 256

Content == Payload \cup {"bootloader", "blank", "dirty"}

Setup == [wValue : Block, wLength : WLength]
-----------------------------------------------------------------------------
(* flash.h: the geometry of the LPC175x flash *)
Address(b) == b * transfer_size

(* The linker script of the bootloader: its image is the first 16K of rom. *)
InBootloader(b) == Address(b) < 16 * 1024

sector_size(address) == IF address < 65536 THEN 4096 ELSE 32768

at_sector_boundary(address) == address % sector_size(address) = 0

sector_number(address) ==
  IF address < 65536 THEN address \div 4096 ELSE 14 + (address \div 32768)

valid_address(address) == address < 524288

(* dfu.cpp: memory_policy *)
write_permitted_sector_early(address) == address >= 12288   \* bug variant: one sector too low
write_permitted(address) == address >= 16384

(* IAP is code in the LPC175x boot ROM (iap.cpp calls it): preparing or    *)
(* erasing a sector it does not have fails, and a block programmed while   *)
(* it is not blank holds neither the old nor the new content.              *)
Erased(f, sector) ==
  [c \in Block |-> IF sector_number(Address(c)) = sector THEN "blank" ELSE f[c]]

Spoiled(f, sector) ==
  [c \in Block |-> IF sector_number(Address(c)) = sector THEN "dirty" ELSE f[c]]

Programmed(f, b, data) ==
  [f EXCEPT ![b] = IF f[b] = "blank" THEN data ELSE "dirty"]

(* flash.h: Flash::write.  The set of its possible effects: the flash it   *)
(* leaves and the value it returns.  The return code of copy_ram_to_flash  *)
(* is dropped by the code, so a failed copy still returns true.            *)
Writes(f, b, data) ==
  LET sector == sector_number(Address(b))
      start  == IF at_sector_boundary(Address(b)) THEN Erased(f, sector) ELSE f
      refused == [flash |-> f, result |-> "failure"]
  IN  IF ~valid_address(Address(b))
      THEN {refused}
      ELSE {[flash |-> Programmed(start, b, data), result |-> "success"]}
           \cup (IF "copy" \in IapFault THEN {[flash |-> start, result |-> "success"]} ELSE {})
           \cup (IF "prepare" \in IapFault
                 THEN {refused, [flash |-> start, result |-> "failure"]} ELSE {})
           \cup (IF "erase" \in IapFault /\ at_sector_boundary(Address(b))
                 THEN {[flash |-> Spoiled(f, sector), result |-> "failure"]} ELSE {})

(* What a write cut off by a loss of power can leave behind. *)
TornWrites(f, b) ==
  LET sector == sector_number(Address(b))
  IN  {[f EXCEPT ![b] = "dirty"]}
      \cup (IF at_sector_boundary(Address(b))
            THEN {Spoiled(f, sector), Erased(f, sector),
                  [Erased(f, sector) EXCEPT ![b] = "dirty"]}
            ELSE {f})
-----------------------------------------------------------------------------
(* dfu.cpp: the state machine *)
in_dfu_mode == state >= DFUIDLE

set_state_virgin(new_state) == state' = new_state /\ UNCHANGED virginity   \* bug variant
set_state(new_state) == state' = new_state /\ virginity' = FALSE

(* bug variant: the error is recorded, the state machine carries on *)
error_unlatched(new_status) ==
  /\ UNCHANGED <<state, virginity, flash>>
  /\ status' = new_status
  /\ reply' = "stall"

error(new_status) ==
  /\ IF state \notin {APPIDLE, APPDETACH}
     THEN set_state(DFUERROR)
     ELSE UNCHANGED <<state, virginity>>
  /\ status' = new_status
  /\ reply' = "stall"
  /\ UNCHANGED flash

request_detach(s) ==
  \/ /\ s.wLength = 0 /\ s.wValue <= detach_timeout_ms
     /\ set_state(APPDETACH)
     /\ reply' = "ack"
     /\ UNCHANGED <<status, flash>>
  \/ /\ ~(s.wLength = 0 /\ s.wValue <= detach_timeout_ms)
     /\ error("ERRUNKNOWN")

(* The end of a transfer is a DNLOAD without data. *)
dnload_end ==
  \/ /\ state = DFUDNLOAD_IDLE
     /\ set_state(DFUMANIFEST_SYNC)
     /\ reply' = "ack"
     /\ UNCHANGED <<status, flash>>
  \/ /\ state # DFUDNLOAD_IDLE
     /\ error("ERRSTALLEDPKT")

dnload_block(b, data) ==
  \/ /\ state \notin {DFUIDLE, DFUDNLOAD_IDLE}
     /\ error("ERRSTALLEDPKT")
  \/ /\ state \in {DFUIDLE, DFUDNLOAD_IDLE}
     /\ ~write_permitted(Address(b))
     /\ error("ERRWRITE")
  \/ /\ state \in {DFUIDLE, DFUDNLOAD_IDLE}
     /\ write_permitted(Address(b))
     /\ \E w \in Writes(flash, b, data) :
          /\ flash' = w.flash
          /\ set_state(IF w.result = "success" THEN DFUDNLOAD_SYNC ELSE DFUERROR)
          /\ status' = IF w.result = "success" THEN status ELSE "ERRPROG"
          /\ reply' = IF w.result = "success" THEN "ack" ELSE "stall"

request_dnload(s, data) ==
  \/ s.wLength = 0 /\ dnload_end
  \/ s.wLength = transfer_size /\ dnload_block(s.wValue, data)
  \/ s.wLength \notin {0, transfer_size} /\ error("ERRUNKNOWN")

(* The block's content goes to the host and changes nothing here.  The new *)
(* state is DFUIDLE, not DFUUPLOAD_IDLE.                                   *)
upload_accepted_busy == set_state(DFUUPLOAD_IDLE)   \* bug variant
upload_accepted == set_state(DFUIDLE)

request_upload(s) ==
  \/ /\ s.wLength # transfer_size
     /\ error("ERRUNKNOWN")
  \/ /\ s.wLength = transfer_size
     /\ state \notin {DFUIDLE, DFUUPLOAD_IDLE}
     /\ error("ERRSTALLEDPKT")
  \/ /\ s.wLength = transfer_size
     /\ state \in {DFUIDLE, DFUUPLOAD_IDLE}
     /\ ~valid_address(Address(s.wValue) + transfer_size - 1)
     /\ error("ERRADDRESS")
  \/ /\ s.wLength = transfer_size
     /\ state \in {DFUIDLE, DFUUPLOAD_IDLE}
     /\ valid_address(Address(s.wValue) + transfer_size - 1)
     /\ upload_accepted
     /\ reply' = "ack"
     /\ UNCHANGED <<status, flash>>

(* A malformed GETSTATUS is stalled without entering the error state. *)
request_getstatus(s) ==
  \/ /\ s.wValue = 0 /\ s.wLength = 6
     /\ \/ state = DFUDNLOAD_SYNC /\ set_state(DFUDNLOAD_IDLE)
        \/ state = DFUMANIFEST_SYNC /\ set_state(DFUIDLE)
        \/ /\ state \notin {DFUDNLOAD_SYNC, DFUMANIFEST_SYNC}
           /\ UNCHANGED <<state, virginity>>
     /\ reply' = "ack"
     /\ UNCHANGED <<status, flash>>
  \/ /\ ~(s.wValue = 0 /\ s.wLength = 6)
     /\ UNCHANGED <<state, status, virginity, flash>>
     /\ reply' = "stall"

request_clrstatus(s) ==
  \/ /\ s.wValue = 0 /\ s.wLength = 0 /\ state = DFUERROR
     /\ status' = "OK"
     /\ set_state(DFUIDLE)
     /\ reply' = "ack"
     /\ UNCHANGED flash
  \/ /\ ~(s.wValue = 0 /\ s.wLength = 0 /\ state = DFUERROR)
     /\ error("ERRUNKNOWN")

request_getstate(s) ==
  \/ /\ s.wValue = 0 /\ s.wLength = 1
     /\ UNCHANGED <<state, status, virginity, flash>>
     /\ reply' = "ack"
  \/ /\ ~(s.wValue = 0 /\ s.wLength = 1)
     /\ error("ERRUNKNOWN")

request_abort(s) ==
  \/ /\ s.wValue = 0 /\ s.wLength = 0 /\ state # DFUERROR
     /\ set_state(DFUIDLE)
     /\ reply' = "ack"
     /\ UNCHANGED <<status, flash>>
  \/ /\ ~(s.wValue = 0 /\ s.wLength = 0 /\ state # DFUERROR)
     /\ error("ERRUNKNOWN")

(* dfu.cpp: request_handler, called by USBHwISR for one SETUP packet of    *)
(* class type.  Any bRequest the switch does not name is stalled.          *)
request_handler(bRequest, s, data) ==
  \/ bRequest = "DETACH" /\ request_detach(s)
  \/ bRequest = "DNLOAD" /\ request_dnload(s, data)
  \/ bRequest = "UPLOAD" /\ request_upload(s)
  \/ bRequest = "GETSTATUS" /\ request_getstatus(s)
  \/ bRequest = "CLRSTATUS" /\ request_clrstatus(s)
  \/ bRequest = "GETSTATE" /\ request_getstate(s)
  \/ bRequest = "ABORT" /\ request_abort(s)
  \/ /\ bRequest \notin {"DETACH", "DNLOAD", "UPLOAD", "GETSTATUS", "CLRSTATUS",
                         "GETSTATE", "ABORT"}
     /\ UNCHANGED <<state, status, virginity, flash>>
     /\ reply' = "stall"
-----------------------------------------------------------------------------
(* bootloader.cpp: the body of run_bootloader's loop handles a request     *)
(* only after the loop's test has found the device in DFU mode.            *)
Request(bRequest, s, data) ==
  /\ running = "dfu"
  /\ in_dfu_mode
  /\ request_handler(bRequest, s, data)
  /\ UNCHANGED bootVars

(* run_bootloader returns because of a DETACH: the loop's test fails.  The *)
(* soft entry clears the flag, the pin entry leaves it; both then reset.   *)
LeaveDfuModeFlagged ==   \* bug variant: the soft-entry flag survives the session
  /\ running = "dfu" /\ ~in_dfu_mode
  /\ running' = "reset"
  /\ UNCHANGED <<vbus, entry_pin, bootloader_ctrl, requested_mode, use_timeout, dfuVars>>

LeaveDfuMode ==
  /\ running = "dfu"
  /\ ~in_dfu_mode
  /\ running' = "reset"
  /\ bootloader_ctrl' = IF use_timeout THEN bootloader_ctrl ELSE "other"
  /\ UNCHANGED <<vbus, entry_pin, requested_mode, use_timeout, dfuVars>>

DfuTimeoutOpened ==   \* bug variant: the test of dfu_virgin is inverted
  /\ running = "dfu" /\ in_dfu_mode
  /\ use_timeout /\ ~virginity
  /\ running' = "reset"
  /\ UNCHANGED <<vbus, entry_pin, bootloader_ctrl, requested_mode, use_timeout, dfuVars>>

(* count > DFU_TIMEOUT in run_bootloader: only with pin entry, and only    *)
(* while no request has changed the DFU state.                             *)
DfuTimeout ==
  /\ running = "dfu"
  /\ in_dfu_mode
  /\ use_timeout /\ virginity
  /\ running' = "reset"
  /\ UNCHANGED <<vbus, entry_pin, bootloader_ctrl, requested_mode, use_timeout, dfuVars>>

(* main, from a reset: statics are initialised, then the boot decision. *)
Main ==
  /\ running = "reset"
  /\ running' = IF vbus /\ (bootloader_ctrl = "DFU_MODE" \/ entry_pin)
                THEN "dfu" ELSE "application"
  /\ use_timeout' = (vbus /\ bootloader_ctrl # "DFU_MODE" /\ entry_pin)
  /\ state' = DFUIDLE /\ status' = "OK" /\ virginity' = TRUE
  /\ requested_mode' = "IDLE"
  /\ UNCHANGED <<vbus, entry_pin, bootloader_ctrl, flash, reply>>

(* bluetooth_rxtx.c, vendor_request_handler: the requests that reset the   *)
(* device, and the ones (UBERTOOTH_STOP) that overwrite a pending one.     *)
AppFlash ==
  /\ running = "application"
  /\ bootloader_ctrl' = "DFU_MODE"
  /\ requested_mode' = "RESET"
  /\ UNCHANGED <<running, vbus, entry_pin, use_timeout, dfuVars>>

AppRequestMode(m) ==
  /\ running = "application"
  /\ requested_mode' = m
  /\ UNCHANGED <<running, vbus, entry_pin, bootloader_ctrl, use_timeout, dfuVars>>

(* bluetooth_rxtx.c, main: the main loop sees MODE_RESET and resets. *)
AppReset ==
  /\ running = "application"
  /\ requested_mode = "RESET"
  /\ running' = "reset"
  /\ UNCHANGED <<vbus, entry_pin, bootloader_ctrl, requested_mode, use_timeout, dfuVars>>
-----------------------------------------------------------------------------
(* The world around the device. *)
PowerOn(v) ==
  /\ running = "off"
  /\ running' = "reset"
  /\ vbus' = v
  /\ bootloader_ctrl' \in {"DFU_MODE", "other"}   \* RAM is not initialised
  /\ UNCHANGED <<entry_pin, requested_mode, use_timeout, dfuVars>>

PowerLoss ==
  /\ running # "off"
  /\ running' = "off"
  /\ UNCHANGED <<vbus, entry_pin, bootloader_ctrl, requested_mode, use_timeout, dfuVars>>

(* Power is lost inside Flash::write, called by an acceptable DNLOAD. *)
PowerLossInWrite(b) ==
  /\ running = "dfu"
  /\ state \in {DFUIDLE, DFUDNLOAD_IDLE}
  /\ write_permitted(Address(b)) /\ valid_address(Address(b))
  /\ flash' \in TornWrites(flash, b)
  /\ running' = "off"
  /\ UNCHANGED <<vbus, entry_pin, bootloader_ctrl, requested_mode, use_timeout,
                 state, status, virginity, reply>>

MoveJumper ==
  /\ entry_pin' = ~entry_pin
  /\ UNCHANGED <<running, vbus, bootloader_ctrl, requested_mode, use_timeout, dfuVars>>
-----------------------------------------------------------------------------
BRequest == {"DETACH", "DNLOAD", "UPLOAD", "GETSTATUS", "CLRSTATUS", "GETSTATE",
             "ABORT", "other"}

Init ==
  /\ running = "off"
  /\ vbus \in BOOLEAN
  /\ entry_pin \in BOOLEAN
  /\ bootloader_ctrl = "other"
  /\ requested_mode = "IDLE"
  /\ use_timeout = FALSE
  /\ state = DFUIDLE /\ status = "OK" /\ virginity = TRUE
  /\ flash \in [Block -> Content]
  /\ \A b \in Block : flash[b] = IF InBootloader(b) THEN "bootloader" ELSE "blank"
  /\ reply = "ack"

Device ==
  \/ LeaveDfuMode
  \/ DfuTimeout
  \/ Main
  \/ AppReset

World ==
  \/ \E r \in BRequest, s \in Setup, data \in Payload : Request(r, s, data)
  \/ AppFlash
  \/ \E m \in {"IDLE", "RESET"} : AppRequestMode(m)
  \/ \E v \in BOOLEAN : PowerOn(v)
  \/ PowerLoss
  \/ \E b \in Block : PowerLossInWrite(b)
  \/ MoveJumper

Next == Device \/ World

Spec == Init /\ [][Next]_vars

(* The CPU keeps executing: each step of the device itself is taken once   *)
(* it stays possible (count is incremented on every pass of the loop).     *)
FairSpec == Spec /\ WF_vars(Main) /\ WF_vars(LeaveDfuMode) /\ WF_vars(DfuTimeout)
                 /\ WF_vars(AppReset)
-----------------------------------------------------------------------------
TypeOK ==
  /\ running \in {"off", "reset", "dfu", "application"}
  /\ vbus \in BOOLEAN /\ entry_pin \in BOOLEAN
  /\ bootloader_ctrl \in {"DFU_MODE", "other"}
  /\ requested_mode \in {"IDLE", "RESET"}
  /\ use_timeout \in BOOLEAN
  /\ state \in State /\ status \in Status /\ virginity \in BOOLEAN
  /\ flash \in [Block -> Content]
  /\ reply \in {"ack", "stall"}

(* Whatever a host sends, and wherever power is lost, no block of the      *)
(* bootloader's image ever changes: memory_policy keeps DNLOAD out of the  *)
(* region the linker script gives it and no sector that a permitted write  *)
(* erases reaches into it.                                                 *)
BootloaderIntact ==
  \A b \in Block : InBootloader(b) => flash[b] = "bootloader"

(* dfu.cpp keeps status and state apart (error, set_status, set_state);    *)
(* while the loop runs they agree: an error status is pending exactly in   *)
(* DFUERROR, so ABORT and DETACH can never carry a stale error into a new  *)
(* transfer.                                                               *)
ErrorConsistent ==
  running = "dfu" /\ in_dfu_mode => (status # "OK" <=> state = DFUERROR)

(* Flash changes only in a DFU session without a pending error, and a step *)
(* that changes it ends the session's virginity (or power is gone), so the *)
(* pin-entry timeout of run_bootloader can never reset the device in the   *)
(* middle of an update.                                                    *)
FlashChangesOpenSession ==
  [][flash' # flash =>
       /\ running = "dfu" /\ status = "OK"
       /\ running' = "off" \/ (~virginity' /\ state' # DFUIDLE)]_vars

(* After a DETACH (what ubertooth-dfu -r ends with) the application runs,  *)
(* unless power is lost or the jumper is closed on the way: the flag of    *)
(* the soft entry is cleared before the reset.                             *)
DetachRunsApplication ==
  (running = "dfu" /\ state = APPDETACH /\ ~entry_pin)
    ~> (running \in {"application", "off"} \/ entry_pin)

(* A bootloader entered by the jumper that no host opens a session with    *)
(* ends in the application once the jumper is gone, whatever requests come *)
(* that change no state: the timeout resets, and neither the flag in RAM   *)
(* nor a stale use_timeout keeps the device from booting.                  *)
TimeoutRunsApplication ==
  (running = "dfu" /\ use_timeout /\ virginity /\ ~entry_pin)
    ~> (running \in {"application", "off"} \/ entry_pin \/ ~virginity)
=============================================================================
