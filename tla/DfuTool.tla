------------------------------ MODULE DfuTool ------------------------------
(***************************************************************************)
(* ubertooth-dfu (host/ubertooth-tools/src/ubertooth-dfu.c) updating the   *)
(* device of DfuBootloader.  The tool is one sequential process; each      *)
(* libusb_control_transfer is one step of it, together with the handler    *)
(* the bootloader runs for it, and the device's own steps (resets, boot    *)
(* decision, timeouts), power losses and the jumper interleave freely.     *)
(*                                                                         *)
(* A transfer can fail on the host although the device handled it (the     *)
(* answer came after the 1000 ms libusb waits), or without reaching it;    *)
(* MaxFaults bounds how often.  MaxRuns bounds how often the user starts   *)
(* the tool, MaxLosses how often power is lost.                            *)
(*                                                                         *)
(* Here the device is the only Ubertooth on the bus, so that the searches  *)
(* of Find and Wait, which take the first DFU device they meet, can only   *)
(* find this one.  FlashCommand adds a second one.                         *)
(***************************************************************************)
EXTENDS DfuBootloader

CONSTANTS
  NImage,      \* blocks in the .dfu file (its suffix is sent as well)
  NUpload,     \* blocks upload() reads: 960 in the code
  Functions,   \* the option sets main() is called with
  MaxFaults, MaxRuns, MaxLosses

ASSUME ToolAssumption ==
  /\ NImage \in Nat \ {0} /\ NUpload \in Nat \ {0}
  /\ Functions \subseteq SUBSET {"UPLOAD", "DOWNLOAD", "RESET"}
  /\ MaxFaults \in Nat /\ MaxRuns \in Nat /\ MaxLosses \in Nat
  /\ {"old", "new"} \subseteq Payload

VARIABLES
  pc,            \* where the tool is
  ret,           \* the function that called enter_dfu_mode
  functions,     \* main's FUNC_ bits
  signed,        \* the file has a DFU suffix check_suffix accepts
  devh,          \* the DFU device handle: none, open, or stale after it left the bus
  block,         \* download's and upload's block number
  exit,          \* main's return value: 0 ("success") or not ("fail")
  unsupported,   \* "control message unsupported" was printed
  faults, runs, losses

toolVars == <<pc, ret, functions, signed, devh, block, exit, unsupported, faults, runs, losses>>
allVars == <<vars, toolVars>>

FirstBlock == 64      \* (BOOTLOADER_OFFSET + BOOTLOADER_SIZE) / BLOCK_SIZE
ImageBlocks == FirstBlock..(FirstBlock + NImage - 1)

(* The requests the tool sends are among those modelled. *)
ASSUME RequestAssumption ==
  /\ ImageBlocks \cup (FirstBlock..(FirstBlock + NUpload - 1)) \subseteq Block
  /\ {0, 1, 6, transfer_size} \subseteq WLength

Complete == \A b \in ImageBlocks : flash[b] = "new"
-----------------------------------------------------------------------------
(* libusb_control_transfer to the DFU device: rv is "ok" (>= 0), "pipe"    *)
(* (LIBUSB_ERROR_PIPE: the handler stalled) or "err" (any other error).    *)
Transfer(r, s, data, rv) ==
  \/ /\ devh = "open" /\ Request(r, s, data)
     /\ rv = IF reply' = "ack" THEN "ok" ELSE "pipe"
     /\ UNCHANGED faults
  \/ /\ devh = "open" /\ faults < MaxFaults
     /\ faults' = faults + 1
     /\ rv = "err"
     /\ Request(r, s, data) \/ UNCHANGED vars
  \/ /\ ~(devh = "open" /\ running = "dfu" /\ in_dfu_mode)
     /\ rv = "err"
     /\ UNCHANGED <<vars, faults>>

Result == {"ok", "pipe", "err"}

(* Every caller of Transfer prints the same text for a stall. *)
Warn(rv) == unsupported' = (unsupported \/ rv = "pipe")

Goto(l) == pc' = l

Call(r, value, len, rv) ==
  /\ Transfer(r, [wValue |-> value, wLength |-> len], "new", rv)
  /\ Warn(rv)
  /\ UNCHANGED <<functions, signed, devh, runs, losses>>

(* main returns: a handle is closed with the process. *)
Exit(code) == Goto("exited") /\ exit' = code
-----------------------------------------------------------------------------
(* main: find the DFU device, or switch a running application to DFU mode. *)
Find ==
  /\ pc = "find"
  /\ \/ /\ running = "dfu"
        /\ devh' = "open" /\ Goto("claim")
        /\ UNCHANGED <<vars, exit>>
     \/ /\ running = "application"
        /\ Goto("wait")
        /\ AppFlash \/ (faults < MaxFaults /\ UNCHANGED vars)   \* cmd_flash, result ignored
        /\ UNCHANGED <<devh, exit>>
     \/ /\ running \notin {"dfu", "application"}
        /\ Exit("fail")
        /\ UNCHANGED <<vars, devh>>
  /\ UNCHANGED <<ret, functions, signed, block, unsupported, faults, runs, losses>>

(* up to five seconds for the device to come back as a DFU device *)
Wait ==
  /\ pc = "wait"
  /\ \/ running = "dfu" /\ devh' = "open" /\ Goto("claim") /\ UNCHANGED exit
     \/ running # "dfu" /\ Exit("fail") /\ UNCHANGED devh
  /\ UNCHANGED <<vars, ret, functions, signed, block, unsupported, faults, runs, losses>>

AfterUploadMasked == "check_suffix"   \* bug variant: downloads without FUNC_DOWNLOAD
AfterUpload == IF "DOWNLOAD" \in functions THEN "check_suffix"
               ELSE IF "RESET" \in functions THEN "detach" ELSE "stop"

Claim ==
  /\ pc = "claim"
  /\ \/ devh # "open" /\ Exit("fail")
     \/ devh = "open" /\ Goto(IF "UPLOAD" \in functions THEN "upload" ELSE AfterUpload)
                      /\ UNCHANGED exit
  /\ UNCHANGED <<vars, ret, functions, signed, devh, block, unsupported, faults, runs, losses>>

CheckSuffix ==
  /\ pc = "check_suffix"
  /\ \/ signed /\ Goto("download") /\ UNCHANGED exit
     \/ ~signed /\ Exit("fail")
  /\ UNCHANGED <<vars, ret, functions, signed, devh, block, unsupported, faults, runs, losses>>

(* upload, download and detach begin by calling enter_dfu_mode *)
Begin ==
  /\ pc \in {"upload", "download", "detach"}
  /\ ret' = pc /\ Goto("enter") /\ block' = FirstBlock
  /\ UNCHANGED <<vars, functions, signed, devh, exit, unsupported, faults, runs, losses>>
-----------------------------------------------------------------------------
(* enter_dfu_mode: the state byte decides.  A failed GETSTATE returns a    *)
(* negative number that is cut to a byte no case names, so it is retried   *)
(* at once and for ever, like APPIDLE; DNBUSY, APPDETACH and               *)
(* MANIFEST_WAIT_RESET sleep a second and are retried as well.             *)
Entered == [upload |-> "upload_entered", download |-> "download_entered",
            detach |-> "detach_entered"]

EnterState ==
  /\ pc = "enter"
  /\ \E rv \in Result :
       /\ Call("GETSTATE", 0, 1, rv)
       /\ \/ rv = "ok" /\ state = DFUIDLE /\ Goto(Entered[ret])
          \/ rv = "ok" /\ state \in {DFUDNLOAD_SYNC, DFUDNLOAD_IDLE, DFUMANIFEST_SYNC,
                                     DFUUPLOAD_IDLE, DFUMANIFEST} /\ Goto("abort")
          \/ rv = "ok" /\ state = DFUERROR /\ Goto("clear")
          \/ rv = "ok" /\ state \in {APPIDLE, APPDETACH, DFUDNBUSY, DFUMANIFEST_WAIT_RESET}
                       /\ UNCHANGED pc
          \/ rv # "ok" /\ UNCHANGED pc
  /\ UNCHANGED <<ret, block, exit>>

(* What a failed enter_dfu_mode or transfer means to the caller: upload    *)
(* and download end the program, detach's result is dropped.               *)
Failed(f) == IF f = "detach" THEN Goto("stop") /\ UNCHANGED exit ELSE Exit("fail")

EnterAbort ==
  /\ pc = "abort"
  /\ \E rv \in Result :
       /\ Call("ABORT", 0, 0, rv)
       /\ \/ rv = "ok" /\ Goto("enter") /\ UNCHANGED exit
          \/ rv # "ok" /\ Failed(ret)
  /\ UNCHANGED <<ret, block>>

EnterClearByAbort ==   \* bug variant: ABORT, which DFUERROR answers with an error
  /\ pc = "clear"
  /\ \E rv \in Result : Call("ABORT", 0, 0, rv)
  /\ Goto("enter")
  /\ UNCHANGED <<ret, block, exit>>

EnterClear ==
  /\ pc = "clear"
  /\ \E rv \in Result : Call("CLRSTATUS", 0, 0, rv)
  /\ Goto("enter")
  /\ UNCHANGED <<ret, block, exit>>
-----------------------------------------------------------------------------
UploadBlock ==
  /\ pc = "upload_entered"
  /\ \E rv \in Result :
       /\ Call("UPLOAD", block, transfer_size, rv)
       /\ \/ rv = "ok" /\ block < FirstBlock + NUpload - 1 /\ UNCHANGED <<pc, exit>>
          \/ rv = "ok" /\ block = FirstBlock + NUpload - 1 /\ Goto(AfterUpload) /\ UNCHANGED exit
          \/ rv # "ok" /\ Failed("upload")
       /\ block' = IF rv = "ok" THEN block + 1 ELSE block
  /\ UNCHANGED ret

(* download stops on every error but a stall, which it only reports. *)
StopsNever(rv) == FALSE   \* bug variant: a failed transfer is reported and skipped
Stops(rv) == rv = "err"

DownloadBlock ==
  /\ pc = "download_entered"
  /\ \E rv \in Result :
       /\ Call("DNLOAD", block, transfer_size, rv)
       /\ \/ Stops(rv) /\ Failed("download")
          \/ ~Stops(rv) /\ Goto("get_status") /\ UNCHANGED exit
  /\ UNCHANGED <<ret, block>>

(* dfu_get_status: neither the result nor the status it reads is used. *)
DownloadStatus ==
  /\ pc = "get_status"
  /\ \E rv \in Result : Call("GETSTATUS", 0, 6, rv)
  /\ block' = block + 1
  /\ Goto(IF block < FirstBlock + NImage - 1 THEN "download_entered"
          ELSE IF "RESET" \in functions THEN "detach" ELSE "stop")
  /\ UNCHANGED <<ret, exit>>

DetachState ==
  /\ pc = "detach_entered"
  /\ \E rv \in Result :
       /\ Call("GETSTATE", 0, 1, rv)
       /\ Goto(IF rv = "ok" /\ state = DFUIDLE THEN "detaching" ELSE "stop")
  /\ UNCHANGED <<ret, block, exit>>

DetachRequest ==
  /\ pc = "detaching"
  /\ \E rv \in Result : Call("DETACH", 0, 0, rv)
  /\ Goto("stop")
  /\ UNCHANGED <<ret, block, exit>>

Stop ==
  /\ pc = "stop"
  /\ Exit("success")
  /\ devh' = "none"
  /\ UNCHANGED <<vars, ret, functions, signed, block, unsupported, faults, runs, losses>>

Tool ==
  \/ Find \/ Wait \/ Claim \/ CheckSuffix \/ Begin
  \/ EnterState \/ EnterAbort \/ EnterClear
  \/ UploadBlock \/ DownloadBlock \/ DownloadStatus
  \/ DetachState \/ DetachRequest \/ Stop
-----------------------------------------------------------------------------
(* The user starts the tool, again after it has ended. *)
Start ==
  /\ pc \in {"idle", "exited"}
  /\ runs < MaxRuns
  /\ runs' = runs + 1
  /\ functions' \in Functions
  /\ signed' \in BOOLEAN
  /\ Goto("find")
  /\ devh' = "none" /\ ret' = "none" /\ block' = FirstBlock /\ exit' = "none"
  /\ unsupported' = FALSE
  /\ UNCHANGED <<vars, faults, losses>>

(* A handle outlives the device it was opened on. *)
Unplugged == devh' = IF running = "dfu" /\ running' # "dfu" /\ devh = "open"
                     THEN "stale" ELSE devh

DeviceStep ==
  /\ Device
  /\ Unplugged
  /\ UNCHANGED <<pc, ret, functions, signed, block, exit, unsupported, faults, runs, losses>>

PowerStep ==
  /\ \/ PowerOn(TRUE) /\ UNCHANGED losses
     \/ /\ losses < MaxLosses /\ losses' = losses + 1
        /\ \/ PowerLoss
           \/ pc = "download_entered" /\ devh = "open" /\ PowerLossInWrite(block)
  /\ Unplugged
  /\ UNCHANGED <<pc, ret, functions, signed, block, exit, unsupported, faults, runs>>

ToolInit ==
  /\ running = "application" /\ vbus = TRUE /\ entry_pin \in BOOLEAN
  /\ bootloader_ctrl = "other" /\ requested_mode = "IDLE" /\ use_timeout = FALSE
  /\ state = DFUIDLE /\ status = "OK" /\ virginity = TRUE /\ reply = "ack"
  /\ flash = [b \in Block |-> IF InBootloader(b) THEN "bootloader" ELSE "old"]
  /\ pc = "idle" /\ ret = "none" /\ functions = {} /\ signed = FALSE
  /\ devh = "none" /\ block = FirstBlock /\ exit = "none" /\ unsupported = FALSE
  /\ faults = 0 /\ runs = 0 /\ losses = 0

ToolNext == Tool \/ Start \/ DeviceStep \/ PowerStep

ToolSpec == ToolInit /\ [][ToolNext]_allVars

(* The tool and the device's CPU keep running; transfers fail only         *)
(* MaxFaults times; nothing obliges the user or the power supply.          *)
FairToolSpec == ToolSpec /\ WF_allVars(Tool) /\ WF_allVars(DeviceStep)
-----------------------------------------------------------------------------
ToolTypeOK ==
  /\ TypeOK
  /\ pc \in {"idle", "find", "wait", "claim", "check_suffix", "upload", "download", "detach",
            "enter", "abort", "clear", "upload_entered", "download_entered",
            "detach_entered", "get_status", "detaching", "stop", "exited"}
  /\ ret \in {"none", "upload", "download", "detach"}
  /\ functions \in SUBSET {"UPLOAD", "DOWNLOAD", "RESET"}
  /\ signed \in BOOLEAN /\ unsupported \in BOOLEAN
  /\ devh \in {"none", "open", "stale"}
  /\ block \in Nat
  /\ exit \in {"none", "fail", "success"}
  /\ faults \in 0..MaxFaults /\ runs \in 0..MaxRuns /\ losses \in 0..MaxLosses

(* Every block download writes lands on erased flash: it starts a sector,  *)
(* which flash.h erases, or the tool erased its sector earlier.  It holds  *)
(* over lost answers, stalls the tool ignores, failed erases, a power cut  *)
(* in any write and a second run over what the first one left, because an  *)
(* error keeps the device from accepting anything until the tool starts    *)
(* over at the first block of a sector.                                    *)
WritesErasedBlocks ==
  [][(pc = "download_entered" /\ state # DFUDNLOAD_SYNC /\ state' = DFUDNLOAD_SYNC)
       => at_sector_boundary(Address(block)) \/ flash[block] = "blank"]_allVars

(* A download run that ends with exit code 0, or that tells the device to  *)
(* detach and boot, and that never printed "control message unsupported",  *)
(* has written the whole file, as long as no IAP copy fails (flash.h drops *)
(* its result).  Lost answers, stalls after a lost GETSTATUS and errors in *)
(* enter_dfu_mode cannot make a partial image look like a clean success.   *)
QuietSuccessIsComplete ==
  ("DOWNLOAD" \in functions /\ ~unsupported /\ (pc = "detaching" \/ exit = "success"))
    => Complete

(* The tool ends whatever state it finds the device in and however often   *)
(* (at most MaxFaults times) a transfer fails, as long as the device stays *)
(* on the bus: clear, abort and retry always lead enter_dfu_mode to        *)
(* DFUIDLE.                                                                *)
ToolEnds == (pc = "find") ~> (pc = "exited" \/ devh = "stale")

(* DfuTool implements DfuUpdate.  A run is under way from Start until main *)
(* returns, and downloads when main was told to.                           *)
Update == INSTANCE DfuUpdate WITH
  image <- [b \in ImageBlocks \cap Block |-> flash[b]],
  complete <- Complete,
  run <- CASE pc = "idle" -> "none"
           [] pc = "exited" /\ exit = "fail" -> "failed"
           [] pc = "exited" /\ exit # "fail" -> "succeeded"
           [] OTHER -> IF "DOWNLOAD" \in functions THEN "downloading" ELSE "reading",
  warned <- unsupported

(* What ubertooth-dfu's options and its final message promise: no step of  *)
(* the tool, of the bootloader or of the power supply changes the image    *)
(* outside a download, and a quiet success is a complete image.            *)
ImplementsUpdate == Update!Spec
=============================================================================
