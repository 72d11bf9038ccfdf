---------------------------- MODULE FlashCommand ----------------------------
(***************************************************************************)
(* `ubertooth flash` (packages/cli/src/index.js, the flash command, and    *)
(* packages/core-usb/src/flashDevice.js) around the tool of DfuTool and    *)
(* the device of DfuBootloader: the guardrails, the child process with its *)
(* time limit, the classification of how it ended, the wait for the        *)
(* device to come back and the final health check.                         *)
(*                                                                         *)
(* Every waiting loop of the command is bounded by a clock; here it may    *)
(* give up at any pass.                                                    *)
(*                                                                         *)
(* A second Ubertooth comes and goes.  Nothing tells the tool which of two *)
(* is meant: it takes the first DFU device it finds, and a single          *)
(* application device to switch to DFU mode, so it may work on the other   *)
(* one.  DfuTool's variables are those of its work on our device; of the   *)
(* work on the other only the outcome is modelled.                         *)
(***************************************************************************)
EXTENDS DfuTool

VARIABLES
  step,      \* where the command is; "astray" while its child has the other device open
  report,    \* what it told the user ("none" while it runs)
  target,    \* preFlash: the mode ours was in, which its pnpDeviceId tells apart
  other,     \* the second Ubertooth: "absent", or the mode it runs in
  strayed    \* history: the tool opened the other one

commandVars == <<step, report, target, other, strayed>>
flashVars == <<allVars, commandVars>>

Mode == {"application", "dfu"}
Attached == running \in Mode

(* devices.find(same pnpDeviceId) ?? the only device: a change of mode     *)
(* changes the product id in it.                                           *)
MatchesOurs == Attached /\ (running = target \/ other = "absent")
MatchesOther == ~Attached /\ other # "absent"
Matches == MatchesOurs \/ MatchesOther

Report(r) == step' = "done" /\ report' = r
-----------------------------------------------------------------------------
(* index.js: --file and --yes; validateFlashInput: a file with extension   *)
(* .dfu; probeDevices: exactly one device, ready; readProtocolInfo.        *)
Preflight ==
  /\ step = "preflight"
  /\ \/ Attached /\ other = "absent" /\ target' = running /\ step' = "spawn" /\ UNCHANGED report
     \/ Report("guardrail") /\ UNCHANGED target
  /\ UNCHANGED <<allVars, other, strayed>>

(* execFile(tool, ['-d', file, '-r']) *)
Spawn ==
  /\ step = "spawn"
  /\ \/ Start /\ functions' = {"DOWNLOAD", "RESET"} /\ step' = "child" /\ UNCHANGED report
     \/ Report("guardrail") /\ UNCHANGED allVars      \* ENOENT
  /\ UNCHANGED <<target, other, strayed>>

(* The tool goes on with our device where the code would: the first search *)
(* takes a DFU device before an application device, ubertooth_start(-1)    *)
(* takes an application device only when it is the only one, and "Unable   *)
(* to find Ubertooth" means that neither search found any.                 *)
ChildTool ==
  /\ step = "child"
  /\ \/ pc = "find" /\ (running = "dfu" \/ other = "absent")
     \/ pc = "wait" /\ (running = "dfu" \/ other # "dfu")
     \/ pc \notin {"find", "wait"}
  /\ Tool
  /\ UNCHANGED commandVars

(* find_ubertooth_dfu_device opens the first DFU device on the bus.        *)
OpenOther ==
  /\ step = "child" /\ pc \in {"find", "wait"} /\ other = "dfu"
  /\ step' = "astray" /\ strayed' = TRUE
  /\ UNCHANGED <<allVars, report, target, other>>

(* ubertooth_start(-1) refuses to choose between two application devices.  *)
RefuseTwo ==
  /\ step = "child" /\ pc = "find"
  /\ running = "application" /\ other = "application"
  /\ Exit("fail")
  /\ UNCHANGED <<vars, ret, functions, signed, devh, block, unsupported, faults, runs, losses>>
  /\ UNCHANGED commandVars

(* It opens the other one when ours is away; cmd_flash's result is ignored. *)
SwitchOther ==
  /\ step = "child" /\ pc = "find"
  /\ ~Attached /\ other = "application"
  /\ other' \in Mode
  /\ Goto("wait")
  /\ UNCHANGED <<vars, ret, functions, signed, devh, block, exit, unsupported, faults, runs, losses>>
  /\ UNCHANGED <<step, report, target, strayed>>

KillNever == FALSE   \* bug variant: execFile without a time limit

(* execFile's timeout (flashTimeoutMs) ends the child. *)
Kill ==
  /\ step = "child"
  /\ pc # "exited"
  /\ Exit("fail")
  /\ devh' = "none"
  /\ UNCHANGED <<vars, ret, functions, signed, block, unsupported, faults, runs, losses>>
  /\ UNCHANGED commandVars

(* runOfficialFlash and normalizeFlashProcessResult: the text "control     *)
(* message unsupported" outweighs the exit code.                           *)
ClassifyNoReturn ==   \* bug variant: a reset issue is reported, then polled as well
  /\ step = "child" /\ pc = "exited"
  /\ \/ unsupported /\ step' = "reconnect" /\ report' = "recovery_required"
     \/ ~unsupported /\ exit = "success" /\ step' = "reconnect" /\ UNCHANGED report
     \/ ~unsupported /\ exit = "fail" /\ Report("failed")
  /\ UNCHANGED <<allVars, target, other, strayed>>

Classify ==
  /\ step = "child" /\ pc = "exited"
  /\ \/ unsupported /\ Report("recovery_required")
     \/ ~unsupported /\ exit = "success" /\ step' = "reconnect" /\ UNCHANGED report
     \/ ~unsupported /\ exit = "fail" /\ Report("failed")
  /\ UNCHANGED <<allVars, target, other, strayed>>

(* The same for the work on the other device, however that went and        *)
(* whether it ended or the time limit ended it.                            *)
ClassifyAstray ==
  /\ step = "astray"
  /\ \/ Report("recovery_required")
     \/ Report("failed")
     \/ step' = "reconnect" /\ UNCHANGED report
  /\ UNCHANGED <<allVars, target, other, strayed>>

(* performOfficialFlash: poll until a matching device is ready. *)
Reconnect ==
  /\ step = "reconnect"
  /\ \/ Matches /\ step' = "recovery" /\ UNCHANGED report
     \/ Report("reconnect_timeout")
  /\ UNCHANGED <<allVars, target, other, strayed>>

(* waitForFullRecovery: a matching device answers the vendor requests,     *)
(* which only the application does.                                        *)
RecoveryAny ==   \* bug variant: the poll of Reconnect is taken for the health check
  /\ step = "recovery"
  /\ Matches /\ Report("success")
  /\ UNCHANGED <<allVars, target, other, strayed>>

Recovery ==
  /\ step = "recovery"
  /\ \/ MatchesOurs /\ running = "application" /\ Report("success")
     \/ MatchesOther /\ other = "application" /\ Report("success")
     \/ Report("reconnect_timeout")
  /\ UNCHANGED <<allVars, target, other, strayed>>

(* It is plugged in or out, or changes its mode.                           *)
PlugOther ==
  /\ other' \in ({"absent"} \cup Mode) \ {other}
  /\ UNCHANGED <<allVars, step, report, target, strayed>>
-----------------------------------------------------------------------------
Command == Preflight \/ Spawn \/ Classify \/ ClassifyAstray \/ Reconnect \/ Recovery

Child == ChildTool \/ OpenOther \/ RefuseTwo \/ SwitchOther

Below == (DeviceStep \/ PowerStep) /\ UNCHANGED commandVars

FlashInit == /\ ToolInit /\ step = "preflight" /\ report = "none"
             /\ target = "none" /\ other = "absent" /\ strayed = FALSE

FlashNext == Command \/ Child \/ Kill \/ PlugOther \/ Below

(* node's event loop runs; the timer of execFile fires; the tool and the   *)
(* device run.                                                             *)
FlashSpec == /\ FlashInit /\ [][FlashNext]_flashVars
             /\ WF_flashVars(Command) /\ WF_flashVars(Kill)
             /\ WF_flashVars(Child)
             /\ WF_flashVars(DeviceStep /\ UNCHANGED commandVars)
-----------------------------------------------------------------------------
FlashTypeOK ==
  /\ ToolTypeOK
  /\ step \in {"preflight", "spawn", "child", "astray", "reconnect", "recovery", "done"}
  /\ report \in {"none", "guardrail", "failed", "recovery_required",
                 "reconnect_timeout", "success"}
  /\ report = "none" <=> step # "done"
  /\ target \in {"none"} \cup Mode
  /\ other \in {"absent"} \cup Mode
  /\ strayed \in BOOLEAN

Untouched == \A b \in Block : ~InBootloader(b) => flash[b] = "old"

(* docs/flashing.md: "success is only reported after the device comes back *)
(* healthy": over every tool failure, time limit, lost transfer and power  *)
(* cut, success is reported only when the new image is complete in our     *)
(* flash, or when the tool opened a second Ubertooth instead and ours is   *)
(* as it was; it never hides a part of an image.  The device that answered *)
(* the health check runs the application; it is ours or, while ours is     *)
(* away, the other one.                                                    *)
SuccessMeansUpdated ==
  [][report # "success" /\ report' = "success"
       => /\ running = "application" \/ (~Attached /\ other = "application")
          /\ IF strayed THEN Untouched ELSE Complete]_flashVars

(* The command always reports, although enter_dfu_mode never returns once  *)
(* the device has left the bus: the time limit ends the child.             *)
CommandReports == <>(report # "none")
=============================================================================
