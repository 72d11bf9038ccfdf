----------------------------- MODULE ResetCommand -----------------------------
(***************************************************************************)
(* The reset command (core-usb/src/resetDevice.js, performGuardedReset)    *)
(* against the firmware it resets.  The command is one more host tool: it  *)
(* sends the RESET request, sleeps, and probes until it sees the device or *)
(* its time is up.                                                         *)
(***************************************************************************)
EXTENDS UbertoothFirmware

VARIABLES
  cli,         \* where performGuardedReset is
  rebooted     \* ghost: has the device left the bus since the request

vars == <<fw, cli, rebooted>>

ResetInit == Init /\ cli = "start" /\ rebooted = FALSE

(* The guards have found one ready device, and its interface takes RESET. *)
DispatchReset ==
  /\ cli = "start" /\ at # "boot" /\ pending = None
  /\ pending' = "RESET"
  /\ cli' = "dispatched"
  /\ UNCHANGED <<at, mode, requested_mode, target_set, queue, ep, status, dma,
                 rx_tc, usb_irq, slot, sent, count, missed, last, rebooted>>

(* The transfer is over (the command does not look at how it ended); it    *)
(* sleeps, and starts to probe.                                            *)
Dispatched ==
  /\ cli = "dispatched" /\ pending = None
  /\ cli' = "probing"
  /\ UNCHANGED <<fw, rebooted>>

(* The first probe comes a second and the start of a PowerShell after the  *)
(* request: a firmware that is going to reset has left the bus by then.    *)
Probed == requested_mode # "RESET" \/ Deaf

(* A device that is on the bus at a probe is taken to have reappeared. *)
Reappeared ==
  /\ cli = "probing" /\ Probed /\ at # "boot"
  /\ cli' = "successful"
  /\ UNCHANGED <<fw, rebooted>>

(* reconnectTimeoutMs goes by and no probe saw the device. *)
TimedOut ==
  /\ cli = "probing" /\ Probed /\ at = "boot"
  /\ cli' = "failed"
  /\ UNCHANGED <<fw, rebooted>>

Command == DispatchReset \/ Dispatched \/ Reappeared \/ TimedOut

ResetNext ==
  \/ Command
  \/ Next /\ rebooted' = (rebooted \/ (cli # "start" /\ at' = "boot")) /\ UNCHANGED cli

ResetSpec == ResetInit /\ [][ResetNext]_vars /\ Fairness
             /\ WF_vars(Dispatched) /\ WF_vars(Reappeared \/ TimedOut)

-----------------------------------------------------------------------------
(* "Device must disconnect and reappear": a reset that is reported as      *)
(* successful has taken the device off the bus.                            *)
SuccessMeansReset == cli = "successful" => rebooted

=============================================================================
