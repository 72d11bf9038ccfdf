------------------------------ MODULE DfuUpdate ------------------------------
(***************************************************************************)
(* What ubertooth-dfu promises its user, whatever the bus and the power    *)
(* supply do: the abstract specification DfuTool implements.               *)
(*                                                                         *)
(* A run writes to the image only when it was told to download, and leaves *)
(* it alone otherwise: a run that only uploads or only resets, a run that  *)
(* has not found a device or whose file is rejected, and a device that no  *)
(* tool talks to.  A download that succeeds without a warning leaves the   *)
(* complete image.                                                         *)
(***************************************************************************)
VARIABLES
  image,       \* the content of the image's blocks
  complete,    \* whether all of them hold the file's
  run,         \* what is under way, or how the last run ended
  warned       \* the run has printed a warning

vars == <<image, complete, run, warned>>

Active == {"reading", "downloading"}
Ended == {"none", "failed", "succeeded"}

Init == ~complete /\ run = "none" /\ ~warned

(* The user starts a run. *)
Start ==
  /\ run \in Ended
  /\ run' \in Active
  /\ ~warned'
  /\ UNCHANGED <<image, complete>>

(* A step that leaves the image alone, and may fail the run.  A warning    *)
(* stands until the next run.                                              *)
Step ==
  /\ run \in Active
  /\ run' \in {run, "failed"}
  /\ warned => warned'
  /\ UNCHANGED <<image, complete>>

(* The device writes, erases, or loses power while it does. *)
Write ==
  /\ run = "downloading"
  /\ run' \in {run, "failed"}
  /\ warned => warned'

Succeed ==
  /\ run \in Active
  /\ run = "downloading" /\ ~warned => complete
  /\ run' = "succeeded"
  /\ UNCHANGED <<image, complete, warned>>

Next == Start \/ Step \/ Write \/ Succeed

Spec == Init /\ [][Next]_vars
=============================================================================
