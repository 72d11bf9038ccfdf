--------------------------- MODULE CaptureSession ---------------------------
(***************************************************************************)
(* runLiveBleInspector and attemptCapture (packages/capture-export/src/    *)
(* liveBleInspector.js): one ubertooth-btle child per attempt, a time      *)
(* limit per attempt, retries after a crash, and the module variable       *)
(* captureActive that keeps a second capture of the same process out.      *)
(*                                                                         *)
(* Node runs one callback at a time, and a settled promise's continuations *)
(* (the catch, the finally) before the next one: an action is a callback   *)
(* with everything that follows from it in that turn.  Each member of Call *)
(* is one call of runLiveBleInspector by the process.                      *)
(***************************************************************************)
EXTENDS Naturals

CONSTANTS
  Call,         \* the calls the process makes, in any order and overlap
  maxRetries

ASSUME RetryAssumption == maxRetries \in Nat

VARIABLES
  captureActive,
  pc,           \* of each call: not made, in an attempt, ending its file, in the retry
                \* delay, settled
  outcome,      \* how it settled
  timed,        \* it has a time limit
  exported,     \* it writes a text file
  retryCount,
  timer,        \* the attempt's timer is pending
  timedOut,     \* the attempt's timer has fired
  child         \* its latest child: gone, alive, or sent a kill and not gone yet

vars == <<captureActive, pc, outcome, timed, exported, retryCount, timer, timedOut, child>>

Running(c) == pc[c] \in {"attempt", "ending", "delay"}

(* The promise of a call that holds the flag settles; the finally runs. *)
Settle(c, how) ==
  /\ pc' = [pc EXCEPT ![c] = "settled"]
  /\ outcome' = [outcome EXCEPT ![c] = how]
  /\ captureActive' = FALSE
-----------------------------------------------------------------------------
(* captureActive was set by another call: UBT-CAP-BUSY. *)
BusyReleased(c) ==   \* bug variant: the check is inside the try, the finally runs
  /\ pc[c] = "idle" /\ captureActive
  /\ Settle(c, "busy")
  /\ UNCHANGED <<timed, exported, retryCount, timer, timedOut, child>>

Busy(c) ==
  /\ pc[c] = "idle"
  /\ captureActive
  /\ pc' = [pc EXCEPT ![c] = "settled"]
  /\ outcome' = [outcome EXCEPT ![c] = "busy"]
  /\ UNCHANGED <<captureActive, timed, exported, retryCount, timer, timedOut, child>>

(* A bad channel, time limit or output directory throws after the flag is  *)
(* set and before the try whose finally resets it.                         *)
Invalid(c) ==
  /\ pc[c] = "idle"
  /\ ~captureActive
  /\ captureActive' = TRUE
  /\ pc' = [pc EXCEPT ![c] = "settled"]
  /\ outcome' = [outcome EXCEPT ![c] = "invalid"]
  /\ UNCHANGED <<timed, exported, retryCount, timer, timedOut, child>>

AttemptUntimed(c, hasLimit) ==   \* bug variant: the timer is set in the first attempt only
  /\ pc' = [pc EXCEPT ![c] = "attempt"]
  /\ child' = [child EXCEPT ![c] = "alive"]
  /\ timer' = [timer EXCEPT ![c] = hasLimit /\ pc[c] = "idle"]
  /\ timedOut' = [timedOut EXCEPT ![c] = FALSE]

Attempt(c, hasLimit) ==
  /\ pc' = [pc EXCEPT ![c] = "attempt"]
  /\ child' = [child EXCEPT ![c] = "alive"]
  /\ timer' = [timer EXCEPT ![c] = hasLimit]
  /\ timedOut' = [timedOut EXCEPT ![c] = FALSE]

Begin(c) ==
  /\ pc[c] = "idle"
  /\ ~captureActive
  /\ captureActive' = TRUE
  /\ timed' \in {[timed EXCEPT ![c] = b] : b \in BOOLEAN}
  /\ exported' \in {[exported EXCEPT ![c] = b] : b \in BOOLEAN}
  /\ Attempt(c, timed'[c])
  /\ UNCHANGED <<outcome, retryCount>>

(* setTimeout's callback: the child is told to end. *)
TimeLimit(c) ==
  /\ pc[c] = "attempt"
  /\ timer[c]
  /\ timer' = [timer EXCEPT ![c] = FALSE]
  /\ timedOut' = [timedOut EXCEPT ![c] = TRUE]
  /\ child' = [child EXCEPT ![c] = "killed"]
  /\ UNCHANGED <<captureActive, pc, outcome, timed, exported, retryCount>>

(* 'error' of the output stream: the promise rejects at once, the child    *)
(* has only been told to end, if it has not ended before.  The error is    *)
(* not retryable.                                                          *)
FileError(c) ==
  /\ pc[c] \in {"attempt", "ending"}
  /\ exported[c]
  /\ timer' = [timer EXCEPT ![c] = FALSE]
  /\ child' = [child EXCEPT ![c] = IF @ = "gone" THEN "gone" ELSE "killed"]
  /\ Settle(c, "file error")
  /\ UNCHANGED <<timed, exported, retryCount, timedOut>>

(* 'error' of the child: it could not be started. *)
SpawnError(c) ==
  /\ pc[c] = "attempt"
  /\ child[c] = "alive"
  /\ timer' = [timer EXCEPT ![c] = FALSE]
  /\ child' = [child EXCEPT ![c] = "gone"]
  /\ Settle(c, "not started")
  /\ UNCHANGED <<timed, exported, retryCount, timedOut>>

(* 'close' of the child: a result after the time limit or exit code 0,     *)
(* when the output file, if there is one, has been written to its end; a   *)
(* retry after a crash, and UBT-CAP-002 when there were enough of them.    *)
(* The promise of a file error has settled before.                         *)
ChildGone(c) ==
  /\ child[c] \in {"alive", "killed"}
  /\ child' = [child EXCEPT ![c] = "gone"]
  /\ timer' = [timer EXCEPT ![c] = FALSE]

Result(c) == IF timedOut[c] THEN "timed out" ELSE "finished"

Close(c) ==
  /\ ChildGone(c)
  /\ pc[c] = "attempt"
  /\ \/ ~exported[c] /\ Settle(c, Result(c))
     \/ exported[c] /\ pc' = [pc EXCEPT ![c] = "ending"] /\ UNCHANGED <<captureActive, outcome>>
  /\ UNCHANGED <<timed, exported, retryCount, timedOut>>

(* the callback of fileStream.end *)
FileEnds(c) ==
  /\ pc[c] = "ending"
  /\ Settle(c, Result(c))
  /\ UNCHANGED <<timed, exported, retryCount, timer, timedOut, child>>

MayRetryOnceMore(n) == n <= maxRetries   \* bug variant: off by one
MayRetry(n) == n < maxRetries

Crash(c) ==
  /\ ChildGone(c)
  /\ pc[c] = "attempt" /\ ~timedOut[c]
  /\ \/ /\ MayRetry(retryCount[c])
        /\ retryCount' = [retryCount EXCEPT ![c] = @ + 1]
        /\ pc' = [pc EXCEPT ![c] = "delay"]
        /\ UNCHANGED <<captureActive, outcome>>
     \/ /\ ~MayRetry(retryCount[c])
        /\ Settle(c, "crashed")
        /\ UNCHANGED retryCount
  /\ UNCHANGED <<timed, exported, timedOut>>

LateClose(c) ==
  /\ ChildGone(c)
  /\ pc[c] = "settled"
  /\ UNCHANGED <<captureActive, pc, outcome, timed, exported, retryCount, timedOut>>

Retry(c) ==
  /\ pc[c] = "delay"
  /\ Attempt(c, timed[c])
  /\ UNCHANGED <<captureActive, outcome, timed, exported, retryCount>>
-----------------------------------------------------------------------------
Init ==
  /\ captureActive = FALSE
  /\ pc = [c \in Call |-> "idle"]
  /\ outcome = [c \in Call |-> "none"]
  /\ timed = [c \in Call |-> FALSE]
  /\ exported = [c \in Call |-> FALSE]
  /\ retryCount = [c \in Call |-> 0]
  /\ timer = [c \in Call |-> FALSE]
  /\ timedOut = [c \in Call |-> FALSE]
  /\ child = [c \in Call |-> "gone"]

Next ==
  \E c \in Call :
    \/ Busy(c) \/ Invalid(c) \/ Begin(c) \/ Retry(c) \/ TimeLimit(c)
    \/ FileError(c) \/ SpawnError(c) \/ Close(c) \/ FileEnds(c) \/ Crash(c) \/ LateClose(c)

(* Timers fire, a child that was told to end does and a file is written or *)
(* fails (the operating system's doing).  A child that was not told may    *)
(* run for ever.                                                           *)
Spec ==
  /\ Init /\ [][Next]_vars
  /\ \A c \in Call : /\ WF_vars(TimeLimit(c)) /\ WF_vars(Retry(c)) /\ WF_vars(FileEnds(c))
                     /\ WF_vars(child[c] = "killed" /\ (Close(c) \/ LateClose(c)))
-----------------------------------------------------------------------------
CaptureTypeOK ==
  /\ captureActive \in BOOLEAN
  /\ pc \in [Call -> {"idle", "attempt", "ending", "delay", "settled"}]
  /\ outcome \in [Call -> {"none", "busy", "invalid", "file error", "not started",
                           "timed out", "finished", "crashed"}]
  /\ timed \in [Call -> BOOLEAN] /\ exported \in [Call -> BOOLEAN]
  /\ retryCount \in [Call -> 0..maxRetries]
  /\ timer \in [Call -> BOOLEAN] /\ timedOut \in [Call -> BOOLEAN]
  /\ child \in [Call -> {"gone", "alive", "killed"}]

(* captureActive keeps captures apart: while one is in an attempt or waits *)
(* for its next one the flag is set, no other capture is running, and the  *)
(* only other child that may be left is one whose output file failed.      *)
OneCapture ==
  \A c \in Call : Running(c) =>
    /\ captureActive
    /\ \A d \in Call \ {c} : ~Running(d) /\ (child[d] # "gone" => outcome[d] = "file error")

(* CaptureSession implements OneAtATime: a capture with all its attempts,  *)
(* retries and late events is one session.                                 *)
Sessions == INSTANCE OneAtATime WITH
  session <- {c \in Call : Running(c)},
  settled <- {c \in Call : pc[c] = "settled"}

ImplementsSessions == Sessions!Spec

(* A capture with a time limit settles, through every sequence of crashes  *)
(* and retries: each attempt has a timer of its own.                       *)
TimedCaptureSettles ==
  \A c \in Call : (timed[c] /\ Running(c)) ~> (pc[c] = "settled")

(* errors.js says of UBT-CAP-BUSY: "A capture session is already running   *)
(* in this process. Wait for it to finish".  After an invalid option the   *)
(* flag stays set with no session running, and waiting does not help.      *)
BusyMeansRunning ==
  [][\A c \in Call : (outcome[c] # "busy" /\ outcome'[c] = "busy")
        => \E d \in Call : Running(d)]_vars
=============================================================================
