------------------------ MODULE CaptureSession_proofs ------------------------
(***************************************************************************)
(* The flag captureActive keeps captures apart: proved for any number of   *)
(* calls and retries.  OneCapture is not inductive as it stands: that a    *)
(* call which starts to run finds no child but those of failed files needs *)
(* to know of every other call where its child can still be.               *)
(***************************************************************************)
EXTENDS CaptureSession, TLAPS

(* The flag is set whenever a call runs, at most one does, and a child     *)
(* outlives its call only after an error of the output file: a file that   *)
(* is being written to its end has lost its child.                         *)
FlagGuards == \A c \in Call : Running(c) => captureActive
OneRuns == \A c, d \in Call : Running(c) /\ Running(d) => c = d
ChildOwned == \A c \in Call : child[c] # "gone" => Running(c) \/ outcome[c] = "file error"
OutcomeLate == \A c \in Call : pc[c] # "settled" => outcome[c] = "none"
FileLast == \A c \in Call : pc[c] = "ending" => child[c] = "gone"

Apart == FlagGuards /\ OneRuns /\ ChildOwned /\ OutcomeLate /\ FileLast

Inv == CaptureTypeOK /\ Apart

(* The module starts in the invariant.                                     *)
LEMMA InitInv == Init => Inv
<1> SUFFICES ASSUME Init PROVE Inv
  OBVIOUS
<1>1. CaptureTypeOK
  <2>1. captureActive \in BOOLEAN /\ timed \in [Call -> BOOLEAN]
        /\ exported \in [Call -> BOOLEAN] /\ timer \in [Call -> BOOLEAN]
        /\ timedOut \in [Call -> BOOLEAN]
    BY Zenon DEF Init
  <2>2. retryCount \in [Call -> 0..maxRetries]
    BY RetryAssumption DEF Init
  <2>3. QED
    BY <2>1, <2>2 DEF Init, CaptureTypeOK
<1>2. Apart
  BY DEF Init, Apart, FlagGuards, OneRuns, ChildOwned, OutcomeLate, FileLast, Running
<1>3. QED
  BY <1>1, <1>2 DEF Inv

(* A retry that is permitted is counted in range.                          *)
LEMMA RetryRoom ==
  ASSUME NEW n \in 0..maxRetries, MayRetry(n) PROVE n + 1 \in 0..maxRetries
  BY RetryAssumption DEF MayRetry

(* The types, action by action. *)
LEMMA NextType == CaptureTypeOK /\ Next => CaptureTypeOK'
<1> SUFFICES ASSUME CaptureTypeOK, NEW c \in Call,
                    Busy(c) \/ Invalid(c) \/ Begin(c) \/ Retry(c) \/ TimeLimit(c)
                    \/ FileError(c) \/ SpawnError(c) \/ Close(c) \/ FileEnds(c) \/ Crash(c)
                    \/ LateClose(c)
             PROVE  CaptureTypeOK'
  BY DEF Next
<1> USE RetryAssumption DEF CaptureTypeOK
<1>1. CASE Busy(c)       BY <1>1 DEF Busy
<1>2. CASE Invalid(c)    BY <1>2 DEF Invalid
<1>3. CASE Begin(c)
  <2>1. timed' \in [Call -> BOOLEAN] /\ exported' \in [Call -> BOOLEAN]
    BY <1>3 DEF Begin
  <2>2. timed'[c] \in BOOLEAN
    BY <2>1
  <2>3. QED  BY <1>3, <2>1, <2>2 DEF Begin, Attempt
<1>4. CASE Retry(c)      BY <1>4 DEF Retry, Attempt
<1>5. CASE TimeLimit(c)  BY <1>5 DEF TimeLimit
<1>6. CASE FileError(c)  BY <1>6 DEF FileError, Settle
<1>7. CASE SpawnError(c) BY <1>7 DEF SpawnError, Settle
<1>8. CASE Close(c) \/ FileEnds(c)
  BY <1>8 DEF Close, ChildGone, FileEnds, Result, Settle
<1>9. CASE Crash(c)
  <2>1. CASE MayRetry(retryCount[c])
    <3>1. /\ retryCount' = [retryCount EXCEPT ![c] = @ + 1]
          /\ pc' = [pc EXCEPT ![c] = "delay"]
          /\ UNCHANGED <<captureActive, outcome, timed, exported, timedOut>>
      BY <1>9, <2>1, Zenon DEF Crash
    <3>2. retryCount[c] + 1 \in 0..maxRetries
      <4>1. retryCount[c] \in 0..maxRetries
        OBVIOUS
      <4>2. QED  BY <2>1, <4>1, RetryRoom, Zenon
    <3>3. retryCount' \in [Call -> 0..maxRetries]
      BY <3>1, <3>2, Zenon
    <3>4. child' \in [Call -> {"gone", "alive", "killed"}] /\ timer' \in [Call -> BOOLEAN]
      BY <1>9 DEF Crash, ChildGone
    <3>5. QED  BY <3>1, <3>3, <3>4
  <2>2. CASE ~MayRetry(retryCount[c])
    BY <1>9, <2>2 DEF Crash, ChildGone, Settle
  <2>3. QED  BY <2>1, <2>2
<1>10. CASE LateClose(c) BY <1>10 DEF LateClose, ChildGone
<1>11. QED
  BY <1>1, <1>2, <1>3, <1>4, <1>5, <1>6, <1>7, <1>8, <1>9, <1>10

(* A step of call c disturbs the other conjuncts only through the flag and *)
(* through c's own pc, outcome and child.                                  *)
LEMMA NextApart == Inv /\ Next => Apart'
<1> SUFFICES ASSUME Inv, Next PROVE Apart'
  OBVIOUS
<1>0. /\ DOMAIN pc = Call /\ DOMAIN outcome = Call /\ DOMAIN child = Call
      /\ pc = [c \in Call |-> pc[c]] /\ outcome = [c \in Call |-> outcome[c]]
      /\ child = [c \in Call |-> child[c]]
      /\ FlagGuards /\ OneRuns /\ ChildOwned /\ OutcomeLate /\ FileLast
  BY DEF Inv, CaptureTypeOK, Apart
<1> PICK c \in Call : Busy(c) \/ Invalid(c) \/ Begin(c) \/ Retry(c) \/ TimeLimit(c)
                      \/ FileError(c) \/ SpawnError(c) \/ Close(c) \/ FileEnds(c) \/ Crash(c)
                      \/ LateClose(c)
  BY DEF Next
<1> USE <1>0 DEF Apart, FlagGuards, OneRuns, ChildOwned, OutcomeLate, FileLast, Running
<1>1. CASE Busy(c)       BY <1>1 DEF Busy
<1>2. CASE Invalid(c)    BY <1>2 DEF Invalid
<1>3. CASE Begin(c)      BY <1>3 DEF Begin, Attempt
<1>4. CASE Retry(c)      BY <1>4 DEF Retry, Attempt
<1>5. CASE TimeLimit(c)  BY <1>5 DEF TimeLimit
<1>6. CASE FileError(c)  BY <1>6 DEF FileError, Settle
<1>7. CASE SpawnError(c) BY <1>7 DEF SpawnError, Settle
<1>8. CASE Close(c) \/ FileEnds(c)
  <2>1. CASE FileEnds(c)
    BY <2>1 DEF FileEnds, Settle
  <2>2. CASE Close(c) /\ ~exported[c]
    BY <2>2 DEF Close, ChildGone, Settle
  <2>3. CASE Close(c) /\ exported[c]
    <3>1. /\ pc' = [pc EXCEPT ![c] = "ending"] /\ UNCHANGED <<captureActive, outcome>>
          /\ child' = [child EXCEPT ![c] = "gone"] /\ pc[c] = "attempt"
      BY <2>3, Zenon DEF Close, ChildGone
    <3>2. QED  BY <3>1
  <2>4. QED  BY <1>8, <2>1, <2>2, <2>3
<1>9. CASE Crash(c)
  <2>1. CASE MayRetry(retryCount[c])
    <3>1. pc' = [pc EXCEPT ![c] = "delay"] /\ UNCHANGED <<captureActive, outcome>>
      BY <1>9, <2>1, Zenon DEF Crash
    <3>2. pc[c] = "attempt" /\ child' = [child EXCEPT ![c] = "gone"]
      BY <1>9 DEF Crash, ChildGone
    <3>3. QED  BY <3>1, <3>2
  <2>2. CASE ~MayRetry(retryCount[c])  BY <1>9, <2>2 DEF Crash, ChildGone, Settle
  <2>3. QED  BY <2>1, <2>2
<1>10. CASE LateClose(c) BY <1>10 DEF LateClose, ChildGone
<1>11. QED
  BY <1>1, <1>2, <1>3, <1>4, <1>5, <1>6, <1>7, <1>8, <1>9, <1>10

(* A stuttering step keeps the invariant.                                  *)
LEMMA StutterInv == Inv /\ UNCHANGED vars => Inv'
<1> SUFFICES ASSUME Inv, UNCHANGED vars PROVE Inv'
  OBVIOUS
<1> USE DEF vars
<1>1. CaptureTypeOK'
  BY DEF Inv, CaptureTypeOK
<1>2. Apart'
  BY DEF Inv, Apart, FlagGuards, OneRuns, ChildOwned, OutcomeLate, FileLast, Running
<1>3. QED
  BY <1>1, <1>2 DEF Inv

(* Spec is stronger than Init /\ [][Next]_vars; its fairness is not used. *)
LEMMA Invariance == Spec => []Inv
<1>1. Inv /\ [Next]_vars => Inv'
  BY NextType, NextApart, StutterInv DEF Inv
<1>2. Init => Inv
  BY InitInv
<1>3. (Init /\ [][Next]_vars) => []Inv
  BY <1>1, <1>2, PTL
<1>4. QED
  BY <1>3, PTL DEF Spec

(* Every variable of runLiveBleInspector and its attempts keeps its type;  *)
(* no call retries more than maxRetries times.                             *)
THEOREM TypeCorrect == Spec => []CaptureTypeOK
<1>1. Inv => CaptureTypeOK
  BY DEF Inv
<1>2. QED
  BY <1>1, Invariance, PTL

(* While a capture runs the flag is set, no other capture runs, and the    *)
(* only other children left are those whose output file failed.            *)
THEOREM CapturesApart == Spec => []OneCapture
<1>1. Inv => OneCapture
  BY DEF Inv, Apart, OneCapture, FlagGuards, OneRuns, ChildOwned
<1>2. QED
  BY <1>1, Invariance, PTL

-----------------------------------------------------------------------------
(* The abstract state a step of call c leaves: c's place decides it. *)
LEMMA Moved ==
  ASSUME NEW c \in Call, CaptureTypeOK, NEW place,
         pc' = [pc EXCEPT ![c] = place]
  PROVE  /\ {d \in Call : pc'[d] \in {"attempt", "ending", "delay"}} =
              ({d \in Call : pc[d] \in {"attempt", "ending", "delay"}} \ {c})
              \cup (IF place \in {"attempt", "ending", "delay"} THEN {c} ELSE {})
         /\ {d \in Call : pc'[d] = "settled"} =
              ({d \in Call : pc[d] = "settled"} \ {c})
              \cup (IF place = "settled" THEN {c} ELSE {})
  BY DEF CaptureTypeOK

(* Every step maps to a step of the abstract specification or to none. *)
LEMMA StepImplements == Inv /\ Next => [Sessions!Next]_(Sessions!vars)
<1> SUFFICES ASSUME Inv, NEW c \in Call,
                    Busy(c) \/ Invalid(c) \/ Begin(c) \/ Retry(c) \/ TimeLimit(c)
                    \/ FileError(c) \/ SpawnError(c) \/ Close(c) \/ FileEnds(c) \/ Crash(c)
                    \/ LateClose(c)
             PROVE  [Sessions!Next]_(Sessions!vars)
  BY DEF Next
<1> DEFINE run == {d \in Call : Running(d)}
           done == {d \in Call : pc[d] = "settled"}
<1>0. CaptureTypeOK /\ FlagGuards /\ OneRuns
  BY DEF Inv, Apart
<1>1. ASSUME pc[c] = "idle", pc' = [pc EXCEPT ![c] = "settled"]
      PROVE  Sessions!TurnAway(c)
  <2>1. run' = run /\ done' = done \cup {c} /\ c \notin run \cup done
    BY <1>0, <1>1, Moved DEF Running
  <2>2. QED  BY <2>1 DEF Sessions!TurnAway
<1>2. ASSUME Running(c), pc' = [pc EXCEPT ![c] = "settled"]
      PROVE  Sessions!Finish(c)
  <2>1. run' = run \ {c} /\ done' = done \cup {c} /\ c \in run
    BY <1>0, <1>2, Moved DEF Running
  <2>2. QED  BY <2>1 DEF Sessions!Finish
<1>3. ASSUME pc[c] = "idle", ~captureActive, pc' = [pc EXCEPT ![c] = "attempt"]
      PROVE  Sessions!Start(c)
  <2>1. run = {}
    BY <1>0, <1>3 DEF FlagGuards
  <2>2. run' = {c} /\ done' = done /\ c \notin done
    BY <1>0, <1>3, <2>1, Moved DEF Running
  <2>3. QED  BY <2>1, <2>2 DEF Sessions!Start
<1>4. ASSUME Running(c), NEW place \in {"attempt", "ending", "delay"}, pc' = [pc EXCEPT ![c] = place]
      PROVE  UNCHANGED Sessions!vars
  <2>1. run' = run /\ done' = done
    BY <1>0, <1>4, Moved DEF Running
  <2>2. QED  BY <2>1 DEF Sessions!vars
<1>5. ASSUME UNCHANGED pc PROVE UNCHANGED Sessions!vars
  BY <1>5 DEF Sessions!vars, Running
<1>6. CASE Busy(c) \/ Invalid(c)
  BY <1>1, <1>6 DEF Busy, Invalid, Sessions!Next
<1>7. CASE Begin(c)
  BY <1>3, <1>7 DEF Begin, Attempt, Sessions!Next
<1>8. CASE Retry(c)
  BY <1>4, <1>8 DEF Retry, Attempt, Running
<1>9. CASE TimeLimit(c) \/ LateClose(c)
  BY <1>5, <1>9 DEF TimeLimit, LateClose
<1>10. CASE FileError(c) \/ SpawnError(c) \/ Close(c) \/ FileEnds(c)
  <2>1. Running(c)
    BY <1>10 DEF FileError, SpawnError, Close, FileEnds, Running
  <2>2. pc' = [pc EXCEPT ![c] = "ending"] \/ pc' = [pc EXCEPT ![c] = "settled"]
    BY <1>10 DEF FileError, SpawnError, Close, FileEnds, Settle
  <2>3. QED  BY <1>2, <1>4, <2>1, <2>2 DEF Sessions!Next
<1>11. CASE Crash(c)
  <2>1. Running(c)
    BY <1>11 DEF Crash, Running
  <2>2. pc' = [pc EXCEPT ![c] = "delay"] \/ pc' = [pc EXCEPT ![c] = "settled"]
    BY <1>11 DEF Crash, Settle
  <2>3. QED  BY <1>2, <1>4, <2>1, <2>2 DEF Sessions!Next
<1>12. QED
  BY <1>6, <1>7, <1>8, <1>9, <1>10, <1>11

(* runLiveBleInspector, with its attempts, retries, time limits and events *)
(* that come late, is a service that runs one session at a time.           *)
THEOREM OneSession == Spec => ImplementsSessions
<1>1. Init => Sessions!Init
  BY DEF Init, Sessions!Init, Running
<1>2. Inv /\ [Next]_vars => [Sessions!Next]_(Sessions!vars)
  <2>1. UNCHANGED vars => UNCHANGED Sessions!vars
    BY DEF vars, Sessions!vars, Running
  <2>2. QED  BY <2>1, StepImplements
<1>3. (Init /\ [][Next]_vars) /\ []Inv => Sessions!Spec
  BY <1>1, <1>2, PTL DEF Sessions!Spec
<1>4. QED
  BY <1>3, Invariance, PTL DEF Spec, ImplementsSessions
=============================================================================
