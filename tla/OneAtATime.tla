----------------------------- MODULE OneAtATime -----------------------------
(***************************************************************************)
(* What captureActive is for: one session of a process at a time.  A call  *)
(* starts a session when there is none, or is turned away; a session ends  *)
(* once and its call never starts another.                                 *)
(***************************************************************************)
CONSTANT Call

VARIABLES
  session,     \* the calls with a session
  settled      \* the calls that have been answered

vars == <<session, settled>>

Init == session = {} /\ settled = {}

Start(c) ==
  /\ session = {} /\ c \notin settled
  /\ session' = {c}
  /\ UNCHANGED settled

TurnAway(c) ==
  /\ c \notin session \cup settled
  /\ settled' = settled \cup {c}
  /\ UNCHANGED session

Finish(c) ==
  /\ c \in session
  /\ session' = session \ {c} /\ settled' = settled \cup {c}

Next == \E c \in Call : Start(c) \/ TurnAway(c) \/ Finish(c)

Spec == Init /\ [][Next]_vars
=============================================================================
