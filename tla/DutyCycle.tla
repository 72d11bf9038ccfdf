----------------------------- MODULE DutyCycle -----------------------------
(***************************************************************************)
(* The transmission guard of the CLI (packages/cli/src/                    *)
(* ubertoothExeRunner.js).  Every invocation of a transmission command is  *)
(* a node process of its own; what they share is duty-cycle.json, the list *)
(* of past transmissions, and the radio.  The guard reads the list before  *)
(* the tool starts and appends to it after the tool has ended.             *)
(*                                                                         *)
(* Within a process the code runs without interruption between two         *)
(* callbacks; between two processes every file access is a point of        *)
(* interleaving.  A process here is a terminal: it runs one invocation     *)
(* after the other.  An invocation refused by the antenna guard changes    *)
(* nothing; the ones below have confirmed the antenna.                     *)
(*                                                                         *)
(* Time passes in units; Limit and Window are the 60 seconds and the hour. *)
(* The synchronous parts of the code take none of it.                      *)
(***************************************************************************)
EXTENDS Naturals, Sequences, FiniteSets, SequencesExt

CONSTANTS
  Process,    \* terminals
  Limit,      \* DUTY_CYCLE_LIMIT_SECONDS
  Window,     \* DUTY_CYCLE_WINDOW_MS
  MaxTx,      \* the longest transmission: the timeout the user gives
  MaxTime,    \* when the clock stops
  MaxRuns,    \* how many invocations the guard lets pass
  MaxKills    \* how often a process is ended from outside (Ctrl-C, a crash)

ASSUME DutyAssumption ==
  /\ Limit \in Nat \ {0} /\ Window \in Nat /\ MaxTx \in Nat \ {0}
  /\ MaxTime \in Nat /\ MaxRuns \in Nat /\ MaxKills \in Nat

VARIABLES
  now,        \* Date.now()
  file,       \* duty-cycle.json as a reader gets it: getDutyCycleDataSync
              \* takes a file that is absent, empty or not JSON for no entries
  pc,         \* where each process is
  after,      \* where it goes after saving
  data,       \* the list it is about to save
  startTime,  \* of its transmission
  child,      \* whether its tool transmits
  aired,      \* history: <<start, unit>> for every unit its tool has
              \* transmitted, kept as long as nothing was disturbed
  disturbed,  \* history: two invocations have overlapped, or one was killed
  runs, kills

vars == <<now, file, pc, after, data, startTime, child, aired, disturbed, runs, kills>>

Record == [timestamp : 0..MaxTime, seconds : 0..MaxTime]
-----------------------------------------------------------------------------
Recent(tx) == tx.timestamp + Window > now

Kept(list) == FoldLeft(LAMBDA kept, tx : IF Recent(tx) THEN Append(kept, tx) ELSE kept,
                       <<>>, list)

Usage(list) == FoldSeq(LAMBDA tx, sum : tx.seconds + sum, 0, list)

RefusesLate(usage) == usage > Limit   \* bug variant: off by one at the limit
Refuses(usage) == usage >= Limit

DurationSwapped(p) == startTime[p] - now   \* bug variant: operands in the wrong order
Duration(p) == now - startTime[p]

RecordedAlone(list, tx) == <<tx>>   \* bug variant: the list is replaced
Recorded(list, tx) == Append(list, tx)

Save(p, list, next) ==
  /\ data' = [data EXCEPT ![p] = list]
  /\ pc' = [pc EXCEPT ![p] = "truncate"]
  /\ after' = [after EXCEPT ![p] = next]
-----------------------------------------------------------------------------
(* checkHardwareSafety: refuse, or save the list without the old entries *)
Check(p) ==
  /\ pc[p] = "idle"
  /\ runs < MaxRuns /\ runs' = runs + 1
  /\ ~Refuses(Usage(Kept(file)))
  /\ Save(p, Kept(file), "spawn")
  /\ disturbed' = (disturbed \/ \E q \in Process \ {p} : pc[q] # "idle")
  /\ UNCHANGED <<now, file, startTime, child, aired, kills>>

(* saveDutyCycleDataSync: writeFileSync empties the file, then fills it. *)
Truncate(p) ==
  /\ pc[p] = "truncate"
  /\ file' = <<>>
  /\ pc' = [pc EXCEPT ![p] = "fill"]
  /\ UNCHANGED <<now, after, data, startTime, child, aired, disturbed, runs, kills>>

(* A saved early record is followed by child.kill(). *)
Fill(p) ==
  /\ pc[p] = "fill"
  /\ file' = data[p]
  /\ pc' = [pc EXCEPT ![p] = after[p]]
  /\ data' = [data EXCEPT ![p] = <<>>]
  /\ child' = [child EXCEPT ![p] = IF after[p] = "close" THEN "off" ELSE @]
  /\ UNCHANGED <<now, after, startTime, aired, disturbed, runs, kills>>

(* runUbertoothExe: the tool opens the radio, which has one user at a time *)
(* (libusb claims the interface), or it never gets to transmit.            *)
Spawn(p) ==
  /\ pc[p] = "spawn"
  /\ startTime' = [startTime EXCEPT ![p] = now]
  /\ pc' = [pc EXCEPT ![p] = "watch"]
  /\ \/ (\A q \in Process : child[q] = "off") /\ child' = [child EXCEPT ![p] = "on"]
     \/ UNCHANGED child
  /\ UNCHANGED <<now, file, after, data, aired, disturbed, runs, kills>>

(* The tool is done, fails, or the timer kills it. *)
ChildEnds(p) ==
  /\ child[p] = "on"
  /\ child' = [child EXCEPT ![p] = "off"]
  /\ UNCHANGED <<now, file, pc, after, data, startTime, aired, disturbed, runs, kills>>

StampEnd(p) == now   \* bug variant: the entry carries the time it is written
Stamp(p) == startTime[p]

ThisTx(p) == [timestamp |-> Stamp(p), seconds |-> Duration(p)]

(* 'error' of the output file, or of the child: cleanup, then kill *)
EarlyRecord(p) ==
  /\ pc[p] = "watch"
  /\ Save(p, Recorded(file, ThisTx(p)), "close")
  /\ UNCHANGED <<now, file, startTime, child, aired, disturbed, runs, kills>>

(* 'close' of the child: cleanup, a second time after an early one.  The   *)
(* process is done, or still ends an output file that is going to fail; a  *)
(* file written to its end changes nothing more.                           *)
CloseRecord(p) ==
  /\ pc[p] \in {"watch", "close"} /\ child[p] = "off"
  /\ \E next \in {"idle", "ending"} : Save(p, Recorded(file, ThisTx(p)), next)
  /\ UNCHANGED <<now, file, startTime, child, aired, disturbed, runs, kills>>

(* 'error' of the output file after the 'close': cleanup once more; the    *)
(* kill finds no child                                                     *)
LateRecord(p) ==
  /\ pc[p] = "ending"
  /\ Save(p, Recorded(file, ThisTx(p)), "idle")
  /\ UNCHANGED <<now, file, startTime, child, aired, disturbed, runs, kills>>

(* The process and its tool are ended from outside; no handler runs. *)
Killed(p) ==
  /\ kills < MaxKills /\ kills' = kills + 1
  /\ pc[p] # "idle"
  /\ pc' = [pc EXCEPT ![p] = "idle"]
  /\ data' = [data EXCEPT ![p] = <<>>]
  /\ child' = [child EXCEPT ![p] = "off"]
  /\ disturbed' = TRUE
  /\ UNCHANGED <<now, file, after, startTime, aired, runs>>

Tick ==
  /\ now < MaxTime
  /\ \A p \in Process : pc[p] \in {"idle", "watch", "close", "ending"}
  /\ \A p \in Process : child[p] = "on" => now - startTime[p] < MaxTx
  /\ now' = now + 1
  /\ aired' = [p \in Process |->
                 IF disturbed THEN {}
                 ELSE aired[p] \cup (IF child[p] = "on" THEN {<<startTime[p], now>>} ELSE {})]
  /\ UNCHANGED <<file, pc, after, data, startTime, child, disturbed, runs, kills>>
-----------------------------------------------------------------------------
Init ==
  /\ now = 0 /\ file = <<>> /\ runs = 0 /\ kills = 0
  /\ pc = [p \in Process |-> "idle"]
  /\ after = [p \in Process |-> "idle"]
  /\ data = [p \in Process |-> <<>>]
  /\ startTime = [p \in Process |-> 0]
  /\ child = [p \in Process |-> "off"]
  /\ aired = [p \in Process |-> {}] /\ disturbed = FALSE

Next ==
  \/ Tick
  \/ \E p \in Process :
       \/ Check(p) \/ Truncate(p) \/ Fill(p) \/ Spawn(p)
       \/ ChildEnds(p) \/ EarlyRecord(p) \/ CloseRecord(p)
       \/ LateRecord(p) \/ Killed(p)

Spec == Init /\ [][Next]_vars
-----------------------------------------------------------------------------
(* Units the radio has transmitted in the last Window, and those among     *)
(* them of transmissions that started in it.                               *)
OnAir == UNION {aired[p] : p \in Process}
Airtime == Cardinality({a \in OnAir : a[2] + Window >= now})
StartedAirtime == Cardinality({a \in OnAir : a[1] + Window > now})

DutyTypeOK ==
  /\ now \in 0..MaxTime /\ runs \in 0..MaxRuns /\ kills \in 0..MaxKills
  /\ file \in Seq(Record)
  /\ pc \in [Process -> {"idle", "truncate", "fill", "spawn", "watch", "close", "ending"}]
  /\ after \in [Process -> {"idle", "spawn", "close", "ending"}]
  /\ data \in [Process -> Seq(Record)]
  /\ startTime \in [Process -> 0..MaxTime]
  /\ child \in [Process -> {"on", "off"}]
  /\ aired \in [Process -> SUBSET ((0..MaxTime) \X (0..MaxTime))]
  /\ disturbed \in BOOLEAN

(* docs/behaviors.test.md: "Must verify duty-cycle limit (<60s/hour)       *)
(* before execution".  When the radio starts to transmit, the              *)
(* transmissions that started in the last hour add up to less than the     *)
(* limit, although the list is read, cleaned and extended in three places  *)
(* and a failing output file makes cleanup run again; as long as no two    *)
(* invocations overlapped and none was killed.                             *)
RefusedOverLimit ==
  [][\A p \in Process : (child[p] = "off" /\ child'[p] = "on" /\ ~disturbed)
       => StartedAirtime < Limit]_vars

(* What the guard gives, one invocation at a time: an hour holds what it   *)
(* let pass (less than the limit) and one transmission more.  The entry of *)
(* a transmission leaves the list an hour after its start, when its end    *)
(* may still be in the hour; that never adds to the overshoot, for the     *)
(* units that count again are as many as the new transmission has left.    *)
RollingBound == disturbed \/ Airtime <= (Limit - 1) + MaxTx

(* Nobody is refused an hour after the last transmission started, however  *)
(* invocations overlap, are killed in the middle of a save, or record      *)
(* twice: no entry is younger than the latest start.                       *)
NoRefusalAfterRest ==
  (\A p \in Process : startTime[p] + Window <= now) => ~Refuses(Usage(Kept(file)))
=============================================================================
