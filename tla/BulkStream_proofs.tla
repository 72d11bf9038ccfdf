---------------------- MODULE BulkStream_proofs ----------------------
(***************************************************************************)
(* What the tool processes is what the ring accepted (ProcessesAccepted),  *)
(* for every size of the ring, any number of streams and of packets.       *)
(*                                                                         *)
(* The inductive invariant has three parts: the types, with what the       *)
(* callback knows of its transfer (Types); that one transfer at most is    *)
(* out or in its callback, and fills the slot at write_ptr (Links); and    *)
(* that the slots from read_ptr up to it hold what was accepted and has    *)
(* not been taken out (Ring).                                              *)
(***************************************************************************)
EXTENDS BulkStream, SequenceTheorems, TLAPS

Transfer == [state : {"none", "idle", "pending", "cancelling", "done", "freed"},
             status : {"none", "completed", "timed_out", "cancelled", "failed"},
             buffer : Slot, target : Slot, data : 0 .. MaxSent]

(* The callback is in a transfer, and what it knows of it; a transfer that *)
(* no stream has allocated yet is none's.                                  *)
Callback == {"status", "freed", "inc", "submit"}
Steps ==
  /\ event \in Callback <=> handled # 0
  /\ event = "inc" => xfer[handled].status = "completed"
  /\ \A i \in Id :
       /\ i > stream \/ (main = "init" /\ i = stream) => xfer[i].state = "none"
       /\ handled = i => xfer[i].state \in {"idle", "freed"}
       /\ xfer[i].status = "completed" => xfer[i].data # 0

Types == StreamTypeOK /\ Steps

-----------------------------------------------------------------------------
(* Arithmetic of the ring.                                                 *)

(* The slot j ahead of p, and how far w is ahead of r.                     *)
At(p, j) == IF p + j < FIFO_SIZE THEN p + j ELSE p + j - FIFO_SIZE
Ahead(w, r) == IF r <= w THEN w - r ELSE w - r + FIFO_SIZE

(* The slot after p.                                                       *)
LEMMA NextIs ==
  ASSUME NEW p \in Slot
  PROVE  next(p) \in Slot /\ next(p) = IF p + 1 = FIFO_SIZE THEN 0 ELSE p + 1
<1>1. FIFO_SIZE \in Nat \ {0, 1} /\ p \in 0 .. FIFO_SIZE - 1
  BY StreamAssumption DEF Slot
<1>2. CASE p + 1 = FIFO_SIZE
  <2>1. (p + 1) % FIFO_SIZE = 0
    BY <1>1, <1>2
  <2>2. QED
    BY <1>1, <1>2, <2>1 DEF next, Slot
<1>3. CASE p + 1 # FIFO_SIZE
  <2>1. p + 1 \in 0 .. FIFO_SIZE - 1
    BY <1>1, <1>3
  <2>2. (p + 1) % FIFO_SIZE = p + 1
    BY <1>1, <2>1
  <2>3. QED
    BY <1>1, <1>3, <2>1, <2>2 DEF next, Slot
<1>4. QED
  BY <1>2, <1>3

(* How the two ends of the ring and the slots between them move.           *)
LEMMA SlotFacts ==
  ASSUME NEW r \in Slot, NEW w \in Slot
  PROVE  /\ Ahead(w, r) \in Nat /\ Ahead(w, r) < FIFO_SIZE
         /\ Ahead(w, r) = 0 <=> w = r
         /\ w # r => Ahead(w, next(r)) = Ahead(w, r) - 1
         /\ next(w) # r => Ahead(next(w), r) = Ahead(w, r) + 1
         /\ At(r, Ahead(w, r)) = w /\ At(r, 0) = r
         /\ \A j \in Nat : j < FIFO_SIZE => At(r, j) \in Slot
         /\ \A j \in Nat : j < Ahead(w, r) => At(r, j) # w
         /\ \A j \in Nat : j + 1 < FIFO_SIZE => At(next(r), j) = At(r, j + 1)
<1>1. FIFO_SIZE \in Nat \ {0, 1}
  BY StreamAssumption
<1>2. /\ next(r) \in Slot /\ next(r) = IF r + 1 = FIFO_SIZE THEN 0 ELSE r + 1
      /\ next(w) \in Slot /\ next(w) = IF w + 1 = FIFO_SIZE THEN 0 ELSE w + 1
  BY NextIs
<1>3. Ahead(w, r) \in Nat /\ Ahead(w, r) < FIFO_SIZE /\ (Ahead(w, r) = 0 <=> w = r)
  BY <1>1 DEF Slot, Ahead
<1>4. w # r => Ahead(w, next(r)) = Ahead(w, r) - 1
  BY <1>1, <1>2 DEF Slot, Ahead
<1>5. next(w) # r => Ahead(next(w), r) = Ahead(w, r) + 1
  BY <1>1, <1>2 DEF Slot, Ahead
<1>6. At(r, Ahead(w, r)) = w /\ At(r, 0) = r
  BY <1>1 DEF Slot, Ahead, At
<1>7. \A j \in Nat : j < FIFO_SIZE => At(r, j) \in Slot
  BY <1>1 DEF Slot, At
<1>8. \A j \in Nat : j < Ahead(w, r) => At(r, j) # w
  BY <1>1 DEF Slot, Ahead, At
<1>9. \A j \in Nat : j + 1 < FIFO_SIZE => At(next(r), j) = At(r, j + 1)
  BY <1>1, <1>2 DEF Slot, At
<1>10. QED
  BY <1>3, <1>4, <1>5, <1>6, <1>7, <1>8, <1>9

-----------------------------------------------------------------------------
(* What the steps do to a transfer.                                        *)

(* libusb_submit_transfer keeps what the transfer brought.                 *)
LEMMA SubmittedIs ==
  ASSUME NEW x \in Transfer
  PROVE  /\ Submitted(x) \in Transfer
         /\ Submitted(x).status = x.status /\ Submitted(x).data = x.data
         /\ Submitted(x).buffer = x.buffer
         /\ IF x.state # "idle" \/ device = "gone" THEN Submitted(x) = x
            ELSE Submitted(x).state = "pending" /\ Submitted(x).target = x.buffer
  BY DEF Submitted, Transfer

(* The bus ends a transfer.                                                *)
LEMMA EndedIs ==
  ASSUME NEW x \in Transfer, NEW how \in {"completed", "timed_out", "cancelled", "failed"}
  PROVE  /\ Ended(x, how) \in Transfer
         /\ Ended(x, how).state = "done" /\ Ended(x, how).status = how
         /\ Ended(x, how).buffer = x.buffer /\ Ended(x, how).data = x.data
  BY DEF Ended, Transfer

(* A step changes the state of a transfer and nothing else of it.          *)
LEMMA StateIs ==
  ASSUME NEW x \in Transfer, NEW s \in {"idle", "cancelling", "freed"}
  PROVE  /\ [x EXCEPT !.state = s] \in Transfer
         /\ [x EXCEPT !.state = s].state = s /\ [x EXCEPT !.state = s].status = x.status
         /\ [x EXCEPT !.state = s].buffer = x.buffer /\ [x EXCEPT !.state = s].target = x.target
         /\ [x EXCEPT !.state = s].data = x.data
  BY DEF Transfer

(* Only transfer k changes, and becomes y. *)
Becomes(k, y) == k \in Id /\ y \in Transfer /\ xfer' = [xfer EXCEPT ![k] = y]

Xfer == xfer \in [Id -> Transfer]

(* The other transfers are as they were.                                   *)
LEMMA BecomesIs ==
  ASSUME Xfer, NEW k, NEW y, Becomes(k, y)
  PROVE  /\ Xfer' /\ xfer'[k] = y
         /\ \A i \in Id : i # k => xfer'[i] = xfer[i]
  BY DEF Xfer, Becomes

(* ubertooth_bulk_init allocates a transfer and submits it.                *)
LEMMA BulkInitXfer ==
  ASSUME Types, BulkInit
  PROVE  \E y : /\ Becomes(stream, y) /\ y.status = "none" /\ y.data = 0
                /\ y.buffer = write_ptr /\ y.target = write_ptr
                /\ y.state = IF device = "gone" THEN "idle" ELSE "pending"
<1> DEFINE x == [state |-> "idle", status |-> "none", buffer |-> write_ptr,
                 target |-> write_ptr, data |-> 0]
<1>1. write_ptr \in Slot /\ stream \in Id /\ MaxSent \in Nat
  BY StreamAssumption DEF Types, StreamTypeOK
<1>2. /\ x \in Transfer /\ x.state = "idle" /\ x.status = "none" /\ x.data = 0
      /\ x.buffer = write_ptr /\ x.target = write_ptr
  BY <1>1 DEF Transfer
<1>3. xfer' = [xfer EXCEPT ![stream] = Submitted(x)]
  BY DEF BulkInit
<1> HIDE DEF x
<1> DEFINE y == Submitted(x)
<1>4. /\ y \in Transfer /\ y.status = "none" /\ y.data = 0 /\ y.buffer = write_ptr
      /\ IF device = "gone" THEN y = x ELSE y.state = "pending" /\ y.target = write_ptr
  BY <1>2, SubmittedIs
<1> HIDE DEF y
<1>5. Becomes(stream, y) /\ y.target = write_ptr
      /\ y.state = IF device = "gone" THEN "idle" ELSE "pending"
  BY <1>1, <1>2, <1>3, <1>4 DEF Becomes, y
<1>6. QED
  BY <1>4, <1>5

(* libusb_cancel_transfer.                                                 *)
LEMMA CancelXfer ==
  ASSUME Types, Cancel
  PROVE  \/ xfer' = xfer
         \/ \E y : /\ Becomes(rx_xfer, y) /\ xfer[rx_xfer].state = "pending"
                   /\ y.state = "cancelling" /\ y.status = xfer[rx_xfer].status
                   /\ y.buffer = xfer[rx_xfer].buffer /\ y.target = xfer[rx_xfer].target
                   /\ y.data = xfer[rx_xfer].data
<1> DEFINE x == xfer[rx_xfer]
           y == [x EXCEPT !.state = "cancelling"]
<1>1. CASE rx_xfer = 0
  BY <1>1 DEF Cancel, Cancelled
<1>2. CASE rx_xfer # 0
  <2>1. rx_xfer \in Id /\ x \in Transfer /\ xfer \in [Id -> Transfer]
    BY <1>2 DEF Types, StreamTypeOK, Id, Transfer
  <2>2. xfer' = [xfer EXCEPT ![rx_xfer].state = IF @ = "pending" THEN "cancelling" ELSE @]
    BY <1>2 DEF Cancel, Cancelled
  <2>3. CASE x.state = "pending"
    <3>1. xfer' = [xfer EXCEPT ![rx_xfer] = y]
      BY <2>2, <2>3
    <3>2. /\ y \in Transfer /\ y.state = "cancelling" /\ y.status = x.status
          /\ y.buffer = x.buffer /\ y.target = x.target /\ y.data = x.data
      BY <2>1, StateIs
    <3> HIDE DEF y
    <3>3. QED
      BY <2>1, <2>3, <3>1, <3>2 DEF Becomes
  <2>4. CASE x.state # "pending"
    <3>1. xfer' = [xfer EXCEPT ![rx_xfer] = [x EXCEPT !.state = x.state]]
      BY <2>2, <2>4
    <3>2. [x EXCEPT !.state = x.state] = x
      BY <2>1 DEF Transfer
    <3>3. QED
      BY <2>1, <3>1, <3>2
  <2>5. QED
    BY <2>3, <2>4
<1>3. QED
  BY <1>1, <1>2

(* A transfer in a state that a callback or libusb leaves it in.           *)
LEMMA StateXfer ==
  ASSUME Types, NEW k \in Id, NEW s \in {"idle", "freed"},
         xfer' = [xfer EXCEPT ![k].state = s]
  PROVE  \E y : /\ Becomes(k, y) /\ y.state = s /\ y.status = xfer[k].status
                /\ y.buffer = xfer[k].buffer /\ y.target = xfer[k].target
                /\ y.data = xfer[k].data
<1> DEFINE x == xfer[k]
           y == [x EXCEPT !.state = s]
<1>1. x \in Transfer
  BY DEF Types, StreamTypeOK, Transfer
<1>2. xfer' = [xfer EXCEPT ![k] = y]
  OBVIOUS
<1>3. /\ y \in Transfer /\ y.state = s /\ y.status = x.status
      /\ y.buffer = x.buffer /\ y.target = x.target /\ y.data = x.data
  <2>1. s \in {"idle", "cancelling", "freed"}
    OBVIOUS
  <2> HIDE DEF x
  <2>2. QED
    BY <1>1, <2>1, StateIs
<1> HIDE DEF y
<1>4. QED
  BY <1>2, <1>3 DEF Becomes

(* libusb_submit_transfer again, from the callback: a time limit.          *)
LEMMA TimedOutXfer ==
  ASSUME Types, TimedOut
  PROVE  \/ xfer' = xfer /\ main' = "crashed"
         \/ \E y : /\ rx_xfer # 0 /\ Becomes(rx_xfer, y)
                   /\ y.status = xfer[rx_xfer].status /\ y.data = xfer[rx_xfer].data
                   /\ y.buffer = xfer[rx_xfer].buffer
                   /\ IF xfer[rx_xfer].state # "idle" \/ device = "gone"
                      THEN y = xfer[rx_xfer]
                      ELSE y.state = "pending" /\ y.target = y.buffer
<1>1. CASE rx_xfer = 0
  BY <1>1 DEF TimedOut, Crash
<1>2. CASE rx_xfer # 0
  <2>1. rx_xfer \in Id /\ xfer[rx_xfer] \in Transfer
    BY <1>2 DEF Types, StreamTypeOK, Id, Transfer
  <2>2. xfer' = [xfer EXCEPT ![rx_xfer] = Submitted(xfer[rx_xfer])]
    BY <1>2 DEF TimedOut
  <2> DEFINE x == xfer[rx_xfer]
             y == Submitted(x)
  <2>3. /\ y \in Transfer /\ y.status = x.status /\ y.data = x.data /\ y.buffer = x.buffer
        /\ IF x.state # "idle" \/ device = "gone" THEN y = x
           ELSE y.state = "pending" /\ y.target = x.buffer
    BY <2>1, SubmittedIs
  <2>4. Becomes(rx_xfer, y)
    BY <2>1, <2>2, <2>3 DEF Becomes
  <2> HIDE DEF y
  <2>5. QED
    BY <1>2, <2>3, <2>4
<1>3. QED
  BY <1>1, <1>2

(* The same with the next slot of the ring.                                *)
LEMMA ResubmitXfer ==
  ASSUME Types, Resubmit
  PROVE  \/ xfer' = xfer /\ main' = "crashed"
         \/ \E y : /\ rx_xfer # 0 /\ Becomes(rx_xfer, y)
                   /\ y.status = xfer[rx_xfer].status /\ y.data = xfer[rx_xfer].data
                   /\ y.buffer = write_ptr
                   /\ IF xfer[rx_xfer].state # "idle" \/ device = "gone"
                      THEN y.state = xfer[rx_xfer].state /\ y.target = xfer[rx_xfer].target
                      ELSE y.state = "pending" /\ y.target = write_ptr
<1>1. CASE rx_xfer = 0
  BY <1>1 DEF Resubmit, Crash
<1>2. CASE rx_xfer # 0
  <2> DEFINE x == xfer[rx_xfer]
             z == [x EXCEPT !.buffer = write_ptr]
  <2>1. rx_xfer \in Id /\ x \in Transfer /\ write_ptr \in Slot
    BY <1>2 DEF Types, StreamTypeOK, Id, Transfer
  <2>2. xfer' = [xfer EXCEPT ![rx_xfer] = Submitted(z)]
    BY <1>2 DEF Resubmit, fifo_get_write_element
  <2>3. /\ z \in Transfer /\ z.state = x.state /\ z.status = x.status /\ z.data = x.data
        /\ z.buffer = write_ptr /\ z.target = x.target
    BY <2>1 DEF Transfer
  <2> HIDE DEF z
  <2> DEFINE y == Submitted(z)
  <2>4. /\ y \in Transfer /\ y.status = z.status /\ y.data = z.data /\ y.buffer = z.buffer
        /\ IF z.state # "idle" \/ device = "gone" THEN y = z
           ELSE y.state = "pending" /\ y.target = z.buffer
    BY <2>3, SubmittedIs
  <2>5. Becomes(rx_xfer, y)
    BY <2>1, <2>2, <2>4 DEF Becomes
  <2> HIDE DEF y
  <2>6. QED
    BY <1>2, <2>3, <2>4, <2>5
<1>3. QED
  BY <1>1, <1>2

(* The bus ends a transfer.                                                *)
LEMMA SendXfer ==
  ASSUME Types, NEW k \in Id, Send(k)
  PROVE  \E y : /\ Becomes(k, y) /\ y.state = "done" /\ y.status = "completed"
                /\ y.buffer = xfer[k].buffer /\ y.data = sent + 1
<1> DEFINE x == Ended(xfer[k], "completed")
           y == [x EXCEPT !.data = sent + 1]
<1>1. xfer[k] \in Transfer /\ sent + 1 \in 0 .. MaxSent
  BY StreamAssumption DEF Types, StreamTypeOK, Transfer, Send
<1>2. /\ x \in Transfer /\ x.state = "done" /\ x.status = "completed"
      /\ x.buffer = xfer[k].buffer
  BY <1>1, EndedIs
<1>3. xfer' = [xfer EXCEPT ![k] = y]
  BY DEF Send
<1> HIDE DEF x
<1>4. /\ y \in Transfer /\ y.state = "done" /\ y.status = "completed"
      /\ y.buffer = x.buffer /\ y.data = sent + 1
  BY <1>1, <1>2 DEF Transfer
<1> HIDE DEF y
<1>5. QED
  BY <1>2, <1>3, <1>4 DEF Becomes

(* It ends without a packet.                                               *)
LEMMA NotSentXfer ==
  ASSUME Types, NEW k \in Id, NotSent(k)
  PROVE  \E y : /\ Becomes(k, y) /\ OnTheBus(k) /\ y.state = "done" /\ y.status # "completed"
                /\ y.buffer = xfer[k].buffer
<1>1. xfer[k] \in Transfer
  BY DEF Types, StreamTypeOK, Transfer
<1>2. PICK how \in {"timed_out", "cancelled", "failed"} :
        OnTheBus(k) /\ xfer' = [xfer EXCEPT ![k] = Ended(xfer[k], how)]
  BY DEF NotSent, OnTheBus
<1> DEFINE y == Ended(xfer[k], how)
<1>3. /\ y \in Transfer /\ y.state = "done" /\ y.status = how /\ y.buffer = xfer[k].buffer
  <2>1. how \in {"completed", "timed_out", "cancelled", "failed"}
    OBVIOUS
  <2>2. QED
    BY <1>1, <2>1, EndedIs
<1>4. Becomes(k, y)
  BY <1>2, <1>3 DEF Becomes
<1> HIDE DEF y
<1>5. QED
  BY <1>2, <1>3, <1>4

-----------------------------------------------------------------------------
(* The variables other than the transfers.                                 *)
Plain ==
  /\ read_ptr \in Slot /\ write_ptr \in Slot /\ packets \in [Slot -> 0..MaxSent]
  /\ rx_xfer \in 0..Streams /\ stop_ubertooth \in BOOLEAN /\ do_exit \in BOOLEAN
  /\ main \in {"init", "rx_syms", "loop", "wait", "copy", "after", "cancel", "join",
               "ended", "stop_cancel", "cmd_stop", "closed", "crashed"}
  /\ stream \in Id /\ selected \in Slot
  /\ event \in {"none", "test", "handle", "status", "freed", "inc", "submit"}
  /\ handled \in 0..Streams
  /\ device \in {"idle", "streaming", "gone"} /\ sent \in 0..MaxSent
  /\ taken \in Seq(1..MaxSent) /\ processed \in Seq(0..MaxSent)
  /\ crowded \in BOOLEAN /\ doubled \in BOOLEAN

(* Types, with the transfers and the other variables apart.                *)
LEMMA TypesParts == Types <=> Plain /\ Xfer /\ Steps
  BY DEF Types, StreamTypeOK, Plain, Xfer, Transfer

(* The same of the next state.                                             *)
LEMMA TypesPartsNext == ASSUME Plain', Xfer', Steps' PROVE Types'
  BY DEF Types, StreamTypeOK, Plain, Xfer, Transfer

(* The types hold at the start.                                            *)
LEMMA InitTypes == Init => Types
<1> SUFFICES ASSUME Init PROVE Types
  OBVIOUS
<1>1. 0 \in Slot /\ 1 \in Id /\ Id \subseteq Nat \ {0} /\ Streams \in Nat /\ MaxSent \in Nat
  BY StreamAssumption DEF Slot, Id
<1>2. Plain
  <2>1. packets \in [Slot -> 0..MaxSent] /\ sent \in 0..MaxSent
    BY <1>1 DEF Init
  <2>2. taken \in Seq(1..MaxSent) /\ processed \in Seq(0..MaxSent)
    BY EmptySeq DEF Init
  <2>3. rx_xfer \in 0..Streams /\ handled \in 0..Streams
    BY <1>1 DEF Init
  <2>4. QED
    BY <1>1, <2>1, <2>2, <2>3 DEF Init, Plain
<1>3. Xfer
  BY <1>1 DEF Init, Xfer, Transfer
<1>4. Steps
  BY <1>1 DEF Init, Steps, Callback
<1>5. QED
  BY <1>2, <1>3, <1>4, TypesParts

(* The steps that touch no transfer and no callback.                       *)
Aside == \/ RxSyms \/ Loop \/ Wait \/ Copy \/ AfterCallback \/ Join \/ End \/ CmdStop
         \/ Signal \/ Unplug

(* They keep the types.                                                    *)
LEMMA AsideTypes == Types /\ Aside => Types'
<1> SUFFICES ASSUME Types, Aside PROVE Types'
  OBVIOUS
<1>1. Plain /\ Xfer /\ Steps
  BY TypesParts
<1>2. /\ xfer' = xfer /\ rx_xfer' = rx_xfer /\ packets' = packets /\ write_ptr' = write_ptr
      /\ sent' = sent /\ taken' = taken /\ crowded' = crowded /\ event' = event
      /\ handled' = handled /\ doubled' = doubled
  BY DEF Aside, RxSyms, Loop, Wait, Copy, AfterCallback, Join, End, CmdStop, Signal, Unplug,
         Goto, fifoVars, mainVars, eventVars
<1>3. /\ device' \in {"idle", "streaming", "gone"}
      /\ stop_ubertooth' \in BOOLEAN /\ do_exit' \in BOOLEAN
      /\ main' \in {"init", "rx_syms", "loop", "wait", "copy", "after", "cancel", "join",
                    "ended", "stop_cancel", "cmd_stop", "closed", "crashed"}
  BY <1>1 DEF Plain, Aside, RxSyms, Loop, Wait, Copy, AfterCallback, Join, End, CmdStop, Signal,
         Unplug, Goto, fifoVars, mainVars, eventVars
<1>4. /\ stream' \in Id
      /\ \/ stream' = stream /\ (main' = "init" => main = "init")
         \/ stream' = stream + 1
  BY <1>1, StreamAssumption
     DEF Plain, Id, Aside, RxSyms, Loop, Wait, Copy, AfterCallback, Join, End, CmdStop, Signal,
         Unplug, Goto, fifoVars, mainVars, eventVars
<1>5. read_ptr' \in Slot /\ selected' \in Slot
  BY <1>1, NextIs
     DEF Plain, Aside, RxSyms, Loop, Wait, Copy, AfterCallback, Join, End, CmdStop, Signal,
         Unplug, Goto, fifoVars, mainVars, eventVars
<1>6. processed' \in Seq(0..MaxSent)
  <2>1. processed' = processed \/ processed' = Append(processed, packets[selected])
    BY DEF Aside, RxSyms, Loop, Wait, Copy, AfterCallback, Join, End, CmdStop, Signal, Unplug,
           Goto, fifoVars, mainVars, eventVars
  <2>2. packets[selected] \in 0..MaxSent /\ processed \in Seq(0..MaxSent)
    BY <1>1 DEF Plain
  <2>3. Append(processed, packets[selected]) \in Seq(0..MaxSent)
    BY <2>2, AppendProperties, Zenon
  <2>4. QED
    BY <2>1, <2>2, <2>3
<1>7. Plain'
  BY <1>1, <1>2, <1>3, <1>4, <1>5, <1>6 DEF Plain
<1>8. Steps'
  <2>1. \A i \in Id : i > stream' \/ (main' = "init" /\ i = stream') =>
                      i > stream \/ (main = "init" /\ i = stream)
    BY <1>1, <1>4 DEF Plain, Id
  <2>2. QED
    BY <1>1, <1>2, <2>1 DEF Steps
<1>9. QED
  BY <1>1, <1>2, <1>7, <1>8, TypesPartsNext DEF Xfer

(* ubertooth_bulk_init keeps the types.                                    *)
LEMMA BulkInitTypes == Types /\ BulkInit => Types'
<1> SUFFICES ASSUME Types, BulkInit PROVE Types'
  OBVIOUS
<1>1. Plain /\ Xfer /\ Steps /\ main = "init"
  BY TypesParts DEF BulkInit
<1>2. PICK y : Becomes(stream, y) /\ y.status = "none" /\ y.data = 0
               /\ y.state \in {"idle", "pending"}
  BY BulkInitXfer
<1>3. Xfer' /\ xfer'[stream] = y /\ \A i \in Id : i # stream => xfer'[i] = xfer[i]
  BY <1>1, <1>2, BecomesIs
<1>4. /\ fifoVars' = fifoVars /\ stop_ubertooth' = stop_ubertooth /\ handled' = handled
      /\ taken' = taken /\ crowded' = crowded /\ device' = device /\ sent' = sent
      /\ rx_xfer' = stream /\ stream' = stream /\ selected' = selected
      /\ processed' = processed
      /\ do_exit' \in {do_exit, FALSE} /\ main' \in {"ended", "rx_syms"}
      /\ \/ event' = event
         \/ event = "none" /\ event' = "test"
      /\ doubled' \in BOOLEAN
  BY <1>1 DEF BulkInit, Goto, Plain
<1>5. Plain'
  <2>1. rx_xfer' \in 0..Streams
    BY <1>1, <1>4 DEF Plain, Id
  <2>2. QED
    BY <1>1, <1>4, <2>1 DEF Plain, fifoVars
<1>6. Steps'
  <2>1. handled # stream
    BY <1>1 DEF Steps, Plain
  <2>2. event' \in Callback <=> handled' # 0
    BY <1>1, <1>4 DEF Steps, Callback
  <2>3. event' = "inc" => xfer'[handled'].status = "completed"
    <3>1. SUFFICES ASSUME event' = "inc" PROVE xfer'[handled'].status = "completed"
      OBVIOUS
    <3>2. event = "inc" /\ handled # 0 /\ handled \in Id
      BY <1>1, <1>4, <3>1 DEF Steps, Callback, Plain, Id
    <3>3. QED
      BY <1>1, <1>3, <1>4, <2>1, <3>2 DEF Steps
  <2>4. ASSUME NEW i \in Id
        PROVE  /\ i > stream' \/ (main' = "init" /\ i = stream') => xfer'[i].state = "none"
               /\ handled' = i => xfer'[i].state \in {"idle", "freed"}
               /\ xfer'[i].status = "completed" => xfer'[i].data # 0
    <3>1. CASE i = stream
      BY <1>1, <1>2, <1>3, <1>4, <2>1, <3>1 DEF Plain, Id
    <3>2. CASE i # stream
      BY <1>1, <1>3, <1>4, <3>2 DEF Steps
    <3>3. QED
      BY <3>1, <3>2
  <2>5. QED
    BY <2>2, <2>3, <2>4 DEF Steps
<1>7. QED
  BY <1>3, <1>5, <1>6, TypesPartsNext

(* A step of the event handler or the bus that changes one transfer at     *)
(* most, and leaves the streams alone.                                     *)
LEMMA TouchTypes ==
  ASSUME Types, Plain',
         \/ xfer' = xfer /\ handled' \in {0, handled}
         \/ \E k, y : /\ Becomes(k, y) /\ (y.state = "none" <=> xfer[k].state = "none")
                      /\ y.status = "completed" => y.data # 0
                      /\ \/ handled' = 0
                         \/ handled' = handled /\ handled # k
                         \/ handled' = k /\ y.state \in {"idle", "freed"},
         stream' = stream, main' = "init" => main = "init",
         event' \in Callback <=> handled' # 0,
         event' = "inc" => xfer'[handled'].status = "completed"
  PROVE  Types'
<1>1. Plain /\ Xfer /\ Steps
  BY TypesParts
<1>2. \A i \in Id : handled = i => xfer[i].state \in {"idle", "freed"}
  BY <1>1 DEF Steps
<1>3. CASE xfer' = xfer /\ handled' \in {0, handled}
  <2>1. \A i \in Id : handled' = i => xfer'[i].state \in {"idle", "freed"}
    BY <1>1, <1>2, <1>3 DEF Id
  <2>2. Steps'
    BY <1>1, <1>3, <2>1 DEF Steps
  <2>3. QED
    BY <1>1, <1>3, <2>2, TypesPartsNext DEF Xfer
<1>4. ASSUME NEW k, NEW y, Becomes(k, y), y.state = "none" <=> xfer[k].state = "none",
             y.status = "completed" => y.data # 0,
             \/ handled' = 0
             \/ handled' = handled /\ handled # k
             \/ handled' = k /\ y.state \in {"idle", "freed"}
      PROVE  Types'
  <2>1. Xfer' /\ xfer'[k] = y /\ \A i \in Id : i # k => xfer'[i] = xfer[i]
    BY <1>1, <1>4, BecomesIs
  <2>2. k \in Id
    BY <1>4 DEF Becomes
  <2>3. \A i \in Id : xfer'[i].state = "none" <=> xfer[i].state = "none"
    BY <1>4, <2>1
  <2>4. \A i \in Id : handled' = i => xfer'[i].state \in {"idle", "freed"}
    BY <1>2, <1>4, <2>1, <2>2 DEF Id
  <2>5. \A i \in Id : xfer'[i].status = "completed" => xfer'[i].data # 0
    BY <1>1, <1>4, <2>1 DEF Steps
  <2>6. Steps'
    BY <1>1, <2>3, <2>4, <2>5 DEF Steps
  <2>7. QED
    BY <2>1, <2>6, TypesPartsNext
<1>5. QED
  BY <1>3, <1>4

(* The callback ends, or the process crashes in it.                        *)
LEMMA ReturnIs ==
  ASSUME Return
  PROVE  handled' = 0 /\ event' \in {"none", "test"} /\ event' \notin Callback
  BY DEF Return, Callback

(* The steps of the event handler keep the types.                          *)
LEMMA EventTypes == Types /\ Event => Types'
<1> SUFFICES ASSUME Types, Event PROVE Types'
  OBVIOUS
<1>1. Plain /\ Xfer /\ Steps
  BY TypesParts
<1>2. handled # 0 => handled \in Id /\ xfer[handled] \in Transfer
  BY <1>1 DEF Plain, Xfer, Id
<1>3. CASE Test \/ NoEvent
  <2>1. /\ xfer' = xfer /\ handled' = handled /\ event \notin Callback /\ event' \notin Callback
        /\ UNCHANGED <<fifoVars, rx_xfer, stop_ubertooth, mainVars, taken, crowded, device, sent>>
        /\ event' \in {"none", "test", "handle"}
    BY <1>3 DEF Test, NoEvent, Callback
  <2>2. Plain' /\ handled = 0
    BY <1>1, <2>1 DEF Plain, Steps, fifoVars, mainVars
  <2>3. QED
    BY <2>1, <2>2, TouchTypes DEF mainVars, Callback
<1>4. CASE Forget
  <2>1. /\ xfer' = xfer /\ handled' = 0 /\ event' \in {"none", "test"} /\ event' \notin Callback
        /\ rx_xfer' = 0
        /\ UNCHANGED <<fifoVars, stop_ubertooth, mainVars, taken, crowded, device, sent>>
    BY <1>4, ReturnIs DEF Forget
  <2>2. Plain'
    BY <1>1, <2>1, StreamAssumption DEF Plain, fifoVars, mainVars
  <2>3. QED
    BY <2>1, <2>2, TouchTypes DEF mainVars
<1>5. CASE Completed
  <2>1. /\ xfer' = xfer
        /\ \/ handled' = 0 /\ event' \in {"none", "test"} /\ event' \notin Callback
           \/ handled' = handled /\ event' = "inc" /\ event' \in Callback
        /\ event = "status" /\ xfer[handled].status = "completed"
        /\ UNCHANGED <<fifoVars, rx_xfer, stop_ubertooth, mainVars, taken, crowded, device, sent>>
    BY <1>5, ReturnIs DEF Completed, Callback
  <2>2. handled # 0
    BY <1>1, <2>1 DEF Steps, Callback
  <2>3. Plain'
    BY <1>1, <2>1, StreamAssumption DEF Plain, fifoVars, mainVars
  <2>4. /\ handled' \in {0, handled} /\ (event' \in Callback <=> handled' # 0)
        /\ event' = "inc" => xfer'[handled'].status = "completed"
    BY <2>1, <2>2
  <2>5. QED
    BY <2>1, <2>3, <2>4, TouchTypes DEF mainVars
<1>6. CASE IncWritePtr
  <2>1. /\ event = "inc" /\ event' = "submit" /\ handled' = handled /\ xfer' = xfer
        /\ UNCHANGED <<read_ptr, packets, rx_xfer, stop_ubertooth, mainVars, device, sent>>
        /\ write_ptr' \in {write_ptr, next(write_ptr)}
        /\ taken' \in {taken, Append(taken, xfer[handled].data)} /\ crowded' \in BOOLEAN
    BY <1>1, <1>6 DEF IncWritePtr, Plain
  <2>2. handled \in Id /\ xfer[handled].status = "completed" /\ handled # 0
    BY <1>1, <1>2, <2>1 DEF Steps, Callback
  <2>3. xfer[handled].data \in 1..MaxSent
    BY <1>1, <1>2, <2>2, StreamAssumption DEF Steps, Transfer
  <2>4. taken \in Seq(1..MaxSent)
    BY <1>1 DEF Plain
  <2>5. Append(taken, xfer[handled].data) \in Seq(1..MaxSent)
    BY <2>3, <2>4, AppendProperties, Zenon
  <2>6. write_ptr' \in Slot
    BY <1>1, <2>1, NextIs DEF Plain
  <2>7. Plain'
    BY <1>1, <2>1, <2>4, <2>5, <2>6 DEF Plain, mainVars
  <2>8. QED
    BY <2>1, <2>2, <2>7, TouchTypes DEF mainVars, Callback
<1>7. ASSUME NEW i \in Id, Handle(i) PROVE Types'
  <2>1. /\ xfer' = [xfer EXCEPT ![i].state = "idle"] /\ event' = "status" /\ handled' = i
        /\ UNCHANGED <<fifoVars, rx_xfer, stop_ubertooth, mainVars, taken, crowded, device, sent>>
        /\ xfer[i].state = "done"
    BY <1>7 DEF Handle
  <2>2. PICK y : Becomes(i, y) /\ y.state = "idle" /\ y.status = xfer[i].status
                 /\ y.data = xfer[i].data
    BY <2>1, StateXfer
  <2>3. i # 0 /\ i \in 0..Streams
    BY StreamAssumption DEF Id
  <2>4. Plain'
    BY <1>1, <2>1, <2>3 DEF Plain, fifoVars, mainVars
  <2>5. y.status = "completed" => y.data # 0
    BY <1>1, <2>2 DEF Steps
  <2>6. QED
    BY <2>1, <2>2, <2>3, <2>4, <2>5, TouchTypes DEF mainVars, Callback
<1>8. CASE Free
  <2>1. /\ xfer' = [xfer EXCEPT ![handled].state = "freed"] /\ event' = "freed"
        /\ handled' = handled /\ event = "status"
        /\ UNCHANGED <<fifoVars, rx_xfer, stop_ubertooth, mainVars, taken, crowded, device, sent>>
    BY <1>8 DEF Free
  <2>2. handled \in Id /\ handled # 0
    BY <1>1, <1>2, <2>1 DEF Steps, Callback
  <2>3. PICK y : Becomes(handled, y) /\ y.state = "freed" /\ y.status = xfer[handled].status
                 /\ y.data = xfer[handled].data
    BY <2>1, <2>2, StateXfer
  <2>4. Plain'
    BY <1>1, <2>1 DEF Plain, fifoVars, mainVars
  <2>5. y.status = "completed" => y.data # 0
    BY <1>1, <2>2, <2>3 DEF Steps
  <2>6. y.state = "none" <=> xfer[handled].state = "none"
    BY <1>1, <2>2, <2>3 DEF Steps
  <2>7. QED
    BY <2>1, <2>2, <2>3, <2>4, <2>5, <2>6, TouchTypes DEF mainVars, Callback
<1>9. CASE TimedOut \/ Resubmit
  <2>1. /\ UNCHANGED <<fifoVars, rx_xfer, stop_ubertooth, taken, crowded, device, sent>>
        /\ event \in {"status", "submit"}
        /\ \/ /\ main' = "crashed" /\ event' = event /\ handled' = handled
              /\ UNCHANGED <<do_exit, stream, selected, processed, doubled>>
           \/ /\ handled' = 0 /\ event' \in {"none", "test"} /\ event' \notin Callback
              /\ UNCHANGED mainVars
        /\ rx_xfer # 0 => handled' = 0
    BY <1>9, ReturnIs DEF TimedOut, Resubmit, Crash
  <2>2. \/ xfer' = xfer
        \/ \E y : /\ rx_xfer # 0 /\ Becomes(rx_xfer, y)
                  /\ y.status = xfer[rx_xfer].status /\ y.data = xfer[rx_xfer].data
                  /\ y.state = xfer[rx_xfer].state \/ (xfer[rx_xfer].state = "idle"
                                                       /\ y.state = "pending")
    BY <1>9, TimedOutXfer, ResubmitXfer
  <2>3. Plain'
    BY <1>1, <2>1, StreamAssumption DEF Plain, fifoVars, mainVars
  <2>4. /\ handled' \in {0, handled} /\ (event' \in Callback <=> handled' # 0)
        /\ event' # "inc" /\ stream' = stream /\ (main' = "init" => main = "init")
    BY <1>1, <2>1 DEF Steps, Callback, mainVars
  <2>5. CASE xfer' = xfer
    BY <2>3, <2>4, <2>5, TouchTypes
  <2>6. ASSUME NEW y, rx_xfer # 0, Becomes(rx_xfer, y),
               y.status = xfer[rx_xfer].status, y.data = xfer[rx_xfer].data,
               y.state = xfer[rx_xfer].state \/ (xfer[rx_xfer].state = "idle"
                                                 /\ y.state = "pending")
        PROVE  Types'
    <3>1. rx_xfer \in Id
      BY <2>6 DEF Becomes
    <3>2. y.status = "completed" => y.data # 0
      BY <1>1, <2>6, <3>1 DEF Steps
    <3>3. y.state = "none" <=> xfer[rx_xfer].state = "none"
      BY <2>6
    <3>4. QED
      BY <2>1, <2>3, <2>4, <2>6, <3>2, <3>3, TouchTypes
  <2>7. QED
    BY <2>2, <2>5, <2>6
<1>10. QED
  BY <1>3, <1>4, <1>5, <1>6, <1>7, <1>8, <1>9 DEF Event

(* The bus and the cancelling of a transfer.                               *)
LEMMA BusTypes == Types /\ (Cancel \/ \E i \in Id : Send(i) \/ NotSent(i)) => Types'
<1> SUFFICES ASSUME Types, Cancel \/ \E i \in Id : Send(i) \/ NotSent(i) PROVE Types'
  OBVIOUS
<1>1. Plain /\ Xfer /\ Steps
  BY TypesParts
<1>2. \A i \in Id : xfer[i] \in Transfer
  BY <1>1 DEF Xfer
<1>3. CASE Cancel
  <2>1. /\ UNCHANGED <<fifoVars, rx_xfer, stop_ubertooth, eventVars, device, sent>>
        /\ UNCHANGED <<do_exit, stream, selected, processed, doubled>>
        /\ main' \in {"loop", "cmd_stop", "crashed"}
    BY <1>3 DEF Cancel, Cancelled, Crash, Goto
  <2>2. Plain'
    BY <1>1, <2>1 DEF Plain, fifoVars, eventVars
  <2>3. /\ handled' = handled /\ event' = event /\ stream' = stream /\ main' # "init"
        /\ (event' \in Callback <=> handled' # 0)
    BY <1>1, <2>1 DEF eventVars, Steps
  <2>4. CASE xfer' = xfer
    <3>1. event' = "inc" => xfer'[handled'].status = "completed"
      BY <1>1, <2>3, <2>4 DEF Steps
    <3>2. QED
      BY <2>2, <2>3, <2>4, <3>1, TouchTypes
  <2>5. ASSUME NEW y, Becomes(rx_xfer, y), xfer[rx_xfer].state = "pending",
               y.state = "cancelling", y.status = xfer[rx_xfer].status,
               y.data = xfer[rx_xfer].data
        PROVE  Types'
    <3>1. rx_xfer \in Id /\ xfer'[rx_xfer] = y /\ \A i \in Id : i # rx_xfer => xfer'[i] = xfer[i]
      BY <1>1, <2>5, BecomesIs DEF Becomes
    <3>2. event' = "inc" => xfer'[handled'].status = "completed"
      <4>1. event' = "inc" => handled \in Id /\ xfer[handled].status = "completed"
        BY <1>1, <2>3 DEF Steps, Callback, Plain, Id
      <4>2. QED
        BY <2>3, <2>5, <3>1, <4>1
    <3>3. y.status = "completed" => y.data # 0
      BY <1>1, <2>5, <3>1 DEF Steps
    <3>4. handled # rx_xfer
      BY <1>1, <2>5, <3>1 DEF Steps
    <3>5. QED
      BY <2>2, <2>3, <2>5, <3>2, <3>3, <3>4, TouchTypes
  <2>6. QED
    BY <1>3, <2>4, <2>5, CancelXfer
<1>4. ASSUME NEW i \in Id, Send(i) \/ NotSent(i) PROVE Types'
  <2>1. /\ UNCHANGED <<read_ptr, write_ptr, rx_xfer, stop_ubertooth, mainVars, eventVars, device>>
        /\ OnTheBus(i)
        /\ \/ sent' = sent /\ packets' = packets
           \/ /\ sent < MaxSent /\ sent' = sent + 1
              /\ packets' = [packets EXCEPT ![xfer[i].target] = sent + 1]
    BY <1>4 DEF Send, NotSent, fifoVars, OnTheBus
  <2>2. Plain'
    <3>1. sent' \in 0..MaxSent /\ packets' \in [Slot -> 0..MaxSent]
      <4>1. /\ sent \in 0..MaxSent /\ packets \in [Slot -> 0..MaxSent]
            /\ MaxSent \in Nat
        BY <1>1, StreamAssumption DEF Plain
      <4>2. sent < MaxSent => sent + 1 \in 0..MaxSent
        BY <4>1
      <4>3. QED
        BY <2>1, <4>1, <4>2
    <3>2. QED
      BY <1>1, <2>1, <3>1 DEF Plain, mainVars, eventVars
  <2>3. PICK y : Becomes(i, y) /\ y.state = "done" /\ (y.status = "completed" => y.data # 0)
    <3>1. CASE Send(i)
      <4>1. sent + 1 # 0
        BY <1>1 DEF Plain
      <4>2. QED
        BY <3>1, <4>1, SendXfer
    <3>2. CASE NotSent(i)
      BY <3>2, NotSentXfer
    <3>3. QED
      BY <1>4, <3>1, <3>2
  <2>4. xfer[i].state # "none" /\ InFlight(i)
    BY <2>1 DEF OnTheBus, InFlight
  <2>5. /\ handled' = handled /\ event' = event /\ stream' = stream /\ main' = main
        /\ (event' \in Callback <=> handled' # 0)
    BY <1>1, <2>1 DEF eventVars, mainVars, Steps
  <2>6. handled # i
    BY <1>1, <2>4 DEF Steps, InFlight
  <2>7. event' = "inc" => xfer'[handled'].status = "completed"
    <3>1. event' = "inc" => handled \in Id /\ xfer[handled].status = "completed"
      BY <1>1, <2>5 DEF Steps, Callback, Plain, Id
    <3>2. \A j \in Id : j # i => xfer'[j] = xfer[j]
      BY <1>1, <2>3, BecomesIs
    <3>3. QED
      BY <2>5, <2>6, <3>1, <3>2
  <2>8. QED
    BY <2>2, <2>3, <2>4, <2>5, <2>6, <2>7, TouchTypes
<1>5. QED
  BY <1>3, <1>4

(* Every step keeps the types.                                             *)
LEMMA StepTypes == Types /\ [Next]_vars => Types'
<1> SUFFICES ASSUME Types, [Next]_vars PROVE Types'
  OBVIOUS
<1>1. CASE Event
  BY <1>1, EventTypes
<1>2. CASE Cancel \/ \E i \in Id : Send(i) \/ NotSent(i)
  BY <1>2, BusTypes
<1>3. CASE BulkInit
  BY <1>3, BulkInitTypes
<1>4. CASE Aside
  BY <1>4, AsideTypes
<1>5. CASE UNCHANGED vars
  <2>1. Plain /\ Xfer /\ Steps
    BY TypesParts
  <2>2. Plain' /\ Xfer'
    BY <1>5, <2>1 DEF vars, fifoVars, mainVars, eventVars, Plain, Xfer
  <2>3. Steps'
    BY <1>5, <2>1 DEF vars, fifoVars, mainVars, eventVars, Steps
  <2>4. QED
    BY <2>2, <2>3, TypesPartsNext
<1>6. QED
  BY <1>1, <1>2, <1>3, <1>4, <1>5 DEF Next, Main, Bus, Aside

(* Every variable keeps its type: StreamTypeOK. *)
THEOREM TypeCorrect == Spec => []StreamTypeOK
<1>1. Init => Types
  BY InitTypes
<1>2. Types /\ [Next]_vars => Types'
  BY StepTypes
<1>3. Types => StreamTypeOK
  BY DEF Types
<1>4. QED
  BY <1>1, <1>2, <1>3, PTL DEF Spec

-----------------------------------------------------------------------------
(* The transfer and the slot of the ring it fills.                         *)

(* A transfer is busy until its callback has returned.  As long as no      *)
(* stream began with one busy, there is one at most; while there is a      *)
(* device it is rx_xfer, and fills the slot at write_ptr.                  *)
Busy(i) == InFlight(i) \/ handled = i
Lone == doubled \/ \A i, j \in Id : Busy(i) /\ Busy(j) => i = j

Aimed(i) ==
  /\ rx_xfer \in {0, i}
  /\ OnTheBus(i) => xfer[i].target = write_ptr
  /\ InFlight(i) \/ event = "status" => xfer[i].buffer = write_ptr
Plugged == doubled \/ device = "gone" \/ \A i \in Id : Busy(i) => Aimed(i)

(* What a completed transfer brought is in that slot until fifo_inc.       *)
Holds(i) ==
  /\ xfer[i].status = "completed"
  /\ xfer[i].state = "done" \/ (handled = i /\ event \in {"status", "inc"})
Arrived ==
  doubled \/ crowded \/ \A i \in Id : Holds(i) => packets[write_ptr] = xfer[i].data

Links == Lone /\ Plugged /\ Arrived

(* The steps that touch neither a transfer nor the callback.               *)
LEMMA AsideLinks ==
  ASSUME Types, Links, Aside \/ Test \/ NoEvent \/ UNCHANGED vars
  PROVE  Links'
<1>1. /\ xfer' = xfer /\ rx_xfer' = rx_xfer /\ packets' = packets /\ write_ptr' = write_ptr
      /\ crowded' = crowded /\ handled' = handled /\ doubled' = doubled
      /\ \/ event' = event
         \/ event' \in {"none", "test", "handle"}
      /\ device = "gone" => device' = "gone"
  BY DEF Aside, RxSyms, Loop, Wait, Copy, AfterCallback, Join, End, CmdStop, Signal, Unplug,
         Test, NoEvent, vars, Goto, fifoVars, mainVars, eventVars
<1>2. \A i \in Id : Busy(i)' <=> Busy(i)
  BY <1>1 DEF Busy, InFlight
<1>3. \A i \in Id : Aimed(i) => Aimed(i)'
  BY <1>1 DEF Aimed, InFlight, OnTheBus
<1>4. \A i \in Id : Holds(i)' => Holds(i)
  BY <1>1 DEF Holds
<1>5. QED
  BY <1>1, <1>2, <1>3, <1>4 DEF Links, Lone, Plugged, Arrived

(* ubertooth_bulk_init submits the transfer of the new stream.             *)
LEMMA BulkInitLinks ==
  ASSUME Types, Links, BulkInit
  PROVE  Links'
<1>1. Plain /\ Xfer /\ Steps /\ main = "init"
  BY TypesParts DEF BulkInit
<1>2. PICK y : /\ Becomes(stream, y) /\ y.status = "none"
               /\ y.buffer = write_ptr /\ y.target = write_ptr
               /\ y.state = IF device = "gone" THEN "idle" ELSE "pending"
  BY BulkInitXfer
<1>3. xfer'[stream] = y /\ (\A i \in Id : i # stream => xfer'[i] = xfer[i]) /\ stream \in Id
  BY <1>1, <1>2, BecomesIs DEF Becomes
<1>4. /\ write_ptr' = write_ptr /\ packets' = packets /\ handled' = handled
      /\ crowded' = crowded /\ device' = device /\ rx_xfer' = stream
      /\ event' = event \/ event' = "test"
      /\ stream' = stream
  BY DEF BulkInit, Goto, fifoVars
<1>5. /\ doubled => doubled'
      /\ device = "gone" \/ doubled' \/ (handled = 0 /\ \A i \in Id : i # stream => ~InFlight(i))
  <2>1. doubled \in BOOLEAN
    BY <1>1 DEF Plain
  <2>2. CASE device = "gone"
    BY <2>2 DEF BulkInit, Goto
  <2>3. CASE device # "gone"
    <3>1. doubled' = (doubled \/ handled # 0 \/ \E i \in Id \ {stream} : InFlight(i))
      BY <2>3 DEF BulkInit
    <3>2. QED
      BY <2>1, <3>1
  <2>4. QED
    BY <2>2, <2>3
<1>6. ~InFlight(stream) /\ handled # stream
  BY <1>1, <1>3 DEF Steps, InFlight
<1>7. \A i \in Id : i # stream => (Busy(i)' <=> Busy(i))
  BY <1>3, <1>4 DEF Busy, InFlight
<1>8. \A i \in Id : Holds(i)' => Holds(i) /\ i # stream
  BY <1>2, <1>3, <1>4 DEF Holds
<1>9. Arrived'
  BY <1>3, <1>4, <1>5, <1>8 DEF Links, Arrived
<1>10. CASE device = "gone"
  <2>1. ~Busy(stream)'
    BY <1>2, <1>3, <1>4, <1>6, <1>10 DEF Busy, InFlight
  <2>2. Lone'
    BY <1>4, <1>5, <1>7, <2>1 DEF Links, Lone
  <2>3. Plugged'
    BY <1>4, <1>10 DEF Plugged
  <2>4. QED
    BY <1>9, <2>2, <2>3 DEF Links
<1>11. CASE device # "gone"
  <2>1. doubled' \/ \A i \in Id : Busy(i)' => i = stream
    <3>1. 0 \notin Id
      BY DEF Id
    <3>2. QED
      BY <1>5, <1>7, <1>11, <3>1 DEF Busy
  <2>2. Aimed(stream)'
    BY <1>2, <1>3, <1>4, <1>11 DEF Aimed, InFlight, OnTheBus
  <2>3. Lone'
    BY <2>1 DEF Lone
  <2>4. Plugged'
    BY <1>4, <2>1, <2>2 DEF Plugged
  <2>5. QED
    BY <1>9, <2>3, <2>4 DEF Links
<1>12. QED
  BY <1>10, <1>11

(* A transfer that is cancelled stays busy until its callback.             *)
LEMMA CancelLinks ==
  ASSUME Types, Links, Cancel
  PROVE  Links'
<1>1. Plain /\ Xfer
  BY TypesParts
<1>2. /\ write_ptr' = write_ptr /\ packets' = packets /\ handled' = handled
      /\ crowded' = crowded /\ device' = device /\ rx_xfer' = rx_xfer
      /\ doubled' = doubled /\ event' = event
  BY DEF Cancel, Cancelled, Crash, Goto, fifoVars, eventVars
<1> DEFINE Kept(i) ==
             /\ xfer'[i].status = xfer[i].status /\ xfer'[i].buffer = xfer[i].buffer
             /\ xfer'[i].target = xfer[i].target /\ xfer'[i].data = xfer[i].data
             /\ \/ xfer'[i].state = xfer[i].state
                \/ xfer[i].state = "pending" /\ xfer'[i].state = "cancelling"
<1>3. \A i \in Id : Kept(i)
  <2>1. CASE xfer' = xfer
    BY <2>1
  <2>2. CASE xfer' # xfer
    <3>1. PICK y : /\ Becomes(rx_xfer, y) /\ xfer[rx_xfer].state = "pending"
                   /\ y.state = "cancelling" /\ y.status = xfer[rx_xfer].status
                   /\ y.buffer = xfer[rx_xfer].buffer /\ y.target = xfer[rx_xfer].target
                   /\ y.data = xfer[rx_xfer].data
      BY <2>2, CancelXfer
    <3>2. xfer'[rx_xfer] = y /\ \A i \in Id : i # rx_xfer => xfer'[i] = xfer[i]
      BY <1>1, <3>1, BecomesIs
    <3>3. QED
      BY <3>1, <3>2
  <2>3. QED
    BY <2>1, <2>2
<1>4. \A i \in Id : Busy(i)' <=> Busy(i)
  BY <1>2, <1>3 DEF Busy, InFlight
<1>5. \A i \in Id : Aimed(i) => Aimed(i)'
  BY <1>2, <1>3 DEF Aimed, InFlight, OnTheBus
<1>6. \A i \in Id : Holds(i)' => Holds(i)
  BY <1>2, <1>3 DEF Holds
<1>7. QED
  BY <1>2, <1>3, <1>4, <1>5, <1>6 DEF Links, Lone, Plugged, Arrived

(* A callback begins.                                                      *)
LEMMA HandleLinks ==
  ASSUME Types, Links, NEW k \in Id, Handle(k)
  PROVE  Links'
<1>1. Plain /\ Xfer /\ Steps
  BY TypesParts
<1>2. /\ write_ptr' = write_ptr /\ packets' = packets /\ handled' = k /\ event' = "status"
      /\ crowded' = crowded /\ device' = device /\ rx_xfer' = rx_xfer /\ doubled' = doubled
      /\ xfer[k].state = "done" /\ event \notin Callback
      /\ xfer' = [xfer EXCEPT ![k].state = "idle"]
  BY DEF Handle, fifoVars, mainVars, Callback
<1>3. PICK y : /\ Becomes(k, y) /\ y.state = "idle" /\ y.status = xfer[k].status
               /\ y.buffer = xfer[k].buffer /\ y.data = xfer[k].data
  BY <1>2, StateXfer
<1>4. xfer'[k] = y /\ \A i \in Id : i # k => xfer'[i] = xfer[i]
  BY <1>1, <1>3, BecomesIs
<1>5. \A i \in Id : handled # i
  BY <1>1, <1>2 DEF Steps, Id
<1>6. \A i \in Id : Busy(i)' <=> Busy(i)
  BY <1>2, <1>3, <1>4, <1>5 DEF Busy, InFlight
<1>7. Lone'
  BY <1>2, <1>6 DEF Links, Lone
<1>8. Plugged'
  <2>1. \A i \in Id : i # k => ~Busy(i)' \/ doubled
    BY <1>2, <1>6 DEF Links, Lone, Busy, InFlight
  <2>2. Busy(k)
    BY <1>2 DEF Busy, InFlight
  <2>3. Aimed(k) => \A i \in Id : i = k => Aimed(i)'
    BY <1>2, <1>3, <1>4 DEF Aimed, InFlight, OnTheBus
  <2>4. QED
    BY <1>2, <2>1, <2>2, <2>3 DEF Links, Plugged
<1>9. \A i \in Id : (Holds(i)' => Holds(i)) /\ xfer'[i].data = xfer[i].data
  BY <1>2, <1>3, <1>4, <1>5 DEF Holds
<1>10. Arrived'
  BY <1>2, <1>9 DEF Links, Arrived
<1>11. QED
  BY <1>7, <1>8, <1>10 DEF Links

(* A callback goes on or returns, and does not submit.                     *)
LEMMA CallbackLinks ==
  ASSUME Types, Links, Free \/ Forget \/ Completed \/ IncWritePtr
  PROVE  Links'
<1>1. Plain /\ Xfer /\ Steps
  BY TypesParts
<1>2. /\ device' = device /\ doubled' = doubled /\ handled' \in {0, handled}
      /\ rx_xfer' \in {0, rx_xfer} /\ event \in Callback /\ event' # "status"
      /\ packets' = packets
  BY ReturnIs DEF Free, Forget, Completed, IncWritePtr, fifoVars, mainVars, Callback, Return
<1>3. handled \in Id /\ xfer[handled].state \in {"idle", "freed"} /\ handled # 0
  BY <1>1, <1>2 DEF Plain, Steps, Id
<1>4. /\ \A i \in Id : i # handled => xfer'[i] = xfer[i]
      /\ xfer'[handled].state \in {"idle", "freed"} /\ xfer'[handled].data = xfer[handled].data
      /\ xfer'[handled].status = xfer[handled].status
  <2>1. CASE Free
    <3>1. xfer' = [xfer EXCEPT ![handled].state = "freed"]
      BY <2>1 DEF Free
    <3>2. PICK y : /\ Becomes(handled, y) /\ y.state = "freed" /\ y.data = xfer[handled].data
                   /\ y.status = xfer[handled].status
      BY <1>3, <3>1, StateXfer
    <3>3. xfer'[handled] = y /\ \A i \in Id : i # handled => xfer'[i] = xfer[i]
      BY <1>1, <3>2, BecomesIs
    <3>4. QED
      BY <3>2, <3>3
  <2>2. CASE Forget \/ Completed \/ IncWritePtr
    <3>1. xfer' = xfer
      BY <2>2 DEF Forget, Completed, IncWritePtr
    <3>2. QED
      BY <1>3, <3>1
  <2>3. QED
    BY <2>1, <2>2
<1>5. 0 \notin Id
  BY DEF Id
<1>6. \A i \in Id : Busy(i)' => Busy(i)
  BY <1>2, <1>4, <1>5 DEF Busy, InFlight
<1>7. Lone'
  BY <1>2, <1>6 DEF Links, Lone
<1>8. doubled \/ \A i \in Id : Busy(i)' => i = handled
  BY <1>3, <1>6 DEF Links, Lone, Busy
<1>9. Plugged'
  <2>1. \A i \in Id : rx_xfer \in {0, i} /\ i = handled => Aimed(i)'
    BY <1>2, <1>3, <1>4 DEF Aimed, InFlight, OnTheBus
  <2>2. doubled \/ device = "gone" \/ rx_xfer \in {0, handled}
    BY <1>3 DEF Links, Plugged, Busy, Aimed
  <2>3. QED
    BY <1>2, <1>8, <2>1, <2>2 DEF Plugged
<1>10. Arrived'
  <2>1. \A i \in Id : Holds(i)' => Busy(i)'
    BY DEF Holds, Busy, InFlight
  <2>2. CASE IncWritePtr
    <3>1. event' = "submit"
      BY <2>2 DEF IncWritePtr
    <3>2. \A i \in Id : i = handled => ~Holds(i)'
      BY <1>3, <1>4, <3>1 DEF Holds
    <3>3. QED
      BY <1>2, <1>8, <2>1, <3>2 DEF Arrived
  <2>3. CASE Free \/ Forget \/ Completed
    <3>1. crowded' = crowded /\ write_ptr' = write_ptr
      BY <2>3 DEF Free, Forget, Completed, fifoVars
    <3>2. CASE Completed
      <4>1. event = "status"
        BY <3>2 DEF Completed
      <4>2. \A i \in Id : i = handled /\ Holds(i)' => Holds(i)
        BY <1>3, <1>4, <4>1 DEF Holds
      <4>3. QED
        BY <1>2, <1>4, <1>8, <2>1, <3>1, <4>2 DEF Links, Arrived
    <3>3. CASE Free \/ Forget
      <4>1. event' \notin {"status", "inc"}
        BY <3>3, ReturnIs DEF Free, Forget, Callback
      <4>2. \A i \in Id : i = handled => ~Holds(i)'
        BY <1>3, <1>4, <4>1 DEF Holds
      <4>3. QED
        BY <1>2, <1>8, <2>1, <4>2 DEF Arrived
    <3>4. QED
      BY <2>3, <3>2, <3>3
  <2>4. QED
    BY <2>2, <2>3
<1>11. QED
  BY <1>7, <1>9, <1>10 DEF Links

(* A callback submits rx_xfer again and returns.                           *)
LEMMA SubmitLinks ==
  ASSUME Types, Links, TimedOut \/ Resubmit
  PROVE  Links'
<1>1. Plain /\ Xfer /\ Steps
  BY TypesParts
<1>2. /\ write_ptr' = write_ptr /\ packets' = packets /\ rx_xfer' = rx_xfer
      /\ crowded' = crowded /\ device' = device /\ doubled' = doubled
      /\ event \in Callback
  BY DEF TimedOut, Resubmit, Crash, fifoVars, mainVars, Callback
<1>3. handled \in Id /\ xfer[handled].state \in {"idle", "freed"} /\ handled # 0
  BY <1>1, <1>2 DEF Plain, Steps, Id
<1>4. CASE rx_xfer = 0
  <2>1. xfer' = xfer /\ event' = event /\ handled' = handled
    BY <1>4 DEF TimedOut, Resubmit
  <2>2. \A i \in Id : Busy(i)' <=> Busy(i)
    BY <2>1 DEF Busy, InFlight
  <2>3. \A i \in Id : Aimed(i) => Aimed(i)'
    BY <1>2, <2>1 DEF Aimed, InFlight, OnTheBus
  <2>4. \A i \in Id : Holds(i)' => Holds(i)
    BY <2>1 DEF Holds
  <2>5. QED
    BY <1>2, <2>1, <2>2, <2>3, <2>4 DEF Links, Lone, Plugged, Arrived
<1>5. CASE rx_xfer # 0
  <2>1. handled' = 0 /\ event' \in {"none", "test"}
    BY <1>5, ReturnIs DEF TimedOut, Resubmit
  <2>2. rx_xfer \in Id
    BY <1>1, <1>5 DEF Plain, Id
  <2>3. /\ \A i \in Id : i # rx_xfer => xfer'[i] = xfer[i]
        /\ xfer'[rx_xfer].status = xfer[rx_xfer].status
        /\ xfer'[rx_xfer].data = xfer[rx_xfer].data
        /\ \/ /\ xfer[rx_xfer].state # "idle" \/ device = "gone"
              /\ xfer'[rx_xfer].state = xfer[rx_xfer].state
           \/ /\ xfer[rx_xfer].state = "idle" /\ xfer'[rx_xfer].state = "pending"
              /\ device # "gone" /\ xfer'[rx_xfer].target = xfer'[rx_xfer].buffer
              /\ xfer'[rx_xfer].buffer \in
                   IF TimedOut THEN {xfer[rx_xfer].buffer, write_ptr} ELSE {write_ptr}
    <3>1. CASE Resubmit
      <4>1. PICK y : /\ Becomes(rx_xfer, y)
                     /\ y.status = xfer[rx_xfer].status /\ y.data = xfer[rx_xfer].data
                     /\ y.buffer = write_ptr
                     /\ IF xfer[rx_xfer].state # "idle" \/ device = "gone"
                        THEN y.state = xfer[rx_xfer].state
                        ELSE y.state = "pending" /\ y.target = write_ptr
        <5>1. main' # "crashed"
          BY <1>5, <3>1 DEF Resubmit, mainVars, Alive
        <5>2. QED
          BY <3>1, <5>1, ResubmitXfer
      <4>2. xfer'[rx_xfer] = y /\ \A i \in Id : i # rx_xfer => xfer'[i] = xfer[i]
        BY <1>1, <4>1, BecomesIs
      <4>3. QED
        BY <4>1, <4>2
    <3>2. CASE TimedOut
      <4>1. PICK y : /\ Becomes(rx_xfer, y)
                     /\ y.status = xfer[rx_xfer].status /\ y.data = xfer[rx_xfer].data
                     /\ y.buffer = xfer[rx_xfer].buffer
                     /\ IF xfer[rx_xfer].state # "idle" \/ device = "gone"
                        THEN y = xfer[rx_xfer]
                        ELSE y.state = "pending" /\ y.target = y.buffer
        <5>1. main' # "crashed"
          BY <1>5, <3>2 DEF TimedOut, mainVars, Alive
        <5>2. QED
          BY <3>2, <5>1, TimedOutXfer
      <4>2. xfer'[rx_xfer] = y /\ \A i \in Id : i # rx_xfer => xfer'[i] = xfer[i]
        BY <1>1, <4>1, BecomesIs
      <4>3. QED
        BY <3>2, <4>1, <4>2
    <3>3. QED
      BY <3>1, <3>2
  <2>4. doubled \/ device = "gone" \/ (rx_xfer = handled /\ Aimed(handled))
    BY <1>3, <1>5 DEF Links, Plugged, Busy, Aimed
  <2>5. 0 \notin Id
    BY DEF Id
  <2>6. doubled \/ \A i \in Id : Busy(i)' => Busy(i)
    BY <2>1, <2>3, <2>4, <2>5 DEF Busy, InFlight
  <2>7. Lone'
    BY <1>2, <2>6 DEF Links, Lone
  <2>8. doubled \/ \A i \in Id : Busy(i)' => i = handled
    BY <1>3, <2>6 DEF Links, Lone, Busy
  <2>9. Plugged'
    <3>1. CASE doubled \/ device = "gone"
      BY <1>2, <3>1 DEF Plugged
    <3>2. CASE ~doubled /\ device # "gone"
      <4>1. rx_xfer = handled /\ Aimed(handled)
        BY <2>4, <3>2
      <4>2. TimedOut => event = "status"
        BY DEF TimedOut
      <4>3. xfer'[handled].state = "pending" =>
              xfer'[handled].buffer = write_ptr /\ xfer'[handled].target = write_ptr
        BY <1>3, <2>3, <4>1, <4>2 DEF Aimed
      <4>4. \A i \in Id : Busy(i)' => Aimed(i)'
        <5>1. ASSUME NEW i \in Id, Busy(i)' PROVE Aimed(i)'
          <6>1. i = handled /\ xfer'[i].state = "pending"
            BY <2>1, <2>3, <2>5, <2>8, <3>2, <4>1, <5>1, <1>3 DEF Busy, InFlight
          <6>2. QED
            BY <1>2, <4>1, <4>3, <6>1 DEF Aimed
        <5>2. QED
          BY <5>1
      <4>5. QED
        BY <4>4 DEF Plugged
    <3>3. QED
      BY <3>1, <3>2
  <2>10. Arrived'
    <3>1. \A i \in Id : Holds(i)' => Holds(i) /\ xfer'[i].data = xfer[i].data
      BY <2>1, <2>3 DEF Holds
    <3>2. QED
      BY <1>2, <3>1 DEF Links, Arrived
  <2>11. QED
    BY <2>7, <2>9, <2>10 DEF Links
<1>6. QED
  BY <1>4, <1>5

(* The bus ends a transfer.                                                *)
LEMMA BusLinks ==
  ASSUME Types, Links, NEW k \in Id, Send(k) \/ NotSent(k)
  PROVE  Links'
<1>1. Plain /\ Xfer /\ Steps
  BY TypesParts
<1>2. /\ write_ptr' = write_ptr /\ rx_xfer' = rx_xfer /\ crowded' = crowded
      /\ device' = device /\ doubled' = doubled /\ handled' = handled /\ event' = event
      /\ OnTheBus(k)
  BY DEF Send, NotSent, fifoVars, mainVars, eventVars, OnTheBus
<1>3. PICK y : /\ Becomes(k, y) /\ y.state = "done" /\ y.buffer = xfer[k].buffer
               /\ Send(k) => y.data = sent + 1
               /\ ~Send(k) => y.status # "completed"
  <2>1. CASE Send(k)
    BY <2>1, SendXfer
  <2>2. CASE ~Send(k)
    BY <2>2, NotSentXfer
  <2>3. QED
    BY <2>1, <2>2
<1>4. xfer'[k] = y /\ \A i \in Id : i # k => xfer'[i] = xfer[i]
  BY <1>1, <1>3, BecomesIs
<1>5. \A i \in Id : Busy(i)' <=> Busy(i)
  BY <1>2, <1>3, <1>4 DEF Busy, InFlight, OnTheBus
<1>6. \A i \in Id : Aimed(i) => Aimed(i)'
  BY <1>2, <1>3, <1>4 DEF Aimed, InFlight, OnTheBus
<1>7. Lone' /\ Plugged'
  BY <1>2, <1>5, <1>6 DEF Links, Lone, Plugged
<1>8. Arrived'
  <2>1. Busy(k) /\ handled # k
    BY <1>1, <1>2 DEF Busy, InFlight, OnTheBus, Steps
  <2>2. doubled \/ \A i \in Id : Holds(i) => i = k
    BY <2>1 DEF Links, Lone, Busy, Holds, InFlight
  <2>3. \A i \in Id : i # k => (Holds(i)' <=> Holds(i))
    BY <1>2, <1>4 DEF Holds
  <2>4. CASE Send(k)
    <3>1. /\ packets' = [packets EXCEPT ![xfer[k].target] = sent + 1]
          /\ device # "gone"
      BY <2>4 DEF Send
    <3>2. doubled \/ xfer[k].target = write_ptr
      BY <1>2, <2>1, <3>1 DEF Links, Plugged, Aimed
    <3>3. doubled \/ packets'[write_ptr] = sent + 1
      BY <1>1, <3>1, <3>2 DEF Plain
    <3>4. QED
      BY <1>2, <1>3, <1>4, <2>2, <2>3, <2>4, <3>3 DEF Arrived
  <2>5. CASE ~Send(k)
    <3>1. \A i \in Id : i = k => ~Holds(i)'
      BY <1>2, <1>3, <1>4, <2>1, <2>5 DEF Holds
    <3>2. QED
      BY <1>2, <2>2, <2>3, <3>1 DEF Arrived
  <2>6. QED
    BY <2>4, <2>5
<1>9. QED
  BY <1>7, <1>8 DEF Links

(* Every step keeps the transfer and its slot together.                    *)
LEMMA StepLinks == Types /\ Links /\ [Next]_vars => Links'
<1> SUFFICES ASSUME Types, Links, [Next]_vars PROVE Links'
  OBVIOUS
<1>1. CASE Aside \/ Test \/ NoEvent \/ UNCHANGED vars
  BY <1>1, AsideLinks
<1>2. CASE BulkInit
  BY <1>2, BulkInitLinks
<1>3. CASE Cancel
  BY <1>3, CancelLinks
<1>4. CASE \E i \in Id : Handle(i)
  BY <1>4, HandleLinks
<1>5. CASE Free \/ Forget \/ Completed \/ IncWritePtr
  BY <1>5, CallbackLinks
<1>6. CASE TimedOut \/ Resubmit
  BY <1>6, SubmitLinks
<1>7. CASE \E i \in Id : Send(i) \/ NotSent(i)
  BY <1>7, BusLinks
<1>8. QED
  BY <1>1, <1>2, <1>3, <1>4, <1>5, <1>6, <1>7 DEF Next, Main, Event, Bus, Aside

-----------------------------------------------------------------------------
(* The ring and its history.                                               *)

Used == Ahead(write_ptr, read_ptr)
Popped == IF main = "copy" THEN Len(processed) + 1 ELSE Len(processed)

(* The ring has not been full: the writer is not next behind the reader.   *)
Apart == crowded \/ ~Full(read_ptr, write_ptr)

(* The ring holds what has been accepted and not taken out, and fifo_pop   *)
(* copies the last one taken out from the slot behind the reader.          *)
InRing ==
  /\ Len(taken) = Popped + Used
  /\ \A j \in Nat : j < Used => packets[At(read_ptr, j)] = taken[Popped + 1 + j]
  /\ main = "copy" => next(selected) = read_ptr /\ packets[selected] = taken[Popped]

Faithful ==
  /\ Len(processed) \in Nat /\ Len(taken) \in Nat /\ Len(processed) <= Len(taken)
  /\ \A n \in 1 .. Len(processed) : processed[n] = taken[n]

Ring ==
  /\ Apart
  /\ crowded \/ doubled \/ main = "crashed" \/ InRing
  /\ crowded \/ doubled \/ Faithful

(* The steps that leave the ring alone.                                    *)
LEMMA AsideRing ==
  ASSUME Types, Ring,
         read_ptr' = read_ptr, write_ptr' = write_ptr, packets' = packets, taken' = taken,
         processed' = processed, selected' = selected, crowded' = crowded, doubled => doubled',
         main' = "crashed" \/ (main # "crashed" /\ (main' = "copy" <=> main = "copy"))
                           \/ main' = main
  PROVE  Ring'
<1>1. Apart'
  BY DEF Ring, Apart, Full, next
<1>2. crowded' \/ doubled' \/ Faithful'
  BY DEF Ring, Faithful
<1>3. CASE main' = "crashed"
  BY <1>1, <1>2, <1>3 DEF Ring
<1>4. CASE main' # "crashed"
  <2>1. main # "crashed" /\ (main' = "copy" <=> main = "copy")
    BY <1>4
  <2>2. Popped' = Popped /\ Used' = Used
    BY <2>1 DEF Popped, Used, Ahead
  <2>3. InRing => InRing'
    BY <2>1, <2>2 DEF InRing, At, next
  <2>4. QED
    BY <1>1, <1>2, <2>1, <2>3 DEF Ring
<1>5. QED
  BY <1>3, <1>4

(* ubertooth_bulk_wait is over: fifo_pop moves the reader on.              *)
LEMMA WaitRing ==
  ASSUME Types, Ring, Wait, ~fifo_empty
  PROVE  Ring'
<1>1. Plain
  BY TypesParts
<1>2. /\ main = "wait" /\ main' = "copy" /\ selected' = read_ptr /\ read_ptr' = next(read_ptr)
      /\ write_ptr' = write_ptr /\ packets' = packets /\ taken' = taken
      /\ processed' = processed /\ crowded' = crowded /\ doubled' = doubled
  BY DEF Wait, eventVars
<1>3. read_ptr \in Slot /\ write_ptr \in Slot /\ write_ptr # read_ptr
  BY <1>1 DEF Plain, fifo_empty
<1>4. read_ptr' \in Slot
  BY <1>2, <1>3, NextIs
<1>5. /\ Used \in Nat /\ Used < FIFO_SIZE /\ Used # 0
      /\ Ahead(write_ptr, next(read_ptr)) = Used - 1 /\ At(read_ptr, 0) = read_ptr
      /\ \A j \in Nat : j + 1 < FIFO_SIZE => At(next(read_ptr), j) = At(read_ptr, j + 1)
  BY <1>3, SlotFacts DEF Used
<1>6. Used' = Used - 1
  BY <1>2, <1>5 DEF Used, Ahead
<1>7. Len(processed) \in Nat /\ FIFO_SIZE \in Nat /\ Popped = Len(processed)
      /\ Popped' = Len(processed) + 1
  BY <1>1, <1>2, LenProperties, StreamAssumption DEF Plain, Popped
<1>8. Apart'
  <2>1. /\ next(read_ptr) = IF read_ptr + 1 = FIFO_SIZE THEN 0 ELSE read_ptr + 1
        /\ next(write_ptr) = IF write_ptr + 1 = FIFO_SIZE THEN 0 ELSE write_ptr + 1
    BY <1>3, NextIs
  <2>2. next(read_ptr) # next(write_ptr)
    BY <1>3, <2>1, StreamAssumption DEF Slot
  <2>3. QED
    BY <1>2, <2>2 DEF Apart, Full, next
<1>9. InRing => InRing'
  <2> SUFFICES ASSUME InRing PROVE InRing'
    OBVIOUS
  <2>1. Len(taken)' = Popped' + Used'
    <3>1. Len(taken) = Popped + Used
      BY DEF InRing
    <3>2. QED
      BY <1>2, <1>5, <1>6, <1>7, <3>1
  <2>2. ASSUME NEW j \in Nat, j < Used'
        PROVE  packets'[At(read_ptr', j)] = taken'[Popped' + 1 + j]
    <3>1. j + 1 \in Nat /\ j + 1 < Used /\ j + 1 < FIFO_SIZE
      BY <1>5, <1>6, <1>7, <2>2
    <3>2. At(read_ptr', j) = At(read_ptr, j + 1)
      BY <1>2, <1>5, <3>1
    <3>3. packets[At(read_ptr, j + 1)] = taken[Popped + 1 + (j + 1)]
      BY <3>1 DEF InRing
    <3>4. Popped + 1 + (j + 1) = Popped' + 1 + j
      BY <1>7
    <3>5. QED
      BY <1>2, <3>2, <3>3, <3>4
  <2>3. next(selected)' = read_ptr'
    BY <1>2 DEF next
  <2>4. packets'[selected'] = taken'[Popped']
    <3>1. packets[At(read_ptr, 0)] = taken[Popped + 1 + 0]
      BY <1>5 DEF InRing
    <3>2. QED
      BY <1>2, <1>5, <1>7, <3>1
  <2>5. QED
    BY <2>1, <2>2, <2>3, <2>4 DEF InRing, At
<1>10. crowded' \/ doubled' \/ Faithful'
  BY <1>2 DEF Ring, Faithful
<1>11. QED
  BY <1>2, <1>8, <1>9, <1>10 DEF Ring

(* fifo_pop copies the packet, and the tool's callback gets it.            *)
LEMMA CopyRing ==
  ASSUME Types, Ring, Copy
  PROVE  Ring'
<1>1. Plain
  BY TypesParts
<1>2. /\ main = "copy" /\ main' = "after" /\ read_ptr' = read_ptr
      /\ write_ptr' = write_ptr /\ packets' = packets /\ taken' = taken
      /\ processed' = Append(processed, packets[selected])
      /\ crowded' = crowded /\ doubled' = doubled
  BY DEF Copy, eventVars, fifoVars
<1>3. packets[selected] \in 0..MaxSent /\ processed \in Seq(0..MaxSent)
  BY <1>1 DEF Plain
<1>4. /\ Len(processed') = Len(processed) + 1
      /\ \A n \in 1 .. Len(processed) : processed'[n] = processed[n]
      /\ processed'[Len(processed) + 1] = packets[selected]
  BY <1>2, <1>3, AppendProperties
<1>5. Len(processed) \in Nat /\ Len(taken) \in Nat
  BY <1>1, LenProperties DEF Plain
<1>6. Popped = Len(processed) + 1 /\ Popped' = Popped /\ Used' = Used /\ Used \in Nat
  BY <1>1, <1>2, <1>4, SlotFacts DEF Popped, Used, Ahead, Plain
<1>7. Apart'
  BY <1>2 DEF Ring, Apart, Full, next
<1>8. InRing => InRing'
  BY <1>2, <1>6 DEF InRing, At
<1>9. InRing /\ Faithful => Faithful'
  <2> SUFFICES ASSUME InRing, Faithful PROVE Faithful'
    OBVIOUS
  <2>1. packets[selected] = taken[Len(processed) + 1]
    BY <1>2, <1>6 DEF InRing
  <2>2. Len(processed) + 1 <= Len(taken)
    BY <1>5, <1>6 DEF InRing
  <2>3. \A n \in 1 .. Len(processed) + 1 : processed'[n] = taken[n]
    BY <1>4, <1>5, <2>1 DEF Faithful
  <2>4. QED
    BY <1>2, <1>4, <1>5, <2>2, <2>3 DEF Faithful
<1>10. QED
  BY <1>2, <1>7, <1>8, <1>9 DEF Ring

(* fifo_inc_write_ptr accepts the packet of the slot.                      *)
LEMMA IncRing ==
  ASSUME Types, Links, Ring, IncWritePtr
  PROVE  Ring'
<1>1. Plain /\ Xfer /\ Steps
  BY TypesParts
<1>2. /\ read_ptr' = read_ptr /\ packets' = packets /\ main' = main /\ selected' = selected
      /\ processed' = processed /\ doubled' = doubled /\ event = "inc"
  BY DEF IncWritePtr, mainVars
<1>3. CASE Full(read_ptr, write_ptr)
  <2>1. write_ptr' = write_ptr /\ taken' = taken /\ crowded' = crowded
    BY <1>3 DEF IncWritePtr
  <2>2. QED
    BY <1>2, <2>1, AsideRing
<1>4. CASE ~Full(read_ptr, write_ptr)
  <2> DEFINE data == xfer[handled].data
  <2>1. /\ write_ptr' = next(write_ptr) /\ taken' = Append(taken, data)
        /\ crowded' = (crowded \/ Full(read_ptr, write_ptr'))
    BY <1>4 DEF IncWritePtr
  <2>2. crowded \in BOOLEAN /\ read_ptr \in Slot /\ write_ptr \in Slot /\ next(write_ptr) \in Slot
    BY <1>1, NextIs DEF Plain
  <2>3. crowded => crowded'
    BY <2>1, <2>2
  <2>4. Apart'
    BY <1>2, <2>1, <2>2 DEF Apart, Full, next
  <2>5. handled \in Id /\ xfer[handled].status = "completed" /\ data \in 1..MaxSent
    <3>1. handled \in Id /\ handled # 0
      BY <1>1, <1>2 DEF Plain, Steps, Callback, Id
    <3>2. xfer[handled].status = "completed" /\ data # 0 /\ xfer[handled] \in Transfer
      BY <1>1, <1>2, <3>1 DEF Steps, Xfer
    <3>3. QED
      BY <3>1, <3>2, StreamAssumption DEF Transfer
  <2>6. crowded \/ doubled \/ packets[write_ptr] = data
    BY <1>2, <2>5 DEF Links, Arrived, Holds
  <2> HIDE DEF data
  <2>7. /\ Len(taken) \in Nat /\ Len(taken') = Len(taken) + 1
        /\ \A n \in 1 .. Len(taken) : taken'[n] = taken[n]
        /\ taken'[Len(taken) + 1] = data
    <3>1. taken \in Seq(1..MaxSent)
      BY <1>1 DEF Plain
    <3>2. QED
      BY <2>1, <2>5, <3>1, AppendProperties, LenProperties
  <2>8. /\ Used \in Nat /\ Used' = Used + 1 /\ At(read_ptr, Used) = write_ptr
    <3>1. next(write_ptr) # read_ptr
      BY <1>4 DEF Full
    <3>2. Ahead(next(write_ptr), read_ptr) = Used + 1 /\ Used \in Nat
          /\ At(read_ptr, Used) = write_ptr
      BY <2>2, <3>1, SlotFacts DEF Used
    <3>3. QED
      BY <1>2, <2>1, <3>2 DEF Used, Ahead
  <2>9. Popped' = Popped /\ Popped \in Nat
    <3>1. Len(processed) \in Nat
      BY <1>1, LenProperties DEF Plain
    <3>2. QED
      BY <1>2, <3>1 DEF Popped
  <2>10. packets[write_ptr] = data /\ InRing /\ (main = "copy" => Popped # 0) => InRing'
    <3> SUFFICES ASSUME packets[write_ptr] = data, InRing, main = "copy" => Popped # 0
                 PROVE  InRing'
      OBVIOUS
    <3>1. Len(taken) = Popped + Used
      BY DEF InRing
    <3>2. Len(taken)' = Popped' + Used'
      BY <2>7, <2>8, <2>9, <3>1
    <3>3. ASSUME NEW j \in Nat, j < Used'
          PROVE  packets'[At(read_ptr', j)] = taken'[Popped' + 1 + j]
      <4>1. CASE j < Used
        <5>1. packets[At(read_ptr, j)] = taken[Popped + 1 + j]
          BY <4>1 DEF InRing
        <5>2. Popped + 1 + j \in 1 .. Len(taken)
          BY <2>7, <2>8, <2>9, <3>1, <4>1
        <5>3. QED
          BY <1>2, <2>7, <2>9, <5>1, <5>2
      <4>2. CASE ~(j < Used)
        <5>1. j = Used /\ Popped + 1 + j = Len(taken) + 1
          BY <2>7, <2>8, <2>9, <3>1, <3>3, <4>2
        <5>2. QED
          BY <1>2, <2>7, <2>8, <2>9, <5>1
      <4>3. QED
        BY <4>1, <4>2
    <3>4. main' = "copy" => next(selected)' = read_ptr' /\ packets'[selected'] = taken'[Popped']
      <4>1. main = "copy" => /\ next(selected) = read_ptr /\ packets[selected] = taken[Popped]
        BY DEF InRing
      <4>2. main = "copy" => Popped \in 1 .. Len(taken)
        BY <2>7, <2>8, <2>9, <3>1
      <4>3. QED
        BY <1>2, <2>7, <2>9, <4>1, <4>2 DEF next
    <3>5. QED
      BY <3>2, <3>3, <3>4 DEF InRing, At
  <2>11. main = "copy" => Popped # 0
    BY <1>1, LenProperties DEF Popped, Plain
  <2>12. Faithful => Faithful'
    BY <1>2, <2>7 DEF Faithful
  <2>13. QED
    BY <1>2, <2>3, <2>4, <2>6, <2>10, <2>11, <2>12 DEF Ring
<1>5. QED
  BY <1>3, <1>4

(* A packet arrives in the slot that is filled, which the ring and the     *)
(* main thread do not read.                                                *)
LEMMA SendRing ==
  ASSUME Types, Links, Ring, NEW k \in Id, Send(k)
  PROVE  Ring'
<1>1. Plain
  BY TypesParts
<1>2. /\ read_ptr' = read_ptr /\ write_ptr' = write_ptr /\ main' = main
      /\ selected' = selected /\ processed' = processed /\ taken' = taken
      /\ doubled' = doubled /\ crowded' = crowded /\ device # "gone" /\ OnTheBus(k)
      /\ packets' = [packets EXCEPT ![xfer[k].target] = sent + 1]
  BY DEF Send, mainVars, eventVars
<1>3. doubled \/ xfer[k].target = write_ptr
  BY <1>2 DEF Links, Plugged, Aimed, Busy, InFlight, OnTheBus
<1>4. doubled \/ \A s \in Slot : s # write_ptr => packets'[s] = packets[s]
  BY <1>1, <1>2, <1>3 DEF Plain
<1>5. Apart'
  BY <1>2 DEF Ring, Apart, Full, next
<1>6. Popped' = Popped /\ Used' = Used
  BY <1>2 DEF Popped, Used, Ahead
<1>7. crowded \/ doubled \/ (InRing => InRing')
  <2> SUFFICES ASSUME ~crowded, ~doubled, InRing PROVE InRing'
    OBVIOUS
  <2>1. read_ptr \in Slot /\ write_ptr \in Slot /\ selected \in Slot
    BY <1>1 DEF Plain
  <2>2. ASSUME NEW j \in Nat, j < Used
        PROVE  packets'[At(read_ptr, j)] = packets[At(read_ptr, j)]
    <3>1. FIFO_SIZE \in Nat
      BY StreamAssumption
    <3>2. Used \in Nat /\ Used < FIFO_SIZE /\ At(read_ptr, j) # write_ptr
      BY <2>1, <2>2, SlotFacts DEF Used
    <3>3. At(read_ptr, j) \in Slot
      <4>1. j < FIFO_SIZE
        BY <2>2, <3>1, <3>2
      <4>2. QED
        BY <2>1, <4>1, SlotFacts
    <3>4. QED
      BY <1>4, <3>2, <3>3
  <2>3. main = "copy" => packets'[selected] = packets[selected]
    <3>1. main = "copy" => selected # write_ptr
      BY DEF InRing, Ring, Apart, Full
    <3>2. QED
      BY <1>4, <2>1, <3>1
  <2>4. QED
    BY <1>2, <1>6, <2>2, <2>3 DEF InRing, At, next
<1>8. Faithful => Faithful'
  BY <1>2 DEF Faithful
<1>9. QED
  BY <1>2, <1>5, <1>7, <1>8 DEF Ring

(* Every step keeps the ring and its history together.                     *)
LEMMA StepRing == Types /\ Links /\ Ring /\ [Next]_vars => Ring'
<1> SUFFICES ASSUME Types, Links, Ring, [Next]_vars PROVE Ring'
  OBVIOUS
<1>1. CASE Wait /\ ~fifo_empty
  BY <1>1, WaitRing
<1>2. CASE Copy
  BY <1>2, CopyRing
<1>3. CASE IncWritePtr
  BY <1>3, IncRing
<1>4. CASE \E i \in Id : Send(i)
  BY <1>4, SendRing
<1>5. CASE BulkInit
  <2>1. doubled => doubled'
    <3>1. doubled \in BOOLEAN
      BY TypesParts DEF Plain
    <3>2. doubled' = doubled \/ doubled' =
            (doubled \/ handled # 0 \/ \E i \in Id \ {stream} : InFlight(i))
      BY <1>5 DEF BulkInit, Goto
    <3>3. QED
      BY <3>1, <3>2
  <2>2. /\ read_ptr' = read_ptr /\ write_ptr' = write_ptr /\ packets' = packets
        /\ taken' = taken /\ processed' = processed /\ selected' = selected
        /\ crowded' = crowded /\ main = "init" /\ main' \in {"ended", "rx_syms"}
    BY <1>5 DEF BulkInit, Goto, fifoVars
  <2>3. QED
    BY <2>1, <2>2, AsideRing
<1>6. CASE \/ RxSyms \/ Loop \/ (Wait /\ fifo_empty) \/ AfterCallback \/ Cancel \/ Join \/ End
           \/ CmdStop
  <2>1. /\ read_ptr' = read_ptr /\ write_ptr' = write_ptr /\ packets' = packets
        /\ taken' = taken /\ processed' = processed /\ selected' = selected
        /\ crowded' = crowded /\ doubled' = doubled
    BY <1>6 DEF RxSyms, Loop, Wait, AfterCallback, Cancel, Cancelled, Crash, Join, End, CmdStop,
                Goto, fifoVars, eventVars
  <2>2. main \notin {"copy", "crashed"} /\ main' # "copy"
    BY <1>6 DEF RxSyms, Loop, Wait, AfterCallback, Cancel, Cancelled, Crash, Join, End, CmdStop,
                Goto
  <2>3. QED
    BY <2>1, <2>2, AsideRing
<1>7. CASE \/ Signal \/ Test \/ NoEvent \/ TimedOut \/ Free \/ Forget \/ Completed \/ Resubmit
           \/ Unplug \/ (\E i \in Id : Handle(i) \/ NotSent(i)) \/ UNCHANGED vars
  <2>1. /\ read_ptr' = read_ptr /\ write_ptr' = write_ptr /\ packets' = packets
        /\ taken' = taken /\ processed' = processed /\ selected' = selected
        /\ crowded' = crowded /\ doubled' = doubled
        /\ main' = main \/ main' = "crashed"
    BY <1>7 DEF Signal, Test, NoEvent, TimedOut, Free, Forget, Completed, Resubmit, Crash,
                Unplug, Handle, NotSent, vars, fifoVars, mainVars, eventVars
  <2>2. QED
    BY <2>1, AsideRing
<1>8. QED
  BY <1>1, <1>2, <1>3, <1>4, <1>5, <1>6, <1>7 DEF Next, Main, Event, Bus

(* The ring and the transfers at the start.                                *)
LEMMA InitRing == Init => Links /\ Ring
<1> SUFFICES ASSUME Init PROVE Links /\ Ring
  OBVIOUS
<1>1. Types
  BY InitTypes
<1>2. Links
  <2>1. 0 \notin Id
    BY DEF Id
  <2>2. \A i \in Id : xfer[i].state = "none" /\ xfer[i].status = "none"
    BY DEF Init
  <2>3. \A i \in Id : ~Busy(i) /\ ~Holds(i)
    BY <2>1, <2>2 DEF Init, Busy, InFlight, Holds
  <2>4. QED
    BY <2>3 DEF Links, Lone, Plugged, Arrived
<1>3. Ring
  <2>1. read_ptr = 0 /\ write_ptr = 0 /\ 0 \in Slot
    BY StreamAssumption DEF Init, Slot
  <2>2. next(write_ptr) # read_ptr
    BY <2>1, NextIs, StreamAssumption
  <2>3. Used = 0
    BY <2>1, SlotFacts DEF Used
  <2>4. Len(processed) = 0 /\ Len(taken) = 0 /\ main = "init"
    BY DEF Init
  <2>5. Popped = 0
    BY <2>4 DEF Popped
  <2>6. InRing
    BY <2>3, <2>4, <2>5 DEF InRing
  <2>7. Faithful
    BY <2>4 DEF Faithful
  <2>8. QED
    BY <2>2, <2>6, <2>7 DEF Ring, Apart, Full
<1>4. QED
  BY <1>2, <1>3

(* Equal packet by packet, and no longer: a prefix.                        *)
LEMMA FaithfulIsPrefix == ASSUME Types, Faithful PROVE IsPrefix(processed, taken)
<1>1. processed \in Seq(0..MaxSent) /\ taken \in Seq(1..MaxSent)
  BY TypesParts DEF Plain
<1> DEFINE n == Len(processed)
<1>2. n \in Nat /\ Len(taken) \in Nat /\ n <= Len(taken)
      /\ \A i \in 1..n : processed[i] = taken[i]
  BY DEF Faithful
<1>3. \A i \in 1..n : processed[i] \in 0..MaxSent /\ taken[i] \in 0..MaxSent
  BY <1>1, <1>2, ElementOfSeq, StreamAssumption
<1> HIDE DEF n
<1>4. /\ SubSeq(processed, 1, n) \in Seq(0..MaxSent) /\ SubSeq(taken, 1, n) \in Seq(0..MaxSent)
      /\ Len(SubSeq(processed, 1, n)) = n /\ Len(SubSeq(taken, 1, n)) = n
      /\ \A i \in 1..n : SubSeq(processed, 1, n)[i] = processed[i]
                        /\ SubSeq(taken, 1, n)[i] = taken[i]
  BY <1>2, <1>3, SubSeqProperties
<1>5. SubSeq(processed, 1, n) = SubSeq(taken, 1, n)
  BY <1>2, <1>4, SeqEqual
<1>6. QED
  BY <1>2, <1>5 DEF IsPrefix, n

(* "receive and process each packet": ProcessesAccepted. *)
THEOREM PacketsProcessed == Spec => []ProcessesAccepted
<1>1. Init => Types /\ Links /\ Ring
  BY InitTypes, InitRing
<1>2. Types /\ Links /\ Ring /\ [Next]_vars => (Types /\ Links /\ Ring)'
  BY StepTypes, StepLinks, StepRing
<1>3. Types /\ Links /\ Ring => ProcessesAccepted
  BY FaithfulIsPrefix DEF Ring, ProcessesAccepted
<1>4. QED
  BY <1>1, <1>2, <1>3, PTL DEF Spec

(* A tool that streams once never begins with a transfer out: what it      *)
(* processes is what the ring accepted unless the ring has been full.      *)
THEOREM PacketsProcessedByOneStream ==
  ASSUME Streams = 1
  PROVE  Spec => [](crowded \/ IsPrefix(processed, taken))
<1>1. Init => Types /\ Links /\ Ring /\ ~doubled
  BY InitTypes, InitRing DEF Init
<1>2. Types /\ Links /\ Ring /\ [Next]_vars => (Types /\ Links /\ Ring)'
  BY StepTypes, StepLinks, StepRing
<1>3. Types /\ ~doubled /\ [Next]_vars => ~doubled'
  <2> SUFFICES ASSUME Types, ~doubled, [Next]_vars PROVE ~doubled'
    OBVIOUS
  <2>1. CASE BulkInit
    <3>1. Plain /\ Steps /\ main = "init" /\ Id = {stream}
      BY <2>1, TypesParts DEF BulkInit, Plain, Id
    <3>2. handled = 0
      BY <3>1 DEF Plain, Steps, Id
    <3>3. Id \ {stream} = {}
      BY <3>1
    <3>4. QED
      BY <2>1, <3>2, <3>3 DEF BulkInit, Goto
  <2>2. CASE Cancel \/ Aside
    BY <2>2 DEF Aside, RxSyms, Loop, Wait, Copy, AfterCallback, Cancel, Cancelled, Crash, Join,
                End, CmdStop, Signal, Unplug, Goto, mainVars
  <2>3. CASE Event \/ (\E i \in Id : Send(i) \/ NotSent(i)) \/ UNCHANGED vars
    BY <2>3 DEF Event, Test, NoEvent, TimedOut, Free, Forget, Completed, IncWritePtr, Resubmit,
                Crash, Handle, Send, NotSent, vars, mainVars
  <2>4. QED
    BY <2>1, <2>2, <2>3 DEF Next, Main, Bus, Aside
<1>4. Types /\ Ring /\ ~doubled => crowded \/ IsPrefix(processed, taken)
  BY FaithfulIsPrefix DEF Ring
<1>5. QED
  BY <1>1, <1>2, <1>3, <1>4, PTL DEF Spec

=============================================================================
