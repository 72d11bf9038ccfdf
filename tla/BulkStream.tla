----------------------------- MODULE BulkStream -----------------------------
(***************************************************************************)
(* The receive path of libubertooth (ubertooth.c, ubertooth_fifo.c): one   *)
(* bulk transfer that is submitted again from its own callback, a ring of  *)
(* packets it fills, and the tool's main thread that empties the ring.     *)
(*                                                                         *)
(* Two threads share the ring, rx_xfer and two flags without a lock: the   *)
(* main thread, and the poll thread that runs the callback.  libusb runs   *)
(* one callback at a time, and runs it in the main thread while that waits *)
(* for a control transfer and the poll thread is gone.                     *)
(*                                                                         *)
(* ubertooth-dump, -rx, -scan, -specan and -follow stream once;            *)
(* ubertooth-afh with a timeout streams twice (rx_afh).  No tool registers *)
(* the cleanup handler that exits.                                         *)
(***************************************************************************)
EXTENDS Naturals, Sequences, SequencesExt

CONSTANTS
  FIFO_SIZE,  \* slots of the ring
  Streams,    \* how many streams the tool runs, one after the other
  MaxSent     \* how many packets the device sends

ASSUME StreamAssumption ==
  FIFO_SIZE \in Nat \ {0, 1} /\ Streams \in Nat \ {0} /\ MaxSent \in Nat

VARIABLES
  read_ptr, write_ptr, packets,   \* fifo_t
  xfer,             \* the transfers allocated so far, by the stream that did
  rx_xfer,          \* ut->rx_xfer: 0 is NULL
  stop_ubertooth, do_exit,
  main,             \* where the main thread is
  stream,           \* which stream it is in
  selected,         \* the slot fifo_pop copies
  event, handled,   \* where the poll thread is, and the transfer it handles
  device, sent,     \* the device, and the packets it has sent
  taken, processed, \* history: packets the ring accepted, and those processed
  crowded,          \* history: the ring has been full
  doubled           \* history: a stream began with a transfer in flight

fifoVars == <<read_ptr, write_ptr, packets>>
mainVars == <<do_exit, main, stream, selected, processed, doubled>>
eventVars == <<event, handled, taken, crowded>>
vars == <<fifoVars, xfer, rx_xfer, stop_ubertooth, mainVars, eventVars, device, sent>>

Slot == 0..(FIFO_SIZE - 1)
Id == 1..Streams
-----------------------------------------------------------------------------
(* ubertooth_fifo.c *)
next_unwrapped(ptr) == ptr + 1   \* bug variant: the end of the ring is not the start
next(ptr) == (ptr + 1) % FIFO_SIZE
fifo_empty_early ==   \* bug variant: off by one, the last packet waits for another
  read_ptr = write_ptr \/ next(read_ptr) = write_ptr
fifo_empty == read_ptr = write_ptr
Full(r, w) == r = next(w)

(* libusb: a transfer is in flight from its submission to its callback.    *)
InFlight(i) == xfer[i].state \in {"pending", "cancelling", "done"}
OnTheBus(i) == xfer[i].state \in {"pending", "cancelling"}

(* libusb_submit_transfer of x: refused while x is in flight, and without  *)
(* a device.  The bus writes where buffer pointed when it was submitted.   *)
Submitted(x) ==
  IF x.state # "idle" \/ device = "gone" THEN x
  ELSE [x EXCEPT !.state = "pending", !.target = x.buffer]

Ended(x, how) == [x EXCEPT !.state = "done", !.status = how]


(* The process is gone when a thread touches a transfer that is NULL, and  *)
(* may be when it touches one that has been freed.                         *)
Crash == main' = "crashed" /\ UNCHANGED <<do_exit, stream, selected, processed, doubled>>

Goto(l) == main' = l /\ UNCHANGED <<do_exit, stream, selected, processed, doubled>>
-----------------------------------------------------------------------------
(* The main thread.                                                        *)

(* ubertooth_bulk_init and ubertooth_bulk_thread_start.  Nobody handles    *)
(* events in between.                                                      *)
BulkInit ==
  /\ main = "init"
  /\ rx_xfer' = stream
  /\ xfer' = [xfer EXCEPT ![stream] =
                Submitted([state |-> "idle", status |-> "none", buffer |-> write_ptr,
                           target |-> write_ptr, data |-> 0])]
  /\ IF device = "gone"
       THEN Goto("ended") /\ UNCHANGED event
       ELSE /\ do_exit' = FALSE /\ main' = "rx_syms"
            /\ event' = IF event = "none" THEN "test" ELSE event
            /\ doubled' = (doubled \/ handled # 0 \/ \E i \in Id \ {stream} : InFlight(i))
            /\ UNCHANGED <<stream, selected, processed>>
  /\ UNCHANGED <<fifoVars, stop_ubertooth, handled, taken, crowded, device, sent>>

(* cmd_rx_syms: a command or its answer may be lost *)
RxSyms ==
  /\ main = "rx_syms"
  /\ device' \in IF device = "gone" THEN {"gone"} ELSE {device, "streaming"}
  /\ \/ device' = "streaming" /\ Goto("loop")
     \/ Goto("ended")
  /\ UNCHANGED <<fifoVars, xfer, rx_xfer, stop_ubertooth, eventVars, sent>>

Loop ==
  /\ main = "loop"
  /\ IF stop_ubertooth
       THEN do_exit' = TRUE /\ main' = "join" /\ UNCHANGED <<stream, selected, processed, doubled>>
       ELSE Goto("wait")
  /\ UNCHANGED <<fifoVars, xfer, rx_xfer, stop_ubertooth, eventVars, device, sent>>

WaitDeaf == ~fifo_empty   \* bug variant: the flag is only tested in the loop outside
WaitOver == ~fifo_empty \/ stop_ubertooth

(* ubertooth_bulk_wait returns; ubertooth_bulk_receive calls the callback, *)
(* whose fifo_pop moves read_ptr on and then copies the packet.            *)
Wait ==
  /\ main = "wait"
  /\ WaitOver
  /\ IF fifo_empty
       THEN Goto("loop") /\ UNCHANGED read_ptr
       ELSE /\ selected' = read_ptr /\ read_ptr' = next(read_ptr)
            /\ main' = "copy"
            /\ UNCHANGED <<do_exit, stream, processed, doubled>>
  /\ UNCHANGED <<write_ptr, packets, xfer, rx_xfer, stop_ubertooth, eventVars, device, sent>>

Copy ==
  /\ main = "copy"
  /\ processed' = Append(processed, packets[selected])
  /\ main' = "after"
  /\ UNCHANGED <<do_exit, stream, selected, doubled>>
  /\ UNCHANGED <<fifoVars, xfer, rx_xfer, stop_ubertooth, eventVars, device, sent>>

(* if (ut->rx_xfer) ... *)
AfterCallback ==
  /\ main = "after"
  /\ Goto(IF stop_ubertooth /\ rx_xfer # 0 THEN "cancel" ELSE "loop")
  /\ UNCHANGED <<fifoVars, xfer, rx_xfer, stop_ubertooth, eventVars, device, sent>>

(* ... libusb_cancel_transfer(ut->rx_xfer) *)
Cancelled(l) ==
  IF rx_xfer = 0
  THEN Crash /\ UNCHANGED xfer
  ELSE /\ xfer' = [xfer EXCEPT ![rx_xfer].state = IF @ = "pending" THEN "cancelling" ELSE @]
       /\ Goto(l) \/ (xfer[rx_xfer].state = "freed" /\ Crash)

Cancel ==
  /\ \/ main = "cancel" /\ Cancelled("loop")
     \/ main = "stop_cancel" /\ Cancelled("cmd_stop")
  /\ UNCHANGED <<fifoVars, rx_xfer, stop_ubertooth, eventVars, device, sent>>

(* ubertooth_bulk_thread_stop: pthread_join *)
Join ==
  /\ main = "join"
  /\ event = "none"
  /\ Goto("ended")
  /\ UNCHANGED <<fifoVars, xfer, rx_xfer, stop_ubertooth, eventVars, device, sent>>

(* After a stream: cmd_stop and another one, or ubertooth_stop *)
End ==
  /\ main = "ended"
  /\ Goto(IF stream = Streams /\ rx_xfer # 0 THEN "stop_cancel" ELSE "cmd_stop")
  /\ UNCHANGED <<fifoVars, xfer, rx_xfer, stop_ubertooth, eventVars, device, sent>>

CmdStop ==
  /\ main = "cmd_stop"
  /\ event = "none" \/ ~do_exit     \* not in the middle of a callback of its own
  /\ device' \in IF device = "gone" THEN {"gone"} ELSE {device, "idle"}
  /\ IF stream = Streams
       THEN Goto("closed") /\ UNCHANGED stop_ubertooth
       ELSE /\ stop_ubertooth' = FALSE
            /\ stream' = stream + 1 /\ main' = "init"
            /\ UNCHANGED <<do_exit, selected, processed, doubled>>
  /\ UNCHANGED <<fifoVars, xfer, rx_xfer, eventVars, sent>>

Main == BulkInit \/ RxSyms \/ Loop \/ Wait \/ Copy \/ AfterCallback \/ Cancel \/ Join \/ End \/ CmdStop

Alive == main \notin {"closed", "crashed"}

(* cleanup and stop_transfers: a signal *)
Signal ==
  /\ Alive
  /\ ~stop_ubertooth /\ stop_ubertooth' = TRUE
  /\ UNCHANGED <<fifoVars, xfer, rx_xfer, mainVars, eventVars, device, sent>>
-----------------------------------------------------------------------------
(* Whoever handles events: the poll thread, or a control transfer of the   *)
(* main thread once the poll thread is gone.                               *)

Return == event' = (IF main = "cmd_stop" /\ do_exit THEN "none" ELSE "test") /\ handled' = 0

(* while (!do_exit) *)
Test ==
  /\ Alive /\ event = "test"
  /\ event' = IF do_exit THEN "none" ELSE "handle"
  /\ UNCHANGED <<fifoVars, xfer, rx_xfer, stop_ubertooth, mainVars, handled, taken, crowded, device, sent>>

(* libusb_handle_events_timeout gives up after a second *)
NoEvent ==
  /\ Alive /\ event = "handle" /\ do_exit
  /\ event' = "test"
  /\ UNCHANGED <<fifoVars, xfer, rx_xfer, stop_ubertooth, mainVars, handled, taken, crowded, device, sent>>

Handle(i) ==
  /\ Alive
  /\ event = "handle" \/ (event = "none" /\ main = "cmd_stop")
  /\ xfer[i].state = "done"
  /\ xfer' = [xfer EXCEPT ![i].state = "idle"]
  /\ event' = "status" /\ handled' = i
  /\ UNCHANGED <<fifoVars, rx_xfer, stop_ubertooth, mainVars, taken, crowded, device, sent>>

(* cb_xfer, first on the transfer it is called for: a time limit submits   *)
(* again, a failure frees.                                                 *)
TimedOut ==
  /\ Alive /\ event = "status" /\ xfer[handled].status = "timed_out"
  /\ IF rx_xfer = 0
       THEN Crash /\ UNCHANGED <<xfer, event, handled>>
       ELSE /\ xfer' = [xfer EXCEPT ![rx_xfer] = Submitted(@)]
            /\ Return /\ UNCHANGED mainVars
  /\ UNCHANGED <<fifoVars, rx_xfer, stop_ubertooth, taken, crowded, device, sent>>

Free ==
  /\ Alive /\ event = "status" /\ xfer[handled].status \in {"cancelled", "failed"}
  /\ xfer' = [xfer EXCEPT ![handled].state = "freed"]
  /\ event' = "freed"
  /\ UNCHANGED <<fifoVars, rx_xfer, stop_ubertooth, mainVars, handled, taken, crowded, device, sent>>

Forget ==
  /\ Alive /\ event = "freed"
  /\ rx_xfer' = 0
  /\ Return
  /\ UNCHANGED <<fifoVars, xfer, stop_ubertooth, mainVars, taken, crowded, device, sent>>

Completed ==
  /\ Alive /\ event = "status" /\ xfer[handled].status = "completed"
  /\ IF stop_ubertooth THEN Return ELSE event' = "inc" /\ UNCHANGED handled
  /\ UNCHANGED <<fifoVars, xfer, rx_xfer, stop_ubertooth, mainVars, taken, crowded, device, sent>>

(* fifo_inc_write_ptr *)
IncWritePtr ==
  /\ Alive /\ event = "inc"
  /\ IF Full(read_ptr, write_ptr)
       THEN UNCHANGED <<write_ptr, taken, crowded>>     \* "packet discarded"
       ELSE /\ write_ptr' = next(write_ptr)
            /\ taken' = Append(taken, xfer[handled].data)
            /\ crowded' = (crowded \/ Full(read_ptr, write_ptr'))
  /\ event' = "submit"
  /\ UNCHANGED <<read_ptr, packets, xfer, rx_xfer, stop_ubertooth, mainVars, handled, device, sent>>

buffer_kept == xfer[rx_xfer].buffer   \* bug variant: the transfer keeps its slot
fifo_get_write_element == write_ptr

(* then on ut->rx_xfer *)
Resubmit ==
  /\ Alive /\ event = "submit"
  /\ IF rx_xfer = 0
       THEN Crash /\ UNCHANGED <<xfer, event, handled>>
       ELSE /\ xfer' = [xfer EXCEPT ![rx_xfer] = Submitted([@ EXCEPT !.buffer = fifo_get_write_element])]
            /\ Return /\ UNCHANGED mainVars
  /\ UNCHANGED <<fifoVars, rx_xfer, stop_ubertooth, taken, crowded, device, sent>>

Event ==
  \/ Test \/ NoEvent \/ TimedOut \/ Free \/ Forget \/ Completed \/ IncWritePtr \/ Resubmit
  \/ \E i \in Id : Handle(i)
-----------------------------------------------------------------------------
(* The device and the bus.                                                 *)

Send(i) ==
  /\ Alive /\ device = "streaming" /\ sent < MaxSent
  /\ OnTheBus(i) /\ \A j \in 1..(i - 1) : ~OnTheBus(j)   \* in the order submitted
  /\ sent' = sent + 1
  /\ packets' = [packets EXCEPT ![xfer[i].target] = sent + 1]
  /\ xfer' = [xfer EXCEPT ![i] = [Ended(@, "completed") EXCEPT !.data = sent + 1]]
  /\ UNCHANGED <<read_ptr, write_ptr, rx_xfer, stop_ubertooth, mainVars, eventVars, device>>

NotSent(i) ==
  /\ Alive
  /\ \/ xfer[i].state = "pending" /\ xfer' = [xfer EXCEPT ![i] = Ended(@, "timed_out")]
     \/ xfer[i].state = "cancelling" /\ xfer' = [xfer EXCEPT ![i] = Ended(@, "cancelled")]
     \/ OnTheBus(i) /\ xfer' = [xfer EXCEPT ![i] = Ended(@, "failed")]
  /\ UNCHANGED <<fifoVars, rx_xfer, stop_ubertooth, mainVars, eventVars, device, sent>>

Unplug ==
  /\ Alive /\ device # "gone"
  /\ device' = "gone"
  /\ UNCHANGED <<fifoVars, xfer, rx_xfer, stop_ubertooth, mainVars, eventVars, sent>>

Bus == Unplug \/ \E i \in Id : Send(i) \/ NotSent(i)
-----------------------------------------------------------------------------
Init ==
  /\ read_ptr = 0 /\ write_ptr = 0 /\ packets = [s \in Slot |-> 0]
  /\ xfer = [i \in Id |-> [state |-> "none", status |-> "none", buffer |-> 0, target |-> 0, data |-> 0]]
  /\ rx_xfer = 0 /\ stop_ubertooth = FALSE /\ do_exit = TRUE
  /\ main = "init" /\ stream = 1 /\ selected = 0
  /\ event = "none" /\ handled = 0
  /\ device = "idle" /\ sent = 0
  /\ taken = <<>> /\ processed = <<>> /\ crowded = FALSE /\ doubled = FALSE

Next == Main \/ Signal \/ Event \/ Bus

(* Both threads run.  A control transfer ends within a second, a bulk      *)
(* transfer times out after twenty.                                        *)
Spec == Init /\ [][Next]_vars /\ WF_vars(Main) /\ SF_vars(CmdStop) /\ WF_vars(Event)
-----------------------------------------------------------------------------
StreamTypeOK ==
  /\ read_ptr \in Slot /\ write_ptr \in Slot /\ packets \in [Slot -> 0..MaxSent]
  /\ xfer \in [Id -> [state : {"none", "idle", "pending", "cancelling", "done", "freed"},
                      status : {"none", "completed", "timed_out", "cancelled", "failed"},
                      buffer : Slot, target : Slot, data : 0..MaxSent]]
  /\ rx_xfer \in 0..Streams /\ stop_ubertooth \in BOOLEAN /\ do_exit \in BOOLEAN
  /\ main \in {"init", "rx_syms", "loop", "wait", "copy", "after", "cancel", "join",
               "ended", "stop_cancel", "cmd_stop", "closed", "crashed"}
  /\ stream \in Id /\ selected \in Slot
  /\ event \in {"none", "test", "handle", "status", "freed", "inc", "submit"}
  /\ handled \in 0..Streams
  /\ device \in {"idle", "streaming", "gone"} /\ sent \in 0..MaxSent
  /\ taken \in Seq(1..MaxSent) /\ processed \in Seq(0..MaxSent)
  /\ crowded \in BOOLEAN /\ doubled \in BOOLEAN

(* "receive and process each packet" (stream_rx_usb): what the tool        *)
(* processes is what the ring accepted, in its order, nothing twice and    *)
(* nothing overwritten while it is copied out, as long as the ring has     *)
(* never been full and no stream began while the transfer of the one       *)
(* before was still out or in its callback.                                *)
ProcessesAccepted == crowded \/ doubled \/ IsPrefix(processed, taken)

(* A packet the ring has accepted is processed unless the tool is told to  *)
(* stop or could not start.                                                *)
AcceptedIsProcessed ==
  \A n \in 1..MaxSent :
    (Len(taken) >= n) ~> (Len(processed) >= n \/ stop_ubertooth \/ ~Alive)

(* A signal ends the last stream and the tool, in whatever state the       *)
(* transfer and the device are.                                            *)
SignalEnds == (stop_ubertooth /\ stream = Streams) ~> ~Alive
=============================================================================
