--------------------------- MODULE UbertoothFirmware ---------------------------
(***************************************************************************)
(* The firmware's main program and its USB packet queue                    *)
(* (firmware/bluetooth_rxtx: bluetooth_rxtx.c, ubertooth_usb.c).           *)
(*                                                                         *)
(* The main loop polls USB, and runs the routine of the mode a vendor      *)
(* request asked for until another request changes requested_mode.  A      *)
(* routine fills the packet queue; handle_usb moves packets into the two   *)
(* buffers of the bulk endpoint and serves the control transfer that is    *)
(* waiting, if any.  The LE routines do not poll: they let the USB         *)
(* interrupt serve the request between any two of their steps.  The DMA    *)
(* interrupt reports a filled symbol buffer at any time.                   *)
(*                                                                         *)
(* Ghost state: count numbers the packets of a run, missed says whether a  *)
(* transfer or a packet was lost since the last one that was enqueued      *)
(* ("start": the run has enqueued none, or a POLL took the last), last is  *)
(* the last mode request that was served.                                  *)
(***************************************************************************)
EXTENDS Integers, Sequences, FiniteSets

CONSTANTS
  Slots,          \* slots of the packet ring: fifo[128]; all but one can be used
  MaxRequests,    \* bound on the control transfers host tools send
  Requests        \* the vendor requests they choose from

VARIABLES
  at,             \* where the main program is
  mode, requested_mode,
  target_set,     \* le.target_set
  queue,          \* fifo, head and tail
  ep,             \* the packets in the buffers of the bulk IN endpoint
  status,         \* will the next packet carry FIFO_OVERFLOW or DMA_OVERFLOW
  dma, rx_tc,     \* is the symbol DMA running; transfers completed
  usb_irq,        \* is the USB interrupt enabled
  slot,           \* the slot usb_enqueue returned and nobody has filled yet
  pending,        \* the control transfer the controller holds
  sent,
  count, missed, last

fw == <<at, mode, requested_mode, target_set, queue, ep, status, dma, rx_tc,
        usb_irq, slot, pending, sent, count, missed, last>>

(* The mode each request asks for. *)
ModeOf ==
  [ STOP |-> "IDLE", RESET |-> "RESET",
    RX_SYMBOLS |-> "RX_SYMBOLS", START_HOPPING |-> "BT_FOLLOW", AFH |-> "AFH",
    BTLE_SNIFFING |-> "BT_FOLLOW_LE", BTLE_PROMISC |-> "BT_PROMISC_LE",
    BTLE_SLAVE |-> "BT_SLAVE_LE", TX_SYMBOLS |-> "TX_SYMBOLS",
    SPECAN |-> "SPECAN", LED_SPECAN |-> "LED_SPECAN",
    RX_GENERIC |-> "RX_GENERIC", TX_GENERIC_PACKET |-> "TX_GENERIC" ]

AllRequests == DOMAIN ModeOf \cup {"SET_ACCESS_ADDRESS", "POLL"}
Modes == {ModeOf[r] : r \in DOMAIN ModeOf}
None == "none"

ASSUME FirmwareAssumption ==
  /\ Slots \in Nat \ {0, 1}
  /\ MaxRequests \in Nat
  /\ Requests \subseteq AllRequests

(* The modes bt_stream_rx stays in; those whose routine polls USB and runs *)
(* while its mode is requested; of these, the ones that set mode.          *)
Streaming == {"RX_SYMBOLS", "BT_FOLLOW"}
Polled == {"SPECAN", "LED_SPECAN", "TX_SYMBOLS", "BT_FOLLOW_LE"}
Announced == {"TX_SYMBOLS", "BT_FOLLOW_LE"}

(* The requests whose handler empties the queue. *)
Clearing == {"BTLE_SNIFFING", "BTLE_PROMISC"}

-----------------------------------------------------------------------------
(* The queue.  head and tail are used modulo the size of the ring only. *)

Blank == [kind |-> "none"]
Window == 2 * Slots     \* more packets than ring and endpoint hold together
Packet == [kind : {"BR", "SPECAN", "LE"}, n : 0 .. Window - 1,
           gap : {"no", "start", "yes"}, status : BOOLEAN]

usb_queue_init ==
  [head |-> 0, tail |-> 0, fifo |-> [i \in 0 .. Slots - 1 |-> Blank]]

Used(q) == (q.tail - q.head) % Slots
Full_never(q) == FALSE                       \* a bug: no check of the tail
Full(q) == (q.tail + 1) % Slots = q.head
Queued(q) == {(q.head + i) % Slots : i \in 0 .. Used(q) - 1}

(* usb_enqueue counts the slot in before its caller fills it. *)
usb_enqueue(q) ==
  [q EXCEPT !.tail = (@ + 1) % Slots, !.fifo[q.tail] = Blank]

(* The n oldest packets, and the queue without them (dequeue, n times).    *)
Oldest(q, n) == [i \in 1 .. n |-> q.fifo[(q.head + i - 1) % Slots]]
dequeue(q, n) ==
  [head |-> (q.head + n) % Slots, tail |-> q.tail,
   fifo |-> [i \in 0 .. Slots - 1 |->
               IF (i - q.head) % Slots < n THEN Blank ELSE q.fifo[i]]]

(* POLL hands the oldest packet out past the endpoint: there the one behind *)
(* it does not follow its predecessor.                                     *)
TakeOut(q) ==
  LET d == dequeue(q, 1)
  IN IF Used(d) > 0 /\ d.fifo[d.head] # Blank
     THEN [d EXCEPT !.fifo[d.head] = [@ EXCEPT !.gap = "start"]]
     ELSE d

NewPacket(kind, flag) ==
  [kind |-> kind, n |-> count, gap |-> missed, status |-> flag]

(* A bug: the packet that does not fit leaves no trace. *)
enqueue_unflagged(kind, flag) ==
  IF Full(queue)
  THEN [queue |-> queue, status |-> flag, count |-> count, missed |-> "yes"]
  ELSE [queue |-> [usb_enqueue(queue) EXCEPT
                     !.fifo[queue.tail] = NewPacket(kind, flag)],
        status |-> FALSE, count |-> (count + 1) % Window, missed |-> "no"]

(* enqueue, where nothing can come between its steps: a full queue is      *)
(* remembered in status, which goes out with the next packet that fits.    *)
enqueue(kind, flag) ==
  IF Full(queue)
  THEN [queue |-> queue, status |-> TRUE,
        count |-> count, missed |-> "yes"]
  ELSE [queue |-> [usb_enqueue(queue) EXCEPT
                     !.fifo[queue.tail] = NewPacket(kind, flag)],
        status |-> FALSE, count |-> (count + 1) % Window, missed |-> "no"]

-----------------------------------------------------------------------------
(* Vendor requests *)

(* vendor_request_handler for the transfer that is pending, q the queue    *)
(* and m what was missed.                                                  *)
vendor_request_handler(q, m) ==
  /\ pending' = None
  /\ requested_mode' = IF pending \in DOMAIN ModeOf THEN ModeOf[pending]
                       ELSE requested_mode
  /\ last' = IF pending \in DOMAIN ModeOf THEN pending ELSE last
  /\ target_set' = (target_set \/ pending = "SET_ACCESS_ADDRESS")
  /\ missed' = IF pending \in Clearing \/ (pending = "POLL" /\ Used(q) = 1)
               THEN "start" ELSE m
  /\ queue' = CASE pending \in Clearing -> usb_queue_init
                [] pending = "POLL" /\ Used(q) > 0 -> TakeOut(q)
                [] OTHER -> q

(* handle_usb: a packet into each free endpoint buffer, then the request.  *)
handle_usb(q, m) ==
  LET free == 2 - Len(ep)
      n == IF Used(q) < free THEN Used(q) ELSE free
  IN /\ ep' = ep \o Oldest(q, n)
     /\ vendor_request_handler(dequeue(q, n), m)

(* The USB interrupt. *)
UsbInterrupt ==
  /\ usb_irq /\ pending # None
  /\ vendor_request_handler(queue, missed)
  /\ UNCHANGED <<at, mode, ep, status, dma, rx_tc, usb_irq, slot, sent, count>>

(* The host: a tool sends a request when the last one has been served and  *)
(* the device is on the bus (POLL only to an LE mode), or reads a packet   *)
(* from the bulk endpoint.                                                 *)
Send(r) ==
  /\ pending = None /\ sent < MaxRequests /\ at # "boot"
  /\ r = "POLL" => last \in Clearing
  /\ pending' = r
  /\ sent' = sent + 1
  /\ UNCHANGED <<at, mode, requested_mode, target_set, queue, ep, status, dma,
                 rx_tc, usb_irq, slot, count, missed, last>>

BulkRead ==
  /\ ep # <<>>
  /\ ep' = Tail(ep)
  /\ UNCHANGED <<at, mode, requested_mode, target_set, queue, status, dma,
                 rx_tc, usb_irq, slot, pending, sent, count, missed, last>>

(* A symbol buffer is full, and one that was not enqueued yet is lost.  So *)
(* is one that completes while bt_stream_rx is closing, when rx_tc has     *)
(* been looked at and is about to be cleared: missed does not count it.    *)
DmaInterrupt ==
  /\ dma
  /\ rx_tc' = IF rx_tc < 2 THEN rx_tc + 1 ELSE rx_tc
  /\ missed' = IF missed = "no" /\ at = "stream" /\ rx_tc > 0 THEN "yes" ELSE missed
  /\ UNCHANGED <<at, mode, requested_mode, target_set, queue, ep, status, dma,
                 usb_irq, slot, pending, sent, count, last>>

-----------------------------------------------------------------------------
(* The main program *)

Init ==
  /\ at = "main" /\ mode = "IDLE" /\ requested_mode = "IDLE"
  /\ target_set = FALSE
  /\ queue = usb_queue_init /\ ep = <<>> /\ status = FALSE
  /\ dma = FALSE /\ rx_tc = 0 /\ usb_irq = FALSE /\ slot = -1
  /\ pending = None /\ sent = 0
  /\ count = 0 /\ missed = "start" /\ last = "STOP"

(* cc2400_idle: everything off, and both modes are idle. *)
cc2400_idle ==
  /\ mode' = "IDLE" /\ requested_mode' = "IDLE" /\ status' = FALSE

MainLoop ==
  /\ at = "main"
  /\ handle_usb(queue, missed)
  /\ at' = IF requested_mode' = mode THEN "main" ELSE "dispatch"
  /\ UNCHANGED <<mode, status, dma, rx_tc, usb_irq, slot, sent, count>>

Dispatch(m, next) == at = "dispatch" /\ requested_mode = m /\ at' = next

GoIdle ==
  /\ Dispatch("IDLE", "main")
  /\ cc2400_idle
  /\ UNCHANGED <<target_set, queue, ep, dma, rx_tc, usb_irq, slot, pending,
                 sent, count, missed, last>>

(* bt_stream_rx is left at once in a mode that its loop does not name:     *)
(* MODE_AFH, and MODE_RX_GENERIC when register GRMDM reads zero.           *)
StartStream(m) ==
  /\ Dispatch(m, IF m \in Streaming THEN "stream" ELSE "main")
  /\ mode' = m
  /\ queue' = usb_queue_init
  /\ dma' = (m \in Streaming) /\ rx_tc' = 0
  /\ missed' = "start" /\ count' = 0
  /\ UNCHANGED <<requested_mode, target_set, ep, status, usb_irq, slot,
                 pending, sent, last>>

(* The wait of bt_stream_rx for a transfer, which polls USB. *)
StreamWait ==
  /\ at = "stream" /\ rx_tc = 0
  /\ handle_usb(queue, missed)
  /\ UNCHANGED <<at, mode, status, dma, rx_tc, usb_irq, slot, sent, count>>

(* A transfer is there: flag the others it overwrote, enqueue it.  A DMA   *)
(* interrupt between the look at rx_tc and usb_enqueue only adds to rx_tc,  *)
(* which usb_enqueue does not read and StreamClose clears: it is the one    *)
(* that comes right after, while at = "closing".                            *)
StreamTake ==
  /\ at = "stream" /\ rx_tc > 0
  /\ LET e == enqueue("BR", status \/ rx_tc > 1)
     IN /\ queue' = e.queue /\ status' = e.status
        /\ count' = e.count /\ missed' = e.missed
  /\ at' = "closing"
  /\ UNCHANGED <<mode, requested_mode, target_set, ep, dma, rx_tc, usb_irq, slot,
                 pending, sent, last>>

(* A bug: only STOP ends the loop. *)
StreamClose_idle ==
  /\ at = "closing"
  /\ handle_usb(queue, missed)
  /\ rx_tc' = 0
  /\ dma' = (requested_mode' # "IDLE")
  /\ at' = IF requested_mode' # "IDLE" THEN "stream" ELSE "main"
  /\ UNCHANGED <<mode, status, usb_irq, slot, sent, count>>

(* The end of the loop of bt_stream_rx: poll USB, clear rx_tc, look at the mode. *)
StreamClose ==
  /\ at = "closing"
  /\ handle_usb(queue, missed)
  /\ rx_tc' = 0
  /\ dma' = (requested_mode' \in Streaming)
  /\ at' = IF requested_mode' \in Streaming THEN "stream" ELSE "main"
  /\ UNCHANGED <<mode, status, usb_irq, slot, sent, count>>

(* specan, led_specan, br_transmit and le_phy_main: a loop that polls USB  *)
(* while the mode is requested, specan for whole sweeps.  The first two    *)
(* leave mode as it was; only the first and the last enqueue (le_phy_main  *)
(* is modelled in LeFollow).                                               *)
StartPolled(m) ==
  /\ Dispatch(m, m)
  /\ mode' = IF m \in Announced THEN m ELSE mode
  /\ queue' = IF m = "SPECAN" THEN usb_queue_init ELSE queue
  /\ missed' = IF m = "SPECAN" THEN "start" ELSE missed
  /\ count' = IF m = "SPECAN" THEN 0 ELSE count
  /\ UNCHANGED <<requested_mode, target_set, ep, status, dma, rx_tc, usb_irq,
                 slot, pending, sent, last>>

RunPolled(m) ==
  /\ at = m
  /\ LET e == IF m = "SPECAN" THEN enqueue("SPECAN", status)
              ELSE [queue |-> queue, status |-> status, count |-> count,
                    missed |-> missed]
     IN /\ handle_usb(e.queue, e.missed)
        /\ status' = e.status /\ count' = e.count
  /\ at' = IF requested_mode' = m \/ m = "SPECAN" THEN m ELSE "main"
  /\ UNCHANGED <<mode, dma, rx_tc, usb_irq, slot, sent>>

SweepEnds ==
  /\ at = "SPECAN" /\ requested_mode # "SPECAN"
  /\ at' = "main"
  /\ UNCHANGED <<mode, requested_mode, target_set, queue, ep, status, dma, rx_tc,
                 usb_irq, slot, pending, sent, count, missed, last>>

(* tx_generic sends one packet and asks for the mode it interrupted. *)
TxGeneric ==
  /\ Dispatch("TX_GENERIC", "main")
  /\ mode' = "TX_GENERIC" /\ requested_mode' = mode
  /\ UNCHANGED <<target_set, queue, ep, status, dma, rx_tc, usb_irq, slot,
                 pending, sent, count, missed, last>>

(* rx_generic_sync never looks at the mode again. *)
StartGenericSync ==
  /\ Dispatch("RX_GENERIC", "generic_sync")
  /\ mode' = "RX_GENERIC" /\ queue' = usb_queue_init /\ missed' = "start" /\ count' = 0
  /\ UNCHANGED <<requested_mode, target_set, ep, status, dma, rx_tc, usb_irq,
                 slot, pending, sent, last>>

GenericSync ==
  /\ at = "generic_sync"
  /\ LET e == enqueue("BR", status)
     IN /\ handle_usb(e.queue, e.missed)
        /\ status' = e.status /\ count' = e.count
  /\ UNCHANGED <<at, mode, dma, rx_tc, usb_irq, slot, sent>>

(* bt_slave_le transmits and sleeps under the USB interrupt.  msleep       *)
(* compares a 24-bit clock with a sum that may not fit 24 bits: then the   *)
(* wait never ends.                                                        *)
StartSlave ==
  /\ Dispatch("BT_SLAVE_LE", "slave")
  /\ usb_irq' = TRUE
  /\ UNCHANGED <<mode, requested_mode, target_set, queue, ep, status, dma, rx_tc,
                 slot, pending, sent, count, missed, last>>

Slave ==
  /\ at = "slave"
  /\ \/ requested_mode = "BT_SLAVE_LE" /\ at' = "asleep" /\ UNCHANGED usb_irq
     \/ requested_mode # "BT_SLAVE_LE" /\ at' = "main" /\ usb_irq' = FALSE
  /\ UNCHANGED <<mode, requested_mode, target_set, queue, ep, status, dma, rx_tc,
                 slot, pending, sent, count, missed, last>>

SlaveWakes ==
  /\ at = "asleep"
  /\ at' \in {"slave", "overslept"}
  /\ UNCHANGED <<mode, requested_mode, target_set, queue, ep, status, dma, rx_tc,
                 usb_irq, slot, pending, sent, count, missed, last>>

-----------------------------------------------------------------------------
(* LE promiscuous mode: bt_promisc_le, bt_generic_le and bt_le_sync *)

(* Without an access address it listens for one, with one it announces the *)
(* address, which usb_queue_init then drops, and follows it.               *)
StartPromisc ==
  /\ at \in {"dispatch", "promisc"} /\ requested_mode = "BT_PROMISC_LE"
  /\ mode' = "BT_PROMISC_LE"
  /\ at' = IF ~target_set /\ at = "dispatch" THEN "generic" ELSE "sync"
  /\ status' = IF at' = "generic" THEN status ELSE Full(queue)
  /\ queue' = usb_queue_init /\ missed' = "start" /\ count' = 0
  /\ dma' = TRUE /\ rx_tc' = 0 /\ usb_irq' = TRUE
  /\ UNCHANGED <<requested_mode, target_set, ep, slot, pending, sent, last>>

(* usb_enqueue, as the first step of filling a packet. *)
OpenSlot(next) ==
  /\ IF Full(queue)
     THEN /\ status' = TRUE /\ missed' = "yes"
          /\ UNCHANGED <<queue, slot>>
     ELSE /\ slot' = queue.tail /\ queue' = usb_enqueue(queue)
          /\ UNCHANGED <<status, missed>>
  /\ at' = next

(* The rest of enqueue.  The slot may have been handed out or dropped. *)
FillSlot ==
  /\ queue' = IF slot \in Queued(queue)
              THEN [queue EXCEPT !.fifo[slot] = [kind |-> "LE", n |-> 0, gap |-> "no", status |-> status]] ELSE queue
  /\ IF slot = -1 THEN UNCHANGED <<status, count, missed>>
     ELSE status' = FALSE /\ missed' = "no" /\ UNCHANGED count
  /\ slot' = -1

(* cb_le_promisc finds a match and enqueues it, the interrupt enabled.     *)
GenericMatch ==
  /\ at = "generic" /\ rx_tc > 0
  /\ OpenSlot("generic_fill")
  /\ UNCHANGED <<mode, requested_mode, target_set, ep, dma, rx_tc, usb_irq,
                 pending, sent, count, last>>

(* A bug: the loop does not look at the mode. *)
NextTransfer_unchecked == rx_tc' = 0 /\ at' = "generic"

(* The transfer is dealt with: look at the mode, then wait for another. *)
NextTransfer ==
  /\ rx_tc' = 0
  /\ at' = IF requested_mode = mode THEN "generic" ELSE "leaving"

(* It goes on, or has seen an address often enough and returns 0. *)
GenericFill ==
  /\ at = "generic_fill"
  /\ FillSlot
  /\ \/ NextTransfer
     \/ at' = "picked" /\ UNCHANGED rx_tc
  /\ UNCHANGED <<mode, requested_mode, target_set, ep, dma, usb_irq, pending,
                 sent, last>>

(* A transfer with no match. *)
GenericNothing ==
  /\ at = "generic" /\ rx_tc > 0
  /\ NextTransfer
  /\ UNCHANGED <<mode, requested_mode, target_set, queue, ep, status, dma,
                 usb_irq, slot, pending, sent, count, missed, last>>

(* A bug: the USB interrupt stays enabled. *)
LeaveLe_open ==
  /\ at \in {"leaving", "found", "sync"}
  /\ dma' = FALSE
  /\ cc2400_idle
  /\ at' = "promisc"
  /\ UNCHANGED <<target_set, queue, ep, rx_tc, usb_irq, slot, pending, sent,
                 count, missed, last>>

(* The end of bt_generic_le and of bt_le_sync: the interrupt and the radio *)
(* go off, and cc2400_idle overwrites the mode that was requested.         *)
LeaveLe ==
  /\ at \in {"leaving", "found", "sync"}     \* sync: the mode changed, or a timeout
  /\ usb_irq' = FALSE /\ dma' = FALSE
  /\ cc2400_idle
  /\ at' = "promisc"
  /\ UNCHANGED <<target_set, queue, ep, rx_tc, slot, pending, sent, count,
                 missed, last>>

(* "could have got mode change in middle of above" *)
LeavePromisc ==
  /\ at = "promisc" /\ requested_mode # "BT_PROMISC_LE"
  /\ at' = "main"
  /\ UNCHANGED <<mode, requested_mode, target_set, queue, ep, status, dma, rx_tc,
                 usb_irq, slot, pending, sent, count, missed, last>>

(* le_promisc_state, also unprotected: cb_le_promisc announces the address *)
(* it picked, the packet callback of bt_le_sync its progress.              *)
Announce ==
  /\ \/ at = "picked" /\ OpenSlot("picked_fill")
     \/ at = "sync" /\ requested_mode = mode /\ rx_tc > 0 /\ OpenSlot("state_fill")
  /\ UNCHANGED <<mode, requested_mode, target_set, ep, dma, rx_tc, usb_irq,
                 pending, sent, count, last>>

AnnounceFill ==
  /\ at \in {"picked_fill", "state_fill"}
  /\ FillSlot
  /\ at' = IF at = "picked_fill" THEN "found" ELSE "state_done"
  /\ UNCHANGED <<mode, requested_mode, target_set, ep, dma, rx_tc, usb_irq,
                 pending, sent, last>>

(* A bug: the packet is enqueued with the interrupt enabled. *)
SyncPacket_open ==
  /\ \/ at = "sync" /\ requested_mode = mode /\ rx_tc > 0
     \/ at = "state_done"
  /\ OpenSlot("sync_fill")
  /\ UNCHANGED <<mode, requested_mode, target_set, ep, dma, rx_tc, usb_irq,
                 pending, sent, count, last>>

(* bt_le_sync enqueues the packet itself with the USB interrupt disabled.  *)
SyncPacket ==
  /\ \/ at = "sync" /\ requested_mode = mode /\ rx_tc > 0
     \/ at = "state_done"
  /\ usb_irq' = FALSE
  /\ OpenSlot("sync_fill")
  /\ UNCHANGED <<mode, requested_mode, target_set, ep, dma, rx_tc, pending,
                 sent, count, last>>

SyncFill ==
  /\ at = "sync_fill"
  /\ FillSlot
  /\ usb_irq' = TRUE /\ rx_tc' = 0 /\ at' = "sync"
  /\ UNCHANGED <<mode, requested_mode, target_set, ep, dma, pending, sent, last>>

-----------------------------------------------------------------------------
(* MODE_RESET: a second for the request to complete, then the reset. *)
WaitToReset ==
  /\ Dispatch("RESET", "resetting")
  /\ UNCHANGED <<mode, requested_mode, target_set, queue, ep, status, dma, rx_tc,
                 usb_irq, slot, pending, sent, count, missed, last>>

reset ==
  /\ at = "resetting"
  /\ at' = "boot" /\ mode' = "IDLE" /\ requested_mode' = "IDLE"
  /\ target_set' = FALSE /\ queue' = usb_queue_init /\ ep' = <<>> /\ status' = FALSE
  /\ dma' = FALSE /\ rx_tc' = 0 /\ usb_irq' = FALSE /\ slot' = -1 /\ pending' = None
  /\ count' = 0 /\ missed' = "start"
  /\ UNCHANGED <<sent, last>>

Boot ==
  /\ at = "boot" /\ at' = "main"
  /\ UNCHANGED <<mode, requested_mode, target_set, queue, ep, status, dma, rx_tc,
                 usb_irq, slot, pending, sent, count, missed, last>>

Program ==
  \/ MainLoop \/ GoIdle
  \/ \E m \in Streaming \cup {"AFH", "RX_GENERIC"} : StartStream(m)
  \/ StreamWait \/ StreamTake \/ StreamClose
  \/ \E m \in Polled : StartPolled(m) \/ RunPolled(m)
  \/ SweepEnds
  \/ TxGeneric \/ StartGenericSync \/ GenericSync
  \/ StartSlave \/ Slave \/ SlaveWakes
  \/ StartPromisc \/ GenericMatch \/ GenericFill \/ GenericNothing
  \/ LeaveLe \/ LeavePromisc
  \/ Announce \/ AnnounceFill \/ SyncPacket \/ SyncFill
  \/ WaitToReset \/ reset \/ Boot

Host == BulkRead \/ \E r \in Requests : Send(r)
Firmware == Program \/ UsbInterrupt \/ DmaInterrupt

Next == Firmware \/ Host

(* The processor always runs, a sweep has an end, the radio always clocks  *)
(* symbols, an enabled interrupt is taken.  Nothing is assumed of the host. *)
Fairness == WF_fw(Program) /\ WF_fw(SweepEnds) /\ WF_fw(UsbInterrupt) /\ WF_fw(DmaInterrupt)

Spec == Init /\ [][Next]_fw /\ Fairness

-----------------------------------------------------------------------------
(* Properties *)

(* What the variables hold.  The interrupt is enabled in the LE routines   *)
(* only, and a slot is open only while one of them fills it.               *)
LeProgram == {"slave", "asleep", "overslept", "generic", "generic_fill", "picked",
              "picked_fill", "found", "leaving", "sync", "state_fill", "state_done"}
Filling == {"generic_fill", "picked_fill", "state_fill", "sync_fill"}
Places == LeProgram \cup Polled \cup
  {"main", "dispatch", "stream", "closing", "generic_sync", "promisc", "sync_fill",
   "resetting", "boot"}

FwTypeOK ==
  /\ at \in Places
  /\ mode \in Modes /\ requested_mode \in Modes /\ target_set \in BOOLEAN
  /\ queue \in [head : 0 .. Slots - 1, tail : 0 .. Slots - 1,
                fifo : [0 .. Slots - 1 -> Packet \cup {Blank}]]
  /\ ep \in Seq(Packet \cup {Blank}) /\ Len(ep) <= 2
  /\ status \in BOOLEAN
  /\ dma \in BOOLEAN /\ rx_tc \in 0 .. 2
  /\ usb_irq \in BOOLEAN /\ (at \in LeProgram => usb_irq)
  /\ usb_irq => at \in LeProgram \cup {"sync_fill"}
  /\ slot \in -1 .. Slots - 1 /\ (at \notin Filling => slot = -1)
  /\ pending \in Requests \cup {"RESET", None}
  /\ sent \in 0 .. MaxRequests
  /\ count \in 0 .. Window - 1
  /\ missed \in {"no", "start", "yes"} /\ last \in DOMAIN ModeOf

(* What the host has yet to read: the endpoint, then the ring. *)
Unread == ep \o Oldest(queue, Used(queue))

(* The stream the host reads is the stream that was enqueued: no packet of *)
(* a run of bt_stream_rx or specan is repeated, overtaken or dropped       *)
(* between usb_enqueue and the endpoint, whatever the polls interleave;    *)
(* only a POLL of an LE tool that comes too early takes one out.           *)
InOrder ==
  \A i \in 2 .. Len(Unread) :
    LET p == Unread[i - 1]  q == Unread[i]
    IN p.kind \in {"BR", "SPECAN"} /\ q.kind = p.kind /\ q.gap # "start"
         => q.n = (p.n + 1) % Window

(* Losses show: a packet that follows a lost one, or a lost transfer,      *)
(* carries an overflow flag (see DmaInterrupt for the one that does not).  *)
LossFlagged ==
  \A i \in 1 .. Len(Unread) :
    Unread[i].kind \in {"BR", "SPECAN"} /\ Unread[i].gap = "yes"
      => Unread[i].status

(* "disable USB interrupts while we touch USB data structures": a packet   *)
(* that is counted in but not filled cannot be polled by the host, except  *)
(* where the promiscuous callbacks enqueue with the interrupt enabled.     *)
WholePackets ==
  \A i \in Queued(queue) :
    queue.fifo[i] = Blank =>
      ~usb_irq \/ at \in {"generic_fill", "picked_fill", "state_fill"}

(* The routines that cannot be stopped: the packet mode of rx_generic, and *)
(* msleep when the clock wraps under it.                                   *)
Deaf == at \in {"generic_sync", "overslept"}

(* A STOP brings the main program back to idle, from every mode but those, *)
(* when no other mode is asked for.                                        *)
StopObeyed ==
  (last = "STOP") ~>
    \/ at = "main" /\ mode = "IDLE" /\ requested_mode = "IDLE"
    \/ last # "STOP" \/ Deaf

(* A RESET that the handler accepts outside the LE routines resets the     *)
(* device, when no other mode is asked for before it does.                 *)
ResetObeyed ==
  (requested_mode = "RESET" /\ at \notin LeProgram \cup {"sync_fill"}) ~> (at = "boot" \/ last # "RESET" \/ Deaf)

(* "once we see an AA 5 times, start following it": with no request from   *)
(* the host, the promiscuous mode goes on to follow the address it found.  *)
Follows == (at = "found" /\ requested_mode = mode) ~> (at = "sync" \/ pending # None)

=============================================================================
