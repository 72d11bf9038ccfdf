------------------------------ MODULE LeFollow ------------------------------
(***************************************************************************)
(* le_phy.c and queue.c (firmware/bluetooth_rxtx): following a Bluetooth   *)
(* LE connection.  Three contexts share the state: the DMA interrupt       *)
(* (bytes of a packet), the interrupt of timer 1 (connection events, radio *)
(* lock, wait for a buffer) and the main loop (packets out of the queue,   *)
(* USB requests).  The interrupts have one priority, so each handler is    *)
(* one action; the main loop can be interrupted anywhere, and its          *)
(* read-modify-write of the timer's enable register T1MCR is two actions.  *)
(*                                                                         *)
(* Time is abstract.  A match register is ahead of the counter or behind   *)
(* it; one that is set behind fires when the 32-bit counter has wrapped    *)
(* (430 s).  Channels are counted, not mapped: the channel map and its     *)
(* update, signal strengths and the packets' bytes are left out.           *)
(***************************************************************************)
EXTENDS Integers, Sequences, FiniteSets

CONSTANTS
  LE_BUFFER_POOL_SIZE,  \* 4 in the code
  FIFOSIZE,     \* slots of packet_queue, one of them always free (10)
  Wrap,         \* the event counter and the channel index count modulo this (2^16 and 37)
  MaxQuiet,     \* events without a packet the supervision timeout allows
  MayStop,      \* the host may stop following and start again
  Atomic        \* no interrupt comes between the main loop's read of T1MCR and its write

ASSUME FollowAssumption ==
  /\ LE_BUFFER_POOL_SIZE \in Nat \ {0}
  /\ FIFOSIZE \in Nat /\ FIFOSIZE > LE_BUFFER_POOL_SIZE
  /\ Wrap \in Nat /\ Wrap > 1
  /\ MaxQuiet \in Nat
  /\ {MayStop, Atomic} \subseteq BOOLEAN

VARIABLES
  available,      \* buffers of the pool not in use
  current_rxbuf,
  packet_queue,
  content,        \* what each buffer last received
  conn,
  conn_event,
  T1,             \* timer 1: each match register's interrupt is off, ahead of the counter or behind it
  radio,          \* off, waiting for FS_LOCK, receiving, inside a packet
  rf_channel,     \* advertising or data channel
  cancel_follow,
  main,           \* the main loop: place, packet in hand, value read from T1MCR
  fault,          \* the processor has written through a NULL buffer
  seen            \* history, for the properties only

vars == <<available, current_rxbuf, packet_queue, content, conn, conn_event, T1,
          radio, rf_channel, cancel_follow, main, fault, seen>>

Buf == 1 .. LE_BUFFER_POOL_SIZE
NULL == 0
Counter == 0 .. Wrap - 1
Match == {"MR0", "MR2", "MR3"}
Content == [kind : {"plain", "connect"}] \cup [kind : {"update"}, instant : Counter]
Plain == [kind |-> "plain"]

(* conn_update_pending with what it announces. *)
NoUpdate == [pending |-> FALSE]
Update == [pending : {TRUE}, instant : Counter, offset : BOOLEAN]

(* reset_conn: everything zero, the advertising access address. *)
NoConn == [following |-> FALSE, counter |-> 0, channel_idx |-> 0, anchor_set |-> FALSE,
           inTime |-> FALSE, quiet |-> 0, update |-> NoUpdate]

(* reset_conn_event; tuned is history: the channel was changed in this event. *)
NoEvent == [num_packets |-> 0, opened |-> FALSE, tuned |-> FALSE]

Running == main.pc # "out" /\ ~fault

---------------------------------------------------------------------------
(* Timer 1.  Setting a match register to a time that has passed leaves it  *)
(* behind the counter.                                                     *)

timer1_set_match(t, when) == [t EXCEPT !.MR0 = when]
timer1_clear_match(t) == [t EXCEPT !.MR0 = "off"]
timer1_wait_fs_lock(t) == [t EXCEPT !.MR2 = "ahead"]
timer1_wait_buffer(t) == [t EXCEPT !.MR3 = "ahead"]

(* T1MCR *)
Enabled(t) == {r \in Match : t[r] # "off"}

Fires(r) == T1[r] = "ahead" /\ Running

(* queue_insert, which drops the packet when the queue is full. *)
queue_insert(q, b) == IF Len(q) < FIFOSIZE - 1 THEN Append(q, b) ELSE q

(* buffer_get: the first of the available buffers, or NULL. *)
BufferGet ==
  \/ \E b \in available :
       /\ \A other \in available : b <= other
       /\ current_rxbuf' = b /\ available' = available \ {b}
  \/ available = {} /\ current_rxbuf' = NULL /\ UNCHANGED available

(* change_channel for connection c, timer t and current buffer b: clears the  *)
(* buffer (writing through the pointer, NULL or not), hops, waits for the     *)
(* radio to lock.                                                             *)
change_channel(c, t, b) ==
  /\ fault' = (b = NULL)
  /\ radio' = "locking"
  /\ rf_channel' = IF c.following THEN "data" ELSE "adv"
  /\ conn' = IF c.following THEN [c EXCEPT !.channel_idx = (@ + 1) % Wrap] ELSE c
  /\ T1' = timer1_wait_fs_lock(t)

(* finish_conn_event up to the supervision timeout, n packets received.  An   *)
(* anchor is observed with two packets, or with one near the estimate; with   *)
(* none at all the old anchor of conn_event is taken and the silence forgiven.*)
(* Bug variant: the event is not counted.                                     *)
Finished_uncounted(n, observed) == [conn EXCEPT !.anchor_set = @ \/ observed, !.quiet = 0]

Finished(n, observed) ==
  [conn EXCEPT
    !.anchor_set = @ \/ observed,
    !.inTime = IF conn.anchor_set /\ ~observed THEN @ ELSE n > 0,
    !.quiet = IF n > 0 \/ ~conn.anchor_set THEN 0 ELSE IF @ > MaxQuiet THEN @ ELSE @ + 1,
    !.counter = (@ + 1) % Wrap]

(* After reset_conn the timeout is zero, and may or may not have passed.      *)
Expired_never(c) == {FALSE}      \* bug variant: no supervision timeout

Expired(c) == {c.quiet > MaxQuiet} \cup (IF c.following THEN {} ELSE {TRUE})

(* n packets received, the timer being t, b the current buffer and r the radio. *)
finish_conn_event(n, t, b, r) ==
  /\ conn_event' = NoEvent
  /\ \E observed \in BOOLEAN, when \in {"ahead", "behind"} :
       LET c == Finished(n, observed)
       IN  /\ observed => n = 2 \/ (n = 1 /\ conn.anchor_set)
           /\ n = 2 => observed
           /\ c.inTime => when = "ahead"
           /\ \E expired \in Expired(c) :
                IF expired \/ cancel_follow
                THEN /\ cancel_follow' = (cancel_follow /\ expired)
                     /\ change_channel(NoConn, t, b)
                ELSE /\ conn' = c
                     /\ T1' = timer1_set_match(t, when)
                     /\ radio' = r
                     /\ UNCHANGED <<cancel_follow, fault, rf_channel>>

(* The history of a connection, which ends with it: has anything disturbed it, *)
(* and the events counted until then.                                          *)
Disturbed(b) ==
  LET d == conn'.following /\ (seen.disturbed \/ b)
  IN  [seen EXCEPT !.disturbed = d, !.events = IF d \/ ~conn'.following THEN 0 ELSE @]

NextEvent(b) ==
  LET s == Disturbed(b)
  IN  IF s.disturbed \/ ~conn'.following THEN s ELSE [s EXCEPT !.events = (@ + 1) % Wrap]

---------------------------------------------------------------------------
(* The DMA interrupt: first byte of a packet, then its end.                *)

PacketStart ==
  /\ Running /\ radio = "receiving"
  /\ fault' = (current_rxbuf = NULL)
  /\ radio' = "packet"
  /\ T1' = IF rf_channel = "data" THEN timer1_clear_match(T1) ELSE T1
  /\ UNCHANGED <<available, current_rxbuf, packet_queue, content, conn, conn_event,
                 rf_channel, cancel_follow, main, seen>>

(* What arrives: one update at a time. *)
UpdateOnTheWay == conn.update.pending \/ \E b \in Buf : content[b].kind = "update"

Received ==
  IF rf_channel = "adv" THEN [kind : {"plain", "connect"}]
  ELSE {Plain} \cup (IF UpdateOnTheWay THEN {} ELSE [kind : {"update"}, instant : Counter])

(* The packet completes while the radio is not tuned to the channel of an event. *)
Stray == rf_channel = "data" /\ ~conn_event.tuned

EndOfPacket ==
  /\ Running /\ radio = "packet"
  /\ \E p \in Received : content' = [content EXCEPT ![current_rxbuf] = p]
  /\ packet_queue' = queue_insert(packet_queue, current_rxbuf)
  /\ BufferGet
  /\ UNCHANGED main

(* Go on receiving as soon as there is a buffer and the radio has locked. *)
Rearm_unretried(t) == IF current_rxbuf' = NULL THEN t ELSE timer1_wait_fs_lock(t)  \* bug variant

Rearm(t) == IF current_rxbuf' = NULL THEN timer1_wait_buffer(t) ELSE timer1_wait_fs_lock(t)

AdvPacketEnd ==
  /\ rf_channel = "adv"
  /\ EndOfPacket
  /\ radio' = IF current_rxbuf' = NULL THEN "off" ELSE "locking"
  /\ T1' = Rearm(T1)
  /\ UNCHANGED <<conn, conn_event, rf_channel, cancel_follow, fault, seen>>

(* Bug variant: a second packet does not close the event. *)
FirstPacketEnd_open ==
  /\ rf_channel = "data"
  /\ EndOfPacket
  /\ radio' = IF current_rxbuf' = NULL THEN "off" ELSE "locking"
  /\ T1' = Rearm(timer1_set_match(T1, "ahead"))
  /\ conn_event' = [conn_event EXCEPT !.num_packets = @ + 1]
  /\ UNCHANGED <<conn, rf_channel, cancel_follow, fault, seen>>

FirstPacketEnd ==
  /\ rf_channel = "data" /\ conn_event.num_packets = 0
  /\ EndOfPacket
  /\ radio' = IF current_rxbuf' = NULL THEN "off" ELSE "locking"
  /\ T1' = Rearm(timer1_set_match(T1, "ahead"))
  /\ conn_event' = [conn_event EXCEPT !.num_packets = 1]
  /\ UNCHANGED <<conn, rf_channel, cancel_follow, fault>>
  /\ seen' = Disturbed(Stray)

SecondPacketEnd ==
  /\ rf_channel = "data" /\ conn_event.num_packets = 1
  /\ EndOfPacket
  /\ finish_conn_event(2, T1, current_rxbuf', "off")
  /\ seen' = NextEvent(Stray)

---------------------------------------------------------------------------
(* The interrupt of timer 1.                                               *)

(* Bug variant: the event after the instant. *)
Updating_late == conn.update.pending /\ conn.counter = (conn.update.instant + 1) % Wrap

Updating == conn.update.pending /\ conn.counter = conn.update.instant

(* The transmit window of an update begins later: look again then. *)
UpdateWindow ==
  /\ Fires("MR0") /\ Updating /\ ~conn_event.opened /\ conn.update.offset
  /\ \E when \in {"ahead", "behind"} :
       (conn.inTime => when = "ahead") /\ T1' = timer1_set_match(T1, when)
  /\ conn_event' = [conn_event EXCEPT !.opened = TRUE]
  /\ UNCHANGED <<available, current_rxbuf, packet_queue, content, conn, radio, rf_channel,
                 cancel_follow, main, fault, seen>>

(* The update takes effect; the match counts from the last anchor with the    *)
(* new interval and may have passed.                                          *)
UpdateApplied ==
  /\ Fires("MR0") /\ Updating /\ (conn_event.opened \/ ~conn.update.offset)
  /\ conn_event' = [conn_event EXCEPT !.opened = TRUE, !.tuned = TRUE]
  /\ \E when \in {"ahead", "behind"} :
       change_channel([conn EXCEPT !.anchor_set = FALSE, !.update = NoUpdate],
                      timer1_set_match(T1, when), current_rxbuf)
  /\ seen' = Disturbed(conn_event.tuned)
  /\ UNCHANGED <<available, current_rxbuf, packet_queue, content, cancel_follow, main>>

OpenEvent ==
  /\ Fires("MR0") /\ ~Updating /\ ~conn_event.opened
  /\ conn_event' = [conn_event EXCEPT !.opened = TRUE, !.tuned = TRUE]
  /\ change_channel(conn, timer1_set_match(T1, "ahead"), current_rxbuf)
  /\ UNCHANGED <<available, current_rxbuf, packet_queue, content, cancel_follow, main, seen>>

EventTimeout ==
  /\ Fires("MR0") /\ ~Updating /\ conn_event.opened
  /\ finish_conn_event(conn_event.num_packets, timer1_set_match(T1, "behind"), current_rxbuf, radio)
  /\ seen' = NextEvent(FALSE)
  /\ UNCHANGED <<available, current_rxbuf, packet_queue, content, main>>

(* The radio has locked (until then the handler asks again in 3 us). *)
StrobeRx ==
  /\ Fires("MR2")
  /\ radio' = "receiving"
  /\ T1' = [T1 EXCEPT !.MR2 = "off"]
  /\ UNCHANGED <<available, current_rxbuf, packet_queue, content, conn, conn_event,
                 rf_channel, cancel_follow, main, fault, seen>>

(* A buffer is available (until then the handler asks again in 100 us); the   *)
(* interrupt stays enabled.                                                   *)
BufferFound ==
  /\ Fires("MR3") /\ available # {}
  /\ BufferGet
  /\ \/ radio' = "receiving" /\ T1' = [T1 EXCEPT !.MR3 = "behind"]
     \/ radio' = "locking" /\ T1' = timer1_wait_fs_lock([T1 EXCEPT !.MR3 = "behind"])
  /\ UNCHANGED <<packet_queue, content, conn, conn_event, rf_channel, cancel_follow, main,
                 fault, seen>>

(* It fires again, since nothing disables it, and finds none: the buffer the  *)
(* receiver has is forgotten, a packet that has begun goes on through NULL.   *)
BufferLost ==
  /\ Fires("MR3") /\ available = {} /\ current_rxbuf # NULL
  /\ BufferGet
  /\ fault' = (radio = "packet")
  /\ UNCHANGED <<packet_queue, content, conn, conn_event, T1, radio, rf_channel,
                 cancel_follow, main, seen>>

(* The counter comes round to a match that had passed.  Everything quicker    *)
(* has happened by then, and any supervision timeout has passed.              *)
CounterWraps(r) ==
  /\ Running /\ T1[r] = "behind"
  /\ T1.MR2 # "ahead" /\ radio # "packet"
  /\ main.pc = "loop" /\ packet_queue = <<>>
  /\ T1' = [T1 EXCEPT ![r] = "ahead"]
  /\ conn' = IF r = "MR0" THEN [conn EXCEPT !.inTime = FALSE, !.quiet = MaxQuiet + 1] ELSE conn
  /\ seen' = [seen EXCEPT !.refired = @ \/ r = "MR3"]
  /\ UNCHANGED <<available, current_rxbuf, packet_queue, content, conn_event, radio,
                 rf_channel, cancel_follow, main, fault>>

---------------------------------------------------------------------------
(* The main loop.                                                          *)

(* T1MCR as the main loop reads it; when nothing can change it before it is   *)
(* written the value need not be kept.                                        *)
Read(t) == IF Atomic THEN {} ELSE Enabled(t)

(* The next packet passes the filter, and blink reads T1MCR.  (Bug variant: its *)
(* buffer goes back to the pool before it is handled.)                         *)
TakePacket_released ==
  /\ Running /\ main.pc = "loop" /\ packet_queue # <<>>
  /\ packet_queue' = Tail(packet_queue)
  /\ main' = [pc |-> "blink", buf |-> Head(packet_queue), mcr |-> Read(T1)]
  /\ available' = available \cup {Head(packet_queue)}
  /\ UNCHANGED <<current_rxbuf, content, conn, conn_event, T1, radio, rf_channel,
                 cancel_follow, fault, seen>>

TakePacket ==
  /\ Running /\ main.pc = "loop" /\ packet_queue # <<>>
  /\ packet_queue' = Tail(packet_queue)
  /\ main' = [pc |-> "blink", buf |-> Head(packet_queue), mcr |-> Read(T1)]
  /\ UNCHANGED <<available, current_rxbuf, content, conn, conn_event, T1, radio, rf_channel,
                 cancel_follow, fault, seen>>

(* It does not (packets of a connection always do).  (Bug variant: only packets  *)
(* that pass are released.)                                                    *)
SkipPacket_kept ==
  /\ Running /\ main.pc = "loop" /\ packet_queue # <<>>
  /\ content[Head(packet_queue)].kind # "update"
  /\ packet_queue' = Tail(packet_queue)
  /\ UNCHANGED <<available, content, current_rxbuf, conn, conn_event, T1, radio, rf_channel,
                 cancel_follow, main, fault, seen>>

SkipPacket ==
  /\ Running /\ main.pc = "loop" /\ packet_queue # <<>>
  /\ LET b == Head(packet_queue)
     IN  /\ content[b].kind # "update"
         /\ available' = available \cup {b}
         /\ content' = [content EXCEPT ![b] = Plain]
  /\ packet_queue' = Tail(packet_queue)
  /\ UNCHANGED <<current_rxbuf, conn, conn_event, T1, radio, rf_channel, cancel_follow, main,
                 fault, seen>>

(* The end of a read-modify-write of T1MCR, which has been read into main.mcr: *)
(* what an interrupt changed in between is undone, and a bit that comes back   *)
(* may have had its match.                                                     *)
WrittenBack ==
  IF Atomic THEN {T1}
  ELSE {t \in [Match -> {"off", "ahead", "behind"}] :
          /\ Enabled(t) = main.mcr
          /\ \A r \in Enabled(t) \cap Enabled(T1) : t[r] = T1[r]}
Raced(s) == [s EXCEPT !.raced = @ \/ (~Atomic /\ Enabled(T1) # main.mcr)]

(* blink is over; usb_enqueue_le and packet_handler. *)
Handle(kind) == Running /\ main.pc = "blink" /\ content[main.buf].kind = kind

(* buffer_release, and back to the top of the loop. *)
Release ==
  /\ available' = available \cup {main.buf}
  /\ content' = [content EXCEPT ![main.buf] = Plain]
  /\ main' = [pc |-> "loop", buf |-> NULL, mcr |-> {}]

HandlePlain ==
  /\ Handle("plain")
  /\ T1' \in WrittenBack /\ seen' = Raced(seen)
  /\ Release
  /\ UNCHANGED <<current_rxbuf, packet_queue, conn, conn_event, radio,
                 rf_channel, cancel_follow, fault>>

connection_update_handler ==
  /\ Handle("update")
  /\ T1' \in WrittenBack
  /\ \E u \in Update : u.instant = content[main.buf].instant /\ conn' = [conn EXCEPT !.update = u]
  /\ Release
  /\ UNCHANGED <<current_rxbuf, packet_queue, conn_event, radio,
                 rf_channel, cancel_follow, fault>>
  /\ seen' = Raced(Disturbed(rf_channel = "adv" \/ conn.update.pending))

(* le_connect_handler with parameters out of range. *)
RefuseConnect ==
  /\ Handle("connect")
  /\ T1' \in WrittenBack
  /\ cancel_follow' = FALSE
  /\ conn' = NoConn
  /\ Release
  /\ UNCHANGED <<current_rxbuf, packet_queue, conn_event, radio,
                 rf_channel, fault>>
  /\ seen' = Raced(Disturbed(TRUE))

(* le_connect_handler: the connection's parameters; what belongs to an earlier *)
(* connection stays.  timer1_cancel_fs_lock reads T1MCR.                       *)
Connect ==
  /\ Handle("connect")
  /\ T1' \in WrittenBack
  /\ cancel_follow' = FALSE
  /\ conn' \in {[conn EXCEPT !.following = TRUE, !.update = u] :
                  u \in {v \in {NoUpdate} \cup Update : /\ v.pending = conn.update.pending
                                                        /\ v.pending => v.instant = conn.update.instant}}
  /\ main' = [main EXCEPT !.pc = "cancel", !.mcr = Read(T1')]
  /\ seen' = Raced([seen EXCEPT !.events = 0,
                      !.disturbed = rf_channel = "data" \/ conn # NoConn \/ Fires("MR0")])
  /\ UNCHANGED <<available, current_rxbuf, packet_queue, content, conn_event, radio,
                 rf_channel, fault>>

(* The lock is no longer waited for; the event is reset, T1MCR is read.        *)
CancelFsLock ==
  /\ Running /\ main.pc = "cancel"
  /\ \E t \in WrittenBack : T1' = [t EXCEPT !.MR2 = "off"]
  /\ main' = [main EXCEPT !.pc = "match", !.mcr = Read(T1')]
  /\ radio' = IF radio = "locking" THEN "off" ELSE radio
  /\ conn_event' = NoEvent
  /\ seen' = Raced(seen)
  /\ UNCHANGED <<available, current_rxbuf, packet_queue, content, conn, rf_channel,
                 cancel_follow, fault>>

(* The match is the begin of the transmit window, over if the main loop is late. *)
SetMatch ==
  /\ Running /\ main.pc = "match"
  /\ \E t \in WrittenBack, when \in {"ahead", "behind"} : T1' = timer1_set_match(t, when)
  /\ Release
  /\ seen' = Raced(seen)
  /\ UNCHANGED <<current_rxbuf, packet_queue, conn, conn_event, radio,
                 rf_channel, cancel_follow, fault>>

(* handle_usb: the host asks to give up the connection it sees followed.       *)
CancelFollow ==
  /\ Running /\ main.pc = "loop" /\ ~cancel_follow /\ conn.following
  /\ cancel_follow' = TRUE
  /\ UNCHANGED <<available, current_rxbuf, packet_queue, content, conn, conn_event, T1, radio,
                 rf_channel, main, fault, seen>>

(* The mode ends; the main loop of the firmware turns the radio off.  What the *)
(* next start overwrites is not kept.                                          *)
Leave ==
  /\ MayStop /\ Running /\ main.pc = "loop"
  /\ main' = [main EXCEPT !.pc = "out"]
  /\ radio' = "off" /\ rf_channel' = "adv"
  /\ current_rxbuf' = 1 /\ available' = Buf \ {1}
  /\ packet_queue' = <<>> /\ content' = [b \in Buf |-> Plain]
  /\ conn' = [conn EXCEPT !.following = FALSE]
  /\ cancel_follow' = FALSE
  /\ seen' = Disturbed(FALSE)
  /\ UNCHANGED <<conn_event, T1, fault>>

(* le_phy_main up to its loop.  Of conn only the access address is set, T1MCR  *)
(* is left as it was.  The counter starts again at zero: matches are ahead of  *)
(* it, and the times of an earlier connection mean nothing any more.           *)
Enter ==
  /\ main.pc = "out"
  /\ \E quiet \in {0, MaxQuiet + 1} : conn' = [conn EXCEPT !.inTime = FALSE, !.quiet = quiet]
  /\ T1' = timer1_wait_fs_lock([r \in Match |-> IF T1[r] = "off" THEN "off" ELSE "ahead"])
  /\ radio' = "locking"
  /\ main' = [main EXCEPT !.pc = "loop"]
  /\ seen' = [seen EXCEPT !.refired = @ \/ T1.MR3 # "off"]
  /\ UNCHANGED <<available, current_rxbuf, packet_queue, content, conn_event, rf_channel,
                 cancel_follow, fault>>

Init ==
  /\ current_rxbuf = 1 /\ available = Buf \ {1}
  /\ packet_queue = <<>> /\ content = [b \in Buf |-> Plain]
  /\ conn = NoConn /\ conn_event = NoEvent
  /\ T1 = [r \in Match |-> IF r = "MR2" THEN "ahead" ELSE "off"]
  /\ radio = "locking" /\ rf_channel = "adv"
  /\ cancel_follow = FALSE /\ fault = FALSE
  /\ main = [pc |-> "loop", buf |-> NULL, mcr |-> {}]
  /\ seen = [refired |-> FALSE, raced |-> FALSE, disturbed |-> FALSE, events |-> 0]

DMA == PacketStart \/ AdvPacketEnd \/ FirstPacketEnd \/ SecondPacketEnd
TIMER1 == UpdateWindow \/ UpdateApplied \/ OpenEvent \/ EventTimeout \/ StrobeRx
          \/ BufferFound \/ BufferLost
MainLoop == TakePacket \/ SkipPacket \/ HandlePlain \/ connection_update_handler \/ RefuseConnect
            \/ Connect \/ CancelFsLock \/ SetMatch

Next == DMA \/ TIMER1 \/ MainLoop \/ (\E r \in Match : CounterWraps(r))
        \/ CancelFollow \/ Leave \/ Enter

(* Packets that have begun end, interrupts are served, time passes and the    *)
(* main loop runs.  Nothing is assumed of the air or of the host.             *)
Fairness ==
  /\ WF_vars(AdvPacketEnd \/ FirstPacketEnd \/ SecondPacketEnd)
  /\ WF_vars(TIMER1) /\ WF_vars(StrobeRx)
  /\ WF_vars(MainLoop)
  /\ \A r \in Match : WF_vars(CounterWraps(r))

Spec == Init /\ [][Next]_vars /\ Fairness

---------------------------------------------------------------------------
(* Properties.                                                             *)

(* Every variable has its type. *)
LeTypeOK ==
  /\ available \subseteq Buf
  /\ current_rxbuf \in Buf \cup {NULL}
  /\ packet_queue \in Seq(Buf) /\ Len(packet_queue) < FIFOSIZE
  /\ content \in [Buf -> Content]
  /\ conn \in [following : BOOLEAN, counter : Counter, channel_idx : Counter, anchor_set : BOOLEAN,
               inTime : BOOLEAN, quiet : 0 .. MaxQuiet + 1, update : {NoUpdate} \cup Update]
  /\ conn_event \in [num_packets : 0 .. 1, opened : BOOLEAN, tuned : BOOLEAN]
  /\ T1 \in [Match -> {"off", "ahead", "behind"}]
  /\ radio \in {"off", "locking", "receiving", "packet"} /\ rf_channel \in {"adv", "data"}
  /\ {cancel_follow, fault} \subseteq BOOLEAN
  /\ main \in [pc : {"loop", "blink", "cancel", "match", "out"},
               buf : Buf \cup {NULL}, mcr : SUBSET Match]
  /\ seen \in [refired : BOOLEAN, raced : BOOLEAN, disturbed : BOOLEAN, events : Counter]

Queued == {packet_queue[i] : i \in 1 .. Len(packet_queue)}
InHand == {main.buf} \ {NULL}
Current == {current_rxbuf} \ {NULL}
Owned == [pool |-> available, receiver |-> Current, queue |-> Queued, loop |-> InHand]

(* A buffer has one owner: the pool, the receiver, the queue or the main loop. *)
(* The interrupt never fills a packet the main loop still works on, or one     *)
(* that waits, and none waits twice.                                           *)
OneOwner ==
  /\ \A o, p \in DOMAIN Owned : o # p => Owned[o] \cap Owned[p] = {}
  /\ \A i, j \in 1 .. Len(packet_queue) : packet_queue[i] = packet_queue[j] => i = j

(* Every buffer has an owner until the counter of timer 1 first wraps: the     *)
(* interrupt of BufferFound stays enabled and takes a second buffer then.      *)
NoneLost == seen.refired \/ seen.raced \/ available \cup Current \cup Queued \cup InHand = Buf

(* Within a connection nothing disturbed, the firmware's event counter counts  *)
(* the events since it began and the channel has hopped once for each, so the  *)
(* channel and the instants of updates fit the event.                          *)
InStep ==
  conn.following /\ main.pc # "cancel" /\ ~seen.disturbed /\ ~seen.raced =>
    /\ conn.counter = seen.events
    /\ conn.channel_idx = (conn.counter + IF conn_event.tuned THEN 1 ELSE 0) % Wrap

(* A pending update takes effect with the first tuning of the event it names,  *)
(* counted from the begin of the connection, and with nothing else: no missed  *)
(* event, timeout, packet or second look at the window applies it earlier,     *)
(* drops it or lets that event pass.  A disturbed connection is excluded, one  *)
(* whose update came too late for its event (it waits for the counter to come  *)
(* round) is not.                                                              *)
UpdateAtInstant ==
  [][conn.update.pending /\ conn.following /\ conn'.following /\ main.pc # "cancel"
       /\ ~seen'.disturbed /\ ~seen'.raced =>
       (~conn'.update.pending
          <=> ~conn_event.tuned /\ conn_event'.tuned /\ seen.events = conn.update.instant)]_vars

(* The host has stopped the mode, or the processor has crashed. *)
Over == main.pc = "out" \/ fault

(* The receiver is never deaf for good, whatever the packets and the main loop *)
(* do: after a packet, without a buffer, between events, it comes to receive   *)
(* again, unless a write of T1MCR was lost.  Over counts a crash as the end:   *)
(* when the pool is empty at the second packet of an event there is no current *)
(* buffer (le_phy.c:374-376), and change_channel clears it all the same        *)
(* (:514).  What a lost write does is the matter of RestartsRx.                *)
ComesToListen == []<>(radio \in {"receiving", "packet"} \/ Over \/ seen.raced)

(* The same without the exception: "at the end of a packet, it enqueues the    *)
(* received packet, fetches a new buffer, and restarts RX" (le_phy.c:298).     *)
RestartsRx == []<>(radio \in {"receiving", "packet"} \/ Over)

(* When nobody transmits any more, a connection with a known anchor point is   *)
(* given up and the receiver returns to advertising, unless an update has just *)
(* made it forget the anchor.                                                  *)
GivesUp ==
  <>[][~PacketStart]_vars =>
    (conn.following /\ conn.anchor_set
       ~> ~conn.following \/ ~conn.anchor_set \/ Over \/ seen.raced \/ seen.refired)

=============================================================================
