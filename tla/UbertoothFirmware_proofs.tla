----------------------- MODULE UbertoothFirmware_proofs -----------------------
(***************************************************************************)
(* The packet ring of ubertooth_usb.c under the firmware's main program,   *)
(* for every size of the ring and any requests: its indices never leave    *)
(* it; the only packet counted in but not filled is the one that an LE     *)
(* routine is filling, with the USB interrupt disabled where bt_le_sync    *)
(* disables it; and no loss goes without a flag.                           *)
(***************************************************************************)
EXTENDS ResetCommand, SequenceTheorems, TLAPS

Index == 0 .. Slots - 1

(* What a packet of the ring or the endpoint is: one that follows a loss   *)
(* says so.                                                                *)
Flagged(p) == p.kind \in {"BR", "SPECAN"} /\ p.gap = "yes" => p.status
Content == {p \in Packet \cup {Blank} : Flagged(p)}
Ring == [head : Index, tail : Index, fifo : [Index -> Content]]

(* The slots counted in and not filled. *)
Blanks(q) == {i \in Queued(q) : q.fifo[i] = Blank}

(* The invariant in parts: what the variables hold, the queue and the      *)
(* endpoint, where the interrupt is enabled and a slot is open, and that a *)
(* loss is remembered until a packet carries it.                           *)
Control ==
  /\ at \in Places /\ mode \in Modes /\ requested_mode \in Modes /\ target_set \in BOOLEAN
  /\ status \in BOOLEAN /\ dma \in BOOLEAN /\ rx_tc \in 0 .. 2 /\ usb_irq \in BOOLEAN
  /\ pending \in Requests \cup {"RESET", None} /\ sent \in 0 .. MaxRequests
  /\ count \in 0 .. Window - 1 /\ missed \in {"no", "start", "yes"}
  /\ last \in DOMAIN ModeOf
Queues == queue \in Ring /\ ep \in Seq(Content) /\ Len(ep) <= 2
          /\ slot \in -1 .. Slots - 1
Open == /\ at \in LeProgram => usb_irq
        /\ usb_irq => at \in LeProgram \cup {"sync_fill"}
        /\ at \notin Filling => slot = -1
        /\ at = "sync_fill" => ~usb_irq
Remembered ==
  at \in {"stream", "closing", "SPECAN", "generic_sync"} /\ missed = "yes"
    => status \/ (at = "stream" /\ rx_tc > 1)

Inv == Control /\ Queues /\ Open /\ Remembered /\ Blanks(queue) \subseteq {slot}

-----------------------------------------------------------------------------
(* Arithmetic of the ring.                                                 *)

(* The remainder below, above and under one period.                        *)
LEMMA ModLow ==
  ASSUME NEW N \in Nat \ {0}, NEW x \in 0 .. N - 1 PROVE x % N = x
  OBVIOUS

(* Above one period.                                                       *)
LEMMA ModHigh ==
  ASSUME NEW N \in Nat \ {0}, NEW x \in N .. 2 * N - 1 PROVE x % N = x - N
  OBVIOUS

(* Under zero.                                                             *)
LEMMA ModNeg ==
  ASSUME NEW N \in Nat \ {0}, NEW x \in -N .. -1 PROVE x % N = x + N
  OBVIOUS

(* Sum and difference of two indices.                                      *)
LEMMA IndexSum ==
  ASSUME NEW a \in Index, NEW b \in Index
  PROVE  /\ (a + b) % Slots = IF a + b < Slots THEN a + b ELSE a + b - Slots
         /\ (a - b) % Slots = IF b <= a THEN a - b ELSE a - b + Slots
<1>1. Slots \in Nat \ {0} /\ a \in Nat /\ b \in Nat /\ a < Slots /\ b < Slots
  BY FirmwareAssumption DEF Index
<1>2. ASSUME a + b < Slots PROVE (a + b) % Slots = a + b
  <2>1. a + b \in 0 .. Slots - 1
    BY <1>1, <1>2
  <2>2. QED
    BY <1>1, <2>1, ModLow
<1>3. ASSUME a + b >= Slots PROVE (a + b) % Slots = a + b - Slots
  <2> DEFINE x == a + b
  <2>1. x \in Slots .. 2 * Slots - 1
    BY <1>1, <1>3
  <2> HIDE DEF x
  <2>2. x % Slots = x - Slots
    BY <1>1, <2>1, ModHigh
  <2>3. QED
    BY <1>1, <2>2 DEF x
<1>4. ASSUME b <= a PROVE (a - b) % Slots = a - b
  <2>1. a - b \in 0 .. Slots - 1
    BY <1>1, <1>4
  <2>2. QED
    BY <1>1, <2>1, ModLow
<1>5. ASSUME b > a PROVE (a - b) % Slots = a - b + Slots
  <2>1. a - b \in -Slots .. -1
    BY <1>1, <1>5
  <2>2. QED
    BY <1>1, <2>1, ModNeg
<1>6. QED
  BY <1>1, <1>2, <1>3, <1>4, <1>5

(* How far index i is ahead of index h.                                    *)
Ahead(i, h) == IF h <= i THEN i - h ELSE i - h + Slots

(* Moving the tail on by one takes in the old tail only.                   *)
LEMMA AheadNext ==
  ASSUME NEW h \in Index, NEW t \in Index, NEW i \in Index, NEW u \in Index,
         u = IF t + 1 < Slots THEN t + 1 ELSE t + 1 - Slots, u # h
  PROVE  /\ Ahead(u, h) = Ahead(t, h) + 1
         /\ Ahead(i, h) < Ahead(u, h) => i = t \/ Ahead(i, h) < Ahead(t, h)
  BY FirmwareAssumption DEF Index, Ahead

(* Moving the head on by n leaves out the n slots it passes.               *)
LEMMA AheadPast ==
  ASSUME NEW h \in Index, NEW t \in Index, NEW i \in Index, NEW n \in Index, NEW d \in Index,
         n <= Ahead(t, h), d = IF h + n < Slots THEN h + n ELSE h + n - Slots
  PROVE  /\ Ahead(t, d) = Ahead(t, h) - n
         /\ Ahead(i, d) < Ahead(t, d) => Ahead(i, h) < Ahead(t, h) /\ ~(Ahead(i, h) < n)
  BY FirmwareAssumption DEF Index, Ahead

(* Index arithmetic stays in the ring.                                     *)
LEMMA SumInIndex ==
  ASSUME NEW a \in Index, NEW b \in Index
  PROVE  (a + b) % Slots \in Index /\ (a - b) % Slots \in Index
  BY IndexSum, FirmwareAssumption DEF Index

(* The slots in use are those less than Used ahead of the head.            *)
LEMMA InQueue ==
  ASSUME NEW q \in Ring
  PROVE  /\ Used(q) \in Index /\ Queued(q) \subseteq Index
         /\ \A i \in Index : i \in Queued(q) <=> (i - q.head) % Slots < Used(q)
<1>1. Used(q) \in Index /\ q.head \in Index /\ Slots \in Nat \ {0}
  BY SumInIndex, FirmwareAssumption DEF Used, Ring
<1>2. \A j \in 0 .. Used(q) - 1 : j \in Index
  BY <1>1 DEF Index
<1>3. Queued(q) \subseteq Index
  BY <1>1, <1>2, SumInIndex DEF Queued
<1>4. ASSUME NEW i \in Index, i \in Queued(q) PROVE (i - q.head) % Slots < Used(q)
  <2>1. PICK j \in 0 .. Used(q) - 1 : i = (q.head + j) % Slots
    BY <1>4 DEF Queued
  <2>2. j \in Index /\ j < Used(q)
    BY <1>1, <1>2, <2>1 DEF Index
  <2>3. i = IF q.head + j < Slots THEN q.head + j ELSE q.head + j - Slots
    BY <1>1, <2>1, <2>2, IndexSum
  <2>4. (i - q.head) % Slots = IF q.head <= i THEN i - q.head ELSE i - q.head + Slots
    BY <1>1, IndexSum
  <2>5. QED
    BY <1>1, <2>2, <2>3, <2>4 DEF Index
<1>5. ASSUME NEW i \in Index, (i - q.head) % Slots < Used(q) PROVE i \in Queued(q)
  <2> DEFINE j == (i - q.head) % Slots
  <2>1. j = (IF q.head <= i THEN i - q.head ELSE i - q.head + Slots) /\ j \in Index
    BY <1>1, IndexSum, SumInIndex
  <2>2. (q.head + j) % Slots = IF q.head + j < Slots THEN q.head + j ELSE q.head + j - Slots
    BY <1>1, <2>1, IndexSum
  <2>3. i = (q.head + j) % Slots /\ j \in 0 .. Used(q) - 1
    BY <1>1, <1>5, <2>1, <2>2 DEF Index
  <2>4. QED
    BY <2>3 DEF Queued
<1>6. QED
  BY <1>1, <1>3, <1>4, <1>5

(* A blank slot counts as flagged.                                         *)
LEMMA BlankContent == Blank \in Content
  BY DEF Blank, Content, Flagged

(* usb_queue_init leaves an empty ring.                                    *)
LEMMA EmptyRing ==
  usb_queue_init \in Ring /\ Queued(usb_queue_init) = {} /\ Blanks(usb_queue_init) = {}
<1>1. 0 \in Index
  BY FirmwareAssumption DEF Index
<1>2. usb_queue_init \in Ring
  BY <1>1, BlankContent DEF usb_queue_init, Ring, Index
<1>3. Used(usb_queue_init) = 0
  BY <1>1, IndexSum DEF Used, usb_queue_init
<1>4. QED
  BY <1>2, <1>3 DEF Queued, Blanks

(* usb_enqueue counts in the slot at the tail and nothing else.            *)
LEMMA Enqueued ==
  ASSUME NEW q \in Ring, ~Full(q)
  PROVE  /\ usb_enqueue(q) \in Ring
         /\ Queued(usb_enqueue(q)) \subseteq Queued(q) \cup {q.tail}
         /\ \A i \in Queued(usb_enqueue(q)) : i # q.tail => usb_enqueue(q).fifo[i] = q.fifo[i]
<1> DEFINE u == usb_enqueue(q)
<1>1. /\ q.head \in Index /\ q.tail \in Index /\ Slots \in Nat \ {0, 1} /\ 1 \in Index
      /\ q.fifo \in [Index -> Content] /\ Blank \in Content
  BY FirmwareAssumption, BlankContent DEF Ring, Index
<1>2. /\ u.head = q.head /\ u.tail = (q.tail + 1) % Slots /\ u.tail \in Index
      /\ u.fifo = [q.fifo EXCEPT ![q.tail] = Blank]
  BY <1>1, SumInIndex DEF usb_enqueue, Ring
<1>3. u \in Ring
  BY <1>1, SumInIndex DEF usb_enqueue, Ring
<1>4. u.tail # q.head
  BY <1>2 DEF Full
<1> HIDE DEF u
<1>5. u.tail = IF q.tail + 1 < Slots THEN q.tail + 1 ELSE q.tail + 1 - Slots
  BY <1>1, <1>2, IndexSum
<1>6. Used(q) = Ahead(q.tail, q.head) /\ Used(u) = Ahead(u.tail, q.head)
  BY <1>1, <1>2, IndexSum DEF Used, Ahead
<1>7. ASSUME NEW i \in Queued(u) PROVE i \in Queued(q) \cup {q.tail} /\ i \in Index
  <2>1. i \in Index /\ (i - q.head) % Slots < Used(u)
    BY <1>2, <1>3, InQueue
  <2>2. (i - q.head) % Slots = Ahead(i, q.head)
    BY <1>1, <2>1, IndexSum DEF Ahead
  <2>3. i = q.tail \/ (i - q.head) % Slots < Used(q)
    <3>1. Ahead(i, q.head) < Ahead(u.tail, q.head)
      BY <1>6, <2>1, <2>2
    <3>2. i = q.tail \/ Ahead(i, q.head) < Ahead(q.tail, q.head)
      BY <1>1, <1>2, <1>4, <1>5, <2>1, <3>1, AheadNext
    <3>3. QED
      BY <1>6, <2>2, <3>2
  <2>4. QED
    BY <2>1, <2>3, InQueue
<1>8. u \in Ring
  BY <1>3
<1>9. \A i \in Queued(u) : i # q.tail => u.fifo[i] = q.fifo[i]
  BY <1>1, <1>2, <1>7
<1>10. QED
  BY <1>7, <1>8, <1>9 DEF u

(* Taking out the oldest leaves the others as they are.                    *)
LEMMA Dequeued ==
  ASSUME NEW q \in Ring, NEW n \in 0 .. Used(q)
  PROVE  /\ dequeue(q, n) \in Ring
         /\ Queued(dequeue(q, n)) \subseteq Queued(q)
         /\ \A i \in Queued(dequeue(q, n)) : dequeue(q, n).fifo[i] = q.fifo[i]
<1> DEFINE d == dequeue(q, n)
<1>1. /\ q.head \in Index /\ q.tail \in Index /\ Slots \in Nat \ {0, 1}
      /\ q.fifo \in [Index -> Content] /\ Blank \in Content /\ Used(q) \in Index
  BY FirmwareAssumption, InQueue, BlankContent DEF Ring
<1>2. n \in Index /\ n <= Used(q)
  BY <1>1 DEF Index
<1>3. /\ d.head = (q.head + n) % Slots /\ d.head \in Index /\ d.tail = q.tail
      /\ d.fifo = [i \in Index |-> IF (i - q.head) % Slots < n THEN Blank ELSE q.fifo[i]]
      /\ d \in Ring
  BY <1>1, <1>2, SumInIndex DEF dequeue, Ring, Index
<1> HIDE DEF d
<1>4. d.head = IF q.head + n < Slots THEN q.head + n ELSE q.head + n - Slots
  BY <1>1, <1>2, <1>3, IndexSum
<1>5. Used(q) = Ahead(q.tail, q.head) /\ Used(d) = Ahead(q.tail, d.head)
  BY <1>1, <1>3, IndexSum DEF Used, Ahead
<1>6. n <= Ahead(q.tail, q.head)
  BY <1>2, <1>5
<1>7. ASSUME NEW i \in Queued(d) PROVE i \in Queued(q) /\ d.fifo[i] = q.fifo[i]
  <2>1. i \in Index /\ (i - d.head) % Slots < Used(d)
    BY <1>3, InQueue
  <2>2. /\ (i - q.head) % Slots = Ahead(i, q.head)
        /\ (i - d.head) % Slots = Ahead(i, d.head)
    BY <1>1, <1>3, <2>1, IndexSum DEF Ahead
  <2>3. Ahead(i, q.head) < Ahead(q.tail, q.head) /\ ~(Ahead(i, q.head) < n)
    <3>1. Ahead(i, d.head) < Ahead(q.tail, d.head)
      BY <1>5, <2>1, <2>2
    <3>2. QED
      BY <1>1, <1>2, <1>3, <1>4, <1>6, <2>1, <3>1, AheadPast
  <2>4. (i - q.head) % Slots < Used(q) /\ ~((i - q.head) % Slots < n)
    BY <1>5, <2>2, <2>3
  <2>5. QED
    BY <1>3, <2>1, <2>4, InQueue
<1>8. QED
  BY <1>3, <1>7 DEF d

(* dequeue hands out what the ring holds.                                  *)
LEMMA OldestType ==
  ASSUME NEW q \in Ring, NEW n \in 0 .. Used(q)
  PROVE  Oldest(q, n) \in Seq(Content) /\ Len(Oldest(q, n)) = n
<1>1. /\ n \in Nat /\ q.head \in Index /\ q.fifo \in [Index -> Content]
      /\ Used(q) \in Index /\ Slots \in Nat
  BY InQueue, FirmwareAssumption DEF Ring, Index
<1>2. ASSUME NEW i \in 1 .. n PROVE q.fifo[(q.head + i - 1) % Slots] \in Content
  <2>1. i - 1 \in Index /\ q.head + i - 1 = q.head + (i - 1)
    BY <1>1 DEF Index
  <2>2. (q.head + (i - 1)) % Slots \in Index
    BY <1>1, <2>1, SumInIndex
  <2>3. QED
    BY <1>1, <2>1, <2>2
<1>3. QED
  BY <1>1, <1>2 DEF Oldest

-----------------------------------------------------------------------------
(* The invariant after a step, part by part.                               *)
LEMMA InvNext ==
  ASSUME Control', Queues', Open', Remembered', Blanks(queue') \subseteq {slot'}
  PROVE  Inv'
  BY DEF Inv, Blanks, Queued, Used

(* The initial values are in range.                                        *)
LEMMA Bounds == 0 \in Index /\ 0 \in 0 .. Window - 1 /\ "IDLE" \in Modes
<1>1. ModeOf.STOP = "IDLE" /\ "STOP" \in DOMAIN ModeOf
  BY DEF ModeOf
<1>2. "IDLE" \in Modes
  BY <1>1 DEF Modes
<1>3. QED
  BY <1>2, FirmwareAssumption DEF Index, Window

(* The steps of the queue: none leaves a blank packet in it.               *)
LEMMA SameEnds ==
  ASSUME NEW q, NEW p, p.head = q.head, p.tail = q.tail PROVE Queued(p) = Queued(q)
  BY DEF Queued, Used

(* enqueue adds no blank packet and remembers a loss until a packet has it. *)
LEMMA EnqueueStep ==
  ASSUME queue \in Ring, status \in BOOLEAN, count \in 0 .. Window - 1,
         missed \in {"no", "start", "yes"},
         NEW kind \in {"BR", "SPECAN"}, NEW flag \in BOOLEAN, missed = "yes" => flag
  PROVE  /\ enqueue(kind, flag).queue \in Ring
         /\ Blanks(enqueue(kind, flag).queue) \subseteq Blanks(queue)
         /\ enqueue(kind, flag).status \in BOOLEAN
         /\ enqueue(kind, flag).count \in 0 .. Window - 1
         /\ enqueue(kind, flag).missed \in {"no", "start", "yes"}
         /\ enqueue(kind, flag).missed = "yes" => enqueue(kind, flag).status
<1>1. CASE Full(queue)
  BY <1>1 DEF enqueue
<1>2. CASE ~Full(queue)
  <2> DEFINE u == usb_enqueue(queue)
             new == NewPacket(kind, flag)
             q == [u EXCEPT !.fifo[queue.tail] = new]
  <2>1. new \in Content /\ new # Blank
    BY DEF NewPacket, Packet, Blank, Content, Flagged
  <2>2. /\ u \in Ring /\ Queued(u) \subseteq Queued(queue) \cup {queue.tail}
        /\ \A i \in Queued(u) : i # queue.tail => u.fifo[i] = queue.fifo[i]
        /\ Queued(u) \subseteq Index
    BY <1>2, Enqueued, InQueue
  <2>3. enqueue(kind, flag).queue = q
    BY <1>2 DEF enqueue
  <2> HIDE DEF u, new
  <2>4. q \in Ring /\ q.head = u.head /\ q.tail = u.tail
        /\ q.fifo = [u.fifo EXCEPT ![queue.tail] = new]
    BY <2>1, <2>2 DEF Ring
  <2>5. \A i \in Queued(q) : q.fifo[i] = Blank => i \in Queued(queue) /\ queue.fifo[i] = Blank
    <3>1. Queued(q) = Queued(u) /\ u.fifo \in [Index -> Content]
      BY <2>2, <2>4, SameEnds DEF Ring
    <3>2. ASSUME NEW i \in Queued(u), i # queue.tail
          PROVE  q.fifo[i] = queue.fifo[i] /\ i \in Queued(queue)
      BY <2>2, <2>4, <3>1, <3>2
    <3>3. ASSUME NEW i \in Queued(u), i = queue.tail PROVE q.fifo[i] = new
      BY <2>2, <2>4, <3>1, <3>3
    <3>4. QED
      BY <2>1, <3>1, <3>2, <3>3
  <2>6. (count + 1) % Window \in 0 .. Window - 1
    <3>1. Window \in Nat \ {0} /\ count + 1 \in Nat
      BY FirmwareAssumption DEF Window
    <3>2. QED
      BY <3>1
  <2>7. enqueue(kind, flag).status = FALSE /\ enqueue(kind, flag).missed = "no"
        /\ enqueue(kind, flag).count = (count + 1) % Window
    BY <1>2 DEF enqueue
  <2>8. Blanks(q) \subseteq Blanks(queue)
    BY <2>5 DEF Blanks
  <2>9. QED
    BY <2>3, <2>4, <2>6, <2>7, <2>8
<1>3. QED
  BY <1>1, <1>2

(* dequeue adds no blank packet.                                           *)
LEMMA DequeueStep ==
  ASSUME NEW q \in Ring, NEW n \in 0 .. Used(q)
  PROVE  dequeue(q, n) \in Ring /\ Blanks(dequeue(q, n)) \subseteq Blanks(q)
  BY Dequeued DEF Blanks

(* Nor does POLL.                                                          *)
LEMMA TakeOutStep ==
  ASSUME NEW q \in Ring, Used(q) > 0
  PROVE  TakeOut(q) \in Ring /\ Blanks(TakeOut(q)) \subseteq Blanks(q)
<1> DEFINE d == dequeue(q, 1)
           x == [d.fifo[d.head] EXCEPT !.gap = "start"]
<1>1. 1 \in 0 .. Used(q)
  BY InQueue DEF Index
<1>2. d \in Ring /\ Blanks(d) \subseteq Blanks(q)
  BY <1>1, DequeueStep
<1>3. CASE Used(d) > 0 /\ d.fifo[d.head] # Blank
  <2>1. TakeOut(q) = [d EXCEPT !.fifo[d.head] = x]
    BY <1>3 DEF TakeOut
  <2> HIDE DEF d
  <2>2. d.head \in Index /\ d.fifo \in [Index -> Content]
    BY <1>2 DEF Ring
  <2>3. d.fifo[d.head] \in Packet
    BY <1>3, <2>2 DEF Content
  <2>4. x \in Content /\ x # Blank
    BY <2>3 DEF Packet, Content, Flagged, Blank
  <2> HIDE DEF x
  <2>5. /\ TakeOut(q) \in Ring /\ TakeOut(q).head = d.head /\ TakeOut(q).tail = d.tail
        /\ TakeOut(q).fifo = [d.fifo EXCEPT ![d.head] = x]
    BY <1>2, <2>1, <2>2, <2>4 DEF Ring
  <2>6. Queued(TakeOut(q)) = Queued(d) /\ Queued(d) \subseteq Index
    BY <1>2, <2>5, SameEnds, InQueue
  <2>7. Blanks(TakeOut(q)) \subseteq Blanks(d)
    BY <2>2, <2>4, <2>5, <2>6 DEF Blanks
  <2>8. QED
    BY <1>2, <2>5, <2>7
<1>4. CASE ~(Used(d) > 0 /\ d.fifo[d.head] # Blank)
  BY <1>2, <1>4 DEF TakeOut
<1>5. QED
  BY <1>3, <1>4

(* What any vendor request leaves behind.                                  *)
LEMMA HandlerStep ==
  ASSUME Control, NEW q \in Ring, NEW miss \in {"no", "start", "yes"},
         vendor_request_handler(q, miss)
  PROVE  /\ queue' \in Ring /\ Blanks(queue') \subseteq Blanks(q)
         /\ requested_mode' \in Modes /\ last' \in DOMAIN ModeOf
         /\ target_set' \in BOOLEAN /\ missed' \in {"no", "start", "yes"}
         /\ pending' \in Requests \cup {"RESET", None} /\ missed' \in {"start", miss}
<1>1. requested_mode' \in Modes /\ last' \in DOMAIN ModeOf
  BY DEF vendor_request_handler, Control, Modes
<1>2. missed' \in {"start", miss} /\ pending' \in Requests \cup {"RESET", None}
  BY DEF vendor_request_handler
<1>3. target_set' \in BOOLEAN
  BY Zenon DEF vendor_request_handler
<1>4. queue' \in Ring /\ Blanks(queue') \subseteq Blanks(q)
  <2>1. CASE pending \in Clearing
    <3>1. queue' = usb_queue_init
      BY <2>1 DEF vendor_request_handler, Clearing
    <3>2. QED
      BY <3>1, EmptyRing
  <2>2. CASE pending \notin Clearing /\ pending = "POLL" /\ Used(q) > 0
    <3>1. queue' = TakeOut(q)
      BY <2>2 DEF vendor_request_handler
    <3>2. QED
      BY <2>2, <3>1, TakeOutStep
  <2>3. CASE pending \notin Clearing /\ ~(pending = "POLL" /\ Used(q) > 0)
    BY <2>3 DEF vendor_request_handler
  <2>4. QED
    BY <2>1, <2>2, <2>3
<1>5. QED
  BY <1>1, <1>2, <1>3, <1>4

(* What a poll leaves behind, the request included.                        *)
LEMMA UsbStep ==
  ASSUME Control, Queues, NEW q \in Ring, NEW miss \in {"no", "start", "yes"},
         handle_usb(q, miss)
  PROVE  /\ queue' \in Ring /\ Blanks(queue') \subseteq Blanks(q)
         /\ requested_mode' \in Modes /\ last' \in DOMAIN ModeOf
         /\ target_set' \in BOOLEAN /\ missed' \in {"no", "start", "yes"}
         /\ pending' \in Requests \cup {"RESET", None}
         /\ ep' \in Seq(Content) /\ Len(ep') <= 2 /\ missed' \in {"start", miss}
<1> DEFINE free == 2 - Len(ep)
           n == IF Used(q) < free THEN Used(q) ELSE free
<1>1. /\ ep' = ep \o Oldest(q, n)
      /\ vendor_request_handler(dequeue(q, n), miss)
  BY DEF handle_usb
<1>2. Len(ep) \in Nat /\ Len(ep) <= 2 /\ ep \in Seq(Content)
  BY LenProperties DEF Queues
<1>3. Used(q) \in Nat /\ n \in 0 .. Used(q) /\ n <= 2 - Len(ep)
  BY <1>2, InQueue DEF Index
<1> HIDE DEF n
<1>4. dequeue(q, n) \in Ring /\ Blanks(dequeue(q, n)) \subseteq Blanks(q)
  BY <1>3, DequeueStep
<1>5. Oldest(q, n) \in Seq(Content) /\ Len(Oldest(q, n)) = n
  BY <1>3, OldestType
<1>6. ep' \in Seq(Content) /\ Len(ep') = Len(ep) + n
  BY <1>1, <1>2, <1>5, ConcatProperties
<1>7. Len(ep') <= 2
  BY <1>2, <1>3, <1>6
<1>8. QED
  BY <1>1, <1>4, <1>6, <1>7, HandlerStep

(* usb_enqueue leaves one blank packet, in the slot that is open.          *)
LEMMA OpenStep ==
  ASSUME Control, Queues, Blanks(queue) \subseteq {slot}, slot = -1, NEW next, OpenSlot(next)
  PROVE  /\ queue' \in Ring /\ Blanks(queue') \subseteq {slot'} /\ slot' \in -1 .. Slots - 1
         /\ status' \in BOOLEAN /\ missed' \in {"no", "start", "yes"} /\ at' = next
<1>1. CASE Full(queue)
  BY <1>1 DEF OpenSlot, Control, Queues
<1>2. CASE ~Full(queue)
  <2>1. /\ slot' = queue.tail /\ queue' = usb_enqueue(queue)
        /\ UNCHANGED <<status, missed>> /\ at' = next
    BY <1>2 DEF OpenSlot
  <2>2. /\ queue' \in Ring /\ Queued(queue') \subseteq Queued(queue) \cup {queue.tail}
        /\ \A i \in Queued(queue') : i # queue.tail => queue'.fifo[i] = queue.fifo[i]
    BY <1>2, <2>1, Enqueued DEF Queues
  <2>3. -1 \notin Queued(queue)
    BY InQueue, FirmwareAssumption DEF Queues, Index
  <2>4. Blanks(queue) = {}
    BY <2>3 DEF Blanks
  <2>5. Blanks(queue') \subseteq {queue.tail}
    BY <2>2, <2>4 DEF Blanks
  <2>6. queue.tail \in -1 .. Slots - 1
    BY FirmwareAssumption DEF Queues, Ring, Index
  <2>7. QED
    BY <2>1, <2>2, <2>5, <2>6 DEF Control
<1>3. QED
  BY <1>1, <1>2

(* Filling the slot leaves no blank packet.                                *)
LEMMA FillStep ==
  ASSUME Control, Queues, Blanks(queue) \subseteq {slot}, FillSlot
  PROVE  /\ queue' \in Ring /\ Blanks(queue') = {} /\ slot' = -1
         /\ status' \in BOOLEAN /\ missed' \in {"no", "start", "yes"} /\ count' = count
<1> DEFINE new == [kind |-> "LE", n |-> 0, gap |-> "no", status |-> status]
<1>1. new \in Content /\ new # Blank
  BY Bounds DEF Packet, Blank, Control, Content, Flagged
<1>2. queue \in Ring /\ slot' = -1
  BY DEF Queues, FillSlot
<1>3. status' \in BOOLEAN /\ missed' \in {"no", "start", "yes"} /\ count' = count
  BY DEF FillSlot, Control
<1>4. queue' = IF slot \in Queued(queue) THEN [queue EXCEPT !.fifo[slot] = new] ELSE queue
  BY DEF FillSlot
<1> HIDE DEF new
<1>5. CASE slot \notin Queued(queue)
  BY <1>2, <1>3, <1>4, <1>5 DEF Blanks
<1>6. CASE slot \in Queued(queue)
  <2>1. /\ queue' \in Ring /\ queue'.head = queue.head /\ queue'.tail = queue.tail
        /\ queue'.fifo = [queue.fifo EXCEPT ![slot] = new]
    BY <1>1, <1>2, <1>4, <1>6 DEF Ring
  <2>2. Queued(queue') = Queued(queue) /\ Queued(queue) \subseteq Index
        /\ queue.fifo \in [Index -> Content]
    BY <1>2, <2>1, SameEnds, InQueue DEF Ring
  <2>3. \A i \in Queued(queue) : queue'.fifo[i] # Blank
    BY <1>1, <2>1, <2>2 DEF Blanks
  <2>4. QED
    BY <1>2, <1>3, <2>1, <2>2, <2>3 DEF Blanks
<1>7. QED
  BY <1>5, <1>6

-----------------------------------------------------------------------------
(* The invariant, action by action.                                        *)

(* The device comes up in the invariant.                                   *)
LEMMA InitInv == Init => Inv
<1> SUFFICES ASSUME Init PROVE Inv
  OBVIOUS
<1>1. Control
  <2>1. "STOP" \in DOMAIN ModeOf /\ "main" \in Places /\ 0 \in 0 .. MaxRequests
    BY FirmwareAssumption DEF ModeOf, Places
  <2>2. QED
    <3>1. at \in Places /\ mode \in Modes /\ requested_mode \in Modes
      BY <2>1, Bounds DEF Init
    <3>2. target_set \in BOOLEAN /\ status \in BOOLEAN /\ dma \in BOOLEAN /\ usb_irq \in BOOLEAN
      BY DEF Init
    <3>3. rx_tc \in 0 .. 2 /\ sent \in 0 .. MaxRequests /\ count \in 0 .. Window - 1
      BY <2>1, Bounds DEF Init
    <3>4. pending \in Requests \cup {"RESET", None} /\ missed \in {"no", "start", "yes"}
          /\ last \in DOMAIN ModeOf
      BY <2>1 DEF Init
    <3>5. QED
      BY <3>1, <3>2, <3>3, <3>4 DEF Control
<1>2. Queues
  BY EmptyRing, FirmwareAssumption DEF Init, Queues
<1>3. Open /\ Remembered /\ Blanks(queue) \subseteq {slot}
  BY EmptyRing DEF Init, Open, Remembered, LeProgram, Filling
<1>4. QED
  BY <1>1, <1>2, <1>3 DEF Inv

(* A step that leaves the queue, the endpoint and the open slot alone, or  *)
(* empties the queue while no slot is open.                                *)
LEMMA QuietStep ==
  ASSUME Inv, Control', Open', Remembered', ep' = ep, slot' = slot,
         queue' = queue \/ queue' = usb_queue_init
  PROVE  Inv'
<1>1. Queues /\ Blanks(queue) \subseteq {slot}
  BY DEF Inv
<1>2. queue' \in Ring /\ Blanks(queue') \subseteq {slot'}
  BY <1>1, EmptyRing DEF Queues
<1>3. QED
  BY <1>1, <1>2, InvNext DEF Queues

(* A step that polls USB while no slot is open, q being the queue then.    *)
LEMMA PollStep ==
  ASSUME Inv, slot = -1, slot' = slot,
         NEW q \in Ring, Blanks(q) \subseteq Blanks(queue),
         NEW miss \in {"no", "start", "yes"}, handle_usb(q, miss),
         at' \in Places, mode' \in Modes, status' \in BOOLEAN, dma' \in BOOLEAN,
         rx_tc' \in 0 .. 2, usb_irq' \in BOOLEAN, sent' \in 0 .. MaxRequests,
         count' \in 0 .. Window - 1, Open', Remembered'
  PROVE  Inv'
<1>1. Control /\ Queues /\ Blanks(queue) \subseteq {slot}
  BY DEF Inv
<1>2. /\ queue' \in Ring /\ Blanks(queue') \subseteq Blanks(q)
      /\ requested_mode' \in Modes /\ last' \in DOMAIN ModeOf
      /\ target_set' \in BOOLEAN /\ missed' \in {"no", "start", "yes"}
      /\ pending' \in Requests \cup {"RESET", None}
      /\ ep' \in Seq(Content) /\ Len(ep') <= 2
  BY <1>1, UsbStep
<1>3. Control' /\ Queues'
  BY <1>1, <1>2 DEF Control, Queues
<1>4. QED
  BY <1>1, <1>2, <1>3, InvNext

(* Where no slot is open and the interrupt is disabled.                    *)
LEMMA Outside ==
  ASSUME Inv, at \in Places \ (LeProgram \cup {"sync_fill"})
  PROVE  slot = -1 /\ ~usb_irq /\ at \notin Filling
<1>1. at \notin Filling
  BY DEF LeProgram, Filling
<1>2. QED
  BY <1>1 DEF Inv, Open

(* The host keeps the invariant.                                           *)
LEMMA HostInv == Inv /\ Host => Inv'
<1> SUFFICES ASSUME Inv, Host PROVE Inv'
  OBVIOUS
<1>0. Control /\ Queues /\ Open /\ Remembered /\ Blanks(queue) \subseteq {slot}
  BY DEF Inv
<1>1. CASE BulkRead
  <2>1. ep' \in Seq(Content) /\ Len(ep') <= 2
    BY <1>0, <1>1, HeadTailProperties, LenProperties DEF BulkRead, Queues
  <2>2. Control' /\ Queues' /\ Open' /\ Remembered' /\ Blanks(queue') \subseteq {slot'}
    BY <1>0, <1>1, <2>1 DEF BulkRead, Control, Queues, Open, Remembered, Blanks, Queued, Used
  <2>3. QED
    BY <2>2, InvNext
<1>2. ASSUME NEW r \in Requests, Send(r) PROVE Inv'
  <2>1. sent + 1 \in 0 .. MaxRequests
    BY <1>0, <1>2, FirmwareAssumption DEF Send, Control
  <2>2. Control' /\ Open' /\ Remembered'
    BY <1>0, <1>2, <2>1 DEF Send, Control, Open, Remembered
  <2>3. QED
    BY <1>2, <2>2, QuietStep DEF Send
<1>3. QED
  BY <1>1, <1>2 DEF Host

(* The interrupts keep the invariant.                                      *)
LEMMA InterruptInv == Inv /\ (UsbInterrupt \/ DmaInterrupt) => Inv'
<1> SUFFICES ASSUME Inv, UsbInterrupt \/ DmaInterrupt PROVE Inv'
  OBVIOUS
<1>0. Control /\ Queues /\ Open /\ Remembered /\ Blanks(queue) \subseteq {slot}
  BY DEF Inv
<1>1. CASE UsbInterrupt
  <2>1. vendor_request_handler(queue, missed) /\ queue \in Ring
        /\ missed \in {"no", "start", "yes"}
    BY <1>0, <1>1 DEF UsbInterrupt, Queues, Control
  <2>2. /\ queue' \in Ring /\ Blanks(queue') \subseteq Blanks(queue)
        /\ requested_mode' \in Modes /\ last' \in DOMAIN ModeOf
        /\ target_set' \in BOOLEAN /\ missed' \in {"no", "start", "yes"}
        /\ pending' \in Requests \cup {"RESET", None}
    BY <1>0, <2>1, HandlerStep
  <2>3. Control' /\ Queues' /\ Open' /\ slot' = slot
    BY <1>0, <1>1, <2>2 DEF UsbInterrupt, Control, Queues, Open
  <2>4. Remembered'
    BY <1>0, <1>1 DEF UsbInterrupt, Open, Remembered, LeProgram
  <2>5. QED
    BY <1>0, <2>2, <2>3, <2>4, InvNext
<1>2. CASE DmaInterrupt
  <2>1. rx_tc' \in 0 .. 2 /\ missed' \in {"no", "start", "yes"}
    BY <1>0, <1>2 DEF DmaInterrupt, Control
  <2>2. Control' /\ Open' /\ Remembered'
    BY <1>0, <1>2, <2>1 DEF DmaInterrupt, Control, Open, Remembered
  <2>3. QED
    BY <1>2, <2>2, QuietStep DEF DmaInterrupt
<1>3. QED
  BY <1>1, <1>2

(* The main loop and the transmit and receive routines that poll.          *)
LEMMA StreamInv ==
  ASSUME Inv, MainLoop \/ StreamWait \/ StreamTake \/ StreamClose \/ GenericSync
  PROVE  Inv'
<1>0. /\ Control /\ Queues /\ Open /\ Remembered /\ queue \in Ring
      /\ missed \in {"no", "start", "yes"} /\ Blanks(queue) \subseteq {slot}
      /\ at \in {"main", "stream", "closing", "generic_sync"}
  BY DEF Inv, Control, Queues, MainLoop, StreamWait, StreamTake, StreamClose, GenericSync
<1>1. slot = -1 /\ ~usb_irq
  <2>1. at \in Places \ (LeProgram \cup {"sync_fill"})
    BY <1>0 DEF Places, LeProgram, Polled
  <2>2. QED
    BY <2>1, Outside
<1>2. CASE MainLoop
  <2>1. at' \in {"main", "dispatch"} /\ handle_usb(queue, missed)
        /\ UNCHANGED <<mode, status, dma, rx_tc, usb_irq, slot, sent, count>>
    BY <1>2 DEF MainLoop
  <2>2. at' \in Places /\ Open' /\ Remembered'
    BY <1>1, <2>1 DEF Places, Open, LeProgram, Filling, Remembered
  <2>3. QED
    BY <1>0, <1>1, <2>1, <2>2, PollStep DEF Control
<1>3. CASE StreamWait
  <2>1. at = "stream" /\ rx_tc = 0 /\ at' = "stream" /\ handle_usb(queue, missed)
        /\ UNCHANGED <<mode, status, dma, rx_tc, usb_irq, slot, sent, count>>
    BY <1>3 DEF StreamWait
  <2>2. at' \in Places /\ Open'
    BY <1>1, <2>1 DEF Places, Open, LeProgram, Filling
  <2>3. Remembered'
    BY <1>0, <2>1, UsbStep DEF Remembered
  <2>4. QED
    BY <1>0, <1>1, <2>1, <2>2, <2>3, PollStep DEF Control
<1>4. CASE StreamTake
  <2> DEFINE flag == status \/ rx_tc > 1
             e == enqueue("BR", flag)
  <2>1. flag \in BOOLEAN
    BY Zenon
  <2>0. missed = "yes" => flag
    BY <1>0, <1>4 DEF StreamTake, Remembered
  <2>2. /\ queue' = e.queue /\ status' = e.status /\ count' = e.count /\ missed' = e.missed
        /\ at' = "closing"
        /\ UNCHANGED <<mode, requested_mode, target_set, ep, dma, rx_tc, usb_irq, slot,
                       pending, sent, last>>
    BY <1>4 DEF StreamTake
  <2> HIDE DEF flag
  <2>3. /\ e.queue \in Ring /\ Blanks(e.queue) \subseteq Blanks(queue)
        /\ e.status \in BOOLEAN /\ e.count \in 0 .. Window - 1
        /\ e.missed \in {"no", "start", "yes"} /\ (e.missed = "yes" => e.status)
    BY <1>0, <2>0, <2>1, EnqueueStep DEF Control
  <2> HIDE DEF e
  <2>4. Control' /\ Queues' /\ Open' /\ Remembered'
    BY <1>0, <1>1, <2>2, <2>3
    DEF Control, Queues, Open, Remembered, Places, LeProgram, Filling
  <2>5. QED
    BY <1>0, <2>2, <2>3, <2>4, InvNext
<1>5. CASE StreamClose
  <2>1. at = "closing" /\ at' \in {"stream", "main"}
        /\ handle_usb(queue, missed) /\ rx_tc' \in 0 .. 2
        /\ UNCHANGED <<mode, status, usb_irq, slot, sent, count>>
    BY <1>5 DEF StreamClose
  <2>2. at' \in Places /\ Open'
    BY <1>1, <2>1 DEF Places, Open, LeProgram, Filling
  <2>3. dma' \in BOOLEAN
    <3> DEFINE b == requested_mode' \in Streaming
    <3>1. b \in BOOLEAN
      OBVIOUS
    <3>2. dma' = b
      BY <1>5 DEF StreamClose
    <3> HIDE DEF b
    <3>3. QED
      BY <3>1, <3>2
  <2>4. Remembered'
    BY <1>0, <2>1, UsbStep DEF Remembered
  <2>5. QED
    BY <1>0, <1>1, <2>1, <2>2, <2>3, <2>4, PollStep DEF Control
<1>6. CASE GenericSync
  <2> DEFINE e == enqueue("BR", status)
  <2>1. /\ handle_usb(e.queue, e.missed) /\ status' = e.status /\ count' = e.count
        /\ UNCHANGED <<at, mode, dma, rx_tc, usb_irq, slot, sent>>
    BY <1>6 DEF GenericSync
  <2>2. missed = "yes" => status
    BY <1>0, <1>6 DEF GenericSync, Remembered
  <2>3. /\ e.queue \in Ring /\ Blanks(e.queue) \subseteq Blanks(queue)
        /\ e.status \in BOOLEAN /\ e.count \in 0 .. Window - 1
        /\ e.missed \in {"no", "start", "yes"} /\ (e.missed = "yes" => e.status)
    BY <1>0, <2>2, EnqueueStep DEF Control
  <2> HIDE DEF e
  <2>4. missed' \in {"start", e.missed}
    BY <1>0, <2>1, <2>3, UsbStep
  <2>5. Open' /\ at' \in Places /\ Remembered'
    BY <1>0, <2>1, <2>3, <2>4 DEF Open, Control, Remembered
  <2>6. QED
    BY <1>0, <1>1, <2>1, <2>3, <2>5, PollStep DEF Control
<1>7. QED
  BY <1>2, <1>3, <1>4, <1>5, <1>6

(* The routines that poll until their mode is no longer requested.         *)
LEMMA PolledInv ==
  ASSUME Inv, NEW m \in Polled, RunPolled(m)
  PROVE  Inv'
<1> DEFINE e == IF m = "SPECAN" THEN enqueue("SPECAN", status)
                ELSE [queue |-> queue, status |-> status, count |-> count,
                      missed |-> missed]
<1>0. Control /\ Queues /\ Open /\ Remembered /\ queue \in Ring /\ missed \in {"no", "start", "yes"}
  BY DEF Inv, Control, Queues
<1>1. /\ at = m /\ handle_usb(e.queue, e.missed) /\ status' = e.status /\ count' = e.count
      /\ at' \in {m, "main"}
      /\ UNCHANGED <<mode, dma, rx_tc, usb_irq, slot, sent>>
  BY DEF RunPolled
<1>2. slot = -1 /\ ~usb_irq
  <2>1. at \in Places \ (LeProgram \cup {"sync_fill"})
    BY <1>1 DEF Places, LeProgram, Polled
  <2>2. QED
    BY <2>1, Outside
<1>3. /\ e.queue \in Ring /\ Blanks(e.queue) \subseteq Blanks(queue)
      /\ e.status \in BOOLEAN /\ e.count \in 0 .. Window - 1
      /\ e.missed \in {"no", "start", "yes"}
      /\ (m = "SPECAN" /\ e.missed = "yes" => e.status)
  <2>1. CASE m = "SPECAN"
    <3>1. missed = "yes" => status
      BY <1>0, <1>1, <2>1 DEF Remembered
    <3>2. QED
      BY <1>0, <2>1, <3>1, EnqueueStep DEF Control
  <2>2. CASE m # "SPECAN"
    BY <1>0, <2>2 DEF Control
  <2>3. QED
    BY <2>1, <2>2
<1> HIDE DEF e
<1>4. at' \in Places \ (LeProgram \cup {"sync_fill"}) /\ at' \notin Filling
  BY <1>1 DEF Places, LeProgram, Polled, Filling
<1>5. missed' \in {"start", e.missed}
  BY <1>0, <1>1, <1>3, UsbStep
<1>6. Open' /\ Remembered'
  BY <1>1, <1>2, <1>3, <1>4, <1>5 DEF Open, Remembered, Polled
<1>7. QED
  BY <1>0, <1>1, <1>2, <1>3, <1>4, <1>6, PollStep DEF Control

(* From the dispatcher into the routines with the interrupt disabled.      *)
LEMMA ModesHold == \A r \in DOMAIN ModeOf : ModeOf[r] \in Modes
  BY DEF Modes

(* The modes the routines run in.                                          *)
LEMMA ModeNames ==
  /\ Streaming \cup {"AFH", "RX_GENERIC"} \subseteq Modes /\ Polled \subseteq Modes
  /\ {"TX_GENERIC", "RX_GENERIC", "BT_PROMISC_LE", "IDLE"} \subseteq Modes
<1>1. /\ {"STOP", "RX_SYMBOLS", "START_HOPPING", "AFH", "BTLE_SNIFFING", "BTLE_PROMISC",
          "TX_SYMBOLS", "SPECAN", "LED_SPECAN", "RX_GENERIC", "TX_GENERIC_PACKET"}
          \subseteq DOMAIN ModeOf
      /\ ModeOf["STOP"] = "IDLE" /\ ModeOf["RX_SYMBOLS"] = "RX_SYMBOLS"
      /\ ModeOf["START_HOPPING"] = "BT_FOLLOW" /\ ModeOf["AFH"] = "AFH"
      /\ ModeOf["BTLE_SNIFFING"] = "BT_FOLLOW_LE" /\ ModeOf["BTLE_PROMISC"] = "BT_PROMISC_LE"
      /\ ModeOf["TX_SYMBOLS"] = "TX_SYMBOLS" /\ ModeOf["SPECAN"] = "SPECAN"
      /\ ModeOf["LED_SPECAN"] = "LED_SPECAN" /\ ModeOf["RX_GENERIC"] = "RX_GENERIC"
      /\ ModeOf["TX_GENERIC_PACKET"] = "TX_GENERIC"
  BY DEF ModeOf
<1> HIDE DEF ModeOf
<1>2. QED
  BY <1>1, ModesHold DEF Streaming, Polled

(* Starting and leaving these routines keeps the invariant.                *)
LEMMA StartInv ==
  ASSUME Inv, \/ GoIdle \/ SweepEnds \/ TxGeneric \/ StartGenericSync
              \/ (\E m \in Streaming \cup {"AFH", "RX_GENERIC"} : StartStream(m))
              \/ (\E m \in Polled : StartPolled(m))
              \/ LeavePromisc \/ WaitToReset \/ Boot
  PROVE  Inv'
<1> DEFINE Quiet == Places \ (LeProgram \cup {"sync_fill"})
<1>0. Control /\ Open
  BY DEF Inv
<1>1. at \in {"dispatch", "SPECAN", "promisc", "boot"}
  BY DEF Dispatch, GoIdle, SweepEnds, TxGeneric, StartGenericSync, StartStream, StartPolled,
         LeavePromisc, WaitToReset, Boot
<1>2. slot = -1 /\ ~usb_irq
  <2>1. at \in Quiet
    BY <1>1 DEF Places, LeProgram, Polled
  <2>2. QED
    BY <2>1, Outside
<1>3. ASSUME at' \in Quiet, UNCHANGED <<slot, usb_irq>> PROVE Open'
  <2>1. at' \notin Filling /\ at' \notin LeProgram /\ at' # "sync_fill"
    BY <1>3 DEF Filling, LeProgram
  <2>2. QED
    BY <1>2, <1>3, <2>1 DEF Open
<1>4. "main" \in Quiet /\ "stream" \in Quiet /\ "generic_sync" \in Quiet
      /\ "resetting" \in Quiet /\ Polled \subseteq Quiet /\ Quiet \subseteq Places
  BY DEF Places, LeProgram, Polled
<1> HIDE DEF Quiet
<1>5. CASE GoIdle
  <2>1. Control' /\ Open' /\ Remembered'
    BY <1>0, <1>3, <1>4, <1>5, ModeNames DEF GoIdle, Dispatch, cc2400_idle, Control, Remembered
  <2>2. QED
    BY <1>5, <2>1, QuietStep DEF GoIdle
<1>6. CASE SweepEnds \/ LeavePromisc \/ WaitToReset \/ Boot
  <2>1. Control' /\ Open' /\ Remembered'
    BY <1>0, <1>3, <1>4, <1>6 DEF SweepEnds, LeavePromisc, WaitToReset, Boot, Dispatch, Control, Remembered
  <2>2. QED
    BY <1>6, <2>1, QuietStep DEF SweepEnds, LeavePromisc, WaitToReset, Boot
<1>7. CASE TxGeneric
  <2>1. Control' /\ Open' /\ Remembered'
    BY <1>0, <1>3, <1>4, <1>7, ModeNames DEF TxGeneric, Dispatch, Control, Remembered
  <2>2. QED
    BY <1>7, <2>1, QuietStep DEF TxGeneric
<1>8. CASE StartGenericSync
  <2>1. Control' /\ Open' /\ Remembered'
    BY <1>0, <1>3, <1>4, <1>8, ModeNames, Bounds DEF StartGenericSync, Dispatch, Control, Remembered
  <2>2. QED
    BY <1>8, <2>1, QuietStep DEF StartGenericSync
<1>9. ASSUME NEW m \in Streaming \cup {"AFH", "RX_GENERIC"}, StartStream(m) PROVE Inv'
  <2> DEFINE b == m \in Streaming
  <2>0. b \in BOOLEAN
    OBVIOUS
  <2>1. at' \in Quiet /\ dma' = b
    BY <1>4, <1>9 DEF StartStream, Dispatch
  <2> HIDE DEF b
  <2>2. Control' /\ Open' /\ Remembered'
    BY <1>0, <1>3, <1>4, <1>9, <2>0, <2>1, ModeNames, Bounds DEF StartStream, Dispatch, Control, Remembered
  <2>3. QED
    BY <1>9, <2>2, QuietStep DEF StartStream
<1>10. ASSUME NEW m \in Polled, StartPolled(m) PROVE Inv'
  <2>1. /\ at' \in Quiet /\ mode' \in Modes /\ missed' \in {"no", "start", "yes"}
        /\ count' \in 0 .. Window - 1
    BY <1>0, <1>4, <1>10, ModeNames, Bounds DEF StartPolled, Dispatch, Control
  <2>2. Control' /\ Open' /\ Remembered'
    BY <1>0, <1>3, <1>4, <1>10, <2>1 DEF StartPolled, Dispatch, Polled, Control, Remembered
  <2>3. queue' = queue \/ queue' = usb_queue_init
    BY <1>10 DEF StartPolled
  <2>4. QED
    BY <1>10, <2>2, <2>3, QuietStep DEF StartPolled
<1>11. QED
  BY <1>5, <1>6, <1>7, <1>8, <1>9, <1>10

(* The LE routines, between their packets.                                 *)
LEMMA LeInv ==
  ASSUME Inv, \/ StartSlave \/ Slave \/ SlaveWakes \/ StartPromisc \/ GenericNothing
              \/ LeaveLe
  PROVE  Inv'
<1>0. Control /\ Open
  BY DEF Inv
<1>1. slot = -1
  <2>1. at \in {"dispatch", "slave", "asleep", "promisc", "generic", "leaving", "found", "sync"}
    BY DEF StartSlave, Slave, SlaveWakes, StartPromisc, GenericNothing, LeaveLe, Dispatch
  <2>2. QED
    BY <1>0, <2>1 DEF Open, Filling
<1>2. CASE StartSlave \/ SlaveWakes \/ GenericNothing
  <2>1. at' \in {"slave", "overslept", "generic", "leaving"} /\ usb_irq'
    BY <1>0, <1>2 DEF StartSlave, SlaveWakes, GenericNothing, NextTransfer, Dispatch, Open,
                      LeProgram
  <2>2. Open' /\ Remembered'
    BY <1>0, <1>1, <1>2, <2>1
    DEF StartSlave, SlaveWakes, GenericNothing, Open, LeProgram, Filling, Remembered
  <2>3. usb_irq' \in BOOLEAN
    BY <1>0, <1>2 DEF StartSlave, SlaveWakes, GenericNothing, Control
  <2>4. rx_tc' \in 0 .. 2
    BY <1>0, <1>2 DEF StartSlave, SlaveWakes, GenericNothing, NextTransfer, Control
  <2>5. Control'
    BY <1>0, <1>2, <2>1, <2>3, <2>4
    DEF StartSlave, SlaveWakes, GenericNothing, Control, Places, LeProgram
  <2>6. QED
    BY <1>2, <2>2, <2>5, QuietStep DEF StartSlave, SlaveWakes, GenericNothing
<1>3. CASE Slave
  <2>1. Open' /\ Remembered'
    BY <1>0, <1>1, <1>3 DEF Slave, Open, LeProgram, Filling, Remembered
  <2>2. usb_irq' \in BOOLEAN /\ at' \in Places
    BY <1>0, <1>3 DEF Slave, Control, Places, LeProgram
  <2>3. Control'
    BY <1>0, <1>3, <2>2 DEF Slave, Control
  <2>4. QED
    BY <1>3, <2>1, <2>3, QuietStep DEF Slave
<1>4. CASE StartPromisc
  <2>1. at' \in {"generic", "sync"} /\ usb_irq' = TRUE /\ slot' = slot
    BY <1>4 DEF StartPromisc
  <2>2. Open' /\ Remembered'
    BY <1>1, <2>1 DEF Open, LeProgram, Filling, Remembered
  <2>3. status' \in BOOLEAN
    BY <1>0, <1>4, Zenon DEF StartPromisc, Full, Control
  <2>4. Control'
    BY <1>0, <1>4, <2>1, <2>3, ModeNames, Bounds
    DEF StartPromisc, Control, Places, LeProgram
  <2>5. QED
    BY <1>4, <2>2, <2>4, QuietStep DEF StartPromisc
<1>5. CASE LeaveLe
  <2>1. Open' /\ Remembered'
    BY <1>1, <1>5 DEF LeaveLe, Open, LeProgram, Filling, Remembered
  <2>2. Control'
    BY <1>0, <1>5, ModeNames DEF LeaveLe, cc2400_idle, Control, Places
  <2>3. QED
    BY <1>5, <2>1, <2>2, QuietStep DEF LeaveLe
<1>6. QED
  BY <1>2, <1>3, <1>4, <1>5

(* usb_enqueue in an LE routine.                                           *)
LEMMA OpeningInv ==
  ASSUME Inv, GenericMatch \/ Announce \/ SyncPacket
  PROVE  Inv'
<1>0. Control /\ Queues /\ Open /\ Remembered /\ Blanks(queue) \subseteq {slot}
  BY DEF Inv
<1>1. slot = -1 /\ at \in LeProgram
  BY <1>0 DEF GenericMatch, Announce, SyncPacket, Open, LeProgram, Filling, Remembered
<1> DEFINE next == at'
<1>2. OpenSlot(next)
  BY DEF GenericMatch, Announce, SyncPacket, OpenSlot
<1>3. /\ queue' \in Ring /\ Blanks(queue') \subseteq {slot'} /\ slot' \in -1 .. Slots - 1
      /\ status' \in BOOLEAN /\ missed' \in {"no", "start", "yes"}
  BY <1>0, <1>1, <1>2, OpenStep
<1>4. /\ \/ at' \in {"generic_fill", "picked_fill", "state_fill"} /\ usb_irq' = usb_irq
         \/ at' = "sync_fill" /\ usb_irq' = FALSE
      /\ UNCHANGED <<mode, requested_mode, target_set, ep, dma, rx_tc, pending, sent, count, last>>
  BY DEF GenericMatch, Announce, SyncPacket, OpenSlot
<1>5. Open' /\ Remembered'
  BY <1>0, <1>1, <1>4 DEF Open, LeProgram, Filling, Remembered
<1>6. at' \in Places /\ usb_irq' \in BOOLEAN
  BY <1>0, <1>4 DEF Control, Places, LeProgram
<1>7. Control' /\ Queues'
  BY <1>0, <1>3, <1>4, <1>6 DEF Control, Queues
<1>8. QED
  BY <1>3, <1>5, <1>7, InvNext

(* ... and the filling of the slot.                                        *)
LEMMA FillingInv ==
  ASSUME Inv, GenericFill \/ AnnounceFill \/ SyncFill
  PROVE  Inv'
<1>0. Control /\ Queues /\ Open /\ Remembered /\ Blanks(queue) \subseteq {slot}
  BY DEF Inv
<1>1. FillSlot
  BY DEF GenericFill, AnnounceFill, SyncFill
<1>2. /\ queue' \in Ring /\ Blanks(queue') = {} /\ slot' = -1
      /\ status' \in BOOLEAN /\ missed' \in {"no", "start", "yes"} /\ count' = count
  BY <1>0, <1>1, FillStep
<1>3. UNCHANGED <<mode, requested_mode, target_set, ep, dma, pending, sent, last>>
  BY DEF GenericFill, AnnounceFill, SyncFill
<1>4. usb_irq' = TRUE /\ at' \in {"generic", "leaving", "picked", "found", "state_done", "sync"}
  <2>1. CASE GenericFill
    BY <1>0, <2>1 DEF GenericFill, NextTransfer, Open, LeProgram, Control
  <2>2. CASE AnnounceFill
    BY <1>0, <2>2 DEF AnnounceFill, Open, LeProgram, Control
  <2>3. CASE SyncFill
    BY <2>3 DEF SyncFill
  <2>4. QED
    BY <2>1, <2>2, <2>3
<1>5. rx_tc' \in 0 .. 2
  BY <1>0 DEF GenericFill, NextTransfer, AnnounceFill, SyncFill, Control
<1>6. Open' /\ Remembered' /\ at' \in Places
  BY <1>2, <1>4 DEF Open, LeProgram, Filling, Remembered, Places
<1>7. -1 \in -1 .. Slots - 1
  BY FirmwareAssumption
<1>8. Control' /\ Queues'
  BY <1>0, <1>2, <1>3, <1>4, <1>5, <1>6, <1>7 DEF Control, Queues
<1>9. QED
  BY <1>2, <1>6, <1>8, InvNext

(* The reset keeps the invariant.                                          *)
LEMMA ResetInv == Inv /\ reset => Inv'
<1> SUFFICES ASSUME Inv, reset PROVE Inv'
  OBVIOUS
<1>0. Control
  BY DEF Inv
<1>1. Queues' /\ Blanks(queue') \subseteq {slot'}
  BY EmptyRing, FirmwareAssumption DEF reset, Queues
<1>2. Control'
  <2>1. at' \in Places /\ mode' \in Modes /\ requested_mode' \in Modes
    BY Bounds DEF reset, Places
  <2>2. target_set' \in BOOLEAN /\ status' \in BOOLEAN /\ dma' \in BOOLEAN /\ usb_irq' \in BOOLEAN
    BY DEF reset
  <2>3. rx_tc' \in 0 .. 2 /\ sent' \in 0 .. MaxRequests /\ count' \in 0 .. Window - 1
    BY <1>0, Bounds DEF reset, Control
  <2>4. pending' \in Requests \cup {"RESET", None} /\ missed' \in {"no", "start", "yes"}
        /\ last' \in DOMAIN ModeOf
    BY <1>0 DEF reset, Control
  <2>5. QED
    BY <2>1, <2>2, <2>3, <2>4 DEF Control
<1>3. Open' /\ Remembered'
  BY DEF reset, Open, Remembered, LeProgram, Filling
<1>4. QED
  BY <1>1, <1>2, <1>3, InvNext

(* A step of something else keeps it.                                      *)
LEMMA StutterInv == Inv /\ UNCHANGED fw => Inv'
  BY DEF fw, Inv, Control, Queues, Open, Remembered, Blanks, Queued, Used

(* Every step keeps the invariant.                                         *)
LEMMA StepInv == Inv /\ [Next]_fw => Inv'
<1> SUFFICES ASSUME Inv, [Next]_fw PROVE Inv'
  OBVIOUS
<1>1. ASSUME Program PROVE Inv'
  <2>1. CASE MainLoop \/ StreamWait \/ StreamTake \/ StreamClose \/ GenericSync
    BY <2>1, StreamInv
  <2>2. ASSUME NEW m \in Polled, RunPolled(m) PROVE Inv'
    BY <2>2, PolledInv
  <2>3. CASE \/ GoIdle \/ SweepEnds \/ TxGeneric \/ StartGenericSync
             \/ (\E m \in Streaming \cup {"AFH", "RX_GENERIC"} : StartStream(m))
             \/ (\E m \in Polled : StartPolled(m))
             \/ LeavePromisc \/ WaitToReset \/ Boot
    BY <2>3, StartInv
  <2>4. CASE StartSlave \/ Slave \/ SlaveWakes \/ StartPromisc \/ GenericNothing \/ LeaveLe
    BY <2>4, LeInv
  <2>5. CASE GenericMatch \/ Announce \/ SyncPacket
    BY <2>5, OpeningInv
  <2>6. CASE GenericFill \/ AnnounceFill \/ SyncFill
    BY <2>6, FillingInv
  <2>7. CASE reset
    BY <2>7, ResetInv
  <2>8. QED
    BY <1>1, <2>1, <2>2, <2>3, <2>4, <2>5, <2>6, <2>7 DEF Program
<1>2. QED
  BY <1>1, InterruptInv, HostInv, StutterInv DEF Next, Firmware

(* The invariant holds throughout.                                         *)
LEMMA Invariance == Spec => []Inv
<1>1. Init => Inv
  BY InitInv
<1>2. Inv /\ [Next]_fw => Inv'
  BY StepInv
<1>3. QED
  BY <1>1, <1>2, PTL DEF Spec

-----------------------------------------------------------------------------
(* The invariant bounds every variable.                                    *)
LEMMA InvTypes == Inv => FwTypeOK
<1> SUFFICES ASSUME Inv PROVE FwTypeOK
  OBVIOUS
<1>1. Content \subseteq Packet \cup {Blank}
  BY DEF Content
<1>2. queue \in [head : 0 .. Slots - 1, tail : 0 .. Slots - 1,
                 fifo : [0 .. Slots - 1 -> Packet \cup {Blank}]]
  BY <1>1 DEF Inv, Queues, Ring, Index
<1>3. ep \in Seq(Packet \cup {Blank}) /\ Len(ep) <= 2
  BY <1>1, SeqDef DEF Inv, Queues
<1>4. QED
  BY <1>2, <1>3 DEF Inv, Control, Queues, Open, FwTypeOK

(* The indices of the ring, and every other variable, keep to their range, *)
(* however the requests, the interrupts and the routines interleave.       *)
THEOREM TypeCorrect == Spec => []FwTypeOK
  BY InvTypes, Invariance, PTL

(* With the interrupt enabled, an open slot is a callback's.               *)
LEMMA InvWhole == Inv => WholePackets
<1> SUFFICES ASSUME Inv, NEW i \in Queued(queue), queue.fifo[i] = Blank, usb_irq
             PROVE  at \in {"generic_fill", "picked_fill", "state_fill"}
  BY DEF WholePackets
<1>1. Open /\ Queues /\ i = slot
  BY DEF Inv, Blanks
<1>2. slot # -1
  BY <1>1, InQueue, FirmwareAssumption DEF Queues, Index
<1>3. QED
  BY <1>1, <1>2 DEF Open, Filling

(* "disable USB interrupts while we touch USB data structures": while the  *)
(* interrupt can hand packets to the host, a blank one is in the ring only *)
(* where a promiscuous callback enqueues without that protection.          *)
THEOREM PacketsWhole == Spec => []WholePackets
  BY InvWhole, Invariance, PTL

(* All packets of the ring and the endpoint are flagged content.           *)
LEMMA InvFlagged == Inv => LossFlagged
<1> SUFFICES ASSUME Inv, NEW i \in 1 .. Len(Unread) PROVE Flagged(Unread[i])
  BY DEF LossFlagged, Flagged
<1>1. /\ queue \in Ring /\ ep \in Seq(Content) /\ Used(queue) \in 0 .. Used(queue)
  BY InQueue DEF Inv, Queues, Index
<1>2. Oldest(queue, Used(queue)) \in Seq(Content)
  BY <1>1, OldestType
<1>3. Unread \in Seq(Content)
  BY <1>1, <1>2, ConcatProperties DEF Unread
<1>4. Unread[i] \in Content
  BY <1>3, ElementOfSeq
<1>5. QED
  BY <1>4 DEF Content

(* enqueue and bt_stream_rx: a packet of a run that follows a lost packet  *)
(* or a lost transfer carries an overflow flag, whichever polls, requests  *)
(* and interrupts come between, in the ring as in the endpoint.            *)
THEOREM LossesFlagged == Spec => []LossFlagged
  BY InvFlagged, Invariance, PTL

(* The reset command keeps the invariant.                                  *)
LEMMA CommandInv == Inv /\ Command => Inv'
<1> SUFFICES ASSUME Inv, Command PROVE Inv'
  OBVIOUS
<1>1. CASE DispatchReset
  <2>1. Control' /\ Open' /\ Remembered'
    BY <1>1 DEF DispatchReset, Inv, Control, Open, Remembered
  <2>2. QED
    BY <1>1, <2>1, QuietStep DEF DispatchReset
<1>2. CASE Dispatched \/ Reappeared \/ TimedOut
  BY <1>2, StutterInv DEF Dispatched, Reappeared, TimedOut
<1>3. QED
  BY <1>1, <1>2 DEF Command

(* The invariant holds under the reset command.                            *)
LEMMA ResetInvariance == ResetSpec => []Inv
<1>1. ResetInit => Inv
  BY InitInv DEF ResetInit
<1>2. Inv /\ [ResetNext]_vars => Inv'
  <2>1. UNCHANGED vars => UNCHANGED fw
    BY DEF vars
  <2>2. QED
    BY <2>1, CommandInv, StepInv, StutterInv DEF ResetNext
<1>3. QED
  BY <1>1, <1>2, PTL DEF ResetSpec

(* performGuardedReset is one more tool that sends a request: the three    *)
(* hold of the firmware under it too.                                      *)
THEOREM WithResetCommand ==
  ResetSpec => [](FwTypeOK /\ WholePackets /\ LossFlagged)
  BY ResetInvariance, InvTypes, InvWhole, InvFlagged, PTL

=============================================================================
