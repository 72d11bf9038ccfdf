--------------------------- MODULE LeFollow_proofs ---------------------------
(***************************************************************************)
(* le_phy.c for every size of the buffer pool and the queue and every      *)
(* modulus of the event counter: no buffer has two owners, the queue never *)
(* overflows, none is lost before the counter of timer 1 wraps, and the    *)
(* events of an undisturbed connection are counted.                        *)
(*                                                                         *)
(* Inv strengthens the types, OneOwner and NoneLost by where a buffer is   *)
(* at each place of the code; Phase, relative to it, strengthens InStep.   *)
(***************************************************************************)
EXTENDS LeFollow, FiniteSetTheorems, SequenceTheorems, TLAPS

(* The main loop has a packet in hand from the filter to buffer_release.   *)
Places == main.buf = NULL <=> main.pc \in {"loop", "out"}

(* A packet on its way has a buffer.                                       *)
Held == radio = "packet" => fault \/ current_rxbuf # NULL

(* The wait for a buffer is on only when there is none.                    *)
Waiting == T1.MR3 = "ahead" =>
             current_rxbuf = NULL \/ main.pc = "out" \/ seen.refired \/ seen.raced

Owners == OneOwner /\ NoneLost /\ Places /\ Held /\ Waiting

Inv == LeTypeOK /\ Owners

Elems(q) == {q[i] : i \in 1 .. Len(q)}
Distinct(q) == \A i, j \in 1 .. Len(q) : q[i] = q[j] => i = j

---------------------------------------------------------------------------
(* Sequences.                                                              *)

(* queue_insert adds one buffer.                                           *)
LEMMA AppendElems ==
  ASSUME NEW q \in Seq(Buf), NEW b \in Buf
  PROVE  /\ Elems(Append(q, b)) = Elems(q) \cup {b}
         /\ Distinct(q) /\ b \notin Elems(q) => Distinct(Append(q, b))
<1> DEFINE a == Append(q, b)
<1>1. /\ Len(a) = Len(q) + 1 /\ Len(q) \in Nat
      /\ \A i \in 1 .. Len(q) : a[i] = q[i]
      /\ a[Len(q) + 1] = b
  BY AppendProperties, LenProperties
<1> HIDE DEF a
<1>2. 1 .. Len(a) = (1 .. Len(q)) \cup {Len(q) + 1}
  BY <1>1
<1>3. Elems(a) = Elems(q) \cup {b}
  BY <1>1, <1>2 DEF Elems
<1>4. ASSUME Distinct(q), b \notin Elems(q) PROVE Distinct(a)
  BY <1>1, <1>2, <1>4 DEF Distinct, Elems
<1>5. QED
  BY <1>3, <1>4 DEF a

(* queue_remove takes out one buffer.                                      *)
LEMMA TailElems ==
  ASSUME NEW q \in Seq(Buf), q # <<>>, Distinct(q)
  PROVE  /\ Head(q) \in Elems(q)
         /\ Elems(Tail(q)) = Elems(q) \ {Head(q)}
         /\ Distinct(Tail(q))
<1> DEFINE t == Tail(q)
<1>1. /\ Len(t) = Len(q) - 1 /\ Len(q) \in Nat /\ Len(q) > 0
      /\ \A i \in 1 .. Len(t) : t[i] = q[i + 1]
      /\ Head(q) = q[1]
  BY HeadTailProperties, LenProperties, EmptySeq
<1> HIDE DEF t
<1>2. Head(q) \in Elems(q)
  BY <1>1 DEF Elems
<1>3. Distinct(t)
  BY <1>1 DEF Distinct
<1>4. ASSUME NEW b \in Elems(t) PROVE b \in Elems(q) \ {Head(q)}
  <2>1. PICK i \in 1 .. Len(t) : b = q[i + 1]
    BY <1>1 DEF Elems
  <2>2. i + 1 \in 1 .. Len(q) /\ 1 \in 1 .. Len(q) /\ i + 1 # 1
    BY <1>1
  <2>3. QED
    BY <1>1, <2>1, <2>2 DEF Elems, Distinct
<1>5. ASSUME NEW b \in Elems(q), b # Head(q) PROVE b \in Elems(t)
  <2>1. PICK i \in 1 .. Len(q) : b = q[i]
    BY DEF Elems
  <2>2. i - 1 \in 1 .. Len(t) /\ t[i - 1] = q[(i - 1) + 1] /\ (i - 1) + 1 = i
    BY <1>1, <1>5, <2>1
  <2>3. QED
    BY <2>1, <2>2 DEF Elems
<1>6. QED
  BY <1>2, <1>3, <1>4, <1>5 DEF t

(* With a buffer at the receiver the queue has room for it: the buffers in *)
(* it are distinct and it has more slots than the pool has buffers.        *)
LEMMA QueueRoom ==
  ASSUME packet_queue \in Seq(Buf), Distinct(packet_queue),
         current_rxbuf \in Buf, current_rxbuf \notin Elems(packet_queue)
  PROVE  Len(packet_queue) < FIFOSIZE - 1
<1> DEFINE n == Len(packet_queue)
           T == Buf \ {current_rxbuf}
<1>1. n \in Nat /\ packet_queue \in [1 .. n -> Buf]
  BY LenProperties
<1>2. packet_queue \in [1 .. n -> T]
  BY <1>1 DEF Elems
<1>3. IsFiniteSet(Buf) /\ Cardinality(Buf) = LE_BUFFER_POOL_SIZE
  BY FollowAssumption, FS_Interval DEF Buf
<1>4. IsFiniteSet(T) /\ Cardinality(T) = LE_BUFFER_POOL_SIZE - 1
  BY <1>3, FS_RemoveElement
<1>5. IsFiniteSet(1 .. n) /\ Cardinality(1 .. n) = n
  BY <1>1, FS_Interval
<1>6. SUFFICES ASSUME n > LE_BUFFER_POOL_SIZE - 1 PROVE FALSE
  BY <1>1, FollowAssumption
<1>7. \E x, y \in 1 .. n : x # y /\ packet_queue[x] = packet_queue[y]
  <2>1. Cardinality(T) < Cardinality(1 .. n)
    BY <1>4, <1>5, <1>6
  <2> HIDE DEF T
  <2>2. QED
    BY <1>2, <1>4, <1>5, <2>1, FS_PigeonHole
<1>8. QED
  BY <1>7 DEF Distinct

---------------------------------------------------------------------------
(* One owner, spelled out pair by pair.                                    *)
Pairs(pool, rx, q, loop) ==
  /\ pool \cap rx = {} /\ pool \cap Elems(q) = {} /\ pool \cap loop = {}
  /\ rx \cap Elems(q) = {} /\ rx \cap loop = {} /\ Elems(q) \cap loop = {}
  /\ Distinct(q)

(* OneOwner, pair by pair.                                                 *)
LEMMA OwnerPairs == OneOwner <=> Pairs(available, Current, packet_queue, InHand)
<1>1. /\ DOMAIN Owned = {"pool", "receiver", "queue", "loop"}
      /\ Owned["pool"] = available /\ Owned["receiver"] = Current
      /\ Owned["queue"] = Elems(packet_queue) /\ Owned["loop"] = InHand
  BY DEF Owned, Queued, Elems
<1>2. (\A o, p \in DOMAIN Owned : o # p => Owned[o] \cap Owned[p] = {}) <=>
        /\ available \cap Current = {} /\ available \cap Elems(packet_queue) = {}
        /\ available \cap InHand = {} /\ Current \cap Elems(packet_queue) = {}
        /\ Current \cap InHand = {} /\ Elems(packet_queue) \cap InHand = {}
  BY <1>1
<1>3. QED
  BY <1>2 DEF OneOwner, Pairs, Distinct

(* The same after a step.                                                  *)
LEMMA OwnerPairsNext == OneOwner' <=> Pairs(available', Current', packet_queue', InHand')
<1>1. /\ DOMAIN Owned' = {"pool", "receiver", "queue", "loop"}
      /\ Owned'["pool"] = available' /\ Owned'["receiver"] = Current'
      /\ Owned'["queue"] = Elems(packet_queue') /\ Owned'["loop"] = InHand'
  BY DEF Owned, Queued, Elems
<1>2. (\A o, p \in DOMAIN Owned' : o # p => Owned'[o] \cap Owned'[p] = {}) <=>
        /\ available' \cap Current' = {} /\ available' \cap Elems(packet_queue') = {}
        /\ available' \cap InHand' = {} /\ Current' \cap Elems(packet_queue') = {}
        /\ Current' \cap InHand' = {} /\ Elems(packet_queue') \cap InHand' = {}
  BY <1>1
<1>3. QED
  BY <1>2 DEF OneOwner, Pairs, Distinct

All == available \cup Current \cup Elems(packet_queue) \cup InHand

(* Buffers that change hands. *)
LEMMA Get ==
  ASSUME available \subseteq Buf, BufferGet
  PROVE  /\ available' \cup Current' = available /\ available' \cap Current' = {}
         /\ available' \subseteq Buf /\ current_rxbuf' \in Buf \cup {NULL}
         /\ current_rxbuf' = NULL => available = {}
<1>1. CASE \E b \in available : current_rxbuf' = b /\ available' = available \ {b}
  <2>1. PICK b \in available : current_rxbuf' = b /\ available' = available \ {b}
    BY <1>1
  <2>2. b \in Buf /\ b # NULL
    BY DEF Buf, NULL
  <2>3. Current' = {b}
    BY <2>1, <2>2 DEF Current
  <2>4. QED
    BY <2>1, <2>2, <2>3
<1>2. CASE available = {} /\ current_rxbuf' = NULL /\ available' = available
  BY <1>2 DEF Current
<1>3. QED
  BY <1>1, <1>2 DEF BufferGet

(* What the history of the exceptions may do.                              *)
More == (seen.refired => seen'.refired) /\ (seen.raced => seen'.raced)

(* Nothing changes hands.                                                  *)
LEMMA SameOwners ==
  ASSUME OneOwner, NoneLost, More,
         UNCHANGED <<available, current_rxbuf, packet_queue>>, main'.buf = main.buf
  PROVE  OneOwner' /\ NoneLost'
<1>1. Current' = Current /\ InHand' = InHand
  BY DEF Current, InHand
<1>2. OneOwner'
  BY <1>1, OwnerPairs, OwnerPairsNext
<1>3. NoneLost'
  BY <1>1 DEF NoneLost, More, Queued
<1>4. QED
  BY <1>2, <1>3

(* The end of a packet: the receiver's buffer into the queue, another one  *)
(* out of the pool.                                                        *)
LEMMA PacketOwners ==
  ASSUME LeTypeOK, Owners, EndOfPacket, More
  PROVE  /\ OneOwner' /\ NoneLost'
         /\ available' \subseteq Buf /\ current_rxbuf' \in Buf \cup {NULL}
         /\ packet_queue' \in Seq(Buf) /\ Len(packet_queue') < FIFOSIZE
<1> DEFINE q == packet_queue
           b == current_rxbuf
<1>1. /\ b \in Buf /\ Current = {b} /\ b # NULL
      /\ q \in Seq(Buf) /\ available \subseteq Buf
  BY DEF EndOfPacket, Running, Owners, Held, LeTypeOK, Current
<1>2. Pairs(available, {b}, q, InHand)
  BY <1>1, OwnerPairs DEF Owners
<1>3. Len(q) < FIFOSIZE - 1
  BY <1>1, <1>2, QueueRoom DEF Pairs
<1>4. /\ packet_queue' = Append(q, b)
      /\ packet_queue' \in Seq(Buf) /\ Len(packet_queue') = Len(q) + 1
  BY <1>1, <1>3, AppendProperties DEF EndOfPacket, queue_insert
<1>5. Elems(packet_queue') = Elems(q) \cup {b} /\ Distinct(packet_queue')
  BY <1>1, <1>2, <1>4, AppendElems DEF Pairs
<1>6. /\ available' \cup Current' = available /\ available' \cap Current' = {}
      /\ available' \subseteq Buf /\ current_rxbuf' \in Buf \cup {NULL}
      /\ InHand' = InHand
  BY <1>1, Get DEF EndOfPacket, InHand
<1>7. Pairs(available', Current', packet_queue', InHand')
  BY <1>2, <1>5, <1>6 DEF Pairs
<1>8. NoneLost'
  <2>1. All' = All
    BY <1>1, <1>5, <1>6 DEF All
  <2>2. (Queued = Elems(packet_queue)) /\ (Queued' = Elems(packet_queue'))
    BY DEF Queued, Elems
  <2>3. QED
    BY <2>1, <2>2 DEF NoneLost, All, Owners, More
<1>9. Len(packet_queue') < FIFOSIZE
  BY <1>1, <1>3, <1>4, LenProperties, FollowAssumption
<1>10. QED
  BY <1>4, <1>6, <1>7, <1>8, <1>9, OwnerPairsNext

(* A buffer, or none, for a receiver that has none, or, once the counter   *)
(* has wrapped, for one whose buffer it then loses.                        *)
LEMMA FoundOwners ==
  ASSUME LeTypeOK, Owners, BufferFound \/ BufferLost
  PROVE  /\ OneOwner' /\ NoneLost'
         /\ available' \subseteq Buf /\ current_rxbuf' \in Buf \cup {NULL}
<1>1. /\ available' \cup Current' = available /\ available' \cap Current' = {}
      /\ available' \subseteq Buf /\ current_rxbuf' \in Buf \cup {NULL}
      /\ packet_queue' = packet_queue /\ InHand' = InHand /\ seen' = seen
  BY Get DEF BufferFound, BufferLost, LeTypeOK, InHand
<1>2. Pairs(available', Current', packet_queue', InHand')
  BY <1>1, OwnerPairs DEF Pairs, Owners
<1>3. seen.refired \/ seen.raced \/ Current = {}
  BY DEF BufferFound, BufferLost, Fires, Running, Owners, Waiting, Current
<1>4. NoneLost'
  BY <1>1, <1>3 DEF NoneLost, Owners, Queued
<1>5. QED
  BY <1>1, <1>2, <1>4, OwnerPairsNext

(* The head of the queue to the main loop.                                 *)
LEMMA TakeOwners ==
  ASSUME LeTypeOK, Owners, TakePacket
  PROVE  /\ OneOwner' /\ NoneLost'
         /\ packet_queue' \in Seq(Buf) /\ Len(packet_queue') < FIFOSIZE
         /\ main'.buf \in Buf
<1> DEFINE q == packet_queue
<1>1. /\ q \in Seq(Buf) /\ q # <<>> /\ Len(q) < FIFOSIZE /\ InHand = {}
      /\ Pairs(available, Current, q, InHand)
      /\ packet_queue' = Tail(q) /\ main'.buf = Head(q)
      /\ UNCHANGED <<available, current_rxbuf, seen>>
  BY OwnerPairs DEF TakePacket, LeTypeOK, Owners, Places, InHand
<1>2. /\ Head(q) \in Elems(q) /\ Elems(packet_queue') = Elems(q) \ {Head(q)}
      /\ Distinct(packet_queue')
  BY <1>1, TailElems DEF Pairs
<1>3. /\ packet_queue' \in Seq(Buf) /\ Len(packet_queue') < FIFOSIZE
      /\ Head(q) \in Buf
  BY <1>1, HeadTailProperties, LenProperties, FollowAssumption
<1>4. InHand' = {Head(q)} /\ Current' = Current
  BY <1>1, <1>3 DEF InHand, Current, Buf, NULL
<1>5. Pairs(available', Current', packet_queue', InHand')
  BY <1>1, <1>2, <1>4 DEF Pairs
<1>6. NoneLost'
  BY <1>1, <1>2, <1>4 DEF NoneLost, Owners, Queued, Elems
<1>7. QED
  BY <1>1, <1>3, <1>5, <1>6, OwnerPairsNext

(* The head of the queue back to the pool.                                 *)
LEMMA SkipOwners ==
  ASSUME LeTypeOK, Owners, SkipPacket
  PROVE  /\ OneOwner' /\ NoneLost'
         /\ available' \subseteq Buf
         /\ packet_queue' \in Seq(Buf) /\ Len(packet_queue') < FIFOSIZE
<1> DEFINE q == packet_queue
<1>1. /\ q \in Seq(Buf) /\ q # <<>> /\ Len(q) < FIFOSIZE
      /\ Pairs(available, Current, q, InHand)
      /\ packet_queue' = Tail(q) /\ available' = available \cup {Head(q)}
      /\ available \subseteq Buf
      /\ UNCHANGED <<current_rxbuf, main, seen>>
  BY OwnerPairs DEF SkipPacket, LeTypeOK, Owners
<1>2. /\ Head(q) \in Elems(q) /\ Elems(packet_queue') = Elems(q) \ {Head(q)}
      /\ Distinct(packet_queue')
  BY <1>1, TailElems DEF Pairs
<1>3. /\ packet_queue' \in Seq(Buf) /\ Len(packet_queue') < FIFOSIZE
      /\ Head(q) \in Buf
  BY <1>1, HeadTailProperties, LenProperties, FollowAssumption
<1>4. InHand' = InHand /\ Current' = Current
  BY <1>1 DEF InHand, Current
<1>5. Pairs(available', Current', packet_queue', InHand')
  BY <1>1, <1>2, <1>4 DEF Pairs
<1>6. NoneLost'
  BY <1>1, <1>2, <1>4 DEF NoneLost, Owners, Queued, Elems
<1>7. QED
  BY <1>1, <1>3, <1>5, <1>6, OwnerPairsNext

(* The packet in hand back to the pool.                                    *)
LEMMA ReleaseOwners ==
  ASSUME LeTypeOK, Owners, main.pc \in {"blink", "cancel", "match"}, Release, More,
         UNCHANGED <<current_rxbuf, packet_queue>>
  PROVE  OneOwner' /\ NoneLost' /\ available' \subseteq Buf /\ content' \in [Buf -> Content]
<1>1. /\ main.buf \in Buf /\ InHand = {main.buf}
      /\ available' = available \cup {main.buf} /\ available \subseteq Buf
      /\ InHand' = {} /\ Current' = Current
  BY DEF LeTypeOK, Owners, Places, Release, InHand, Current
<1>2. Pairs(available', Current', packet_queue', InHand')
  BY <1>1, OwnerPairs DEF Pairs, Owners
<1>3. NoneLost'
  BY <1>1 DEF NoneLost, Owners, Queued, More
<1>4. content' \in [Buf -> Content]
  BY DEF Release, LeTypeOK, Content, Plain
<1>5. QED
  BY <1>1, <1>2, <1>3, <1>4, OwnerPairsNext

---------------------------------------------------------------------------
(* The types of the rest.                                                  *)
Connection == [following : BOOLEAN, counter : Counter, channel_idx : Counter,
               anchor_set : BOOLEAN, inTime : BOOLEAN, quiet : 0 .. MaxQuiet + 1,
               update : {NoUpdate} \cup Update]
Event == [num_packets : 0 .. 1, opened : BOOLEAN, tuned : BOOLEAN]
Timer == [Match -> {"off", "ahead", "behind"}]
Radio == {"off", "locking", "receiving", "packet"}
Loop == [pc : {"loop", "blink", "cancel", "match", "out"},
         buf : Buf \cup {NULL}, mcr : SUBSET Match]
Seen == [refired : BOOLEAN, raced : BOOLEAN, disturbed : BOOLEAN, events : Counter]

BufferTypes ==
  /\ available \subseteq Buf /\ current_rxbuf \in Buf \cup {NULL}
  /\ packet_queue \in Seq(Buf) /\ Len(packet_queue) < FIFOSIZE
  /\ content \in [Buf -> Content] /\ main \in Loop
LinkTypes ==
  /\ conn \in Connection /\ conn_event \in Event
  /\ rf_channel \in {"adv", "data"} /\ cancel_follow \in BOOLEAN /\ fault \in BOOLEAN
  /\ radio \in Radio /\ T1 \in Timer

(* The type invariant in three parts.                                      *)
LEMMA Types == LeTypeOK <=> BufferTypes /\ LinkTypes /\ seen \in Seen
  BY DEF LeTypeOK, BufferTypes, LinkTypes, Connection, Event, Timer, Radio, Loop, Seen

(* The same after a step.                                                  *)
LEMMA TypesNext == LeTypeOK' <=> (BufferTypes' /\ LinkTypes' /\ seen' \in Seen)
  BY DEF LeTypeOK, BufferTypes, LinkTypes, Connection, Event, Timer, Radio, Loop, Seen

(* Counting on stays in range.                                             *)
LEMMA Wraps ==
  ASSUME NEW n \in Counter PROVE (n + 1) % Wrap \in Counter
  BY FollowAssumption DEF Counter

(* Counters start in range.                                                *)
LEMMA Zero == 0 \in Counter
  BY FollowAssumption DEF Counter

(* A connection may be changed field by field.                             *)
LEMMA Fields ==
  ASSUME NEW c \in Connection
  PROVE  /\ c.following \in BOOLEAN /\ c.counter \in Counter /\ c.channel_idx \in Counter
         /\ c.anchor_set \in BOOLEAN /\ c.inTime \in BOOLEAN
         /\ c.quiet \in 0 .. MaxQuiet + 1 /\ c.update \in {NoUpdate} \cup Update
         /\ \A x \in BOOLEAN : /\ [c EXCEPT !.following = x] \in Connection
                               /\ [c EXCEPT !.anchor_set = x] \in Connection
                               /\ [c EXCEPT !.inTime = x] \in Connection
         /\ \A x \in Counter : /\ [c EXCEPT !.counter = x] \in Connection
                               /\ [c EXCEPT !.channel_idx = x] \in Connection
         /\ \A x \in 0 .. MaxQuiet + 1 : [c EXCEPT !.quiet = x] \in Connection
         /\ \A x \in {NoUpdate} \cup Update : [c EXCEPT !.update = x] \in Connection
  BY DEF Connection

(* The state without a connection.                                         *)
LEMMA NoConnType == NoConn \in Connection /\ NoEvent \in Event /\ ~NoConn.following
<1>1. 0 \in Counter /\ 0 \in 0 .. MaxQuiet + 1
  BY FollowAssumption DEF Counter
<1>2. QED
  BY <1>1 DEF NoConn, NoEvent, Connection, Event

(* change_channel keeps the types.                                         *)
LEMMA ChannelTypes ==
  ASSUME NEW c \in Connection, NEW t \in Timer, NEW b, change_channel(c, t, b)
  PROVE  /\ conn' \in Connection /\ T1' \in Timer /\ radio' = "locking"
         /\ rf_channel' \in {"adv", "data"} /\ fault' \in BOOLEAN
         /\ T1'["MR3"] = t["MR3"] /\ conn'.following = c.following
<1>1. (c.channel_idx + 1) % Wrap \in Counter
  BY Fields, Wraps
<1>2. /\ conn' = IF c.following THEN [c EXCEPT !.channel_idx = (@ + 1) % Wrap] ELSE c
      /\ T1' = [t EXCEPT !.MR2 = "ahead"]
  BY DEF change_channel, timer1_wait_fs_lock
<1>3. conn' \in Connection /\ conn'.following = c.following
  BY <1>1, <1>2 DEF Connection
<1>4. T1' \in Timer /\ T1'["MR3"] = t["MR3"]
  BY <1>2 DEF Timer, Match
<1>5. QED
  BY <1>3, <1>4 DEF change_channel

(* The connection after an event is one.                                   *)
LEMMA FinishedType ==
  ASSUME conn \in Connection, NEW n \in 0 .. 2, NEW observed \in BOOLEAN
  PROVE  Finished(n, observed) \in Connection
<1> DEFINE quiet == IF n > 0 \/ ~conn.anchor_set THEN 0
                    ELSE IF conn.quiet > MaxQuiet THEN conn.quiet ELSE conn.quiet + 1
           inTime == IF conn.anchor_set /\ ~observed THEN conn.inTime ELSE n > 0
           anchor == conn.anchor_set \/ observed
           counter == (conn.counter + 1) % Wrap
<1>1. counter \in Counter
  BY Fields, Wraps
<1>2. quiet \in 0 .. MaxQuiet + 1
  <2>1. conn.quiet \in 0 .. MaxQuiet + 1
    BY Fields
  <2>2. QED
    BY <2>1, FollowAssumption
<1>3. inTime \in BOOLEAN /\ anchor \in BOOLEAN
  <2>1. conn.inTime \in BOOLEAN
    BY Fields
  <2>2. (n > 0) \in BOOLEAN
    OBVIOUS
  <2>3. QED
    BY <2>1, <2>2, Zenon
<1>4. Finished(n, observed) = [conn EXCEPT !.anchor_set = anchor, !.inTime = inTime,
                                          !.quiet = quiet, !.counter = counter]
  BY DEF Finished
<1>5. QED
  <2> HIDE DEF quiet, inTime, anchor, counter
  <2>1. QED
    BY <1>1, <1>2, <1>3, <1>4 DEF Connection

(* finish_conn_event keeps the types.                                      *)
LEMMA FinishTypes ==
  ASSUME LinkTypes, NEW n \in 0 .. 2, NEW t \in Timer, NEW b, NEW r \in Radio,
         finish_conn_event(n, t, b, r)
  PROVE  /\ LinkTypes' /\ T1'["MR3"] = t["MR3"]
         /\ radio' = "locking" \/ radio' = r
<1>1. /\ conn \in Connection /\ rf_channel \in {"adv", "data"}
      /\ cancel_follow \in BOOLEAN /\ fault \in BOOLEAN
  BY DEF LinkTypes
<1>2. conn_event' \in Event
  BY NoConnType DEF finish_conn_event
<1>3. PICK observed \in BOOLEAN, when \in {"ahead", "behind"} :
        LET c == Finished(n, observed)
        IN  \E expired \in Expired(c) :
              IF expired \/ cancel_follow
              THEN /\ cancel_follow' = (cancel_follow /\ expired)
                   /\ change_channel(NoConn, t, b)
              ELSE /\ conn' = c
                   /\ T1' = timer1_set_match(t, when)
                   /\ radio' = r
                   /\ UNCHANGED <<cancel_follow, fault, rf_channel>>
  BY DEF finish_conn_event
<1> DEFINE c == Finished(n, observed)
<1>4. PICK expired \in Expired(c) :
              IF expired \/ cancel_follow
              THEN /\ cancel_follow' = (cancel_follow /\ expired)
                   /\ change_channel(NoConn, t, b)
              ELSE /\ conn' = c
                   /\ T1' = timer1_set_match(t, when)
                   /\ radio' = r
                   /\ UNCHANGED <<cancel_follow, fault, rf_channel>>
  BY <1>3
<1>5. CASE expired \/ cancel_follow
  <2>1. cancel_follow' = (cancel_follow /\ expired) /\ change_channel(NoConn, t, b)
    BY <1>4, <1>5
  <2>2. /\ conn' \in Connection /\ T1' \in Timer /\ radio' = "locking"
        /\ rf_channel' \in {"adv", "data"} /\ fault' \in BOOLEAN
        /\ T1'["MR3"] = t["MR3"]
    BY <2>1, NoConnType, ChannelTypes
  <2>3. cancel_follow' \in BOOLEAN
    BY <2>1, Zenon
  <2>4. QED
    BY <1>2, <2>2, <2>3 DEF LinkTypes, Radio
<1>6. CASE ~(expired \/ cancel_follow)
  <2>1. /\ conn' = c /\ T1' = timer1_set_match(t, when) /\ radio' = r
        /\ UNCHANGED <<cancel_follow, fault, rf_channel>>
    BY <1>4, <1>6
  <2>2. conn' \in Connection
    BY <1>1, <2>1, FinishedType
  <2>3. T1' \in Timer /\ T1'["MR3"] = t["MR3"]
    BY <2>1 DEF timer1_set_match, Timer, Match
  <2>4. QED
    BY <1>1, <1>2, <2>1, <2>2, <2>3 DEF LinkTypes
<1>7. QED
  BY <1>5, <1>6

(* The history of an event keeps its type.                                 *)
LEMMA HistoryTypes ==
  ASSUME seen \in Seen, conn'.following \in BOOLEAN, NEW d \in BOOLEAN
  PROVE  /\ Disturbed(d) \in Seen /\ NextEvent(d) \in Seen
         /\ Disturbed(d).refired = seen.refired /\ Disturbed(d).raced = seen.raced
         /\ NextEvent(d).refired = seen.refired /\ NextEvent(d).raced = seen.raced
<1> DEFINE off == conn'.following /\ (seen.disturbed \/ d)
           events == IF off \/ ~conn'.following THEN 0 ELSE seen.events
<1>1. off \in BOOLEAN /\ events \in Counter
  BY Zero DEF Seen
<1>2. Disturbed(d) = [seen EXCEPT !.disturbed = off, !.events = events]
  BY DEF Disturbed
<1>3. /\ Disturbed(d) \in Seen
      /\ Disturbed(d).refired = seen.refired /\ Disturbed(d).raced = seen.raced
  <2> HIDE DEF off, events
  <2>1. QED
    BY <1>1, <1>2 DEF Seen
<1>4. \/ NextEvent(d) = Disturbed(d)
      \/ NextEvent(d) = [Disturbed(d) EXCEPT !.events = (@ + 1) % Wrap]
  BY DEF NextEvent
<1>5. (Disturbed(d).events + 1) % Wrap \in Counter
  BY <1>3, Wraps DEF Seen
<1>6. QED
  BY <1>3, <1>4, <1>5 DEF Seen

---------------------------------------------------------------------------
(* The invariant, context by context.                                      *)

(* The mode starts in the invariant.                                       *)
LEMMA InitInv == Init => Inv
<1> SUFFICES ASSUME Init PROVE Inv
  OBVIOUS
<1>1. 1 \in Buf /\ FIFOSIZE > 0 /\ Plain \in Content
  BY FollowAssumption DEF Buf, Plain, Content
<1>2. BufferTypes
  BY <1>1 DEF Init, BufferTypes, Loop
<1>3. LinkTypes
  BY NoConnType DEF Init, LinkTypes, Timer, Radio, Match
<1>4. seen \in Seen
  BY Zero DEF Init, Seen
<1>5. Current = {1} /\ InHand = {} /\ Elems(packet_queue) = {} /\ Distinct(packet_queue)
  BY DEF Init, Current, InHand, NULL, Elems, Distinct
<1>6. OneOwner
  BY <1>5, OwnerPairs DEF Pairs, Init
<1>7. NoneLost
  <2>1. available \cup Current = Buf
    BY <1>1, <1>5 DEF Init
  <2>2. QED
    BY <1>5, <2>1 DEF NoneLost, Queued, Elems
<1>8. Places /\ Held /\ Waiting
  BY DEF Init, Places, Held, Waiting, Match
<1>9. QED
  BY <1>2, <1>3, <1>4, <1>6, <1>7, <1>8, Types DEF Inv, Owners

(* A step by which no buffer changes hands.                                *)
LEMMA SameInv ==
  ASSUME Inv, UNCHANGED <<available, current_rxbuf, packet_queue, content>>,
         main' \in Loop, main'.buf = main.buf,
         LinkTypes', seen' \in Seen, More, Places', Held', Waiting'
  PROVE  Inv'
<1>1. BufferTypes'
  BY Types DEF Inv, BufferTypes
<1>2. OneOwner' /\ NoneLost'
  BY SameOwners DEF Inv, Owners
<1>3. QED
  BY <1>1, <1>2, TypesNext DEF Inv, Owners

(* The end of a packet.                                                    *)
LEMMA ReceivedType ==
  ASSUME LinkTypes, NEW p \in Received PROVE p \in Content
<1>1. (conn.counter + 1) % Wrap \in Counter
  BY Wraps, Fields DEF LinkTypes
<1>2. QED
  BY <1>1 DEF Received, Content, Plain

(* The end of a packet keeps the invariant.                                *)
LEMMA PacketEndInv ==
  ASSUME Inv, EndOfPacket, LinkTypes', seen' \in Seen,
         seen'.refired = seen.refired, seen'.raced = seen.raced, radio' # "packet",
         T1'["MR3"] = "ahead" => current_rxbuf' = NULL \/ T1["MR3"] = "ahead"
  PROVE  Inv'
<1>1. BufferTypes /\ LinkTypes /\ More /\ main' = main
  BY Types DEF Inv, More, EndOfPacket
<1>2. content' \in [Buf -> Content]
  BY <1>1, ReceivedType DEF EndOfPacket, BufferTypes
<1>3. BufferTypes' /\ OneOwner' /\ NoneLost'
  BY <1>1, <1>2, PacketOwners DEF Inv, BufferTypes
<1>4. Places' /\ Held'
  BY <1>1 DEF Inv, Owners, Places, Held
<1>5. Waiting'
  <2>1. current_rxbuf # NULL /\ main.pc # "out"
    BY DEF EndOfPacket, Running, Inv, Owners, Held
  <2>2. QED
    BY <2>1 DEF Inv, Owners, Waiting
<1>6. QED
  BY <1>3, <1>4, <1>5, TypesNext DEF Inv, Owners

(* Rearming the matches keeps the timer's type.                            *)
LEMMA RearmType ==
  ASSUME NEW t \in Timer
  PROVE  /\ Rearm(t) \in Timer
         /\ Rearm(t)["MR3"] = "ahead" => current_rxbuf' = NULL \/ t["MR3"] = "ahead"
  BY DEF Rearm, timer1_wait_buffer, timer1_wait_fs_lock, Timer, Match

(* The DMA interrupt keeps the invariant.                                  *)
LEMMA DMAInv == Inv /\ DMA => Inv'
<1> SUFFICES ASSUME Inv, DMA PROVE Inv'
  OBVIOUS
<1>0. BufferTypes /\ LinkTypes /\ seen \in Seen
  BY Types DEF Inv
<1>1. CASE PacketStart
  <2>1. LinkTypes'
    BY <1>0, <1>1 DEF PacketStart, LinkTypes, Radio, Timer, Match, timer1_clear_match
  <2>2. Places' /\ Held' /\ More
    BY <1>1 DEF PacketStart, Inv, Owners, Places, Held, More
  <2>3. Waiting'
    BY <1>0, <1>1 DEF PacketStart, Inv, Owners, Waiting, timer1_clear_match, LinkTypes, Timer, Match
  <2>4. QED
    BY <1>0, <1>1, <2>1, <2>2, <2>3, SameInv DEF PacketStart, BufferTypes
<1>2. CASE AdvPacketEnd
  <2>1. LinkTypes'
    BY <1>0, <1>2, RearmType DEF AdvPacketEnd, LinkTypes, Radio
  <2>2. T1'["MR3"] = "ahead" => current_rxbuf' = NULL \/ T1["MR3"] = "ahead"
    BY <1>0, <1>2, RearmType DEF AdvPacketEnd, LinkTypes
  <2>3. QED
    BY <1>0, <1>2, <2>1, <2>2, PacketEndInv DEF AdvPacketEnd
<1>3. CASE FirstPacketEnd
  <2>1. timer1_set_match(T1, "ahead") \in Timer /\ timer1_set_match(T1, "ahead")["MR3"] = T1["MR3"]
    BY <1>0 DEF LinkTypes, Timer, Match, timer1_set_match
  <2>2. LinkTypes'
    BY <1>0, <1>3, <2>1, RearmType DEF FirstPacketEnd, LinkTypes, Radio, Event
  <2>3. T1'["MR3"] = "ahead" => current_rxbuf' = NULL \/ T1["MR3"] = "ahead"
    BY <1>3, <2>1, RearmType DEF FirstPacketEnd
  <2>4. Stray \in BOOLEAN /\ conn'.following \in BOOLEAN
    BY <2>2, Fields DEF Stray, LinkTypes
  <2>5. seen' \in Seen /\ seen'.refired = seen.refired /\ seen'.raced = seen.raced
    BY <1>0, <1>3, <2>4, HistoryTypes DEF FirstPacketEnd
  <2>6. radio' # "packet" /\ EndOfPacket
    BY <1>3 DEF FirstPacketEnd
  <2>7. QED
    BY <2>2, <2>3, <2>5, <2>6, PacketEndInv
<1>4. CASE SecondPacketEnd
  <2>1. finish_conn_event(2, T1, current_rxbuf', "off") /\ 2 \in 0 .. 2
        /\ T1 \in Timer /\ "off" \in Radio
    BY <1>0, <1>4 DEF SecondPacketEnd, LinkTypes, Radio
  <2>2. LinkTypes' /\ T1'["MR3"] = T1["MR3"] /\ radio' # "packet"
    BY <1>0, <2>1, FinishTypes
  <2>3. Stray \in BOOLEAN /\ conn'.following \in BOOLEAN
    BY <2>2, Fields DEF Stray, LinkTypes
  <2>4. seen' \in Seen /\ seen'.refired = seen.refired /\ seen'.raced = seen.raced
    BY <1>0, <1>4, <2>3, HistoryTypes DEF SecondPacketEnd
  <2>5. QED
    BY <1>4, <2>2, <2>4, PacketEndInv DEF SecondPacketEnd
<1>5. QED
  BY <1>1, <1>2, <1>3, <1>4 DEF DMA

(* Setting the event's match leaves the wait for a buffer alone.           *)
LEMMA SetMatchType ==
  ASSUME NEW t \in Timer, NEW when \in {"ahead", "behind"}
  PROVE  timer1_set_match(t, when) \in Timer /\ timer1_set_match(t, when)["MR3"] = t["MR3"]
  BY DEF Timer, Match, timer1_set_match

(* The timer interrupt keeps the invariant.                                *)
LEMMA TIMER1Inv == Inv /\ TIMER1 => Inv'
<1> SUFFICES ASSUME Inv, TIMER1 PROVE Inv'
  OBVIOUS
<1>0. BufferTypes /\ LinkTypes /\ seen \in Seen /\ T1 \in Timer /\ conn \in Connection
  BY Types DEF Inv, LinkTypes
<1>1. CASE UpdateWindow
  <2>1. PICK when \in {"ahead", "behind"} : T1' = timer1_set_match(T1, when)
    BY <1>1 DEF UpdateWindow
  <2>2. LinkTypes' /\ T1'["MR3"] = T1["MR3"]
    BY <1>0, <1>1, <2>1, SetMatchType DEF UpdateWindow, LinkTypes, Event
  <2>3. Places' /\ Held' /\ Waiting' /\ More
    BY <1>1, <2>2 DEF UpdateWindow, Inv, Owners, Places, Held, Waiting, More
  <2>4. QED
    BY <1>0, <1>1, <2>2, <2>3, SameInv DEF UpdateWindow, BufferTypes
<1>2. CASE UpdateApplied
  <2> DEFINE c == [conn EXCEPT !.anchor_set = FALSE, !.update = NoUpdate]
  <2>1. PICK when \in {"ahead", "behind"} :
          change_channel(c, timer1_set_match(T1, when), current_rxbuf)
    BY <1>2 DEF UpdateApplied
  <2>2. c \in Connection
    BY <1>0 DEF Connection
  <2> HIDE DEF c
  <2>3. /\ conn' \in Connection /\ T1' \in Timer /\ radio' = "locking"
        /\ rf_channel' \in {"adv", "data"} /\ fault' \in BOOLEAN /\ T1'["MR3"] = T1["MR3"]
    BY <1>0, <2>1, <2>2, SetMatchType, ChannelTypes
  <2>4. LinkTypes'
    BY <1>0, <1>2, <2>3 DEF UpdateApplied, LinkTypes, Event, Radio
  <2>5. conn_event.tuned \in BOOLEAN /\ conn'.following \in BOOLEAN
    BY <1>0, <2>3 DEF LinkTypes, Event, Connection
  <2>6. seen' \in Seen /\ seen'.refired = seen.refired /\ seen'.raced = seen.raced
    BY <1>0, <1>2, <2>5, HistoryTypes DEF UpdateApplied
  <2>7. Places' /\ Held' /\ Waiting' /\ More
    BY <1>2, <2>3, <2>6 DEF UpdateApplied, Inv, Owners, Places, Held, Waiting, More
  <2>8. QED
    BY <1>0, <1>2, <2>4, <2>6, <2>7, SameInv DEF UpdateApplied, BufferTypes
<1>3. CASE OpenEvent
  <2>1. change_channel(conn, timer1_set_match(T1, "ahead"), current_rxbuf)
    BY <1>3 DEF OpenEvent
  <2>2. /\ conn' \in Connection /\ T1' \in Timer /\ radio' = "locking"
        /\ rf_channel' \in {"adv", "data"} /\ fault' \in BOOLEAN /\ T1'["MR3"] = T1["MR3"]
    BY <1>0, <2>1, SetMatchType, ChannelTypes
  <2>3. LinkTypes'
    BY <1>0, <1>3, <2>2 DEF OpenEvent, LinkTypes, Event, Radio
  <2>4. Places' /\ Held' /\ Waiting' /\ More
    BY <1>3, <2>2 DEF OpenEvent, Inv, Owners, Places, Held, Waiting, More
  <2>5. QED
    BY <1>0, <1>3, <2>3, <2>4, SameInv DEF OpenEvent, BufferTypes
<1>4. CASE EventTimeout
  <2> DEFINE t == timer1_set_match(T1, "behind")
  <2>1. t \in Timer /\ t["MR3"] = T1["MR3"]
    BY <1>0, SetMatchType
  <2>2. conn_event.num_packets \in 0 .. 2 /\ radio \in Radio
    BY <1>0 DEF LinkTypes, Event
  <2>3. LinkTypes' /\ T1'["MR3"] = t["MR3"] /\ (radio' = "locking" \/ radio' = radio)
    <3> HIDE DEF t
    <3>1. finish_conn_event(conn_event.num_packets, t, current_rxbuf, radio)
      BY <1>4 DEF EventTimeout, t
    <3>2. QED
      BY <1>0, <2>1, <2>2, <3>1, FinishTypes
  <2>4. seen' \in Seen /\ seen'.refired = seen.refired /\ seen'.raced = seen.raced
    BY <1>0, <1>4, <2>3, HistoryTypes, Fields DEF EventTimeout, LinkTypes
  <2>5. Places' /\ Held' /\ Waiting' /\ More
    BY <1>4, <2>1, <2>3, <2>4
       DEF EventTimeout, Fires, Running, Inv, Owners, Places, Held, Waiting, More
  <2>6. QED
    BY <1>0, <1>4, <2>3, <2>4, <2>5, SameInv DEF EventTimeout, BufferTypes
<1>5. CASE StrobeRx
  <2>1. LinkTypes' /\ T1'["MR3"] = T1["MR3"]
    BY <1>0, <1>5 DEF StrobeRx, LinkTypes, Radio, Timer, Match
  <2>2. Places' /\ Held' /\ Waiting' /\ More
    BY <1>5, <2>1 DEF StrobeRx, Inv, Owners, Places, Held, Waiting, More
  <2>3. QED
    BY <1>0, <1>5, <2>1, <2>2, SameInv DEF StrobeRx, BufferTypes
<1>6. CASE BufferFound
  <2>1. LinkTypes' /\ T1'["MR3"] = "behind"
    BY <1>0, <1>6 DEF BufferFound, LinkTypes, Radio, Timer, Match, timer1_wait_fs_lock
  <2>2. BufferTypes' /\ OneOwner' /\ NoneLost'
    BY <1>0, <1>6, FoundOwners DEF BufferFound, BufferTypes, Inv
  <2>3. Places' /\ Held' /\ Waiting'
    BY <1>6, <2>1 DEF BufferFound, Inv, Owners, Places, Held, Waiting
  <2>4. seen' \in Seen
    BY <1>0, <1>6 DEF BufferFound
  <2>5. QED
    BY <2>1, <2>2, <2>3, <2>4, TypesNext DEF Inv, Owners
<1>7. CASE BufferLost
  <2>1. LinkTypes' /\ T1' = T1
    BY <1>0, <1>7 DEF BufferLost, LinkTypes, Radio
  <2>2. BufferTypes' /\ OneOwner' /\ NoneLost'
    BY <1>0, <1>7, FoundOwners DEF BufferLost, BufferTypes, Inv
  <2>3. Places' /\ Held' /\ Waiting'
    BY <1>7, <2>1 DEF BufferLost, Fires, Running, Inv, Owners, Places, Held, Waiting
  <2>4. seen' \in Seen
    BY <1>0, <1>7 DEF BufferLost
  <2>5. QED
    BY <2>1, <2>2, <2>3, <2>4, TypesNext DEF Inv, Owners
<1>8. QED
  BY <1>1, <1>2, <1>3, <1>4, <1>5, <1>6, <1>7 DEF TIMER1

(* The value written back to T1MCR is the timer's, or a write was lost.    *)
LEMMA WriteBack ==
  ASSUME T1 \in Timer, NEW t \in WrittenBack, NEW s \in Seen
  PROVE  /\ t \in Timer /\ Raced(s) \in Seen
         /\ Raced(s).refired = s.refired /\ (s.raced => Raced(s).raced)
         /\ t = T1 \/ Raced(s).raced
<1> DEFINE lost == ~Atomic /\ Enabled(T1) # main.mcr
<1>1. lost \in BOOLEAN /\ (s.raced \/ lost) \in BOOLEAN
  BY DEF Seen
<1>2. Raced(s) = [s EXCEPT !.raced = s.raced \/ lost]
  BY DEF Raced
<1>3. /\ Raced(s) \in Seen /\ Raced(s).refired = s.refired
      /\ Raced(s).raced = (s.raced \/ lost)
  <2> HIDE DEF lost
  <2>1. QED
    BY <1>1, <1>2 DEF Seen
<1>4. t \in Timer
  BY DEF WrittenBack, Timer
<1>5. ASSUME ~lost PROVE t = T1
  <2>1. CASE Atomic
    BY <2>1 DEF WrittenBack
  <2>2. CASE ~Atomic
    <3>1. /\ Enabled(t) = Enabled(T1)
          /\ \A r \in Enabled(t) \cap Enabled(T1) : t[r] = T1[r]
      BY <1>5, <2>2 DEF WrittenBack
    <3>2. \A r \in Match : t[r] = T1[r]
      BY <1>4, <3>1 DEF Enabled, Timer
    <3>3. QED
      BY <1>4, <3>2 DEF Timer
  <2>3. QED
    BY <2>1, <2>2
<1>6. QED
  BY <1>3, <1>4, <1>5

(* The end of a handler: the packet in hand is released.                   *)
LEMMA ReleaseInv ==
  ASSUME Inv, main.pc \in {"blink", "cancel", "match"}, Release,
         UNCHANGED <<current_rxbuf, packet_queue, radio, fault>>,
         LinkTypes', seen' \in Seen, More,
         T1'["MR3"] = T1["MR3"] \/ seen'.raced
  PROVE  Inv'
<1>1. BufferTypes
  BY Types DEF Inv
<1>2. /\ OneOwner' /\ NoneLost'
      /\ available' \subseteq Buf /\ content' \in [Buf -> Content]
  BY ReleaseOwners DEF Inv
<1>3. main' = [pc |-> "loop", buf |-> NULL, mcr |-> {}]
  BY DEF Release
<1>4. BufferTypes'
  BY <1>1, <1>2, <1>3 DEF BufferTypes, Loop
<1>5. Places' /\ Held'
  BY <1>3 DEF Places, Held, Inv, Owners
<1>6. Waiting'
  BY DEF Waiting, Inv, Owners, More
<1>7. QED
  BY <1>2, <1>4, <1>5, <1>6, TypesNext DEF Inv, Owners

(* Handling a packet keeps the invariant.                                  *)
LEMMA HandlerInv ==
  ASSUME Inv, HandlePlain \/ connection_update_handler \/ RefuseConnect \/ SetMatch
  PROVE  Inv'
<1>0. BufferTypes /\ LinkTypes /\ seen \in Seen /\ T1 \in Timer /\ conn \in Connection
  BY Types DEF Inv, LinkTypes
<1>1. CASE HandlePlain
  <2>1. T1' \in WrittenBack /\ seen' = Raced(seen) /\ Release /\ main.pc = "blink"
    BY <1>1 DEF HandlePlain, Handle
  <2>2. /\ T1' \in Timer /\ seen' \in Seen /\ More
        /\ T1' = T1 \/ seen'.raced
    BY <1>0, <2>1, WriteBack DEF More
  <2>3. LinkTypes'
    BY <1>0, <1>1, <2>2 DEF HandlePlain, LinkTypes
  <2>4. QED
    BY <1>1, <2>1, <2>2, <2>3, ReleaseInv DEF HandlePlain
<1>2. CASE connection_update_handler
  <2> DEFINE s == Disturbed(rf_channel = "adv" \/ conn.update.pending)
  <2>1. T1' \in WrittenBack /\ seen' = Raced(s) /\ Release /\ main.pc = "blink"
    BY <1>2 DEF connection_update_handler, Handle
  <2>2. PICK u \in Update : conn' = [conn EXCEPT !.update = u]
    BY <1>2 DEF connection_update_handler
  <2>3. conn' \in Connection
    BY <1>0, <2>2, Fields
  <2>4. s \in Seen /\ s.refired = seen.refired /\ s.raced = seen.raced
    <3>1. (rf_channel = "adv" \/ conn.update.pending) \in BOOLEAN /\ conn'.following \in BOOLEAN
      <4>1. conn.update \in {NoUpdate} \cup Update
        BY <1>0, Fields
      <4>2. conn.update.pending \in BOOLEAN
        <5>1. CASE conn.update = NoUpdate
          <6>1. conn.update.pending = FALSE
            BY <5>1 DEF NoUpdate
          <6>2. QED
            BY <6>1, Zenon
        <5>2. CASE conn.update \in Update
          <6>1. conn.update.pending \in {TRUE}
            BY <5>2 DEF Update
          <6>2. QED
            BY <6>1, Zenon
        <5>3. QED
          BY <4>1, <5>1, <5>2
      <4>3. (rf_channel = "adv" \/ conn.update.pending) \in BOOLEAN
        BY <4>2, Zenon
      <4>4. QED
        BY <2>3, <4>3, Fields
    <3>2. QED
      BY <1>0, <3>1, HistoryTypes
  <2> HIDE DEF s
  <2>5. /\ T1' \in Timer /\ seen' \in Seen /\ More
        /\ T1' = T1 \/ seen'.raced
    BY <1>0, <2>1, <2>4, WriteBack DEF More
  <2>6. LinkTypes'
    BY <1>0, <1>2, <2>3, <2>5 DEF connection_update_handler, LinkTypes
  <2>7. QED
    BY <1>2, <2>1, <2>5, <2>6, ReleaseInv DEF connection_update_handler
<1>3. CASE RefuseConnect
  <2>1. /\ T1' \in WrittenBack /\ seen' = Raced(Disturbed(TRUE)) /\ Release
        /\ main.pc = "blink" /\ conn' = NoConn /\ cancel_follow' = FALSE
    BY <1>3 DEF RefuseConnect, Handle
  <2>2. /\ Disturbed(TRUE) \in Seen /\ Disturbed(TRUE).refired = seen.refired
        /\ Disturbed(TRUE).raced = seen.raced
    <3>1. conn'.following \in BOOLEAN /\ TRUE \in BOOLEAN
      BY <2>1, NoConnType, Fields
    <3>2. QED
      BY <1>0, <3>1, HistoryTypes
  <2>3. /\ T1' \in Timer /\ seen' \in Seen /\ More
        /\ T1' = T1 \/ seen'.raced
    BY <1>0, <2>1, <2>2, WriteBack DEF More
  <2>4. LinkTypes'
    <3>1. conn' \in Connection /\ cancel_follow' \in BOOLEAN
      BY <2>1, NoConnType
    <3>2. QED
      BY <1>0, <1>3, <2>3, <3>1 DEF RefuseConnect, LinkTypes
  <2>5. QED
    BY <1>3, <2>1, <2>3, <2>4, ReleaseInv DEF RefuseConnect
<1>4. CASE SetMatch
  <2>1. PICK t \in WrittenBack, when \in {"ahead", "behind"} : T1' = timer1_set_match(t, when)
    BY <1>4 DEF SetMatch
  <2>2. /\ t \in Timer /\ seen' \in Seen /\ More
        /\ t = T1 \/ seen'.raced
    BY <1>0, <1>4, WriteBack DEF More, SetMatch
  <2>3. T1' \in Timer /\ T1'["MR3"] = t["MR3"]
    BY <2>1, <2>2, SetMatchType
  <2>4. LinkTypes'
    BY <1>0, <1>4, <2>3 DEF SetMatch, LinkTypes
  <2>5. QED
    BY <1>4, <2>2, <2>3, <2>4, ReleaseInv DEF SetMatch
<1>5. QED
  BY <1>1, <1>2, <1>3, <1>4

(* What the main loop reads of T1MCR.                                      *)
LEMMA ReadType == ASSUME NEW t PROVE Read(t) \in SUBSET Match
  BY DEF Read, Enabled

(* The main loop keeps the invariant.                                      *)
LEMMA MainLoopInv == Inv /\ MainLoop => Inv'
<1> SUFFICES ASSUME Inv, MainLoop PROVE Inv'
  OBVIOUS
<1>0. BufferTypes /\ LinkTypes /\ seen \in Seen /\ T1 \in Timer /\ conn \in Connection
  BY Types DEF Inv, LinkTypes
<1>1. CASE TakePacket
  <2>1. /\ OneOwner' /\ NoneLost' /\ packet_queue' \in Seq(Buf)
        /\ Len(packet_queue') < FIFOSIZE /\ main'.buf \in Buf
    BY <1>1, TakeOwners DEF Inv
  <2>2. main' = [pc |-> "blink", buf |-> Head(packet_queue), mcr |-> Read(T1)]
    BY <1>1 DEF TakePacket
  <2>3. main' \in Loop /\ Places'
    BY <2>1, <2>2, ReadType DEF Loop, Places, Buf, NULL
  <2>4. BufferTypes' /\ LinkTypes' /\ seen' \in Seen
    BY <1>0, <1>1, <2>1, <2>3 DEF TakePacket, BufferTypes, LinkTypes
  <2>5. Held' /\ Waiting'
    BY <1>1, <2>2 DEF TakePacket, Running, Inv, Owners, Held, Waiting
  <2>6. QED
    BY <2>1, <2>3, <2>4, <2>5, TypesNext DEF Inv, Owners
<1>2. CASE SkipPacket
  <2>1. /\ OneOwner' /\ NoneLost' /\ packet_queue' \in Seq(Buf)
        /\ Len(packet_queue') < FIFOSIZE /\ available' \subseteq Buf
    BY <1>2, SkipOwners DEF Inv
  <2>2. content' \in [Buf -> Content]
    BY <1>0, <1>2 DEF SkipPacket, BufferTypes, Content, Plain
  <2>3. BufferTypes' /\ LinkTypes' /\ seen' \in Seen
    BY <1>0, <1>2, <2>1, <2>2 DEF SkipPacket, BufferTypes, LinkTypes
  <2>4. Held' /\ Waiting' /\ Places'
    BY <1>2 DEF SkipPacket, Inv, Owners, Held, Waiting, Places
  <2>5. QED
    BY <2>1, <2>3, <2>4, TypesNext DEF Inv, Owners
<1>3. CASE HandlePlain \/ connection_update_handler \/ RefuseConnect \/ SetMatch
  BY <1>3, HandlerInv
<1>4. CASE Connect
  <2>1. /\ T1' \in WrittenBack /\ cancel_follow' = FALSE /\ main.pc = "blink"
        /\ main' = [main EXCEPT !.pc = "cancel", !.mcr = Read(T1')]
    BY <1>4 DEF Connect, Handle
  <2>2. PICK u \in {NoUpdate} \cup Update : conn' = [conn EXCEPT !.following = TRUE, !.update = u]
    BY <1>4 DEF Connect
  <2>3. conn' \in Connection
    BY <1>0, <2>2 DEF Connection
  <2> DEFINE d == rf_channel = "data" \/ conn # NoConn \/ Fires("MR0")
             s == [seen EXCEPT !.events = 0, !.disturbed = d]
  <2>4. d \in BOOLEAN
    BY Zenon
  <2>5. seen' = Raced(s)
    BY <1>4 DEF Connect
  <2>6. s \in Seen /\ s.refired = seen.refired /\ s.raced = seen.raced
    <3> HIDE DEF d
    <3>1. QED
      BY <1>0, <2>4, Zero DEF Seen
  <2> HIDE DEF s
  <2>7. /\ T1' \in Timer /\ seen' \in Seen /\ More
        /\ T1' = T1 \/ seen'.raced
    BY <1>0, <2>1, <2>5, <2>6, WriteBack DEF More
  <2>8. LinkTypes'
    BY <1>0, <1>4, <2>1, <2>3, <2>7 DEF Connect, LinkTypes
  <2>9. main' \in Loop /\ main'.buf = main.buf /\ main'.pc = "cancel"
    BY <1>0, <2>1, ReadType DEF BufferTypes, Loop
  <2>10. Places' /\ Held' /\ Waiting'
    BY <1>4, <2>1, <2>7, <2>9 DEF Connect, Inv, Owners, Places, Held, Waiting, More
  <2>11. QED
    BY <1>4, <2>7, <2>8, <2>9, <2>10, SameInv DEF Connect
<1>5. CASE CancelFsLock
  <2>1. PICK t \in WrittenBack : T1' = [t EXCEPT !.MR2 = "off"]
    BY <1>5 DEF CancelFsLock
  <2>2. /\ t \in Timer /\ seen' \in Seen /\ More
        /\ t = T1 \/ seen'.raced
    BY <1>0, <1>5, WriteBack DEF More, CancelFsLock
  <2>3. T1' \in Timer /\ T1'["MR3"] = t["MR3"]
    BY <2>1, <2>2 DEF Timer, Match
  <2>4. LinkTypes'
    BY <1>0, <1>5, <2>3, NoConnType DEF CancelFsLock, LinkTypes, Radio
  <2>5. main' \in Loop /\ main'.buf = main.buf /\ main'.pc = "match" /\ main.pc = "cancel"
    BY <1>0, <1>5, ReadType DEF CancelFsLock, BufferTypes, Loop
  <2>6. Places' /\ Held' /\ Waiting'
    BY <1>5, <2>2, <2>3, <2>5 DEF CancelFsLock, Inv, Owners, Places, Held, Waiting, More
  <2>7. QED
    BY <1>5, <2>2, <2>4, <2>5, <2>6, SameInv DEF CancelFsLock
<1>6. QED
  BY <1>1, <1>2, <1>3, <1>4, <1>5 DEF MainLoop

(* The counter, the cancel and the mode change keep the invariant.         *)
LEMMA OtherInv ==
  ASSUME Inv, (\E r \in Match : CounterWraps(r)) \/ CancelFollow \/ Leave \/ Enter
  PROVE  Inv'
<1>0. /\ BufferTypes /\ LinkTypes /\ seen \in Seen /\ T1 \in Timer /\ conn \in Connection
      /\ MaxQuiet + 1 \in 0 .. MaxQuiet + 1 /\ 0 \in 0 .. MaxQuiet + 1
  BY Types, FollowAssumption DEF Inv, LinkTypes
<1>1. ASSUME NEW r \in Match, CounterWraps(r) PROVE Inv'
  <2>1. T1' = [T1 EXCEPT ![r] = "ahead"] /\ T1' \in Timer
    BY <1>0, <1>1 DEF CounterWraps, Timer
  <2>2. conn' \in Connection
    BY <1>0, <1>1 DEF CounterWraps, Connection
  <2>3. LinkTypes'
    BY <1>0, <1>1, <2>1, <2>2 DEF CounterWraps, LinkTypes
  <2>4. seen' \in Seen /\ More /\ (r = "MR3" => seen'.refired)
    <3> DEFINE again == seen.refired \/ r = "MR3"
    <3>1. again \in BOOLEAN
      BY Zenon
    <3>2. seen' = [seen EXCEPT !.refired = again]
      BY <1>1 DEF CounterWraps
    <3>3. seen' \in Seen /\ seen'.refired = again /\ seen'.raced = seen.raced
      <4> HIDE DEF again
      <4>1. QED
        BY <1>0, <3>1, <3>2 DEF Seen
    <3>4. QED
      BY <3>3 DEF More
  <2>5. Places' /\ Held'
    BY <1>1 DEF CounterWraps, Inv, Owners, Places, Held
  <2>6. Waiting'
    BY <1>0, <1>1, <2>1, <2>4 DEF CounterWraps, Inv, Owners, Waiting, More, Timer, Match
  <2>7. QED
    BY <1>0, <1>1, <2>3, <2>4, <2>5, <2>6, SameInv DEF CounterWraps, BufferTypes
<1>2. CASE CancelFollow
  <2>1. LinkTypes' /\ More
    BY <1>0, <1>2 DEF CancelFollow, LinkTypes, More
  <2>2. Places' /\ Held' /\ Waiting'
    BY <1>2 DEF CancelFollow, Inv, Owners, Places, Held, Waiting
  <2>3. QED
    BY <1>0, <1>2, <2>1, <2>2, SameInv DEF CancelFollow, BufferTypes
<1>3. CASE Leave
  <2>1. 1 \in Buf /\ FIFOSIZE > 0 /\ Plain \in Content
    BY FollowAssumption DEF Buf, Plain, Content
  <2>2. /\ main' = [main EXCEPT !.pc = "out"] /\ main'.buf = NULL /\ main' \in Loop
        /\ main'.pc = "out"
    BY <1>0, <1>3 DEF Leave, Inv, Owners, Places, BufferTypes, Loop
  <2>3. BufferTypes'
    BY <1>3, <2>1, <2>2 DEF Leave, BufferTypes
  <2>4. conn' \in Connection /\ cancel_follow' \in BOOLEAN /\ FALSE \in BOOLEAN
    BY <1>0, <1>3, Fields DEF Leave
  <2>5. LinkTypes'
    BY <1>0, <1>3, <2>4 DEF Leave, LinkTypes, Radio
  <2>6. seen' \in Seen /\ seen'.refired = seen.refired /\ seen'.raced = seen.raced
    BY <1>0, <1>3, <2>4, Fields, HistoryTypes DEF Leave
  <2>7. /\ Current' = {1} /\ InHand' = {} /\ Elems(packet_queue') = {}
        /\ Distinct(packet_queue') /\ available' = Buf \ {1}
    BY <1>3, <2>2 DEF Leave, Current, InHand, NULL, Elems, Distinct
  <2>8. OneOwner'
    BY <2>7, OwnerPairsNext DEF Pairs
  <2>9. NoneLost'
    <3>1. available' \cup Current' = Buf
      BY <2>1, <2>7
    <3>2. QED
      BY <2>7, <3>1 DEF NoneLost, Queued, Elems
  <2>10. Places' /\ Held' /\ Waiting'
    BY <1>3, <2>2 DEF Leave, Places, Held, Waiting
  <2>11. QED
    BY <2>3, <2>5, <2>6, <2>8, <2>9, <2>10, TypesNext DEF Inv, Owners
<1>4. CASE Enter
  <2>1. PICK quiet \in {0, MaxQuiet + 1} : conn' = [conn EXCEPT !.inTime = FALSE, !.quiet = quiet]
    BY <1>4 DEF Enter
  <2>2. conn' \in Connection
    BY <1>0, <2>1 DEF Connection
  <2> DEFINE t == [r \in Match |-> IF T1[r] = "off" THEN "off" ELSE "ahead"]
  <2>3. T1' \in Timer /\ T1'["MR3"] = t["MR3"]
    BY <1>4 DEF Enter, Timer, Match, timer1_wait_fs_lock
  <2>4. LinkTypes'
    BY <1>0, <1>4, <2>2, <2>3 DEF Enter, LinkTypes, Radio
  <2>5. /\ main'.pc = "loop" /\ main' \in Loop /\ main'.buf = main.buf /\ main.buf = NULL
    BY <1>0, <1>4 DEF Enter, BufferTypes, Loop, Inv, Owners, Places
  <2>6. seen' \in Seen /\ More /\ (T1["MR3"] # "off" => seen'.refired)
    <3> DEFINE again == seen.refired \/ T1["MR3"] # "off"
    <3>1. again \in BOOLEAN
      BY Zenon
    <3>2. seen' = [seen EXCEPT !.refired = again]
      BY <1>4 DEF Enter
    <3>3. seen' \in Seen /\ seen'.refired = again /\ seen'.raced = seen.raced
      <4> HIDE DEF again
      <4>1. QED
        BY <1>0, <3>1, <3>2 DEF Seen
    <3>4. QED
      BY <3>3 DEF More
  <2>7. Places' /\ Held' /\ Waiting'
    BY <1>4, <2>3, <2>5, <2>6 DEF Enter, Places, Held, Waiting, Match
  <2>8. QED
    BY <1>4, <2>4, <2>5, <2>6, <2>7, SameInv DEF Enter
<1>5. QED
  BY <1>1, <1>2, <1>3, <1>4

(* A stuttering step keeps the invariant.                                  *)
LEMMA StutterInv == Inv /\ UNCHANGED vars => Inv'
<1> SUFFICES ASSUME Inv, UNCHANGED vars PROVE Inv'
  OBVIOUS
<1>1. LinkTypes' /\ seen' \in Seen /\ main' \in Loop /\ main'.buf = main.buf /\ More
  BY Types DEF Inv, vars, LinkTypes, BufferTypes, More
<1>2. Places' /\ Held' /\ Waiting'
  BY DEF Inv, Owners, vars, Places, Held, Waiting
<1>3. QED
  BY <1>1, <1>2, SameInv DEF vars

(* Spec is stronger than Init /\ [][Next]_vars; its fairness is not used. *)
LEMMA Invariance == Spec => []Inv
<1>1. Inv /\ [Next]_vars => Inv'
  BY DMAInv, TIMER1Inv, MainLoopInv, OtherInv, StutterInv DEF Next
<1>2. (Init /\ [][Next]_vars) => []Inv
  BY <1>1, InitInv, PTL
<1>3. QED
  BY <1>2, PTL DEF Spec

---------------------------------------------------------------------------
(* In step: what holds of an undisturbed connection at every place of the  *)
(* main loop.  Until its first event can begin it counts from zero; an     *)
(* event that has been opened without tuning waits for the transmit window *)
(* of an update.                                                           *)
InPhase ==
  /\ conn.counter = seen.events
  /\ main.pc = "cancel" => /\ conn.counter = 0 /\ conn.channel_idx = 0
                           /\ T1["MR0"] # "ahead" /\ rf_channel = "adv"
  /\ main.pc # "cancel" =>
       /\ conn.channel_idx = IF conn_event.tuned THEN (conn.counter + 1) % Wrap ELSE conn.counter
       /\ conn_event.opened /\ ~conn_event.tuned => Updating

Phase ==
  /\ conn_event.tuned => conn_event.opened
  /\ conn.following /\ ~seen.disturbed /\ ~seen.raced => InPhase

(* What an undisturbed history says of the events before it.               *)
LEMMA HistoryPhase ==
  ASSUME seen \in Seen, conn'.following, NEW d \in BOOLEAN
  PROVE  /\ ~Disturbed(d).disturbed =>
              ~seen.disturbed /\ ~d /\ Disturbed(d).events = seen.events
         /\ ~NextEvent(d).disturbed =>
              ~seen.disturbed /\ ~d /\ NextEvent(d).events = (seen.events + 1) % Wrap
<1> DEFINE off == conn'.following /\ (seen.disturbed \/ d)
           events == IF off \/ ~conn'.following THEN 0 ELSE seen.events
<1>1. Disturbed(d) = [seen EXCEPT !.disturbed = off, !.events = events]
  BY DEF Disturbed
<1>2. off <=> seen.disturbed \/ d
  BY Zenon
<1>3. events = IF off THEN 0 ELSE seen.events
  BY Zenon
<1>4. (Disturbed(d).disturbed <=> off) /\ Disturbed(d).events = events /\ Disturbed(d) \in Seen
  <2>1. off \in BOOLEAN /\ events \in Counter
    BY <1>3, Zero DEF Seen
  <2> HIDE DEF off, events
  <2>2. QED
    BY <1>1, <2>1 DEF Seen
<1>5. IF Disturbed(d).disturbed THEN NextEvent(d) = Disturbed(d)
      ELSE NextEvent(d) = [Disturbed(d) EXCEPT !.events = (@ + 1) % Wrap]
  BY DEF NextEvent
<1> HIDE DEF off, events
<1>6. CASE Disturbed(d).disturbed
  BY <1>5, <1>6
<1>7. CASE ~Disturbed(d).disturbed
  <2>1. Disturbed(d).events = seen.events /\ ~seen.disturbed /\ ~d
    BY <1>2, <1>3, <1>4, <1>7
  <2>2. NextEvent(d).events = (seen.events + 1) % Wrap
    BY <1>4, <1>5, <1>7, <2>1 DEF Seen
  <2>3. QED
    BY <2>1, <2>2
<1>8. QED
  BY <1>6, <1>7

(* finish_conn_event counts one event.                                     *)
LEMMA FinishPhase ==
  ASSUME LinkTypes, NEW n \in 0 .. 2, NEW t \in Timer, NEW b, NEW r \in Radio,
         finish_conn_event(n, t, b, r), conn'.following
  PROVE  /\ conn.following /\ conn'.counter = (conn.counter + 1) % Wrap
         /\ conn'.channel_idx = conn.channel_idx /\ conn'.update = conn.update
         /\ conn_event' = NoEvent
<1>1. PICK observed \in BOOLEAN, when \in {"ahead", "behind"} :
        LET c == Finished(n, observed)
        IN  \E expired \in Expired(c) :
              IF expired \/ cancel_follow
              THEN change_channel(NoConn, t, b)
              ELSE conn' = c
  BY DEF finish_conn_event
<1> DEFINE c == Finished(n, observed)
<1>2. PICK expired \in Expired(c) : IF expired \/ cancel_follow
                                   THEN change_channel(NoConn, t, b)
                                   ELSE conn' = c
  BY <1>1
<1>3. ~change_channel(NoConn, t, b)
  BY NoConnType, ChannelTypes
<1>4. conn' = c
  BY <1>2, <1>3
<1>5. /\ c.following = conn.following /\ c.counter = (conn.counter + 1) % Wrap
      /\ c.channel_idx = conn.channel_idx /\ c.update = conn.update
  BY DEF Finished, LinkTypes, Connection
<1>6. QED
  BY <1>4, <1>5 DEF finish_conn_event

(* An event that has been tuned ends.                                      *)
LEMMA CountedPhase ==
  ASSUME LinkTypes, seen \in Seen, Phase, NEW d \in BOOLEAN, NEW n \in 0 .. 2,
         NEW t \in Timer, NEW b, NEW r \in Radio, finish_conn_event(n, t, b, r),
         seen' = NextEvent(d), main' = main, rf_channel = "data" \/ T1["MR0"] = "ahead",
         conn_event.tuned \/ d \/ (conn_event.opened /\ ~Updating)
  PROVE  Phase'
<1>0. conn_event' = NoEvent
  BY DEF finish_conn_event
<1> SUFFICES ASSUME conn'.following, ~seen'.disturbed, ~seen'.raced PROVE InPhase'
  BY <1>0 DEF Phase, NoEvent
<1>1. /\ conn.following /\ conn'.counter = (conn.counter + 1) % Wrap
      /\ conn'.channel_idx = conn.channel_idx /\ conn_event' = NoEvent
  BY FinishPhase
<1>2. ~seen.disturbed /\ ~d /\ seen'.events = (seen.events + 1) % Wrap
  BY HistoryPhase
<1>3. ~seen.raced
  <2>1. conn'.following \in BOOLEAN
    BY FinishTypes, Fields DEF LinkTypes
  <2>2. QED
    BY <2>1, HistoryTypes
<1>4. InPhase
  BY <1>1, <1>2, <1>3 DEF Phase
<1>5. main.pc # "cancel" /\ conn_event.tuned
  BY <1>2, <1>4 DEF InPhase
<1>6. QED
  BY <1>1, <1>2, <1>4, <1>5 DEF InPhase, NoEvent

(* A step that leaves the connection, its event and its channel alone.     *)
LEMMA StillPhase ==
  ASSUME Phase, UNCHANGED <<conn_event, rf_channel>>,
         conn'.following = conn.following, conn'.counter = conn.counter,
         conn'.channel_idx = conn.channel_idx, conn'.update = conn.update,
         seen'.events = seen.events, seen'.disturbed = seen.disturbed,
         seen.raced => seen'.raced,
         main'.pc = main.pc \/ (main'.pc # "cancel" /\ main.pc # "cancel"),
         main.pc = "cancel" => T1'["MR0"] = T1["MR0"] \/ T1'["MR0"] = "off"
  PROVE  Phase'
<1>1. Updating' <=> Updating
  BY DEF Updating
<1>2. QED
  BY <1>1 DEF Phase, InPhase

(* The DMA interrupt keeps the phase.                                      *)
LEMMA DMAPhase == Inv /\ Phase /\ DMA => Phase'
<1> SUFFICES ASSUME Inv, Phase, DMA PROVE Phase'
  OBVIOUS
<1>0. LinkTypes /\ seen \in Seen /\ T1 \in Timer
  BY Types DEF Inv, LinkTypes
<1>1. CASE PacketStart
  <2>1. T1'["MR0"] = T1["MR0"] \/ T1'["MR0"] = "off"
    BY <1>0, <1>1 DEF PacketStart, timer1_clear_match, Timer, Match
  <2>2. QED
    BY <1>1, <2>1, StillPhase DEF PacketStart
<1>2. CASE AdvPacketEnd
  <2>1. T1'["MR0"] = T1["MR0"]
    BY <1>0, <1>2 DEF AdvPacketEnd, Rearm, timer1_wait_buffer, timer1_wait_fs_lock, Timer, Match
  <2>2. QED
    BY <1>2, <2>1, StillPhase DEF AdvPacketEnd, EndOfPacket
<1>3. CASE FirstPacketEnd
  <2>1. /\ seen' = Disturbed(Stray) /\ conn' = conn /\ main' = main /\ rf_channel = "data"
        /\ conn_event' = [conn_event EXCEPT !.num_packets = 1]
        /\ Stray \in BOOLEAN /\ conn.following \in BOOLEAN
    BY <1>0, <1>3, Fields DEF FirstPacketEnd, EndOfPacket, Stray, LinkTypes
  <2>2. conn_event'.opened = conn_event.opened /\ conn_event'.tuned = conn_event.tuned
    BY <1>0, <2>1 DEF LinkTypes, Event
  <2>3. seen'.raced = seen.raced
    BY <1>0, <2>1, HistoryTypes
  <2>4. ASSUME conn'.following, ~seen'.disturbed, ~seen'.raced PROVE InPhase'
    <3>1. ~seen.disturbed /\ seen'.events = seen.events
      BY <1>0, <2>1, <2>4, HistoryPhase
    <3>2. InPhase /\ (Updating' <=> Updating)
      BY <2>1, <2>3, <2>4, <3>1 DEF Phase, Updating
    <3>3. QED
      BY <2>1, <2>2, <3>1, <3>2 DEF InPhase
  <2>5. QED
    BY <2>2, <2>4 DEF Phase
<1>4. CASE SecondPacketEnd
  <2>1. /\ finish_conn_event(2, T1, current_rxbuf', "off") /\ 2 \in 0 .. 2
        /\ "off" \in Radio /\ Stray \in BOOLEAN /\ seen' = NextEvent(Stray) /\ main' = main
        /\ rf_channel = "data" /\ (conn_event.tuned \/ Stray)
    BY <1>4 DEF SecondPacketEnd, EndOfPacket, Radio, Stray
  <2>2. QED
    BY <1>0, <2>1, CountedPhase
<1>5. QED
  BY <1>1, <1>2, <1>3, <1>4 DEF DMA

(* The channel hops: once for an event.                                    *)
LEMMA HopPhase ==
  ASSUME LinkTypes, seen \in Seen, Phase, T1["MR0"] = "ahead",
         NEW c \in Connection, c.following = conn.following, c.counter = conn.counter,
         c.channel_idx = conn.channel_idx,
         NEW t, NEW b, change_channel(c, t, b),
         conn_event' = [conn_event EXCEPT !.opened = TRUE, !.tuned = TRUE], main' = main,
         seen'.raced = seen.raced,
         conn'.following /\ ~seen'.disturbed =>
           ~seen.disturbed /\ ~conn_event.tuned /\ seen'.events = seen.events
  PROVE  Phase'
<1>1. conn_event'.tuned /\ conn_event'.opened
  BY DEF LinkTypes, Event
<1> SUFFICES ASSUME conn'.following, ~seen'.disturbed, ~seen'.raced PROVE InPhase'
  BY <1>1 DEF Phase
<1>2. conn' = IF c.following THEN [c EXCEPT !.channel_idx = (c.channel_idx + 1) % Wrap] ELSE c
  BY DEF change_channel
<1>3. c.following
  BY <1>2
<1>4. conn'.counter = conn.counter /\ conn'.channel_idx = (conn.channel_idx + 1) % Wrap
  BY <1>2, <1>3 DEF Connection
<1>5. InPhase
  BY <1>3 DEF Phase
<1>6. QED
  BY <1>1, <1>4, <1>5 DEF InPhase

(* The timer interrupt keeps the phase.                                    *)
LEMMA TIMER1Phase == Inv /\ Phase /\ TIMER1 => Phase'
<1> SUFFICES ASSUME Inv, Phase, TIMER1 PROVE Phase'
  OBVIOUS
<1>0. /\ LinkTypes /\ seen \in Seen /\ T1 \in Timer /\ conn \in Connection
      /\ conn.following \in BOOLEAN
  BY Types, Fields DEF Inv, LinkTypes
<1>1. CASE UpdateWindow
  <2>1. /\ conn_event'.opened /\ conn_event'.tuned = conn_event.tuned
        /\ T1["MR0"] = "ahead" /\ Updating /\ UNCHANGED <<conn, seen, main>>
    BY <1>0, <1>1 DEF UpdateWindow, Fires, LinkTypes, Event
  <2>2. Updating'
    BY <2>1 DEF Updating
  <2>3. QED
    BY <2>1, <2>2 DEF Phase, InPhase
<1>2. CASE UpdateApplied
  <2> DEFINE c == [conn EXCEPT !.anchor_set = FALSE, !.update = NoUpdate]
  <2>1. PICK when \in {"ahead", "behind"} :
          change_channel(c, timer1_set_match(T1, when), current_rxbuf)
    BY <1>2 DEF UpdateApplied
  <2>2. /\ c \in Connection /\ c.following = conn.following /\ c.counter = conn.counter
        /\ c.channel_idx = conn.channel_idx
    BY <1>0 DEF Connection
  <2> HIDE DEF c
  <2>3. /\ conn_event.tuned \in BOOLEAN /\ T1["MR0"] = "ahead" /\ main' = main
        /\ conn_event' = [conn_event EXCEPT !.opened = TRUE, !.tuned = TRUE]
        /\ seen' = Disturbed(conn_event.tuned)
    BY <1>0, <1>2 DEF UpdateApplied, Fires, LinkTypes, Event
  <2>4. conn'.following \in BOOLEAN
    BY <1>0, <2>1, <2>2, SetMatchType, ChannelTypes
  <2>5. seen'.raced = seen.raced
    BY <1>0, <2>3, <2>4, HistoryTypes
  <2>6. conn'.following /\ ~seen'.disturbed =>
          ~seen.disturbed /\ ~conn_event.tuned /\ seen'.events = seen.events
    BY <1>0, <2>3, HistoryPhase
  <2>7. QED
    BY <1>0, <2>1, <2>2, <2>3, <2>5, <2>6, HopPhase
<1>3. CASE OpenEvent
  <2>1. /\ change_channel(conn, timer1_set_match(T1, "ahead"), current_rxbuf)
        /\ conn_event' = [conn_event EXCEPT !.opened = TRUE, !.tuned = TRUE]
        /\ T1["MR0"] = "ahead" /\ ~conn_event.opened /\ UNCHANGED <<main, seen>>
    BY <1>3 DEF OpenEvent, Fires
  <2>2. ~conn_event.tuned
    BY <2>1 DEF Phase
  <2>3. QED
    BY <1>0, <2>1, <2>2, HopPhase
<1>4. CASE EventTimeout
  <2> DEFINE t == timer1_set_match(T1, "behind")
  <2>1. t \in Timer /\ conn_event.num_packets \in 0 .. 2 /\ radio \in Radio
    BY <1>0, SetMatchType DEF LinkTypes, Event
  <2>2. /\ T1["MR0"] = "ahead" /\ seen' = NextEvent(FALSE) /\ main' = main
        /\ conn_event.opened /\ ~Updating
    BY <1>4 DEF EventTimeout, Fires
  <2>3. finish_conn_event(conn_event.num_packets, t, current_rxbuf, radio)
    BY <1>4 DEF EventTimeout
  <2> HIDE DEF t
  <2>4. FALSE \in BOOLEAN
    OBVIOUS
  <2>5. QED
    BY <1>0, <2>1, <2>2, <2>3, <2>4, CountedPhase
<1>5. CASE StrobeRx
  <2>1. T1'["MR0"] = T1["MR0"]
    BY <1>0, <1>5 DEF StrobeRx, Timer, Match
  <2>2. QED
    BY <1>5, <2>1, StillPhase DEF StrobeRx
<1>6. CASE BufferFound
  <2>1. T1'["MR0"] = T1["MR0"]
    BY <1>0, <1>6 DEF BufferFound, timer1_wait_fs_lock, Timer, Match
  <2>2. QED
    BY <1>6, <2>1, StillPhase DEF BufferFound
<1>7. CASE BufferLost
  BY <1>7, StillPhase DEF BufferLost
<1>8. QED
  BY <1>1, <1>2, <1>3, <1>4, <1>5, <1>6, <1>7 DEF TIMER1

(* The history a handler of the main loop leaves, s being what it notes of *)
(* the connection.                                                         *)
LEMMA RacedHistory ==
  ASSUME NEW s \in Seen, seen' = Raced(s)
  PROVE  /\ seen'.events = s.events /\ seen'.disturbed = s.disturbed
         /\ s.raced => seen'.raced
<1> DEFINE lost == s.raced \/ (~Atomic /\ Enabled(T1) # main.mcr)
<1>1. lost \in BOOLEAN /\ (s.raced => lost)
  BY Zenon
<1>2. seen' = [s EXCEPT !.raced = lost]
  BY DEF Raced
<1> HIDE DEF lost
<1>3. QED
  BY <1>1, <1>2 DEF Seen

(* The main loop keeps the phase.                                          *)
LEMMA MainLoopPhase == Inv /\ Phase /\ MainLoop => Phase'
<1> SUFFICES ASSUME Inv, Phase, MainLoop PROVE Phase'
  OBVIOUS
<1>0. /\ BufferTypes /\ LinkTypes /\ seen \in Seen /\ T1 \in Timer /\ conn \in Connection
      /\ conn.following \in BOOLEAN
  BY Types, Fields DEF Inv, LinkTypes
<1>1. CASE TakePacket \/ SkipPacket
  <2>1. main'.pc = main.pc \/ (main'.pc # "cancel" /\ main.pc # "cancel")
    BY <1>1 DEF TakePacket, SkipPacket
  <2>2. UNCHANGED <<conn, conn_event, T1, rf_channel, seen>>
    BY <1>1 DEF TakePacket, SkipPacket
  <2>3. QED
    BY <2>1, <2>2, StillPhase
<1>2. CASE HandlePlain \/ SetMatch
  <2>1. main'.pc # "cancel" /\ main.pc # "cancel" /\ seen' = Raced(seen)
        /\ UNCHANGED <<conn, conn_event, rf_channel>>
    BY <1>2 DEF HandlePlain, SetMatch, Handle, Release
  <2>2. QED
    BY <1>0, <2>1, RacedHistory, StillPhase
<1>3. CASE connection_update_handler
  <2> DEFINE d == rf_channel = "adv" \/ conn.update.pending
             s == Disturbed(d)
  <2>1. PICK u \in Update : conn' = [conn EXCEPT !.update = u]
    BY <1>3 DEF connection_update_handler
  <2>2. /\ conn'.following = conn.following /\ conn'.counter = conn.counter
        /\ conn'.channel_idx = conn.channel_idx /\ conn'.following \in BOOLEAN
    BY <1>0, <2>1 DEF Connection
  <2>3. /\ main.pc # "cancel" /\ main'.pc # "cancel" /\ seen' = Raced(s)
        /\ UNCHANGED <<conn_event, rf_channel>>
    BY <1>3 DEF connection_update_handler, Handle, Release
  <2>4. d \in BOOLEAN
    BY Zenon
  <2>5. s \in Seen /\ s.raced = seen.raced
    <3> HIDE DEF d
    <3>1. QED
      BY <1>0, <2>2, <2>4, HistoryTypes
  <2>6. conn'.following /\ ~s.disturbed => ~seen.disturbed /\ ~d /\ s.events = seen.events
    <3> HIDE DEF d
    <3>1. QED
      BY <1>0, <2>4, HistoryPhase
  <2>7. seen'.events = s.events /\ seen'.disturbed = s.disturbed /\ (seen.raced => seen'.raced)
    <3> HIDE DEF s
    <3>1. QED
      BY <2>3, <2>5, RacedHistory
  <2>8. ASSUME conn'.following, ~seen'.disturbed, ~seen'.raced PROVE InPhase'
    <3>1. /\ ~seen.disturbed /\ ~d /\ seen'.events = seen.events /\ ~seen.raced
          /\ conn.following
      BY <2>2, <2>6, <2>7, <2>8
    <3>2. InPhase /\ ~Updating
      BY <3>1 DEF Phase, Updating
    <3>3. QED
      BY <2>2, <2>3, <3>1, <3>2 DEF InPhase
  <2>9. QED
    BY <2>3, <2>8 DEF Phase
<1>4. CASE RefuseConnect
  BY <1>4, NoConnType DEF RefuseConnect, Phase
<1>5. CASE Connect
  <2> DEFINE d == rf_channel = "data" \/ conn # NoConn \/ Fires("MR0")
             s == [seen EXCEPT !.events = 0, !.disturbed = d]
  <2>1. PICK u \in {NoUpdate} \cup Update : conn' = [conn EXCEPT !.following = TRUE, !.update = u]
    BY <1>5 DEF Connect
  <2>2. /\ T1' \in WrittenBack /\ seen' = Raced(s) /\ Running
        /\ main' = [main EXCEPT !.pc = "cancel", !.mcr = Read(T1')]
        /\ UNCHANGED <<conn_event, rf_channel>>
    BY <1>5 DEF Connect, Handle
  <2>3. d \in BOOLEAN
    BY Zenon
  <2>4. s \in Seen /\ s.events = 0 /\ s.disturbed = d
    <3> HIDE DEF d
    <3>1. QED
      BY <1>0, <2>3, Zero DEF Seen
  <2>5. /\ seen'.events = 0 /\ seen'.disturbed = d /\ (T1' = T1 \/ seen'.raced)
    <3> HIDE DEF s, d
    <3>1. QED
      BY <1>0, <2>2, <2>4, RacedHistory, WriteBack
  <2>6. main'.pc = "cancel"
    BY <1>0, <2>2 DEF BufferTypes, Loop
  <2>7. ASSUME conn'.following, ~seen'.disturbed, ~seen'.raced PROVE InPhase'
    <3>1. conn = NoConn /\ rf_channel # "data" /\ ~Fires("MR0") /\ T1' = T1
      BY <2>5, <2>7
    <3>2. rf_channel = "adv" /\ T1["MR0"] # "ahead"
      BY <1>0, <2>2, <3>1 DEF Fires, LinkTypes
    <3>3. conn'.counter = 0 /\ conn'.channel_idx = 0
      BY <2>1, <3>1 DEF NoConn
    <3>4. QED
      BY <2>2, <2>5, <2>6, <3>1, <3>2, <3>3 DEF InPhase
  <2>8. QED
    BY <2>2, <2>7 DEF Phase
<1>6. CASE CancelFsLock
  <2>1. /\ seen' = Raced(seen) /\ conn_event' = NoEvent /\ conn' = conn /\ main.pc = "cancel"
        /\ main' = [main EXCEPT !.pc = "match", !.mcr = Read(T1')]
    BY <1>6 DEF CancelFsLock
  <2>2. main'.pc = "match"
    BY <1>0, <2>1 DEF BufferTypes, Loop
  <2>3. ASSUME conn'.following, ~seen'.disturbed, ~seen'.raced PROVE InPhase'
    <3>1. InPhase /\ seen'.events = seen.events
      BY <1>0, <2>1, <2>3, RacedHistory DEF Phase
    <3>2. QED
      BY <2>1, <2>2, <3>1 DEF InPhase, NoEvent
  <2>4. QED
    BY <2>1, <2>3 DEF Phase, NoEvent
<1>7. QED
  BY <1>1, <1>2, <1>3, <1>4, <1>5, <1>6 DEF MainLoop

(* A refire is no event.                                                   *)
LEMMA FieldsKept ==
  ASSUME seen \in Seen, NEW x, seen' = [seen EXCEPT !.refired = x]
  PROVE  /\ seen'.events = seen.events /\ seen'.disturbed = seen.disturbed
         /\ seen'.raced = seen.raced
  BY DEF Seen

(* The counter, the cancel and the mode change keep the phase.             *)
LEMMA OtherPhase ==
  ASSUME Inv, Phase, (\E r \in Match : CounterWraps(r)) \/ CancelFollow \/ Leave \/ Enter
  PROVE  Phase'
<1>0. /\ BufferTypes /\ LinkTypes /\ seen \in Seen /\ T1 \in Timer /\ conn \in Connection
  BY Types DEF Inv, LinkTypes
<1>1. ASSUME NEW r \in Match, CounterWraps(r) PROVE Phase'
  <2>1. /\ conn'.following = conn.following /\ conn'.counter = conn.counter
        /\ conn'.channel_idx = conn.channel_idx /\ conn'.update = conn.update
    BY <1>0, <1>1 DEF CounterWraps, Connection
  <2>2. /\ seen'.events = seen.events /\ seen'.disturbed = seen.disturbed
        /\ seen'.raced = seen.raced
    BY <1>0, <1>1, FieldsKept DEF CounterWraps
  <2>3. QED
    BY <1>1, <2>1, <2>2, StillPhase DEF CounterWraps
<1>2. CASE CancelFollow
  BY <1>2, StillPhase DEF CancelFollow
<1>3. CASE Leave
  BY <1>0, <1>3 DEF Leave, Phase, Connection
<1>4. CASE Enter
  <2>1. /\ conn'.following = conn.following /\ conn'.counter = conn.counter
        /\ conn'.channel_idx = conn.channel_idx /\ conn'.update = conn.update
    BY <1>0, <1>4 DEF Enter, Connection
  <2>2. /\ seen'.events = seen.events /\ seen'.disturbed = seen.disturbed
        /\ seen'.raced = seen.raced
    BY <1>0, <1>4, FieldsKept DEF Enter
  <2>3. main.pc # "cancel" /\ main'.pc # "cancel"
    BY <1>0, <1>4 DEF Enter, BufferTypes, Loop
  <2>4. QED
    BY <1>4, <2>1, <2>2, <2>3, StillPhase DEF Enter
<1>5. QED
  BY <1>1, <1>2, <1>3, <1>4

(* The phase holds throughout.                                             *)
LEMMA PhaseInvariance == Spec => [](Inv /\ Phase)
<1>1. Init => Inv /\ Phase
  BY InitInv DEF Init, Phase, NoConn, NoEvent
<1>2. Inv /\ Phase /\ [Next]_vars => Inv' /\ Phase'
  <2> SUFFICES ASSUME Inv, Phase, [Next]_vars PROVE Inv' /\ Phase'
    OBVIOUS
  <2>1. Inv'
    BY DMAInv, TIMER1Inv, MainLoopInv, OtherInv, StutterInv DEF Next
  <2>2. UNCHANGED vars => Phase'
    BY StillPhase DEF vars
  <2>3. Next => Phase'
    BY DMAPhase, TIMER1Phase, MainLoopPhase, OtherPhase DEF Next
  <2>4. QED
    BY <2>1, <2>2, <2>3
<1>3. (Init /\ [][Next]_vars) => [](Inv /\ Phase)
  BY <1>1, <1>2, PTL
<1>4. QED
  BY <1>3, PTL DEF Spec

---------------------------------------------------------------------------
(* Updates.  The assumptions of UpdateAtInstant, and what it concludes.    *)
Observed == /\ conn.update.pending /\ conn.following /\ conn'.following /\ main.pc # "cancel"
            /\ ~seen'.disturbed /\ ~seen'.raced
Tunes == ~conn_event.tuned /\ conn_event'.tuned
AtInstant == ~conn'.update.pending <=> Tunes /\ seen.events = conn.update.instant

(* Every step but the two that tune an event leaves a pending update.      *)
LEMMA UpdateStays ==
  ASSUME Inv, Observed, Next, ~UpdateApplied, ~OpenEvent
  PROVE  conn'.update.pending /\ ~Tunes
<1>0. /\ BufferTypes /\ LinkTypes /\ T1 \in Timer /\ conn \in Connection /\ conn.update.pending
      /\ conn'.following
  BY Types DEF Inv, LinkTypes, Observed
<1>1. ASSUME conn' = conn, conn_event' = conn_event PROVE conn'.update.pending /\ ~Tunes
  BY <1>0, <1>1 DEF Tunes
<1>2. CASE PacketStart \/ AdvPacketEnd \/ StrobeRx \/ BufferFound \/ BufferLost \/ TakePacket
           \/ SkipPacket \/ HandlePlain \/ SetMatch \/ CancelFollow
  BY <1>1, <1>2 DEF PacketStart, AdvPacketEnd, StrobeRx, BufferFound, BufferLost, TakePacket,
                    SkipPacket, HandlePlain, SetMatch, CancelFollow
<1>3. CASE FirstPacketEnd \/ UpdateWindow
  <2>1. conn' = conn /\ conn_event'.tuned = conn_event.tuned
    BY <1>0, <1>3 DEF FirstPacketEnd, UpdateWindow, LinkTypes, Event
  <2>2. QED
    BY <1>0, <2>1 DEF Tunes
<1>4. CASE SecondPacketEnd \/ EventTimeout
  <2>1. conn'.update = conn.update /\ conn_event' = NoEvent
    <3>1. CASE SecondPacketEnd
      <4>1. finish_conn_event(2, T1, current_rxbuf', "off") /\ 2 \in 0 .. 2 /\ "off" \in Radio
        BY <3>1 DEF SecondPacketEnd, Radio
      <4>2. QED
        BY <1>0, <4>1, FinishPhase
    <3>2. CASE EventTimeout
      <4> DEFINE t == timer1_set_match(T1, "behind")
      <4>1. t \in Timer /\ conn_event.num_packets \in 0 .. 2 /\ radio \in Radio
        BY <1>0, SetMatchType DEF LinkTypes, Event
      <4>2. finish_conn_event(conn_event.num_packets, t, current_rxbuf, radio)
        BY <3>2 DEF EventTimeout
      <4> HIDE DEF t
      <4>3. QED
        BY <1>0, <4>1, <4>2, FinishPhase
    <3>3. QED
      BY <1>4, <3>1, <3>2
  <2>2. QED
    BY <1>0, <2>1 DEF Tunes, NoEvent
<1>5. CASE connection_update_handler
  <2>1. PICK u \in Update : conn' = [conn EXCEPT !.update = u]
    BY <1>5 DEF connection_update_handler
  <2>2. conn'.update = u /\ u.pending /\ conn_event' = conn_event
    BY <1>0, <1>5, <2>1 DEF connection_update_handler, Connection, Update
  <2>3. QED
    BY <2>2 DEF Tunes
<1>6. CASE Connect
  <2> DEFINE S == {w \in {NoUpdate} \cup Update : /\ w.pending = conn.update.pending
                                                  /\ w.pending => w.instant = conn.update.instant}
             C(w) == [conn EXCEPT !.following = TRUE, !.update = w]
  <2>1. conn' \in {C(w) : w \in S}
    BY <1>6, Zenon DEF Connect
  <2>2. \A w \in S : w.pending = conn.update.pending /\ C(w).update = w
    <3>1. ASSUME NEW w PROVE C(w).update = w
      <4>1. conn \in Connection
        BY <1>0
      <4>2. [conn EXCEPT !.following = TRUE, !.update = w].update = w
        BY <4>1 DEF Connection
      <4>3. QED
        BY <4>2
    <3>2. ASSUME NEW w \in S PROVE w.pending = conn.update.pending
      BY <3>2, Zenon
    <3>3. QED
      BY <3>1, <3>2
  <2> HIDE DEF S, C
  <2>3. PICK v \in S : conn' = C(v)
    BY <2>1
  <2>4. conn'.update = v /\ v.pending = conn.update.pending
    BY <2>2, <2>3
  <2>5. conn_event' = conn_event
    BY <1>6 DEF Connect
  <2>6. QED
    BY <1>0, <2>4, <2>5 DEF Tunes
<1>7. ~(RefuseConnect \/ CancelFsLock \/ Leave)
  <2>1. ~RefuseConnect
    BY <1>0, NoConnType DEF RefuseConnect, NoConn
  <2>2. ~CancelFsLock
    BY DEF CancelFsLock, Observed
  <2>3. ~Leave
    BY <1>0 DEF Leave, Connection
  <2>4. QED
    BY <2>1, <2>2, <2>3
<1>8. ASSUME NEW r \in Match, CounterWraps(r) PROVE conn'.update.pending /\ ~Tunes
  <2>1. conn'.update = conn.update /\ conn_event' = conn_event
    BY <1>0, <1>8 DEF CounterWraps, Connection
  <2>2. QED
    BY <1>0, <2>1 DEF Tunes
<1>9. CASE Enter
  <2>1. conn'.update = conn.update /\ conn_event' = conn_event
    BY <1>0, <1>9 DEF Enter, Connection
  <2>2. QED
    BY <1>0, <2>1 DEF Tunes
<1>10. QED
  BY <1>2, <1>3, <1>4, <1>5, <1>6, <1>7, <1>8, <1>9 DEF Next, DMA, TIMER1, MainLoop

(* The two that do tune one: at the instant the update goes, at no other.  *)
LEMMA UpdateTuned ==
  ASSUME Inv, Phase, Observed, UpdateApplied \/ OpenEvent
  PROVE  AtInstant
<1>0. /\ LinkTypes /\ seen \in Seen /\ T1 \in Timer /\ conn \in Connection
      /\ conn'.following /\ conn.following /\ conn.update.pending
      /\ ~seen'.disturbed /\ ~seen'.raced
  BY Types DEF Inv, LinkTypes, Observed
<1>1. CASE UpdateApplied
  <2> DEFINE c == [conn EXCEPT !.anchor_set = FALSE, !.update = NoUpdate]
  <2>1. PICK when \in {"ahead", "behind"} :
          change_channel(c, timer1_set_match(T1, when), current_rxbuf)
    BY <1>1 DEF UpdateApplied
  <2>2. c \in Connection /\ c.following = conn.following /\ c.update = NoUpdate
    BY <1>0 DEF Connection
  <2> HIDE DEF c
  <2>3. conn'.update = NoUpdate
    <3>1. conn' = [c EXCEPT !.channel_idx = (c.channel_idx + 1) % Wrap]
      BY <1>0, <2>1, <2>2 DEF change_channel
    <3>2. QED
      BY <2>2, <3>1 DEF Connection
  <2>4. /\ conn_event.tuned \in BOOLEAN /\ conn_event'.tuned
        /\ Updating /\ seen' = Disturbed(conn_event.tuned)
    BY <1>0, <1>1 DEF UpdateApplied, LinkTypes, Event
  <2>5. ~conn_event.tuned /\ ~seen.disturbed
    BY <1>0, <2>4, HistoryPhase
  <2>6. ~seen.raced
    <3>1. conn'.following \in BOOLEAN
      BY <1>0, <2>1, <2>2, SetMatchType, ChannelTypes
    <3>2. QED
      BY <1>0, <2>4, <3>1, HistoryTypes
  <2>7. conn.counter = seen.events
    BY <1>0, <2>5, <2>6 DEF Phase, InPhase
  <2>8. QED
    BY <2>3, <2>4, <2>5, <2>7 DEF AtInstant, Tunes, Updating, NoUpdate
<1>2. CASE OpenEvent
  <2>1. change_channel(conn, timer1_set_match(T1, "ahead"), current_rxbuf) /\ ~Updating /\ seen' = seen
    BY <1>2 DEF OpenEvent
  <2>2. conn' = [conn EXCEPT !.channel_idx = (conn.channel_idx + 1) % Wrap]
    BY <1>0, <2>1 DEF change_channel
  <2>3. conn'.update.pending
    BY <1>0, <2>2 DEF Connection
  <2>4. conn.counter = seen.events
    BY <1>0, <2>1 DEF Phase, InPhase
  <2>5. QED
    BY <1>0, <2>1, <2>3, <2>4 DEF AtInstant, Updating
<1>3. QED
  BY <1>1, <1>2

---------------------------------------------------------------------------
(* The handlers of le_phy.c keep every variable in its range: the packet   *)
(* queue never holds FIFOSIZE packets, an open event at most one, the event *)
(* counter and the channel index stay below their modulus.                 *)
THEOREM TypeCorrect == Spec => []LeTypeOK
<1>1. Inv => LeTypeOK
  BY DEF Inv
<1>2. QED
  BY <1>1, Invariance, PTL

(* buffer_get, queue_insert and buffer_release never give one buffer to    *)
(* two of the pool, the receiver, the queue and the main loop, wherever    *)
(* the interrupts fall.                                                    *)
THEOREM BuffersApart == Spec => []OneOwner
<1>1. Inv => OneOwner
  BY DEF Inv, Owners
<1>2. QED
  BY <1>1, Invariance, PTL

(* No buffer leaves the pool, the receiver, the queue and the main loop    *)
(* before the wait for a buffer fires a second time: in particular         *)
(* queue_insert never drops a packet, the queue being longer than the pool.*)
THEOREM BuffersKept == Spec => []NoneLost
<1>1. Inv => NoneLost
  BY DEF Inv, Owners
<1>2. QED
  BY <1>1, Invariance, PTL

(* Whatever is received or missed, the counter that finish_conn_event keeps *)
(* and the channel that change_channel hops to stay in step with the events *)
(* of a connection nothing has disturbed, through updates and retuned       *)
(* windows, for every modulus.                                              *)
THEOREM EventsInStep == Spec => []InStep
<1>1. Inv /\ Phase => InStep
  <2> SUFFICES ASSUME Inv, Phase, conn.following, main.pc # "cancel",
                      ~seen.disturbed, ~seen.raced
               PROVE  /\ conn.counter = seen.events
                      /\ conn.channel_idx =
                           (conn.counter + IF conn_event.tuned THEN 1 ELSE 0) % Wrap
    BY DEF InStep
  <2>1. InPhase
    BY DEF Phase
  <2>2. conn.counter \in Counter
    BY Types, Fields DEF Inv, LinkTypes
  <2>3. (conn.counter + 0) % Wrap = conn.counter
    BY <2>2, FollowAssumption DEF Counter
  <2>4. QED
    BY <2>1, <2>3 DEF InPhase
<1>2. QED
  BY <1>1, PhaseInvariance, PTL

(* Whatever events are missed, and whatever a second look at the transmit   *)
(* window or a packet of the wrong channel does, TIMER1_IRQHandler applies  *)
(* a pending update with the first tuning of the event it names, and with   *)
(* nothing else: UpdateAtInstant, for every modulus.                        *)
THEOREM UpdatesAtInstant == Spec => UpdateAtInstant
<1> DEFINE Step == conn.update.pending /\ conn.following /\ conn'.following /\ main.pc # "cancel"
                     /\ ~seen'.disturbed /\ ~seen'.raced =>
                     (~conn'.update.pending
                        <=> ~conn_event.tuned /\ conn_event'.tuned
                              /\ seen.events = conn.update.instant)
<1>1. ASSUME Inv, Phase, [Next]_vars PROVE [Step]_vars
  <2> SUFFICES ASSUME Next, Observed PROVE AtInstant
    BY <1>1 DEF Observed, AtInstant, Tunes
  <2>1. CASE UpdateApplied \/ OpenEvent
    BY <1>1, <2>1, UpdateTuned
  <2>2. CASE ~(UpdateApplied \/ OpenEvent)
    BY <1>1, <2>2, UpdateStays DEF AtInstant
  <2>3. QED
    BY <2>1, <2>2
<1>2. UpdateAtInstant <=> [][Step]_vars
  BY DEF UpdateAtInstant
<1>3. QED
  BY <1>1, <1>2, PhaseInvariance, PTL DEF Spec

=============================================================================
