------------------------- MODULE FirmwareOrder_proofs -------------------------
(***************************************************************************)
(* The packets the host reads follow each other as they were enqueued      *)
(* (InOrder), for every size of the ring and any number of requests.  The  *)
(* argument follows the sequence ep \o Contents(queue) through the steps:  *)
(* enqueue appends to it, a poll moves its parts about and leaves it as it *)
(* is, the host takes its head, usb_queue_init cuts its end off.           *)
(***************************************************************************)
EXTENDS UbertoothFirmware_proofs

(* What the ring holds, oldest first.                                      *)
Contents(q) == Oldest(q, Used(q))

(* Neighbours of one run have consecutive numbers.                         *)
Succeeds(p, r) ==
  p.kind \in {"BR", "SPECAN"} /\ r.kind = p.kind /\ r.gap # "start"
    => r.n = (p.n + 1) % Window

Chained(s) == \A i \in 2 .. Len(s) : Succeeds(s[i - 1], s[i])

(* c is the number after the last packet of s.                             *)
Ends(s, c) ==
  Len(s) > 0 /\ s[Len(s)].kind \in {"BR", "SPECAN"} => c = (s[Len(s)].n + 1) % Window

(* From the last packet of e to the first of s.                            *)
Link(e, s) == Len(e) > 0 /\ Len(s) > 0 => Succeeds(e[Len(e)], s[1])

-----------------------------------------------------------------------------
(* Sequences of packets.                                                   *)

(* A chain is made of two chains and the link between them.                *)
LEMMA ChainConcat ==
  ASSUME NEW e \in Seq(Content), NEW s \in Seq(Content)
  PROVE  Chained(e \o s) <=> Chained(e) /\ Chained(s) /\ Link(e, s)
<1> DEFINE u == e \o s
<1>1. /\ Len(u) = Len(e) + Len(s) /\ Len(e) \in Nat /\ Len(s) \in Nat
      /\ \A i \in 1 .. Len(e) : u[i] = e[i]
      /\ \A i \in 1 .. Len(s) : u[Len(e) + i] = s[i]
  BY ConcatProperties, LenProperties
<1> HIDE DEF u
<1>2. ASSUME Chained(u) PROVE Chained(e) /\ Chained(s) /\ Link(e, s)
  <2>1. Chained(e)
    <3>1. ASSUME NEW i \in 2 .. Len(e) PROVE Succeeds(e[i - 1], e[i])
      <4>1. i \in 2 .. Len(u) /\ i \in 1 .. Len(e) /\ i - 1 \in 1 .. Len(e)
        BY <1>1
      <4>2. QED
        BY <1>1, <1>2, <4>1 DEF Chained
    <3>2. QED
      BY <3>1 DEF Chained
  <2>2. Chained(s)
    <3>1. ASSUME NEW i \in 2 .. Len(s) PROVE Succeeds(s[i - 1], s[i])
      <4>1. /\ Len(e) + i \in 2 .. Len(u) /\ i \in 1 .. Len(s) /\ i - 1 \in 1 .. Len(s)
            /\ (Len(e) + i) - 1 = Len(e) + (i - 1)
        BY <1>1
      <4>2. Succeeds(u[(Len(e) + i) - 1], u[Len(e) + i])
        BY <1>2, <4>1 DEF Chained
      <4>3. u[Len(e) + (i - 1)] = s[i - 1] /\ u[Len(e) + i] = s[i]
        BY <1>1, <4>1
      <4>4. QED
        BY <4>1, <4>2, <4>3
    <3>2. QED
      BY <3>1 DEF Chained
  <2>3. Link(e, s)
    <3>1. ASSUME Len(e) > 0, Len(s) > 0 PROVE Succeeds(e[Len(e)], s[1])
      <4>1. /\ Len(e) + 1 \in 2 .. Len(u) /\ (Len(e) + 1) - 1 = Len(e)
            /\ Len(e) \in 1 .. Len(e) /\ 1 \in 1 .. Len(s)
        BY <1>1, <3>1
      <4>2. Succeeds(u[(Len(e) + 1) - 1], u[Len(e) + 1])
        BY <1>2, <4>1 DEF Chained
      <4>3. QED
        BY <1>1, <4>1, <4>2
    <3>2. QED
      BY <3>1 DEF Link
  <2>4. QED
    BY <2>1, <2>2, <2>3
<1>3. ASSUME Chained(e), Chained(s), Link(e, s) PROVE Chained(u)
  <2>1. ASSUME NEW i \in 2 .. Len(u) PROVE Succeeds(u[i - 1], u[i])
    <3>1. CASE i <= Len(e)
      <4>1. i \in 2 .. Len(e) /\ i \in 1 .. Len(e) /\ i - 1 \in 1 .. Len(e)
        BY <1>1, <3>1
      <4>2. QED
        BY <1>1, <1>3, <4>1 DEF Chained
    <3>2. CASE i = Len(e) + 1
      <4>1. /\ Len(e) > 0 /\ Len(s) > 0 /\ i - 1 = Len(e)
            /\ Len(e) \in 1 .. Len(e) /\ 1 \in 1 .. Len(s)
        BY <1>1, <3>2
      <4>2. QED
        BY <1>1, <1>3, <3>2, <4>1 DEF Link
    <3>3. CASE i > Len(e) + 1
      <4> DEFINE j == i - Len(e)
      <4>1. j \in 2 .. Len(s) /\ j \in 1 .. Len(s) /\ j - 1 \in 1 .. Len(s)
            /\ i = Len(e) + j /\ i - 1 = Len(e) + (j - 1)
        BY <1>1, <3>3
      <4> HIDE DEF j
      <4>2. u[i] = s[j] /\ u[i - 1] = s[j - 1]
        BY <1>1, <4>1
      <4>3. QED
        BY <1>3, <4>1, <4>2 DEF Chained
    <3>4. QED
      BY <1>1, <3>1, <3>2, <3>3
  <2>2. QED
    BY <2>1 DEF Chained
<1>4. QED
  BY <1>2, <1>3 DEF u

(* The last packet of two sequences is that of the second, unless empty.   *)
LEMMA EndsConcat ==
  ASSUME NEW e \in Seq(Content), NEW s \in Seq(Content), NEW c
  PROVE  Ends(e \o s, c) <=> IF Len(s) > 0 THEN Ends(s, c) ELSE Ends(e, c)
<1>1. /\ Len(e \o s) = Len(e) + Len(s) /\ Len(e) \in Nat /\ Len(s) \in Nat
      /\ \A i \in 1 .. Len(e) : (e \o s)[i] = e[i]
      /\ \A i \in 1 .. Len(s) : (e \o s)[Len(e) + i] = s[i]
  BY ConcatProperties, LenProperties
<1>2. CASE Len(s) > 0
  <2>1. (e \o s)[Len(e) + Len(s)] = s[Len(s)]
    BY <1>1, <1>2
  <2>2. QED
    BY <1>1, <1>2, <2>1 DEF Ends
<1>3. CASE Len(s) = 0
  <2>1. Len(e) > 0 => (e \o s)[Len(e)] = e[Len(e)]
    BY <1>1
  <2>2. QED
    BY <1>1, <1>3, <2>1 DEF Ends
<1>4. QED
  BY <1>1, <1>2, <1>3

(* The host reads the first packet.                                        *)
LEMMA ChainTail ==
  ASSUME NEW e \in Seq(Content), e # <<>>, NEW s \in Seq(Content), Chained(e \o s)
  PROVE  /\ Tail(e) \in Seq(Content) /\ Chained(Tail(e) \o s)
         /\ \A c : Ends(e \o s, c) => Ends(Tail(e) \o s, c)
<1> DEFINE t == Tail(e)
<1>1. /\ t \in Seq(Content) /\ Len(t) = Len(e) - 1 /\ Len(e) \in Nat
      /\ \A i \in 1 .. Len(t) : t[i] = e[i + 1]
  BY HeadTailProperties, LenProperties
<1>2. Chained(e) /\ Chained(s) /\ Link(e, s)
  BY ChainConcat
<1> HIDE DEF t
<1>3. Chained(t)
  <2>1. ASSUME NEW i \in 2 .. Len(t) PROVE Succeeds(t[i - 1], t[i])
    <3>1. /\ i \in 1 .. Len(t) /\ i - 1 \in 1 .. Len(t) /\ i + 1 \in 2 .. Len(e)
          /\ (i - 1) + 1 = (i + 1) - 1
      BY <1>1
    <3>2. t[i] = e[i + 1] /\ t[i - 1] = e[(i + 1) - 1]
      BY <1>1, <3>1
    <3>3. QED
      BY <1>2, <3>1, <3>2 DEF Chained
  <2>2. QED
    BY <2>1 DEF Chained
<1>4. Len(t) > 0 => t[Len(t)] = e[Len(e)]
  BY <1>1
<1>5. Link(t, s)
  BY <1>1, <1>2, <1>4 DEF Link
<1>6. \A c : Ends(e \o s, c) => Ends(t \o s, c)
  <2>1. \A c : Ends(e, c) => Ends(t, c)
    BY <1>1, <1>4 DEF Ends
  <2>2. QED
    BY <1>1, <2>1, EndsConcat
<1>7. QED
  BY <1>1, <1>2, <1>3, <1>5, <1>6, ChainConcat DEF t

(* A packet that opens no run is put in the place of another.              *)
LEMMA ChainReplace ==
  ASSUME NEW s \in Seq(Content), NEW t \in Seq(Content), NEW k \in 1 .. Len(s),
         Len(t) = Len(s), \A i \in 1 .. Len(s) : i # k => t[i] = s[i],
         t[k].kind \notin {"BR", "SPECAN"}, Chained(s)
  PROVE  Chained(t)
<1>1. Len(s) \in Nat
  BY LenProperties
<1>2. ASSUME NEW i \in 2 .. Len(s) PROVE Succeeds(t[i - 1], t[i])
  <2>1. i \in 1 .. Len(s) /\ i - 1 \in 1 .. Len(s)
    BY <1>1
  <2>2. CASE i = k \/ i - 1 = k
    BY <2>2 DEF Succeeds
  <2>3. CASE i # k /\ i - 1 # k
    BY <2>1, <2>3 DEF Chained
  <2>4. QED
    BY <2>2, <2>3
<1>3. QED
  BY <1>2 DEF Chained

-----------------------------------------------------------------------------
(* What the steps of the ring do to its contents.                          *)

(* The i-th oldest packet is in the slot i - 1 ahead of the head.          *)
LEMMA OldestAt ==
  ASSUME NEW q \in Ring, NEW n \in 0 .. Used(q), NEW i \in 1 .. n
  PROVE  /\ Oldest(q, n)[i] = q.fifo[(q.head + (i - 1)) % Slots]
         /\ i - 1 \in Index /\ q.head \in Index /\ i - 1 < Used(q)
<1>1. Used(q) \in Index /\ q.head \in Index /\ Slots \in Nat
  BY InQueue, FirmwareAssumption DEF Ring
<1>2. q.head + i - 1 = q.head + (i - 1) /\ i - 1 \in Index /\ i - 1 < Used(q)
  BY <1>1 DEF Index
<1>3. Oldest(q, n)[i] = q.fifo[(q.head + i - 1) % Slots]
  BY DEF Oldest
<1>4. QED
  BY <1>1, <1>2, <1>3

(* The ring holds as many packets as it has slots in use.                  *)
LEMMA ContentsType ==
  ASSUME NEW q \in Ring
  PROVE  Contents(q) \in Seq(Content) /\ Len(Contents(q)) = Used(q) /\ Used(q) \in Nat
<1>1. Used(q) \in 0 .. Used(q) /\ Used(q) \in Nat
  BY InQueue DEF Index
<1>2. QED
  BY <1>1, OldestType DEF Contents

(* The slot j ahead of h is t when t is j ahead of h.                       *)
LEMMA SlotAhead ==
  ASSUME NEW h \in Index, NEW j \in Index, NEW t \in Index
  PROVE  (h + j) % Slots = t <=> j = Ahead(t, h)
<1>1. (h + j) % Slots = IF h + j < Slots THEN h + j ELSE h + j - Slots
  BY IndexSum
<1>2. QED
  BY <1>1, FirmwareAssumption DEF Index, Ahead

(* A slot n + j ahead of h is j ahead of the slot n ahead of h.            *)
LEMMA SlotSum ==
  ASSUME NEW h \in Index, NEW n \in Index, NEW j \in Index, n + j \in Index
  PROVE  (((h + n) % Slots) + j) % Slots = (h + (n + j)) % Slots
<1> DEFINE g == (h + n) % Slots
<1>1. g = (IF h + n < Slots THEN h + n ELSE h + n - Slots) /\ g \in Index
  BY IndexSum, SumInIndex
<1> HIDE DEF g
<1>2. (g + j) % Slots = IF g + j < Slots THEN g + j ELSE g + j - Slots
  BY <1>1, IndexSum
<1>3. (h + (n + j)) % Slots = IF h + (n + j) < Slots THEN h + (n + j) ELSE h + (n + j) - Slots
  BY IndexSum
<1>4. (g + j) % Slots = (h + (n + j)) % Slots
  BY <1>1, <1>2, <1>3, FirmwareAssumption DEF Index
<1>5. QED
  BY <1>4 DEF g

(* What the ring holds reaches from the head to the tail.                  *)
LEMMA UsedAhead ==
  ASSUME NEW q \in Ring PROVE Used(q) = Ahead(q.tail, q.head)
<1>1. q.head \in Index /\ q.tail \in Index
  BY DEF Ring
<1>2. (q.tail - q.head) % Slots = IF q.head <= q.tail THEN q.tail - q.head
                                 ELSE q.tail - q.head + Slots
  BY <1>1, IndexSum
<1>3. QED
  BY <1>2 DEF Used, Ahead

(* usb_enqueue appends the packet that its slot is filled with.            *)
LEMMA ContentsEnqueued ==
  ASSUME NEW q \in Ring, ~Full(q), NEW x \in Content, NEW p \in Ring,
         p.head = q.head, p.tail = (q.tail + 1) % Slots,
         p.fifo = [q.fifo EXCEPT ![q.tail] = x]
  PROVE  Contents(p) = Append(Contents(q), x) /\ Used(p) = Used(q) + 1
<1>1. /\ q.head \in Index /\ q.tail \in Index /\ p.tail \in Index /\ 1 \in Index
      /\ q.fifo \in [Index -> Content] /\ Used(q) \in Index /\ Used(p) \in Index
  <2>1. Used(q) \in Index /\ Used(p) \in Index
    BY InQueue
  <2>2. 1 \in Index
    BY FirmwareAssumption DEF Index
  <2>3. QED
    BY <2>1, <2>2 DEF Ring
<1>2. p.tail = IF q.tail + 1 < Slots THEN q.tail + 1 ELSE q.tail + 1 - Slots
  BY <1>1, IndexSum
<1>3. p.tail # q.head
  BY DEF Full
<1>4. Used(q) = Ahead(q.tail, q.head) /\ Used(p) = Ahead(p.tail, q.head)
  BY UsedAhead
<1>5. Used(p) = Used(q) + 1
  BY <1>1, <1>2, <1>3, <1>4, AheadNext
<1> DEFINE s == Append(Contents(q), x)
<1>6. /\ s \in Seq(Content) /\ Len(s) = Used(q) + 1 /\ s[Used(q) + 1] = x
      /\ \A i \in 1 .. Used(q) : s[i] = Contents(q)[i]
  BY ContentsType, AppendProperties
<1>7. Contents(p) \in Seq(Content) /\ Len(Contents(p)) = Used(q) + 1
  BY <1>5, ContentsType
<1> HIDE DEF s
<1>8. ASSUME NEW i \in 1 .. Used(q) + 1 PROVE Contents(p)[i] = s[i]
  <2>1. /\ Contents(p)[i] = p.fifo[(q.head + (i - 1)) % Slots] /\ i - 1 \in Index
        /\ (q.head + (i - 1)) % Slots \in Index
    <3>1. Used(p) \in 0 .. Used(p) /\ i \in 1 .. Used(p)
      BY <1>1, <1>5 DEF Index
    <3>2. QED
      BY <1>1, <3>1, OldestAt, SumInIndex DEF Contents
  <2>2. CASE i = Used(q) + 1
    <3>1. i - 1 = Ahead(q.tail, q.head)
      BY <1>1, <1>4, <2>2 DEF Index
    <3>2. (q.head + (i - 1)) % Slots = q.tail
      BY <1>1, <2>1, <3>1, SlotAhead
    <3>3. QED
      BY <1>1, <1>6, <2>1, <2>2, <3>2
  <2>3. CASE i \in 1 .. Used(q)
    <3>1. i - 1 # Ahead(q.tail, q.head)
      BY <1>1, <1>4, <2>3 DEF Index
    <3>2. (q.head + (i - 1)) % Slots # q.tail
      BY <1>1, <2>1, <3>1, SlotAhead
    <3>3. Contents(q)[i] = q.fifo[(q.head + (i - 1)) % Slots]
      <4>1. Used(q) \in 0 .. Used(q)
        BY <1>1 DEF Index
      <4>2. QED
        BY <2>3, <4>1, OldestAt DEF Contents
    <3>4. QED
      BY <1>1, <1>6, <2>1, <2>3, <3>2, <3>3
  <2>4. QED
    BY <1>1, <2>2, <2>3 DEF Index
<1>9. Contents(p) = s
  BY <1>6, <1>7, <1>8, SeqEqual
<1>10. QED
  BY <1>5, <1>9 DEF s

(* What has been taken out and what is left are what there was.            *)
LEMMA ContentsDequeued ==
  ASSUME NEW q \in Ring, NEW n \in 0 .. Used(q)
  PROVE  /\ Used(dequeue(q, n)) = Used(q) - n
         /\ Oldest(q, n) \o Contents(dequeue(q, n)) = Contents(q)
         /\ \A i \in 1 .. Used(q) - n : Contents(dequeue(q, n))[i] = Contents(q)[n + i]
<1> DEFINE d == dequeue(q, n)
<1>1. /\ q.head \in Index /\ q.tail \in Index /\ Used(q) \in Index /\ n \in Index
      /\ n <= Used(q) /\ Slots \in Nat
  BY InQueue, FirmwareAssumption DEF Ring, Index
<1>2. d.head = (q.head + n) % Slots /\ d.tail = q.tail
  BY DEF dequeue
<1>3. /\ d \in Ring
      /\ \A i \in Queued(d) : d.fifo[i] = q.fifo[i]
  BY Dequeued
<1> HIDE DEF d
<1>4. d.head \in Index
      /\ d.head = IF q.head + n < Slots THEN q.head + n ELSE q.head + n - Slots
  BY <1>1, <1>2, IndexSum, SumInIndex
<1>5. Used(q) = Ahead(q.tail, q.head) /\ Used(d) = Ahead(q.tail, d.head)
  BY <1>2, <1>3, UsedAhead
<1>6. Used(d) = Used(q) - n
  <2>1. n <= Ahead(q.tail, q.head)
    BY <1>1, <1>5
  <2>2. Ahead(q.tail, d.head) = Ahead(q.tail, q.head) - n
    BY <1>1, <1>4, <2>1, FirmwareAssumption DEF Ahead, Index
  <2>3. QED
    BY <1>5, <2>2
<1>7. ASSUME NEW i \in 1 .. Used(q) - n PROVE Contents(d)[i] = Contents(q)[n + i]
  <2> DEFINE j == i - 1
  <2>1. /\ i \in 1 .. Used(d) /\ Used(d) \in 0 .. Used(d) /\ Used(q) \in 0 .. Used(q)
        /\ n + i \in 1 .. Used(q) /\ (n + i) - 1 = n + j
    BY <1>1, <1>6 DEF Index
  <2>2. /\ Contents(d)[i] = d.fifo[(d.head + j) % Slots]
        /\ j \in Index /\ j < Used(d)
    BY <1>3, <2>1, OldestAt DEF Contents
  <2>3. Contents(q)[n + i] = q.fifo[(q.head + (n + j)) % Slots] /\ n + j \in Index
    BY <2>1, OldestAt DEF Contents
  <2> HIDE DEF j
  <2>4. (d.head + j) % Slots = (q.head + (n + j)) % Slots
    <3>1. (((q.head + n) % Slots) + j) % Slots = (q.head + (n + j)) % Slots
      BY <1>1, <2>2, <2>3, SlotSum
    <3>2. QED
      BY <1>2, <3>1
  <2>5. (d.head + j) % Slots \in Queued(d)
    BY <2>1, <2>2 DEF Queued, Index
  <2>6. QED
    BY <1>3, <2>2, <2>3, <2>4, <2>5
<1> DEFINE o == Oldest(q, n)
           u == o \o Contents(d)
<1>8. /\ Contents(d) \in Seq(Content) /\ Len(Contents(d)) = Used(q) - n
      /\ o \in Seq(Content) /\ Len(o) = n
      /\ Contents(q) \in Seq(Content) /\ Len(Contents(q)) = Used(q)
  BY <1>3, <1>6, ContentsType, OldestType
<1>9. ASSUME NEW i \in 1 .. n PROVE o[i] = Contents(q)[i]
  <2>1. i \in 1 .. Used(q) /\ Used(q) \in 0 .. Used(q)
    BY <1>1 DEF Index
  <2>2. QED
    BY <2>1, OldestAt DEF Contents
<1> HIDE DEF o
<1>10. /\ u \in Seq(Content) /\ Len(u) = Used(q)
       /\ \A i \in 1 .. Used(q) : u[i] = IF i <= n THEN o[i] ELSE Contents(d)[i - n]
  <2>1. Len(o) + Len(Contents(d)) = Used(q)
    BY <1>1, <1>8 DEF Index
  <2>2. QED
    BY <1>8, <2>1, ConcatProperties
<1> HIDE DEF u
<1>11. ASSUME NEW i \in 1 .. Used(q) PROVE u[i] = Contents(q)[i]
  <2>1. CASE i <= n
    <3>1. i \in 1 .. n
      BY <1>1, <2>1 DEF Index
    <3>2. QED
      BY <1>9, <1>10, <2>1, <3>1
  <2>2. CASE i > n
    <3>1. i - n \in 1 .. Used(q) - n /\ n + (i - n) = i
      BY <1>1, <2>2 DEF Index
    <3>2. u[i] = Contents(d)[i - n]
      BY <1>1, <1>10, <2>2 DEF Index
    <3>3. QED
      BY <1>7, <3>1, <3>2
  <2>3. QED
    BY <1>1, <2>1, <2>2 DEF Index
<1>12. u = Contents(q)
  BY <1>8, <1>10, <1>11, SeqEqual
<1>13. QED
  BY <1>6, <1>7, <1>12 DEF d, o, u

(* Filling the i-th oldest slot replaces the packet it holds.              *)
LEMMA ContentsFilled ==
  ASSUME NEW q \in Ring, NEW x \in Content, NEW i \in 1 .. Used(q), NEW p \in Ring, NEW k \in Index,
         k = (q.head + (i - 1)) % Slots,
         p.head = q.head, p.tail = q.tail, p.fifo = [q.fifo EXCEPT ![k] = x]
  PROVE  /\ Used(p) = Used(q) /\ Contents(p)[i] = x
         /\ \A j \in 1 .. Used(q) : j # i => Contents(p)[j] = Contents(q)[j]
<1>1. /\ q.head \in Index /\ Used(q) \in Index /\ Used(q) \in 0 .. Used(q)
      /\ q.fifo \in [Index -> Content] /\ i \in Nat
  BY InQueue DEF Ring, Index
<1>2. Used(p) = Used(q)
  BY DEF Used
<1>3. ASSUME NEW j \in 1 .. Used(q)
      PROVE  /\ Contents(p)[j] = p.fifo[(q.head + (j - 1)) % Slots]
             /\ Contents(q)[j] = q.fifo[(q.head + (j - 1)) % Slots]
             /\ j - 1 \in Index /\ (q.head + (j - 1)) % Slots \in Index
  BY <1>1, <1>2, OldestAt, SumInIndex DEF Contents
<1>4. i - 1 \in Index /\ k \in Index
  BY <1>3
<1>5. Contents(p)[i] = x
  BY <1>1, <1>3, <1>4
<1>6. ASSUME NEW j \in 1 .. Used(q), j # i PROVE Contents(p)[j] = Contents(q)[j]
  <2>1. j - 1 # i - 1 /\ j - 1 \in Index
    BY <1>1, <1>3, <1>6
  <2>2. i - 1 = Ahead(k, q.head)
    BY <1>1, <1>4, SlotAhead
  <2>3. (q.head + (j - 1)) % Slots # k
    BY <1>1, <1>4, <2>1, <2>2, SlotAhead
  <2>4. QED
    BY <1>1, <1>3, <2>3
<1>7. QED
  BY <1>2, <1>5, <1>6

(* The slots in use are those of the packets in the ring.                  *)
LEMMA QueuedAt ==
  ASSUME NEW q \in Ring, NEW k \in Queued(q)
  PROVE  \E i \in 1 .. Used(q) : k = (q.head + (i - 1)) % Slots
<1>1. PICK m \in 0 .. Used(q) - 1 : k = (q.head + m) % Slots
  BY DEF Queued
<1>2. Used(q) \in Nat
  BY InQueue DEF Index
<1>3. m + 1 \in 1 .. Used(q) /\ (m + 1) - 1 = m
  BY <1>2
<1>4. QED
  BY <1>1, <1>3

(* usb_queue_init leaves an empty ring.                                    *)
LEMMA ContentsEmpty ==
  Used(usb_queue_init) = 0 /\ Contents(usb_queue_init) \in Seq(Content)
    /\ Len(Contents(usb_queue_init)) = 0
<1>1. 0 \in Index
  BY FirmwareAssumption DEF Index
<1>2. Used(usb_queue_init) = 0
  BY <1>1, IndexSum DEF Used, usb_queue_init
<1>3. QED
  BY <1>2, EmptyRing, ContentsType

(* A full ring is not empty.                                               *)
LEMMA FullUsed ==
  ASSUME NEW q \in Ring, Full(q) PROVE Used(q) # 0
<1>1. q.head \in Index /\ q.tail \in Index
  BY DEF Ring
<1>2. 1 \in Index
  BY FirmwareAssumption DEF Index
<1>3. q.head = IF q.tail + 1 < Slots THEN q.tail + 1 ELSE q.tail + 1 - Slots
  BY <1>1, <1>2, IndexSum DEF Full
<1>4. Ahead(q.tail, q.head) # 0
  BY <1>1, <1>3, FirmwareAssumption DEF Index, Ahead
<1>5. QED
  BY <1>4, UsedAhead

(* POLL cuts the oldest packet off, and the next one starts a run.         *)
LEMMA TakeOutContents ==
  ASSUME NEW q \in Ring, Used(q) > 0
  PROVE  /\ TakeOut(q) \in Ring /\ Used(TakeOut(q)) = Used(q) - 1
         /\ \A i \in 2 .. Used(q) - 1 : Contents(TakeOut(q))[i] = Contents(q)[i + 1]
         /\ Used(q) > 1 =>
              LET x == Contents(TakeOut(q))[1]
              IN x = Blank \/ /\ x.kind = Contents(q)[2].kind
                              /\ x.n = Contents(q)[2].n /\ x.gap = "start"
<1> DEFINE d == dequeue(q, 1)
           t == TakeOut(q)
           y == d.fifo[d.head]
           x == [y EXCEPT !.gap = "start"]
<1>1. 1 \in 0 .. Used(q) /\ Used(q) \in Nat
  BY InQueue DEF Index
<1>2. /\ d \in Ring /\ t \in Ring
  BY <1>1, DequeueStep, TakeOutStep
<1>3. /\ Used(d) = Used(q) - 1
      /\ \A i \in 1 .. Used(q) - 1 : Contents(d)[i] = Contents(q)[1 + i]
  BY <1>1, ContentsDequeued
<1>4. t = IF Used(d) > 0 /\ y # Blank THEN [d EXCEPT !.fifo[d.head] = x] ELSE d
  BY DEF TakeOut
<1>5. Used(d) > 0 => Contents(d)[1] = y
  <2>1. SUFFICES ASSUME Used(d) > 0 PROVE Contents(d)[1] = y
    OBVIOUS
  <2>2. 1 \in 1 .. Used(d) /\ Used(d) \in 0 .. Used(d) /\ 1 - 1 = 0
    BY <1>1, <1>3, <2>1
  <2>3. Contents(d)[1] = d.fifo[(d.head + (1 - 1)) % Slots] /\ 1 - 1 \in Index /\ d.head \in Index
    BY <1>2, <2>2, OldestAt DEF Contents
  <2>4. (d.head + 0) % Slots = IF d.head + 0 < Slots THEN d.head + 0 ELSE d.head + 0 - Slots
    BY <2>2, <2>3, IndexSum
  <2>5. (d.head + 0) % Slots = d.head
    BY <2>3, <2>4, FirmwareAssumption DEF Index
  <2>6. QED
    BY <2>2, <2>3, <2>5
<1> HIDE DEF d, t
<1>6. CASE ~(Used(d) > 0 /\ y # Blank)
  <2>1. t = d
    BY <1>4, <1>6
  <2>2. Used(q) > 1 => Used(d) > 0
    BY <1>1, <1>3
  <2>3. \A i \in 2 .. Used(q) - 1 : i \in 1 .. Used(q) - 1 /\ 1 + i = i + 1
    BY <1>1
  <2>4. QED
    BY <1>2, <1>3, <1>5, <1>6, <2>1, <2>2, <2>3 DEF t
<1>7. CASE Used(d) > 0 /\ y # Blank
  <2>1. t = [d EXCEPT !.fifo[d.head] = x]
    BY <1>4, <1>7
  <2> HIDE DEF x, y
  <2>2. /\ d.head \in Index /\ d.fifo \in [Index -> Content]
        /\ DOMAIN d = {"head", "tail", "fifo"}
    BY <1>2 DEF Ring
  <2>3. t.head = d.head /\ t.tail = d.tail /\ t.fifo = [d.fifo EXCEPT ![d.head] = x]
    BY <1>2, <2>1 DEF Ring
  <2>4. 1 \in 1 .. Used(d) /\ d.head = (d.head + (1 - 1)) % Slots
    <3>1. 1 \in 1 .. Used(d) /\ 1 - 1 = 0 /\ 0 \in Index
      BY <1>1, <1>3, <1>7, FirmwareAssumption DEF Index
    <3>2. (d.head + 0) % Slots = IF d.head + 0 < Slots THEN d.head + 0 ELSE d.head + 0 - Slots
      BY <2>2, <3>1, IndexSum
    <3>3. (d.head + 0) % Slots = d.head
      BY <2>2, <3>2, FirmwareAssumption DEF Index
    <3>4. QED
      BY <3>1, <3>3
  <2>6. /\ Used(t) = Used(d) /\ Contents(t)[1] = x
        /\ \A j \in 1 .. Used(d) : j # 1 => Contents(t)[j] = Contents(d)[j]
    <3> DEFINE k == d.head
               i == 1
    <3>1. k = (d.head + (i - 1)) % Slots /\ i \in 1 .. Used(d)
      BY <2>4
    <3>2. t.fifo = [d.fifo EXCEPT ![k] = x]
      BY <2>3
    <3>3. /\ d \in Ring /\ t \in Ring /\ t.head = d.head /\ t.tail = d.tail
          /\ k \in Index /\ x \in Content
      <4>1. t.fifo \in [Index -> Content] /\ t.fifo[d.head] = x
        BY <1>2, <2>2, <2>3 DEF Ring
      <4>2. QED
        BY <1>2, <2>2, <2>3, <4>1
    <3> HIDE DEF i, k
    <3>4. /\ Used(t) = Used(d) /\ Contents(t)[i] = x
          /\ \A j \in 1 .. Used(d) : j # i => Contents(t)[j] = Contents(d)[j]
      BY <3>1, <3>2, <3>3, ContentsFilled
    <3>5. QED
      BY <3>4 DEF i
  <2>8. \A j \in 2 .. Used(q) - 1 : /\ j \in 1 .. Used(q) - 1 /\ j # 1
                                    /\ 1 + j = j + 1
    BY <1>1
  <2>9. \A j \in 2 .. Used(q) - 1 : Contents(t)[j] = Contents(q)[j + 1]
    BY <1>3, <2>6, <2>8
  <2>10. y = Contents(q)[2]
    <3>1. 1 \in 1 .. Used(q) - 1 /\ 1 + 1 = 2
      BY <1>1, <1>3, <1>7
    <3>2. QED
      BY <1>3, <1>5, <1>7, <3>1
  <2>11. x.kind = y.kind /\ x.n = y.n /\ x.gap = "start"
    <3>1. y \in Content
      BY <2>2 DEF y
    <3>2. y \in Packet
      BY <1>7, <3>1 DEF Content
    <3>3. ASSUME NEW z \in Packet
          PROVE  LET w == [z EXCEPT !.gap = "start"]
                 IN w.kind = z.kind /\ w.n = z.n /\ w.gap = "start"
      BY DEF Packet
    <3>4. QED
      BY <3>2, <3>3 DEF x
  <2>12. QED
    BY <1>2, <1>3, <2>6, <2>9, <2>10, <2>11 DEF t
<1>8. QED
  BY <1>6, <1>7

-----------------------------------------------------------------------------
(* The order of the packets through the steps of the firmware.             *)

(* The endpoint and the ring hold one chain.                               *)
Ordered(e, q) == Chained(e \o Contents(q))

(* c is the number of the next packet of the run, or the run has enqueued  *)
(* none and the ring is empty.                                             *)
Counted(e, q, m, c) ==
  IF m = "start" THEN Used(q) = 0 ELSE Ends(e \o Contents(q), c)

(* An emptied ring.                                                        *)
LEMMA OrderEmpty ==
  ASSUME NEW e \in Seq(Content), NEW q \in Ring, Ordered(e, q), NEW p \in Ring, Used(p) = 0
  PROVE  Ordered(e, p)
<1>1. /\ Contents(p) \in Seq(Content) /\ Len(Contents(p)) = 0 /\ Contents(q) \in Seq(Content)
  BY ContentsType
<1>2. Chained(e)
  BY <1>1, ChainConcat DEF Ordered
<1>3. Chained(Contents(p)) /\ Link(e, Contents(p))
  BY <1>1 DEF Chained, Link
<1>4. QED
  BY <1>1, <1>2, <1>3, ChainConcat DEF Ordered

(* POLL takes the oldest packet of the ring out.                           *)
LEMMA OrderTakeOut ==
  ASSUME NEW e \in Seq(Content), NEW q \in Ring, Used(q) > 0, Ordered(e, q)
  PROVE  /\ Ordered(e, TakeOut(q))
         /\ \A c : Used(q) > 1 /\ Ends(e \o Contents(q), c)
                     => Ends(e \o Contents(TakeOut(q)), c)
<1> DEFINE s == Contents(q)
           t == Contents(TakeOut(q))
<1>1. /\ s \in Seq(Content) /\ Len(s) = Used(q) /\ Used(q) \in Nat
      /\ t \in Seq(Content) /\ Len(t) = Used(q) - 1
  BY ContentsType, TakeOutContents
<1>2. \A i \in 2 .. Used(q) - 1 : t[i] = s[i + 1]
  BY TakeOutContents
<1>3. Used(q) > 1 => \/ t[1] = Blank
                     \/ t[1].kind = s[2].kind /\ t[1].n = s[2].n /\ t[1].gap = "start"
  BY TakeOutContents
<1> HIDE DEF s, t
<1>4. Chained(e) /\ Chained(s)
  BY <1>1, ChainConcat DEF Ordered, s
<1>5. Blank.kind = "none"
  BY DEF Blank
<1>6. Chained(t)
  <2>1. ASSUME NEW i \in 2 .. Len(t) PROVE Succeeds(t[i - 1], t[i])
    <3>1. i \in 2 .. Used(q) - 1 /\ i + 1 \in 2 .. Len(s) /\ (i + 1) - 1 = i
      BY <1>1
    <3>2. Succeeds(s[i], s[i + 1]) /\ t[i] = s[i + 1]
      BY <1>2, <1>4, <3>1 DEF Chained
    <3>3. CASE i = 2
      <4>1. i - 1 = 1 /\ Used(q) > 1
        BY <1>1, <3>1, <3>3
      <4>2. QED
        BY <1>3, <1>5, <3>2, <3>3, <4>1 DEF Succeeds
    <3>4. CASE i # 2
      <4>1. i - 1 \in 2 .. Used(q) - 1 /\ (i - 1) + 1 = i
        BY <1>1, <3>1, <3>4
      <4>2. t[i - 1] = s[i]
        BY <1>2, <4>1
      <4>3. QED
        BY <3>2, <4>2
    <3>5. QED
      BY <3>3, <3>4
  <2>2. QED
    BY <2>1 DEF Chained
<1>7. Link(e, t)
  <2>1. Len(t) > 0 => Used(q) > 1
    BY <1>1
  <2>2. QED
    BY <1>3, <1>5, <2>1 DEF Link, Succeeds
<1>8. ASSUME NEW c, Used(q) > 1, Ends(s, c) PROVE Ends(t, c)
  <2>1. CASE Used(q) = 2
    <3>1. Len(t) = 1 /\ Len(s) = 2
      BY <1>1, <2>1
    <3>2. QED
      BY <1>3, <1>5, <1>8, <3>1 DEF Ends
  <2>2. CASE Used(q) # 2
    <3>1. Len(t) \in 2 .. Used(q) - 1 /\ Len(t) + 1 = Len(s) /\ Len(s) > 0
      BY <1>1, <1>8, <2>2
    <3>2. t[Len(t)] = s[Len(s)]
      BY <1>2, <3>1
    <3>3. QED
      BY <1>8, <3>1, <3>2 DEF Ends
  <2>3. QED
    BY <2>1, <2>2
<1>9. ASSUME NEW c, Used(q) > 1, Ends(e \o s, c) PROVE Ends(e \o t, c)
  <2>1. Len(s) > 0 /\ Len(t) > 0
    BY <1>1, <1>9
  <2>2. Ends(s, c)
    BY <1>1, <1>9, <2>1, EndsConcat
  <2>3. QED
    BY <1>1, <1>8, <1>9, <2>1, <2>2, EndsConcat
<1>10. Chained(e \o t)
  BY <1>1, <1>4, <1>6, <1>7, ChainConcat
<1>11. QED
  BY <1>9, <1>10 DEF Ordered, s, t

(* A vendor request, with c the number of the next packet of the run.      *)
LEMMA OrderHandler ==
  ASSUME NEW e \in Seq(Content), NEW q \in Ring, NEW m, NEW c,
         vendor_request_handler(q, m), queue' \in Ring, Ordered(e, q)
  PROVE  /\ Ordered(e, queue')
         /\ Counted(e, q, m, c) => Counted(e, queue', missed', c)
<1>1. Used(q) \in Nat
  BY ContentsType
<1>2. CASE pending \in Clearing
  <2>1. queue' = usb_queue_init /\ missed' = "start"
    BY <1>2 DEF vendor_request_handler, Clearing
  <2>2. Used(queue') = 0
    BY <2>1, ContentsEmpty
  <2>3. QED
    BY <2>1, <2>2, OrderEmpty DEF Counted
<1>3. CASE pending = "POLL" /\ Used(q) > 0
  <2>1. pending \notin Clearing
    BY <1>3 DEF Clearing
  <2>2. /\ queue' = TakeOut(q)
        /\ missed' = IF Used(q) = 1 THEN "start" ELSE m
    BY <1>3, <2>1 DEF vendor_request_handler, Clearing
  <2>3. Ordered(e, queue')
    BY <1>3, <2>2, OrderTakeOut
  <2>4. CASE Used(q) = 1
    <3>1. Used(queue') = 0 /\ missed' = "start"
      BY <1>3, <2>2, <2>4, TakeOutContents
    <3>2. QED
      BY <2>3, <3>1 DEF Counted
  <2>5. CASE Used(q) # 1
    <3>1. Used(q) > 1 /\ Used(q) # 0 /\ missed' = m
      BY <1>1, <1>3, <2>2, <2>5
    <3>2. QED
      BY <1>3, <2>2, <2>3, <3>1, OrderTakeOut DEF Counted
  <2>6. QED
    BY <2>4, <2>5
<1>4. CASE pending \notin Clearing /\ ~(pending = "POLL" /\ Used(q) > 0)
  <2>1. queue' = q
    BY <1>4 DEF vendor_request_handler, Clearing
  <2>2. missed' = m
    BY <1>1, <1>4 DEF vendor_request_handler, Clearing
  <2>3. QED
    BY <2>1, <2>2
<1>5. QED
  BY <1>2, <1>3, <1>4

(* None of none.                                                           *)
LEMMA NoneLeft ==
  ASSUME NEW u \in Nat, NEW n \in Nat, n <= u PROVE u = 0 => u - n = 0
  OBVIOUS

(* A poll of USB.                                                          *)
LEMMA OrderPoll ==
  ASSUME ep \in Seq(Content), Len(ep) <= 2, NEW q \in Ring, NEW m, NEW c,
         handle_usb(q, m), queue' \in Ring, Ordered(ep, q)
  PROVE  /\ Ordered(ep', queue')
         /\ Counted(ep, q, m, c) => Counted(ep', queue', missed', c)
<1>1. PICK n \in 0 .. Used(q) :
        ep' = ep \o Oldest(q, n) /\ vendor_request_handler(dequeue(q, n), m)
  <2> DEFINE free == 2 - Len(ep)
             k == IF Used(q) < free THEN Used(q) ELSE free
  <2>1. Used(q) \in Nat /\ Len(ep) \in Nat
    BY ContentsType, LenProperties
  <2>2. k \in 0 .. Used(q)
    BY <2>1
  <2>3. ep' = ep \o Oldest(q, k) /\ vendor_request_handler(dequeue(q, k), m)
    BY DEF handle_usb
  <2> HIDE DEF k
  <2>4. QED
    BY <2>2, <2>3
<1> DEFINE d == dequeue(q, n)
           o == Oldest(q, n)
<1>2. ep' = ep \o o /\ vendor_request_handler(d, m)
  BY <1>1
<1>3. d \in Ring /\ o \in Seq(Content)
  BY Dequeued, OldestType
<1>4. Used(d) = Used(q) - n /\ o \o Contents(d) = Contents(q)
  BY ContentsDequeued
<1>5. Contents(d) \in Seq(Content)
  BY <1>3, ContentsType
<1> HIDE DEF d, o
<1>6. ep' \in Seq(Content) /\ ep' \o Contents(d) = ep \o Contents(q)
  <2>1. (ep \o o) \o Contents(d) = ep \o (o \o Contents(d))
    BY <1>3, <1>5, ConcatAssociative
  <2>2. ep \o o \in Seq(Content)
    BY <1>3, ConcatProperties
  <2>3. QED
    BY <1>2, <1>4, <2>1, <2>2
<1>7. Ordered(ep', d)
  BY <1>6 DEF Ordered
<1>8. Counted(ep, q, m, c) => Counted(ep', d, m, c)
  <2>1. Used(q) = 0 => Used(d) = 0
    <3>1. Used(d) = Used(q) - n
      BY <1>4
    <3>2. Used(q) \in Nat /\ n \in Nat /\ n <= Used(q)
      BY ContentsType
    <3>3. QED
      BY <3>1, <3>2, NoneLeft, Zenon
  <2>2. QED
    BY <1>6, <2>1 DEF Counted
<1>9. QED
  BY <1>2, <1>3, <1>6, <1>7, <1>8, OrderHandler

(* A packet is appended to the ring: it must follow the last one.          *)
LEMMA OrderAppend ==
  ASSUME NEW e \in Seq(Content), NEW q \in Ring, Ordered(e, q),
         ~Full(q), NEW x \in Content, NEW p \in Ring,
         p.head = q.head, p.tail = (q.tail + 1) % Slots,
         p.fifo = [q.fifo EXCEPT ![q.tail] = x],
         LET u == e \o Contents(q) IN Len(u) > 0 => Succeeds(u[Len(u)], x)
  PROVE  Ordered(e, p) /\ \A c : Ends(<<x>>, c) => Ends(e \o Contents(p), c)
<1> DEFINE u == e \o Contents(q)
<1>1. Contents(q) \in Seq(Content) /\ u \in Seq(Content) /\ <<x>> \in Seq(Content)
  <2>1. Contents(q) \in Seq(Content)
    BY ContentsType
  <2>2. QED
    BY <2>1, ConcatProperties
<1>2. Contents(p) = Append(Contents(q), x)
  BY ContentsEnqueued
<1>3. Contents(p) = Contents(q) \o <<x>>
  BY <1>1, <1>2, AppendIsConcat
<1>4. e \o Contents(p) = u \o <<x>>
  BY <1>1, <1>3, ConcatAssociative
<1>5. Len(<<x>>) = 1 /\ <<x>>[1] = x
  OBVIOUS
<1>6. Chained(u) /\ (Len(u) > 0 => Succeeds(u[Len(u)], x))
  BY DEF Ordered
<1> HIDE DEF u
<1>7. Chained(<<x>>) /\ Link(u, <<x>>)
  BY <1>5, <1>6 DEF Chained, Link
<1>8. Chained(u \o <<x>>)
  BY <1>1, <1>6, <1>7, ChainConcat
<1>9. \A c : Ends(<<x>>, c) => Ends(u \o <<x>>, c)
  <2> DEFINE w == <<x>>
  <2>1. w \in Seq(Content) /\ Len(w) > 0 /\ u \in Seq(Content)
    BY <1>1, <1>5
  <2> HIDE DEF w
  <2>2. \A c : Ends(w, c) => Ends(u \o w, c)
    BY <2>1, EndsConcat
  <2>3. QED
    BY <2>2 DEF w
<1>10. QED
  BY <1>4, <1>8, <1>9 DEF Ordered

(* enqueue numbers a packet as the next of its run.                        *)
LEMMA OrderEnqueue ==
  ASSUME queue \in Ring, ep \in Seq(Content), status \in BOOLEAN,
         count \in 0 .. Window - 1, missed \in {"no", "start", "yes"},
         NEW kind \in {"BR", "SPECAN"}, NEW flag \in BOOLEAN, missed = "yes" => flag,
         Ordered(ep, queue), Counted(ep, queue, missed, count),
         NEW r, r = enqueue(kind, flag)
  PROVE  Ordered(ep, r.queue) /\ Counted(ep, r.queue, r.missed, r.count)
<1>1. CASE Full(queue)
  <2>1. r.queue = queue /\ r.missed = "yes" /\ r.count = count
    BY <1>1 DEF enqueue
  <2>2. Used(queue) # 0
    BY <1>1, FullUsed
  <2>3. Ends(ep \o Contents(queue), count)
    BY <2>2 DEF Counted
  <2>4. QED
    BY <2>1, <2>3 DEF Counted
<1>2. CASE ~Full(queue)
  <2> DEFINE x == NewPacket(kind, flag)
             p == [usb_enqueue(queue) EXCEPT !.fifo[queue.tail] = x]
             u == ep \o Contents(queue)
  <2>1. r.queue = p /\ r.missed = "no" /\ r.count = (count + 1) % Window
    BY <1>2 DEF enqueue
  <2>2. /\ x \in Content /\ x.kind = kind /\ x.n = count /\ x.gap = missed
    BY DEF NewPacket, Content, Packet, Flagged
  <2>3. p \in Ring
    <3>1. enqueue(kind, flag).queue = p
      BY <1>2 DEF enqueue
    <3>2. enqueue(kind, flag).queue \in Ring
      BY EnqueueStep
    <3>3. QED
      BY <3>1, <3>2
  <2> HIDE DEF x
  <2>4. /\ p.head = queue.head /\ p.tail = (queue.tail + 1) % Slots
        /\ p.fifo = [queue.fifo EXCEPT ![queue.tail] = x]
    <3>1. /\ queue.fifo \in [Index -> Content] /\ queue.tail \in Index
          /\ usb_enqueue(queue).fifo = [queue.fifo EXCEPT ![queue.tail] = Blank]
          /\ usb_enqueue(queue).head = queue.head
          /\ usb_enqueue(queue).tail = (queue.tail + 1) % Slots
      BY DEF usb_enqueue, Ring
    <3>2. usb_enqueue(queue) \in Ring
      BY <1>2, Enqueued
    <3>3. /\ p.head = usb_enqueue(queue).head /\ p.tail = usb_enqueue(queue).tail
          /\ p.fifo = [usb_enqueue(queue).fifo EXCEPT ![queue.tail] = x]
      BY <3>2 DEF Ring
    <3>4. QED
      BY <3>1, <3>3
  <2> HIDE DEF p
  <2>5. Len(u) > 0 => Succeeds(u[Len(u)], x)
    <3>1. CASE missed = "start"
      BY <2>2, <3>1 DEF Succeeds
    <3>2. CASE missed # "start"
      <4>1. Ends(u, count)
        BY <3>2 DEF Counted
      <4>2. QED
        BY <2>2, <4>1 DEF Ends, Succeeds
    <3>3. QED
      BY <3>1, <3>2
  <2>6. Ends(<<x>>, (count + 1) % Window)
    <3>1. Len(<<x>>) = 1 /\ <<x>>[1] = x
      OBVIOUS
    <3>2. QED
      BY <2>2, <3>1 DEF Ends
  <2>7. Ordered(ep, p) /\ Ends(ep \o Contents(p), (count + 1) % Window)
    BY <1>2, <2>2, <2>3, <2>4, <2>5, <2>6, OrderAppend
  <2>8. QED
    BY <2>1, <2>7 DEF Counted
<1>3. QED
  BY <1>1, <1>2

(* The slot of a callback is a packet that opens no run.                   *)
LEMMA OrderOpen ==
  ASSUME queue \in Ring, ep \in Seq(Content), Ordered(ep, queue), NEW next, OpenSlot(next)
  PROVE  Ordered(ep, queue')
<1>1. CASE Full(queue)
  BY <1>1 DEF OpenSlot
<1>2. CASE ~Full(queue)
  <2> DEFINE u == ep \o Contents(queue)
  <2>1. queue' = usb_enqueue(queue)
    BY <1>2 DEF OpenSlot
  <2>2. /\ queue'.head = queue.head /\ queue'.tail = (queue.tail + 1) % Slots
        /\ queue'.fifo = [queue.fifo EXCEPT ![queue.tail] = Blank]
        /\ queue' \in Ring
    <3>1. queue' \in Ring
      BY <1>2, <2>1, Enqueued
    <3>2. QED
      BY <2>1, <3>1 DEF usb_enqueue, Ring
  <2>3. Len(u) > 0 => Succeeds(u[Len(u)], Blank)
    BY DEF Succeeds, Blank
  <2>4. QED
    BY <1>2, <2>2, <2>3, BlankContent, OrderAppend
<1>3. QED
  BY <1>1, <1>2

(* So is the packet that fills it.                                         *)
LEMMA OrderFill ==
  ASSUME Control, queue \in Ring, ep \in Seq(Content), queue' \in Ring, Ordered(ep, queue),
         FillSlot
  PROVE  Ordered(ep, queue')
<1> DEFINE x == [kind |-> "LE", n |-> 0, gap |-> "no", status |-> status]
<1>1. CASE slot \notin Queued(queue)
  BY <1>1 DEF FillSlot
<1>2. CASE slot \in Queued(queue)
  <2>1. queue' = [queue EXCEPT !.fifo[slot] = x]
    BY <1>2 DEF FillSlot
  <2>2. x \in Content /\ x.kind \notin {"BR", "SPECAN"}
    BY Bounds DEF Packet, Content, Flagged, Control
  <2> HIDE DEF x
  <2>3. queue'.head = queue.head /\ queue'.tail = queue.tail
        /\ queue'.fifo = [queue.fifo EXCEPT ![slot] = x]
    BY <2>1 DEF Ring
  <2>4. PICK i \in 1 .. Used(queue) : slot = (queue.head + (i - 1)) % Slots
    BY <1>2, QueuedAt
  <2>5. slot \in Index
    BY <1>2, InQueue
  <2> DEFINE s == Contents(queue)
             t == Contents(queue')
  <2>6. /\ Used(queue') = Used(queue) /\ t[i] = x
        /\ \A j \in 1 .. Used(queue) : j # i => t[j] = s[j]
    BY <2>2, <2>3, <2>4, <2>5, ContentsFilled
  <2>7. /\ s \in Seq(Content) /\ t \in Seq(Content) /\ Len(s) = Used(queue) /\ Len(t) = Len(s)
        /\ Used(queue) \in Nat
    BY <2>6, ContentsType
  <2> HIDE DEF s, t
  <2>8. Chained(ep) /\ Chained(s) /\ Link(ep, s)
    BY <2>7, ChainConcat DEF Ordered, s
  <2>9. Chained(t)
    BY <2>2, <2>6, <2>7, <2>8, ChainReplace
  <2>10. Link(ep, t)
    <3>1. CASE i = 1
      BY <2>2, <2>6, <3>1 DEF Link, Succeeds
    <3>2. CASE i # 1
      <4>1. Len(t) > 0 => 1 \in 1 .. Used(queue) /\ Len(s) > 0
        BY <2>7
      <4>2. Len(t) > 0 => t[1] = s[1]
        BY <2>6, <3>2, <4>1
      <4>3. QED
        BY <2>8, <4>1, <4>2 DEF Link
    <3>3. QED
      BY <3>1, <3>2
  <2>11. Chained(ep \o t)
    BY <2>7, <2>8, <2>9, <2>10, ChainConcat
  <2>12. QED
    BY <2>11 DEF Ordered, t
<1>3. QED
  BY <1>1, <1>2

(* The host reads the oldest packet.                                       *)
LEMMA OrderRead ==
  ASSUME NEW e \in Seq(Content), e # <<>>, NEW q \in Ring, Ordered(e, q)
  PROVE  /\ Ordered(Tail(e), q)
         /\ \A m, c : Counted(e, q, m, c) => Counted(Tail(e), q, m, c)
<1>1. Contents(q) \in Seq(Content)
  BY ContentsType
<1>2. Ordered(Tail(e), q)
  BY <1>1, ChainTail DEF Ordered
<1>3. \A c : Ends(e \o Contents(q), c) => Ends(Tail(e) \o Contents(q), c)
  BY <1>1, ChainTail DEF Ordered
<1>4. QED
  BY <1>2, <1>3 DEF Counted

-----------------------------------------------------------------------------
(* The invariant: the order, and where the routines that number packets    *)
(* are, the count.                                                         *)
Enqueuing == {"stream", "closing", "SPECAN", "generic_sync"}
Counting == at \in Enqueuing => Counted(ep, queue, missed, count)

Order == Ordered(ep, queue) /\ Counting

(* What the other invariant says of the queue.                             *)
LEMMA QueueTypes ==
  ASSUME Inv
  PROVE  /\ queue \in Ring /\ ep \in Seq(Content) /\ Len(ep) <= 2
         /\ status \in BOOLEAN /\ count \in 0 .. Window - 1
         /\ missed \in {"no", "start", "yes"}
  BY DEF Inv, Queues, Control

(* And of the queue and the endpoint after a step.                         *)
LEMMA QueueTypesNext ==
  ASSUME Inv' PROVE queue' \in Ring /\ ep' \in Seq(Content)
  BY DEF Inv, Queues

(* Nothing is in the ring or the endpoint at the start.                    *)
LEMMA InitOrder == Init => Order
<1> SUFFICES ASSUME Init PROVE Order
  OBVIOUS
<1>1. ep = <<>> /\ queue = usb_queue_init /\ at \notin Enqueuing
  BY DEF Init, Enqueuing
<1>2. ep \in Seq(Content) /\ Len(ep) = 0
  BY <1>1
<1>3. Contents(queue) \in Seq(Content) /\ Len(Contents(queue)) = 0
  BY <1>1, ContentsEmpty
<1>4. Chained(ep) /\ Chained(Contents(queue)) /\ Link(ep, Contents(queue))
  BY <1>2, <1>3 DEF Chained, Link
<1>5. QED
  BY <1>1, <1>2, <1>3, <1>4, ChainConcat DEF Order, Ordered, Counting

(* A step that leaves the endpoint alone, and the queue or empties it.     *)
LEMMA QuietOrder ==
  ASSUME Inv, Order, ep' = ep, queue' = queue \/ queue' = usb_queue_init,
         at' \in Enqueuing => queue' = usb_queue_init /\ missed' = "start"
  PROVE  Order'
<1>1. Ordered(ep, queue) /\ queue \in Ring /\ ep \in Seq(Content)
  BY QueueTypes DEF Order
<1>2. usb_queue_init \in Ring /\ Used(usb_queue_init) = 0
  BY EmptyRing, ContentsEmpty
<1>3. Ordered(ep, usb_queue_init)
  BY <1>1, <1>2, OrderEmpty
<1>4. Ordered(ep', queue')
  BY <1>1, <1>3
<1>5. at' \in Enqueuing => Counted(ep', queue', missed', count')
  BY <1>2 DEF Counted
<1>6. QED
  BY <1>4, <1>5 DEF Order, Counting

(* A step that leaves everything in place.                                 *)
LEMMA SameOrder ==
  ASSUME Order, ep' = ep, queue' = queue, at' = at, missed' = missed, count' = count
  PROVE  Order'
  BY DEF Order, Counting

(* A poll, with c the number of the next packet when it comes.             *)
LEMMA PollOrder ==
  ASSUME Inv, Inv', NEW q \in Ring, NEW m, Ordered(ep, q), handle_usb(q, m),
         at' \in Enqueuing => Counted(ep, q, m, count')
  PROVE  Order'
<1>1. ep \in Seq(Content) /\ Len(ep) <= 2 /\ queue' \in Ring
  BY QueueTypes, QueueTypesNext
<1>2. /\ Ordered(ep', queue')
      /\ \A c : Counted(ep, q, m, c) => Counted(ep', queue', missed', c)
  BY <1>1, OrderPoll
<1>3. QED
  BY <1>2 DEF Order, Counting

(* The host takes the head of the chain, or sends a request.               *)
LEMMA HostOrder == Inv /\ Inv' /\ Order /\ Host => Order'
<1> SUFFICES ASSUME Inv, Inv', Order, Host PROVE Order'
  OBVIOUS
<1>1. CASE BulkRead
  <2>1. /\ ep # <<>> /\ ep' = Tail(ep) /\ queue' = queue /\ at' = at
        /\ missed' = missed /\ count' = count
    BY <1>1 DEF BulkRead
  <2>2. ep \in Seq(Content) /\ queue \in Ring
    BY QueueTypes
  <2>3. /\ Ordered(ep', queue')
        /\ \A m, c : Counted(ep, queue, m, c) => Counted(ep', queue', m, c)
    BY <2>1, <2>2, OrderRead DEF Order
  <2>4. QED
    BY <2>1, <2>3 DEF Order, Counting
<1>2. CASE \E r \in Requests : Send(r)
  BY <1>2, SameOrder DEF Send
<1>3. QED
  BY <1>1, <1>2 DEF Host

(* The USB interrupt comes in the LE routines only; a lost transfer shows. *)
LEMMA InterruptOrder ==
  Inv /\ Inv' /\ Order /\ (UsbInterrupt \/ DmaInterrupt) => Order'
<1> SUFFICES ASSUME Inv, Inv', Order, UsbInterrupt \/ DmaInterrupt PROVE Order'
  OBVIOUS
<1>1. CASE UsbInterrupt
  <2>1. /\ vendor_request_handler(queue, missed) /\ ep' = ep /\ at' = at /\ usb_irq
    BY <1>1 DEF UsbInterrupt
  <2>2. at' \notin Enqueuing
    BY <2>1 DEF Inv, Open, LeProgram, Enqueuing
  <2>3. /\ queue \in Ring /\ ep \in Seq(Content) /\ queue' \in Ring
    BY QueueTypes, QueueTypesNext
  <2>4. Ordered(ep, queue')
    BY <2>1, <2>3, OrderHandler DEF Order
  <2>5. QED
    BY <2>1, <2>2, <2>4 DEF Order, Counting
<1>2. CASE DmaInterrupt
  <2>1. /\ queue' = queue /\ ep' = ep /\ at' = at /\ count' = count
        /\ missed' = missed \/ (missed = "no" /\ missed' = "yes")
    BY <1>2 DEF DmaInterrupt
  <2>2. Counted(ep, queue, missed, count) => Counted(ep', queue', missed', count')
    BY <2>1 DEF Counted
  <2>3. QED
    BY <2>1, <2>2 DEF Order, Counting
<1>3. QED
  BY <1>1, <1>2

(* bt_stream_rx and the main loop.                                         *)
LEMMA StreamOrder ==
  Inv /\ Inv' /\ Order /\ (MainLoop \/ StreamWait \/ StreamTake \/ StreamClose) => Order'
<1> SUFFICES ASSUME Inv, Inv', Order, MainLoop \/ StreamWait \/ StreamTake \/ StreamClose
             PROVE  Order'
  OBVIOUS
<1>1. Ordered(ep, queue) /\ queue \in Ring
  BY QueueTypes DEF Order
<1>2. CASE MainLoop
  <2>1. handle_usb(queue, missed) /\ at' \notin Enqueuing
    BY <1>2 DEF MainLoop, Enqueuing
  <2>2. QED
    BY <1>1, <2>1, PollOrder
<1>3. CASE StreamWait \/ StreamClose
  <2>1. handle_usb(queue, missed) /\ at \in Enqueuing /\ count' = count
    BY <1>3 DEF StreamWait, StreamClose, Enqueuing
  <2>2. Counted(ep, queue, missed, count')
    BY <2>1 DEF Order, Counting
  <2>3. QED
    BY <1>1, <2>1, <2>2, PollOrder
<1>4. CASE StreamTake
  <2> DEFINE flag == status \/ rx_tc > 1
             r == enqueue("BR", flag)
  <2>1. /\ queue' = r.queue /\ missed' = r.missed /\ count' = r.count /\ ep' = ep
        /\ at = "stream"
    BY <1>4 DEF StreamTake
  <2>2. Counted(ep, queue, missed, count)
    BY <2>1 DEF Order, Counting, Enqueuing
  <2>3. flag \in BOOLEAN /\ (missed = "yes" => flag)
    BY <2>1, QueueTypes DEF Inv, Remembered
  <2> HIDE DEF flag
  <2>4. Ordered(ep, r.queue) /\ Counted(ep, r.queue, r.missed, r.count)
    BY <1>1, <2>2, <2>3, QueueTypes, OrderEnqueue
  <2>5. QED
    BY <2>1, <2>4 DEF Order, Counting
<1>5. QED
  BY <1>2, <1>3, <1>4

(* The routines that enqueue and poll in one step, and those that poll.    *)
LEMMA PolledOrder ==
  Inv /\ Inv' /\ Order /\ (GenericSync \/ \E m \in Polled : RunPolled(m)) => Order'
<1>1. ASSUME Inv, Inv', Order, NEW kind \in {"BR", "SPECAN"}, at \in Enqueuing \ {"stream"},
             LET r == enqueue(kind, status)
             IN handle_usb(r.queue, r.missed) /\ count' = r.count
      PROVE  Order'
  <2> DEFINE r == enqueue(kind, status)
  <2>1. handle_usb(r.queue, r.missed) /\ count' = r.count
    BY <1>1
  <2>2. /\ Ordered(ep, queue) /\ Counted(ep, queue, missed, count)
        /\ missed = "yes" => status
    BY <1>1 DEF Order, Counting, Inv, Remembered, Enqueuing
  <2>3. Ordered(ep, r.queue) /\ Counted(ep, r.queue, r.missed, r.count)
    BY <1>1, <2>2, QueueTypes, OrderEnqueue
  <2>4. r.queue \in Ring
    BY <1>1, <2>2, QueueTypes, EnqueueStep
  <2> HIDE DEF r
  <2>5. QED
    BY <1>1, <2>1, <2>3, <2>4, PollOrder
<1>2. ASSUME Inv, Inv', Order, GenericSync PROVE Order'
  <2>1. /\ at \in Enqueuing \ {"stream"}
        /\ LET r == enqueue("BR", status)
           IN handle_usb(r.queue, r.missed) /\ count' = r.count
    BY <1>2 DEF GenericSync, Enqueuing
  <2>2. QED
    BY <1>1, <1>2, <2>1
<1>3. ASSUME Inv, Inv', Order, RunPolled("SPECAN") PROVE Order'
  <2>1. /\ at \in Enqueuing \ {"stream"}
        /\ LET r == enqueue("SPECAN", status)
           IN handle_usb(r.queue, r.missed) /\ count' = r.count
    BY <1>3 DEF RunPolled, Enqueuing
  <2>2. QED
    BY <1>1, <1>3, <2>1
<1>4. ASSUME Inv, Inv', Order, NEW m \in Polled, m # "SPECAN", RunPolled(m) PROVE Order'
  <2>1. handle_usb(queue, missed) /\ at' \notin Enqueuing
    BY <1>4 DEF RunPolled, Polled, Enqueuing
  <2>2. Ordered(ep, queue) /\ queue \in Ring
    BY <1>4, QueueTypes DEF Order
  <2>3. QED
    BY <1>4, <2>1, <2>2, PollOrder
<1>5. QED
  BY <1>2, <1>3, <1>4

(* The steps between the modes, and those of the LE routines that enqueue  *)
(* nothing.                                                                *)
Quiet ==
  \/ GoIdle \/ SweepEnds \/ TxGeneric \/ StartGenericSync
  \/ (\E m \in Streaming \cup {"AFH", "RX_GENERIC"} : StartStream(m))
  \/ (\E m \in Polled : StartPolled(m))
  \/ LeavePromisc \/ WaitToReset \/ Boot
  \/ StartSlave \/ Slave \/ SlaveWakes \/ StartPromisc \/ GenericNothing \/ LeaveLe

(* None of them changes the order.                                         *)
LEMMA QuietActions == Inv /\ Order /\ Quiet => Order'
<1> SUFFICES ASSUME Inv, Order, Quiet PROVE Order'
  OBVIOUS
<1>1. CASE StartGenericSync
  BY <1>1, QuietOrder DEF StartGenericSync
<1>2. CASE \E m \in Streaming \cup {"AFH", "RX_GENERIC"} : StartStream(m)
  BY <1>2, QuietOrder DEF StartStream
<1>3. ASSUME NEW m \in Polled, StartPolled(m) PROVE Order'
  <2>1. /\ ep' = ep /\ at' = m
        /\ queue' = IF m = "SPECAN" THEN usb_queue_init ELSE queue
        /\ missed' = IF m = "SPECAN" THEN "start" ELSE missed
    BY <1>3 DEF StartPolled, Dispatch
  <2>2. m \in Enqueuing => m = "SPECAN"
    BY DEF Enqueuing, Polled
  <2>3. QED
    BY <2>1, <2>2, QuietOrder
<1>4. CASE GoIdle \/ SweepEnds \/ TxGeneric \/ LeavePromisc \/ WaitToReset \/ Boot
  <2>1. ep' = ep /\ queue' = queue /\ at' \notin Enqueuing
    BY <1>4 DEF GoIdle, SweepEnds, TxGeneric, LeavePromisc, WaitToReset, Boot, Dispatch,
                Enqueuing
  <2>2. QED
    BY <2>1, QuietOrder
<1>5. CASE StartSlave \/ Slave \/ SlaveWakes \/ StartPromisc \/ GenericNothing \/ LeaveLe
  <2>1. /\ ep' = ep /\ (queue' = queue \/ queue' = usb_queue_init) /\ at' \notin Enqueuing
    BY <1>5 DEF StartSlave, Slave, SlaveWakes, StartPromisc, GenericNothing, NextTransfer,
                LeaveLe, Dispatch, Enqueuing
  <2>2. QED
    BY <2>1, QuietOrder
<1>6. QED
  BY <1>1, <1>2, <1>3, <1>4, <1>5 DEF Quiet

(* The callbacks of the LE routines and bt_le_sync.                        *)
LEMMA CallbackOrder ==
  Inv /\ Inv' /\ Order /\ (\/ GenericMatch \/ Announce \/ SyncPacket
                           \/ GenericFill \/ AnnounceFill \/ SyncFill) => Order'
<1> SUFFICES ASSUME Inv, Inv', Order,
                    \/ GenericMatch \/ Announce \/ SyncPacket
                    \/ GenericFill \/ AnnounceFill \/ SyncFill
             PROVE  Order'
  OBVIOUS
<1>1. /\ queue \in Ring /\ ep \in Seq(Content) /\ queue' \in Ring /\ Control
      /\ Ordered(ep, queue)
  BY QueueTypes, QueueTypesNext DEF Inv, Order
<1>2. CASE GenericMatch \/ Announce \/ SyncPacket
  <2>1. PICK next \in {"generic_fill", "picked_fill", "state_fill", "sync_fill"} :
          OpenSlot(next) /\ ep' = ep
    BY <1>2 DEF GenericMatch, Announce, SyncPacket
  <2>2. at' \notin Enqueuing
    BY <2>1 DEF OpenSlot, Enqueuing
  <2>3. Ordered(ep, queue')
    BY <1>1, <2>1, OrderOpen
  <2>4. QED
    BY <2>1, <2>2, <2>3 DEF Order, Counting
<1>3. CASE GenericFill \/ AnnounceFill \/ SyncFill
  <2>1. FillSlot /\ ep' = ep /\ at' \notin Enqueuing
    BY <1>3 DEF GenericFill, NextTransfer, AnnounceFill, SyncFill, Enqueuing
  <2>2. Ordered(ep, queue')
    BY <1>1, <2>1, OrderFill
  <2>3. QED
    BY <2>1, <2>2 DEF Order, Counting
<1>4. QED
  BY <1>2, <1>3

(* The reset empties the endpoint and the ring.                            *)
LEMMA ResetOrder == reset => Order'
<1> SUFFICES ASSUME reset PROVE Order'
  OBVIOUS
<1>1. ep' = <<>> /\ queue' = usb_queue_init /\ at' \notin Enqueuing
  BY DEF reset, Enqueuing
<1>2. <<>> \in Seq(Content) /\ Len(<<>>) = 0
  OBVIOUS
<1>3. Contents(queue') \in Seq(Content) /\ Len(Contents(queue')) = 0
  BY <1>1, ContentsEmpty
<1>4. Chained(<<>>) /\ Chained(Contents(queue')) /\ Link(<<>>, Contents(queue'))
  BY <1>2, <1>3 DEF Chained, Link
<1>5. Ordered(ep', queue')
  BY <1>1, <1>2, <1>3, <1>4, ChainConcat DEF Ordered
<1>6. QED
  BY <1>1, <1>5 DEF Order, Counting

(* Every step of the firmware and the host keeps the order.                *)
LEMMA StepOrder == Inv /\ Inv' /\ Order /\ [Next]_fw => Order'
<1> SUFFICES ASSUME Inv, Inv', Order, [Next]_fw PROVE Order'
  OBVIOUS
<1>1. CASE Program
  <2>1. \/ MainLoop \/ StreamWait \/ StreamTake \/ StreamClose
        \/ GenericSync \/ (\E m \in Polled : RunPolled(m))
        \/ Quiet
        \/ GenericMatch \/ Announce \/ SyncPacket
        \/ GenericFill \/ AnnounceFill \/ SyncFill
        \/ reset
    BY <1>1 DEF Program, Quiet
  <2>2. QED
    BY <2>1, StreamOrder, PolledOrder, QuietActions, CallbackOrder, ResetOrder
<1>2. CASE UNCHANGED fw
  BY <1>2, SameOrder DEF fw
<1>3. QED
  BY <1>1, <1>2, HostOrder, InterruptOrder DEF Next, Firmware

(* The order holds throughout.                                             *)
LEMMA OrderInvariance == Spec => [](Inv /\ Order)
<1>1. Init => Inv /\ Order
  BY InitInv, InitOrder
<1>2. (Inv /\ Order) /\ [Next]_fw => (Inv /\ Order)'
  BY StepInv, StepOrder
<1>3. QED
  BY <1>1, <1>2, PTL DEF Spec

(* A chain is what InOrder asks of the packets the host has yet to read.   *)
LEMMA OrderHolds == Order => InOrder
  BY DEF Order, Ordered, Contents, Chained, Succeeds, InOrder, Unread

(* The host reads the packets of a run of bt_stream_rx, specan or          *)
(* rx_generic_sync as they were enqueued, none repeated, overtaken or      *)
(* dropped on its way through the ring and the endpoint, whatever polls,   *)
(* requests and interrupts come between.                                   *)
THEOREM PacketsInOrder == Spec => []InOrder
  BY OrderHolds, OrderInvariance, PTL

(* The reset command is one more tool that sends a request.                *)
LEMMA CommandOrder == Inv /\ Order /\ Command => Order'
<1> SUFFICES ASSUME Inv, Order, Command PROVE Order'
  OBVIOUS
<1>1. /\ ep' = ep /\ queue' = queue /\ at' = at /\ missed' = missed /\ count' = count
  BY DEF Command, DispatchReset, Dispatched, Reappeared, TimedOut, fw
<1>2. QED
  BY <1>1, SameOrder

(* The packets keep their order under the reset command too.               *)
THEOREM InOrderWithResetCommand == ResetSpec => []InOrder
<1>1. ResetInit => Inv /\ Order
  BY InitInv, InitOrder DEF ResetInit
<1>2. (Inv /\ Order) /\ [ResetNext]_vars => (Inv /\ Order)'
  <2>1. UNCHANGED vars => UNCHANGED fw
    BY DEF vars
  <2>2. QED
    BY <2>1, CommandInv, StepInv, CommandOrder, StepOrder DEF ResetNext
<1>3. QED
  BY <1>1, <1>2, OrderHolds, PTL DEF ResetSpec

=============================================================================
