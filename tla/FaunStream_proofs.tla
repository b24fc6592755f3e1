------------------------- MODULE FaunStream_proofs --------------------------
(***************************************************************************)
(* Proofs about FaunStream, for every number of streams, every length of   *)
(* the buffers and the cycle, and every file, part and mode.               *)
(***************************************************************************)
EXTENDS FaunStream, FiniteSetTheorems, TLAPS

SourceRec ==
  [state : States, bufUsed : 0 .. QueueSize, qtail : Slots, qhead : Slots,
   qactive : Slots \cup {QNone}, mode : Modes, gain : Int, fade : Int,
   volume : Nat, fadePeriod : Nat \ {0}, playPos : Nat, framesOut : Nat,
   endPos : Nat, fadePos : Nat, bufferQueue : [Slots -> Buffers \cup {NoBuffer}]]

StreamRec ==
  [src : SourceRec, feed : BOOLEAN, open : BOOLEAN, known : BOOLEAN, size : Nat,
   pos : Nat, start : Nat, sampleCount : Nat, sampleLimit : Nat,
   used : [Buffers -> 0 .. BufLen], from : [Buffers -> Nat], failed : BOOLEAN]

(* The slots of the ring, as far as they are from the head ...             *)
Offset(src, i) == IF i >= src.qhead THEN i - src.qhead ELSE i + QueueSize - src.qhead
Ringed(src) == {i \in Slots : Offset(src, i) < src.bufUsed}

(* ... hold different buffers, the current one among them.                 *)
RingOK(src) ==
  /\ src.qtail = IF src.qhead + src.bufUsed < QueueSize
                 THEN src.qhead + src.bufUsed ELSE src.qhead + src.bufUsed - QueueSize
  /\ \A i \in Ringed(src) : src.bufferQueue[i] \in Buffers
  /\ \A i, j \in Ringed(src) : i # j => src.bufferQueue[i] # src.bufferQueue[j]
  /\ Active(src) => src.qactive \in Ringed(src)

(* What is still to be heard has frames.                                   *)
PendingOK(st) == \A i \in Pending(st.src) : st.used[st.src.bufferQueue[i]] > 0

Sounding(st) == Active(st.src) => st.src.playPos < st.used[ActiveBuffer(st.src)]

RingSide(st) ==
  /\ st \in StreamRec
  /\ RingOK(st.src)
  /\ PendingOK(st)
  /\ st.src.state = "playing" => Active(st.src) /\ Sounding(st)

(* A stream that plays has read something since it was started, or will    *)
(* read again; and the decoder has not got beyond the part.                *)
FileSide(st) ==
  /\ st.src.state = "playing" =>
       st.sampleCount # 0 \/ ("loop" \in st.src.mode /\ st.feed)
  /\ st.feed /\ st.open /\ SegmentSet(st) => st.sampleCount < st.sampleLimit

StreamSound(st) == RingSide(st) /\ FileSide(st)

(* Between fills ...                                                       *)
Rests(st) == StreamSound(st) /\ (st.sampleCount # 0 => Sounding(st))

(* ... and while it is filled: the buffer being decoded is not in the ring *)
(* and has a place there; a command fills a stream that does not play yet, *)
(* the update cycle one that plays.                                        *)
HasPlace(src, b) ==
  /\ src.bufUsed < QueueSize
  /\ \A i \in Ringed(src) : src.bufferQueue[i] # b

FilledFor(st, to) ==
  IF to = "wait"
  THEN st.src.state # "playing" /\ (st.sampleCount # 0 => Active(st.src))
  ELSE st.src.state = "playing"

Fills(st, b, to) ==
  /\ StreamSound(st)
  /\ st.feed
  /\ FilledFor(st, to)
  /\ b # NoBuffer => HasPlace(st.src, b)

Filling(s) == phase = "fill" /\ at = s

StreamsOK ==
  \A s \in Streams : IF Filling(s) THEN Fills(stream[s], taken, back) ELSE Rests(stream[s])

(* No stream takes more buffers in a cycle than the ring has.              *)
FilledOK ==
  /\ filled \in 0 .. QueueSize * StreamLimit
  /\ phase = "collect" => filled <= QueueSize * at
  /\ phase = "fill" /\ back = "collect" =>
       filled + Offset(stream[at].src, stream[at].src.qactive) <= QueueSize * at + QueueSize

ControlOK ==
  /\ DOMAIN stream = Streams
  /\ phase \in {"wait", "collect", "fill", "mix"} /\ back \in {"wait", "collect"}
  /\ at \in 0 .. StreamLimit /\ (phase = "fill" => at < StreamLimit)
  /\ taken \in Buffers \cup {NoBuffer}
  /\ mixed \in 0 .. MixLen
  /\ mixing \subseteq Streams
  /\ errors \in 0 .. MaxErrors /\ commands \in 0 .. MaxCommands
  /\ done \in [Streams -> 0 .. DoneCap]

RingInv == ControlOK /\ FilledOK /\ StreamsOK

-----------------------------------------------------------------------------
(* The ring                                                                *)

LEMMA Constants ==
  /\ QueueSize \in Nat /\ QueueSize > 3 /\ BufLen \in Nat /\ BufLen > 0
  /\ StreamLimit \in Nat /\ StreamLimit > 0 /\ MixLen \in Nat /\ MixLen > 0
  /\ MaxErrors \in Nat /\ MaxCommands \in Nat
  /\ QNone \notin Slots /\ NoBuffer \notin Buffers
  BY SourceAssumption, StreamAssumption DEF Slots

(* There are as many buffers as slots, so the slots can be given each its  *)
(* own.                                                                    *)
LEMMA OwnBuffers ==
  /\ BufferAt \in [Slots -> Buffers]
  /\ \A i, j \in Slots : i # j => BufferAt[i] # BufferAt[j]
  <1>1. PICK f : f \in Bijection(1 .. QueueSize, Buffers)
    BY StreamAssumption, FS_CardinalityType DEF ExistsBijection
  <1> DEFINE g == [i \in Slots |-> f[i + 1]]
  <1>2. \A i \in Slots : i + 1 \in 1 .. QueueSize
    BY Constants DEF Slots
  <1>3. /\ f \in [1 .. QueueSize -> Buffers]
        /\ \A i, j \in 1 .. QueueSize : f[i] = f[j] => i = j
    BY <1>1 DEF Bijection, Injection, Surjection, IsInjective
  <1>4. g \in [Slots -> Buffers]
    BY <1>2, <1>3
  <1>5. \A i, j \in Slots : i # j => g[i] # g[j]
    <2> SUFFICES ASSUME NEW i \in Slots, NEW j \in Slots, i # j PROVE g[i] # g[j]
      OBVIOUS
    <2>1. i + 1 \in 1 .. QueueSize /\ j + 1 \in 1 .. QueueSize /\ i + 1 # j + 1
      BY <1>2, Constants DEF Slots
    <2>2. f[i + 1] # f[j + 1]
      BY <2>1, <1>3
    <2>3. QED
      BY <2>2
  <1> HIDE DEF g
  <1>6. \E h \in [Slots -> Buffers] : \A i, j \in Slots : i # j => h[i] # h[j]
    BY <1>4, <1>5
  <1>7. QED
    BY <1>6, Zenon DEF BufferAt

(* What is to be heard is the part of the ring from the current buffer on. *)
LEMMA PendingInRing ==
  ASSUME NEW src \in SourceRec, RingOK(src)
  PROVE  /\ Active(src) =>
              /\ src.qactive \in Slots /\ src.qactive \in Pending(src)
              /\ Pending(src) =
                   {i \in Ringed(src) : Offset(src, i) >= Offset(src, src.qactive)}
         /\ ~Active(src) => Pending(src) = {}
  <1>1. /\ src.qhead \in Slots /\ src.qtail \in Slots /\ src.bufUsed \in 0 .. QueueSize
        /\ Active(src) => src.qactive \in Slots
    BY DEF SourceRec, Active
  <1>2. CASE ~Active(src)
    BY <1>2 DEF Pending
  <1>3. CASE Active(src)
    <2>1. src.qactive \in Slots /\ Offset(src, src.qactive) < src.bufUsed
      BY <1>1, <1>3 DEF RingOK, Ringed
    <2>2. src.qtail = IF src.qhead + src.bufUsed < QueueSize
                      THEN src.qhead + src.bufUsed ELSE src.qhead + src.bufUsed - QueueSize
      BY DEF RingOK
    <2>3. Pending(src) = {i \in Slots : IF src.qactive < src.qtail
                      THEN i \in src.qactive .. src.qtail - 1
                      ELSE i >= src.qactive \/ i < src.qtail}
      BY <1>3 DEF Pending
    <2>4. \A i \in Slots : (IF src.qactive < src.qtail
                      THEN i \in src.qactive .. src.qtail - 1
                      ELSE i >= src.qactive \/ i < src.qtail)
                 <=> (/\ Offset(src, i) < src.bufUsed
                      /\ Offset(src, i) >= Offset(src, src.qactive))
      BY <1>1, <2>1, <2>2, Constants DEF Slots, Offset
    <2>5. \A i \in Slots : i \in Pending(src)
             <=> i \in Ringed(src) /\ Offset(src, i) >= Offset(src, src.qactive)
      BY <2>3, <2>4 DEF Ringed
    <2>6. src.qactive \in Ringed(src)
      BY <2>1 DEF Ringed
    <2>7. Offset(src, src.qactive) \in Nat
      BY <2>1, <1>1, Constants DEF Offset, Slots
    <2>8. src.qactive \in Pending(src)
      BY <2>1, <2>5, <2>6, <2>7
    <2>9. Pending(src) \subseteq Slots /\ Ringed(src) \subseteq Slots
      BY <1>3 DEF Pending, Ringed
    <2>10. QED
      BY <1>3, <2>1, <2>5, <2>8, <2>9
  <1>4. QED
    BY <1>2, <1>3

(* What a fade, a mode or a parameter leaves alone.                        *)
SameRing(a, b) ==
  /\ a.bufUsed = b.bufUsed /\ a.qtail = b.qtail /\ a.qhead = b.qhead
  /\ a.qactive = b.qactive /\ a.bufferQueue = b.bufferQueue

LEMMA SameRingSame ==
  ASSUME NEW a, NEW b, SameRing(a, b)
  PROVE  /\ RingOK(a) <=> RingOK(b)
         /\ Pending(a) = Pending(b) /\ Ringed(a) = Ringed(b)
         /\ Active(a) <=> Active(b)
         /\ ActiveBuffer(a) = ActiveBuffer(b)
         /\ \A i : Offset(a, i) = Offset(b, i)
         /\ \A c : HasPlace(a, c) <=> HasPlace(b, c)
  <1> USE DEF SameRing
  <1>1. /\ Active(a) <=> Active(b)
        /\ ActiveBuffer(a) = ActiveBuffer(b)
    BY DEF Active, ActiveBuffer
  <1>2. \A i : Offset(a, i) = Offset(b, i)
    BY DEF Offset
  <1>3. Ringed(a) = Ringed(b)
    BY <1>2 DEF Ringed
  <1>4. Pending(a) = Pending(b)
    BY <1>1 DEF Pending
  <1>5. RingOK(a) <=> RingOK(b)
    BY <1>1, <1>3 DEF RingOK
  <1>6. \A c : HasPlace(a, c) <=> HasPlace(b, c)
    BY <1>3 DEF HasPlace
  <1>7. QED
    BY <1>1, <1>2, <1>3, <1>4, <1>5, <1>6

LEMMA PrimedRing ==
  ASSUME NEW src \in SourceRec
  PROVE  /\ Prime(src) \in SourceRec /\ RingOK(Prime(src)) /\ ~Active(Prime(src))
         /\ Prime(src).state = src.state /\ Prime(src).mode = src.mode
  <1> DEFINE r == Prime(src)
  <1>1. r = [src EXCEPT !.bufUsed = QueueSize, !.qtail = 0, !.qhead = 0,
                        !.qactive = QNone, !.bufferQueue = BufferAt]
    BY DEF Prime
  <1> HIDE DEF r
  <1>2. BufferAt \in [Slots -> Buffers \cup {NoBuffer}]
    BY OwnBuffers
  <1>3. 0 \in Slots /\ QueueSize \in 0 .. QueueSize
    BY Constants DEF Slots
  <1>4. /\ r \in SourceRec /\ r.bufUsed = QueueSize /\ r.qtail = 0 /\ r.qhead = 0
        /\ r.qactive = QNone /\ r.bufferQueue = BufferAt
        /\ r.state = src.state /\ r.mode = src.mode
    BY <1>1, <1>2, <1>3 DEF SourceRec
  <1>5. Ringed(r) \subseteq Slots
    BY DEF Ringed
  <1>6. r.qtail = IF r.qhead + r.bufUsed < QueueSize
                  THEN r.qhead + r.bufUsed ELSE r.qhead + r.bufUsed - QueueSize
    BY <1>4, Constants
  <1>7. RingOK(r) /\ ~Active(r)
    BY <1>4, <1>5, <1>6, OwnBuffers DEF RingOK, Active
  <1>8. QED
    BY <1>4, <1>7 DEF r

(* A buffer that was played leaves the ring to be decoded into.            *)
LEMMA DequeuedRing ==
  ASSUME NEW src \in SourceRec, RingOK(src), HasProcessed(src)
  PROVE  LET r == Dequeue(src)
             b == src.bufferQueue[src.qhead]
         IN /\ r \in SourceRec /\ RingOK(r)
            /\ b \in Buffers /\ HasPlace(r, b)
            /\ Pending(r) = Pending(src) /\ r.qactive = src.qactive
            /\ r.bufferQueue = src.bufferQueue /\ r.playPos = src.playPos
            /\ r.state = src.state /\ r.mode = src.mode
            /\ Active(src) =>
                 Offset(src, src.qactive) = Offset(r, r.qactive) + 1
  <1> DEFINE r == Dequeue(src)
             b == src.bufferQueue[src.qhead]
  <1>1. r = [src EXCEPT !.qhead = NextSlot(src.qhead), !.bufUsed = src.bufUsed - 1]
    BY DEF Dequeue
  <1> HIDE DEF r, b
  <1>2. /\ src.qhead \in Slots /\ src.qtail \in Slots /\ src.bufUsed \in 0 .. QueueSize
        /\ src.bufUsed > 0 /\ src.qactive # src.qhead
        /\ Active(src) => src.qactive \in Slots
    BY DEF SourceRec, HasProcessed, Active
  <1>3. NextSlot(src.qhead) \in Slots /\ src.bufUsed - 1 \in 0 .. QueueSize
    BY <1>2, Constants DEF Slots, NextSlot
  <1>4. /\ r \in SourceRec /\ r.qhead = NextSlot(src.qhead) /\ r.bufUsed = src.bufUsed - 1
        /\ r.qtail = src.qtail /\ r.qactive = src.qactive
        /\ r.bufferQueue = src.bufferQueue /\ r.playPos = src.playPos
        /\ r.state = src.state /\ r.mode = src.mode
    BY <1>1, <1>3 DEF SourceRec
  <1>5. \A i \in Slots : i # src.qhead =>
          /\ Offset(src, i) = Offset(r, i) + 1
          /\ Offset(r, i) \in Nat
    BY <1>2, <1>4, Constants DEF Slots, Offset, NextSlot
  <1>6. Offset(src, src.qhead) = 0 /\ Offset(r, src.qhead) = QueueSize - 1
    BY <1>2, <1>4, Constants DEF Slots, Offset, NextSlot
  <1>7. Ringed(r) = Ringed(src) \ {src.qhead} /\ src.qhead \in Ringed(src)
    <2>1. \A i \in Slots : Offset(r, i) < r.bufUsed
            <=> Offset(src, i) < src.bufUsed /\ i # src.qhead
      BY <1>2, <1>4, <1>5, <1>6, Constants
    <2>2. QED
      BY <2>1, <1>2, <1>6 DEF Ringed
  <1>8. b \in Buffers /\ HasPlace(r, b)
    <2>1. r.bufUsed < QueueSize
      BY <1>2, <1>4, Constants
    <2>2. QED
      BY <2>1, <1>4, <1>7 DEF RingOK, HasPlace, b
  <1>9. RingOK(r)
    <2>1. r.qtail = IF r.qhead + r.bufUsed < QueueSize
                  THEN r.qhead + r.bufUsed ELSE r.qhead + r.bufUsed - QueueSize
      BY <1>2, <1>4, Constants DEF RingOK, NextSlot, Slots
    <2>2. Active(r) => r.qactive \in Ringed(r)
      BY <1>2, <1>4, <1>7 DEF RingOK, Active
    <2>3. QED
      BY <2>1, <2>2, <1>4, <1>7 DEF RingOK
  <1>10. Pending(r) = Pending(src)
    BY <1>4 DEF Pending, Active
  <1>11. Active(src) => Offset(src, src.qactive) = Offset(r, r.qactive) + 1
    BY <1>2, <1>4, <1>5
  <1>12. QED
    BY <1>4, <1>8, <1>9, <1>10, <1>11 DEF r, b

(* A buffer that was decoded goes to the tail, and a ring that was played  *)
(* out begins again with it.                                               *)
LEMMA QueuedRing ==
  ASSUME NEW src \in SourceRec, RingOK(src), NEW b \in Buffers, HasPlace(src, b)
  PROVE  LET r == QueueBuffer(src, b)
         IN /\ r \in SourceRec /\ RingOK(r) /\ Active(r)
            /\ \A i \in Pending(r) :
                  \/ r.bufferQueue[i] = b
                  \/ i \in Pending(src) /\ r.bufferQueue[i] = src.bufferQueue[i]
            /\ Active(src) =>
                 /\ r.qactive = src.qactive
                 /\ ActiveBuffer(r) = ActiveBuffer(src) /\ ActiveBuffer(src) # b
                 /\ Offset(r, r.qactive) = Offset(src, src.qactive)
            /\ r.playPos = src.playPos /\ r.state = src.state /\ r.mode = src.mode
  <1> DEFINE r == QueueBuffer(src, b)
             queue == [src.bufferQueue EXCEPT ![src.qtail] = b]
             active == IF src.qactive = QNone THEN src.qtail ELSE src.qactive
  <1>1. r = [src EXCEPT !.bufUsed = src.bufUsed + 1, !.bufferQueue = queue,
                        !.qactive = active, !.qtail = NextSlot(src.qtail)]
    BY DEF QueueBuffer, HasPlace
  <1> HIDE DEF r
  <1>2. /\ src.qhead \in Slots /\ src.qtail \in Slots /\ src.bufUsed \in 0 .. QueueSize
        /\ src.bufUsed < QueueSize
        /\ Active(src) => src.qactive \in Slots
    BY DEF SourceRec, HasPlace, Active
  <1>2a. src.bufferQueue \in [Slots -> Buffers \cup {NoBuffer}]
    BY DEF SourceRec
  <1>3. /\ NextSlot(src.qtail) \in Slots /\ src.bufUsed + 1 \in 0 .. QueueSize
        /\ active \in Slots
    BY <1>2, Constants DEF Slots, NextSlot, Active
  <1>4. /\ queue[src.qtail] = b
        /\ \A i \in Slots : i # src.qtail => queue[i] = src.bufferQueue[i]
        /\ queue \in [Slots -> Buffers \cup {NoBuffer}]
    BY <1>2, <1>2a
  <1> HIDE DEF queue, active
  <1>4a. PICK k \in 0 .. QueueSize, a \in Slots, n \in Slots :
           /\ k = src.bufUsed + 1 /\ a = active /\ n = NextSlot(src.qtail)
           /\ r = [src EXCEPT !.bufUsed = k, !.bufferQueue = queue, !.qactive = a, !.qtail = n]
    BY <1>1, <1>3, Zenon
  <1>4b. /\ r \in SourceRec /\ r.qhead = src.qhead /\ r.bufUsed = k
         /\ r.qtail = n /\ r.qactive = a
         /\ r.bufferQueue = queue /\ r.playPos = src.playPos
         /\ r.state = src.state /\ r.mode = src.mode
    BY <1>4, <1>4a DEF SourceRec
  <1>5n. /\ r.qhead = src.qhead /\ r.bufUsed = src.bufUsed + 1
         /\ r.qtail = NextSlot(src.qtail) /\ r.qactive = active
    BY <1>4a, <1>4b
  <1>5. /\ r \in SourceRec /\ r.qhead = src.qhead /\ r.bufUsed = src.bufUsed + 1
        /\ r.qtail = NextSlot(src.qtail) /\ r.qactive = active
        /\ r.bufferQueue = queue /\ r.playPos = src.playPos
        /\ r.state = src.state /\ r.mode = src.mode
    BY <1>4a, <1>4b
  <1>6. \A i \in Slots : Offset(r, i) = Offset(src, i)
    BY <1>5 DEF Offset
  <1>7. src.qtail = IF src.qhead + src.bufUsed < QueueSize
                    THEN src.qhead + src.bufUsed ELSE src.qhead + src.bufUsed - QueueSize
    BY DEF RingOK
  <1>8. \A i \in Slots : Offset(src, i) = src.bufUsed <=> i = src.qtail
    BY <1>2, <1>7, Constants DEF Slots, Offset
  <1>9. \A i \in Slots : Offset(src, i) \in Nat
    BY <1>2, Constants DEF Slots, Offset
  <1>10. Ringed(r) = Ringed(src) \cup {src.qtail} /\ src.qtail \notin Ringed(src)
    <2>1. \A i \in Slots : Offset(r, i) < r.bufUsed
            <=> Offset(src, i) < src.bufUsed \/ i = src.qtail
      BY <1>2, <1>5n, <1>6, <1>8, <1>9, Constants
    <2>2. QED
      BY <2>1, <1>2, <1>8, Constants DEF Ringed
  <1>11. Ringed(src) \subseteq Slots
    BY DEF Ringed
  <1>12. RingOK(r) /\ Active(r)
    <2>1. r.qtail = IF r.qhead + r.bufUsed < QueueSize
                  THEN r.qhead + r.bufUsed ELSE r.qhead + r.bufUsed - QueueSize
      BY <1>2, <1>5n, <1>7, Constants DEF NextSlot, Slots
    <2>2. Active(r) /\ r.qactive \in Ringed(r)
      BY <1>3, <1>5, <1>10, Constants DEF RingOK, Active, active
    <2>3. \A i \in Ringed(r) : r.bufferQueue[i] \in Buffers
      BY <1>4, <1>5, <1>10, <1>11 DEF RingOK
    <2>4. \A i, j \in Ringed(r) : i # j => r.bufferQueue[i] # r.bufferQueue[j]
      BY <1>4, <1>5, <1>10, <1>11 DEF RingOK, HasPlace
    <2>5. QED
      BY <2>1, <2>2, <2>3, <2>4 DEF RingOK
  <1>13. ASSUME Active(src)
         PROVE  /\ r.qactive = src.qactive /\ src.qactive \in Ringed(src)
                /\ ActiveBuffer(r) = ActiveBuffer(src) /\ ActiveBuffer(src) # b
                /\ Offset(r, r.qactive) = Offset(src, src.qactive)
    <2>1. r.qactive = src.qactive /\ src.qactive \in Ringed(src)
      BY <1>5, <1>13 DEF Active, RingOK, active
    <2>2. src.qactive # src.qtail /\ src.qactive \in Slots
      BY <2>1, <1>10, <1>11
    <2>3. QED
      BY <2>1, <2>2, <1>4, <1>5, <1>6 DEF ActiveBuffer, HasPlace
  <1>14. ASSUME NEW i \in Pending(r)
         PROVE  \/ r.bufferQueue[i] = b
                \/ i \in Pending(src) /\ r.bufferQueue[i] = src.bufferQueue[i]
    <2>1. i \in Ringed(r) /\ Offset(r, i) >= Offset(r, r.qactive)
      BY <1>5, <1>12, <1>14, PendingInRing
    <2>2. CASE i = src.qtail
      BY <2>2, <1>4, <1>5
    <2>3. CASE i # src.qtail
      <3>1. i \in Ringed(src) /\ i \in Slots
        BY <2>1, <2>3, <1>10, <1>11
      <3>2. r.bufferQueue[i] = src.bufferQueue[i]
        BY <3>1, <2>3, <1>4, <1>5
      <3>3. Active(src)
        <4> SUFFICES ASSUME ~Active(src) PROVE FALSE
          OBVIOUS
        <4>1. r.qactive = src.qtail
          BY <1>5 DEF Active, active
        <4>2. Offset(src, i) >= src.bufUsed
          BY <4>1, <2>1, <3>1, <1>2, <1>6, <1>8
        <4>3. Offset(src, i) < src.bufUsed
          BY <3>1 DEF Ringed
        <4>4. QED
          BY <4>2, <4>3, <3>1, <1>2, <1>9
      <3>4. Offset(src, i) >= Offset(src, src.qactive)
        BY <3>1, <3>3, <2>1, <1>6, <1>13
      <3>5. i \in Pending(src)
        BY <3>1, <3>3, <3>4, PendingInRing
      <3>6. QED
        BY <3>2, <3>5
    <2>4. QED
      BY <2>2, <2>3
  <1>15. QED
    BY <1>5, <1>12, <1>13, <1>14 DEF r

-----------------------------------------------------------------------------
(* A stream, from one step to the next                                     *)

LEMMA SameSide ==
  ASSUME NEW a, NEW b, SameRing(a.src, b.src), a.used = b.used
  PROVE  /\ PendingOK(a) <=> PendingOK(b)
         /\ a.src.playPos = b.src.playPos => (Sounding(a) <=> Sounding(b))
  <1>1. /\ Pending(a.src) = Pending(b.src)
        /\ a.src.bufferQueue = b.src.bufferQueue
        /\ Active(a.src) <=> Active(b.src)
        /\ ActiveBuffer(a.src) = ActiveBuffer(b.src)
    BY SameRingSame DEF SameRing
  <1>2. QED
    BY <1>1 DEF PendingOK, Sounding

(* What a command may change, but for the start of a fill.                 *)
LEMMA RestsKept ==
  ASSUME NEW a, NEW b \in StreamRec, Rests(a),
         SameRing(a.src, b.src), a.used = b.used,
         a.src.playPos = b.src.playPos,
         a.sampleCount = b.sampleCount, a.sampleLimit = b.sampleLimit,
         b.feed /\ b.open => a.feed /\ a.open,
         b.src.state = "playing" =>
           \/ a.src.state = "playing" /\ a.src.mode = b.src.mode /\ a.feed = b.feed
           \/ a.sampleCount # 0 /\ Active(a.src)
  PROVE  Rests(b)
  <1>1. RingOK(b.src) /\ (Active(a.src) <=> Active(b.src))
    BY SameRingSame DEF Rests, StreamSound, RingSide
  <1>2. PendingOK(b) /\ (Sounding(a) <=> Sounding(b))
    BY SameSide DEF Rests, StreamSound, RingSide
  <1>3. RingSide(b)
    BY <1>1, <1>2 DEF Rests, StreamSound, RingSide
  <1>4. FileSide(b)
    BY DEF Rests, StreamSound, FileSide, SegmentSet
  <1>5. b.sampleCount # 0 => Sounding(b)
    BY <1>2 DEF Rests
  <1>6. QED
    BY <1>3, <1>4, <1>5 DEF Rests, StreamSound

LEMMA StoppedStream ==
  ASSUME NEW st \in StreamRec
  PROVE  LET r == Stopped(st)
         IN /\ r \in StreamRec /\ SameRing(st.src, r.src) /\ r.used = st.used
            /\ r.src.state = "stopped" /\ ~r.feed /\ ~r.open
            /\ r.src.mode = st.src.mode /\ r.src.playPos = st.src.playPos
            /\ r.sampleCount = st.sampleCount /\ r.sampleLimit = st.sampleLimit
  <1> DEFINE t == [st.src EXCEPT !.state = "stopped"]
             r == Stopped(st)
             f == st.failed \/ (st.feed /\ st.open)
  <1>1. r = [st EXCEPT !.src = t, !.feed = FALSE, !.open = FALSE, !.failed = f]
    BY DEF Stopped
  <1>2. /\ t \in SourceRec /\ SameRing(st.src, t) /\ t.state = "stopped"
        /\ t.mode = st.src.mode /\ t.playPos = st.src.playPos
    <2>1. st.src \in SourceRec
      BY DEF StreamRec
    <2>2. QED
      BY <2>1 DEF SourceRec, States, SameRing
  <1>3. f \in BOOLEAN
    BY DEF StreamRec
  <1> HIDE DEF t, r, f
  <1>4. /\ r \in StreamRec /\ r.src = t /\ r.feed = FALSE /\ r.open = FALSE
        /\ r.used = st.used
        /\ r.sampleCount = st.sampleCount /\ r.sampleLimit = st.sampleLimit
    BY <1>1, <1>2, <1>3 DEF StreamRec
  <1>5. QED
    BY <1>2, <1>4 DEF r

LEMMA StoppedRests ==
  ASSUME NEW st, Rests(st) PROVE Rests(Stopped(st))
  <1>1. st \in StreamRec
    BY DEF Rests, StreamSound, RingSide
  <1>2. QED
    BY <1>1, StoppedStream, RestsKept

(* stream_start makes a ring of all buffers and begins to fill it.         *)
LEMMA StartedFills ==
  ASSUME NEW st \in StreamRec, st.src.state # "playing", st.sampleCount = 0
  PROVE  Fills([st EXCEPT !.src = Prime(@), !.feed = TRUE,
                          !.used = [b \in Buffers |-> 0],
                          !.from = [b \in Buffers |-> 0]], NoBuffer, "wait")
  <1> DEFINE t == Prime(st.src)
             none == [b \in Buffers |-> 0]
             r == [st EXCEPT !.src = t, !.feed = TRUE, !.used = none, !.from = none]
  <1>1. st.src \in SourceRec
    BY DEF StreamRec
  <1>2. t \in SourceRec /\ RingOK(t) /\ ~Active(t) /\ t.state # "playing"
    BY <1>1, PrimedRing
  <1>3. none \in [Buffers -> 0 .. BufLen] /\ none \in [Buffers -> Nat]
    BY Constants
  <1> HIDE DEF t, none
  <1>4. /\ r \in StreamRec /\ r.src = t /\ r.feed
        /\ r.sampleCount = 0 /\ r.sampleLimit = st.sampleLimit
    BY <1>2, <1>3 DEF StreamRec
  <1> HIDE DEF r
  <1>5. r.sampleLimit \in Nat
    BY <1>4 DEF StreamRec
  <1>6. RingSide(r)
    BY <1>2, <1>4 DEF RingSide, PendingOK, Pending
  <1>7. FileSide(r)
    BY <1>2, <1>4, <1>5 DEF FileSide, SegmentSet
  <1>8. Fills(r, NoBuffer, "wait")
    BY <1>2, <1>4, <1>6, <1>7 DEF Fills, StreamSound, FilledFor
  <1>9. QED
    BY <1>8 DEF r, t, none

(* stream_start ends with a stream that plays from its first buffer, or    *)
(* that read nothing.                                                      *)
LEMMA ReturnRests ==
  ASSUME NEW st, StreamSound(st), NEW to, FilledFor(st, to)
  PROVE  Rests(IF to = "wait" THEN Started(st) ELSE st)
  <1>1. CASE to # "wait"
    BY <1>1 DEF FilledFor, Rests, StreamSound, RingSide
  <1>2. CASE to = "wait" /\ st.sampleCount = 0
    BY <1>2 DEF Started, Rests
  <1>3. CASE to = "wait" /\ st.sampleCount # 0
    <2> DEFINE t == [st.src EXCEPT !.state = "playing", !.playPos = 0, !.framesOut = 0]
               r == [st EXCEPT !.src = t]
    <2>1. Started(st) = r
      BY <1>3 DEF Started
    <2>2. st \in StreamRec /\ st.src \in SourceRec
      BY DEF StreamSound, RingSide, StreamRec
    <2>3. /\ t \in SourceRec /\ SameRing(st.src, t)
          /\ t.state = "playing" /\ t.playPos = 0
      BY <2>2 DEF SourceRec, States, SameRing
    <2> HIDE DEF t
    <2>4. /\ r \in StreamRec /\ r.src = t /\ r.used = st.used
          /\ r.feed = st.feed /\ r.open = st.open
          /\ r.sampleCount = st.sampleCount /\ r.sampleLimit = st.sampleLimit
      BY <2>2, <2>3 DEF StreamRec
    <2> HIDE DEF r
    <2>5. RingOK(t) /\ Active(t) /\ PendingOK(r)
      <3>1. Active(st.src)
        BY <1>3 DEF FilledFor
      <3>2. QED
        BY <3>1, <2>3, <2>4, SameRingSame, SameSide DEF StreamSound, RingSide
    <2>6. Sounding(r)
      <3>1. t.qactive \in Pending(t)
        BY <2>3, <2>5, PendingInRing
      <3>2. QED
        BY <3>1, <2>3, <2>4, <2>5 DEF PendingOK, Sounding, ActiveBuffer
    <2>7. RingSide(r) /\ FileSide(r)
      BY <1>3, <2>3, <2>4, <2>5, <2>6 DEF RingSide, FileSide, StreamSound, SegmentSet
    <2>8. QED
      BY <1>3, <2>1, <2>6, <2>7 DEF Rests, StreamSound
  <1>4. QED
    BY <1>1, <1>2, <1>3

(* stream_fillBuffers takes a buffer that was played out.                  *)
LEMMA TakeFills ==
  ASSUME NEW st, NEW to, Fills(st, NoBuffer, to), HasProcessed(st.src)
  PROVE  LET b == st.src.bufferQueue[st.src.qhead]
             r == [st EXCEPT !.src = Dequeue(@)]
         IN /\ Fills(r, b, to) /\ b \in Buffers
            /\ Active(st.src) =>
                 Offset(st.src, st.src.qactive) = Offset(r.src, r.src.qactive) + 1
  <1> DEFINE b == st.src.bufferQueue[st.src.qhead]
             t == Dequeue(st.src)
             r == [st EXCEPT !.src = t]
  <1>1. st \in StreamRec /\ st.src \in SourceRec /\ RingOK(st.src)
    BY DEF Fills, StreamSound, RingSide, StreamRec
  <1>2. /\ t \in SourceRec /\ RingOK(t)
        /\ b \in Buffers /\ HasPlace(t, b)
        /\ Pending(t) = Pending(st.src) /\ t.qactive = st.src.qactive
        /\ t.bufferQueue = st.src.bufferQueue /\ t.playPos = st.src.playPos
        /\ t.state = st.src.state /\ t.mode = st.src.mode
        /\ Active(st.src) => Offset(st.src, st.src.qactive) = Offset(t, t.qactive) + 1
    BY <1>1, DequeuedRing
  <1> HIDE DEF b, t
  <1>3. /\ r \in StreamRec /\ r.src = t /\ r.used = st.used
        /\ r.feed = st.feed /\ r.open = st.open
        /\ r.sampleCount = st.sampleCount /\ r.sampleLimit = st.sampleLimit
    BY <1>1, <1>2 DEF StreamRec
  <1> HIDE DEF r
  <1>4. (Active(t) <=> Active(st.src)) /\ ActiveBuffer(t) = ActiveBuffer(st.src)
    BY <1>2 DEF Active, ActiveBuffer
  <1>5. PendingOK(r) /\ (Sounding(r) <=> Sounding(st))
    BY <1>2, <1>3, <1>4 DEF PendingOK, Sounding, Fills, StreamSound, RingSide
  <1>6. RingSide(r) /\ FileSide(r)
    BY <1>2, <1>3, <1>4, <1>5 DEF Fills, StreamSound, RingSide, FileSide, SegmentSet
  <1>7. Fills(r, b, to)
    BY <1>2, <1>3, <1>4, <1>6 DEF Fills, StreamSound, FilledFor
  <1>8. QED
    BY <1>2, <1>3, <1>7 DEF r, b, t

(* What one call of _readOgg has put into buffer b, and what is queued.    *)
ReadInto(st, b, n) ==
  [st EXCEPT !.pos = @ + n, !.used[b] = n, !.from[b] = st.pos, !.sampleCount = @ + n]
HasData(st, b, n) ==
  n > 0 /\ ~(AtLimit(ReadInto(st, b, n)) /\ Excess(ReadInto(st, b, n)) >= n)
KeptOf(st, b, n) ==
  IF HasData(st, b, n) THEN QueueRead(ReadInto(st, b, n), b, n) ELSE ReadInto(st, b, n)

(* The buffer that was read goes into the ring if anything was read: the   *)
(* decoder has not got to the end of the part before.                      *)
LEMMA ReadKept ==
  ASSUME NEW st, NEW b \in Buffers, NEW to, Fills(st, b, to),
         NEW n \in 0 .. BufLen, st.open \/ n = 0
  PROVE  LET r == KeptOf(st, b, n)
         IN /\ r \in StreamRec
            /\ HasData(st, b, n) <=> n > 0
            /\ AtLimit(ReadInto(st, b, n)) <=> (SegmentSet(r) /\ r.sampleCount >= r.sampleLimit)
            /\ RingSide(r) /\ FilledFor(r, to) /\ r.feed /\ r.open = st.open
            /\ r.src.state = st.src.state /\ r.src.mode = st.src.mode
            /\ r.sampleLimit = st.sampleLimit
            /\ st.sampleCount # 0 => r.sampleCount # 0
            /\ n = 0 => r.sampleCount = st.sampleCount /\ HasPlace(r.src, b)
            /\ Active(st.src) =>
                 Offset(r.src, r.src.qactive) = Offset(st.src, st.src.qactive)
  <1> DEFINE read == ReadInto(st, b, n)
             into == [st.used EXCEPT ![b] = n]
             places == [st.from EXCEPT ![b] = st.pos]
  <1>1. /\ st \in StreamRec /\ st.src \in SourceRec /\ RingOK(st.src)
        /\ st.used \in [Buffers -> 0 .. BufLen] /\ st.from \in [Buffers -> Nat]
        /\ st.pos \in Nat /\ st.sampleCount \in Nat /\ st.sampleLimit \in Nat
    BY DEF Fills, StreamSound, RingSide, StreamRec
  <1>2. b # NoBuffer /\ HasPlace(st.src, b) /\ st.feed /\ FilledFor(st, to)
    BY Constants DEF Fills
  <1>3. /\ into \in [Buffers -> 0 .. BufLen] /\ places \in [Buffers -> Nat]
        /\ \A c \in Buffers : c # b => into[c] = st.used[c]
    BY <1>1
  <1>4. PICK p \in Nat, k \in Nat : p = st.pos + n /\ k = st.sampleCount + n
    BY <1>1, Constants
  <1>4a. read = [[[[st EXCEPT !.pos = p] EXCEPT !.used = into] EXCEPT !.from = places]
                   EXCEPT !.sampleCount = k]
    <2> DEFINE s == [st EXCEPT !.pos = p]
               v == [s EXCEPT !.used = [s.used EXCEPT ![b] = n]]
               w == [v EXCEPT !.from = [v.from EXCEPT ![b] = st.pos]]
    <2>1. read = [w EXCEPT !.sampleCount = k]
      BY <1>4, Zenon DEF ReadInto
    <2>2. s.used = st.used
      BY <1>1 DEF StreamRec
    <2>3. v = [s EXCEPT !.used = into]
      BY <2>2, Zenon
    <2> HIDE DEF v
    <2>4. v.from = st.from
      BY <1>1, <2>3 DEF StreamRec
    <2>5. w = [[s EXCEPT !.used = into] EXCEPT !.from = places]
      BY <2>3, <2>4, Zenon
    <2> HIDE DEF w
    <2>6. QED
      BY <2>1, <2>5, Zenon
  <1> HIDE DEF read, into, places
  <1>5. /\ read \in StreamRec /\ read.src = st.src /\ read.used = into
        /\ read.feed = st.feed /\ read.open = st.open
        /\ read.sampleCount = st.sampleCount + n /\ read.sampleLimit = st.sampleLimit
    BY <1>1, <1>3, <1>4, <1>4a DEF StreamRec
  <1>6. /\ AtLimit(read) <=> st.sampleLimit # 0 /\ st.sampleCount + n >= st.sampleLimit
        /\ Excess(read) = st.sampleCount + n - st.sampleLimit
    BY <1>1, <1>5, Constants DEF AtLimit, SegmentSet, Excess
  <1>7. n > 0 /\ st.sampleLimit # 0 => st.sampleCount < st.sampleLimit
    BY <1>2 DEF Fills, StreamSound, FileSide, SegmentSet
  <1>8. HasData(st, b, n) <=> n > 0
    BY <1>1, <1>6, <1>7, Constants DEF HasData, read
  <1>9. CASE n = 0
    <2>1. KeptOf(st, b, n) = read
      BY <1>8, <1>9 DEF KeptOf, read
    <2>2. \A i \in Pending(st.src) : st.src.bufferQueue[i] # b
                                   /\ st.src.bufferQueue[i] \in Buffers
      BY <1>1, <1>2, PendingInRing DEF HasPlace, RingOK
    <2>3. PendingOK(read)
      BY <1>3, <1>5, <2>2 DEF PendingOK, Fills, StreamSound, RingSide
    <2>4. Active(st.src) => ActiveBuffer(st.src) # b /\ ActiveBuffer(st.src) \in Buffers
      BY <1>1, <1>2 DEF HasPlace, RingOK, ActiveBuffer
    <2>5. Sounding(read) <=> Sounding(st)
      BY <1>3, <1>5, <2>4 DEF Sounding
    <2>6. RingSide(read)
      BY <1>1, <1>5, <2>3, <2>5 DEF RingSide, Fills, StreamSound
    <2>7. read.sampleCount = st.sampleCount
      BY <1>1, <1>5, <1>9
    <2>8. FilledFor(read, to)
      BY <1>2, <1>5, <2>7 DEF FilledFor
    <2>9. AtLimit(read) <=> (SegmentSet(read) /\ read.sampleCount >= read.sampleLimit)
      BY DEF AtLimit
    <2>10. QED
      BY <1>2, <1>5, <1>8, <1>9, <2>1, <2>6, <2>7, <2>8, <2>9 DEF read
  <1>10. CASE n # 0
    <2> DEFINE t == QueueBuffer(st.src, b)
               m == IF AtLimit(read) THEN n - Excess(read) ELSE n
               cut == [into EXCEPT ![b] = m]
               r == KeptOf(st, b, n)
    <2>1. m \in 1 .. BufLen
      BY <1>1, <1>6, <1>7, <1>10, Constants
    <2>2. r = [read EXCEPT !.used = cut, !.src = t]
      <3>1. n > 0
        BY <1>10, Constants
      <3>2. r = QueueRead(read, b, n)
        BY <1>8, <3>1 DEF KeptOf, read
      <3>3. QED
        BY <3>2, <1>5 DEF QueueRead
    <2> HIDE DEF m
    <2>3. /\ cut \in [Buffers -> 0 .. BufLen] /\ cut[b] = m
          /\ \A c \in Buffers : c # b => cut[c] = st.used[c]
      BY <1>3, <2>1, Constants
    <2>4. /\ t \in SourceRec /\ RingOK(t) /\ Active(t)
          /\ \A i \in Pending(t) :
                \/ t.bufferQueue[i] = b
                \/ i \in Pending(st.src) /\ t.bufferQueue[i] = st.src.bufferQueue[i]
          /\ Active(st.src) =>
               /\ t.qactive = st.src.qactive
               /\ ActiveBuffer(t) = ActiveBuffer(st.src) /\ ActiveBuffer(st.src) # b
               /\ Offset(t, t.qactive) = Offset(st.src, st.src.qactive)
          /\ t.playPos = st.src.playPos /\ t.state = st.src.state /\ t.mode = st.src.mode
      BY <1>1, <1>2, QueuedRing
    <2> HIDE DEF t, cut, r
    <2>5. /\ r \in StreamRec /\ r.src = t /\ r.used = cut
          /\ r.feed = st.feed /\ r.open = st.open
          /\ r.sampleCount = st.sampleCount + n /\ r.sampleLimit = st.sampleLimit
      BY <1>5, <2>2, <2>3, <2>4 DEF StreamRec
    <2>6. PendingOK(r)
      <3> SUFFICES ASSUME NEW i \in Pending(t) PROVE cut[t.bufferQueue[i]] > 0
        BY <2>5 DEF PendingOK
      <3>1. CASE t.bufferQueue[i] = b
        BY <3>1, <2>1, <2>3, Constants
      <3>2. CASE i \in Pending(st.src) /\ t.bufferQueue[i] = st.src.bufferQueue[i]
                 /\ t.bufferQueue[i] # b
        <4>1. st.src.bufferQueue[i] \in Buffers
          BY <3>2, <1>1, PendingInRing DEF RingOK
        <4>2. st.used[st.src.bufferQueue[i]] > 0
          BY <3>2 DEF Fills, StreamSound, RingSide, PendingOK
        <4>3. QED
          BY <3>2, <4>1, <4>2, <2>3
      <3>3. QED
        BY <3>1, <3>2, <2>4
    <2>7. Active(st.src) => (Sounding(r) <=> Sounding(st))
      <3>1. Active(st.src) => ActiveBuffer(st.src) \in Buffers
        BY <1>1 DEF RingOK, ActiveBuffer
      <3>2. QED
        BY <3>1, <2>3, <2>4, <2>5 DEF Sounding
    <2>8. RingSide(r)
      BY <2>4, <2>5, <2>6, <2>7 DEF RingSide, Fills, StreamSound
    <2>9. FilledFor(r, to)
      BY <1>2, <2>4, <2>5 DEF FilledFor
    <2>10. r.sampleCount # 0
      BY <1>1, <1>10, <2>5, Constants
    <2>11. AtLimit(read) <=> (SegmentSet(r) /\ r.sampleCount >= r.sampleLimit)
      BY <1>5, <2>5 DEF AtLimit, SegmentSet
    <2>12. QED
      BY <1>2, <1>8, <1>10, <2>4, <2>5, <2>8, <2>9, <2>10, <2>11 DEF r, read
  <1>11. QED
    BY <1>9, <1>10

(* How the loop of stream_fillBuffers goes on: it gives up at an error,    *)
(* winds back or stops at the end, or takes the next buffer.               *)
LEMMA ReadFills ==
  ASSUME NEW st, NEW b \in Buffers, NEW to, Fills(st, b, to),
         NEW n \in 0 .. BufLen, NEW error \in BOOLEAN, st.open \/ n = 0
  PROVE  LET kept == KeptOf(st, b, n)
             eof  == (~error /\ n < BufLen) \/ (n > 0 /\ AtLimit(ReadInto(st, b, n)))
             left == IF HasData(st, b, n) THEN NoBuffer ELSE b
             Ends(r) == StreamSound(r) /\ FilledFor(r, to)
         IN /\ Ends([kept EXCEPT !.open = FALSE, !.failed = TRUE])
            /\ eof /\ "loop" \in st.src.mode =>
                 /\ Fills(Rewound(kept), left, to)
                 /\ Rewound(kept).src = kept.src
            /\ "loop" \notin st.src.mode =>
                 Ends(IF SegmentSet(st) THEN [kept EXCEPT !.feed = FALSE]
                                        ELSE [kept EXCEPT !.open = FALSE])
            /\ ~error /\ ~eof => Fills(kept, NoBuffer, to)
            /\ Active(st.src) =>
                 Offset(kept.src, kept.src.qactive) = Offset(st.src, st.src.qactive)
  <1> DEFINE kept == KeptOf(st, b, n)
             eof  == (~error /\ n < BufLen) \/ (n > 0 /\ AtLimit(ReadInto(st, b, n)))
             left == IF HasData(st, b, n) THEN NoBuffer ELSE b
             Ends(r) == StreamSound(r) /\ FilledFor(r, to)
  <1>1. /\ kept \in StreamRec
        /\ HasData(st, b, n) <=> n > 0
        /\ AtLimit(ReadInto(st, b, n))
              <=> (SegmentSet(kept) /\ kept.sampleCount >= kept.sampleLimit)
        /\ RingSide(kept) /\ FilledFor(kept, to) /\ kept.feed /\ kept.open = st.open
        /\ kept.src.state = st.src.state /\ kept.src.mode = st.src.mode
        /\ kept.sampleLimit = st.sampleLimit
        /\ st.sampleCount # 0 => kept.sampleCount # 0
        /\ n = 0 => kept.sampleCount = st.sampleCount /\ HasPlace(kept.src, b)
        /\ Active(st.src) =>
             Offset(kept.src, kept.src.qactive) = Offset(st.src, st.src.qactive)
    BY ReadKept
  <1>2. /\ st.src.state = "playing" =>
             st.sampleCount # 0 \/ "loop" \in st.src.mode
        /\ st.open /\ SegmentSet(st) => st.sampleCount < st.sampleLimit
    BY DEF Fills, StreamSound, FileSide
  <1>3. /\ kept.sampleCount \in Nat /\ kept.sampleLimit \in Nat /\ kept.pos \in Nat
        /\ kept.start \in Nat /\ (SegmentSet(st) <=> SegmentSet(kept))
    BY <1>1 DEF StreamRec, SegmentSet
  <1> HIDE DEF kept, eof, left
  <1>4. ASSUME NEW r \in StreamRec, r.src = kept.src, r.used = kept.used,
               r.sampleCount = kept.sampleCount
        PROVE  RingSide(r) /\ FilledFor(r, to)
    BY <1>1, <1>4 DEF RingSide, PendingOK, Sounding, FilledFor
  <1>5. Ends([kept EXCEPT !.open = FALSE, !.failed = TRUE])
    <2> DEFINE r == [kept EXCEPT !.open = FALSE, !.failed = TRUE]
    <2>1. /\ r \in StreamRec /\ r.src = kept.src /\ r.used = kept.used
          /\ r.sampleCount = kept.sampleCount /\ r.feed = kept.feed /\ r.open = FALSE
      BY <1>1 DEF StreamRec
    <2> HIDE DEF r
    <2>2. FileSide(r)
      BY <1>1, <1>2, <2>1 DEF FileSide
    <2>3. Ends(r)
      BY <1>4, <2>1, <2>2 DEF StreamSound
    <2>4. QED
      BY <2>3 DEF r
  <1>6. ASSUME "loop" \notin st.src.mode
        PROVE  Ends(IF SegmentSet(st) THEN [kept EXCEPT !.feed = FALSE]
                                      ELSE [kept EXCEPT !.open = FALSE])
    <2> DEFINE r == IF SegmentSet(st) THEN [kept EXCEPT !.feed = FALSE]
                                      ELSE [kept EXCEPT !.open = FALSE]
    <2>1. /\ r \in StreamRec /\ r.src = kept.src /\ r.used = kept.used
          /\ r.sampleCount = kept.sampleCount /\ ~(r.feed /\ r.open)
      BY <1>1 DEF StreamRec
    <2> HIDE DEF r
    <2>2. FileSide(r)
      BY <1>1, <1>2, <1>6, <2>1 DEF FileSide
    <2>3. Ends(r)
      BY <1>4, <2>1, <2>2 DEF StreamSound
    <2>4. QED
      BY <2>3 DEF r
  <1>7. ASSUME "loop" \in st.src.mode
        PROVE  Fills(Rewound(kept), left, to) /\ Rewound(kept).src = kept.src
    <2> DEFINE r == Rewound(kept)
    <2>1. /\ r \in StreamRec /\ r.src = kept.src /\ r.used = kept.used
          /\ r.sampleCount = IF SegmentSet(kept) THEN 0 ELSE kept.sampleCount
          /\ r.sampleLimit = kept.sampleLimit /\ r.feed = kept.feed
      <3>1. CASE SegmentSet(kept)
        <4> DEFINE p == IF kept.start <= kept.size THEN kept.start ELSE kept.pos
        <4>1. r = [kept EXCEPT !.pos = p, !.sampleCount = 0]
          BY <3>1 DEF Rewound
        <4>2. p \in Nat
          BY <1>3
        <4> HIDE DEF p, r
        <4>3. QED
          BY <1>1, <3>1, <4>1, <4>2 DEF StreamRec
      <3>2. CASE ~SegmentSet(kept)
        <4>1. r = [kept EXCEPT !.pos = 0]
          BY <3>2 DEF Rewound
        <4> HIDE DEF r
        <4>2. QED
          BY <1>1, <3>2, <4>1 DEF StreamRec
      <3>3. QED
        BY <3>1, <3>2
    <2> HIDE DEF r
    <2>2. RingSide(r)
      BY <1>1, <2>1 DEF RingSide, PendingOK, Sounding
    <2>3. FileSide(r)
      BY <1>1, <1>3, <1>7, <2>1 DEF FileSide, SegmentSet
    <2>4. FilledFor(r, to)
      BY <1>1, <2>1 DEF FilledFor
    <2>5. left # NoBuffer => HasPlace(r.src, b) /\ left = b
      BY <1>1, <2>1, Constants DEF left
    <2>6. Fills(r, left, to)
      BY <1>1, <2>1, <2>2, <2>3, <2>4, <2>5 DEF Fills, StreamSound
    <2>7. QED
      BY <2>1, <2>6 DEF r
  <1>8. ASSUME ~error, ~eof PROVE Fills(kept, NoBuffer, to)
    <2>1. n > 0
      BY <1>8, Constants DEF eof
    <2>2. ~(SegmentSet(kept) /\ kept.sampleCount >= kept.sampleLimit)
      BY <1>1, <1>8, <2>1 DEF eof
    <2>3. FileSide(kept)
      BY <1>1, <1>2, <1>3, <2>2 DEF FileSide
    <2>4. QED
      BY <1>1, <2>3 DEF Fills, StreamSound
  <1>9. QED
    BY <1>1, <1>5, <1>6, <1>7, <1>8 DEF kept, eof, left

(* A pass moves the stream along its ring, or ends it.                     *)
LEMMA AdvancedSource ==
  ASSUME NEW src \in SourceRec, RingOK(src), Active(src), NEW n \in Nat,
         NEW frames \in [Buffers -> 0 .. BufLen]
  PROVE  LET t == Advance(src, n, frames, Buffers, FALSE)
         IN /\ t \in SourceRec
            /\ \/ /\ t.state = "unused" /\ ~Active(t)
                  /\ SameRing(t, [src EXCEPT !.qactive = QNone])
               \/ /\ t.state = src.state /\ t.mode = src.mode
                  /\ t.playPos < frames[ActiveBuffer(src)] /\ SameRing(t, src)
               \/ /\ t.state = src.state /\ t.mode = src.mode /\ t.playPos = 0
                  /\ ~AtQueueEnd(src)
                  /\ SameRing(t, [src EXCEPT !.qactive = NextSlot(src.qactive)])
  <1> DEFINE k == src.framesOut + n
             moved == [src EXCEPT !.framesOut = @ + n]
             armed == [ArmFade(src, n) EXCEPT !.framesOut = @ + n]
             gone == [armed EXCEPT !.playPos = @ + n]
             rewound == [armed EXCEPT !.playPos = 0]
             next == [rewound EXCEPT !.qactive = NextSlot(@)]
             Kept(r) == /\ r \in SourceRec /\ SameRing(r, src)
                        /\ r.state = src.state /\ r.mode = src.mode
             Ended(r) == /\ EndPlay(r) \in SourceRec
                         /\ EndPlay(r).state = "unused" /\ ~Active(EndPlay(r))
                         /\ SameRing(EndPlay(r), [src EXCEPT !.qactive = QNone])
  <1>1. /\ src.framesOut \in Nat /\ src.playPos \in Nat /\ k \in Nat
        /\ src.volume \in Nat /\ src.fadePeriod \in Nat \ {0}
        /\ src.playPos + n \in Nat
    BY DEF SourceRec
  <1>2. Kept(moved)
    BY <1>1 DEF SourceRec, SameRing
  <1>3. Kept(armed) /\ armed.playPos = src.playPos
    <2>1. -FadeDelta(src) \in Int
      BY <1>1 DEF FadeDelta
    <2>2. Kept(ArmFade(src, n)) /\ ArmFade(src, n).framesOut = src.framesOut
                               /\ ArmFade(src, n).playPos = src.playPos
      BY <2>1 DEF ArmFade, StartFadeOut, SourceRec, SameRing
    <2> DEFINE a == ArmFade(src, n)
    <2>3. armed = [a EXCEPT !.framesOut = k]
      BY <2>2
    <2> HIDE DEF a, armed, k
    <2>4. Kept(a) /\ a.playPos = src.playPos
      BY <2>2 DEF a
    <2>5. QED
      BY <1>1, <2>3, <2>4 DEF SourceRec, SameRing
  <1> HIDE DEF moved, armed
  <1>4. Kept(rewound) /\ rewound.playPos = 0
    BY <1>3 DEF SourceRec, SameRing
  <1>5. Kept(gone) /\ gone.playPos = src.playPos + n
    BY <1>1, <1>3 DEF SourceRec, SameRing
  <1>6. ASSUME NEW r, Kept(r) PROVE Ended(r)
    BY <1>6 DEF EndPlay, SourceRec, SameRing, States, Active
  <1> HIDE DEF rewound, gone
  <1>7. ASSUME NextSlot(src.qactive) \in Slots
        PROVE  /\ next \in SourceRec /\ next.state = src.state /\ next.mode = src.mode
               /\ next.playPos = 0
               /\ SameRing(next, [src EXCEPT !.qactive = NextSlot(src.qactive)])
    BY <1>4, <1>7 DEF SourceRec, SameRing
  <1>8. NextSlot(src.qactive) \in Slots
    <2>1. src.qactive \in Slots
      BY DEF SourceRec, Active
    <2>2. QED
      BY <2>1, Constants DEF NextSlot, Slots
  <1> HIDE DEF next
  <1>9. CASE ReachesEnd(src, n)
    <2>1. Advance(src, n, frames, Buffers, FALSE) = EndPlay(moved)
      BY <1>9 DEF Advance, moved
    <2>2. QED
      BY <1>2, <1>6, <2>1
  <1>10. CASE ~ReachesEnd(src, n) /\ ~PlaysOut(src, n, frames)
    <2>1. Advance(src, n, frames, Buffers, FALSE) = gone
      BY <1>10 DEF Advance, gone, armed
    <2>2. ActiveBuffer(src) \in Buffers
      BY DEF RingOK, ActiveBuffer
    <2>3. src.playPos + n < frames[ActiveBuffer(src)]
      BY <1>1, <1>10, <2>2, Constants DEF PlaysOut
    <2>4. QED
      BY <1>5, <2>1, <2>3
  <1>11. CASE ~ReachesEnd(src, n) /\ PlaysOut(src, n, frames)
    <2>1. AtQueueEnd(src) => Finishes(src, n, frames, Buffers, FALSE)
      BY <1>11 DEF Finishes, Loops
    <2>2. Advance(src, n, frames, Buffers, FALSE)
            = IF Finishes(src, n, frames, Buffers, FALSE) THEN EndPlay(rewound)
              ELSE IF AtQueueEnd(src) THEN rewound ELSE next
      BY <1>11 DEF Advance, next, rewound, armed
    <2>3. QED
      BY <1>4, <1>6, <1>7, <1>8, <2>1, <2>2
  <1>12. QED
    BY <1>9, <1>10, <1>11

LEMMA AdvanceRests ==
  ASSUME NEW st, Rests(st), Active(st.src), NEW n \in Nat
  PROVE  Rests([st EXCEPT !.src = Advance(@, n, st.used, Buffers, FALSE)])
  <1> DEFINE src == st.src
             t == Advance(src, n, st.used, Buffers, FALSE)
             r == [st EXCEPT !.src = t]
  <1> SUFFICES Rests(r)
    OBVIOUS
  <1>1. /\ st \in StreamRec /\ src \in SourceRec /\ RingOK(src) /\ Active(src)
        /\ st.used \in [Buffers -> 0 .. BufLen]
    BY DEF Rests, StreamSound, RingSide, StreamRec
  <1>2. /\ t \in SourceRec
        /\ \/ /\ t.state = "unused" /\ ~Active(t)
              /\ SameRing(t, [src EXCEPT !.qactive = QNone])
           \/ /\ t.state = src.state /\ t.mode = src.mode
              /\ t.playPos < st.used[ActiveBuffer(src)] /\ SameRing(t, src)
           \/ /\ t.state = src.state /\ t.mode = src.mode /\ t.playPos = 0
              /\ ~AtQueueEnd(src)
              /\ SameRing(t, [src EXCEPT !.qactive = NextSlot(src.qactive)])
    BY <1>1, AdvancedSource
  <1> HIDE DEF t
  <1>3. /\ r \in StreamRec /\ r.src = t /\ r.used = st.used
        /\ r.feed = st.feed /\ r.open = st.open
        /\ r.sampleCount = st.sampleCount /\ r.sampleLimit = st.sampleLimit
    BY <1>1, <1>2 DEF StreamRec
  <1> HIDE DEF r
  <1>4. ASSUME RingOK(t), PendingOK(r), Sounding(r), t.state = "playing" => Active(t),
               t.state = "playing" => src.state = "playing" /\ t.mode = src.mode
        PROVE  Rests(r)
    BY <1>3, <1>4 DEF Rests, StreamSound, RingSide, FileSide, SegmentSet
  <1>5. CASE /\ t.state = "unused" /\ ~Active(t)
             /\ SameRing(t, [src EXCEPT !.qactive = QNone])
    <2>1. /\ t.bufUsed = src.bufUsed /\ t.qtail = src.qtail /\ t.qhead = src.qhead
          /\ t.bufferQueue = src.bufferQueue
      BY <1>1, <1>5 DEF SameRing, SourceRec
    <2>2. Ringed(t) = Ringed(src)
      BY <2>1 DEF Ringed, Offset
    <2>3. RingOK(t)
      BY <1>1, <1>5, <2>1, <2>2 DEF RingOK
    <2>4. PendingOK(r) /\ Sounding(r)
      BY <1>3, <1>5 DEF PendingOK, Sounding, Pending
    <2>5. QED
      BY <1>4, <1>5, <2>3, <2>4
  <1>6. CASE /\ t.state = src.state /\ t.mode = src.mode
             /\ t.playPos < st.used[ActiveBuffer(src)] /\ SameRing(t, src)
    <2>1. RingOK(t) /\ Active(t) /\ ActiveBuffer(t) = ActiveBuffer(src)
      BY <1>1, <1>6, SameRingSame
    <2>2. PendingOK(r)
      BY <1>3, <1>6, SameSide DEF Rests, StreamSound, RingSide
    <2>3. Sounding(r)
      BY <1>3, <1>6, <2>1 DEF Sounding
    <2>4. QED
      BY <1>4, <1>6, <2>1, <2>2, <2>3
  <1>7. CASE /\ t.state = src.state /\ t.mode = src.mode /\ t.playPos = 0
             /\ ~AtQueueEnd(src)
             /\ SameRing(t, [src EXCEPT !.qactive = NextSlot(src.qactive)])
    <2>1. /\ t.bufUsed = src.bufUsed /\ t.qtail = src.qtail /\ t.qhead = src.qhead
          /\ t.bufferQueue = src.bufferQueue /\ t.qactive = NextSlot(src.qactive)
      BY <1>1, <1>7 DEF SameRing, SourceRec
    <2>2. Ringed(t) = Ringed(src) /\ \A i : Offset(t, i) = Offset(src, i)
      BY <2>1 DEF Ringed, Offset
    <2>3. /\ src.qhead \in Slots /\ src.bufUsed \in 0 .. QueueSize
          /\ src.qactive \in Slots /\ Offset(src, src.qactive) < src.bufUsed
      BY <1>1 DEF SourceRec, Active, RingOK, Ringed
    <2>4. src.qtail = IF src.qhead + src.bufUsed < QueueSize
                      THEN src.qhead + src.bufUsed ELSE src.qhead + src.bufUsed - QueueSize
      BY <1>1 DEF RingOK
    <2>5. /\ NextSlot(src.qactive) \in Slots
          /\ Offset(src, NextSlot(src.qactive)) = Offset(src, src.qactive) + 1
          /\ Offset(src, NextSlot(src.qactive)) < src.bufUsed
          /\ Offset(src, src.qactive) \in Nat
      <3>1. NextSlot(src.qactive) # src.qtail
        BY <1>7 DEF AtQueueEnd
      <3>2. PICK a \in Slots, h \in Slots, u \in 0 .. QueueSize, z \in Slots :
              a = src.qactive /\ h = src.qhead /\ u = src.bufUsed /\ z = NextSlot(a)
        BY <2>3, Constants DEF NextSlot, Slots
      <3>3. /\ (IF a >= h THEN a - h ELSE a + QueueSize - h) < u
            /\ z # (IF h + u < QueueSize THEN h + u ELSE h + u - QueueSize)
        BY <2>3, <2>4, <3>1, <3>2 DEF Offset
      <3>4. /\ (IF z >= h THEN z - h ELSE z + QueueSize - h)
                  = (IF a >= h THEN a - h ELSE a + QueueSize - h) + 1
            /\ (IF z >= h THEN z - h ELSE z + QueueSize - h) < u
            /\ (IF a >= h THEN a - h ELSE a + QueueSize - h) \in Nat
        BY <3>2, <3>3, Constants DEF NextSlot, Slots
      <3>5. QED
        BY <3>2, <3>4 DEF Offset
    <2>6. t.qactive \in Ringed(src) /\ Active(t)
      BY <2>1, <2>5, Constants DEF Ringed, Active
    <2>7. RingOK(t)
      BY <1>1, <2>1, <2>2, <2>6 DEF RingOK
    <2>8. Pending(t) \subseteq Pending(src)
      <3> SUFFICES ASSUME NEW i \in Pending(t) PROVE i \in Pending(src)
        OBVIOUS
      <3>1. i \in Ringed(t) /\ Offset(t, i) >= Offset(t, t.qactive) /\ i \in Slots
        BY <1>2, <2>6, <2>7, PendingInRing DEF Ringed
      <3>2. Offset(src, i) \in Int
        BY <2>3, <3>1, Constants DEF Offset, Slots
      <3>3. Offset(src, i) >= Offset(src, src.qactive)
        BY <2>1, <2>2, <2>5, <3>1, <3>2
      <3>4. QED
        BY <1>1, <2>2, <3>1, <3>3, PendingInRing
    <2>9. PendingOK(r)
      BY <1>3, <2>1, <2>8 DEF PendingOK, Rests, StreamSound, RingSide
    <2>10. Sounding(r)
      <3>1. t.qactive \in Pending(t)
        BY <1>2, <2>6, <2>7, PendingInRing
      <3>2. QED
        BY <1>3, <1>7, <2>9, <3>1 DEF PendingOK, Sounding, ActiveBuffer
    <2>11. QED
      BY <1>4, <1>7, <2>6, <2>7, <2>9, <2>10
  <1>8. QED
    BY <1>2, <1>5, <1>6, <1>7

(* Fades, parameters and modes touch neither the ring nor the position.    *)
Touched(a, b) == b \in SourceRec /\ SameRing(a, b) /\ b.playPos = a.playPos
Tuned(a, b)   == Touched(a, b) /\ b.state = a.state /\ b.mode = a.mode

LEMMA TunedTwice ==
  ASSUME NEW a, NEW b, NEW c, Tuned(b, c)
  PROVE  /\ Tuned(a, b) => Tuned(a, c)
         /\ Touched(a, b) => Touched(a, c)
  BY DEF Tuned, Touched, SameRing

LEMMA FieldTouches ==
  ASSUME NEW src \in SourceRec
  PROVE  /\ \A x \in States : Touched(src, [src EXCEPT !.state = x])
         /\ \A x \in Modes :
              /\ Touched(src, [src EXCEPT !.mode = x])
              /\ [src EXCEPT !.mode = x].state = src.state
         /\ \A x \in Int : Tuned(src, [src EXCEPT !.gain = x])
         /\ \A x \in Int : Tuned(src, [src EXCEPT !.fade = x])
         /\ \A x \in Nat : Tuned(src, [src EXCEPT !.volume = x])
         /\ \A x \in Nat \ {0} : Tuned(src, [src EXCEPT !.fadePeriod = x])
         /\ \A x \in Nat : Tuned(src, [src EXCEPT !.endPos = x])
         /\ \A x \in Nat : Tuned(src, [src EXCEPT !.fadePos = x])
  <1> USE DEF Tuned, Touched, SourceRec, SameRing
  <1>1. ASSUME NEW x \in States PROVE Touched(src, [src EXCEPT !.state = x])
    OBVIOUS
  <1>2. ASSUME NEW x \in Modes
        PROVE  Touched(src, [src EXCEPT !.mode = x]) /\ [src EXCEPT !.mode = x].state = src.state
    OBVIOUS
  <1>3. ASSUME NEW x \in Int
        PROVE  Tuned(src, [src EXCEPT !.gain = x]) /\ Tuned(src, [src EXCEPT !.fade = x])
    OBVIOUS
  <1>4. ASSUME NEW x \in Nat
        PROVE  Tuned(src, [src EXCEPT !.volume = x]) /\ Tuned(src, [src EXCEPT !.endPos = x])
    OBVIOUS
  <1>5. ASSUME NEW x \in Nat PROVE Tuned(src, [src EXCEPT !.fadePos = x])
    OBVIOUS
  <1>6. ASSUME NEW x \in Nat \ {0} PROVE Tuned(src, [src EXCEPT !.fadePeriod = x])
    OBVIOUS
  <1> HIDE DEF Tuned, Touched, SourceRec, SameRing
  <1>7. QED
    BY <1>1, <1>2, <1>3, <1>4, <1>5, <1>6

LEMMA GainAndFadeTouch ==
  ASSUME NEW src \in SourceRec, NEW g \in Int, NEW f \in Int
  PROVE  Tuned(src, [src EXCEPT !.gain = g, !.fade = f])
  <1> DEFINE a == [src EXCEPT !.gain = g]
             b == [a EXCEPT !.fade = f]
  <1>1. Tuned(src, a)
    BY FieldTouches
  <1> HIDE DEF a
  <1>2. Tuned(a, b)
    BY <1>1, FieldTouches DEF Tuned, Touched
  <1> HIDE DEF b
  <1>3. Tuned(src, b)
    BY <1>1, <1>2, TunedTwice
  <1>4. QED
    BY <1>3, Zenon DEF a, b

LEMMA VolumeTouches ==
  ASSUME NEW src \in SourceRec, NEW v \in Nat
  PROVE  Tuned(src, [src EXCEPT !.volume = v, !.gain = v])
  <1> DEFINE a == [src EXCEPT !.volume = v]
             b == [a EXCEPT !.gain = v]
  <1>1. Tuned(src, a)
    BY FieldTouches
  <1> HIDE DEF a
  <1>2. v \in Int
    OBVIOUS
  <1>3. Tuned(a, b)
    BY <1>1, <1>2, FieldTouches DEF Tuned, Touched
  <1> HIDE DEF b
  <1>4. Tuned(src, b)
    BY <1>1, <1>3, TunedTwice
  <1>5. QED
    BY <1>4, Zenon DEF a, b

LEMMA GainTouches ==
  ASSUME NEW src \in SourceRec
  PROVE  Tuned(src, StartFadeIn(src)) /\ Tuned(src, StartFadeOut(src)) /\ Tuned(src, Fade(src))
  <1>1. /\ src.volume \in Nat /\ src.fadePeriod \in Nat \ {0}
        /\ src.gain \in Int /\ src.fade \in Int
    BY DEF SourceRec
  <1>2. FadeDelta(src) \in Int /\ -FadeDelta(src) \in Int
    BY <1>1 DEF FadeDelta
  <1>3. 0 \in Int /\ src.volume \in Int /\ src.gain + src.fade \in Int
    BY <1>1
  <1>4. Tuned(src, StartFadeIn(src))
    BY <1>2, <1>3, GainAndFadeTouch, Zenon DEF StartFadeIn
  <1>5. Tuned(src, StartFadeOut(src))
    BY <1>2, FieldTouches, Zenon DEF StartFadeOut
  <1>6. /\ Tuned(src, [src EXCEPT !.gain = 0, !.fade = 0])
        /\ Tuned(src, [src EXCEPT !.gain = src.volume, !.fade = 0])
    BY <1>3, GainAndFadeTouch, Zenon
  <1>7. Tuned(src, [src EXCEPT !.gain = src.gain + src.fade])
    BY <1>3, FieldTouches, Zenon
  <1>8. Tuned(src, Fade(src))
    BY <1>6, <1>7, Zenon DEF Fade
  <1>9. QED
    BY <1>4, <1>5, <1>8

LEMMA ModeTouches ==
  ASSUME NEW src \in SourceRec, NEW mode \in Modes, NEW size \in Nat
  PROVE  /\ Touched(src, SetMode(src, mode)) /\ SetMode(src, mode).state = src.state
         /\ Touched(src, FileMode(src, size, mode))
         /\ FileMode(src, size, mode).state = src.state
  <1> DEFINE m == [src EXCEPT !.mode = mode]
             s == [m EXCEPT !.fadePos = EndNone]
             t == SetMode(src, mode)
             u == FileMode(src, size, mode)
             ff == t.fadePeriod * MixLen
  <1>1. EndNone \in Nat
    BY SourceAssumption
  <1>2. Touched(src, m) /\ m.state = src.state
    BY FieldTouches
  <1>3. t = IF "fade_in" \in mode THEN StartFadeIn(s) ELSE [s EXCEPT !.gain = s.volume, !.fade = 0]
    BY Zenon DEF SetMode
  <1> HIDE DEF m
  <1>4. Tuned(m, s)
    BY <1>1, <1>2, FieldTouches DEF Touched
  <1> HIDE DEF s, t
  <1>5. s \in SourceRec /\ s.volume \in Int /\ 0 \in Int
    BY <1>4 DEF Tuned, Touched, SourceRec
  <1>6. Tuned(s, StartFadeIn(s)) /\ Tuned(s, [s EXCEPT !.gain = s.volume, !.fade = 0])
    BY <1>5, GainTouches, GainAndFadeTouch, Zenon
  <1>7. Tuned(s, t)
    BY <1>3, <1>6, Zenon
  <1>8. Touched(src, t) /\ t.state = src.state
    BY <1>2, <1>4, <1>7, TunedTwice DEF Tuned
  <1>9. t.fadePeriod \in Nat /\ t.fadePos \in Nat
    BY <1>8 DEF Touched, SourceRec
  <1>10. ff \in Nat
    BY <1>9, Constants
  <1>11. u = [t EXCEPT !.fadePos = IF "fade_out" \in mode /\ size > 2 * ff THEN size - ff
                                                                         ELSE t.fadePos]
    BY Zenon DEF FileMode, t
  <1> HIDE DEF ff, u
  <1>12. (IF "fade_out" \in mode /\ size > 2 * ff THEN size - ff ELSE t.fadePos) \in Nat
    BY <1>9, <1>10
  <1>13. t \in SourceRec
    BY <1>8 DEF Touched
  <1>14. Tuned(t, u)
    BY <1>11, <1>12, <1>13, FieldTouches, Zenon
  <1>15. Touched(src, u) /\ u.state = src.state
    BY <1>8, <1>14, TunedTwice DEF Tuned
  <1>16. QED
    BY <1>8, <1>15 DEF t, u

LEMMA TouchedRests ==
  ASSUME NEW st, Rests(st), NEW t, Touched(st.src, t), t.mode = st.src.mode,
         \/ t.state = st.src.state
         \/ t.state # "playing"
         \/ st.sampleCount # 0 /\ Active(st.src)
  PROVE  Rests([st EXCEPT !.src = t])
  <1> DEFINE r == [st EXCEPT !.src = t]
  <1>1. st \in StreamRec /\ t \in SourceRec
    BY DEF Rests, StreamSound, RingSide, Touched
  <1>2. /\ r \in StreamRec /\ r.src = t /\ r.used = st.used
        /\ r.feed = st.feed /\ r.open = st.open
        /\ r.sampleCount = st.sampleCount /\ r.sampleLimit = st.sampleLimit
    BY <1>1 DEF StreamRec
  <1> HIDE DEF r
  <1>3. SameRing(st.src, r.src) /\ r.src.playPos = st.src.playPos
    BY <1>2 DEF Touched
  <1>4. Rests(r)
    BY <1>2, <1>3, RestsKept
  <1>5. QED
    BY <1>4 DEF r

-----------------------------------------------------------------------------
(* The invariant: the initial state and the commands                       *)

LEMMA InitRests == StreamInit \in StreamRec /\ Rests(StreamInit)
  <1> DEFINE src == SourceInit
             empty == [i \in Slots |-> NoBuffer]
             none == [b \in Buffers |-> 0]
  <1>1. /\ empty \in [Slots -> Buffers \cup {NoBuffer}]
        /\ none \in [Buffers -> 0 .. BufLen] /\ none \in [Buffers -> Nat]
    BY Constants
  <1>2. /\ 0 \in Slots /\ 0 \in 0 .. QueueSize /\ {} \in Modes
        /\ MaxGain \in Int /\ MaxGain \in Nat /\ DefaultPeriod \in Nat \ {0} /\ EndNone \in Nat
    BY SourceAssumption, Constants DEF Slots, Modes
  <1> HIDE DEF empty, none
  <1>3. src = [state |-> "unused", bufUsed |-> 0, qtail |-> 0, qhead |-> 0,
               qactive |-> QNone, mode |-> {}, gain |-> MaxGain, fade |-> 0,
               volume |-> MaxGain, fadePeriod |-> DefaultPeriod, playPos |-> 0,
               framesOut |-> 0, endPos |-> EndNone, fadePos |-> EndNone,
               bufferQueue |-> empty]
    BY Zenon DEF SourceInit, empty
  <1> HIDE DEF src
  <1>4. src \in SourceRec
    BY <1>1, <1>2, <1>3 DEF SourceRec, States
  <1>5. /\ src.state = "unused" /\ src.bufUsed = 0 /\ src.qtail = 0 /\ src.qhead = 0
        /\ src.qactive = QNone
    BY <1>3
  <1>6. StreamInit = [src |-> src, feed |-> FALSE, open |-> FALSE, known |-> FALSE,
                      size |-> 0, pos |-> 0, start |-> 0, sampleCount |-> 0,
                      sampleLimit |-> 0, used |-> none, from |-> none, failed |-> FALSE]
    BY Zenon DEF StreamInit, src, none
  <1>7. /\ StreamInit \in StreamRec /\ StreamInit.src = src /\ StreamInit.sampleCount = 0
        /\ ~StreamInit.feed
    BY <1>1, <1>4, <1>6 DEF StreamRec
  <1>8. \A i \in Slots : ~(Offset(src, i) < src.bufUsed)
    BY <1>5, Constants DEF Slots, Offset
  <1>9. RingOK(src) /\ ~Active(src)
    <2>1. Ringed(src) = {}
      BY <1>8 DEF Ringed
    <2>2. src.qtail = IF src.qhead + src.bufUsed < QueueSize
                  THEN src.qhead + src.bufUsed ELSE src.qhead + src.bufUsed - QueueSize
      BY <1>5, Constants
    <2>3. QED
      BY <1>5, <2>1, <2>2 DEF RingOK, Active
  <1>10. QED
    BY <1>5, <1>7, <1>9
    DEF Rests, StreamSound, RingSide, FileSide, PendingOK, Pending, SegmentSet

LEMMA InitInv == Init => RingInv
  <1> SUFFICES ASSUME Init PROVE RingInv
    OBVIOUS
  <1>1. ControlOK
    BY Constants DEF Init, ControlOK, DoneCap
  <1>2. FilledOK
    <2>1. QueueSize * StreamLimit \in Nat
      BY Constants
    <2>2. QED
      BY <2>1 DEF Init, FilledOK
  <1>3. StreamsOK
    BY InitRests DEF Init, StreamsOK, Filling
  <1>4. QED
    BY <1>1, <1>2, <1>3 DEF RingInv

LEMMA SignalledType ==
  ASSUME ControlOK, NEW S PROVE Signalled(S) \in [Streams -> 0 .. DoneCap]
  BY DEF ControlOK, Signalled, DoneCap

(* A command that leaves the streams at rest.                              *)
LEMMA RestingStep ==
  ASSUME RingInv, phase = "wait", UNCHANGED <<phase, cycle>>,
         errors' \in 0 .. MaxErrors, commands' \in 0 .. MaxCommands,
         done' \in [Streams -> 0 .. DoneCap],
         DOMAIN stream' = Streams, \A s \in Streams : Rests(stream'[s])
  PROVE  RingInv'
  <1>1. ControlOK'
    BY DEF RingInv, ControlOK, cycle
  <1>2. FilledOK'
    BY DEF RingInv, FilledOK, cycle
  <1>3. StreamsOK'
    BY DEF StreamsOK, Filling
  <1>4. QED
    BY <1>1, <1>2, <1>3 DEF RingInv

LEMMA RestingStreams ==
  ASSUME RingInv, phase # "fill", NEW s \in Streams
  PROVE  Rests(stream[s]) /\ stream[s] \in StreamRec /\ stream[s].src \in SourceRec
  BY DEF RingInv, StreamsOK, Filling, Rests, StreamSound, RingSide, StreamRec

(* A command that starts a stream that does not play.                      *)
LEMMA StartingStep ==
  ASSUME RingInv, phase = "wait", NEW s \in Streams, NEW st \in StreamRec,
         st.src.state # "playing", st.sampleCount = 0,
         StartStream(s, st), UNCHANGED <<filled, mixing, mixed, errors>>,
         done' = [done EXCEPT ![s] = 0], commands' \in 0 .. MaxCommands
  PROVE  RingInv'
  <1> DEFINE r == [st EXCEPT !.src = Prime(@), !.feed = TRUE,
                             !.used = [b \in Buffers |-> 0],
                             !.from = [b \in Buffers |-> 0]]
  <1>1. Fills(r, NoBuffer, "wait")
    BY StartedFills
  <1>2. stream' = [stream EXCEPT ![s] = r]
    BY Zenon DEF StartStream
  <1> HIDE DEF r
  <1>3. phase' = "fill" /\ back' = "wait" /\ at' = s /\ taken' = NoBuffer
    BY DEF StartStream, BeginFill
  <1>4. s \in 0 .. StreamLimit /\ s < StreamLimit
    BY Constants DEF Streams
  <1>5. done' \in [Streams -> 0 .. DoneCap]
    BY DEF RingInv, ControlOK, DoneCap
  <1>6. ControlOK'
    BY <1>2, <1>3, <1>4, <1>5 DEF RingInv, ControlOK
  <1>7. FilledOK'
    BY <1>3 DEF RingInv, FilledOK
  <1>8. StreamsOK'
    <2> SUFFICES ASSUME NEW q \in Streams
                 PROVE  IF q = s THEN Fills(stream'[q], NoBuffer, "wait") ELSE Rests(stream'[q])
      BY <1>3 DEF StreamsOK, Filling
    <2>1. stream'[q] = IF q = s THEN r ELSE stream[q]
      BY <1>2 DEF RingInv, ControlOK
    <2>2. QED
      BY <1>1, <2>1, RestingStreams
  <1>9. QED
    BY <1>6, <1>7, <1>8 DEF RingInv

LEMMA OpenedStream ==
  ASSUME RingInv, NEW s \in Streams, NEW size \in FileSizes[s], NEW mode \in StreamModes[s],
         PlayStream(s, size, mode)
  PROVE  \E st \in StreamRec :
           /\ phase = "wait"
           /\ IF mode \cap {"once", "loop"} # {}
              THEN StartStream(s, st)
              ELSE stream' = [stream EXCEPT ![s] = st] /\ UNCHANGED <<phase, at, taken, back>>
           /\ done' = [done EXCEPT ![s] = 0] /\ UNCHANGED <<filled, mixing, mixed, errors>>
           /\ Rests(st) /\ st.src.state # "playing" /\ ~st.feed /\ st.sampleCount = 0
           /\ st.open /\ st.size = size /\ st.pos = 0 /\ st.sampleLimit = 0
  <1> DEFINE stop == Stopped(stream[s])
             t == FileMode(stop.src, size, mode)
             st == [stop EXCEPT !.open = TRUE, !.known = TRUE, !.size = size, !.pos = 0,
                                !.sampleCount = 0, !.sampleLimit = 0, !.failed = FALSE,
                                !.src = t]
  <1>1. size \in Nat /\ mode \in Modes
    BY StreamAssumption
  <1>2. phase = "wait" /\ Rests(stream[s]) /\ stream[s] \in StreamRec
    BY RestingStreams DEF PlayStream
  <1>3. /\ stop \in StreamRec /\ Rests(stop) /\ stop.src \in SourceRec
        /\ stop.src.state = "stopped" /\ ~stop.feed
    BY <1>2, StoppedStream, StoppedRests DEF StreamRec
  <1> HIDE DEF stop
  <1>4. Touched(stop.src, t) /\ t.state = stop.src.state
    BY <1>1, <1>3, ModeTouches
  <1>5. /\ IF mode \cap {"once", "loop"} # {}
           THEN StartStream(s, st)
           ELSE stream' = [stream EXCEPT ![s] = st] /\ UNCHANGED <<phase, at, taken, back>>
        /\ done' = [done EXCEPT ![s] = 0]
        /\ UNCHANGED <<filled, mixing, mixed, errors>>
    <2>1. /\ IF mode \cap {"once", "loop"} # {}
             THEN StartStream(s,
                    [stop EXCEPT !.open = TRUE, !.known = TRUE, !.size = size, !.pos = 0,
                           !.sampleCount = 0, !.sampleLimit = 0, !.failed = FALSE,
                           !.src = FileMode(@, size, mode)])
             ELSE /\ stream' = [stream EXCEPT ![s] =
                       [stop EXCEPT !.open = TRUE, !.known = TRUE, !.size = size, !.pos = 0,
                           !.sampleCount = 0, !.sampleLimit = 0, !.failed = FALSE,
                           !.src = FileMode(@, size, mode)]]
                  /\ UNCHANGED <<phase, at, taken, back>>
          /\ done' = [done EXCEPT ![s] = 0]
          /\ UNCHANGED <<filled, mixing, mixed, errors>>
      BY Zenon DEF PlayStream, stop
    <2>2. [stop EXCEPT !.open = TRUE, !.known = TRUE, !.size = size, !.pos = 0,
                           !.sampleCount = 0, !.sampleLimit = 0, !.failed = FALSE,
                           !.src = FileMode(@, size, mode)] = st
      BY <1>3 DEF StreamRec
    <2>3. QED
      BY <2>1, <2>2, Zenon
  <1> HIDE DEF t
  <1>6. /\ st \in StreamRec /\ st.src = t /\ st.used = stop.used
        /\ st.feed = stop.feed /\ st.sampleCount = 0
        /\ st.open /\ st.size = size /\ st.pos = 0 /\ st.sampleLimit = 0
    BY <1>1, <1>3, <1>4 DEF StreamRec, Touched
  <1> HIDE DEF st
  <1>7. RingSide(st)
    <2>1. SameRing(stop.src, st.src)
      BY <1>4, <1>6 DEF Touched
    <2>2. RingOK(st.src) /\ PendingOK(st)
      BY <1>3, <1>6, <2>1, SameRingSame, SameSide DEF Rests, StreamSound, RingSide
    <2>3. QED
      BY <1>3, <1>4, <1>6, <2>2 DEF RingSide
  <1>8. Rests(st)
    BY <1>3, <1>4, <1>6, <1>7 DEF Rests, StreamSound, FileSide
  <1>9. QED
    BY <1>2, <1>3, <1>4, <1>5, <1>6, <1>8

LEMMA PlayStreamStep ==
  ASSUME RingInv, NEW s \in Streams, NEW size \in FileSizes[s], NEW mode \in StreamModes[s],
         PlayStream(s, size, mode), commands' \in 0 .. MaxCommands
  PROVE  RingInv'
  <1>1. PICK st \in StreamRec :
           /\ phase = "wait"
           /\ IF mode \cap {"once", "loop"} # {}
              THEN StartStream(s, st)
              ELSE stream' = [stream EXCEPT ![s] = st] /\ UNCHANGED <<phase, at, taken, back>>
           /\ done' = [done EXCEPT ![s] = 0] /\ UNCHANGED <<filled, mixing, mixed, errors>>
           /\ Rests(st) /\ st.src.state # "playing" /\ st.sampleCount = 0
    BY OpenedStream
  <1>2. CASE mode \cap {"once", "loop"} # {}
    BY <1>1, <1>2, StartingStep
  <1>3. CASE mode \cap {"once", "loop"} = {}
    <2>1. stream' = [stream EXCEPT ![s] = st] /\ UNCHANGED <<phase, cycle, errors>>
      BY <1>1, <1>3 DEF cycle
    <2>2. done' \in [Streams -> 0 .. DoneCap] /\ errors' \in 0 .. MaxErrors
      BY <1>1 DEF RingInv, ControlOK, DoneCap
    <2>3. DOMAIN stream' = Streams /\ \A q \in Streams : Rests(stream'[q])
      BY <1>1, <2>1, RestingStreams DEF RingInv, ControlOK
    <2>4. QED
      BY <1>1, <2>1, <2>2, <2>3, RestingStep
  <1>4. QED
    BY <1>2, <1>3

LEMMA OpenFailsStep ==
  ASSUME RingInv, NEW s \in Streams, OpenFails(s), commands' \in 0 .. MaxCommands
  PROVE  RingInv'
  <1>1. /\ phase = "wait" /\ UNCHANGED <<phase, cycle>>
        /\ stream' = [stream EXCEPT ![s] = Stopped(stream[s])]
        /\ errors < MaxErrors /\ errors' = errors + 1 /\ done' = done
    BY Zenon DEF OpenFails
  <1>2. Rests(Stopped(stream[s]))
    BY <1>1, RestingStreams, StoppedRests
  <1>3. DOMAIN stream' = Streams /\ \A q \in Streams : Rests(stream'[q])
    BY <1>1, <1>2, RestingStreams DEF RingInv, ControlOK
  <1>4. errors' \in 0 .. MaxErrors /\ done' \in [Streams -> 0 .. DoneCap]
    BY <1>1, Constants DEF RingInv, ControlOK
  <1>5. QED
    BY <1>1, <1>3, <1>4, RestingStep

(* The commands that start a stream to play a part, or its file.           *)
Starts(s, st) ==
  /\ phase = "wait" /\ StartStream(s, st)
  /\ done' = [done EXCEPT ![s] = 0] /\ UNCHANGED <<filled, mixing, mixed, errors>>
  /\ st \in StreamRec /\ st.src.state # "playing" /\ st.sampleCount = 0

LEMMA PartStream ==
  ASSUME RingInv, NEW s \in Streams, NEW p \in PartsOf(s), NEW mode \in StreamModes[s],
         PlayStreamPart(s, p[1], p[2], mode)
  PROVE  \E st : /\ Starts(s, st)
                 /\ st.open => /\ st.start = p[1] /\ st.sampleLimit = p[2]
                               /\ p[1] < st.size /\ st.pos = p[1]
                               /\ stream[s].open /\ st.size = stream[s].size
  <1> DEFINE old == stream[s]
             pos == IF old.open /\ p[1] <= old.size THEN p[1] ELSE old.pos
             m == SetMode(old.src, mode)
             t == [m EXCEPT !.state = "stopped"]
             st == [old EXCEPT !.start = p[1], !.sampleCount = 0, !.sampleLimit = p[2],
                               !.pos = pos, !.failed = FALSE, !.src = t]
  <1>1. mode \in Modes /\ p[1] \in Nat /\ p[2] \in Nat
    BY StreamAssumption DEF PartsOf
  <1>2. phase = "wait" /\ old \in StreamRec /\ old.src \in SourceRec
    BY RestingStreams DEF PlayStreamPart
  <1>3. pos \in Nat
    BY <1>1, <1>2 DEF StreamRec
  <1>4. /\ StartStream(s,
             [stream[s] EXCEPT !.start = p[1], !.sampleCount = 0, !.sampleLimit = p[2],
                       !.pos = IF stream[s].open /\ p[1] <= stream[s].size THEN p[1] ELSE @,
                       !.failed = FALSE,
                       !.src = [SetMode(@, mode) EXCEPT !.state = "stopped"]])
        /\ done' = [done EXCEPT ![s] = 0]
        /\ UNCHANGED <<filled, mixing, mixed, errors>>
    BY Zenon DEF PlayStreamPart
  <1> HIDE DEF old, pos
  <1>5. m \in SourceRec
    BY <1>1, <1>2, ModeTouches DEF Touched
  <1> HIDE DEF m
  <1>6. t \in SourceRec /\ t.state = "stopped"
    BY <1>5 DEF SourceRec, States
  <1> HIDE DEF t
  <1>7. /\ st \in StreamRec /\ st.src = t /\ st.sampleCount = 0
        /\ st.start = p[1] /\ st.sampleLimit = p[2]
        /\ st.open = old.open /\ st.size = old.size /\ st.pos = pos
    BY <1>1, <1>2, <1>3, <1>6 DEF StreamRec
  <1>8. [old EXCEPT !.start = p[1], !.sampleCount = 0, !.sampleLimit = p[2],
                    !.pos = IF old.open /\ p[1] <= old.size THEN p[1] ELSE @,
                    !.failed = FALSE,
                    !.src = [SetMode(@, mode) EXCEPT !.state = "stopped"]] = st
    BY <1>2, <1>5, <1>6 DEF pos, m, t, StreamRec
  <1>9. StartStream(s, st)
    BY <1>4, <1>8, Zenon DEF old
  <1> HIDE DEF st
  <1>10. Starts(s, st)
    BY <1>2, <1>4, <1>6, <1>7, <1>9 DEF Starts
  <1>11. p[1] < old.size
    BY DEF PartsOf, old
  <1>12. old.size \in Nat
    BY <1>2 DEF StreamRec
  <1>13. st.open => st.pos = p[1]
    BY <1>1, <1>7, <1>11, <1>12 DEF pos
  <1>14. QED
    BY <1>7, <1>10, <1>11, <1>13 DEF old

LEMMA ProgramStream ==
  ASSUME RingInv, ProgramOp
  PROVE  \E s \in Streams : \E st :
           /\ Starts(s, st)
           /\ stream[s].open /\ ~stream[s].feed /\ stream[s].sampleCount = 0
           /\ st.size = stream[s].size /\ st.pos = stream[s].pos
           /\ st.start = stream[s].start /\ st.sampleLimit = stream[s].sampleLimit
  <1>1. PICK s \in Streams, loop \in BOOLEAN :
          /\ stream[s].open /\ ~stream[s].feed /\ stream[s].sampleCount = 0
          /\ StreamOp(s, loop)
    BY Zenon DEF ProgramOp
  <1> DEFINE old == stream[s]
             t == [old.src EXCEPT !.mode = IF loop THEN @ \cup {"loop"} ELSE @]
             st == [old EXCEPT !.src = t]
  <1>2. phase = "wait" /\ StartStream(s, st) /\ done' = [done EXCEPT ![s] = 0]
        /\ UNCHANGED <<filled, mixing, mixed, errors>>
    BY ONLY <1>1, Zenon DEF StreamOp
  <1>3. Rests(old) /\ old \in StreamRec /\ old.src \in SourceRec
    BY <1>2, RestingStreams
  <1>4. /\ old.src.state # "playing"
        /\ old.open /\ ~old.feed /\ old.sampleCount = 0
    BY <1>1, <1>3 DEF Rests, StreamSound, FileSide
  <1> HIDE DEF old
  <1>5. t \in SourceRec /\ t.state = old.src.state
    BY <1>3 DEF SourceRec, Modes
  <1> HIDE DEF t
  <1>6. /\ st \in StreamRec /\ st.src = t /\ st.sampleCount = old.sampleCount
        /\ st.size = old.size /\ st.pos = old.pos
        /\ st.start = old.start /\ st.sampleLimit = old.sampleLimit
    BY <1>3, <1>5 DEF StreamRec
  <1> HIDE DEF st
  <1>7. Starts(s, st)
    BY <1>2, <1>4, <1>5, <1>6 DEF Starts
  <1>8. QED
    BY <1>4, <1>6, <1>7 DEF old

LEMMA StartsStep ==
  ASSUME RingInv, NEW s \in Streams, NEW st, Starts(s, st), commands' \in 0 .. MaxCommands
  PROVE  RingInv'
  BY StartingStep DEF Starts

LEMMA PlayStreamPartStep ==
  ASSUME RingInv, NEW s \in Streams, NEW p \in PartsOf(s), NEW mode \in StreamModes[s],
         PlayStreamPart(s, p[1], p[2], mode), commands' \in 0 .. MaxCommands
  PROVE  RingInv'
  BY PartStream, StartsStep

LEMMA ProgramOpStep ==
  ASSUME RingInv, ProgramOp, commands' \in 0 .. MaxCommands
  PROVE  RingInv'
  BY ProgramStream, StartsStep

(* A command that changes a field of the sources of streams.               *)
Handled ==
  /\ phase = "wait" /\ UNCHANGED <<phase, cycle, errors, done>>
  /\ DOMAIN stream' = Streams
  /\ \A s \in Streams : stream'[s] = stream[s] \/
       \E t : /\ stream'[s] = [stream[s] EXCEPT !.src = t]
             /\ Touched(stream[s].src, t) /\ t.mode = stream[s].src.mode
             /\ \/ t.state = stream[s].src.state
                \/ t.state # "playing"
                \/ stream[s].sampleCount # 0 /\ Active(stream[s].src)

LEMMA HandledStep ==
  ASSUME RingInv, Handled, commands' \in 0 .. MaxCommands
  PROVE  RingInv'
  <1>1. ASSUME NEW s \in Streams PROVE Rests(stream'[s])
    <2>1. Rests(stream[s])
      BY RestingStreams DEF Handled
    <2>2. CASE stream'[s] = stream[s]
      BY <2>1, <2>2
    <2>3. CASE stream'[s] # stream[s]
      BY <2>1, <2>3, TouchedRests DEF Handled
    <2>4. QED
      BY <2>2, <2>3
  <1>2. errors' \in 0 .. MaxErrors /\ done' \in [Streams -> 0 .. DoneCap]
    BY DEF Handled, RingInv, ControlOK
  <1>3. QED
    BY <1>1, <1>2, RestingStep DEF Handled

LEMMA ControlStep ==
  ASSUME RingInv, NEW S, phase = "wait", UNCHANGED <<phase, cycle, errors, done>>,
         NEW T,
         stream' = [s \in Streams |-> IF s \in S THEN [stream[s] EXCEPT !.src = T[s]]
                                                 ELSE stream[s]],
         \A s \in Streams : s \in S =>
           /\ Touched(stream[s].src, T[s]) /\ T[s].mode = stream[s].src.mode
           /\ \/ T[s].state = stream[s].src.state
              \/ T[s].state # "playing"
              \/ stream[s].sampleCount # 0 /\ Active(stream[s].src)
  PROVE  Handled
  <1>1. DOMAIN stream' = Streams
    OBVIOUS
  <1>2. ASSUME NEW s \in Streams, stream'[s] # stream[s]
        PROVE  s \in S /\ stream'[s] = [stream[s] EXCEPT !.src = T[s]]
    BY <1>2
  <1>3. QED
    BY <1>1, <1>2 DEF Handled

LEMMA ControlHandled ==
  ASSUME RingInv, ControlCommand
  PROVE  Handled
  <1>1. \A s \in Streams : phase = "wait" => stream[s].src \in SourceRec
    BY RestingStreams
  <1>2. ASSUME NEW S \in Spans, Startable(S), Start(S) PROVE Handled
    <2> DEFINE T == [s \in Streams |-> IF Active(stream[s].src)
                                       THEN [stream[s].src EXCEPT !.state = "playing"]
                                       ELSE stream[s].src]
    <2>1. /\ phase = "wait" /\ UNCHANGED <<phase, cycle, errors, done>>
          /\ stream' = [s \in Streams |-> IF s \in S THEN [stream[s] EXCEPT !.src = T[s]]
                                                  ELSE stream[s]]
      BY <1>2 DEF Start, ControlState, Control, TransformSources
    <2>2. ASSUME NEW s \in Streams, s \in S
          PROVE  /\ Touched(stream[s].src, T[s]) /\ T[s].mode = stream[s].src.mode
                 /\ \/ T[s].state = stream[s].src.state
                    \/ stream[s].sampleCount # 0 /\ Active(stream[s].src)
      <3>1. stream[s].src \in SourceRec /\ stream[s].sampleCount # 0
        BY <1>1, <1>2, <2>1, <2>2 DEF Startable
      <3>2. "playing" \in States
        BY DEF States
      <3>3. [stream[s].src EXCEPT !.state = "playing"].mode = stream[s].src.mode
        BY <3>1 DEF SourceRec
      <3>4. Touched(stream[s].src, stream[s].src)
        BY <3>1 DEF Touched, SameRing
      <3>5. QED
        BY <3>1, <3>2, <3>3, <3>4, FieldTouches
    <2> HIDE DEF T
    <2>3. QED
      BY <2>1, <2>2, ControlStep
  <1>3. ASSUME NEW S \in Spans, Stop(S) PROVE Handled
    <2> DEFINE T == [s \in Streams |-> IF Active(stream[s].src)
                                       THEN [stream[s].src EXCEPT !.state = "stopped"]
                                       ELSE stream[s].src]
    <2>1. /\ phase = "wait" /\ UNCHANGED <<phase, cycle, errors, done>>
          /\ stream' = [s \in Streams |-> IF s \in S THEN [stream[s] EXCEPT !.src = T[s]]
                                                  ELSE stream[s]]
      BY <1>3 DEF Stop, ControlState, Control, TransformSources
    <2>2. ASSUME NEW s \in Streams, s \in S
          PROVE  /\ Touched(stream[s].src, T[s]) /\ T[s].mode = stream[s].src.mode
                 /\ T[s].state = stream[s].src.state \/ T[s].state # "playing"
      <3>1. stream[s].src \in SourceRec
        BY <1>1, <2>1
      <3>2. "stopped" \in States
        BY DEF States
      <3>3. [stream[s].src EXCEPT !.state = "stopped"].mode = stream[s].src.mode
            /\ [stream[s].src EXCEPT !.state = "stopped"].state # "playing"
        BY <3>1 DEF SourceRec
      <3>4. Touched(stream[s].src, stream[s].src)
        BY <3>1 DEF Touched, SameRing
      <3>5. QED
        BY <3>1, <3>2, <3>3, <3>4, FieldTouches
    <2> HIDE DEF T
    <2>3. QED
      BY <2>1, <2>2, ControlStep
  <1>4. ASSUME NEW S, NEW T, phase = "wait", UNCHANGED <<phase, cycle, errors, done>>,
               stream' = [s \in Streams |-> IF s \in S THEN [stream[s] EXCEPT !.src = T[s]]
                                                        ELSE stream[s]],
               \A s \in Streams : Tuned(stream[s].src, T[s])
        PROVE  Handled
    <2>1. \A s \in Streams : s \in S =>
            /\ Touched(stream[s].src, T[s]) /\ T[s].mode = stream[s].src.mode
            /\ T[s].state = stream[s].src.state
      BY <1>4 DEF Tuned
    <2>2. QED
      BY <1>4, <2>1, ControlStep
  <1>5. ASSUME NEW S \in Spans, FadeOut(S) PROVE Handled
    <2> DEFINE T == [s \in Streams |-> StartFadeOut(stream[s].src)]
    <2>1. /\ phase = "wait" /\ UNCHANGED <<phase, cycle, errors, done>>
          /\ stream' = [s \in Streams |-> IF s \in S THEN [stream[s] EXCEPT !.src = T[s]]
                                                  ELSE stream[s]]
      BY <1>5 DEF FadeOut, Control, TransformSources
    <2>2. \A s \in Streams : Tuned(stream[s].src, T[s])
      BY <1>1, <2>1, GainTouches
    <2> HIDE DEF T
    <2>3. QED
      BY <1>4, <2>1, <2>2
  <1>6. ASSUME NEW q \in FadeStreams, FadeIn(q) PROVE Handled
    <2> DEFINE T == [s \in Streams |-> StartFadeIn(stream[s].src)]
    <2>1. /\ phase = "wait" /\ UNCHANGED <<phase, cycle, errors, done>>
          /\ stream' = [s \in Streams |-> IF s \in {q} THEN [stream[s] EXCEPT !.src = T[s]]
                                                    ELSE stream[s]]
      BY <1>6 DEF FadeIn, Control, TransformSources
    <2>2. \A s \in Streams : Tuned(stream[s].src, T[s])
      BY <1>1, <2>1, GainTouches
    <2> HIDE DEF T
    <2>3. QED
      BY <1>4, <2>1, <2>2
  <1>7. ASSUME NEW S \in Spans, NEW v \in Volumes, SetVolume(S, v) PROVE Handled
    <2> DEFINE T == [s \in Streams |-> [stream[s].src EXCEPT !.volume = v, !.gain = v]]
    <2>1. /\ phase = "wait" /\ UNCHANGED <<phase, cycle, errors, done>>
          /\ stream' = [s \in Streams |-> IF s \in S THEN [stream[s] EXCEPT !.src = T[s]]
                                                  ELSE stream[s]]
      BY ONLY <1>7, Zenon DEF SetVolume, Control, TransformSources
    <2> HIDE DEF T
    <2>2. ASSUME NEW s \in Streams PROVE Tuned(stream[s].src, T[s])
      <3>1. v \in Nat /\ stream[s].src \in SourceRec
        BY <1>1, <2>1, StreamAssumption
      <3>2. T[s] = [stream[s].src EXCEPT !.volume = v, !.gain = v]
        BY Zenon DEF T
      <3>3. QED
        BY <3>1, <3>2, VolumeTouches, Zenon
    <2>3. QED
      BY <1>4, <2>1, <2>2
  <1>8. ASSUME NEW S \in Spans, NEW p \in Periods, SetFadePeriod(S, p) PROVE Handled
    <2> DEFINE T == [s \in Streams |-> [stream[s].src EXCEPT !.fadePeriod = p]]
    <2>1. /\ phase = "wait" /\ UNCHANGED <<phase, cycle, errors, done>>
          /\ stream' = [s \in Streams |-> IF s \in S THEN [stream[s] EXCEPT !.src = T[s]]
                                                  ELSE stream[s]]
      BY <1>8 DEF SetFadePeriod, Control, TransformSources
    <2>2. \A s \in Streams : Tuned(stream[s].src, T[s])
      BY <1>1, <2>1, FieldTouches, StreamAssumption
    <2> HIDE DEF T
    <2>3. QED
      BY <1>4, <2>1, <2>2
  <1>9. ASSUME NEW q \in Streams, NEW e \in StreamEnds[q], SetEndTime(q, e) PROVE Handled
    <2> DEFINE T == [s \in Streams |-> [stream[s].src EXCEPT !.endPos = e]]
    <2>1. /\ phase = "wait" /\ UNCHANGED <<phase, cycle, errors, done>>
          /\ stream' = [s \in Streams |-> IF s \in {q} THEN [stream[s] EXCEPT !.src = T[s]]
                                                    ELSE stream[s]]
      BY <1>9 DEF SetEndTime, Control, TransformSources
    <2>2. \A s \in Streams : Tuned(stream[s].src, T[s])
      <3>1. e \in Nat
        BY StreamAssumption
      <3>2. QED
        BY <1>1, <2>1, <3>1, FieldTouches
    <2> HIDE DEF T
    <2>3. QED
      BY <1>4, <2>1, <2>2
  <1>10. QED
    BY <1>2, <1>3, <1>5, <1>6, <1>7, <1>8, <1>9 DEF ControlCommand

LEMMA CommandStep == RingInv /\ Command => RingInv'
  <1> SUFFICES ASSUME RingInv, Command PROVE RingInv'
    OBVIOUS
  <1>1. commands' \in 0 .. MaxCommands
    BY Constants DEF Command, RingInv, ControlOK
  <1>2. CASE PlayCommand
    BY <1>1, <1>2, PlayStreamStep, OpenFailsStep, PlayStreamPartStep DEF PlayCommand
  <1>3. QED
    BY <1>1, <1>2, ProgramOpStep, ControlHandled, HandledStep DEF Command

-----------------------------------------------------------------------------
(* The invariant: stream_fillBuffers                                       *)

LEMMA OffsetType ==
  ASSUME NEW st, StreamSound(st), st.src.state = "playing"
  PROVE  Offset(st.src, st.src.qactive) \in 0 .. QueueSize - 1 /\ Active(st.src)
  <1>1. /\ st.src \in SourceRec /\ RingOK(st.src) /\ Active(st.src)
    BY DEF StreamSound, RingSide, StreamRec
  <1>2. /\ st.src.qhead \in Slots /\ st.src.bufUsed \in 0 .. QueueSize
        /\ st.src.qactive \in Slots /\ Offset(st.src, st.src.qactive) < st.src.bufUsed
    BY <1>1 DEF SourceRec, RingOK, Ringed
  <1>3. Offset(st.src, st.src.qactive) \in Nat
    BY <1>2, Constants DEF Offset, Slots
  <1>4. QED
    BY <1>1, <1>2, <1>3, Constants

(* The buffers of the streams up to the one that is filled.                *)
LEMMA FilledBound ==
  ASSUME NEW n \in Nat, n < StreamLimit, NEW f \in Nat, f <= QueueSize * n + QueueSize
  PROVE  f <= QueueSize * (n + 1) /\ f \in 0 .. QueueSize * StreamLimit
  <1>1. QueueSize * (n + 1) = QueueSize * n + QueueSize
    BY Constants
  <1>2. QueueSize * (n + 1) <= QueueSize * StreamLimit
    BY Constants
  <1>3. QueueSize * n \in Nat /\ QueueSize * StreamLimit \in Nat
    BY Constants
  <1>4. QED
    BY <1>1, <1>2, <1>3, Constants

LEMMA Filler ==
  ASSUME RingInv, phase = "fill"
  PROVE  /\ at \in Streams /\ at \in Nat /\ at < StreamLimit
         /\ Fills(stream[at], taken, back)
         /\ stream[at] \in StreamRec /\ stream[at].src \in SourceRec
  <1>1. at \in Streams /\ at \in Nat /\ at < StreamLimit
    BY Constants DEF RingInv, ControlOK, Streams
  <1>2. Fills(stream[at], taken, back)
    BY <1>1 DEF RingInv, StreamsOK, Filling
  <1>3. QED
    BY <1>1, <1>2 DEF Fills, StreamSound, RingSide, StreamRec

(* The stream is filled further.                                           *)
LEMMA FillingStep ==
  ASSUME RingInv, phase = "fill", NEW r, Fills(r, taken', back),
         stream' = [stream EXCEPT ![at] = r],
         UNCHANGED <<phase, at, back, mixing, mixed, done>>,
         taken' \in Buffers \cup {NoBuffer},
         filled' \in Nat, back = "wait" => filled' = filled,
         back = "collect" =>
           filled' + Offset(r.src, r.src.qactive)
             = filled + Offset(stream[at].src, stream[at].src.qactive),
         errors' \in 0 .. MaxErrors, commands' \in 0 .. MaxCommands
  PROVE  RingInv'
  <1>1. stream'[at] = r /\ \A s \in Streams : s # at => stream'[s] = stream[s]
    BY Filler DEF RingInv, ControlOK
  <1>2. ControlOK'
    BY DEF RingInv, ControlOK
  <1>3. FilledOK'
    <2>1. CASE back = "wait"
      BY <2>1 DEF RingInv, FilledOK
    <2>2. CASE back = "collect"
      <3>1. Offset(r.src, r.src.qactive) \in Nat
        BY <2>2, OffsetType, Constants DEF Fills, FilledFor
      <3>2. filled' + Offset(r.src, r.src.qactive) <= QueueSize * at + QueueSize
        BY <2>2 DEF RingInv, FilledOK
      <3>3. filled' \in 0 .. QueueSize * StreamLimit
        <4>1. QueueSize * at \in Nat
          BY Filler, Constants
        <4>2. filled' <= QueueSize * at + QueueSize
          BY <3>1, <3>2, <4>1, Constants
        <4>3. QED
          BY <4>2, Filler, FilledBound
      <3>4. QED
        BY <1>1, <3>2, <3>3 DEF FilledOK
    <2>3. QED
      BY <2>1, <2>2 DEF RingInv, ControlOK
  <1>4. StreamsOK'
    BY <1>1 DEF RingInv, StreamsOK, Filling
  <1>5. QED
    BY <1>2, <1>3, <1>4 DEF RingInv

(* The loop is left.                                                       *)
LEMMA FillReturnsStep ==
  ASSUME RingInv, phase = "fill", NEW st, StreamSound(st), FilledFor(st, back),
         FillReturns(st), UNCHANGED <<back, filled, mixed, done>>,
         errors' \in 0 .. MaxErrors, commands' \in 0 .. MaxCommands
  PROVE  RingInv'
  <1> DEFINE r == IF back = "wait" THEN Started(st) ELSE st
  <1>1. Rests(r)
    BY ReturnRests
  <1>2. stream' = [stream EXCEPT ![at] = r] /\ phase' = back /\ taken' = NoBuffer
    BY Zenon DEF FillReturns
  <1> HIDE DEF r
  <1>3. \/ back = "wait" /\ at' = 0 /\ mixing' = mixing
        \/ back = "collect" /\ at' = at + 1 /\ (mixing' = mixing \/ mixing' = mixing \cup {at})
    BY DEF FillReturns, RingInv, ControlOK
  <1>4. \A s \in Streams : Rests(stream'[s])
    BY <1>1, <1>2 DEF RingInv, ControlOK, StreamsOK, Filling
  <1>5. StreamsOK'
    BY <1>2, <1>3, <1>4 DEF StreamsOK, Filling
  <1>6. at' \in 0 .. StreamLimit /\ mixing' \subseteq Streams
    BY <1>3, Filler, Constants DEF RingInv, ControlOK
  <1>7. ControlOK'
    BY <1>2, <1>3, <1>6 DEF RingInv, ControlOK
  <1>8. FilledOK'
    <2>1. CASE back = "wait"
      BY <1>2, <2>1 DEF RingInv, FilledOK
    <2>2. CASE back = "collect"
      <3>1. Offset(stream[at].src, stream[at].src.qactive) \in Nat
        BY <2>2, Filler, OffsetType, Constants DEF Fills, FilledFor
      <3>2. /\ filled + Offset(stream[at].src, stream[at].src.qactive)
                  <= QueueSize * at + QueueSize
            /\ filled \in 0 .. QueueSize * StreamLimit
        BY <2>2 DEF RingInv, FilledOK
      <3>3. filled \in Nat /\ filled <= QueueSize * at + QueueSize
        <4>1. QueueSize * at \in Nat /\ QueueSize * StreamLimit \in Nat
          BY Filler, Constants
        <4>2. QED
          BY <3>1, <3>2, <4>1, Constants
      <3>4. filled <= QueueSize * (at + 1)
        BY <3>3, Filler, FilledBound
      <3>5. at' = at + 1
        BY <1>3, <2>2
      <3>6. QED
        BY <1>2, <2>2, <3>2, <3>4, <3>5 DEF FilledOK
    <2>3. QED
      BY <1>3, <2>1, <2>2
  <1>9. QED
    BY <1>5, <1>7, <1>8 DEF RingInv

LEMMA FillTakeStep ==
  ASSUME RingInv, FillTake, commands' \in 0 .. MaxCommands
  PROVE  RingInv'
  <1> DEFINE st == stream[at]
             b == st.src.bufferQueue[st.src.qhead]
             r == [st EXCEPT !.src = Dequeue(@)]
  <1>1. /\ phase = "fill" /\ taken = NoBuffer /\ errors' \in 0 .. MaxErrors
        /\ UNCHANGED <<back, mixed, done>>
    BY DEF FillTake, RingInv, ControlOK
  <1>2. Fills(st, NoBuffer, back) /\ st \in StreamRec /\ at \in Streams
    BY <1>1, Filler
  <1>3. CASE HasProcessed(st.src)
    <2>1. /\ taken' = b /\ stream' = [stream EXCEPT ![at].src = Dequeue(@)]
          /\ filled' = IF back = "wait" THEN filled ELSE filled + 1
          /\ UNCHANGED <<phase, at, mixing>>
      BY <1>3 DEF FillTake
    <2>2. stream' = [stream EXCEPT ![at] = r]
      BY <2>1
    <2>3. /\ Fills(r, b, back) /\ b \in Buffers
          /\ Active(st.src) =>
               Offset(st.src, st.src.qactive) = Offset(r.src, r.src.qactive) + 1
      BY <1>2, <1>3, TakeFills
    <2> HIDE DEF r, b
    <2>4. filled \in Nat
      BY Constants DEF RingInv, FilledOK
    <2>5. filled' \in Nat /\ (back = "wait" => filled' = filled)
      BY <2>1, <2>4
    <2>6. ASSUME back = "collect"
          PROVE  filled' + Offset(r.src, r.src.qactive)
                   = filled + Offset(stream[at].src, stream[at].src.qactive)
      <3>1. Offset(r.src, r.src.qactive) \in Int /\ Active(st.src)
        BY <1>2, <2>3, <2>6, OffsetType DEF Fills, FilledFor
      <3>2. Offset(stream[at].src, stream[at].src.qactive) = Offset(r.src, r.src.qactive) + 1
        BY <2>3, <3>1
      <3>3. filled' = filled + 1
        BY <2>1, <2>6
      <3>4. QED
        BY <2>4, <3>1, <3>2, <3>3
    <2>7. Fills(r, taken', back) /\ taken' \in Buffers \cup {NoBuffer}
      BY <2>1, <2>3
    <2>8. QED
      BY <1>1, <2>1, <2>2, <2>5, <2>6, <2>7, FillingStep
  <1>4. CASE ~HasProcessed(st.src)
    <2>1. FillReturns(st) /\ UNCHANGED filled
      BY <1>4 DEF FillTake
    <2>2. StreamSound(st) /\ FilledFor(st, back)
      BY <1>2 DEF Fills
    <2>3. QED
      BY <1>1, <2>1, <2>2, FillReturnsStep
  <1>5. QED
    BY <1>3, <1>4

LEMMA FillReadStep ==
  ASSUME RingInv, NEW n \in 0 .. BufLen, NEW error \in BOOLEAN, FillRead(n, error),
         commands' \in 0 .. MaxCommands
  PROVE  RingInv'
  <1> DEFINE st == stream[at]
             b == taken
             kept == KeptOf(st, b, n)
             eof == (~error /\ n < BufLen) \/ (n > 0 /\ AtLimit(ReadInto(st, b, n)))
             left == IF HasData(st, b, n) THEN NoBuffer ELSE b
             Ends(r) == StreamSound(r) /\ FilledFor(r, back)
  <1>1. /\ phase = "fill" /\ taken # NoBuffer
        /\ IF error THEN n <= Readable(st) /\ n <= MaxBefore /\ (st.open => errors < MaxErrors)
                    ELSE n = Readable(st) /\ st.open
        /\ errors' = IF error /\ st.open THEN errors + 1 ELSE errors
        /\ UNCHANGED <<back, filled, mixed, done>>
    BY Zenon DEF FillRead
  <1>2. (CASE error ->
               FillReturns([kept EXCEPT !.open = FALSE, !.failed = TRUE])
          [] ~error /\ eof /\ "loop" \in st.src.mode ->
               /\ stream' = [stream EXCEPT ![at] = Rewound(kept)]
               /\ taken' = left
               /\ UNCHANGED <<phase, at, mixing>>
          [] ~error /\ eof /\ "loop" \notin st.src.mode ->
               FillReturns(IF SegmentSet(st) THEN [kept EXCEPT !.feed = FALSE]
                                             ELSE [kept EXCEPT !.open = FALSE])
          [] OTHER ->
               /\ stream' = [stream EXCEPT ![at] = kept]
               /\ taken' = NoBuffer
               /\ UNCHANGED <<phase, at, mixing>>)
    BY Zenon DEF FillRead, KeptOf, HasData, ReadInto
  <1>3. /\ Fills(st, b, back) /\ st \in StreamRec /\ b \in Buffers
        /\ st.open \in BOOLEAN
    BY <1>1, Filler DEF RingInv, ControlOK, StreamRec
  <1>4. st.open \/ n = 0
    BY <1>1, <1>3, Constants DEF Readable
  <1>5. /\ Ends([kept EXCEPT !.open = FALSE, !.failed = TRUE])
        /\ eof /\ "loop" \in st.src.mode =>
             /\ Fills(Rewound(kept), left, back)
             /\ Rewound(kept).src = kept.src
        /\ "loop" \notin st.src.mode =>
             Ends(IF SegmentSet(st) THEN [kept EXCEPT !.feed = FALSE]
                                    ELSE [kept EXCEPT !.open = FALSE])
        /\ ~error /\ ~eof => Fills(kept, NoBuffer, back)
        /\ Active(st.src) =>
             Offset(kept.src, kept.src.qactive) = Offset(st.src, st.src.qactive)
    BY ONLY <1>3, <1>4, ReadFills, Zenon
  <1>6. left \in Buffers \cup {NoBuffer}
    BY <1>3
  <1>7. back = "collect" => Active(st.src)
    BY <1>3, OffsetType DEF Fills, FilledFor
  <1>8. errors' \in 0 .. MaxErrors
    BY <1>1, Constants DEF RingInv, ControlOK
  <1>9. filled \in Nat
    BY Constants DEF RingInv, FilledOK
  <1> HIDE DEF kept, eof, left
  <1>10. CASE error
    <2>1. FillReturns([kept EXCEPT !.open = FALSE, !.failed = TRUE])
      BY <1>2, <1>10
    <2>2. QED
      BY <1>1, <1>5, <1>8, <2>1, FillReturnsStep
  <1>11. CASE ~error /\ eof /\ "loop" \in st.src.mode
    <2>1. /\ stream' = [stream EXCEPT ![at] = Rewound(kept)] /\ taken' = left
          /\ UNCHANGED <<phase, at, mixing>>
      BY <1>2, <1>11
    <2>2. Fills(Rewound(kept), taken', back) /\ Rewound(kept).src = kept.src
      BY <1>5, <1>11, <2>1
    <2>3. QED
      BY <1>1, <1>5, <1>6, <1>7, <1>8, <1>9, <2>1, <2>2, FillingStep
  <1>12. CASE ~error /\ eof /\ "loop" \notin st.src.mode
    <2>1. FillReturns(IF SegmentSet(st) THEN [kept EXCEPT !.feed = FALSE]
                                        ELSE [kept EXCEPT !.open = FALSE])
      BY <1>2, <1>12
    <2>2. QED
      BY <1>1, <1>5, <1>8, <1>12, <2>1, FillReturnsStep
  <1>13. CASE ~error /\ ~eof
    <2>1. /\ stream' = [stream EXCEPT ![at] = kept] /\ taken' = NoBuffer
          /\ UNCHANGED <<phase, at, mixing>>
      BY <1>2, <1>13
    <2>2. Fills(kept, taken', back)
      BY <1>5, <1>13, <2>1
    <2>3. QED
      BY <1>1, <1>5, <1>7, <1>8, <1>9, <1>13, <2>1, <2>2, FillingStep
  <1>14. QED
    BY <1>10, <1>11, <1>12, <1>13

LEMMA FillStep ==
  ASSUME RingInv, Fill, commands' \in 0 .. MaxCommands
  PROVE  RingInv'
  BY FillTakeStep, FillReadStep DEF Fill

-----------------------------------------------------------------------------
(* The invariant: the update cycle                                         *)

LEMMA FadedRests ==
  ASSUME NEW st, Rests(st)
  PROVE  /\ Rests(Faded(st))
         /\ Faded(st).feed => Faded(st).src.state = st.src.state
  <1> DEFINE t == Fade(st.src)
             faded == [st EXCEPT !.src = t]
  <1>1. st \in StreamRec /\ st.src \in SourceRec
    BY DEF Rests, StreamSound, RingSide, StreamRec
  <1>2. Tuned(st.src, t)
    BY <1>1, GainTouches
  <1>3. Faded(st) = IF st.src.fade # 0
                    THEN IF Silenced(st.src) THEN Stopped(faded) ELSE faded
                    ELSE st
    BY Zenon DEF Faded
  <1> HIDE DEF t
  <1>4. Rests(faded)
    BY <1>2, TouchedRests DEF Tuned
  <1>5. faded \in StreamRec /\ faded.src = t
    BY <1>1, <1>4 DEF Rests, StreamSound, RingSide, StreamRec
  <1> HIDE DEF faded
  <1>6. Rests(Stopped(faded)) /\ ~Stopped(faded).feed
    BY <1>4, <1>5, StoppedRests, StoppedStream
  <1>7. faded.src.state = st.src.state
    BY <1>2, <1>5 DEF Tuned
  <1>8. QED
    BY <1>3, <1>4, <1>6, <1>7

LEMMA CollectStep ==
  ASSUME RingInv, Collect, UNCHANGED commands
  PROVE  RingInv'
  <1> DEFINE st == Faded(stream[at])
             gone == IF Silenced(stream[at].src) THEN {at} ELSE {}
  <1>1. /\ phase = "collect" /\ at \in Streams /\ at \in Nat /\ at < StreamLimit
        /\ UNCHANGED <<filled, mixed, errors>>
    BY Constants DEF Collect, RingInv, ControlOK, Streams
  <1>2. \A s \in Streams : Rests(stream[s])
    BY <1>1, RestingStreams
  <1>3. /\ filled \in 0 .. QueueSize * StreamLimit /\ filled \in Nat
        /\ filled <= QueueSize * at
    <2>1. QueueSize * StreamLimit \in Nat
      BY Constants
    <2>2. QED
      BY <1>1, <2>1 DEF RingInv, FilledOK
  <1>4. QueueSize * at \in Nat /\ filled <= QueueSize * (at + 1)
    <2>1. QueueSize * at \in Nat /\ QueueSize * (at + 1) = QueueSize * at + QueueSize
      BY <1>1, Constants
    <2>2. QED
      BY <1>3, <2>1, Constants
  <1>5. at + 1 \in 0 .. StreamLimit
    BY <1>1, Constants
  <1>6. CASE stream[at].src.state = "playing"
    <2>1. /\ stream' = [stream EXCEPT ![at] = st] /\ done' = Signalled(gone)
          /\ IF NeedsFill(st)
             THEN BeginFill(at, "collect") /\ UNCHANGED mixing
             ELSE /\ at' = at + 1
                  /\ mixing' = IF Active(st.src) THEN mixing \cup {at} ELSE mixing
                  /\ UNCHANGED <<phase, taken, back>>
      BY <1>6, Zenon DEF Collect
    <2>2. Rests(st) /\ (st.feed => st.src.state = "playing")
      BY <1>1, <1>2, <1>6, FadedRests
    <2> HIDE DEF st, gone
    <2>3. done' \in [Streams -> 0 .. DoneCap]
      BY <2>1, SignalledType DEF RingInv
    <2>4. /\ stream'[at] = st /\ DOMAIN stream' = Streams
          /\ \A s \in Streams : s # at => stream'[s] = stream[s]
      BY <1>1, <2>1 DEF RingInv, ControlOK
    <2>5. CASE NeedsFill(st)
      <3>1. /\ phase' = "fill" /\ back' = "collect" /\ at' = at /\ taken' = NoBuffer
            /\ mixing' = mixing
        BY <2>1, <2>5 DEF BeginFill
      <3>2. st.feed /\ st.src.state = "playing" /\ StreamSound(st)
        BY <2>2, <2>5 DEF NeedsFill, Rests
      <3>3. Fills(st, NoBuffer, "collect")
        BY <3>2 DEF Fills, FilledFor
      <3>4. Offset(st.src, st.src.qactive) \in 0 .. QueueSize - 1 /\ Active(st.src)
        BY <3>2, OffsetType
      <3>5. filled = 0
        BY <2>5, <3>4 DEF NeedsFill
      <3>6. filled + Offset(st.src, st.src.qactive) <= QueueSize * at + QueueSize
        BY <1>4, <3>4, <3>5, Constants
      <3>7. ControlOK'
        BY <1>1, <2>3, <2>4, <3>1 DEF RingInv, ControlOK
      <3>8. FilledOK'
        BY <1>1, <1>3, <2>4, <3>1, <3>6 DEF FilledOK
      <3>9. StreamsOK'
        BY <1>2, <2>4, <3>1, <3>3 DEF StreamsOK, Filling
      <3>10. QED
        BY <3>7, <3>8, <3>9 DEF RingInv
    <2>6. CASE ~NeedsFill(st)
      <3>1. /\ at' = at + 1 /\ (mixing' = mixing \/ mixing' = mixing \cup {at})
            /\ UNCHANGED <<phase, taken, back>>
        BY <2>1, <2>6
      <3>2. ControlOK'
        BY <1>1, <1>5, <2>3, <2>4, <3>1 DEF RingInv, ControlOK
      <3>3. FilledOK'
        BY <1>1, <1>3, <1>4, <3>1 DEF FilledOK
      <3>4. StreamsOK'
        BY <1>1, <1>2, <2>2, <2>4, <3>1 DEF StreamsOK, Filling
      <3>5. QED
        BY <3>2, <3>3, <3>4 DEF RingInv
    <2>7. QED
      BY <2>5, <2>6
  <1>7. CASE stream[at].src.state # "playing"
    <2>1. at' = at + 1 /\ UNCHANGED <<stream, phase, taken, back, mixing, done>>
      BY <1>7 DEF Collect
    <2>2. ControlOK'
      BY <1>1, <1>5, <2>1 DEF RingInv, ControlOK
    <2>3. FilledOK'
      BY <1>1, <1>3, <1>4, <2>1 DEF FilledOK
    <2>4. StreamsOK'
      BY <1>1, <1>2, <2>1 DEF StreamsOK, Filling
    <2>5. QED
      BY <2>2, <2>3, <2>4 DEF RingInv
  <1>8. QED
    BY <1>6, <1>7

LEMMA MixPassStep ==
  ASSUME RingInv, NEW n \in 0 .. MixLen, MixPass(n), UNCHANGED commands
  PROVE  RingInv'
  <1> DEFINE T == [s \in Streams |->
                     [stream[s] EXCEPT
                        !.src = Advance(@, n, stream[s].used, Buffers, FALSE)]]
  <1>1. /\ phase = "mix" /\ mixed < MixLen /\ IsFragment(n)
        /\ stream' = [s \in Streams |-> IF s \in Mixable THEN T[s] ELSE stream[s]]
        /\ done' = Signalled({s \in Mixable :
                       Finishes(stream[s].src, n, stream[s].used, Buffers, FALSE)})
        /\ mixed' = mixed + n
        /\ UNCHANGED <<phase, at, taken, back, filled, mixing, errors>>
    BY DEF MixPass, Mixable
  <1>2. ASSUME NEW s \in Streams, s \in Mixable PROVE Rests(T[s])
    <2>1. Rests(stream[s]) /\ Active(stream[s].src) /\ n \in Nat
      BY <1>1, <1>2, RestingStreams, Constants DEF Mixable
    <2>2. QED
      BY <2>1, AdvanceRests
  <1> HIDE DEF T
  <1>3. mixed' \in 0 .. MixLen
    <2>1. MixLen - mixed \in FragmentLens
      BY DEF FragmentLens
    <2>2. n <= MixLen - mixed
      BY <1>1, <2>1 DEF IsFragment
    <2>3. QED
      BY <1>1, <2>2, Constants DEF RingInv, ControlOK
  <1>4. done' \in [Streams -> 0 .. DoneCap]
    BY <1>1, SignalledType DEF RingInv
  <1>5. DOMAIN stream' = Streams /\ \A s \in Streams : Rests(stream'[s])
    BY <1>1, <1>2, RestingStreams
  <1>6. ControlOK'
    BY <1>1, <1>3, <1>4, <1>5 DEF RingInv, ControlOK
  <1>7. FilledOK'
    BY <1>1 DEF RingInv, FilledOK
  <1>8. StreamsOK'
    BY <1>1, <1>5 DEF StreamsOK, Filling
  <1>9. QED
    BY <1>6, <1>7, <1>8 DEF RingInv

LEMMA CycleStep ==
  ASSUME RingInv, Cycle, UNCHANGED commands
  PROVE  RingInv'
  <1>1. CASE Update
    <2>1. /\ phase = "wait" /\ phase' = "collect" /\ filled' = 0
          /\ UNCHANGED <<stream, at, taken, back, mixing, mixed, errors, done>>
      BY <1>1 DEF Update
    <2>2. QueueSize * StreamLimit \in Nat /\ QueueSize * at \in Nat
      BY Constants DEF RingInv, ControlOK
    <2>3. ControlOK' /\ FilledOK'
      BY <2>1, <2>2 DEF RingInv, ControlOK, FilledOK
    <2>4. StreamsOK'
      BY <2>1, RestingStreams DEF StreamsOK, Filling
    <2>5. QED
      BY <2>3, <2>4 DEF RingInv
  <1>2. CASE Collected
    <2>1. /\ phase = "collect" /\ phase' = "mix" /\ at' = 0 /\ filled' = 0
          /\ UNCHANGED <<stream, taken, back, mixing, mixed, errors, done>>
      BY <1>2 DEF Collected
    <2>2. QueueSize * StreamLimit \in Nat
      BY Constants
    <2>3. ControlOK' /\ FilledOK'
      BY <2>1, <2>2, Constants DEF RingInv, ControlOK, FilledOK
    <2>4. StreamsOK'
      BY <2>1, RestingStreams DEF StreamsOK, Filling
    <2>5. QED
      BY <2>3, <2>4 DEF RingInv
  <1>3. CASE Write
    <2>1. /\ phase = "mix" /\ phase' = "wait" /\ mixed' = 0 /\ mixing' = {}
          /\ UNCHANGED <<stream, at, taken, back, filled, errors, done>>
      BY <1>3 DEF Write
    <2>2. ControlOK' /\ FilledOK'
      BY <2>1, Constants DEF RingInv, ControlOK, FilledOK
    <2>3. StreamsOK'
      BY <2>1, RestingStreams DEF StreamsOK, Filling
    <2>4. QED
      BY <2>2, <2>3 DEF RingInv
  <1>4. QED
    BY <1>1, <1>2, <1>3, CollectStep, MixPassStep DEF Cycle

LEMMA UnchangedStep ==
  ASSUME RingInv, UNCHANGED vars PROVE RingInv'
  <1>1. ControlOK' /\ FilledOK'
    BY DEF RingInv, ControlOK, FilledOK, vars
  <1>2. StreamsOK'
    BY DEF RingInv, StreamsOK, Filling, vars
  <1>3. QED
    BY <1>1, <1>2 DEF RingInv

LEMMA NextStep == RingInv /\ [Next]_vars => RingInv'
  <1> SUFFICES ASSUME RingInv, [Next]_vars PROVE RingInv'
    OBVIOUS
  <1>1. CASE Command
    BY <1>1, CommandStep
  <1>2. CASE Work
    <2>1. commands' = commands /\ commands' \in 0 .. MaxCommands
      BY <1>2 DEF Work, RingInv, ControlOK
    <2>2. QED
      BY <1>2, <2>1, FillStep, CycleStep DEF Work
  <1>3. QED
    BY <1>1, <1>2, UnchangedStep DEF Next

LEMMA Invariance == Spec => []RingInv
  <1>1. QED
    BY InitInv, NextStep, PTL DEF Spec

-----------------------------------------------------------------------------
(* What follows from it                                                    *)

LEMMA InvTypes == RingInv => TypeOK
  <1> SUFFICES ASSUME RingInv PROVE TypeOK
    OBVIOUS
  <1>1. \A s \in Streams : stream[s] \in StreamRec
    BY DEF RingInv, StreamsOK, Fills, Rests, StreamSound, RingSide
  <1>2. ASSUME NEW s \in Streams
        PROVE  LET st == stream[s] IN
               /\ SourceType(st.src)
               /\ {st.feed, st.open, st.known, st.failed} \subseteq BOOLEAN
               /\ {st.size, st.pos, st.start, st.sampleCount, st.sampleLimit} \subseteq Nat
               /\ st.used \in [Buffers -> 0 .. BufLen] /\ st.from \in [Buffers -> Nat]
    <2> DEFINE st == stream[s]
    <2>1. st \in StreamRec
      BY <1>1
    <2> HIDE DEF st
    <2>2. /\ st.src \in SourceRec
          /\ {st.feed, st.open, st.known, st.failed} \subseteq BOOLEAN
          /\ {st.size, st.pos, st.start, st.sampleCount, st.sampleLimit} \subseteq Nat
          /\ st.used \in [Buffers -> 0 .. BufLen] /\ st.from \in [Buffers -> Nat]
      BY <2>1 DEF StreamRec
    <2>3. SourceType(st.src)
      BY <2>2 DEF SourceType, SourceRec, SourceFields
    <2>4. QED
      BY <2>2, <2>3 DEF st
  <1>3. QED
    BY <1>2 DEF RingInv, ControlOK, FilledOK, TypeOK

LEMMA InvRings == RingInv => RingSound
  <1> SUFFICES ASSUME RingInv, NEW s \in Streams
               PROVE  LET src == stream[s].src IN
                      /\ \A i, j \in Pending(src) :
                           i # j => src.bufferQueue[i] # src.bufferQueue[j]
                      /\ \A i \in Pending(src) :
                           /\ stream[s].used[src.bufferQueue[i]] > 0
                           /\ ~(phase = "fill" /\ at = s /\ taken = src.bufferQueue[i])
                      /\ Heard(s) => src.playPos < stream[s].used[ActiveBuffer(src)]
    BY DEF RingSound
  <1> DEFINE src == stream[s].src
  <1>1. RingSide(stream[s])
    BY DEF RingInv, StreamsOK, Fills, Rests, StreamSound
  <1>2. src \in SourceRec /\ RingOK(src) /\ PendingOK(stream[s])
    BY <1>1 DEF RingSide, StreamRec
  <1>3. Pending(src) \subseteq Ringed(src)
    BY <1>2, PendingInRing
  <1>4. \A i \in Ringed(src) : src.bufferQueue[i] # NoBuffer
    BY <1>2, Constants DEF RingOK
  <1>5. ASSUME phase = "fill", at = s, NEW i \in Ringed(src)
        PROVE  taken # src.bufferQueue[i]
    BY <1>4, <1>5 DEF RingInv, StreamsOK, Filling, Fills, HasPlace
  <1>6. \A i, j \in Pending(src) : i # j => src.bufferQueue[i] # src.bufferQueue[j]
    BY <1>2, <1>3 DEF RingOK
  <1>7. \A i \in Pending(src) : stream[s].used[src.bufferQueue[i]] > 0
    BY <1>2 DEF PendingOK
  <1>8. Heard(s) => src.playPos < stream[s].used[ActiveBuffer(src)]
    BY <1>1 DEF Heard, RingSide, Sounding
  <1>9. QED
    BY <1>3, <1>5, <1>6, <1>7, <1>8

(* The decoder and the mixer share the ring of a stream: no buffer that is *)
(* still to be heard is decoded into or queued twice, each has frames, and *)
(* the play position is inside the current one; and all variables have     *)
(* their types.                                                            *)
THEOREM RingShared == Spec => []StreamOK
  <1>1. RingInv => StreamOK
    BY InvTypes, InvRings DEF StreamOK
  <1>2. QED
    BY <1>1, Invariance, PTL

(* Whenever the audio thread waits, a stream whose state is SS_PLAYING has *)
(* a current buffer, so it advances and comes to an end: faun_waitSignal   *)
(* is not left with a stream that plays nothing.                           *)
THEOREM PlayingHasBuffer == Spec => []PlayingIsHeard
  <1>1. RingInv => PlayingIsHeard
    BY DEF RingInv, StreamsOK, Filling, Rests, StreamSound, RingSide, PlayingIsHeard, Heard
  <1>2. QED
    BY <1>1, Invariance, PTL

=============================================================================
