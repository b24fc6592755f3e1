----------------------- MODULE FaunStreamTrack_proofs -----------------------
(***************************************************************************)
(* FaunStream implements StreamTrack, for every number of streams, every   *)
(* length of the buffers and the cycle, and every file, part and mode, as  *)
(* long as decoding keeps up with playing.                                 *)
(***************************************************************************)
EXTENDS FaunStream_proofs

Lo(st)       == PartOf(st).lo
Hi(st)       == PartOf(st).hi
Looping(st)  == "loop" \in st.src.mode
Decoding(st) == st.feed /\ st.open

(* The frames in the buffer at slot i are those from From to EndOf.        *)
From(st, i)  == st.from[st.src.bufferQueue[i]]
EndOf(st, i) == From(st, i) + st.used[st.src.bufferQueue[i]]

(* Frame f comes after the frames up to e: it is the next of the file, or  *)
(* the first of the part after its last.                                   *)
Follows(st, e, f) == f = e \/ (e = Hi(st) /\ Looping(st) /\ f = Lo(st))

(* The ring holds consecutive frames of the part, those the decoder reads  *)
(* next come after them, and if it reads no more they are the last.        *)
GoesOn(st, e) ==
  IF Decoding(st) THEN Follows(st, e, st.pos) ELSE st.failed \/ (e = Hi(st) /\ ~Looping(st))

Linked(st, i) ==
  IF NextSlot(i) # st.src.qtail THEN Follows(st, EndOf(st, i), From(st, NextSlot(i)))
                                ELSE GoesOn(st, EndOf(st, i))

(* Only the last buffer of a lap is not full.                              *)
Whole(st, i) == st.used[st.src.bufferQueue[i]] = BufLen \/ EndOf(st, i) = Hi(st)

Chain(st) ==
  \A i \in Pending(st.src) :
    EndOf(st, i) <= Hi(st) /\ Linked(st, i) /\ (Decoding(st) => Whole(st, i))

(* Where the decoder is in its file: as far from the start of the part as  *)
(* it has counted, and at the start if it has not been fed.                *)
Seated(st) ==
  st.open /\ (st.feed \/ st.sampleCount = 0) =>
    /\ Lo(st) < st.size /\ st.pos <= st.size
    /\ SegmentSet(st) => st.pos = st.start + st.sampleCount
    /\ ~st.feed => st.pos = Lo(st)

Ordered(st) == Seated(st) /\ (st.feed \/ st.sampleCount # 0 => Chain(st))

(* While stream_start fills the ring, its first buffer has the first frame *)
(* of the part.                                                            *)
FromStart(st) ==
  IF Active(st.src) THEN st.from[ActiveBuffer(st.src)] = Lo(st)
                    ELSE st.open => st.pos = Lo(st)

OrderedOK ==
  \A s \in Streams :
    Ordered(stream[s]) /\ (Filling(s) /\ back = "wait" => FromStart(stream[s]))

(* The mix has every stream that is heard.                                 *)
MixingOK ==
  /\ phase \in {"wait", "mix"} => at = 0
  /\ phase = "mix" => \A s \in Streams : Heard(s) => s \in mixing
  /\ phase = "collect" \/ (phase = "fill" /\ back = "collect") =>
       \A s \in Streams : s < at /\ Heard(s) => s \in mixing

TrackInv == OrderedOK /\ MixingOK

-----------------------------------------------------------------------------
(* The ring and its chain                                                  *)

LEMMA PartFields ==
  ASSUME NEW st \in StreamRec
  PROVE  /\ Lo(st) = IF SegmentSet(st) THEN st.start ELSE 0
         /\ Hi(st) = IF SegmentSet(st) /\ st.start + st.sampleLimit < st.size
                     THEN st.start + st.sampleLimit ELSE st.size
         /\ PartOf(st) = [lo |-> Lo(st), hi |-> Hi(st), loop |-> Looping(st)]
         /\ Lo(st) \in Nat /\ Hi(st) \in Nat
  <1>1. st.start \in Nat /\ st.size \in Nat /\ st.sampleLimit \in Nat
    BY DEF StreamRec
  <1>2. QED
    BY <1>1 DEF Lo, Hi, Looping, PartOf

(* The same part of the same file.                                         *)
SamePart(a, b) ==
  /\ a.size = b.size /\ a.start = b.start /\ a.sampleLimit = b.sampleLimit
  /\ a.src.mode = b.src.mode

LEMMA SamePartSame ==
  ASSUME NEW a, NEW b, SamePart(a, b)
  PROVE  /\ PartOf(a) = PartOf(b) /\ Lo(a) = Lo(b) /\ Hi(a) = Hi(b)
         /\ Looping(a) <=> Looping(b)
         /\ SegmentSet(a) <=> SegmentSet(b)
         /\ \A e, f : Follows(a, e, f) <=> Follows(b, e, f)
  <1>1. SegmentSet(a) <=> SegmentSet(b)
    BY DEF SamePart, SegmentSet
  <1>2. PartOf(a) = PartOf(b)
    BY <1>1 DEF SamePart, PartOf
  <1>3. /\ Lo(a) = Lo(b) /\ Hi(a) = Hi(b) /\ (Looping(a) <=> Looping(b))
    BY <1>2 DEF Lo, Hi, Looping, SamePart
  <1>4. QED
    BY <1>1, <1>2, <1>3 DEF Follows

(* What is to be heard follows the current buffer: slots are only taken    *)
(* from the front.                                                         *)
LEMMA ChainKept ==
  ASSUME NEW a, NEW b, SamePart(a, b), a.used = b.used, a.from = b.from,
         a.src.bufferQueue = b.src.bufferQueue, a.src.qtail = b.src.qtail,
         Pending(b.src) \subseteq Pending(a.src),
         \A e : GoesOn(a, e) => GoesOn(b, e), Decoding(b) => Decoding(a),
         Chain(a)
  PROVE  Chain(b)
  <1>1. \A i : From(a, i) = From(b, i) /\ EndOf(a, i) = EndOf(b, i)
    BY DEF From, EndOf
  <1>2. \A i : Linked(a, i) => Linked(b, i)
    BY <1>1, SamePartSame DEF Linked
  <1>3. \A i : Whole(a, i) => Whole(b, i)
    BY <1>1, SamePartSame DEF Whole
  <1>4. QED
    BY <1>1, <1>2, <1>3, SamePartSame DEF Chain

(* The same buffers, and the decoder as it was ...                         *)
SameFile(a, b) ==
  /\ SamePart(a, b)
  /\ a.used = b.used /\ a.from = b.from
  /\ a.pos = b.pos /\ a.sampleCount = b.sampleCount
  /\ a.feed = b.feed /\ a.open = b.open /\ a.failed = b.failed

LEMMA SameFileOrdered ==
  ASSUME NEW a, NEW b, SameFile(a, b),
         a.src.bufferQueue = b.src.bufferQueue, a.src.qtail = b.src.qtail,
         Pending(b.src) \subseteq Pending(a.src),
         Ordered(a)
  PROVE  Ordered(b)
  <1>1. SamePart(a, b)
    BY DEF SameFile
  <1>2. \A e : GoesOn(a, e) => GoesOn(b, e)
    BY <1>1, SamePartSame DEF SameFile, GoesOn, Decoding
  <1>3. Chain(a) => Chain(b)
    BY <1>1, <1>2, ChainKept DEF SameFile, Decoding
  <1>4. Seated(b)
    BY <1>1, SamePartSame DEF Ordered, Seated, SameFile, SamePart
  <1>5. QED
    BY <1>3, <1>4 DEF Ordered, SameFile

(* ... or stopped for good.                                                *)
LEMMA ClosedOrdered ==
  ASSUME NEW a, NEW b, SamePart(a, b), a.used = b.used, a.from = b.from,
         a.src.bufferQueue = b.src.bufferQueue, a.src.qtail = b.src.qtail,
         Pending(b.src) \subseteq Pending(a.src),
         ~b.open, b.feed => a.feed, a.sampleCount = b.sampleCount,
         a.failed => b.failed, Decoding(a) => b.failed,
         Ordered(a)
  PROVE  Ordered(b)
  <1>1. \A e : GoesOn(a, e) => GoesOn(b, e)
    BY SamePartSame DEF GoesOn, Decoding
  <1>2. Chain(a) => Chain(b)
    BY <1>1, ChainKept DEF Decoding
  <1>3. QED
    BY <1>2 DEF Ordered, Seated

LEMMA StoppedFields ==
  ASSUME NEW st \in StreamRec
  PROVE  LET r == Stopped(st)
         IN /\ r \in StreamRec /\ SamePart(st, r) /\ SameRing(st.src, r.src)
            /\ r.used = st.used /\ r.from = st.from
            /\ r.src.state = "stopped" /\ r.src.playPos = st.src.playPos
            /\ ~r.feed /\ ~r.open /\ r.sampleCount = st.sampleCount
            /\ r.failed = (st.failed \/ Decoding(st))
  <1> DEFINE t == [st.src EXCEPT !.state = "stopped"]
             r == Stopped(st)
             f == st.failed \/ Decoding(st)
  <1>1. r = [st EXCEPT !.src = t, !.feed = FALSE, !.open = FALSE, !.failed = f]
    BY DEF Stopped, Decoding
  <1>2. /\ t \in SourceRec /\ SameRing(st.src, t) /\ t.state = "stopped"
        /\ t.mode = st.src.mode /\ t.playPos = st.src.playPos
    <2>1. st.src \in SourceRec
      BY DEF StreamRec
    <2>2. QED
      BY <2>1 DEF SourceRec, States, SameRing
  <1>3. f \in BOOLEAN
    BY DEF StreamRec, Decoding
  <1> HIDE DEF t, r, f
  <1>4. /\ r \in StreamRec /\ r.src = t /\ r.feed = FALSE /\ r.open = FALSE
        /\ r.used = st.used /\ r.from = st.from /\ r.sampleCount = st.sampleCount
        /\ r.failed = f /\ r.size = st.size /\ r.start = st.start
        /\ r.sampleLimit = st.sampleLimit
    BY <1>1, <1>2, <1>3 DEF StreamRec
  <1>5. QED
    BY <1>2, <1>4 DEF r, f, SamePart

LEMMA StoppedOrdered ==
  ASSUME NEW st \in StreamRec, Ordered(st) PROVE Ordered(Stopped(st))
  <1> DEFINE r == Stopped(st)
  <1>1. /\ SamePart(st, r) /\ SameRing(st.src, r.src)
        /\ r.used = st.used /\ r.from = st.from
        /\ ~r.feed /\ ~r.open /\ r.sampleCount = st.sampleCount
        /\ r.failed = (st.failed \/ Decoding(st))
    BY StoppedFields
  <1> HIDE DEF r
  <1>2. /\ Pending(r.src) = Pending(st.src)
        /\ st.src.bufferQueue = r.src.bufferQueue /\ st.src.qtail = r.src.qtail
    BY <1>1, SameRingSame DEF SameRing
  <1>3. Ordered(r)
    BY <1>1, <1>2, ClosedOrdered
  <1>4. QED
    BY <1>3 DEF r

(* Another source in the same stream.                                      *)
LEMMA WithSource ==
  ASSUME NEW st \in StreamRec, NEW t \in SourceRec, t.mode = st.src.mode
  PROVE  LET r == [st EXCEPT !.src = t]
         IN r \in StreamRec /\ r.src = t /\ SameFile(st, r)
  BY DEF StreamRec, SameFile, SamePart

LEMMA RingSlots ==
  ASSUME NEW src \in SourceRec, RingOK(src)
  PROVE  /\ \A i \in Slots :
              /\ NextSlot(i) \in Slots /\ Offset(src, i) \in 0 .. QueueSize - 1
              /\ Offset(src, NextSlot(i))
                   = IF Offset(src, i) + 1 = QueueSize THEN 0 ELSE Offset(src, i) + 1
         /\ \A i, j \in Slots : NextSlot(i) = NextSlot(j) => i = j
         /\ \A i, j \in Slots : Offset(src, i) = Offset(src, j) => i = j
         /\ src.qtail \in Slots
         /\ src.bufUsed < QueueSize => Offset(src, src.qtail) = src.bufUsed
         /\ src.bufUsed = QueueSize => Offset(src, src.qtail) = 0
         /\ src.bufUsed \in 0 .. QueueSize
  <1>1. src.qhead \in Slots /\ src.qtail \in Slots /\ src.bufUsed \in 0 .. QueueSize
    BY DEF SourceRec
  <1>2. src.qtail = IF src.qhead + src.bufUsed < QueueSize
                    THEN src.qhead + src.bufUsed ELSE src.qhead + src.bufUsed - QueueSize
    BY DEF RingOK
  <1>3. ASSUME NEW i \in Slots
        PROVE  /\ NextSlot(i) \in Slots /\ Offset(src, i) \in 0 .. QueueSize - 1
               /\ Offset(src, NextSlot(i))
                    = IF Offset(src, i) + 1 = QueueSize THEN 0 ELSE Offset(src, i) + 1
    <2>1. PICK h \in Slots : h = src.qhead
      BY <1>1
    <2>2. CASE i + 1 = QueueSize
      BY <2>1, <2>2, <1>3, Constants DEF Slots, Offset, NextSlot
    <2>3. CASE i + 1 # QueueSize
      BY <2>1, <2>3, <1>3, Constants DEF Slots, Offset, NextSlot
    <2>4. QED
      BY <2>2, <2>3
  <1>4. \A i, j \in Slots : NextSlot(i) = NextSlot(j) => i = j
    BY Constants DEF Slots, NextSlot
  <1>5. \A i, j \in Slots : Offset(src, i) = Offset(src, j) => i = j
    BY <1>1, Constants DEF Slots, Offset
  <1>6. /\ src.bufUsed < QueueSize => Offset(src, src.qtail) = src.bufUsed
        /\ src.bufUsed = QueueSize => Offset(src, src.qtail) = 0
    BY <1>1, <1>2, Constants DEF Slots, Offset
  <1>7. QED
    BY <1>1, <1>3, <1>4, <1>5, <1>6

(* The slot after one in the ring is in the ring, or it is the tail.       *)
LEMMA NextInRing ==
  ASSUME NEW src \in SourceRec, RingOK(src), NEW i \in Ringed(src), NextSlot(i) # src.qtail
  PROVE  NextSlot(i) \in Ringed(src) /\ Offset(src, NextSlot(i)) = Offset(src, i) + 1
  <1>1. i \in Slots /\ Offset(src, i) < src.bufUsed
    BY DEF Ringed
  <1>2. Offset(src, i) + 1 # QueueSize
    <2>1. ASSUME Offset(src, i) + 1 = QueueSize PROVE FALSE
      <3>1. src.bufUsed = QueueSize
        BY <1>1, <2>1, RingSlots, Constants
      <3>2. Offset(src, src.qtail) = 0
        BY <3>1, RingSlots
      <3>3. Offset(src, NextSlot(i)) = 0
        BY <1>1, <2>1, RingSlots
      <3>4. QED
        BY <1>1, <3>2, <3>3, RingSlots
    <2>2. QED
      BY <2>1
  <1>3. NextSlot(i) \in Slots /\ Offset(src, NextSlot(i)) = Offset(src, i) + 1
    BY <1>1, <1>2, RingSlots
  <1>4. Offset(src, i) + 1 < src.bufUsed
    <2>1. Offset(src, i) \in Nat /\ src.bufUsed \in 0 .. QueueSize
      BY <1>1, RingSlots
    <2>2. Offset(src, i) + 1 # src.bufUsed
      BY <1>1, <1>2, <1>3, <2>1, RingSlots, Constants
    <2>3. QED
      BY <1>1, <2>1, <2>2
  <1>5. QED
    BY <1>3, <1>4 DEF Ringed

LEMMA NextIsPending ==
  ASSUME NEW src \in SourceRec, RingOK(src), NEW i \in Pending(src), NextSlot(i) # src.qtail
  PROVE  NextSlot(i) \in Pending(src) /\ i \in Slots
  <1>1. Active(src)
    BY DEF Pending
  <1>2. i \in Ringed(src) /\ Offset(src, i) >= Offset(src, src.qactive) /\ src.qactive \in Slots
    BY <1>1, PendingInRing
  <1>3. NextSlot(i) \in Ringed(src) /\ Offset(src, NextSlot(i)) = Offset(src, i) + 1
    BY <1>2, NextInRing
  <1>4. i \in Slots /\ Offset(src, i) \in Int /\ Offset(src, src.qactive) \in Int
    BY <1>2, RingSlots DEF Ringed
  <1>5. Offset(src, NextSlot(i)) >= Offset(src, src.qactive)
    BY <1>2, <1>3, <1>4
  <1>6. QED
    BY <1>1, <1>3, <1>4, <1>5, PendingInRing

(* Where a buffer goes that is queued.                                     *)
LEMMA QueuedChain ==
  ASSUME NEW src \in SourceRec, RingOK(src), NEW b \in Buffers, HasPlace(src, b)
  PROVE  LET r == QueueBuffer(src, b)
             Old(i) == i \in Slots /\ i # src.qtail
                       /\ src.bufferQueue[i] # b /\ src.bufferQueue[i] \in Buffers
                       /\ r.bufferQueue[i] = src.bufferQueue[i]
         IN /\ r.bufferQueue[src.qtail] = b /\ r.qtail = NextSlot(src.qtail)
            /\ ~Active(src) => r.qactive = src.qtail
            /\ \A i \in Pending(r) : i # src.qtail =>
                 /\ i \in Pending(src) /\ Old(i)
                 /\ NextSlot(i) # r.qtail
                 /\ NextSlot(i) # src.qtail => Old(NextSlot(i))
  <1> DEFINE r == QueueBuffer(src, b)
             queue == [src.bufferQueue EXCEPT ![src.qtail] = b]
             active == IF src.qactive = QNone THEN src.qtail ELSE src.qactive
             Old(i) == i \in Slots /\ i # src.qtail
                       /\ src.bufferQueue[i] # b /\ src.bufferQueue[i] \in Buffers
                       /\ r.bufferQueue[i] = src.bufferQueue[i]
  <1>1. r \in SourceRec /\ RingOK(r) /\ Active(r)
    BY QueuedRing
  <1>2. r = [src EXCEPT !.bufUsed = src.bufUsed + 1, !.bufferQueue = queue,
                        !.qactive = active, !.qtail = NextSlot(src.qtail)]
    BY DEF QueueBuffer, HasPlace
  <1> HIDE DEF r
  <1>3. /\ src.qtail \in Slots /\ src.bufUsed \in 0 .. QueueSize /\ src.bufUsed < QueueSize
        /\ src.bufferQueue \in [Slots -> Buffers \cup {NoBuffer}]
    BY DEF SourceRec, HasPlace
  <1>4. /\ queue[src.qtail] = b
        /\ \A i \in Slots : i # src.qtail => queue[i] = src.bufferQueue[i]
    BY <1>3
  <1> HIDE DEF queue, active
  <1>5. /\ r.bufferQueue = queue /\ r.qactive = active /\ r.qtail = NextSlot(src.qtail)
        /\ r.qhead = src.qhead /\ r.bufUsed = src.bufUsed + 1
    <2>1. PICK k, n : k = src.bufUsed + 1 /\ n = NextSlot(src.qtail)
      OBVIOUS
    <2>2. r = [src EXCEPT !.bufUsed = k, !.bufferQueue = queue, !.qactive = active, !.qtail = n]
      BY <1>2, <2>1, Zenon
    <2>3. r.bufferQueue = queue /\ r.qactive = active /\ r.qtail = n
          /\ r.qhead = src.qhead /\ r.bufUsed = k
      BY <2>2 DEF SourceRec
    <2>4. QED
      BY <2>1, <2>3
  <1>6. \A i : Offset(r, i) = Offset(src, i)
    BY <1>5 DEF Offset
  <1>7. Offset(src, src.qtail) = src.bufUsed
    BY <1>3, RingSlots
  <1>8. ASSUME NEW i \in Ringed(src) PROVE Old(i)
    <2>1. i \in Slots /\ i # src.qtail
      BY <1>3, <1>7, <1>8 DEF Ringed
    <2>2. QED
      BY <2>1, <1>4, <1>5, <1>8 DEF RingOK, HasPlace
  <1>9. ASSUME NEW i \in Pending(r), i # src.qtail
        PROVE  /\ i \in Pending(src) /\ i \in Ringed(src)
               /\ NextSlot(i) # r.qtail
               /\ NextSlot(i) # src.qtail => Old(NextSlot(i))
    <2>1. i \in Slots /\ Offset(r, i) < r.bufUsed /\ Offset(r, i) >= Offset(r, r.qactive)
      BY <1>1, <1>9, PendingInRing DEF Ringed
    <2>2. Offset(src, i) \in Nat /\ Offset(src, i) # src.bufUsed
      BY <1>3, <1>7, <1>9, <2>1, RingSlots
    <2>3. Offset(src, i) < src.bufUsed
      BY <1>3, <1>5, <1>6, <2>1, <2>2
    <2>4. i \in Ringed(src)
      BY <2>1, <2>3 DEF Ringed
    <2>5. Active(src)
      <3>1. CASE ~Active(src)
        <4>1. r.qactive = src.qtail
          BY <3>1, <1>5 DEF active, Active
        <4>2. Offset(src, i) >= src.bufUsed
          BY <4>1, <1>6, <1>7, <2>1
        <4>3. QED
          BY <4>2, <2>2, <2>3, <1>3
      <3>2. QED
        BY <3>1
    <2>6. r.qactive = src.qactive
      BY <1>5, <2>5 DEF active, Active
    <2>7. i \in Pending(src)
      BY <1>6, <2>1, <2>4, <2>5, <2>6, PendingInRing
    <2>8. NextSlot(i) # r.qtail
      BY <1>3, <1>5, <1>9, <2>1, RingSlots
    <2>9. NextSlot(i) # src.qtail => Old(NextSlot(i))
      BY <1>8, <2>4, NextInRing
    <2>10. QED
      BY <2>4, <2>7, <2>8, <2>9
  <1>10. ~Active(src) => r.qactive = src.qtail
    BY <1>5 DEF active, Active
  <1>11. QED
    BY <1>4, <1>5, <1>8, <1>9, <1>10 DEF r

-----------------------------------------------------------------------------
(* Reading                                                                 *)

(* Frames of the n read that are inside the part.                          *)
Inside(st, n) ==
  IF SegmentSet(st) /\ st.sampleCount + n >= st.sampleLimit
  THEN st.sampleLimit - st.sampleCount ELSE n

(* n frames were read into buffer b.                                       *)
ReadResult(st, b, n, r) ==
  /\ r \in StreamRec /\ SamePart(st, r)
  /\ r.pos = st.pos + n /\ r.sampleCount = st.sampleCount + n
  /\ r.feed /\ r.open = st.open /\ r.failed = st.failed
  /\ r.from[b] = st.pos
  /\ \A c \in Buffers : c # b => r.from[c] = st.from[c] /\ r.used[c] = st.used[c]
  /\ n = 0 => r.src = st.src
  /\ n > 0 => r.src = QueueBuffer(st.src, b) /\ r.used[b] = Inside(st, n)
  /\ AtLimit(ReadInto(st, b, n)) <=> SegmentSet(st) /\ st.sampleCount + n >= st.sampleLimit

LEMMA ReadFields ==
  ASSUME NEW st, NEW b \in Buffers, NEW to, Fills(st, b, to),
         NEW n \in 0 .. BufLen, st.open \/ n = 0
  PROVE  ReadResult(st, b, n, KeptOf(st, b, n))
  <1> DEFINE read == ReadInto(st, b, n)
             into == [st.used EXCEPT ![b] = n]
             places == [st.from EXCEPT ![b] = st.pos]
  <1>1. /\ st \in StreamRec /\ st.src \in SourceRec /\ RingOK(st.src)
        /\ st.used \in [Buffers -> 0 .. BufLen] /\ st.from \in [Buffers -> Nat]
        /\ st.pos \in Nat /\ st.sampleCount \in Nat /\ st.sampleLimit \in Nat
    BY DEF Fills, StreamSound, RingSide, StreamRec
  <1>2. st.feed /\ HasPlace(st.src, b)
    BY Constants DEF Fills
  <1>3. /\ into \in [Buffers -> 0 .. BufLen] /\ into[b] = n
        /\ places \in [Buffers -> Nat] /\ places[b] = st.pos
        /\ \A c \in Buffers : c # b => into[c] = st.used[c] /\ places[c] = st.from[c]
    BY <1>1
  <1>4. PICK p \in Nat, k \in Nat : p = st.pos + n /\ k = st.sampleCount + n
    BY <1>1, Constants
  <1>5. read = [[[[st EXCEPT !.pos = p] EXCEPT !.used = into] EXCEPT !.from = places]
                   EXCEPT !.sampleCount = k]
    <2> DEFINE s == [st EXCEPT !.pos = p]
               v == [s EXCEPT !.used = [s.used EXCEPT ![b] = n]]
               w == [v EXCEPT !.from = [v.from EXCEPT ![b] = st.pos]]
    <2>1. read = [w EXCEPT !.sampleCount = k]
      BY <1>4, Zenon DEF ReadInto
    <2>2. s.used = st.used
      BY <1>1 DEF StreamRec
    <2>3. v = [s EXCEPT !.used = into]
      BY <2>2, Zenon
    <2> HIDE DEF v
    <2>4. v.from = st.from
      BY <1>1, <2>3 DEF StreamRec
    <2>5. w = [[s EXCEPT !.used = into] EXCEPT !.from = places]
      BY <2>3, <2>4, Zenon
    <2> HIDE DEF w
    <2>6. QED
      BY <2>1, <2>5, Zenon
  <1> HIDE DEF read, into, places
  <1>6. /\ read \in StreamRec /\ read.src = st.src /\ read.used = into /\ read.from = places
        /\ read.feed = st.feed /\ read.open = st.open /\ read.failed = st.failed
        /\ read.pos = p /\ read.sampleCount = k
        /\ read.sampleLimit = st.sampleLimit /\ read.size = st.size /\ read.start = st.start
    BY <1>1, <1>3, <1>4, <1>5 DEF StreamRec
  <1>7. /\ AtLimit(read) <=> SegmentSet(st) /\ st.sampleCount + n >= st.sampleLimit
        /\ Excess(read) = k - st.sampleLimit
    <2>1. Excess(read) = k - st.sampleLimit
      BY <1>6 DEF Excess
    <2>2. AtLimit(read) <=> st.sampleLimit # 0 /\ k >= st.sampleLimit
      BY <1>6 DEF AtLimit, SegmentSet
    <2>3. SegmentSet(st) <=> st.sampleLimit # 0
      BY DEF SegmentSet
    <2>4. AtLimit(read) <=> SegmentSet(st) /\ st.sampleCount + n >= st.sampleLimit
      BY <1>4, <2>2, <2>3
    <2>5. QED
      BY <2>1, <2>4
  <1>8. HasData(st, b, n) <=> n > 0
    BY ReadKept
  <1>9. CASE n = 0
    <2>1. KeptOf(st, b, n) = read
      BY <1>8, <1>9 DEF KeptOf, read
    <2>2. SamePart(st, read)
      BY <1>6 DEF SamePart
    <2>3. ~(n > 0)
      BY <1>9
    <2>4. /\ read.pos = st.pos + n /\ read.sampleCount = st.sampleCount + n
          /\ read.from[b] = st.pos
      BY <1>3, <1>4, <1>6
    <2>5. \A c \in Buffers : c # b => read.from[c] = st.from[c] /\ read.used[c] = st.used[c]
      BY <1>3, <1>6
    <2>6. QED
      BY <1>2, <1>6, <1>7, <2>1, <2>2, <2>3, <2>4, <2>5, Zenon DEF read, ReadResult
  <1>10. CASE n > 0
    <2> DEFINE t == QueueBuffer(st.src, b)
               m == IF AtLimit(read) THEN n - Excess(read) ELSE n
               cut == [into EXCEPT ![b] = m]
               r == KeptOf(st, b, n)
    <2>1. m = Inside(st, n)
      <3>1. n - Excess(read) = st.sampleLimit - st.sampleCount
        <4>1. PICK c \in Nat, lim \in Nat : c = st.sampleCount /\ lim = st.sampleLimit
          BY <1>1
        <4>2. Excess(read) = (c + n) - lim /\ n \in Int
          BY <1>4, <1>7, <4>1
        <4>3. n - Excess(read) = lim - c
          BY ONLY <4>1, <4>2, c \in Nat, lim \in Nat
        <4>4. QED
          BY <4>1, <4>3
      <3>2. QED
        BY <3>1, <1>7 DEF Inside
    <2>2. r = [read EXCEPT !.used = cut, !.src = t]
      <3>1. r = QueueRead(read, b, n)
        BY <1>8, <1>10 DEF KeptOf, read
      <3>2. QED
        BY <3>1, <1>6 DEF QueueRead
    <2>3. cut[b] = m /\ \A c \in Buffers : c # b => cut[c] = st.used[c]
      BY <1>3
    <2>4. t.mode = st.src.mode
      BY <1>1, <1>2, QueuedRing
    <2>5. r \in StreamRec
      BY ReadKept
    <2> HIDE DEF m, t, cut, r
    <2>6. /\ r.src = t /\ r.used = cut /\ r.from = places
          /\ r.feed = st.feed /\ r.open = st.open /\ r.failed = st.failed
          /\ r.pos = p /\ r.sampleCount = k
          /\ r.sampleLimit = st.sampleLimit /\ r.size = st.size /\ r.start = st.start
      BY <1>6, <2>2 DEF StreamRec
    <2>7. SamePart(st, r)
      BY <2>4, <2>6 DEF SamePart
    <2>8. QED
      BY <1>2, <1>3, <1>4, <1>7, <1>10, <2>1, <2>3, <2>5, <2>6, <2>7 DEF r, t, read, ReadResult
  <1>11. QED
    BY <1>9, <1>10, Constants

(* The frames that are read are inside the part, and they are its last if  *)
(* the file or the part ends with them.                                    *)
LEMMA ReadNumbers ==
  ASSUME NEW st, NEW b \in Buffers, NEW to, Fills(st, b, to), Ordered(st), st.open,
         NEW n \in 0 .. BufLen, n <= Readable(st)
  PROVE  LET reach == st.pos + Inside(st, n)
             atLimit == SegmentSet(st) /\ st.sampleCount + n >= st.sampleLimit
         IN /\ st.pos + n <= st.size /\ reach \in Nat
            /\ n > 0 => reach <= Hi(st)
            /\ atLimit /\ n > 0 => reach = Hi(st)
            /\ ~atLimit => reach = st.pos + n
            /\ n = Readable(st) /\ n < BufLen =>
                 /\ reach = Hi(st)
                 /\ n = 0 => st.pos = Hi(st)
  <1>1. /\ st \in StreamRec /\ st.feed
        /\ SegmentSet(st) => st.sampleCount < st.sampleLimit
    BY DEF Fills, StreamSound, RingSide, FileSide
  <1>2. /\ Lo(st) < st.size /\ st.pos <= st.size
        /\ SegmentSet(st) => st.pos = st.start + st.sampleCount
    BY <1>1 DEF Ordered, Seated
  <1>3. PICK p \in Nat, c \in Nat, lim \in Nat, z \in Nat, a \in Nat :
          /\ p = st.pos /\ c = st.sampleCount /\ lim = st.sampleLimit
          /\ z = st.size /\ a = st.start
    BY <1>1 DEF StreamRec
  <1>4. /\ n <= z - p /\ n <= BufLen
        /\ n = Readable(st) /\ n < BufLen => n = z - p
    BY <1>2, <1>3, Constants DEF Readable
  <1>5. CASE ~SegmentSet(st)
    <2>1. Hi(st) = z /\ Inside(st, n) = n
      BY <1>1, <1>3, <1>5, PartFields DEF Inside
    <2>2. QED
      BY <1>3, <1>4, <1>5, <2>1, Constants
  <1>6. CASE SegmentSet(st)
    <2>1. /\ Hi(st) = IF a + lim < z THEN a + lim ELSE z
          /\ Inside(st, n) = IF c + n >= lim THEN lim - c ELSE n
          /\ p = a + c /\ c < lim
      BY <1>1, <1>2, <1>3, <1>6, PartFields DEF Inside
    <2>2. CASE c + n >= lim
      <3>0. Inside(st, n) = lim - c /\ a + lim <= z
        BY <1>3, <1>4, <2>1, <2>2, Constants
      <3>1. p + Inside(st, n) = a + lim /\ Hi(st) = a + lim
        BY <1>3, <2>1, <3>0
      <3>2. n > 0
        BY <1>3, <2>1, <2>2, Constants
      <3>3. QED
        BY <1>3, <1>4, <1>6, <2>2, <3>1, <3>2, Constants
    <2>3. CASE ~(c + n >= lim)
      <3>1. p + Inside(st, n) = p + n /\ p + n < a + lim
        BY <1>3, <1>4, <2>1, <2>3, Constants
      <3>2. p + n <= Hi(st) /\ (n = z - p => p + n = Hi(st))
        BY <1>3, <1>4, <2>1, <3>1, Constants
      <3>3. QED
        BY <1>3, <1>4, <1>6, <2>3, <3>1, <3>2, Constants
    <2>4. QED
      BY <2>2, <2>3
  <1>7. QED
    BY <1>5, <1>6

(* The buffer that was read comes after those in the ring.                 *)
LEMMA ReadLinks ==
  ASSUME NEW st, NEW b \in Buffers, NEW to, Fills(st, b, to), Ordered(st),
         NEW n \in 0 .. BufLen, n <= Readable(st)
  PROVE  LET k == KeptOf(st, b, n)
         IN /\ \A i \in Pending(k.src) :
                 /\ EndOf(k, i) <= Hi(st)
                 /\ IF NextSlot(i) # k.src.qtail
                    THEN Follows(st, EndOf(k, i), From(k, NextSlot(i)))
                    ELSE IF n = 0 THEN GoesOn(st, EndOf(k, i))
                                  ELSE EndOf(k, i) = st.pos + Inside(st, n)
                 /\ st.open /\ n = Readable(st) =>
                      k.used[k.src.bufferQueue[i]] = BufLen \/ EndOf(k, i) = Hi(st)
            /\ Active(st.src) => /\ Active(k.src)
                                 /\ k.from[ActiveBuffer(k.src)] = st.from[ActiveBuffer(st.src)]
            /\ ~Active(st.src) /\ Active(k.src) =>
                 n > 0 /\ k.from[ActiveBuffer(k.src)] = st.pos
  <1> DEFINE k == KeptOf(st, b, n)
  <1>1. /\ st \in StreamRec /\ st.src \in SourceRec /\ RingOK(st.src) /\ st.feed
        /\ HasPlace(st.src, b)
    BY Constants DEF Fills, StreamSound, RingSide, StreamRec
  <1>2. Chain(st)
    BY <1>1 DEF Ordered
  <1>3. st.open \/ n = 0
    BY Constants DEF Readable
  <1>4. /\ k.from[b] = st.pos
        /\ \A c \in Buffers : c # b => k.from[c] = st.from[c] /\ k.used[c] = st.used[c]
        /\ n = 0 => k.src = st.src
        /\ n > 0 => k.src = QueueBuffer(st.src, b) /\ k.used[b] = Inside(st, n)
    <2>1. ReadResult(st, b, n, k)
      BY <1>3, ReadFields
    <2> HIDE DEF k
    <2>2. QED
      BY <2>1 DEF ReadResult
  <1> HIDE DEF k
  <1>5. \A i \in Pending(st.src) : st.src.bufferQueue[i] # b /\ st.src.bufferQueue[i] \in Buffers
    BY <1>1, PendingInRing DEF HasPlace, RingOK, Pending
  <1>6. Active(st.src) => ActiveBuffer(st.src) # b /\ ActiveBuffer(st.src) \in Buffers
    BY <1>1 DEF HasPlace, RingOK, ActiveBuffer
  <1>7. CASE n = 0
    <2>1. \A i \in Pending(st.src) : From(k, i) = From(st, i) /\ EndOf(k, i) = EndOf(st, i)
      BY <1>4, <1>5, <1>7 DEF From, EndOf
    <2>2. ASSUME NEW i \in Pending(k.src)
          PROVE  /\ EndOf(k, i) <= Hi(st)
                 /\ IF NextSlot(i) # k.src.qtail
                    THEN Follows(st, EndOf(k, i), From(k, NextSlot(i)))
                    ELSE GoesOn(st, EndOf(k, i))
                 /\ st.open =>
                      k.used[k.src.bufferQueue[i]] = BufLen \/ EndOf(k, i) = Hi(st)
      <3>1. i \in Pending(st.src) /\ k.src.qtail = st.src.qtail
        BY <1>4, <1>7, <2>2
      <3>2. EndOf(st, i) <= Hi(st) /\ Linked(st, i) /\ (st.open => Whole(st, i))
        BY <1>1, <1>2, <3>1 DEF Chain, Decoding
      <3>3. NextSlot(i) # st.src.qtail => NextSlot(i) \in Pending(st.src)
        BY <1>1, <3>1, NextIsPending
      <3>4. k.used[k.src.bufferQueue[i]] = st.used[st.src.bufferQueue[i]]
        BY <1>4, <1>5, <1>7, <3>1
      <3>5. QED
        BY <2>1, <3>1, <3>2, <3>3, <3>4 DEF Linked, Whole
    <2>3. Active(st.src) <=> Active(k.src)
      BY <1>4, <1>7
    <2>4. Active(st.src) => k.from[ActiveBuffer(k.src)] = st.from[ActiveBuffer(st.src)]
      BY <1>4, <1>6, <1>7
    <2>5. QED
      BY <1>7, <2>2, <2>3, <2>4 DEF k
  <1>8. CASE n > 0
    <2> DEFINE t == QueueBuffer(st.src, b)
               tail == st.src.qtail
    <2>1. /\ st.open /\ k.src = t /\ k.used[b] = Inside(st, n)
      BY <1>3, <1>4, <1>8
    <2>2. /\ t.bufferQueue[tail] = b /\ t.qtail = NextSlot(tail)
          /\ ~Active(st.src) => t.qactive = tail
          /\ \A i \in Pending(t) : i # tail =>
               /\ i \in Pending(st.src)
               /\ t.bufferQueue[i] = st.src.bufferQueue[i]
               /\ NextSlot(i) # t.qtail
               /\ NextSlot(i) # tail =>
                    /\ st.src.bufferQueue[NextSlot(i)] # b
                    /\ st.src.bufferQueue[NextSlot(i)] \in Buffers
                    /\ t.bufferQueue[NextSlot(i)] = st.src.bufferQueue[NextSlot(i)]
      BY <1>1, QueuedChain
    <2>3. /\ Active(t)
          /\ Active(st.src) => ActiveBuffer(t) = ActiveBuffer(st.src)
      BY <1>1, QueuedRing
    <2> HIDE DEF t
    <2>4. /\ st.pos + Inside(st, n) <= Hi(st)
          /\ n = Readable(st) => Inside(st, n) = BufLen \/ st.pos + Inside(st, n) = Hi(st)
      <3>1. /\ st.pos + Inside(st, n) <= Hi(st)
            /\ SegmentSet(st) /\ st.sampleCount + n >= st.sampleLimit =>
                 st.pos + Inside(st, n) = Hi(st)
            /\ n = Readable(st) /\ n < BufLen => st.pos + Inside(st, n) = Hi(st)
        BY <1>8, <2>1, ReadNumbers
      <3>2. n < BufLen \/ n = BufLen
        BY Constants
      <3>3. QED
        BY <3>1, <3>2 DEF Inside
    <2>5. ASSUME NEW i \in Pending(t), i = tail
          PROVE  /\ EndOf(k, i) = st.pos + Inside(st, n)
                 /\ NextSlot(i) = k.src.qtail
                 /\ k.used[k.src.bufferQueue[i]] = Inside(st, n)
      BY <1>4, <2>1, <2>2, <2>5 DEF EndOf, From
    <2>6. ASSUME NEW i \in Pending(t), i # tail
          PROVE  /\ EndOf(k, i) <= Hi(st) /\ NextSlot(i) # k.src.qtail
                 /\ Follows(st, EndOf(k, i), From(k, NextSlot(i)))
                 /\ k.used[k.src.bufferQueue[i]] = BufLen \/ EndOf(k, i) = Hi(st)
      <3>1. /\ i \in Pending(st.src) /\ NextSlot(i) # k.src.qtail
            /\ k.src.bufferQueue[i] = st.src.bufferQueue[i]
        BY <2>1, <2>2, <2>6
      <3>2. /\ EndOf(k, i) = EndOf(st, i)
            /\ k.used[k.src.bufferQueue[i]] = st.used[st.src.bufferQueue[i]]
        BY <1>4, <1>5, <3>1 DEF EndOf, From
      <3>3. EndOf(st, i) <= Hi(st) /\ Linked(st, i) /\ Whole(st, i)
        BY <1>1, <1>2, <2>1, <3>1 DEF Chain, Decoding
      <3>4. CASE NextSlot(i) # tail
        <4>1. From(k, NextSlot(i)) = From(st, NextSlot(i))
          BY <1>4, <2>1, <2>2, <2>6, <3>4 DEF From
        <4>2. QED
          BY <3>1, <3>2, <3>3, <3>4, <4>1 DEF Linked, Whole
      <3>5. CASE NextSlot(i) = tail
        <4>1. From(k, NextSlot(i)) = st.pos
          BY <1>4, <2>1, <2>2, <3>5 DEF From
        <4>2. Follows(st, EndOf(st, i), st.pos)
          BY <1>1, <2>1, <3>3, <3>5 DEF Linked, GoesOn, Decoding
        <4>3. QED
          BY <3>1, <3>2, <3>3, <4>1, <4>2 DEF Whole
      <3>6. QED
        BY <3>4, <3>5
    <2>7. \A i \in Pending(k.src) :
                 /\ EndOf(k, i) <= Hi(st)
                 /\ IF NextSlot(i) # k.src.qtail
                    THEN Follows(st, EndOf(k, i), From(k, NextSlot(i)))
                    ELSE EndOf(k, i) = st.pos + Inside(st, n)
                 /\ n = Readable(st) =>
                      k.used[k.src.bufferQueue[i]] = BufLen \/ EndOf(k, i) = Hi(st)
      BY <2>1, <2>4, <2>5, <2>6
    <2>8. Active(st.src) => k.from[ActiveBuffer(k.src)] = st.from[ActiveBuffer(st.src)]
      BY <1>4, <1>6, <2>1, <2>3
    <2>9. ~Active(st.src) => k.from[ActiveBuffer(k.src)] = st.pos
      BY <1>4, <2>1, <2>2 DEF ActiveBuffer
    <2>10. QED
      BY <1>8, <2>1, <2>3, <2>7, <2>8, <2>9 DEF k
  <1>9. QED
    BY <1>7, <1>8, Constants

(* The file is wound back to the first frame of the part.                  *)
LEMMA RewoundFields ==
  ASSUME NEW k \in StreamRec, Lo(k) < k.size
  PROVE  LET r == Rewound(k)
         IN /\ SamePart(k, r) /\ r.src = k.src /\ r.used = k.used /\ r.from = k.from
            /\ r.feed = k.feed /\ r.open = k.open /\ r.pos = Lo(k)
            /\ SegmentSet(k) => r.sampleCount = 0
  <1> DEFINE r == Rewound(k)
  <1>1. k.pos \in Nat /\ k.start \in Nat /\ k.size \in Nat
    BY DEF StreamRec
  <1>2. Lo(k) = IF SegmentSet(k) THEN k.start ELSE 0
    BY PartFields
  <1>3. CASE SegmentSet(k)
    <2>1. k.start <= k.size
      BY <1>1, <1>2, <1>3
    <2>2. r = [k EXCEPT !.pos = k.start, !.sampleCount = 0]
      BY <1>3, <2>1 DEF Rewound
    <2> HIDE DEF r
    <2>3. QED
      BY <1>2, <1>3, <2>2 DEF StreamRec, SamePart, r
  <1>4. CASE ~SegmentSet(k)
    <2>1. r = [k EXCEPT !.pos = 0]
      BY <1>4 DEF Rewound
    <2> HIDE DEF r
    <2>2. QED
      BY <1>2, <1>4, <2>1 DEF StreamRec, SamePart, r
  <1>5. QED
    BY <1>3, <1>4

(* How the loop of stream_fillBuffers goes on, as in ReadFills.            *)
LEMMA ReadOrdered ==
  ASSUME NEW st, NEW b \in Buffers, NEW to, Fills(st, b, to), Ordered(st),
         NEW n \in 0 .. BufLen, n <= Readable(st), NEW error \in BOOLEAN,
         ~error => n = Readable(st) /\ st.open
  PROVE  LET k   == KeptOf(st, b, n)
             eof == (~error /\ n < BufLen) \/ (n > 0 /\ AtLimit(ReadInto(st, b, n)))
         IN /\ error => Ordered([k EXCEPT !.open = FALSE, !.failed = TRUE])
            /\ ~error /\ eof /\ "loop" \in st.src.mode => Ordered(Rewound(k))
            /\ ~error /\ eof /\ "loop" \notin st.src.mode =>
                 Ordered(IF SegmentSet(st) THEN [k EXCEPT !.feed = FALSE]
                                           ELSE [k EXCEPT !.open = FALSE])
            /\ ~error /\ ~eof => Ordered(k)
  <1> DEFINE k   == KeptOf(st, b, n)
             eof == (~error /\ n < BufLen) \/ (n > 0 /\ AtLimit(ReadInto(st, b, n)))
             reach == st.pos + Inside(st, n)
             After(e) == IF n = 0 THEN GoesOn(st, e) ELSE e = reach
             atLimit == SegmentSet(st) /\ st.sampleCount + n >= st.sampleLimit
  <1>1. st \in StreamRec /\ st.feed /\ st.open \in BOOLEAN
    BY DEF Fills, StreamSound, RingSide, StreamRec
  <1>2. st.open \/ n = 0
    BY Constants DEF Readable
  <1>3. /\ k \in StreamRec /\ SamePart(st, k)
        /\ k.pos = st.pos + n /\ k.sampleCount = st.sampleCount + n
        /\ k.feed /\ k.open = st.open /\ k.failed = st.failed
        /\ AtLimit(ReadInto(st, b, n)) <=> atLimit
    <2>1. ReadResult(st, b, n, k)
      BY <1>2, ReadFields
    <2> HIDE DEF k
    <2>2. QED
      BY <2>1 DEF ReadResult
  <1>4. \A i \in Pending(k.src) :
           /\ EndOf(k, i) <= Hi(st)
           /\ IF NextSlot(i) # k.src.qtail
              THEN Follows(st, EndOf(k, i), From(k, NextSlot(i)))
              ELSE After(EndOf(k, i))
           /\ st.open /\ n = Readable(st) =>
                k.used[k.src.bufferQueue[i]] = BufLen \/ EndOf(k, i) = Hi(st)
    BY ReadLinks
  <1>5. eof <=> (~error /\ n < BufLen) \/ (n > 0 /\ atLimit)
    BY <1>3
  <1>6. st.open =>
          /\ st.pos + n <= st.size /\ reach \in Nat
          /\ atLimit /\ n > 0 => reach = Hi(st)
          /\ ~atLimit => reach = st.pos + n
          /\ n = Readable(st) /\ n < BufLen =>
               /\ reach = Hi(st)
               /\ n = 0 => st.pos = Hi(st)
    BY ReadNumbers
  <1>7. st.open => /\ Lo(st) < st.size /\ st.pos <= st.size
                   /\ SegmentSet(st) => st.pos = st.start + st.sampleCount
    BY <1>1 DEF Ordered, Seated
  <1> HIDE DEF k, eof, reach, atLimit
  (* What is left to show of each outcome.                                 *)
  <1>8. ASSUME NEW r, SamePart(k, r), r.src = k.src, r.used = k.used, r.from = k.from,
               \A e : After(e) => GoesOn(r, e), Seated(r),
               Decoding(r) => st.open /\ n = Readable(st)
        PROVE  Ordered(r)
    <2>1. SamePart(st, r)
      BY <1>3, <1>8 DEF SamePart
    <2>2. \A i : EndOf(r, i) = EndOf(k, i) /\ From(r, i) = From(k, i)
      BY <1>8 DEF EndOf, From
    <2>3. Hi(r) = Hi(st) /\ \A e, f : Follows(st, e, f) <=> Follows(r, e, f)
      BY <2>1, SamePartSame
    <2> HIDE DEF After
    <2>4. Chain(r)
      <3>1. \A i \in Pending(r.src) : EndOf(r, i) <= Hi(r) /\ Linked(r, i)
        BY <1>4, <1>8, <2>2, <2>3 DEF Linked
      <3>2. \A i \in Pending(r.src) : Decoding(r) => Whole(r, i)
        BY <1>4, <1>8, <2>2, <2>3 DEF Whole
      <3>3. QED
        BY <3>1, <3>2 DEF Chain
    <2>5. QED
      BY <1>8, <2>4 DEF Ordered
  <1>9. ASSUME error PROVE Ordered([k EXCEPT !.open = FALSE, !.failed = TRUE])
    <2> DEFINE r == [k EXCEPT !.open = FALSE, !.failed = TRUE]
    <2>1. /\ SamePart(k, r) /\ r.src = k.src /\ r.used = k.used /\ r.from = k.from
          /\ ~r.open /\ r.failed
      BY <1>3 DEF StreamRec, SamePart
    <2> HIDE DEF r
    <2>2. Seated(r) /\ \A e : GoesOn(r, e)
      BY <2>1 DEF Seated, GoesOn, Decoding
    <2>3. Ordered(r)
      BY <1>8, <2>1, <2>2 DEF Decoding
    <2>4. QED
      BY <2>3 DEF r
  (* At the end of the part, all that is queued ends there.                *)
  <1>10. ASSUME ~error, eof, NEW e, After(e)
         PROVE  e = Hi(st)
    <2>1. st.open /\ n = Readable(st)
      BY <1>10
    <2>2. CASE n = 0
      <3>1. st.pos = Hi(st)
        BY <1>6, <2>1, <2>2, Constants
      <3>2. Follows(st, e, st.pos)
        BY <1>1, <1>10, <2>1, <2>2 DEF GoesOn, Decoding
      <3>3. QED
        BY <3>1, <3>2 DEF Follows
    <2>3. CASE n # 0
      <3>1. n > 0 /\ e = reach
        BY <1>10, <2>3, Constants
      <3>2. QED
        BY <1>5, <1>6, <1>10, <2>1, <3>1
    <2>4. QED
      BY <2>2, <2>3
  <1> HIDE DEF After
  <1>11. ASSUME ~error, eof, Looping(st) PROVE Ordered(Rewound(k))
    <2> DEFINE r == Rewound(k)
    <2>0. k.pos \in Nat /\ k.start \in Nat /\ k.size \in Nat
      BY <1>3 DEF StreamRec
    <2>1. /\ Lo(k) = Lo(st) /\ Hi(k) = Hi(st) /\ (SegmentSet(k) <=> SegmentSet(st))
          /\ Looping(k) /\ k.size = st.size
      BY <1>3, <1>11, SamePartSame DEF SamePart
    <2>2. Lo(k) = IF SegmentSet(k) THEN k.start ELSE 0
      BY <1>3, PartFields
    <2>3. Lo(k) < k.size
      BY <1>7, <1>11, <2>1
    <2>4. /\ SamePart(k, r) /\ r.src = k.src /\ r.used = k.used /\ r.from = k.from
          /\ r.feed = k.feed /\ r.open = k.open /\ r.pos = Lo(k)
          /\ SegmentSet(k) => r.sampleCount = 0
      BY <1>3, <2>3, RewoundFields
    <2> HIDE DEF r
    <2>5. Lo(r) = Lo(k) /\ Hi(r) = Hi(k) /\ Looping(r) /\ (SegmentSet(r) <=> SegmentSet(k))
      BY <2>1, <2>4, SamePartSame
    <2>6. Seated(r)
      BY <1>3, <2>0, <2>2, <2>3, <2>4, <2>5 DEF Seated, SamePart
    <2>7. \A e : After(e) => GoesOn(r, e)
      BY <1>3, <1>10, <1>11, <2>1, <2>4, <2>5 DEF GoesOn, Decoding, Follows
    <2>8. Ordered(r)
      BY <1>8, <1>11, <2>4, <2>6, <2>7
    <2>9. QED
      BY <2>8 DEF r
  <1>12. ASSUME ~error, eof, ~Looping(st)
         PROVE  Ordered(IF SegmentSet(st) THEN [k EXCEPT !.feed = FALSE]
                                          ELSE [k EXCEPT !.open = FALSE])
    <2> DEFINE r == IF SegmentSet(st) THEN [k EXCEPT !.feed = FALSE]
                                      ELSE [k EXCEPT !.open = FALSE]
    <2>1. /\ SamePart(k, r) /\ r.src = k.src /\ r.used = k.used /\ r.from = k.from
          /\ r.pos = k.pos /\ r.sampleCount = k.sampleCount
          /\ ~Decoding(r) /\ (SegmentSet(st) <=> r.open)
      BY <1>3, <1>12 DEF StreamRec, SamePart, Decoding
    <2> HIDE DEF r
    <2>2. SamePart(st, r)
      BY <1>3, <2>1 DEF SamePart
    <2>3. /\ Lo(r) = Lo(st) /\ Hi(r) = Hi(st) /\ ~Looping(r) /\ r.size = st.size
          /\ r.start = st.start
          /\ SegmentSet(r) <=> SegmentSet(st)
      BY <1>12, <2>2, SamePartSame DEF SamePart
    <2>4. \A e : After(e) => GoesOn(r, e)
      BY <1>10, <1>12, <2>1, <2>3 DEF GoesOn
    <2>5. Seated(r)
      <3> SUFFICES ASSUME r.open, r.sampleCount = 0
                   PROVE  /\ Lo(st) < st.size /\ r.pos <= st.size
                          /\ r.pos = st.start + r.sampleCount
                          /\ r.pos = Lo(st)
        BY <2>1, <2>3 DEF Seated, Decoding
      <3>1. /\ st.sampleCount \in Nat /\ st.start \in Nat /\ st.pos \in Nat
        BY <1>1 DEF StreamRec
      <3>2. n = 0 /\ st.sampleCount = 0
        BY <1>3, <2>1, <3>1, Constants
      <3>3. SegmentSet(st) /\ st.pos = st.start + st.sampleCount
        BY <1>7, <1>12, <2>1
      <3>4. Lo(st) = st.start
        BY <1>1, <3>3, PartFields
      <3>5. r.pos = st.pos
        BY <1>3, <2>1, <3>1, <3>2
      <3>6. QED
        BY <1>7, <1>12, <3>1, <3>2, <3>3, <3>4, <3>5
    <2>6. Ordered(r)
      BY <1>8, <2>1, <2>4, <2>5
    <2>7. QED
      BY <2>6 DEF r
  <1>13. ASSUME ~error, ~eof PROVE Ordered(k)
    <2>1. n > 0 /\ ~atLimit /\ st.open
      BY <1>5, <1>13, Constants
    <2>2. /\ Lo(k) = Lo(st) /\ Hi(k) = Hi(st) /\ k.size = st.size /\ k.start = st.start
          /\ SegmentSet(k) <=> SegmentSet(st)
      BY <1>3, SamePartSame DEF SamePart
    <2>3. /\ st.sampleCount \in Nat /\ st.start \in Nat /\ st.pos \in Nat
      BY <1>1 DEF StreamRec
    <2>4. Seated(k)
      BY <1>3, <1>6, <1>7, <2>1, <2>2, <2>3 DEF Seated
    <2>5. \A e : After(e) => e = k.pos
      BY <1>3, <1>6, <2>1 DEF After
    <2>6. \A e : After(e) => GoesOn(k, e)
      BY <1>3, <2>1, <2>5 DEF GoesOn, Decoding, Follows
    <2>7. SamePart(k, k)
      BY DEF SamePart
    <2>8. QED
      BY <1>8, <1>13, <2>1, <2>4, <2>6, <2>7
  <1>14. QED
    BY <1>9, <1>11, <1>12, <1>13 DEF k, eof, Looping

-----------------------------------------------------------------------------
(* A stream, from one step to the next                                     *)

HeardOf(st) == st.src.state = "playing" /\ Active(st.src)

(* What a step that is not heard may do to it, as in StreamTrack.          *)
Serves(a, b) ==
  \/ ~HeardOf(b)
  \/ NextFrame(b) = NextFrame(a) /\ PartOf(b) = PartOf(a)
  \/ ~HeardOf(a) /\ NextFrame(b) = Lo(b)

LEMMA NextFrameSame ==
  ASSUME NEW a, NEW b, Active(a.src) <=> Active(b.src),
         Active(a.src) => /\ a.from[ActiveBuffer(a.src)] = b.from[ActiveBuffer(b.src)]
                          /\ a.src.playPos = b.src.playPos
  PROVE  NextFrame(a) = NextFrame(b)
  BY DEF NextFrame

LEMMA TouchedServes ==
  ASSUME NEW st \in StreamRec, Ordered(st), NEW t, Touched(st.src, t), t.mode = st.src.mode
  PROVE  LET r == [st EXCEPT !.src = t]
         IN Ordered(r) /\ Serves(st, r)
  <1> DEFINE r == [st EXCEPT !.src = t]
  <1>1. t \in SourceRec /\ SameRing(st.src, t) /\ t.playPos = st.src.playPos
    BY DEF Touched
  <1>2. r.src = t /\ SameFile(st, r)
    BY <1>1, WithSource
  <1> HIDE DEF r
  <1>3. /\ Pending(t) = Pending(st.src) /\ (Active(t) <=> Active(st.src))
        /\ ActiveBuffer(t) = ActiveBuffer(st.src)
        /\ t.bufferQueue = st.src.bufferQueue /\ t.qtail = st.src.qtail
    BY <1>1, SameRingSame DEF SameRing
  <1>4. Ordered(r)
    BY <1>2, <1>3, SameFileOrdered
  <1>5. NextFrame(r) = NextFrame(st)
    BY <1>1, <1>2, <1>3, NextFrameSame DEF SameFile
  <1>6. PartOf(r) = PartOf(st)
    BY <1>2, SamePartSame DEF SameFile
  <1>7. QED
    BY <1>4, <1>5, <1>6 DEF r, Serves

LEMMA StoppedServes ==
  ASSUME NEW st \in StreamRec, Ordered(st), NEW a
  PROVE  Ordered(Stopped(st)) /\ Serves(a, Stopped(st))
  BY StoppedOrdered, StoppedFields DEF Serves, HeardOf

(* A stream that is at the start of its part, if its file is open.         *)
AtStart(st) == st.open => Lo(st) < st.size /\ st.pos = Lo(st)

LEMMA AtStartSeated ==
  ASSUME NEW st \in StreamRec, AtStart(st), st.sampleCount = 0
  PROVE  Seated(st)
  <1>1. /\ st.pos \in Nat /\ st.size \in Nat /\ st.start \in Nat
        /\ Lo(st) = IF SegmentSet(st) THEN st.start ELSE 0
    BY PartFields DEF StreamRec
  <1>2. QED
    BY <1>1 DEF AtStart, Seated

LEMMA PrimedOrdered ==
  ASSUME NEW st \in StreamRec, AtStart(st), st.sampleCount = 0, st.src.state # "playing"
  PROVE  LET r == [st EXCEPT !.src = Prime(@), !.feed = TRUE,
                             !.used = [b \in Buffers |-> 0],
                             !.from = [b \in Buffers |-> 0]]
         IN Ordered(r) /\ FromStart(r) /\ ~HeardOf(r)
  <1> DEFINE t == Prime(st.src)
             none == [b \in Buffers |-> 0]
             r == [st EXCEPT !.src = t, !.feed = TRUE, !.used = none, !.from = none]
  <1>1. t \in SourceRec /\ ~Active(t) /\ t.state # "playing" /\ t.mode = st.src.mode
    BY PrimedRing DEF StreamRec
  <1>2. none \in [Buffers -> 0 .. BufLen] /\ none \in [Buffers -> Nat]
    BY Constants
  <1> HIDE DEF t, none
  <1>3. /\ r \in StreamRec /\ r.src = t /\ r.sampleCount = 0 /\ r.open = st.open
        /\ r.pos = st.pos /\ SamePart(st, r)
    BY <1>1, <1>2 DEF StreamRec, SamePart
  <1> HIDE DEF r
  <1>4. AtStart(r) /\ Lo(r) = Lo(st)
    BY <1>3, SamePartSame DEF AtStart, SamePart
  <1>5. Chain(r)
    BY <1>1, <1>3 DEF Chain, Pending
  <1>6. Ordered(r)
    BY <1>3, <1>4, <1>5, AtStartSeated DEF Ordered
  <1>7. FromStart(r) /\ ~HeardOf(r)
    BY <1>1, <1>3, <1>4 DEF FromStart, AtStart, HeardOf
  <1>8. QED
    BY <1>6, <1>7 DEF r, t, none

(* stream_start ends: the stream is heard from the start of its part.      *)
LEMMA StartedServes ==
  ASSUME NEW st, StreamSound(st), FilledFor(st, "wait"), Ordered(st), FromStart(st),
         NEW a, ~HeardOf(a)
  PROVE  Ordered(Started(st)) /\ Serves(a, Started(st))
  <1>1. CASE st.sampleCount = 0
    <2>1. Started(st) = st
      BY <1>1 DEF Started
    <2>2. ~HeardOf(st)
      BY DEF FilledFor, HeardOf
    <2>3. QED
      BY <2>1, <2>2 DEF Serves
  <1>2. CASE st.sampleCount # 0
    <2> DEFINE t == [st.src EXCEPT !.state = "playing", !.playPos = 0, !.framesOut = 0]
               r == [st EXCEPT !.src = t]
    <2>1. Started(st) = r
      BY <1>2 DEF Started
    <2>2. st \in StreamRec /\ st.src \in SourceRec /\ Active(st.src)
      BY <1>2 DEF StreamSound, RingSide, StreamRec, FilledFor
    <2>3. /\ t \in SourceRec /\ SameRing(st.src, t) /\ t.mode = st.src.mode
          /\ t.playPos = 0
      BY <2>2 DEF SourceRec, States, SameRing
    <2> HIDE DEF t
    <2>4. r.src = t /\ SameFile(st, r)
      BY <2>2, <2>3, WithSource
    <2> HIDE DEF r
    <2>5. /\ Pending(t) = Pending(st.src) /\ Active(t)
          /\ ActiveBuffer(t) = ActiveBuffer(st.src)
          /\ t.bufferQueue = st.src.bufferQueue /\ t.qtail = st.src.qtail
      BY <2>2, <2>3, SameRingSame DEF SameRing
    <2>6. Ordered(r)
      BY <2>4, <2>5, SameFileOrdered
    <2>7. r.from[ActiveBuffer(t)] = Lo(r) /\ Lo(r) = Lo(st) /\ Lo(st) \in Nat
      BY <2>2, <2>4, <2>5, SamePartSame, PartFields DEF SameFile, FromStart
    <2>8. NextFrame(r) = Lo(r)
      BY <2>3, <2>4, <2>5, <2>7 DEF NextFrame
    <2>9. QED
      BY <2>1, <2>6, <2>8 DEF Serves
  <1>3. QED
    BY <1>1, <1>2

(* What is queued leaves the current buffer and the position.              *)
LEMMA ReadSource ==
  ASSUME NEW st, NEW b \in Buffers, NEW to, Fills(st, b, to),
         NEW n \in 0 .. BufLen, n <= Readable(st)
  PROVE  LET k == KeptOf(st, b, n)
         IN /\ k.src.playPos = st.src.playPos
            /\ n > 0 => Active(k.src) /\ st.open
  <1> DEFINE k == KeptOf(st, b, n)
  <1>1. st.src \in SourceRec /\ RingOK(st.src) /\ HasPlace(st.src, b)
    BY Constants DEF Fills, StreamSound, RingSide, StreamRec
  <1>2. st.open \/ n = 0
    BY Constants DEF Readable
  <1>3. /\ n = 0 => k.src = st.src
        /\ n > 0 => k.src = QueueBuffer(st.src, b)
    <2>1. ReadResult(st, b, n, k)
      BY <1>2, ReadFields
    <2> HIDE DEF k
    <2>2. QED
      BY <2>1 DEF ReadResult
  <1> HIDE DEF k
  <1>4. CASE n = 0
    BY <1>3, <1>4 DEF k
  <1>5. CASE n > 0
    <2>1. Active(k.src) /\ k.src.playPos = st.src.playPos
      BY <1>1, <1>3, <1>5, QueuedRing
    <2>2. QED
      BY <1>2, <1>5, <2>1 DEF k
  <1>6. QED
    BY <1>4, <1>5, Constants

(* What a call of _readOgg and what follows it do for the listener: the    *)
(* stream that is started begins with its part, and nothing is changed     *)
(* for the one that is heard.                                              *)
Tracks(st, to, r) ==
  /\ Ordered(r)
  /\ to = "wait" /\ FromStart(st) => FromStart(r)
  /\ to = "collect" => Serves(st, r)

LEMMA ReadTracks ==
  ASSUME NEW st, NEW b \in Buffers, NEW to, Fills(st, b, to), Ordered(st),
         NEW n \in 0 .. BufLen, n <= Readable(st), NEW error \in BOOLEAN,
         ~error => n = Readable(st) /\ st.open
  PROVE  LET k   == KeptOf(st, b, n)
             eof == (~error /\ n < BufLen) \/ (n > 0 /\ AtLimit(ReadInto(st, b, n)))
         IN /\ error => Tracks(st, to, [k EXCEPT !.open = FALSE, !.failed = TRUE])
            /\ ~error /\ eof /\ "loop" \in st.src.mode => Tracks(st, to, Rewound(k))
            /\ ~error /\ eof /\ "loop" \notin st.src.mode =>
                 Tracks(st, to, IF SegmentSet(st) THEN [k EXCEPT !.feed = FALSE]
                                                  ELSE [k EXCEPT !.open = FALSE])
            /\ ~error /\ ~eof => Tracks(st, to, k)
  <1> DEFINE k   == KeptOf(st, b, n)
             eof == (~error /\ n < BufLen) \/ (n > 0 /\ AtLimit(ReadInto(st, b, n)))
             end == IF SegmentSet(st) THEN [k EXCEPT !.feed = FALSE]
                                      ELSE [k EXCEPT !.open = FALSE]
  <1>1. st \in StreamRec /\ st.open \in BOOLEAN
    BY DEF Fills, StreamSound, RingSide, StreamRec
  <1>2. st.open \/ n = 0
    BY Constants DEF Readable
  <1>3. k \in StreamRec /\ SamePart(st, k) /\ k.pos = st.pos + n /\ k.open = st.open
    <2>1. ReadResult(st, b, n, k)
      BY <1>2, ReadFields
    <2> HIDE DEF k
    <2>2. QED
      BY <2>1 DEF ReadResult
  <1>4. /\ Active(st.src) => /\ Active(k.src)
                             /\ k.from[ActiveBuffer(k.src)] = st.from[ActiveBuffer(st.src)]
        /\ ~Active(st.src) /\ Active(k.src) =>
             n > 0 /\ k.from[ActiveBuffer(k.src)] = st.pos
    BY ReadLinks
  <1>5. k.src.playPos = st.src.playPos /\ (n > 0 => Active(k.src) /\ st.open)
    BY ReadSource
  <1>6. /\ error => Ordered([k EXCEPT !.open = FALSE, !.failed = TRUE])
        /\ ~error /\ eof /\ "loop" \in st.src.mode => Ordered(Rewound(k))
        /\ ~error /\ eof /\ "loop" \notin st.src.mode => Ordered(end)
        /\ ~error /\ ~eof => Ordered(k)
    BY ReadOrdered, Zenon
  <1>7. to = "collect" => Active(st.src)
    BY DEF Fills, FilledFor, StreamSound, RingSide
  <1>8. st.open => Lo(st) < st.size
    BY DEF Fills, Ordered, Seated
  <1> HIDE DEF k, eof, end
  <1>9. ASSUME NEW r, Ordered(r), SamePart(k, r), r.src = k.src, r.from = k.from,
               ~Active(k.src) /\ r.open => r.pos = Lo(r) \/ (st.open /\ r.pos = k.pos)
        PROVE  Tracks(st, to, r)
    <2>1. SamePart(st, r) /\ Lo(r) = Lo(st) /\ PartOf(r) = PartOf(st)
      BY <1>3, <1>9, SamePartSame DEF SamePart
    <2>2. ASSUME to = "wait", FromStart(st) PROVE FromStart(r)
      <3>1. CASE Active(k.src)
        BY <1>4, <1>5, <1>9, <2>1, <2>2, <3>1 DEF FromStart
      <3>2. CASE ~Active(k.src)
        <4>1. n = 0 /\ ~Active(st.src)
          BY <1>4, <1>5, <3>2, Constants
        <4>2. st.pos \in Nat /\ k.pos = st.pos
          BY <1>1, <1>3, <4>1 DEF StreamRec
        <4>3. QED
          BY <1>9, <2>1, <2>2, <3>2, <4>1, <4>2 DEF FromStart
      <3>3. QED
        BY <3>1, <3>2
    <2>3. ASSUME to = "collect" PROVE Serves(st, r)
      <3>1. NextFrame(r) = NextFrame(st)
        BY <1>4, <1>5, <1>7, <1>9, <2>3, NextFrameSame
      <3>2. QED
        BY <2>1, <3>1 DEF Serves
    <2>4. QED
      BY <1>9, <2>2, <2>3 DEF Tracks
  <1>10. ASSUME error PROVE Tracks(st, to, [k EXCEPT !.open = FALSE, !.failed = TRUE])
    <2> DEFINE r == [k EXCEPT !.open = FALSE, !.failed = TRUE]
    <2>1. SamePart(k, r) /\ r.src = k.src /\ r.from = k.from /\ ~r.open
      BY <1>3 DEF StreamRec, SamePart
    <2>2. Ordered(r)
      BY <1>6, <1>10
    <2> HIDE DEF r
    <2>3. Tracks(st, to, r)
      BY <1>9, <2>1, <2>2
    <2>4. QED
      BY <2>3 DEF r
  <1>11. ASSUME ~error, eof, "loop" \in st.src.mode PROVE Tracks(st, to, Rewound(k))
    <2> DEFINE r == Rewound(k)
    <2>1. Lo(k) < k.size
      BY <1>3, <1>8, <1>11, SamePartSame DEF SamePart
    <2>2. SamePart(k, r) /\ r.src = k.src /\ r.from = k.from /\ r.pos = Lo(k)
      BY <1>3, <2>1, RewoundFields
    <2>3. Ordered(r)
      BY <1>6, <1>11
    <2> HIDE DEF r
    <2>4. Lo(r) = Lo(k)
      BY <2>2, SamePartSame
    <2>5. Tracks(st, to, r)
      BY <1>9, <2>2, <2>3, <2>4
    <2>6. QED
      BY <2>5 DEF r
  <1>12. ASSUME ~error, eof, "loop" \notin st.src.mode PROVE Tracks(st, to, end)
    <2>1. SamePart(k, end) /\ end.src = k.src /\ end.from = k.from /\ end.pos = k.pos
      BY <1>3 DEF StreamRec, SamePart, end
    <2>2. Ordered(end)
      BY <1>6, <1>12
    <2>3. QED
      BY <1>9, <1>12, <2>1, <2>2
  <1>13. ASSUME ~error, ~eof PROVE Tracks(st, to, k)
    <2>1. SamePart(k, k) /\ st.open /\ Ordered(k)
      BY <1>6, <1>13 DEF SamePart
    <2>2. QED
      BY <1>9, <2>1
  <1>14. QED
    BY <1>10, <1>11, <1>12, <1>13 DEF k, eof, end

-----------------------------------------------------------------------------
(* Listening                                                               *)

(* The play position goes on in the buffer, to the next one or to the end. *)
LEMMA AdvanceHeard ==
  ASSUME NEW src \in SourceRec, RingOK(src), Active(src), NEW n \in Nat,
         NEW frames \in [Buffers -> 0 .. BufLen]
  PROVE  LET t == Advance(src, n, frames, Buffers, FALSE)
         IN /\ t \in SourceRec /\ t.mode = src.mode /\ t.endPos = src.endPos
            /\ t.bufferQueue = src.bufferQueue /\ t.qtail = src.qtail
            /\ Pending(t) \subseteq Pending(src)
            /\ \/ /\ ~Active(t)
                  /\ ReachesEnd(src, n) \/ (PlaysOut(src, n, frames) /\ AtQueueEnd(src))
               \/ /\ Active(t) /\ ~ReachesEnd(src, n)
                  /\ t.framesOut = src.framesOut + n /\ t.state = src.state
                  /\ \/ /\ ~PlaysOut(src, n, frames)
                        /\ t.qactive = src.qactive /\ t.playPos = src.playPos + n
                     \/ /\ PlaysOut(src, n, frames) /\ ~AtQueueEnd(src)
                        /\ t.qactive = NextSlot(src.qactive) /\ t.playPos = 0
  <1> DEFINE k == src.framesOut + n
             moved == [src EXCEPT !.framesOut = @ + n]
             armed == [ArmFade(src, n) EXCEPT !.framesOut = @ + n]
             gone == [armed EXCEPT !.playPos = @ + n]
             rewound == [armed EXCEPT !.playPos = 0]
             next == [rewound EXCEPT !.qactive = NextSlot(@)]
             Kept(r) == /\ r \in SourceRec /\ r.mode = src.mode /\ r.endPos = src.endPos
                        /\ r.bufferQueue = src.bufferQueue /\ r.qtail = src.qtail
             Moved(r) == Kept(r) /\ r.framesOut = k /\ r.state = src.state
             t == Advance(src, n, frames, Buffers, FALSE)
  <1>1. /\ src.framesOut \in Nat /\ src.playPos \in Nat /\ k \in Nat
        /\ src.volume \in Nat /\ src.fadePeriod \in Nat \ {0}
        /\ src.playPos + n \in Nat
        /\ src.qactive \in Slots /\ src.qtail \in Slots
    BY DEF SourceRec, Active
  <1>2. Kept(moved)
    BY <1>1 DEF SourceRec
  <1>3. Moved(armed) /\ armed.playPos = src.playPos /\ armed.qactive = src.qactive
    <2> DEFINE a == ArmFade(src, n)
    <2>1. -FadeDelta(src) \in Int
      BY <1>1 DEF FadeDelta
    <2>2. /\ Kept(a) /\ a.framesOut = src.framesOut
          /\ a.playPos = src.playPos /\ a.qactive = src.qactive /\ a.state = src.state
      BY <2>1 DEF ArmFade, StartFadeOut, SourceRec
    <2>3. armed = [a EXCEPT !.framesOut = k]
      BY <2>2
    <2> HIDE DEF a, armed, k
    <2>4. QED
      BY <1>1, <2>2, <2>3 DEF SourceRec
  <1> HIDE DEF moved, armed, k
  <1>4. Moved(rewound) /\ rewound.playPos = 0 /\ rewound.qactive = src.qactive
    BY <1>3 DEF SourceRec
  <1>5. Moved(gone) /\ gone.playPos = src.playPos + n /\ gone.qactive = src.qactive
    BY <1>1, <1>3 DEF SourceRec
  <1>6. ASSUME NEW r, Kept(r)
        PROVE  Kept(EndPlay(r)) /\ ~Active(EndPlay(r)) /\ Pending(EndPlay(r)) = {}
    BY <1>6 DEF EndPlay, SourceRec, States, Active, Pending
  <1> HIDE DEF rewound, gone
  <1>7. NextSlot(src.qactive) \in Slots
    BY <1>1, Constants DEF NextSlot, Slots
  <1>8. Moved(next) /\ next.playPos = 0 /\ next.qactive = NextSlot(src.qactive)
    BY <1>4, <1>7 DEF SourceRec
  <1> HIDE DEF next
  <1>9. CASE ReachesEnd(src, n)
    <2>1. t = EndPlay(moved)
      BY <1>9 DEF Advance, moved
    <2> HIDE DEF t
    <2>2. QED
      BY <1>2, <1>6, <1>9, <2>1 DEF t
  <1>10. CASE ~ReachesEnd(src, n) /\ ~PlaysOut(src, n, frames)
    <2>1. t = gone
      BY <1>10 DEF Advance, gone, armed
    <2> HIDE DEF t
    <2>2. Pending(t) \subseteq Pending(src) /\ Active(t)
      BY <1>5, <2>1 DEF Pending, Active
    <2>3. QED
      BY <1>5, <1>10, <2>1, <2>2 DEF t, k
  <1>11. CASE ~ReachesEnd(src, n) /\ PlaysOut(src, n, frames) /\ AtQueueEnd(src)
    <2>1. Finishes(src, n, frames, Buffers, FALSE)
      BY <1>11 DEF Finishes, Loops
    <2>2. t = EndPlay(rewound)
      BY <1>11, <2>1 DEF Advance, rewound, armed
    <2> HIDE DEF t
    <2>3. QED
      BY <1>4, <1>6, <1>11, <2>2 DEF t
  <1>12. CASE ~ReachesEnd(src, n) /\ PlaysOut(src, n, frames) /\ ~AtQueueEnd(src)
    <2>1. NextSlot(src.qactive) # src.qtail
      BY <1>12 DEF AtQueueEnd
    <2>2. src.bufferQueue[NextSlot(src.qactive)] \in Buffers
      BY <2>1, NextInRing DEF RingOK
    <2>3. ~Finishes(src, n, frames, Buffers, FALSE)
      BY <1>12, <2>2 DEF Finishes
    <2>4. t = next
      BY <1>12, <2>3 DEF Advance, next, rewound, armed
    <2> HIDE DEF t
    <2>5. Pending(t) \subseteq Pending(src) /\ Active(t)
      <3>1. PICK a \in Slots, z \in Slots, e \in Slots :
              a = src.qactive /\ z = NextSlot(a) /\ e = src.qtail
        BY <1>1, <1>7
      <3>2. \A i \in Slots : (IF z < e THEN i \in z .. e - 1 ELSE i >= z \/ i < e)
                          => (IF a < e THEN i \in a .. e - 1 ELSE i >= a \/ i < e)
        BY <2>1, <3>1, Constants DEF Slots, NextSlot
      <3>3. t.qactive = z /\ t.qtail = e /\ z # QNone
        BY <1>8, <2>4, <3>1, Constants
      <3>4. QED
        BY <3>1, <3>2, <3>3 DEF Pending, Active
    <2>6. QED
      BY <1>8, <1>12, <2>4, <2>5 DEF t, k
  <1>13. QED
    BY <1>9, <1>10, <1>11, <1>12

LeftOf(st) == st.src.endPos - st.src.framesOut

(* n more frames of a stream are heard, or they were the last.             *)
Hears(a, b, n) ==
  /\ HeardOf(b) /\ PartOf(b) = PartOf(a)
  /\ n < LeftOf(a) /\ LeftOf(b) = LeftOf(a) - n
  /\ \/ NextFrame(a) + n < Hi(a) /\ NextFrame(b) = NextFrame(a) + n
     \/ NextFrame(a) + n = Hi(a) /\ Looping(a) /\ NextFrame(b) = Lo(a)

Ends(a, b, n) ==
  /\ ~HeardOf(b)
  /\ \/ n >= LeftOf(a)
     \/ NextFrame(a) + n = Hi(a) /\ ~Looping(a)
     \/ a.failed

LEMMA PassOrdered ==
  ASSUME NEW st, Rests(st), Ordered(st), Active(st.src), NEW n \in Nat
  PROVE  LET r == [st EXCEPT !.src = Advance(@, n, st.used, Buffers, FALSE)]
         IN Ordered(r) /\ (HeardOf(r) => HeardOf(st))
  <1> DEFINE t == Advance(st.src, n, st.used, Buffers, FALSE)
             r == [st EXCEPT !.src = t]
  <1>1. /\ st \in StreamRec /\ st.src \in SourceRec /\ RingOK(st.src)
        /\ st.used \in [Buffers -> 0 .. BufLen]
    BY DEF Rests, StreamSound, RingSide, StreamRec
  <1>2. /\ t \in SourceRec /\ t.mode = st.src.mode
        /\ t.bufferQueue = st.src.bufferQueue /\ t.qtail = st.src.qtail
        /\ Pending(t) \subseteq Pending(st.src)
        /\ Active(t) => t.state = st.src.state
    BY <1>1, AdvanceHeard
  <1> HIDE DEF t
  <1>3. r.src = t /\ SameFile(st, r)
    BY <1>1, <1>2, WithSource
  <1> HIDE DEF r
  <1>4. Ordered(r) /\ (HeardOf(r) => HeardOf(st))
    BY <1>2, <1>3, SameFileOrdered DEF HeardOf
  <1>5. QED
    BY <1>4 DEF r, t

LEMMA PassListens ==
  ASSUME NEW st, Rests(st), Ordered(st), HeardOf(st), NEW n \in Nat,
         n <= SamplesAvail(st.src, st.used),
         Decoding(st) /\ AtQueueEnd(st.src) =>
           st.used[ActiveBuffer(st.src)] - st.src.playPos > n
  PROVE  LET r == [st EXCEPT !.src = Advance(@, n, st.used, Buffers, FALSE)]
         IN Hears(st, r, n) \/ Ends(st, r, n)
  <1> DEFINE src == st.src
             t == Advance(src, n, st.used, Buffers, FALSE)
             r == [st EXCEPT !.src = t]
             i == src.qactive
  <1>1. /\ st \in StreamRec /\ src \in SourceRec /\ RingOK(src) /\ Active(src)
        /\ st.used \in [Buffers -> 0 .. BufLen] /\ st.from \in [Buffers -> Nat]
        /\ src.state = "playing" /\ PendingOK(st)
    BY DEF Rests, StreamSound, RingSide, StreamRec, HeardOf
  <1>2. /\ t \in SourceRec /\ t.mode = src.mode /\ t.endPos = src.endPos
        /\ t.bufferQueue = src.bufferQueue
        /\ \/ /\ ~Active(t)
              /\ ReachesEnd(src, n) \/ (PlaysOut(src, n, st.used) /\ AtQueueEnd(src))
           \/ /\ Active(t) /\ ~ReachesEnd(src, n)
              /\ t.framesOut = src.framesOut + n /\ t.state = src.state
              /\ \/ /\ ~PlaysOut(src, n, st.used)
                    /\ t.qactive = i /\ t.playPos = src.playPos + n
                 \/ /\ PlaysOut(src, n, st.used) /\ ~AtQueueEnd(src)
                    /\ t.qactive = NextSlot(i) /\ t.playPos = 0
    BY <1>1, AdvanceHeard
  <1> HIDE DEF t
  <1>3. r.src = t /\ SameFile(st, r)
    BY <1>1, <1>2, WithSource
  <1> HIDE DEF r
  <1>4. PartOf(r) = PartOf(st)
    BY <1>3, SamePartSame DEF SameFile
  <1>5. Chain(st)
    BY <1>1 DEF Ordered, Rests, StreamSound, FileSide
  <1>6. /\ i \in Pending(src) /\ i \in Slots /\ ActiveBuffer(src) = src.bufferQueue[i]
        /\ ActiveBuffer(src) \in Buffers
    BY <1>1, PendingInRing DEF ActiveBuffer, RingOK
  <1>7. EndOf(st, i) <= Hi(st) /\ Linked(st, i)
    BY <1>5, <1>6 DEF Chain
  (* The numbers: the first frame and the length of the current buffer,    *)
  (* the position in it, and those of the end time.                        *)
  <1>8. PICK f \in Nat, u \in Nat, p \in Nat, o \in Nat, e \in Nat, h \in Nat :
          /\ f = From(st, i) /\ u = st.used[ActiveBuffer(src)] /\ p = src.playPos
          /\ o = src.framesOut /\ e = src.endPos /\ h = Hi(st)
    <2>1. From(st, i) \in Nat /\ st.used[ActiveBuffer(src)] \in Nat
      BY <1>1, <1>6, Constants DEF From
    <2>2. src.playPos \in Nat /\ src.framesOut \in Nat /\ src.endPos \in Nat /\ Hi(st) \in Nat
      BY <1>1, PartFields DEF SourceRec
    <2>3. QED
      BY <2>1, <2>2
  <1>9. /\ NextFrame(st) = f + p /\ EndOf(st, i) = f + u
        /\ LeftOf(st) = e - o
        /\ ReachesEnd(src, n) <=> o + n >= e
        /\ PlaysOut(src, n, st.used) <=> p + n >= u
    BY <1>1, <1>6, <1>8 DEF NextFrame, EndOf, From, LeftOf, ReachesEnd, PlaysOut
  <1>10. p < u /\ p + n <= u
    <2>1. p < u
      BY <1>1, <1>8 DEF Rests, StreamSound, RingSide, Sounding
    <2>2. PICK d \in Nat : d = u - p
      BY <2>1
    <2>3. n <= d % Wrap
      BY <1>8, <2>2, Zenon DEF SamplesAvail
    <2>4. Wrap \in Nat \ {0}
      BY SourceAssumption
    <2>5. d % Wrap <= d /\ d % Wrap \in Nat
      BY <2>4
    <2>6. n <= d
      BY <2>3, <2>5
    <2>7. QED
      BY <2>1, <2>2, <2>6
  <1> HIDE DEF i
  <1>11. CASE ~Active(t)
    <2>1. ~HeardOf(r)
      BY <1>3, <1>11 DEF HeardOf
    <2>2. CASE ReachesEnd(src, n)
      <3>1. n >= LeftOf(st)
        BY <1>8, <1>9, <2>2
      <3>2. QED
        BY <2>1, <3>1 DEF Ends, r, t
    <2>3. CASE ~ReachesEnd(src, n)
      <3>1. p + n >= u /\ AtQueueEnd(src)
        BY <1>2, <1>9, <1>11, <2>3
      <3>2. ~Decoding(st)
        BY <1>8, <3>1
      <3>3. st.failed \/ (f + u = Hi(st) /\ ~Looping(st))
        BY <1>7, <1>9, <3>1, <3>2 DEF Linked, GoesOn, AtQueueEnd, i
      <3>4. f + u = NextFrame(st) + n
        BY <1>9, <1>10, <3>1
      <3>5. QED
        BY <2>1, <3>3, <3>4 DEF Ends, r, t
    <2>4. QED
      BY <2>2, <2>3
  <1>12. CASE Active(t)
    <2>1. HeardOf(r)
      BY <1>1, <1>2, <1>3, <1>12 DEF HeardOf
    <2>2. n < LeftOf(st) /\ LeftOf(r) = LeftOf(st) - n
      <3>1. LeftOf(r) = e - (o + n)
        BY <1>2, <1>3, <1>8, <1>12 DEF LeftOf
      <3>2. QED
        BY <1>2, <1>9, <1>12, <3>1
    <2>3. \/ NextFrame(st) + n < Hi(st) /\ NextFrame(r) = NextFrame(st) + n
          \/ NextFrame(st) + n = Hi(st) /\ Looping(st) /\ NextFrame(r) = Lo(st)
      <3>1. NextFrame(r) = From(st, t.qactive) + t.playPos
        BY <1>2, <1>3, <1>12 DEF NextFrame, ActiveBuffer, From, SameFile
      <3>2. CASE ~PlaysOut(src, n, st.used)
        <4>1. t.qactive = i /\ t.playPos = p + n
          BY <1>2, <1>8, <1>12, <3>2
        <4>2. NextFrame(r) = f + (p + n)
          BY <1>8, <3>1, <4>1
        <4>3. p + n < u /\ f + u <= h
          BY <1>7, <1>8, <1>9, <3>2
        <4>4. f + p + n < h /\ f + (p + n) = f + p + n
          BY <4>3
        <4>5. QED
          BY <1>8, <1>9, <4>2, <4>4
      <3>3. CASE PlaysOut(src, n, st.used)
        <4>1. t.qactive = NextSlot(i) /\ t.playPos = 0 /\ NextSlot(i) # src.qtail
          BY <1>2, <1>12, <3>3 DEF AtQueueEnd, i
        <4>2. NextSlot(i) \in Pending(src) /\ NextSlot(i) \in Slots
          BY <1>1, <1>6, <4>1, NextIsPending, RingSlots
        <4>3. src.bufferQueue[NextSlot(i)] \in Buffers
          BY <1>1, <4>2, PendingInRing DEF RingOK
        <4>4. PICK g \in Nat, v \in Nat :
                g = From(st, NextSlot(i)) /\ v = st.used[src.bufferQueue[NextSlot(i)]]
          BY <1>1, <4>3, Constants DEF From
        <4>5. v > 0 /\ g + v <= h
          BY <1>1, <1>5, <1>8, <4>2, <4>4 DEF PendingOK, Chain, EndOf
        <4>6. NextFrame(r) = g
          BY <3>1, <4>1, <4>4
        <4>7. f + p + n = f + u
          BY <1>9, <1>10, <3>3
        <4>8. g = f + u \/ (f + u = h /\ Looping(st) /\ g = Lo(st))
          BY <1>7, <1>8, <1>9, <4>1, <4>4 DEF Linked, Follows
        <4>9. g < h
          BY <4>5
        <4>10. QED
          BY <1>8, <1>9, <4>6, <4>7, <4>8, <4>9
      <3>4. QED
        BY <3>2, <3>3
    <2>4. QED
      BY <1>4, <2>1, <2>2, <2>3 DEF Hears, r, t
  <1>13. QED
    BY <1>11, <1>12

-----------------------------------------------------------------------------
(* The steps of StreamTrack                                                *)

LEMMA TrackServes ==
  ASSUME phase # "mix", phase' # "mix",
         \A s \in Streams : Serves(stream[s], stream'[s])
  PROVE  Track!Serve
  <1>1. ASSUME NEW s \in Streams
        PROVE  Track!Keep(s) \/ Track!Begin(s) \/ Track!Turn(s) \/ Track!Quiet(s)
    BY DEF Serves, HeardOf, Heard, Lo, Track!Keep, Track!Begin, Track!Turn, Track!Quiet
  <1>2. QED
    BY <1>1 DEF Track!Serve

LEMMA TrackReady ==
  ASSUME phase = "mix" <=> phase' # "mix", UNCHANGED stream
  PROVE  Track!Ready
  BY DEF Track!Ready, Track!Keep, Heard

LEMMA TrackListens ==
  ASSUME phase = "mix", NEW n \in 0 .. MixLen,
         \A s \in Streams : IF Heard(s)
                            THEN Hears(stream[s], stream'[s], n) \/ Ends(stream[s], stream'[s], n)
                            ELSE ~HeardOf(stream'[s])
  PROVE  Track!Listen
  <1>1. ASSUME NEW s \in Streams, Heard(s)
        PROVE  Track!Hear(s, n) \/ Track!End(s, n)
    BY <1>1 DEF Hears, Ends, HeardOf, Heard, Lo, Hi, Looping, LeftOf, PartOf, Track!Hear, Track!End
  <1>2. QED
    BY <1>1 DEF Track!Listen, HeardOf, Heard

-----------------------------------------------------------------------------
(* The commands                                                            *)

LEMMA OneStream ==
  ASSUME RingInv, TrackInv, NEW s \in Streams, NEW r,
         stream' = [stream EXCEPT ![s] = r], Ordered(r), Serves(stream[s], r)
  PROVE  /\ stream'[s] = r
         /\ \A q \in Streams : /\ q # s => stream'[q] = stream[q]
                               /\ Ordered(stream'[q]) /\ Serves(stream[q], stream'[q])
  <1>1. \A q \in Streams : stream'[q] = IF q = s THEN r ELSE stream[q]
    BY DEF RingInv, ControlOK
  <1>2. \A q \in Streams : Ordered(stream[q]) /\ Serves(stream[q], stream[q])
    BY DEF TrackInv, OrderedOK, Serves
  <1>3. QED
    BY <1>1, <1>2

LEMMA RestingTracks ==
  ASSUME TrackInv, phase = "wait", UNCHANGED <<phase, at>>,
         \A s \in Streams : Ordered(stream'[s]) /\ Serves(stream[s], stream'[s])
  PROVE  TrackInv' /\ Track!Serve
  <1>1. OrderedOK' /\ MixingOK'
    BY DEF TrackInv, OrderedOK, MixingOK, Filling
  <1>2. QED
    BY <1>1, TrackServes DEF TrackInv

LEMMA StartTracks ==
  ASSUME RingInv, TrackInv, NEW s \in Streams, NEW st \in StreamRec, phase = "wait",
         AtStart(st), st.sampleCount = 0, st.src.state # "playing", StartStream(s, st)
  PROVE  TrackInv' /\ Track!Serve
  <1> DEFINE r == [st EXCEPT !.src = Prime(@), !.feed = TRUE,
                             !.used = [b \in Buffers |-> 0],
                             !.from = [b \in Buffers |-> 0]]
  <1>1. Ordered(r) /\ FromStart(r) /\ ~HeardOf(r)
    BY PrimedOrdered, Zenon
  <1>2. stream' = [stream EXCEPT ![s] = r]
    BY Zenon DEF StartStream
  <1> HIDE DEF r
  <1>3. phase' = "fill" /\ back' = "wait" /\ at' = s
    BY DEF StartStream, BeginFill
  <1>4. Serves(stream[s], r)
    BY <1>1 DEF Serves
  <1>5. /\ stream'[s] = r
        /\ \A q \in Streams : Ordered(stream'[q]) /\ Serves(stream[q], stream'[q])
    BY <1>1, <1>2, <1>4, OneStream
  <1>6. OrderedOK' /\ MixingOK'
    BY <1>1, <1>3, <1>5 DEF OrderedOK, MixingOK, Filling
  <1>7. QED
    BY <1>3, <1>5, <1>6, TrackServes DEF TrackInv

LEMMA PlayStreamTracks ==
  ASSUME RingInv, TrackInv, NEW s \in Streams, NEW size \in FileSizes[s],
         NEW mode \in StreamModes[s], PlayStream(s, size, mode)
  PROVE  TrackInv' /\ Track!Serve
  <1>1. PICK st \in StreamRec :
           /\ phase = "wait"
           /\ IF mode \cap {"once", "loop"} # {}
              THEN StartStream(s, st)
              ELSE stream' = [stream EXCEPT ![s] = st] /\ UNCHANGED <<phase, at, taken, back>>
           /\ st.src.state # "playing" /\ ~st.feed /\ st.sampleCount = 0
           /\ st.open /\ st.size = size /\ st.pos = 0 /\ st.sampleLimit = 0
    BY OpenedStream
  <1>2. AtStart(st)
    <2>1. size \in Nat /\ size > 0
      BY StreamAssumption
    <2>2. Lo(st) = 0
      BY <1>1, PartFields DEF SegmentSet
    <2>3. QED
      BY <1>1, <2>1, <2>2 DEF AtStart
  <1>3. CASE mode \cap {"once", "loop"} # {}
    BY <1>1, <1>2, <1>3, StartTracks
  <1>4. CASE mode \cap {"once", "loop"} = {}
    <2>1. Ordered(st)
      BY <1>1, <1>2, AtStartSeated DEF Ordered
    <2>2. Serves(stream[s], st)
      BY <1>1 DEF Serves, HeardOf
    <2>3. \A q \in Streams : Ordered(stream'[q]) /\ Serves(stream[q], stream'[q])
      BY <1>1, <1>4, <2>1, <2>2, OneStream
    <2>4. QED
      BY <1>1, <1>4, <2>3, RestingTracks
  <1>5. QED
    BY <1>3, <1>4

LEMMA CommandTracks ==
  ASSUME RingInv, TrackInv, Command
  PROVE  TrackInv' /\ Track!Serve
  <1>1. ASSUME NEW s \in Streams, NEW size \in FileSizes[s], NEW mode \in StreamModes[s],
               PlayStream(s, size, mode)
        PROVE  TrackInv' /\ Track!Serve
    BY <1>1, PlayStreamTracks
  <1>2. ASSUME NEW s \in Streams, OpenFails(s) PROVE TrackInv' /\ Track!Serve
    <2>1. /\ phase = "wait" /\ UNCHANGED <<phase, at>>
          /\ stream' = [stream EXCEPT ![s] = Stopped(stream[s])]
      BY <1>2, Zenon DEF OpenFails, cycle
    <2>2. Ordered(Stopped(stream[s])) /\ Serves(stream[s], Stopped(stream[s]))
      BY <2>1, RestingStreams, StoppedServes DEF TrackInv, OrderedOK
    <2>3. QED
      BY <2>1, <2>2, OneStream, RestingTracks
  <1>3. ASSUME NEW s \in Streams, NEW p \in PartsOf(s), NEW mode \in StreamModes[s],
               PlayStreamPart(s, p[1], p[2], mode)
        PROVE  TrackInv' /\ Track!Serve
    <2>1. PICK st : /\ Starts(s, st)
                    /\ st.open => /\ st.start = p[1] /\ st.sampleLimit = p[2]
                                  /\ p[1] < st.size /\ st.pos = p[1]
      BY <1>3, PartStream
    <2>2. p[2] # 0
      BY StreamAssumption DEF PartsOf
    <2>3. st.open => SegmentSet(st) /\ st.start = p[1]
      BY <2>1, <2>2 DEF SegmentSet
    <2>4. st \in StreamRec
      BY <2>1 DEF Starts
    <2>5. st.open => Lo(st) = p[1]
      BY <2>3, <2>4, PartFields
    <2>6. AtStart(st)
      BY <2>1, <2>5 DEF AtStart
    <2>7. QED
      BY <2>1, <2>6, StartTracks DEF Starts
  <1>4. ASSUME ProgramOp PROVE TrackInv' /\ Track!Serve
    <2>0. PICK s \in Streams : \E st :
           /\ Starts(s, st)
           /\ stream[s].open /\ ~stream[s].feed /\ stream[s].sampleCount = 0
           /\ st.size = stream[s].size /\ st.pos = stream[s].pos
           /\ st.start = stream[s].start /\ st.sampleLimit = stream[s].sampleLimit
      BY <1>4, ProgramStream
    <2>1. PICK st :
           /\ Starts(s, st)
           /\ stream[s].open /\ ~stream[s].feed /\ stream[s].sampleCount = 0
           /\ st.size = stream[s].size /\ st.pos = stream[s].pos
           /\ st.start = stream[s].start /\ st.sampleLimit = stream[s].sampleLimit
      BY <2>0
    <2>2. Seated(stream[s])
      BY DEF TrackInv, OrderedOK, Ordered
    <2>3. Lo(stream[s]) < stream[s].size /\ stream[s].pos = Lo(stream[s])
      BY <2>1, <2>2 DEF Seated
    <2>4. Lo(st) = Lo(stream[s])
      BY <2>1, RestingStreams, PartFields DEF SegmentSet, Starts
    <2>5. AtStart(st)
      BY <2>1, <2>3, <2>4 DEF AtStart
    <2>6. QED
      BY <2>1, <2>5, StartTracks DEF Starts
  <1>5. ASSUME ControlCommand PROVE TrackInv' /\ Track!Serve
    <2>1. Handled
      BY <1>5, ControlHandled
    <2>2. ASSUME NEW s \in Streams
          PROVE  Ordered(stream'[s]) /\ Serves(stream[s], stream'[s])
      <3>1. Ordered(stream[s]) /\ stream[s] \in StreamRec
        BY <2>1, RestingStreams DEF TrackInv, OrderedOK, Handled
      <3>2. CASE stream'[s] = stream[s]
        BY <3>1, <3>2 DEF Serves
      <3>3. CASE stream'[s] # stream[s]
        <4>1. PICK t : /\ stream'[s] = [stream[s] EXCEPT !.src = t]
                       /\ Touched(stream[s].src, t) /\ t.mode = stream[s].src.mode
          BY <2>1, <3>3 DEF Handled
        <4>2. QED
          BY <3>1, <4>1, TouchedServes
      <3>4. QED
        BY <3>2, <3>3
    <2>3. QED
      BY <2>1, <2>2, RestingTracks DEF Handled, cycle
  <1>6. CASE PlayCommand
    BY <1>1, <1>2, <1>3, <1>6 DEF PlayCommand
  <1>7. QED
    BY <1>4, <1>5, <1>6 DEF Command

-----------------------------------------------------------------------------
(* stream_fillBuffers                                                      *)

LEMMA TakeTracks ==
  ASSUME NEW st, NEW to, Fills(st, NoBuffer, to), HasProcessed(st.src), Ordered(st)
  PROVE  Tracks(st, to, [st EXCEPT !.src = Dequeue(@)])
  <1> DEFINE t == Dequeue(st.src)
             r == [st EXCEPT !.src = t]
  <1>1. st \in StreamRec /\ st.src \in SourceRec /\ RingOK(st.src)
    BY DEF Fills, StreamSound, RingSide, StreamRec
  <1>2. /\ t \in SourceRec /\ t.mode = st.src.mode
        /\ Pending(t) = Pending(st.src) /\ t.qactive = st.src.qactive
        /\ t.bufferQueue = st.src.bufferQueue /\ t.playPos = st.src.playPos
    BY <1>1, DequeuedRing
  <1>3. t.qtail = st.src.qtail
    BY <1>1 DEF Dequeue, SourceRec
  <1> HIDE DEF t
  <1>4. r.src = t /\ SameFile(st, r)
    BY <1>1, <1>2, WithSource
  <1> HIDE DEF r
  <1>5. (Active(t) <=> Active(st.src)) /\ ActiveBuffer(t) = ActiveBuffer(st.src)
    BY <1>2 DEF Active, ActiveBuffer
  <1>6. Ordered(r)
    BY <1>2, <1>3, <1>4, SameFileOrdered
  <1>7. Lo(r) = Lo(st) /\ PartOf(r) = PartOf(st)
    BY <1>4, SamePartSame DEF SameFile
  <1>8. NextFrame(r) = NextFrame(st)
    BY <1>2, <1>4, <1>5, NextFrameSame DEF SameFile
  <1>9. FromStart(st) => FromStart(r)
    BY <1>4, <1>5, <1>7 DEF FromStart, SameFile
  <1>10. QED
    BY <1>6, <1>7, <1>8, <1>9 DEF Tracks, Serves, r, t

(* The stream is filled further.                                           *)
LEMMA FillingTracks ==
  ASSUME RingInv, TrackInv, phase = "fill", NEW r, Tracks(stream[at], back, r),
         FilledFor(r, back), stream' = [stream EXCEPT ![at] = r],
         UNCHANGED <<phase, at, back, mixing>>
  PROVE  TrackInv' /\ Track!Serve
  <1>1. at \in Streams /\ back \in {"wait", "collect"} /\ at \in Nat
    BY Filler DEF RingInv, ControlOK
  <1>2. Ordered(r) /\ Serves(stream[at], r)
    BY <1>1 DEF Tracks, FilledFor, Serves, HeardOf
  <1>3. /\ stream'[at] = r
        /\ \A s \in Streams : /\ s # at => stream'[s] = stream[s]
                              /\ Ordered(stream'[s]) /\ Serves(stream[s], stream'[s])
    BY <1>1, <1>2, OneStream
  <1>4. back = "wait" => FromStart(r)
    BY <1>1 DEF Tracks, TrackInv, OrderedOK, Filling
  <1>5. OrderedOK'
    BY <1>3, <1>4 DEF OrderedOK, Filling
  <1>6. MixingOK'
    BY <1>1, <1>3 DEF MixingOK, TrackInv, Heard, Streams
  <1>7. QED
    BY <1>3, <1>5, <1>6, TrackServes DEF TrackInv

(* The loop is left.                                                       *)
LEMMA FillReturnsTracks ==
  ASSUME RingInv, TrackInv, phase = "fill", NEW st, Tracks(stream[at], back, st),
         StreamSound(st), FilledFor(st, back), FillReturns(st), back' = back
  PROVE  TrackInv' /\ Track!Serve
  <1> DEFINE r == IF back = "wait" THEN Started(st) ELSE st
  <1>1. /\ at \in Streams /\ at \in Nat /\ back \in {"wait", "collect"}
        /\ Fills(stream[at], taken, back)
    BY Filler DEF RingInv, ControlOK
  <1>2. Ordered(r) /\ Serves(stream[at], r)
    <2>1. CASE back = "wait"
      <3>1. FromStart(st) /\ Ordered(st)
        BY <1>1, <2>1 DEF Tracks, TrackInv, OrderedOK, Filling
      <3>2. ~HeardOf(stream[at])
        BY <1>1, <2>1 DEF Fills, FilledFor, HeardOf
      <3>3. QED
        BY <2>1, <3>1, <3>2, StartedServes
    <2>2. CASE back = "collect"
      BY <2>2 DEF Tracks
    <2>3. QED
      BY <1>1, <2>1, <2>2
  <1>3. stream' = [stream EXCEPT ![at] = r] /\ phase' = back
    BY Zenon DEF FillReturns
  <1>4. /\ back = "wait" => at' = 0 /\ mixing' = mixing
        /\ back = "collect" =>
             /\ at' = at + 1 /\ r = st
             /\ mixing' = IF Active(st.src) THEN mixing \cup {at} ELSE mixing
    BY DEF FillReturns
  <1> HIDE DEF r
  <1>5. /\ stream'[at] = r
        /\ \A s \in Streams : /\ s # at => stream'[s] = stream[s]
                              /\ Ordered(stream'[s]) /\ Serves(stream[s], stream'[s])
    BY <1>1, <1>2, <1>3, OneStream
  <1>6. OrderedOK'
    BY <1>1, <1>3, <1>5 DEF OrderedOK, Filling
  <1>7. MixingOK'
    <2>1. CASE back = "wait"
      BY <1>3, <1>4, <2>1 DEF MixingOK
    <2>2. CASE back = "collect"
      <3>1. ASSUME NEW s \in Streams, s < at + 1, Heard(s)' PROVE s \in mixing'
        <4>1. CASE s = at
          BY <1>4, <1>5, <2>2, <3>1, <4>1 DEF Heard
        <4>2. CASE s # at
          <5>1. s < at /\ Heard(s)
            BY <1>1, <1>5, <3>1, <4>2 DEF Heard, Streams
          <5>2. s \in mixing
            BY <2>2, <5>1 DEF TrackInv, MixingOK
          <5>3. QED
            BY <1>4, <2>2, <5>2
        <4>3. QED
          BY <4>1, <4>2
      <3>2. QED
        BY <1>3, <1>4, <2>2, <3>1 DEF MixingOK
    <2>3. QED
      BY <1>1, <2>1, <2>2
  <1>8. QED
    BY <1>1, <1>3, <1>5, <1>6, <1>7, TrackServes DEF TrackInv

LEMMA FillTracks ==
  ASSUME RingInv, TrackInv, Fill
  PROVE  TrackInv' /\ Track!Serve
  <1> DEFINE st == stream[at]
  <1>1. phase = "fill" /\ back' = back
    <2>1. FillTake => phase = "fill" /\ back' = back
      BY DEF FillTake
    <2>2. ASSUME NEW n \in 0 .. BufLen, NEW error \in BOOLEAN, FillRead(n, error)
          PROVE  phase = "fill" /\ back' = back
      BY <2>2, Zenon DEF FillRead
    <2>3. QED
      BY <2>1, <2>2 DEF Fill
  <1>2. /\ Fills(st, taken, back) /\ st \in StreamRec /\ at \in Streams
        /\ taken \in Buffers \cup {NoBuffer}
    BY <1>1, Filler DEF RingInv, ControlOK
  <1>3. Ordered(st)
    BY <1>2 DEF TrackInv, OrderedOK
  <1>4. CASE FillTake /\ HasProcessed(st.src)
    <2> DEFINE r == [st EXCEPT !.src = Dequeue(@)]
    <2>1. /\ taken = NoBuffer /\ stream' = [stream EXCEPT ![at].src = Dequeue(@)]
          /\ UNCHANGED <<phase, at, mixing>>
      BY <1>4 DEF FillTake
    <2>2. stream' = [stream EXCEPT ![at] = r]
      BY <2>1
    <2>3. Tracks(st, back, r)
      BY <1>2, <1>3, <1>4, <2>1, TakeTracks
    <2>4. Fills(r, st.src.bufferQueue[st.src.qhead], back)
      BY <1>2, <1>4, <2>1, TakeFills
    <2> HIDE DEF r
    <2>5. FilledFor(r, back)
      BY <2>4 DEF Fills
    <2>6. QED
      BY <1>1, <2>1, <2>2, <2>3, <2>5, FillingTracks
  <1>5. CASE FillTake /\ ~HasProcessed(st.src)
    <2>1. FillReturns(st)
      BY <1>5 DEF FillTake
    <2>2. Tracks(st, back, st)
      BY <1>3 DEF Tracks, Serves
    <2>3. StreamSound(st) /\ FilledFor(st, back)
      BY <1>2 DEF Fills
    <2>4. QED
      BY <1>1, <2>1, <2>2, <2>3, FillReturnsTracks
  <1>6. ASSUME NEW n \in 0 .. BufLen, NEW error \in BOOLEAN, FillRead(n, error)
        PROVE  TrackInv' /\ Track!Serve
    <2> DEFINE b == taken
               kept == KeptOf(st, b, n)
               eof == (~error /\ n < BufLen) \/ (n > 0 /\ AtLimit(ReadInto(st, b, n)))
               left == IF HasData(st, b, n) THEN NoBuffer ELSE b
               fail == [kept EXCEPT !.open = FALSE, !.failed = TRUE]
               end == IF SegmentSet(st) THEN [kept EXCEPT !.feed = FALSE]
                                        ELSE [kept EXCEPT !.open = FALSE]
               Left(r) == StreamSound(r) /\ FilledFor(r, back)
    <2>1. /\ taken # NoBuffer
          /\ IF error THEN n <= Readable(st) /\ n <= MaxBefore /\ (st.open => errors < MaxErrors)
                      ELSE n = Readable(st) /\ st.open
      BY <1>6, Zenon DEF FillRead
    <2>2. (CASE error -> FillReturns(fail)
            [] ~error /\ eof /\ "loop" \in st.src.mode ->
                 /\ stream' = [stream EXCEPT ![at] = Rewound(kept)]
                 /\ taken' = left
                 /\ UNCHANGED <<phase, at, mixing>>
            [] ~error /\ eof /\ "loop" \notin st.src.mode -> FillReturns(end)
            [] OTHER ->
                 /\ stream' = [stream EXCEPT ![at] = kept]
                 /\ taken' = NoBuffer
                 /\ UNCHANGED <<phase, at, mixing>>)
      BY <1>6, Zenon DEF FillRead, KeptOf, HasData, ReadInto
    <2>3. b \in Buffers /\ st.open \in BOOLEAN /\ n <= Readable(st)
      BY <1>2, <2>1, Constants DEF StreamRec, Readable
    <2>4. st.open \/ n = 0
      BY <2>3, Constants DEF Readable
    <2>5. /\ Left(fail)
          /\ eof /\ "loop" \in st.src.mode =>
               /\ Fills(Rewound(kept), left, back)
               /\ Rewound(kept).src = kept.src
          /\ "loop" \notin st.src.mode => Left(end)
          /\ ~error /\ ~eof => Fills(kept, NoBuffer, back)
          /\ Active(st.src) =>
               Offset(kept.src, kept.src.qactive) = Offset(st.src, st.src.qactive)
      BY ONLY <1>2, <2>3, <2>4, n \in 0 .. BufLen, error \in BOOLEAN, ReadFills, Zenon
    <2>6. ~error => n = Readable(st) /\ st.open
      BY <2>1
    <2>7. /\ error => Tracks(st, back, fail)
          /\ ~error /\ eof /\ "loop" \in st.src.mode => Tracks(st, back, Rewound(kept))
          /\ ~error /\ eof /\ "loop" \notin st.src.mode => Tracks(st, back, end)
          /\ ~error /\ ~eof => Tracks(st, back, kept)
      BY ONLY <1>2, <1>3, <2>3, <2>6, n \in 0 .. BufLen, error \in BOOLEAN, ReadTracks, Zenon
    <2> HIDE DEF kept, eof, left, fail, end
    <2>8. CASE error
      BY <1>1, <2>2, <2>5, <2>7, <2>8, FillReturnsTracks
    <2>9. CASE ~error /\ eof /\ "loop" \in st.src.mode
      <3>1. stream' = [stream EXCEPT ![at] = Rewound(kept)] /\ UNCHANGED <<phase, at, mixing>>
        BY <2>2, <2>9
      <3>2. FilledFor(Rewound(kept), back) /\ Tracks(st, back, Rewound(kept))
        BY <2>5, <2>7, <2>9 DEF Fills
      <3>3. QED
        BY <1>1, <3>1, <3>2, FillingTracks
    <2>10. CASE ~error /\ eof /\ "loop" \notin st.src.mode
      BY <1>1, <2>2, <2>5, <2>7, <2>10, FillReturnsTracks
    <2>11. CASE ~error /\ ~eof
      <3>1. stream' = [stream EXCEPT ![at] = kept] /\ UNCHANGED <<phase, at, mixing>>
        BY <2>2, <2>11
      <3>2. FilledFor(kept, back) /\ Tracks(st, back, kept)
        BY <2>5, <2>7, <2>11 DEF Fills
      <3>3. QED
        BY <1>1, <3>1, <3>2, FillingTracks
    <2>12. QED
      BY <2>8, <2>9, <2>10, <2>11
  <1>7. QED
    BY <1>4, <1>5, <1>6 DEF Fill

-----------------------------------------------------------------------------
(* The update cycle                                                        *)

LEMMA FadedTracks ==
  ASSUME NEW st, Rests(st), Ordered(st)
  PROVE  Ordered(Faded(st)) /\ Serves(st, Faded(st))
  <1> DEFINE t == Fade(st.src)
             faded == [st EXCEPT !.src = t]
  <1>1. st \in StreamRec /\ st.src \in SourceRec
    BY DEF Rests, StreamSound, RingSide, StreamRec
  <1>2. Touched(st.src, t) /\ t.mode = st.src.mode
    BY <1>1, GainTouches DEF Tuned
  <1>3. Faded(st) = IF st.src.fade # 0
                    THEN IF Silenced(st.src) THEN Stopped(faded) ELSE faded
                    ELSE st
    BY Zenon DEF Faded
  <1> HIDE DEF t
  <1>4. faded \in StreamRec
    BY <1>1, <1>2, WithSource DEF Touched
  <1>5. Ordered(faded) /\ Serves(st, faded)
    BY <1>1, <1>2, TouchedServes
  <1> HIDE DEF faded
  <1>6. Ordered(Stopped(faded)) /\ Serves(st, Stopped(faded))
    BY <1>4, <1>5, StoppedServes
  <1>7. Serves(st, st)
    BY DEF Serves
  <1>8. QED
    BY <1>3, <1>5, <1>6, <1>7

LEMMA CollectTracks ==
  ASSUME RingInv, TrackInv, Collect
  PROVE  TrackInv' /\ Track!Serve
  <1> DEFINE st == Faded(stream[at])
  <1>1. phase = "collect" /\ at \in Streams /\ at \in Nat
    BY Constants DEF Collect, RingInv, ControlOK, Streams
  <1>2. CASE stream[at].src.state = "playing"
    <2>1. /\ stream' = [stream EXCEPT ![at] = st]
          /\ IF NeedsFill(st)
             THEN BeginFill(at, "collect") /\ UNCHANGED mixing
             ELSE /\ at' = at + 1
                  /\ mixing' = IF Active(st.src) THEN mixing \cup {at} ELSE mixing
                  /\ UNCHANGED <<phase, taken, back>>
      BY <1>2, Zenon DEF Collect
    <2>2. Ordered(st) /\ Serves(stream[at], st)
      BY <1>1, RestingStreams, FadedTracks DEF TrackInv, OrderedOK
    <2> HIDE DEF st
    <2>3. /\ stream'[at] = st
          /\ \A s \in Streams : /\ s # at => stream'[s] = stream[s]
                                /\ Ordered(stream'[s]) /\ Serves(stream[s], stream'[s])
      BY <1>1, <2>1, <2>2, OneStream
    <2>4. ASSUME NEW s \in Streams, s < at, Heard(s)' PROVE s \in mixing
      BY <1>1, <2>3, <2>4 DEF TrackInv, MixingOK, Heard
    <2>5. CASE NeedsFill(st)
      <3>1. phase' = "fill" /\ back' = "collect" /\ at' = at /\ mixing' = mixing
        BY <2>1, <2>5 DEF BeginFill
      <3>2. OrderedOK' /\ MixingOK'
        BY <2>3, <2>4, <3>1 DEF OrderedOK, MixingOK
      <3>3. QED
        BY <1>1, <2>3, <3>1, <3>2, TrackServes DEF TrackInv
    <2>6. CASE ~NeedsFill(st)
      <3>1. /\ at' = at + 1 /\ phase' = "collect"
            /\ mixing' = IF Active(st.src) THEN mixing \cup {at} ELSE mixing
        BY <1>1, <2>1, <2>6
      <3>2. ASSUME NEW s \in Streams, s < at + 1, Heard(s)' PROVE s \in mixing'
        <4>1. CASE s = at
          BY <2>3, <3>1, <3>2, <4>1 DEF Heard
        <4>2. CASE s # at
          BY <1>1, <2>4, <3>1, <3>2, <4>2 DEF Streams
        <4>3. QED
          BY <4>1, <4>2
      <3>3. OrderedOK' /\ MixingOK'
        BY <2>3, <3>1, <3>2 DEF OrderedOK, MixingOK, Filling
      <3>4. QED
        BY <1>1, <2>3, <3>1, <3>3, TrackServes DEF TrackInv
    <2>7. QED
      BY <2>5, <2>6
  <1>3. CASE stream[at].src.state # "playing"
    <2>1. at' = at + 1 /\ UNCHANGED <<stream, phase, taken, back, mixing>>
      BY <1>3 DEF Collect
    <2>2. ASSUME NEW s \in Streams, s < at + 1, Heard(s)' PROVE s \in mixing
      BY <1>1, <1>3, <2>1, <2>2 DEF TrackInv, MixingOK, Heard, Streams
    <2>3. OrderedOK' /\ MixingOK'
      BY <1>1, <2>1, <2>2 DEF TrackInv, OrderedOK, MixingOK, Filling
    <2>4. \A s \in Streams : Serves(stream[s], stream'[s])
      BY <2>1 DEF Serves
    <2>5. QED
      BY <1>1, <2>1, <2>3, <2>4, TrackServes DEF TrackInv
  <1>4. QED
    BY <1>2, <1>3

LEMMA MixPassTracks ==
  ASSUME RingInv, TrackInv, NEW n \in 0 .. MixLen, MixPass(n)
  PROVE  TrackInv' /\ (DecodingKeepsUp => Track!Listen)
  <1> DEFINE T == [s \in Streams |->
                     [stream[s] EXCEPT
                        !.src = Advance(@, n, stream[s].used, Buffers, FALSE)]]
  <1>1. /\ phase = "mix" /\ mixed < MixLen /\ IsFragment(n)
        /\ stream' = [s \in Streams |-> IF s \in Mixable THEN T[s] ELSE stream[s]]
        /\ UNCHANGED <<phase, at, mixing>>
    BY DEF MixPass
  <1>2. n \in Nat /\ mixed \in Nat
    BY Constants DEF RingInv, ControlOK
  <1>3. ASSUME NEW s \in Streams
        PROVE  /\ Ordered(stream'[s])
               /\ HeardOf(stream'[s]) => HeardOf(stream[s])
    <2>1. Rests(stream[s]) /\ Ordered(stream[s])
      BY <1>1, RestingStreams DEF TrackInv, OrderedOK
    <2>2. CASE s \in Mixable
      <3>1. Active(stream[s].src)
        BY <2>2 DEF Mixable
      <3>2. Ordered(T[s]) /\ (HeardOf(T[s]) => HeardOf(stream[s]))
        BY <1>2, <2>1, <3>1, PassOrdered
      <3>3. QED
        BY <1>1, <2>2, <3>2
    <2>3. CASE s \notin Mixable
      BY <1>1, <2>1, <2>3
    <2>4. QED
      BY <2>2, <2>3
  <1>4. ASSUME DecodingKeepsUp, NEW s \in Streams, Heard(s)
        PROVE  Hears(stream[s], stream'[s], n) \/ Ends(stream[s], stream'[s], n)
    <2>1. Rests(stream[s]) /\ Ordered(stream[s]) /\ HeardOf(stream[s])
      BY <1>1, <1>4, RestingStreams DEF TrackInv, OrderedOK, Heard, HeardOf
    <2>2. s \in Mixable
      BY <1>1, <1>4 DEF TrackInv, MixingOK, Heard, Mixable
    <2>3. n <= SamplesAvail(stream[s].src, stream[s].used) /\ n <= MixLen - mixed
      BY <1>1, <2>2 DEF IsFragment, FragmentLens
    <2>4. ASSUME Decoding(stream[s]), AtQueueEnd(stream[s].src)
          PROVE  stream[s].used[ActiveBuffer(stream[s].src)] - stream[s].src.playPos > n
      <3>1. stream[s].used[ActiveBuffer(stream[s].src)] - stream[s].src.playPos > MixLen - mixed
        BY <1>1, <1>4, <2>4 DEF DecodingKeepsUp, Decoding
      <3>2. PICK u \in Nat, p \in Nat :
              u = stream[s].used[ActiveBuffer(stream[s].src)] /\ p = stream[s].src.playPos
        <4>1. ActiveBuffer(stream[s].src) \in Buffers
          BY <2>1 DEF HeardOf, Rests, StreamSound, RingSide, RingOK, ActiveBuffer
        <4>2. QED
          BY <2>1, <4>1, Constants
             DEF Rests, StreamSound, RingSide, StreamRec, SourceRec
      <3>3. QED
        BY <1>2, <2>3, <3>1, <3>2, Constants
    <2>5. Hears(stream[s], T[s], n) \/ Ends(stream[s], T[s], n)
      BY <1>2, <2>1, <2>3, <2>4, PassListens
    <2>6. QED
      BY <1>1, <2>2, <2>5
  <1> HIDE DEF T
  <1>5. OrderedOK'
    BY <1>1, <1>3 DEF OrderedOK, Filling
  <1>6. MixingOK'
    BY <1>1, <1>3 DEF TrackInv, MixingOK, Heard, HeardOf
  <1>7. DecodingKeepsUp => Track!Listen
    BY <1>1, <1>3, <1>4, TrackListens DEF Heard, HeardOf
  <1>8. QED
    BY <1>5, <1>6, <1>7 DEF TrackInv

LEMMA CycleTracks ==
  ASSUME RingInv, TrackInv, Cycle
  PROVE  TrackInv' /\ (DecodingKeepsUp => Track!Next)
  <1>1. CASE Update
    <2>1. phase = "wait" /\ phase' = "collect" /\ UNCHANGED <<stream, at, mixing>>
      BY <1>1 DEF Update
    <2>2. OrderedOK' /\ MixingOK'
      BY <2>1, Constants DEF TrackInv, OrderedOK, MixingOK, Filling, Streams
    <2>3. \A s \in Streams : Serves(stream[s], stream'[s])
      BY <2>1 DEF Serves
    <2>4. QED
      BY <2>1, <2>2, <2>3, TrackServes DEF TrackInv, Track!Next
  <1>2. CASE Collected
    <2>1. /\ phase = "collect" /\ at = StreamLimit /\ phase' = "mix" /\ at' = 0
          /\ UNCHANGED <<stream, mixing>>
      BY <1>2 DEF Collected
    <2>2. \A s \in Streams : s < at
      BY <2>1, Constants DEF Streams
    <2>3. OrderedOK' /\ MixingOK'
      BY <2>1, <2>2 DEF TrackInv, OrderedOK, MixingOK, Filling, Heard
    <2>4. QED
      BY <2>1, <2>3, TrackReady DEF TrackInv, Track!Next
  <1>3. CASE Write
    <2>1. phase = "mix" /\ phase' = "wait" /\ UNCHANGED <<stream, at>>
      BY <1>3 DEF Write
    <2>2. OrderedOK' /\ MixingOK'
      BY <2>1 DEF TrackInv, OrderedOK, MixingOK, Filling
    <2>3. QED
      BY <2>1, <2>2, TrackReady DEF TrackInv, Track!Next
  <1>4. QED
    BY <1>1, <1>2, <1>3, CollectTracks, MixPassTracks DEF Cycle, Track!Next

-----------------------------------------------------------------------------
(* The refinement                                                          *)

LEMMA InitTracks == Init => TrackInv /\ Track!Init
  <1> SUFFICES ASSUME Init PROVE TrackInv /\ Track!Init
    OBVIOUS
  <1>1. /\ ~StreamInit.feed /\ ~StreamInit.open /\ StreamInit.sampleCount = 0
        /\ StreamInit.src = SourceInit
    BY DEF StreamInit
  <1>2. SourceInit.state = "unused"
    BY DEF SourceInit
  <1>3. Ordered(StreamInit)
    BY <1>1 DEF Ordered, Seated
  <1>4. phase = "wait" /\ at = 0 /\ \A s \in Streams : stream[s] = StreamInit
    BY DEF Init
  <1>5. \A s \in Streams : ~Heard(s)
    BY <1>1, <1>2, <1>4 DEF Heard
  <1>6. OrderedOK /\ MixingOK
    BY <1>3, <1>4 DEF OrderedOK, MixingOK, Filling
  <1>7. Track!Init
    BY <1>4, <1>5 DEF Track!Init
  <1>8. QED
    BY <1>6, <1>7 DEF TrackInv

LEMMA UnchangedTracks ==
  ASSUME TrackInv, UNCHANGED vars PROVE TrackInv' /\ UNCHANGED Track!vars
  <1>1. stream' = stream /\ phase' = phase /\ at' = at /\ back' = back /\ mixing' = mixing
    BY DEF vars
  <1>2. OrderedOK' /\ MixingOK'
    BY <1>1 DEF TrackInv, OrderedOK, MixingOK, Filling, Heard
  <1>3. UNCHANGED Track!vars
    BY <1>1 DEF Track!vars, Heard
  <1>4. QED
    BY <1>2, <1>3 DEF TrackInv

LEMMA NextTracks ==
  ASSUME RingInv, TrackInv, [Next]_vars
  PROVE  TrackInv' /\ (DecodingKeepsUp => [Track!Next]_(Track!vars))
  <1>1. CASE Command
    BY <1>1, CommandTracks DEF Track!Next
  <1>2. CASE Work
    BY <1>2, FillTracks, CycleTracks DEF Work, Track!Next
  <1>3. QED
    BY <1>1, <1>2, UnchangedTracks DEF Next

LEMMA TrackInvariance == Spec => []TrackInv
  <1>1. QED
    BY InitTracks, NextTracks, Invariance, PTL DEF Spec

(* The ring of a stream holds consecutive frames of its part, and what the *)
(* decoder reads next comes after them: through laps, partial buffers,     *)
(* reads that fail and commands that come between two buffers, whether or  *)
(* not decoding keeps up.                                                  *)
THEOREM RingOrdered == Spec => []OrderedOK
  <1>1. TrackInv => OrderedOK
    BY DEF TrackInv
  <1>2. QED
    BY <1>1, TrackInvariance, PTL

(* As long as no stream plays its last buffer out while its file has more, *)
(* what is heard of every stream is its part, in order: it begins with the *)
(* first frame, loses, repeats and misplaces none, goes on where it was    *)
(* paused, and ends at its end time, at the end of a part that does not    *)
(* loop, or when its file is closed.                                       *)
THEOREM StreamsAreTracks == Spec /\ []DecodingKeepsUp => ImplementsTrack
  <1>1. RingInv /\ TrackInv /\ [Next]_vars /\ DecodingKeepsUp => [Track!Next]_(Track!vars)
    BY NextTracks
  <1>2. QED
    BY <1>1, InitTracks, Invariance, TrackInvariance, PTL DEF Spec, ImplementsTrack, Track!Spec

=============================================================================
