----------------------- MODULE FaunStreamAlone_proofs -----------------------
(***************************************************************************)
(* With one stream, decoding keeps up with playing, so that what is heard  *)
(* of it is its part in order: the hypothesis of FaunStreamTrack_proofs    *)
(* follows from what the constants are.                                    *)
(***************************************************************************)
EXTENDS FaunStreamTrack_proofs

(* A buffer has no fewer frames than a cycle, and a file or a part of one  *)
(* no fewer than a buffer.                                                 *)
OneLongStream ==
  /\ StreamLimit = 1
  /\ MixLen <= BufLen
  /\ \A s \in Streams : \A size \in FileSizes[s] :
       /\ BufLen <= size
       /\ \A p \in Parts[s] : p[1] < size => BufLen <= p[2] /\ p[1] + BufLen <= size

LongPart(s, st) == st.open => st.size \in FileSizes[s] /\ Lo(st) + BufLen <= Hi(st)

(* While there is more to decode, every buffer is in the ring but the one  *)
(* that is decoded into.                                                   *)
RingFull(st, b) ==
  Decoding(st) => st.src.bufUsed = IF b = NoBuffer THEN QueueSize ELSE QueueSize - 1

Stocked(s, st, b) == LongPart(s, st) /\ RingFull(st, b)

StockOK == \A s \in Streams : Stocked(s, stream[s], IF Filling(s) THEN taken ELSE NoBuffer)

(* None of them was played out when the stream was collected ...           *)
Fed(st) == Decoding(st) => st.src.qactive = st.src.qhead

(* ... and what is left in the last two lasts for the m frames to come.    *)
LeftIn(st) == st.used[ActiveBuffer(st.src)] - st.src.playPos
NextUsed(st) == st.used[st.src.bufferQueue[NextSlot(st.src.qactive)]]

Ahead(st, m) ==
  Decoding(st) =>
    IF AtQueueEnd(st.src) THEN LeftIn(st) > m
    ELSE NextSlot(NextSlot(st.src.qactive)) = st.src.qtail => LeftIn(st) + NextUsed(st) > m

AheadOK ==
  /\ phase = "collect" /\ at = StreamLimit =>
       \A s \in Streams : Heard(s) => Fed(stream[s])
  /\ phase = "mix" => \A s \in Streams : Heard(s) => Ahead(stream[s], MixLen - mixed)

KeepInv == StockOK /\ AheadOK

-----------------------------------------------------------------------------
(* What keeps a stream stocked                                             *)

LEMMA StockedKept ==
  ASSUME NEW s, NEW a, NEW b, NEW x, SamePart(a, b), b.open => a.open,
         Decoding(b) => Decoding(a), a.src.bufUsed = b.src.bufUsed,
         Stocked(s, a, x)
  PROVE  Stocked(s, b, x)
  <1>1. Lo(a) = Lo(b) /\ Hi(a) = Hi(b) /\ a.size = b.size
    BY SamePartSame DEF SamePart
  <1>2. QED
    BY <1>1 DEF Stocked, LongPart, RingFull

LEMMA TouchedStocked ==
  ASSUME NEW s, NEW st \in StreamRec, NEW t, Touched(st.src, t), t.mode = st.src.mode,
         NEW x, Stocked(s, st, x)
  PROVE  LET r == [st EXCEPT !.src = t]
         IN r \in StreamRec /\ r.src = t /\ Stocked(s, r, x)
  <1> DEFINE r == [st EXCEPT !.src = t]
  <1>1. r \in StreamRec /\ r.src = t /\ SameFile(st, r)
    BY WithSource DEF Touched
  <1> HIDE DEF r
  <1>2. Stocked(s, r, x)
    BY <1>1, StockedKept DEF SameFile, Decoding, Touched, SameRing
  <1>3. QED
    BY <1>1, <1>2 DEF r

LEMMA StoppedStocked ==
  ASSUME NEW s, NEW st \in StreamRec, NEW x
  PROVE  Stocked(s, Stopped(st), x) /\ ~Decoding(Stopped(st))
  <1> DEFINE r == Stopped(st)
  <1>1. ~r.open
    BY StoppedFields
  <1> HIDE DEF r
  <1>2. Stocked(s, r, x) /\ ~Decoding(r)
    BY <1>1 DEF Stocked, LongPart, RingFull, Decoding
  <1>3. QED
    BY <1>2 DEF r

LEMMA FadedStocked ==
  ASSUME NEW s, NEW st, Rests(st), NEW x, Stocked(s, st, x)
  PROVE  Stocked(s, Faded(st), x)
  <1> DEFINE t == Fade(st.src)
             faded == [st EXCEPT !.src = t]
  <1>1. st \in StreamRec /\ st.src \in SourceRec
    BY DEF Rests, StreamSound, RingSide, StreamRec
  <1>2. Touched(st.src, t) /\ t.mode = st.src.mode
    BY <1>1, GainTouches DEF Tuned
  <1>3. Faded(st) = IF st.src.fade # 0
                    THEN IF Silenced(st.src) THEN Stopped(faded) ELSE faded
                    ELSE st
    BY Zenon DEF Faded
  <1> HIDE DEF t
  <1>4. faded \in StreamRec /\ Stocked(s, faded, x)
    BY <1>1, <1>2, TouchedStocked
  <1> HIDE DEF faded
  <1>5. Stocked(s, Stopped(faded), x)
    BY <1>4, StoppedStocked
  <1>6. QED
    BY <1>3, <1>4, <1>5

(* A stream is started with a primed ring.                                 *)
LEMMA PrimedStocked ==
  ASSUME NEW s, NEW st \in StreamRec, LongPart(s, st)
  PROVE  LET r == [st EXCEPT !.src = Prime(@), !.feed = TRUE,
                             !.used = [b \in Buffers |-> 0],
                             !.from = [b \in Buffers |-> 0]]
         IN Stocked(s, r, NoBuffer)
  <1> DEFINE p == Prime(st.src)
             none == [b \in Buffers |-> 0]
             r == [st EXCEPT !.src = p, !.feed = TRUE, !.used = none, !.from = none]
  <1>1. st.src \in SourceRec
    BY DEF StreamRec
  <1>2. p.mode = st.src.mode /\ p.bufUsed = QueueSize
    <2>1. p.mode = st.src.mode
      BY <1>1, PrimedRing
    <2>2. PICK q : q = BufferAt
      OBVIOUS
    <2>3. p = [st.src EXCEPT !.bufUsed = QueueSize, !.qtail = 0, !.qhead = 0,
                             !.qactive = QNone, !.bufferQueue = q]
      BY <2>2, Zenon DEF Prime
    <2>4. p.bufUsed = QueueSize
      BY <1>1, <2>3 DEF SourceRec
    <2>5. QED
      BY <2>1, <2>4
  <1> HIDE DEF p, none
  <1>3. r.src = p /\ r.open = st.open /\ SamePart(st, r)
    BY <1>2 DEF StreamRec, SamePart
  <1> HIDE DEF r
  <1>4. Lo(r) = Lo(st) /\ Hi(r) = Hi(st) /\ r.size = st.size
    BY <1>3, SamePartSame DEF SamePart
  <1>5. Stocked(s, r, NoBuffer)
    BY <1>2, <1>3, <1>4 DEF Stocked, LongPart, RingFull
  <1>6. QED
    BY <1>5 DEF r, p, none

LEMMA StartedStocked ==
  ASSUME NEW s, NEW st \in StreamRec, Stocked(s, st, NoBuffer)
  PROVE  Stocked(s, Started(st), NoBuffer)
  <1> DEFINE u == [st EXCEPT !.src.state = "playing", !.src.playPos = 0, !.src.framesOut = 0]
             t == [st.src EXCEPT !.state = "playing", !.playPos = 0, !.framesOut = 0]
  <1>1. t.mode = st.src.mode /\ t.bufUsed = st.src.bufUsed
    BY DEF StreamRec, SourceRec
  <1>2. u = [st EXCEPT !.src = t]
    BY DEF StreamRec
  <1> HIDE DEF t, u
  <1>3. u.src = t /\ u.open = st.open /\ u.feed = st.feed /\ SamePart(st, u)
    BY <1>1, <1>2 DEF StreamRec, SamePart
  <1>4. Stocked(s, u, NoBuffer)
    BY <1>1, <1>3, StockedKept DEF Decoding
  <1>5. QED
    BY <1>4 DEF Started, u

-----------------------------------------------------------------------------
(* The commands                                                            *)

(* One stream changes; between steps that fill it nothing is taken.        *)
LEMMA RestingStock ==
  ASSUME RingInv, phase' = "wait",
         \A s \in Streams : Stocked(s, stream'[s], NoBuffer)
  PROVE  KeepInv'
  BY DEF KeepInv, StockOK, AheadOK, Filling

LEMMA RestingStocked ==
  ASSUME KeepInv, phase # "fill", NEW s \in Streams
  PROVE  Stocked(s, stream[s], NoBuffer)
  BY DEF KeepInv, StockOK, Filling

LEMMA StartStock ==
  ASSUME RingInv, KeepInv, NEW s \in Streams, NEW st \in StreamRec, phase = "wait",
         LongPart(s, st), StartStream(s, st)
  PROVE  KeepInv'
  <1> DEFINE r == [st EXCEPT !.src = Prime(@), !.feed = TRUE,
                             !.used = [b \in Buffers |-> 0],
                             !.from = [b \in Buffers |-> 0]]
  <1>1. Stocked(s, r, NoBuffer)
    BY PrimedStocked, Zenon
  <1>2. stream' = [stream EXCEPT ![s] = r]
    BY Zenon DEF StartStream
  <1> HIDE DEF r
  <1>3. phase' = "fill" /\ taken' = NoBuffer
    BY DEF StartStream, BeginFill
  <1>4. DOMAIN stream = Streams
    BY DEF RingInv, ControlOK
  <1>5. \A q \in Streams : Stocked(q, stream'[q], NoBuffer)
    BY <1>1, <1>2, <1>4, RestingStocked
  <1>6. QED
    BY <1>3, <1>5 DEF KeepInv, StockOK, AheadOK, Filling

LEMMA CommandStock ==
  ASSUME OneLongStream, RingInv, KeepInv, Command
  PROVE  KeepInv'
  <1>0. DOMAIN stream = Streams
    BY DEF RingInv, ControlOK
  <1>1. ASSUME NEW s \in Streams, NEW size \in FileSizes[s], NEW mode \in StreamModes[s],
               PlayStream(s, size, mode)
        PROVE  KeepInv'
    <2>1. PICK st \in StreamRec :
             /\ phase = "wait"
             /\ IF mode \cap {"once", "loop"} # {}
                THEN StartStream(s, st)
                ELSE stream' = [stream EXCEPT ![s] = st] /\ UNCHANGED <<phase, at, taken, back>>
             /\ st.src.state # "playing" /\ ~st.feed /\ st.sampleCount = 0
             /\ st.open /\ st.size = size /\ st.pos = 0 /\ st.sampleLimit = 0
      BY <1>1, OpenedStream
    <2>2. LongPart(s, st)
      <3>1. BufLen <= size /\ size \in Nat
        BY StreamAssumption DEF OneLongStream
      <3>2. Lo(st) = 0 /\ Hi(st) = size
        BY <2>1, PartFields DEF SegmentSet
      <3>3. QED
        BY <2>1, <3>1, <3>2, Constants DEF LongPart
    <2>3. CASE mode \cap {"once", "loop"} # {}
      BY <2>1, <2>2, <2>3, StartStock
    <2>4. CASE mode \cap {"once", "loop"} = {}
      <3>1. Stocked(s, st, NoBuffer)
        BY <2>1, <2>2 DEF Stocked, RingFull, Decoding
      <3>2. \A q \in Streams : Stocked(q, stream'[q], NoBuffer)
        BY <1>0, <2>1, <2>4, <3>1, RestingStocked
      <3>3. QED
        BY <2>1, <2>4, <3>2, RestingStock
    <2>5. QED
      BY <2>3, <2>4
  <1>2. ASSUME NEW s \in Streams, OpenFails(s) PROVE KeepInv'
    <2>1. /\ phase = "wait" /\ phase' = "wait"
          /\ stream' = [stream EXCEPT ![s] = Stopped(stream[s])]
      BY <1>2, Zenon DEF OpenFails
    <2>2. Stocked(s, Stopped(stream[s]), NoBuffer)
      BY <2>1, RestingStreams, StoppedStocked
    <2>3. \A q \in Streams : Stocked(q, stream'[q], NoBuffer)
      BY <1>0, <2>1, <2>2, RestingStocked
    <2>4. QED
      BY <2>1, <2>3, RestingStock
  <1>3. ASSUME NEW s \in Streams, NEW p \in PartsOf(s), NEW mode \in StreamModes[s],
               PlayStreamPart(s, p[1], p[2], mode)
        PROVE  KeepInv'
    <2>1. PICK st : /\ Starts(s, st)
                    /\ st.open => /\ st.start = p[1] /\ st.sampleLimit = p[2]
                                  /\ p[1] < st.size /\ st.pos = p[1]
                                  /\ stream[s].open /\ st.size = stream[s].size
      BY <1>3, PartStream
    <2>2. p \in Parts[s] /\ p[1] \in Nat /\ p[2] \in Nat /\ p[2] # 0
      BY StreamAssumption DEF PartsOf
    <2>3. st \in StreamRec /\ phase = "wait" /\ StartStream(s, st)
      BY <2>1 DEF Starts
    <2>4. ASSUME st.open PROVE st.size \in FileSizes[s] /\ Lo(st) + BufLen <= Hi(st)
      <3>1. st.size \in FileSizes[s]
        BY <2>1, <2>3, <2>4, RestingStocked DEF Stocked, LongPart
      <3>2. BufLen <= p[2] /\ p[1] + BufLen <= st.size /\ st.size \in Nat
        BY <2>1, <2>2, <2>4, <3>1, StreamAssumption DEF OneLongStream
      <3>3. /\ Lo(st) = p[1]
            /\ Hi(st) = IF p[1] + p[2] < st.size THEN p[1] + p[2] ELSE st.size
        BY <2>1, <2>2, <2>3, <2>4, PartFields DEF SegmentSet
      <3>4. QED
        BY <2>2, <3>1, <3>2, <3>3, Constants
    <2>5. QED
      BY <2>3, <2>4, StartStock DEF LongPart
  <1>4. ASSUME ProgramOp PROVE KeepInv'
    <2>1. PICK s \in Streams : \E st :
           /\ Starts(s, st)
           /\ stream[s].open /\ ~stream[s].feed /\ stream[s].sampleCount = 0
           /\ st.size = stream[s].size /\ st.pos = stream[s].pos
           /\ st.start = stream[s].start /\ st.sampleLimit = stream[s].sampleLimit
      BY <1>4, ProgramStream
    <2>2. PICK st :
           /\ Starts(s, st)
           /\ stream[s].open
           /\ st.size = stream[s].size
           /\ st.start = stream[s].start /\ st.sampleLimit = stream[s].sampleLimit
      BY <2>1
    <2>3. st \in StreamRec /\ phase = "wait" /\ StartStream(s, st)
      BY <2>2 DEF Starts
    <2>4. Lo(st) = Lo(stream[s]) /\ Hi(st) = Hi(stream[s])
      BY <2>2, <2>3, RestingStreams, PartFields DEF SegmentSet
    <2>5. LongPart(s, stream[s])
      BY <2>3, RestingStocked DEF Stocked
    <2>6. LongPart(s, st)
      BY <2>2, <2>4, <2>5 DEF LongPart
    <2>7. QED
      BY <2>3, <2>6, StartStock
  <1>5. ASSUME ControlCommand PROVE KeepInv'
    <2>1. Handled
      BY <1>5, ControlHandled
    <2>2. ASSUME NEW s \in Streams PROVE Stocked(s, stream'[s], NoBuffer)
      <3>1. Stocked(s, stream[s], NoBuffer) /\ stream[s] \in StreamRec
        BY <2>1, RestingStreams, RestingStocked DEF Handled
      <3>2. CASE stream'[s] # stream[s]
        <4>1. PICK t : /\ stream'[s] = [stream[s] EXCEPT !.src = t]
                       /\ Touched(stream[s].src, t) /\ t.mode = stream[s].src.mode
          BY <2>1, <3>2 DEF Handled
        <4>2. QED
          BY <3>1, <4>1, TouchedStocked
      <3>3. QED
        BY <3>1, <3>2
    <2>3. QED
      BY <2>1, <2>2, RestingStock DEF Handled
  <1>6. CASE PlayCommand
    BY <1>1, <1>2, <1>3, <1>6 DEF PlayCommand
  <1>7. QED
    BY <1>4, <1>5, <1>6 DEF Command

-----------------------------------------------------------------------------
(* stream_fillBuffers                                                      *)

LEMMA TakenStocked ==
  ASSUME NEW s, NEW st \in StreamRec, RingOK(st.src), HasProcessed(st.src),
         Stocked(s, st, NoBuffer)
  PROVE  LET b == st.src.bufferQueue[st.src.qhead]
         IN Stocked(s, [st EXCEPT !.src = Dequeue(@)], b)
  <1> DEFINE t == Dequeue(st.src)
             r == [st EXCEPT !.src = t]
             b == st.src.bufferQueue[st.src.qhead]
  <1>1. st.src \in SourceRec
    BY DEF StreamRec
  <1>2. t \in SourceRec /\ t.mode = st.src.mode /\ b \in Buffers
    BY <1>1, DequeuedRing
  <1>3. t.bufUsed = st.src.bufUsed - 1
    BY <1>1 DEF Dequeue, SourceRec
  <1> HIDE DEF t, b
  <1>4. r.src = t /\ SameFile(st, r)
    BY <1>2, WithSource
  <1> HIDE DEF r
  <1>5. Lo(r) = Lo(st) /\ Hi(r) = Hi(st) /\ r.size = st.size /\ r.open = st.open
        /\ (Decoding(r) <=> Decoding(st))
    BY <1>4, SamePartSame DEF SameFile, SamePart, Decoding
  <1>6. LongPart(s, r)
    BY <1>5 DEF Stocked, LongPart
  <1>7. RingFull(r, b)
    BY <1>2, <1>3, <1>4, <1>5, Constants DEF Stocked, RingFull
  <1>8. QED
    BY <1>6, <1>7 DEF Stocked, r, t, b

(* How the loop goes on after a read, as in ReadFills.                     *)
LEMMA ReadStocked ==
  ASSUME NEW s, NEW st, NEW b \in Buffers, NEW to, Fills(st, b, to), Ordered(st),
         NEW n \in 0 .. BufLen, n <= Readable(st), Stocked(s, st, b)
  PROVE  LET k    == KeptOf(st, b, n)
             fail == [k EXCEPT !.open = FALSE, !.failed = TRUE]
             end  == IF SegmentSet(st) THEN [k EXCEPT !.feed = FALSE]
                                       ELSE [k EXCEPT !.open = FALSE]
             left == IF HasData(st, b, n) THEN NoBuffer ELSE b
         IN /\ Stocked(s, fail, NoBuffer) /\ ~Decoding(fail)
            /\ Stocked(s, end, NoBuffer) /\ ~Decoding(end)
            /\ st.open => Stocked(s, Rewound(k), left)
            /\ n > 0 => Stocked(s, k, NoBuffer)
  <1> DEFINE k    == KeptOf(st, b, n)
             fail == [k EXCEPT !.open = FALSE, !.failed = TRUE]
             end  == IF SegmentSet(st) THEN [k EXCEPT !.feed = FALSE]
                                       ELSE [k EXCEPT !.open = FALSE]
             left == IF HasData(st, b, n) THEN NoBuffer ELSE b
  <1>1. st \in StreamRec /\ st.src \in SourceRec /\ HasPlace(st.src, b) /\ st.feed
        /\ b # NoBuffer
    BY Constants DEF Fills, StreamSound, RingSide, StreamRec
  <1>2. st.open \/ n = 0
    BY <1>1, Constants DEF Readable, StreamRec
  <1>3. ReadResult(st, b, n, k)
    BY <1>2, ReadFields
  <1>4. HasData(st, b, n) <=> n > 0
    BY <1>2, ReadKept
  <1> HIDE DEF k
  <1>5. /\ k \in StreamRec /\ SamePart(st, k) /\ k.feed /\ k.open = st.open
        /\ n = 0 => k.src = st.src
        /\ n > 0 => k.src = QueueBuffer(st.src, b)
    BY <1>3 DEF ReadResult
  <1>6. n > 0 => k.src.bufUsed = st.src.bufUsed + 1
    <2>1. ASSUME n > 0 PROVE k.src.bufUsed = st.src.bufUsed + 1
      <3> DEFINE queue == [st.src.bufferQueue EXCEPT ![st.src.qtail] = b]
                 active == IF st.src.qactive = QNone THEN st.src.qtail ELSE st.src.qactive
      <3>1. k.src = [st.src EXCEPT !.bufUsed = st.src.bufUsed + 1, !.bufferQueue = queue,
                                   !.qactive = active, !.qtail = NextSlot(st.src.qtail)]
        BY <1>1, <1>5, <2>1 DEF QueueBuffer, HasPlace
      <3> HIDE DEF queue, active
      <3>2. QED
        BY <1>1, <3>1 DEF SourceRec
    <2>2. QED
      BY <2>1
  <1>7. st.src.bufUsed \in Int
    BY <1>1 DEF SourceRec
  <1>8. ASSUME NEW r, SamePart(k, r), r.src = k.src, r.open => k.open, NEW x,
               Decoding(r) => x = left
        PROVE  Stocked(s, r, x)
    <2>1. SamePart(st, r) /\ (r.open => st.open)
      BY <1>5, <1>8 DEF SamePart
    <2>2. Lo(r) = Lo(st) /\ Hi(r) = Hi(st) /\ r.size = st.size
      BY <2>1, SamePartSame DEF SamePart
    <2>3. LongPart(s, r)
      BY <2>1, <2>2 DEF Stocked, LongPart
    <2>4. ASSUME Decoding(r) PROVE RingFull(r, x)
      <3>1. st.src.bufUsed = QueueSize - 1
        BY <1>1, <2>1, <2>4 DEF Stocked, RingFull, Decoding
      <3>2. CASE n = 0
        <4>1. x = b /\ r.src.bufUsed = QueueSize - 1
          BY <1>4, <1>5, <1>8, <2>4, <3>1, <3>2
        <4>2. QED
          BY <1>1, <4>1 DEF RingFull
      <3>3. CASE n > 0
        <4>1. x = NoBuffer /\ r.src.bufUsed = QueueSize
          BY <1>4, <1>6, <1>8, <2>4, <3>1, <3>3, Constants
        <4>2. QED
          BY <4>1 DEF RingFull
      <3>4. QED
        BY <3>2, <3>3, Constants
    <2>5. RingFull(r, x)
      BY <2>4 DEF RingFull
    <2>6. QED
      BY <2>3, <2>5 DEF Stocked
  <1> HIDE DEF left
  <1>9. Stocked(s, fail, NoBuffer) /\ ~Decoding(fail)
    <2>1. SamePart(k, fail) /\ fail.src = k.src /\ ~fail.open
      BY <1>5 DEF StreamRec, SamePart
    <2> HIDE DEF fail
    <2>2. QED
      BY <1>8, <2>1 DEF Decoding
  <1>10. Stocked(s, end, NoBuffer) /\ ~Decoding(end)
    <2>1. SamePart(k, end) /\ end.src = k.src /\ (end.open => k.open) /\ ~Decoding(end)
      BY <1>5 DEF StreamRec, SamePart, Decoding
    <2> HIDE DEF end
    <2>2. QED
      BY <1>8, <2>1
  <1>11. st.open => Stocked(s, Rewound(k), left)
    <2> SUFFICES ASSUME st.open PROVE Stocked(s, Rewound(k), left)
      OBVIOUS
    <2>1. Lo(st) < st.size
      BY <1>1 DEF Ordered, Seated
    <2>2. Lo(k) = Lo(st) /\ k.size = st.size
      BY <1>5, SamePartSame DEF SamePart
    <2> DEFINE r == Rewound(k)
    <2>3. SamePart(k, r) /\ r.src = k.src /\ r.open = k.open
      BY <1>5, <2>1, <2>2, RewoundFields
    <2> HIDE DEF r
    <2>4. Stocked(s, r, left)
      BY <1>8, <2>3
    <2>5. QED
      BY <2>4 DEF r
  <1>12. n > 0 => Stocked(s, k, NoBuffer)
    <2>1. n > 0 => left = NoBuffer
      BY <1>4 DEF left
    <2>2. SamePart(k, k)
      BY DEF SamePart
    <2>3. QED
      BY <1>8, <2>1, <2>2
  <1>13. QED
    BY <1>9, <1>10, <1>11, <1>12 DEF k, left

(* The stream is filled further ...                                        *)
LEMMA FillingStock ==
  ASSUME RingInv, KeepInv, phase = "fill", NEW r, NEW x, Stocked(at, r, x),
         stream' = [stream EXCEPT ![at] = r], taken' = x, UNCHANGED <<phase, at>>
  PROVE  KeepInv'
  <1>1. at \in Streams /\ DOMAIN stream = Streams
    BY Filler DEF RingInv, ControlOK
  <1>2. \A s \in Streams : s # at => Stocked(s, stream'[s], NoBuffer)
    BY <1>1 DEF KeepInv, StockOK, Filling
  <1>3. StockOK'
    BY <1>1, <1>2 DEF StockOK, Filling
  <1>4. QED
    BY <1>3 DEF KeepInv, AheadOK

(* ... or the loop is left: nothing has been played out, or nothing more   *)
(* is decoded.                                                             *)
LEMMA FillReturnsStock ==
  ASSUME OneLongStream, RingInv, KeepInv, phase = "fill", NEW st \in StreamRec,
         Stocked(at, st, NoBuffer), Fed(st), FillReturns(st)
  PROVE  KeepInv'
  <1> DEFINE r == IF back = "wait" THEN Started(st) ELSE st
  <1>1. at \in Streams /\ DOMAIN stream = Streams /\ back \in {"wait", "collect"}
    BY Filler DEF RingInv, ControlOK
  <1>2. Stocked(at, r, NoBuffer)
    BY StartedStocked
  <1>3. stream' = [stream EXCEPT ![at] = r] /\ phase' = back
    BY Zenon DEF FillReturns
  <1>4. back = "collect" => r = st
    OBVIOUS
  <1> HIDE DEF r
  <1>5. \A s \in Streams : s # at => Stocked(s, stream[s], NoBuffer)
    BY DEF KeepInv, StockOK, Filling
  <1>6. StockOK'
    BY <1>1, <1>2, <1>3, <1>5 DEF StockOK, Filling
  <1>7. \A s \in Streams : s = at
    BY <1>1 DEF OneLongStream, Streams
  <1>8. AheadOK'
    BY <1>1, <1>3, <1>4, <1>7 DEF AheadOK
  <1>9. QED
    BY <1>6, <1>8 DEF KeepInv

LEMMA FillStock ==
  ASSUME OneLongStream, RingInv, OrderedOK, KeepInv, Fill
  PROVE  KeepInv'
  <1> DEFINE st == stream[at]
  <1>1. phase = "fill"
    <2>1. FillTake => phase = "fill"
      BY DEF FillTake
    <2>2. ASSUME NEW n \in 0 .. BufLen, NEW error \in BOOLEAN, FillRead(n, error)
          PROVE  phase = "fill"
      BY <2>2, Zenon DEF FillRead
    <2>3. QED
      BY <2>1, <2>2 DEF Fill
  <1>2. /\ Fills(st, taken, back) /\ st \in StreamRec /\ st.src \in SourceRec
        /\ at \in Streams /\ taken \in Buffers \cup {NoBuffer}
        /\ RingOK(st.src) /\ DOMAIN stream = Streams
    BY <1>1, Filler DEF RingInv, ControlOK, Fills, StreamSound, RingSide
  <1>3. Ordered(st) /\ Stocked(at, st, taken)
    BY <1>1, <1>2 DEF OrderedOK, KeepInv, StockOK, Filling
  <1>4. CASE FillTake /\ HasProcessed(st.src)
    <2> DEFINE r == [st EXCEPT !.src = Dequeue(@)]
               b == st.src.bufferQueue[st.src.qhead]
    <2>1. /\ taken = NoBuffer /\ stream' = [stream EXCEPT ![at].src = Dequeue(@)]
          /\ taken' = b /\ UNCHANGED <<phase, at>>
      BY <1>4 DEF FillTake
    <2>2. stream' = [stream EXCEPT ![at] = r]
      BY <2>1
    <2>3. Stocked(at, r, b)
      BY <1>2, <1>3, <1>4, <2>1, TakenStocked
    <2> HIDE DEF r, b
    <2>4. QED
      BY <1>1, <2>1, <2>2, <2>3, FillingStock
  <1>5. CASE FillTake /\ ~HasProcessed(st.src)
    <2>1. taken = NoBuffer /\ FillReturns(st)
      BY <1>5 DEF FillTake
    <2>2. Stocked(at, st, NoBuffer)
      BY <1>3, <2>1
    <2>3. Fed(st)
      BY <1>5, <2>2, Constants DEF Stocked, RingFull, Fed, HasProcessed
    <2>4. QED
      BY <1>1, <1>2, <2>1, <2>2, <2>3, FillReturnsStock
  <1>6. ASSUME NEW n \in 0 .. BufLen, NEW error \in BOOLEAN, FillRead(n, error)
        PROVE  KeepInv'
    <2> DEFINE b == taken
               kept == KeptOf(st, b, n)
               eof == (~error /\ n < BufLen) \/ (n > 0 /\ AtLimit(ReadInto(st, b, n)))
               left == IF HasData(st, b, n) THEN NoBuffer ELSE b
               fail == [kept EXCEPT !.open = FALSE, !.failed = TRUE]
               end == IF SegmentSet(st) THEN [kept EXCEPT !.feed = FALSE]
                                        ELSE [kept EXCEPT !.open = FALSE]
    <2>1. /\ taken # NoBuffer
          /\ IF error THEN n <= Readable(st) /\ n <= MaxBefore /\ (st.open => errors < MaxErrors)
                      ELSE n = Readable(st) /\ st.open
      BY <1>6, Zenon DEF FillRead
    <2>2. (CASE error -> FillReturns(fail)
            [] ~error /\ eof /\ "loop" \in st.src.mode ->
                 /\ stream' = [stream EXCEPT ![at] = Rewound(kept)]
                 /\ taken' = left
                 /\ UNCHANGED <<phase, at, mixing>>
            [] ~error /\ eof /\ "loop" \notin st.src.mode -> FillReturns(end)
            [] OTHER ->
                 /\ stream' = [stream EXCEPT ![at] = kept]
                 /\ taken' = NoBuffer
                 /\ UNCHANGED <<phase, at, mixing>>)
      BY <1>6, Zenon DEF FillRead, KeptOf, HasData, ReadInto
    <2>3. b \in Buffers /\ st.open \in BOOLEAN /\ n <= Readable(st)
      BY <1>2, <2>1, Constants DEF StreamRec, Readable
    <2>4. st.open \/ n = 0
      BY <2>3, Constants DEF Readable
    <2>5. /\ Stocked(at, fail, NoBuffer) /\ ~Decoding(fail)
          /\ Stocked(at, end, NoBuffer) /\ ~Decoding(end)
          /\ st.open => Stocked(at, Rewound(kept), left)
          /\ n > 0 => Stocked(at, kept, NoBuffer)
      BY ONLY <1>2, <1>3, <2>3, n \in 0 .. BufLen, ReadStocked, Zenon
    <2>6. kept \in StreamRec
      BY <1>2, <2>3, <2>4, ReadKept
    <2> HIDE DEF kept, eof, left
    <2>7. fail \in StreamRec /\ end \in StreamRec
      BY <2>6 DEF StreamRec
    <2> HIDE DEF fail, end
    <2>8. Fed(fail) /\ Fed(end)
      BY <2>5 DEF Fed
    <2>9. CASE error
      BY <1>1, <2>2, <2>5, <2>7, <2>8, <2>9, FillReturnsStock
    <2>10. CASE ~error /\ eof /\ "loop" \in st.src.mode
      <3>1. stream' = [stream EXCEPT ![at] = Rewound(kept)] /\ taken' = left
            /\ UNCHANGED <<phase, at>>
        BY <2>2, <2>10
      <3>2. Stocked(at, Rewound(kept), left)
        BY <2>1, <2>5, <2>10
      <3>3. QED
        BY <1>1, <3>1, <3>2, FillingStock
    <2>11. CASE ~error /\ eof /\ "loop" \notin st.src.mode
      BY <1>1, <2>2, <2>5, <2>7, <2>8, <2>11, FillReturnsStock
    <2>12. CASE ~error /\ ~eof
      <3>1. stream' = [stream EXCEPT ![at] = kept] /\ taken' = NoBuffer
            /\ UNCHANGED <<phase, at>>
        BY <2>2, <2>12
      <3>2. n > 0
        BY <2>12, Constants DEF eof
      <3>3. QED
        BY <1>1, <2>5, <3>1, <3>2, FillingStock
    <2>13. QED
      BY <2>9, <2>10, <2>11, <2>12
  <1>7. QED
    BY <1>4, <1>5, <1>6 DEF Fill

-----------------------------------------------------------------------------
(* The update cycle                                                        *)

(* After a fill there are at least three buffers ahead.                    *)
LEMMA FedAhead ==
  ASSUME NEW s, NEW st, RingSide(st), Active(st.src), Stocked(s, st, NoBuffer), Fed(st),
         NEW m
  PROVE  Ahead(st, m)
  <1> SUFFICES ASSUME Decoding(st)
               PROVE  /\ ~AtQueueEnd(st.src)
                      /\ NextSlot(NextSlot(st.src.qactive)) # st.src.qtail
    BY DEF Ahead
  <1> DEFINE src == st.src
             a == src.qactive
  <1>1. src \in SourceRec /\ RingOK(src) /\ a \in Slots
    BY DEF RingSide, StreamRec, SourceRec, RingOK, Ringed
  <1>2. src.bufUsed = QueueSize /\ a = src.qhead
    BY DEF Stocked, RingFull, Fed
  <1>3. Offset(src, src.qtail) = 0
    BY <1>1, <1>2, RingSlots
  <1>4. Offset(src, a) = 0
    BY <1>1, <1>2 DEF Offset, Slots
  <1>5. /\ NextSlot(a) \in Slots /\ Offset(src, NextSlot(a)) = 1
        /\ Offset(src, NextSlot(NextSlot(a))) = 2
    BY <1>1, <1>4, RingSlots, Constants
  <1>6. QED
    BY <1>3, <1>5 DEF AtQueueEnd

(* Two buffers in a row are longer than one: only the last of a lap is not *)
(* full, and the first of a lap is.                                        *)
LEMMA TwoBuffers ==
  ASSUME NEW s, NEW st, RingSide(st), Chain(st), Decoding(st), LongPart(s, st),
         NEW i \in Pending(st.src), NextSlot(i) # st.src.qtail
  PROVE  st.used[st.src.bufferQueue[i]] + st.used[st.src.bufferQueue[NextSlot(i)]] > BufLen
  <1> DEFINE j == NextSlot(i)
  <1>1. st \in StreamRec /\ st.src \in SourceRec /\ RingOK(st.src)
    BY DEF RingSide, StreamRec
  <1>2. j \in Pending(st.src)
    BY <1>1, NextIsPending
  <1>3. i \in Ringed(st.src) /\ j \in Ringed(st.src)
    BY <1>1, <1>2, PendingInRing DEF Pending
  <1>4. PICK u \in Nat, v \in Nat, f \in Nat, g \in Nat :
          /\ u = st.used[st.src.bufferQueue[i]] /\ v = st.used[st.src.bufferQueue[j]]
          /\ f = From(st, i) /\ g = From(st, j)
    <2>1. st.src.bufferQueue[i] \in Buffers /\ st.src.bufferQueue[j] \in Buffers
      BY <1>1, <1>3 DEF RingOK
    <2>2. QED
      BY <1>1, <2>1, Constants DEF StreamRec, From
  <1>5. u > 0 /\ v > 0
    BY <1>2, <1>4 DEF RingSide, PendingOK
  <1>6. EndOf(st, i) = f + u /\ EndOf(st, j) = g + v
    BY <1>4 DEF EndOf, From
  <1>7. /\ f + u <= Hi(st) /\ g + v <= Hi(st)
        /\ u = BufLen \/ f + u = Hi(st)
        /\ v = BufLen \/ g + v = Hi(st)
        /\ g = f + u \/ (f + u = Hi(st) /\ g = Lo(st))
    BY <1>2, <1>4, <1>6 DEF Chain, Whole, Linked, Follows
  <1>8. Lo(st) \in Nat /\ Hi(st) \in Nat /\ Lo(st) + BufLen <= Hi(st)
    BY <1>1, PartFields DEF LongPart, Decoding
  <1>9. u + v > BufLen
    BY <1>5, <1>7, <1>8, Constants
  <1>10. QED
    BY <1>4, <1>9

LEMMA PassStocked ==
  ASSUME NEW s, NEW st, Rests(st), Active(st.src), NEW n \in Nat, Stocked(s, st, NoBuffer)
  PROVE  Stocked(s, [st EXCEPT !.src = Advance(@, n, st.used, Buffers, FALSE)], NoBuffer)
  <1> DEFINE src == st.src
             t == Advance(src, n, st.used, Buffers, FALSE)
             r == [st EXCEPT !.src = t]
  <1>1. /\ st \in StreamRec /\ src \in SourceRec /\ RingOK(src)
        /\ st.used \in [Buffers -> 0 .. BufLen]
    BY DEF Rests, StreamSound, RingSide, StreamRec
  <1>2. t \in SourceRec /\ t.mode = src.mode
    BY <1>1, AdvanceHeard
  <1>3. t.bufUsed = src.bufUsed
    <2>1. \/ SameRing(t, [src EXCEPT !.qactive = QNone])
          \/ SameRing(t, src)
          \/ SameRing(t, [src EXCEPT !.qactive = NextSlot(src.qactive)])
      BY <1>1, AdvancedSource
    <2>2. /\ [src EXCEPT !.qactive = QNone].bufUsed = src.bufUsed
          /\ [src EXCEPT !.qactive = NextSlot(src.qactive)].bufUsed = src.bufUsed
      BY <1>1 DEF SourceRec
    <2>3. QED
      BY <2>1, <2>2 DEF SameRing
  <1> HIDE DEF t
  <1>4. r.src = t /\ SameFile(st, r)
    BY <1>1, <1>2, WithSource
  <1> HIDE DEF r
  <1>5. Stocked(s, r, NoBuffer)
    BY <1>3, <1>4, StockedKept DEF SameFile, Decoding
  <1>6. QED
    BY <1>5 DEF r, t

(* The mix takes n of the m frames to come.                                *)
LEMMA PassAhead ==
  ASSUME MixLen <= BufLen,
         NEW s, NEW st, Rests(st), Ordered(st), Stocked(s, st, NoBuffer), HeardOf(st),
         NEW m \in 0 .. MixLen, NEW n \in 0 .. m, Ahead(st, m),
         n <= SamplesAvail(st.src, st.used)
  PROVE  LET r == [st EXCEPT !.src = Advance(@, n, st.used, Buffers, FALSE)]
         IN HeardOf(r) => Ahead(r, m - n)
  <1> DEFINE src == st.src
             t == Advance(src, n, st.used, Buffers, FALSE)
             r == [st EXCEPT !.src = t]
  <1>1. /\ st \in StreamRec /\ src \in SourceRec /\ RingOK(src) /\ Active(src)
        /\ RingSide(st) /\ st.used \in [Buffers -> 0 .. BufLen] /\ Sounding(st)
    BY DEF Rests, StreamSound, RingSide, StreamRec, HeardOf
  <1>2. n \in Nat /\ m \in Nat /\ m <= BufLen /\ n <= m
    BY Constants
  <1>3. /\ t \in SourceRec /\ t.mode = src.mode
        /\ t.bufferQueue = src.bufferQueue /\ t.qtail = src.qtail
        /\ \/ ~Active(t)
           \/ /\ Active(t)
              /\ \/ /\ ~PlaysOut(src, n, st.used)
                    /\ t.qactive = src.qactive /\ t.playPos = src.playPos + n
                 \/ /\ PlaysOut(src, n, st.used) /\ ~AtQueueEnd(src)
                    /\ t.qactive = NextSlot(src.qactive) /\ t.playPos = 0
    BY <1>1, <1>2, AdvanceHeard
  <1> HIDE DEF t
  <1>5. r.src = t /\ SameFile(st, r)
    BY <1>1, <1>3, WithSource
  <1> HIDE DEF r
  <1>7. PICK u \in Nat, p \in Nat : u = st.used[ActiveBuffer(src)] /\ p = src.playPos
    <2>1. ActiveBuffer(src) \in Buffers
      BY <1>1 DEF RingOK, ActiveBuffer
    <2>2. QED
      BY <1>1, <2>1, Constants DEF SourceRec
  <1>8. p < u
    BY <1>1, <1>7 DEF Sounding
  <1>9. n <= u - p
    <2>1. PICK d \in Nat : d = u - p
      BY <1>8
    <2>2. d % Wrap <= d
      BY <2>1, SourceAssumption
    <2>3. SamplesAvail(src, st.used) = d % Wrap
      BY <1>7, <2>1 DEF SamplesAvail
    <2>4. QED
      BY <1>2, <2>1, <2>2, <2>3, SourceAssumption
  <1>10. ASSUME HeardOf(r), Decoding(r) PROVE
           IF AtQueueEnd(t) THEN LeftIn(r) > m - n
           ELSE NextSlot(NextSlot(t.qactive)) = t.qtail => LeftIn(r) + NextUsed(r) > m - n
    <2>1. Active(t) /\ Decoding(st)
      BY <1>5, <1>10 DEF HeardOf, SameFile, Decoding
    <2>2. /\ LeftIn(r) = st.used[t.bufferQueue[t.qactive]] - t.playPos
          /\ NextUsed(r) = st.used[t.bufferQueue[NextSlot(t.qactive)]]
          /\ LeftIn(st) = u - p
          /\ NextUsed(st) = st.used[src.bufferQueue[NextSlot(src.qactive)]]
      BY <1>5, <1>7 DEF LeftIn, NextUsed, ActiveBuffer, SameFile
    <2>3. Chain(st)
      BY <2>1 DEF Ordered, Decoding
    <2>4. \A i \in Pending(src) : src.bufferQueue[i] \in Buffers
      BY <1>1, PendingInRing DEF RingOK
    <2>5. src.qactive \in Pending(src)
      BY <1>1, PendingInRing DEF RingOK, Ringed
    <2>6. ~AtQueueEnd(src) => NextSlot(src.qactive) \in Pending(src)
      BY <1>1, <2>5, NextIsPending DEF AtQueueEnd
    <2>7. CASE ~PlaysOut(src, n, st.used)
      <3>1. t.qactive = src.qactive /\ t.playPos = p + n
        BY <1>3, <1>7, <2>1, <2>7
      <3>2. LeftIn(r) = u - p - n
        <4>1. st.used[t.bufferQueue[t.qactive]] = u
          BY <1>3, <1>7, <3>1 DEF ActiveBuffer
        <4>2. LeftIn(r) = u - (p + n)
          BY <2>2, <3>1, <4>1
        <4>3. QED
          BY <1>2, <4>2
      <3>3. CASE AtQueueEnd(src)
        <4>1. u - p > m
          BY <2>1, <2>2, <3>3 DEF Ahead
        <4>2. AtQueueEnd(t)
          BY <1>3, <3>1, <3>3 DEF AtQueueEnd
        <4>3. QED
          BY <1>2, <3>2, <4>1, <4>2
      <3>4. CASE ~AtQueueEnd(src)
        <4>1. PICK v \in Nat : v = st.used[src.bufferQueue[NextSlot(src.qactive)]]
          BY <1>1, <2>4, <2>6, <3>4, Constants
        <4>2. NextSlot(NextSlot(src.qactive)) = src.qtail => u - p + v > m
          BY <2>1, <2>2, <3>4, <4>1 DEF Ahead
        <4>3. NextUsed(r) = v /\ ~AtQueueEnd(t)
          BY <1>3, <2>2, <3>1, <3>4, <4>1 DEF AtQueueEnd
        <4>4. QED
          BY <1>2, <1>3, <3>1, <3>2, <4>2, <4>3
      <3>5. QED
        BY <3>3, <3>4
    <2>8. CASE PlaysOut(src, n, st.used)
      <3>1. t.qactive = NextSlot(src.qactive) /\ t.playPos = 0 /\ ~AtQueueEnd(src)
        BY <1>3, <2>1, <2>8
      <3>2. n = u - p
        BY <1>2, <1>7, <1>9, <2>8 DEF PlaysOut
      <3>3. PICK v \in Nat : v = st.used[src.bufferQueue[NextSlot(src.qactive)]]
        BY <1>1, <2>4, <2>6, <3>1, Constants
      <3>4. LeftIn(r) = v
        BY <1>3, <2>2, <3>1, <3>3
      <3>5. CASE AtQueueEnd(t)
        <4>1. u - p + v > m
          BY <1>3, <2>1, <2>2, <3>1, <3>3, <3>5 DEF Ahead, AtQueueEnd
        <4>2. QED
          BY <1>2, <3>2, <3>4, <3>5, <4>1
      <3>6. CASE ~AtQueueEnd(t)
        <4>1. NextSlot(NextSlot(src.qactive)) # src.qtail
          BY <1>3, <3>1, <3>6 DEF AtQueueEnd
        <4>2. NextSlot(NextSlot(src.qactive)) \in Pending(src)
          BY <1>1, <2>6, <3>1, <4>1, NextIsPending
        <4>3. PICK w \in Nat :
                w = st.used[src.bufferQueue[NextSlot(NextSlot(src.qactive))]]
          BY <1>1, <2>4, <4>2, Constants
        <4>4. v + w > BufLen
          BY <1>1, <2>1, <2>3, <2>6, <3>1, <3>3, <4>1, <4>3, TwoBuffers DEF Stocked
        <4>5. NextUsed(r) = w
          BY <1>3, <2>2, <3>1, <4>3
        <4>6. v + w > m - n
          BY <1>2, <4>4, Constants
        <4>7. QED
          BY <3>4, <3>6, <4>5, <4>6
      <3>7. QED
        BY <3>5, <3>6
    <2>9. QED
      BY <2>7, <2>8
  <1>11. HeardOf(r) => Ahead(r, m - n)
    BY <1>5, <1>10 DEF Ahead
  <1>12. QED
    BY <1>11 DEF r, t

LEMMA CollectStock ==
  ASSUME OneLongStream, RingInv, KeepInv, Collect
  PROVE  KeepInv'
  <1> DEFINE st == Faded(stream[at])
  <1>1. /\ phase = "collect" /\ at \in Streams /\ at \in Nat /\ at < StreamLimit
        /\ DOMAIN stream = Streams
    BY Constants DEF Collect, RingInv, ControlOK, Streams
  <1>2. at = 0 /\ \A s \in Streams : s = at
    BY <1>1 DEF OneLongStream, Streams
  <1>3. filled = 0
    <2>1. filled \in Nat /\ filled <= QueueSize * 0
      BY <1>1, <1>2, Constants DEF RingInv, FilledOK
    <2>2. QED
      BY <2>1, Constants
  <1>4. Stocked(at, stream[at], NoBuffer) /\ Rests(stream[at])
    BY <1>1, RestingStocked, RestingStreams
  <1>5. CASE stream[at].src.state = "playing"
    <2>1. /\ stream' = [stream EXCEPT ![at] = st]
          /\ IF NeedsFill(st)
             THEN BeginFill(at, "collect") /\ UNCHANGED mixing
             ELSE /\ at' = at + 1
                  /\ mixing' = IF Active(st.src) THEN mixing \cup {at} ELSE mixing
                  /\ UNCHANGED <<phase, taken, back>>
      BY <1>5, Zenon DEF Collect
    <2>2. Stocked(at, st, NoBuffer)
      BY <1>4, FadedStocked
    <2> HIDE DEF st
    <2>3. \A s \in Streams : Stocked(s, stream'[s], NoBuffer) /\ stream'[s] = st
      BY <1>1, <1>2, <2>1, <2>2
    <2>4. CASE NeedsFill(st)
      <3>1. phase' = "fill" /\ taken' = NoBuffer
        BY <2>1, <2>4 DEF BeginFill
      <3>2. QED
        BY <2>3, <3>1 DEF KeepInv, StockOK, AheadOK, Filling
    <2>5. CASE ~NeedsFill(st)
      <3>1. phase' = "collect" /\ Fed(st)
        BY <1>1, <1>3, <2>1, <2>5 DEF NeedsFill, Fed, Decoding
      <3>2. QED
        BY <2>3, <3>1 DEF KeepInv, StockOK, AheadOK, Filling
    <2>6. QED
      BY <2>4, <2>5
  <1>6. CASE stream[at].src.state # "playing"
    <2>1. at' = at + 1 /\ UNCHANGED <<stream, phase, taken, back, mixing>>
      BY <1>6 DEF Collect
    <2>2. \A s \in Streams : Stocked(s, stream'[s], NoBuffer) /\ ~Heard(s)'
      BY <1>2, <1>4, <1>6, <2>1 DEF Heard
    <2>3. QED
      BY <1>1, <2>1, <2>2 DEF KeepInv, StockOK, AheadOK, Filling
  <1>7. QED
    BY <1>5, <1>6

LEMMA CollectedStock ==
  ASSUME RingInv, KeepInv, Collected
  PROVE  KeepInv'
  <1>1. /\ phase = "collect" /\ at = StreamLimit /\ phase' = "mix" /\ mixed' = mixed
        /\ stream' = stream
    BY DEF Collected
  <1>2. ASSUME NEW s \in Streams, Heard(s) PROVE Ahead(stream[s], MixLen - mixed)
    <2>1. Fed(stream[s]) /\ Stocked(s, stream[s], NoBuffer)
      BY <1>1, <1>2, RestingStocked DEF KeepInv, AheadOK
    <2>2. RingSide(stream[s]) /\ Active(stream[s].src)
      BY <1>1, <1>2, RestingStreams DEF Rests, StreamSound, Heard
    <2>3. QED
      BY <2>1, <2>2, FedAhead
  <1>3. AheadOK'
    BY <1>1, <1>2 DEF AheadOK, Heard
  <1>4. StockOK'
    BY <1>1, RestingStocked DEF StockOK, Filling
  <1>5. QED
    BY <1>3, <1>4 DEF KeepInv

LEMMA MixPassStock ==
  ASSUME OneLongStream, RingInv, TrackInv, KeepInv, NEW n \in 0 .. MixLen, MixPass(n)
  PROVE  KeepInv'
  <1> DEFINE T == [s \in Streams |->
                     [stream[s] EXCEPT
                        !.src = Advance(@, n, stream[s].used, Buffers, FALSE)]]
  <1>1. /\ phase = "mix" /\ mixed < MixLen /\ mixed' = mixed + n
        /\ IsFragment(n)
        /\ stream' = [s \in Streams |-> IF s \in Mixable THEN T[s] ELSE stream[s]]
        /\ UNCHANGED phase
    BY DEF MixPass
  <1>2. PICK m \in 0 .. MixLen : m = MixLen - mixed
    BY <1>1, Constants DEF RingInv, ControlOK
  <1>3. n \in 0 .. m /\ n \in Nat
    BY <1>1, <1>2, Constants DEF IsFragment, FragmentLens
  <1>4. ASSUME NEW s \in Streams
        PROVE  /\ Stocked(s, stream'[s], NoBuffer)
               /\ HeardOf(stream'[s]) => Ahead(stream'[s], m - n)
    <2>1. /\ Rests(stream[s]) /\ Ordered(stream[s]) /\ Stocked(s, stream[s], NoBuffer)
          /\ HeardOf(stream[s]) => Ahead(stream[s], m)
      BY <1>1, <1>2, RestingStreams, RestingStocked
         DEF TrackInv, OrderedOK, KeepInv, AheadOK, Heard, HeardOf
    <2>2. CASE s \in Mixable
      <3>1. Active(stream[s].src) /\ n <= SamplesAvail(stream[s].src, stream[s].used)
        BY <1>1, <2>2 DEF Mixable, IsFragment, FragmentLens
      <3>2. CASE HeardOf(stream[s])
        <4>1. Stocked(s, T[s], NoBuffer) /\ (HeardOf(T[s]) => Ahead(T[s], m - n))
          BY <1>3, <2>1, <3>1, <3>2, PassAhead, PassStocked DEF OneLongStream
        <4>2. QED
          BY <1>1, <2>2, <4>1
      <3>3. CASE ~HeardOf(stream[s])
        <4>1. Stocked(s, T[s], NoBuffer) /\ ~HeardOf(T[s])
          BY <1>3, <2>1, <3>1, <3>3, PassOrdered, PassStocked
        <4>2. QED
          BY <1>1, <2>2, <4>1
      <3>4. QED
        BY <3>2, <3>3
    <2>3. CASE s \notin Mixable
      <3>1. stream'[s] = stream[s]
        BY <1>1, <2>3
      <3>2. ~HeardOf(stream[s])
        BY <1>1, <2>3 DEF TrackInv, MixingOK, Mixable, Heard, HeardOf
      <3>3. QED
        BY <2>1, <3>1, <3>2
    <2>4. QED
      BY <2>2, <2>3
  <1> HIDE DEF T
  <1>5. StockOK'
    BY <1>1, <1>4 DEF StockOK, Filling
  <1>6. MixLen - mixed' = m - n
    BY <1>1, <1>2, <1>3, Constants DEF RingInv, ControlOK
  <1>7. AheadOK'
    BY <1>1, <1>4, <1>6 DEF AheadOK, Heard, HeardOf
  <1>8. QED
    BY <1>5, <1>7 DEF KeepInv

LEMMA CycleStock ==
  ASSUME OneLongStream, RingInv, TrackInv, KeepInv, Cycle
  PROVE  KeepInv'
  <1>1. CASE Update
    <2>1. /\ phase = "wait" /\ phase' = "collect" /\ UNCHANGED <<stream, at>>
      BY <1>1 DEF Update
    <2>2. at = 0
      BY <2>1 DEF TrackInv, MixingOK
    <2>3. \A s \in Streams : Stocked(s, stream[s], NoBuffer)
      BY <2>1, RestingStocked
    <2>4. QED
      BY <2>1, <2>2, <2>3, Constants DEF KeepInv, StockOK, AheadOK, Filling
  <1>2. CASE Write
    <2>1. phase = "mix" /\ phase' = "wait" /\ UNCHANGED stream
      BY <1>2 DEF Write
    <2>2. \A s \in Streams : Stocked(s, stream'[s], NoBuffer)
      BY <2>1, RestingStocked
    <2>3. QED
      BY <2>1, <2>2, RestingStock
  <1>3. QED
    BY <1>1, <1>2, CollectStock, CollectedStock, MixPassStock DEF Cycle

-----------------------------------------------------------------------------
(* What follows                                                            *)

LEMMA InitStock == Init => KeepInv
  <1> SUFFICES ASSUME Init PROVE KeepInv
    OBVIOUS
  <1>1. phase = "wait" /\ \A s \in Streams : stream[s] = StreamInit
    BY DEF Init
  <1>2. ~StreamInit.open
    BY DEF StreamInit
  <1>3. \A s \in Streams : Stocked(s, stream[s], NoBuffer)
    BY <1>1, <1>2 DEF Stocked, LongPart, RingFull, Decoding
  <1>4. QED
    BY <1>1, <1>3 DEF KeepInv, StockOK, AheadOK, Filling

LEMMA NextStock ==
  ASSUME OneLongStream, RingInv, TrackInv, KeepInv, [Next]_vars
  PROVE  KeepInv'
  <1>1. CASE Command
    BY <1>1, CommandStock
  <1>2. CASE Work
    BY <1>2, FillStock, CycleStock DEF Work, TrackInv
  <1>3. CASE UNCHANGED vars
    <2>1. /\ stream' = stream /\ phase' = phase /\ at' = at /\ taken' = taken
          /\ mixed' = mixed
      BY <1>3 DEF vars
    <2>2. StockOK' /\ AheadOK'
      BY <2>1 DEF KeepInv, StockOK, AheadOK, Filling, Heard
    <2>3. QED
      BY <2>2 DEF KeepInv
  <1>4. QED
    BY <1>1, <1>2, <1>3 DEF Next

(* One stream, whose buffers last for a cycle and whose files and parts    *)
(* fill a buffer, never plays its last buffer out while its file has more: *)
(* one fill a cycle, of every buffer that was played out, is enough        *)
(* however short the last buffers of its laps are.                         *)
THEOREM DecodingIsAhead ==
  ASSUME OneLongStream PROVE Spec => []DecodingKeepsUp
  <1>1. KeepInv => DecodingKeepsUp
    BY DEF KeepInv, AheadOK, Ahead, DecodingKeepsUp, Decoding, LeftIn
  <1>2. RingInv /\ TrackInv /\ KeepInv /\ [Next]_vars => KeepInv'
    BY NextStock
  <1>3. QED
    BY <1>1, <1>2, InitStock, Invariance, TrackInvariance, PTL DEF Spec

(* So what is heard of it is its part, in order and without a gap.         *)
THEOREM StreamIsTrack ==
  ASSUME OneLongStream PROVE Spec => ImplementsTrack
  <1>1. QED
    BY DecodingIsAhead, StreamsAreTracks, PTL

=============================================================================
