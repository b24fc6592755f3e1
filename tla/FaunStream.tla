----------------------------- MODULE FaunStream -----------------------------
(***************************************************************************)
(* The streams of faun.c: Ogg files that the audio thread decodes into     *)
(* four buffers, which the mixer plays as the queue of a FaunSource.       *)
(*                                                                         *)
(* A command is one action, except that stream_fillBuffers, called by a    *)
(* command or by the update cycle, takes a step for each buffer it takes   *)
(* and each call of _readOgg.  A file is its number of frames; positions   *)
(* in it are frames at the mixing rate.                                    *)
(***************************************************************************)
EXTENDS FaunSource

CONSTANTS StreamLimit,  \* number of streams
          BufLen,       \* frames in a stream buffer, a quarter of a second
          FileSizes,    \* FileSizes[s]: sizes of the files stream s opens
          Parts,        \* Parts[s]: the <<start, duration>> it may be given
          StreamModes,  \* StreamModes[s]: the modes it is played with
          StreamEnds,   \* StreamEnds[s]: values of FAUN_END_TIME, in frames
          Volumes,      \* values of FAUN_VOLUME
          Periods,      \* values of FAUN_FADE_PERIOD, in update cycles
          FadeStreams,  \* streams that are told to fade, or given a volume
          HaltStreams,  \* streams that are stopped and started
          MaxErrors,    \* failing opens and reads in a behaviour
          MaxCommands   \* commands in a behaviour

Streams == 0 .. StreamLimit - 1

ASSUME StreamAssumption ==
  /\ StreamLimit \in Nat \ {0}
  /\ IsFiniteSet(Buffers) /\ Cardinality(Buffers) = QueueSize  \* STREAM_BUFFERS
  /\ BufLen \in Nat \ {0}
  /\ \A s \in Streams : FileSizes[s] \subseteq Nat \ {0}
  /\ \A s \in Streams : Parts[s] \subseteq Nat \X (Nat \ {0})
  /\ \A s \in Streams : StreamModes[s] \subseteq Modes
  /\ \A s \in Streams : StreamEnds[s] \subseteq Nat \ {0}
  /\ Volumes \subseteq Nat /\ Periods \subseteq Nat \ {0}
  /\ FadeStreams \subseteq Streams /\ HaltStreams \subseteq Streams
  /\ MaxErrors \in Nat /\ MaxCommands \in Nat

VARIABLES stream,   \* _stream: StreamOV, with the file's size and position
          phase,    \* "wait" for a command, "collect", "fill" or "mix"
          at,       \* the stream being filled, or collected next
          taken,    \* freeBuf
          back,     \* the phase that stream_fillBuffers returns to
          filled,   \* buffers filled in this cycle
          mixing,   \* streams in mixSource
          mixed,    \* frames of this cycle already mixed
          errors,   \* opens and reads that failed so far
          commands, \* commands so far
          done      \* history: DONE signals since the stream was played

vars == <<stream, phase, at, taken, back, filled, mixing, mixed, errors, commands, done>>
cycle == <<at, taken, back, filled, mixing, mixed>>

DoneCap == 2

(* The queue is given the four buffers when the stream is first started.   *)
StreamInit ==
  [src |-> SourceInit, feed |-> FALSE, open |-> FALSE, known |-> FALSE,
   size |-> 0, pos |-> 0, start |-> 0, sampleCount |-> 0, sampleLimit |-> 0,
   used |-> [b \in Buffers |-> 0],
   from |-> [b \in Buffers |-> 0],  \* history: file position of the buffer
   failed |-> FALSE]                \* history: closed before its end

Init ==
  /\ stream = [s \in Streams |-> StreamInit]
  /\ phase = "wait" /\ back = "wait"
  /\ at = 0 /\ filled = 0 /\ mixed = 0 /\ errors = 0 /\ commands = 0
  /\ taken = NoBuffer
  /\ mixing = {}
  /\ done = [s \in Streams |-> 0]

\* Mutant: only streams played once signal.
SignalledOnce(S) ==
  [s \in Streams |-> IF s \in S /\ {"signal_done", "once"} \subseteq stream[s].src.mode
                        /\ done[s] < DoneCap
                     THEN done[s] + 1 ELSE done[s]]

Signalled(S) ==
  [s \in Streams |-> IF s \in S /\ "signal_done" \in stream[s].src.mode
                        /\ done[s] < DoneCap
                     THEN done[s] + 1 ELSE done[s]]

-----------------------------------------------------------------------------
(* The buffer ring                                                         *)

\* Mutant: the buffer being played is free for decoding too.
HasAny(src) == src.bufUsed > 0

HasProcessed(src) == src.bufUsed > 0 /\ src.qactive # src.qhead

(* faun_processedBuffer, without its result.                               *)
Dequeue(src) == [src EXCEPT !.qhead = NextSlot(@), !.bufUsed = @ - 1]

(* An order of the buffers, as in StreamOV.buffers.                        *)
BufferAt == CHOOSE f \in [Slots -> Buffers] : \A i, j \in Slots : i # j => f[i] # f[j]

(* faun_sourceResetQueue, and the priming in stream_start.                 *)
Prime(src) ==
  [src EXCEPT !.bufUsed = QueueSize, !.qtail = 0, !.qhead = 0, !.qactive = QNone,
              !.bufferQueue = BufferAt]

SegmentSet(st) == st.sampleLimit # 0

(* stream_stop                                                             *)
Stopped(st) ==
  [st EXCEPT !.src.state = "stopped", !.feed = FALSE, !.open = FALSE,
             !.failed = @ \/ (st.feed /\ st.open)]

-----------------------------------------------------------------------------
(* stream_fillBuffers                                                      *)

BeginFill(s, to) ==
  /\ phase' = "fill" /\ back' = to
  /\ at' = s
  /\ taken' = NoBuffer

(* stream_start, to the call of stream_fillBuffers.                        *)
StartStream(s, st) ==
  /\ stream' = [stream EXCEPT ![s] =
                  [st EXCEPT !.src = Prime(@), !.feed = TRUE,
                             !.used = [b \in Buffers |-> 0],
                             !.from = [b \in Buffers |-> 0]]]
  /\ BeginFill(s, "wait")

(* The rest of stream_start.                                               *)
Started(st) ==
  IF st.sampleCount # 0
  THEN [st EXCEPT !.src.state = "playing", !.src.playPos = 0, !.src.framesOut = 0]
  ELSE st

(* The stream that was filled is mixed in this cycle if it has a buffer.   *)
FillReturns(st) ==
  /\ taken' = NoBuffer
  /\ phase' = back
  /\ IF back = "wait"
     THEN /\ stream' = [stream EXCEPT ![at] = Started(st)]
          /\ at' = 0
          /\ UNCHANGED mixing
     ELSE /\ stream' = [stream EXCEPT ![at] = st]
          /\ at' = at + 1
          /\ mixing' = IF Active(st.src) THEN mixing \cup {at} ELSE mixing

FillTake ==
  LET st == stream[at] IN
  /\ phase = "fill" /\ taken = NoBuffer
  /\ IF HasProcessed(st.src)
     THEN /\ taken' = st.src.bufferQueue[st.src.qhead]
          /\ stream' = [stream EXCEPT ![at].src = Dequeue(@)]
          /\ filled' = IF back = "wait" THEN filled ELSE filled + 1
          /\ UNCHANGED <<phase, at, mixing>>
     ELSE FillReturns(st) /\ UNCHANGED filled
  /\ UNCHANGED <<back, mixed, errors, done>>

MaxBefore == 1          \* frames read before an error, of fewer than BufLen

(* What _readOgg reads: up to BufLen frames, or `n' before an error.       *)
Readable(st) == IF ~st.open THEN 0
                ELSE IF st.size - st.pos < BufLen THEN st.size - st.pos ELSE BufLen

\* Mutant: the file is not wound back.
RewoundNot(st) == [st EXCEPT !.sampleCount = IF SegmentSet(st) THEN 0 ELSE @]

(* ov_time_seek(st->start), ov_raw_seek(0); a start beyond the end of the  *)
(* file is refused and leaves the position.                                *)
Rewound(st) ==
  IF SegmentSet(st)
  THEN [st EXCEPT !.pos = IF st.start <= st.size THEN st.start ELSE @, !.sampleCount = 0]
  ELSE [st EXCEPT !.pos = 0]

(* Frames beyond the limit of a segment, of those in the buffer just read. *)
Excess(st) == st.sampleCount - st.sampleLimit
AtLimit(st) == SegmentSet(st) /\ st.sampleCount >= st.sampleLimit

\* Mutant: the last buffer of a segment is not cut.
QueueWhole(st, b, n) == [st EXCEPT !.src = QueueBuffer(@, b)]

(* The buffer is queued with the frames inside the segment.                *)
QueueRead(st, b, n) ==
  [st EXCEPT !.used[b] = IF AtLimit(st) THEN n - Excess(st) ELSE n,
             !.src = QueueBuffer(@, b)]

(* One call of _readOgg and what follows it in the loop.                   *)
FillRead(n, error) ==
  LET st   == stream[at]
      read == [st EXCEPT !.pos = @ + n, !.used[taken] = n, !.from[taken] = st.pos,
                         !.sampleCount = @ + n]
      data == n > 0 /\ ~(AtLimit(read) /\ Excess(read) >= n)
      eof  == (~error /\ n < BufLen) \/ (n > 0 /\ AtLimit(read))
      kept == IF data THEN QueueRead(read, taken, n) ELSE read
  IN
  /\ phase = "fill" /\ taken # NoBuffer
  /\ IF error THEN n <= Readable(st) /\ n <= MaxBefore /\ (st.open => errors < MaxErrors)
              ELSE n = Readable(st) /\ st.open
  /\ errors' = IF error /\ st.open THEN errors + 1 ELSE errors
  /\ CASE error ->
            FillReturns([kept EXCEPT !.open = FALSE, !.failed = TRUE])
       [] ~error /\ eof /\ "loop" \in st.src.mode ->
            /\ stream' = [stream EXCEPT ![at] = Rewound(kept)]
            /\ taken' = IF data THEN NoBuffer ELSE taken
            /\ UNCHANGED <<phase, at, mixing>>
       [] ~error /\ eof /\ "loop" \notin st.src.mode ->
            FillReturns(IF SegmentSet(st) THEN [kept EXCEPT !.feed = FALSE]
                                          ELSE [kept EXCEPT !.open = FALSE])
       [] OTHER ->
            /\ stream' = [stream EXCEPT ![at] = kept]
            /\ taken' = NoBuffer
            /\ UNCHANGED <<phase, at, mixing>>
  /\ UNCHANGED <<back, filled, mixed, done>>

Fill == FillTake \/ \E n \in 0 .. BufLen, error \in BOOLEAN : FillRead(n, error)

-----------------------------------------------------------------------------
(* Commands, and the operations of programs that do the same to a stream   *)

Spans == {S \in SUBSET Streams : \E i, j \in Streams : i <= j /\ S = i .. j}

TransformSources(S, f(_)) ==
  stream' = [s \in Streams |-> IF s \in S THEN [stream[s] EXCEPT !.src = f(@)]
                                          ELSE stream[s]]

(* What the file may be asked for: fadePos as for a source.                *)
FileMode(src, size, mode) ==
  LET s  == SetMode(src, mode)
      ff == s.fadePeriod * MixLen
  IN [s EXCEPT !.fadePos = IF "fade_out" \in mode /\ size > 2 * ff THEN size - ff ELSE @]

(* CMD_OPEN_STREAM, when ov_open_callbacks succeeds ...                    *)
PlayStream(s, size, mode) ==
  LET stop == Stopped(stream[s])
      st   == [stop EXCEPT !.open = TRUE, !.known = TRUE, !.size = size, !.pos = 0,
                           !.sampleCount = 0, !.sampleLimit = 0, !.failed = FALSE,
                           !.src = FileMode(@, size, mode)]
  IN
  /\ phase = "wait"
  /\ IF mode \cap {"once", "loop"} # {}
     THEN StartStream(s, st)
     ELSE stream' = [stream EXCEPT ![s] = st] /\ UNCHANGED <<phase, at, taken, back>>
  /\ done' = [done EXCEPT ![s] = 0]
  /\ UNCHANGED <<filled, mixing, mixed, errors>>

(* ... and when it fails.                                                  *)
OpenFails(s) ==
  /\ phase = "wait"
  /\ errors < MaxErrors
  /\ errors' = errors + 1
  /\ stream' = [stream EXCEPT ![s] = Stopped(@)]
  /\ UNCHANGED <<phase, cycle, done>>

(* CMD_PLAY_STREAM_PART; the stream was opened before, but its file may    *)
(* have been closed since.                                                 *)
PlayStreamPart(s, start, duration, mode) ==
  LET st == [stream[s] EXCEPT !.start = start, !.sampleCount = 0,
                              !.sampleLimit = duration,
                              !.pos = IF stream[s].open /\ start <= stream[s].size
                                      THEN start ELSE @,
                              !.failed = FALSE,
                              !.src = [SetMode(@, mode) EXCEPT !.state = "stopped"]]
  IN
  /\ phase = "wait"
  /\ stream[s].known
  /\ StartStream(s, st)
  /\ done' = [done EXCEPT ![s] = 0]
  /\ UNCHANGED <<filled, mixing, mixed, errors>>

(* FO_STREAM_ONCE, FO_STREAM_LOOP                                          *)
StreamOp(s, loop) ==
  /\ phase = "wait"
  /\ StartStream(s, [stream[s] EXCEPT !.src.mode = IF loop THEN @ \cup {"loop"} ELSE @])
  /\ done' = [done EXCEPT ![s] = 0]
  /\ UNCHANGED <<filled, mixing, mixed, errors>>

Control(S, f(_)) ==
  /\ phase = "wait"
  /\ TransformSources(S, f)
  /\ UNCHANGED <<phase, cycle, errors, done>>

(* CMD_CON_START, CMD_CON_STOP, CMD_CON_RESUME                             *)
ControlState(S, to) ==
  Control(S, LAMBDA src : IF Active(src) THEN [src EXCEPT !.state = to] ELSE src)

Start(S) == ControlState(S, "playing")
Stop(S)  == ControlState(S, "stopped")

FadeOut(S)          == Control(S, StartFadeOut)
FadeIn(s)           == Control({s}, StartFadeIn)
SetVolume(S, v)     == Control(S, LAMBDA src : [src EXCEPT !.volume = v, !.gain = v])
SetFadePeriod(S, p) == Control(S, LAMBDA src : [src EXCEPT !.fadePeriod = p])
SetEndTime(s, e)    == Control({s}, LAMBDA src : [src EXCEPT !.endPos = e])

-----------------------------------------------------------------------------
(* The update cycle                                                        *)

(* The deadline passes.                                                    *)
Update ==
  /\ phase = "wait"
  /\ phase' = "collect"
  /\ filled' = 0
  /\ UNCHANGED <<stream, at, taken, back, mixing, mixed, errors, done>>

(* source_fade of a stream                                                 *)
Faded(st) ==
  IF st.src.fade # 0
  THEN LET faded == [st EXCEPT !.src = Fade(@)]
       IN IF Silenced(st.src) THEN Stopped(faded) ELSE faded
  ELSE st

\* Mutant: a stream is decoded only when it has nothing left to play.
NeedsFillLate(st) == st.feed /\ st.open /\ filled = 0 /\ ~Active(st.src)

(* "Decoding only one stream per loop unless some streams have no          *)
(* previously filled buffer to play."                                      *)
NeedsFill(st) == st.feed /\ st.open /\ (filled = 0 \/ ~Active(st.src))

(* One turn of "Read streams and collect their sources".                   *)
Collect ==
  LET st == Faded(stream[at]) IN
  /\ phase = "collect" /\ at < StreamLimit
  /\ IF stream[at].src.state = "playing"
     THEN /\ stream' = [stream EXCEPT ![at] = st]
          /\ done' = Signalled(IF Silenced(stream[at].src) THEN {at} ELSE {})
          /\ IF NeedsFill(st)
             THEN BeginFill(at, "collect") /\ UNCHANGED mixing
             ELSE /\ at' = at + 1
                  /\ mixing' = IF Active(st.src) THEN mixing \cup {at} ELSE mixing
                  /\ UNCHANGED <<phase, taken, back>>
     ELSE at' = at + 1 /\ UNCHANGED <<stream, phase, taken, back, mixing, done>>
  /\ UNCHANGED <<filled, mixed, errors>>

Collected ==
  /\ phase = "collect" /\ at = StreamLimit
  /\ phase' = "mix" /\ at' = 0 /\ filled' = 0
  /\ UNCHANGED <<stream, taken, back, mixing, mixed, errors, done>>

Mixable == {s \in mixing : Active(stream[s].src)}

FragmentLens ==
  {MixLen - mixed} \cup {SamplesAvail(stream[s].src, stream[s].used) : s \in Mixable}

IsFragment(n) == n \in FragmentLens /\ \A m \in FragmentLens : n <= m

MixPass(n) ==
  /\ phase = "mix" /\ mixed < MixLen
  /\ IsFragment(n)
  /\ stream' = [s \in Streams |->
                  IF s \in Mixable
                  THEN [stream[s] EXCEPT
                          !.src = Advance(@, n, stream[s].used, Buffers, FALSE)]
                  ELSE stream[s]]
  /\ done' = Signalled({s \in Mixable :
                          Finishes(stream[s].src, n, stream[s].used, Buffers, FALSE)})
  /\ mixed' = mixed + n
  /\ UNCHANGED <<phase, at, taken, back, filled, mixing, errors>>

Write ==
  /\ phase = "mix" /\ mixed = MixLen
  /\ phase' = "wait" /\ mixed' = 0 /\ mixing' = {}
  /\ UNCHANGED <<stream, at, taken, back, filled, errors, done>>

-----------------------------------------------------------------------------

(* The application knows where its files end.                              *)
PartsOf(s) == {p \in Parts[s] : p[1] < stream[s].size}

(* It starts streams again that were stopped, and no others.               *)
Startable(S) == \A s \in S : stream[s].sampleCount # 0

PlayCommand ==
  \/ \E s \in Streams : \E size \in FileSizes[s], mode \in StreamModes[s] :
       PlayStream(s, size, mode)
  \/ \E s \in Streams : OpenFails(s)
  \/ \E s \in Streams : \E p \in PartsOf(s), mode \in StreamModes[s] :
       PlayStreamPart(s, p[1], p[2], mode)

(* Programs start streams that were opened and not played.                 *)
ProgramOp ==
  \E s \in Streams, loop \in BOOLEAN :
    /\ stream[s].open /\ ~stream[s].feed /\ stream[s].sampleCount = 0
    /\ StreamOp(s, loop)

ControlCommand ==
  \/ \E S \in Spans : S \subseteq HaltStreams /\ Startable(S) /\ Start(S)
  \/ \E S \in Spans : S \subseteq HaltStreams /\ Stop(S)
  \/ \E S \in Spans : S \subseteq FadeStreams /\ FadeOut(S)
  \/ \E s \in FadeStreams : FadeIn(s)
  \/ \E S \in Spans, v \in Volumes : S \subseteq FadeStreams /\ SetVolume(S, v)
  \/ \E S \in Spans, p \in Periods : S \subseteq FadeStreams /\ SetFadePeriod(S, p)
  \/ \E s \in Streams : \E e \in StreamEnds[s] : SetEndTime(s, e)

Cycle == Update \/ Collect \/ Collected \/ (\E n \in 0 .. MixLen : MixPass(n)) \/ Write

Command ==
  /\ commands < MaxCommands
  /\ commands' = commands + 1
  /\ PlayCommand \/ ProgramOp \/ ControlCommand

Work == (Fill \/ Cycle) /\ UNCHANGED commands

Next == Command \/ Work

Spec == Init /\ [][Next]_vars

(* The audio thread does not stop in its loop.                             *)
FairSpec == Spec /\ WF_vars(Work)

-----------------------------------------------------------------------------
(* Properties                                                              *)

TypeOK ==
  /\ DOMAIN stream = Streams
  /\ \A s \in Streams :
       LET st == stream[s] IN
       /\ SourceType(st.src)
       /\ {st.feed, st.open, st.known, st.failed} \subseteq BOOLEAN
       /\ {st.size, st.pos, st.start, st.sampleCount, st.sampleLimit} \subseteq Nat
       /\ st.used \in [Buffers -> 0 .. BufLen] /\ st.from \in [Buffers -> Nat]
  /\ phase \in {"wait", "collect", "fill", "mix"} /\ back \in {"wait", "collect"}
  /\ at \in 0 .. StreamLimit /\ (phase = "fill" => at < StreamLimit)
  /\ taken \in Buffers \cup {NoBuffer}
  /\ filled \in 0 .. QueueSize * StreamLimit /\ mixed \in 0 .. MixLen
  /\ mixing \subseteq Streams
  /\ errors \in 0 .. MaxErrors /\ commands \in 0 .. MaxCommands
  /\ done \in [Streams -> 0 .. DoneCap]

(* Slots from the current buffer to the tail: what is still to be heard.   *)
Pending(src) ==
  IF ~Active(src) THEN {}
  ELSE {i \in Slots : IF src.qactive < src.qtail
                      THEN i \in src.qactive .. src.qtail - 1
                      ELSE i >= src.qactive \/ i < src.qtail}

Heard(s) == stream[s].src.state = "playing" /\ Active(stream[s].src)

(* The decoder never writes a buffer that is still to be heard, no buffer  *)
(* is queued twice, and each one queued has frames: the ring's head, tail  *)
(* and current buffer are moved by the decoder and the mixer in turn.      *)
RingSound ==
  \A s \in Streams :
    LET src == stream[s].src IN
    /\ \A i, j \in Pending(src) :
         i # j => src.bufferQueue[i] # src.bufferQueue[j]
    /\ \A i \in Pending(src) :
         /\ stream[s].used[src.bufferQueue[i]] > 0
         /\ ~(phase = "fill" /\ at = s /\ taken = src.bufferQueue[i])
    /\ Heard(s) => src.playPos < stream[s].used[ActiveBuffer(src)]

StreamOK == TypeOK /\ RingSound

(* A stream marked as playing is heard: it has a buffer when the commands  *)
(* are done, so it will come to an end and be signalled.                   *)
PlayingIsHeard ==
  phase = "wait" => \A s \in Streams :
    stream[s].src.state = "playing" => Heard(s)

(* Although one stream only is decoded in a cycle, none plays its last     *)
(* buffer out in the mix while its file has more: it would end there.      *)
DecodingKeepsUp ==
  phase = "mix" => \A s \in Streams :
    LET st == stream[s] IN
    Heard(s) /\ st.feed /\ st.open /\ AtQueueEnd(st.src)
    => st.used[ActiveBuffer(st.src)] - st.src.playPos > MixLen - mixed

NextFrame(st) ==
  IF Active(st.src) THEN st.from[ActiveBuffer(st.src)] + st.src.playPos ELSE 0

PartOf(st) ==
  LET lo == IF SegmentSet(st) THEN st.start ELSE 0
      hi == IF SegmentSet(st) /\ st.start + st.sampleLimit < st.size
            THEN st.start + st.sampleLimit ELSE st.size
  IN [lo |-> lo, hi |-> hi, loop |-> "loop" \in st.src.mode]

Track == INSTANCE StreamTrack WITH
  Longest <- MixLen,
  hearing <- phase = "mix",
  on      <- [s \in Streams |-> Heard(s)],
  next    <- [s \in Streams |-> NextFrame(stream[s])],
  part    <- [s \in Streams |-> PartOf(stream[s])],
  left    <- [s \in Streams |-> stream[s].src.endPos - stream[s].src.framesOut],
  failed  <- [s \in Streams |-> stream[s].failed]

(* Through decoding ahead into the ring, partial buffers, laps, the end of *)
(* the file and of the segment, what is heard is the part in order: no     *)
(* frame is lost, repeated or out of place, and no stream ends for want of *)
(* a buffer.                                                               *)
ImplementsTrack == Track!Spec

(* The loop of stream_fillBuffers ends: it is left although a lap reads    *)
(* the same buffer again.                                                  *)
FillEnds == phase = "fill" ~> phase # "fill"

(* A stream that is heard and was asked for DONE gives it, or is stopped   *)
(* by a command: a thread in faun_waitSignal is answered even if decoding  *)
(* fails half way.                                                         *)
WaiterAnswered ==
  \A s \in Streams :
    Heard(s) /\ "signal_done" \in stream[s].src.mode
    ~> done[s] > 0 \/ stream[s].src.state = "stopped"

-----------------------------------------------------------------------------
(* What the comments of faun.c say and the code does not do.               *)

(* FaunPlayMode: FAUN_PLAY_LOOP is "Used to initiate playback of a source  *)
(* or stream and repeat it forever".                                       *)
LoopIsHeard ==
  \A s \in Streams :
    /\ phase = "fill" /\ back = "wait" /\ at = s
    /\ stream[s].open /\ "loop" \in stream[s].src.mode
    ~> Heard(s)

=============================================================================
