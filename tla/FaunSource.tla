----------------------------- MODULE FaunSource -----------------------------
(***************************************************************************)
(* FaunSource of faun.c as a record, and the functions of the audio thread *)
(* that transform one source: the buffer queue, the play mode, the gain    *)
(* fade, and the advance of the play position after a mix pass.            *)
(*                                                                         *)
(* Time is counted in frames and in update cycles of MixLen frames.  A     *)
(* gain is a number of equal steps, a fade period a number of cycles;      *)
(* volumes are multiples of the periods, so FADE_DELTA is exact.           *)
(***************************************************************************)
EXTENDS Integers, Sequences, FiniteSets

CONSTANTS Buffers,      \* buffer identifiers (and those of stream buffers)
          NoBuffer,     \* an entry of bufferQueue never written
          QueueSize,    \* SOURCE_QUEUE_SIZE
          QNone,        \* QACTIVE_NONE
          EndNone,      \* END_POS_NONE
          MixLen,       \* frames per update cycle, voice->mix.used
          Wrap,         \* modulus of uint32_t
          MaxGain,      \* default volume, 1.0
          DefaultPeriod \* default fadePeriod, in update cycles

ASSUME SourceAssumption ==
  /\ QueueSize \in Nat \ {0, 1, 2, 3}       \* a FAUN_TRIO fits in the queue
  /\ QNone \notin Nat
  /\ NoBuffer \notin Buffers
  /\ EndNone \in Nat \ {0}
  /\ MixLen \in Nat \ {0}
  /\ Wrap \in Nat \ {0}
  /\ MaxGain \in Nat \ {0}
  /\ DefaultPeriod \in Nat \ {0}

Slots  == 0 .. QueueSize - 1
States == {"unused", "playing", "stopped"}
Modes  == SUBSET {"once", "loop", "fade_in", "fade_out", "signal_done"}

(* What faun_playSource can be given: one buffer, FAUN_PAIR or FAUN_TRIO.  *)
Playlists == {q \in Seq(Buffers) : Len(q) \in 1 .. 3}

SourceInit ==
  [state |-> "unused", bufUsed |-> 0, qtail |-> 0, qhead |-> 0, qactive |-> QNone,
   mode |-> {}, gain |-> MaxGain, fade |-> 0, volume |-> MaxGain,
   fadePeriod |-> DefaultPeriod, playPos |-> 0, framesOut |-> 0,
   endPos |-> EndNone, fadePos |-> EndNone,
   bufferQueue |-> [i \in Slots |-> NoBuffer]]

SourceFields ==
  {"state", "bufUsed", "qtail", "qhead", "qactive", "mode", "gain", "fade", "volume",
   "fadePeriod", "playPos", "framesOut", "endPos", "fadePos", "bufferQueue"}

SourceType(src) ==
  /\ DOMAIN src = SourceFields
  /\ src.state \in States
  /\ src.bufUsed \in 0 .. QueueSize
  /\ src.qtail \in Slots /\ src.qhead \in Slots
  /\ src.qactive \in Slots \cup {QNone}
  /\ src.mode \in Modes
  /\ src.gain \in Int /\ src.fade \in Int
  /\ src.volume \in Nat /\ src.fadePeriod \in Nat \ {0}
  /\ src.playPos \in Nat /\ src.framesOut \in Nat
  /\ src.endPos \in Nat /\ src.fadePos \in Nat
  /\ src.bufferQueue \in [Slots -> Buffers \cup {NoBuffer}]

-----------------------------------------------------------------------------
(* The buffer queue                                                        *)

NextSlot(i) == IF i + 1 = QueueSize THEN 0 ELSE i + 1

Active(src) == src.qactive # QNone
ActiveBuffer(src) == src.bufferQueue[src.qactive]

(* A queue that is only ever appended to: slots 0 .. bufUsed - 1 are filled *)
(* and the current buffer is one of them.                                  *)
QueueShape(src) ==
  /\ src.qhead = 0
  /\ src.qtail = IF src.bufUsed = QueueSize THEN 0 ELSE src.bufUsed
  /\ Active(src) => src.qactive < src.bufUsed
  /\ \A i \in Slots : i < src.bufUsed => src.bufferQueue[i] \in Buffers

(* faun_queueBuffer; a full queue drops the buffer with a message.         *)
QueueBuffer(src, b) ==
  IF src.bufUsed < QueueSize
  THEN [src EXCEPT !.bufUsed = @ + 1,
                   !.bufferQueue[src.qtail] = b,
                   !.qactive = IF @ = QNone THEN src.qtail ELSE @,
                   !.qtail = NextSlot(@)]
  ELSE src

\* Mutant: the count of the old queue is kept.
SetPlaylistMore(src, q) ==
  [src EXCEPT !.bufUsed = IF @ > Len(q) THEN @ ELSE Len(q),
              !.qtail = Len(q),
              !.qhead = 0,
              !.qactive = 0,
              !.bufferQueue =
                 [i \in Slots |-> IF i < Len(q) THEN q[i + 1] ELSE @[i]]]

(* faun_setBuffer with the first buffer of a playlist, then                *)
(* faun_queueBuffer with each of the others.                               *)
SetPlaylist(src, q) ==
  [src EXCEPT !.bufUsed = Len(q),
              !.qtail = Len(q),
              !.qhead = 0,
              !.qactive = 0,
              !.bufferQueue =
                 [i \in Slots |-> IF i < Len(q) THEN q[i + 1] ELSE @[i]]]

\* Mutant: only playing sources are detached.
DetachPlaying(src, loaded) ==
  IF src.state = "playing" /\ Active(src) /\ ActiveBuffer(src) \notin loaded
  THEN [src EXCEPT !.qactive = QNone, !.state = "unused"]
  ELSE src

(* faun_detachBuffers, for one source; `loaded' holds the buffers with     *)
(* sample memory.                                                          *)
Detach(src, loaded) ==
  IF Active(src) /\ ActiveBuffer(src) \notin loaded
  THEN [src EXCEPT !.qactive = QNone, !.state = "unused"]
  ELSE src

-----------------------------------------------------------------------------
(* Gain                                                                    *)

FadeDelta(src) == src.volume \div src.fadePeriod

StartFadeIn(src) == [src EXCEPT !.gain = 0, !.fade = FadeDelta(src)]

\* Mutant: a fade-out begins at full volume.
StartFadeOutLoud(src) == [src EXCEPT !.gain = src.volume, !.fade = -FadeDelta(src)]

StartFadeOut(src) == [src EXCEPT !.fade = -FadeDelta(src)]

\* Mutant: silence is looked for before the step.
SilencedLate(src) == src.fade < 0 /\ src.gain <= 0

(* source_fade.  The silence threshold is half a gain step.                *)
Silenced(src) == src.fade < 0 /\ src.gain + src.fade <= 0

Fade(src) ==
  IF Silenced(src) THEN [src EXCEPT !.gain = 0, !.fade = 0]
  ELSE IF src.fade > 0 /\ src.gain + src.fade >= src.volume
       THEN [src EXCEPT !.gain = src.volume, !.fade = 0]
       ELSE [src EXCEPT !.gain = @ + src.fade]

SetMode(src, mode) ==
  LET s == [src EXCEPT !.mode = mode, !.fadePos = EndNone]
  IN IF "fade_in" \in mode THEN StartFadeIn(s)
                           ELSE [s EXCEPT !.gain = s.volume, !.fade = 0]

-----------------------------------------------------------------------------
(* Playing                                                                 *)

(* Frames of a playlist; used[b] is FaunBuffer.used.                       *)
EntryFrames(q, used, i) == IF i <= Len(q) THEN used[q[i]] ELSE 0

PlaylistFrames(q, used) ==
  EntryFrames(q, used, 1) + EntryFrames(q, used, 2) + EntryFrames(q, used, 3)

\* Mutant: the position of the last play is kept.
PlayOn(src, q, mode, used) ==
  [SetMode([SetPlaylist(src, q) EXCEPT !.framesOut = 0], mode) EXCEPT
     !.state = IF mode \cap {"once", "loop"} # {} THEN "playing" ELSE "stopped"]

(* cmd_playSource: fadePos is set only when the fades do not overlap.      *)
Play(src, q, mode, used) ==
  LET s  == SetMode([SetPlaylist(src, q) EXCEPT !.playPos = 0, !.framesOut = 0], mode)
      ff == s.fadePeriod * MixLen
      total == PlaylistFrames(q, used)
  IN [s EXCEPT
       !.fadePos = IF "fade_out" \in mode /\ total > 2 * ff THEN total - ff ELSE @,
       !.state = IF mode \cap {"once", "loop"} # {} THEN "playing" ELSE "stopped"]

\* Mutant: off by one.
SamplesAvailLess(src, used) == (used[ActiveBuffer(src)] - src.playPos - 1) % Wrap

(* Frames left in the current buffer, in uint32_t.                         *)
SamplesAvail(src, used) == (used[ActiveBuffer(src)] - src.playPos) % Wrap

(* The three things that can happen when `n' more frames have been mixed:  *)
(* the end position is reached, the current buffer is played out, or       *)
(* neither.                                                                *)
\* Mutant: off by one.
PlaysOutEarly(src, n, used) == src.playPos + n + 1 >= used[ActiveBuffer(src)]

\* Mutant: off by one.
PlaysOutLate(src, n, used) == src.playPos + n > used[ActiveBuffer(src)]

ReachesEnd(src, n)     == src.framesOut + n >= src.endPos
PlaysOut(src, n, used) == src.playPos + n >= used[ActiveBuffer(src)]

AtQueueEnd(src) == NextSlot(src.qactive) = src.qtail

(* `loops' is false for the sources of streams, which loop by seeking.     *)
Loops(src, loops) == loops /\ "loop" \in src.mode

(* The jumps to end_play.                                                  *)
Finishes(src, n, used, loaded, loops) ==
  \/ ReachesEnd(src, n)
  \/ /\ PlaysOut(src, n, used)
     /\ IF AtQueueEnd(src)
        THEN ~Loops(src, loops)
        ELSE src.bufferQueue[NextSlot(src.qactive)] \notin loaded

\* Mutant: the state is not set.
EndPlayGoesOn(src) == [src EXCEPT !.qactive = QNone]

\* Mutant: the current buffer is kept.
EndPlayHolds(src) == [src EXCEPT !.state = "unused"]

EndPlay(src) == [src EXCEPT !.qactive = QNone, !.state = "unused"]

\* Mutant: the frames of this pass are not counted.
ArmFadeLater(src, n) ==
  IF src.framesOut >= src.fadePos THEN StartFadeOut(src) ELSE src

(* Past fadePos the fade-out is started, again on every pass.              *)
ArmFade(src, n) ==
  IF src.framesOut + n >= src.fadePos THEN StartFadeOut(src) ELSE src

(* "Advance play positions", for one source with a current buffer.         *)
Advance(src, n, used, loaded, loops) ==
  LET moved == [src EXCEPT !.framesOut = @ + n]
      armed == [ArmFade(src, n) EXCEPT !.framesOut = @ + n]
  IN CASE ReachesEnd(src, n) -> EndPlay(moved)
       [] ~ReachesEnd(src, n) /\ ~PlaysOut(src, n, used) ->
            [armed EXCEPT !.playPos = @ + n]
       [] OTHER ->
            LET rewound == [armed EXCEPT !.playPos = 0]
            IN IF Finishes(src, n, used, loaded, loops) THEN EndPlay(rewound)
               ELSE IF AtQueueEnd(src) THEN rewound
               ELSE [rewound EXCEPT !.qactive = NextSlot(@)]

=============================================================================
