-------------------------- MODULE FaunVoice_proofs --------------------------
(***************************************************************************)
(* Proofs about FaunSource and FaunVoice, for every number of sources and  *)
(* buffers and every choice of the other constants.                        *)
(***************************************************************************)
EXTENDS FaunVoice, FiniteSetTheorems, TLAPS

(* A source the audio thread may mix from: well typed, with its queue in   *)
(* shape, a current buffer if it plays, and that buffer in memory.         *)
Sound(src, mem) ==
  /\ SourceType(src)
  /\ QueueShape(src)
  /\ src.state = "playing" => Active(src)
  /\ Active(src) => ActiveBuffer(src) \in mem

LEMMA SlotFacts ==
  /\ QueueSize \in Nat /\ QueueSize > 3
  /\ 0 \in Slots /\ QNone \notin Slots
  /\ \A k \in 1 .. 3 : k \in Slots /\ k \in 0 .. QueueSize /\ k # QueueSize /\ k > 0
  /\ \A i \in Slots : NextSlot(i) \in Slots
  BY SourceAssumption DEF Slots, NextSlot

LEMMA SoundInit == \A mem : Sound(SourceInit, mem)
  <1>1. SourceInit.bufferQueue \in [Slots -> Buffers \cup {NoBuffer}]
    BY DEF SourceInit
  <1>2. DOMAIN SourceInit = SourceFields
    BY DEF SourceInit, SourceFields
  <1>3. SourceType(SourceInit)
    BY <1>1, <1>2, SlotFacts, SourceAssumption DEF SourceInit, SourceType, States, Modes
  <1>4. /\ SourceInit.state = "unused" /\ SourceInit.qactive = QNone
        /\ SourceInit.qhead = 0 /\ SourceInit.qtail = 0 /\ SourceInit.bufUsed = 0
    BY DEF SourceInit
  <1>5. QueueShape(SourceInit)
    BY <1>4, SlotFacts DEF QueueShape, Active, Slots
  <1>6. QED
    BY <1>3, <1>4, <1>5 DEF Sound, Active

(* Queueing a loaded buffer on an active source.                           *)
LEMMA SoundQueue ==
  ASSUME NEW src, NEW mem \in SUBSET Buffers, Sound(src, mem), Active(src), NEW b \in mem
  PROVE  Sound(QueueBuffer(src, b), mem)
  <1> USE DEF Sound, SourceType, SourceFields, Active
  <1>1. CASE ~(src.bufUsed < QueueSize)
    BY <1>1 DEF QueueBuffer
  <1>2. CASE src.bufUsed < QueueSize
    <2> DEFINE r == QueueBuffer(src, b)
    <2>1. /\ src.qtail = src.bufUsed /\ src.qactive < src.bufUsed
          /\ src.qtail \in Slots /\ src.bufUsed \in Nat /\ src.qactive \in Slots
      BY <1>2, SlotFacts DEF QueueShape
    <2>2. r = [src EXCEPT !.bufUsed = src.bufUsed + 1,
                          !.bufferQueue = [src.bufferQueue EXCEPT ![src.qtail] = b],
                          !.qtail = NextSlot(src.qtail)]
      BY <1>2 DEF QueueBuffer
    <2>3. SourceType(r)
      BY <2>1, <2>2, <1>2, SlotFacts
    <2>4. QueueShape(r)
      <3>1. /\ r.qhead = src.qhead /\ r.qactive = src.qactive
            /\ r.bufUsed = src.bufUsed + 1 /\ r.qtail = NextSlot(src.qtail)
            /\ r.bufferQueue = [src.bufferQueue EXCEPT ![src.qtail] = b]
        BY <2>2
      <3>2. r.qtail = IF r.bufUsed = QueueSize THEN 0 ELSE r.bufUsed
        BY <3>1, <2>1, <1>2, SlotFacts DEF NextSlot
      <3>3. r.qactive < r.bufUsed
        BY <3>1, <2>1, SlotFacts, SMTT(30) DEF Slots
      <3>4. ASSUME NEW i \in Slots, i < r.bufUsed PROVE r.bufferQueue[i] \in Buffers
        <4>1. i = src.qtail \/ i < src.bufUsed
          BY <3>1, <3>4, <2>1 DEF Slots
        <4>2. src.bufferQueue \in [Slots -> Buffers \cup {NoBuffer}]
          OBVIOUS
        <4>3. \A j \in Slots : j < src.bufUsed => src.bufferQueue[j] \in Buffers
          BY DEF QueueShape
        <4>4. QED
          BY <3>1, <4>1, <4>2, <4>3
      <3>5. r.qhead = 0
        BY <3>1 DEF QueueShape
      <3>6. QED
        BY <3>2, <3>3, <3>4, <3>5 DEF QueueShape
    <2>5. r.qactive = src.qactive /\ ActiveBuffer(r) \in mem
      <3>1. /\ r.qactive = src.qactive
            /\ r.bufferQueue = [src.bufferQueue EXCEPT ![src.qtail] = b]
        BY <2>2
      <3>2. src.qactive # src.qtail
        BY <2>1 DEF Slots
      <3>3. src.bufferQueue \in [Slots -> Buffers \cup {NoBuffer}]
        OBVIOUS
      <3>4. QED
        BY <3>1, <3>2, <3>3, <2>1 DEF ActiveBuffer
    <2>6. QED
      BY <2>3, <2>4, <2>5, <1>2
  <1>3. QED
    BY <1>1, <1>2

(* Freeing memory detaches the sources that play it.                       *)
LEMMA SoundDetach ==
  ASSUME NEW src, NEW old, NEW mem, Sound(src, old)
  PROVE  Sound(Detach(src, mem), mem)
  BY SlotFacts DEF Sound, Detach, SourceType, SourceFields, States, QueueShape, Active, ActiveBuffer, Slots

(* The gain does not touch the queue.                                      *)
LEMMA DeltaType ==
  ASSUME NEW src, SourceType(src) PROVE FadeDelta(src) \in Int
  <1>1. src.volume \in Int /\ src.fadePeriod \in Nat \ {0}
    BY DEF SourceType
  <1>2. QED
    BY <1>1 DEF FadeDelta

LEMMA SoundGain ==
  ASSUME NEW src, NEW mem, Sound(src, mem)
  PROVE  /\ Sound(StartFadeIn(src), mem)
         /\ Sound(StartFadeOut(src), mem)
         /\ Sound(Fade(src), mem)
  <1> USE DEF Sound, SourceType, SourceFields, QueueShape, Active, ActiveBuffer
  <1>1. FadeDelta(src) \in Int
    BY DeltaType
  <1>2. Sound(StartFadeIn(src), mem)
    BY <1>1 DEF StartFadeIn
  <1>3. Sound(StartFadeOut(src), mem)
    BY <1>1 DEF StartFadeOut
  <1>4. Sound(Fade(src), mem)
    BY DEF Fade
  <1>5. QED
    BY <1>2, <1>3, <1>4

(* Starting a playlist of loaded buffers.                                  *)
LEMMA SoundPlay ==
  ASSUME NEW src, NEW mem \in SUBSET Buffers, Sound(src, mem),
         NEW frames \in [Buffers -> Nat], NEW mode \in Modes,
         NEW q \in Playlists, \A i \in 1 .. Len(q) : q[i] \in mem
  PROVE  Sound(Play(src, q, mode, frames), mem)
  <1> USE DEF SourceFields
  <1>1. Len(q) \in 1 .. 3 /\ \A i \in 1 .. Len(q) : q[i] \in Buffers
    BY DEF Playlists
  <1> DEFINE filled == [i \in Slots |-> IF i < Len(q) THEN q[i + 1] ELSE src.bufferQueue[i]]
             p == [SetPlaylist(src, q) EXCEPT !.playPos = 0, !.framesOut = 0]
             m == SetMode(p, mode)
             ff == m.fadePeriod * MixLen
             total == PlaylistFrames(q, frames)
             r == Play(src, q, mode, frames)
  <1>2. /\ filled \in [Slots -> Buffers \cup {NoBuffer}]
        /\ \A i \in Slots : i < Len(q) => filled[i] \in mem
    <2>1. \A i \in Slots : i < Len(q) => q[i + 1] \in mem
      <3> SUFFICES ASSUME NEW i \in Slots, i < Len(q) PROVE q[i + 1] \in mem
        OBVIOUS
      <3>1. PICK j \in 1 .. Len(q) : j = i + 1
        BY <1>1 DEF Slots
      <3>2. QED
        BY <3>1
    <2>2. src.bufferQueue \in [Slots -> Buffers \cup {NoBuffer}]
      BY DEF Sound, SourceType
    <2>3. QED
      BY <2>1, <2>2
  <1> HIDE DEF filled
  <1>3. /\ SourceType(p)
        /\ p.qhead = 0 /\ p.qactive = 0 /\ p.bufUsed = Len(q) /\ p.qtail = Len(q)
        /\ p.bufferQueue = filled
    <2> DEFINE l == SetPlaylist(src, q)
    <2>1. l = [src EXCEPT !.bufUsed = Len(q), !.qtail = Len(q), !.qhead = 0, !.qactive = 0,
                          !.bufferQueue = filled]
      BY DEF SetPlaylist, filled
    <2>2. SourceType(src) /\ Len(q) \in Slots /\ Len(q) \in 0 .. QueueSize
      BY <1>1, SlotFacts DEF Sound
    <2> HIDE DEF l
    <2>3. /\ SourceType(l)
          /\ l.qhead = 0 /\ l.qactive = 0 /\ l.bufUsed = Len(q) /\ l.qtail = Len(q)
          /\ l.bufferQueue = filled
      BY <1>2, <2>1, <2>2, SlotFacts DEF SourceType
    <2>4. p = [l EXCEPT !.playPos = 0, !.framesOut = 0]
      BY DEF l
    <2> HIDE DEF p
    <2>5. QED
      BY <2>3, <2>4 DEF SourceType
  <1>4. /\ SourceType(m)
        /\ m.qhead = 0 /\ m.qactive = 0 /\ m.bufUsed = Len(q) /\ m.qtail = Len(q)
        /\ m.bufferQueue = filled
    <2> DEFINE s == [p EXCEPT !.mode = mode, !.fadePos = EndNone]
    <2>1. /\ SourceType(s)
          /\ s.qhead = 0 /\ s.qactive = 0 /\ s.bufUsed = Len(q) /\ s.qtail = Len(q)
          /\ s.bufferQueue = filled
      BY <1>3, SourceAssumption DEF SourceType
    <2>2. FadeDelta(s) \in Int
      BY <2>1, DeltaType
    <2> HIDE DEF s, filled
    <2>3. m = IF "fade_in" \in mode THEN StartFadeIn(s)
                                     ELSE [s EXCEPT !.gain = s.volume, !.fade = 0]
      BY DEF SetMode, s
    <2> HIDE DEF m
    <2>4. QED
      BY <2>1, <2>2, <2>3 DEF StartFadeIn, SourceType
  <1> HIDE DEF p, m, filled
  <1>5. total \in Nat /\ ff \in Nat
    <2>1. \A i \in 1 .. 3 : EntryFrames(q, frames, i) \in Nat
      BY <1>1 DEF EntryFrames
    <2>2. m.fadePeriod \in Nat /\ MixLen \in Nat
      BY <1>4, SourceAssumption DEF SourceType
    <2>3. QED
      BY <2>1, <2>2 DEF PlaylistFrames
  <1>6. r = [m EXCEPT
              !.fadePos = IF "fade_out" \in mode /\ total > 2 * ff THEN total - ff ELSE @,
              !.state = IF mode \cap {"once", "loop"} # {} THEN "playing" ELSE "stopped"]
    BY DEF Play, p, m
  <1> HIDE DEF r, total, ff
  <1>7. (total > 2 * ff) => total - ff \in Nat
    BY <1>5
  <1>8. SourceType(r)
    BY <1>4, <1>6, <1>7 DEF SourceType, States
  <1>9. /\ r.qhead = 0 /\ r.qactive = 0 /\ r.bufUsed = Len(q) /\ r.qtail = Len(q)
        /\ r.bufferQueue = filled
    BY <1>4, <1>6 DEF SourceType
  <1>10. QueueShape(r) /\ Active(r)
    <2>1. Len(q) # QueueSize /\ Len(q) > 0
      BY <1>1, SlotFacts
    <2>2. \A i \in Slots : i < Len(q) => filled[i] \in Buffers
      BY <1>2
    <2>3. 0 # QNone
      BY SlotFacts
    <2>4. QED
      BY <1>9, <2>1, <2>2, <2>3 DEF QueueShape, Active
  <1>11. ActiveBuffer(r) \in mem
    <2>1. filled[0] \in mem
      BY <1>1, <1>2, SlotFacts
    <2>2. QED
      BY <1>9, <2>1 DEF ActiveBuffer
  <1>12. QED
    BY <1>8, <1>10, <1>11 DEF Sound, r

(* A mix pass moves the source along its queue, or ends it.                *)
LEMMA SoundAdvance ==
  ASSUME NEW src, NEW mem \in SUBSET Buffers, Sound(src, mem), Active(src),
         NEW frames \in [Buffers -> Nat], NEW n \in Nat, NEW loops \in BOOLEAN
  PROVE  Sound(Advance(src, n, frames, mem, loops), mem)
  <1> USE DEF SourceFields
  <1> DEFINE moved == [src EXCEPT !.framesOut = @ + n]
             armed == [ArmFade(src, n) EXCEPT !.framesOut = @ + n]
             rewound == [armed EXCEPT !.playPos = 0]
             Same(r) == /\ SourceType(r)
                        /\ r.state = src.state /\ r.bufUsed = src.bufUsed
                        /\ r.qtail = src.qtail /\ r.qhead = src.qhead
                        /\ r.qactive = src.qactive /\ r.bufferQueue = src.bufferQueue
  <1>1. Same(moved)
    BY DEF Sound, SourceType
  <1>2. Same(armed)
    <2>1. FadeDelta(src) \in Int
      BY DeltaType DEF Sound
    <2>2. QED
      BY <2>1 DEF Sound, SourceType, ArmFade, StartFadeOut
  <1>3. Same(rewound) /\ Same([armed EXCEPT !.playPos = @ + n])
    BY <1>2 DEF SourceType
  <1> HIDE DEF moved, armed, rewound
  <1>4. ASSUME NEW r, Same(r) PROVE Sound(r, mem) /\ Sound(EndPlay(r), mem)
    <2>1. Sound(r, mem)
      BY <1>4 DEF Sound, QueueShape, Active, ActiveBuffer
    <2>2. SourceType(EndPlay(r))
      BY <1>4, SlotFacts DEF SourceType, EndPlay, States
    <2>3. /\ EndPlay(r).state = "unused" /\ EndPlay(r).qactive = QNone
          /\ EndPlay(r).bufUsed = src.bufUsed /\ EndPlay(r).qtail = src.qtail
          /\ EndPlay(r).qhead = src.qhead /\ EndPlay(r).bufferQueue = src.bufferQueue
      BY <1>4 DEF SourceType, EndPlay
    <2>4. QueueShape(EndPlay(r))
      BY <2>3 DEF QueueShape, Active, Sound
    <2>5. QED
      BY <2>1, <2>2, <2>3, <2>4 DEF Sound, Active
  <1>5. ASSUME ~AtQueueEnd(src), src.bufferQueue[NextSlot(src.qactive)] \in mem
        PROVE  Sound([rewound EXCEPT !.qactive = NextSlot(@)], mem)
    <2>1. /\ src.qactive \in Slots /\ src.qactive < src.bufUsed
          /\ src.bufUsed \in 0 .. QueueSize
          /\ src.qtail = IF src.bufUsed = QueueSize THEN 0 ELSE src.bufUsed
      BY DEF Sound, SourceType, QueueShape, Active
    <2>2. NextSlot(src.qactive) \in Slots /\ NextSlot(src.qactive) < src.bufUsed
      BY <1>5, <2>1, SlotFacts DEF AtQueueEnd, NextSlot, Slots
    <2>3. NextSlot(src.qactive) # QNone
      BY <2>2, SlotFacts
    <2>4. QED
      BY <1>3, <1>5, <2>2, <2>3 DEF Sound, SourceType, QueueShape, Active, ActiveBuffer
  <1>6. QED
    BY <1>1, <1>3, <1>4, <1>5 DEF Advance, Finishes, moved, armed, rewound

-----------------------------------------------------------------------------
(* The audio thread keeps every source sound, between commands and between *)
(* mix passes.                                                             *)
RestType ==
  /\ used \in [Buffers -> Nat]
  /\ loaded \in SUBSET Buffers
  /\ phase \in {"wait", "mix"}
  /\ mixed \in 0 .. MixLen
  /\ mixing \in SUBSET Sources
  /\ done \in [Sources -> 0 .. DoneCap]
  /\ lapped \in [Sources -> Nat]

AllSound == DOMAIN source = Sources /\ \A s \in Sources : Sound(source[s], loaded)

IInv == AllSound /\ RestType

LEMMA SoundMonotone ==
  ASSUME NEW src, NEW mem, NEW more, Sound(src, mem), mem \subseteq more
  PROVE  Sound(src, more)
  BY DEF Sound

(* A command that only changes the state, the mode, or a parameter.        *)
LEMMA SoundParameter ==
  ASSUME NEW src, NEW mem, Sound(src, mem)
  PROVE  /\ \A to \in States : Active(src) => Sound([src EXCEPT !.state = to], mem)
         /\ \A v \in Nat : Sound([src EXCEPT !.volume = v, !.gain = v], mem)
         /\ \A p \in Nat \ {0} : Sound([src EXCEPT !.fadePeriod = p], mem)
         /\ \A e \in Nat : Sound([src EXCEPT !.endPos = e], mem)
         /\ \A m \in Modes : Sound([src EXCEPT !.mode = m], mem)
  BY DEF Sound, SourceType, SourceFields, QueueShape, Active, ActiveBuffer

LEMMA DoneType ==
  ASSUME RestType, NEW S, Signal(S)
  PROVE  done' \in [Sources -> 0 .. DoneCap]
  BY DEF RestType, Signal, DoneCap

(* Commands do not touch what belongs to the cycle.                        *)
LEMMA RestUnchanged ==
  ASSUME RestType, UNCHANGED <<used, loaded, phase, mixed, mixing, done, lapped>>
  PROVE  RestType'
  BY DEF RestType

LEMMA InitSound == Init => IInv
  <1> SUFFICES ASSUME Init PROVE IInv
    OBVIOUS
  <1>1. AllSound
    BY SoundInit DEF Init, AllSound
  <1>2. RestType
    BY SourceAssumption DEF Init, RestType, DoneCap
  <1>3. QED
    BY <1>1, <1>2 DEF IInv

LEMMA SourceCommandSound ==
  ASSUME IInv, SourceCommand
  PROVE  IInv'
  <1> USE VoiceAssumption DEF IInv
  <1>1. ASSUME NEW s \in Sources, NEW q \in PlayChoices, NEW mode \in PlayModes,
               PlaySource(s, q, mode)
        PROVE  IInv'
    <2>1. Sound(Play(source[s], q, mode, used), loaded)
      BY <1>1, SoundPlay DEF PlaySource, AllSound, RestType
    <2>2. AllSound'
      BY <1>1, <2>1 DEF PlaySource, AllSound
    <2>3. RestType'
      BY <1>1 DEF PlaySource, RestType, DoneCap
    <2>4. QED
      BY <2>2, <2>3
  <1>2. ASSUME NEW S \in Spans, NEW to \in States, Control(S, to)
        PROVE  IInv'
    <2>1. AllSound'
      BY <1>2, SoundParameter DEF Control, Transform, AllSound
    <2>2. RestType'
      BY <1>2, RestUnchanged DEF Control, history
    <2>3. QED
      BY <2>1, <2>2
  <1>3. ASSUME NEW S \in Spans, FadeOut(S)
        PROVE  IInv'
    <2>1. AllSound'
      BY <1>3, SoundGain DEF FadeOut, Transform, AllSound
    <2>2. RestType'
      BY <1>3, RestUnchanged DEF FadeOut, history
    <2>3. QED
      BY <2>1, <2>2
  <1>4. ASSUME NEW S \in Spans, NEW v \in Volumes, SetVolume(S, v)
        PROVE  IInv'
    <2>1. AllSound'
      BY <1>4, SoundParameter DEF SetVolume, Transform, AllSound
    <2>2. RestType'
      BY <1>4, RestUnchanged DEF SetVolume, history
    <2>3. QED
      BY <2>1, <2>2
  <1>5. ASSUME NEW S \in Spans, NEW p \in Periods, SetFadePeriod(S, p)
        PROVE  IInv'
    <2>1. AllSound'
      BY <1>5, SoundParameter DEF SetFadePeriod, Transform, AllSound
    <2>2. RestType'
      BY <1>5, RestUnchanged DEF SetFadePeriod, history
    <2>3. QED
      BY <2>1, <2>2
  <1>6. ASSUME NEW s \in Sources, NEW e \in EndTimes, SetEndTime(s, e)
        PROVE  IInv'
    <2>1. AllSound'
      BY <1>6, SoundParameter DEF SetEndTime, Transform, AllSound
    <2>2. RestType'
      BY <1>6, RestUnchanged DEF SetEndTime, history
    <2>3. QED
      BY <2>1, <2>2
  <1>7. "playing" \in States /\ "stopped" \in States
    BY DEF States
  <1>8. QED
    BY <1>1, <1>2, <1>3, <1>4, <1>5, <1>6, <1>7 DEF SourceCommand, Start, Stop, Resume

LEMMA ProgramOpSound ==
  ASSUME IInv, ProgramOp
  PROVE  IInv'
  <1> USE VoiceAssumption DEF IInv
  <1>1. ASSUME NEW s \in Sources, NEW b \in Buffers, Queue(s, b)
        PROVE  IInv'
    <2>1. AllSound'
      BY <1>1, SoundQueue DEF Queue, Transform, AllSound, RestType
    <2>2. RestType'
      BY <1>1, RestUnchanged DEF Queue, history
    <2>3. QED
      BY <2>1, <2>2
  <1>2. ASSUME NEW s \in Sources, FadeIn(s)
        PROVE  IInv'
    <2>1. AllSound'
      BY <1>2, SoundGain DEF FadeIn, Transform, AllSound
    <2>2. RestType'
      BY <1>2, RestUnchanged DEF FadeIn, history
    <2>3. QED
      BY <2>1, <2>2
  <1>3. ASSUME NEW s \in Sources, NEW on \in BOOLEAN, SetLoop(s, on)
        PROVE  IInv'
    <2> DEFINE m(src) == (src.mode \ {"once", "loop"}) \cup (IF on THEN {"loop"} ELSE {})
    <2>1. m(source[s]) \in Modes
      BY DEF AllSound, Sound, SourceType, Modes
    <2>2. Sound([source[s] EXCEPT !.mode = m(source[s])], loaded)
      BY <2>1, SoundParameter DEF AllSound
    <2>3. AllSound'
      BY <1>3, <2>2 DEF SetLoop, Transform, AllSound
    <2>4. RestType'
      BY <1>3, RestUnchanged DEF SetLoop, history
    <2>5. QED
      BY <2>3, <2>4
  <1>4. QED
    BY <1>1, <1>2, <1>3 DEF ProgramOp

LEMMA BufferCommandSound ==
  ASSUME IInv, BufferCommand
  PROVE  IInv'
  <1> USE VoiceAssumption DEF IInv
  <1>1. ASSUME NEW b \in Buffers, NEW n \in Lengths[b], SetBuffer(b, n)
        PROVE  IInv'
    <2>1. AllSound'
      BY <1>1, SoundDetach, SoundMonotone DEF SetBuffer, Transform, AllSound
    <2>2. RestType'
      BY <1>1 DEF SetBuffer, RestType, history
    <2>3. QED
      BY <2>1, <2>2
  <1>2. ASSUME NEW B \in SUBSET Buffers, BuffersFree(B)
        PROVE  IInv'
    <2>1. AllSound'
      BY <1>2, SoundDetach DEF BuffersFree, Transform, AllSound
    <2>2. RestType'
      BY <1>2 DEF BuffersFree, RestType, history
    <2>3. QED
      BY <2>1, <2>2
  <1>3. QED
    BY <1>1, <1>2 DEF BufferCommand

LEMMA CycleSound ==
  ASSUME IInv, Cycle
  PROVE  IInv'
  <1> USE DEF IInv
  <1>1. ASSUME Update
        PROVE  IInv'
    <2>1. AllSound'
      BY <1>1, SoundGain DEF Update, Transform, AllSound
    <2>2. done' \in [Sources -> 0 .. DoneCap]
      BY <1>1, DoneType DEF Update
    <2>3. RestType'
      BY <1>1, <2>2 DEF Update, RestType, Playing
    <2>4. QED
      BY <2>1, <2>3
  <1>2. ASSUME NEW n \in 0 .. MixLen, MixPass(n)
        PROVE  IInv'
    <2>1. mixing \in SUBSET Sources /\ n \in Nat
      BY DEF RestType
    <2>2. AllSound'
      BY <1>2, <2>1, SoundAdvance DEF MixPass, Transform, AllSound, RestType, Mixable
    <2>3. done' \in [Sources -> 0 .. DoneCap]
      BY <1>2, DoneType DEF MixPass
    <2>4. mixed' \in 0 .. MixLen
      <3>1. n <= MixLen - mixed
        BY <1>2 DEF MixPass, IsFragment, FragmentLens
      <3>2. mixed' = mixed + n /\ mixed \in 0 .. MixLen /\ MixLen \in Nat
        BY <1>2, SourceAssumption DEF MixPass, RestType
      <3>3. QED
        BY <3>1, <3>2
    <2>5. \A s \in Mixable : used[ActiveBuffer(source[s])] \in Nat
      BY <2>1 DEF Mixable, AllSound, Sound, RestType
    <2>6. lapped' \in [Sources -> Nat]
      BY <1>2, <2>5 DEF MixPass, RestType
    <2>7. RestType'
      BY <1>2, <2>3, <2>4, <2>6 DEF MixPass, RestType
    <2>8. QED
      BY <2>2, <2>7
  <1>3. ASSUME Write
        PROVE  IInv'
    BY <1>3, SourceAssumption DEF Write, AllSound, RestType, history
  <1>4. QED
    BY <1>1, <1>2, <1>3 DEF Cycle

LEMMA Invariance == Spec => []IInv
  <1>1. IInv /\ [Next]_vars => IInv'
    <2> SUFFICES ASSUME IInv, [Next]_vars PROVE IInv'
      OBVIOUS
    <2>1. CASE UNCHANGED vars
      BY <2>1 DEF vars, IInv, AllSound, RestType
    <2>2. QED
      BY <2>1, SourceCommandSound, ProgramOpSound, BufferCommandSound, CycleSound DEF Next
  <1>2. QED
    BY InitSound, <1>1, PTL DEF Spec

(* A playing source always has a current buffer to mix from.               *)
THEOREM PlayingSourcesHaveBuffers == Spec => []PlayingHasBuffer
  <1>1. IInv => PlayingHasBuffer
    BY DEF IInv, AllSound, Sound, PlayingHasBuffer
  <1>2. QED
    BY Invariance, <1>1, PTL

(* Every variable keeps its type, and the buffer queue of a source its     *)
(* shape.                                                                  *)
THEOREM QueuesAreSound == Spec => []QueueOK
  <1>1. IInv => TypeOK
    BY DEF IInv, AllSound, RestType, Sound, TypeOK
  <1>2. IInv => QueueOK
    BY <1>1 DEF IInv, AllSound, Sound, QueueOK, PlayingHasBuffer
  <1>3. QED
    BY Invariance, <1>2, PTL

(* No source ever mixes from a buffer that CMD_BUFFERS_FREE released.      *)
THEOREM ActiveBuffersAreLoaded == Spec => []ActiveLoaded
  <1>1. IInv => ActiveLoaded
    BY DEF IInv, AllSound, Sound, ActiveLoaded
  <1>2. QED
    BY Invariance, <1>1, PTL

-----------------------------------------------------------------------------
(* The gain stays in range.                                                 *)
GainInRange(src) == src.gain \in 0 .. src.volume

LEMMA GainSteps ==
  ASSUME NEW src, SourceType(src), GainInRange(src)
  PROVE  /\ \A b : GainInRange(QueueBuffer(src, b))
         /\ \A mem : GainInRange(Detach(src, mem))
         /\ GainInRange(StartFadeIn(src)) /\ GainInRange(StartFadeOut(src))
         /\ GainInRange(Fade(src))
         /\ \A to : GainInRange([src EXCEPT !.state = to])
         /\ \A x \in Nat : GainInRange([src EXCEPT !.volume = x, !.gain = x])
         /\ \A p : GainInRange([src EXCEPT !.fadePeriod = p])
         /\ \A e : GainInRange([src EXCEPT !.endPos = e])
         /\ \A m : GainInRange([src EXCEPT !.mode = m])
  <1> USE DEF GainInRange, SourceType, SourceFields
  <1>1. \A b : GainInRange(QueueBuffer(src, b))
    BY DEF QueueBuffer
  <1>2. \A mem : GainInRange(Detach(src, mem))
    BY DEF Detach
  <1>3. GainInRange(StartFadeIn(src)) /\ GainInRange(StartFadeOut(src))
    BY DEF StartFadeIn, StartFadeOut
  <1>4. GainInRange(Fade(src))
    BY DEF Fade, Silenced
  <1>5. QED
    BY <1>1, <1>2, <1>3, <1>4

LEMMA GainPlay ==
  ASSUME NEW src, SourceType(src), NEW q, NEW mode, NEW frames
  PROVE  GainInRange(Play(src, q, mode, frames))
  <1> USE DEF SourceFields
  <1> DEFINE p == [SetPlaylist(src, q) EXCEPT !.playPos = 0, !.framesOut = 0]
             m == SetMode(p, mode)
  <1>1. DOMAIN p = SourceFields /\ p.volume \in Nat
    BY DEF SetPlaylist, SourceType
  <1> HIDE DEF p
  <1>2. DOMAIN m = SourceFields /\ m.gain \in 0 .. m.volume
    BY <1>1 DEF SetMode, StartFadeIn
  <1> HIDE DEF m
  <1>3. QED
    BY <1>2 DEF Play, p, m, GainInRange

LEMMA GainAdvance ==
  ASSUME NEW src, SourceType(src), GainInRange(src),
         NEW n, NEW frames, NEW mem, NEW loops
  PROVE  GainInRange(Advance(src, n, frames, mem, loops))
  BY DEF Advance, ArmFade, StartFadeOut, EndPlay, GainInRange, SourceType, SourceFields

LEMMA GainStep ==
  ASSUME IInv, GainBounded, [Next]_vars
  PROVE  GainBounded'
  <1> DEFINE OK == \A s \in Sources : GainInRange(source[s])
  <1>1. OK /\ DOMAIN source = Sources /\ \A s \in Sources : SourceType(source[s])
    BY DEF IInv, AllSound, Sound, GainBounded, GainInRange
  <1>2. GainBounded' <=> OK'
    BY DEF GainBounded, GainInRange
  <1>3. CASE SourceCommand
    <2>1. ASSUME NEW s \in Sources, NEW q, NEW mode, PlaySource(s, q, mode)
          PROVE  OK'
      BY <1>1, <2>1, GainPlay DEF PlaySource
    <2>2. ASSUME NEW S, NEW to, Control(S, to)
          PROVE  OK'
      BY <1>1, <2>2, GainSteps DEF Control, Transform
    <2>3. ASSUME NEW S, FadeOut(S)
          PROVE  OK'
      BY <1>1, <2>3, GainSteps DEF FadeOut, Transform
    <2>4. ASSUME NEW S, NEW x \in Volumes, SetVolume(S, x)
          PROVE  OK'
      BY <1>1, <2>4, GainSteps, VoiceAssumption DEF SetVolume, Transform
    <2>5. ASSUME NEW S, NEW p, SetFadePeriod(S, p)
          PROVE  OK'
      BY <1>1, <2>5, GainSteps DEF SetFadePeriod, Transform
    <2>6. ASSUME NEW s, NEW e, SetEndTime(s, e)
          PROVE  OK'
      BY <1>1, <2>6, GainSteps DEF SetEndTime, Transform
    <2>7. QED
      BY <1>2, <1>3, <2>1, <2>2, <2>3, <2>4, <2>5, <2>6
         DEF SourceCommand, Start, Stop, Resume
  <1>4. CASE ProgramOp
    <2>1. ASSUME NEW s, NEW b, Queue(s, b)
          PROVE  OK'
      BY <1>1, <2>1, GainSteps DEF Queue, Transform
    <2>2. ASSUME NEW s, FadeIn(s)
          PROVE  OK'
      BY <1>1, <2>2, GainSteps DEF FadeIn, Transform
    <2>3. ASSUME NEW s, NEW on, SetLoop(s, on)
          PROVE  OK'
      BY <1>1, <2>3, GainSteps DEF SetLoop, Transform
    <2>4. QED
      BY <1>2, <1>4, <2>1, <2>2, <2>3 DEF ProgramOp
  <1>5. CASE BufferCommand
    <2>1. ASSUME NEW b, NEW n, SetBuffer(b, n)
          PROVE  OK'
      BY <1>1, <2>1, GainSteps DEF SetBuffer, Transform
    <2>2. ASSUME NEW B, BuffersFree(B)
          PROVE  OK'
      BY <1>1, <2>2, GainSteps DEF BuffersFree, Transform
    <2>3. QED
      BY <1>2, <1>5, <2>1, <2>2 DEF BufferCommand
  <1>6. CASE Cycle
    <2>1. CASE Update
      BY <1>1, <1>2, <2>1, GainSteps DEF Update, Transform
    <2>2. ASSUME NEW n, MixPass(n)
          PROVE  OK'
      BY <1>1, <2>2, GainAdvance DEF MixPass, Transform
    <2>3. CASE Write
      BY <1>1, <1>2, <2>3 DEF Write
    <2>4. QED
      BY <1>2, <1>6, <2>1, <2>2, <2>3 DEF Cycle
  <1>7. CASE UNCHANGED vars
    BY <1>1, <1>2, <1>7 DEF vars
  <1>8. QED
    BY <1>3, <1>4, <1>5, <1>6, <1>7 DEF Next

(* No sequence of fades, volume and period changes takes the gain of a     *)
(* source below silence or above its volume.                               *)
THEOREM GainsAreBounded == Spec => []GainBounded
  <1>1. Init => GainBounded
    BY SourceAssumption DEF Init, GainBounded, SourceInit
  <1>2. IInv /\ GainBounded /\ [Next]_vars => GainBounded'
    BY GainStep
  <1>3. QED
    BY <1>1, <1>2, Invariance, PTL DEF Spec

-----------------------------------------------------------------------------
(* Mixing stays inside the buffers.                                        *)
Inside(src, frames) == Active(src) => src.playPos < frames[ActiveBuffer(src)]

(* Every buffer in memory has frames.                                      *)
LoadedLengths == \A b \in loaded : used[b] \in Lengths[b]

LEMMA InsidePlay ==
  ASSUME NEW src, SourceType(src), NEW frames \in [Buffers -> Nat], NEW mode,
         NEW q \in Playlists, frames[q[1]] > 0
  PROVE  Inside(Play(src, q, mode, frames), frames)
  <1> USE DEF SourceFields
  <1>1. Len(q) > 0 /\ 0 \in Slots
    <2>1. Len(q) \in 1 .. 3
      BY DEF Playlists
    <2>2. QED
      BY <2>1, SlotFacts
  <1> DEFINE l == SetPlaylist(src, q)
             p == [l EXCEPT !.playPos = 0, !.framesOut = 0]
             m == SetMode(p, mode)
             filled == [i \in Slots |-> IF i < Len(q) THEN q[i + 1] ELSE src.bufferQueue[i]]
  <1>2. DOMAIN l = SourceFields /\ l.qactive = 0 /\ l.bufferQueue[0] = q[1]
    <2>1. DOMAIN l = SourceFields /\ l.qactive = 0 /\ l.bufferQueue = filled
      BY DEF SetPlaylist, SourceType
    <2>2. filled[0] = q[1]
      BY <1>1
    <2> HIDE DEF l, filled
    <2>3. QED
      BY <2>1, <2>2
  <1> HIDE DEF l
  <1>3. DOMAIN p = SourceFields /\ p.qactive = 0 /\ p.bufferQueue[0] = q[1] /\ p.playPos = 0
    BY <1>2
  <1> HIDE DEF p
  <1>4. DOMAIN m = SourceFields /\ m.qactive = 0 /\ m.bufferQueue[0] = q[1] /\ m.playPos = 0
    BY <1>3 DEF SetMode, StartFadeIn
  <1> HIDE DEF m
  <1>5. QED
    BY <1>4 DEF Play, Inside, ActiveBuffer, l, p, m

LEMMA InsideAdvance ==
  ASSUME NEW src, NEW mem \in SUBSET Buffers, Sound(src, mem), Active(src),
         NEW frames \in [Buffers -> Nat], \A b \in mem : frames[b] > 0,
         NEW n \in Nat, NEW loops \in BOOLEAN
  PROVE  Inside(Advance(src, n, frames, mem, loops), frames)
  <1> USE DEF SourceFields
  <1> DEFINE armed == [ArmFade(src, n) EXCEPT !.framesOut = @ + n]
             rewound == [armed EXCEPT !.playPos = 0]
  <1>1. /\ DOMAIN armed = SourceFields /\ armed.playPos = src.playPos
        /\ armed.qactive = src.qactive /\ armed.bufferQueue = src.bufferQueue
    BY DEF ArmFade, StartFadeOut, Sound, SourceType
  <1>2. /\ DOMAIN rewound = SourceFields /\ rewound.playPos = 0
        /\ rewound.qactive = src.qactive /\ rewound.bufferQueue = src.bufferQueue
    BY <1>1
  <1> HIDE DEF armed, rewound
  <1>3. \A r : DOMAIN r = SourceFields => Inside(EndPlay(r), frames)
    BY DEF Inside, EndPlay, Active
  <1>4. ASSUME ~PlaysOut(src, n, frames)
        PROVE  Inside([armed EXCEPT !.playPos = @ + n], frames)
    <2>1. src.playPos \in Nat /\ frames[ActiveBuffer(src)] \in Nat
      BY DEF Sound, SourceType
    <2>2. src.playPos + n < frames[ActiveBuffer(src)]
      BY <1>4, <2>1 DEF PlaysOut
    <2>3. QED
      BY <1>1, <2>2 DEF Inside, ActiveBuffer
  <1>5. Inside(rewound, frames)
    BY <1>2 DEF Inside, ActiveBuffer, Sound
  <1>6. ASSUME src.bufferQueue[NextSlot(src.qactive)] \in mem
        PROVE  Inside([rewound EXCEPT !.qactive = NextSlot(@)], frames)
    BY <1>2, <1>6 DEF Inside, ActiveBuffer
  <1>7. DOMAIN src = SourceFields
    BY DEF Sound, SourceType
  <1>8. CASE ReachesEnd(src, n)
    BY <1>3, <1>7, <1>8 DEF Advance
  <1>9. CASE ~ReachesEnd(src, n) /\ ~PlaysOut(src, n, frames)
    BY <1>4, <1>9 DEF Advance, armed
  <1>10. CASE ~ReachesEnd(src, n) /\ PlaysOut(src, n, frames)
    <2>1. Advance(src, n, frames, mem, loops) =
            IF Finishes(src, n, frames, mem, loops) THEN EndPlay(rewound)
            ELSE IF AtQueueEnd(src) THEN rewound
            ELSE [rewound EXCEPT !.qactive = NextSlot(@)]
      BY <1>10 DEF Advance, rewound, armed
    <2>2. QED
      BY <1>2, <1>3, <1>5, <1>6, <1>10, <2>1 DEF Finishes
  <1>11. QED
    BY <1>8, <1>9, <1>10

(* The position stays inside through every step, when a buffer's     *)
(* length does not change from one load to the next.                       *)
AllInside == \A s \in Sources : Inside(source[s], used)

LEMMA InsideStep ==
  ASSUME StableLoads, IInv, AllInside, LoadedLengths, [Next]_vars
  PROVE  AllInside' /\ LoadedLengths'
  <1> USE DEF SourceFields
  <1>1. /\ DOMAIN source = Sources
        /\ \A s \in Sources : Sound(source[s], loaded) /\ SourceType(source[s])
        /\ used \in [Buffers -> Nat] /\ loaded \in SUBSET Buffers
        /\ mixing \in SUBSET Sources
    BY DEF IInv, AllSound, RestType, Sound
  <1>2. \A b \in loaded : used[b] > 0
    BY <1>1 DEF StableLoads, LoadedLengths
  <1>3. CASE UNCHANGED <<used, loaded>> /\ AllInside'
    BY <1>3 DEF LoadedLengths
  <1>4. \A src : /\ SourceType(src) /\ Inside(src, used) =>
                      /\ \A to : Inside([src EXCEPT !.state = to], used)
                      /\ \A x : Inside([src EXCEPT !.volume = x, !.gain = x], used)
                      /\ \A p : Inside([src EXCEPT !.fadePeriod = p], used)
                      /\ \A e : Inside([src EXCEPT !.endPos = e], used)
                      /\ \A m : Inside([src EXCEPT !.mode = m], used)
                      /\ Inside(StartFadeIn(src), used)
                      /\ Inside(StartFadeOut(src), used)
                      /\ Inside(Fade(src), used)
                      /\ \A mem : Inside(Detach(src, mem), used)
    BY DEF Inside, SourceType, Active, ActiveBuffer, StartFadeIn, StartFadeOut, Fade, Detach
  <1>5. CASE SourceCommand
    <2>1. ASSUME NEW s \in Sources, NEW q \in PlayChoices, NEW mode, PlaySource(s, q, mode)
          PROVE  AllInside'
      <3>1. q \in Playlists /\ used[q[1]] > 0
        <4>1. q \in Playlists /\ 1 \in 1 .. Len(q)
          BY VoiceAssumption DEF Playlists
        <4>2. QED
          BY <1>2, <2>1, <4>1 DEF PlaySource
      <3>2. Inside(Play(source[s], q, mode, used), used)
        BY <1>1, <3>1, InsidePlay
      <3>3. QED
        BY <1>1, <2>1, <3>2 DEF PlaySource, AllInside
    <2>2. ASSUME NEW S, NEW to, Control(S, to)
          PROVE  AllInside'
      BY <1>1, <1>4, <2>2 DEF Control, Transform, AllInside
    <2>3. ASSUME NEW S, FadeOut(S)
          PROVE  AllInside'
      BY <1>1, <1>4, <2>3 DEF FadeOut, Transform, AllInside
    <2>4. ASSUME NEW S, NEW x, SetVolume(S, x)
          PROVE  AllInside'
      BY <1>1, <1>4, <2>4 DEF SetVolume, Transform, AllInside
    <2>5. ASSUME NEW S, NEW p, SetFadePeriod(S, p)
          PROVE  AllInside'
      BY <1>1, <1>4, <2>5 DEF SetFadePeriod, Transform, AllInside
    <2>6. ASSUME NEW s, NEW e, SetEndTime(s, e)
          PROVE  AllInside'
      BY <1>1, <1>4, <2>6 DEF SetEndTime, Transform, AllInside
    <2>7. UNCHANGED <<used, loaded>>
      BY <1>5 DEF SourceCommand, Start, Stop, Resume, PlaySource, Control, FadeOut,
                  SetVolume, SetFadePeriod, SetEndTime
    <2>8. QED
      BY <1>3, <1>5, <2>1, <2>2, <2>3, <2>4, <2>5, <2>6, <2>7
         DEF SourceCommand, Start, Stop, Resume
  <1>6. CASE ProgramOp
    <2>1. ASSUME NEW s \in Sources, NEW b \in Buffers, Queue(s, b)
          PROVE  AllInside'
      <3>1. Inside(QueueBuffer(source[s], b), used)
        <4> DEFINE src == source[s]
        <4>1. /\ SourceType(src) /\ Active(src) /\ Inside(src, used)
              /\ src.bufUsed < QueueSize => src.qtail # src.qactive
          BY <1>1, <2>1 DEF Queue, AllInside, Sound, QueueShape, SourceType, Slots
        <4>2. QED
          BY <4>1 DEF QueueBuffer, Inside, Active, ActiveBuffer, SourceType
      <3>2. QED
        BY <1>1, <2>1, <3>1 DEF Queue, Transform, AllInside
    <2>2. ASSUME NEW s, FadeIn(s)
          PROVE  AllInside'
      BY <1>1, <1>4, <2>2 DEF FadeIn, Transform, AllInside
    <2>3. ASSUME NEW s, NEW on, SetLoop(s, on)
          PROVE  AllInside'
      BY <1>1, <1>4, <2>3 DEF SetLoop, Transform, AllInside
    <2>4. UNCHANGED <<used, loaded>>
      BY <1>6 DEF ProgramOp, Queue, FadeIn, SetLoop
    <2>5. QED
      BY VoiceAssumption, <1>3, <1>6, <2>1, <2>2, <2>3, <2>4 DEF ProgramOp
  <1>7. CASE BufferCommand
    <2>1. ASSUME NEW b \in Buffers, NEW n \in Lengths[b], SetBuffer(b, n)
          PROVE  AllInside' /\ LoadedLengths'
      <3>1. PICK k \in Nat \ {0} : Lengths[b] = {k}
        BY DEF StableLoads
      <3>2. b \in loaded => used' = used
        BY <1>1, <2>1, <3>1 DEF SetBuffer, LoadedLengths
      <3>3. LoadedLengths'
        BY <1>1, <2>1 DEF SetBuffer, LoadedLengths
      <3>4. ASSUME NEW s \in Sources
            PROVE  Inside(Detach(source[s], loaded), used')
        <4> DEFINE d == Detach(source[s], loaded)
        <4>1. Inside(d, used) /\ Sound(d, loaded)
          BY <1>1, <1>4, SoundDetach DEF AllInside
        <4>2. Active(d) => used'[ActiveBuffer(d)] = used[ActiveBuffer(d)]
          BY <1>1, <2>1, <3>2, <4>1 DEF SetBuffer, Sound
        <4> HIDE DEF d
        <4>3. Inside(d, used')
          BY <4>1, <4>2 DEF Inside
        <4>4. QED
          BY <4>3 DEF d
      <3>5. AllInside'
        BY <2>1, <3>4 DEF SetBuffer, Transform, AllInside
      <3>6. QED
        BY <3>3, <3>5
    <2>2. ASSUME NEW B, BuffersFree(B)
          PROVE  AllInside' /\ LoadedLengths'
      BY <1>1, <1>4, <2>2 DEF BuffersFree, Transform, AllInside, LoadedLengths
    <2>3. QED
      BY <1>7, <2>1, <2>2 DEF BufferCommand
  <1>8. CASE Cycle
    <2>1. CASE Update
      BY <1>1, <1>3, <1>4, <2>1 DEF Update, Transform, AllInside
    <2>2. ASSUME NEW n \in 0 .. MixLen, MixPass(n)
          PROVE  AllInside'
      <3>1. ASSUME NEW s \in Mixable
            PROVE  Inside(Advance(source[s], n, used, loaded, TRUE), used)
        <4>1. Sound(source[s], loaded) /\ Active(source[s]) /\ n \in Nat /\ TRUE \in BOOLEAN
          BY <1>1 DEF Mixable
        <4>2. QED
          BY ONLY <1>1, <1>2, <4>1, InsideAdvance
      <3>2. QED
        BY <1>1, <2>2, <3>1 DEF MixPass, Transform, AllInside
    <2>3. CASE Write
      BY <1>3, <2>3 DEF Write, AllInside
    <2>4. QED
      BY <1>3, <1>8, <2>1, <2>2, <2>3 DEF Cycle, MixPass
  <1>9. CASE UNCHANGED vars
    BY <1>9 DEF vars, AllInside, LoadedLengths
  <1>10. QED
    BY <1>5, <1>6, <1>7, <1>8, <1>9 DEF Next

(* The mixer never reads outside the samples of a buffer, and SamplesAvail *)
(* never wraps, as long as loads do not change the length of a buffer.     *)
THEOREM ReadsInsideBuffers == ASSUME StableLoads PROVE Spec => []PlayPosInside
  <1>1. Init => AllInside /\ LoadedLengths
    BY DEF Init, AllInside, LoadedLengths, Inside, Active, SourceInit
  <1>2. IInv /\ AllInside /\ LoadedLengths /\ [Next]_vars => AllInside' /\ LoadedLengths'
    BY InsideStep
  <1>3. AllInside => PlayPosInside
    BY DEF AllInside, Inside, PlayPosInside
  <1>4. QED
    BY <1>1, <1>2, <1>3, Invariance, PTL DEF Spec

-----------------------------------------------------------------------------
(* A fade-out only falls.                                                   *)
Falls(src, t) == src.fade < 0 /\ t.fade < 0 => t.gain <= src.gain

LEMMA DeltaPositive ==
  ASSUME NEW src, SourceType(src) PROVE FadeDelta(src) \in Nat
  <1>1. src.volume \in Nat /\ src.fadePeriod \in Nat \ {0}
    BY DEF SourceType
  <1>2. QED
    BY <1>1 DEF FadeDelta

LEMMA FallSteps ==
  ASSUME NEW src, SourceType(src)
  PROVE  /\ Falls(src, src)
         /\ \A b : Falls(src, QueueBuffer(src, b))
         /\ \A mem : Falls(src, Detach(src, mem))
         /\ Falls(src, StartFadeIn(src)) /\ Falls(src, StartFadeOut(src))
         /\ Falls(src, Fade(src))
         /\ \A to : Falls(src, [src EXCEPT !.state = to])
         /\ \A p : Falls(src, [src EXCEPT !.fadePeriod = p])
         /\ \A e : Falls(src, [src EXCEPT !.endPos = e])
         /\ \A m : Falls(src, [src EXCEPT !.mode = m])
  <1> USE DEF Falls, SourceType, SourceFields
  <1>1. \A b : Falls(src, QueueBuffer(src, b))
    BY DEF QueueBuffer
  <1>2. \A mem : Falls(src, Detach(src, mem))
    BY DEF Detach
  <1>3. Falls(src, StartFadeIn(src))
    BY DeltaPositive DEF StartFadeIn
  <1>4. Falls(src, StartFadeOut(src))
    BY DEF StartFadeOut
  <1>5. Falls(src, Fade(src))
    BY DEF Fade, Silenced
  <1>6. QED
    BY <1>1, <1>2, <1>3, <1>4, <1>5

(* What a play does to the gain: a new play begins with no fade, or one in.*)
LEMMA PlayFade ==
  ASSUME NEW src, SourceType(src), NEW q, NEW mode, NEW frames
  PROVE  LET p == Play(src, q, mode, frames)
         IN p.fade \in Nat /\ p.endPos = src.endPos
            /\ ("fade_out" \notin mode => p.fadePos = EndNone)
  <1> USE DEF SourceFields
  <1> DEFINE p == [SetPlaylist(src, q) EXCEPT !.playPos = 0, !.framesOut = 0]
             m == SetMode(p, mode)
  <1>1. /\ DOMAIN p = SourceFields /\ p.volume = src.volume
        /\ p.fadePeriod = src.fadePeriod /\ p.endPos = src.endPos
    BY DEF SetPlaylist, SourceType
  <1>2. FadeDelta(p) \in Nat
    BY <1>1, DeltaPositive DEF FadeDelta
  <1> HIDE DEF p
  <1>3. /\ DOMAIN m = SourceFields /\ m.fade \in Nat /\ m.fadePos = EndNone
        /\ m.endPos = src.endPos
    BY <1>1, <1>2 DEF SetMode, StartFadeIn, FadeDelta
  <1> HIDE DEF m
  <1>4. QED
    BY <1>3 DEF Play, p, m

LEMMA FallAdvance ==
  ASSUME NEW src, SourceType(src), NEW n, NEW frames, NEW mem, NEW loops
  PROVE  Falls(src, Advance(src, n, frames, mem, loops))
  BY DEF Advance, ArmFade, StartFadeOut, EndPlay, Falls, SourceType, SourceFields

LEMMA FallStep ==
  ASSUME IInv, [Next]_vars, NEW s \in Sources, source[s].fade < 0, source'[s].fade < 0
  PROVE  \/ source'[s].gain <= source[s].gain
         \/ \E S \in Spans, v \in Volumes : SetVolume(S, v)
  <1> SUFFICES ASSUME \A S \in Spans, v \in Volumes : ~SetVolume(S, v)
               PROVE  Falls(source[s], source'[s])
    BY DEF Falls
  <1>1. DOMAIN source = Sources /\ SourceType(source[s])
    BY DEF IInv, AllSound, Sound
  <1>2. CASE SourceCommand
    <2>1. ASSUME NEW t, NEW q, NEW mode, PlaySource(t, q, mode)
          PROVE  Falls(source[s], source'[s])
      <3>1. s = t => Falls(source[s], Play(source[s], q, mode, used))
        BY <1>1, PlayFade DEF Falls
      <3>2. QED
        BY <1>1, <2>1, <3>1, FallSteps DEF PlaySource
    <2>2. ASSUME NEW S, NEW to, Control(S, to)
          PROVE  Falls(source[s], source'[s])
      BY <1>1, <2>2, FallSteps DEF Control, Transform
    <2>3. ASSUME NEW S, FadeOut(S)
          PROVE  Falls(source[s], source'[s])
      BY <1>1, <2>3, FallSteps DEF FadeOut, Transform
    <2>4. ASSUME NEW S, NEW p, SetFadePeriod(S, p)
          PROVE  Falls(source[s], source'[s])
      BY <1>1, <2>4, FallSteps DEF SetFadePeriod, Transform
    <2>5. ASSUME NEW t, NEW e, SetEndTime(t, e)
          PROVE  Falls(source[s], source'[s])
      BY <1>1, <2>5, FallSteps DEF SetEndTime, Transform
    <2>6. QED
      BY <1>2, <2>1, <2>2, <2>3, <2>4, <2>5 DEF SourceCommand, Start, Stop, Resume
  <1>3. CASE ProgramOp
    <2>1. ASSUME NEW t, NEW b, Queue(t, b)
          PROVE  Falls(source[s], source'[s])
      BY <1>1, <2>1, FallSteps DEF Queue, Transform
    <2>2. ASSUME NEW t, FadeIn(t)
          PROVE  Falls(source[s], source'[s])
      BY <1>1, <2>2, FallSteps DEF FadeIn, Transform
    <2>3. ASSUME NEW t, NEW on, SetLoop(t, on)
          PROVE  Falls(source[s], source'[s])
      BY <1>1, <2>3, FallSteps DEF SetLoop, Transform
    <2>4. QED
      BY <1>3, <2>1, <2>2, <2>3 DEF ProgramOp
  <1>4. CASE BufferCommand
    <2>1. ASSUME NEW b, NEW n, SetBuffer(b, n)
          PROVE  Falls(source[s], source'[s])
      BY <1>1, <2>1, FallSteps DEF SetBuffer, Transform
    <2>2. ASSUME NEW B, BuffersFree(B)
          PROVE  Falls(source[s], source'[s])
      BY <1>1, <2>2, FallSteps DEF BuffersFree, Transform
    <2>3. QED
      BY <1>4, <2>1, <2>2 DEF BufferCommand
  <1>5. CASE Cycle
    <2>1. CASE Update
      BY <1>1, <2>1, FallSteps DEF Update, Transform
    <2>2. ASSUME NEW n, MixPass(n)
          PROVE  Falls(source[s], source'[s])
      BY <1>1, <2>2, FallSteps, FallAdvance DEF MixPass, Transform
    <2>3. CASE Write
      BY <1>1, <2>3, FallSteps DEF Write
    <2>4. QED
      BY <1>5, <2>1, <2>2, <2>3 DEF Cycle
  <1>6. CASE UNCHANGED vars
    BY <1>1, <1>6, FallSteps DEF vars
  <1>7. QED
    BY <1>2, <1>3, <1>4, <1>5, <1>6 DEF Next

(* While a source fades out, only setting its volume makes it louder: not  *)
(* a pause, a lap, a change of the period, or a pass beyond fadePos that   *)
(* starts the fade again.                                                  *)
THEOREM FadeOutsFall == Spec => FadeOutFalls
  <1>1. IInv /\ [Next]_vars =>
          [\A s \in Sources :
             source[s].fade < 0 /\ source'[s].fade < 0 =>
               \/ source'[s].gain <= source[s].gain
               \/ \E S \in Spans, v \in Volumes : SetVolume(S, v)]_vars
    BY FallStep
  <1>2. QED
    BY <1>1, Invariance, PTL DEF Spec, FadeOutFalls

-----------------------------------------------------------------------------
(* Without fade-outs a play is signalled once.                              *)
NeverFadesOut ==
  /\ \A mode \in PlayModes : "fade_out" \notin mode
  /\ FadeSources = {}

(* An end time is less than that of END_POS_NONE, 13 hours.                *)
EndsInTime == \A e \in EndTimes : e <= EndNone

(* Such a source is never faded out: it ends before fadePos.               *)
Steady(src) == src.fade >= 0 /\ src.fadePos = EndNone /\ src.endPos <= EndNone
AllSteady   == \A s \in Sources : Steady(source[s])

(* What was signalled has no buffer, and goes on only when it is played    *)
(* again.                                                                  *)
DoneIsOver == \A s \in Sources : done[s] = 0 \/ (done[s] = 1 /\ ~Active(source[s]))

LEMMA SteadySteps ==
  ASSUME NEW src, SourceType(src), Steady(src)
  PROVE  /\ \A b : Steady(QueueBuffer(src, b))
         /\ \A mem : Steady(Detach(src, mem)) /\ (Active(Detach(src, mem)) => Active(src))
         /\ Steady(Fade(src)) /\ (Active(Fade(src)) <=> Active(src)) /\ ~Silenced(src)
         /\ \A to : /\ Steady([src EXCEPT !.state = to])
                    /\ Active([src EXCEPT !.state = to]) <=> Active(src)
         /\ \A e \in EndTimes : EndsInTime => Steady([src EXCEPT !.endPos = e])
         /\ \A e : Active([src EXCEPT !.endPos = e]) <=> Active(src)
         /\ \A m : /\ Steady([src EXCEPT !.mode = m])
                   /\ Active([src EXCEPT !.mode = m]) <=> Active(src)
  <1> USE DEF Steady, SourceType, SourceFields, Active
  <1>1. \A b : Steady(QueueBuffer(src, b))
    BY DEF QueueBuffer
  <1>2. \A mem : Steady(Detach(src, mem)) /\ (Active(Detach(src, mem)) => Active(src))
    BY DEF Detach
  <1>3. Steady(Fade(src)) /\ (Active(Fade(src)) <=> Active(src)) /\ ~Silenced(src)
    BY DEF Fade, Silenced
  <1>4. \A e \in EndTimes : EndsInTime => Steady([src EXCEPT !.endPos = e])
    BY DEF EndsInTime
  <1>5. QED
    BY <1>1, <1>2, <1>3, <1>4

LEMMA SteadyAdvance ==
  ASSUME NEW src, SourceType(src), Steady(src), NEW n \in Nat, NEW frames, NEW mem, NEW loops
  PROVE  LET t == Advance(src, n, frames, mem, loops)
         IN Steady(t) /\ (Finishes(src, n, frames, mem, loops) => ~Active(t))
  <1> USE DEF SourceFields
  <1> DEFINE armed == [ArmFade(src, n) EXCEPT !.framesOut = @ + n]
             moved == [src EXCEPT !.framesOut = @ + n]
             rewound == [armed EXCEPT !.playPos = 0]
             gone == [armed EXCEPT !.playPos = @ + n]
             next == [rewound EXCEPT !.qactive = NextSlot(@)]
             Ended(r) == Steady(EndPlay(r)) /\ ~Active(EndPlay(r))
  <1>1. ASSUME NEW r, DOMAIN r = SourceFields, Steady(r)
        PROVE  Ended(r)
    BY <1>1 DEF EndPlay, Steady, Active
  <1>2. DOMAIN moved = SourceFields /\ Steady(moved)
    BY DEF Steady, SourceType
  <1>3. ASSUME ~ReachesEnd(src, n)
        PROVE  DOMAIN armed = SourceFields /\ Steady(armed)
    <2>1. /\ src.framesOut \in Nat /\ src.endPos \in Nat /\ EndNone \in Nat
      BY SourceAssumption DEF SourceType
    <2>2. ArmFade(src, n) = src
      BY <1>3, <2>1 DEF ArmFade, ReachesEnd, Steady
    <2>3. QED
      BY <2>2, <1>2
  <1> HIDE DEF armed, moved
  <1>4. ASSUME ~ReachesEnd(src, n)
        PROVE  /\ DOMAIN rewound = SourceFields /\ Steady(rewound)
               /\ DOMAIN gone = SourceFields /\ Steady(gone)
    BY <1>3, <1>4 DEF Steady
  <1> HIDE DEF rewound, gone
  <1>5. ASSUME ~ReachesEnd(src, n) PROVE Steady(next)
    BY <1>4, <1>5 DEF Steady
  <1> HIDE DEF next
  <1>6. CASE ReachesEnd(src, n)
    BY <1>1, <1>2, <1>6 DEF Advance, moved
  <1>7. CASE ~ReachesEnd(src, n) /\ ~PlaysOut(src, n, frames)
    BY <1>4, <1>7 DEF Advance, Finishes, gone, armed
  <1>8. CASE ~ReachesEnd(src, n) /\ PlaysOut(src, n, frames)
    <2>1. Advance(src, n, frames, mem, loops)
            = IF Finishes(src, n, frames, mem, loops) THEN EndPlay(rewound)
              ELSE IF AtQueueEnd(src) THEN rewound ELSE next
      BY <1>8 DEF Advance, next, rewound, armed
    <2>2. QED
      BY <1>1, <1>4, <1>5, <1>8, <2>1
  <1>9. QED
    BY <1>6, <1>7, <1>8

LEMMA DoneStep ==
  ASSUME NeverFadesOut, EndsInTime, IInv, AllSteady, DoneIsOver, [Next]_vars
  PROVE  AllSteady' /\ DoneIsOver'
  <1>1. /\ DOMAIN source = Sources /\ \A s \in Sources : SourceType(source[s])
        /\ done \in [Sources -> 0 .. DoneCap]
    BY DEF IInv, AllSound, Sound, RestType
  <1>2. ASSUME UNCHANGED done,
               \A s \in Sources : Steady(source'[s]),
               \A s \in Sources : Active(source'[s]) => Active(source[s])
        PROVE  AllSteady' /\ DoneIsOver'
    BY <1>2 DEF AllSteady, DoneIsOver
  <1>3. CASE SourceCommand
    <2>1. ASSUME NEW s \in Sources, NEW q, NEW mode \in PlayModes, PlaySource(s, q, mode)
          PROVE  AllSteady' /\ DoneIsOver'
      <3>1. Steady(Play(source[s], q, mode, used))
        BY <1>1, PlayFade DEF Steady, AllSteady, NeverFadesOut
      <3>2. source' = [source EXCEPT ![s] = Play(source[s], q, mode, used)]
            /\ done' = [done EXCEPT ![s] = 0]
        BY <2>1 DEF PlaySource
      <3>3. QED
        BY <1>1, <3>1, <3>2 DEF AllSteady, DoneIsOver
    <2>2. ASSUME NEW S, NEW to, Control(S, to)
          PROVE  AllSteady' /\ DoneIsOver'
      BY <1>1, <1>2, <2>2, SteadySteps DEF Control, Transform, AllSteady, history
    <2>3. ASSUME NEW s, NEW e \in EndTimes, SetEndTime(s, e)
          PROVE  AllSteady' /\ DoneIsOver'
      BY <1>1, <1>2, <2>3, SteadySteps DEF SetEndTime, Transform, AllSteady, history
    <2>4. ASSUME NEW S \in Spans, S \subseteq FadeSources
          PROVE  S = {}
      BY <2>4 DEF NeverFadesOut
    <2>5. ASSUME NEW S, S = {}, NEW f,
                 source' = [s \in Sources |-> IF s \in S THEN f[s] ELSE source[s]],
                 UNCHANGED done
          PROVE  AllSteady' /\ DoneIsOver'
      BY <2>5, <1>2 DEF AllSteady
    <2>6. ASSUME NEW S \in Spans, S \subseteq FadeSources, FadeOut(S)
          PROVE  AllSteady' /\ DoneIsOver'
      BY <1>1, <1>2, <2>4, <2>6 DEF FadeOut, Transform, AllSteady, history
    <2>7. ASSUME NEW S \in Spans, NEW v, S \subseteq FadeSources, SetVolume(S, v)
          PROVE  AllSteady' /\ DoneIsOver'
      BY <1>1, <1>2, <2>4, <2>7 DEF SetVolume, Transform, AllSteady, history
    <2>8. ASSUME NEW S \in Spans, NEW p, S \subseteq FadeSources, SetFadePeriod(S, p)
          PROVE  AllSteady' /\ DoneIsOver'
      BY <1>1, <1>2, <2>4, <2>8 DEF SetFadePeriod, Transform, AllSteady, history
    <2>9. QED
      BY <1>3, <2>1, <2>2, <2>3, <2>6, <2>7, <2>8 DEF SourceCommand, Start, Stop, Resume
  <1>4. CASE ProgramOp
    <2>1. ASSUME NEW s, NEW b, Queue(s, b)
          PROVE  AllSteady' /\ DoneIsOver'
      BY <1>1, <1>2, <2>1, SteadySteps DEF Queue, Transform, AllSteady, history
    <2>2. ASSUME NEW s, NEW on, SetLoop(s, on)
          PROVE  AllSteady' /\ DoneIsOver'
      BY <1>1, <1>2, <2>2, SteadySteps DEF SetLoop, Transform, AllSteady, history
    <2>3. QED
      BY <1>4, <2>1, <2>2 DEF ProgramOp, NeverFadesOut
  <1>5. CASE BufferCommand
    <2>1. ASSUME NEW b, NEW n, SetBuffer(b, n)
          PROVE  AllSteady' /\ DoneIsOver'
      BY <1>1, <1>2, <2>1, SteadySteps DEF SetBuffer, Transform, AllSteady, history
    <2>2. ASSUME NEW B, BuffersFree(B)
          PROVE  AllSteady' /\ DoneIsOver'
      BY <1>1, <1>2, <2>2, SteadySteps DEF BuffersFree, Transform, AllSteady, history
    <2>3. QED
      BY <1>5, <2>1, <2>2 DEF BufferCommand
  <1>6. CASE Cycle
    <2>1. CASE Update
      <3>1. done' = done
        BY <1>1, <2>1, SteadySteps DEF Update, Signal, AllSteady, Playing
      <3>2. QED
        BY <1>1, <1>2, <2>1, <3>1, SteadySteps DEF Update, Transform, AllSteady
    <2>2. ASSUME NEW n \in 0 .. MixLen, MixPass(n)
          PROVE  AllSteady' /\ DoneIsOver'
      <3> SUFFICES ASSUME NEW s \in Sources
                   PROVE  /\ Steady(source'[s])
                          /\ done'[s] = 0 \/ (done'[s] = 1 /\ ~Active(source'[s]))
        BY DEF AllSteady, DoneIsOver
      <3> DEFINE t == Advance(source[s], n, used, loaded, TRUE)
                 ends == Finishes(source[s], n, used, loaded, TRUE)
      <3>1. /\ source'[s] = IF s \in Mixable THEN t ELSE source[s]
            /\ done'[s] = IF /\ s \in Mixable /\ ends
                             /\ "signal_done" \in source[s].mode /\ done[s] < DoneCap
                          THEN done[s] + 1 ELSE done[s]
        BY <2>2 DEF MixPass, Transform, Signal
      <3>2. Steady(t) /\ (ends => ~Active(t))
        <4>1. n \in Nat /\ Steady(source[s])
          BY SourceAssumption DEF AllSteady
        <4>2. QED
          BY <1>1, <4>1, SteadyAdvance
      <3> HIDE DEF t, ends
      <3>3. CASE s \in Mixable
        <4>1. done[s] = 0
          BY <3>3 DEF Mixable, DoneIsOver
        <4>2. QED
          BY <3>1, <3>2, <3>3, <4>1
      <3>4. CASE s \notin Mixable
        BY <3>1, <3>4 DEF AllSteady, DoneIsOver
      <3>5. QED
        BY <3>3, <3>4
    <2>3. CASE Write
      BY <1>1, <1>2, <2>3 DEF Write, AllSteady, history
    <2>4. QED
      BY <1>6, <2>1, <2>2, <2>3 DEF Cycle
  <1>7. CASE UNCHANGED vars
    BY <1>2, <1>7 DEF vars, AllSteady
  <1>8. QED
    BY <1>3, <1>4, <1>5, <1>6, <1>7 DEF Next

(* Where nothing fades out, one play gives one DONE, so that a thread can  *)
(* count signals to know which sounds are over.                            *)
THEOREM OneDonePerPlay ==
  ASSUME NeverFadesOut, EndsInTime PROVE Spec => []DoneOncePerPlay
  <1>1. Init => AllSteady /\ DoneIsOver
    BY SourceAssumption DEF Init, AllSteady, Steady, DoneIsOver, SourceInit
  <1>2. IInv /\ AllSteady /\ DoneIsOver /\ [Next]_vars => AllSteady' /\ DoneIsOver'
    BY DoneStep
  <1>3. IInv /\ DoneIsOver => DoneOncePerPlay
    BY DEF DoneIsOver, DoneOncePerPlay
  <1>4. QED
    BY <1>1, <1>2, <1>3, Invariance, PTL DEF Spec

-----------------------------------------------------------------------------
(* Induction, from a set of numbers rather than an operator: the prefixes   *)
(* of Nat are finite sets, which are well ordered by inclusion.             *)
LEMMA LeastOf ==
  ASSUME NEW T \in SUBSET Nat, T # {}
  PROVE  \E x \in T : \A y \in T : x <= y
  <1> DEFINE prefixes == {0 .. n : n \in T}
  <1>1. prefixes \subseteq FiniteSubsetsOf(Nat) /\ prefixes # {}
    <2>1. ASSUME NEW n \in T PROVE 0 .. n \in FiniteSubsetsOf(Nat)
      <3>1. IsFiniteSet(0 .. n)
        BY FS_Interval
      <3>2. QED
        BY <3>1 DEF FiniteSubsetsOf
    <2>2. QED
      BY <2>1
  <1>2. PICK b \in prefixes : \A c \in prefixes : <<c, b>> \notin StrictSubsetOrdering(Nat)
    <2> HIDE DEF prefixes
    <2>1. QED
      BY <1>1, FS_StrictSubsetOrderingWellFounded, WFMin
  <1>3. PICK x \in T : b = 0 .. x
    OBVIOUS
  <1>4. ASSUME NEW y \in T, y < x PROVE FALSE
    <2>1. 0 .. y \in prefixes
      OBVIOUS
    <2>2. <<0 .. y, b>> \in StrictSubsetOrdering(Nat)
      BY <1>3, <1>4 DEF StrictSubsetOrdering
    <2>3. QED
      BY <1>2, <2>1, <2>2
  <1>5. QED
    BY <1>4

LEMMA Upward ==
  ASSUME NEW T \in SUBSET Nat, 0 \in T, \A n \in T : n + 1 \in T
  PROVE  T = Nat
  <1>1. SUFFICES ASSUME Nat \ T # {} PROVE FALSE
    OBVIOUS
  <1>2. PICK x \in Nat \ T : \A y \in Nat \ T : x <= y
    BY <1>1, LeastOf
  <1>3. x - 1 \in Nat
    BY <1>2
  <1>4. x - 1 \in T /\ x - 1 + 1 = x
    BY <1>2, <1>3
  <1>5. QED
    BY <1>4, <1>2

(* Sums of the frames of a queue's first buffers                            *)
Adds(d, n, g) == g = [i \in 0 .. n |-> IF i = 0 THEN 0 ELSE g[i - 1] + d[i - 1]]

LEMMA SumExists ==
  ASSUME NEW d, NEW n \in Nat
  PROVE  \E g : Adds(d, n, g)
  <1> DEFINE T == {k \in Nat : \E g : Adds(d, k, g)}
  <1>1. 0 \in T
    <2>1. Adds(d, 0, [i \in 0 .. 0 |-> 0])
      BY DEF Adds
    <2>2. QED
      BY <2>1
  <1>2. ASSUME NEW k \in T PROVE k + 1 \in T
    <2>1. PICK g : Adds(d, k, g)
      OBVIOUS
    <2> DEFINE h == [i \in 0 .. k + 1 |-> IF i <= k THEN g[i] ELSE g[k] + d[k]]
    <2>2. ASSUME NEW i \in 0 .. k + 1
          PROVE  h[i] = IF i = 0 THEN 0 ELSE h[i - 1] + d[i - 1]
      <3>1. CASE i = 0
        BY <2>1, <3>1 DEF Adds
      <3>2. CASE i \in 1 .. k
        <4>1. h[i] = g[i] /\ h[i - 1] = g[i - 1] /\ i \in 0 .. k
          BY <3>2
        <4>2. g[i] = g[i - 1] + d[i - 1]
          BY <2>1, <3>2, <4>1 DEF Adds
        <4>3. QED
          BY <3>2, <4>1, <4>2
      <3>3. CASE i = k + 1
        BY <3>3
      <3>4. QED
        BY <3>1, <3>2, <3>3
    <2>3. DOMAIN h = 0 .. k + 1
      OBVIOUS
    <2>4. Adds(d, k + 1, h)
      BY <2>2 DEF Adds
    <2>5. QED
      BY <2>4
  <1>3. T = Nat
    <2>1. T \in SUBSET Nat
      OBVIOUS
    <2> HIDE DEF T
    <2>2. QED
      BY <1>1, <1>2, <2>1, Upward
  <1>4. QED
    BY <1>3

Sums(q, frames) ==
  LET before[i \in 0 .. QueueSize] ==
        IF i = 0 THEN 0 ELSE before[i - 1] + frames[q[i - 1]]
  IN before

LEMMA BeforeIsSums == \A src : FramesBefore(src) = Sums(src.bufferQueue, used)
  BY DEF FramesBefore, Sums

LEMMA SumsDef ==
  ASSUME NEW q, NEW frames
  PROVE  Sums(q, frames) = [i \in 0 .. QueueSize |->
                              IF i = 0 THEN 0
                              ELSE Sums(q, frames)[i - 1] + frames[q[i - 1]]]
  <1> DEFINE d == [i \in Slots |-> frames[q[i]]]
  <1>1. PICK g : Adds(d, QueueSize, g)
    BY SumExists, SlotFacts
  <1>2. \A i \in 0 .. QueueSize : i # 0 => d[i - 1] = frames[q[i - 1]]
    BY SlotFacts DEF Slots
  <1>3. g = [i \in 0 .. QueueSize |-> IF i = 0 THEN 0 ELSE g[i - 1] + frames[q[i - 1]]]
    <2> HIDE DEF d
    <2>1. QED
      BY <1>1, <1>2 DEF Adds
  <1> HIDE DEF d
  <1>4. QED
    BY <1>3 DEF Sums

LEMMA SumsStep ==
  ASSUME NEW q, NEW frames
  PROVE  /\ Sums(q, frames)[0] = 0
         /\ \A i \in Slots : Sums(q, frames)[i + 1] = Sums(q, frames)[i] + frames[q[i]]
  <1> DEFINE s == Sums(q, frames)
  <1>1. s = [i \in 0 .. QueueSize |-> IF i = 0 THEN 0 ELSE s[i - 1] + frames[q[i - 1]]]
    BY SumsDef
  <1> HIDE DEF s
  <1>2. s[0] = 0
    BY <1>1, SlotFacts
  <1>3. ASSUME NEW i \in Slots PROVE s[i + 1] = s[i] + frames[q[i]]
    <2>1. PICK j \in 0 .. QueueSize : j = i + 1
      BY SlotFacts DEF Slots
    <2>2. j # 0 /\ j - 1 = i
      BY <2>1 DEF Slots
    <2>3. s[j] = s[j - 1] + frames[q[j - 1]]
      BY <1>1, <2>2
    <2>4. QED
      BY <2>1, <2>2, <2>3
  <1>4. QED
    BY <1>2, <1>3 DEF s

(* The sums over the filled part are numbers, and depend on it alone.       *)
LEMMA SumsType ==
  ASSUME NEW q, NEW frames, NEW n \in 0 .. QueueSize, \A i \in Slots : i < n => frames[q[i]] \in Nat
  PROVE  \A i \in 0 .. n : Sums(q, frames)[i] \in Nat
  <1> DEFINE T == {k \in Nat : k <= n => Sums(q, frames)[k] \in Nat}
  <1>1. 0 \in T
    BY SumsStep
  <1>2. ASSUME NEW k \in T PROVE k + 1 \in T
    <2>1. CASE k + 1 <= n
      <3>1. k \in Slots /\ k < n
        BY <2>1, SlotFacts DEF Slots
      <3>2. Sums(q, frames)[k] \in Nat /\ frames[q[k]] \in Nat
        BY <3>1
      <3>3. Sums(q, frames)[k + 1] = Sums(q, frames)[k] + frames[q[k]]
        BY <3>1, SumsStep
      <3>4. QED
        BY <3>2, <3>3
    <2>2. QED
      BY <2>1
  <1>3. T = Nat
    <2>1. T \in SUBSET Nat
      OBVIOUS
    <2> HIDE DEF T
    <2>2. QED
      BY <1>1, <1>2, <2>1, Upward
  <1>4. QED
    BY <1>3

LEMMA SumsAgree ==
  ASSUME NEW q, NEW frames, NEW r, NEW others, NEW n \in 0 .. QueueSize,
         \A i \in Slots : i < n => frames[q[i]] = others[r[i]]
  PROVE  \A i \in 0 .. n : Sums(q, frames)[i] = Sums(r, others)[i]
  <1> DEFINE T == {k \in Nat : k <= n => Sums(q, frames)[k] = Sums(r, others)[k]}
  <1>1. 0 \in T
    BY SumsStep
  <1>2. ASSUME NEW k \in T PROVE k + 1 \in T
    <2>1. CASE k + 1 <= n
      <3>1. k \in Slots /\ k < n
        BY <2>1, SlotFacts DEF Slots
      <3>2. Sums(q, frames)[k] = Sums(r, others)[k] /\ frames[q[k]] = others[r[k]]
        BY <3>1
      <3>3. QED
        BY <3>1, <3>2, SumsStep
    <2>2. QED
      BY <2>1
  <1>3. T = Nat
    <2>1. T \in SUBSET Nat
      OBVIOUS
    <2> HIDE DEF T
    <2>2. QED
      BY <1>1, <1>2, <2>1, Upward
  <1>4. QED
    BY <1>3
-----------------------------------------------------------------------------
(* Frames are mixed in order.  Every buffer of a queue had the length of    *)
(* its loads when it was queued, and keeps it, in memory or not.            *)
Ordered(src, frames, laps) ==
  /\ \A i \in Slots :
       i < src.bufUsed => frames[src.bufferQueue[i]] \in Lengths[src.bufferQueue[i]]
  /\ src.framesOut = Sums(src.bufferQueue, frames)[src.qactive] + laps + src.playPos

OrderOK == \A s \in Sources : Active(source[s]) => Ordered(source[s], used, lapped[s])

(* What most steps leave alone.                                             *)
Unmoved(src, t) ==
  Active(t) =>
    /\ t.bufUsed = src.bufUsed /\ t.bufferQueue = src.bufferQueue
    /\ t.qactive = src.qactive /\ t.playPos = src.playPos /\ t.framesOut = src.framesOut

LEMMA UnmovedSteps ==
  ASSUME NEW src, SourceType(src)
  PROVE  /\ Unmoved(src, src)
         /\ \A mem : Unmoved(src, Detach(src, mem))
         /\ Unmoved(src, StartFadeIn(src)) /\ Unmoved(src, StartFadeOut(src))
         /\ Unmoved(src, Fade(src))
         /\ \A to : Unmoved(src, [src EXCEPT !.state = to])
         /\ \A p : Unmoved(src, [src EXCEPT !.fadePeriod = p])
         /\ \A e : Unmoved(src, [src EXCEPT !.endPos = e])
         /\ \A m : Unmoved(src, [src EXCEPT !.mode = m])
  <1> USE DEF Unmoved, SourceType, SourceFields
  <1>1. \A mem : Unmoved(src, Detach(src, mem))
    BY DEF Detach, Active
  <1>2. Unmoved(src, StartFadeIn(src)) /\ Unmoved(src, StartFadeOut(src))
    BY DEF StartFadeIn, StartFadeOut
  <1>3. Unmoved(src, Fade(src))
    BY DEF Fade
  <1>4. QED
    BY <1>1, <1>2, <1>3

LEMMA UnmovedVolume ==
  ASSUME NEW src, SourceType(src), NEW x
  PROVE  Unmoved(src, src) /\ Unmoved(src, [src EXCEPT !.volume = x, !.gain = x])
  BY DEF Unmoved, SourceType, SourceFields, Active

LEMMA OrderedUnmoved ==
  ASSUME NEW src, NEW t, NEW frames, NEW laps, Unmoved(src, t),
         Active(src) => Ordered(src, frames, laps)
  PROVE  Active(t) => Ordered(t, frames, laps)
  BY DEF Unmoved, Ordered, Active

LEMMA ActiveSlot ==
  ASSUME NEW src, SourceType(src), QueueShape(src), Active(src)
  PROVE  /\ src.bufUsed \in 0 .. QueueSize /\ src.qactive \in Slots
         /\ src.qactive < src.bufUsed /\ src.qactive \in 0 .. src.bufUsed
  <1>1. src.bufUsed \in 0 .. QueueSize /\ src.qactive \in Slots /\ src.qactive < src.bufUsed
    BY DEF SourceType, QueueShape, Active
  <1>2. QED
    BY <1>1, SlotFacts DEF Slots

(* Loads of other buffers do not count.                                     *)
LEMMA OrderedFrames ==
  ASSUME NEW src, SourceType(src), QueueShape(src), Active(src), NEW laps,
         NEW frames, Ordered(src, frames, laps),
         NEW others, \A b \in Buffers : frames[b] \in Lengths[b] => others[b] = frames[b]
  PROVE  Ordered(src, others, laps)
  <1> DEFINE q == src.bufferQueue
  <1>1. src.bufUsed \in 0 .. QueueSize /\ src.qactive \in 0 .. src.bufUsed
    BY ActiveSlot
  <1>2. \A i \in Slots : i < src.bufUsed =>
          q[i] \in Buffers /\ frames[q[i]] \in Lengths[q[i]] /\ others[q[i]] = frames[q[i]]
    BY DEF Ordered, QueueShape
  <1>3. Sums(q, frames)[src.qactive] = Sums(q, others)[src.qactive]
    <2> HIDE DEF q
    <2>1. QED
      BY <1>1, <1>2, SumsAgree
  <1>4. QED
    BY <1>2, <1>3 DEF Ordered

(* A play begins at the start of buffers that are in memory.                *)
LEMMA OrderedPlay ==
  ASSUME NEW src, SourceType(src), NEW frames, NEW mode,
         NEW q \in Playlists, \A i \in 1 .. Len(q) : frames[q[i]] \in Lengths[q[i]]
  PROVE  LET t == Play(src, q, mode, frames)
         IN /\ Ordered(t, frames, 0)
            /\ t.bufUsed = Len(q) /\ t.qactive = 0 /\ t.framesOut = 0
            /\ \A i \in Slots : i < Len(q) => t.bufferQueue[i] = q[i + 1]
  <1> USE DEF SourceFields
  <1> DEFINE filled == [i \in Slots |-> IF i < Len(q) THEN q[i + 1] ELSE src.bufferQueue[i]]
             l == SetPlaylist(src, q)
             p == [l EXCEPT !.playPos = 0, !.framesOut = 0]
             m == SetMode(p, mode)
             t == Play(src, q, mode, frames)
             At(r) == /\ DOMAIN r = SourceFields
                      /\ r.bufUsed = Len(q) /\ r.qactive = 0 /\ r.bufferQueue = filled
  <1>1. At(l)
    BY DEF SetPlaylist, SourceType
  <1> HIDE DEF l, filled
  <1>2. At(p) /\ p.playPos = 0 /\ p.framesOut = 0
    BY <1>1
  <1> HIDE DEF p
  <1>3. At(m) /\ m.playPos = 0 /\ m.framesOut = 0
    BY <1>2 DEF SetMode, StartFadeIn
  <1> HIDE DEF m
  <1>4. At(t) /\ t.playPos = 0 /\ t.framesOut = 0
    BY <1>3 DEF Play, m, p, l
  <1> HIDE DEF t
  <1>5. \A i \in Slots : i < Len(q) => filled[i] = q[i + 1] /\ i + 1 \in 1 .. Len(q)
    <2>1. Len(q) \in Nat
      BY DEF Playlists
    <2>2. QED
      BY <2>1 DEF filled, Slots
  <1>6. \A i \in Slots : i < Len(q) => frames[filled[i]] \in Lengths[filled[i]]
    BY <1>5
  <1>7. Sums(filled, frames)[0] = 0
    BY SumsStep
  <1>8. Ordered(t, frames, 0)
    BY <1>4, <1>6, <1>7 DEF Ordered
  <1>9. QED
    BY <1>4, <1>5, <1>8 DEF t

(* A buffer queued behind the others leaves the sums before it alone.       *)
LEMMA OrderedQueue ==
  ASSUME NEW src, SourceType(src), QueueShape(src), Active(src),
         NEW frames, NEW laps, Ordered(src, frames, laps),
         NEW b, frames[b] \in Lengths[b]
  PROVE  LET t == QueueBuffer(src, b)
         IN /\ Ordered(t, frames, laps)
            /\ t.bufUsed \in 0 .. QueueSize /\ src.bufUsed <= t.bufUsed
            /\ \A i \in Slots : i < src.bufUsed => t.bufferQueue[i] = src.bufferQueue[i]
  <1> USE DEF SourceFields
  <1> DEFINE t == QueueBuffer(src, b)
             q == src.bufferQueue
             r == [q EXCEPT ![src.qtail] = b]
  <1>1. CASE ~(src.bufUsed < QueueSize)
    BY <1>1 DEF QueueBuffer, SourceType
  <1>2. CASE src.bufUsed < QueueSize
    <2>1. /\ src.qtail = src.bufUsed /\ src.qtail \in Slots
          /\ src.bufUsed \in 0 .. QueueSize /\ src.qactive \in 0 .. src.bufUsed
          /\ q \in [Slots -> Buffers \cup {NoBuffer}]
      BY <1>2, ActiveSlot DEF QueueShape, SourceType
    <2>2. /\ t.bufUsed = src.bufUsed + 1 /\ t.bufferQueue = r /\ t.qactive = src.qactive
          /\ t.playPos = src.playPos /\ t.framesOut = src.framesOut
      BY <1>2 DEF QueueBuffer, SourceType, Active
    <2>3. r[src.qtail] = b /\ \A i \in Slots : i # src.qtail => r[i] = q[i]
      BY <2>1
    <2> HIDE DEF t, r
    <2>4. \A i \in Slots : (i < t.bufUsed => i = src.qtail \/ i < src.bufUsed)
                          /\ (i < src.bufUsed => i # src.qtail)
      BY <2>1, <2>2 DEF Slots
    <2>5. ASSUME NEW i \in Slots, i < t.bufUsed PROVE frames[r[i]] \in Lengths[r[i]]
      <3>1. r[i] = b \/ (i < src.bufUsed /\ r[i] = q[i])
        BY <2>3, <2>4, <2>5
      <3>2. i < src.bufUsed => frames[q[i]] \in Lengths[q[i]]
        BY DEF Ordered
      <3>3. QED
        BY <3>1, <3>2
    <2>6. Sums(q, frames)[src.qactive] = Sums(r, frames)[src.qactive]
      <3>1. \A i \in Slots : i < src.bufUsed => frames[q[i]] = frames[r[i]]
        BY <2>3, <2>4
      <3> HIDE DEF q
      <3>2. QED
        BY <2>1, <3>1, SumsAgree
    <2>7. Ordered(t, frames, laps)
      BY <2>2, <2>5, <2>6 DEF Ordered
    <2>8. t.bufUsed \in 0 .. QueueSize /\ src.bufUsed <= t.bufUsed
      BY <1>2, <2>1, <2>2, SlotFacts
    <2>9. QED
      BY <2>2, <2>3, <2>4, <2>7, <2>8 DEF t
  <1>3. QED
    BY <1>1, <1>2

(* A pass that stays inside the buffer moves on by its frames.              *)
LEMMA AdvanceMoves ==
  ASSUME NEW src, NEW mem \in SUBSET Buffers, Sound(src, mem), Active(src),
         NEW frames \in [Buffers -> Nat], Inside(src, frames),
         NEW n \in Nat, src.playPos + n <= frames[ActiveBuffer(src)]
  PROVE  LET t == Advance(src, n, frames, mem, TRUE)
         IN /\ DOMAIN t = SourceFields
            /\ t.bufUsed = src.bufUsed /\ t.bufferQueue = src.bufferQueue
            /\ t.framesOut = src.framesOut + n
            /\ Active(t) => ~Finishes(src, n, frames, mem, TRUE)
            /\ Active(t) /\ ~PlaysOut(src, n, frames) =>
                 t.qactive = src.qactive /\ t.playPos = src.playPos + n
            /\ Active(t) /\ PlaysOut(src, n, frames) =>
                 t.playPos = 0 /\ t.qactive = IF AtQueueEnd(src) THEN src.qactive
                                              ELSE NextSlot(src.qactive)
            /\ ~Active(t) => Finishes(src, n, frames, mem, TRUE)
            /\ t.state = IF Finishes(src, n, frames, mem, TRUE) THEN "unused" ELSE src.state
  <1> USE DEF SourceFields
  <1> DEFINE t == Advance(src, n, frames, mem, TRUE)
             armed == [ArmFade(src, n) EXCEPT !.framesOut = @ + n]
             moved == [src EXCEPT !.framesOut = @ + n]
             rewound == [armed EXCEPT !.playPos = 0]
             gone == [armed EXCEPT !.playPos = @ + n]
             next == [rewound EXCEPT !.qactive = NextSlot(@)]
             ends == Finishes(src, n, frames, mem, TRUE)
             Kept(r) == /\ DOMAIN r = SourceFields
                        /\ r.bufUsed = src.bufUsed /\ r.bufferQueue = src.bufferQueue
                        /\ r.framesOut = src.framesOut + n
             Here(r) == Kept(r) /\ r.qactive = src.qactive /\ r.state = src.state
  <1>0. DOMAIN src = SourceFields /\ src.framesOut \in Nat /\ src.qactive \in Slots /\ QNone \notin Slots
        /\ NextSlot(src.qactive) \in Slots
    BY SlotFacts DEF Sound, SourceType, Active
  <1>1. Here(moved)
    BY <1>0
  <1>2. Here(armed) /\ armed.playPos = src.playPos
    BY <1>0 DEF ArmFade, StartFadeOut
  <1> HIDE DEF moved, armed
  <1>3. /\ Here(rewound) /\ rewound.playPos = 0
        /\ Here(gone) /\ gone.playPos = src.playPos + n
    BY <1>2
  <1> HIDE DEF rewound, gone
  <1>4. /\ Kept(next) /\ next.playPos = 0 /\ next.state = src.state
        /\ next.qactive = NextSlot(src.qactive)
    BY <1>3
  <1> HIDE DEF next
  <1>5. ASSUME NEW r, Here(r)
        PROVE  Kept(EndPlay(r)) /\ ~Active(EndPlay(r)) /\ EndPlay(r).state = "unused"
    BY <1>5 DEF EndPlay, Active
  <1>6. CASE ReachesEnd(src, n)
    <2>1. t = EndPlay(moved) /\ ends
      BY <1>6 DEF Advance, Finishes, moved
    <2> HIDE DEF t, ends
    <2>2. Kept(t) /\ ~Active(t) /\ t.state = "unused"
      BY <1>1, <1>5, <2>1
    <2>3. QED
      BY <2>1, <2>2 DEF t, ends
  <1>7. CASE ~ReachesEnd(src, n) /\ ~PlaysOut(src, n, frames)
    <2>1. t = gone /\ ~ends
      BY <1>7 DEF Advance, Finishes, gone, armed
    <2> HIDE DEF t, ends
    <2>2. QED
      BY <1>0, <1>3, <1>7, <2>1 DEF t, ends, Active
  <1>8. CASE ~ReachesEnd(src, n) /\ PlaysOut(src, n, frames)
    <2>1. t = IF ends THEN EndPlay(rewound) ELSE IF AtQueueEnd(src) THEN rewound ELSE next
      BY <1>8 DEF Advance, next, rewound, armed
    <2> HIDE DEF t, ends
    <2>2. CASE ends
      <3>1. Kept(t) /\ ~Active(t) /\ t.state = "unused"
        BY <1>3, <1>5, <2>1, <2>2
      <3>2. QED
        BY <2>2, <3>1 DEF t, ends
    <2>3. CASE ~ends
      BY <1>0, <1>3, <1>4, <1>8, <2>1, <2>3 DEF t, ends, Active
    <2>4. QED
      BY <2>2, <2>3
  <1>9. QED
    BY <1>6, <1>7, <1>8

LEMMA QueueEndSlot ==
  ASSUME NEW src, SourceType(src), QueueShape(src), Active(src)
  PROVE  /\ AtQueueEnd(src) => src.qactive + 1 = src.bufUsed
         /\ ~AtQueueEnd(src) => NextSlot(src.qactive) = src.qactive + 1
                                /\ src.qactive + 1 < src.bufUsed
  BY ActiveSlot, SlotFacts DEF AtQueueEnd, NextSlot, QueueShape, Slots

LEMMA OrderedAdvance ==
  ASSUME NEW src, NEW mem \in SUBSET Buffers, Sound(src, mem), Active(src),
         NEW frames \in [Buffers -> Nat], Inside(src, frames), NEW laps \in Nat,
         Ordered(src, frames, laps),
         NEW n \in Nat, src.playPos + n <= frames[ActiveBuffer(src)]
  PROVE  LET t == Advance(src, n, frames, mem, TRUE)
             laps1 == IF PlaysOut(src, n, frames) /\ AtQueueEnd(src)
                         /\ ~Finishes(src, n, frames, mem, TRUE)
                      THEN laps + frames[ActiveBuffer(src)] ELSE laps
         IN /\ Active(t) => Ordered(t, frames, laps1)
            /\ Finishes(src, n, frames, mem, TRUE) =>
                 \/ t.framesOut >= src.endPos
                 \/ ~AtQueueEnd(src) /\ src.bufferQueue[NextSlot(src.qactive)] \notin mem
                 \/ AtQueueEnd(src)
                    /\ t.framesOut = Sums(src.bufferQueue, frames)[src.bufUsed] + laps
  <1> DEFINE t == Advance(src, n, frames, mem, TRUE)
             q == src.bufferQueue
             a == src.qactive
             sums == Sums(q, frames)
             ends == Finishes(src, n, frames, mem, TRUE)
             len == frames[q[a]]
  <1>1. /\ SourceType(src) /\ QueueShape(src)
        /\ src.bufUsed \in 0 .. QueueSize /\ a \in Slots /\ a < src.bufUsed
        /\ src.playPos \in Nat /\ src.framesOut \in Nat
        /\ \A i \in Slots : i < src.bufUsed => frames[q[i]] \in Nat
    BY ActiveSlot DEF Sound, SourceType, QueueShape
  <1>2. len \in Nat /\ ActiveBuffer(src) = q[a]
    BY <1>1 DEF ActiveBuffer
  <1>3. sums[a] \in Nat /\ sums[a + 1] = sums[a] + len
    <2>1. a \in 0 .. src.bufUsed
      BY <1>1, SlotFacts DEF Slots
    <2> HIDE DEF q
    <2>2. QED
      BY <1>1, <2>1, SumsType, SumsStep
  <1>4. src.framesOut = sums[a] + laps + src.playPos
    BY DEF Ordered
  <1>5. /\ t.bufUsed = src.bufUsed /\ t.bufferQueue = q
        /\ t.framesOut = src.framesOut + n
        /\ Active(t) => ~ends
        /\ Active(t) /\ ~PlaysOut(src, n, frames) => t.qactive = a /\ t.playPos = src.playPos + n
        /\ Active(t) /\ PlaysOut(src, n, frames) =>
             t.playPos = 0 /\ t.qactive = IF AtQueueEnd(src) THEN a ELSE NextSlot(a)
    BY AdvanceMoves, ZenonT(60)
  <1>6. PlaysOut(src, n, frames) => src.playPos + n = len
    BY <1>1, <1>2 DEF PlaysOut
  <1>7. /\ AtQueueEnd(src) => a + 1 = src.bufUsed
        /\ ~AtQueueEnd(src) => NextSlot(a) = a + 1
    BY <1>1, QueueEndSlot
  <1>8. \A i \in Slots : i < t.bufUsed => frames[t.bufferQueue[i]] \in Lengths[t.bufferQueue[i]]
    BY <1>5 DEF Ordered
  <1>9. ends => \/ t.framesOut >= src.endPos
                \/ ~AtQueueEnd(src) /\ q[NextSlot(a)] \notin mem
                \/ AtQueueEnd(src) /\ PlaysOut(src, n, frames)
    BY <1>5 DEF Finishes, ReachesEnd
  <1> HIDE DEF t, sums, len, ends, a, q
  <1>10. AtQueueEnd(src) /\ PlaysOut(src, n, frames) => t.framesOut = sums[src.bufUsed] + laps
    BY <1>1, <1>2, <1>3, <1>4, <1>5, <1>6, <1>7
  <1>11. ASSUME Active(t), ~PlaysOut(src, n, frames)
         PROVE  t.framesOut = sums[t.qactive] + laps + t.playPos
    BY <1>1, <1>2, <1>3, <1>4, <1>5, <1>11
  <1>12. ASSUME Active(t), PlaysOut(src, n, frames), AtQueueEnd(src)
         PROVE  t.framesOut = sums[t.qactive] + (laps + len) + t.playPos
    BY <1>1, <1>2, <1>3, <1>4, <1>5, <1>6, <1>12
  <1>13. ASSUME Active(t), PlaysOut(src, n, frames), ~AtQueueEnd(src)
         PROVE  t.framesOut = sums[t.qactive] + laps + t.playPos
    BY <1>1, <1>2, <1>3, <1>4, <1>5, <1>6, <1>7, <1>13
  <1>14. t.bufferQueue = q /\ ActiveBuffer(src) = q[a]
    BY <1>2, <1>5
  <1>15. Active(t) => Ordered(t, frames,
           IF PlaysOut(src, n, frames) /\ AtQueueEnd(src) /\ ~ends THEN laps + len ELSE laps)
    BY <1>5, <1>8, <1>11, <1>12, <1>13, <1>14 DEF Ordered, sums
  <1>16. QED
    BY <1>9, <1>10, <1>14, <1>15 DEF t, ends, len, a, q, sums

(* The fragment of a pass fits into the rest of every current buffer.       *)
LEMMA FragmentFits ==
  ASSUME IInv, AllInside, NEW n \in Nat, IsFragment(n), NEW s \in Mixable
  PROVE  source[s].playPos + n <= used[ActiveBuffer(source[s])]
  <1> DEFINE left == used[ActiveBuffer(source[s])] - source[s].playPos
  <1>1. s \in Sources /\ Active(source[s]) /\ Sound(source[s], loaded) /\ Inside(source[s], used)
    BY DEF Mixable, IInv, AllSound, RestType, AllInside
  <1>2. used[ActiveBuffer(source[s])] \in Nat /\ source[s].playPos \in Nat
    BY <1>1 DEF IInv, RestType, Sound, SourceType
  <1>3. left \in Nat
    BY <1>1, <1>2 DEF Inside
  <1>4. n <= left % Wrap
    BY DEF IsFragment, FragmentLens, SamplesAvail
  <1> HIDE DEF left
  <1>5. left % Wrap <= left /\ left % Wrap \in Nat
    BY <1>3, SourceAssumption
  <1>6. n <= left
    BY <1>3, <1>4, <1>5
  <1>7. QED
    BY <1>2, <1>6 DEF left

LEMMA OrderStep ==
  ASSUME StableLoads, IInv, AllInside, LoadedLengths, OrderOK, [Next]_vars
  PROVE  OrderOK'
  <1>1. /\ DOMAIN source = Sources
        /\ \A s \in Sources : Sound(source[s], loaded) /\ SourceType(source[s])
                              /\ QueueShape(source[s])
        /\ used \in [Buffers -> Nat] /\ loaded \in SUBSET Buffers
        /\ mixing \in SUBSET Sources /\ lapped \in [Sources -> Nat]
    BY DEF IInv, AllSound, RestType, Sound
  <1>2. ASSUME UNCHANGED <<used, lapped>>, \A s \in Sources : Unmoved(source[s], source'[s])
        PROVE  OrderOK'
    BY <1>2, OrderedUnmoved DEF OrderOK
  <1>3. CASE SourceCommand
    <2>1. ASSUME NEW s \in Sources, NEW q \in PlayChoices, NEW mode, PlaySource(s, q, mode)
          PROVE  OrderOK'
      <3>1. q \in Playlists /\ \A i \in 1 .. Len(q) : used[q[i]] \in Lengths[q[i]]
        BY <2>1, VoiceAssumption DEF PlaySource, LoadedLengths
      <3>2. Ordered(Play(source[s], q, mode, used), used, 0)
        BY <1>1, <3>1, OrderedPlay
      <3>3. /\ source' = [source EXCEPT ![s] = Play(source[s], q, mode, used)]
            /\ lapped' = [lapped EXCEPT ![s] = 0] /\ used' = used
        BY <2>1 DEF PlaySource
      <3>4. QED
        BY <1>1, <3>2, <3>3 DEF OrderOK
    <2>2. ASSUME NEW S, NEW to, Control(S, to)
          PROVE  OrderOK'
      BY <1>1, <1>2, <2>2, UnmovedSteps DEF Control, Transform, history
    <2>3. ASSUME NEW S, FadeOut(S)
          PROVE  OrderOK'
      BY <1>1, <1>2, <2>3, UnmovedSteps DEF FadeOut, Transform, history
    <2>4. ASSUME NEW S, NEW x \in Nat, SetVolume(S, x)
          PROVE  OrderOK'
      <3> DEFINE set(src) == [src EXCEPT !.volume = x, !.gain = x]
      <3>1. source' = [s \in Sources |-> IF s \in S THEN set(source[s]) ELSE source[s]]
        BY <2>4, Zenon DEF SetVolume, Transform
      <3>4. \A s \in Sources :
              Unmoved(source[s], source[s]) /\ Unmoved(source[s], set(source[s]))
        BY <1>1, UnmovedVolume, Zenon
      <3> HIDE DEF set
      <3>2. \A s \in Sources : Unmoved(source[s], source'[s])
        BY <3>1, <3>4
      <3>3. QED
        BY <1>2, <2>4, <3>2 DEF SetVolume, history
    <2>5. ASSUME NEW S, NEW p, SetFadePeriod(S, p)
          PROVE  OrderOK'
      BY <1>1, <1>2, <2>5, UnmovedSteps DEF SetFadePeriod, Transform, history
    <2>6. ASSUME NEW s, NEW e, SetEndTime(s, e)
          PROVE  OrderOK'
      BY <1>1, <1>2, <2>6, UnmovedSteps DEF SetEndTime, Transform, history
    <2>7. QED
      BY <1>3, <2>1, <2>2, <2>3, <2>4, <2>5, <2>6, VoiceAssumption
         DEF SourceCommand, Start, Stop, Resume
  <1>4. CASE ProgramOp
    <2>1. ASSUME NEW s \in Sources, NEW b \in Buffers, Queue(s, b)
          PROVE  OrderOK'
      <3>1. Active(source[s]) /\ used[b] \in Lengths[b]
        BY <2>1 DEF Queue, LoadedLengths
      <3>2. Ordered(QueueBuffer(source[s], b), used, lapped[s])
        BY <1>1, <3>1, OrderedQueue DEF OrderOK
      <3>3. /\ source' = [t \in Sources |-> IF t \in {s} THEN QueueBuffer(source[t], b)
                                                         ELSE source[t]]
            /\ UNCHANGED <<used, lapped>>
        BY <2>1 DEF Queue, Transform, history
      <3>4. QED
        BY <1>1, <3>2, <3>3 DEF OrderOK
    <2>2. ASSUME NEW s, FadeIn(s)
          PROVE  OrderOK'
      BY <1>1, <1>2, <2>2, UnmovedSteps DEF FadeIn, Transform, history
    <2>3. ASSUME NEW s, NEW on, SetLoop(s, on)
          PROVE  OrderOK'
      BY <1>1, <1>2, <2>3, UnmovedSteps DEF SetLoop, Transform, history
    <2>4. QED
      BY VoiceAssumption, <1>4, <2>1, <2>2, <2>3 DEF ProgramOp
  <1>5. CASE BufferCommand
    <2>1. ASSUME NEW b \in Buffers, NEW n \in Lengths[b], SetBuffer(b, n)
          PROVE  OrderOK'
      <3>1. PICK k \in Nat \ {0} : Lengths[b] = {k}
        BY DEF StableLoads
      <3>2. \A x \in Buffers : used[x] \in Lengths[x] => used'[x] = used[x]
        BY <1>1, <2>1, <3>1 DEF SetBuffer
      <3> SUFFICES ASSUME NEW s \in Sources, Active(source'[s])
                   PROVE  Ordered(source'[s], used', lapped'[s])
        BY DEF OrderOK
      <3>3. source'[s] = Detach(source[s], loaded) /\ lapped' = lapped
        BY <2>1 DEF SetBuffer, Transform, history
      <3>4. Sound(source'[s], loaded) /\ Unmoved(source[s], source'[s])
        BY <1>1, <3>3, SoundDetach, UnmovedSteps
      <3>7. Ordered(source'[s], used, lapped[s])
        BY <3>4, OrderedUnmoved DEF OrderOK
      <3>5. SourceType(source'[s]) /\ QueueShape(source'[s])
        BY <3>4 DEF Sound
      <3>6. QED
        BY <3>2, <3>3, <3>7, <3>5, OrderedFrames
    <2>2. ASSUME NEW B, BuffersFree(B)
          PROVE  OrderOK'
      BY <1>1, <1>2, <2>2, UnmovedSteps DEF BuffersFree, Transform, history
    <2>3. QED
      BY <1>5, <2>1, <2>2 DEF BufferCommand
  <1>6. CASE Cycle
    <2>1. CASE Update
      BY <1>1, <1>2, <2>1, UnmovedSteps DEF Update, Transform
    <2>2. ASSUME NEW n \in 0 .. MixLen, MixPass(n)
          PROVE  OrderOK'
      <3> SUFFICES ASSUME NEW s \in Sources, Active(source'[s])
                   PROVE  Ordered(source'[s], used', lapped'[s])
        BY DEF OrderOK
      <3> DEFINE t == Advance(source[s], n, used, loaded, TRUE)
                 laps1 == IF LapsAfter(source[s], n)
                          THEN lapped[s] + used[ActiveBuffer(source[s])] ELSE lapped[s]
      <3>1. /\ source'[s] = IF s \in Mixable THEN t ELSE source[s]
            /\ lapped'[s] = IF s \in Mixable THEN laps1 ELSE lapped[s]
            /\ used' = used /\ IsFragment(n)
        BY <2>2 DEF MixPass, Transform
      <3>2. CASE s \in Mixable
        <4>1. /\ Active(source[s]) /\ Inside(source[s], used)
              /\ Ordered(source[s], used, lapped[s]) /\ lapped[s] \in Nat /\ n \in Nat
          BY <1>1, <3>2, SourceAssumption DEF Mixable, AllInside, OrderOK
        <4>2. source[s].playPos + n <= used[ActiveBuffer(source[s])]
          BY <3>1, <3>2, <4>1, FragmentFits
        <4>3. Active(t) => Ordered(t, used, laps1)
          BY <1>1, <4>1, <4>2, OrderedAdvance DEF LapsAfter
        <4> HIDE DEF t, laps1
        <4>4. QED
          BY <3>1, <3>2, <4>3
      <3> HIDE DEF t, laps1
      <3>3. CASE s \notin Mixable
        BY <3>1, <3>3 DEF OrderOK
      <3>4. QED
        BY <3>2, <3>3
    <2>3. CASE Write
      BY <1>1, <1>2, <2>3, UnmovedSteps DEF Write, history
    <2>4. QED
      BY <1>6, <2>1, <2>2, <2>3 DEF Cycle
  <1>7. CASE UNCHANGED vars
    BY <1>1, <1>2, <1>7, UnmovedSteps DEF vars
  <1>8. QED
    BY <1>3, <1>4, <1>5, <1>6, <1>7 DEF Next

(* The frames a source has sent out are those of the buffers it has played *)
(* out, the laps of its last one and its place in the current one, for any *)
(* contents of the queue and any pauses, frees and loads.                  *)
THEOREM FramesAreInOrder == ASSUME StableLoads PROVE Spec => []FramesInOrder
  <1>1. Init => AllInside /\ LoadedLengths /\ OrderOK
    BY DEF Init, AllInside, LoadedLengths, OrderOK, Inside, Active, SourceInit
  <1>2. /\ IInv /\ AllInside /\ LoadedLengths /\ OrderOK /\ [Next]_vars
        => AllInside' /\ LoadedLengths' /\ OrderOK'
    BY InsideStep, OrderStep
  <1>3. OrderOK => FramesInOrder
    BY BeforeIsSums DEF OrderOK, Ordered, FramesInOrder
  <1>4. QED
    BY <1>1, <1>2, <1>3, Invariance, PTL DEF Spec

(* A pass in which a source ends.                                          *)
LEMMA MixPassEnds ==
  ASSUME IInv, AllInside, OrderOK, NEW n \in 0 .. MixLen, MixPass(n), NEW s \in Sources,
         source[s].state = "playing", source'[s].state = "unused"
  PROVE  /\ s \in Mixable /\ Finishes(source[s], n, used, loaded, TRUE)
         /\ source'[s].framesOut = source[s].framesOut + n
         /\ \/ source'[s].framesOut >= source[s].endPos
            \/ /\ ~AtQueueEnd(source[s])
               /\ source[s].bufferQueue[NextSlot(source[s].qactive)] \notin loaded
            \/ source'[s].framesOut = Sums(source[s].bufferQueue, used)[source[s].bufUsed]
                                      + lapped[s]
  <1> DEFINE src == source[s]
             t == Advance(src, n, used, loaded, TRUE)
  <1>1. /\ Sound(src, loaded) /\ SourceType(src) /\ QueueShape(src)
        /\ used \in [Buffers -> Nat] /\ loaded \in SUBSET Buffers /\ lapped[s] \in Nat
    BY DEF IInv, AllSound, RestType, Sound
  <1>2. s \in Mixable /\ source'[s] = t /\ IsFragment(n)
    BY DEF MixPass, Transform
  <1>3. /\ Active(src) /\ Inside(src, used) /\ Ordered(src, used, lapped[s])
        /\ n \in Nat
    BY <1>2, SourceAssumption DEF Mixable, AllInside, OrderOK
  <1>4. src.playPos + n <= used[ActiveBuffer(src)]
    BY <1>2, <1>3, FragmentFits
  <1>5. t.state = "unused" => Finishes(src, n, used, loaded, TRUE)
    BY <1>1 DEF Advance, Finishes, EndPlay, ArmFade, StartFadeOut, SourceType, SourceFields
  <1>6. t.framesOut = src.framesOut + n
    BY <1>1, <1>3, <1>4, AdvanceMoves
  <1>7. Finishes(src, n, used, loaded, TRUE)
    BY <1>2, <1>5
  <1>8. \/ t.framesOut >= src.endPos
        \/ ~AtQueueEnd(src) /\ src.bufferQueue[NextSlot(src.qactive)] \notin loaded
        \/ t.framesOut = Sums(src.bufferQueue, used)[src.bufUsed] + lapped[s]
    <2> HIDE DEF t
    <2>1. Finishes(src, n, used, loaded, TRUE) =>
            \/ t.framesOut >= src.endPos
            \/ ~AtQueueEnd(src) /\ src.bufferQueue[NextSlot(src.qactive)] \notin loaded
            \/ /\ AtQueueEnd(src)
               /\ t.framesOut = Sums(src.bufferQueue, used)[src.bufUsed] + lapped[s]
      BY <1>1, <1>3, <1>4, OrderedAdvance, ZenonT(60) DEF t
    <2>2. QED
      BY <1>7, <2>1
  <1>9. QED
    BY <1>2, <1>6, <1>7, <1>8

(* Only a pass changes the state of a source while the mix is made.        *)
LEMMA OnlyPasses ==
  ASSUME IInv, [Next]_vars, phase = "mix", NEW s \in Sources,
         source'[s].state # source[s].state
  PROVE  \E n \in 0 .. MixLen : MixPass(n)
  BY DEF Next, SourceCommand, Start, Stop, Resume, PlaySource, Control, FadeOut, SetVolume,
         SetFadePeriod, SetEndTime, ProgramOp, Queue, FadeIn, SetLoop, BufferCommand,
         SetBuffer, BuffersFree, Cycle, Update, Write, vars

(* No source falls silent early: it ends at its end time, for want of the  *)
(* next buffer, or with the last frame of its queue sent out.              *)
THEOREM SourcesPlayOut == ASSUME StableLoads PROVE Spec => EndsPlayedOut
  <1>1. Init => AllInside /\ LoadedLengths /\ OrderOK
    BY DEF Init, AllInside, LoadedLengths, OrderOK, Inside, Active, SourceInit
  <1>2. /\ IInv /\ AllInside /\ LoadedLengths /\ OrderOK /\ [Next]_vars
        => AllInside' /\ LoadedLengths' /\ OrderOK'
    BY InsideStep, OrderStep
  <1>3. IInv /\ AllInside /\ OrderOK /\ [Next]_vars =>
          [\A s \in Sources :
             LET src == source[s] IN
             phase = "mix" /\ src.state = "playing" /\ source'[s].state = "unused" =>
               \/ source'[s].framesOut >= src.endPos
               \/ ~AtQueueEnd(src) /\ src.bufferQueue[NextSlot(src.qactive)] \notin loaded
               \/ source'[s].framesOut = FramesBefore(src)[src.bufUsed] + lapped[s]]_vars
    BY OnlyPasses, MixPassEnds, BeforeIsSums
  <1>4. QED
    BY <1>1, <1>2, <1>3, Invariance, PTL DEF Spec, EndsPlayedOut

-----------------------------------------------------------------------------
(* A source with a fade-out at its end is silent when it ends.  Its fade   *)
(* is armed at the latest in the cycle that passes fadePos, and from then  *)
(* on each cycle in which it plays takes one step off the gain: after `j'  *)
(* steps it is within j + 1 cycles of fadePos, and at the end of its       *)
(* frames, DefaultPeriod cycles beyond it, no step is left.                *)
GainUnit == FadeDelta(SourceInit)
FullFade == DefaultPeriod * MixLen

(* FADE_DELTA is exact for the volume and the period of a new source.      *)
ExactFade == MaxGain = DefaultPeriod * GainUnit

(* No end time cuts a playlist short.                                      *)
EndsAfterAll ==
  \A q \in PlayChoices, frames \in [Buffers -> Nat], e \in EndTimes \cup {EndNone} :
    (\A i \in 1 .. Len(q) : frames[q[i]] \in Lengths[q[i]]) => PlaylistFrames(q, frames) <= e

Settled(src) ==
  /\ src.volume = MaxGain /\ src.fadePeriod = DefaultPeriod
  /\ src.endPos \in EndTimes \cup {EndNone}

(* The gain of a source which reaches at most `reach' frames this cycle.   *)
Fallen(src, reach) ==
  \/ src.gain = 0 /\ src.fade \in {0, -GainUnit}
  \/ \E j \in 0 .. DefaultPeriod :
       /\ reach < src.fadePos + (j + 1) * MixLen
       /\ src.gain <= MaxGain - j * GainUnit
       /\ src.fade = -GainUnit

Fades(src, frames, r) ==
  src.fadePos # EndNone =>
    /\ src.fadePos + FullFade <= Sums(src.bufferQueue, frames)[src.bufUsed]
    /\ \A e \in EndTimes \cup {EndNone} : src.fadePos + FullFade <= e
    /\ src.framesOut >= src.fadePos => Fallen(src, src.framesOut + r)

(* What the cycle has still to mix from a source.                          *)
Ahead(s) == IF phase = "mix" /\ s \in mixing THEN MixLen - mixed ELSE 0

FadesOK ==
  \A s \in Sources \ FadeSources :
    Settled(source[s]) /\ (Active(source[s]) => Fades(source[s], used, Ahead(s)))

LEMMA FadeProducts ==
  ASSUME ExactFade
  PROVE  /\ GainUnit \in Nat \ {0} /\ FullFade \in Nat /\ MixLen <= FullFade
         /\ (DefaultPeriod + 1) * MixLen = FullFade + MixLen
         /\ \A j \in 0 .. DefaultPeriod :
              /\ j * GainUnit \in Nat /\ (j + 1) * GainUnit = j * GainUnit + GainUnit
              /\ (j + 1) * MixLen \in Nat /\ ((j + 1) + 1) * MixLen = (j + 1) * MixLen + MixLen
              /\ j # DefaultPeriod => (j + 1) * MixLen <= FullFade
  <1>1. DefaultPeriod \in Nat \ {0} /\ MixLen \in Nat \ {0} /\ MaxGain \in Nat \ {0}
    BY SourceAssumption
  <1>2. GainUnit \in Int
    BY <1>1 DEF GainUnit, FadeDelta, SourceInit
  <1>3. GainUnit \in Nat \ {0}
    BY <1>1, <1>2 DEF ExactFade
  <1>4. FullFade \in Nat /\ (DefaultPeriod + 1) * MixLen = FullFade + MixLen
    BY <1>1 DEF FullFade
  <1>5. ASSUME NEW j \in Nat, NEW k \in Nat, j <= k PROVE j * MixLen <= k * MixLen
    BY <1>1, <1>5
  <1>6. MixLen <= FullFade
    BY <1>1, <1>5 DEF FullFade
  <1>7. ASSUME NEW j \in 0 .. DefaultPeriod
        PROVE  /\ j * GainUnit \in Nat /\ (j + 1) * GainUnit = j * GainUnit + GainUnit
               /\ (j + 1) * MixLen \in Nat
               /\ ((j + 1) + 1) * MixLen = (j + 1) * MixLen + MixLen
    BY <1>1, <1>3
  <1>8. ASSUME NEW j \in 0 .. DefaultPeriod, j # DefaultPeriod
        PROVE  (j + 1) * MixLen <= FullFade
    BY <1>1, <1>5, <1>8 DEF FullFade
  <1>9. QED
    BY <1>3, <1>4, <1>6, <1>7, <1>8

LEMMA SettledDelta ==
  ASSUME NEW src, Settled(src) PROVE FadeDelta(src) = GainUnit
  BY DEF Settled, GainUnit, FadeDelta, SourceInit

(* One step of the gain for one more cycle of frames.                      *)
LEMMA FallenFade ==
  ASSUME ExactFade, NEW src, SourceType(src), GainInRange(src), src.fade # 0,
         NEW reach \in Nat, Fallen(src, reach), NEW more \in Nat, more <= reach + MixLen
  PROVE  Fallen(Fade(src), more)
  <1> USE DEF SourceFields
  <1> DEFINE t == Fade(src)
  <1>1. /\ GainUnit \in Nat \ {0} /\ src.gain \in Nat /\ src.fade = -GainUnit
        /\ DOMAIN src = SourceFields /\ src.fadePos \in Nat /\ MixLen \in Nat
        /\ MaxGain \in Nat
    BY FadeProducts, SourceAssumption DEF Fallen, GainInRange, SourceType
  <1>2. CASE Silenced(src)
    BY <1>1, <1>2 DEF Fade, Fallen
  <1>3. CASE ~Silenced(src)
    <2>1. t.gain = src.gain - GainUnit /\ t.fade = -GainUnit /\ t.fadePos = src.fadePos
      BY <1>1, <1>3 DEF Fade
    <2>2. src.gain > GainUnit
      BY <1>1, <1>3 DEF Silenced
    <2>3. PICK j \in 0 .. DefaultPeriod : /\ reach < src.fadePos + (j + 1) * MixLen
                                         /\ src.gain <= MaxGain - j * GainUnit
      BY <1>1, <2>2 DEF Fallen
    <2>4. /\ j * GainUnit \in Nat /\ (j + 1) * GainUnit = j * GainUnit + GainUnit
          /\ (j + 1) * MixLen \in Nat /\ ((j + 1) + 1) * MixLen = (j + 1) * MixLen + MixLen
      BY FadeProducts
    <2>5. j # DefaultPeriod
      BY <1>1, <2>2, <2>3, <2>4 DEF ExactFade
    <2>6. PICK k \in 0 .. DefaultPeriod : k = j + 1
      BY <2>5, SourceAssumption
    <2> HIDE DEF t
    <2>7. more < t.fadePos + (k + 1) * MixLen /\ t.gain <= MaxGain - k * GainUnit
      BY <1>1, <2>1, <2>3, <2>4, <2>6
    <2>8. Fallen(t, more)
      BY <2>1, <2>7 DEF Fallen
    <2>9. QED
      BY <2>8 DEF t
  <1>4. QED
    BY <1>2, <1>3

LEMMA FadesShorter ==
  ASSUME NEW src, SourceType(src), NEW frames, NEW r \in Nat, NEW less \in Nat, less <= r,
         Fades(src, frames, r)
  PROVE  Fades(src, frames, less)
  <1>1. src.framesOut \in Nat /\ src.fadePos \in Nat /\ MixLen \in Nat
        /\ DefaultPeriod \in Nat
    BY SourceAssumption DEF SourceType
  <1>2. Fallen(src, src.framesOut + r) => Fallen(src, src.framesOut + less)
    BY <1>1 DEF Fallen
  <1>3. QED
    BY <1>2 DEF Fades

(* A source that plays is faded when an update begins.                     *)
LEMMA FadesUpdate ==
  ASSUME ExactFade, NEW src, SourceType(src), GainInRange(src),
         NEW frames, Fades(src, frames, 0), NEW r \in Nat, r <= MixLen
  PROVE  Fades(IF src.fade # 0 THEN Fade(src) ELSE src, frames, r)
  <1> USE DEF SourceFields
  <1>1. src.framesOut \in Nat /\ src.fadePos \in Nat /\ MixLen \in Nat
        /\ DOMAIN src = SourceFields
    BY SourceAssumption DEF SourceType
  <1>2. GainUnit \in Nat \ {0}
    BY FadeProducts
  <1>3. Fallen(src, src.framesOut) /\ src.fade = 0 => Fallen(src, src.framesOut + r)
    BY <1>2 DEF Fallen
  <1>4. Fallen(src, src.framesOut) /\ src.fade # 0 => Fallen(Fade(src), src.framesOut + r)
    BY <1>1, FallenFade
  <1>5. LET t == Fade(src)
        IN /\ t.framesOut = src.framesOut /\ t.fadePos = src.fadePos
           /\ t.bufferQueue = src.bufferQueue /\ t.bufUsed = src.bufUsed
    BY <1>1 DEF Fade
  <1>6. src.framesOut + 0 = src.framesOut
    BY <1>1
  <1>7. QED
    BY <1>3, <1>4, <1>5, <1>6 DEF Fades

(* A pass takes from what is ahead what it adds to framesOut, and arms the *)
(* fade-out when it passes fadePos.                                        *)
LEMMA AdvanceFade ==
  ASSUME NEW src, SourceType(src), NEW n, NEW frames, NEW mem
  PROVE  LET t == Advance(src, n, frames, mem, TRUE)
         IN /\ t.gain = src.gain /\ t.fadePos = src.fadePos
            /\ t.volume = src.volume /\ t.fadePeriod = src.fadePeriod
            /\ t.endPos = src.endPos
            /\ Active(t) => t.fade = IF src.framesOut + n >= src.fadePos
                                     THEN -FadeDelta(src) ELSE src.fade
  BY DEF Advance, ArmFade, StartFadeOut, EndPlay, Active, SourceType, SourceFields

LEMMA FadesAdvance ==
  ASSUME ExactFade, NEW src, NEW mem \in SUBSET Buffers, Sound(src, mem), Active(src),
         GainInRange(src), Settled(src),
         NEW frames \in [Buffers -> Nat], Inside(src, frames),
         NEW n \in Nat, src.playPos + n <= frames[ActiveBuffer(src)],
         NEW r \in 0 .. MixLen, n <= r, Fades(src, frames, r)
  PROVE  LET t == Advance(src, n, frames, mem, TRUE)
         IN Settled(t) /\ (Active(t) => Fades(t, frames, r - n))
  <1> DEFINE t == Advance(src, n, frames, mem, TRUE)
  <1>1. /\ SourceType(src) /\ src.framesOut \in Nat /\ src.fadePos \in Nat
        /\ MixLen \in Nat /\ DefaultPeriod \in Nat /\ r \in Nat
        /\ src.gain \in 0 .. MaxGain
    BY SourceAssumption DEF Sound, SourceType, GainInRange, Settled
  <1>2. FadeDelta(src) = GainUnit /\ GainUnit \in Nat
    BY SettledDelta, FadeProducts
  <1>3. /\ t.bufUsed = src.bufUsed /\ t.bufferQueue = src.bufferQueue
        /\ t.framesOut = src.framesOut + n
    BY AdvanceMoves
  <1>10. /\ t.gain = src.gain /\ t.fadePos = src.fadePos
         /\ t.volume = src.volume /\ t.fadePeriod = src.fadePeriod
         /\ t.endPos = src.endPos
         /\ Active(t) => t.fade = IF src.framesOut + n >= src.fadePos
                                  THEN -FadeDelta(src) ELSE src.fade
    BY <1>1, AdvanceFade, ZenonT(60)
  <1> HIDE DEF t
  <1>4. /\ t.gain = src.gain /\ t.fadePos = src.fadePos
        /\ Active(t) => t.fade = IF src.framesOut + n >= src.fadePos
                                 THEN -GainUnit ELSE src.fade
    BY <1>2, <1>10
  <1>5. t.framesOut + (r - n) = src.framesOut + r
    BY <1>1, <1>3
  <1>6. ASSUME Active(t), t.framesOut >= t.fadePos, src.framesOut >= src.fadePos,
               Fallen(src, src.framesOut + r)
        PROVE  Fallen(t, src.framesOut + r)
    BY <1>1, <1>3, <1>4, <1>6 DEF Fallen
  <1>7. ASSUME Active(t), t.framesOut >= t.fadePos, ~(src.framesOut >= src.fadePos)
        PROVE  Fallen(t, src.framesOut + r)
    <2>5. 0 * GainUnit = 0 /\ MaxGain \in Nat /\ t.gain \in 0 .. MaxGain
      BY <1>1, <1>2, <1>4, SourceAssumption
    <2>1. t.fade = -GainUnit /\ t.gain <= MaxGain - 0 * GainUnit
      BY <1>3, <1>4, <1>7, <2>5
    <2>2. src.framesOut + r < t.fadePos + (0 + 1) * MixLen
      BY <1>1, <1>4, <1>7
    <2>3. 0 \in 0 .. DefaultPeriod
      BY <1>1
    <2>4. QED
      BY <2>1, <2>2, <2>3 DEF Fallen
  <1>8. Active(t) => Fades(t, frames, r - n)
    BY <1>3, <1>4, <1>5, <1>6, <1>7 DEF Fades
  <1>9. Settled(t)
    BY <1>10 DEF Settled
  <1>11. QED
    BY <1>8, <1>9 DEF t

LEMMA SumsGrow ==
  ASSUME NEW q, NEW frames, NEW n \in 0 .. QueueSize, NEW m \in 0 .. n,
         \A i \in Slots : i < n => frames[q[i]] \in Nat
  PROVE  Sums(q, frames)[m] <= Sums(q, frames)[n]
  <1> DEFINE S == Sums(q, frames)
             T == {k \in Nat : m <= k /\ k <= n => S[m] <= S[k]}
  <1>1. \A k \in 0 .. n : S[k] \in Nat
    BY SumsType
  <1>2. \A i \in Slots : S[i + 1] = S[i] + frames[q[i]]
    BY SumsStep
  <1> HIDE DEF S
  <1>3. 0 \in T
    BY <1>1
  <1>4. ASSUME NEW k \in T PROVE k + 1 \in T
    <2>1. CASE m <= k /\ k + 1 <= n
      <3>1. k \in Slots /\ k < n /\ k \in 0 .. n
        BY <2>1, SlotFacts DEF Slots
      <3>2. S[m] <= S[k] /\ frames[q[k]] \in Nat /\ S[k + 1] = S[k] + frames[q[k]]
        BY <1>2, <2>1, <3>1
      <3>3. S[m] <= S[k + 1]
        BY <1>1, <3>1, <3>2
      <3>4. QED
        BY <3>3
    <2>2. CASE k + 1 = m
      BY <1>1, <2>2
    <2>3. QED
      BY <2>1, <2>2
  <1>5. T = Nat
    <2>1. T \in SUBSET Nat
      OBVIOUS
    <2> HIDE DEF T
    <2>2. QED
      BY <1>3, <1>4, <2>1, Upward
  <1>6. QED
    BY <1>5 DEF S

LEMMA PlaylistSums ==
  ASSUME NEW queue, NEW q \in Playlists, NEW frames \in [Buffers -> Nat],
         \A i \in Slots : i < Len(q) => queue[i] = q[i + 1]
  PROVE  Sums(queue, frames)[Len(q)] = PlaylistFrames(q, frames)
  <1> DEFINE S == Sums(queue, frames)
  <1>1. Len(q) \in 1 .. 3 /\ \A i \in 1 .. Len(q) : q[i] \in Buffers
    BY DEF Playlists
  <1>2. 0 \in Slots /\ 1 \in Slots /\ 2 \in Slots
    BY SlotFacts DEF Slots
  <1>3. /\ S[0] = 0 /\ S[0 + 1] = S[0] + frames[queue[0]]
        /\ S[1 + 1] = S[1] + frames[queue[1]] /\ S[2 + 1] = S[2] + frames[queue[2]]
    BY <1>2, SumsStep
  <1> HIDE DEF S
  <1>4. /\ queue[0] = q[1] /\ frames[q[1]] \in Nat
        /\ Len(q) > 1 => queue[1] = q[2] /\ frames[q[2]] \in Nat
        /\ Len(q) > 2 => queue[2] = q[3] /\ frames[q[3]] \in Nat
    BY <1>1, <1>2
  <1>5. CASE Len(q) = 1
    BY <1>3, <1>4, <1>5 DEF PlaylistFrames, EntryFrames, S
  <1>6. CASE Len(q) = 2
    BY <1>3, <1>4, <1>6 DEF PlaylistFrames, EntryFrames, S
  <1>7. CASE Len(q) = 3
    BY <1>3, <1>4, <1>7 DEF PlaylistFrames, EntryFrames, S
  <1>8. QED
    BY <1>1, <1>5, <1>6, <1>7

LEMMA PlaySettings ==
  ASSUME NEW src, SourceType(src), NEW q, NEW mode, NEW frames
  PROVE  LET p == Play(src, q, mode, frames)
             full == src.fadePeriod * MixLen
             total == PlaylistFrames(q, frames)
         IN /\ p.volume = src.volume /\ p.fadePeriod = src.fadePeriod
            /\ p.endPos = src.endPos
            /\ p.fadePos = IF "fade_out" \in mode /\ total > 2 * full THEN total - full
                                                                      ELSE EndNone
  <1> USE DEF SourceFields
  <1> DEFINE p == [SetPlaylist(src, q) EXCEPT !.playPos = 0, !.framesOut = 0]
             m == SetMode(p, mode)
  <1>1. /\ DOMAIN p = SourceFields /\ p.volume = src.volume
        /\ p.fadePeriod = src.fadePeriod /\ p.endPos = src.endPos
    BY DEF SetPlaylist, SourceType
  <1> HIDE DEF p
  <1>2. /\ DOMAIN m = SourceFields /\ m.fadePos = EndNone /\ m.volume = src.volume
        /\ m.fadePeriod = src.fadePeriod /\ m.endPos = src.endPos
    BY <1>1 DEF SetMode, StartFadeIn
  <1> HIDE DEF m
  <1>3. QED
    BY <1>2 DEF Play, p, m

LEMMA FadesPlay ==
  ASSUME ExactFade, EndsAfterAll, NEW src, SourceType(src), Settled(src),
         NEW q \in PlayChoices, NEW mode, NEW frames \in [Buffers -> Nat],
         \A i \in 1 .. Len(q) : frames[q[i]] \in Lengths[q[i]]
  PROVE  LET t == Play(src, q, mode, frames)
         IN Settled(t) /\ Fades(t, frames, 0)
  <1> DEFINE t == Play(src, q, mode, frames)
             total == PlaylistFrames(q, frames)
  <1>1. q \in Playlists
    BY VoiceAssumption
  <1>2. /\ t.bufUsed = Len(q) /\ t.framesOut = 0
        /\ \A i \in Slots : i < Len(q) => t.bufferQueue[i] = q[i + 1]
    BY <1>1, OrderedPlay
  <1>3. src.fadePeriod * MixLen = FullFade
    BY DEF Settled, FullFade
  <1>4. /\ t.volume = src.volume /\ t.fadePeriod = src.fadePeriod /\ t.endPos = src.endPos
        /\ t.fadePos = IF "fade_out" \in mode /\ total > 2 * FullFade
                       THEN total - FullFade ELSE EndNone
    BY <1>3, PlaySettings
  <1>5. \A i \in 1 .. 3 : EntryFrames(q, frames, i) \in Nat
    BY <1>1 DEF EntryFrames, Playlists
  <1>6. total \in Nat
    BY <1>5 DEF PlaylistFrames
  <1>7. \A e \in EndTimes \cup {EndNone} : total <= e
    BY DEF EndsAfterAll
  <1> HIDE DEF t
  <1>8. Sums(t.bufferQueue, frames)[t.bufUsed] = total
    BY <1>1, <1>2, PlaylistSums
  <1> HIDE DEF total
  <1>9. ASSUME t.fadePos # EndNone
        PROVE  t.fadePos + FullFade = total /\ ~(t.framesOut >= t.fadePos)
    BY <1>2, <1>4, <1>6, <1>9, FadeProducts
  <1>10. Settled(t) /\ Fades(t, frames, 0)
    BY <1>4, <1>6, <1>7, <1>8, <1>9 DEF Settled, Fades
  <1>11. QED
    BY <1>10 DEF t

LEMMA FadesQueue ==
  ASSUME ExactFade, NEW src, NEW mem \in SUBSET Buffers, Sound(src, mem), Active(src),
         Settled(src), NEW frames \in [Buffers -> Nat], NEW laps, Ordered(src, frames, laps),
         NEW b \in mem, frames[b] \in Lengths[b], NEW r, Fades(src, frames, r)
  PROVE  LET t == QueueBuffer(src, b)
         IN Settled(t) /\ Fades(t, frames, r)
  <1> USE DEF SourceFields
  <1> DEFINE t == QueueBuffer(src, b)
             q == src.bufferQueue
             p == t.bufferQueue
  <1>12. SourceType(src) /\ QueueShape(src)
    BY DEF Sound
  <1>1. /\ t.volume = src.volume /\ t.fadePeriod = src.fadePeriod /\ t.endPos = src.endPos
        /\ t.fadePos = src.fadePos /\ t.framesOut = src.framesOut
        /\ t.gain = src.gain /\ t.fade = src.fade
    BY <1>12 DEF QueueBuffer, SourceType
  <1>2. /\ Ordered(t, frames, laps) /\ t.bufUsed \in 0 .. QueueSize
        /\ src.bufUsed <= t.bufUsed
        /\ \A i \in Slots : i < src.bufUsed => p[i] = q[i]
    BY <1>12, OrderedQueue
  <1>3. src.bufUsed \in 0 .. QueueSize /\ src.bufUsed \in 0 .. t.bufUsed
    BY <1>2, <1>12, ActiveSlot
  <1>4. \A i \in Slots : i < t.bufUsed => frames[p[i]] \in Nat
    <2>1. Sound(t, mem)
      BY SoundQueue
    <2> HIDE DEF t
    <2>3. \A i \in Slots : i < t.bufUsed => p[i] \in Buffers
      BY <2>1 DEF Sound, QueueShape
    <2>2. QED
      BY <2>3
  <1> HIDE DEF t
  <1>5. Sums(q, frames)[src.bufUsed] = Sums(p, frames)[src.bufUsed]
    <2> HIDE DEF q, p
    <2>1. QED
      BY <1>2, <1>3, SumsAgree
  <1>6. Sums(p, frames)[src.bufUsed] <= Sums(p, frames)[t.bufUsed]
    <2> HIDE DEF q, p
    <2>1. QED
      BY <1>2, <1>3, <1>4, SumsGrow
  <1>7. Sums(p, frames)[src.bufUsed] \in Nat /\ Sums(p, frames)[t.bufUsed] \in Nat
    <2> HIDE DEF q, p
    <2>1. QED
      BY <1>2, <1>3, <1>4, SumsType
  <1>8. src.fadePos + FullFade \in Nat
    BY <1>12, FadeProducts DEF SourceType
  <1>9. Settled(t)
    BY <1>1 DEF Settled
  <1>10. Fades(t, frames, r)
    BY <1>1, <1>5, <1>6, <1>7, <1>8 DEF Fades, Fallen
  <1>11. QED
    BY <1>9, <1>10 DEF t

(* Most steps leave a fade alone.                                          *)
Unfaded(src, t) ==
  /\ t.volume = src.volume /\ t.fadePeriod = src.fadePeriod /\ t.endPos = src.endPos
  /\ Active(t) =>
       /\ Active(src)
       /\ t.bufUsed = src.bufUsed /\ t.bufferQueue = src.bufferQueue
       /\ t.framesOut = src.framesOut /\ t.fadePos = src.fadePos
       /\ t.gain = src.gain /\ t.fade = src.fade

LEMMA UnfadedSteps ==
  ASSUME NEW src, SourceType(src)
  PROVE  /\ Unfaded(src, src)
         /\ \A mem : Unfaded(src, Detach(src, mem))
         /\ \A to : Active(src) => Unfaded(src, [src EXCEPT !.state = to])
         /\ \A m : Unfaded(src, [src EXCEPT !.mode = m])
  <1> USE DEF Unfaded, SourceType, SourceFields
  <1>1. \A mem : Unfaded(src, Detach(src, mem))
    BY DEF Detach, Active
  <1>2. QED
    BY <1>1 DEF Active

LEMMA FadesUnfaded ==
  ASSUME NEW src, NEW t, Unfaded(src, t), Settled(src), NEW frames, NEW r,
         Active(src) => Fades(src, frames, r)
  PROVE  Settled(t) /\ (Active(t) => Fades(t, frames, r))
  BY DEF Unfaded, Settled, Fades, Fallen

LEMMA FadesStep ==
  ASSUME StableLoads, ExactFade, EndsAfterAll, IInv, AllInside, LoadedLengths, OrderOK,
         GainBounded, FadesOK, [Next]_vars
  PROVE  FadesOK'
  <1> SUFFICES ASSUME NEW s \in Sources \ FadeSources
               PROVE  /\ Settled(source'[s])
                      /\ Active(source'[s]) => Fades(source'[s], used', Ahead(s)')
    BY DEF FadesOK
  <1> DEFINE src == source[s]
             OK(t, frames, r) == Settled(t) /\ (Active(t) => Fades(t, frames, r))
  <1>1. /\ DOMAIN source = Sources /\ s \in Sources /\ s \notin FadeSources
        /\ Sound(src, loaded) /\ SourceType(src) /\ QueueShape(src)
        /\ used \in [Buffers -> Nat] /\ loaded \in SUBSET Buffers
        /\ mixed \in 0 .. MixLen /\ MixLen \in Nat
        /\ Ahead(s) \in 0 .. MixLen /\ Settled(src) /\ OK(src, used, Ahead(s))
    BY SourceAssumption DEF IInv, AllSound, RestType, Sound, FadesOK, Ahead
  <1>2. GainInRange(src)
    BY DEF GainBounded, GainInRange
  <1>3. ASSUME used' = used, Ahead(s)' = Ahead(s), Unfaded(src, source'[s])
        PROVE  OK(source'[s], used', Ahead(s)')
    BY <1>1, <1>3, FadesUnfaded
  <1>4. ASSUME UNCHANGED <<phase, mixed, mixing>> PROVE Ahead(s)' = Ahead(s)
    BY <1>4 DEF Ahead
  <1>5. ASSUME UNCHANGED <<used, phase, mixed, mixing>>, source'[s] = src
        PROVE  OK(source'[s], used', Ahead(s)')
    BY <1>1, <1>3, <1>4, <1>5, UnfadedSteps
  <1>6. ASSUME UNCHANGED <<phase, mixed, mixing>>, phase = "wait"
        PROVE  Ahead(s) = 0 /\ Ahead(s)' = 0
    BY <1>6 DEF Ahead
  <1>7. CASE SourceCommand
    <2>1. ASSUME NEW i \in Sources, NEW q \in PlayChoices, NEW mode, PlaySource(i, q, mode)
          PROVE  OK(source'[s], used', Ahead(s)')
      <3>1. CASE i # s
        BY <1>1, <1>5, <2>1, <3>1 DEF PlaySource
      <3>2. CASE i = s
        <4>1. source'[s] = Play(src, q, mode, used) /\ used' = used /\ Ahead(s)' = 0
          BY <1>1, <1>6, <2>1, <3>2 DEF PlaySource
        <4>2. \A k \in 1 .. Len(q) : used[q[k]] \in Lengths[q[k]]
          BY <2>1 DEF PlaySource, LoadedLengths
        <4>3. Settled(Play(src, q, mode, used)) /\ Fades(Play(src, q, mode, used), used, 0)
          BY <1>1, <4>2, FadesPlay
        <4>4. QED
          BY <4>1, <4>3
      <3>3. QED
        BY <3>1, <3>2
    <2>2. ASSUME NEW S, NEW to, Control(S, to)
          PROVE  OK(source'[s], used', Ahead(s)')
      <3>1. Unfaded(source[s], source'[s])
        BY <1>1, <2>2, UnfadedSteps DEF Control, Transform
      <3>2. QED
        BY <1>3, <1>4, <2>2, <3>1 DEF Control
    <2>3. ASSUME NEW S, S \subseteq FadeSources, FadeOut(S)
          PROVE  OK(source'[s], used', Ahead(s)')
      BY <1>1, <1>5, <2>3 DEF FadeOut, Transform
    <2>6. ASSUME NEW S, S \subseteq FadeSources, NEW v, SetVolume(S, v)
          PROVE  OK(source'[s], used', Ahead(s)')
      <3> DEFINE set(t) == [t EXCEPT !.volume = v, !.gain = v]
      <3>1. source' = [i \in Sources |-> IF i \in S THEN set(source[i]) ELSE source[i]]
        BY <2>6, Zenon DEF SetVolume, Transform
      <3> HIDE DEF set
      <3>2. source'[s] = src
        BY <1>1, <2>6, <3>1
      <3>3. QED
        BY <1>5, <2>6, <3>2 DEF SetVolume
    <2>7. ASSUME NEW S, S \subseteq FadeSources, NEW p, SetFadePeriod(S, p)
          PROVE  OK(source'[s], used', Ahead(s)')
      BY <1>1, <1>5, <2>7 DEF SetFadePeriod, Transform
    <2>4. ASSUME NEW i \in Sources, NEW e \in EndTimes, SetEndTime(i, e)
          PROVE  OK(source'[s], used', Ahead(s)')
      <3>1. CASE i # s
        BY <1>1, <1>5, <2>4, <3>1 DEF SetEndTime, Transform
      <3>2. CASE i = s
        <4>1. source'[s] = [src EXCEPT !.endPos = e] /\ used' = used /\ Ahead(s)' = Ahead(s)
          BY <1>1, <1>4, <2>4, <3>2 DEF SetEndTime, Transform
        <4> DEFINE t == [src EXCEPT !.endPos = e]
        <4>2. /\ t.volume = src.volume /\ t.fadePeriod = src.fadePeriod /\ t.endPos = e
              /\ t.bufUsed = src.bufUsed /\ t.bufferQueue = src.bufferQueue
              /\ t.framesOut = src.framesOut /\ t.fadePos = src.fadePos
              /\ t.gain = src.gain /\ t.fade = src.fade /\ t.qactive = src.qactive
          BY <1>1 DEF SourceType, SourceFields
        <4> HIDE DEF t
        <4>3. Settled(t) /\ (Active(t) => Fades(t, used, Ahead(s)))
          BY <1>1, <4>2 DEF Settled, Fades, Fallen, Active
        <4>4. QED
          BY <4>1, <4>3 DEF t
      <3>3. QED
        BY <3>1, <3>2
    <2>5. QED
      BY <1>7, <2>1, <2>2, <2>3, <2>4, <2>6, <2>7 DEF SourceCommand, Start, Stop, Resume
  <1>8. CASE ProgramOp
    <2>1. ASSUME NEW i \in Sources, NEW b \in Buffers, Queue(i, b)
          PROVE  OK(source'[s], used', Ahead(s)')
      <3>1. CASE i # s
        BY <1>1, <1>5, <2>1, <3>1 DEF Queue, Transform
      <3>2. CASE i = s
        <4>1. source'[s] = QueueBuffer(src, b) /\ used' = used /\ Ahead(s)' = Ahead(s)
          BY <1>1, <1>4, <2>1, <3>2 DEF Queue, Transform
        <4>2. /\ Active(src) /\ b \in loaded /\ used[b] \in Lengths[b]
              /\ Ordered(src, used, lapped[s])
          BY <1>1, <2>1, <3>2 DEF Queue, LoadedLengths, OrderOK
        <4>3. /\ Settled(QueueBuffer(src, b))
              /\ Fades(QueueBuffer(src, b), used, Ahead(s))
          BY <1>1, <4>2, FadesQueue
        <4>4. QED
          BY <4>1, <4>3
      <3>3. QED
        BY <3>1, <3>2
    <2>2. ASSUME NEW i \in FadeSources, FadeIn(i)
          PROVE  OK(source'[s], used', Ahead(s)')
      BY <1>1, <1>5, <2>2 DEF FadeIn, Transform
    <2>3. ASSUME NEW i, NEW on, SetLoop(i, on)
          PROVE  OK(source'[s], used', Ahead(s)')
      <3>1. Unfaded(src, source'[s])
        BY <1>1, <2>3, UnfadedSteps DEF SetLoop, Transform
      <3>2. QED
        BY <1>3, <1>4, <2>3, <3>1 DEF SetLoop
    <2>4. QED
      BY VoiceAssumption, <1>8, <2>1, <2>2, <2>3 DEF ProgramOp
  <1>9. CASE BufferCommand
    <2>1. ASSUME NEW b \in Buffers, NEW n \in Lengths[b], SetBuffer(b, n)
          PROVE  OK(source'[s], used', Ahead(s)')
      <3>1. PICK k \in Nat \ {0} : Lengths[b] = {k}
        BY DEF StableLoads
      <3>2. \A x \in Buffers : used[x] \in Lengths[x] => used'[x] = used[x]
        BY <1>1, <2>1, <3>1 DEF SetBuffer
      <3>3. source'[s] = Detach(src, loaded) /\ Ahead(s)' = Ahead(s)
        BY <1>1, <1>4, <2>1 DEF SetBuffer, Transform
      <3>4. Unfaded(src, source'[s])
        BY <1>1, <3>3, UnfadedSteps
      <3>5. OK(source'[s], used, Ahead(s))
        BY <1>1, <3>4, FadesUnfaded
      <3>6. ASSUME Active(src)
            PROVE  Sums(src.bufferQueue, used')[src.bufUsed] = Sums(src.bufferQueue, used)[src.bufUsed]
        <4>1. src.bufUsed \in 0 .. QueueSize /\ src.bufUsed \in 0 .. src.bufUsed
          BY <1>1 DEF SourceType
        <4>2. \A i \in Slots : i < src.bufUsed =>
                used[src.bufferQueue[i]] = used'[src.bufferQueue[i]]
          BY <1>1, <3>2, <3>6 DEF OrderOK, Ordered, QueueShape
        <4> DEFINE q == src.bufferQueue
        <4> HIDE DEF q
        <4>3. \A i \in 0 .. src.bufUsed : Sums(q, used)[i] = Sums(q, used')[i]
          BY <4>1, <4>2, SumsAgree DEF q
        <4>4. QED
          BY <4>1, <4>3 DEF q
      <3>7. Active(source'[s]) => Fades(source'[s], used', Ahead(s))
        BY <3>4, <3>5, <3>6 DEF Unfaded, Fades
      <3>8. QED
        BY <3>3, <3>5, <3>7
    <2>2. ASSUME NEW B, BuffersFree(B)
          PROVE  OK(source'[s], used', Ahead(s)')
      <3>1. Unfaded(src, source'[s])
        BY <1>1, <2>2, UnfadedSteps DEF BuffersFree, Transform
      <3>2. QED
        BY <1>3, <1>4, <2>2, <3>1 DEF BuffersFree
    <2>3. QED
      BY <1>9, <2>1, <2>2 DEF BufferCommand
  <1>10. CASE Cycle
    <2>1. CASE Update
      <3>1. /\ source'[s] = IF src.state = "playing" /\ src.fade # 0 THEN Fade(src) ELSE src
            /\ used' = used
        BY <1>1, <2>1 DEF Update, Transform, Playing
      <3>2. Ahead(s) = 0 /\ Ahead(s)' = IF src.state = "playing" THEN MixLen - mixed ELSE 0
        BY <1>1, <2>1 DEF Update, Ahead, Playing
      <3>3. CASE src.state # "playing"
        BY <1>1, <3>1, <3>2, <3>3
      <3>4. CASE src.state = "playing"
        <4> DEFINE t == IF src.fade # 0 THEN Fade(src) ELSE src
        <4>1. Active(src) /\ Fades(src, used, 0)
          BY <1>1, <3>2, <3>4 DEF Sound
        <4>2. MixLen - mixed \in Nat /\ MixLen - mixed <= MixLen
          BY <1>1
        <4>3. Fades(t, used, MixLen - mixed)
          BY <1>1, <1>2, <4>1, <4>2, FadesUpdate
        <4>4. t.volume = src.volume /\ t.fadePeriod = src.fadePeriod /\ t.endPos = src.endPos
          BY <1>1 DEF Fade, SourceType, SourceFields
        <4>5. source'[s] = t
          BY <3>1, <3>4
        <4> HIDE DEF t
        <4>6. QED
          BY <1>1, <3>1, <3>2, <3>4, <4>3, <4>4, <4>5 DEF Settled
      <3>5. QED
        BY <3>3, <3>4
    <2>2. ASSUME NEW n \in 0 .. MixLen, MixPass(n)
          PROVE  OK(source'[s], used', Ahead(s)')
      <3> DEFINE t == Advance(src, n, used, loaded, TRUE)
      <3>1. /\ source'[s] = IF s \in Mixable THEN t ELSE src
            /\ used' = used /\ IsFragment(n) /\ phase = "mix" /\ phase' = "mix"
            /\ mixing' = mixing /\ mixed' = mixed + n
        BY <1>1, <2>2 DEF MixPass, Transform
      <3>2. n \in Nat /\ n <= MixLen - mixed
        BY <1>1, <3>1 DEF IsFragment, FragmentLens
      <3>3. CASE s \in Mixable
        <4>1. /\ Active(src) /\ Inside(src, used) /\ s \in mixing
          BY <1>1, <3>3 DEF Mixable, AllInside
        <4>2. src.playPos + n <= used[ActiveBuffer(src)]
          BY <1>1, <3>1, <3>3, <4>1, FragmentFits
        <4>3. Ahead(s) = MixLen - mixed /\ Ahead(s)' = Ahead(s) - n /\ n <= Ahead(s)
          BY <1>1, <3>1, <3>2, <4>1 DEF Ahead
        <4>4. Settled(t) /\ (Active(t) => Fades(t, used, Ahead(s) - n))
          BY <1>1, <1>2, <3>2, <4>1, <4>2, <4>3, FadesAdvance
        <4> HIDE DEF t
        <4>6. QED
          BY <3>1, <3>3, <4>3, <4>4
      <3>4. CASE s \notin Mixable
        <4>1. source'[s] = src /\ used' = used
          BY <3>1, <3>4
        <4>2. Active(src) => Ahead(s)' = Ahead(s)
          BY <1>1, <3>1, <3>4 DEF Mixable, Ahead
        <4>3. QED
          BY <1>1, <4>1, <4>2
      <3>5. QED
        BY <3>3, <3>4
    <2>3. CASE Write
      <3>1. source'[s] = src /\ used' = used /\ Ahead(s)' = 0
        BY <2>3 DEF Write, Ahead
      <3>2. Active(src) => Fades(src, used, 0)
        BY <1>1, FadesShorter
      <3>3. QED
        BY <1>1, <3>1, <3>2
    <2>4. QED
      BY <1>10, <2>1, <2>2, <2>3 DEF Cycle
  <1>11. CASE UNCHANGED vars
    BY <1>5, <1>11 DEF vars
  <1>12. QED
    BY <1>7, <1>8, <1>9, <1>10, <1>11 DEF Next

(* A source whose gain nobody sets, and whose playlist no end time cuts    *)
(* short, has faded to silence when it ends, with any cuts of its passes   *)
(* by other sources, pauses, laps, and buffers queued while it plays.      *)
THEOREM FadesEndSilent ==
  ASSUME StableLoads, ExactFade, EndsAfterAll PROVE Spec => EndsSilent
  <1> DEFINE Known == AllInside /\ LoadedLengths /\ OrderOK /\ GainBounded /\ FadesOK
  <1>1. Init => Known
    BY SourceAssumption DEF Init, AllInside, LoadedLengths, OrderOK, Inside, Active, SourceInit,
                            GainBounded, FadesOK, Settled
  <1>2. IInv /\ Known /\ [Next]_vars => Known'
    BY InsideStep, OrderStep, GainStep, FadesStep
  <1>3. ASSUME IInv, Known, [Next]_vars, phase = "mix", NEW s \in Sources \ FadeSources,
               source[s].state = "playing", source'[s].state = "unused",
               source[s].fadePos # EndNone,
               \/ AtQueueEnd(source[s])
               \/ source[s].bufferQueue[NextSlot(source[s].qactive)] \in loaded
        PROVE  source[s].gain = 0
    <2> DEFINE src == source[s]
    <2>1. PICK n \in 0 .. MixLen : MixPass(n)
      BY <1>3, OnlyPasses
    <2>2. /\ s \in Mixable
          /\ source'[s].framesOut = src.framesOut + n
          /\ \/ source'[s].framesOut >= src.endPos
             \/ source'[s].framesOut = Sums(src.bufferQueue, used)[src.bufUsed] + lapped[s]
      BY <1>3, <2>1, MixPassEnds
    <2>3. /\ SourceType(src) /\ QueueShape(src) /\ lapped[s] \in Nat /\ used \in [Buffers -> Nat]
          /\ src.framesOut \in Nat /\ src.fadePos \in Nat /\ src.gain \in 0 .. MaxGain
          /\ mixed \in 0 .. MixLen /\ MixLen \in Nat /\ n \in 0 .. MixLen
      BY <1>3, SourceAssumption
         DEF IInv, AllSound, RestType, Sound, SourceType, GainBounded, FadesOK, Settled
    <2>4. n <= MixLen - mixed /\ Ahead(s) = MixLen - mixed /\ Active(src)
      BY <1>3, <2>1, <2>2, <2>3 DEF MixPass, IsFragment, FragmentLens, Mixable, Ahead
    <2>5. Fades(src, used, Ahead(s)) /\ src.endPos \in EndTimes \cup {EndNone}
      BY <1>3, <2>4 DEF FadesOK, Settled
    <2>6. Sums(src.bufferQueue, used)[src.bufUsed] \in Nat
      <3>1. src.bufUsed \in 0 .. QueueSize /\ src.bufUsed \in 0 .. src.bufUsed
        BY <2>3 DEF SourceType
      <3>2. \A i \in Slots : i < src.bufUsed => used[src.bufferQueue[i]] \in Nat
        BY <2>3 DEF QueueShape
      <3>3. QED
        BY <3>1, <3>2, SumsType
    <2>13. src.endPos \in Nat /\ FullFade \in Nat /\ src.fadePos # EndNone
      BY <1>3, <2>3, FadeProducts DEF SourceType
    <2>14. /\ src.fadePos + FullFade <= Sums(src.bufferQueue, used)[src.bufUsed]
           /\ src.fadePos + FullFade <= src.endPos
      BY <2>5, <2>13 DEF Fades
    <2>7. src.fadePos + FullFade <= src.framesOut + n
      BY <2>2, <2>3, <2>6, <2>13, <2>14
    <2> DEFINE reach == src.framesOut + (MixLen - mixed)
    <2>8. src.fadePos + FullFade <= reach /\ reach \in Nat
      BY <2>3, <2>4, <2>7, FadeProducts
    <2>9. src.framesOut >= src.fadePos => Fallen(src, reach)
      BY <1>3, <2>4, <2>5 DEF Fades
    <2>10. src.framesOut >= src.fadePos
      BY <2>3, <2>7, FadeProducts
    <2> HIDE DEF reach, src
    <2>11. ASSUME NEW j \in 0 .. DefaultPeriod, reach < src.fadePos + (j + 1) * MixLen,
                  src.gain <= MaxGain - j * GainUnit
           PROVE  src.gain = 0
      <3>1. j = DefaultPeriod
        BY <2>3, <2>8, <2>11, FadeProducts
      <3>2. MaxGain - j * GainUnit = 0
        BY <3>1, SourceAssumption DEF ExactFade
      <3>3. QED
        BY <2>3, <2>11, <3>2
    <2>12. QED
      BY <2>9, <2>10, <2>11 DEF Fallen, src
  <1> HIDE DEF Known
  <1>4. IInv /\ Known /\ [Next]_vars =>
          [\A s \in Sources \ FadeSources :
             LET src == source[s] IN
             /\ phase = "mix" /\ src.state = "playing" /\ source'[s].state = "unused"
             /\ src.fadePos # EndNone
             => \/ src.gain = 0
                \/ ~AtQueueEnd(src) /\ src.bufferQueue[NextSlot(src.qactive)] \notin loaded]_vars
    BY <1>3
  <1>5. QED
    BY <1>1, <1>2, <1>4, Invariance, PTL DEF Spec, EndsSilent

=============================================================================
