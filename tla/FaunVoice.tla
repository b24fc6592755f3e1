------------------------------ MODULE FaunVoice -----------------------------
(***************************************************************************)
(* The audio thread of faun.c and the sound sources it owns: commands from *)
(* the application, operations of programs, and the update cycle that      *)
(* fades, collects, mixes and advances the playing sources.                *)
(*                                                                         *)
(* Sources and buffers belong to the audio thread alone, so a command is   *)
(* one action, and so is a mix pass.  The application is any sequence of   *)
(* commands that plays only buffers it has loaded.  Ports, suspension and  *)
(* shutdown are in FaunThreads.                                            *)
(***************************************************************************)
EXTENDS FaunSource

CONSTANTS SourceLimit,  \* number of sources
          Lengths,      \* Lengths[b]: frames a load of buffer b may give it
          PlayModes,    \* the modes the application uses
          PlayChoices,  \* the playlists the application uses
          Volumes,      \* values of FAUN_VOLUME
          Periods,      \* values of FAUN_FADE_PERIOD, in update cycles
          EndTimes,     \* values of FAUN_END_TIME, in frames; EndNone unset
          ProgramSources, \* sources that programs operate on
          QueueBuffers, \* buffers that programs queue
          FadeSources   \* sources whose gain the application changes

Sources == 0 .. SourceLimit - 1

ASSUME VoiceAssumption ==
  /\ SourceLimit \in Nat \ {0}
  /\ \A b \in Buffers : Lengths[b] \subseteq Nat
  /\ PlayModes \subseteq Modes
  /\ PlayChoices \subseteq Playlists
  /\ Volumes \subseteq Nat
  /\ Periods \subseteq Nat \ {0}
  /\ EndTimes \subseteq Nat \ {0}
  /\ ProgramSources \subseteq Sources /\ FadeSources \subseteq Sources
  /\ QueueBuffers \subseteq Buffers

VARIABLES source,       \* _asource
          used,         \* used[b]: frames in buffer b
          loaded,       \* buffers whose sample pointer is not NULL
          phase,        \* "wait" for a command, or "mix"
          mixed,        \* frames of this cycle already mixed
          mixing,       \* mixSource: sources collected in this cycle
          done,         \* history: DONE signals since the source was played
          lapped        \* history: frames of completed laps since then

vars == <<source, used, loaded, phase, mixed, mixing, done, lapped>>
history == <<done, lapped>>

DoneCap == 2            \* `done' saturates here

Init ==
  /\ source = [s \in Sources |-> SourceInit]
  /\ used = [b \in Buffers |-> 0]
  /\ loaded = {}
  /\ phase = "wait"
  /\ mixed = 0
  /\ mixing = {}
  /\ done = [s \in Sources |-> 0]
  /\ lapped = [s \in Sources |-> 0]

Signal(S) ==
  done' = [s \in Sources |->
             IF s \in S /\ "signal_done" \in source[s].mode /\ done[s] < DoneCap
             THEN done[s] + 1 ELSE done[s]]

(* The `count' sources from `si' on, in a command that takes both.         *)
Spans == {S \in SUBSET Sources : \E i, j \in Sources : S = i .. j}

Transform(S, f(_)) ==
  source' = [s \in Sources |-> IF s \in S THEN f(source[s]) ELSE source[s]]

-----------------------------------------------------------------------------
(* Commands, and the operations of programs that do the same to a source.  *)

(* CMD_PLAY_SOURCE, FO_PLAY_BUF                                            *)
PlaySource(s, q, mode) ==
  /\ phase = "wait"
  /\ \A i \in 1 .. Len(q) : q[i] \in loaded
  /\ source' = [source EXCEPT ![s] = Play(@, q, mode, used)]
  /\ done' = [done EXCEPT ![s] = 0]
  /\ lapped' = [lapped EXCEPT ![s] = 0]
  /\ UNCHANGED <<used, loaded, phase, mixed, mixing>>

Control(S, to) ==
  /\ phase = "wait"
  /\ Transform(S, LAMBDA src : IF Active(src) THEN [src EXCEPT !.state = to] ELSE src)
  /\ UNCHANGED <<used, loaded, phase, mixed, mixing, history>>

Start(S)  == Control(S, "playing")
Stop(S)   == Control(S, "stopped")
Resume(S) == Control(S, "playing")

(* CMD_CON_FADE_OUT, FO_FADE_OUT                                           *)
FadeOut(S) ==
  /\ phase = "wait"
  /\ Transform(S, StartFadeOut)
  /\ UNCHANGED <<used, loaded, phase, mixed, mixing, history>>

(* FO_FADE_IN                                                              *)
FadeIn(s) ==
  /\ phase = "wait"
  /\ Transform({s}, StartFadeIn)
  /\ UNCHANGED <<used, loaded, phase, mixed, mixing, history>>

(* CMD_PARAM_VOLUME, FO_SET_VOL                                            *)
SetVolume(S, v) ==
  /\ phase = "wait"
  /\ Transform(S, LAMBDA src : [src EXCEPT !.volume = v, !.gain = v])
  /\ UNCHANGED <<used, loaded, phase, mixed, mixing, history>>

(* CMD_PARAM_FADE_PERIOD, FO_SET_FADE                                      *)
SetFadePeriod(S, p) ==
  /\ phase = "wait"
  /\ Transform(S, LAMBDA src : [src EXCEPT !.fadePeriod = p])
  /\ UNCHANGED <<used, loaded, phase, mixed, mixing, history>>

(* CMD_PARAM_END_TIME, FO_SET_END                                          *)
SetEndTime(s, e) ==
  /\ phase = "wait"
  /\ Transform({s}, LAMBDA src : [src EXCEPT !.endPos = e])
  /\ UNCHANGED <<used, loaded, phase, mixed, mixing, history>>

(* FO_LOOP_ON, FO_LOOP_OFF                                                 *)
SetLoop(s, on) ==
  /\ phase = "wait"
  /\ Transform({s}, LAMBDA src :
       [src EXCEPT !.mode = (@ \ {"once", "loop"}) \cup (IF on THEN {"loop"} ELSE {})])
  /\ UNCHANGED <<used, loaded, phase, mixed, mixing, history>>

(* FO_QUEUE, on a source that is playing or paused.                        *)
Queue(s, b) ==
  /\ phase = "wait"
  /\ b \in loaded
  /\ Active(source[s])
  /\ Transform({s}, LAMBDA src : QueueBuffer(src, b))
  /\ UNCHANGED <<used, loaded, phase, mixed, mixing, history>>

(* CMD_SET_BUFFER: the old memory is freed but its pointer is not cleared, *)
(* so the sources are checked against the buffers loaded before.           *)
SetBuffer(b, n) ==
  /\ phase = "wait"
  /\ Transform(Sources, LAMBDA src : Detach(src, loaded))
  /\ used' = [used EXCEPT ![b] = n]
  /\ loaded' = loaded \cup {b}
  /\ UNCHANGED <<phase, mixed, mixing, history>>

(* CMD_BUFFERS_FREE                                                        *)
BuffersFree(B) ==
  /\ phase = "wait"
  /\ loaded' = loaded \ B
  /\ Transform(Sources, LAMBDA src : Detach(src, loaded \ B))
  /\ UNCHANGED <<used, phase, mixed, mixing, history>>

-----------------------------------------------------------------------------
(* The update cycle                                                        *)

Playing == {s \in Sources : source[s].state = "playing"}

(* The deadline passes: playing sources are faded and collected.           *)
Update ==
  LET fading == {s \in Playing : source[s].fade # 0} IN
  /\ phase = "wait"
  /\ phase' = "mix"
  /\ mixing' = Playing
  /\ Transform(fading, Fade)
  /\ Signal({s \in fading : Silenced(source[s])})
  /\ UNCHANGED <<used, loaded, mixed, lapped>>

Mixable == {s \in mixing : Active(source[s])}

(* `n' is the longest fragment no source's current buffer cuts short.      *)
FragmentLens ==
  {MixLen - mixed} \cup {SamplesAvail(source[s], used) : s \in Mixable}

\* Mutant: any of the sources decides.
IsAnyFragment(n) == n \in FragmentLens /\ n <= MixLen - mixed

IsFragment(n) == n \in FragmentLens /\ \A m \in FragmentLens : n <= m

(* The source starts its last buffer again.                                *)
LapsAfter(src, n) ==
  /\ PlaysOut(src, n, used)
  /\ AtQueueEnd(src)
  /\ ~Finishes(src, n, used, loaded, TRUE)

MixPass(n) ==
  /\ phase = "mix"
  /\ mixed < MixLen
  /\ IsFragment(n)
  /\ Transform(Mixable, LAMBDA src : Advance(src, n, used, loaded, TRUE))
  /\ Signal({s \in Mixable : Finishes(source[s], n, used, loaded, TRUE)})
  /\ lapped' = [s \in Sources |->
                  IF s \in Mixable /\ LapsAfter(source[s], n)
                  THEN lapped[s] + used[ActiveBuffer(source[s])] ELSE lapped[s]]
  /\ mixed' = mixed + n
  /\ UNCHANGED <<used, loaded, phase, mixing>>

(* The mix is handed to sysaudio_write and the thread waits again.         *)
Write ==
  /\ phase = "mix"
  /\ mixed = MixLen
  /\ phase' = "wait"
  /\ mixed' = 0
  /\ mixing' = {}
  /\ UNCHANGED <<source, used, loaded, history>>

-----------------------------------------------------------------------------

SourceCommand ==
  \/ \E s \in Sources, q \in PlayChoices, mode \in PlayModes : PlaySource(s, q, mode)
  \/ \E S \in Spans : Start(S) \/ Stop(S) \/ Resume(S)
  \/ \E S \in Spans : S \subseteq FadeSources /\ FadeOut(S)
  \/ \E S \in Spans, v \in Volumes : S \subseteq FadeSources /\ SetVolume(S, v)
  \/ \E S \in Spans, p \in Periods : S \subseteq FadeSources /\ SetFadePeriod(S, p)
  \/ \E s \in Sources, e \in EndTimes : SetEndTime(s, e)

ProgramOp ==
  \/ \E s \in ProgramSources, b \in QueueBuffers : Queue(s, b)
  \/ \E s \in ProgramSources : SetLoop(s, TRUE) \/ SetLoop(s, FALSE)
  \/ \E s \in ProgramSources \cap FadeSources : FadeIn(s)

BufferCommand ==
  \/ \E b \in Buffers : \E n \in Lengths[b] : SetBuffer(b, n)
  \/ \E B \in SUBSET Buffers : B # {} /\ BuffersFree(B)

Cycle == Update \/ (\E n \in 0 .. MixLen : MixPass(n)) \/ Write

Next == SourceCommand \/ ProgramOp \/ BufferCommand \/ Cycle

Spec == Init /\ [][Next]_vars

(* The cycle goes on: the thread's wait for commands has a deadline.       *)
FairSpec == Spec /\ WF_vars(Cycle)

-----------------------------------------------------------------------------
(* Properties                                                              *)

TypeOK ==
  /\ DOMAIN source = Sources /\ \A s \in Sources : SourceType(source[s])
  /\ used \in [Buffers -> Nat]
  /\ loaded \subseteq Buffers
  /\ phase \in {"wait", "mix"}
  /\ mixed \in 0 .. MixLen
  /\ mixing \subseteq Sources
  /\ done \in [Sources -> 0 .. DoneCap]
  /\ lapped \in [Sources -> Nat]

(* A source that plays has a current buffer, which is in the filled part   *)
(* of its queue.                                                           *)
PlayingHasBuffer ==
  \A s \in Sources : source[s].state = "playing" => Active(source[s])

(* The queue keeps its shape through any order of plays, queueing and      *)
(* laps, and what plays is in its filled part; with the types of all       *)
(* variables.                                                              *)
QueueOK ==
  TypeOK /\ PlayingHasBuffer /\ \A s \in Sources : QueueShape(source[s])

(* No source, playing or paused, holds a current buffer whose memory was   *)
(* freed, whatever the order of plays, frees and loads; the comment of     *)
(* faun_detachBuffers: "Abort all sources playing a freed buffer".         *)
ActiveLoaded ==
  \A s \in Sources : Active(source[s]) => ActiveBuffer(source[s]) \in loaded

(* The application gives a buffer the same, non-zero number of frames each *)
(* time it loads it.                                                       *)
StableLoads == \A b \in Buffers : \E n \in Nat \ {0} : Lengths[b] = {n}

(* What the mixer reads lies inside the buffer, so SamplesAvail does not   *)
(* wrap and no pass reads past the samples.                                *)
PlayPosInside ==
  \A s \in Sources :
    Active(source[s]) => source[s].playPos < used[ActiveBuffer(source[s])]

(* Frames are mixed in order, each once: the number of frames sent out is  *)
(* that of the buffers played out, of the laps of the last buffer, and of  *)
(* the position in the current one.                                        *)
FramesBefore(src) ==
  LET before[i \in 0 .. QueueSize] ==
        IF i = 0 THEN 0 ELSE before[i - 1] + used[src.bufferQueue[i - 1]]
  IN before

FramesInOrder ==
  \A s \in Sources :
    LET src == source[s] IN
    Active(src) =>
      src.framesOut = FramesBefore(src)[src.qactive] + lapped[s] + src.playPos

(* A source stops by itself only at its end time, where the next buffer    *)
(* was freed, or with every frame of its queue sent out.                   *)
EndsPlayedOut ==
  [][\A s \in Sources :
       LET src == source[s] IN
       phase = "mix" /\ src.state = "playing" /\ source'[s].state = "unused" =>
         \/ source'[s].framesOut >= src.endPos
         \/ ~AtQueueEnd(src) /\ src.bufferQueue[NextSlot(src.qactive)] \notin loaded
         \/ source'[s].framesOut = FramesBefore(src)[src.bufUsed] + lapped[s]]_vars

(* One DONE for one play, when no fade-out is involved: a waiter counts    *)
(* signals to know which sounds are over.                                  *)
DoneOncePerPlay == \A s \in Sources : done[s] <= 1

(* The gain stays between silence and the volume through any sequence of   *)
(* fades, volume and period changes.                                       *)
GainBounded == \A s \in Sources : source[s].gain \in 0 .. source[s].volume

(* An update cycle comes to its end: no pass mixes nothing for ever.       *)
CycleCompletes == phase = "mix" ~> phase = "wait"

(* A source that does not loop plays to its end, unless it is stopped,     *)
(* made to loop or played again, and for no source does a cycle fail to    *)
(* come to its end.                                                        *)
PlaysToEnd ==
  /\ CycleCompletes
  /\ \A s \in Sources :
       /\ source[s].state = "playing" /\ source[s].framesOut > 0
       /\ "loop" \notin source[s].mode
       ~> \/ source[s].state # "playing"
          \/ source[s].framesOut = 0
          \/ "loop" \in source[s].mode

(* While a fade-out runs, through pauses, laps, commands, and the passes    *)
(* beyond fadePos that each start it again, only setting the volume makes  *)
(* the source louder.                                                      *)
FadeOutFalls ==
  [][\A s \in Sources :
       source[s].fade < 0 /\ source'[s].fade < 0 =>
         \/ source'[s].gain <= source[s].gain
         \/ \E S \in Spans, v \in Volumes : SetVolume(S, v)]_vars

(* A source with a fade-out at its end is silent when it ends, however     *)
(* other sources cut its passes and whenever it is paused: fadePos leaves  *)
(* the fade enough cycles.  For sources whose gain nobody else sets.       *)
EndsSilent ==
  [][\A s \in Sources \ FadeSources :
       LET src == source[s] IN
       /\ phase = "mix" /\ src.state = "playing" /\ source'[s].state = "unused"
       /\ src.fadePos # EndNone
       => \/ src.gain = 0
          \/ ~AtQueueEnd(src) /\ src.bufferQueue[NextSlot(src.qactive)] \notin loaded]_vars

-----------------------------------------------------------------------------
(* What the comments of faun.c say and the code does not do.               *)

(* faun_detachBuffers: "Abort all sources playing a freed buffer".         *)
ReloadAborts ==
  [][\A s \in Sources, b \in Buffers : \A n \in Lengths[b] :
       SetBuffer(b, n) /\ Active(source[s]) /\ ActiveBuffer(source[s]) = b
         => source'[s].state # "playing"]_vars

=============================================================================
