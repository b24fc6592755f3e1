----------------------------- MODULE StreamTrack ----------------------------
(***************************************************************************)
(* What the streams of faun promise a listener, whatever their buffers do: *)
(* the frames of the part of the file that was asked for, each once and in *)
(* order, again from the start of the part if it loops, and an end only at *)
(* the end of the part or at the end time, unless decoding failed.         *)
(***************************************************************************)
EXTENDS Integers

CONSTANTS Streams,
          Longest   \* frames heard in one step, at most

VARIABLES hearing,  \* a mix is being made; between mixes commands are served
          on,       \* on[s]: the stream is heard
          next,     \* next[s]: the frame of the file heard next
          part,     \* part[s]: [lo, hi, loop], the frames lo .. hi - 1
          left,     \* left[s]: frames to the end time
          failed    \* failed[s]: its file was closed before its end

vars == <<hearing, on, next, part, left, failed>>

Init == ~hearing /\ \A s \in Streams : ~on[s]

(* `n' more frames are heard ...                                           *)
Hear(s, n) ==
  /\ on'[s] /\ part'[s] = part[s]
  /\ n < left[s] /\ left'[s] = left[s] - n
  /\ \/ next[s] + n < part[s].hi /\ next'[s] = next[s] + n
     \/ next[s] + n = part[s].hi /\ part[s].loop /\ next'[s] = part[s].lo

(* ... and are the last.                                                   *)
End(s, n) ==
  /\ ~on'[s]
  /\ \/ n >= left[s]
     \/ next[s] + n = part[s].hi /\ ~part[s].loop
     \/ failed[s]

Listen ==
  /\ hearing
  /\ \E n \in 0 .. Longest :
       \A s \in Streams : IF on[s] THEN Hear(s, n) \/ End(s, n) ELSE ~on'[s]

Keep(s)  == on'[s] = on[s] /\ next'[s] = next[s] /\ part'[s] = part[s]
Ready    == hearing # hearing' /\ \A s \in Streams : Keep(s)

(* A stream begins with the first frame of its part, or goes on where it   *)
(* was paused; what it is to play is only changed while it is not heard.   *)
Begin(s) == ~on[s] /\ on'[s] /\ next'[s] = part'[s].lo
Turn(s)  == on'[s] # on[s] /\ next'[s] = next[s] /\ part'[s] = part[s]
Quiet(s) == ~on'[s]

Serve ==
  /\ ~hearing /\ ~hearing'
  /\ \A s \in Streams : Keep(s) \/ Begin(s) \/ Turn(s) \/ Quiet(s)

Next == Listen \/ Ready \/ Serve

Spec == Init /\ [][Next]_vars

=============================================================================
