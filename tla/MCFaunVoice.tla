---------------------------- MODULE MCFaunVoice -----------------------------
(* Instances of FaunVoice for TLC.                                          *)
EXTENDS FaunVoice, TLC

CONSTANTS b1, b2

(* Each load of a buffer gives it the same number of frames ...             *)
FixedLengths == b1 :> {2} @@ b2 :> {4}
PairLengths  == b1 :> {3} @@ b2 :> {2}
(* ... or a second load may be shorter.                                     *)
VaryingLengths == b1 :> {1, 3} @@ b2 :> {2}

Single == {<<b1>>}
List   == {<<b2, b1>>}
Trios  == {<<b1>>, <<b1, b2>>, <<b2, b1, b1>>}

Once    == {{"once", "signal_done"}}
OnceOrFading == {{"once", "signal_done"}, {"once", "fade_in", "fade_out"}}
Plain   == {{"once", "signal_done"}, {"loop", "signal_done"}, {"signal_done"}}

=============================================================================
