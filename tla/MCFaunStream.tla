---------------------------- MODULE MCFaunStream ----------------------------
(* Instances of FaunStream for TLC.                                         *)
EXTENDS FaunStream, TLC

(* One stream is used in every way, another is opened once and loops.      *)
Sizes   == 0 :> {11} @@ 1 :> {8}
Pieces  == 0 :> {<<1, 9>>, <<6, 3>>} @@ 1 :> {}
(* A part that fits in one buffer.                                         *)
ShortPieces == 0 :> {<<1, 4>>}

Playing == 0 :> {{"once", "signal_done", "fade_out"}, {"loop"}, {"signal_done"}}
        @@ 1 :> {{"loop"}}
Ends    == 0 :> {6, 13} @@ 1 :> {}

=============================================================================
