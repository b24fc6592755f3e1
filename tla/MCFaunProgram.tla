--------------------------- MODULE MCFaunProgram ----------------------------
(* Instances of FaunProgram for TLC.                                        *)
EXTENDS FaunProgram, TLC

CONSTANTS t0, t1

OwnThreads == 0 :> t0 @@ 1 :> t1
OneThread  == 0 :> t0

Short == <<FO_SIGNAL, FO_END>>
Long  == <<FO_SOURCE, 0, FO_QUEUE, 1, FO_WAIT, 2, 10, 0, FO_SIGNAL, FO_END>>

OnSources == {Short, Long}

=============================================================================
