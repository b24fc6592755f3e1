--------------------------- MODULE MCFaunThreads ----------------------------
(* Instances of FaunThreads for TLC.                                        *)
EXTENDS FaunThreads

CONSTANTS main, helper, b1, m1, m2

=============================================================================
