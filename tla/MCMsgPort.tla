----------------------------- MODULE MCMsgPort ------------------------------
(* Instances of MsgPort for TLC.                                            *)
EXTENDS MsgPort, TLC

CONSTANTS p1, p2, c1, m1, m2

=============================================================================
