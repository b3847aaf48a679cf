--------------------------- MODULE MCL1ToL2Messages ---------------------------
(* An ordinary call and a call of the message passer.                        *)
EXTENDS L1ToL2Messages

CONSTANTS c1, passer

MCCall == {c1, passer}
MCPasserCall == {passer}
=============================================================================
