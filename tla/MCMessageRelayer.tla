-------------------------- MODULE MCMessageRelayer --------------------------
(* Three L2 transactions in batches of one or two.  The middle one sends no  *)
(* message, and the message of the last one has a target that is refused.    *)
(* The first batch has the index 9: the string of the next one is smaller.   *)
EXTENDS MessageRelayer

MCMessages == {0, 2}
MCSystemMessages == {2}
MCWindows == {1, 2}
=============================================================================
