--------------------------- MODULE MCL2ToL1Messages ---------------------------
(* One call, and a wrong root that claims a message before it is sent.       *)
EXTENDS L2ToL1Messages

CONSTANTS c1, system

MCCall == {c1}
MCCallWithSystem == {c1, system}
MCSystemCall == {system}
MCFaultyRoots == {{[fromMessenger |-> TRUE, message |-> [call |-> c1, nonce |-> 0]]}}
MCWindows == {1, 2}
=============================================================================
