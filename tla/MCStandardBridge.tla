--------------------------- MODULE MCStandardBridge ---------------------------
(* Ether, METIS and another token with its standard L2 token, and a contract *)
(* that poses as an L2 token.                                                *)
EXTENDS StandardBridge

CONSTANTS token, l2Token, foreign

MCERC20 == {Metis, token}
MCStandardToken == {OVM_ETH, Coinbase, l2Token}
MCForeignToken == {foreign}
MCl1TokenOf == [t \in MCStandardToken |-> IF t = l2Token THEN token ELSE ZeroAddress]
=============================================================================
