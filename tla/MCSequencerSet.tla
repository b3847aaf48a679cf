--------------------------- MODULE MCSequencerSet ---------------------------
(***************************************************************************)
(* Two sequencers.  The first has block 1, the second blocks 2 and 3 once  *)
(* these are committed; a recommitEpoch gives block 3 to the first again.  *)
(* Block 4 is in no epoch.  Any three of the submissions are made.         *)
(***************************************************************************)
EXTENDS SequencerSet

CONSTANTS s1, s2

MCNodes == {s1, s2}
MCFirstEpoch == [signer |-> s1, start |-> 0, end |-> 1]

Tx(id, kind, signer, start, end) ==
    [id |-> id, kind |-> kind, signer |-> signer, start |-> start, end |-> end]

Fund   == Tx(1, "fund", None, 0, 0)
Gas    == Tx(2, "oracle", None, 0, 0)
Extend == Tx(3, "commit", s2, 0, 3)
Respan == Tx(4, "respan", s1, 3, 3)

MCTxs == {Fund, Gas, Extend, Respan}

MCSubmissions ==
    {<<s1, Extend>>, <<s1, Respan>>, <<s1, Fund>>, <<s2, Gas>>}
=============================================================================
