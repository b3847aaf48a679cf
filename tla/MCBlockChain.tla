---------------------------- MODULE MCBlockChain ----------------------------
(* The chain a1 a2 a3, a fork b2 b3 of it, a block c1 that fails *)
(* to execute, and a block d1 of another sequencer than the epochs name.           *)
EXTENDS BlockChain, TLC

CONSTANTS g, a1, a2, a3, b2, b3, c1, d1

MCBlocks == {a1, a2, a3, b2, b3, c1, d1}

MCParent == a1 :> g @@ a2 :> a1 @@ a3 :> a2 @@ b2 :> a1 @@ b3 :> b2 @@ c1 :> g @@ d1 :> g
=============================================================================
