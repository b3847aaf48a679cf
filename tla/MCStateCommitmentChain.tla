------------------------ MODULE MCStateCommitmentChain ------------------------
(* StateCommitmentChain on a small instance: two state roots, batches of one *)
(* or two roots, at most three live batches.                                *)
EXTENDS StateCommitmentChain, TLC

CONSTANTS r1, r2

MCRoot == {r1, r2}
RootSymmetry == Permutations(MCRoot)
=============================================================================
