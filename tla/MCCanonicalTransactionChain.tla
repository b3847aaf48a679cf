--------------------- MODULE MCCanonicalTransactionChain ---------------------
EXTENDS CanonicalTransactionChain

CONSTANT t1

MCTx == {t1}

\* With one timestamp the contexts only count.
MCTimestamps == {1}
=============================================================================
