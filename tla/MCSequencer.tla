----------------------------- MODULE MCSequencer -----------------------------
EXTENDS Sequencer

\* A deployed chain, of which the first block holds the first queue element.
MCDeployed == <<[queueIndex |-> 0, owner |-> FALSE]>>

MCGenesis == <<>>

\* One element in the middle of the queue is skipped.
MCSkipped == {2}
=============================================================================
