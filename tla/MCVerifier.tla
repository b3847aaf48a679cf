------------------------------ MODULE MCVerifier ------------------------------
EXTENDS Verifier

\* A verifier that has synced the first batch, which has one transaction.
MCDeployed == <<[queueIndex |-> Nil, owner |-> FALSE]>>
MCFirstBatch == <<1>>

MCGenesis == <<>>

MCBadRoots == {2}

\* One element of the batches to come is a transaction of the oracle's owner.
MCOwnerElements == {3}
=============================================================================
