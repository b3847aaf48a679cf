---------------------- MODULE CanonicalTransactionChain ----------------------
(***************************************************************************)
(* The canonical transaction chain of one L2 chain id:                      *)
(* CanonicalTransactionChain.sol.  L1 transactions wait in a queue until    *)
(* the sequencer includes them; a batch of the sequencer is a list of       *)
(* contexts, each of which stands for some transactions of the sequencer    *)
(* followed by some of the next elements of the queue.                      *)
(*                                                                         *)
(* The contract keeps two cursors into the queue: _nextQueueIndex in its    *)
(* own storage, and the nextQueueIndex of the metadata of the container of  *)
(* batches.  An append moves the one by the queue counts of the contexts    *)
(* and the other by the size of the batch less its sequencer transactions.  *)
(***************************************************************************)
EXTENDS LibBuffer, Sequences, FiniteSets

CONSTANTS
    Tx,            \* what the L1 messenger may enqueue: target, gas limit and data
    MaxCount,      \* bound on each of the two counts of a context (a uint24)
    MaxContexts,   \* bound on the contexts of a batch
    MaxQueue,      \* bound on the length of the queue
    MaxElements,   \* bound on the elements of the chain
    MaxTime,       \* bound on block.timestamp
    Timestamps,    \* the timestamps the sequencer gives to contexts
    Sequenced      \* the entry of a sequencer transaction in the derived chain

ASSUME CTCAssumption ==
    /\ MaxCount \in Nat
    /\ MaxContexts \in Nat \ {0}
    /\ MaxQueue \in Nat
    /\ MaxElements \in Nat
    /\ MaxTime \in Nat \ {0}
    /\ Timestamps \subseteq Nat \ {0}
    /\ Sequenced \notin Nat

VARIABLES
    queue,            \* queueElements of the chain, from 1
    nextQueueIndex,   \* _nextQueueIndex of the chain
    batches,          \* ChainStorageContainer-CTC-batches of the chain
    appended,         \* the SequencerBatchAppended event of each batch, with its calldata
    now               \* block.timestamp, and block.number with it

vars == <<queue, nextQueueIndex, batches, appended, now>>

\* A block number and its timestamp grow together and are one number here.
QueueElement == [transaction : Tx, timestamp : Nat]

BatchContext == [numSequencedTransactions : 0..MaxCount,
                 numSubsequentQueueTransactions : 0..MaxCount,
                 timestamp : Timestamps \cup {0}]

Contexts == UNION {[1..n -> BatchContext] : n \in 1..MaxContexts}

\* The batch root is the hash of the previous L1 block.
HeaderHash == [batchRoot : Nat, batchSize : Nat, prevTotalElements : Nat]

ExtraData == [totalElements : Nat, nextQueueIndex : Nat, lastTimestamp : Nat]

Event == [startingQueueIndex : Nat, numQueueElements : Nat, totalElements : Nat,
          contexts : Contexts]

TypeOK ==
    /\ queue \in Seq(QueueElement)
    /\ nextQueueIndex \in Nat
    /\ batches \in Buffer(HeaderHash, ExtraData)
    /\ appended \in Seq(Event)
    /\ now \in Nat \ {0}

getTotalElements == batches.extraData.totalElements

\* getNumPendingQueueElementsByChainId: the subtraction is checked.
getNumPendingQueueElements == Len(queue) - nextQueueIndex

-----------------------------------------------------------------------------

\* The two sums of the loop over the contexts, as the number of transactions
\* that the contexts stand for.
NumSequenced(cs) ==
    Cardinality({t \in (1..Len(cs)) \X (1..MaxCount) :
                    t[2] <= cs[t[1]].numSequencedTransactions})

NumQueued(cs) ==
    Cardinality({t \in (1..Len(cs)) \X (1..MaxCount) :
                    t[2] <= cs[t[1]].numSubsequentQueueTransactions})

\* The context that the encoder puts before the others when the transactions
\* are in Minio and the calldata only names them.
StorageContext ==
    [numSequencedTransactions |-> 0, numSubsequentQueueTransactions |-> 0, timestamp |-> 0]

\* The batches the submitter makes: no other context is empty, and the total is
\* the number of L2 blocks, each of which is in one context.  The contract
\* compares the total with neither.
WellFormed(total, cs) ==
    /\ total = NumSequenced(cs) + NumQueued(cs)
    /\ \A i \in DOMAIN cs :
          \/ i = 1 /\ Len(cs) > 1 /\ cs[i] = StorageContext
          \/ /\ cs[i].numSequencedTransactions + cs[i].numSubsequentQueueTransactions > 0
             /\ cs[i].timestamp # 0

Batches == {b \in [total : 1..MaxElements, contexts : Contexts] : WellFormed(b.total, b.contexts)}

-----------------------------------------------------------------------------

Init ==
    /\ queue = <<>>
    /\ nextQueueIndex = 0
    /\ batches = EmptyBuffer([totalElements |-> 0, nextQueueIndex |-> 0, lastTimestamp |-> 0])
    /\ appended = <<>>
    /\ now = 1

\* enqueueByChainId, which only the L1 messenger may call, for a call that pays
\* for its gas and is small enough.
Enqueue(tx) ==
    /\ Len(queue) < MaxQueue
    /\ queue' = Append(queue, [transaction |-> tx, timestamp |-> now])
    /\ UNCHANGED <<nextQueueIndex, batches, appended, now>>

\* Mutant: the size of the batch counts as the number of its queue elements.
AppendBatch_AllQueued(batchSize, numQueuedTransactions, timestamp) ==
    /\ CanPush(batches)
    /\ batches' = push(batches,
                       [batchRoot |-> now - 1, batchSize |-> batchSize,
                        prevTotalElements |-> getTotalElements],
                       [totalElements |-> getTotalElements + batchSize,
                        nextQueueIndex |-> batches.extraData.nextQueueIndex + batchSize,
                        lastTimestamp |-> timestamp])

\* _appendBatchByChainId
AppendBatch(batchSize, numQueuedTransactions, timestamp) ==
    /\ CanPush(batches)
    /\ batches' = push(batches,
                       [batchRoot |-> now - 1, batchSize |-> batchSize,
                        prevTotalElements |-> getTotalElements],
                       [totalElements |-> getTotalElements + batchSize,
                        nextQueueIndex |->
                            batches.extraData.nextQueueIndex + numQueuedTransactions,
                        lastTimestamp |-> timestamp])

\* appendSequencerBatchByChainId, called by the sequencer of the chain.
\* appendSequencerBatch is the same for the default chain, except that it also
\* takes a batch without elements, which the submitter never makes.
AppendSequencerBatch(shouldStartAtElement, total, cs) ==
    LET nextIndex == nextQueueIndex + NumQueued(cs)
        numQueuedTransactions == total - NumSequenced(cs)
        last == cs[Len(cs)]
    IN  /\ shouldStartAtElement = getTotalElements
        /\ Len(cs) > 0 /\ total > 0
        /\ nextIndex <= Len(queue)
        /\ numQueuedTransactions >= 0
        /\ AppendBatch(total, numQueuedTransactions,
                       IF last.numSubsequentQueueTransactions = 0 THEN last.timestamp
                       ELSE queue[nextIndex].timestamp)
        /\ appended' = Append(appended,
                          [startingQueueIndex |-> nextIndex - numQueuedTransactions,
                           numQueueElements |-> numQueuedTransactions,
                           totalElements |-> getTotalElements + total,
                           contexts |-> cs])
        /\ nextQueueIndex' = nextIndex
        /\ UNCHANGED <<queue, now>>

\* A new L1 block.
Tick ==
    /\ now < MaxTime
    /\ now' = now + 1
    /\ UNCHANGED <<queue, nextQueueIndex, batches, appended>>

Next ==
    \/ \E tx \in Tx : Enqueue(tx)
    \/ \E b \in Batches, start \in 0..MaxElements :
          /\ start + b.total <= MaxElements
          /\ AppendSequencerBatch(start, b.total, b.contexts)
    \/ Tick

Spec == Init /\ [][Next]_vars

-----------------------------------------------------------------------------
(* The chain that a node derives from the events.                           *)

\* Mutant: numbers the queue elements of each context from the start of the batch.
Entries_NoCount(e) ==
    LET upTo[i \in 0..Len(e.contexts)] ==
            IF i = 0 THEN <<>>
            ELSE upTo[i - 1]
                 \o [k \in 1..e.contexts[i].numSequencedTransactions |-> Sequenced]
                 \o [k \in 1..e.contexts[i].numSubsequentQueueTransactions |->
                        e.startingQueueIndex + k - 1]
    IN  upTo[Len(e.contexts)]

\* Mutant: takes the first context for the one that names the stored object.
Entries_DropsFirst(e) ==
    LET upTo[i \in 0..Len(e.contexts)] ==
            IF i <= 1 THEN <<>>
            ELSE upTo[i - 1]
                 \o [k \in 1..e.contexts[i].numSequencedTransactions |-> Sequenced]
                 \o [k \in 1..e.contexts[i].numSubsequentQueueTransactions |->
                        e.startingQueueIndex + NumQueued(SubSeq(e.contexts, 1, i - 1)) + k - 1]
    IN  upTo[Len(e.contexts)]

\* parseEvent of the data transport layer: the transactions of a batch.
Entries(e) ==
    LET upTo[i \in 0..Len(e.contexts)] ==
            IF i = 0 THEN <<>>
            ELSE upTo[i - 1]
                 \o [k \in 1..e.contexts[i].numSequencedTransactions |-> Sequenced]
                 \o [k \in 1..e.contexts[i].numSubsequentQueueTransactions |->
                        e.startingQueueIndex + NumQueued(SubSeq(e.contexts, 1, i - 1)) + k - 1]
    IN  upTo[Len(e.contexts)]

Chain[n \in 0..Len(appended)] ==
    IF n = 0 THEN <<>> ELSE Chain[n - 1] \o Entries(appended[n])

DerivedChain == Chain[Len(appended)]

-----------------------------------------------------------------------------

(* The two cursors into the queue agree and never pass its end, although an  *)
(* append moves each by a different computation from its arguments: the      *)
(* storage cursor serves getNumPendingQueueElements and the next append, the *)
(* metadata serves getNextQueueIndexByChainId.                               *)
CursorsAgree ==
    /\ batches.extraData.nextQueueIndex = nextQueueIndex
    /\ getNumPendingQueueElements >= 0

(* The chain a node derives from the events has as many entries as the       *)
(* contract counts in totalElements, which is where the next batch and the   *)
(* state commitment chain must fit: the contract adds up the size the        *)
(* sequencer claims, a node the contexts of the calldata.                    *)
EventsCoverElements == Len(DerivedChain) = getTotalElements

TransactionLog == INSTANCE TransactionLog WITH
    log <- DerivedChain, queued <- Len(queue), taken <- nextQueueIndex

(* The chain a node derives from the events is an append-only log that takes *)
(* the elements of the queue in order and each of them once.                 *)
ImplementsTransactionLog == TransactionLog!Spec
=============================================================================
