------------------------- MODULE StateCommitmentChain -------------------------
(***************************************************************************)
(* The state commitment chain of one L2 chain id: StateCommitmentChain.sol  *)
(* and MVM_StateCommitmentChain.sol, the contract the deployment installs   *)
(* over it.  The two differ in one check, which CheckCTC switches on.       *)
(*                                                                         *)
(* The proposer appends batches of state roots, one root for each element   *)
(* of the canonical transaction chain.  The fraud verifier deletes a batch, *)
(* and every later one, while the batch is inside the fraud proof window.   *)
(***************************************************************************)
EXTENDS LibBuffer, Sequences

CONSTANTS
    Root,           \* state roots
    MaxBatchSize,   \* bound on the roots in a batch
    Windows,        \* the fraud proof windows METIS_MANAGER may set
    MaxTime,        \* bound on the block timestamp
    MaxElements,    \* bound on the elements of the transaction chain
    CheckCTC        \* TRUE: StateCommitmentChain, FALSE: MVM_StateCommitmentChain

ASSUME SCCAssumption ==
    /\ MaxBatchSize \in Nat \ {0}
    /\ Windows \subseteq Nat
    /\ MaxTime \in Nat \ {0}
    /\ MaxElements \in Nat
    /\ CheckCTC \in BOOLEAN

VARIABLES
    batches,            \* ChainStorageContainer-SCC-batches of the chain
    fraudProofWindow,   \* FRAUD_PROOF_WINDOW
    now,                \* block.timestamp
    ctcTotal            \* getTotalElementsByChainId of the transaction chain

vars == <<batches, fraudProofWindow, now, ctcTotal>>

Batch == UNION {[1..n -> Root] : n \in 1..MaxBatchSize}

\* What hashBatchHeader hashes: all of a header except its batchIndex.  A Merkle
\* root together with the batch size identifies the roots it was made from.
HeaderHash == [batchRoot : Batch, batchSize : Nat, prevTotalElements : Nat, timestamp : Nat]

\* No header hashes to zero.
ASSUME ZeroAssumption == Zero \notin HeaderHash

ExtraData == [totalElements : Nat, lastSequencerTimestamp : Nat]

TypeOK ==
    /\ batches \in Buffer(HeaderHash, ExtraData)
    /\ fraudProofWindow \in Nat
    /\ now \in Nat \ {0}
    /\ ctcTotal \in Nat

getTotalElements == batches.extraData.totalElements

insideFraudProofWindow(h) == h.timestamp + fraudProofWindow > now

\* _isValidBatchHeaderByChainId: the header's hash is the one stored at the
\* index the header names.
IsValidBatchHeader(h) ==
    CanGet(batches, h.batchIndex) /\ get(batches, h.batchIndex) = h.hash

\* verifyStateCommitmentByChainId for the root at position k (from 1) of a batch.
verifyStateCommitment(root, h, k) ==
    /\ IsValidBatchHeader(h)
    /\ k \in 1..h.hash.batchSize
    /\ h.hash.batchRoot[k] = root

-----------------------------------------------------------------------------

Init ==
    /\ batches = EmptyBuffer([totalElements |-> 0, lastSequencerTimestamp |-> 0])
    /\ fraudProofWindow \in Windows
    /\ now = 1
    /\ ctcTotal = 0

\* _appendBatchByChainId: the header goes to the end of the container.
AppendBatch(batch) ==
    LET hash == [batchRoot |-> batch, batchSize |-> Len(batch),
                 prevTotalElements |-> getTotalElements, timestamp |-> now]
    IN  /\ CanPush(batches)
        /\ batches' = push(batches, hash,
                           [totalElements |-> hash.prevTotalElements + hash.batchSize,
                            lastSequencerTimestamp |-> now])

\* appendStateBatchByChainId, called by the proposer of the chain.
AppendStateBatch(batch, shouldStartAtElement) ==
    /\ shouldStartAtElement = getTotalElements
    /\ Len(batch) > 0
    /\ CheckCTC => getTotalElements + Len(batch) <= ctcTotal
    /\ AppendBatch(batch)
    /\ UNCHANGED <<fraudProofWindow, now, ctcTotal>>

\* Mutant: leaves the metadata as the last append wrote it.
DeleteBatch_StaleMetadata(h) ==
    /\ h.batchIndex < batches.length
    /\ IsValidBatchHeader(h)
    /\ CanDelete(batches, h.batchIndex)
    /\ batches' = deleteElementsAfterInclusive(batches, h.batchIndex, batches.extraData)

\* _deleteBatchByChainId: drops the batch and all that follow it.
DeleteBatch(h) ==
    /\ h.batchIndex < batches.length
    /\ IsValidBatchHeader(h)
    /\ CanDelete(batches, h.batchIndex)
    /\ batches' = deleteElementsAfterInclusive(batches, h.batchIndex,
                      [totalElements |-> h.hash.prevTotalElements,
                       lastSequencerTimestamp |-> 0])

\* Mutant: does not look at the fraud proof window.
DeleteStateBatch_AnyTime(h) ==
    /\ DeleteBatch(h)
    /\ UNCHANGED <<fraudProofWindow, now, ctcTotal>>

\* deleteStateBatchByChainId, called by the fraud verifier of the chain.
DeleteStateBatch(h) ==
    /\ insideFraudProofWindow(h.hash)
    /\ DeleteBatch(h)
    /\ UNCHANGED <<fraudProofWindow, now, ctcTotal>>

\* setFraudProofWindow, called by METIS_MANAGER.
SetFraudProofWindow(window) ==
    /\ fraudProofWindow' = window
    /\ UNCHANGED <<batches, now, ctcTotal>>

\* A new L1 block.
Tick ==
    /\ now < MaxTime
    /\ now' = now + 1
    /\ UNCHANGED <<batches, fraudProofWindow, ctcTotal>>

\* The transaction chain grows (CanonicalTransactionChain models how).
CTCAppend(n) ==
    /\ ctcTotal + n <= MaxElements
    /\ ctcTotal' = ctcTotal + n
    /\ UNCHANGED <<batches, fraudProofWindow, now>>

\* A batchIndex is a uint256: beside those of the slots, the next ones, which
\* narrow to them.
Indices == 0..(2 * MaxLength + 1)

\* The headers a caller may present: a header's hash does not cover its index, so
\* any hash a slot holds, deleted or not, with any index.  A hash that no slot
\* holds any more is rejected at every index.
Headers == [batchIndex : Indices, hash : {batches.buf[i] : i \in Slots} \ {Zero}]

Next ==
    \/ \E batch \in Batch, start \in 0..MaxElements : AppendStateBatch(batch, start)
    \/ \E h \in Headers : DeleteStateBatch(h)
    \/ \E window \in Windows : SetFraudProofWindow(window)
    \/ \E n \in 1..MaxBatchSize : CTCAppend(n)
    \/ Tick

Spec == Init /\ [][Next]_vars

-----------------------------------------------------------------------------

Hash(i) == batches.buf[i]
EndOf(i) == Hash(i).prevTotalElements + Hash(i).batchSize

(* The live batches partition the elements: the first starts at 0, each next *)
(* one where the one before it ends, the last ends at getTotalElements, and  *)
(* a batch has as many elements as roots.  appendStateBatch computes the     *)
(* start from the container's metadata and deleteStateBatch restores that    *)
(* metadata from the header the caller passes, so both must keep it exact.   *)
BatchesPartitionElements ==
    /\ \A i \in Live(batches) :
          /\ Hash(i).batchSize = Len(Hash(i).batchRoot)
          /\ Hash(i).prevTotalElements = IF i = 0 THEN 0 ELSE EndOf(i - 1)
    /\ getTotalElements = IF batches.length = 0 THEN 0 ELSE EndOf(batches.length - 1)

(* An L1 contract that verifies a state root gets one answer: each committed *)
(* element has exactly one root that verifyStateCommitment accepts for it,   *)
(* whichever header the caller presents, at whichever index, also one that   *)
(* the container narrows to a slot.  The hash does not cover the index, and  *)
(* deleted hashes stay in their slots.                                       *)
OneRootPerElement ==
    \A e \in 0..(getTotalElements - 1) :
        LET accepted == {r \in Root : \E h \in Headers :
                            /\ h.hash.prevTotalElements <= e
                            /\ verifyStateCommitment(r, h, e - h.hash.prevTotalElements + 1)}
        IN  \E r \in Root : accepted = {r}

Final(i) == ~insideFraudProofWindow(Hash(i))

(* A batch whose fraud proof window has closed stays where it is, with its   *)
(* window closed, whatever is deleted: deletion also drops every later       *)
(* batch, and only the header it names is checked against the window.  The   *)
(* one thing that can reopen a window is METIS_MANAGER raising it.           *)
FinalityIsForever ==
    [][fraudProofWindow' <= fraudProofWindow =>
        \A i \in Live(batches) : Final(i) =>
            /\ i \in Live(batches)'
            /\ Hash(i)' = Hash(i)
            /\ Final(i)']_vars

-----------------------------------------------------------------------------
(* What the chain promises: a log of state roots with a final prefix.       *)

RootsBefore[n \in 0..batches.length] ==
    IF n = 0 THEN <<>> ELSE RootsBefore[n - 1] \o Hash(n - 1).batchRoot

FinalBatches == {i \in Live(batches) : Final(i)}

StateLog == INSTANCE StateLog WITH
    log <- RootsBefore[batches.length],
    final <- IF FinalBatches = {} THEN 0
             ELSE EndOf(CHOOSE i \in FinalBatches : \A j \in FinalBatches : j <= i)

(* The slots and the metadata implement a log of state roots to which        *)
(* batches are appended and from which only a suffix that is not final is    *)
(* ever removed, also when the window changes in between.                    *)
ImplementsStateLog == StateLog!Spec
=============================================================================
