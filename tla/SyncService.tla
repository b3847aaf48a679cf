----------------------------- MODULE SyncService -----------------------------
(***************************************************************************)
(* What the sequencer and the verifier loop of l2geth share: the indices    *)
(* that sync_service.go keeps in the database, and applyTransactionToTip,   *)
(* which hands a transaction to the worker (miner/worker.go) and waits for  *)
(* its answer.  The indices are written before the transaction is sent, so  *)
(* a failure of the worker, and a crash before the block is in the chain,   *)
(* leave indices that the service has to take back.                         *)
(*                                                                         *)
(* This is a node that gets no blocks from its peers, below DeSeqBlock: one *)
(* block has one transaction, and the block at height n has index n - 1.    *)
(***************************************************************************)
EXTENDS Naturals, Sequences, FiniteSets

CONSTANTS
    Nil,             \* Go's nil: an index that was never written
    InitialBlocks,   \* the transactions of the blocks the node begins with
    MaxFailures,     \* bound on the transactions that the worker fails to commit
    MaxCrashes,      \* bound on the crashes
    OracleFails      \* may updateGasPriceOracleCache fail?

\* queueIndex is Nil in a transaction of the sequencer; owner tells one that the
\* owner of the gas price oracle sent.
Transaction == [queueIndex : Nat \cup {Nil}, owner : BOOLEAN]

ASSUME SyncServiceAssumption ==
    /\ Nil \notin Nat
    /\ InitialBlocks \in Seq(Transaction)
    /\ MaxFailures \in Nat
    /\ MaxCrashes \in Nat
    /\ OracleFails \in BOOLEAN

VARIABLES
    blocks,            \* the transaction of each block, from 1; 0 is genesis
    headIndex,         \* database: HeadIndex, the last index that was applied
    headQueueIndex,    \* database: HeadQueueIndex, the last queue element
    enqueueIndexNil,   \* memory: the queue index counts as nil
    call,              \* the application under way, of which there is one (applyLock)
    node,              \* "up", "down" or "panicked"
    failures, crashes  \* how many of each there were

serviceVars ==
    <<blocks, headIndex, headQueueIndex, enqueueIndexNil, call, node, failures, crashes>>

NoCall == [stage |-> "none"]

\* sent: the worker has the transaction; err: an error is in txApplyErrCh;
\* head: the block is in the chain and its event in chainHeadCh.
Call == [stage : {"sent", "err", "head"}, tx : Transaction, index : Nat,
         restore : Nat \cup {Nil}]

ServiceTypeOK ==
    /\ blocks \in Seq(Transaction)
    /\ headIndex \in Nat \cup {Nil}
    /\ headQueueIndex \in Nat \cup {Nil}
    /\ enqueueIndexNil \in BOOLEAN
    /\ call \in Call \cup {NoCall}
    /\ node \in {"up", "down", "panicked"}
    /\ failures \in 0..MaxFailures
    /\ crashes \in 0..MaxCrashes

-----------------------------------------------------------------------------

After(index) == IF index = Nil THEN 0 ELSE index + 1

GetNextIndex == After(headIndex)

GetLatestEnqueueIndex == IF enqueueIndexNil THEN Nil ELSE headQueueIndex

GetNextEnqueueIndex == After(GetLatestEnqueueIndex)

\* SetLatestIndex: nil is not written.
IndexAfterSet(index) == IF index = Nil THEN headIndex ELSE index

\* SetLatestEnqueueIndex: nil is remembered, but not in the database.
SetLatestEnqueueIndex(index) ==
    /\ headQueueIndex' = IF index = Nil THEN headQueueIndex ELSE index
    /\ enqueueIndexNil' = (index = Nil)

\* The queue index of the last block that holds an element of the queue.
LastQueueIndex(chain) ==
    LET queued == {n \in DOMAIN chain : chain[n].queueIndex # Nil}
    IN  IF queued = {} THEN Nil
        ELSE chain[CHOOSE n \in queued : \A m \in queued : m <= n].queueIndex

ServiceInit ==
    /\ blocks = InitialBlocks
    /\ headIndex = IF blocks = <<>> THEN Nil ELSE Len(blocks) - 1
    /\ headQueueIndex = LastQueueIndex(blocks)
    /\ enqueueIndexNil = FALSE
    /\ call = NoCall
    /\ node = "up"
    /\ failures = 0
    /\ crashes = 0

-----------------------------------------------------------------------------

\* applyTransactionToTip, up to the wait for the worker.  Both channels are
\* empty here: each call takes the one answer it gets out of them.
ApplyTransactionToTip(tx, index) ==
    /\ node = "up" /\ call = NoCall
    /\ headIndex' = index
    /\ IF /\ tx.queueIndex # Nil
          /\ GetLatestEnqueueIndex = Nil \/ GetLatestEnqueueIndex < tx.queueIndex
       THEN SetLatestEnqueueIndex(tx.queueIndex)
       ELSE UNCHANGED <<headQueueIndex, enqueueIndexNil>>
    /\ call' = [stage |-> "sent", tx |-> tx, index |-> index, restore |-> headIndex]
    /\ UNCHANGED <<blocks, node, failures, crashes>>

\* commitNewTx, taskLoop and resultLoop of the worker: the block is in the chain.
CommitNewTx ==
    /\ call.index = Len(blocks)
    /\ blocks' = Append(blocks, call.tx)
    /\ call' = [call EXCEPT !.stage = "head"]
    /\ UNCHANGED failures

\* handleErrInTask: the index is not that of the next block, or the execution,
\* the sealing or the write fails.
FailNewTx ==
    /\ call.index = Len(blocks) => failures < MaxFailures
    /\ failures' = IF call.index = Len(blocks) THEN failures + 1 ELSE failures
    /\ call' = [call EXCEPT !.stage = "err"]
    /\ UNCHANGED blocks

Worker ==
    /\ node = "up" /\ call.stage = "sent"
    /\ CommitNewTx \/ FailNewTx
    /\ UNCHANGED <<headIndex, headQueueIndex, enqueueIndexNil, node, crashes>>

\* Mutant: an error of the worker leaves the index as it is.
Return_KeepIndex(failed) ==
    /\ node = "up" /\ call.stage \in {"err", "head"}
    /\ failed => call.stage = "err" \/ (OracleFails /\ call.tx.owner)
    /\ call.stage = "err" => failed
    /\ headIndex' = headIndex
    /\ call' = NoCall
    /\ UNCHANGED <<blocks, node, failures, crashes>>

\* The end of applyTransactionToTip: it fails when the worker did, or when the
\* block has a transaction of the owner and the cache cannot be updated.
Return(failed) ==
    /\ node = "up" /\ call.stage \in {"err", "head"}
    /\ failed => call.stage = "err" \/ (OracleFails /\ call.tx.owner)
    /\ call.stage = "err" => failed
    /\ headIndex' = IF failed THEN IndexAfterSet(call.restore) ELSE headIndex
    /\ call' = NoCall
    /\ UNCHANGED <<blocks, node, failures, crashes>>

-----------------------------------------------------------------------------

\* The process ends: what is in memory is gone.
Crash ==
    /\ node = "up" /\ crashes < MaxCrashes
    /\ node' = "down"
    /\ crashes' = crashes + 1
    /\ call' = NoCall
    /\ enqueueIndexNil' = FALSE
    /\ UNCHANGED <<blocks, headIndex, headQueueIndex, failures>>

\* initializeLatestL1, its first half: an index without a block goes back to the
\* last block.  At genesis there is none, and txs[0] of it panics.
RepairIndex ==
    IF headIndex = Nil \/ headIndex + 1 <= Len(blocks)
    THEN headIndex' = headIndex /\ node' = "up"
    ELSE /\ headIndex' = IF blocks = <<>> THEN headIndex ELSE Len(blocks) - 1
         /\ node' = IF blocks = <<>> THEN "panicked" ELSE "up"

\* Mutant: the queue index in the database is trusted.
RepairEnqueueIndex_Not == UNCHANGED <<headQueueIndex, enqueueIndexNil>>

\* initializeLatestL1, its second half: back from the tip to the last block with
\* an element of the queue.  A node that never saw one asks the data transport
\* layer, which has no confirmed element either: only this node makes blocks.
RepairEnqueueIndex ==
    IF headQueueIndex = Nil
    THEN UNCHANGED <<headQueueIndex, enqueueIndexNil>>
    ELSE SetLatestEnqueueIndex(LastQueueIndex(blocks))

Restart ==
    /\ node = "down"
    /\ RepairIndex
    /\ IF node' = "panicked" THEN UNCHANGED <<headQueueIndex, enqueueIndexNil>>
       ELSE RepairEnqueueIndex
    /\ UNCHANGED <<blocks, call, failures, crashes>>

-----------------------------------------------------------------------------

(* sync_service.go:1434: "lastIndex + 1 = lastBlock.number".  Whenever no    *)
(* application is under way the index in the database is that of the last    *)
(* block, over failures of the worker and crashes; if not, the worker turns  *)
(* down every later transaction.                                             *)
LatestIndexIsTip == node = "up" /\ call = NoCall => GetNextIndex = Len(blocks)

(* sync_service.go:1553: "On restart, these values are repaired to handle    *)
(* the case where the index is updated but the transaction isn't yet added   *)
(* to the chain".                                                            *)
RestartRepairs == node # "panicked"
=============================================================================
