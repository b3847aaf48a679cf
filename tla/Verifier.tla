------------------------------- MODULE Verifier -------------------------------
(***************************************************************************)
(* The verifier mode of the SyncService on the L1 backend: it applies the   *)
(* transactions of the batches that the data transport layer read from the  *)
(* canonical transaction chain, and compares the state root after each of   *)
(* them with the one in the state commitment chain.                         *)
(***************************************************************************)
EXTENDS SyncService

CONSTANTS
    InitialBatches,   \* the sizes of the batches the node has synced at the start
    BadRoots,         \* the indices whose published root is not the verifier's
    OwnerElements,    \* the indices of the transactions that the owner of the
                      \* gas price oracle sent
    MaxBatchSize,     \* bound on the size of a batch
    MaxElements       \* bound on the transactions of all batches

ASSUME VerifierAssumption ==
    /\ InitialBatches \in Seq(Nat \ {0})
    /\ BadRoots \subseteq Nat
    /\ OwnerElements \subseteq Nat
    /\ MaxBatchSize \in Nat
    /\ MaxElements \in Nat

VARIABLES
    batches,         \* the size of each batch that the data transport layer has
    published,       \* how many state roots it has
    headBatchIndex,  \* database: HeadBatchIndex, the last batch that was synced
    loop,            \* where syncTransactionBatchRange is
    verified         \* the indices whose root was reported with success=true

batchVars == <<batches, published, headBatchIndex, loop, verified>>

verifierVars == <<serviceVars, batchVars>>

\* The elements before batch i, the index of its first element.
PrevTotalElements(i) ==
    Cardinality({e \in (1..i) \X (1..MaxElements) : e[2] <= batches[e[1]]})

TotalElements == PrevTotalElements(Len(batches))

\* tx.Transaction.BatchIndex of the data transport layer.
BatchOf(index) ==
    CHOOSE i \in 0..(Len(batches) - 1) :
        PrevTotalElements(i) <= index /\ index < PrevTotalElements(i + 1)

GetNextBatchIndex == After(headBatchIndex)

\* fetch: at the head of the loop over the batches; apply: at the head of the
\* loop over the transactions, verify: in verifyStateRoot.
Loop == [pc : {"idle", "fetch", "apply", "verify"}, batch : Nat, end : Nat, index : Nat]

Idle == [pc |-> "idle", batch |-> 0, end |-> 0, index |-> 0]

VerifierTypeOK ==
    /\ ServiceTypeOK
    /\ batches \in Seq(1..MaxElements)
    /\ published \in 0..TotalElements
    /\ headBatchIndex \in {Nil} \cup 0..(Len(batches) - 1)
    /\ loop \in Loop
    /\ verified \subseteq 0..(published - 1)

VerifierInit ==
    /\ ServiceInit
    /\ batches = InitialBatches
    /\ published = TotalElements
    /\ headBatchIndex = IF batches = <<>> THEN Nil ELSE Len(batches) - 1
    /\ loop = Idle
    /\ verified = 0..(published - 1)

-----------------------------------------------------------------------------
(* What the data transport layer reads from L1.                             *)

PostBatch(size) ==
    /\ TotalElements + size <= MaxElements
    /\ batches' = Append(batches, size)
    /\ UNCHANGED <<serviceVars, published, headBatchIndex, loop, verified>>

PublishRoot ==
    /\ published < TotalElements
    /\ published' = published + 1
    /\ UNCHANGED <<serviceVars, batches, headBatchIndex, loop, verified>>

-----------------------------------------------------------------------------

\* verify, syncBatchesToTip, syncToTip and sync.
SyncBatches ==
    /\ node = "up" /\ loop.pc = "idle"
    /\ GetNextBatchIndex < Len(batches)
    /\ loop' = [Idle EXCEPT !.pc = "fetch", !.batch = GetNextBatchIndex,
                            !.end = Len(batches) - 1]
    /\ UNCHANGED <<serviceVars, batches, published, headBatchIndex, verified>>

\* The transaction at index is next; past the last one the batch is synced.
Advance(index) ==
    IF index < PrevTotalElements(loop.batch + 1)
    THEN /\ loop' = [loop EXCEPT !.pc = "apply", !.index = index]
         /\ UNCHANGED headBatchIndex
    ELSE /\ headBatchIndex' = loop.batch
         /\ loop' = IF loop.batch < loop.end
                    THEN [loop EXCEPT !.pc = "fetch", !.batch = @ + 1]
                    ELSE Idle

\* GetTransactionBatch: the transactions below the next index are passed over.
FetchBatch ==
    LET first == PrevTotalElements(loop.batch)
    IN  /\ node = "up" /\ loop.pc = "fetch"
        /\ Advance(IF first < GetNextIndex THEN GetNextIndex ELSE first)
        /\ UNCHANGED <<serviceVars, batches, published, verified>>

\* applyBatchedTransaction and applyIndexedTransaction.  An index below the next
\* one is only compared with the block (applyHistoricalTransaction), one beyond
\* it is an error, which ends the loop.  A verifier has no use for the
\* queue index, so every transaction is one without.
ApplyBatchedTransaction ==
    /\ node = "up" /\ loop.pc = "apply" /\ call = NoCall
    /\ IF loop.index = GetNextIndex
       THEN /\ ApplyTransactionToTip(
                  [queueIndex |-> Nil, owner |-> loop.index \in OwnerElements], loop.index)
            /\ UNCHANGED loop
       ELSE /\ loop' = IF loop.index < GetNextIndex THEN [loop EXCEPT !.pc = "verify"]
                       ELSE Idle
            /\ UNCHANGED serviceVars
    /\ UNCHANGED <<batches, published, headBatchIndex, verified>>

ApplyReturns ==
    /\ loop.pc = "apply"
    /\ \E failed \in BOOLEAN :
          /\ Return(failed)
          /\ loop' = IF failed THEN Idle ELSE [loop EXCEPT !.pc = "verify"]
    /\ UNCHANGED <<headQueueIndex, enqueueIndexNil, batches, published, headBatchIndex,
                   verified>>

\* verifyStateRoot finds a root.  A mismatch is reported and ends the loop.
VerifyStateRoot ==
    /\ node = "up" /\ loop.pc = "verify" /\ loop.index < published
    /\ IF loop.index \in BadRoots
       THEN loop' = Idle /\ UNCHANGED <<headBatchIndex, verified>>
       ELSE verified' = verified \cup {loop.index} /\ Advance(loop.index + 1)
    /\ UNCHANGED <<serviceVars, batches, published>>

\* A request to the data transport layer fails, or verifyStateRoot finds no root
\* for ten hours.
RequestFails ==
    /\ node = "up" /\ loop.pc \in {"fetch", "verify"}
    /\ loop' = Idle
    /\ UNCHANGED <<serviceVars, batches, published, headBatchIndex, verified>>

-----------------------------------------------------------------------------

\* Mutant: the batch of the last index counts as synced.
RecoverBatchIndex_Same == IF headIndex = Nil THEN headBatchIndex ELSE BatchOf(headIndex)

\* initializeLatestL1, "Recover from accidentally skipped batches".
RecoverBatchIndex ==
    IF headIndex = Nil THEN headBatchIndex
    ELSE IF BatchOf(headIndex) > 0 THEN BatchOf(headIndex) - 1 ELSE 0

RestartVerifier ==
    /\ Restart
    /\ headBatchIndex' = RecoverBatchIndex
    /\ UNCHANGED <<batches, published, loop, verified>>

VerifierNext ==
    \/ \E size \in 1..MaxBatchSize : PostBatch(size)
    \/ PublishRoot
    \/ SyncBatches
    \/ FetchBatch
    \/ ApplyBatchedTransaction
    \/ ApplyReturns
    \/ VerifyStateRoot
    \/ RequestFails
    \/ Worker /\ UNCHANGED batchVars
    \/ Crash /\ loop' = Idle /\ UNCHANGED <<batches, published, headBatchIndex, verified>>
    \/ RestartVerifier

\* The loop polls for ever, a request for a batch that is made again and again
\* succeeds in the end, verifyStateRoot ends after ten hours at the latest, the
\* worker answers, and a node that is down is started again.  Nobody has to post
\* a batch or to publish a root.
VerifierFairness ==
    /\ WF_verifierVars(SyncBatches \/ ApplyBatchedTransaction \/ ApplyReturns)
    /\ SF_verifierVars(FetchBatch)
    /\ WF_verifierVars(VerifyStateRoot \/ RequestFails)
    /\ WF_verifierVars(Worker /\ UNCHANGED batchVars)
    /\ WF_verifierVars(RestartVerifier)

VerifierSpec == VerifierInit /\ [][VerifierNext]_verifierVars /\ VerifierFairness

-----------------------------------------------------------------------------

(* sync_service.go:390: "Recover from accidentally skipped batches if        *)
(* necessary".  The next batch begins at the next index or before it, so     *)
(* that the loop never meets an index beyond the one it looks for: failures  *)
(* of the worker and of the read of the oracle, crashes in the middle of a   *)
(* batch and the recovery at a restart included.                             *)
NoBatchSkipped ==
    node = "up" /\ loop.pc = "idle" /\ call = NoCall =>
        PrevTotalElements(GetNextBatchIndex) <= GetNextIndex

\* The index was taken back although the block is in the chain.
IndexIsBehind == node = "up" /\ call = NoCall /\ GetNextIndex < Len(blocks)

(* Every element of a batch gets into the verifier's chain, over failures of *)
(* the worker, crashes, and roots that are wrong or never come.  One thing   *)
(* stops it (sync_service.go:1624-1631): after a transaction of the owner    *)
(* the gas price oracle cannot be read, the index goes back by one, and the  *)
(* worker turns that index down from then on.                                *)
BatchIsApplied ==
    \A k \in 1..MaxElements : TotalElements >= k ~> Len(blocks) >= k \/ IndexIsBehind

(* actors-and-roles.md:45, of a verifier: "Read transactions from the CTC,   *)
(* process them, and verify the correctness of state roots in the SCC": the  *)
(* root of every element of a synced batch was found to be right.  The code  *)
(* does not do so: see README.                                               *)
SyncedIsVerified == 0..(PrevTotalElements(GetNextBatchIndex) - 1) \subseteq verified
=============================================================================
