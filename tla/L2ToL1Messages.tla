---------------------------- MODULE L2ToL1Messages ----------------------------
(***************************************************************************)
(* Messages from L2 to L1.  L2CrossDomainMessenger.sol records a message in *)
(* OVM_L2ToL1MessagePasser.sol; the proposer publishes the state roots of   *)
(* the L2 blocks to the state commitment chain; L1CrossDomainMessenger.sol  *)
(* calls the target of a message that a root outside of the fraud proof     *)
(* window proves.  A state root stands for what the message passer has      *)
(* recorded when its block ends.                                            *)
(*                                                                         *)
(* The proposer may publish roots that are wrong.  The fraud verifier       *)
(* deletes them before their window closes: this is what the protocol       *)
(* assumes of it, and VerifierIsTimely says.                                *)
(***************************************************************************)
EXTENDS Naturals, Sequences, FiniteSets

CONSTANTS
    Call,           \* sender, target and calldata of a message
    SystemCall,     \* the calls whose target is the CanonicalTransactionChain
    FaultyRoots,    \* the wrong roots the proposer may publish
    MaxBlocks,      \* bound on the L2 blocks
    MaxMessages,    \* bound on the messages
    MaxBlocked,     \* bound on the messages blocked at a time
    MaxLength, Zero, MaxBatchSize, Windows, MaxTime, CheckCTC

VARIABLES
    batches, fraudProofWindow, now,   \* of the state commitment chain
    blocks,       \* the L2 blocks: the records of the message passer after each
    nonce,        \* messageNonce of the L2 messenger
    sent,         \* the messages of the SentMessage events of the L2 messenger
    paused,       \* the L1 messenger is paused
    blocked,      \* blockedMessages of the L1 messenger
    successful,   \* successfulMessages of the L1 messenger
    relayed,      \* relayedMessages of the L1 messenger: the message and the block
    delivered     \* the messages whose target was called with success, in order

sccVars == <<batches, fraudProofWindow, now>>
l2Vars == <<blocks, nonce, sent>>
l1Vars == <<paused, blocked, successful, relayed, delivered>>
vars == <<sccVars, l2Vars, l1Vars>>

Messages == [call : Call, nonce : 0..(MaxMessages - 1)]

\* A record of the message passer: the hash covers the account that called it.
Record == [fromMessenger : BOOLEAN, message : Messages]

SCC == INSTANCE StateCommitmentChain WITH
    Root <- SUBSET Record, MaxElements <- MaxBlocks, ctcTotal <- Len(blocks)

ASSUME L2ToL1Assumption ==
    /\ {MaxBlocks, MaxMessages, MaxBlocked} \subseteq Nat
    /\ {MaxLength, MaxBatchSize, MaxTime} \subseteq Nat \ {0}
    /\ Windows \subseteq Nat /\ CheckCTC \in BOOLEAN
    /\ FaultyRoots \subseteq SUBSET Record
    /\ Zero \notin SCC!HeaderHash

\* The variables of the state commitment chain have SCC!TypeOK, which is proved.
TypeOK ==
    /\ blocks \in Seq(SUBSET Record)
    /\ nonce \in 0..MaxMessages /\ sent \in Seq(Messages)
    /\ paused \in BOOLEAN
    /\ blocked \subseteq Messages /\ successful \subseteq Messages
    /\ relayed \subseteq Messages \X Nat
    /\ delivered \in Seq(Messages)

Init ==
    /\ blocks = <<>> /\ nonce = 0 /\ sent = <<>>
    /\ SCC!Init
    /\ paused = FALSE /\ blocked = {}
    /\ successful = {} /\ relayed = {} /\ delivered = <<>>

-----------------------------------------------------------------------------
(* L2: every transaction is a block of its own.                             *)

Recorded == IF blocks = <<>> THEN {} ELSE blocks[Len(blocks)]

\* passMessageToL1 of the message passer, which any account may call.
PassMessage(fromMessenger, m) ==
    /\ Len(blocks) < MaxBlocks
    /\ blocks' = Append(blocks, Recorded \cup {[fromMessenger |-> fromMessenger, message |-> m]})

\* sendMessage of the L2 messenger, by a whitelisted sender.
SendMessage(call) ==
    LET m == [call |-> call, nonce |-> nonce]
    IN  /\ nonce < MaxMessages
        /\ PassMessage(TRUE, m)
        /\ sent' = Append(sent, m)
        /\ nonce' = nonce + 1
        /\ UNCHANGED <<sccVars, l1Vars>>

\* Some other L2 account records a message.
PassOther(m) ==
    /\ PassMessage(FALSE, m)
    /\ UNCHANGED <<nonce, sent, sccVars, l1Vars>>

-----------------------------------------------------------------------------
(* The state commitment chain.                                              *)

\* The root a batch has for an element is the root of its block.
RightRoot(e, root) == e < Len(blocks) /\ root = blocks[e + 1]

RightBatch(h) ==
    \A k \in 1..h.batchSize : RightRoot(h.prevTotalElements + k - 1, h.batchRoot[k])

\* A batch whose window has closed is right: the verifier was in time.
VerifierIsTimely ==
    \A i \in SCC!Live(batches) : SCC!Final(i) => RightBatch(SCC!Hash(i))

\* The proposer publishes the next n roots, one of which may be wrong.  While
\* the window is 0 there is no time to delete a wrong one.
Propose(n) ==
    LET total == SCC!getTotalElements
    IN  /\ total + n <= Len(blocks)
        /\ UNCHANGED <<l2Vars, l1Vars>>
        /\ \E batch \in {SubSeq(blocks, total + 1, total + n)}
                        \cup {[SubSeq(blocks, total + 1, total + n) EXCEPT ![k] = r] :
                                  k \in 1..n, r \in FaultyRoots} :
              SCC!AppendStateBatch(batch, total)
        /\ VerifierIsTimely'

\* The verifier deletes a batch; it may be mistaken.
Delete(h) ==
    /\ UNCHANGED <<l2Vars, l1Vars>>
    /\ SCC!DeleteStateBatch(h)

\* Time passes, and METIS_MANAGER changes the window, only as far as the
\* verifier has looked at the batches.
Tick ==
    /\ UNCHANGED <<l2Vars, l1Vars>>
    /\ SCC!Tick
    /\ VerifierIsTimely'

SetFraudProofWindow(window) ==
    /\ UNCHANGED <<l2Vars, l1Vars>>
    /\ SCC!SetFraudProofWindow(window)
    /\ VerifierIsTimely'

-----------------------------------------------------------------------------
(* The L1 messenger.                                                        *)

\* _verifyStorageProof: the root has the record that the L2 messenger made.
VerifyStorageProof(m, root) == [fromMessenger |-> TRUE, message |-> m] \in root

\* Mutant: takes a root inside its fraud proof window.
VerifyXDomainMessage_NoWindow(m, h, k) ==
    /\ k \in 1..h.hash.batchSize
    /\ SCC!verifyStateCommitment(h.hash.batchRoot[k], h, k)
    /\ VerifyStorageProof(m, h.hash.batchRoot[k])

\* _verifyXDomainMessageByChainId, for the root at position k of a batch.
VerifyXDomainMessage(m, h, k) ==
    /\ ~SCC!insideFraudProofWindow(h.hash)
    /\ k \in 1..h.hash.batchSize
    /\ SCC!verifyStateCommitment(h.hash.batchRoot[k], h, k)
    /\ VerifyStorageProof(m, h.hash.batchRoot[k])

\* relayMessageViaChainId, where ok is whether the target's call succeeds.
RelayMessage(m, h, k, ok) ==
    /\ ~paused
    /\ VerifyXDomainMessage(m, h, k)
    /\ m \notin successful
    /\ m \notin blocked
    /\ m.call \notin SystemCall
    /\ successful' = IF ok THEN successful \cup {m} ELSE successful
    /\ delivered' = IF ok THEN Append(delivered, m) ELSE delivered
    /\ relayed' = relayed \cup {<<m, now>>}
    /\ UNCHANGED <<paused, blocked, sccVars, l2Vars>>

\* pause and unpause, by the owner.
SetPaused(p) ==
    /\ paused' = p
    /\ UNCHANGED <<blocked, successful, relayed, delivered, sccVars, l2Vars>>

\* blockMessage and allowMessage, by the owner.
SetBlocked(m, b) ==
    /\ b => Cardinality(blocked) < MaxBlocked
    /\ blocked' = IF b THEN blocked \cup {m} ELSE blocked \ {m}
    /\ UNCHANGED <<paused, successful, relayed, delivered, sccVars, l2Vars>>

Next ==
    \/ \E call \in Call : SendMessage(call)
    \/ \E m \in Messages : PassOther(m)
    \/ \E n \in 1..MaxBatchSize : Propose(n)
    \/ \E h \in SCC!Headers : Delete(h)
    \/ Tick
    \/ \E window \in Windows : SetFraudProofWindow(window)
    \/ \E m \in Messages, h \in SCC!Headers, k \in 1..MaxBatchSize, ok \in BOOLEAN :
          RelayMessage(m, h, k, ok)
    \/ \E p \in BOOLEAN : SetPaused(p)
    \/ \E m \in Messages, b \in BOOLEAN : SetBlocked(m, b)

Spec == Init /\ [][Next]_vars

-----------------------------------------------------------------------------

(* A message that was sent can be proven as soon as the batch of a block     *)
(* after it is final, and from then on, until the window is raised: the      *)
(* records of the message passer only grow, and a header for the element     *)
(* stays acceptable whatever was deleted and published since.                *)
FinalMessageIsProvable ==
    \A e \in 0..(Len(blocks) - 1), m \in {sent[i] : i \in DOMAIN sent} :
        /\ VerifyStorageProof(m, blocks[e + 1])
        /\ \E i \in SCC!Live(batches) : SCC!Final(i) /\ e < SCC!EndOf(i)
        => \E h \in SCC!Headers, k \in 1..MaxBatchSize : VerifyXDomainMessage(m, h, k)

Channel == INSTANCE MessageChannel

(* The target of a message is called with success at most once, and only for *)
(* a message the L2 messenger sent, although the proposer publishes wrong    *)
(* roots, the hashes of deleted batches stay in the container, and the       *)
(* message passer records what any account asks it to.                       *)
ImplementsMessageChannel == Channel!Spec
=============================================================================
