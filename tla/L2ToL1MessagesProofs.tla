------------------------- MODULE L2ToL1MessagesProofs -------------------------
(***************************************************************************)
(* Withdrawals, for every set of messages and roots, every bound and every  *)
(* set of windows: what is proved of the state commitment chain carries     *)
(* over to the system that publishes the roots of L2 blocks, and with it    *)
(* the promise of the L1 messenger.                                         *)
(***************************************************************************)
EXTENDS L2ToL1Messages, SequenceTheorems, TLAPS

\* The results about the state commitment chain, for this instance of it.
P == INSTANCE StateCommitmentChainProofs WITH
    Root <- SUBSET Record, MaxElements <- MaxBlocks, ctcTotal <- Len(blocks)

(* What the messenger and the message passer know: only a message that was   *)
(* sent is recorded for the messenger, a message sent has a nonce below the  *)
(* next, and the messages marked successful are the ones delivered.          *)
Records ==
    /\ Len(blocks) <= MaxBlocks
    /\ \A i \in DOMAIN blocks, m \in Messages :
          VerifyStorageProof(m, blocks[i]) => m \in Channel!Elements(sent)
    /\ \A m \in Channel!Elements(sent) : m.nonce < nonce
    /\ successful = Channel!Elements(delivered)

(* The inductive invariant.                                                  *)
IInv == TypeOK /\ Records /\ VerifierIsTimely /\ P!IInv

-----------------------------------------------------------------------------
(* The state commitment chain.                                              *)

(* The assumptions of StateCommitmentChain hold of the instance.             *)
LEMMA ChainAssumptions ==
    /\ MaxLength \in Nat \ {0}
    /\ /\ MaxBatchSize \in Nat \ {0}
       /\ Windows \subseteq Nat
       /\ MaxTime \in Nat \ {0}
       /\ MaxBlocks \in Nat
       /\ CheckCTC \in BOOLEAN
    /\ Zero \notin P!HeaderHash
<1>1. SCC!HeaderHash = P!HeaderHash
  BY DEF SCC!HeaderHash, P!HeaderHash, SCC!Batch, P!Batch
<1> QED  BY <1>1, L2ToL1Assumption

(* The two instances of the chain are one.                                   *)
LEMMA SameChain ==
    /\ SCC!Init <=> P!Init
    /\ SCC!Headers = P!Headers /\ SCC!Slots = P!Slots /\ SCC!Indices = P!Indices
    /\ \A i : SCC!Narrow(i) = P!Narrow(i)
    /\ SCC!getTotalElements = P!getTotalElements
    /\ \A b : SCC!Live(b) = P!Live(b)
    /\ \A i : SCC!Hash(i) = P!Hash(i) /\ SCC!EndOf(i) = P!EndOf(i)
    /\ \A i : SCC!Final(i) <=> P!Final(i)
<1>1. SCC!Slots = P!Slots  BY DEF SCC!Slots, P!Slots
<1>2. SCC!Init <=> P!Init
  BY <1>1 DEF SCC!Init, P!Init, SCC!EmptyBuffer, P!EmptyBuffer
<1>3. SCC!Headers = P!Headers /\ SCC!Indices = P!Indices
  <2>1. SCC!Indices = P!Indices  BY DEF SCC!Indices, P!Indices
  <2> QED  BY <2>1, <1>1 DEF SCC!Headers, P!Headers
<1>4. SCC!getTotalElements = P!getTotalElements
  BY DEF SCC!getTotalElements, P!getTotalElements
<1>5. \A b : SCC!Live(b) = P!Live(b)  BY <1>1 DEF SCC!Live, P!Live
<1>6. \A i : SCC!Hash(i) = P!Hash(i) /\ SCC!EndOf(i) = P!EndOf(i)
  BY DEF SCC!Hash, P!Hash, SCC!EndOf, P!EndOf
<1>7. \A i : SCC!Final(i) <=> P!Final(i)
  BY <1>6 DEF SCC!Final, P!Final, SCC!insideFraudProofWindow, P!insideFraudProofWindow
<1>8. \A i : SCC!Narrow(i) = P!Narrow(i)  BY DEF SCC!Narrow, P!Narrow
<1> QED  BY <1>1, <1>2, <1>3, <1>4, <1>5, <1>6, <1>7, <1>8, SMTT(30)

(* The two instances of the state commitment chain append alike.             *)
LEMMA SameAppend ==
    ASSUME NEW batch, NEW start
    PROVE  SCC!AppendStateBatch(batch, start) <=> P!AppendStateBatch(batch, start)
BY SameChain DEF SCC!AppendStateBatch, P!AppendStateBatch, SCC!AppendBatch, P!AppendBatch,
   SCC!CanPush, P!CanPush, SCC!push, P!push

(* The two instances of the state commitment chain delete alike.             *)
LEMMA SameDelete ==
    ASSUME NEW h
    PROVE  SCC!DeleteStateBatch(h) <=> P!DeleteStateBatch(h)
BY SameChain DEF SCC!DeleteStateBatch, P!DeleteStateBatch, SCC!DeleteBatch, P!DeleteBatch,
   SCC!IsValidBatchHeader, P!IsValidBatchHeader, SCC!CanGet, P!CanGet, SCC!get, P!get,
   SCC!CanDelete, P!CanDelete, SCC!Narrow, P!Narrow,
   SCC!insideFraudProofWindow, P!insideFraudProofWindow,
   SCC!deleteElementsAfterInclusive, P!deleteElementsAfterInclusive

\* The batches of n roots that the proposer may make.
Proposals(total, n) ==
    {SubSeq(blocks, total + 1, total + n)}
    \cup {[SubSeq(blocks, total + 1, total + n) EXCEPT ![k] = r] : k \in 1..n, r \in FaultyRoots}

(* The batch of n roots that the proposer makes is a batch.                  *)
LEMMA ProposedBatch ==
    ASSUME TypeOK, NEW n \in 1..MaxBatchSize, NEW total \in Nat, total + n <= Len(blocks),
           NEW batch \in Proposals(total, n)
    PROVE  batch \in P!Batch
<1> DEFINE s == SubSeq(blocks, total + 1, total + n)
<1>1. n \in Nat /\ Len(blocks) \in Nat /\ blocks \in Seq(SUBSET Record)
  BY L2ToL1Assumption DEF TypeOK
<1>2. s \in [1..n -> SUBSET Record]
  <2>1. \A i \in (total + 1)..(total + n) : blocks[i] \in SUBSET Record  BY <1>1
  <2>2. s \in Seq(SUBSET Record)  BY <1>1, <2>1, SubSeqProperties
  <2>3. Len(s) = n  BY <1>1, SubSeqProperties
  <2> HIDE DEF s
  <2> QED  BY <2>2, <2>3
<1> HIDE DEF s
<1>3. batch \in [1..n -> SUBSET Record]
  <2>1. CASE batch = s  BY <1>2, <2>1
  <2>2. ASSUME NEW k \in 1..n, NEW r \in FaultyRoots, batch = [s EXCEPT ![k] = r]
        PROVE  batch \in [1..n -> SUBSET Record]
    <3>1. r \in SUBSET Record  BY L2ToL1Assumption
    <3> QED  BY <1>2, <2>2, <3>1
  <2> QED  BY <2>1, <2>2 DEF Proposals, s
<1> QED  BY <1>3 DEF P!Batch

(* Every step of the system is one of the state commitment chain, which      *)
(* takes the L2 blocks for the elements of the transaction chain, or leaves  *)
(* the chain alone.                                                          *)
LEMMA ChainStep ==
    ASSUME TypeOK, Records, P!TypeOK, [Next]_vars
    PROVE  [P!Next]_(P!vars)
<1>0. Len(blocks) \in Nat /\ MaxBatchSize \in Nat /\ 1 \in 1..MaxBatchSize
  BY L2ToL1Assumption DEF TypeOK
<1>1. ASSUME NEW r, Len(blocks) < MaxBlocks, blocks' = Append(blocks, r), UNCHANGED sccVars
      PROVE  P!Next
  <2>1. Len(blocks') = Len(blocks) + 1  BY <1>1 DEF TypeOK
  <2>2. P!CTCAppend(1)  BY <1>0, <1>1, <2>1, L2ToL1Assumption, SMTT(30) DEF P!CTCAppend, sccVars
  <2> QED  BY <1>0, <2>2 DEF P!Next
<1>2. ASSUME NEW call \in Call, SendMessage(call) PROVE P!Next
  BY <1>1, <1>2, Zenon DEF SendMessage, PassMessage
<1>3. ASSUME NEW m \in Messages, PassOther(m) PROVE P!Next
  BY <1>1, <1>3 DEF PassOther, PassMessage
<1>4. ASSUME NEW n \in 1..MaxBatchSize, Propose(n) PROVE P!Next
  <2> DEFINE total == SCC!getTotalElements
  <2>1. total \in Nat
    BY SameChain DEF P!TypeOK, P!getTotalElements, P!Buffer, P!ExtraData
  <2>2. total + n <= Len(blocks) /\ total \in 0..MaxBlocks
    BY <1>0, <1>4, <2>1, L2ToL1Assumption, SMTT(30) DEF Propose, Records
  <2>3. PICK batch \in Proposals(total, n) : SCC!AppendStateBatch(batch, total)
    BY <1>4 DEF Propose, Proposals
  <2> HIDE DEF total
  <2>4. batch \in P!Batch  BY <2>1, <2>2, ProposedBatch
  <2> QED  BY <2>2, <2>3, <2>4, SameAppend, SMTT(30) DEF P!Next
<1>5. ASSUME NEW h \in SCC!Headers, Delete(h) PROVE P!Next
  BY <1>5, SameChain, SameDelete DEF Delete, P!Next
<1>6. CASE Tick
  BY <1>6 DEF Tick, SCC!Tick, P!Tick, P!Next
<1>7. ASSUME NEW window \in Windows, SetFraudProofWindow(window) PROVE P!Next
  BY <1>7 DEF SetFraudProofWindow, SCC!SetFraudProofWindow, P!SetFraudProofWindow, P!Next
<1>8. ASSUME UNCHANGED <<sccVars, l2Vars>> PROVE UNCHANGED P!vars
  BY <1>8 DEF sccVars, l2Vars, P!vars
<1>9. ASSUME NEW m \in Messages, NEW h \in SCC!Headers, NEW k \in 1..MaxBatchSize,
             NEW ok \in BOOLEAN, RelayMessage(m, h, k, ok)
      PROVE  UNCHANGED P!vars
  BY <1>8, <1>9 DEF RelayMessage
<1>10. ASSUME NEW p \in BOOLEAN, SetPaused(p) PROVE UNCHANGED P!vars
  BY <1>8, <1>10 DEF SetPaused
<1>11. ASSUME NEW m \in Messages, NEW b \in BOOLEAN, SetBlocked(m, b) PROVE UNCHANGED P!vars
  BY <1>8, <1>11 DEF SetBlocked
<1>12. CASE UNCHANGED vars  BY <1>8, <1>12 DEF vars
<1> QED
  BY <1>2, <1>3, <1>4, <1>5, <1>6, <1>7, <1>9, <1>10, <1>11, <1>12, SMTT(20) DEF Next

-----------------------------------------------------------------------------
(* The induction.                                                           *)

(* Append adds one element.                                                  *)
LEMMA ElementsAppend ==
    ASSUME NEW s \in Seq(Messages), NEW m
    PROVE  Channel!Elements(Append(s, m)) = Channel!Elements(s) \cup {m}
<1>1. DOMAIN Append(s, m) = 1..Len(s) + 1 /\ DOMAIN s = 1..Len(s) /\ Len(s) \in Nat  OBVIOUS
<1>2. \A i \in 1..Len(s) + 1 : Append(s, m)[i] = IF i = Len(s) + 1 THEN m ELSE s[i]  OBVIOUS
<1> QED  BY <1>1, <1>2 DEF Channel!Elements

(* What an appended block holds: what the last one did and the new record.   *)
LEMMA NewBlock ==
    ASSUME TypeOK, Records, NEW from \in BOOLEAN, NEW m \in Messages, PassMessage(from, m)
    PROVE  /\ blocks' \in Seq(SUBSET Record) /\ Len(blocks') <= MaxBlocks
           /\ Len(blocks') = Len(blocks) + 1
           /\ \A i \in 1..Len(blocks) : blocks'[i] = blocks[i]
           /\ \A i \in DOMAIN blocks', w \in Messages : VerifyStorageProof(w, blocks'[i]) =>
                 w \in Channel!Elements(sent) \/ (from = TRUE /\ w = m)
<1> DEFINE r == [fromMessenger |-> from, message |-> m]
<1>1. blocks \in Seq(SUBSET Record) /\ Len(blocks) \in Nat /\ DOMAIN blocks = 1..Len(blocks)
  BY DEF TypeOK
<1>2. r \in Record  BY DEF Record
<1>3. Recorded \in SUBSET Record
  <2>1. CASE blocks = <<>>  BY <2>1 DEF Recorded
  <2>2. CASE blocks # <<>>
    <3>1. Len(blocks) \in 1..Len(blocks)  BY <1>1, <2>2
    <3> QED  BY <1>1, <2>2, <3>1 DEF Recorded
  <2> QED  BY <2>1, <2>2
<1> DEFINE b == Recorded \cup {r}
<1>4. blocks' = Append(blocks, b) /\ Len(blocks) < MaxBlocks /\ b \in SUBSET Record
  BY <1>2, <1>3 DEF PassMessage
<1>5. \A w \in Messages : VerifyStorageProof(w, b) =>
                 w \in Channel!Elements(sent) \/ (from = TRUE /\ w = m)
  <2> SUFFICES ASSUME NEW w \in Messages, [fromMessenger |-> TRUE, message |-> w] \in b
               PROVE  w \in Channel!Elements(sent) \/ (from = TRUE /\ w = m)
      BY Zenon DEF VerifyStorageProof
  <2>1. CASE [fromMessenger |-> TRUE, message |-> w] = r  BY <2>1
  <2>2. CASE [fromMessenger |-> TRUE, message |-> w] \in Recorded
    <3>1. blocks # <<>> /\ Recorded = blocks[Len(blocks)]  BY <2>2 DEF Recorded
    <3>2. Len(blocks) \in DOMAIN blocks  BY <1>1, <3>1
    <3> QED  BY <2>2, <3>1, <3>2 DEF Records, VerifyStorageProof
  <2> QED  BY <2>1, <2>2, Zenon
<1> HIDE DEF b
<1>6. /\ blocks' \in Seq(SUBSET Record) /\ Len(blocks') = Len(blocks) + 1
      /\ DOMAIN blocks' = 1..Len(blocks) + 1
      /\ \A i \in 1..Len(blocks) : blocks'[i] = blocks[i]
      /\ blocks'[Len(blocks) + 1] = b
  BY <1>1, <1>4
<1>7. Len(blocks') <= MaxBlocks  BY <1>1, <1>4, <1>6, L2ToL1Assumption, SMTT(30)
<1>8. ASSUME NEW i \in DOMAIN blocks', NEW w \in Messages, VerifyStorageProof(w, blocks'[i])
      PROVE  w \in Channel!Elements(sent) \/ (from = TRUE /\ w = m)
  <2>1. CASE i = Len(blocks) + 1  BY <1>5, <1>6, <1>8, <2>1, SMTT(30)
  <2>2. CASE i # Len(blocks) + 1
    <3>1. i \in DOMAIN blocks /\ blocks'[i] = blocks[i]  BY <1>1, <1>6, <2>2, SMTT(30)
    <3> QED  BY <1>8, <3>1 DEF Records
  <2> QED  BY <2>1, <2>2, Zenon
<1> QED  BY <1>6, <1>7, <1>8, Zenon

(* Every step keeps the types, and the records of L2 those of sent messages. *)
LEMMA RecordsStep ==
    ASSUME IInv, [Next]_vars
    PROVE  TypeOK' /\ Records'
<1> USE DEF IInv
<1>0. /\ sent \in Seq(Messages) /\ delivered \in Seq(Messages) /\ nonce \in 0..MaxMessages
      /\ MaxMessages \in Nat
  BY L2ToL1Assumption DEF TypeOK
<1>1. ASSUME NEW call \in Call, SendMessage(call) PROVE TypeOK' /\ Records'
  <2> DEFINE m == [call |-> call, nonce |-> nonce]
  <2>1. nonce < MaxMessages /\ PassMessage(TRUE, m) /\ sent' = Append(sent, m) /\ nonce' = nonce + 1
        /\ UNCHANGED <<sccVars, l1Vars>>
    BY <1>1, Zenon DEF SendMessage
  <2>2. m \in Messages /\ m.nonce = nonce  BY <1>0, <2>1 DEF Messages
  <2> HIDE DEF m
  <2>3. Channel!Elements(sent') = Channel!Elements(sent) \cup {m} /\ sent' \in Seq(Messages)
    BY <1>0, <2>1, <2>2, ElementsAppend, SMTT(30)
  <2>4. /\ blocks' \in Seq(SUBSET Record) /\ Len(blocks') <= MaxBlocks
        /\ \A i \in DOMAIN blocks', w \in Messages : VerifyStorageProof(w, blocks'[i]) =>
              w \in Channel!Elements(sent')
    BY <2>1, <2>2, <2>3, NewBlock, Zenon
  <2>5. TypeOK'  BY <1>0, <2>1, <2>3, <2>4, SMTT(30) DEF TypeOK, l1Vars
  <2>6. \A w \in Channel!Elements(sent') : w.nonce < nonce'
    <3>0. \A w \in Channel!Elements(sent) : w \in Messages  BY <1>0 DEF Channel!Elements
    <3>1. \A w \in Channel!Elements(sent) : w.nonce < nonce /\ w.nonce \in Nat
      BY <1>0, <3>0 DEF Records, Messages
    <3> QED  BY <1>0, <2>1, <2>2, <2>3, <3>1, SMTT(30)
  <2>7. successful' = Channel!Elements(delivered')
    BY <2>1 DEF l1Vars, Records, Channel!Elements
  <2> QED  BY <2>4, <2>5, <2>6, <2>7, SMTT(30) DEF Records, VerifyStorageProof
<1>2. ASSUME NEW m \in Messages, PassOther(m) PROVE TypeOK' /\ Records'
  <2>1. PassMessage(FALSE, m) /\ UNCHANGED <<nonce, sent, sccVars, l1Vars>>
    BY <1>2, Zenon DEF PassOther
  <2>2. /\ blocks' \in Seq(SUBSET Record) /\ Len(blocks') <= MaxBlocks
        /\ \A i \in DOMAIN blocks', w \in Messages : VerifyStorageProof(w, blocks'[i]) =>
              w \in Channel!Elements(sent)
    BY <2>1, NewBlock, Zenon
  <2>3. TypeOK'  BY <2>1, <2>2 DEF TypeOK, l1Vars
  <2> QED  BY <2>1, <2>2, <2>3 DEF Records, l1Vars, VerifyStorageProof, Channel!Elements
<1>3. ASSUME UNCHANGED <<l2Vars, l1Vars>> PROVE TypeOK' /\ Records'
  BY <1>3 DEF l2Vars, l1Vars, TypeOK, Records, VerifyStorageProof, Channel!Elements
<1>4. ASSUME NEW m \in Messages, NEW h \in SCC!Headers, NEW k \in 1..MaxBatchSize,
             NEW ok \in BOOLEAN, RelayMessage(m, h, k, ok)
      PROVE  TypeOK' /\ Records'
  <2>1. /\ successful' = IF ok THEN successful \cup {m} ELSE successful
        /\ delivered' = IF ok THEN Append(delivered, m) ELSE delivered
        /\ relayed' = relayed \cup {<<m, now>>}
        /\ UNCHANGED <<paused, blocked, sccVars, l2Vars>>
    BY <1>4 DEF RelayMessage
  <2>2. now \in Nat  BY DEF P!IInv, P!TypeOK
  <2>3. Channel!Elements(Append(delivered, m)) = Channel!Elements(delivered) \cup {m}
    BY <1>0, ElementsAppend
  <2>4. delivered' \in Seq(Messages) /\ successful' = Channel!Elements(delivered')
    <3>1. successful = Channel!Elements(delivered)  BY DEF Records
    <3>2. CASE ok
      <4>1. delivered' = Append(delivered, m) /\ successful' = successful \cup {m}
        BY <2>1, <3>2
      <4> QED  BY <1>0, <2>3, <3>1, <4>1, SMTT(30)
    <3>3. CASE ~ok
      <4>1. delivered' = delivered /\ successful' = successful  BY <2>1, <3>3
      <4> QED  BY <1>0, <3>1, <4>1, SMTT(30)
    <3> QED  BY <3>2, <3>3
  <2>5. TypeOK'  BY <2>1, <2>2, <2>4, SMTT(30) DEF TypeOK, l2Vars
  <2> QED  BY <2>1, <2>4, <2>5, SMTT(30) DEF Records, l2Vars, VerifyStorageProof, Channel!Elements
<1>5. ASSUME NEW p \in BOOLEAN, SetPaused(p) PROVE TypeOK' /\ Records'
  BY <1>5 DEF SetPaused, l2Vars, TypeOK, Records, VerifyStorageProof, Channel!Elements
<1>6. ASSUME NEW m \in Messages, NEW b \in BOOLEAN, SetBlocked(m, b) PROVE TypeOK' /\ Records'
  BY <1>6 DEF SetBlocked, l2Vars, TypeOK, Records, VerifyStorageProof, Channel!Elements
<1> QED
  BY <1>1, <1>2, <1>3, <1>4, <1>5, <1>6, SMTT(30)
  DEF Next, Propose, Delete, Tick, SetFraudProofWindow, vars

(* A right batch stays right while blocks are only appended.                 *)
LEMMA RightStays ==
    ASSUME NEW h \in P!HeaderHash, RightBatch(h), Len(blocks) \in Nat, Len(blocks') \in Nat,
           Len(blocks) <= Len(blocks'), \A i \in 1..Len(blocks) : blocks'[i] = blocks[i]
    PROVE  RightBatch(h)'
<1> SUFFICES ASSUME NEW k \in 1..h.batchSize
             PROVE  RightRoot(h.prevTotalElements + k - 1, h.batchRoot[k])'
    BY DEF RightBatch
<1>1. PICK e : e = h.prevTotalElements + k - 1  OBVIOUS
<1>2. e \in Nat  BY <1>1 DEF P!HeaderHash
<1>3. e < Len(blocks) /\ h.batchRoot[k] = blocks[e + 1]
  BY <1>1 DEF RightBatch, RightRoot
<1>4. e < Len(blocks') /\ blocks'[e + 1] = blocks[e + 1]  BY <1>2, <1>3, SMTT(30)
<1> QED  BY <1>1, <1>3, <1>4, SMTT(30) DEF RightRoot

(* The batches that are final are right, after every step: the steps that    *)
(* can make one final wait for the verifier.                                 *)
LEMMA TimelyStep ==
    ASSUME IInv, [Next]_vars
    PROVE  VerifierIsTimely'
<1> USE DEF IInv
<1>0. Len(blocks) \in Nat  BY DEF TypeOK
<1>1. ASSUME NEW from \in BOOLEAN, NEW m \in Messages, PassMessage(from, m), UNCHANGED sccVars
      PROVE  VerifierIsTimely'
  <2> SUFFICES ASSUME NEW i \in SCC!Live(batches)', SCC!Final(i)'
               PROVE  RightBatch(SCC!Hash(i))'
      BY DEF VerifierIsTimely
  <2>1. i \in SCC!Live(batches) /\ SCC!Final(i) /\ SCC!Hash(i)' = SCC!Hash(i)
    BY <1>1 DEF sccVars, SCC!Live, SCC!Slots, SCC!Final, SCC!Hash, SCC!insideFraudProofWindow
  <2>2. PICK h : h = SCC!Hash(i)  OBVIOUS
  <2>3. h \in P!HeaderHash  BY <2>1, <2>2, SameChain, SMTT(30) DEF P!IInv, P!BatchesOrdered
  <2>4. RightBatch(h)  BY <2>1, <2>2 DEF VerifierIsTimely
  <2>5. /\ Len(blocks') = Len(blocks) + 1
        /\ \A j \in 1..Len(blocks) : blocks'[j] = blocks[j]
    BY <1>1, NewBlock, Zenon
  <2>6. RightBatch(h)'  BY <1>0, <2>3, <2>4, <2>5, RightStays, SMTT(30)
  <2> QED  BY <2>1, <2>2, <2>6, SMTT(30)
<1>2. ASSUME NEW call \in Call, SendMessage(call) PROVE VerifierIsTimely'
  <2> DEFINE m == [call |-> call, nonce |-> nonce]
  <2>1. m \in Messages  BY <1>2, L2ToL1Assumption DEF SendMessage, TypeOK, Messages
  <2> QED  BY <1>1, <1>2, <2>1, Zenon DEF SendMessage
<1>3. ASSUME NEW m \in Messages, PassOther(m) PROVE VerifierIsTimely'
  BY <1>1, <1>3, Zenon DEF PassOther
<1>4. ASSUME NEW h \in SCC!Headers, Delete(h) PROVE VerifierIsTimely'
  <2>1. P!DeleteStateBatch(h) /\ h \in P!Headers /\ UNCHANGED l2Vars
    BY <1>4, SameChain, SameDelete, SMTT(30) DEF Delete
  <2>2. P!Live(batches)' \subseteq P!Live(batches) /\ batches'.buf = batches.buf
    BY <2>1, ChainAssumptions, P!DeleteIInv
  <2>3. UNCHANGED <<fraudProofWindow, now>>  BY <2>1 DEF P!DeleteStateBatch
  <2>4. SCC!Live(batches)' \subseteq SCC!Live(batches)
    BY <2>2 DEF SCC!Live, P!Live, SCC!Slots, P!Slots
  <2>5. ASSUME NEW i \in SCC!Live(batches)', SCC!Final(i)'  PROVE RightBatch(SCC!Hash(i))'
    <3>1. i \in SCC!Live(batches) /\ SCC!Final(i)
      BY <2>2, <2>3, <2>4, <2>5, SMTT(20) DEF SCC!Final, SCC!Hash, SCC!insideFraudProofWindow
    <3> QED
      BY <2>1, <2>2, <3>1, SMTT(30) DEF VerifierIsTimely, RightBatch, RightRoot, SCC!Hash, l2Vars
  <2> QED  BY <2>5 DEF VerifierIsTimely
<1>5. ASSUME UNCHANGED <<sccVars, l2Vars>> PROVE VerifierIsTimely'
  BY <1>5 DEF sccVars, l2Vars, VerifierIsTimely, RightBatch, RightRoot, SCC!Live, SCC!Slots,
              SCC!Final, SCC!Hash, SCC!insideFraudProofWindow
<1> QED
  BY <1>2, <1>3, <1>4, <1>5, SMTT(30)
  DEF Next, Propose, Tick, SetFraudProofWindow, RelayMessage, SetPaused, SetBlocked, vars

(* The invariant holds of a chain without blocks.                            *)
LEMMA InitIInv == Init => IInv
<1> SUFFICES ASSUME Init PROVE IInv  OBVIOUS
<1>1. P!IInv  BY SameChain, ChainAssumptions, P!InitIInv, SMTT(30) DEF Init
<1>2. TypeOK
  <2>1. nonce \in 0..MaxMessages  BY L2ToL1Assumption DEF Init
  <2>2. blocks \in Seq(SUBSET Record) /\ sent \in Seq(Messages) /\ delivered \in Seq(Messages)
    BY DEF Init
  <2>3. blocked \subseteq Messages /\ successful \subseteq Messages
    BY DEF Init
  <2>4. relayed \subseteq Messages \X Nat /\ paused \in BOOLEAN
    BY Zenon DEF Init
  <2> QED  BY <2>1, <2>2, <2>3, <2>4, SMTT(30) DEF TypeOK
<1>3. Records  BY L2ToL1Assumption DEF Init, Records, Channel!Elements
<1>4. VerifierIsTimely
  BY ChainAssumptions DEF Init, VerifierIsTimely, SCC!Init, SCC!Live, SCC!EmptyBuffer, SCC!Slots
<1> QED  BY <1>1, <1>2, <1>3, <1>4, SMTT(30) DEF IInv

(* Every step keeps the invariant.                                           *)
LEMMA NextIInv == IInv /\ [Next]_vars => IInv'
<1> SUFFICES ASSUME IInv, [Next]_vars PROVE IInv'  OBVIOUS
<1>1. [P!Next]_(P!vars)  BY ChainStep DEF IInv, P!IInv
<1>2. P!IInv'  BY <1>1, ChainAssumptions, P!NextIInv DEF IInv
<1> QED  BY <1>2, RecordsStep, TimelyStep, SMTT(30) DEF IInv

-----------------------------------------------------------------------------

(* The state commitment chain inside the system behaves as it does alone,   *)
(* with the L2 blocks for the elements of the transaction chain: so what is *)
(* proved of it, that a final batch stays and that an element has one root, *)
(* holds for withdrawals.                                                   *)
THEOREM ChainRefinement == Spec => SCC!Spec
<1>1. Init => SCC!Init  BY DEF Init
<1>2. ASSUME IInv, [Next]_vars PROVE [SCC!Next]_(SCC!vars)
  <2>1. [P!Next]_(P!vars)  BY <1>2, ChainStep DEF IInv, P!IInv
  <2>2. ASSUME NEW batch \in P!Batch, NEW start \in 0..MaxBlocks, P!AppendStateBatch(batch, start)
        PROVE  SCC!Next
    <3>1. batch \in SCC!Batch  BY DEF P!Batch, SCC!Batch
    <3> QED  BY <2>2, <3>1, SameAppend, SMTT(30) DEF SCC!Next
  <2>3. ASSUME NEW h \in P!Headers, P!DeleteStateBatch(h) PROVE SCC!Next
    BY <2>3, SameChain, SameDelete, SMTT(30) DEF SCC!Next
  <2>4. ASSUME NEW window \in Windows, P!SetFraudProofWindow(window) PROVE SCC!Next
    BY <2>4 DEF P!SetFraudProofWindow, SCC!SetFraudProofWindow, SCC!Next
  <2>5. ASSUME NEW n \in 1..MaxBatchSize, P!CTCAppend(n) PROVE SCC!Next
    BY <2>5 DEF P!CTCAppend, SCC!CTCAppend, SCC!Next
  <2>6. CASE P!Tick  BY <2>6 DEF P!Tick, SCC!Tick, SCC!Next
  <2>7. CASE UNCHANGED P!vars  BY <2>7, SMTT(30) DEF P!vars, SCC!vars
  <2> QED  BY <2>1, <2>2, <2>3, <2>4, <2>5, <2>6, <2>7, SMTT(20) DEF P!Next
<1> QED  BY <1>1, <1>2, InitIInv, NextIInv, PTL DEF Spec, SCC!Spec

(* A root that verifyStateCommitment accepts for a header whose window has   *)
(* closed is the root of the L2 block it stands for, so a message that it    *)
(* proves was sent.                                                          *)
LEMMA ProvenIsSent ==
    ASSUME IInv, NEW m \in Messages, NEW h \in SCC!Headers, NEW k \in 1..MaxBatchSize,
           VerifyXDomainMessage(m, h, k)
    PROVE  m \in Channel!Elements(sent)
<1> DEFINE i == SCC!Narrow(h.batchIndex)
<1>1. /\ i \in SCC!Live(batches) /\ SCC!Hash(i) = h.hash /\ k \in 1..h.hash.batchSize
      /\ VerifyStorageProof(m, h.hash.batchRoot[k]) /\ ~SCC!insideFraudProofWindow(h.hash)
  BY DEF VerifyXDomainMessage, SCC!verifyStateCommitment, SCC!IsValidBatchHeader,
         SCC!CanGet, SCC!get, SCC!Hash
<1>2. SCC!Final(i)  BY <1>1 DEF SCC!Final
<1>3. RightBatch(h.hash)  BY <1>1, <1>2 DEF IInv, VerifierIsTimely
<1>4. PICK e : e = h.hash.prevTotalElements + k - 1  OBVIOUS
<1>5. e < Len(blocks) /\ h.hash.batchRoot[k] = blocks[e + 1]
  BY <1>1, <1>3, <1>4, SMTT(20) DEF RightBatch, RightRoot
<1>6. h.hash \in P!HeaderHash  BY <1>1, SameChain, SMTT(30) DEF IInv, P!IInv, P!BatchesOrdered
<1>7. e \in Nat  BY <1>1, <1>4, <1>6, SMTT(30) DEF P!HeaderHash
<1>8. e + 1 \in DOMAIN blocks  BY <1>5, <1>7 DEF IInv, TypeOK
<1> QED  BY <1>1, <1>5, <1>8, SMTT(30) DEF IInv, Records

(* The L1 messenger calls the target of a message with success at most once *)
(* and only for a message that the L2 messenger sent, for every number of   *)
(* blocks, batches, wrong roots and deletions.                              *)
THEOREM Refinement == Spec => ImplementsMessageChannel
<1>1. Init => Channel!Init  BY DEF Init, Channel!Init
<1>2. ASSUME IInv, [Next]_vars PROVE [Channel!Next]_<<sent, delivered>>
  <2>1. ASSUME NEW call \in Call, SendMessage(call) PROVE Channel!Next
    <3> DEFINE m == [call |-> call, nonce |-> nonce]
    <3>1. sent' = Append(sent, m) /\ delivered' = delivered /\ m.nonce = nonce
      BY <2>1 DEF SendMessage, l1Vars
    <3>2. nonce \in Nat /\ sent \in Seq(Messages)  BY <1>2 DEF IInv, TypeOK
    <3> HIDE DEF m
    <3>3. m \notin Channel!Elements(sent)  BY <1>2, <3>1, <3>2, SMTT(30) DEF IInv, Records
    <3>4. m \in Channel!Elements(sent')  BY <3>1, <3>2, ElementsAppend, SMTT(30)
    <3> QED  BY <3>1, <3>3, <3>4, SMTT(20) DEF Channel!Next, Channel!Send
  <2>2. ASSUME NEW m \in Messages, NEW h \in SCC!Headers, NEW k \in 1..MaxBatchSize,
               NEW ok \in BOOLEAN, RelayMessage(m, h, k, ok)
        PROVE  [Channel!Next]_<<sent, delivered>>
    <3>1. m \in Channel!Elements(sent)  BY <1>2, <2>2, ProvenIsSent, SMTT(30) DEF RelayMessage
    <3>2. m \notin Channel!Elements(delivered)  BY <1>2, <2>2 DEF IInv, Records, RelayMessage
    <3>3. sent' = sent /\ delivered' = IF ok THEN Append(delivered, m) ELSE delivered
      BY <2>2 DEF RelayMessage, l2Vars
    <3>4. CASE ok
      <4>1. Channel!Deliver(m)  BY <3>2, <3>3, <3>4, SMTT(30) DEF Channel!Deliver
      <4> QED  BY <3>1, <4>1 DEF Channel!Next
    <3>5. CASE ~ok  BY <3>3, <3>5
    <3> QED  BY <3>4, <3>5
  <2>3. CASE UNCHANGED <<sent, delivered>>  BY <2>3
  <2>4. ASSUME NEW m \in Messages, PassOther(m) PROVE UNCHANGED <<sent, delivered>>
    BY <2>4 DEF PassOther, l1Vars
  <2>5. ASSUME NEW n \in 1..MaxBatchSize, Propose(n) PROVE UNCHANGED <<sent, delivered>>
    BY <2>5 DEF Propose, l1Vars, l2Vars
  <2>6. ASSUME NEW h \in SCC!Headers, Delete(h) PROVE UNCHANGED <<sent, delivered>>
    BY <2>6 DEF Delete, l1Vars, l2Vars
  <2>7. ASSUME Tick PROVE UNCHANGED <<sent, delivered>>
    BY <2>7 DEF Tick, l1Vars, l2Vars
  <2>8. ASSUME NEW window \in Windows, SetFraudProofWindow(window)
        PROVE  UNCHANGED <<sent, delivered>>
    BY <2>8 DEF SetFraudProofWindow, l1Vars, l2Vars
  <2>9. ASSUME NEW p \in BOOLEAN, SetPaused(p) PROVE UNCHANGED <<sent, delivered>>
    BY <2>9 DEF SetPaused, l2Vars
  <2>10. ASSUME NEW m \in Messages, NEW b \in BOOLEAN, SetBlocked(m, b)
         PROVE  UNCHANGED <<sent, delivered>>
    BY <2>10 DEF SetBlocked, l2Vars
  <2>11. ASSUME UNCHANGED vars PROVE UNCHANGED <<sent, delivered>>
    BY <2>11 DEF vars, l1Vars, l2Vars
  <2> QED
    BY <1>2, <2>1, <2>2, <2>3, <2>4, <2>5, <2>6, <2>7, <2>8, <2>9, <2>10, <2>11, SMTT(30) DEF Next
<1> QED  BY <1>1, <1>2, InitIInv, NextIInv, PTL DEF Spec, ImplementsMessageChannel, Channel!Spec

(* A message that was sent can be proven once the batch of a block after it  *)
(* is final.  The batch that covers the block is final too, because batches  *)
(* are in the order of their timestamps, and so it has the right root.       *)
THEOREM Provable == Spec => []FinalMessageIsProvable
<1>1. IInv => FinalMessageIsProvable
  <2> SUFFICES ASSUME IInv, NEW e \in 0..(Len(blocks) - 1), NEW m,
                      VerifyStorageProof(m, blocks[e + 1]),
                      NEW i \in SCC!Live(batches), SCC!Final(i), e < SCC!EndOf(i)
               PROVE  \E h \in SCC!Headers, k \in 1..MaxBatchSize : VerifyXDomainMessage(m, h, k)
      BY SMTT(30) DEF FinalMessageIsProvable
  <2>0. P!IInv /\ e \in Nat /\ i \in P!Live(batches) /\ P!Final(i) /\ e < P!EndOf(i)
    BY SameChain DEF IInv, TypeOK
  <2>1. PICK j \in P!Live(batches) : j <= i /\ P!Covers(j, e)
    BY <2>0, ChainAssumptions, P!SomeBatchCovers
  <2>2. /\ j \in Nat /\ i \in Nat /\ j \in P!Slots /\ P!Hash(j) \in P!HeaderHash
        /\ P!Hash(j).prevTotalElements \in Nat /\ P!Hash(j).batchSize \in 1..MaxBatchSize
        /\ P!EndOf(j) = P!Hash(j).prevTotalElements + P!Hash(j).batchSize
        /\ P!Hash(j).timestamp \in Nat /\ P!Hash(i).timestamp \in Nat
    BY <2>0, <2>1, ChainAssumptions, P!LiveBatch, SMTT(30)
  <2>3. P!Hash(j).timestamp <= P!Hash(i).timestamp
    <3>1. CASE j = i  BY <2>2, <3>1
    <3>2. CASE j < i  BY <2>0, <2>1, <3>2, SMTT(30) DEF P!IInv, P!BatchesOrdered
    <3> QED  BY <2>1, <2>2, <3>1, <3>2, SMTT(30)
  <2>4. P!Final(j)
    <3>1. now \in Nat /\ fraudProofWindow \in Nat  BY <2>0 DEF P!IInv, P!TypeOK
    <3>2. ~(P!Hash(i).timestamp + fraudProofWindow > now)
      BY <2>0 DEF P!Final, P!insideFraudProofWindow
    <3>3. ~(P!Hash(j).timestamp + fraudProofWindow > now)  BY <2>2, <2>3, <3>1, <3>2, SMTT(30)
    <3> QED  BY <3>3 DEF P!Final, P!insideFraudProofWindow
  <2> DEFINE g == SCC!Hash(j)
             h == [batchIndex |-> j, hash |-> g]
  <2>5. PICK k : k = e - g.prevTotalElements + 1  OBVIOUS
  <2>6. /\ j \in SCC!Live(batches) /\ SCC!Final(j) /\ g = P!Hash(j)  BY <2>1, <2>4, SameChain, SMTT(30)
  <2>7. /\ k \in 1..g.batchSize /\ k \in 1..MaxBatchSize /\ g.prevTotalElements + k - 1 = e
    <3>1. g.prevTotalElements <= e /\ e < g.prevTotalElements + g.batchSize
      BY <2>1, <2>2, <2>6, SMTT(30) DEF P!Covers
    <3>2. g.prevTotalElements \in Nat /\ g.batchSize \in 1..MaxBatchSize /\ MaxBatchSize \in Nat
      BY <2>2, <2>6, L2ToL1Assumption, SMTT(20)
    <3> HIDE DEF g
    <3> QED  BY <2>0, <2>5, <3>1, <3>2, SMTT(30)
  <2>8. g.batchRoot[k] = blocks[e + 1]
    BY <2>6, <2>7, SMTT(30) DEF IInv, VerifierIsTimely, RightBatch, RightRoot
  <2>9. h \in SCC!Headers
    <3>1. g # Zero  BY <2>2, <2>6, ChainAssumptions, SMTT(30)
    <3>2. j \in SCC!Slots  BY <2>2, SameChain, SMTT(30)
    <3>3. j \in SCC!Indices  BY <3>2, L2ToL1Assumption, SMTT(30) DEF SCC!Indices, SCC!Slots
    <3> QED  BY <3>1, <3>2, <3>3, SMTT(30) DEF SCC!Headers, SCC!Hash
  <2>10. VerifyXDomainMessage(m, h, k)
    <3>1. SCC!Narrow(j) = j  BY <2>2, ChainAssumptions, P!NarrowIndex, SameChain, SMTT(30)
    <3> QED  BY <3>1, <2>6, <2>7, <2>8, SMTT(30) DEF VerifyXDomainMessage, SCC!verifyStateCommitment,
       SCC!IsValidBatchHeader, SCC!CanGet, SCC!get, SCC!Hash, SCC!Final
  <2> QED  BY <2>7, <2>9, <2>10, SMTT(30)
<1> QED  BY <1>1, InitIInv, NextIInv, PTL DEF Spec
=============================================================================
