---------------------- MODULE StateCommitmentChainProofs ----------------------
(***************************************************************************)
(* What holds of the state commitment chain for every set of roots, every   *)
(* bound and every set of windows.                                          *)
(***************************************************************************)
EXTENDS StateCommitmentChain, WellFoundedInduction, SequenceTheorems, TLAPS

(* Live batches are headers in the order of their timestamps and of their   *)
(* elements, none later than the current block or past the total.           *)
BatchesOrdered ==
    /\ \A i \in Live(batches) : /\ Hash(i) \in HeaderHash
                                /\ Hash(i).timestamp <= now
                                /\ EndOf(i) <= getTotalElements
    /\ \A i, j \in Live(batches) : i < j => /\ Hash(i).timestamp <= Hash(j).timestamp
                                            /\ EndOf(i) <= Hash(j).prevTotalElements

(* The inductive invariant: the partition of the elements alone does not     *)
(* say that deleting a batch keeps every batch whose window has closed; the  *)
(* order of the timestamps does.                                             *)
IInv == TypeOK /\ BatchesPartitionElements /\ BatchesOrdered

-----------------------------------------------------------------------------
(* What the operations of Lib_Buffer leave in a buffer, for every capacity. *)

(* What a push leaves: the live slots as they were, and the new one.         *)
LEMMA PushLive ==
    ASSUME NEW V, NEW X, NEW b \in Buffer(V, X), NEW v \in V, NEW x \in X, CanPush(b)
    PROVE  /\ push(b, v, x) \in Buffer(V, X)
           /\ push(b, v, x).length = b.length + 1
           /\ push(b, v, x).extraData = x
           /\ push(b, v, x).buf[b.length] = v
           /\ Live(push(b, v, x)) = Live(b) \cup {b.length}
           /\ b.length \notin Live(b)
           /\ \A i \in Live(b) : push(b, v, x).buf[i] = b.buf[i] /\ i < b.length
<1> USE MaxLengthAssumption
<1> DEFINE p == push(b, v, x)
<1>1. /\ b.buf \in [Slots -> V \cup {Zero}]
      /\ b.length \in Slots
      /\ b.length + 1 \in Slots
  BY DEF Buffer, CanPush, Slots
<1>2. p.buf = [b.buf EXCEPT ![b.length] = v] /\ p.length = b.length + 1 /\ p.extraData = x
  BY DEF push
<1>3. p \in Buffer(V, X)  BY <1>1 DEF push, Buffer, Slots
<1>4. Live(p) = Live(b) \cup {b.length} /\ b.length \notin Live(b)
  BY <1>1, <1>2 DEF Live, Slots
<1>5. p.buf[b.length] = v  BY <1>1, <1>2
<1>6. \A i \in Live(b) : p.buf[i] = b.buf[i] /\ i < b.length
  BY <1>1, <1>2 DEF Live, Slots
<1> QED  BY <1>2, <1>3, <1>4, <1>5, <1>6

(* A uint40 narrows to itself, and every index to a uint40.                  *)
LEMMA NarrowIndex ==
    /\ \A i \in Slots : Narrow(i) = i
    /\ \A i \in Nat : Narrow(i) \in Slots
BY MaxLengthAssumption DEF Narrow, Slots

(* What a deletion leaves: the slots below the index, as they were.          *)
LEMMA DeleteLive ==
    ASSUME NEW V, NEW X, NEW b \in Buffer(V, X), NEW x \in X, NEW i \in Live(b)
    PROVE  /\ deleteElementsAfterInclusive(b, i, x) \in Buffer(V, X)
           /\ deleteElementsAfterInclusive(b, i, x).length = i
           /\ deleteElementsAfterInclusive(b, i, x).extraData = x
           /\ deleteElementsAfterInclusive(b, i, x).buf = b.buf
           /\ Live(deleteElementsAfterInclusive(b, i, x)) = {j \in Live(b) : j < i}
<1> USE MaxLengthAssumption
<1>1. i \in Slots /\ b.length \in Slots /\ i < b.length  BY DEF Live, Buffer, Slots
<1>2. Narrow(i) = i  BY <1>1, NarrowIndex
<1>3. deleteElementsAfterInclusive(b, i, x) = [buf |-> b.buf, length |-> i, extraData |-> x]
  BY <1>2 DEF deleteElementsAfterInclusive
<1>4. deleteElementsAfterInclusive(b, i, x) \in Buffer(V, X)
  BY <1>1, <1>3 DEF Buffer, Slots
<1>5. Live(deleteElementsAfterInclusive(b, i, x)) = {j \in Live(b) : j < i}
  BY <1>1, <1>3 DEF Live, Slots
<1> QED  BY <1>3, <1>4, <1>5

-----------------------------------------------------------------------------

(* Induction over naturals, as the principle of the least element.          *)
LEMMA LeastNatural ==
    ASSUME NEW T \in SUBSET Nat, T # {}
    PROVE  \E x \in T : \A y \in T : x <= y
<1> DEFINE R == {ss \in Nat \X Nat : ss[1] < ss[2]}
<1>1. IsWellFoundedOn(R, Nat)  BY NatLessThanWellFounded DEF OpToRel
<1>2. \A x, y \in Nat : ~(<<y, x>> \in R) => x <= y  OBVIOUS
<1> HIDE DEF R
<1>3. \E x \in T : \A y \in T : ~(<<y, x>> \in R)  BY <1>1, WFMin, Zenon
<1> QED  BY <1>2, <1>3, Zenon

(* A batch is a sequence of roots of known length.                          *)
LEMMA BatchIsSeq == \A b \in Batch : b \in Seq(Root) /\ Len(b) \in Nat
<1> SUFFICES ASSUME NEW n \in 1..MaxBatchSize, NEW b \in [1..n -> Root]
             PROVE  b \in Seq(Root) /\ Len(b) \in Nat
    BY DEF Batch
<1>1. n \in Nat  BY SCCAssumption
<1> QED  BY <1>1

(* The types that the invariant gives to a live batch.                      *)
LEMMA LiveBatch ==
    ASSUME IInv, NEW i \in Live(batches)
    PROVE  /\ i \in Nat /\ i \in Slots /\ i < batches.length /\ batches.length \in Nat
           /\ Hash(i) \in HeaderHash
           /\ Hash(i).batchRoot \in Seq(Root)
           /\ Hash(i).batchSize = Len(Hash(i).batchRoot)
           /\ Hash(i).batchSize \in 1..MaxBatchSize
           /\ Hash(i).prevTotalElements \in Nat
           /\ Hash(i).timestamp \in Nat
           /\ EndOf(i) = Hash(i).prevTotalElements + Hash(i).batchSize
           /\ EndOf(i) \in Nat
           /\ EndOf(i) <= getTotalElements /\ getTotalElements \in Nat
<1>1. /\ i \in Nat /\ i \in Slots /\ i < batches.length /\ batches.length \in Nat
      /\ getTotalElements \in Nat
  BY MaxLengthAssumption DEF IInv, TypeOK, Live, Slots, Buffer, getTotalElements, ExtraData
<1>2. Hash(i) \in HeaderHash /\ EndOf(i) <= getTotalElements  BY DEF IInv, BatchesOrdered
<1>3. /\ Hash(i).batchRoot \in Batch /\ Hash(i).prevTotalElements \in Nat
      /\ Hash(i).timestamp \in Nat
  BY <1>2 DEF HeaderHash
<1>4. Hash(i).batchSize = Len(Hash(i).batchRoot)  BY DEF IInv, BatchesPartitionElements
<1>5. PICK n \in 1..MaxBatchSize : Hash(i).batchRoot \in [1..n -> Root]  BY <1>3 DEF Batch
<1>6. n \in Nat  BY SCCAssumption
<1>7. Len(Hash(i).batchRoot) = n /\ Hash(i).batchRoot \in Seq(Root)  BY <1>5, <1>6
<1>8. EndOf(i) = Hash(i).prevTotalElements + Hash(i).batchSize  BY DEF EndOf
<1> QED  BY <1>1, <1>2, <1>3, <1>4, <1>6, <1>7, <1>8

(* The empty chain is ordered.                                               *)
LEMMA InitIInv == Init => IInv
<1> SUFFICES ASSUME Init PROVE IInv  OBVIOUS
<1> USE MaxLengthAssumption, SCCAssumption
<1>1. Live(batches) = {}  BY DEF Init, EmptyBuffer, Live, Slots
<1>2. TypeOK  BY DEF Init, TypeOK, EmptyBuffer, Buffer, ExtraData, Slots
<1> QED  BY <1>1, <1>2 DEF Init, IInv, EmptyBuffer, BatchesPartitionElements,
                BatchesOrdered, getTotalElements

(* appendStateBatch keeps the invariant: the new batch starts at the total   *)
(* and carries the current time, no earlier than any batch before it.        *)
LEMMA AppendIInv ==
    ASSUME IInv, NEW batch \in Batch, NEW start \in 0..MaxElements,
           AppendStateBatch(batch, start)
    PROVE  /\ IInv'
           /\ batches'.length = batches.length + 1
           /\ Live(batches)' = Live(batches) \cup {batches.length}
           /\ \A i \in Live(batches) : Hash(i)' = Hash(i) /\ EndOf(i)' = EndOf(i)
           /\ \A n : n = batches.length => /\ Hash(n)'.batchRoot = batch
                                          /\ EndOf(n)' = getTotalElements'
           /\ getTotalElements' = getTotalElements + Len(batch)
<1> USE MaxLengthAssumption
<1> DEFINE h == [batchRoot |-> batch, batchSize |-> Len(batch),
                 prevTotalElements |-> getTotalElements, timestamp |-> now]
           x == [totalElements |-> getTotalElements + Len(batch),
                 lastSequencerTimestamp |-> now]
<1> PICK n : n = batches.length  OBVIOUS
<1>1. /\ batches \in Buffer(HeaderHash, ExtraData)
      /\ now \in Nat \ {0}
      /\ getTotalElements \in Nat
  BY DEF IInv, TypeOK, getTotalElements, Buffer, ExtraData
<1>2. h \in HeaderHash /\ x \in ExtraData
  BY <1>1, BatchIsSeq DEF HeaderHash, ExtraData
<1>3. CanPush(batches) /\ batches' = push(batches, h, x)
  BY DEF AppendStateBatch, AppendBatch
<1>4. UNCHANGED <<fraudProofWindow, now, ctcTotal>>  BY DEF AppendStateBatch
<1> HIDE DEF h, x
<1>5. /\ batches' \in Buffer(HeaderHash, ExtraData)
      /\ batches'.length = n + 1
      /\ batches'.extraData = x
      /\ batches'.buf[n] = h
      /\ Live(batches)' = Live(batches) \cup {n}
      /\ n \notin Live(batches)
      /\ \A i \in Live(batches) : batches'.buf[i] = batches.buf[i] /\ i < n
  BY <1>1, <1>2, <1>3, PushLive DEF Live
<1>6. n \in Nat /\ Live(batches) = 0..(n - 1)
  BY <1>1 DEF Buffer, Live, Slots
<1>7. TypeOK'  BY <1>4, <1>5 DEF IInv, TypeOK
<1>8. getTotalElements' = getTotalElements + Len(batch) /\ Len(batch) \in Nat
  BY <1>5, BatchIsSeq DEF getTotalElements, x
<1>9. /\ Hash(n)' = h
      /\ h.prevTotalElements = getTotalElements
      /\ h.batchSize = Len(batch)
      /\ h.batchRoot = batch
      /\ h.timestamp = now
      /\ EndOf(n)' = getTotalElements + Len(batch)
  BY <1>5 DEF Hash, EndOf, h
<1>10. \A i \in Live(batches) : Hash(i)' = Hash(i) /\ EndOf(i)' = EndOf(i)
  BY <1>5 DEF Hash, EndOf
<1>11. BatchesPartitionElements'
  <2>1. ASSUME NEW i \in Live(batches)'
        PROVE  /\ Hash(i)'.batchSize = Len(Hash(i)'.batchRoot)
               /\ Hash(i)'.prevTotalElements = IF i = 0 THEN 0 ELSE EndOf(i - 1)'
    <3>1. CASE i = n
      <4>1. n # 0 => n - 1 \in Live(batches)  BY <1>6
      <4>2. h.prevTotalElements = IF n = 0 THEN 0 ELSE EndOf(n - 1)
        BY <1>9 DEF IInv, BatchesPartitionElements
      <4> QED  BY <3>1, <4>1, <4>2, <1>9, <1>10
    <3>2. CASE i \in Live(batches)
      <4>1. i # 0 => i - 1 \in Live(batches)  BY <3>2, <1>6
      <4> QED  BY <3>2, <4>1, <1>10 DEF IInv, BatchesPartitionElements
    <3> QED  BY <3>1, <3>2, <1>5
  <2>2. (getTotalElements = IF batches.length = 0 THEN 0 ELSE EndOf(batches.length - 1))'
    <3>1. batches'.length # 0 /\ batches'.length - 1 = n  BY <1>5, <1>6
    <3>2. EndOf(batches.length - 1)' = EndOf(n)'  BY <3>1
    <3> QED  BY <3>1, <3>2, <1>8, <1>9
  <2> QED  BY <2>1, <2>2 DEF BatchesPartitionElements
<1>12. BatchesOrdered'
  <2>1. ASSUME NEW i \in Live(batches)'
        PROVE  /\ Hash(i)' \in HeaderHash
               /\ Hash(i)'.timestamp <= now'
               /\ EndOf(i)' <= getTotalElements'
    <3>1. CASE i = n  BY <3>1, <1>1, <1>2, <1>4, <1>8, <1>9
    <3>2. CASE i \in Live(batches)
      <4>1. EndOf(i) \in Nat  BY <3>2 DEF IInv, BatchesOrdered, EndOf, HeaderHash
      <4> QED  BY <3>2, <4>1, <1>1, <1>4, <1>8, <1>10 DEF IInv, BatchesOrdered
    <3> QED  BY <3>1, <3>2, <1>5
  <2>2. ASSUME NEW i \in Live(batches)', NEW j \in Live(batches)', i < j
        PROVE  /\ Hash(i)'.timestamp <= Hash(j)'.timestamp
               /\ EndOf(i)' <= Hash(j)'.prevTotalElements
    <3>1. CASE j = n
      <4>1. i \in Live(batches)  BY <3>1, <2>2, <1>5, <1>6
      <4> QED  BY <3>1, <4>1, <1>9, <1>10 DEF IInv, BatchesOrdered
    <3>2. CASE j \in Live(batches)
      <4>1. i \in Live(batches)  BY <3>2, <2>2, <1>5, <1>6
      <4> QED  BY <3>2, <4>1, <2>2, <1>10 DEF IInv, BatchesOrdered
    <3> QED  BY <3>1, <3>2, <1>5
  <2> QED  BY <2>1, <2>2 DEF BatchesOrdered
<1> QED  BY <1>5, <1>7, <1>8, <1>9, <1>10, <1>11, <1>12 DEF IInv

(* deleteStateBatch keeps the invariant: the header's prevTotalElements is   *)
(* where the batches below it end.                                           *)
LEMMA DeleteIInv ==
    ASSUME IInv, NEW h \in Headers, DeleteStateBatch(h)
    PROVE  /\ IInv'
           /\ h.batchIndex \in Live(batches)
           /\ Live(batches)' = {j \in Live(batches) : j < h.batchIndex}
           /\ batches'.length = h.batchIndex
           /\ batches'.buf = batches.buf
           /\ Hash(h.batchIndex) = h.hash
           /\ getTotalElements' <= getTotalElements
<1> USE MaxLengthAssumption
<1> DEFINE k == h.batchIndex
           x == [totalElements |-> h.hash.prevTotalElements, lastSequencerTimestamp |-> 0]
<1>1. batches \in Buffer(HeaderHash, ExtraData) /\ getTotalElements \in Nat
  BY DEF IInv, TypeOK, getTotalElements, Buffer, ExtraData
<1>2. /\ k \in Live(batches)
      /\ Hash(k) = h.hash
      /\ batches' = deleteElementsAfterInclusive(batches, k, x)
      /\ UNCHANGED <<fraudProofWindow, now, ctcTotal>>
  <2>1. k \in Nat /\ batches.length \in Slots
    BY <1>1 DEF Headers, Indices, Buffer, Slots
  <2>2. k < batches.length  BY DEF DeleteStateBatch, DeleteBatch
  <2>3. k \in Slots /\ k \in Live(batches)  BY <2>1, <2>2 DEF Live, Slots
  <2>4. Narrow(k) = k  BY <2>3, NarrowIndex
  <2> QED  BY <2>3, <2>4 DEF DeleteStateBatch, DeleteBatch, IsValidBatchHeader, get, Hash
<1>3. h.hash \in HeaderHash /\ x \in ExtraData
  BY <1>2 DEF IInv, BatchesOrdered, HeaderHash, ExtraData
<1> HIDE DEF x
<1>4. /\ batches' \in Buffer(HeaderHash, ExtraData)
      /\ batches'.length = k
      /\ batches'.extraData = x
      /\ batches'.buf = batches.buf
      /\ Live(batches)' = {j \in Live(batches) : j < k}
  BY <1>1, <1>2, <1>3, DeleteLive DEF Live
<1>5. k \in Nat /\ Live(batches) = 0..(batches.length - 1) /\ batches.length \in Nat
  BY <1>1, <1>2 DEF Buffer, Live, Slots
<1>6. \A i \in Slots : Hash(i)' = Hash(i) /\ EndOf(i)' = EndOf(i)
  BY <1>4 DEF Hash, EndOf
<1>7. getTotalElements' = h.hash.prevTotalElements  BY <1>4 DEF getTotalElements, x
<1>8. TypeOK'  BY <1>2, <1>4 DEF IInv, TypeOK
<1>9. Live(batches) \subseteq Slots  BY DEF Live
<1>10. getTotalElements' <= getTotalElements
  BY <1>1, <1>2, <1>3, <1>7 DEF IInv, BatchesOrdered, EndOf, HeaderHash
<1>11. BatchesPartitionElements'
  <2>1. ASSUME NEW i \in Live(batches)'
        PROVE  /\ Hash(i)'.batchSize = Len(Hash(i)'.batchRoot)
               /\ Hash(i)'.prevTotalElements = IF i = 0 THEN 0 ELSE EndOf(i - 1)'
    <3>1. i \in Live(batches) /\ (i # 0 => i - 1 \in Live(batches))
      BY <1>4, <1>5
    <3> QED  BY <3>1, <1>6, <1>9 DEF IInv, BatchesPartitionElements
  <2>2. getTotalElements' = IF k = 0 THEN 0 ELSE EndOf(k - 1)'
    <3>1. k # 0 => k - 1 \in Live(batches)  BY <1>2, <1>5
    <3> QED  BY <3>1, <1>2, <1>6, <1>7, <1>9 DEF IInv, BatchesPartitionElements
  <2> QED  BY <2>1, <2>2, <1>4 DEF BatchesPartitionElements
<1>12. BatchesOrdered'
  <2>1. ASSUME NEW i \in Live(batches)'
        PROVE  EndOf(i)' <= getTotalElements'
    <3>1. i \in Live(batches) /\ i < k /\ k - 1 \in Live(batches)'
      BY <1>4, <1>5, <1>2
    <3>2. EndOf(i) <= h.hash.prevTotalElements
      BY <3>1, <1>2 DEF IInv, BatchesOrdered
    <3> QED  BY <3>1, <3>2, <1>6, <1>7, <1>9
  <2> QED  BY <2>1, <1>2, <1>4, <1>6, <1>9 DEF IInv, BatchesOrdered
<1> QED  BY <1>2, <1>4, <1>8, <1>10, <1>11, <1>12 DEF IInv

(* A batch that is deleted lies above every batch whose window has closed.   *)
LEMMA FinalBelowDeleted ==
    ASSUME IInv, NEW h \in Headers, DeleteStateBatch(h), NEW i \in FinalBatches
    PROVE  i < h.batchIndex
<1>1. h.batchIndex \in Live(batches) /\ Hash(h.batchIndex) = h.hash /\ i \in Live(batches)
  BY DeleteIInv DEF FinalBatches
<1>2. /\ h.hash.timestamp \in Nat /\ h.batchIndex \in Nat /\ i \in Nat
      /\ Hash(i).timestamp \in Nat /\ now \in Nat /\ fraudProofWindow \in Nat
  BY <1>1, LiveBatch DEF IInv, TypeOK
<1>3. h.hash.timestamp + fraudProofWindow > now
  BY DEF DeleteStateBatch, insideFraudProofWindow
<1>4. ~(Hash(i).timestamp + fraudProofWindow > now)
  BY DEF FinalBatches, Final, insideFraudProofWindow
<1>5. ASSUME h.batchIndex <= i PROVE h.hash.timestamp <= Hash(i).timestamp
  BY <1>1, <1>2, <1>5 DEF IInv, BatchesOrdered
<1> QED  BY <1>2, <1>3, <1>4, <1>5

(* The remaining actions leave the batches alone and only let time pass.     *)
LEMMA OtherIInv ==
    ASSUME IInv, UNCHANGED batches,
           fraudProofWindow' \in Nat, ctcTotal' \in Nat, now' \in Nat, now <= now'
    PROVE  IInv'
<1>1. /\ Live(batches)' = Live(batches)
      /\ getTotalElements' = getTotalElements
      /\ \A i : Hash(i)' = Hash(i) /\ EndOf(i)' = EndOf(i)
  BY DEF Live, getTotalElements, Hash, EndOf
<1>2. TypeOK'  BY DEF IInv, TypeOK
<1>3. BatchesPartitionElements'
  BY <1>1 DEF IInv, BatchesPartitionElements, Hash, EndOf, Live, getTotalElements
<1>4. BatchesOrdered'
  <2>1. ASSUME NEW i \in Live(batches)'  PROVE Hash(i)'.timestamp <= now'
    BY <1>1 DEF IInv, TypeOK, BatchesOrdered, HeaderHash
  <2> QED  BY <2>1, <1>1 DEF IInv, BatchesOrdered
<1> QED  BY <1>2, <1>3, <1>4 DEF IInv

(* Every append, deletion, new window and tick keeps the invariant.          *)
LEMMA NextIInv == IInv /\ [Next]_vars => IInv'
<1> SUFFICES ASSUME IInv, [Next]_vars PROVE IInv'  OBVIOUS
<1> USE SCCAssumption
<1>t. fraudProofWindow \in Nat /\ now \in Nat /\ ctcTotal \in Nat  BY DEF IInv, TypeOK
<1>1. ASSUME NEW batch \in Batch, NEW start \in 0..MaxElements, AppendStateBatch(batch, start)
      PROVE  IInv'
  BY <1>1, AppendIInv
<1>2. ASSUME NEW h \in Headers, DeleteStateBatch(h) PROVE IInv'  BY <1>2, DeleteIInv
<1>3. ASSUME NEW window \in Windows, SetFraudProofWindow(window) PROVE IInv'
  BY <1>t, <1>3, OtherIInv DEF SetFraudProofWindow
<1>4. ASSUME NEW n \in 1..MaxBatchSize, CTCAppend(n) PROVE IInv'
  BY <1>t, <1>4, OtherIInv DEF CTCAppend
<1>5. CASE Tick  BY <1>t, <1>5, OtherIInv DEF Tick
<1>6. CASE UNCHANGED vars  BY <1>t, <1>6, OtherIInv DEF vars
<1> QED  BY <1>1, <1>2, <1>3, <1>4, <1>5, <1>6 DEF Next

(* The live batches stay a partition of the elements in the order of their   *)
(* timestamps, over every append and deletion.                               *)
THEOREM Invariant == Spec => []IInv
<1> QED  BY InitIInv, NextIInv, PTL DEF Spec

(* The state of the contract is always well typed: no append or deletion     *)
(* leaves a length, a total or a header outside its range.                   *)
THEOREM TypeCorrect == Spec => []TypeOK
<1>1. IInv => TypeOK  BY DEF IInv
<1> QED  BY Invariant, <1>1, PTL

(* appendStateBatch and deleteStateBatch keep the live batches a partition   *)
(* of the committed elements, whatever the order of appends and deletions.   *)
THEOREM Partition == Spec => []BatchesPartitionElements
<1>1. IInv => BatchesPartitionElements  BY DEF IInv
<1> QED  BY Invariant, <1>1, PTL

(* A batch whose window has closed is never deleted, moved or reopened as    *)
(* long as METIS_MANAGER does not raise the window.  deleteStateBatch looks  *)
(* only at the header it is given, so this rests on the order of the         *)
(* timestamps: what lies above a batch inside its window is inside its own.  *)
THEOREM Finality == Spec => FinalityIsForever
<1> DEFINE Keeps == fraudProofWindow' <= fraudProofWindow =>
                      \A i \in Live(batches) : Final(i) =>
                          /\ i \in Live(batches)'
                          /\ Hash(i)' = Hash(i)
                          /\ Final(i)'
<1>1. IInv /\ [Next]_vars => [Keeps]_vars
  <2> SUFFICES ASSUME IInv, [Next]_vars, fraudProofWindow' <= fraudProofWindow,
                      NEW i \in Live(batches), Final(i)
               PROVE  i \in Live(batches)' /\ Hash(i)' = Hash(i) /\ Final(i)'
    OBVIOUS
  <2>t. /\ now \in Nat /\ fraudProofWindow \in Nat
        /\ Hash(i) \in HeaderHash /\ Hash(i).timestamp \in Nat
        /\ i \in Slots
    BY DEF IInv, TypeOK, BatchesOrdered, HeaderHash, Live
  <2>m. ASSUME Hash(i)' = Hash(i), now' \in Nat, now <= now', fraudProofWindow' \in Nat
        PROVE  Final(i)'
    BY <2>t, <2>m DEF Final, insideFraudProofWindow
  <2>1. ASSUME NEW batch \in Batch, NEW start \in 0..MaxElements, AppendStateBatch(batch, start)
        PROVE  i \in Live(batches)' /\ Hash(i)' = Hash(i) /\ Final(i)'
    <3>1. /\ batches.buf \in [Slots -> HeaderHash \cup {Zero}]
          /\ batches.length \in Nat /\ i < batches.length /\ i \in Nat
      BY MaxLengthAssumption DEF IInv, TypeOK, Buffer, Live, Slots
    <3>2. /\ batches'.length = batches.length + 1
          /\ batches'.buf[i] = batches.buf[i]
      BY <2>1, <3>1, <2>t DEF AppendStateBatch, AppendBatch, push
    <3>3. i \in Live(batches)' /\ Hash(i)' = Hash(i)
      BY <3>1, <3>2, <2>t DEF Live, Hash
    <3> QED  BY <2>1, <3>3, <2>t, <2>m DEF AppendStateBatch
  <2>2. ASSUME NEW h \in Headers, DeleteStateBatch(h)
        PROVE  i \in Live(batches)' /\ Hash(i)' = Hash(i) /\ Final(i)'
    <3>1. /\ h.batchIndex \in Live(batches)
          /\ Live(batches)' = {j \in Live(batches) : j < h.batchIndex}
          /\ batches'.buf = batches.buf
          /\ Hash(h.batchIndex) = h.hash
      BY <2>2, DeleteIInv
    <3>2. i < h.batchIndex  BY <2>2, FinalBelowDeleted DEF FinalBatches
    <3>3. Hash(i)' = Hash(i)  BY <3>1 DEF Hash
    <3> QED  BY <2>2, <3>1, <3>2, <3>3, <2>t, <2>m DEF DeleteStateBatch
  <2>3. ASSUME UNCHANGED batches, now' \in Nat, now <= now', fraudProofWindow' \in Nat
        PROVE  i \in Live(batches)' /\ Hash(i)' = Hash(i) /\ Final(i)'
    <3>1. i \in Live(batches)' /\ Hash(i)' = Hash(i)  BY <2>3 DEF Live, Hash
    <3> QED  BY <2>3, <3>1, <2>m
  <2>4. ASSUME NEW window \in Windows, SetFraudProofWindow(window)
        PROVE  i \in Live(batches)' /\ Hash(i)' = Hash(i) /\ Final(i)'
    BY <2>t, <2>3, <2>4, SCCAssumption DEF SetFraudProofWindow
  <2>5. ASSUME NEW n \in 1..MaxBatchSize, CTCAppend(n)
        PROVE  i \in Live(batches)' /\ Hash(i)' = Hash(i) /\ Final(i)'
    BY <2>t, <2>3, <2>5 DEF CTCAppend
  <2>6. CASE Tick  BY <2>t, <2>3, <2>6 DEF Tick
  <2>7. CASE UNCHANGED vars  BY <2>t, <2>3, <2>7 DEF vars
  <2> QED  BY <2>1, <2>2, <2>4, <2>5, <2>6, <2>7 DEF Next
<1> QED  BY <1>1, Invariant, PTL DEF Spec, FinalityIsForever

-----------------------------------------------------------------------------
(* One root for each element.                                               *)

Covers(i, e) == Hash(i).prevTotalElements <= e /\ e < EndOf(i)

(* Every committed element is in a live batch: in the first one that ends    *)
(* after it.                                                                 *)
LEMMA SomeBatchCovers ==
    ASSUME IInv, NEW n \in Live(batches), NEW e \in Nat, e < EndOf(n)
    PROVE  \E i \in Live(batches) : i <= n /\ Covers(i, e)
<1> DEFINE T == {i \in Live(batches) : e < EndOf(i)}
<1>1. T \in SUBSET Nat /\ T # {}  BY LiveBatch
<1>2. PICK i \in T : \A j \in T : i <= j  BY <1>1, LeastNatural, Zenon
<1>3. i <= n  BY <1>2
<1>4. Hash(i).prevTotalElements <= e
  <2>1. CASE i = 0  BY <1>2, <2>1 DEF IInv, BatchesPartitionElements
  <2>2. CASE i # 0
    <3>1. i - 1 \in Live(batches)
      BY <1>2, <2>2, LiveBatch, MaxLengthAssumption DEF Live, Slots
    <3>2. i - 1 \notin T  BY <1>1, <1>2, LiveBatch
    <3>3. EndOf(i - 1) \in Nat  BY <3>1, LiveBatch
    <3>4. EndOf(i - 1) <= e  BY <3>1, <3>2, <3>3
    <3>5. Hash(i).prevTotalElements = EndOf(i - 1)
      BY <1>2, <2>2 DEF IInv, BatchesPartitionElements
    <3> QED  BY <3>4, <3>5
  <2> QED  BY <2>1, <2>2
<1> QED  BY <1>2, <1>3, <1>4 DEF Covers

(* No element is in two live batches.                                        *)
LEMMA OneBatchCovers ==
    ASSUME IInv, NEW i \in Live(batches), NEW j \in Live(batches), NEW e \in Nat,
           Covers(i, e), Covers(j, e)
    PROVE  i = j
<1>1. ASSUME NEW a \in Live(batches), NEW b \in Live(batches), a < b,
             Covers(a, e), Covers(b, e)
      PROVE  FALSE
  <2>1. EndOf(a) <= Hash(b).prevTotalElements  BY <1>1 DEF IInv, BatchesOrdered
  <2>2. EndOf(a) \in Nat /\ Hash(b).prevTotalElements \in Nat  BY LiveBatch
  <2> QED  BY <1>1, <2>1, <2>2 DEF Covers
<1>2. i \in Nat /\ j \in Nat  BY LiveBatch
<1> QED  BY <1>1, <1>2

(* verifyStateCommitment accepts exactly one root for a committed element,   *)
(* whatever header a caller presents: the hash must be the one in a live     *)
(* slot, which no two batches share an element in.                           *)
THEOREM OneRoot == Spec => []OneRootPerElement
<1>1. IInv => OneRootPerElement
  <2> SUFFICES ASSUME IInv, NEW e \in 0..(getTotalElements - 1)
               PROVE  \E r \in Root :
                        {q \in Root : \E h \in Headers :
                            /\ h.hash.prevTotalElements <= e
                            /\ verifyStateCommitment(q, h, e - h.hash.prevTotalElements + 1)}
                        = {r}
    BY DEF OneRootPerElement
  <2>1. getTotalElements \in Nat /\ batches.length \in Nat /\ batches.length \in 0..MaxLength
    BY MaxLengthAssumption DEF IInv, TypeOK, Buffer, getTotalElements, ExtraData
  <2>2. e \in Nat /\ e < getTotalElements  BY <2>1
  <2>3. /\ batches.length # 0
        /\ getTotalElements = EndOf(batches.length - 1)
    BY <2>1, <2>2 DEF IInv, BatchesPartitionElements
  <2>4. batches.length - 1 \in Live(batches)
    BY <2>1, <2>3, MaxLengthAssumption DEF Live, Slots
  <2>5. PICK i \in Live(batches) : Covers(i, e)  BY <2>2, <2>3, <2>4, SomeBatchCovers
  <2> DEFINE k == e - Hash(i).prevTotalElements + 1
             r == Hash(i).batchRoot[k]
             h0 == [batchIndex |-> i, hash |-> Hash(i)]
  <2>6. k \in 1..Hash(i).batchSize /\ r \in Root
    <3>1. Hash(i).batchSize \in Nat /\ Hash(i).prevTotalElements \in Nat
      BY LiveBatch, SCCAssumption
    <3>2. k \in 1..Hash(i).batchSize  BY <3>1, <2>2, <2>5, LiveBatch DEF Covers
    <3> HIDE DEF k
    <3> QED  BY <3>2, LiveBatch
  <2>7. h0 \in Headers
    <3>1. i \in Slots /\ Hash(i) \in HeaderHash  BY LiveBatch
    <3>2. Hash(i) # Zero  BY <3>1, ZeroAssumption
    <3>3. i \in Indices  BY <3>1, MaxLengthAssumption DEF Indices, Slots
    <3> QED  BY <3>1, <3>2, <3>3 DEF Headers, Hash
  <2>8. h0.hash.prevTotalElements <= e /\ verifyStateCommitment(r, h0, k)
    <3>1. Narrow(i) = i  BY NarrowIndex DEF Live
    <3> QED  BY <3>1, <2>5, <2>6 DEF Covers, verifyStateCommitment, IsValidBatchHeader, CanGet, get, Hash
  <2>9. ASSUME NEW q \in Root, NEW h \in Headers, h.hash.prevTotalElements <= e,
               verifyStateCommitment(q, h, e - h.hash.prevTotalElements + 1)
        PROVE  q = r
    <3> DEFINE j == Narrow(h.batchIndex)
    <3>1. j \in Live(batches) /\ Hash(j) = h.hash
      BY <2>9 DEF verifyStateCommitment, IsValidBatchHeader, CanGet, get, Hash
    <3> HIDE DEF j
    <3>2. e - h.hash.prevTotalElements + 1 <= h.hash.batchSize
      BY <2>9 DEF verifyStateCommitment
    <3>3. /\ EndOf(j) = h.hash.prevTotalElements + h.hash.batchSize
          /\ h.hash.prevTotalElements \in Nat /\ h.hash.batchSize \in Nat
      BY <3>1, LiveBatch, SCCAssumption
    <3>4. Covers(j, e)  BY <2>2, <2>9, <3>1, <3>2, <3>3 DEF Covers
    <3>5. j = i  BY <2>2, <2>5, <3>1, <3>4, OneBatchCovers
    <3> QED  BY <2>9, <3>1, <3>5 DEF verifyStateCommitment
  <2> WITNESS r \in Root
  <2> QED  BY <2>6, <2>7, <2>8, <2>9
<1> QED  BY Invariant, <1>1, PTL

-----------------------------------------------------------------------------
(* The batches implement a log of state roots.                              *)

(* f concatenates the first n of the sequences g, for each n.               *)
IsConcat(f, N, g) == f = [n \in 0..N |-> IF n = 0 THEN <<>> ELSE f[n - 1] \o g[n]]

(* The recursion that concatenates sequences has a solution.                 *)
LEMMA ConcatExists ==
    ASSUME NEW N \in Nat, NEW g
    PROVE  \E f : IsConcat(f, N, g)
<1> DEFINE T == {m \in Nat : ~\E f : IsConcat(f, m, g)}
<1> SUFFICES ASSUME T # {} PROVE FALSE  OBVIOUS
<1>1. PICK m \in T : \A k \in T : m <= k  BY LeastNatural, Zenon
<1>2. m # 0
  <2>1. IsConcat([n \in 0..0 |-> <<>>], 0, g)  BY DEF IsConcat
  <2> QED  BY <2>1
<1>3. m - 1 \in Nat /\ m - 1 \notin T  BY <1>1, <1>2
<1>4. PICK f : IsConcat(f, m - 1, g)  BY <1>3
<1> DEFINE e == [n \in 0..m |-> IF n = m THEN f[m - 1] \o g[m] ELSE f[n]]
<1>5. ASSUME NEW n \in 0..m PROVE e[n] = IF n = 0 THEN <<>> ELSE e[n - 1] \o g[n]
  <2>1. CASE n = m  BY <2>1, <1>2, <1>3
  <2>2. CASE n # m
    <3>1. n \in 0..(m - 1) /\ (n # 0 => n - 1 \in 0..(m - 1) /\ n - 1 \in 0..m /\ n - 1 # m)
      BY <2>2, <1>3
    <3>2. f[n] = IF n = 0 THEN <<>> ELSE f[n - 1] \o g[n]  BY <3>1, <1>4 DEF IsConcat
    <3> QED  BY <2>2, <3>1, <3>2
  <2> QED  BY <2>1, <2>2, SMTT(30)
<1>6. IsConcat(e, m, g)  BY <1>5, Zenon DEF IsConcat
<1> QED  BY <1>1, <1>6

(* What a concatenation adds to its first part is its second part.          *)
LEMMA ConcatTail ==
    ASSUME NEW S, NEW a \in Seq(S), NEW b \in Seq(S)
    PROVE  SubSeq(a \o b, Len(a) + 1, Len(a \o b)) = b
<1>1. /\ a \o b \in Seq(S) /\ Len(a \o b) = Len(a) + Len(b)
      /\ Len(a) \in Nat /\ Len(b) \in Nat
      /\ \A i \in 1..(Len(a) + Len(b)) :
            (a \o b)[i] = IF i <= Len(a) THEN a[i] ELSE b[i - Len(a)]
  BY ConcatProperties, LenProperties
<1> PICK c : c = a \o b  BY Zenon
<1>2. \A i \in (Len(a) + 1)..Len(c) : c[i] \in S  BY <1>1
<1> PICK t : t = SubSeq(c, Len(a) + 1, Len(c))  OBVIOUS
<1>3. /\ t \in Seq(S)
      /\ Len(t) = IF Len(a) + 1 <= Len(c) THEN Len(c) - (Len(a) + 1) + 1 ELSE 0
      /\ \A i \in 1..(Len(c) - (Len(a) + 1) + 1) : t[i] = c[(Len(a) + 1) + i - 1]
  <2>1. Len(a) + 1 \in Int /\ Len(c) \in Int  BY <1>1
  <2> QED  BY <1>2, <2>1, SubSeqProperties
<1>4. Len(t) = Len(b)  BY <1>1, <1>3
<1>5. ASSUME NEW i \in 1..Len(b) PROVE t[i] = b[i]
  <2>1. /\ i \in 1..(Len(c) - (Len(a) + 1) + 1) /\ (Len(a) + 1) + i - 1 = Len(a) + i
        /\ Len(a) + i \in 1..(Len(a) + Len(b)) /\ ~(Len(a) + i <= Len(a))
        /\ (Len(a) + i) - Len(a) = i
    BY <1>1
  <2>2. t[i] = c[Len(a) + i]  BY <1>3, <2>1
  <2>3. c[Len(a) + i] = b[(Len(a) + i) - Len(a)]  BY <1>1, <2>1
  <2> QED  BY <2>1, <2>2, <2>3
<1> QED  BY <1>3, <1>4, <1>5, SeqEqual

(* RootsBefore[n] has the roots of the first n batches: as many as the last  *)
(* of them ends at.                                                          *)
RootsBeforeOK ==
    /\ RootsBefore[0] = <<>>
    /\ \A n \in 1..batches.length : RootsBefore[n] = RootsBefore[n - 1] \o Hash(n - 1).batchRoot
    /\ \A n \in 0..batches.length :
          /\ RootsBefore[n] \in Seq(Root)
          /\ Len(RootsBefore[n]) = IF n = 0 THEN 0 ELSE EndOf(n - 1)

(* The recursion that defines the log computes the roots of the batches.     *)
LEMMA RootsBeforeIsOK == IInv => RootsBeforeOK
<1> SUFFICES ASSUME IInv PROVE RootsBeforeOK  OBVIOUS
<1> DEFINE L == batches.length
           Good(n) == /\ RootsBefore[n] \in Seq(Root)
                      /\ Len(RootsBefore[n]) = IF n = 0 THEN 0 ELSE EndOf(n - 1)
           T == {n \in 0..L : ~Good(n)}
<1>1. L \in Nat /\ L \in 0..MaxLength
  BY MaxLengthAssumption DEF IInv, TypeOK, Buffer
<1>2. RootsBefore = [n \in 0..L |->
                       IF n = 0 THEN <<>> ELSE RootsBefore[n - 1] \o batches.buf[n - 1].batchRoot]
  <2> DEFINE g == [n \in 1..L |-> batches.buf[n - 1].batchRoot]
  <2>1. PICK f : IsConcat(f, L, g)  BY <1>1, ConcatExists, Zenon
  <2>2. \A n \in 0..L : n # 0 => g[n] = batches.buf[n - 1].batchRoot  BY <1>1
  <2> HIDE DEF g, T, L
  <2>3. f = [n \in 0..L |-> IF n = 0 THEN <<>> ELSE f[n - 1] \o batches.buf[n - 1].batchRoot]
    BY <2>1, <2>2, Zenon DEF IsConcat
  <2> QED  BY <2>3, Zenon DEF RootsBefore, Hash, L
<1>3. RootsBefore[0] = <<>>
  <2>1. 0 \in 0..L  BY <1>1, SMTT(30)
  <2> QED  BY <1>2, <2>1
<1>4. ASSUME NEW n \in 1..L PROVE RootsBefore[n] = RootsBefore[n - 1] \o Hash(n - 1).batchRoot
  <2>1. n \in 0..L /\ n # 0  BY <1>1
  <2> QED  BY <1>2, <2>1, Zenon DEF Hash
<1>5. T = {}
  <2> SUFFICES ASSUME T # {} PROVE FALSE  OBVIOUS
  <2>1. T \in SUBSET Nat  BY <1>1
  <2>2. PICK n \in T : \A m \in T : n <= m  BY <2>1, LeastNatural, Zenon
  <2>3. n # 0
    <3>1. Good(0)  BY <1>3
    <3> HIDE DEF Good
    <3> QED  BY <2>2, <3>1
  <2>4. n \in 1..L /\ n - 1 \in 0..L /\ n - 1 \notin T /\ n \in Nat  BY <1>1, <2>1, <2>2, <2>3
  <2>5. n - 1 \in Live(batches)
    BY <1>1, <2>4, MaxLengthAssumption DEF Live, Slots
  <2>6. /\ RootsBefore[n - 1] \in Seq(Root)
        /\ Len(RootsBefore[n - 1]) = IF n - 1 = 0 THEN 0 ELSE EndOf(n - 2)
    BY <2>4
  <2>7. Hash(n - 1).prevTotalElements = IF n - 1 = 0 THEN 0 ELSE EndOf(n - 2)
    BY <2>4, <2>5 DEF IInv, BatchesPartitionElements
  <2>8. /\ Hash(n - 1).batchRoot \in Seq(Root)
        /\ EndOf(n - 1) = Hash(n - 1).prevTotalElements + Len(Hash(n - 1).batchRoot)
    BY <2>5, LiveBatch
  <2>9. RootsBefore[n] = RootsBefore[n - 1] \o Hash(n - 1).batchRoot  BY <1>4, <2>4, Zenon
  <2>10. RootsBefore[n] \in Seq(Root)  BY <2>6, <2>8, <2>9
  <2>11. Len(RootsBefore[n]) = EndOf(n - 1)
    <3>1. Len(RootsBefore[n]) = Len(RootsBefore[n - 1]) + Len(Hash(n - 1).batchRoot)
      <4> HIDE DEF T
      <4>1. \A a, b \in Seq(Root) : Len(a \o b) = Len(a) + Len(b)  BY ConcatProperties
      <4> QED  BY <2>6, <2>8, <2>9, <4>1, Zenon
    <3>2. Len(RootsBefore[n - 1]) = Hash(n - 1).prevTotalElements  BY <2>6, <2>7
    <3> QED  BY <2>8, <3>1, <3>2
  <2> QED  BY <2>2, <2>3, <2>10, <2>11
<1> QED  BY <1>3, <1>4, <1>5, Zenon DEF RootsBeforeOK

(* What the instance of StateLog has for its variables.                      *)
Log == RootsBefore[batches.length]
FinalLength == IF FinalBatches = {} THEN 0
               ELSE EndOf(CHOOSE i \in FinalBatches : \A j \in FinalBatches : j <= i)

(* The log has one root for each element that the contract counts.           *)
LEMMA LogLength == IInv => Log \in Seq(Root) /\ Len(Log) = getTotalElements
<1> SUFFICES ASSUME IInv PROVE Log \in Seq(Root) /\ Len(Log) = getTotalElements  OBVIOUS
<1>1. batches.length \in 0..batches.length
  BY MaxLengthAssumption DEF IInv, TypeOK, Buffer
<1>2. RootsBeforeOK  BY RootsBeforeIsOK
<1> QED  BY <1>1, <1>2 DEF Log, RootsBeforeOK, IInv, BatchesPartitionElements

(* The roots before a batch are a prefix of the log.                         *)
LEMMA RootsPrefix ==
    ASSUME IInv, NEW m \in 0..batches.length
    PROVE  /\ RootsBefore[m] = SubSeq(Log, 1, Len(RootsBefore[m]))
           /\ Len(RootsBefore[m]) \in 0..Len(Log)
<1> DEFINE L == batches.length
           Extends(n) == /\ Len(RootsBefore[m]) <= Len(RootsBefore[n])
                         /\ \A i \in 1..Len(RootsBefore[m]) : RootsBefore[n][i] = RootsBefore[m][i]
           T == {n \in m..L : ~Extends(n)}
<1>1. L \in Nat /\ L \in 0..MaxLength /\ m \in Nat
  BY MaxLengthAssumption DEF IInv, TypeOK, Buffer
<1>2. /\ \A n \in 1..L : RootsBefore[n] = RootsBefore[n - 1] \o Hash(n - 1).batchRoot
      /\ \A n \in 0..L : RootsBefore[n] \in Seq(Root) /\ Len(RootsBefore[n]) \in Nat
  <2>1. /\ \A n \in 1..L : RootsBefore[n] = RootsBefore[n - 1] \o Hash(n - 1).batchRoot
        /\ \A n \in 0..L : RootsBefore[n] \in Seq(Root)
    <3> HIDE DEF T
    <3>1. RootsBeforeOK  BY RootsBeforeIsOK
    <3> QED  BY <3>1, Zenon DEF RootsBeforeOK
  <2>2. \A n \in 0..L : Len(RootsBefore[n]) \in Nat  BY <2>1, LenProperties
  <2> QED  BY <2>1, <2>2, Zenon
<1>3. Extends(m)
  <2>1. Len(RootsBefore[m]) \in Nat  BY <1>2
  <2> QED  BY <2>1
<1> HIDE DEF Extends
<1>4. T = {}
  <2> SUFFICES ASSUME T # {} PROVE FALSE  OBVIOUS
  <2>1. T \in SUBSET Nat  BY <1>1
  <2>2. PICK n \in T : \A k \in T : n <= k  BY <2>1, LeastNatural, Zenon
  <2>3. n # m  BY <1>3, <2>2
  <2>4. n \in 1..L /\ n - 1 \in m..L /\ n - 1 \in 0..L /\ n - 1 \notin T  BY <1>1, <2>2, <2>3
  <2>5. Extends(n - 1)  BY <2>4
  <2>6. n - 1 \in Live(batches)
    BY <1>1, <2>4, MaxLengthAssumption DEF Live, Slots
  <2>7. PICK a, b, c : a = RootsBefore[n - 1] /\ b = Hash(n - 1).batchRoot /\ c = RootsBefore[n]
    OBVIOUS
  <2>8. a \in Seq(Root) /\ b \in Seq(Root) /\ c = a \o b
    BY <1>2, <2>4, <2>6, <2>7, LiveBatch, Zenon
  <2>9. /\ Len(c) = Len(a) + Len(b)
        /\ \A i \in 1..Len(a) : c[i] = a[i]
        /\ Len(a) \in Nat /\ Len(b) \in Nat
    <3> HIDE DEF T
    <3> QED  BY <2>8, ConcatProperties
  <2>10. Len(RootsBefore[m]) \in Nat  BY <1>2
  <2>11. Extends(n)
    <3> HIDE DEF T
    <3>1. /\ Len(RootsBefore[m]) <= Len(a)
          /\ \A i \in 1..Len(RootsBefore[m]) : a[i] = RootsBefore[m][i]
      BY <2>5, <2>7 DEF Extends
    <3>2. /\ Len(RootsBefore[m]) <= Len(c)
          /\ \A i \in 1..Len(RootsBefore[m]) : c[i] = RootsBefore[m][i]
      BY <2>9, <2>10, <3>1
    <3> QED  BY <2>7, <3>2 DEF Extends
  <2> QED  BY <2>2, <2>11
<1>5. Extends(L)  BY <1>1, <1>4
<1> HIDE DEF T
<1>6. PICK r, k : r = RootsBefore[m] /\ k = Len(RootsBefore[m])  BY Zenon
<1>7. r \in Seq(Root) /\ k \in Nat /\ Log \in Seq(Root) /\ Len(Log) \in Nat
  BY <1>2, <1>6, LogLength
<1>8. k <= Len(Log) /\ \A i \in 1..k : Log[i] = r[i]  BY <1>5, <1>6 DEF Extends, Log
<1>9. /\ SubSeq(Log, 1, k) \in Seq(Root)
      /\ Len(SubSeq(Log, 1, k)) = k
      /\ \A i \in 1..k : SubSeq(Log, 1, k)[i] = Log[i]
  <2>1. \A i \in 1..k : Log[i] \in Root  BY <1>7, <1>8
  <2> QED  BY <1>7, <2>1, SubSeqProperties
<1>10. r = SubSeq(Log, 1, k)  BY <1>6, <1>7, <1>8, <1>9, SeqEqual
<1> QED  BY <1>6, <1>7, <1>8, <1>10

(* Batches that stay as they were contribute the roots that they had.        *)
LEMMA SameRootsBefore ==
    ASSUME IInv, IInv', NEW K \in Nat, K <= batches.length, K <= batches'.length,
           \A i \in 0..(K - 1) : Hash(i)' = Hash(i)
    PROVE  \A n \in 0..K : RootsBefore'[n] = RootsBefore[n]
<1> DEFINE T == {n \in 0..K : RootsBefore'[n] # RootsBefore[n]}
<1>1. batches.length \in Nat /\ batches'.length \in Nat
  BY MaxLengthAssumption DEF IInv, TypeOK, Buffer
<1>2. RootsBeforeOK /\ RootsBeforeOK'  BY RootsBeforeIsOK, PTL
<1>3. /\ RootsBefore[0] = <<>>
      /\ \A n \in 1..batches.length : RootsBefore[n] = RootsBefore[n - 1] \o Hash(n - 1).batchRoot
      /\ RootsBefore'[0] = <<>>
      /\ \A n \in 1..batches'.length :
            RootsBefore'[n] = RootsBefore'[n - 1] \o batches'.buf[n - 1].batchRoot
  BY <1>2, Zenon DEF RootsBeforeOK, Hash
<1>4. T = {}
  <2> SUFFICES ASSUME T # {} PROVE FALSE  OBVIOUS
  <2>1. T \in SUBSET Nat  OBVIOUS
  <2>2. PICK n \in T : \A k \in T : n <= k  BY <2>1, LeastNatural, Zenon
  <2>3. n # 0  BY <1>3, <2>2
  <2>4. /\ n \in 1..batches.length /\ n \in 1..batches'.length
        /\ n - 1 \in 0..K /\ n - 1 \in 0..(K - 1) /\ n - 1 \notin T
    BY <1>1, <2>2, <2>3
  <2>5. RootsBefore'[n - 1] = RootsBefore[n - 1]  BY <2>4
  <2>6. batches'.buf[n - 1].batchRoot = Hash(n - 1).batchRoot  BY <2>4 DEF Hash
  <2>7. RootsBefore'[n] = RootsBefore[n]  BY <1>3, <2>4, <2>5, <2>6, Zenon
  <2> QED  BY <2>2, <2>7
<1> QED  BY <1>4

(* The final prefix ends where the last batch whose window has closed does.  *)
FinalLengthOK ==
    IF FinalBatches = {} THEN FinalLength = 0
    ELSE \E i \in FinalBatches : FinalLength = EndOf(i) /\ \A j \in FinalBatches : j <= i

(* The final prefix ends where the last final batch does.                    *)
LEMMA FinalLengthIsOK == IInv => FinalLengthOK
<1> SUFFICES ASSUME IInv, FinalBatches # {}
             PROVE  \E i \in FinalBatches :
                        FinalLength = EndOf(i) /\ \A j \in FinalBatches : j <= i
  BY DEF FinalLengthOK, FinalLength
<1> DEFINE T == {batches.length - i : i \in FinalBatches}
<1>1. \A i \in FinalBatches : i \in Nat /\ i < batches.length /\ batches.length \in Nat
  BY LiveBatch DEF FinalBatches
<1>2. T \in SUBSET Nat /\ T # {}  BY <1>1
<1>3. PICK t \in T : \A u \in T : t <= u  BY <1>2, LeastNatural, Zenon
<1>4. PICK m \in FinalBatches : t = batches.length - m  BY <1>3
<1>5. \A j \in FinalBatches : j <= m
  <2> SUFFICES ASSUME NEW j \in FinalBatches PROVE j <= m  OBVIOUS
  <2>1. batches.length - m <= batches.length - j  BY <1>3, <1>4
  <2> QED  BY <1>1, <2>1
<1> DEFINE last == CHOOSE i \in FinalBatches : \A j \in FinalBatches : j <= i
<1>6. FinalLength = EndOf(last)  BY DEF FinalLength
<1>7. last \in FinalBatches /\ \A j \in FinalBatches : j <= last  BY <1>5
<1> HIDE DEF last
<1> QED  BY <1>6, <1>7

(* A later batch ends later.                                                 *)
EndsOrdered == \A i, j \in Live(batches) : i <= j => EndOf(i) <= EndOf(j)

(* The partition orders the ends of the batches.                             *)
LEMMA EndsInOrder == IInv => EndsOrdered
<1> SUFFICES ASSUME IInv, NEW i \in Live(batches), NEW j \in Live(batches), i <= j
             PROVE  EndOf(i) <= EndOf(j)
  BY DEF EndsOrdered
<1>1. /\ i \in Nat /\ j \in Nat /\ EndOf(i) \in Nat /\ EndOf(j) \in Nat
      /\ Hash(j).prevTotalElements \in Nat /\ Hash(j).batchSize \in Nat
      /\ EndOf(j) = Hash(j).prevTotalElements + Hash(j).batchSize
  BY LiveBatch, SCCAssumption
<1>2. CASE i < j
  <2>1. EndOf(i) <= Hash(j).prevTotalElements  BY <1>2 DEF IInv, BatchesOrdered
  <2> QED  BY <1>1, <2>1
<1>3. CASE i = j
  <2>1. EndOf(i) = EndOf(j)  BY <1>3
  <2> QED  BY <1>1, <2>1
<1> QED  BY <1>1, <1>2, <1>3

(* The final prefix is part of the log.                                      *)
LEMMA FinalLengthType == IInv => FinalLength \in 0..getTotalElements
<1> SUFFICES ASSUME IInv PROVE FinalLength \in 0..getTotalElements  OBVIOUS
<1>1. getTotalElements \in Nat  BY DEF IInv, TypeOK, getTotalElements, Buffer, ExtraData
<1>2. FinalLengthOK  BY FinalLengthIsOK
<1>3. FinalBatches \subseteq Live(batches)  BY DEF FinalBatches
<1> QED  BY <1>1, <1>2, <1>3, LiveBatch DEF FinalLengthOK

(* The final prefix only depends on the final batches, and grows with them.  *)
LEMMA FinalLengthGrows ==
    ASSUME IInv, IInv', FinalBatches \subseteq FinalBatches',
           \A i \in FinalBatches : EndOf(i)' = EndOf(i)
    PROVE  FinalLength <= FinalLength'
<1>1. FinalLengthOK /\ FinalLengthOK'  BY FinalLengthIsOK, PTL
<1>2. FinalLength \in Nat  BY FinalLengthType DEF IInv, TypeOK, getTotalElements, Buffer, ExtraData
<1>3. FinalLength' \in Nat
  <2>1. (FinalLength \in 0..getTotalElements)'  BY FinalLengthType, PTL
  <2> QED  BY <2>1 DEF IInv, TypeOK, getTotalElements, Buffer, ExtraData
<1>4. CASE FinalBatches = {}  BY <1>1, <1>3, <1>4 DEF FinalLengthOK
<1>5. CASE FinalBatches # {}
  <2>1. PICK i \in FinalBatches : FinalLength = EndOf(i)  BY <1>1, <1>5 DEF FinalLengthOK
  <2>2. PICK k \in FinalBatches' : /\ FinalLength' = EndOf(k)'
                                   /\ \A j \in FinalBatches' : j <= k
    BY <1>1, <1>5 DEF FinalLengthOK
  <2>3. i \in Live(batches)' /\ k \in Live(batches)' /\ i <= k
    BY <2>1, <2>2 DEF FinalBatches
  <2>4. EndsOrdered'  BY EndsInOrder, PTL
  <2>5. EndOf(i)' <= EndOf(k)'  BY <2>3, <2>4 DEF EndsOrdered
  <2> QED  BY <2>1, <2>2, <2>5
<1> QED  BY <1>4, <1>5

(* The same final batches make the same final prefix.                        *)
LEMMA FinalLengthStays ==
    ASSUME IInv, IInv', FinalBatches' = FinalBatches,
           \A i \in FinalBatches : EndOf(i)' = EndOf(i)
    PROVE  FinalLength' = FinalLength
<1>1. FinalLengthOK /\ FinalLengthOK'  BY FinalLengthIsOK, PTL
<1>2. CASE FinalBatches = {}  BY <1>1, <1>2 DEF FinalLengthOK
<1>3. CASE FinalBatches # {}
  <2>1. PICK i \in FinalBatches : /\ FinalLength = EndOf(i)
                                  /\ \A j \in FinalBatches : j <= i
    BY <1>1, <1>3 DEF FinalLengthOK
  <2>2. PICK k \in FinalBatches : /\ FinalLength' = EndOf(k)'
                                  /\ \A j \in FinalBatches : j <= k
    BY <1>1, <1>3 DEF FinalLengthOK
  <2>3. i \in Nat /\ k \in Nat  BY LiveBatch DEF FinalBatches
  <2>4. i = k  BY <2>1, <2>2, <2>3
  <2>5. EndOf(k)' = EndOf(i)  BY <2>1, <2>4
  <2> QED  BY <2>1, <2>2, <2>5
<1> QED  BY <1>2, <1>3

(* appendStateBatch appends the roots of the batch to the log.               *)
LEMMA AppendRefines ==
    ASSUME IInv, NEW batch \in Batch, NEW start \in 0..MaxElements,
           AppendStateBatch(batch, start)
    PROVE  StateLog!Next
<1> PICK n : n = batches.length  OBVIOUS
<1>1. /\ IInv'
      /\ batches'.length = n + 1
      /\ Live(batches)' = Live(batches) \cup {n}
      /\ \A i \in Live(batches) : Hash(i)' = Hash(i) /\ EndOf(i)' = EndOf(i)
      /\ Hash(n)'.batchRoot = batch
      /\ EndOf(n)' = getTotalElements'
      /\ getTotalElements' = getTotalElements + Len(batch)
  BY AppendIInv
<1>2. Len(batch) > 0 /\ UNCHANGED <<fraudProofWindow, now>>  BY DEF AppendStateBatch
<1>3. n \in Nat /\ Live(batches) = 0..(n - 1)
  BY MaxLengthAssumption DEF IInv, TypeOK, Buffer, Live, Slots
<1>4. /\ Log \in Seq(Root) /\ Len(Log) = getTotalElements /\ Len(Log) \in Nat
      /\ batch \in Seq(Root) /\ Len(batch) \in Nat
      /\ Len(Log') = getTotalElements'
  <2>1. (Log \in Seq(Root) /\ Len(Log) = getTotalElements)'  BY <1>1, LogLength, PTL
  <2> QED  BY <2>1, LogLength, LenProperties, BatchIsSeq
<1>5. Log' = Log \o batch
  <2>1. RootsBefore'[n] = Log
    <3>1. \A m \in 0..n : RootsBefore'[m] = RootsBefore[m]
      BY <1>1, <1>3, SameRootsBefore, SMTT(30)
    <3> QED  BY <1>3, <3>1 DEF Log
  <2>2. RootsBeforeOK'  BY <1>1, RootsBeforeIsOK, PTL
  <2>3. RootsBefore'[n + 1] = RootsBefore'[n] \o batch
    <3>1. n + 1 \in 1..batches'.length /\ (n + 1) - 1 = n  BY <1>1, <1>3
    <3>2. \A k \in 1..batches'.length :
             RootsBefore'[k] = RootsBefore'[k - 1] \o batches'.buf[k - 1].batchRoot
      BY <2>2, Zenon DEF RootsBeforeOK, Hash
    <3>3. batches'.buf[n].batchRoot = batch  BY <1>1 DEF Hash
    <3> QED  BY <3>1, <3>2, <3>3, Zenon
  <2> QED  BY <1>1, <2>1, <2>3 DEF Log
<1>6. SubSeq(Log', Len(Log) + 1, Len(Log')) = batch
  BY <1>4, <1>5, ConcatTail
<1>7. FinalLength' \in {FinalLength, Len(Log')}
  <2>1. \A i \in Live(batches) : Final(i)' = Final(i)
    BY <1>1, <1>2 DEF Final, insideFraudProofWindow
  <2>2. CASE n \in FinalBatches'
    <3>1. PICK k \in FinalBatches' : /\ FinalLength' = EndOf(k)'
                                     /\ \A j \in FinalBatches' : j <= k
      <4>1. FinalLengthOK'  BY <1>1, FinalLengthIsOK, PTL
      <4> QED  BY <2>2, <4>1 DEF FinalLengthOK
    <3>2. k = n
      <4>1. k \in 0..n /\ n <= k  BY <1>1, <1>3, <2>2, <3>1 DEF FinalBatches
      <4> QED  BY <1>3, <4>1
    <3>3. EndOf(k)' = EndOf(n)'  BY <3>2
    <3> QED  BY <1>1, <1>4, <3>1, <3>3
  <2>3. CASE n \notin FinalBatches'
    <3>1. FinalBatches' = FinalBatches  BY <1>1, <2>1, <2>3 DEF FinalBatches
    <3>2. \A i \in FinalBatches : EndOf(i)' = EndOf(i)  BY <1>1 DEF FinalBatches
    <3> QED  BY <1>1, <3>1, <3>2, FinalLengthStays
  <2> QED  BY <2>2, <2>3
<1>8. Len(Log') > Len(Log)  BY <1>1, <1>2, <1>4
<1>9. StateLog!AppendRoots(SubSeq(Log', Len(Log) + 1, Len(Log')))
  BY <1>5, <1>6, <1>7, Zenon DEF StateLog!AppendRoots, Log, FinalLength
<1> QED  BY <1>8, <1>9 DEF StateLog!Next, Log

(* deleteStateBatch removes the end of the log that begins with the batch,   *)
(* and none of the final prefix.                                             *)
LEMMA DeleteRefines ==
    ASSUME IInv, NEW h \in Headers, DeleteStateBatch(h)
    PROVE  StateLog!Next
<1> PICK k : k = h.batchIndex  OBVIOUS
<1>1. /\ IInv'
      /\ k \in Live(batches)
      /\ Live(batches)' = {j \in Live(batches) : j < k}
      /\ batches'.length = k
      /\ batches'.buf = batches.buf
      /\ Hash(k) = h.hash
      /\ UNCHANGED <<fraudProofWindow, now>>
  BY DeleteIInv DEF DeleteStateBatch
<1>2. k \in Nat /\ k < batches.length /\ batches.length \in Nat  BY <1>1, LiveBatch
<1> DEFINE n == Len(RootsBefore[k])
<1>3. Log' = RootsBefore[k]
  <2>1. \A i \in 0..(k - 1) : Hash(i)' = Hash(i)  BY <1>1 DEF Hash
  <2>2. \A m \in 0..k : RootsBefore'[m] = RootsBefore[m]
    BY <1>1, <1>2, <2>1, SameRootsBefore
  <2> QED  BY <1>1, <1>2, <2>2 DEF Log
<1>4. RootsBefore[k] = SubSeq(Log, 1, n) /\ n \in 0..Len(Log)  BY <1>2, RootsPrefix
<1>5. \A i \in FinalBatches : i < k /\ i \in Live(batches)
  BY FinalBelowDeleted DEF FinalBatches
<1>6. FinalLength' = FinalLength
  <2>1. \A i \in Live(batches) : Final(i)' = Final(i) /\ EndOf(i)' = EndOf(i)
    BY <1>1 DEF Final, insideFraudProofWindow, Hash, EndOf
  <2>2. FinalBatches' = FinalBatches  BY <1>1, <1>5, <2>1 DEF FinalBatches
  <2> QED  BY <1>1, <1>5, <2>1, <2>2, FinalLengthStays
<1>7. FinalLength <= n
  <2>1. n = IF k = 0 THEN 0 ELSE EndOf(k - 1)
    BY <1>2, RootsBeforeIsOK DEF RootsBeforeOK
  <2>2. Hash(k).prevTotalElements = n  BY <1>1, <2>1 DEF IInv, BatchesPartitionElements
  <2>3. FinalLengthOK  BY FinalLengthIsOK
  <2>4. CASE FinalBatches = {}
    <3>1. FinalLength = 0 /\ Hash(k).prevTotalElements \in Nat
      BY <1>1, <2>3, <2>4, LiveBatch DEF FinalLengthOK
    <3> QED  BY <2>2, <3>1
  <2>5. CASE FinalBatches # {}
    <3>1. PICK i \in FinalBatches : FinalLength = EndOf(i)  BY <2>3, <2>5 DEF FinalLengthOK
    <3>2. EndOf(i) <= Hash(k).prevTotalElements
      BY <1>1, <1>5, <3>1 DEF IInv, BatchesOrdered
    <3> QED  BY <2>2, <3>1, <3>2
  <2> QED  BY <2>4, <2>5
<1>8. FinalLength \in Nat /\ n \in Nat /\ Len(Log) \in Nat
  <2>1. getTotalElements \in Nat  BY DEF IInv, TypeOK, getTotalElements, Buffer, ExtraData
  <2> QED  BY <1>4, <2>1, FinalLengthType, LogLength
<1> HIDE DEF n
<1>9. n \in FinalLength..Len(Log) /\ n \in 0..Len(Log)  BY <1>4, <1>7, <1>8
<1>10. StateLog!RollBack(n)
  BY <1>3, <1>4, <1>6, <1>9 DEF StateLog!RollBack, Log, FinalLength
<1> QED  BY <1>9, <1>10 DEF StateLog!Next, Log

(* Time and the window only move the end of the final prefix.                *)
LEMMA OtherRefines ==
    ASSUME IInv, IInv', UNCHANGED batches, now <= now'
    PROVE  StateLog!Next
<1>1. Log' = Log /\ (\A i : EndOf(i)' = EndOf(i)) /\ Live(batches)' = Live(batches)
  <2>1. batches.length \in Nat /\ \A i : Hash(i)' = Hash(i) /\ EndOf(i)' = EndOf(i)
    BY MaxLengthAssumption DEF IInv, TypeOK, Buffer, Hash, EndOf
  <2>2. \A m \in 0..batches.length : RootsBefore'[m] = RootsBefore[m]
    BY <2>1, SameRootsBefore
  <2> QED  BY <2>1, <2>2 DEF Log, Live
<1>2. /\ FinalLength \in Nat /\ FinalLength' \in Nat /\ Len(Log) \in Nat
      /\ FinalLength <= Len(Log) /\ FinalLength' <= Len(Log)
  <2>1. getTotalElements \in Nat /\ getTotalElements' = getTotalElements
    BY DEF IInv, TypeOK, getTotalElements, Buffer, ExtraData
  <2>2. (FinalLength \in 0..getTotalElements)'  BY FinalLengthType, PTL
  <2> QED  BY <2>1, <2>2, FinalLengthType, LogLength
<1>3. \A i \in Live(batches) : /\ Hash(i).timestamp \in Nat /\ Hash(i)' = Hash(i)
                               /\ now \in Nat /\ now' \in Nat
                               /\ fraudProofWindow \in Nat /\ fraudProofWindow' \in Nat
  BY LiveBatch DEF IInv, TypeOK, Hash
<1>4. CASE fraudProofWindow' <= fraudProofWindow
  <2>1. ASSUME NEW i \in FinalBatches PROVE i \in FinalBatches'
    BY <1>1, <1>3, <1>4 DEF FinalBatches, Final, insideFraudProofWindow
  <2>2. FinalLength <= FinalLength'  BY <1>1, <2>1, FinalLengthGrows
  <2>3. FinalLength' \in FinalLength..Len(Log)  BY <1>2, <2>2
  <2>4. StateLog!Finalize  BY <1>1, <2>3 DEF StateLog!Finalize, Log, FinalLength
  <2> QED  BY <2>4 DEF StateLog!Next
<1>5. CASE ~(fraudProofWindow' <= fraudProofWindow)
  <2>1. CASE FinalLength' <= FinalLength
    <3>1. FinalLength' \in 0..FinalLength  BY <1>2, <2>1
    <3>2. StateLog!Reopen  BY <1>1, <3>1 DEF StateLog!Reopen, Log, FinalLength
    <3> QED  BY <3>2 DEF StateLog!Next
  <2>2. CASE ~(FinalLength' <= FinalLength)
    <3>1. FinalLength' \in FinalLength..Len(Log)  BY <1>2, <2>2
    <3>2. StateLog!Finalize  BY <1>1, <3>1 DEF StateLog!Finalize, Log, FinalLength
    <3> QED  BY <3>2 DEF StateLog!Next
  <2> QED  BY <2>1, <2>2
<1> QED  BY <1>4, <1>5

(* The slots and the metadata implement a log of state roots: appends add at *)
(* its end, deletions remove a suffix that is not final, and nothing else    *)
(* changes it, for every order of appends, deletions and window changes.     *)
THEOREM Refinement == Spec => ImplementsStateLog
<1>1. Init => StateLog!Init
  <2> SUFFICES ASSUME Init PROVE StateLog!Init  OBVIOUS
  <2>1. IInv /\ batches.length = 0  BY InitIInv DEF Init, EmptyBuffer
  <2>2. Live(batches) = {}  BY <2>1, MaxLengthAssumption DEF Live, Slots
  <2>3. FinalLength = 0  BY <2>2 DEF FinalLength, FinalBatches
  <2>4. Log = <<>>  BY <2>1, RootsBeforeIsOK DEF RootsBeforeOK, Log
  <2> QED  BY <2>3, <2>4 DEF StateLog!Init, Log, FinalLength
<1>2. IInv /\ [Next]_vars => [StateLog!Next]_<<Log, FinalLength>>
  <2> SUFFICES ASSUME IInv, [Next]_vars PROVE StateLog!Next  OBVIOUS
  <2>1. IInv'  BY NextIInv
  <2>2. now \in Nat  BY DEF IInv, TypeOK
  <2>3. ASSUME NEW batch \in Batch, NEW start \in 0..MaxElements, AppendStateBatch(batch, start)
        PROVE  StateLog!Next
    BY <2>3, AppendRefines
  <2>4. ASSUME NEW h \in Headers, DeleteStateBatch(h) PROVE StateLog!Next
    BY <2>4, DeleteRefines
  <2>5. ASSUME NEW window \in Windows, SetFraudProofWindow(window) PROVE StateLog!Next
    BY <2>1, <2>2, <2>5, OtherRefines DEF SetFraudProofWindow
  <2>6. ASSUME NEW n \in 1..MaxBatchSize, CTCAppend(n) PROVE StateLog!Next
    BY <2>1, <2>2, <2>6, OtherRefines DEF CTCAppend
  <2>7. CASE Tick  BY <2>1, <2>2, <2>7, OtherRefines DEF Tick
  <2>8. CASE UNCHANGED vars  BY <2>1, <2>2, <2>8, OtherRefines DEF vars
  <2> QED  BY <2>3, <2>4, <2>5, <2>6, <2>7, <2>8 DEF Next
<1> QED  BY <1>1, <1>2, Invariant, PTL
         DEF Spec, ImplementsStateLog, StateLog!Spec, Log, FinalLength
=============================================================================
