------------------- MODULE CanonicalTransactionChainProofs -------------------
(***************************************************************************)
(* What holds of the canonical transaction chain for every set of L1        *)
(* transactions and every bound on the batches of the sequencer.            *)
(***************************************************************************)
EXTENDS CanonicalTransactionChain, FiniteSetTheorems, SequenceTheorems, WellFoundedInduction, TLAPS

IInv == TypeOK /\ CursorsAgree

-----------------------------------------------------------------------------

(* A step enqueues, appends a batch that the submitter makes, or lets time   *)
(* pass.                                                                     *)
LEMMA NextCases ==
    ASSUME [Next]_vars
    PROVE  \/ \E tx \in Tx : Enqueue(tx)
           \/ \E cs \in Contexts, start \in 0..MaxElements, total \in 1..MaxElements :
                 WellFormed(total, cs) /\ AppendSequencerBatch(start, total, cs)
           \/ Tick
           \/ UNCHANGED vars
<1>1. ASSUME NEW b \in Batches, NEW start \in 0..MaxElements,
             AppendSequencerBatch(start, b.total, b.contexts)
      PROVE  \E cs \in Contexts, total \in 1..MaxElements :
                WellFormed(total, cs) /\ AppendSequencerBatch(start, total, cs)
  <2>1. b.total \in 1..MaxElements /\ b.contexts \in Contexts /\ WellFormed(b.total, b.contexts)
    BY DEF Batches
  <2> QED  BY <1>1, <2>1, Zenon
<1> QED  BY <1>1, Zenon DEF Next

(* The number of transactions a list of contexts stands for is a natural    *)
(* number, and not zero when one of the contexts counts a queue element.    *)
LEMMA ContextSums ==
    ASSUME NEW cs \in Contexts
    PROVE  /\ Len(cs) \in Nat \ {0}
           /\ \A i \in 1..Len(cs) : cs[i] \in BatchContext
           /\ NumSequenced(cs) \in Nat
           /\ NumQueued(cs) \in Nat
           /\ \A i \in 1..Len(cs) :
                 cs[i].numSubsequentQueueTransactions # 0 => NumQueued(cs) # 0
<1> USE CTCAssumption
<1> DEFINE Slot == (1..Len(cs)) \X (1..MaxCount)
           S == {t \in Slot : t[2] <= cs[t[1]].numSequencedTransactions}
           Q == {t \in Slot : t[2] <= cs[t[1]].numSubsequentQueueTransactions}
<1>1. PICK n \in 1..MaxContexts : cs \in [1..n -> BatchContext]  BY DEF Contexts
<1>2. Len(cs) = n /\ n \in Nat \ {0}  BY <1>1
<1>3. IsFiniteSet(1..Len(cs)) /\ IsFiniteSet(1..MaxCount)  BY <1>2, FS_Interval
<1>4. IsFiniteSet(Slot)  BY <1>3, FS_Product, Zenon
<1>5. IsFiniteSet(S) /\ IsFiniteSet(Q)
  <2>1. S \subseteq Slot /\ Q \subseteq Slot  OBVIOUS
  <2> HIDE DEF S, Q, Slot
  <2> QED  BY <1>4, <2>1, FS_Subset
<1>6. NumSequenced(cs) = Cardinality(S) /\ NumQueued(cs) = Cardinality(Q)
  BY DEF NumSequenced, NumQueued
<1>7. Cardinality(S) \in Nat /\ Cardinality(Q) \in Nat  BY <1>5, FS_CardinalityType
<1>8. ASSUME NEW i \in 1..Len(cs), cs[i].numSubsequentQueueTransactions # 0
      PROVE  Cardinality(Q) # 0
  <2>1. cs[i].numSubsequentQueueTransactions \in 1..MaxCount
    BY <1>1, <1>2, <1>8 DEF BatchContext
  <2>2. <<i, 1>> \in Slot /\ 1 <= cs[i].numSubsequentQueueTransactions  BY <2>1
  <2>3. <<i, 1>> \in Q  BY <2>2
  <2> HIDE DEF Q
  <2> QED  BY <2>3, <1>5, FS_EmptySet
<1> QED  BY <1>1, <1>2, <1>6, <1>7, <1>8

(* An empty chain has both cursors at the start.                             *)
LEMMA InitIInv == Init => IInv
<1> SUFFICES ASSUME Init PROVE IInv  OBVIOUS
<1> USE MaxLengthAssumption, CTCAssumption
<1>1. TypeOK  BY DEF Init, TypeOK, EmptyBuffer, Buffer, ExtraData, Slots
<1>2. CursorsAgree
  BY DEF Init, CursorsAgree, getNumPendingQueueElements, EmptyBuffer
<1> QED  BY <1>1, <1>2 DEF IInv

(* A sum less one of its terms is the other.                                 *)
LEMMA SumLess == \A a, b, c \in Int : c = a + b => c - b = a
  OBVIOUS

(* A sum with a positive term that is at most a bound is a position below it. *)
LEMMA PositiveSum == \A a, b, c, n \in Nat : c = a + b /\ b # 0 /\ c <= n => c \in 1..n
  OBVIOUS

(* A batch of the sequencer keeps the cursors together: what the metadata    *)
(* cursor gains, the size of the batch less its sequencer transactions, is   *)
(* what the contexts count in queue elements.                                *)
LEMMA AppendIInv ==
    ASSUME IInv, NEW cs \in Contexts, NEW start \in 0..MaxElements,
           NEW total \in 1..MaxElements, WellFormed(total, cs),
           AppendSequencerBatch(start, total, cs)
    PROVE  IInv'
<1> USE MaxLengthAssumption, CTCAssumption
<1> PICK nextIndex, numQueued, last, ts :
        /\ nextIndex = nextQueueIndex + NumQueued(cs)
        /\ numQueued = total - NumSequenced(cs)
        /\ last = cs[Len(cs)]
        /\ ts = IF last.numSubsequentQueueTransactions = 0 THEN last.timestamp
                ELSE queue[nextIndex].timestamp
    OBVIOUS
<1>1. /\ nextIndex <= Len(queue)
      /\ AppendBatch(total, numQueued, ts)
      /\ appended' = Append(appended,
                        [startingQueueIndex |-> nextIndex - numQueued,
                         numQueueElements |-> numQueued,
                         totalElements |-> getTotalElements + total,
                         contexts |-> cs])
      /\ nextQueueIndex' = nextIndex
      /\ UNCHANGED <<queue, now>>
  BY DEF AppendSequencerBatch
<1>2. /\ queue \in Seq(QueueElement) /\ nextQueueIndex \in Nat
      /\ batches \in Buffer(HeaderHash, ExtraData)
      /\ getTotalElements \in Nat /\ batches.extraData.nextQueueIndex = nextQueueIndex
      /\ appended \in Seq(Event) /\ now \in Nat \ {0}
  BY DEF IInv, TypeOK, CursorsAgree, getTotalElements, Buffer, ExtraData
<1>3. /\ NumSequenced(cs) \in Nat /\ NumQueued(cs) \in Nat
      /\ Len(cs) \in 1..Len(cs)
      /\ last \in BatchContext
      /\ last.numSubsequentQueueTransactions # 0 => NumQueued(cs) # 0
  BY ContextSums
<1>4. numQueued = NumQueued(cs) /\ numQueued \in Nat /\ nextIndex \in Nat /\ total \in Nat
  BY <1>2, <1>3, SMTT(30) DEF WellFormed
<1>5. ts \in Nat
  <2>1. CASE last.numSubsequentQueueTransactions = 0  BY <1>3, <2>1 DEF BatchContext
  <2>2. CASE last.numSubsequentQueueTransactions # 0
    <3>1. nextIndex \in 1..Len(queue)
      <4>1. nextIndex = nextQueueIndex + numQueued /\ numQueued # 0  BY <1>3, <1>4, <2>2
      <4>2. nextQueueIndex \in Nat /\ numQueued \in Nat /\ Len(queue) \in Nat  BY <1>2, <1>4
      <4>3. nextIndex <= Len(queue)  BY <1>1
      <4> HIDE MaxLengthAssumption, CTCAssumption
      <4> QED  BY <4>1, <4>2, <4>3, PositiveSum
    <3>2. queue[nextIndex] \in QueueElement  BY <3>1, <1>2
    <3> QED  BY <2>2, <3>2 DEF QueueElement
  <2> QED  BY <2>1, <2>2
<1>6. /\ batches' \in Buffer(HeaderHash, ExtraData)
      /\ batches'.extraData.nextQueueIndex = nextQueueIndex + numQueued
  <2> DEFINE h == [batchRoot |-> now - 1, batchSize |-> total,
                   prevTotalElements |-> getTotalElements]
             x == [totalElements |-> getTotalElements + total,
                   nextQueueIndex |-> batches.extraData.nextQueueIndex + numQueued,
                   lastTimestamp |-> ts]
  <2>1. h \in HeaderHash /\ x \in ExtraData
    BY <1>2, <1>4, <1>5 DEF HeaderHash, ExtraData
  <2>2. x.nextQueueIndex = nextQueueIndex + numQueued  BY <1>2
  <2>3. CanPush(batches) /\ batches' = push(batches, h, x)  BY <1>1 DEF AppendBatch
  <2> HIDE DEF h, x
  <2>4. /\ batches.buf \in [Slots -> HeaderHash \cup {Zero}]
        /\ batches.length \in Slots /\ batches.length + 1 \in Slots
    BY <1>2, <2>3 DEF Buffer, CanPush, Slots
  <2> QED  BY <2>1, <2>2, <2>3, <2>4 DEF push, Buffer, Slots
<1>7. appended' \in Seq(Event)
  <2>1. nextIndex - numQueued \in Nat
    <3>1. nextIndex = nextQueueIndex + numQueued  BY <1>4
    <3>2. nextQueueIndex \in Nat /\ numQueued \in Nat  BY <1>2, <1>4
    <3> HIDE MaxLengthAssumption, CTCAssumption
    <3> QED  BY <3>1, <3>2, SumLess
  <2>2. getTotalElements + total \in Nat  BY <1>2, <1>4
  <2> DEFINE e == [startingQueueIndex |-> nextIndex - numQueued,
                   numQueueElements |-> numQueued,
                   totalElements |-> getTotalElements + total,
                   contexts |-> cs]
  <2> HIDE MaxLengthAssumption, CTCAssumption
  <2>3. e \in Event  BY <1>4, <2>1, <2>2 DEF Event
  <2>4. appended' = Append(appended, e)  BY <1>1
  <2>5. appended \in Seq(Event)  BY <1>2
  <2> HIDE DEF e
  <2> QED  BY <2>3, <2>4, <2>5
<1>8. TypeOK'  BY <1>1, <1>2, <1>4, <1>6, <1>7 DEF TypeOK
<1>9. CursorsAgree'
  <2>1. Len(queue) \in Nat  BY <1>2
  <2> QED  BY <1>1, <1>2, <1>4, <1>6, <2>1 DEF CursorsAgree, getNumPendingQueueElements
<1> QED  BY <1>8, <1>9 DEF IInv

(* enqueue and appendSequencerBatch keep the types and the cursors together. *)
LEMMA NextIInv == IInv /\ [Next]_vars => IInv'
<1> SUFFICES ASSUME IInv, [Next]_vars PROVE IInv'  OBVIOUS
<1>1. ASSUME NEW tx \in Tx, Enqueue(tx) PROVE IInv'
  <2>1. /\ queue \in Seq(QueueElement) /\ now \in Nat /\ Len(queue) \in Nat
        /\ nextQueueIndex \in Nat
    BY DEF IInv, TypeOK
  <2>2. [transaction |-> tx, timestamp |-> now] \in QueueElement  BY <2>1 DEF QueueElement
  <2>3. queue' \in Seq(QueueElement) /\ Len(queue') = Len(queue) + 1
    BY <1>1, <2>1, <2>2 DEF Enqueue
  <2>4. TypeOK'  BY <1>1, <2>3 DEF Enqueue, IInv, TypeOK
  <2>5. CursorsAgree'
    BY <1>1, <2>1, <2>3 DEF Enqueue, IInv, CursorsAgree, getNumPendingQueueElements
  <2> QED  BY <2>4, <2>5 DEF IInv
<1>2. ASSUME NEW cs \in Contexts, NEW start \in 0..MaxElements, NEW total \in 1..MaxElements,
             WellFormed(total, cs), AppendSequencerBatch(start, total, cs)
      PROVE  IInv'
  BY <1>2, AppendIInv
<1>3. CASE Tick
  BY <1>3 DEF Tick, IInv, TypeOK, CursorsAgree, getNumPendingQueueElements
<1>4. CASE UNCHANGED vars
  BY <1>4 DEF vars, IInv, TypeOK, CursorsAgree, getNumPendingQueueElements
<1> QED  BY <1>1, <1>2, <1>3, <1>4, NextCases

(* The two cursors of the contract agree and stay within the queue, for      *)
(* every list of contexts whose counts add up to the size of the batch.      *)
THEOREM Cursors == Spec => []CursorsAgree
<1> QED  BY InitIInv, NextIInv, PTL DEF Spec, IInv

(* The queue, the cursor, the container and the events keep their types, for *)
(* batches of any form.                                                      *)
THEOREM TypeCorrect == Spec => []TypeOK
<1> QED  BY InitIInv, NextIInv, PTL DEF Spec, IInv

-----------------------------------------------------------------------------
(* The numbers of transactions that contexts stand for.                      *)

\* The transactions that the first i contexts count, where c has the counts.
Counted(c, i) == {t \in (1..i) \X (1..MaxCount) : t[2] <= c[t[1]]}

(* The transactions that contexts count are finitely many.                   *)
LEMMA CountedType ==
    ASSUME NEW c, NEW i \in Nat
    PROVE  IsFiniteSet(Counted(c, i)) /\ Cardinality(Counted(c, i)) \in Nat
<1> DEFINE All == (1..i) \X (1..MaxCount)
<1>1. IsFiniteSet(1..i) /\ IsFiniteSet(1..MaxCount)  BY CTCAssumption, FS_Interval
<1>2. IsFiniteSet(All)  BY <1>1, FS_Product, Zenon
<1>3. Counted(c, i) \in SUBSET All  BY DEF Counted
<1> HIDE DEF All
<1>4. IsFiniteSet(Counted(c, i))  BY <1>2, <1>3, FS_Subset
<1> QED  BY <1>4, FS_CardinalityType

(* One more context counts its own transactions.                             *)
LEMMA CountedNext ==
    ASSUME NEW n \in Nat, NEW c \in [1..n -> 0..MaxCount], NEW i \in 1..n
    PROVE  Cardinality(Counted(c, i)) = Cardinality(Counted(c, i - 1)) + c[i]
<1> DEFINE New == {i} \X (1..c[i])
           Old == Counted(c, i - 1)
<1>1. i - 1 \in Nat /\ c[i] \in Nat /\ c[i] <= MaxCount  BY CTCAssumption
<1>2. IsFiniteSet(Old) /\ Cardinality(Old) \in Nat  BY <1>1, CountedType
<1>3. IsFiniteSet({i}) /\ Cardinality({i}) = 1  BY FS_Singleton, Zenon
<1>4. IsFiniteSet(1..c[i]) /\ Cardinality(1..c[i]) = c[i]  BY <1>1, FS_Interval, SMTT(30)
<1>5. IsFiniteSet(New) /\ Cardinality(New) = c[i]
  <2>1. IsFiniteSet(New) /\ Cardinality(New) = 1 * Cardinality(1..c[i])
    BY <1>3, <1>4, FS_Product, Zenon
  <2> QED  BY <1>1, <1>4, <2>1
<1>6. Counted(c, i) = Old \cup New
  <2>1. ASSUME NEW t \in Counted(c, i) PROVE t \in Old \cup New
    <3>1. PICK a \in 1..i, b \in 1..MaxCount : t = <<a, b>> /\ b <= c[a]
      BY <2>1 DEF Counted
    <3>2. CASE a = i
      <4>1. b \in 1..c[i]  BY <1>1, <3>1, <3>2, CTCAssumption
      <4> QED  BY <3>1, <3>2, <4>1
    <3>3. CASE a # i
      <4>1. a \in 1..(i - 1)  BY <3>3
      <4> QED  BY <3>1, <4>1 DEF Counted
    <3> QED  BY <3>2, <3>3
  <2>2. ASSUME NEW t \in Old PROVE t \in Counted(c, i)
    <3>1. PICK a \in 1..(i - 1), b \in 1..MaxCount : t = <<a, b>> /\ b <= c[a]
      BY <2>2 DEF Counted
    <3>2. a \in 1..i  BY <3>1
    <3> QED  BY <3>1, <3>2 DEF Counted
  <2>3. ASSUME NEW t \in New PROVE t \in Counted(c, i)
    <3>1. PICK b \in 1..c[i] : t = <<i, b>>  BY <2>3
    <3>2. i \in 1..i /\ b \in 1..MaxCount /\ b <= c[i]  BY <1>1, <3>1, CTCAssumption
    <3> QED  BY <3>1, <3>2 DEF Counted
  <2> HIDE DEF Old, New
  <2> QED  BY <2>1, <2>2, <2>3
<1>7. Old \cap New = {}
  <2> SUFFICES ASSUME NEW t \in Old, t \in New PROVE FALSE  OBVIOUS
  <2>1. PICK a \in 1..(i - 1), b \in 1..MaxCount : t = <<a, b>>  BY DEF Counted
  <2>2. PICK b1 \in 1..c[i] : t = <<i, b1>>  OBVIOUS
  <2>3. a = i  BY <2>1, <2>2
  <2> QED  BY <2>1, <2>3
<1> HIDE DEF Old, New
<1>8. Cardinality(Old \cup New) = Cardinality(Old) + Cardinality(New) - Cardinality(Old \cap New)
  BY <1>2, <1>5, FS_Union
<1>9. Cardinality(Old \cap New) = 0  BY <1>7, FS_EmptySet
<1>10. Cardinality(Counted(c, i)) = Cardinality(Old) + c[i]  BY <1>1, <1>2, <1>5, <1>6, <1>8, <1>9
<1> QED  BY <1>10 DEF Old

(* The sums over the first i of the contexts, one more context at a time.    *)
LEMMA PrefixSums ==
    ASSUME NEW cs \in Contexts, NEW i \in 0..Len(cs)
    PROVE  /\ NumSequenced(SubSeq(cs, 1, i)) \in Nat /\ NumQueued(SubSeq(cs, 1, i)) \in Nat
           /\ i = 0 => /\ NumSequenced(SubSeq(cs, 1, i)) = 0
                       /\ NumQueued(SubSeq(cs, 1, i)) = 0
           /\ i # 0 => /\ NumSequenced(SubSeq(cs, 1, i)) =
                             NumSequenced(SubSeq(cs, 1, i - 1)) + cs[i].numSequencedTransactions
                       /\ NumQueued(SubSeq(cs, 1, i)) =
                             NumQueued(SubSeq(cs, 1, i - 1))
                                 + cs[i].numSubsequentQueueTransactions
<1>1. PICK n \in 1..MaxContexts : cs \in [1..n -> BatchContext]  BY DEF Contexts
<1>2. n \in Nat /\ Len(cs) = n  BY <1>1, CTCAssumption
<1> DEFINE s == [k \in 1..n |-> cs[k].numSequencedTransactions]
           q == [k \in 1..n |-> cs[k].numSubsequentQueueTransactions]
<1>3. s \in [1..n -> 0..MaxCount] /\ q \in [1..n -> 0..MaxCount]  BY <1>1 DEF BatchContext
<1>4. ASSUME NEW j \in 0..n
      PROVE  /\ NumSequenced(SubSeq(cs, 1, j)) = Cardinality(Counted(s, j))
             /\ NumQueued(SubSeq(cs, 1, j)) = Cardinality(Counted(q, j))
  <2> PICK p : p = SubSeq(cs, 1, j)  BY Zenon
  <2>1. Len(p) = j /\ \A k \in 1..j : p[k] = cs[k]
    <3>1. \A k \in 1..j : cs[k] \in BatchContext  BY <1>1, <1>2
    <3>2. /\ Len(p) = IF 1 <= j THEN j - 1 + 1 ELSE 0
          /\ \A k \in 1..(j - 1 + 1) : p[k] = cs[1 + k - 1]
      <4>1. 1 \in Int /\ j \in Int  OBVIOUS
      <4> QED  BY <3>1, <4>1, SubSeqProperties
    <3> QED  BY <3>2, <1>2
  <2>2. {t \in (1..Len(p)) \X (1..MaxCount) : t[2] <= p[t[1]].numSequencedTransactions}
            = Counted(s, j)
    <3>1. \A t \in (1..j) \X (1..MaxCount) : p[t[1]].numSequencedTransactions = s[t[1]]
      BY <2>1, <1>2
    <3> QED  BY <2>1, <3>1 DEF Counted
  <2>3. {t \in (1..Len(p)) \X (1..MaxCount) : t[2] <= p[t[1]].numSubsequentQueueTransactions}
            = Counted(q, j)
    <3>1. \A t \in (1..j) \X (1..MaxCount) : p[t[1]].numSubsequentQueueTransactions = q[t[1]]
      BY <2>1, <1>2
    <3> QED  BY <2>1, <3>1 DEF Counted
  <2> QED  BY <2>2, <2>3, Zenon DEF NumSequenced, NumQueued
<1>5. i \in Nat /\ i \in 0..n  BY <1>2
<1>6. Cardinality(Counted(s, i)) \in Nat /\ Cardinality(Counted(q, i)) \in Nat
  BY <1>5, CountedType
<1>7. ASSUME i = 0 PROVE Cardinality(Counted(s, i)) = 0 /\ Cardinality(Counted(q, i)) = 0
  <2>1. \A c : Counted(c, 0) = {}  BY DEF Counted
  <2> QED  BY <1>7, <2>1, FS_EmptySet, Zenon
<1>8. ASSUME i # 0
      PROVE  /\ Cardinality(Counted(s, i)) =
                   Cardinality(Counted(s, i - 1)) + cs[i].numSequencedTransactions
             /\ Cardinality(Counted(q, i)) =
                   Cardinality(Counted(q, i - 1)) + cs[i].numSubsequentQueueTransactions
             /\ i - 1 \in 0..n
  <2>1. i \in 1..n /\ i - 1 \in 0..n  BY <1>5, <1>8, <1>2
  <2>2. s[i] = cs[i].numSequencedTransactions /\ q[i] = cs[i].numSubsequentQueueTransactions
    BY <2>1
  <2> HIDE DEF s, q
  <2> QED  BY <1>2, <1>3, <2>1, <2>2, CountedNext, ZenonT(30)
<1> HIDE DEF s, q
<1> QED  BY <1>4, <1>5, <1>6, <1>7, <1>8

-----------------------------------------------------------------------------
(* The entries of the derived chain.                                         *)

Entry == Nat \cup {Sequenced}

\* The elements of the queue among the entries are the next ones from start.
InOrder(entries, start) ==
    \A k \in 1..Len(entries) : entries[k] # Sequenced =>
        entries[k] = start + TransactionLog!QueueCount(entries, k) - 1

\* Transactions of the sequencer, and elements of the queue from first on.
IsSequencedRun(entries, n) ==
    Len(entries) = n /\ \A k \in 1..n : entries[k] = Sequenced
IsQueueRun(entries, n, first) ==
    Len(entries) = n /\ \A k \in 1..n : entries[k] = first + k - 1

QueuePositions(entries, k) == {i \in 1..k : entries[i] # Sequenced}

(* The entries that are elements of the queue are finitely many, and         *)
(* QueueCount is their number.                                               *)
LEMMA QueuePositionsType ==
    ASSUME NEW s, NEW k \in Nat
    PROVE  /\ IsFiniteSet(QueuePositions(s, k))
           /\ TransactionLog!QueueCount(s, k) = Cardinality(QueuePositions(s, k))
           /\ TransactionLog!QueueCount(s, k) \in Nat
<1>1. IsFiniteSet(1..k)  BY FS_Interval
<1>2. QueuePositions(s, k) \in SUBSET (1..k)  BY DEF QueuePositions
<1>3. IsFiniteSet(QueuePositions(s, k))  BY <1>1, <1>2, FS_Subset
<1>4. Cardinality(QueuePositions(s, k)) \in Nat  BY <1>3, FS_CardinalityType
<1>5. TransactionLog!QueueCount(s, k) = Cardinality(QueuePositions(s, k))
  BY DEF TransactionLog!QueueCount, QueuePositions, Cardinality, TransactionLog!Cardinality
<1> QED  BY <1>3, <1>4, <1>5

(* The entries of a list that another one extends are counted as before.     *)
LEMMA CountOfPrefix ==
    ASSUME NEW s \in Seq(Entry), NEW t \in Seq(Entry), NEW k \in 0..Len(s)
    PROVE  TransactionLog!QueueCount(s \o t, k) = TransactionLog!QueueCount(s, k)
<1>1. \A i \in 1..k : (s \o t)[i] = s[i]
  <2>1. Len(s) \in Nat /\ Len(t) \in Nat  BY LenProperties
  <2>2. \A i \in 1..(Len(s) + Len(t)) :
            (s \o t)[i] = IF i <= Len(s) THEN s[i] ELSE t[i - Len(s)]
    BY ConcatProperties
  <2>3. \A i \in 1..k : i \in 1..(Len(s) + Len(t)) /\ i <= Len(s)  BY <2>1
  <2> QED  BY <2>2, <2>3
<1>2. {i \in 1..k : (s \o t)[i] # Sequenced} = {i \in 1..k : s[i] # Sequenced}  BY <1>1
<1> QED  BY <1>2, Zenon DEF TransactionLog!QueueCount

(* Transactions of the sequencer take nothing from the queue.                *)
LEMMA SequencedRun ==
    ASSUME NEW s \in Seq(Entry), NEW a \in Nat, NEW start, InOrder(s, start),
           NEW t \in Seq(Entry), IsSequencedRun(t, a), NEW r, r = s \o t
    PROVE  /\ r \in Seq(Entry) /\ Len(r) = Len(s) + a
           /\ TransactionLog!QueueCount(r, Len(r)) = TransactionLog!QueueCount(s, Len(s))
           /\ InOrder(r, start)
<1>1. t \in Seq(Entry) /\ Len(t) = a /\ \A k \in 1..a : t[k] = Sequenced
  BY DEF IsSequencedRun
<1>2. Len(s) \in Nat  BY LenProperties
<1>3. /\ r \in Seq(Entry) /\ Len(r) = Len(s) + a
      /\ \A i \in 1..(Len(s) + a) : r[i] = IF i <= Len(s) THEN s[i] ELSE t[i - Len(s)]
  BY <1>1, ConcatProperties, Zenon
<1>4. \A i \in 1..Len(s) : i \in 1..(Len(s) + a) /\ r[i] = s[i]  BY <1>2, <1>3
<1>5. \A i \in 1..(Len(s) + a) : i \notin 1..Len(s) => r[i] = Sequenced
  <2> SUFFICES ASSUME NEW i \in 1..(Len(s) + a), i \notin 1..Len(s) PROVE r[i] = Sequenced
      BY Zenon
  <2>1. ~(i <= Len(s)) /\ i - Len(s) \in 1..a  BY <1>2
  <2> QED  BY <1>1, <1>3, <2>1
<1>6. {i \in 1..(Len(s) + a) : r[i] # Sequenced} = {i \in 1..Len(s) : s[i] # Sequenced}
  BY <1>4, <1>5, Zenon
<1>7. InOrder(r, start)
  <2> SUFFICES ASSUME NEW k \in 1..(Len(s) + a), r[k] # Sequenced
               PROVE  r[k] = start + TransactionLog!QueueCount(r, k) - 1
      BY <1>3 DEF InOrder
  <2>1. k \in 1..Len(s)  BY <1>5, Zenon
  <2>2. r[k] = s[k] /\ k \in 0..Len(s)  BY <1>2, <1>4, <2>1
  <2>3. TransactionLog!QueueCount(r, k) = TransactionLog!QueueCount(s, k)
    BY <1>1, <2>2, CountOfPrefix
  <2> QED  BY <2>1, <2>2, <2>3 DEF InOrder
<1> QED  BY <1>3, <1>6, <1>7, Zenon DEF TransactionLog!QueueCount

(* The elements of the queue that a context takes follow the ones before it. *)
LEMMA QueueRun ==
    ASSUME NEW s \in Seq(Entry), NEW b \in Nat, NEW start \in Nat, InOrder(s, start),
           NEW t \in Seq(Entry),
           IsQueueRun(t, b, start + TransactionLog!QueueCount(s, Len(s)))
    PROVE  /\ s \o t \in Seq(Entry)
           /\ Len(s \o t) = Len(s) + b
           /\ TransactionLog!QueueCount(s \o t, Len(s \o t)) =
                 TransactionLog!QueueCount(s, Len(s)) + b
           /\ InOrder(s \o t, start)
<1>0. PICK r : r = s \o t  BY Zenon
<1>1. t \in Seq(Entry) /\ Len(t) = b  BY DEF IsQueueRun
<1>2. Len(s) \in Nat  BY LenProperties
<1> PICK n \in Nat : n = TransactionLog!QueueCount(s, Len(s))  BY <1>2, QueuePositionsType
<1>3. /\ r \in Seq(Entry) /\ Len(r) = Len(s) + b
      /\ \A i \in 1..(Len(s) + b) : r[i] = IF i <= Len(s) THEN s[i] ELSE t[i - Len(s)]
  BY <1>0, <1>1, ConcatProperties, Zenon
<1>4. \A i \in 1..Len(s) : i \in 1..(Len(s) + b) /\ r[i] = s[i]  BY <1>2, <1>3
<1>5. ASSUME NEW j \in 1..b
      PROVE  /\ Len(s) + j \in 1..(Len(s) + b)
             /\ r[Len(s) + j] = start + n + j - 1
             /\ r[Len(s) + j] # Sequenced
  <2>1. Len(s) + j \in 1..(Len(s) + b) /\ ~(Len(s) + j <= Len(s)) /\ (Len(s) + j) - Len(s) = j
    BY <1>2
  <2>2. r[Len(s) + j] = t[j]  BY <1>3, <2>1
  <2>4. t[j] = start + n + j - 1  BY DEF IsQueueRun
  <2>3. start + n + j - 1 \in Nat  OBVIOUS
  <2> QED  BY <2>1, <2>2, <2>3, <2>4, CTCAssumption
<1>6. ASSUME NEW j \in 0..b PROVE TransactionLog!QueueCount(r, Len(s) + j) = n + j
  <2> DEFINE Old == QueuePositions(s, Len(s))
             New == (Len(s) + 1)..(Len(s) + j)
  <2>1. QueuePositions(r, Len(s) + j) = Old \cup New
    <3>1. ASSUME NEW i \in 1..(Len(s) + j), r[i] # Sequenced PROVE i \in Old \cup New
      <4>1. CASE i <= Len(s)
        <5>1. i \in 1..Len(s)  BY <1>2, <4>1
        <5> QED  BY <1>4, <3>1, <5>1 DEF QueuePositions
      <4>2. CASE ~(i <= Len(s))  BY <1>2, <4>2
      <4> QED  BY <4>1, <4>2
    <3>2. ASSUME NEW i \in Old PROVE i \in 1..(Len(s) + j) /\ r[i] # Sequenced
      <4>1. i \in 1..Len(s) /\ s[i] # Sequenced  BY <3>2 DEF QueuePositions
      <4> QED  BY <1>2, <1>4, <4>1
    <3>3. ASSUME NEW i \in New PROVE i \in 1..(Len(s) + j) /\ r[i] # Sequenced
      <4>1. PICK k \in 1..b : i = Len(s) + k /\ k <= j
        <5>1. i - Len(s) \in 1..b /\ i = Len(s) + (i - Len(s)) /\ i - Len(s) <= j  BY <1>2
        <5> QED  BY <5>1, Zenon
      <4>2. i \in 1..(Len(s) + j)  BY <1>2, <4>1
      <4>3. r[i] # Sequenced  BY <1>5, <4>1, Zenon
      <4> QED  BY <4>2, <4>3
    <3> HIDE DEF Old, New
    <3> QED  BY <3>1, <3>2, <3>3 DEF QueuePositions
  <2>2. Old \cap New = {}
    <3>1. \A i \in 1..Len(s) : i \notin New  BY <1>2
    <3> HIDE DEF New
    <3> QED  BY <3>1 DEF QueuePositions
  <2>3. IsFiniteSet(Old) /\ Cardinality(Old) = n  BY <1>2, QueuePositionsType
  <2>4. IsFiniteSet(New) /\ Cardinality(New) = j
    <3>1. Len(s) + 1 \in Int /\ Len(s) + j \in Int  BY <1>2
    <3>2. IsFiniteSet(New) /\ Cardinality(New) = IF Len(s) + 1 > Len(s) + j THEN 0
                                                 ELSE (Len(s) + j) - (Len(s) + 1) + 1
      BY <3>1, FS_Interval, Zenon
    <3> QED  BY <1>2, <3>2
  <2>5. Len(s) + j \in Nat  BY <1>2
  <2>6. TransactionLog!QueueCount(r, Len(s) + j) = Cardinality(QueuePositions(r, Len(s) + j))
    BY <2>5, QueuePositionsType
  <2> HIDE DEF Old, New
  <2>7. Cardinality(Old \cup New) = Cardinality(Old) + Cardinality(New) - Cardinality(Old \cap New)
    BY <2>3, <2>4, FS_Union
  <2>8. Cardinality(Old \cap New) = 0  BY <2>2, FS_EmptySet, Zenon
  <2>9. Cardinality(Old \cup New) = n + j
    <3>1. \A x, y, z \in Nat : \A w : w = x + y - z /\ z = 0 => w = x + y  OBVIOUS
    <3> QED  BY <2>3, <2>4, <2>7, <2>8, <3>1
  <2> QED  BY <2>1, <2>6, <2>9, Zenon
<1>7. InOrder(r, start)
  <2> SUFFICES ASSUME NEW k \in 1..(Len(s) + b), r[k] # Sequenced
               PROVE  r[k] = start + TransactionLog!QueueCount(r, k) - 1
      BY <1>3 DEF InOrder
  <2>1. CASE k <= Len(s)
    <3>1. k \in 1..Len(s) /\ k \in 0..Len(s)  BY <1>2, <2>1
    <3>2. TransactionLog!QueueCount(r, k) = TransactionLog!QueueCount(s, k)
      BY <1>0, <1>1, <3>1, CountOfPrefix
    <3>3. r[k] = s[k]  BY <1>4, <3>1
    <3> QED  BY <3>1, <3>2, <3>3 DEF InOrder
  <2>2. CASE ~(k <= Len(s))
    <3>1. PICK j \in 1..b : k = Len(s) + j
      <4>1. k - Len(s) \in 1..b /\ k = Len(s) + (k - Len(s))  BY <1>2, <2>2
      <4> QED  BY <4>1
    <3>2. r[k] = start + n + j - 1  BY <1>5, <3>1
    <3>3. TransactionLog!QueueCount(r, k) = n + j
      <4>1. j \in 0..b  OBVIOUS
      <4> QED  BY <1>6, <3>1, <4>1
    <3> QED  BY <3>2, <3>3
  <2> QED  BY <2>1, <2>2
<1>8. TransactionLog!QueueCount(r, Len(r)) = n + b
  <2>1. b \in 0..b  OBVIOUS
  <2> QED  BY <1>3, <1>6, <2>1
<1> QED  BY <1>0, <1>3, <1>7, <1>8

(* A set of natural numbers has a least one.                                 *)
LEMMA LeastNatural ==
    ASSUME NEW T \in SUBSET Nat, T # {}
    PROVE  \E x \in T : \A y \in T : x <= y
<1> DEFINE R == {ss \in Nat \X Nat : ss[1] < ss[2]}
<1>1. IsWellFoundedOn(R, Nat)  BY NatLessThanWellFounded DEF OpToRel
<1>2. \A x, y \in Nat : ~(<<y, x>> \in R) => x <= y  OBVIOUS
<1> HIDE DEF R
<1>3. \E x \in T : \A y \in T : ~(<<y, x>> \in R)  BY <1>1, WFMin, Zenon
<1> QED  BY <1>2, <1>3, Zenon

\* What the steps h make of x, one after the other.
Iterates(f, m, x, h) == f = [n \in 0..m |-> IF n = 0 THEN x ELSE h[<<n, f[n - 1]>>]]

(* A recursive definition by steps has a solution.                           *)
LEMMA IteratesExist ==
    ASSUME NEW N \in Nat, NEW X, NEW x \in X, NEW h \in [(1..N) \X X -> X]
    PROVE  \E f \in [0..N -> X] : Iterates(f, N, x, h)
<1> DEFINE T == {m \in 0..N : ~\E f \in [0..m -> X] : Iterates(f, m, x, h)}
<1> SUFFICES ASSUME T # {} PROVE FALSE  OBVIOUS
<1>0. T \in SUBSET Nat  OBVIOUS
<1>1. PICK m \in T : \A k \in T : m <= k
  <2> HIDE DEF T
  <2> QED  BY <1>0, LeastNatural
<1>2. m # 0
  <2>1. Iterates([n \in 0..0 |-> x], 0, x, h)  BY DEF Iterates
  <2> QED  BY <2>1, Zenon
<1>3. m \in 1..N /\ m - 1 \in 0..N /\ m - 1 \notin T  BY <1>1, <1>2
<1>4. PICK f \in [0..(m - 1) -> X] : Iterates(f, m - 1, x, h)  BY <1>3
<1> DEFINE g == [n \in 0..m |-> IF n = m THEN h[<<m, f[m - 1]>>] ELSE f[n]]
<1>5. f[m - 1] \in X /\ h[<<m, f[m - 1]>>] \in X  BY <1>3, <1>4
<1>6. g \in [0..m -> X]
  <2>1. \A n \in 0..m : n # m => n \in 0..(m - 1)  BY <1>3
  <2> QED  BY <1>4, <1>5, <2>1
<1>7. ASSUME NEW n \in 0..m PROVE g[n] = IF n = 0 THEN x ELSE h[<<n, g[n - 1]>>]
  <2>1. CASE n = m
    <3>1. m - 1 \in 0..m /\ m - 1 # m  BY <1>3
    <3> QED  BY <2>1, <3>1, <1>2
  <2>2. CASE n # m
    <3>1. n \in 0..(m - 1) /\ (n # 0 => n - 1 \in 0..(m - 1) /\ n - 1 \in 0..m /\ n - 1 # m)
      BY <2>2, <1>3
    <3>2. f[n] = IF n = 0 THEN x ELSE h[<<n, f[n - 1]>>]  BY <3>1, <1>4 DEF Iterates
    <3> QED  BY <2>2, <3>1, <3>2, Zenon
  <2> QED  BY <2>1, <2>2
<1>8. Iterates(g, m, x, h)  BY <1>7, Zenon DEF Iterates
<1> HIDE DEF g
<1> QED  BY <1>1, <1>6, <1>8

\* The two parts of what context i of a batch adds to the chain.
SequencedPart(e, i) == [k \in 1..e.contexts[i].numSequencedTransactions |-> Sequenced]
QueuePart(e, i) == [k \in 1..e.contexts[i].numSubsequentQueueTransactions |->
                      e.startingQueueIndex + NumQueued(SubSeq(e.contexts, 1, i - 1)) + k - 1]

(* An event has the contexts of a batch, with counts and entries of their    *)
(* types.                                                                    *)
LEMMA EventContexts ==
    ASSUME NEW e \in Event
    PROVE  /\ e.contexts \in Contexts /\ e.startingQueueIndex \in Nat /\ Len(e.contexts) \in Nat
           /\ \A i \in 1..Len(e.contexts) :
                 /\ e.contexts[i].numSequencedTransactions \in Nat
                 /\ e.contexts[i].numSubsequentQueueTransactions \in Nat
                 /\ SequencedPart(e, i) \in Seq(Entry) /\ QueuePart(e, i) \in Seq(Entry)
<1>1. e.contexts \in Contexts /\ e.startingQueueIndex \in Nat  BY DEF Event
<1>2. /\ Len(e.contexts) \in Nat
      /\ \A i \in 1..Len(e.contexts) : e.contexts[i] \in BatchContext
  BY <1>1, ContextSums
<1>3. ASSUME NEW i \in 1..Len(e.contexts)
      PROVE  /\ e.contexts[i].numSequencedTransactions \in Nat
             /\ e.contexts[i].numSubsequentQueueTransactions \in Nat
  BY <1>2, CTCAssumption DEF BatchContext
<1>4. ASSUME NEW i \in 1..Len(e.contexts)
      PROVE  SequencedPart(e, i) \in Seq(Entry) /\ QueuePart(e, i) \in Seq(Entry)
  <2> PICK a, b, q : /\ a = e.contexts[i].numSequencedTransactions
                     /\ b = e.contexts[i].numSubsequentQueueTransactions
                     /\ q = NumQueued(SubSeq(e.contexts, 1, i - 1))
      BY Zenon
  <2>1. a \in Nat /\ b \in Nat  BY <1>3
  <2>2. q \in Nat
    <3>1. i - 1 \in 0..Len(e.contexts)  BY <1>2
    <3> QED  BY <1>1, <3>1, PrefixSums
  <2>3. [k \in 1..a |-> Sequenced] \in Seq(Entry)  BY <2>1 DEF Entry
  <2>4. [k \in 1..b |-> e.startingQueueIndex + q + k - 1] \in Seq(Entry)
    <3>1. \A k \in 1..b : e.startingQueueIndex + q + k - 1 \in Nat  BY <1>1, <2>1, <2>2
    <3> QED  BY <2>1, <3>1 DEF Entry
  <2> QED  BY <2>3, <2>4 DEF SequencedPart, QueuePart
<1> QED  BY <1>1, <1>2, <1>3, <1>4

\* The function that the definition of Entries(e) is about.
EntriesUpTo(u, e) ==
    u = [i \in 0..Len(e.contexts) |->
            IF i = 0 THEN <<>> ELSE u[i - 1] \o SequencedPart(e, i) \o QueuePart(e, i)]

(* The recursion that defines the entries of an event has a solution.        *)
LEMMA EntriesDefined ==
    ASSUME NEW e \in Event
    PROVE  \E u : EntriesUpTo(u, e) /\ Entries(e) = u[Len(e.contexts)]
<1> DEFINE N == Len(e.contexts)
           h == [t \in (1..N) \X Seq(Entry) |->
                    t[2] \o SequencedPart(e, t[1]) \o QueuePart(e, t[1])]
<1>1. N \in Nat  BY EventContexts
<1>2. h \in [(1..N) \X Seq(Entry) -> Seq(Entry)]
  <2> SUFFICES ASSUME NEW i \in 1..N, NEW s \in Seq(Entry)
               PROVE  s \o SequencedPart(e, i) \o QueuePart(e, i) \in Seq(Entry)
      OBVIOUS
  <2>1. SequencedPart(e, i) \in Seq(Entry) /\ QueuePart(e, i) \in Seq(Entry)  BY EventContexts
  <2> QED  BY <2>1, ConcatProperties
<1>3. \A i \in 1..N, s \in Seq(Entry) :
          h[<<i, s>>] = s \o SequencedPart(e, i) \o QueuePart(e, i)
  BY Zenon
<1>4. <<>> \in Seq(Entry)  BY EmptySeq
<1> HIDE DEF h, N
<1>5. PICK f \in [0..N -> Seq(Entry)] : Iterates(f, N, <<>>, h)
  BY <1>1, <1>2, <1>4, IteratesExist, Zenon
<1>6. f = [i \in 0..N |->
             IF i = 0 THEN <<>> ELSE f[i - 1] \o SequencedPart(e, i) \o QueuePart(e, i)]
  <2>1. ASSUME NEW i \in 0..N, i # 0
        PROVE  h[<<i, f[i - 1]>>] = f[i - 1] \o SequencedPart(e, i) \o QueuePart(e, i)
    <3>1. i \in 1..N /\ i - 1 \in 0..N  BY <1>1, <2>1
    <3> QED  BY <1>3, <1>5, <3>1, Zenon
  <2> QED  BY <1>5, <2>1, Zenon DEF Iterates
<1>7. EntriesUpTo(f, e)  BY <1>6, Zenon DEF EntriesUpTo, N
<1> PICK u : u = CHOOSE v : EntriesUpTo(v, e)  OBVIOUS
<1>8. EntriesUpTo(u, e)  BY <1>7, SMTT(30)
<1>9. Entries(e) = u[Len(e.contexts)]
  BY DEF Entries, EntriesUpTo, SequencedPart, QueuePart
<1> QED  BY <1>8, <1>9, Zenon

(* The transactions that a node finds in a batch: as many as its contexts    *)
(* count, and among them the next elements of the queue in their order.      *)
LEMMA EntriesOfBatch ==
    ASSUME NEW e \in Event
    PROVE  LET cs == e.contexts
               n == NumSequenced(cs) + NumQueued(cs)
           IN  /\ Entries(e) \in Seq(Entry) /\ Len(Entries(e)) = n
               /\ TransactionLog!QueueCount(Entries(e), n) = NumQueued(cs)
               /\ InOrder(Entries(e), e.startingQueueIndex)
<1>0. PICK cs \in Contexts, start \in Nat : cs = e.contexts /\ start = e.startingQueueIndex
  BY EventContexts
<1> DEFINE N == Len(cs)
           S(i) == NumSequenced(SubSeq(cs, 1, i))
           Q(i) == NumQueued(SubSeq(cs, 1, i))
<1>1. PICK u : EntriesUpTo(u, e) /\ Entries(e) = u[N]  BY <1>0, EntriesDefined
<1> DEFINE Good(i) == /\ u[i] \in Seq(Entry) /\ Len(u[i]) = S(i) + Q(i)
                      /\ TransactionLog!QueueCount(u[i], Len(u[i])) = Q(i)
                      /\ InOrder(u[i], start)
           T == {i \in 0..N : ~Good(i)}
<1>2. N \in Nat /\ cs \in Contexts /\ start \in Nat  BY <1>0, EventContexts
<1>3. \A i \in 0..N : S(i) \in Nat /\ Q(i) \in Nat  BY <1>2, PrefixSums
<1>4. Good(0)
  <2>1. u[0] = <<>>
    <3>1. 0 \in 0..N  BY <1>2
    <3> QED  BY <1>0, <1>1, <3>1 DEF EntriesUpTo
  <2>2. S(0) = 0 /\ Q(0) = 0
    <3>1. 0 \in 0..N  BY <1>2
    <3> QED  BY <1>2, <3>1, PrefixSums
  <2>3. u[0] \in Seq(Entry) /\ Len(u[0]) = 0  BY <2>1, EmptySeq
  <2>4. QueuePositions(u[0], 0) = {}  BY DEF QueuePositions
  <2>5. TransactionLog!QueueCount(u[0], 0) = 0  BY <2>4, QueuePositionsType, FS_EmptySet
  <2>6. InOrder(u[0], start)  BY <2>3 DEF InOrder
  <2> HIDE DEF S, Q
  <2> QED  BY <2>2, <2>3, <2>5, <2>6
<1>5. ASSUME NEW i \in 1..N, Good(i - 1) PROVE Good(i)
  <2>1. PICK a \in Nat, b \in Nat : /\ a = cs[i].numSequencedTransactions
                                    /\ b = cs[i].numSubsequentQueueTransactions
    BY <1>0, EventContexts, SMTT(20)
  <2>2. i \in 0..N /\ i - 1 \in 0..N /\ i # 0  BY <1>2
  <2>3. PICK n \in Nat, q \in Nat : n = S(i - 1) /\ q = Q(i - 1)  BY <1>3, <2>2, SMTT(30)
  <2>4. S(i) = n + a /\ Q(i) = q + b  BY <1>2, <2>1, <2>2, <2>3, PrefixSums
  <2>5. PICK s, t : s = SequencedPart(e, i) /\ t = QueuePart(e, i)  OBVIOUS
  <2>6. /\ s \in Seq(Entry) /\ IsSequencedRun(s, a)
        /\ t \in Seq(Entry) /\ IsQueueRun(t, b, start + q)
    <3>1. s \in Seq(Entry) /\ t \in Seq(Entry)  BY <1>0, <2>5, EventContexts
    <3>2. s = [k \in 1..a |-> Sequenced]  BY <1>0, <2>1, <2>5 DEF SequencedPart
    <3>3. t = [k \in 1..b |-> start + q + k - 1]  BY <1>0, <2>1, <2>3, <2>5 DEF QueuePart
    <3> QED  BY <3>1, <3>2, <3>3 DEF IsSequencedRun, IsQueueRun
  <2>7. PICK w, r, v : w = u[i - 1] /\ r = w \o s /\ v = r \o t /\ v = u[i]
    BY <1>0, <1>1, <2>2, <2>5, Zenon DEF EntriesUpTo
  <2>8. /\ w \in Seq(Entry) /\ Len(w) = n + q /\ InOrder(w, start)
        /\ TransactionLog!QueueCount(w, Len(w)) = q
    BY <1>5, <2>3, <2>7
  <2> HIDE DEF S, Q, Good, T, N
  <2>9. /\ r \in Seq(Entry) /\ Len(r) = Len(w) + a
        /\ TransactionLog!QueueCount(r, Len(r)) = q /\ InOrder(r, start)
    <3>1. r = w \o s  BY <2>7
    <3>2. s \in Seq(Entry) /\ IsSequencedRun(s, a)  BY <2>6
    <3>3. w \in Seq(Entry) /\ InOrder(w, start) /\ TransactionLog!QueueCount(w, Len(w)) = q
      BY <2>8
    <3>4. /\ r \in Seq(Entry) /\ Len(r) = Len(w) + a /\ InOrder(r, start)
          /\ TransactionLog!QueueCount(r, Len(r)) = TransactionLog!QueueCount(w, Len(w))
      BY <3>1, <3>2, <3>3, SequencedRun, Zenon
    <3> QED  BY <3>3, <3>4
  <2>10. /\ v \in Seq(Entry) /\ Len(v) = Len(r) + b
         /\ TransactionLog!QueueCount(v, Len(v)) = q + b /\ InOrder(v, start)
    <3>1. v = r \o t  BY <2>7
    <3>2. r \in Seq(Entry) /\ InOrder(r, start) /\ q = TransactionLog!QueueCount(r, Len(r))
      BY <2>9
    <3>3. /\ t \in Seq(Entry)
          /\ IsQueueRun(t, b, start + TransactionLog!QueueCount(r, Len(r)))
      BY <2>6, <3>2
    <3>4. /\ r \o t \in Seq(Entry)
          /\ Len(r \o t) = Len(r) + b
          /\ TransactionLog!QueueCount(r \o t, Len(r \o t)) =
                TransactionLog!QueueCount(r, Len(r)) + b
          /\ InOrder(r \o t, start)
      <4>1. r \in Seq(Entry) /\ InOrder(r, start)  BY <3>2
      <4> QED  BY <3>3, <4>1, QueueRun, Zenon
    <3> QED  BY <3>1, <3>2, <3>4
  <2>11. Len(v) = (n + a) + (q + b)  BY <2>8, <2>9, <2>10
  <2> QED  BY <2>4, <2>7, <2>10, <2>11 DEF Good
<1>6. Good(N)
  <2> HIDE DEF Good
  <2> SUFFICES ASSUME T # {} PROVE FALSE  BY <1>2
  <2>1. T \in SUBSET Nat  BY <1>2
  <2>2. PICK i \in T : \A j \in T : i <= j  BY <2>1, LeastNatural, Zenon
  <2>3. i # 0  BY <1>4, <2>2
  <2>4. i \in 1..N /\ i - 1 \in 0..N /\ ~(i <= i - 1)  BY <1>2, <2>2, <2>3
  <2>5. i - 1 \notin T  BY <2>2, <2>4
  <2> QED  BY <1>5, <2>2, <2>4, <2>5
<1>7. SubSeq(cs, 1, N) = cs
  <2>1. PICK n \in 1..MaxContexts : cs \in [1..n -> BatchContext]  BY <1>2 DEF Contexts
  <2>2. cs \in Seq(BatchContext)  BY <2>1, CTCAssumption
  <2> QED  BY <2>2, SubSeqFull
<1> QED  BY <1>0, <1>1, <1>6, <1>7, Zenon

-----------------------------------------------------------------------------
(* The derived chain.                                                        *)

\* The function that the definition of Chain is about.
ChainUpTo(f, events) ==
    f = [n \in 0..Len(events) |-> IF n = 0 THEN <<>> ELSE f[n - 1] \o Entries(events[n])]

ChainDefined == ChainUpTo(Chain, appended)

(* The recursion that defines the derived chain has a solution.              *)
LEMMA ChainIsDefined == TypeOK => ChainDefined
<1> SUFFICES ASSUME TypeOK PROVE ChainDefined  OBVIOUS
<1> DEFINE N == Len(appended)
           h == [t \in (1..N) \X Seq(Entry) |-> t[2] \o Entries(appended[t[1]])]
<1>1. appended \in Seq(Event) /\ N \in Nat  BY DEF TypeOK
<1>2. \A i \in 1..N : Entries(appended[i]) \in Seq(Entry)
  <2>1. \A i \in 1..N : appended[i] \in Event  BY <1>1
  <2> QED  BY <2>1, EntriesOfBatch
<1>3. h \in [(1..N) \X Seq(Entry) -> Seq(Entry)]
  <2> SUFFICES ASSUME NEW i \in 1..N, NEW s \in Seq(Entry)
               PROVE  s \o Entries(appended[i]) \in Seq(Entry)
      OBVIOUS
  <2> QED  BY <1>2, ConcatProperties
<1>4. \A i \in 1..N, s \in Seq(Entry) : h[<<i, s>>] = s \o Entries(appended[i])
  BY Zenon
<1>5. <<>> \in Seq(Entry)  BY EmptySeq
<1> HIDE DEF h, N
<1>6. PICK f \in [0..N -> Seq(Entry)] : Iterates(f, N, <<>>, h)
  BY <1>1, <1>3, <1>5, IteratesExist, Zenon
<1>7. f = [n \in 0..N |-> IF n = 0 THEN <<>> ELSE f[n - 1] \o Entries(appended[n])]
  <2>1. ASSUME NEW n \in 0..N, n # 0
        PROVE  h[<<n, f[n - 1]>>] = f[n - 1] \o Entries(appended[n])
    <3>1. n \in 1..N /\ n - 1 \in 0..N  BY <1>1, <2>1
    <3> QED  BY <1>4, <1>6, <3>1
  <2> QED  BY <1>6, <2>1, Zenon DEF Iterates
<1>8. ChainUpTo(f, appended)  BY <1>7, Zenon DEF ChainUpTo, N
<1>9. Chain = CHOOSE g : ChainUpTo(g, appended)  BY DEF Chain, ChainUpTo
<1> QED  BY <1>8, <1>9 DEF ChainDefined

(* Lists of events that begin in the same way have chains that do.           *)
LEMMA SameChain ==
    ASSUME NEW a \in Seq(Event), NEW b \in Seq(Event), NEW N \in Nat,
           N <= Len(a), N <= Len(b), \A i \in 1..N : a[i] = b[i],
           NEW f, NEW g, ChainUpTo(f, a), ChainUpTo(g, b)
    PROVE  f[N] = g[N] /\ f[N] \in Seq(Entry)
<1> DEFINE Good(n) == f[n] = g[n] /\ f[n] \in Seq(Entry)
           T == {n \in 0..N : ~Good(n)}
<1>1. Len(a) \in Nat /\ Len(b) \in Nat  BY LenProperties
<1>2. Good(0)
  <2>1. 0 \in 0..Len(a) /\ 0 \in 0..Len(b)  BY <1>1
  <2>2. f[0] = <<>> /\ g[0] = <<>>  BY <2>1 DEF ChainUpTo
  <2> QED  BY <2>2, EmptySeq
<1>3. ASSUME NEW n \in 1..N, Good(n - 1) PROVE Good(n)
  <2>1. n \in 0..Len(a) /\ n \in 0..Len(b) /\ n # 0 /\ n \in 1..Len(a)  BY <1>1
  <2>2. f[n] = f[n - 1] \o Entries(a[n])  BY <2>1, Zenon DEF ChainUpTo
  <2>3. g[n] = g[n - 1] \o Entries(b[n])  BY <2>1, Zenon DEF ChainUpTo
  <2>4. a[n] \in Event  BY <2>1
  <2>5. Entries(a[n]) \in Seq(Entry)  BY <2>4, EntriesOfBatch, SMTT(30)
  <2>6. f[n] \in Seq(Entry)  BY <1>3, <2>2, <2>5, ConcatProperties
  <2>7. f[n] = g[n]  BY <1>3, <2>2, <2>3, Zenon
  <2> QED  BY <2>6, <2>7
<1> HIDE DEF Good
<1>4. Good(N)
  <2> SUFFICES ASSUME T # {} PROVE FALSE  OBVIOUS
  <2>1. T \in SUBSET Nat  OBVIOUS
  <2>2. PICK n \in T : \A m \in T : n <= m  BY <2>1, LeastNatural, Zenon
  <2>3. n # 0  BY <1>2, <2>2
  <2>4. n \in 1..N /\ n - 1 \in 0..N /\ ~(n <= n - 1)  BY <2>2, <2>3
  <2>5. n - 1 \notin T  BY <2>2, <2>4
  <2> QED  BY <1>3, <2>2, <2>4, <2>5
<1> QED  BY <1>4 DEF Good

(* The derived chain is a sequence of entries.                               *)
LEMMA ChainType == TypeOK => DerivedChain \in Seq(Entry)
<1> SUFFICES ASSUME TypeOK PROVE DerivedChain \in Seq(Entry)  OBVIOUS
<1>1. appended \in Seq(Event) /\ Len(appended) \in Nat  BY DEF TypeOK
<1>2. ChainUpTo(Chain, appended)  BY ChainIsDefined DEF ChainDefined
<1>3. Chain[Len(appended)] \in Seq(Entry)  BY <1>1, <1>2, SameChain
<1> QED  BY <1>3 DEF DerivedChain

(* Without a new batch the derived chain stays.                              *)
LEMMA ChainStays ==
    ASSUME TypeOK, TypeOK', appended' = appended
    PROVE  DerivedChain' = DerivedChain
<1>1. appended \in Seq(Event) /\ Len(appended) \in Nat  BY DEF TypeOK
<1>2. ChainUpTo(Chain, appended)  BY ChainIsDefined DEF ChainDefined
<1>3. ChainDefined'  BY ChainIsDefined, PTL
<1>4. PICK g : g = Chain'  OBVIOUS
<1>5. ChainUpTo(g, appended)  BY <1>3, <1>4, Zenon DEF ChainDefined, ChainUpTo
<1>6. Chain[Len(appended)] = g[Len(appended)]  BY <1>1, <1>2, <1>5, SameChain
<1> QED  BY <1>4, <1>6 DEF DerivedChain

(* A new batch adds its transactions to the derived chain.                   *)
LEMMA ChainGrows ==
    ASSUME TypeOK, TypeOK', NEW e \in Event, appended' = Append(appended, e)
    PROVE  DerivedChain' = DerivedChain \o Entries(e)
<1>1. appended \in Seq(Event) /\ Len(appended) \in Nat  BY DEF TypeOK
<1>2. ChainUpTo(Chain, appended)  BY ChainIsDefined DEF ChainDefined
<1>3. ChainDefined'  BY ChainIsDefined, PTL
<1>4. PICK g, b, N : g = Chain' /\ b = Append(appended, e) /\ N = Len(appended)  BY Zenon
<1>5. ChainUpTo(g, b)  BY <1>3, <1>4, Zenon DEF ChainDefined, ChainUpTo
<1>6. /\ b \in Seq(Event) /\ Len(b) = N + 1 /\ b[N + 1] = e
      /\ \A i \in 1..N : b[i] = appended[i]
  BY <1>1, <1>4, AppendProperties
<1>7. N \in Nat /\ N <= Len(appended) /\ N <= Len(b)  BY <1>1, <1>4, <1>6
<1>8. Chain[N] = g[N]  BY <1>1, <1>2, <1>5, <1>6, <1>7, SameChain, SMTT(20)
<1>9. g[N + 1] = g[N] \o Entries(b[N + 1])
  <2>1. N + 1 \in 0..Len(b) /\ N + 1 # 0 /\ (N + 1) - 1 = N  BY <1>6, <1>7
  <2> QED  BY <1>5, <2>1, SMTT(30) DEF ChainUpTo
<1>10. DerivedChain' = g[N + 1]  BY <1>4, <1>6 DEF DerivedChain
<1> QED  BY <1>4, <1>6, <1>8, <1>9, <1>10 DEF DerivedChain

(* What a batch of the sequencer does to what the nodes see.                 *)
LEMMA BatchEvent ==
    ASSUME IInv, NEW cs \in Contexts, NEW start \in 0..MaxElements,
           NEW total \in 1..MaxElements, WellFormed(total, cs),
           AppendSequencerBatch(start, total, cs)
    PROVE  \E e \in Event :
              /\ appended' = Append(appended, e)
              /\ e.contexts = cs /\ e.startingQueueIndex = nextQueueIndex
              /\ nextQueueIndex' = nextQueueIndex + NumQueued(cs)
              /\ nextQueueIndex + NumQueued(cs) <= Len(queue)
              /\ queue' = queue
              /\ getTotalElements' = getTotalElements + (NumSequenced(cs) + NumQueued(cs))
              /\ NumSequenced(cs) \in Nat /\ NumQueued(cs) \in Nat
              /\ NumSequenced(cs) + NumQueued(cs) > 0
<1>1. PICK s \in Nat, q \in Nat : s = NumSequenced(cs) /\ q = NumQueued(cs)  BY ContextSums
<1>2. total = s + q  BY <1>1 DEF WellFormed
<1>3. nextQueueIndex \in Nat /\ getTotalElements \in Nat
  BY DEF IInv, TypeOK, getTotalElements, Buffer, ExtraData
<1>4. PICK next, queued, e :
          /\ next = nextQueueIndex + NumQueued(cs) /\ queued = total - NumSequenced(cs)
          /\ e = [startingQueueIndex |-> next - queued, numQueueElements |-> queued,
                  totalElements |-> getTotalElements + total, contexts |-> cs]
  BY Zenon
<1>5. /\ appended' = Append(appended, e) /\ nextQueueIndex' = next
      /\ next <= Len(queue) /\ queue' = queue
  BY <1>4 DEF AppendSequencerBatch
<1>6. batches'.extraData.totalElements = batches.extraData.totalElements + total
  BY DEF AppendSequencerBatch, AppendBatch, push, getTotalElements
<1>7. next = nextQueueIndex + q /\ queued = q
  <2>1. queued = total - s  BY <1>1, <1>4
  <2> QED  BY <1>1, <1>2, <1>4, <2>1
<1>8. e \in Event /\ e.contexts = cs /\ e.startingQueueIndex = nextQueueIndex
  <2>1. getTotalElements + total \in Nat  BY <1>2, <1>3
  <2>2. next - queued = nextQueueIndex  BY <1>3, <1>7
  <2> QED  BY <1>3, <1>4, <1>7, <2>1, <2>2 DEF Event
<1>9. s + q > 0  BY <1>2
<1> QED  BY <1>1, <1>2, <1>5, <1>6, <1>7, <1>8, <1>9 DEF getTotalElements

(* The contract counts as many elements as the derived chain has.            *)
CoverInv == IInv /\ EventsCoverElements

(* Without events there are no entries and no elements.                      *)
LEMMA InitCover == Init => CoverInv
<1> SUFFICES ASSUME Init PROVE CoverInv  OBVIOUS
<1>1. IInv  BY InitIInv
<1>2. ChainUpTo(Chain, appended)  BY <1>1, ChainIsDefined DEF IInv, ChainDefined
<1>3. Len(appended) = 0  BY DEF Init
<1>4. DerivedChain = <<>>
  <2>1. 0 \in 0..0  OBVIOUS
  <2> QED  BY <1>2, <1>3, <2>1 DEF DerivedChain, ChainUpTo
<1>5. getTotalElements = 0  BY DEF Init, EmptyBuffer, getTotalElements
<1> QED  BY <1>1, <1>4, <1>5 DEF CoverInv, EventsCoverElements

(* An appended batch adds as many entries as it adds elements to the total.  *)
LEMMA NextCover == CoverInv /\ [Next]_vars => CoverInv'
<1> SUFFICES ASSUME CoverInv, [Next]_vars PROVE CoverInv'  OBVIOUS
<1>1. IInv /\ IInv' /\ TypeOK /\ TypeOK'  BY NextIInv DEF CoverInv, IInv
<1>2. ASSUME UNCHANGED <<batches, appended>> PROVE EventsCoverElements'
  <2>1. DerivedChain' = DerivedChain  BY <1>1, <1>2, ChainStays
  <2> QED  BY <1>2, <2>1 DEF CoverInv, EventsCoverElements, getTotalElements
<1>3. ASSUME NEW cs \in Contexts, NEW start \in 0..MaxElements, NEW total \in 1..MaxElements,
             WellFormed(total, cs), AppendSequencerBatch(start, total, cs)
      PROVE  EventsCoverElements'
  <2>1. PICK e \in Event :
              /\ appended' = Append(appended, e) /\ e.contexts = cs
              /\ getTotalElements' = getTotalElements + (NumSequenced(cs) + NumQueued(cs))
    BY <1>1, <1>3, BatchEvent
  <2>2. DerivedChain' = DerivedChain \o Entries(e)  BY <1>1, <2>1, ChainGrows, Zenon
  <2>3. DerivedChain \in Seq(Entry)  BY <1>1, ChainType
  <2>4. Entries(e) \in Seq(Entry) /\ Len(Entries(e)) = NumSequenced(cs) + NumQueued(cs)
    BY <2>1, EntriesOfBatch
  <2>5. Len(DerivedChain') = Len(DerivedChain) + Len(Entries(e))
    BY <2>2, <2>3, <2>4, ConcatProperties, Zenon
  <2> QED  BY <2>1, <2>4, <2>5 DEF CoverInv, EventsCoverElements
<1> QED  BY <1>1, <1>2, <1>3, NextCases, Zenon DEF Enqueue, Tick, vars, CoverInv

(* The chain that nodes derive from the events is as long as the contract    *)
(* says, for every list of contexts that the submitter makes.                *)
THEOREM Covered == Spec => []EventsCoverElements
<1>1. CoverInv => EventsCoverElements  BY DEF CoverInv
<1> QED  BY <1>1, InitCover, NextCover, PTL DEF Spec

(* The end of a concatenation is its second part.                            *)
LEMMA ConcatTail ==
    ASSUME NEW a \in Seq(Entry), NEW b \in Seq(Entry), Len(b) > 0
    PROVE  SubSeq(a \o b, Len(a) + 1, Len(a \o b)) = b
<1>1. Len(a) \in Nat /\ Len(b) \in Nat /\ Len(a \o b) = Len(a) + Len(b)
  BY LenProperties, ConcatProperties
<1>2. Len(a) + 1 \in (Len(a) + 1)..(Len(a) + Len(b)) /\ Len(a) + Len(b) \in (Len(a) + 1)..(Len(a) + Len(b))
  BY <1>1
<1>3. SubSeq(a \o b, Len(a) + 1, Len(a) + Len(b))
        = SubSeq(b, (Len(a) + 1) - Len(a), (Len(a) + Len(b)) - Len(a))
  BY <1>2, SubSeqOfConcat2
<1>4. (Len(a) + 1) - Len(a) = 1 /\ (Len(a) + Len(b)) - Len(a) = Len(b)  BY <1>1
<1>5. SubSeq(b, 1, Len(b)) = b  BY SubSeqFull
<1> QED  BY <1>1, <1>3, <1>4, <1>5

(* The chain that nodes derive is the log that the transaction chain         *)
(* promises: a batch extends it, and what the batch takes from the queue are *)
(* the next elements, in order, for all contexts.                            *)
THEOREM Refinement == Spec => ImplementsTransactionLog
<1>1. Init => TransactionLog!Init
  <2> SUFFICES ASSUME Init PROVE TransactionLog!Init  OBVIOUS
  <2>1. CoverInv /\ getTotalElements = 0
    BY InitCover DEF Init, EmptyBuffer, getTotalElements
  <2>2. DerivedChain \in Seq(Entry) /\ Len(DerivedChain) = 0
    BY <2>1, ChainType DEF CoverInv, IInv, EventsCoverElements
  <2>3. DerivedChain = <<>>  BY <2>2, EmptySeq
  <2> QED  BY <2>3 DEF Init, TransactionLog!Init
<1>2. ASSUME CoverInv, [Next]_vars
      PROVE  [TransactionLog!Next]_<<DerivedChain, Len(queue), nextQueueIndex>>
  <2>1. IInv /\ IInv' /\ TypeOK /\ TypeOK'  BY <1>2, NextIInv DEF CoverInv, IInv
  <2>2. ASSUME NEW tx \in Tx, Enqueue(tx) PROVE TransactionLog!Enqueue
    <3>1. DerivedChain' = DerivedChain  BY <2>1, <2>2, ChainStays DEF Enqueue
    <3>2. Len(queue') = Len(queue) + 1
      <4>1. queue \in Seq(QueueElement) /\ now \in Nat  BY <2>1 DEF TypeOK
      <4>2. [transaction |-> tx, timestamp |-> now] \in QueueElement  BY <4>1 DEF QueueElement
      <4> QED  BY <2>2, <4>1, <4>2 DEF Enqueue
    <3> QED  BY <2>2, <3>1, <3>2 DEF Enqueue, TransactionLog!Enqueue
  <2>3. ASSUME NEW cs \in Contexts, NEW start \in 0..MaxElements, NEW total \in 1..MaxElements,
               WellFormed(total, cs), AppendSequencerBatch(start, total, cs)
        PROVE  TransactionLog!Next
    <3>1. PICK e \in Event :
              /\ appended' = Append(appended, e)
              /\ e.contexts = cs /\ e.startingQueueIndex = nextQueueIndex
              /\ nextQueueIndex' = nextQueueIndex + NumQueued(cs)
              /\ nextQueueIndex + NumQueued(cs) <= Len(queue)
              /\ queue' = queue
              /\ NumSequenced(cs) \in Nat /\ NumQueued(cs) \in Nat
              /\ NumSequenced(cs) + NumQueued(cs) > 0
      BY <2>1, <2>3, BatchEvent
    <3>2. PICK d, b : d = DerivedChain /\ b = Entries(e)  OBVIOUS
    <3>3. DerivedChain' = d \o b  BY <2>1, <3>1, <3>2, ChainGrows, SMTT(30)
    <3>4. d \in Seq(Entry)  BY <2>1, <3>2, ChainType
    <3>5. /\ b \in Seq(Entry) /\ Len(b) = NumSequenced(cs) + NumQueued(cs)
          /\ TransactionLog!QueueCount(b, Len(b)) = NumQueued(cs)
          /\ InOrder(b, nextQueueIndex)
      BY <3>1, <3>2, EntriesOfBatch
    <3>6. Len(b) > 0 /\ Len(b) \in Nat /\ Len(d) \in Nat  BY <3>1, <3>4, <3>5
    <3>7. Len(d \o b) > Len(d)
      <4>1. Len(d \o b) = Len(d) + Len(b)  BY <3>4, <3>5, ConcatProperties, SMTT(30)
      <4> QED  BY <3>6, <4>1
    <3>8. SubSeq(d \o b, Len(d) + 1, Len(d \o b)) = b  BY <3>4, <3>5, <3>6, ConcatTail
    <3>9. TransactionLog!AppendEntries(b)
      BY <3>1, <3>2, <3>3, <3>5 DEF TransactionLog!AppendEntries, InOrder
    <3>10. /\ Len(DerivedChain') > Len(DerivedChain)
           /\ SubSeq(DerivedChain', Len(DerivedChain) + 1, Len(DerivedChain')) = b
      BY <3>2, <3>3, <3>7, <3>8
    <3> QED  BY <3>9, <3>10, Zenon DEF TransactionLog!Next
  <2>4. ASSUME Tick \/ UNCHANGED vars
        PROVE  UNCHANGED <<DerivedChain, Len(queue), nextQueueIndex>>
    <3>1. appended' = appended /\ queue' = queue /\ nextQueueIndex' = nextQueueIndex
      BY <2>4 DEF Tick, vars
    <3>2. DerivedChain' = DerivedChain  BY <2>1, <3>1, ChainStays
    <3> QED  BY <3>1, <3>2
  <2>5. ASSUME TransactionLog!Enqueue PROVE TransactionLog!Next
    BY <2>5 DEF TransactionLog!Next
  <2> QED  BY <1>2, <2>2, <2>3, <2>4, <2>5, NextCases
<1> QED
  BY <1>1, <1>2, InitCover, NextCover, PTL
  DEF Spec, ImplementsTransactionLog, TransactionLog!Spec

=============================================================================
