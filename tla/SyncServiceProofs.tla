--------------------------- MODULE SyncServiceProofs ---------------------------
(***************************************************************************)
(* The SyncService in its two modes: the index of the sequencer and the     *)
(* order of the queue in its chain, and the index and the batches of the    *)
(* verifier; for every bound on the queue, the batches, the transactions,   *)
(* the failures and the crashes.                                            *)
(***************************************************************************)
EXTENDS Sequencer, Verifier, FiniteSetTheorems, SequenceTheorems, WellFoundedInduction, TLAPS

-----------------------------------------------------------------------------
(* What the steps of the SyncService preserve: where the index in the        *)
(* database is relative to the chain at each point of an application and     *)
(* after a crash.                                                            *)

(* The strengthening of LatestIndexIsTip.  The index runs one ahead of the   *)
(* chain while the worker has the transaction or has failed; the call keeps  *)
(* where it has to go back to; a crash leaves either of the two values.      *)
IndexInv ==
    /\ blocks \in Seq(Transaction) /\ Len(blocks) > 0
    /\ node \in {"up", "down"}
    /\ call \in Call \cup {NoCall}
    /\ node = "down" => call = NoCall /\ headIndex \in {Len(blocks) - 1, Len(blocks)}
    /\ node = "up" /\ call = NoCall => headIndex = Len(blocks) - 1
    /\ call.stage \in {"sent", "err"} =>
          /\ node = "up"
          /\ headIndex = Len(blocks) /\ call.index = Len(blocks)
          /\ call.restore = Len(blocks) - 1
    /\ call.stage = "head" => node = "up" /\ headIndex = Len(blocks) - 1

(* IndexInv gives the property and rules out the panic of a restart.         *)
LEMMA IndexInvSuffices == IndexInv => LatestIndexIsTip /\ RestartRepairs
  BY SyncServiceAssumption
  DEF IndexInv, LatestIndexIsTip, RestartRepairs, GetNextIndex, After

(* A node that begins with a block begins with its index.                    *)
LEMMA InitIndexInv == InitialBlocks # <<>> /\ ServiceInit => IndexInv
  <1> SUFFICES ASSUME InitialBlocks # <<>>, ServiceInit PROVE IndexInv
    OBVIOUS
  <1>1. blocks \in Seq(Transaction) /\ blocks # <<>>
    BY SyncServiceAssumption DEF ServiceInit
  <1>2. Len(blocks) \in Nat /\ Len(blocks) > 0
    BY <1>1
  <1> QED
    BY <1>1, <1>2 DEF ServiceInit, IndexInv, NoCall

(* applyTransactionToTip at the next index moves the index one ahead.        *)
LEMMA ApplyIndexInv ==
    ASSUME IndexInv, NEW tx \in Transaction, NEW index,
           index = GetNextIndex, ApplyTransactionToTip(tx, index)
    PROVE  IndexInv'
  <1>1. headIndex = Len(blocks) - 1 /\ Len(blocks) \in Nat /\ Len(blocks) > 0
    BY DEF ApplyTransactionToTip, IndexInv
  <1>2. index = Len(blocks)
    BY <1>1, SyncServiceAssumption DEF GetNextIndex, After
  <1>3. call' \in Call
    BY <1>1, <1>2 DEF ApplyTransactionToTip, Call
  <1> QED
    BY <1>1, <1>2, <1>3 DEF ApplyTransactionToTip, IndexInv, NoCall

(* The worker adds the block, and the chain meets the index; or it fails.    *)
LEMMA WorkerIndexInv == IndexInv /\ Worker => IndexInv'
  <1> SUFFICES ASSUME IndexInv, Worker PROVE IndexInv'
    OBVIOUS
  <1>1. /\ call \in Call /\ call.tx \in Transaction
        /\ Len(blocks) \in Nat /\ Len(blocks) > 0
    BY DEF Worker, IndexInv, Call, NoCall
  <1>2. headIndex = Len(blocks) /\ call.index = Len(blocks) /\ call.restore = Len(blocks) - 1
    BY DEF Worker, IndexInv
  <1>3. CASE CommitNewTx
    <2>1. blocks' \in Seq(Transaction) /\ Len(blocks') = Len(blocks) + 1
      BY <1>1, <1>3 DEF CommitNewTx, IndexInv
    <2>2. call' \in Call /\ call'.stage = "head"
      BY <1>1, <1>3 DEF CommitNewTx, Call
    <2> QED
      BY <1>1, <1>2, <2>1, <2>2 DEF Worker, IndexInv, NoCall
  <1>4. CASE FailNewTx
    <2>1. /\ call' \in Call /\ call'.stage = "err"
          /\ call'.index = call.index /\ call'.restore = call.restore
      BY <1>1, <1>4 DEF FailNewTx, Call
    <2> QED
      BY <1>1, <1>2, <1>4, <2>1 DEF Worker, FailNewTx, IndexInv, NoCall
  <1> QED
    BY <1>3, <1>4 DEF Worker

(* The return takes the index back exactly when the block is not there.      *)
LEMMA ReturnIndexInv ==
    ASSUME IndexInv, OracleFails = FALSE, NEW failed \in BOOLEAN, Return(failed)
    PROVE  IndexInv'
  <1>1. Len(blocks) \in Nat /\ Len(blocks) > 0
    BY DEF IndexInv
  <1>2. failed <=> call.stage = "err"
    BY DEF Return
  <1>3. headIndex' = Len(blocks) - 1
    <2>1. CASE call.stage = "err"
      BY <1>1, <1>2, <2>1, SyncServiceAssumption DEF Return, IndexInv, IndexAfterSet
    <2>2. CASE call.stage = "head"
      BY <1>2, <2>2 DEF Return, IndexInv
    <2> QED
      BY <2>1, <2>2 DEF Return
  <1> QED
    BY <1>1, <1>3 DEF Return, IndexInv, NoCall

(* A crash leaves the index at the last block or one ahead of it.            *)
LEMMA CrashIndexInv == IndexInv /\ Crash => IndexInv'
  <1> SUFFICES ASSUME IndexInv, Crash PROVE IndexInv'
    OBVIOUS
  <1>1. headIndex \in {Len(blocks) - 1, Len(blocks)}
    BY DEF IndexInv, Crash, Call, NoCall
  <1> QED
    BY <1>1 DEF IndexInv, Crash, NoCall

(* A restart takes it back to the last block.                                *)
LEMMA RestartIndexInv == IndexInv /\ Restart => IndexInv'
  <1> SUFFICES ASSUME IndexInv, Restart PROVE IndexInv'
    OBVIOUS
  <1>1. Len(blocks) \in Nat /\ Len(blocks) > 0 /\ blocks # <<>>
    BY DEF IndexInv
  <1>2. headIndex \in {Len(blocks) - 1, Len(blocks)} /\ call = NoCall
    BY DEF IndexInv, Restart
  <1>3. headIndex # Nil
    BY <1>1, <1>2, SyncServiceAssumption
  <1>4. node' = "up" /\ headIndex' = Len(blocks) - 1
    BY <1>1, <1>2, <1>3 DEF Restart, RepairIndex
  <1> QED
    BY <1>1, <1>2, <1>4 DEF Restart, IndexInv, NoCall

(* A set of natural numbers has a least one.                                 *)
LEMMA LeastNatural ==
    ASSUME NEW T \in SUBSET Nat, T # {}
    PROVE  \E x \in T : \A y \in T : x <= y
  <1> DEFINE R == {ss \in Nat \X Nat : ss[1] < ss[2]}
  <1>1. IsWellFoundedOn(R, Nat)
    BY NatLessThanWellFounded DEF OpToRel
  <1>2. \A x, y \in Nat : ~(<<y, x>> \in R) => x <= y
    OBVIOUS
  <1> HIDE DEF R
  <1>3. \E x \in T : \A y \in T : ~(<<y, x>> \in R)
    BY <1>1, WFMin, Zenon
  <1> QED
    BY <1>2, <1>3, Zenon

(* The queue index that a restart finds in the chain is one, or nil.  The    *)
(* last block with an element of the queue is the one that is nearest to the *)
(* tip.                                                                      *)
LEMMA LastQueueIndexType ==
    ASSUME NEW chain \in Seq(Transaction)
    PROVE  LastQueueIndex(chain) \in Nat \cup {Nil}
  <1> DEFINE queued == {n \in DOMAIN chain : chain[n].queueIndex # Nil}
             Last(n) == n \in queued /\ \A m \in queued : m <= n
  <1>1. CASE queued = {}
    BY <1>1 DEF LastQueueIndex
  <1>2. CASE queued # {}
    <2> DEFINE back == {Len(chain) - n : n \in queued}
    <2>1. Len(chain) \in Nat /\ DOMAIN chain = 1..Len(chain)
      OBVIOUS
    <2>2. back \in SUBSET Nat /\ back # {}
      BY <1>2, <2>1
    <2>3. PICK b \in back : \A c \in back : b <= c
      BY <2>2, LeastNatural, Zenon
    <2>4. PICK k \in queued : b = Len(chain) - k
      BY <2>3
    <2>5. Last(k)
      <3> SUFFICES ASSUME NEW m \in queued PROVE m <= k
        BY <2>4
      <3>1. Len(chain) - k <= Len(chain) - m
        BY <2>3, <2>4
      <3> QED
        BY <2>1, <2>4, <3>1
    <2> DEFINE last == CHOOSE n \in queued : \A m \in queued : m <= n
    <2>6. LastQueueIndex(chain) = chain[last].queueIndex
      BY <1>2, Zenon DEF LastQueueIndex
    <2>7. last \in queued
      BY <2>5
    <2> HIDE DEF last
    <2>8. chain[last] \in Transaction
      BY <2>7
    <2> QED
      BY <2>6, <2>8 DEF Transaction
  <1> QED
    BY <1>1, <1>2

(* Other parties leave the service alone.                                    *)
LEMMA UnchangedIndexInv == IndexInv /\ UNCHANGED serviceVars => IndexInv'
  BY DEF IndexInv, serviceVars

-----------------------------------------------------------------------------
(* The steps of the sequencer.                                               *)

(* The loop applies elements of the queue by a number.                       *)
QueueInv ==
    /\ headQueueIndex \in Nat \cup {Nil}
    /\ enqueued \in Nat
    /\ range \in [next : Nat, end : Int]
    /\ lock = "loop" /\ call # NoCall => call.tx.queueIndex \in Nat

(* The next element of the queue has a number.                               *)
LEMMA NextEnqueueIndexType == QueueInv => GetNextEnqueueIndex \in Nat
  BY SyncServiceAssumption DEF QueueInv, GetNextEnqueueIndex, GetLatestEnqueueIndex, After

(* applyTransactionToTip writes the queue index of its transaction.          *)
LEMMA ApplyQueueIndex ==
    ASSUME QueueInv, NEW tx \in Transaction, NEW index, ApplyTransactionToTip(tx, index)
    PROVE  headQueueIndex' \in Nat \cup {Nil}
  BY DEF QueueInv, ApplyTransactionToTip, SetLatestEnqueueIndex, Transaction

(* The loop applies an element of its range, and its range goes on after it. *)
LEMMA RangeApplies ==
    ASSUME QueueInv, NEW start \in Nat, NEW end, SyncQueueTransactionRange(start, end)
    PROVE  \E tx \in Transaction :
               /\ tx.queueIndex \in Nat
               /\ ApplyTransactionToTip(tx, GetNextIndex)
               /\ range' = [next |-> tx.queueIndex + 1, end |-> end]
               /\ call'.tx = tx /\ headQueueIndex' \in Nat \cup {Nil}
  <1>1. PICK i \in start..end :
            ApplyEnqueue(i) /\ range' = [next |-> i + 1, end |-> end]
    BY DEF SyncQueueTransactionRange
  <1>2. PICK tx : tx = [queueIndex |-> i, owner |-> FALSE]
    BY Zenon
  <1>3. i \in Nat
    BY <1>1
  <1>4. tx \in Transaction /\ tx.queueIndex = i
    BY <1>2, <1>3 DEF Transaction
  <1>5. ApplyTransactionToTip(tx, GetNextIndex)
    BY <1>1, <1>2 DEF ApplyEnqueue
  <1>6. headQueueIndex' \in Nat \cup {Nil} /\ call'.tx = tx
    BY <1>4, <1>5, ApplyQueueIndex DEF ApplyTransactionToTip
  <1> QED
    BY <1>1, <1>3, <1>4, <1>5, <1>6

(* Every step of the sequencer preserves the types of the queue indices.     *)
LEMMA QueueStep ==
    ASSUME IndexInv, QueueInv, [Next]_vars
    PROVE  QueueInv'
  <1>1. CASE Enqueue
    BY <1>1 DEF Enqueue, QueueInv, serviceVars
  <1>2. ASSUME NEW owner \in BOOLEAN, SendTransaction(owner)
        PROVE  QueueInv'
    <2>1. [queueIndex |-> Nil, owner |-> owner] \in Transaction
      BY DEF Transaction
    <2> QED
      BY <1>2, <2>1, ApplyQueueIndex DEF SendTransaction, QueueInv
  <1>3. CASE SendTransactionReturns
    BY <1>3 DEF SendTransactionReturns, QueueInv
  <1>4. CASE SyncQueue
    <2>1. GetNextEnqueueIndex \in Nat
      BY NextEnqueueIndexType
    <2>2. PICK tx \in Transaction :
              /\ tx.queueIndex \in Nat /\ call'.tx = tx
              /\ range' = [next |-> tx.queueIndex + 1, end |-> enqueued - 1]
              /\ headQueueIndex' \in Nat \cup {Nil}
      BY <1>4, <2>1, RangeApplies DEF SyncQueue
    <2>3. enqueued' = enqueued
      BY <1>4 DEF SyncQueue
    <2> QED
      BY <2>2, <2>3 DEF QueueInv
  <1>5. CASE SyncQueueContinues
    <2>1. range.next \in Nat
      BY DEF QueueInv
    <2>2. PICK tx \in Transaction :
              /\ tx.queueIndex \in Nat /\ call'.tx = tx
              /\ range' = [next |-> tx.queueIndex + 1, end |-> range.end]
              /\ headQueueIndex' \in Nat \cup {Nil}
      BY <1>5, <2>1, RangeApplies DEF SyncQueueContinues
    <2>3. enqueued' = enqueued
      BY <1>5 DEF SyncQueueContinues
    <2> QED
      BY <2>2, <2>3 DEF QueueInv
  <1>6. CASE SyncQueueReturns
    <2>1. call.tx.queueIndex \in Nat
      BY <1>6 DEF SyncQueueReturns, Return, QueueInv, NoCall
    <2>2. headQueueIndex' \in Nat \cup {Nil}
      BY <1>6, <2>1
      DEF SyncQueueReturns, RestoreEnqueueIndex, SetLatestEnqueueIndex, QueueInv
    <2>3. call' = NoCall
      BY <1>6 DEF SyncQueueReturns, Return
    <2> QED
      BY <1>6, <2>2, <2>3 DEF SyncQueueReturns, QueueInv
  <1>7. CASE Worker /\ UNCHANGED queueVars
    <2>1. call \in Call /\ call # NoCall
      BY <1>7 DEF Worker, IndexInv, Call, NoCall
    <2>2. call'.tx = call.tx
      BY <1>7, <2>1 DEF Worker, CommitNewTx, FailNewTx, Call
    <2> QED
      BY <1>7, <2>1, <2>2 DEF Worker, queueVars, QueueInv
  <1>8. CASE Crash /\ lock' = "free" /\ UNCHANGED <<enqueued, accepted, range>>
    BY <1>8 DEF Crash, QueueInv
  <1>9. CASE Restart /\ UNCHANGED queueVars
    <2>1. LastQueueIndex(blocks) \in Nat \cup {Nil}
      BY LastQueueIndexType DEF IndexInv
    <2> QED
      BY <1>9, <2>1
      DEF Restart, RepairEnqueueIndex, SetLatestEnqueueIndex, queueVars, QueueInv
  <1>10. CASE UNCHANGED vars
    BY <1>10 DEF vars, serviceVars, queueVars, QueueInv
  <1>11. CASE GetEnqueueFails
    BY <1>11 DEF GetEnqueueFails, serviceVars, QueueInv
  <1> QED
    BY <1>1, <1>2, <1>3, <1>4, <1>5, <1>6, <1>7, <1>8, <1>9, <1>10, <1>11 DEF Next

(* Every step of the sequencer preserves where the index is.                 *)
LEMMA IndexStep ==
    ASSUME OracleFails = FALSE, IndexInv, QueueInv, [Next]_vars
    PROVE  IndexInv'
  <1>1. CASE Enqueue
    BY <1>1, UnchangedIndexInv DEF Enqueue
  <1>2. ASSUME NEW owner \in BOOLEAN, SendTransaction(owner)
        PROVE  IndexInv'
    <2>1. [queueIndex |-> Nil, owner |-> owner] \in Transaction
      BY DEF Transaction
    <2> QED
      BY <1>2, <2>1, ApplyIndexInv DEF SendTransaction
  <1>3. CASE SendTransactionReturns
    BY <1>3, ReturnIndexInv, Zenon DEF SendTransactionReturns
  <1>4. CASE SyncQueue
    <2>1. GetNextEnqueueIndex \in Nat
      BY NextEnqueueIndexType
    <2>2. PICK tx \in Transaction : ApplyTransactionToTip(tx, GetNextIndex)
      BY <1>4, <2>1, RangeApplies DEF SyncQueue
    <2> QED
      BY <2>2, ApplyIndexInv
  <1>5. CASE SyncQueueContinues
    <2>1. range.next \in Nat
      BY DEF QueueInv
    <2>2. PICK tx \in Transaction : ApplyTransactionToTip(tx, GetNextIndex)
      BY <1>5, <2>1, RangeApplies DEF SyncQueueContinues
    <2> QED
      BY <2>2, ApplyIndexInv
  <1>6. CASE SyncQueueReturns
    BY <1>6, ReturnIndexInv, Zenon DEF SyncQueueReturns
  <1>7. CASE Worker \/ Crash \/ Restart
    BY <1>7, WorkerIndexInv, CrashIndexInv, RestartIndexInv
  <1>8. CASE GetEnqueueFails \/ UNCHANGED vars
    BY <1>8, UnchangedIndexInv DEF GetEnqueueFails, vars
  <1> QED
    BY <1>1, <1>2, <1>3, <1>4, <1>5, <1>6, <1>7, <1>8 DEF Next

(* A sequencer that has blocks starts with its index at the last of them.    *)
LEMMA InitInv ==
    ASSUME InitialBlocks # <<>>, Init
    PROVE  IndexInv /\ QueueInv
  <1>1. IndexInv
    BY InitIndexInv DEF Init
  <1>2. headQueueIndex \in Nat \cup {Nil}
    BY LastQueueIndexType, SyncServiceAssumption DEF Init, ServiceInit
  <1>3. enqueued \in Nat
    BY <1>2, SyncServiceAssumption DEF Init, ServiceInit, After
  <1> QED
    BY <1>1, <1>2, <1>3 DEF Init, ServiceInit, QueueInv

(* On a chain that has a block, and while the gas price oracle can be read,  *)
(* the sequencer's index is that of its last block whenever no application   *)
(* is under way, and no restart panics: for every number of transactions,    *)
(* failures of the worker and crashes at any point.                          *)
THEOREM IndexIsTip ==
    ASSUME InitialBlocks # <<>>, OracleFails = FALSE
    PROVE  Spec => [](LatestIndexIsTip /\ RestartRepairs)
  <1>1. Init => IndexInv /\ QueueInv
    BY InitInv
  <1>2. IndexInv /\ QueueInv /\ [Next]_vars => (IndexInv /\ QueueInv)'
    BY IndexStep, QueueStep, Zenon
  <1>3. IndexInv => LatestIndexIsTip /\ RestartRepairs
    BY IndexInvSuffices
  <1> QED
    BY <1>1, <1>2, <1>3, PTL DEF Spec

-----------------------------------------------------------------------------
(* The order of the queue elements in the chain.                             *)

\* How many of the first n blocks hold an element of the queue.
Taken(chain, n) == Cardinality({k \in 1..n : chain[k].queueIndex # Nil})

\* The elements of the queue are in the chain in their order and from the first,
\* and none of them is a skipped one.
Ordered(chain) ==
    \A n \in 1..Len(chain) : chain[n].queueIndex # Nil =>
        /\ chain[n].queueIndex \notin Skipped
        /\ Position(chain[n].queueIndex) = Taken(chain, n) - 1

\* The worker has an element of the queue that is not in the chain.
Pending == call # NoCall /\ call.stage \in {"sent", "err"} /\ call.tx.queueIndex # Nil

(* The strengthening of ExtendsTransactionLog.  As many elements are in the  *)
(* chain as have their place up to the queue index in the database; the      *)
(* index is that of the element the worker has, while it has one.  The loop  *)
(* holds the lock from one element to the next, and its range continues      *)
(* after the queue index.                                                    *)
LogInv ==
    /\ blocks \in Seq(Transaction) /\ headIndex \in Nat \cup {Nil}
    /\ call \in Call \cup {NoCall} /\ enqueued \in Nat /\ range \in [next : Nat, end : Nat]
    /\ lock \in {"free", "rpc", "loop"}
    /\ Ordered(blocks) /\ QueueTaken \in 1..Position(enqueued)
    /\ enqueueIndexNil = FALSE /\ headQueueIndex \in Nat
    /\ node # "up" => lock = "free"
    /\ node = "up" /\ ~Pending => Position(headQueueIndex + 1) = QueueTaken
    /\ Pending => /\ call.tx.queueIndex = headQueueIndex
                  /\ headQueueIndex \notin Skipped /\ headQueueIndex < enqueued
                  /\ Position(headQueueIndex) = QueueTaken
    /\ lock = "free" => call = NoCall
    /\ lock = "rpc" => call # NoCall /\ call.tx.queueIndex = Nil
    /\ lock = "loop" => range.end < enqueued /\ range.next = headQueueIndex + 1
    /\ lock = "loop" /\ call # NoCall =>
          /\ call.tx.queueIndex = headQueueIndex
          /\ call.stage = "head" => blocks # <<>> /\ blocks[Len(blocks)] = call.tx

(* The places of the queue are natural numbers, the first one 0.             *)
LEMMA PositionType ==
    ASSUME NEW i \in Nat
    PROVE  /\ IsFiniteSet({j \in 0..(i - 1) : j \notin Skipped})
           /\ Position(i) \in Nat
           /\ i = 0 => Position(i) = 0
  <1> DEFINE S == {j \in 0..(i - 1) : j \notin Skipped}
  <1>1. IsFiniteSet(0..(i - 1))
    BY FS_Interval
  <1>2. S \in SUBSET (0..(i - 1)) /\ (i = 0 => S = {})
    OBVIOUS
  <1>3. IsFiniteSet(S)
    <2> HIDE DEF S
    <2> QED
      BY <1>1, <1>2, FS_Subset, Zenon
  <1>4. Cardinality(S) \in Nat /\ (i = 0 => Cardinality(S) = 0)
    <2> HIDE DEF S
    <2> QED
      BY <1>2, <1>3, FS_CardinalityType, FS_EmptySet, Zenon
  <1> QED
    BY <1>3, <1>4 DEF Position

(* An element that is not skipped takes one place.                           *)
LEMMA PositionNext ==
    ASSUME NEW i \in Nat, i \notin Skipped
    PROVE  Position(i + 1) = Position(i) + 1
  <1>1. PICK S : S = {j \in 0..(i - 1) : j \notin Skipped}
    BY Zenon
  <1>2. IsFiniteSet(S) /\ Cardinality(S) = Position(i)
    BY <1>1, PositionType DEF Position
  <1>3. i \notin S /\ {j \in 0..((i + 1) - 1) : j \notin Skipped} = S \cup {i}
    <2>1. \A j : j \in 0..((i + 1) - 1) <=> j \in 0..(i - 1) \/ j = i
      OBVIOUS
    <2>2. i \notin 0..(i - 1)
      OBVIOUS
    <2> QED
      BY <1>1, <2>1, <2>2, Zenon
  <1>4. Cardinality(S \cup {i}) = Cardinality(S) + 1
    BY <1>2, <1>3, FS_AddElement, Zenon
  <1>5. Position(i + 1) = Cardinality(S \cup {i})
    BY <1>3, Zenon DEF Position
  <1> QED
    BY <1>2, <1>4, <1>5

(* Skipped elements take no place.                                           *)
LEMMA PositionSkips ==
    ASSUME NEW i \in Nat, NEW k \in Nat, i <= k, i..(k - 1) \subseteq Skipped
    PROVE  Position(k) = Position(i)
  <1>1. \A j : j \in 0..(k - 1) <=> j \in 0..(i - 1) \/ j \in i..(k - 1)
    OBVIOUS
  <1>2. {j \in 0..(k - 1) : j \notin Skipped} = {j \in 0..(i - 1) : j \notin Skipped}
    BY <1>1, Zenon
  <1> QED
    BY <1>2, Zenon DEF Position

(* A later element has no earlier place.                                     *)
LEMMA PositionGrows ==
    ASSUME NEW i \in Nat, NEW k \in Nat, i <= k
    PROVE  Position(i) <= Position(k)
  <1>1. PICK S, T : /\ S = {j \in 0..(i - 1) : j \notin Skipped}
                    /\ T = {j \in 0..(k - 1) : j \notin Skipped}
    BY Zenon
  <1>2. IsFiniteSet(T) /\ S \in SUBSET T
    <2>1. \A j \in 0..(i - 1) : j \in 0..(k - 1)
      OBVIOUS
    <2> QED
      BY <1>1, <2>1, PositionType, Zenon
  <1>3. Cardinality(S) <= Cardinality(T)
    BY <1>2, FS_Subset
  <1> QED
    BY <1>1, <1>3 DEF Position

\* The places that LogInv speaks of do not change.
SamePosition ==
    /\ Position(enqueued)' = Position(enqueued)
    /\ Position(headQueueIndex)' = Position(headQueueIndex)
    /\ Position(headQueueIndex + 1)' = Position(headQueueIndex + 1)

(* The elements of the queue in a chain are finitely many.                   *)
LEMMA TakenType ==
    ASSUME NEW chain, NEW n \in Nat
    PROVE  /\ IsFiniteSet({k \in 1..n : chain[k].queueIndex # Nil})
           /\ Taken(chain, n) \in Nat
  <1> DEFINE S == {k \in 1..n : chain[k].queueIndex # Nil}
  <1>1. IsFiniteSet(1..n)
    BY FS_Interval
  <1>2. S \in SUBSET (1..n)
    OBVIOUS
  <1>3. IsFiniteSet(S)
    <2> HIDE DEF S
    <2> QED
      BY <1>1, <1>2, FS_Subset, Zenon
  <1>4. Cardinality(S) \in Nat
    <2> HIDE DEF S
    <2> QED
      BY <1>3, FS_CardinalityType
  <1> QED
    BY <1>3, <1>4 DEF Taken

(* QueueTaken counts the elements of the queue in the chain.                 *)
LEMMA QueueTakenIs ==
    ASSUME blocks \in Seq(Transaction)
    PROVE  QueueTaken = Taken(blocks, Len(blocks))
  <1>1. DOMAIN blocks = 1..Len(blocks)
    OBVIOUS
  <1> QED
    BY <1>1 DEF QueueTaken, Taken

(* A block at the tip is counted when it holds an element of the queue, and  *)
(* keeps the order when the element is the next one.                         *)
LEMMA TakenAppend ==
    ASSUME NEW chain \in Seq(Transaction), NEW tx \in Transaction, NEW t,
           t = Taken(chain, Len(chain)), Ordered(chain),
           tx.queueIndex # Nil =>
               tx.queueIndex \notin Skipped /\ Position(tx.queueIndex) = t
    PROVE  LET longer == Append(chain, tx)
           IN  /\ Taken(longer, Len(longer)) = IF tx.queueIndex = Nil THEN t ELSE t + 1
               /\ Ordered(longer)
  <1>1. PICK b, N : b = Append(chain, tx) /\ N = Len(chain)
    BY Zenon
  <1>2. /\ N \in Nat /\ Len(b) = N + 1 /\ b[N + 1] = tx
        /\ \A k \in 1..N : b[k] = chain[k]
    BY <1>1, AppendProperties, LenProperties
  <1>3. ASSUME NEW n \in 0..N
        PROVE  Taken(b, n) = Taken(chain, n)
    <2>1. \A k \in 1..n : b[k] = chain[k]
      BY <1>2
    <2>2. {k \in 1..n : b[k].queueIndex # Nil} = {k \in 1..n : chain[k].queueIndex # Nil}
      BY <2>1
    <2> QED
      BY <2>2, Zenon DEF Taken
  <1>4. PICK S : S = {k \in 1..N : b[k].queueIndex # Nil}
    BY Zenon
  <1>5. IsFiniteSet(S) /\ Cardinality(S) = t /\ t \in Nat
    <2>1. N \in 0..N
      BY <1>2
    <2>2. Taken(b, N) = t
      BY <1>1, <1>3, <2>1
    <2> QED
      BY <1>2, <1>4, <2>2, TakenType, Zenon DEF Taken
  <1>6. Taken(b, N + 1) = IF tx.queueIndex = Nil THEN t ELSE t + 1
    <2>1. CASE tx.queueIndex = Nil
      <3>1. {k \in 1..(N + 1) : b[k].queueIndex # Nil} = S
        <4>1. \A k \in 1..(N + 1) : b[k].queueIndex # Nil => k \in 1..N
          BY <1>2, <2>1
        <4>2. \A k \in 1..N : k \in 1..(N + 1)
          BY <1>2
        <4> QED
          BY <1>4, <4>1, <4>2
      <3> QED
        BY <1>5, <2>1, <3>1, Zenon DEF Taken
    <2>2. CASE tx.queueIndex # Nil
      <3>1. {k \in 1..(N + 1) : b[k].queueIndex # Nil} = S \cup {N + 1}
        <4>1. \A k \in 1..(N + 1) : k \in 1..N \/ k = N + 1
          BY <1>2
        <4>2. \A k \in 1..N : k \in 1..(N + 1)
          BY <1>2
        <4>3. N + 1 \in 1..(N + 1) /\ b[N + 1].queueIndex # Nil
          BY <1>2, <2>2
        <4> QED
          BY <1>4, <4>1, <4>2, <4>3
      <3>2. N + 1 \notin S
        BY <1>2, <1>4
      <3>3. Cardinality(S \cup {N + 1}) = t + 1
        BY <1>5, <3>2, FS_AddElement, Zenon
      <3> QED
        BY <2>2, <3>1, <3>3, Zenon DEF Taken
    <2> QED
      BY <2>1, <2>2
  <1>7. Ordered(b)
    <2> SUFFICES ASSUME NEW n \in 1..(N + 1), b[n].queueIndex # Nil
                 PROVE  /\ b[n].queueIndex \notin Skipped
                        /\ Position(b[n].queueIndex) = Taken(b, n) - 1
      BY <1>2 DEF Ordered
    <2>1. CASE n \in 1..N
      <3>1. b[n] = chain[n] /\ Taken(b, n) = Taken(chain, n)
        BY <1>2, <1>3, <2>1
      <3> QED
        BY <1>1, <2>1, <3>1 DEF Ordered
    <2>2. CASE n = N + 1
      <3>1. /\ Position(tx.queueIndex) = t /\ tx.queueIndex # Nil
            /\ tx.queueIndex \notin Skipped
        BY <1>2, <2>2
      <3> QED
        BY <1>2, <1>5, <1>6, <2>2, <3>1
    <2> QED
      BY <1>2, <2>1, <2>2
  <1> QED
    BY <1>1, <1>2, <1>6, <1>7

(* In a chain that has the elements in order, the place of an element is     *)
(* below their number, and that of the last element just below it.           *)
LEMMA OrderedIndices ==
    ASSUME NEW chain \in Seq(Transaction), Ordered(chain), NEW t,
           t = Taken(chain, Len(chain)), t # 0
    PROVE  /\ \A n \in DOMAIN chain : chain[n].queueIndex \in Nat =>
                  Position(chain[n].queueIndex) # t
           /\ LastQueueIndex(chain) \in Nat
           /\ Position(LastQueueIndex(chain) + 1) = t
           /\ chain # <<>>
           /\ t \in Nat
  <1> DEFINE queued == {n \in DOMAIN chain : chain[n].queueIndex # Nil}
             N == Len(chain)
             UpTo(n) == {k \in 1..n : chain[k].queueIndex # Nil}
  <1>1. N \in Nat /\ DOMAIN chain = 1..N
    BY LenProperties
  <1>2. t \in Nat
    BY <1>1, TakenType, Zenon
  <1>3. ASSUME NEW n \in 1..N
        PROVE  Taken(chain, n) \in Nat /\ Taken(chain, n) <= t
    <2>1. n \in Nat /\ UpTo(n) \in SUBSET UpTo(N)
      BY <1>1
    <2>2. IsFiniteSet(UpTo(N))
      BY <1>1, TakenType
    <2>3. Taken(chain, n) = Cardinality(UpTo(n)) /\ t = Cardinality(UpTo(N))
      BY DEF Taken
    <2>4. Taken(chain, n) \in Nat
      BY <2>1, TakenType, Zenon
    <2> HIDE DEF UpTo
    <2>5. Cardinality(UpTo(n)) <= Cardinality(UpTo(N))
      BY <2>1, <2>2, FS_Subset
    <2> QED
      BY <2>3, <2>4, <2>5
  <1>4. \A n \in DOMAIN chain : chain[n].queueIndex \in Nat =>
            Position(chain[n].queueIndex) # t
    <2> SUFFICES ASSUME NEW n \in 1..N, chain[n].queueIndex \in Nat,
                        Position(chain[n].queueIndex) = t
                 PROVE FALSE
      BY <1>1
    <2>1. chain[n].queueIndex # Nil
      BY <1>2, SyncServiceAssumption
    <2>2. t = Taken(chain, n) - 1
      BY <2>1 DEF Ordered
    <2> QED
      BY <1>2, <1>3, <2>2
  <1>5. queued # {}
    <2>1. queued = UpTo(N)
      BY <1>1
    <2>2. IsFiniteSet({}) /\ Cardinality({}) = 0
      BY FS_EmptySet
    <2> QED
      BY <2>1, <2>2, Zenon DEF Taken
  <1>6. PICK last \in queued : \A m \in queued : m <= last
    <2> DEFINE back == {N - n : n \in queued}
    <2>1. back \in SUBSET Nat /\ back # {}
      BY <1>1, <1>5
    <2>2. PICK b \in back : \A c \in back : b <= c
      BY <2>1, LeastNatural, Zenon
    <2>3. PICK k \in queued : b = N - k
      BY <2>2
    <2>4. ASSUME NEW m \in queued PROVE m <= k
      <3>1. N - k <= N - m
        BY <2>2, <2>3
      <3> QED
        BY <1>1, <2>3, <3>1
    <2> QED
      BY <2>3, <2>4
  <1>7. PICK k : k = CHOOSE n \in queued : \A m \in queued : m <= n
    OBVIOUS
  <1>8. k \in queued /\ \A m \in queued : m <= k
    BY <1>6, <1>7
  <1>9. LastQueueIndex(chain) = chain[k].queueIndex
    BY <1>5, <1>7, Zenon DEF LastQueueIndex
  <1>10. Taken(chain, k) = t
    <2>1. k \in 1..N
      BY <1>1, <1>8
    <2>2. UpTo(k) = UpTo(N)
      <3>1. \A m \in 1..N : chain[m].queueIndex # Nil => m \in 1..k
        BY <1>1, <1>8, <2>1
      <3>2. \A m \in 1..k : m \in 1..N
        BY <1>1, <2>1
      <3> QED
        BY <3>1, <3>2
    <2> QED
      BY <2>2, Zenon DEF Taken
  <1>11. /\ chain[k].queueIndex \in Nat /\ chain[k].queueIndex \notin Skipped
         /\ Position(chain[k].queueIndex) = t - 1
    <2>1. k \in 1..N /\ chain[k].queueIndex # Nil
      BY <1>1, <1>8
    <2>2. chain[k] \in Transaction
      BY <1>1, <2>1
    <2> QED
      BY <1>10, <2>1, <2>2 DEF Ordered, Transaction
  <1>12. Position(chain[k].queueIndex + 1) = t
    BY <1>2, <1>11, PositionNext
  <1>13. chain # <<>>
    BY <1>1, <1>8
  <1> QED
    BY <1>2, <1>4, <1>9, <1>11, <1>12, <1>13

(* The hypothesis on the chain that a node begins with: it has the elements  *)
(* of the queue in order, and at least the first.                            *)
Deployed == Ordered(InitialBlocks) /\ Taken(InitialBlocks, Len(InitialBlocks)) # 0

(* A deployed node starts with the queue index of its last element.          *)
LEMMA InitLog ==
    ASSUME Deployed, Init
    PROVE  LogInv
  <1>1. /\ blocks = InitialBlocks /\ blocks \in Seq(Transaction)
        /\ headQueueIndex = LastQueueIndex(blocks)
    BY SyncServiceAssumption DEF Init, ServiceInit
  <1>2. QueueTaken = Taken(blocks, Len(blocks)) /\ Ordered(blocks)
    BY <1>1, QueueTakenIs DEF Deployed
  <1>3. /\ QueueTaken \in Nat /\ QueueTaken # 0 /\ headQueueIndex \in Nat
        /\ Position(headQueueIndex + 1) = QueueTaken
    BY <1>1, <1>2, OrderedIndices DEF Deployed
  <1>4. headIndex \in Nat \cup {Nil}
    <2>1. blocks # <<>> => Len(blocks) - 1 \in Nat
      BY <1>1
    <2> QED
      BY <2>1 DEF Init, ServiceInit
  <1>5. call = NoCall /\ ~Pending
    BY DEF Init, ServiceInit, Pending
  <1>6. enqueued = headQueueIndex + 1
    BY <1>1, <1>3, SyncServiceAssumption DEF Init, After
  <1> QED
    BY <1>1, <1>2, <1>3, <1>4, <1>5, <1>6 DEF Init, ServiceInit, LogInv

(* Only the worker changes the chain.                                        *)
LEMMA SameTaken ==
    ASSUME blocks' = blocks
    PROVE  QueueTaken' = QueueTaken /\ Ordered(blocks)' = Ordered(blocks)
  BY DEF QueueTaken, Ordered, Taken

(* The application of an element beyond the queue index moves the index to   *)
(* the element, and any other leaves it.                                     *)
LEMMA ApplyLog ==
    ASSUME LogInv, NEW tx \in Transaction,
           ApplyTransactionToTip(tx, GetNextIndex),
           tx.queueIndex # Nil => headQueueIndex < tx.queueIndex
    PROVE  /\ call' \in Call /\ call' # NoCall
           /\ call'.stage = "sent" /\ call'.tx = tx
           /\ headIndex' \in Nat /\ enqueueIndexNil' = FALSE
           /\ headQueueIndex' = IF tx.queueIndex = Nil THEN headQueueIndex ELSE tx.queueIndex
           /\ blocks' = blocks /\ node = "up" /\ node' = "up"
  <1>1. GetNextIndex \in Nat
    BY SyncServiceAssumption DEF LogInv, GetNextIndex, After
  <1>2. /\ call' = [stage |-> "sent", tx |-> tx, index |-> GetNextIndex, restore |-> headIndex]
        /\ headIndex' = GetNextIndex /\ blocks' = blocks
        /\ call = NoCall /\ node = "up" /\ node' = "up"
    BY DEF ApplyTransactionToTip
  <1>3. call' \in Call /\ call' # NoCall /\ call'.stage = "sent" /\ call'.tx = tx
    BY <1>1, <1>2 DEF LogInv, Call, NoCall
  <1>4. GetLatestEnqueueIndex = headQueueIndex /\ enqueueIndexNil = FALSE
    BY DEF LogInv, GetLatestEnqueueIndex
  <1>5. /\ headQueueIndex' = IF tx.queueIndex = Nil THEN headQueueIndex ELSE tx.queueIndex
        /\ enqueueIndexNil' = FALSE
    <2>1. CASE tx.queueIndex = Nil
      BY <1>4, <2>1 DEF ApplyTransactionToTip
    <2>2. CASE tx.queueIndex # Nil
      BY <1>4, <2>2, Zenon DEF ApplyTransactionToTip, SetLatestEnqueueIndex
    <2> QED
      BY <2>1, <2>2, Zenon
  <1> QED
    BY <1>1, <1>2, <1>3, <1>5

(* The loop takes the next element that is not skipped, whose place is next. *)
LEMMA RangeLog ==
    ASSUME LogInv, NEW end \in Nat, end < enqueued,
           SyncQueueTransactionRange(headQueueIndex + 1, end), enqueued' = enqueued,
           lock' = "loop"
    PROVE  LogInv'
  <1>1. PICK i \in (headQueueIndex + 1)..end :
            /\ i \notin Skipped /\ (headQueueIndex + 1)..(i - 1) \subseteq Skipped
            /\ ApplyEnqueue(i)
            /\ range' = [next |-> i + 1, end |-> end]
    BY DEF SyncQueueTransactionRange
  <1>2. headQueueIndex \in Nat /\ enqueued \in Nat
    BY DEF LogInv
  <1>3. i \in Nat /\ i # Nil /\ headQueueIndex < i /\ headQueueIndex + 1 <= i /\ i < enqueued
    BY <1>1, <1>2, SyncServiceAssumption
  <1>4. PICK tx : tx = [queueIndex |-> i, owner |-> FALSE]
    BY Zenon
  <1>5. tx \in Transaction /\ tx.queueIndex = i
    BY <1>3, <1>4 DEF Transaction
  <1>6. ApplyTransactionToTip(tx, GetNextIndex)
    BY <1>1, <1>4 DEF ApplyEnqueue
  <1>7. node = "up" /\ call = NoCall
    BY <1>6 DEF ApplyTransactionToTip
  <1>8. Position(headQueueIndex + 1) = QueueTaken
    BY <1>7 DEF LogInv, Pending
  <1>9. Position(i) = QueueTaken
    BY <1>1, <1>2, <1>3, <1>8, PositionSkips
  <1>10. /\ call' \in Call /\ call' # NoCall
         /\ call'.stage = "sent" /\ call'.tx = tx
         /\ headIndex' \in Nat /\ enqueueIndexNil' = FALSE
         /\ headQueueIndex' = i
         /\ blocks' = blocks /\ node' = "up"
    BY <1>3, <1>5, <1>6, ApplyLog, Zenon
  <1>11. QueueTaken' = QueueTaken /\ Ordered(blocks)' = Ordered(blocks)
    BY <1>10, SameTaken
  <1>12. Position(enqueued)' = Position(enqueued) /\ Position(headQueueIndex)' = Position(i)
    BY <1>10 DEF Position
  <1> QED
    BY <1>1, <1>2, <1>3, <1>5, <1>9, <1>10, <1>11, <1>12 DEF LogInv, Pending

(* The end of an application puts the index of the database to a number, or  *)
(* to what it was before.                                                    *)
LEMMA ReturnLog ==
    ASSUME LogInv, NEW failed \in BOOLEAN, Return(failed)
    PROVE  /\ headIndex' \in Nat \cup {Nil} /\ call' = NoCall
           /\ blocks' = blocks /\ node = "up" /\ node' = "up"
           /\ call \in Call /\ call.stage \in {"err", "head"}
  <1>1. call \in Call
    BY DEF LogInv, Return, NoCall
  <1> QED
    BY <1>1 DEF LogInv, Return, IndexAfterSet, Call

(* The worker appends the transaction of the call, which has the next        *)
(* element of the queue or none.                                             *)
LEMMA CommitLog ==
    ASSUME LogInv, call \in Call, call.stage = "sent", node = "up",
           blocks' = Append(blocks, call.tx)
    PROVE  /\ call.tx \in Transaction
           /\ call.tx.queueIndex # Nil => Position(call.tx.queueIndex) = QueueTaken
           /\ QueueTaken' = IF call.tx.queueIndex = Nil THEN QueueTaken ELSE QueueTaken + 1
           /\ QueueTaken' \in 1..Position(enqueued)
           /\ Position(headQueueIndex + 1) = QueueTaken'
           /\ blocks' \in Seq(Transaction) /\ Ordered(blocks)'
           /\ blocks' # <<>> /\ blocks'[Len(blocks')] = call.tx
  <1>1. call.tx \in Transaction /\ call # NoCall
    BY DEF Call, NoCall
  <1>2. call.tx.queueIndex # Nil =>
            /\ call.tx.queueIndex = headQueueIndex /\ headQueueIndex < enqueued
            /\ call.tx.queueIndex \notin Skipped /\ Position(call.tx.queueIndex) = QueueTaken
    BY <1>1 DEF LogInv, Pending
  <1>3. blocks \in Seq(Transaction) /\ Ordered(blocks) /\ blocks' \in Seq(Transaction)
    BY <1>1 DEF LogInv
  <1>4. PICK longer : longer = Append(blocks, call.tx)
    OBVIOUS
  <1>5. /\ Taken(longer, Len(longer)) = IF call.tx.queueIndex = Nil THEN QueueTaken ELSE QueueTaken + 1
        /\ Ordered(longer)
    BY <1>1, <1>2, <1>3, <1>4, QueueTakenIs, TakenAppend
  <1>6. QueueTaken' = Taken(longer, Len(longer)) /\ Ordered(blocks)' = Ordered(longer)
    <2>1. blocks' = longer /\ DOMAIN longer = 1..Len(longer)
      BY <1>3, <1>4
    <2> QED
      BY <2>1 DEF QueueTaken, Taken, Ordered
  <1>7. /\ headQueueIndex \in Nat /\ enqueued \in Nat /\ QueueTaken \in 1..Position(enqueued)
        /\ Position(enqueued) \in Nat
    BY PositionType, Zenon DEF LogInv
  <1>8. Position(headQueueIndex + 1) = QueueTaken'
    <2>1. CASE call.tx.queueIndex = Nil
      BY <1>5, <1>6, <2>1 DEF LogInv, Pending
    <2>2. CASE call.tx.queueIndex # Nil
      <3>1. Position(headQueueIndex + 1) = Position(headQueueIndex) + 1
        BY <1>2, <1>7, <2>2, PositionNext
      <3> QED
        BY <1>2, <1>5, <1>6, <2>2, <3>1
    <2> QED
      BY <2>1, <2>2
  <1>9. QueueTaken' \in 1..Position(enqueued)
    <2>1. CASE call.tx.queueIndex = Nil
      BY <1>5, <1>6, <1>7, <2>1
    <2>2. CASE call.tx.queueIndex # Nil
      <3>1. headQueueIndex + 1 \in Nat /\ headQueueIndex + 1 <= enqueued
        BY <1>2, <1>7, <2>2
      <3>2. Position(headQueueIndex + 1) <= Position(enqueued)
        BY <1>7, <3>1, PositionGrows
      <3> QED
        BY <1>5, <1>6, <1>7, <1>8, <2>2, <3>2
    <2> QED
      BY <2>1, <2>2
  <1>10. blocks' # <<>> /\ blocks'[Len(blocks')] = call.tx
    BY <1>1, <1>3
  <1> QED
    BY <1>1, <1>2, <1>3, <1>5, <1>6, <1>8, <1>9, <1>10

(* Every step of the sequencer preserves the order.                          *)
LEMMA LogStep ==
    ASSUME LogInv, [Next]_vars
    PROVE  LogInv'
  <1>1. CASE Enqueue
    <2>1. blocks' = blocks
      BY <1>1 DEF Enqueue, serviceVars
    <2>2. QueueTaken' = QueueTaken /\ Ordered(blocks)' = Ordered(blocks)
      BY <2>1, SameTaken
    <2>3. /\ enqueued \in Nat /\ enqueued' = enqueued + 1 /\ UNCHANGED <<serviceVars, lock, range>>
      BY <1>1 DEF Enqueue, LogInv
    <2>4. Position(enqueued)' = Position(enqueued')
      BY DEF Position
    <2>5. /\ Position(enqueued) \in Nat /\ Position(enqueued') \in Nat
          /\ Position(enqueued) <= Position(enqueued')
      <3>1. enqueued' \in Nat /\ enqueued <= enqueued'
        BY <2>3
      <3> QED
        BY <2>3, <3>1, PositionType, PositionGrows, Zenon
    <2>6. Position(headQueueIndex)' = Position(headQueueIndex)
      BY <2>3 DEF Position, serviceVars
    <2>7. Position(headQueueIndex + 1)' = Position(headQueueIndex + 1)
      BY <2>3 DEF Position, serviceVars
    <2> QED
      BY <2>2, <2>3, <2>4, <2>5, <2>6, <2>7 DEF serviceVars, LogInv, Pending
  <1>2. ASSUME NEW owner \in BOOLEAN, SendTransaction(owner)
        PROVE  LogInv'
    <2>1. PICK tx : tx = [queueIndex |-> Nil, owner |-> owner]
      BY Zenon
    <2>2. tx \in Transaction /\ tx.queueIndex = Nil
      BY <2>1 DEF Transaction
    <2>3. ApplyTransactionToTip(tx, GetNextIndex)
      BY <1>2, <2>1 DEF SendTransaction
    <2>4. /\ call' \in Call /\ call' # NoCall
          /\ call'.stage = "sent" /\ call'.tx = tx
          /\ headIndex' \in Nat /\ enqueueIndexNil' = FALSE
          /\ headQueueIndex' = headQueueIndex
          /\ blocks' = blocks /\ node = "up" /\ node' = "up"
      BY <2>2, <2>3, ApplyLog, Zenon
    <2>5. QueueTaken' = QueueTaken /\ Ordered(blocks)' = Ordered(blocks)
      BY <2>4, SameTaken
    <2>6. enqueued' = enqueued /\ lock = "free" /\ lock' = "rpc" /\ range' = range
      BY <1>2 DEF SendTransaction
    <2>7. call = NoCall /\ ~Pending /\ ~Pending'
      BY <2>2, <2>4, <2>6 DEF LogInv, Pending
    <2>8. SamePosition
      BY <2>4, <2>6 DEF SamePosition, Position
    <2> QED
      BY <2>2, <2>4, <2>5, <2>6, <2>7, <2>8 DEF SamePosition, LogInv
  <1>3. CASE SendTransactionReturns
    <2>1. PICK failed \in BOOLEAN : Return(failed)
      BY <1>3 DEF SendTransactionReturns
    <2>2. /\ headIndex' \in Nat \cup {Nil} /\ call' = NoCall
          /\ blocks' = blocks /\ node = "up" /\ node' = "up"
      BY <2>1, ReturnLog
    <2>3. QueueTaken' = QueueTaken /\ Ordered(blocks)' = Ordered(blocks)
      BY <2>2, SameTaken
    <2>4. /\ lock = "rpc" /\ lock' = "free"
          /\ UNCHANGED <<headQueueIndex, enqueueIndexNil, enqueued, range>>
      BY <1>3 DEF SendTransactionReturns
    <2>5. ~Pending /\ ~Pending'
      BY <2>2, <2>4 DEF LogInv, Pending
    <2>6. SamePosition
      BY <2>4 DEF SamePosition, Position
    <2> QED
      BY <2>2, <2>3, <2>4, <2>5, <2>6 DEF SamePosition, LogInv
  <1>4. CASE SyncQueue
    <2>1. headQueueIndex \in Nat /\ enqueued \in Nat
      BY DEF LogInv
    <2>2. GetNextEnqueueIndex = headQueueIndex + 1
      BY SyncServiceAssumption DEF LogInv, GetNextEnqueueIndex, GetLatestEnqueueIndex, After
    <2>3. /\ SyncQueueTransactionRange(headQueueIndex + 1, enqueued - 1)
          /\ enqueued' = enqueued /\ lock' = "loop"
      BY <1>4, <2>2 DEF SyncQueue
    <2>4. PICK i \in (headQueueIndex + 1)..(enqueued - 1) : TRUE
      BY <2>3 DEF SyncQueueTransactionRange
    <2>5. enqueued - 1 \in Nat /\ enqueued - 1 < enqueued
      BY <2>1, <2>4
    <2> QED
      BY <2>3, <2>5, RangeLog
  <1>5. CASE SyncQueueContinues
    <2>1. lock = "loop" /\ enqueued' = enqueued /\ lock' = lock
      BY <1>5 DEF SyncQueueContinues
    <2>2. range.next = headQueueIndex + 1 /\ range.end \in Nat /\ range.end < enqueued
      BY <2>1 DEF LogInv
    <2>3. SyncQueueTransactionRange(headQueueIndex + 1, range.end)
      BY <1>5, <2>2 DEF SyncQueueContinues
    <2> QED
      BY <2>1, <2>2, <2>3, RangeLog
  <1>6. CASE SyncQueueReturns
    <2>1. PICK failed \in BOOLEAN : Return(failed)
      BY <1>6 DEF SyncQueueReturns
    <2>2. /\ headIndex' \in Nat \cup {Nil} /\ call' = NoCall
          /\ blocks' = blocks /\ node = "up" /\ node' = "up"
          /\ call \in Call /\ call.stage \in {"err", "head"}
      BY <2>1, ReturnLog
    <2>3. QueueTaken' = QueueTaken /\ Ordered(blocks)' = Ordered(blocks)
      BY <2>2, SameTaken
    <2>4. PICK i, found : /\ i = call.tx.queueIndex
                          /\ found = \E n \in DOMAIN blocks : blocks[n].queueIndex = i
      BY Zenon
    <2>5. /\ lock = "loop"
          /\ IF found THEN UNCHANGED <<headQueueIndex, enqueueIndexNil>> ELSE RestoreEnqueueIndex(i)
          /\ lock' \in {"loop", "free"} /\ (~found => lock' = "free")
          /\ UNCHANGED <<enqueued, accepted, range>>
      BY <1>6, <2>4, SMTT(30) DEF SyncQueueReturns
    <2>6. /\ call # NoCall /\ i = headQueueIndex /\ i \in Nat /\ i # Nil
          /\ range.next = i + 1 /\ range.end < enqueued
      BY <2>2, <2>4, <2>5, SyncServiceAssumption, SMTT(30) DEF LogInv, Call, NoCall
    <2>7. /\ \A n \in DOMAIN blocks : blocks[n].queueIndex \in Nat =>
                 Position(blocks[n].queueIndex) # QueueTaken
          /\ QueueTaken \in Nat /\ QueueTaken >= 1
      BY QueueTakenIs, OrderedIndices DEF LogInv
    <2>8. ~Pending' /\ Position(enqueued)' = Position(enqueued)
      BY <2>2, <2>5 DEF Pending, Position
    <2>9. CASE call.stage = "err"
      <3>1. Position(i) = QueueTaken
        BY <2>4, <2>6, <2>9 DEF LogInv, Pending
      <3>2. ~found
        BY <2>4, <2>6, <2>7, <3>1
      <3>3. i # 0
        <4>1. QueueTaken # 0
          BY <2>7
        <4> QED
          BY <2>6, <3>1, <4>1, PositionType, Zenon
      <3>4. i - 1 # Nil /\ i > 0 /\ i - 1 \in Nat /\ (i - 1) + 1 = i
        BY <2>6, <3>3, SyncServiceAssumption
      <3>5. headQueueIndex' = i - 1 /\ enqueueIndexNil' = FALSE /\ lock' = "free"
        BY <2>5, <3>2, <3>4, Zenon DEF RestoreEnqueueIndex, SetLatestEnqueueIndex
      <3>6. Position(headQueueIndex + 1)' = QueueTaken
        BY <3>1, <3>4, <3>5, SMTT(30) DEF Position
      <3> QED
        BY <2>2, <2>3, <2>5, <2>8, <3>4, <3>5, <3>6, SMTT(30) DEF LogInv
    <2>10. CASE call.stage = "head"
      <3>1. blocks # <<>> /\ blocks[Len(blocks)] = call.tx /\ blocks \in Seq(Transaction)
        BY <2>5, <2>6, <2>10 DEF LogInv
      <3>2. Len(blocks) \in DOMAIN blocks
        BY <3>1
      <3>3. found
        BY <2>4, <3>1, <3>2
      <3>4. UNCHANGED <<headQueueIndex, enqueueIndexNil>>
        BY <2>5, <3>3
      <3>5. Position(headQueueIndex + 1)' = QueueTaken
        <4>1. Position(headQueueIndex + 1) = QueueTaken
          BY <2>2, <2>10 DEF LogInv, Pending
        <4> QED
          BY <3>4, <4>1 DEF Position
      <3> QED
        BY <2>2, <2>3, <2>5, <2>6, <2>8, <3>4, <3>5, SMTT(30) DEF LogInv
    <2> QED
      BY <2>2, <2>9, <2>10
  <1>7. CASE Worker /\ UNCHANGED queueVars
    <2>1. call \in Call /\ call # NoCall /\ call.stage = "sent" /\ node = "up"
      BY <1>7 DEF Worker, LogInv, Call, NoCall
    <2>2. /\ UNCHANGED <<headIndex, headQueueIndex, enqueueIndexNil, node>>
          /\ UNCHANGED <<enqueued, lock, range>>
      BY <1>7 DEF Worker, queueVars
    <2>5. SamePosition
      BY <2>2 DEF SamePosition, Position
    <2>3. CASE CommitNewTx
      <3>1. blocks' = Append(blocks, call.tx) /\ call' = [call EXCEPT !.stage = "head"]
        BY <2>3 DEF CommitNewTx
      <3>2. /\ QueueTaken' \in 1..Position(enqueued)
            /\ Position(headQueueIndex + 1) = QueueTaken'
            /\ blocks' \in Seq(Transaction) /\ Ordered(blocks)'
            /\ blocks' # <<>> /\ blocks'[Len(blocks')] = call.tx
        BY <2>1, <3>1, CommitLog
      <3>3. /\ call' \in Call /\ call' # NoCall /\ call'.tx = call.tx /\ call'.stage = "head"
            /\ ~Pending'
        BY <2>1, <3>1 DEF Call, NoCall, Pending
      <3> QED
        BY <2>1, <2>2, <2>5, <3>2, <3>3 DEF SamePosition, LogInv
    <2>4. CASE FailNewTx
      <3>1. blocks' = blocks /\ call' = [call EXCEPT !.stage = "err"]
        BY <2>4 DEF FailNewTx
      <3>2. QueueTaken' = QueueTaken /\ Ordered(blocks)' = Ordered(blocks)
        BY <3>1, SameTaken
      <3>3. /\ call' \in Call /\ call' # NoCall /\ call'.tx = call.tx /\ call'.stage = "err"
            /\ Pending' = Pending
        BY <2>1, <3>1 DEF Call, NoCall, Pending
      <3> QED
        BY <2>1, <2>2, <2>5, <3>1, <3>2, <3>3 DEF SamePosition, LogInv
    <2> QED
      BY <1>7, <2>3, <2>4 DEF Worker
  <1>8. CASE Crash /\ lock' = "free" /\ UNCHANGED <<enqueued, accepted, range>>
    <2>1. blocks' = blocks
      BY <1>8 DEF Crash
    <2>2. QueueTaken' = QueueTaken /\ Ordered(blocks)' = Ordered(blocks)
      BY <2>1, SameTaken
    <2>3. SamePosition
      BY <1>8 DEF Crash, SamePosition, Position
    <2> QED
      BY <1>8, <2>1, <2>2, <2>3 DEF Crash, SamePosition, LogInv, Pending
  <1>9. CASE Restart /\ UNCHANGED queueVars
    <2>1. blocks' = blocks /\ call' = call /\ lock = "free" /\ call = NoCall
      BY <1>9 DEF Restart, LogInv
    <2>2. QueueTaken' = QueueTaken /\ Ordered(blocks)' = Ordered(blocks)
      BY <2>1, SameTaken
    <2>3. /\ LastQueueIndex(blocks) \in Nat /\ blocks # <<>>
          /\ Position(LastQueueIndex(blocks) + 1) = QueueTaken
      BY QueueTakenIs, OrderedIndices, SMTT(30) DEF LogInv
    <2>5. node' = "up" /\ headIndex' \in Nat \cup {Nil}
      <3>1. Len(blocks) - 1 \in Nat
        BY <2>3 DEF LogInv
      <3> QED
        BY <1>9, <2>3, <3>1, SMTT(30) DEF Restart, RepairIndex, LogInv
    <2>6. headQueueIndex' = LastQueueIndex(blocks) /\ enqueueIndexNil' = FALSE
      <3>1. headQueueIndex # Nil /\ LastQueueIndex(blocks) # Nil
        BY <2>3, SyncServiceAssumption DEF LogInv
      <3> QED
        BY <1>9, <2>5, <3>1, Zenon DEF Restart, RepairEnqueueIndex, SetLatestEnqueueIndex
    <2>7. /\ Position(headQueueIndex + 1)' = QueueTaken
          /\ Position(enqueued)' = Position(enqueued)
      BY <1>9, <2>3, <2>6, SMTT(30) DEF queueVars, Position
    <2> QED
      BY <1>9, <2>1, <2>2, <2>3, <2>5, <2>6, <2>7, SMTT(30) DEF queueVars, LogInv, Pending
  <1>10. CASE UNCHANGED vars
    <2>1. blocks' = blocks
      BY <1>10 DEF vars, serviceVars
    <2>2. QueueTaken' = QueueTaken /\ Ordered(blocks)' = Ordered(blocks)
      BY <2>1, SameTaken
    <2>3. SamePosition
      BY <1>10, SMTT(30) DEF vars, serviceVars, queueVars, SamePosition, Position
    <2> QED
      BY <1>10, <2>1, <2>2, <2>3 DEF vars, serviceVars, queueVars, SamePosition, LogInv, Pending
  <1>11. CASE GetEnqueueFails
    <2>1. blocks' = blocks
      BY <1>11 DEF GetEnqueueFails, serviceVars
    <2>2. QueueTaken' = QueueTaken /\ Ordered(blocks)' = Ordered(blocks)
      BY <2>1, SameTaken
    <2>3. SamePosition
      BY <1>11 DEF GetEnqueueFails, serviceVars, SamePosition, Position
    <2> QED
      BY <1>11, <2>1, <2>2, <2>3 DEF GetEnqueueFails, serviceVars, SamePosition, LogInv, Pending
  <1> QED
    BY <1>1, <1>2, <1>3, <1>4, <1>5, <1>6, <1>7, <1>8, <1>9, <1>10, <1>11, SMTT(30) DEF Next

(* What the log holds for a transaction.                                     *)
Entry(tx) == IF tx.queueIndex = Nil THEN Sequenced ELSE Position(tx.queueIndex)

(* A block of the worker is one entry at the end of the log.                 *)
LEMMA LogGrows ==
    ASSUME NEW tx \in Transaction, blocks \in Seq(Transaction), blocks' = Append(blocks, tx)
    PROVE  /\ Len(Log') = Len(Log) + 1
           /\ SubSeq(Log', Len(Log) + 1, Len(Log')) = <<Entry(tx)>>
           /\ Log' = Log \o <<Entry(tx)>>
  <1>1. PICK N : N = Len(blocks)
    OBVIOUS
  <1>2. /\ N \in Nat /\ DOMAIN blocks = 1..N /\ DOMAIN blocks' = 1..(N + 1)
        /\ blocks'[N + 1] = tx /\ \A n \in 1..N : blocks'[n] = blocks[n]
    BY <1>1, AppendProperties, LenProperties
  <1>3. Log = [n \in 1..N |-> Entry(blocks[n])] /\ Log' = [n \in 1..(N + 1) |-> Entry(blocks'[n])]
    BY <1>2 DEF Log, Entry
  <1>4. PICK E : E = {Entry(blocks[n]) : n \in 1..N} \cup {Entry(tx)}
    BY Zenon
  <1>5. Log \in Seq(E) /\ Len(Log) = N /\ Entry(tx) \in E
    <2>1. Log \in [1..N -> E]
      BY <1>3, <1>4
    <2> QED
      BY <1>2, <1>4, <2>1, SeqDef, LenProperties
  <1>6. Log' = Append(Log, Entry(tx))
    <2>1. PICK longer : longer = Append(Log, Entry(tx))
      BY Zenon
    <2>2. /\ longer \in Seq(E) /\ Len(longer) = N + 1 /\ longer[N + 1] = Entry(tx)
          /\ \A n \in 1..N : longer[n] = Log[n]
      BY <1>5, <2>1, AppendProperties, SMTT(30)
    <2>3. \A n \in 1..(N + 1) : Log'[n] = longer[n]
      <3>1. \A n \in 1..(N + 1) : n = N + 1 \/ n \in 1..N
        BY <1>2
      <3> QED
        BY <1>2, <1>3, <2>2, <3>1, SMTT(30)
    <2>4. Log' \in Seq(E) /\ Len(Log') = N + 1
      <3>1. \A n \in 1..(N + 1) : longer[n] \in E
        BY <2>2
      <3>2. Log' \in [1..(N + 1) -> E]
        BY <1>3, <2>3, <3>1, Zenon
      <3>3. N + 1 \in Nat
        BY <1>2
      <3> QED
        BY <3>2, <3>3, SeqDef, LenProperties, SMTT(30)
    <2> QED
      BY <2>1, <2>2, <2>3, <2>4, SeqEqual
  <1>7. Log' \in Seq(E) /\ Len(Log') = N + 1 /\ Log' = Log \o <<Entry(tx)>>
    BY <1>5, <1>6, AppendProperties, AppendIsConcat
  <1>8. SubSeq(Log', N + 1, N + 1) = <<Entry(tx)>>
    <2>1. N + 1 \in 1..Len(Log') /\ N + 1 \in (N + 1)..Len(Log')
      BY <1>2, <1>7
    <2>2. SubSeq(Log', N + 1, N + 1) = <<Log'[N + 1]>> \o SubSeq(Log', N + 1 + 1, N + 1)
      BY <1>7, <2>1, SubSeqRecursiveFirst, Zenon
    <2>3. SubSeq(Log', N + 1 + 1, N + 1) = <<>>
      BY <1>2, SubSeqEmpty
    <2>4. Log'[N + 1] = Entry(tx)
      BY <1>2, <1>3
    <2>5. <<Entry(tx)>> \o <<>> = <<Entry(tx)>>
      OBVIOUS
    <2> QED
      BY <2>2, <2>3, <2>4, <2>5, Zenon
  <1> QED
    BY <1>2, <1>5, <1>7, <1>8

(* One entry takes the next element of the queue or none.                    *)
LEMMA OneEntry ==
    ASSUME LogInv, LogInv', NEW tx \in Transaction,
           tx.queueIndex # Nil => Position(tx.queueIndex) = QueueTaken,
           blocks' = Append(blocks, tx), enqueued' = enqueued,
           QueueTaken' = IF tx.queueIndex = Nil THEN QueueTaken ELSE QueueTaken + 1
    PROVE  TransactionLog!Next
  <1>1. PICK e : e = <<Entry(tx)>>
    BY Zenon
  <1>2. /\ Len(Log') = Len(Log) + 1 /\ Len(Log) \in Nat
        /\ SubSeq(Log', Len(Log) + 1, Len(Log')) = e
        /\ Log' = Log \o e
    <2>1. blocks \in Seq(Transaction)
      BY DEF LogInv
    <2>2. Len(Log) \in Nat
      BY <2>1 DEF Log
    <2> QED
      BY <1>1, <2>1, <2>2, LogGrows, SMTT(30)
  <1>3. Len(e) = 1 /\ e[1] = Entry(tx)
    BY <1>1
  <1>4. /\ QueueTaken \in Nat /\ Position(enqueued) \in Nat /\ QueueTaken' <= Position(enqueued)
        /\ Position(enqueued)' = Position(enqueued)
    <2>1. Position(enqueued)' = Position(enqueued)
      BY DEF Position
    <2>2. Position(enqueued) \in Nat
      BY PositionType, Zenon DEF LogInv
    <2> QED
      BY <2>1, <2>2 DEF LogInv
  <1>5. TransactionLog!QueueCount(e, 1) = IF tx.queueIndex = Nil THEN 0 ELSE 1
    <2>1. {i \in 1..1 : e[i] # Sequenced} = IF Entry(tx) = Sequenced THEN {} ELSE {1}
      <3>1. \A i \in 1..1 : i = 1
        OBVIOUS
      <3>2. 1 \in 1..1
        OBVIOUS
      <3> QED
        BY <1>3, <3>1, <3>2, Zenon
    <2>2. Entry(tx) = Sequenced <=> tx.queueIndex = Nil
      BY <1>4, SequencerAssumption DEF Entry
    <2>3. Cardinality({}) = 0 /\ Cardinality({1}) = 1
      BY FS_EmptySet, FS_Singleton, Zenon
    <2> QED
      BY <2>1, <2>2, <2>3, Zenon
      DEF TransactionLog!QueueCount, Cardinality, TransactionLog!Cardinality
  <1>6. TransactionLog!AppendEntries(e)
    <2>1. \A k \in 1..Len(e) : e[k] # Sequenced =>
              e[k] = QueueTaken + TransactionLog!QueueCount(e, k) - 1
      <3>1. \A k \in 1..Len(e) : k = 1
        BY <1>3
      <3>2. Entry(tx) # Sequenced => Entry(tx) = QueueTaken + TransactionLog!QueueCount(e, 1) - 1
        BY <1>4, <1>5 DEF Entry
      <3> QED
        BY <1>3, <3>1, <3>2
    <2>2. QueueTaken' = QueueTaken + TransactionLog!QueueCount(e, Len(e))
      BY <1>3, <1>4, <1>5
    <2> QED
      BY <1>2, <1>4, <2>1, <2>2 DEF TransactionLog!AppendEntries
  <1>7. Len(Log') > Len(Log)
    BY <1>2
  <1> QED
    BY <1>2, <1>6, <1>7, Zenon DEF TransactionLog!Next

(* The sequencer's chain is the log of the canonical transaction chain to    *)
(* come.  On a deployed chain it takes the elements of the queue in order,   *)
(* none left out but the hard-coded ones and none twice, for every number of *)
(* elements, failures of the worker and crashes, and also when the oracle    *)
(* cannot be read.                                                           *)
THEOREM QueueOrder ==
    ASSUME Deployed
    PROVE  Spec => ExtendsTransactionLog
  <1>1. Init => LogInv
    BY InitLog
  <1>2. LogInv /\ [Next]_vars => LogInv'
    BY LogStep
  <1>3. LogInv /\ LogInv' /\ [Next]_vars =>
            [TransactionLog!Next]_<<Log, Position(enqueued), QueueTaken>>
    <2> SUFFICES ASSUME LogInv, LogInv', [Next]_vars
                 PROVE  \/ TransactionLog!Next
                        \/ UNCHANGED <<Log, Position(enqueued), QueueTaken>>
      OBVIOUS
    <2>1. ASSUME blocks' = blocks
          PROVE  /\ Log' = Log /\ QueueTaken' = QueueTaken
                 /\ enqueued' = enqueued => Position(enqueued)' = Position(enqueued)
      BY <2>1 DEF Log, QueueTaken, Position
    <2>2. CASE Enqueue
      <3>1. blocks' = blocks /\ enqueued' = enqueued + 1
        BY <2>2, SMTT(30) DEF Enqueue, serviceVars
      <3>2. enqueued \in Nat /\ Position(enqueued)' = Position(enqueued + 1)
        BY <3>1 DEF LogInv, Position
      <3>3. CASE enqueued \in Skipped
        <4>1. enqueued..(enqueued + 1 - 1) \subseteq Skipped
          BY <3>2, <3>3
        <4>2. Position(enqueued + 1) = Position(enqueued)
          BY <3>2, <4>1, PositionSkips
        <4> QED
          BY <2>1, <3>1, <3>2, <4>2
      <3>4. CASE enqueued \notin Skipped
        <4>1. Position(enqueued + 1) = Position(enqueued) + 1
          BY <3>2, <3>4, PositionNext
        <4> QED
          BY <2>1, <3>1, <3>2, <4>1 DEF TransactionLog!Next, TransactionLog!Enqueue
      <3> QED
        BY <3>3, <3>4
    <2>3. CASE Worker /\ CommitNewTx /\ UNCHANGED queueVars
      <3>1. /\ call \in Call /\ call.stage = "sent" /\ node = "up"
            /\ blocks' = Append(blocks, call.tx) /\ enqueued' = enqueued
        BY <2>3 DEF Worker, CommitNewTx, queueVars, LogInv, NoCall
      <3>2. /\ call.tx \in Transaction
            /\ call.tx.queueIndex # Nil => Position(call.tx.queueIndex) = QueueTaken
            /\ QueueTaken' = IF call.tx.queueIndex = Nil THEN QueueTaken ELSE QueueTaken + 1
        BY <3>1, CommitLog
      <3> QED
        BY <3>1, <3>2, OneEntry
    <2>4. CASE Worker /\ FailNewTx /\ UNCHANGED queueVars
      BY <2>1, <2>4 DEF FailNewTx, queueVars
    <2>5. ASSUME NEW owner \in BOOLEAN, SendTransaction(owner)
          PROVE  blocks' = blocks /\ enqueued' = enqueued
      BY <2>5, SMTT(30) DEF SendTransaction, ApplyTransactionToTip
    <2>6. CASE SendTransactionReturns \/ SyncQueueReturns
      BY <2>1, <2>6, SMTT(30) DEF SendTransactionReturns, SyncQueueReturns, Return
    <2>7. CASE SyncQueue \/ SyncQueueContinues
      BY <2>1, <2>7
      DEF SyncQueue, SyncQueueContinues, SyncQueueTransactionRange,
          ApplyEnqueue, ApplyTransactionToTip
    <2>8. CASE GetEnqueueFails \/ UNCHANGED vars
      BY <2>1, <2>8 DEF GetEnqueueFails, vars, serviceVars, queueVars
    <2>9. CASE Crash /\ lock' = "free" /\ UNCHANGED <<enqueued, accepted, range>>
      BY <2>1, <2>9 DEF Crash
    <2>10. CASE Restart /\ UNCHANGED queueVars
      BY <2>1, <2>10 DEF Restart, queueVars
    <2> QED
      BY <2>1, <2>2, <2>3, <2>4, <2>5, <2>6, <2>7, <2>8, <2>9, <2>10, SMTT(30) DEF Next, Worker
  <1> QED
    BY <1>1, <1>2, <1>3, PTL DEF Spec, ExtendsTransactionLog

-----------------------------------------------------------------------------
(* The verifier.                                                             *)

(* The strengthening of LatestIndexIsTip for a verifier that can read the    *)
(* gas price oracle.  The index runs one ahead of the chain while the worker *)
(* has the transaction or has failed, and the call keeps where it has to go  *)
(* back to; a crash leaves either of the two values.                         *)
TipInv ==
    /\ blocks \in Seq(Transaction) /\ Len(blocks) >= 1
    /\ node \in {"up", "down"} /\ call \in Call \cup {NoCall}
    /\ headIndex \in Nat /\ headIndex \in {Len(blocks) - 1, Len(blocks)}
    /\ node = "up" /\ call = NoCall => headIndex = Len(blocks) - 1
    /\ node = "down" => call = NoCall
    /\ call # NoCall =>
          /\ headIndex = call.index
          /\ call.restore \in Nat /\ call.restore + 1 = call.index
          /\ Len(blocks) = IF call.stage = "head" THEN call.index + 1 ELSE call.index

(* A node that begins with a block begins with its index.                    *)
LEMMA InitTip ==
    ASSUME InitialBlocks # <<>>, ServiceInit
    PROVE  TipInv
  <1>1. blocks \in Seq(Transaction) /\ blocks # <<>>
    BY SyncServiceAssumption DEF ServiceInit
  <1>2. Len(blocks) \in Nat /\ Len(blocks) > 0
    BY <1>1
  <1> QED
    BY <1>1, <1>2 DEF ServiceInit, TipInv

(* Every step of the verifier preserves where the index is.                  *)
LEMMA TipStep ==
    ASSUME OracleFails = FALSE, TipInv, [VerifierNext]_verifierVars
    PROVE  TipInv'
  <1>1. CASE UNCHANGED serviceVars
    BY <1>1 DEF serviceVars, TipInv
  <1>2. Len(blocks) \in Nat
    BY DEF TipInv
  <1>3. CASE ApplyBatchedTransaction
    <2>1. node = "up" /\ call = NoCall /\ headIndex = Len(blocks) - 1
      BY <1>3 DEF ApplyBatchedTransaction, TipInv
    <2>2. GetNextIndex = Len(blocks)
      BY <1>2, <2>1, SyncServiceAssumption DEF TipInv, GetNextIndex, After
    <2>3. CASE loop.index = GetNextIndex
      <3>1. PICK tx : tx = [queueIndex |-> Nil, owner |-> loop.index \in OwnerElements]
        BY Zenon
      <3>2. tx \in Transaction
        BY <3>1 DEF Transaction
      <3>3. /\ call' = [stage |-> "sent", tx |-> tx, index |-> Len(blocks), restore |-> headIndex]
            /\ headIndex' = Len(blocks) /\ blocks' = blocks /\ node' = node
        BY <1>3, <2>2, <2>3, <3>1, SMTT(30) DEF ApplyBatchedTransaction, ApplyTransactionToTip
      <3>4. /\ call' \in Call /\ call' # NoCall /\ call'.stage = "sent" /\ call'.tx = tx
            /\ call'.index = Len(blocks) /\ call'.restore = headIndex
        BY <1>2, <3>2, <3>3 DEF TipInv, Call, NoCall
      <3> QED
        BY <1>2, <2>1, <3>2, <3>3, <3>4 DEF TipInv
    <2>4. CASE loop.index # GetNextIndex
      BY <1>1, <1>3, <2>4 DEF ApplyBatchedTransaction
    <2> QED
      BY <2>3, <2>4
  <1>4. CASE ApplyReturns
    <2>1. PICK failed \in BOOLEAN : Return(failed)
      BY <1>4 DEF ApplyReturns
    <2>2. call' = NoCall /\ blocks' = blocks /\ node = "up" /\ node' = "up"
      BY <2>1, SMTT(30) DEF Return
    <2>3. call \in Call /\ call # NoCall /\ call.stage \in {"err", "head"}
      BY <2>1 DEF TipInv, Return, NoCall, Call
    <2>4. failed <=> call.stage = "err"
      BY <2>1, <2>3 DEF Return, TipInv
    <2>5. headIndex' = Len(blocks) - 1
      BY <1>2, <2>1, <2>3, <2>4, SyncServiceAssumption, SMTT(30) DEF Return, IndexAfterSet, TipInv
    <2> QED
      BY <1>2, <2>2, <2>5 DEF TipInv
  <1>5. CASE Worker
    <2>1. call \in Call /\ call # NoCall /\ call.stage = "sent" /\ node = "up"
      BY <1>5 DEF Worker, TipInv, Call, NoCall
    <2>2. headIndex' = headIndex /\ node' = node /\ Len(blocks) = call.index
      BY <1>5, <2>1 DEF Worker, TipInv
    <2>3. CASE CommitNewTx
      <3>1. blocks' = Append(blocks, call.tx) /\ call' = [call EXCEPT !.stage = "head"]
        BY <2>3 DEF CommitNewTx
      <3>2. /\ call' \in Call /\ call' # NoCall /\ call'.stage = "head" /\ call'.tx = call.tx
            /\ call'.index = call.index /\ call'.restore = call.restore /\ call.tx \in Transaction
        BY <2>1, <3>1 DEF Call, NoCall
      <3>3. blocks' \in Seq(Transaction) /\ Len(blocks') = Len(blocks) + 1
        BY <3>1, <3>2 DEF TipInv
      <3> QED
        BY <1>2, <2>1, <2>2, <3>2, <3>3 DEF TipInv
    <2>4. CASE FailNewTx
      <3>1. blocks' = blocks /\ call' = [call EXCEPT !.stage = "err"]
        BY <2>4 DEF FailNewTx
      <3>2. /\ call' \in Call /\ call' # NoCall /\ call'.stage = "err" /\ call'.tx = call.tx
            /\ call'.index = call.index /\ call'.restore = call.restore
        BY <2>1, <3>1 DEF Call, NoCall
      <3> QED
        BY <2>1, <2>2, <3>1, <3>2 DEF TipInv
    <2> QED
      BY <1>5, <2>3, <2>4 DEF Worker
  <1>6. CASE Crash
    BY <1>6 DEF Crash, TipInv
  <1>7. CASE RestartVerifier
    <2>1. node = "down" /\ blocks' = blocks /\ call' = call /\ call = NoCall
      BY <1>7 DEF RestartVerifier, Restart, TipInv
    <2>2. Len(blocks) >= 1 /\ blocks # <<>> /\ headIndex # Nil
      BY SyncServiceAssumption DEF TipInv
    <2>3. headIndex' = Len(blocks) - 1 /\ node' = "up"
      BY <1>2, <1>7, <2>2 DEF RestartVerifier, Restart, RepairIndex, TipInv
    <2> QED
      BY <1>2, <2>1, <2>2, <2>3 DEF TipInv
  <1> QED
    BY <1>1, <1>3, <1>4, <1>5, <1>6, <1>7, SMTT(30)
    DEF VerifierNext, PostBatch, PublishRoot, SyncBatches, FetchBatch, VerifyStateRoot,
        RequestFails, verifierVars

(* On a chain that has a block, and while the gas price oracle can be read,  *)
(* the verifier's index is that of its last block whenever no application is *)
(* under way, and no restart panics, whatever batches and roots the data     *)
(* transport layer serves and wherever the worker fails or the node crashes. *)
(* Without the oracle sync_service.go:1624-1631 takes the index back.        *)
THEOREM VerifierIndexIsTip ==
    ASSUME InitialBlocks # <<>>, OracleFails = FALSE
    PROVE  VerifierSpec => [](LatestIndexIsTip /\ RestartRepairs)
  <1>1. VerifierInit => TipInv
    BY InitTip DEF VerifierInit
  <1>2. TipInv /\ [VerifierNext]_verifierVars => TipInv'
    BY TipStep, Zenon
  <1>3. TipInv => LatestIndexIsTip /\ RestartRepairs
    BY SyncServiceAssumption
    DEF TipInv, LatestIndexIsTip, RestartRepairs, GetNextIndex, After
  <1> QED
    BY <1>1, <1>2, <1>3, PTL DEF VerifierSpec

-----------------------------------------------------------------------------
(* The batches against the chain.                                            *)

\* PrevTotalElements for batches that are given.
Counted(sizes, i) ==
    Cardinality({e \in (1..i) \X (1..MaxElements) : e[2] <= sizes[e[1]]})

(* Where the index is when the oracle may be unreadable too: never beyond    *)
(* the chain but while a call is under way or after a crash, and a call      *)
(* takes it back by one at most.                                             *)
LagInv ==
    /\ blocks \in Seq(Transaction) /\ Len(blocks) >= 1
    /\ node \in {"up", "down"} /\ call \in Call \cup {NoCall}
    /\ headIndex \in Nat /\ headIndex <= Len(blocks)
    /\ node = "up" /\ call = NoCall => headIndex < Len(blocks)
    /\ node = "down" => call = NoCall
    /\ call # NoCall =>
          /\ headIndex = call.index
          /\ call.restore \in Nat /\ call.restore + 1 = call.index
          /\ call.stage = "head" => call.index < Len(blocks)

\* The elements that the node has in its chain and will not take for new again.
Reached == IF call = NoCall /\ headIndex < Len(blocks) THEN headIndex + 1 ELSE headIndex

(* The strengthening of NoBatchSkipped.  Batches that count as synced are    *)
(* reached, at every point of the loop; the loop is at an element of its     *)
(* batch and never beyond what is reached; and an index that a crash leaves  *)
(* without a block is still that of an element of a batch, so that the       *)
(* recovery finds one.                                                       *)
BatchInv ==
    /\ LagInv
    /\ batches \in Seq(Nat) /\ loop \in Loop
    /\ headIndex < Counted(batches, Len(batches))
    /\ headBatchIndex \in 0..(Len(batches) - 1)
    /\ Counted(batches, 1) <= Reached
    /\ Counted(batches, headBatchIndex + 1) <= Reached
    /\ node = "down" => loop.pc = "idle"
    /\ loop.pc # "idle" =>
          /\ loop.batch <= loop.end /\ loop.end < Len(batches)
          /\ Counted(batches, loop.batch) <= Reached
    /\ loop.pc \in {"apply", "verify"} => loop.index < Counted(batches, loop.batch + 1)
    /\ loop.pc = "apply" /\ call = NoCall => loop.index <= Reached
    /\ loop.pc = "verify" => loop.index < Reached
    /\ call # NoCall => loop.pc = "apply" /\ call.index = loop.index

(* PrevTotalElements counts the elements of the batches before one.          *)
LEMMA CountedIs == \A i : PrevTotalElements(i) = Counted(batches, i)
  BY DEF PrevTotalElements, Counted

(* The count is a number, nothing for no batch, and grows with the batches.  *)
LEMMA CountedGrows ==
    ASSUME NEW sizes, NEW i \in Nat, NEW j \in Nat, i <= j
    PROVE  /\ Counted(sizes, i) \in Nat /\ Counted(sizes, j) \in Nat
           /\ Counted(sizes, i) <= Counted(sizes, j)
           /\ i = 0 => Counted(sizes, i) = 0
  <1> DEFINE Elements(n) == {e \in (1..n) \X (1..MaxElements) : e[2] <= sizes[e[1]]}
  <1>1. IsFiniteSet(1..j) /\ IsFiniteSet(1..MaxElements)
    BY FS_Interval, VerifierAssumption
  <1>2. IsFiniteSet((1..j) \X (1..MaxElements))
    BY <1>1, FS_Product, Zenon
  <1>3. Elements(i) \in SUBSET Elements(j) /\ Elements(j) \in SUBSET ((1..j) \X (1..MaxElements))
    <2>1. 1..i \in SUBSET (1..j)
      OBVIOUS
    <2> QED
      BY <2>1
  <1>4. i = 0 => Elements(i) = {}
    <2>1. i = 0 => 1..i = {}
      OBVIOUS
    <2> QED
      BY <2>1
  <1>5. Counted(sizes, i) = Cardinality(Elements(i)) /\ Counted(sizes, j) = Cardinality(Elements(j))
    BY DEF Counted
  <1> HIDE DEF Elements
  <1>6. IsFiniteSet(Elements(j)) /\ IsFiniteSet(Elements(i))
    BY <1>2, <1>3, FS_Subset
  <1>7. Cardinality(Elements(i)) <= Cardinality(Elements(j))
    BY <1>3, <1>6, FS_Subset
  <1>8. Cardinality(Elements(i)) \in Nat /\ Cardinality(Elements(j)) \in Nat
    BY <1>6, FS_CardinalityType
  <1>9. Cardinality({}) = 0
    BY FS_EmptySet
  <1> QED
    BY <1>4, <1>5, <1>7, <1>8, <1>9

(* Another batch leaves the count of those before it.                        *)
LEMMA CountedAppend ==
    ASSUME NEW sizes \in Seq(Nat), NEW size \in Nat, NEW i \in 0..Len(sizes)
    PROVE  Counted(Append(sizes, size), i) = Counted(sizes, i)
  <1>1. PICK longer : longer = Append(sizes, size)
    BY Zenon
  <1>2. \A k \in 1..i : longer[k] = sizes[k]
    BY <1>1
  <1>3. \A e \in (1..i) \X (1..MaxElements) : longer[e[1]] = sizes[e[1]]
    BY <1>2
  <1>4. {e \in (1..i) \X (1..MaxElements) : e[2] <= longer[e[1]]}
          = {e \in (1..i) \X (1..MaxElements) : e[2] <= sizes[e[1]]}
    BY <1>3
  <1> QED
    BY <1>1, <1>4, Zenon DEF Counted

(* An index below the total has a batch: the first one that ends beyond it.  *)
LEMMA BatchOfIndex ==
    ASSUME batches \in Seq(Nat), NEW index \in Nat, index < Counted(batches, Len(batches))
    PROVE  /\ BatchOf(index) \in 0..(Len(batches) - 1)
           /\ Counted(batches, BatchOf(index)) <= index
  <1> DEFINE N == Len(batches)
             Beyond == {i \in 0..N : index < Counted(batches, i)}
  <1>1. N \in Nat /\ N \in Beyond /\ Beyond \in SUBSET Nat
    OBVIOUS
  <1>2. PICK j \in Beyond : \A y \in Beyond : j <= y
    <2> HIDE DEF Beyond
    <2> QED
      BY <1>1, LeastNatural, Zenon
  <1>3. Counted(batches, 0) = 0
    BY CountedGrows
  <1>4. j # 0
    BY <1>2, <1>3
  <1>5. PICK i : i = j - 1
    OBVIOUS
  <1>6. i \in 0..(N - 1) /\ i \in Nat /\ i + 1 = j /\ i \notin Beyond
    BY <1>1, <1>2, <1>4, <1>5
  <1>7. Counted(batches, i) <= index /\ index < Counted(batches, i + 1)
    <2>1. Counted(batches, i) \in Nat
      BY <1>6, CountedGrows
    <2> QED
      BY <1>1, <1>2, <1>6, <2>1
  <1>8. PrevTotalElements(i) <= index /\ index < PrevTotalElements(i + 1)
    BY <1>7, CountedIs
  <1>9. /\ BatchOf(index) \in 0..(N - 1)
        /\ PrevTotalElements(BatchOf(index)) <= index
    BY <1>6, <1>8 DEF BatchOf
  <1> QED
    BY <1>9, CountedIs

(* The hypothesis on where a node begins: its chain has the elements of the  *)
(* batches that it has synced.                                               *)
Synced ==
    /\ InitialBlocks # <<>>
    /\ Counted(InitialBatches, Len(InitialBatches)) = Len(InitialBlocks)

(* A node that has synced its batches starts behind them.                    *)
LEMMA InitBatches ==
    ASSUME Synced, VerifierInit
    PROVE  BatchInv
  <1>1. /\ blocks = InitialBlocks /\ batches = InitialBatches
        /\ blocks \in Seq(Transaction) /\ batches \in Seq(Nat)
    BY SyncServiceAssumption, VerifierAssumption DEF VerifierInit, ServiceInit
  <1>2. Len(blocks) \in Nat /\ Len(blocks) >= 1 /\ Len(batches) \in Nat /\ blocks # <<>>
    BY <1>1 DEF Synced
  <1>3. Counted(batches, Len(batches)) = Len(blocks)
    BY <1>1 DEF Synced
  <1>4. Len(batches) # 0
    <2>1. Counted(batches, 0) = 0
      BY CountedGrows
    <2> QED
      BY <1>2, <1>3, <2>1
  <1>5. Counted(batches, 1) <= Len(blocks)
    BY <1>2, <1>3, <1>4, CountedGrows
  <1>6. headIndex = Len(blocks) - 1 /\ headBatchIndex = Len(batches) - 1
    <2>1. batches # <<>>
      BY <1>4
    <2> QED
      BY <1>2, <2>1 DEF VerifierInit, ServiceInit
  <1>7. loop = Idle /\ loop.pc = "idle" /\ loop \in Loop /\ call = NoCall /\ node = "up"
    BY DEF VerifierInit, ServiceInit, Idle, Loop
  <1> QED
    BY <1>1, <1>2, <1>3, <1>4, <1>5, <1>6, <1>7, SMTT(30) DEF BatchInv, LagInv, Reached

(* The next element, or the end of the batch, when all before it is reached. *)
LEMMA AdvanceBatch ==
    ASSUME BatchInv, NEW index \in Nat, index <= Reached, Advance(index),
           loop.pc # "idle", node = "up", call = NoCall,
           UNCHANGED <<serviceVars, batches>>
    PROVE  BatchInv'
  <1>1. /\ blocks' = blocks /\ call' = call /\ node' = node /\ headIndex' = headIndex
        /\ batches' = batches /\ Reached' = Reached /\ Reached \in Nat
    BY DEF serviceVars, Reached, BatchInv, LagInv
  <1>2. loop \in Loop /\ loop.batch \in Nat /\ loop.end \in Nat /\ Len(batches) \in Nat
    BY DEF BatchInv, LagInv, Loop
  <1>3. Counted(batches, loop.batch + 1) \in Nat
    BY <1>2, CountedGrows
  <1>4. CASE index < Counted(batches, loop.batch + 1)
    <2>1. loop' = [loop EXCEPT !.pc = "apply", !.index = index] /\ headBatchIndex' = headBatchIndex
      BY <1>4, CountedIs DEF Advance
    <2>2. /\ loop' \in Loop /\ loop'.pc = "apply" /\ loop'.index = index
          /\ loop'.batch = loop.batch /\ loop'.end = loop.end
      BY <1>2, <2>1, Zenon DEF Loop
    <2> QED
      BY <1>1, <1>2, <1>4, <2>1, <2>2 DEF BatchInv, LagInv
  <1>5. CASE ~(index < Counted(batches, loop.batch + 1))
    <2>1. /\ headBatchIndex' = loop.batch
          /\ loop' = IF loop.batch < loop.end
                     THEN [loop EXCEPT !.pc = "fetch", !.batch = @ + 1] ELSE Idle
      BY <1>5, CountedIs DEF Advance
    <2>2. Counted(batches, loop.batch + 1) <= Reached
      BY <1>1, <1>3, <1>5 DEF BatchInv, LagInv
    <2>3. headBatchIndex' \in 0..(Len(batches) - 1)
      BY <1>2, <2>1 DEF BatchInv, LagInv
    <2>4. CASE loop.batch < loop.end
      <3>1. loop' = [pc |-> "fetch", batch |-> loop.batch + 1, end |-> loop.end,
                     index |-> loop.index]
        <4>1. loop' = [loop EXCEPT !.pc = "fetch", !.batch = @ + 1]
          BY <2>1, <2>4
        <4> QED
          BY <1>2, <4>1, Zenon DEF Loop
      <3>2. /\ loop' \in Loop /\ loop'.pc = "fetch"
            /\ loop'.batch = loop.batch + 1 /\ loop'.end = loop.end
        BY <1>2, <3>1 DEF Loop
      <3> QED
        BY <1>1, <1>2, <2>1, <2>2, <2>3, <2>4, <3>2 DEF BatchInv, LagInv
    <2>5. CASE ~(loop.batch < loop.end)
      <3>1. loop' \in Loop /\ loop'.pc = "idle"
        BY <2>1, <2>5 DEF Loop, Idle
      <3> QED
        BY <1>1, <1>2, <2>1, <2>2, <2>3, <3>1, SMTT(30) DEF BatchInv, LagInv
    <2> QED
      BY <2>4, <2>5
  <1> QED
    BY <1>4, <1>5

(* Every step of the verifier keeps the synced batches in the chain.         *)
LEMMA BatchStep ==
    ASSUME BatchInv, [VerifierNext]_verifierVars
    PROVE  BatchInv'
  <1> USE DEF serviceVars
  <1>1. ASSUME NEW size \in 1..MaxBatchSize, PostBatch(size)
        PROVE  BatchInv'
    <2>1. /\ blocks' = blocks /\ call' = call /\ node' = node /\ headIndex' = headIndex
          /\ loop' = loop /\ headBatchIndex' = headBatchIndex /\ batches' = Append(batches, size)
          /\ Reached' = Reached
      BY <1>1 DEF PostBatch, Reached
    <2>2. /\ batches \in Seq(Nat) /\ size \in Nat /\ Len(batches) \in Nat
          /\ headBatchIndex \in 0..(Len(batches) - 1)
      BY VerifierAssumption DEF BatchInv, LagInv
    <2>3. batches' \in Seq(Nat) /\ Len(batches') = Len(batches) + 1
      BY <2>1, <2>2
    <2>4. \A i \in 0..Len(batches) : Counted(batches', i) = Counted(batches, i)
      BY <2>1, <2>2, CountedAppend
    <2>5. /\ Counted(batches', Len(batches)) \in Nat /\ Counted(batches', Len(batches')) \in Nat
          /\ Counted(batches', Len(batches)) <= Counted(batches', Len(batches'))
      BY <2>2, <2>3, CountedGrows
    <2>6. headIndex < Counted(batches', Len(batches'))
      <3>1. Len(batches) \in 0..Len(batches)
        BY <2>2
      <3>2. Counted(batches', Len(batches)) = Counted(batches, Len(batches))
        BY <2>4, <3>1
      <3> QED
        BY <2>5, <3>2 DEF BatchInv, LagInv
    <2>7. /\ Counted(batches', 1) = Counted(batches, 1)
          /\ Counted(batches', headBatchIndex + 1) = Counted(batches, headBatchIndex + 1)
      BY <2>2, <2>4
    <2>8. loop.pc # "idle" =>
              /\ Counted(batches', loop.batch) = Counted(batches, loop.batch)
              /\ Counted(batches', loop.batch + 1) = Counted(batches, loop.batch + 1)
              /\ loop.end < Len(batches')
      <3>1. SUFFICES ASSUME loop.pc # "idle"
                     PROVE  /\ Counted(batches', loop.batch) = Counted(batches, loop.batch)
                            /\ Counted(batches', loop.batch + 1) = Counted(batches, loop.batch + 1)
                            /\ loop.end < Len(batches')
        OBVIOUS
      <3>2. loop.batch \in Nat /\ loop.end \in Nat /\ loop.batch <= loop.end /\ loop.end < Len(batches)
        BY <3>1 DEF BatchInv, LagInv, Loop
      <3>3. loop.batch \in 0..Len(batches) /\ loop.batch + 1 \in 0..Len(batches)
        BY <2>2, <3>2
      <3>4. loop.end < Len(batches')
        BY <2>2, <2>3, <3>2, SMTT(30)
      <3> QED
        BY <2>4, <3>3, <3>4
    <2> QED
      BY <2>1, <2>2, <2>3, <2>6, <2>7, <2>8 DEF BatchInv, LagInv
  <1>2. CASE PublishRoot
    BY <1>2 DEF PublishRoot, BatchInv, LagInv, Reached
  <1>3. CASE SyncBatches
    <2>1. /\ blocks' = blocks /\ call' = call /\ node' = node /\ headIndex' = headIndex
          /\ headBatchIndex' = headBatchIndex /\ batches' = batches
          /\ node = "up" /\ loop.pc = "idle" /\ Reached' = Reached
      BY <1>3 DEF SyncBatches, Reached
    <2>2. GetNextBatchIndex = headBatchIndex + 1 /\ headBatchIndex \in Nat
      BY SyncServiceAssumption DEF BatchInv, LagInv, GetNextBatchIndex, After
    <2>3. /\ loop' \in Loop /\ loop'.pc = "fetch" /\ loop'.batch = headBatchIndex + 1
          /\ loop'.end = Len(batches) - 1 /\ headBatchIndex + 1 < Len(batches)
      <3>1. headBatchIndex + 1 < Len(batches) /\ Len(batches) \in Nat
        BY <1>3, <2>2 DEF SyncBatches, BatchInv, LagInv
      <3>2. loop' = [pc |-> "fetch", batch |-> headBatchIndex + 1, end |-> Len(batches) - 1,
                     index |-> 0]
        BY <1>3, <2>2, Zenon DEF SyncBatches, Idle
      <3> QED
        BY <2>2, <3>1, <3>2 DEF Loop
    <2>4. call = NoCall
      BY <2>1 DEF BatchInv, LagInv
    <2> QED
      BY <2>1, <2>2, <2>3, <2>4 DEF BatchInv, LagInv
  <1>4. CASE FetchBatch
    <2>1. node = "up" /\ loop.pc = "fetch" /\ call = NoCall
      BY <1>4 DEF FetchBatch, BatchInv, LagInv
    <2>2. GetNextIndex = Reached /\ Reached \in Nat
      BY <2>1, SyncServiceAssumption DEF BatchInv, LagInv, Reached, GetNextIndex, After
    <2>3. PrevTotalElements(loop.batch) <= Reached /\ PrevTotalElements(loop.batch) \in Nat
      BY <2>1, CountedIs, CountedGrows, SMTT(30) DEF BatchInv, Loop
    <2>4. Advance(Reached)
      <3>1. (IF PrevTotalElements(loop.batch) < GetNextIndex THEN GetNextIndex
             ELSE PrevTotalElements(loop.batch)) = Reached
        BY <2>2, <2>3
      <3> QED
        BY <1>4, <3>1 DEF FetchBatch
    <2> QED
      BY <1>4, <2>1, <2>2, <2>4, AdvanceBatch, SMTT(30) DEF FetchBatch
  <1>5. CASE ApplyBatchedTransaction
    <2>1. /\ node = "up" /\ loop.pc = "apply" /\ call = NoCall
          /\ batches' = batches /\ headBatchIndex' = headBatchIndex
      BY <1>5 DEF ApplyBatchedTransaction
    <2>2. /\ GetNextIndex = Reached /\ Reached \in Nat /\ Len(blocks) \in Nat
          /\ headIndex \in Nat /\ Reached = headIndex + 1 /\ Reached <= Len(blocks)
          /\ loop.index \in Nat /\ loop.index <= Reached
      BY <2>1, SyncServiceAssumption, SMTT(30)
      DEF BatchInv, LagInv, Reached, GetNextIndex, After, Loop
    <2>3. CASE loop.index = Reached
      <3>1. PICK tx : tx = [queueIndex |-> Nil, owner |-> loop.index \in OwnerElements]
        BY Zenon
      <3>2. tx \in Transaction
        BY <3>1 DEF Transaction
      <3>3. /\ call' = [stage |-> "sent", tx |-> tx, index |-> Reached, restore |-> headIndex]
            /\ headIndex' = Reached /\ loop' = loop /\ blocks' = blocks /\ node' = node
        BY <1>5, <2>2, <2>3, <3>1, SMTT(30) DEF ApplyBatchedTransaction, ApplyTransactionToTip
      <3>4. /\ call' \in Call /\ call' # NoCall /\ call'.stage = "sent" /\ call'.tx = tx
            /\ call'.index = Reached /\ call'.restore = headIndex
        BY <2>2, <3>2, <3>3 DEF Call, NoCall
      <3>5. Reached < Counted(batches, Len(batches))
        <4>1. /\ loop.batch + 1 \in Nat /\ Len(batches) \in Nat /\ loop.batch + 1 <= Len(batches)
              /\ Reached < Counted(batches, loop.batch + 1)
          BY <2>1, <2>3 DEF BatchInv, Loop
        <4>2. /\ Counted(batches, loop.batch + 1) <= Counted(batches, Len(batches))
              /\ Counted(batches, loop.batch + 1) \in Nat /\ Counted(batches, Len(batches)) \in Nat
          BY <4>1, CountedGrows
        <4> QED
          BY <2>2, <4>1, <4>2
      <3>6. Reached' = Reached
        BY <3>3, <3>4, SMTT(30) DEF Reached
      <3>7. LagInv'
        BY <2>1, <2>2, <3>3, <3>4 DEF BatchInv, LagInv
      <3> QED
        BY <2>1, <2>2, <2>3, <3>3, <3>4, <3>5, <3>6, <3>7, SMTT(30) DEF BatchInv
    <2>4. CASE loop.index < Reached
      <3>1. /\ blocks' = blocks /\ call' = call /\ node' = node /\ headIndex' = headIndex
            /\ loop' = [loop EXCEPT !.pc = "verify"]
        BY <1>5, <2>2, <2>4 DEF ApplyBatchedTransaction
      <3>2. /\ loop' \in Loop /\ loop'.pc = "verify" /\ loop'.batch = loop.batch
            /\ loop'.end = loop.end /\ loop'.index = loop.index
        BY <3>1, Zenon DEF BatchInv, Loop
      <3>3. Reached' = Reached
        BY <3>1 DEF Reached
      <3> QED
        BY <2>1, <2>2, <2>4, <3>1, <3>2, <3>3 DEF BatchInv, LagInv
    <2> QED
      BY <2>2, <2>3, <2>4
  <1>6. CASE ApplyReturns
    <2>1. PICK failed \in BOOLEAN :
              Return(failed) /\ loop' = IF failed THEN Idle ELSE [loop EXCEPT !.pc = "verify"]
      BY <1>6 DEF ApplyReturns
    <2>2. /\ loop.pc = "apply" /\ batches' = batches /\ headBatchIndex' = headBatchIndex
          /\ call' = NoCall /\ blocks' = blocks /\ node = "up" /\ node' = "up"
      BY <1>6, <2>1 DEF ApplyReturns, Return
    <2>3. call \in Call /\ call # NoCall /\ call.stage \in {"err", "head"}
      BY <2>1 DEF BatchInv, LagInv, Return, NoCall, Call
    <2>4. /\ call.index = loop.index /\ headIndex = call.index
          /\ call.restore \in Nat /\ call.restore + 1 = call.index
          /\ call.index <= Len(blocks) /\ (call.stage = "head" => call.index < Len(blocks))
          /\ Len(blocks) \in Nat /\ call.index \in Nat
      BY <2>3 DEF BatchInv, LagInv, Call
    <2>5. Reached = call.index
      BY <2>3, <2>4 DEF Reached
    <2>6. Counted(batches, Len(batches)) \in Nat /\ headIndex < Counted(batches, Len(batches))
      BY CountedGrows, SMTT(30) DEF BatchInv
    <2>7. CASE failed
      <3>1. headIndex' = call.restore
        BY <2>1, <2>4, <2>7, SyncServiceAssumption DEF Return, IndexAfterSet
      <3>2. loop' \in Loop /\ loop'.pc = "idle"
        BY <2>1, <2>7, SMTT(30) DEF Idle, Loop
      <3>3. Reached' = Reached
        BY <2>2, <2>4, <2>5, <3>1 DEF Reached
      <3>4. headIndex' \in Nat /\ headIndex' < Len(blocks) /\ headIndex' < Counted(batches, Len(batches))
        BY <2>4, <2>6, <3>1, SMTT(30)
      <3> QED
        BY <2>2, <3>2, <3>3, <3>4 DEF BatchInv, LagInv
    <2>8. CASE ~failed
      <3>1. headIndex' = headIndex /\ call.stage = "head"
        BY <2>1, <2>3, <2>8 DEF Return
      <3>2. /\ loop' \in Loop /\ loop'.pc = "verify" /\ loop'.batch = loop.batch
            /\ loop'.end = loop.end /\ loop'.index = loop.index
        BY <2>1, <2>8, Zenon DEF BatchInv, Loop
      <3>3. Reached' = Reached + 1 /\ loop.index < Reached'
        BY <2>2, <2>4, <2>5, <3>1 DEF Reached
      <3>4. headIndex < Len(blocks)
        BY <2>4, <3>1
      <3>5. /\ Counted(batches, 1) \in Nat /\ Counted(batches, headBatchIndex + 1) \in Nat
            /\ Counted(batches, loop.batch) \in Nat /\ Reached \in Nat
        <4>1. loop.batch \in Nat /\ headBatchIndex + 1 \in Nat
          BY DEF BatchInv, Loop
        <4> QED
          BY <2>4, <2>5, <4>1, CountedGrows
      <3>6. LagInv'
        BY <2>2, <3>1, <3>4 DEF BatchInv, LagInv
      <3> QED
        BY <2>2, <2>6, <3>1, <3>2, <3>3, <3>5, <3>6 DEF BatchInv
    <2> QED
      BY <2>7, <2>8
  <1>7. CASE VerifyStateRoot
    <2>1. node = "up" /\ loop.pc = "verify" /\ call = NoCall
      BY <1>7, SMTT(30) DEF VerifyStateRoot, BatchInv, LagInv
    <2>2. CASE loop.index \in BadRoots
      <3>1. loop' \in Loop /\ loop'.pc = "idle" /\ headBatchIndex' = headBatchIndex
        BY <1>7, <2>2 DEF VerifyStateRoot, Idle, Loop
      <3> QED
        BY <1>7, <2>1, <3>1 DEF VerifyStateRoot, BatchInv, LagInv, Reached
    <2>3. CASE loop.index \notin BadRoots
      <3>1. Advance(loop.index + 1)
        BY <1>7, <2>3 DEF VerifyStateRoot
      <3>2. loop.index + 1 \in Nat /\ loop.index + 1 <= Reached
        BY <2>1, SMTT(30) DEF BatchInv, LagInv, Reached, Loop
      <3>3. UNCHANGED <<serviceVars, batches>> /\ loop.pc # "idle"
        BY <1>7, <2>1 DEF VerifyStateRoot
      <3> QED
        BY <2>1, <3>1, <3>2, <3>3, AdvanceBatch
    <2> QED
      BY <2>2, <2>3
  <1>8. CASE RequestFails
    <2>1. loop' \in Loop /\ loop'.pc = "idle" /\ call = NoCall
      BY <1>8, SMTT(30) DEF RequestFails, Idle, Loop, BatchInv, LagInv
    <2> QED
      BY <1>8, <2>1, SMTT(30) DEF RequestFails, BatchInv, LagInv, Reached
  <1>9. CASE Worker /\ UNCHANGED batchVars
    <2>1. call \in Call /\ call # NoCall /\ call.stage = "sent" /\ node = "up"
      BY <1>9 DEF Worker, BatchInv, LagInv, Call, NoCall
    <2>2. /\ headIndex' = headIndex /\ node' = node /\ batches' = batches /\ loop' = loop
          /\ headBatchIndex' = headBatchIndex
      BY <1>9, SMTT(30) DEF Worker, batchVars
    <2>3. CASE CommitNewTx
      <3>1. blocks' = Append(blocks, call.tx) /\ call' = [call EXCEPT !.stage = "head"]
        BY <2>3 DEF CommitNewTx
      <3>2. /\ call' \in Call /\ call' # NoCall /\ call'.stage = "head" /\ call'.tx = call.tx
            /\ call'.index = call.index /\ call'.restore = call.restore /\ call.tx \in Transaction
        BY <2>1, <3>1 DEF Call, NoCall
      <3>3. /\ blocks' \in Seq(Transaction) /\ Len(blocks') = Len(blocks) + 1
            /\ Len(blocks) \in Nat
        BY <3>1, <3>2 DEF BatchInv, LagInv
      <3>4. Len(blocks) = call.index
        BY <2>3 DEF CommitNewTx
      <3>5. Reached' = Reached
        BY <2>1, <2>2, <3>2, SMTT(30) DEF Reached
      <3>6. LagInv'
        BY <2>1, <2>2, <3>2, <3>3, <3>4, SMTT(30) DEF BatchInv, LagInv
      <3> QED
        BY <2>1, <2>2, <3>2, <3>5, <3>6 DEF BatchInv
    <2>4. CASE FailNewTx
      <3>1. blocks' = blocks /\ call' = [call EXCEPT !.stage = "err"]
        BY <2>4 DEF FailNewTx
      <3>2. /\ call' \in Call /\ call' # NoCall /\ call'.stage = "err" /\ call'.tx = call.tx
            /\ call'.index = call.index /\ call'.restore = call.restore
        BY <2>1, <3>1 DEF Call, NoCall
      <3>3. Reached' = Reached
        BY <2>1, <2>2, <3>2 DEF Reached
      <3>4. LagInv'
        BY <2>1, <2>2, <3>1, <3>2, SMTT(30) DEF BatchInv, LagInv
      <3> QED
        BY <2>1, <2>2, <3>2, <3>3, <3>4 DEF BatchInv
    <2> QED
      BY <1>9, <2>3, <2>4 DEF Worker
  <1>10. CASE Crash /\ loop' = Idle /\ UNCHANGED <<batches, published, headBatchIndex, verified>>
    <2>1. loop' \in Loop /\ loop'.pc = "idle"
      BY <1>10 DEF Idle, Loop
    <2>2. /\ node' = "down" /\ call' = NoCall /\ blocks' = blocks /\ headIndex' = headIndex
          /\ batches' = batches /\ headBatchIndex' = headBatchIndex
      BY <1>10 DEF Crash
    <2>3. Reached \in Nat /\ Reached' \in Nat /\ Reached <= Reached'
      BY <2>2 DEF Reached, BatchInv, LagInv
    <2>4. Counted(batches, 1) \in Nat /\ Counted(batches, headBatchIndex + 1) \in Nat
      <3>1. headBatchIndex + 1 \in Nat
        BY DEF BatchInv
      <3> QED
        BY <3>1, CountedGrows
    <2>5. LagInv'
      BY <2>2 DEF BatchInv, LagInv
    <2> QED
      BY <2>1, <2>2, <2>3, <2>4, <2>5 DEF BatchInv
  <1>11. CASE RestartVerifier
    <2>1. /\ node = "down" /\ blocks' = blocks /\ call' = call /\ call = NoCall
          /\ batches' = batches /\ loop' = loop /\ loop.pc = "idle"
      BY <1>11 DEF RestartVerifier, Restart, BatchInv, LagInv
    <2>2. Len(blocks) \in Nat /\ Len(blocks) >= 1 /\ blocks # <<>> /\ headIndex # Nil
      BY SyncServiceAssumption DEF BatchInv, LagInv
    <2>3. /\ node' = "up" /\ headIndex \in Nat /\ headIndex <= Len(blocks)
          /\ headIndex' = IF headIndex < Len(blocks) THEN headIndex ELSE Len(blocks) - 1
      BY <1>11, <2>2 DEF RestartVerifier, Restart, RepairIndex, BatchInv, LagInv
    <2>10. Reached' = Reached /\ Reached \in Nat /\ headIndex <= Reached
      BY <2>1, <2>2, <2>3 DEF Reached
    <2>4. PICK b : b = BatchOf(headIndex)
      OBVIOUS
    <2>5. b \in 0..(Len(batches) - 1) /\ Counted(batches, b) <= headIndex
      BY <2>4, BatchOfIndex DEF BatchInv, LagInv
    <2>6. headBatchIndex' = IF b > 0 THEN b - 1 ELSE 0
      BY <1>11, <2>2, <2>4 DEF RestartVerifier, RecoverBatchIndex
    <2>7. Len(batches) \in Nat /\ headIndex \in Nat /\ headIndex <= Len(blocks)
      BY <2>2 DEF BatchInv, LagInv
    <2>8. Counted(batches, b) \in Nat /\ Counted(batches, Len(batches)) \in Nat
      BY <2>5, <2>7, CountedGrows
    <2>9. /\ headBatchIndex' \in 0..(Len(batches) - 1)
          /\ Counted(batches, headBatchIndex' + 1) <= Reached
      <3>1. CASE b > 0
        <4>1. headBatchIndex' = b - 1 /\ headBatchIndex' + 1 = b
          BY <2>5, <2>6, <3>1
        <4> QED
          BY <2>5, <2>7, <2>8, <2>10, <3>1, <4>1
      <3>2. CASE b = 0
        <4>1. headBatchIndex' = 0 /\ headBatchIndex' + 1 = 1
          BY <2>6, <3>2
        <4> QED
          BY <2>5, <2>7, <3>2, <4>1 DEF BatchInv, LagInv
      <3> QED
        BY <2>5, <3>1, <3>2
    <2>11. headIndex' \in Nat /\ headIndex' < Counted(batches, Len(batches))
      BY <2>2, <2>3, <2>8, SMTT(30) DEF BatchInv
    <2>12. LagInv'
      BY <2>1, <2>2, <2>3, <2>11, SMTT(30) DEF BatchInv, LagInv
    <2> QED
      BY <2>1, <2>9, <2>10, <2>11, <2>12, SMTT(30) DEF BatchInv
  <1>12. CASE UNCHANGED verifierVars
    BY <1>12 DEF verifierVars, batchVars, BatchInv, LagInv, Reached
  <1> QED
    BY <1>1, <1>2, <1>3, <1>4, <1>5, <1>6, <1>7, <1>8, <1>9, <1>10, <1>11, <1>12, SMTT(30) DEF VerifierNext

(* A verifier that begins with the batches in its chain never skips one: the *)
(* next batch begins at the next index or before it, for all sizes of the    *)
(* batches, all roots, and every failure and crash, the recovery and a gas   *)
(* price oracle that cannot be read included.                                *)
THEOREM NoneSkipped ==
    ASSUME Synced
    PROVE  VerifierSpec => []NoBatchSkipped
  <1>1. VerifierInit => BatchInv
    BY InitBatches
  <1>2. BatchInv /\ [VerifierNext]_verifierVars => BatchInv'
    BY BatchStep
  <1>3. BatchInv => NoBatchSkipped
    <2> SUFFICES ASSUME BatchInv, node = "up", call = NoCall
                 PROVE  PrevTotalElements(GetNextBatchIndex) <= GetNextIndex
      BY DEF NoBatchSkipped
    <2>1. GetNextBatchIndex = headBatchIndex + 1 /\ GetNextIndex = Reached
      BY SyncServiceAssumption DEF BatchInv, LagInv, Reached, GetNextBatchIndex, GetNextIndex, After
    <2> QED
      BY <2>1, CountedIs DEF BatchInv, LagInv
  <1> QED
    BY <1>1, <1>2, <1>3, PTL DEF VerifierSpec
==============================================================================
