------------------------------ MODULE Sequencer ------------------------------
(***************************************************************************)
(* The sequencer mode of the SyncService.  Two parties apply transactions   *)
(* under txLock: the loop that takes the elements of the L1 queue from the  *)
(* data transport layer, and the RPC that takes transactions of users.      *)
(***************************************************************************)
EXTENDS SyncService

CONSTANTS
    MaxQueue,       \* bound on the elements of the queue
    MaxSequenced,   \* bound on the transactions of users
    Sequenced,      \* the entry of a sequencer transaction in the log
    Skipped         \* the elements that the chain passes over, on chain 1088
                    \* those with the indices 20397 and 37446

ASSUME SequencerAssumption ==
    /\ MaxQueue \in Nat
    /\ MaxSequenced \in Nat
    /\ Sequenced \notin Nat
    /\ Skipped \subseteq Nat

VARIABLES
    enqueued,   \* elements of the queue that the data transport layer has
    accepted,   \* transactions of users so far
    lock,       \* txLock: "free", or who holds it: "rpc" or "loop"
    range       \* the elements of the queue that the loop has left, first and last

queueVars == <<enqueued, accepted, lock, range>>

vars == <<serviceVars, queueVars>>

QueueTaken == Cardinality({n \in DOMAIN blocks : blocks[n].queueIndex # Nil})

TypeOK ==
    /\ ServiceTypeOK
    /\ enqueued \in 0..MaxQueue
    /\ accepted \in 0..MaxSequenced
    /\ lock \in {"free", "rpc", "loop"}
    /\ range \in [next : Nat, end : Nat]

Init ==
    /\ ServiceInit
    /\ enqueued = After(LastQueueIndex(blocks))
    /\ accepted = 0
    /\ lock = "free"
    /\ range = [next |-> 0, end |-> 0]

-----------------------------------------------------------------------------

\* The data transport layer sees another element of the L1 queue.
Enqueue ==
    /\ enqueued < MaxQueue
    /\ enqueued' = enqueued + 1
    /\ UNCHANGED <<serviceVars, accepted, lock, range>>

\* ValidateAndApplySequencerTransaction, for a transaction that the checks of
\* the fee and of the pool let through.
SendTransaction(owner) ==
    /\ lock = "free" /\ accepted < MaxSequenced
    /\ accepted' = accepted + 1
    /\ lock' = "rpc"
    /\ ApplyTransactionToTip([queueIndex |-> Nil, owner |-> owner], GetNextIndex)
    /\ UNCHANGED <<enqueued, range>>

SendTransactionReturns ==
    /\ lock = "rpc"
    /\ \E failed \in BOOLEAN : Return(failed)
    /\ lock' = "free"
    /\ UNCHANGED <<headQueueIndex, enqueueIndexNil, enqueued, accepted, range>>

ApplyEnqueue(i) ==
    ApplyTransactionToTip([queueIndex |-> i, owner |-> FALSE], GetNextIndex)

\* The loop of syncQueueTransactionRange: the next element that is not skipped.
SyncQueueTransactionRange(start, end) ==
    \E i \in start..end :
        /\ i \notin Skipped /\ start..(i - 1) \subseteq Skipped
        /\ ApplyEnqueue(i)
        /\ range' = [next |-> i + 1, end |-> end]

\* sequence, syncQueueToTip, syncToTip and sync: the range from the next queue
\* index to the last one that the data transport layer has.
SyncQueue ==
    /\ lock = "free"
    /\ lock' = "loop"
    /\ SyncQueueTransactionRange(GetNextEnqueueIndex, enqueued - 1)
    /\ UNCHANGED <<enqueued, accepted>>

\* Mutant: a failed element is not given back.
RestoreEnqueueIndex_Not(i) == UNCHANGED <<headQueueIndex, enqueueIndexNil>>

\* An element that is not in the chain is given back, except the first one,
\* where the code asks for a new deployment.
RestoreEnqueueIndex(i) ==
    IF i > 0 THEN SetLatestEnqueueIndex(i - 1)
    ELSE UNCHANGED <<headQueueIndex, enqueueIndexNil>>

\* syncQueueTransactionRange, after applyTransaction: the element is looked up
\* in the chain.  The loop goes on when it is there and gives up when not.
SyncQueueReturns ==
    LET i == call.tx.queueIndex
        found == \E n \in DOMAIN blocks : blocks[n].queueIndex = i
    IN  /\ lock = "loop"
        /\ \E failed \in BOOLEAN : Return(failed)
        /\ IF found THEN UNCHANGED <<headQueueIndex, enqueueIndexNil>>
           ELSE RestoreEnqueueIndex(i)
        /\ lock' = IF found /\ ~(range.next..range.end \subseteq Skipped)
                   THEN "loop" ELSE "free"
        /\ UNCHANGED <<enqueued, accepted, range>>

\* The next element of the range.
SyncQueueContinues ==
    /\ lock = "loop"
    /\ SyncQueueTransactionRange(range.next, range.end)
    /\ UNCHANGED <<enqueued, accepted, lock>>

\* GetEnqueue fails: the loop begins again with the next queue index.
GetEnqueueFails ==
    /\ node = "up" /\ lock = "loop" /\ call = NoCall
    /\ lock' = "free"
    /\ UNCHANGED <<serviceVars, enqueued, accepted, range>>

Next ==
    \/ Enqueue
    \/ \E owner \in BOOLEAN : SendTransaction(owner)
    \/ SendTransactionReturns
    \/ SyncQueue
    \/ SyncQueueContinues
    \/ SyncQueueReturns
    \/ GetEnqueueFails
    \/ Worker /\ UNCHANGED queueVars
    \/ Crash /\ lock' = "free" /\ UNCHANGED <<enqueued, accepted, range>>
    \/ Restart /\ UNCHANGED queueVars

\* The loop polls for ever, the worker answers every transaction it gets, and
\* a node that is down is started again.  Nobody has to send or enqueue, and a
\* request to the data transport layer may fail.
Fairness ==
    /\ WF_vars(SyncQueue \/ SyncQueueContinues)
    /\ WF_vars(SyncQueueReturns \/ SendTransactionReturns)
    /\ WF_vars(Worker /\ UNCHANGED queueVars)
    /\ WF_vars(Restart /\ UNCHANGED queueVars)

Spec == Init /\ [][Next]_vars /\ Fairness

-----------------------------------------------------------------------------

\* The place of an element among those that are not skipped.
Position(i) == Cardinality({j \in 0..(i - 1) : j \notin Skipped})

Log == [n \in DOMAIN blocks |->
            IF blocks[n].queueIndex = Nil THEN Sequenced
            ELSE Position(blocks[n].queueIndex)]

TransactionLog == INSTANCE TransactionLog WITH
    log <- Log, queued <- Position(enqueued), taken <- QueueTaken

(* Every step of the sequencer extends its chain as the canonical            *)
(* transaction chain will have it: the elements of the queue in their order, *)
(* none left out but the hard-coded ones and none twice, although a failure  *)
(* or a crash can come between the write of the queue index and the block.   *)
ExtendsTransactionLog ==
    [][TransactionLog!Next]_<<Log, Position(enqueued), QueueTaken>>

(* An element of the L1 queue gets into the chain, unless it is one of the   *)
(* hard-coded ones: failures of the worker and crashes delay it, but the     *)
(* loop takes it up again.                                                   *)
EnqueueIsIncluded ==
    \A k \in 1..MaxQueue : enqueued >= k ~> QueueTaken >= Position(k)
=============================================================================
