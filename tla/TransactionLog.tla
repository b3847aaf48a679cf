---------------------------- MODULE TransactionLog ----------------------------
(***************************************************************************)
(* What the canonical transaction chain promises to the nodes that derive   *)
(* the L2 chain from it: an append-only log of transactions.  An entry is a *)
(* transaction of the sequencer or an element of the L1 queue, and the      *)
(* elements of the queue enter the log in the order in which they were      *)
(* enqueued, each of them once.                                             *)
(***************************************************************************)
EXTENDS Naturals, Sequences, FiniteSets

CONSTANT Sequenced    \* the entry of a sequencer transaction

VARIABLES
    log,      \* the entries: Sequenced or the index of a queue element
    queued,   \* how many elements the queue has
    taken     \* how many of them are in the log

Init == log = <<>> /\ queued = 0 /\ taken = 0

Enqueue ==
    /\ queued' = queued + 1
    /\ UNCHANGED <<log, taken>>

\* How many of the first k entries are elements of the queue.
QueueCount(entries, k) == Cardinality({i \in 1..k : entries[i] # Sequenced})

\* The new entries take the next elements of the queue, in order.
AppendEntries(entries) ==
    LET n == QueueCount(entries, Len(entries))
    IN  /\ \A k \in 1..Len(entries) : entries[k] # Sequenced =>
              entries[k] = taken + QueueCount(entries, k) - 1
        /\ taken + n <= queued
        /\ taken' = taken + n
        /\ log' = log \o entries
        /\ UNCHANGED queued

Next ==
    \/ Enqueue
    \/ Len(log') > Len(log) /\ AppendEntries(SubSeq(log', Len(log) + 1, Len(log')))

Spec == Init /\ [][Next]_<<log, queued, taken>>
=============================================================================
