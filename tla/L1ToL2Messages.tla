---------------------------- MODULE L1ToL2Messages ----------------------------
(***************************************************************************)
(* Messages from L1 to L2: L1CrossDomainMessenger.sol sends them through    *)
(* the queue of the canonical transaction chain and sends them again when   *)
(* they failed; L2CrossDomainMessenger.sol calls their targets.  L2         *)
(* executes the elements of the queue in order and each of them once, which *)
(* is what TransactionLog promises.                                         *)
(***************************************************************************)
EXTENDS Naturals, Sequences

CONSTANTS
    Call,         \* sender, target and calldata of a message
    PasserCall,   \* the calls whose target is OVM_L2ToL1MessagePasser
    MaxQueue      \* bound on the length of the queue

ASSUME L1ToL2Assumption ==
    /\ PasserCall \subseteq Call
    /\ MaxQueue \in Nat

VARIABLES
    queue,        \* the queue elements, from 1: the message in their calldata
    sent,         \* the messages of the SentMessage events of the L1 messenger
    next,         \* the number of queue elements L2 has executed
    successful,   \* successfulMessages of the L2 messenger
    relayed,      \* relayedMessages of the L2 messenger: the message and the block
    delivered     \* the messages whose target was called with success, in order

Elements(s) == {s[i] : i \in DOMAIN s}

vars == <<queue, sent, next, successful, relayed, delivered>>

Messages == [call : Call, nonce : 0..MaxQueue]

TypeOK ==
    /\ queue \in Seq(Messages)
    /\ sent \in Seq(Messages)
    /\ next \in 0..Len(queue)
    /\ successful \subseteq Messages
    /\ relayed \subseteq Messages \X (1..Len(queue))
    /\ delivered \in Seq(Messages)

Init ==
    /\ queue = <<>> /\ sent = <<>>
    /\ next = 0 /\ successful = {} /\ relayed = {} /\ delivered = <<>>

\* enqueueByChainId of the transaction chain, which takes calls of the L1
\* messenger only: every element's sender is the messenger, aliased.
Enqueue(m) ==
    /\ Len(queue) < MaxQueue
    /\ queue' = Append(queue, m)

\* Mutant: numbers the messages that were sent instead of the queue elements.
SendMessage_OwnNonce(call) ==
    LET m == [call |-> call, nonce |-> Len(sent)]
    IN  /\ Enqueue(m)
        /\ sent' = Append(sent, m)
        /\ UNCHANGED <<next, successful, relayed, delivered>>

\* sendMessageViaChainId: the length of the queue is the nonce.
SendMessage(call) ==
    LET m == [call |-> call, nonce |-> Len(queue)]
    IN  /\ Enqueue(m)
        /\ sent' = Append(sent, m)
        /\ UNCHANGED <<next, successful, relayed, delivered>>

\* replayMessageViaChainId: the caller gives the call and the queue index, and
\* the messenger recomputes the element with that index as the nonce.
ReplayMessage(call, queueIndex) ==
    LET m == [call |-> call, nonce |-> queueIndex]
    IN  /\ queueIndex < Len(queue)
        /\ queue[queueIndex + 1] = m
        /\ Enqueue(m)
        /\ UNCHANGED <<sent, next, successful, relayed, delivered>>

-----------------------------------------------------------------------------

\* Mutant: does not look whether the message has been received.
RelayMessage_NoCheck(m, ok) ==
    /\ successful' = IF ok THEN successful \cup {m} ELSE successful
    /\ delivered' = IF ok THEN Append(delivered, m) ELSE delivered
    /\ relayed' = relayed \cup {<<m, next'>>}

\* relayMessage of the L2 messenger, where ok is whether the target's call
\* succeeds.  A call of the message passer is not made and counts as received.
RelayMessage(m, ok) ==
    /\ m \notin successful
    /\ \/ /\ m.call \in PasserCall
          /\ successful' = successful \cup {m}
          /\ UNCHANGED <<relayed, delivered>>
       \/ /\ m.call \notin PasserCall
          /\ successful' = IF ok THEN successful \cup {m} ELSE successful
          /\ delivered' = IF ok THEN Append(delivered, m) ELSE delivered
          /\ relayed' = relayed \cup {<<m, next'>>}

\* L2 executes the next element.  Its transaction reverts when relayMessage
\* does, and may run out of gas at any point.
ExecuteNext ==
    /\ next < Len(queue)
    /\ next' = next + 1
    /\ \/ \E ok \in BOOLEAN : RelayMessage(queue[next + 1], ok)
       \/ UNCHANGED <<successful, relayed, delivered>>
    /\ UNCHANGED <<queue, sent>>

Next ==
    \/ \E call \in Call : SendMessage(call)
    \/ \E call \in Call, i \in 0..MaxQueue : ReplayMessage(call, i)
    \/ ExecuteNext

Spec == Init /\ [][Next]_vars

-----------------------------------------------------------------------------

(* A message that was not delivered can be sent again: the element at its    *)
(* nonce is the message itself, so that replayMessage accepts it, and L2 has *)
(* not marked it as received.  The messenger takes the length of the queue   *)
(* as the nonce, and the queue also holds replays, whose nonce is not their  *)
(* index and which replayMessage does not accept.                            *)
UndeliveredIsReplayable ==
    \A m \in Elements(sent) \ Elements(delivered) :
        /\ queue[m.nonce + 1] = m
        /\ m.call \notin PasserCall => m \notin successful

Channel == INSTANCE MessageChannel

(* The target of a message is called with success at most once, and only for *)
(* a message that was sent by the L1 messenger, however often the message is *)
(* replayed: by whomever, before or after L2 has executed it.                *)
ImplementsMessageChannel == Channel!Spec
=============================================================================
