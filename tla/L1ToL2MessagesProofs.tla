------------------------- MODULE L1ToL2MessagesProofs -------------------------
(***************************************************************************)
(* The L1 to L2 messengers deliver each message at most once, for every set *)
(* of calls and every length of the queue.                                  *)
(***************************************************************************)
EXTENDS L1ToL2Messages, TLAPS

\* A message was sent from the queue element that has its nonce as index.
SentIsQueued ==
    \A m \in Elements(sent) :
        /\ m.nonce \in Nat /\ m.nonce < Len(queue)
        /\ queue[m.nonce + 1] = m

\* What the messenger has put into the queue, first or again, was sent.
QueuedIsSent ==
    \A i \in 1..Len(queue) : queue[i] \in Elements(sent)

\* The L2 messenger has marked what was delivered, and apart from calls of the
\* message passer nothing else.
MarkedIsDelivered ==
    /\ Elements(delivered) \subseteq successful
    /\ \A m \in successful : m \in Elements(delivered) \/ m.call \in PasserCall

IInv == TypeOK /\ SentIsQueued /\ QueuedIsSent /\ MarkedIsDelivered

-----------------------------------------------------------------------------

(* Append adds one element.                                                  *)
LEMMA AppendElements ==
    ASSUME NEW S, NEW s \in Seq(S), NEW e \in S
    PROVE  Elements(Append(s, e)) = Elements(s) \cup {e}
<1>1. /\ Len(s) \in Nat /\ DOMAIN s = 1..Len(s)
      /\ DOMAIN Append(s, e) = 1..(Len(s) + 1)
      /\ \A i \in 1..Len(s) : Append(s, e)[i] = s[i]
      /\ Append(s, e)[Len(s) + 1] = e
  OBVIOUS
<1>2. 1..(Len(s) + 1) = (1..Len(s)) \cup {Len(s) + 1}  BY <1>1
<1> QED  BY <1>1, <1>2 DEF Elements

\* What an append to the queue leaves of the facts about its elements.
LEMMA EnqueueElement ==
    ASSUME TypeOK, NEW m \in Messages, Enqueue(m)
    PROVE  /\ queue' \in Seq(Messages)
           /\ Len(queue') = Len(queue) + 1
           /\ Len(queue) \in 0..MaxQueue
           /\ \A i \in 1..Len(queue) : queue'[i] = queue[i]
           /\ queue'[Len(queue) + 1] = m
<1>1. queue \in Seq(Messages) /\ Len(queue) \in Nat  BY DEF TypeOK
<1> QED  BY <1>1, L1ToL2Assumption DEF Enqueue

(* The invariant holds of empty messengers.                                  *)
LEMMA InitIInv == Init => IInv
<1> USE L1ToL2Assumption
<1> SUFFICES ASSUME Init PROVE IInv  OBVIOUS
<1>1. Elements(sent) = {} /\ Elements(delivered) = {}  BY DEF Init, Elements
<1>2. TypeOK  BY DEF Init, TypeOK
<1> QED  BY <1>1, <1>2 DEF Init, IInv, SentIsQueued, QueuedIsSent, MarkedIsDelivered

\* The nonce of a message being sent is the index of its element.
LEMMA SendIInv ==
    ASSUME IInv, NEW call \in Call, SendMessage(call)
    PROVE  /\ IInv'
           /\ Channel!Next
<1> PICK m : m = [call |-> call, nonce |-> Len(queue)]  BY Zenon
<1>1. /\ Enqueue(m) /\ sent' = Append(sent, m)
      /\ UNCHANGED <<next, successful, relayed, delivered>>
  BY Zenon DEF SendMessage
<1>2. /\ TypeOK /\ Len(queue) \in Nat /\ sent \in Seq(Messages)
      /\ Len(queue) < MaxQueue /\ MaxQueue \in Nat
  BY <1>1, L1ToL2Assumption DEF IInv, TypeOK, Enqueue
<1>3. m \in Messages /\ m.nonce = Len(queue)  BY <1>2 DEF Messages
<1>4. /\ queue' \in Seq(Messages)
      /\ Len(queue') = Len(queue) + 1
      /\ \A i \in 1..Len(queue) : queue'[i] = queue[i]
      /\ queue'[Len(queue) + 1] = m
  BY <1>1, <1>2, <1>3, EnqueueElement, Zenon
<1>5. Elements(sent') = Elements(sent) \cup {m} /\ sent' \in Seq(Messages)
  BY <1>1, <1>2, <1>3, AppendElements
<1>6. TypeOK'
  <2>1. /\ next \in 0..Len(queue) /\ successful \subseteq Messages
        /\ relayed \subseteq Messages \X (1..Len(queue)) /\ delivered \in Seq(Messages)
    BY <1>2 DEF TypeOK
  <2>2. next' \in 0..Len(queue') /\ relayed' \subseteq Messages \X (1..Len(queue'))
    BY <1>1, <1>2, <1>4, <2>1
  <2> QED  BY <1>1, <1>4, <1>5, <2>1, <2>2 DEF TypeOK
<1>7. SentIsQueued'
  <2> SUFFICES ASSUME NEW x \in Elements(sent')
               PROVE  /\ x.nonce \in Nat /\ x.nonce < Len(queue')
                      /\ queue'[x.nonce + 1] = x
    BY DEF SentIsQueued, Elements
  <2>1. CASE x = m  BY <1>2, <1>3, <1>4, <2>1
  <2>2. CASE x \in Elements(sent)
    <3>1. /\ x.nonce \in Nat /\ x.nonce < Len(queue)
          /\ queue[x.nonce + 1] = x
      BY <2>2 DEF IInv, SentIsQueued
    <3> QED  BY <1>2, <1>4, <3>1
  <2> QED  BY <1>5, <2>1, <2>2
<1>8. QueuedIsSent'
  <2> SUFFICES ASSUME NEW i \in 1..Len(queue')
               PROVE  queue'[i] \in Elements(sent')
    BY DEF QueuedIsSent, Elements
  <2>1. CASE i = Len(queue) + 1  BY <1>4, <1>5, <2>1
  <2>2. CASE i \in 1..Len(queue)  BY <1>4, <1>5, <2>2 DEF IInv, QueuedIsSent
  <2> QED  BY <1>2, <1>4, <2>1, <2>2
<1>9. MarkedIsDelivered'  BY <1>1 DEF IInv, MarkedIsDelivered, Elements
<1>10. m \notin Elements(sent)
  <2>1. m \in Elements(sent) => m.nonce < Len(queue)  BY Zenon DEF IInv, SentIsQueued
  <2> QED  BY <1>2, <1>3, <2>1
<1>11. Channel!Send(m) /\ m \in Channel!Elements(sent')
  BY <1>1, <1>5, <1>10 DEF Channel!Send, Channel!Elements, Elements
<1> QED  BY <1>6, <1>7, <1>8, <1>9, <1>11 DEF IInv, Channel!Next

\* A replay adds no message.
LEMMA EnqueueIInv ==
    ASSUME IInv, NEW m \in Messages, Enqueue(m),
           m \in Elements(sent),
           UNCHANGED <<sent, next, successful, relayed, delivered>>
    PROVE  IInv'
<1>1. /\ TypeOK /\ Len(queue) \in Nat
      /\ next \in 0..Len(queue) /\ successful \subseteq Messages /\ sent \in Seq(Messages)
      /\ relayed \subseteq Messages \X (1..Len(queue)) /\ delivered \in Seq(Messages)
  BY DEF IInv, TypeOK
<1>2. /\ queue' \in Seq(Messages)
      /\ Len(queue') = Len(queue) + 1
      /\ \A i \in 1..Len(queue) : queue'[i] = queue[i]
      /\ queue'[Len(queue) + 1] = m
  BY <1>1, EnqueueElement
<1>3. TypeOK'
  <2>1. next' \in 0..Len(queue') /\ relayed' \subseteq Messages \X (1..Len(queue'))
    BY <1>1, <1>2
  <2> QED  BY <1>1, <1>2, <2>1 DEF TypeOK
<1>4. Elements(sent)' = Elements(sent)  BY DEF Elements
<1>5. SentIsQueued'
  <2> SUFFICES ASSUME NEW x \in Elements(sent)
               PROVE  /\ x.nonce \in Nat /\ x.nonce < Len(queue')
                      /\ queue'[x.nonce + 1] = x
    BY <1>4 DEF SentIsQueued
  <2>1. /\ x.nonce \in Nat /\ x.nonce < Len(queue)
        /\ queue[x.nonce + 1] = x
    BY DEF IInv, SentIsQueued
  <2>2. Len(queue) \in Nat /\ Len(queue') = Len(queue) + 1  BY <1>1, <1>2
  <2>3. x.nonce + 1 \in 1..Len(queue) /\ x.nonce < Len(queue')  BY <2>1, <2>2
  <2> QED  BY <1>2, <2>1, <2>3
<1>6. QueuedIsSent'
  <2> SUFFICES ASSUME NEW i \in 1..Len(queue')
               PROVE  queue'[i] \in Elements(sent)
    BY <1>4 DEF QueuedIsSent
  <2>1. CASE i = Len(queue) + 1  BY <1>2, <2>1
  <2>2. CASE i \in 1..Len(queue)  BY <1>2, <2>2 DEF IInv, QueuedIsSent
  <2> QED  BY <1>1, <1>2, <2>1, <2>2
<1>7. MarkedIsDelivered'  BY DEF IInv, MarkedIsDelivered, Elements
<1> QED  BY <1>3, <1>5, <1>6, <1>7 DEF IInv

(* The execution of the next queue element on L2, whether relayMessage       *)
(* succeeds or not, keeps the invariant, and is a delivery or nothing.       *)
LEMMA RelayIInv ==
    ASSUME IInv, ExecuteNext
    PROVE  IInv' /\ [Channel!Next]_<<sent, delivered>>
<1>1. /\ next < Len(queue) /\ next' = next + 1 /\ UNCHANGED <<queue, sent>>
      /\ \/ \E ok \in BOOLEAN : RelayMessage(queue[next + 1], ok)
         \/ UNCHANGED <<successful, relayed, delivered>>
  BY DEF ExecuteNext
<1>2. /\ queue \in Seq(Messages) /\ Len(queue) \in Nat /\ next \in Nat
      /\ successful \subseteq Messages /\ sent \in Seq(Messages)
      /\ relayed \subseteq Messages \X (1..Len(queue)) /\ delivered \in Seq(Messages)
  BY DEF IInv, TypeOK
<1> PICK e : e = queue[next + 1]  OBVIOUS
<1>3. next + 1 \in 1..Len(queue) /\ e \in Messages  BY <1>1, <1>2
<1>4. SentIsQueued' /\ QueuedIsSent'
  BY <1>1 DEF IInv, SentIsQueued, QueuedIsSent, Elements
<1>5. /\ queue' \in Seq(Messages) /\ sent' \in Seq(Messages) /\ next' \in 0..Len(queue')
      /\ Len(queue') = Len(queue)
  BY <1>1, <1>2
<1>6. CASE UNCHANGED <<successful, relayed, delivered>>
  <2>1. TypeOK'  BY <1>2, <1>5, <1>6 DEF TypeOK
  <2>2. MarkedIsDelivered'  BY <1>6 DEF IInv, MarkedIsDelivered, Elements
  <2> QED  BY <1>1, <1>4, <1>6, <2>1, <2>2 DEF IInv
<1>7. CASE \E ok \in BOOLEAN : RelayMessage(e, ok)
  <2> PICK ok \in BOOLEAN : RelayMessage(e, ok)  BY <1>7
  <2> PICK m : m = e  OBVIOUS
  <2>1. m \in Messages  BY <1>3
  <2>2. m \in Elements(sent) /\ m \notin successful
    BY <1>3 DEF RelayMessage, IInv, QueuedIsSent
  <2>3. CASE m.call \in PasserCall
    <3>1. successful' = successful \cup {m} /\ UNCHANGED <<relayed, delivered>>
      BY <2>3 DEF RelayMessage
    <3>2. TypeOK'  BY <1>2, <1>5, <2>1, <3>1 DEF TypeOK
    <3>3. MarkedIsDelivered'  BY <2>3, <3>1 DEF IInv, MarkedIsDelivered, Elements
    <3> QED  BY <1>1, <1>4, <3>1, <3>2, <3>3 DEF IInv
  <2>4. CASE m.call \notin PasserCall
    <3>1. relayed' = relayed \cup {<<m, next'>>}  BY <2>4 DEF RelayMessage
    <3>2. relayed' \subseteq Messages \X (1..Len(queue'))
      BY <1>1, <1>2, <1>3, <1>5, <2>1, <3>1
    <3>3. CASE ~ok
      <4>1. UNCHANGED <<successful, delivered>>  BY <2>4, <3>3 DEF RelayMessage
      <4>2. TypeOK'  BY <1>2, <1>5, <3>2, <4>1 DEF TypeOK
      <4>3. MarkedIsDelivered'  BY <4>1 DEF IInv, MarkedIsDelivered, Elements
      <4> QED  BY <1>1, <1>4, <4>1, <4>2, <4>3 DEF IInv
    <3>4. CASE ok
      <4>1. successful' = successful \cup {m} /\ delivered' = Append(delivered, m)
        BY <2>4, <3>4 DEF RelayMessage
      <4>2. Elements(delivered') = Elements(delivered) \cup {m} /\ delivered' \in Seq(Messages)
        BY <1>2, <2>1, <4>1, AppendElements
      <4>3. TypeOK'  BY <1>2, <1>5, <2>1, <3>2, <4>1, <4>2 DEF TypeOK
      <4>4. MarkedIsDelivered'
        <5>1. Elements(delivered)' = Elements(delivered) \cup {m}  BY <4>2, Zenon DEF Elements
        <5> QED  BY <4>1, <5>1 DEF IInv, MarkedIsDelivered
      <4>5. m \notin Elements(delivered)  BY <2>2 DEF IInv, MarkedIsDelivered
      <4>6. Channel!Deliver(m) /\ m \in Channel!Elements(sent)
        BY <1>1, <2>2, <4>1, <4>5 DEF Channel!Deliver, Channel!Elements, Elements
      <4> QED  BY <1>4, <4>3, <4>4, <4>6 DEF IInv, Channel!Next
    <3> QED  BY <3>3, <3>4
  <2> QED  BY <2>3, <2>4
<1> QED  BY <1>1, <1>6, <1>7

(* Every step keeps the invariant and is a step of the channel.              *)
LEMMA NextIInv == IInv /\ [Next]_vars => IInv' /\ [Channel!Next]_<<sent, delivered>>
<1> SUFFICES ASSUME IInv, [Next]_vars
             PROVE  IInv' /\ [Channel!Next]_<<sent, delivered>>
  OBVIOUS
<1>1. ASSUME NEW call \in Call, SendMessage(call)
      PROVE  IInv' /\ [Channel!Next]_<<sent, delivered>>
  BY <1>1, SendIInv
<1>2. ASSUME NEW call \in Call, NEW i \in 0..MaxQueue, ReplayMessage(call, i)
      PROVE  IInv' /\ [Channel!Next]_<<sent, delivered>>
  <2> PICK m : m = [call |-> call, nonce |-> i]  BY Zenon
  <2>1. /\ i < Len(queue) /\ queue[i + 1] = m
        /\ Enqueue(m) /\ UNCHANGED <<sent, next, successful, relayed, delivered>>
    BY <1>2, Zenon DEF ReplayMessage
  <2>2. m \in Messages  BY <1>2 DEF Messages
  <2>3. i + 1 \in 1..Len(queue)  BY <1>2, <2>1, L1ToL2Assumption DEF IInv, TypeOK
  <2>4. m \in Elements(sent)  BY <2>1, <2>3 DEF IInv, QueuedIsSent
  <2>5. IInv'  BY <2>1, <2>2, <2>4, EnqueueIInv, Zenon
  <2> QED  BY <2>1, <2>5
<1>3. CASE ExecuteNext  BY <1>3, RelayIInv
<1>4. CASE UNCHANGED vars
  BY <1>4 DEF vars, IInv, TypeOK, SentIsQueued, QueuedIsSent, MarkedIsDelivered, Elements
<1> QED  BY <1>1, <1>2, <1>3, <1>4 DEF Next

\* What the theorems follow from.
THEOREM Invariant == Spec => []IInv
<1>1. IInv /\ [Next]_vars => IInv'  BY NextIInv
<1> QED  BY InitIInv, <1>1, PTL DEF Spec

(* However often a message fails on L2, replayMessage still accepts it.      *)
THEOREM Replayable == Spec => []UndeliveredIsReplayable
<1>1. IInv => UndeliveredIsReplayable
  BY DEF IInv, SentIsQueued, MarkedIsDelivered, UndeliveredIsReplayable
<1> QED  BY Invariant, <1>1, PTL

(* The messengers deliver each message at most once, and only messages that  *)
(* were sent, for every set of calls and every number of replays.            *)
THEOREM AtMostOnce == Spec => ImplementsMessageChannel
<1>1. Init => Channel!Init  BY DEF Init, Channel!Init
<1>2. IInv /\ [Next]_vars => [Channel!Next]_<<sent, delivered>>  BY NextIInv
<1> QED  BY Invariant, <1>1, <1>2, PTL DEF Spec, ImplementsMessageChannel, Channel!Spec
=============================================================================
