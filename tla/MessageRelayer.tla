--------------------------- MODULE MessageRelayer ---------------------------
(***************************************************************************)
(* The service of packages/message-relayer: it polls the state commitment  *)
(* chain for batches whose fraud proof window has closed, looks up the     *)
(* messages that their L2 transactions sent, and relays each one to the L1 *)
(* messenger.  Its position is in memory and, with useChainStore, in a     *)
(* database.                                                               *)
(*                                                                         *)
(* A batch is an event of the L1 log; live has the ones that the state     *)
(* commitment chain still accepts.  L1 blocks are the clock.  A message is *)
(* the index of the L2 transaction that sends it.  Between two steps of    *)
(* the service it awaits an answer from L1 or the database.  Answers that  *)
(* never change (getTransaction, eth_getProof, the events of L2) are part  *)
(* of the step before or after.                                            *)
(***************************************************************************)
EXTENDS Naturals, FiniteSets, Sequences, FiniteSetsExt

CONSTANTS
    Messages,         \* L2 transactions that send a message
    SystemMessages,   \* those whose target is the CanonicalTransactionChain
    MaxElements,      \* bound on the L2 transactions
    MaxBatchSize,     \* bound on a batch
    FirstBatch,       \* the index of the first batch
    Windows,          \* values of FRAUD_PROOF_WINDOW, the least one at the start
    MaxTime,          \* bound on the L1 blocks
    getLogsInterval,
    relayNumber,
    useChainStore,    \* BOOLEAN
    MaxDeletions,     \* bound on the deletions of batches
    MaxFaults         \* bound on deletions, changes by the owners, failures and crashes together

ASSUME MessageRelayerAssumption ==
    /\ MaxElements \in Nat /\ Messages \subseteq 0..(MaxElements - 1)
    /\ SystemMessages \subseteq Messages
    /\ getLogsInterval \in Nat \ {0} /\ relayNumber \in Nat /\ useChainStore \in BOOLEAN
    /\ Windows \subseteq Nat /\ Windows # {}
    /\ {MaxBatchSize, FirstBatch, MaxTime, MaxDeletions, MaxFaults} \subseteq Nat

VARIABLES
    now,         \* the L1 block
    log,         \* StateBatchAppended events [batchIndex, prev, size, at]
    live,        \* positions in log of the batches of the chain
    deletions,   \* deletions so far
    fraudProofWindow,
    paused, blocked, successful,  \* of the L1 messenger; successful is successfulMessages
    failed,      \* messages whose target's call failed when the service relayed them
    pending,     \* transactions [message, event] of the service not yet mined, in order
    receipt,     \* of the transaction the service waits for: "none", "ok" or "reverted"
    pc,          \* what the service's loop awaits
    step,        \* of _getStateBatchHeader: "start", "read" or "done"
    l1Height, header,  \* its l1Height and its event, 0 for none
    lastFinalizedTxHeight, nextUnfinalizedTxHeight, lastQueriedL1Block,
    eventCache,  \* positions in log, in the order they were first read
    todo,        \* messages of this round still to relay
    seen,        \* the last message of the round, or MaxElements
    store,       \* lastFinalizedTxHeight in the database
    given,       \* messages it gave up after two attempts with the header of a batch of the chain
    broken,      \* did a call that failed end a round that had taken a batch?
    faults

l1Vars == <<now, log, live, deletions>>
messengerVars == <<fraudProofWindow, paused, blocked>>
relayVars == <<successful, failed, pending, receipt>>
findVars == <<step, l1Height, header>>
heights == <<lastFinalizedTxHeight, nextUnfinalizedTxHeight>>
cacheVars == <<lastQueriedL1Block, eventCache>>
workVars == <<todo, seen>>
serviceVars == <<pc, findVars, heights, cacheVars, workVars, store, given, broken>>
vars == <<l1Vars, messengerVars, relayVars, serviceVars, faults>>
-----------------------------------------------------------------------------
(* The state commitment chain and the messenger on L1. *)

Fault == faults < MaxFaults /\ faults' = faults + 1

\* The transactions up to the end of a batch.
End(e) == log[e].prev + log[e].size

Total == IF live = <<>> THEN 0 ELSE End(live[Len(live)])

Covers(e, height) == log[e].prev <= height /\ height < End(e)

\* ~insideFraudProofWindow, which only looks at the timestamp of the header.
Closed(e) == log[e].at + fraudProofWindow <= now

AppendStateBatch(size) ==
    /\ Total + size <= MaxElements
    /\ log' = Append(log, [batchIndex |-> FirstBatch + Len(live), prev |-> Total, size |-> size,
                           at |-> now])
    /\ live' = Append(live, Len(log) + 1)
    /\ UNCHANGED <<now, deletions, messengerVars, relayVars, serviceVars, faults>>

DeleteStateBatch(i) ==
    /\ Fault /\ deletions < MaxDeletions /\ deletions' = deletions + 1
    /\ ~Closed(live[i])
    /\ live' = SubSeq(live, 1, i - 1)
    /\ UNCHANGED <<now, log, messengerVars, relayVars, serviceVars>>

Tick ==
    /\ now < MaxTime /\ now' = now + 1
    /\ UNCHANGED <<log, live, deletions, messengerVars, relayVars, serviceVars, faults>>

\* setFraudProofWindow, by METIS_MANAGER.
SetFraudProofWindow(window) ==
    /\ Fault /\ window # fraudProofWindow /\ fraudProofWindow' = window
    /\ UNCHANGED <<paused, blocked, l1Vars, relayVars, serviceVars>>

\* pause and unpause, by the owner of the messenger.
SetPaused(p) ==
    /\ Fault /\ p # paused /\ paused' = p
    /\ UNCHANGED <<fraudProofWindow, blocked, l1Vars, relayVars, serviceVars>>

\* blockMessage and allowMessage, by the owner of the messenger.
SetBlocked(b) ==
    /\ Fault /\ b # blocked /\ blocked' = b
    /\ UNCHANGED <<fraudProofWindow, paused, l1Vars, relayVars, serviceVars>>

\* relayMessageViaChainId does not revert for this message with this header.
Relayable(m, e) ==
    /\ ~paused
    /\ e \in Range(live) /\ Closed(e) /\ Covers(e, m)
    /\ m \notin successful /\ m \notin blocked /\ m \notin SystemMessages

\* Anyone may relay a message.
RelayedByOther(m) ==
    /\ \E e \in Range(live) : Relayable(m, e)
    /\ successful' = successful \cup {m}
    /\ UNCHANGED <<failed, pending, receipt, l1Vars, messengerVars, serviceVars, faults>>

Waiting == {"wait", "waitAgain"}

\* The next transaction of the service's wallet is mined.  The target's call may fail without
\* failing the transaction.  The service waits for the last one it has sent.
MineRelay ==
    /\ pending # <<>> /\ pending' = Tail(pending)
    /\ LET t  == Head(pending)
           ok == Relayable(t.message, t.event)
       IN /\ \/ ok /\ successful' = successful \cup {t.message} /\ UNCHANGED <<failed, faults>>
             \/ ok /\ Fault /\ failed' = failed \cup {t.message} /\ UNCHANGED successful
             \/ ~ok /\ UNCHANGED <<successful, failed, faults>>
          /\ receipt' = IF Len(pending) > 1 \/ pc \notin Waiting THEN receipt
                        ELSE IF ok THEN "ok" ELSE "reverted"
    /\ UNCHANGED <<l1Vars, messengerVars, serviceVars>>

L1 ==
    \/ \E size \in 1..MaxBatchSize : AppendStateBatch(size)
    \/ \E i \in DOMAIN live : DeleteStateBatch(i)
    \/ Tick
    \/ \E window \in Windows : SetFraudProofWindow(window)
    \/ \E p \in BOOLEAN : SetPaused(p)
    \/ \E m \in Messages : \E b \in {blocked \cup {m}, blocked \ {m}} : SetBlocked(b)
    \/ \E m \in Messages : RelayedByOther(m)
-----------------------------------------------------------------------------
(* _getStateBatchHeader: reads the log in intervals until an event covers  *)
(* the height.                                                             *)

\* The elements of s that are in T, in their order.
Among(s, T) ==
    LET kept[n \in 0..Len(s)] ==
          IF n = 0 THEN <<>>
          ELSE IF s[n] \in T THEN Append(kept[n - 1], s[n]) ELSE kept[n - 1]
    IN kept[Len(s)]

\* The numbers of T below a bound, in their order.
Ascending(T, bound) == Among([n \in 1..bound |-> n - 1], T)

FirstIn(events, height) ==
    LET at == {i \in DOMAIN events : Covers(events[i], height)}
    IN IF at = {} THEN 0 ELSE events[Min(at)]

\* The height whose batch the service looks for.
Wanted == IF pc = "proof" THEN Head(todo) ELSE IF pc = "finish" THEN seen ELSE nextUnfinalizedTxHeight

Lookups == {"poll", "scan", "size", "proof", "finish"}

\* getBlockNumber.  Without a new block the cache is all there is.
GetBlockNumber ==
    /\ pc \in Lookups /\ step = "start"
    /\ IF lastQueriedL1Block < now
       THEN step' = "read" /\ l1Height' = now /\ UNCHANGED header
       ELSE step' = "done" /\ header' = FirstIn(eventCache, Wanted) /\ UNCHANGED l1Height
    /\ UNCHANGED <<pc, heights, cacheVars, workVars, store, given, broken, l1Vars, messengerVars,
                   relayVars, faults>>

\* The last block of a query.
endBlock == Min({lastQueriedL1Block + getLogsInterval, l1Height})

\* The events of a query that are not cached.
Unread ==
    {e \in DOMAIN log : log[e].at >= lastQueriedL1Block /\ log[e].at <= endBlock} \ Range(eventCache)

\* Mutant: the next call does not read the last interval again.
QueryFilter_Forward ==
    /\ step = "read"
    /\ eventCache' = eventCache \o Ascending(Unread, Len(log) + 1)
    /\ lastQueriedL1Block' = endBlock
    /\ \E found \in {FirstIn(eventCache', Wanted)} :
         IF found # 0 \/ endBlock = l1Height
         THEN step' = "done" /\ header' = found /\ l1Height' = 0
         ELSE UNCHANGED findVars
    /\ UNCHANGED <<pc, heights, workVars, store, given, broken, l1Vars, messengerVars, relayVars, faults>>

\* queryFilter for an interval.  lastQueriedL1Block is the start of the query, before and after.
QueryFilter ==
    /\ step = "read"
    /\ eventCache' = eventCache \o Ascending(Unread, Len(log) + 1)
    /\ \E found \in {FirstIn(eventCache', Wanted)} :
         IF found # 0 \/ endBlock = l1Height
         THEN step' = "done" /\ header' = found /\ l1Height' = 0 /\ UNCHANGED lastQueriedL1Block
         ELSE lastQueriedL1Block' = endBlock /\ UNCHANGED findVars
    /\ UNCHANGED <<pc, heights, workVars, store, given, broken, l1Vars, messengerVars, relayVars, faults>>

\* The next call of _getStateBatchHeader starts anew.
Done == step = "done" /\ step' = "start" /\ header' = 0 /\ UNCHANGED l1Height

Finalized == header # 0 /\ Closed(header)
-----------------------------------------------------------------------------
(* The loop of _start. *)

Init ==
    /\ now = 1 /\ log = <<>> /\ live = <<>> /\ deletions = 0
    /\ fraudProofWindow = Min(Windows) /\ paused = FALSE /\ blocked = {}
    /\ successful = {} /\ failed = {} /\ pending = <<>> /\ receipt = "none"
    /\ pc = "poll" /\ step = "start" /\ l1Height = 0 /\ header = 0
    /\ lastFinalizedTxHeight = 0 /\ nextUnfinalizedTxHeight = 0
    /\ lastQueriedL1Block = 0 /\ eventCache = <<>>
    /\ todo = <<>> /\ seen = MaxElements
    /\ store = 0 /\ given = {} /\ broken = FALSE /\ faults = 0

\* _isTransactionFinalized: is there a newly finalized transaction?
Poll ==
    /\ pc = "poll" /\ Done
    /\ IF ~Finalized THEN UNCHANGED <<pc, lastFinalizedTxHeight>>
       ELSE IF useChainStore THEN pc' = "save" /\ UNCHANGED lastFinalizedTxHeight
       ELSE pc' = "scan" /\ lastFinalizedTxHeight' = nextUnfinalizedTxHeight
    /\ UNCHANGED <<nextUnfinalizedTxHeight, cacheVars, workVars, store, given, broken, l1Vars,
                   messengerVars, relayVars, faults>>

\* A round starts there.  When the database fails, that is only logged.
Save ==
    /\ pc = "save" /\ pc' = "scan"
    /\ \/ store' = nextUnfinalizedTxHeight /\ UNCHANGED faults
       \/ Fault /\ UNCHANGED store
    /\ lastFinalizedTxHeight' = nextUnfinalizedTxHeight
    /\ UNCHANGED <<nextUnfinalizedTxHeight, findVars, cacheVars, workVars, given, broken, l1Vars,
                   messengerVars, relayVars>>

\* Take finalized batches, until there is none or there are enough transactions.
Scan ==
    /\ pc = "scan" /\ Done
    /\ pc' = IF Finalized THEN "size" ELSE "fetch"
    /\ UNCHANGED <<heights, cacheVars, workVars, store, given, broken, l1Vars, messengerVars, relayVars,
                   faults>>

\* The service is done with a round.
NoWork == todo' = <<>> /\ seen' = MaxElements

\* A TypeError: the header that is read is undefined.
TypeError == pc' = "poll" /\ NoWork

\* Mutant: saves the end of the round before its messages are relayed.
Size_SavesEnd ==
    /\ pc = "size" /\ Done
    /\ nextUnfinalizedTxHeight' = nextUnfinalizedTxHeight + log[header].size
    /\ store' = nextUnfinalizedTxHeight'
    /\ pc' = IF nextUnfinalizedTxHeight' - lastFinalizedTxHeight > relayNumber THEN "fetch" ELSE "scan"
    /\ UNCHANGED <<workVars, broken, lastFinalizedTxHeight, cacheVars, given, l1Vars, messengerVars,
                   relayVars, faults>>

\* Mutant: takes the transactions of a batch one at a time, up to the limit.
Size_OneByOne ==
    /\ pc = "size" /\ Done
    /\ nextUnfinalizedTxHeight' = nextUnfinalizedTxHeight + 1
    /\ pc' = IF nextUnfinalizedTxHeight' - lastFinalizedTxHeight > relayNumber THEN "fetch" ELSE "scan"
    /\ UNCHANGED <<workVars, broken, lastFinalizedTxHeight, cacheVars, store, given, l1Vars,
                   messengerVars, relayVars, faults>>

Size ==
    /\ pc = "size" /\ Done
    /\ IF header = 0 THEN TypeError /\ UNCHANGED nextUnfinalizedTxHeight
       ELSE /\ nextUnfinalizedTxHeight' = nextUnfinalizedTxHeight + log[header].size
            /\ pc' = IF nextUnfinalizedTxHeight' - lastFinalizedTxHeight > relayNumber
                     THEN "fetch" ELSE "scan"
            /\ UNCHANGED workVars
    /\ UNCHANGED <<lastFinalizedTxHeight, cacheVars, store, given, broken, l1Vars, messengerVars,
                   relayVars, faults>>

\* _getSentMessages, sorted.
Fetch ==
    LET sent == Ascending({m \in Messages : lastFinalizedTxHeight <= m /\ m < nextUnfinalizedTxHeight},
                          MaxElements)
    IN /\ pc = "fetch" /\ pc' = IF sent = <<>> THEN "poll" ELSE "message"
       /\ todo' = sent /\ seen' = IF sent = <<>> THEN MaxElements ELSE sent[Len(sent)]
       /\ UNCHANGED <<findVars, heights, cacheVars, store, given, broken, l1Vars, messengerVars, relayVars,
                      faults>>

\* On to the next message of the round.
NextMessage == todo' = Tail(todo) /\ pc' = IF Tail(todo) = <<>> THEN "finish" ELSE "message"

\* _wasMessageRelayed.
Message ==
    /\ pc = "message"
    /\ IF Head(todo) \in successful THEN NextMessage ELSE pc' = "proof" /\ UNCHANGED todo
    /\ UNCHANGED <<findVars, heights, cacheVars, seen, store, given, broken, l1Vars, messengerVars,
                   relayVars, faults>>

\* _getMessageProof.  The header stays, in the proof.
Proof ==
    /\ pc = "proof" /\ step = "done" /\ step' = "start"
    /\ IF header = 0 THEN TypeError ELSE pc' = "dry" /\ UNCHANGED workVars
    /\ UNCHANGED <<l1Height, header, heights, cacheVars, store, given, broken, l1Vars, messengerVars,
                   relayVars, faults>>

GiveUp ==
    /\ NextMessage /\ header' = 0
    /\ given' = IF header \in Range(live) THEN given \cup {Head(todo)} ELSE given

\* The dry run, and a second one after a while, when the contract refuses the message or the call
\* fails.
DryRun ==
    /\ pc \in {"dry", "dryAgain"}
    /\ \/ /\ Relayable(Head(todo), header) /\ pc' = "send"
          /\ UNCHANGED <<todo, given, header, faults>>
       \/ /\ IF Relayable(Head(todo), header) THEN Fault ELSE UNCHANGED faults
          /\ IF pc = "dry" THEN pc' = "dryAgain" /\ UNCHANGED <<todo, given, header>> ELSE GiveUp
    /\ UNCHANGED <<step, l1Height, heights, cacheVars, seen, store, broken, l1Vars, messengerVars, relayVars>>

\* relayMessageViaChainId: the transaction, and a second one.
Send ==
    /\ pc \in {"send", "sendAgain"} /\ pc' = IF pc = "send" THEN "wait" ELSE "waitAgain"
    /\ pending' = Append(pending, [message |-> Head(todo), event |-> header])
    /\ UNCHANGED <<findVars, heights, cacheVars, workVars, store, given, broken, l1Vars, messengerVars,
                   successful, failed, receipt, faults>>

\* wait: it fails when the transaction was reverted, or before there is a receipt.
Wait ==
    /\ pc \in Waiting /\ receipt' = "none"
    /\ \/ receipt = "ok" /\ NextMessage /\ header' = 0 /\ UNCHANGED <<given, faults>>
       \/ /\ IF receipt = "reverted" THEN UNCHANGED faults ELSE Fault
          /\ IF pc = "wait" THEN pc' = "sendAgain" /\ UNCHANGED <<todo, given, header>> ELSE GiveUp
    /\ UNCHANGED <<step, l1Height, heights, cacheVars, seen, store, broken, l1Vars, messengerVars,
                   successful, failed, pending>>

\* The digits of a number.
Decimal[n \in Nat] == IF n < 10 THEN <<n>> ELSE Append(Decimal[n \div 10], n % 10)

\* The comparison > of two BigNumber objects, which is that of their decimal strings.
IsGreater(a, b) ==
    LET s == Decimal[a]
        t == Decimal[b]
    IN \E i \in 1..Len(s) : /\ \A j \in 1..(i - 1) : j \in DOMAIN t /\ s[j] = t[j]
                            /\ i \in DOMAIN t => s[i] > t[i]

\* The round is over: drop the events of batches up to the last message's.
Finish ==
    /\ pc = "finish" /\ Done /\ pc' = "poll" /\ NoWork
    /\ eventCache' = IF header = 0 THEN eventCache
                     ELSE Among(eventCache, {e \in Range(eventCache) :
                                               IsGreater(log[e].batchIndex, log[header].batchIndex)})
    /\ UNCHANGED <<heights, lastQueriedL1Block, store, given, broken, l1Vars, messengerVars, relayVars,
                   faults>>

\* A call fails that has no handler of its own: the round is over.
Error ==
    /\ pc \notin {"save", "dry", "dryAgain"} \cup Waiting /\ Fault
    /\ pc' = "poll" /\ step' = "start" /\ l1Height' = 0 /\ header' = 0 /\ NoWork
    /\ broken' = (broken \/ (pc \notin {"poll", "finish"} /\ lastFinalizedTxHeight < nextUnfinalizedTxHeight))
    /\ UNCHANGED <<heights, cacheVars, store, given, l1Vars, messengerVars, relayVars>>

\* The process is restarted: _init.
Crash ==
    /\ Fault
    /\ pc' = "poll" /\ step' = "start" /\ l1Height' = 0 /\ header' = 0 /\ NoWork
    /\ lastQueriedL1Block' = 0 /\ eventCache' = <<>>
    /\ lastFinalizedTxHeight' = store /\ nextUnfinalizedTxHeight' = store
    /\ receipt' = "none"
    /\ UNCHANGED <<store, given, broken, l1Vars, messengerVars, successful, failed, pending>>

Relayer ==
    \/ GetBlockNumber \/ QueryFilter \/ Poll \/ Save \/ Scan \/ Size \/ Fetch
    \/ Message \/ Proof \/ DryRun \/ Send \/ Wait \/ Finish

Next == L1 \/ MineRelay \/ Relayer \/ Error \/ Crash

\* The loop polls for as long as the process runs, and L1 mines the transactions it is sent.
Spec == Init /\ [][Next]_vars /\ WF_vars(Relayer) /\ WF_vars(MineRelay)
-----------------------------------------------------------------------------
Dealt == successful \cup failed \cup given

\* While no failed call has ended a round that had taken a batch, and no batch was deleted, every message
\* is relayed, or given up after two attempts, before the service passes it: when it is below the
\* end of a round that is over, below the start of the one that runs, or below the stored height,
\* where a restart goes on.
NothingIsSkipped ==
    LET passed == IF pc \in {"poll", "save"} THEN nextUnfinalizedTxHeight ELSE lastFinalizedTxHeight
    IN ~broken /\ deletions = 0 =>
           \A m \in Messages : m < store \/ m < passed => m \in Dealt

\* While no batch has been deleted, the service stands at the end of a batch, whatever the
\* crashes and errors.
StandsAtBatch ==
    deletions = 0 =>
        \A height \in {lastFinalizedTxHeight, nextUnfinalizedTxHeight} :
            height = Total \/ \E e \in Range(live) : log[e].prev = height

Final(m) == \E e \in Range(live) : Covers(e, m) /\ Closed(e)

\* While no failed call has ended a round that had taken a batch, and no batch was deleted, a message
\* whose batch is final, and stays so, is relayed in the end, unless its target fails or the
\* service has given it up: its two attempts failed, or a pause, a block, its target or a window
\* that was raised made the contract refuse them.
FinalIsRelayed ==
    \A m \in Messages : Final(m) ~> (m \in Dealt \/ broken \/ deletions > 0 \/ ~Final(m))

\* The same whatever was deleted.  The event of a deleted batch in the cache prevents it: the
\* service gives the message up with a header that the chain does not have, see README.
FinalIsRelayedAfterDeletion ==
    \A m \in Messages : Final(m) ~> (m \in Dealt \/ broken \/ ~Final(m))
=============================================================================
