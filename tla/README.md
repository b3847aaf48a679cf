# Verification of the Metis rollup

TLA+ models of the protocol that this repository implements: an optimistic
rollup, a fork of Optimism's OVM 1. L1 contracts keep the chain of L2
transactions and the chain of L2 state roots, `l2geth` executes the transactions
as sequencer or as verifier, and messengers and bridges move messages and tokens
between the layers. The small instances are checked with TLC; the theorems are
proved with TLAPS for every value of the constants.

Paths below are relative to the repository; `contracts/` stands for
`packages/contracts/contracts/`.

## The system

```
            L1                                     off chain                      L2
 L1CrossDomainMessenger --enqueue--> CTC queue --> data transport layer --> l2geth (sequencer)
                                     CTC batches <- batch submitter <------ l2geth
                                     SCC batches <- batch submitter <------ l2geth
 MVM_Verifier --deleteStateBatch-->  SCC           data transport layer --> l2geth (verifier)
 L1CrossDomainMessenger <--proof of a root in SCC-- message relayer <------ L2CrossDomainMessenger
 L1StandardBridge <------------ the two messengers -----------------------> L2StandardBridge
```

| Part | State | Operations | What is hard |
|---|---|---|---|
| `ChainStorageContainer`, `Lib_Buffer` | slots that are never cleared, a 40-bit length, 27 bytes of metadata | push, get, delete after | old contents above the length; narrowing of indices |
| `StateCommitmentChain`, `MVM_StateCommitmentChain` | a container of header hashes, the fraud proof window | append, delete, verify, set window | deletion trusts the caller's header; a hash does not cover its index; the window changes |
| `CanonicalTransactionChain` | queue, container of batches, two queue cursors | enqueue, appendSequencerBatch | the size a batch claims against its contexts; two cursors |
| L1 and L2 cross domain messengers | received and relayed messages, pause, block list | send, replay, relay | replays, out of gas, roots deleted and published again |
| `L1StandardBridge`, `L2StandardBridge` | deposits per pair of tokens, supplies | deposit, finalize, withdraw | wrong or foreign L2 tokens, any order of delivery |
| `SyncService` in `l2geth`, the miner's worker | indices in the database, the chain, channels | apply a transaction, queue loop, RPC, batch loop, restart | indices are written before the block exists; crash, failure and retry at each point |
| `SeqAdapter`, `core/seq_set.go`, `eth/handler.go` | cached epoch, respans, blocks in the works, blocks of peers | getSequencer, build, write, import | a cache that is stale when the epoch changes; a check that is old when its block is built or inserted |
| transaction pool | pending, queue, nonces, heartbeats, journal | add, reset, promote, demote, truncate, evict | requests that are merged; a pool at its limits; local transactions |
| chain manager (`core/blockchain.go`) | blocks, canonical index, head, states in memory and on disk | insert, write, reorganise, rewind, stop, repair | a crash between two batches of the database; events after the lock |
| data transport layer | ingested events, cursors | ingest, serve | reorganisation, deletion of state batches |
| batch submitter | resubmission state, inbox | build, submit, fix batches | crash between submission and record |
| message relayer | heights, event cache, stored height | scan, prove, dry run, send, wait | an exception in a range, stale cache, retries, what the owners of the contracts change meanwhile |
| `MVM_Verifier`, `MVM_CanonicalTransaction` | challenges, stakes, requests | challenge, verify, finalize, stake | settlement when verifiers join, leave or are penalised |
| gas oracle, exporter, health check, surgery | – | – | – |

## Modules

| Module | Models | Shape |
|---|---|---|
| `LibBuffer` | `Lib_Buffer.sol` behind `ChainStorageContainer.sol` | operators on a buffer |
| `StateCommitmentChain` | `StateCommitmentChain.sol` and `MVM_StateCommitmentChain.sol` (`CheckCTC` tells them apart) | one action per function |
| `StateLog` | what it promises: a log of roots with a final prefix | abstract |
| `CanonicalTransactionChain` | `CanonicalTransactionChain.sol`, the form of the submitter's batches, `parseEvent` of the data transport layer | one action per function |
| `TransactionLog` | what it promises: an append-only log that takes the queue in order, each element once | abstract |
| `MessageChannel` | what a pair of messengers promises in one direction: sent messages are delivered at most once | abstract |
| `L1ToL2Messages` | `L1CrossDomainMessenger` (send, replay), the queue, `L2CrossDomainMessenger.relayMessage` | refines `MessageChannel` |
| `L2ToL1Messages` | `L2CrossDomainMessenger.sendMessage`, `OVM_L2ToL1MessagePasser`, `L1CrossDomainMessenger.relayMessage` | composes `StateCommitmentChain`, refines `MessageChannel` |
| `StandardBridge` | both bridges | composes two `MessageChannel`s |
| `SyncService` | indices, `applyTransactionToTip`, the worker, crash and restart | shared by the next two |
| `Sequencer` | queue loop and RPC | extends its log by the steps of `TransactionLog` |
| `Verifier` | batch loop, `verifyStateRoot`, recovery of the batch index | extends `SyncService` |
| `SequencerSet` | above `DeSeqBlock`: `SeqAdapter`, `applyTransactionToPool`, the worker's timer, `commitNewTx`, `commitNewWork` and `resultLoop`, the pool's reset, `blocksBeforeInsert`, `processSeqSetBlock`, `HandleSyncFromOther` | several nodes, one action per step of a node |
| `TxPool` | `core/tx_pool.go` with its lists, noncer and journal | one action per request and run |
| `BlockChain` | `core/blockchain.go`, `HeaderChain.SetHead`, `ValidateBody`, the worker's `resultLoop` | one action per database batch |
| `MessageRelayer` | `packages/message-relayer/src/service.ts`, over the state commitment chain and the L1 messenger | one action per call that the loop awaits |
| `MC*` | the constants of the runs | |
| `*Proofs` | the theorems about the module of that name; `SyncServiceProofs` has those of `Sequencer` and `Verifier` | |

The definitions keep the names of the functions they model; `PROJECT.json`
(`map`) gives the source lines of each.

How the models correspond to the code:

- One L2 chain id. All functions exist with and without `ByChainId`, and the
  latter call the former with the default id.
- A hash is the value that was hashed; a Merkle root is the sequence it was made
  from; a proof is membership. A header is the pair of an index and a hash,
  since `hashBatchHeader` leaves the index out, and a caller may present every
  such pair.
- A call that reverts is no step. Callers that `require` excludes do not appear.
- Block number and timestamp are one number. `Tick` is a new L1 block.
- A container has `MaxLength` slots instead of 2^40 - 1; a push to a full one
  reverts (checked arithmetic), and the index of a get or of a deletion is
  narrowed modulo `MaxLength + 1`; headers name indices of twice that range, so
  that some narrow to a slot. A deletion compares the whole index with the length
  first. Totals of elements, also 40 bits, are not wrapped: the
  bounds stay far below.
- In `CanonicalTransactionChain` the batches are those that the submitter makes:
  the contract does not compare the size that a batch claims with its contexts.
  The first context may be the empty one that the encoder adds when the
  transactions are in Minio.
- In `L1ToL2Messages` an element of the queue may fail on L2 at any point (out
  of gas). Only the messenger fills the queue (`CanonicalTransactionChain.sol:575`),
  with messages and with replays of them.
- In `L2ToL1Messages` a state root is the set of records of the message passer.
  The proposer may publish a wrong root. That the fraud verifier deletes it
  before its window closes is the protocol's assumption, not a promise of the
  code; it is the operator `VerifierIsTimely`, which guards the passing of time
  and the change of the window and nothing else.
- In `StandardBridge` a foreign L2 token answers anything to `l1Token`, also
  something else each time, and mints and burns as it likes. A transfer of an L1
  token moves exactly the amount it names: tokens that take a fee are not in the
  model.
- `SyncService` is a node that receives no blocks from peers, below
  `DeSeqBlock` (one transaction in a block) and below the Shanghai block (no
  lookup of repeated queue elements). The two steps that matter are apart: the
  indices are written by `ApplyTransactionToTip`, the block is added by
  `Worker`, and the answer is taken by `Return`. `Crash` may come between any
  two steps; the database and the chain survive, memory does not. Of the queue
  the sequencer of chain 1088 skips elements 20397 and 37446
  (`sync_service.go:2004`), which are the constant `Skipped`.
- In `SequencerSet` a block is the list of its signed transactions, and the
  epochs of the sequencer set contract, which is not part of the repository,
  are a function of the chain. "Mined at once" means through `rollupCh` and not
  the pool: the gas price oracle's transactions and `recommitEpoch`. What the
  code does not do under one lock is apart: the timer's question
  (`TimerCheck`), the block that is built on the head of a later moment and its
  index (`BuildPool`, `BuildTask`), the check for duplicates (`TakeResult`) and
  the writing after the wait for `chainmu` (`WriteResult`), the pool's reset
  (`ResetPool`), the checks of a peer's blocks (`Receive`), and their insertion
  after the wait for `chainmu` (`Insert`). A restart may come between any two, and
  its `startCh` builds a block of the journal's transactions with nobody asked
  (`worker.go:383`). `startHeight` is what switches the timer and
  `blocksBeforeInsert` on. Left out: `SetPreRespan`, which does nothing in this
  adapter, blocks of queue elements, and the wait of `resultLoop` for the head
  event. A node has one batch of a peer and one block in sealing at a time.
- In `TxPool` every transaction uses one unit of gas and sends no value, so that
  a pending list can be executed when its nonces can and each transaction is
  paid for; that the funds last for all of them together is not what the pool
  promises. The journal is loaded in batches of `JournalBatch` (1025 in the code). The
  price heap is the order of the transactions. A submission, its request for a
  reorganisation and the run of it are three steps, so heads, submissions and
  evictions come between them, and requests merge. Heartbeats are the order of
  the accounts. A `SetHead` whose old head is gone is left out.
- In `BlockChain` the blocks are a constant tree with one transaction each and
  the total difficulty is the number (clique with one signer). Operations
  exclude each other by `chainmu`, but each batch that is written is a step, and
  `Crash` may come after any of them. What is in `mem` is lost then.
- In `MessageRelayer` the log of L1 and the live batches are apart, since
  deleted batches keep their events. Between any two calls that the service
  awaits, L1 goes on: batches come and go, the window, the pause and the block
  list change, anybody relays a message. `getLogs` up to the present block may
  miss what the block still takes in. A message is refused for a paused messenger,
  a batch that is gone or inside the window, a message that is delivered or
  blocked, or a target that is never called. The dry run and the receipt are
  tried twice; a transaction whose `wait` failed may still be mined. A failed call
  elsewhere ends the round (`Error`); `broken` says that it ended one that had
  taken a batch. `given` has the messages that were given up with the header of
  a live batch, `failed` those whose target's call failed. Batch indices are
  compared as the code does, as decimal strings.

## Runs

Passing runs:

| Run | Distinct states | Shows |
|---|---|---|
| `scc` | 505 k | The batches partition the elements, one root can be verified for each element, final batches stay, and the deployed contract implements `StateLog`. |
| `ctc` | 225 k | The two queue cursors agree; the chain that nodes derive is as long as the contract counts and implements `TransactionLog`. |
| `l1_to_l2` | 645 k | At most one delivery; what was not delivered can be replayed. |
| `l2_to_l1` | 468 k | At most one delivery, of sent messages only; a message under a final root can be proven. |
| `bridge` | 69 k | L1 holds what L2 has and what is under way; no pair of tokens pays for another. |
| `sequencer` | 25 k | The index follows the chain over failures and crashes; the queue enters the chain in order and once; every element gets in that is not skipped. |
| `verifier` | 35 k | No batch is skipped; every transaction is applied, unless the index was taken back after a transaction of the oracle's owner. |
| `sequencer_set` | 1101 k | No transaction is mined twice. Blocks whose makers were sure of their turn are signed by the sequencer of their epoch, and chains of such blocks do not fork. A sequencer drops a block of its own epoch for a peer's branch only if that has a `recommitEpoch`, or if the check did not see the block or was not on. |
| `tx_pool` | 391 k | Lists, index and nonces agree; pending transactions can be executed in order and the miner knows of them; runs keep the limits; local transactions survive limits, prices, evictions and restarts. |
| `block_chain` | 767 k | The canonical hashes up to the head are its chain after every single batch; the head has its state, gets announced, never gets lighter by an insertion and survives an orderly stop; insertions of blocks that are not refused return. |
| `message_relayer` | 1117 k | Neither a round nor the stored height passes a message that was not relayed or given up, over crashes, retries and what the owners change; the service stands at a batch boundary; every final message is dealt with. |

Besides these, `TypeOK` of the modules whose runs do not name it holds in the
same configurations. `LatestIndexIsTip` of the verifier is proved for a readable
oracle; the configuration of `verifier`, whose oracle may fail, refutes it.

One run ends in a violation (quoted in `PROJECT.json`, `findings`):
`block_chain_refused`. When `processSeqSetBlock` refuses a block,
`insertChainWithFuncAndCh` returns without a send on the two channels that its
caller waits on (`blockchain.go:2119`), which were introduced to "resolve call
function hang without return response" (`blockchain.go:1550`). `InsertReturns`
in `block_chain` shows that this return is the only such one.

### Where the code does something else

The models also contain these, each with the definition that TLC refutes and
the change of a configuration that shows it:

| The code | The text | Refuted | With |
|---|---|---|---|
| `L2StandardBridge.sol:236`: a deposit into a wrong L2 token is not returned | `L2StandardBridge.spec.ts:107` | `FailedDepositReturns` | `Bridge.cfg` |
| `sync_service.go:445`: a crash in the very first transaction makes the restart panic | `sync_service.go:1553` | `RestartRepairs` | `Sequencer.cfg`, `InitialBlocks <- MCGenesis` |
| `sync_service.go:1628`: the index is taken back although the block is there | `sync_service.go:1434` | `LatestIndexIsTip` | `Sequencer.cfg`, `OracleFails = TRUE` |
| `sync_service.go:1937`: a retried batch is synced without its roots being verified | `specs/protocol/actors-and-roles.md:45` | `SyncedIsVerified` | `Verifier.cfg` |
| `handler.go:325`: the check comes before the wait for `chainmu`, and the node drops the blocks of its epoch that it wrote meanwhile | `handler.go:227`, "the sequencer of the current epoch is self, and does not process the incoming blocks" | `OwnBlocksAreKept` | `SequencerSet.cfg` |
| `rollup_adapter.go:354`: a node that mines a `recommitEpoch` itself keeps its cached epoch | `rollup_adapter.go:52`, "if recommit or block number < start \| > end, clear cache" | `DecisionIsContract` | `SequencerSet.cfg` |
| `blockchain.go:1288`, `1359`: a side block overwrites the metadata of the canonical block of its number | `accessors_indexes.go:92` | `MetaIsCanonical` | `BlockChain.cfg` |
| `tx_pool.go:1068`: a transaction behind one that the same run demotes stays queued | – | `ReadyIsPromoted` | `TxPool.cfg` |
| `service.ts:338`: the event of a deleted batch is found before the new one, both dry runs fail, and the message is given up | – | `FinalIsRelayedAfterDeletion` | `MessageRelayer.cfg` |

`sequencer` and `verifier` start from a chain that has a block, the sequencer
with an oracle that can be read. On an empty chain two more things go wrong with the
same models (`InitialBlocks <- MCGenesis`): when the worker fails on the first
transaction, `SetLatestIndex` of the nil that the index was is no write, and the
index stays one ahead (`sync_service.go:1617`); and a verifier that crashes
inside batch 0 recovers to batch index 0, which counts that batch as synced
(`sync_service.go:415`).

Why some properties of the newer runs have conditions:

- `OrderlyChains` and `ForksNeedUnsure` are about blocks whose makers were sure
  of their turn: they were told so on the very parent of the block, and knew no
  other branch. The code makes others. A `recommitEpoch` is mined by the node it
  names, whosever turn it is. The timer's answer is not asked again when
  `commitNewWork` takes the head of a later moment, nor is that of a transaction
  that is mined at once, where only the number is compared. A restart's first
  block is built without a question. After a reorganisation the cached epoch may
  be that of the branch that was dropped. And a submission between the import of
  a block and its `HandleSyncFromOther` makes a `recommitEpoch` in it historical
  (`sync_service.go:1097`), so that the cached epoch stays. `ForksNeedUnsure` also
  relies on a chain that loses no block: a sequencer whose head is rewound after
  an unclean shutdown may sign another block of the same number. The transfer to
  the MPC account that `rollup_adapter.go:367` lets through when there is no
  epoch is accepted, but the worker's timer asks without a transaction and does
  not mine it; a restart does.
- `OwnEpochIsKept` excepts three cases. `blocksBeforeInsert` looks at the first
  block of its epoch in the batch it is given, so a `recommitEpoch` opens the way
  for what comes with it, and once it is stored on a side branch, later batches of
  that branch reorganise too. It is made before the wait for `chainmu`, so a block
  that the worker writes in between is not seen. And it is off until the head is
  above `startSeqHeight`. In the other direction the check for duplicates is made
  before `chainmu` too (`worker.go:716`), so that a block of the worker can meet
  an imported one of its number, and the coin of `writeBlockWithState` decides.
- `BatchIsApplied` excepts an index that was taken back although the block is
  there (`sync_service.go:1628`): the verifier then applies the same transaction
  for ever, and the worker turns it down.
- `HeadIsAnnounced` excepts a known block above the head, which becomes
  `lastCanon` without becoming the head (`blockchain.go:1987`), so that no event
  is sent for the blocks before it.
- `HeaderIsTip` says of every node that head and head header are on one chain,
  and that they are the same only of an archive node that has not crashed. A
  crash inside `SetHead` and a later import leave the head header behind, and a
  repaired head leaves the canonical hashes above it, which make the worker's
  blocks duplicates (`worker.go:716`). Without the archive, a rewind to a block
  whose state was pruned takes the head to genesis and the head header not
  (`blockchain.go:406`).
- `NothingIsSkipped` and `FinalIsRelayed` except a round that had taken a batch
  when a failed call ended it, and deletions. Such a call comes after the end of
  the round has moved (`service.ts:240`) and leaves its messages until a restart
  with an older height. After a deletion and batches of other sizes the service
  counts old and new events and may pass the end of the chain. Both count a
  message as dealt with when the service gave it up: the contract refused it
  twice, or the calls failed twice. A message that is blocked, or whose batch is
  inside a raised window again, is given up like any other and not taken up later.
- The comparison of strings in `service.ts:306` drops the events of batches 10 and
  above after a round that ends in batch 9. It does no harm: `lastQueriedL1Block`
  only moves past an interval that does not have the height that is looked for,
  so the event of the height that comes next is read again.
- `LocalsAreKept` speaks of accounts that are local. A local submission that
  replaces a pending transaction makes its account neither local nor journalled
  (`tx_pool.go:651` returns before).

Read in the code, and not the subject of a run: the manager's deletion of
batches of the transaction chain leaves `_nextQueueIndex` behind the deleted
queue elements (`CanonicalTransactionChain.sol:991`); the contract does not
compare the timestamps of contexts, which
`specs/protocol/components/chain.md:185` demands; a message to the message
passer counts as received (`L2CrossDomainMessenger.sol:133`), where
`bridge.md:60` says that it reverts; `truncateQueue` starts with the account
that was active last, where its comment says that it "drops the oldes
transactions" (`tx_pool.go:1353`); and `MVM_StateCommitmentChain.sol:245` has the
comparison commented out that `specs/protocol/components/chain.md:265` demands, so
that roots of transactions that are not there are taken.

### Bounds

- `scc`: three slots, three elements and batches of one or two roots, headers with
  indices of up to twice the slots. A batch can be
  appended over the slot of a deleted one, with another size, while an older
  one is final and a newer one is not, which takes three batches and three
  ticks. Two roots, which are symmetric, tell a wrong answer from a
  right one.
- `ctc`: three contexts, the first of which may be empty, with up to two
  transactions of each kind over a queue of four: queue elements in the middle of
  a batch, empty halves of a context and several batches all occur.
- `l1_to_l2`: six elements hold several messages and replays, in each order, so
  that nonces and indices part.
- `l2_to_l1`: two blocks, two messages, one wrong root that claims a message
  before it is sent, two windows.
- `bridge`: two deposits and two withdrawals of amounts 1 and 2 over three assets.
- `sequencer`: five queue elements, one of them skipped, two transactions of users, two failures, two
  crashes. A crash can hit the retry of what failed.
- `verifier`: five transactions in batches of up to three, one failure, two
  crashes, one wrong root, one transaction of the oracle's owner, after which the
  oracle may fail.
- `sequencer_set`: two nodes, three blocks, any three of four submissions: an
  epoch ends and the other node's begins, a `recommitEpoch` gives the rest of it
  back, the oracle's transaction goes to the other node, and one node restarts.
  While a node has a block in the works or at the lock (`MaxBusy`) the other
  begins none, but does everything else. All four submissions, with the second
  epoch one block shorter, pass too (6.9 million states, more than five minutes).
- `tx_pool`: five transactions of two accounts with one replacement, a pool of
  three, two new heads, one of which may take a block back, one restart. The
  pool is full, an account is beyond its slots and an account cannot pay for all
  it sent. `DeepReorg` is 1 so that both branches of `reset` occur, and the
  journal is read two transactions at a time.
- `block_chain`: a chain of three and a fork of two, a bad and a refused block,
  batches of two, two faults (crash, failed commit, stop or rewind): a crash in
  a rewind followed by a crash in the reorganisation after it.
- `message_relayer`: three transactions in batches of one or two, two messages,
  one of which has a target that is refused, batch indices from 9 on, three L1
  blocks, intervals of one, two windows, two faults among failed calls, crashes,
  a deletion and changes by the owners.

Deadlock is checked in the runs of the state commitment chain, where a window
can always be set. The others reach the end of their bounds or, like a queue
that is used up, have nothing to do.

### Fairness

`Sequencer`, `Verifier`, `BlockChain` and `MessageRelayer` have liveness
properties. The loops of the first two poll for ever on a ticker
(`SequencerLoop`, `VerifierLoop`), which is weak fairness of their steps; the
worker answers each transaction it is sent, with a block or through
`handleErrInTask`; a process that ended is started again. The verifier needs
more in one place: a request for a batch may fail and succeed in turn, and
strong fairness says that not all of infinitely many fail. In `BlockChain` the
goroutine that holds `chainmu` goes on (`Proceed`), and nobody has to begin
anything. The relayer's loop (`while (this.running)`) goes on too, and L1 mines
the transactions that the service has sent: of one that is dropped, `wait` would
never return, which is not in the model. Nobody has to
enqueue, to send, to post a batch or to publish a root, and failures and crashes
are bounded in number but may come at any time.

## Proofs

Every safety property that a run checks is also a theorem, for all values of the
constants, except those of `SequencerSet` and `TxPool`.

| Module | Theorem | Statement | Argument |
|---|---|---|---|
| `StateCommitmentChainProofs` | `TypeCorrect`, `Partition` | types, `BatchesPartitionElements` | `IInv` adds to the partition that every live slot holds a hash and that timestamps do not fall along the batches. Deletion needs the partition to see that the header's `prevTotalElements` is where the kept batches end. |
| | `Finality` | `FinalityIsForever` | a final batch is older than any batch inside the window, so it has the smaller index and survives the deletion. |
| | `OneRoot` | `OneRootPerElement` | the first live batch that ends after an element covers it and no other does, and a header that is accepted has the hash of the live slot it names. |
| | `Refinement` | `ImplementsStateLog` | the log up to slot n depends on the hashes below n only; an append adds its batch, a deletion cuts behind the final prefix. |
| `CanonicalTransactionChainProofs` | `Cursors`, `TypeCorrect` | `CursorsAgree`, types | the claimed total is the sum of both counts (`ContextSums`), so the difference that moves one cursor is the sum that moves the other. |
| | `Covered` | `EventsCoverElements` | `CoverInv`: a batch's entries are as many as its contexts count. |
| | `Refinement` | `ImplementsTransactionLog` | in the entries of an event, the queue elements count up from its starting index. |
| `L1ToL2MessagesProofs` | `Replayable` | `UndeliveredIsReplayable` | every element from the messenger has a nonce not beyond its own position and equals the element at that nonce. |
| | `AtMostOnce` | `ImplementsMessageChannel` | the messages delivered are those received that are no calls of the passer; all were sent. |
| `L2ToL1MessagesProofs` | `Refinement` | `ImplementsMessageChannel` | `IInv`: a final root is the root of its block (`VerifierIsTimely`), and the roots of blocks hold sent messages only. |
| | `Provable` | `FinalMessageIsProvable` | the batch that covers the block is not after the final one, so it is final. The steps of the chain are those of `StateCommitmentChain` (`ChainRefinement`), whose `IInv` carries over. |
| `StandardBridgeProofs` | `Balanced`, `Counts` | `Conservation`, `BalanceIsDeposits` | `IInv` has both and the form of the messages under way; a step moves one amount from one sum into another. |
| | `Funded` | withdrawals under way can be paid | a withdrawal of a standard token is part of the sum that the L1 bridge holds. |
| `SyncServiceProofs` | `IndexIsTip` | `LatestIndexIsTip /\ RestartRepairs`, with a block in the chain and a readable oracle | `IndexInv`: where the index is relative to the chain at each stage of an application and after a crash. |
| | `QueueOrder` | `Deployed` implies `ExtendsTransactionLog` | `LogInv`: the stored queue index is that of the last element in the chain, one more while the worker has an element, and the loop's range goes on where the chain ends. |
| | `VerifierIndexIsTip` | the same as `IndexIsTip`, with a block in the chain and a readable oracle | `TipInv`, the form of `IndexInv` for a chain that batches fill. |
| | `NoneSkipped` | `Synced` implies `NoBatchSkipped` | `BatchInv`: the batches up to the recorded one are in the chain, and an index that a crash leaves ahead is still inside a batch, so that the recovery finds one. It does not need the oracle. |
| `BlockChainProofs` | `Canonical`, `Executable`, `NotLost` | `CanonicalIsLinked`, `HeadHasState`, `HeadIsNotLost` | `ChainInv`: at each stage of an operation, where the block that is written meets the head's chain, what of the new chain `reorg` has still to index, and what `SetHead` has still to delete. |
| | `HeaderTip` | `HeaderIsTip` | `ArchiveOK`, states on disk come with those of their ancestors, so that a rewind stops where it was told to; and `TipInv`, the hashes above the head are those that the operation deletes. |
| | `Announced` | `HeadIsAnnounced` | `EventInv`: an unannounced head has its event deferred, or an operation owes it, or a known block is above it. It needs that batches are linked: an insertion whose `lastCanon` is the head goes on with a child of the head, which replaces it or is known. |
| `MessageRelayerProofs` | `AtBatch` | `StandsAtBatch` | `RelayInv`: without a deletion the events are the chain, without gaps, and heights move by the size of the batch that starts there. |
| | `Skipless` | `NothingIsSkipped` | `RelayInv`: at every call that is awaited, the heights are borders of batches, the cache has the events of the batches of the round, a header that was found covers the height that was looked for, a receipt is that of the message in hand, and what is below the start of the round is dealt with. So each message of a round finds its header, and leaves `todo` relayed, failed or given up. The `TypeError` of a header that is not found cannot happen without a deletion. |

The assumptions are the `ASSUME`s of the modules, which TLC evaluates in the
runs. Most say that bounds are natural numbers. The others: the zero slot is no
header hash, and `Nil`, `Sequenced` and `None` are no numbers, blocks or
operations; token sets are disjoint and finite and the two ETH tokens have no L1
address (`BridgeAssumption`); the blocks are finitely many, and the number of a
block is one more than its parent's (`NumberAssumption`, which excludes cycles
of `Parent`); an interval of `getLogs` is not empty
(`MessageRelayerAssumption`). `L2ToL1MessagesProofs` rests on the fraud verifier
too, which is part of the specification (`VerifierIsTimely'` in the three steps
that could make a wrong root final). Four theorems have hypotheses about
where a node begins: a chain with a block, `Deployed` (its queue elements are in
order and the first is among them) and `Synced` (its chain has the elements of
the batches it has synced); `IndexIsTip` and `VerifierIndexIsTip` also ask for a
readable oracle. The
table of what the code does otherwise and the remarks after it show what happens
without them. The theorems about the state commitment chain hold for both
versions of the contract.

Logs, sums and chains of ancestors are recursive functions of the state. The
provers have no induction over an operator, so a fact about them is proved by
its least counterexample: a set of naturals that is not empty has a least
element, and a family of subsets of a finite set a minimal one. That a recursive
definition has a solution at all is proved the same way (`ConcatExists`,
`IteratesExist`). For this reason the models count with `Cardinality`
(`QueueCount`), select with a local recursive function (`Among`) and not with
`SelectSeq`, whose definition the prover cannot expand.

Only model-checked:

- Liveness (`EnqueueIsIncluded`, `BatchIsApplied`, `InsertReturns`,
  `FinalIsRelayed`), which the prover does not handle.
- `TxPool`. A run of the pool sorts, filters and truncates its lists with folds
  and `SelectSeq`, one after the other. What each leaves is induction over data
  with an operator as parameter.
- `SequencerSet`, for the same reason: the epochs of a chain (`Epochs`) and the
  checks of an import are folds over blocks and their transactions.

## Plan

1. Done: containers, the two chains, messengers, bridge, the single sequencer,
   the verifier, several sequencers, transaction pool, chain manager, relayer;
   proofs of the safety properties of all but `TxPool` and `SequencerSet`.
2. `MVM_Verifier` over `StateCommitmentChain`: conservation of stakes, each
   challenge is settled once.
3. The data transport layer's ingestion, and the batch submitter with the inbox,
   between `Sequencer` and `CanonicalTransactionChain`.

## Not modelled

- Most of `l2geth` is go-ethereum as upstream has it: the EVM, tries and
  databases, clique, the p2p stack, downloader and light client, wallets, RPC,
  console. One generated table (`signer/fourbyte/4byte.go`) is close to half of
  all Go lines. The models take from these parts that a block executes or not
  and that a state is there or not, and cover the parts that the rollup changes
  or that decide which transactions and blocks the node has.
- Of the chain manager: fast sync, the ancient store, future blocks and the
  caches. Of `SyncService`: `applyBlock`, queue elements above `DeSeqBlock` and
  L1 timestamps. A late answer in the channels of `applyTransactionToTip`
  (`sync_service.go:1454`) needs peers below `DeSeqBlock`, which no model has.
- `MVM_Verifier` and `MVM_CanonicalTransaction`, which meet the rest only through
  the deletion of state batches and the append of transaction batches.
- The loops of the batch submitter and the data transport layer; only the form of
  their batches and entries is in `CanonicalTransactionChain`.
- The manager's functions of the transaction chain (`pushQueue`, `setQueue`,
  `setBatch`, `deleteBatchElementsAfterInclusiveByChainId`, ...), which write
  arbitrary values and promise nothing.
- Trie and RLP libraries (a proof is membership), fees and gas prices
  (arithmetic), configuration contracts (one setter each), the tooling, and
  `go/batch-submitter`, which is a skeleton.
