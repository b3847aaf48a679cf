---------------------------- MODULE SequencerSet ----------------------------
(***************************************************************************)
(* Several sequencer nodes above DeSeqBlock, which take turns by the       *)
(* epochs of the sequencer set contract on L2.  Each node asks its         *)
(* SeqAdapter (rollup/rollup_adapter.go), which caches an epoch, who makes *)
(* the next block; its SyncService signs the transactions it accepts, its  *)
(* worker makes blocks of them, and eth/handler.go and core/seq_set.go     *)
(* decide which blocks of the other nodes it imports.                      *)
(*                                                                         *)
(* A transaction is a constant of one of the kinds                         *)
(*   "tx"      an ordinary one, which goes through the pool                *)
(*   "commit"  commitEpoch: the next epoch, through the pool too           *)
(*   "fund"    a transfer that refills the account of the MPC              *)
(*   "oracle"  one of the gas price oracle's owner, mined at once          *)
(*   "respan"  recommitEpoch: another sequencer from a start block on,     *)
(*             mined at once by that sequencer                             *)
(* A block is the list of its transactions, each with the signature of the *)
(* sequencer that accepted it, and, for the properties, whether its maker  *)
(* was sure of its turn: it was told so on this very parent, and it knew   *)
(* no other branch.  The epochs are a function of the chain.               *)
(* The contract is not part of the repository: Epochs is what the code     *)
(* expects of it.  Blocks of L1 queue transactions, which are not signed,  *)
(* are left out.                                                           *)
(***************************************************************************)
EXTENDS Naturals, FiniteSets, Sequences, SequencesExt

CONSTANTS
    Nodes,
    Txs,            \* records [id, kind, signer, start, end]
    Submissions,    \* pairs <<node, transaction>>: who submits what where, at most once
    FirstEpoch,     \* the epoch of the genesis state, [signer, start, end]
    MaxHeight,      \* bound on the chains
    MaxSubmissions, \* bound on the submissions made
    MaxRestarts,    \* bound on the restarts of all nodes
    MaxBusy,        \* bound on the nodes that have a block in the works at the same time
    None

ASSUME SequencerSetAssumption ==
    /\ None \notin Nodes
    /\ \A t \in Txs : t.kind \in {"tx", "commit", "fund", "oracle", "respan"}
    /\ Submissions \subseteq Nodes \X Txs
    /\ {MaxHeight, MaxSubmissions, MaxRestarts, MaxBusy} \subseteq Nat

VARIABLES
    chain,       \* the canonical chain of each node above the genesis
    stored,      \* the blocks it has, each as the chain that ends in it
    cache,       \* SeqAdapter.cachedSeqEpoch: an epoch, or None when Status is false
    respans,     \* its RespanArr
    epochCache,  \* core's epochCache: epochs [number, signer], the latest first
    latest,      \* SyncService's LatestIndex, as a block number
    startHeight, \* its startSeqHeight
    pool,        \* the pool's transactions, signed
    poolHead,    \* the chain that the pool was last reset to
    work,        \* newWorkCh: [head], the chain newWorkLoop asked on, None from startCh; or None
    task,        \* rollupCh: [x, head] to be mined at once, or None
    locked,      \* does its submitter still hold applyLock?
    sealing,     \* the block in taskCh or resultCh, as the chain that ends in it, or None
    result,      \* the one that resultLoop is about to write, or None
    incoming,    \* a peer's blocks [blocks, first, last, head] that wait for chainmu, or None
    queue,       \* syncQueueFromOthers: inserted blocks [number, txs] to handle
    submitted,   \* the members of Submissions that have been made
    restarts     \* restarts so far

nodeVars  == <<cache, respans, epochCache, latest, startHeight>>
poolVars  == <<pool, poolHead>>
chainVars == <<chain, stored>>
mineVars  == <<work, task, locked, sealing, result>>
peerVars  == <<incoming, queue>>
boundVars == <<submitted, restarts>>

vars == <<nodeVars, poolVars, chainVars, mineVars, peerVars, boundVars>>
-----------------------------------------------------------------------------
(* The sequencer set contract, external. *)

Direct == {"oracle", "respan"}

\* The epochs after a transaction of block i.  recommitEpoch cuts the last one.
Commit(es, i, t) ==
    LET last == Last(es)
    IN CASE t.kind = "commit" ->
              Append(es, [signer |-> t.signer, start |-> last.end + 1, end |-> t.end])
         [] t.kind = "respan" /\ t.start > last.start /\ t.start > i ->
              Append([es EXCEPT ![Len(es)].end = t.start - 1],
                     [signer |-> t.signer, start |-> t.start, end |-> t.end])
         [] OTHER -> es

Epochs(c) ==
    FoldLeftDomain(LAMBDA es, i : FoldLeft(LAMBDA fs, x : Commit(fs, i, x.tx), es, c[i].txs),
                   <<FirstEpoch>>, c)

\* GetEpochByBlockNumber: the epoch of a block, or None: "incorrect epoch number".
EpochIn(es, number) ==
    LET of == {i \in DOMAIN es : es[i].start <= number /\ number <= es[i].end}
    IN IF of = {} THEN None ELSE es[Max(of)]

GetEpochByBlockNumber(c, number) == EpochIn(Epochs(c), number)
-----------------------------------------------------------------------------
(* SeqAdapter.  An answer is the sequencer, or None for an error, with the *)
(* cache and the RespanArr that the call leaves.                           *)

insertRespanNumber(arr, number) ==
    SelectSeq(arr, LAMBDA m : m < number) \o <<number>> \o SelectSeq(arr, LAMBDA m : m >= number)

Answer(epoch, arr) ==
    [seq |-> IF epoch = None THEN None ELSE epoch.signer, cache |-> epoch, respans |-> arr]

\* Mutant: an epoch stays cached after its last block.
getSequencer_KeepsEpoch(height, es, a, expect) ==
    LET passed == a.respans # <<>> /\ height >= Head(a.respans)
    IN IF passed THEN Answer(EpochIn(es, expect), Tail(a.respans))
       ELSE Answer(IF a.cache # None THEN a.cache ELSE EpochIn(es, expect), a.respans)

\* height is the current block's number and es the epochs in its state.
getSequencer(height, es, a, expect) ==
    LET fits   == a.cache # None /\ a.cache.start <= expect /\ expect <= a.cache.end
        paused == a.respans # <<>> /\ expect > Head(a.respans) /\ height < Head(a.respans)
        passed == a.respans # <<>> /\ height >= Head(a.respans)
    IN IF paused
       THEN [seq |-> None, cache |-> IF fits THEN a.cache ELSE None, respans |-> a.respans]
       ELSE IF passed THEN Answer(EpochIn(es, expect), Tail(a.respans))
       ELSE Answer(IF fits THEN a.cache ELSE EpochIn(es, expect), a.respans)

\* A recommitEpoch is for the sequencer it names, whether or not it will succeed.  A transfer
\* to the MPC's account is for the last epoch's sequencer when the block is in no epoch.
TxSequencer(height, es, a, t, expect) ==
    IF t # None /\ t.kind = "respan"
    THEN [seq |-> t.signer, cache |-> a.cache, respans |-> insertRespanNumber(a.respans, t.start)]
    ELSE LET r == getSequencer(height, es, a, expect) IN
         IF t # None /\ t.kind = "fund" /\ r.seq = None /\ EpochIn(es, expect) = None
         THEN [r EXCEPT !.seq = Last(es).signer]
         ELSE r

GetTxSequencer(c, a, t, expect) == TxSequencer(Len(c), Epochs(c), a, t, expect)

Adapter(n) == [cache |-> cache[n], respans |-> respans[n]]

Remember(n, r) ==
    /\ cache' = [cache EXCEPT ![n] = r.cache]
    /\ respans' = [respans EXCEPT ![n] = r.respans]
-----------------------------------------------------------------------------
TxsOf(c) == {x.tx : x \in UNION {ToSet(c[i].txs) : i \in DOMAIN c}}

Init ==
    /\ chain = [n \in Nodes |-> <<>>]
    /\ stored = [n \in Nodes |-> {<<>>}]
    /\ cache = [n \in Nodes |-> None] /\ respans = [n \in Nodes |-> <<>>]
    /\ epochCache = [n \in Nodes |-> <<>>]
    /\ latest = [n \in Nodes |-> 0] /\ startHeight = [n \in Nodes |-> 0]
    /\ pool = [n \in Nodes |-> {}] /\ poolHead = [n \in Nodes |-> <<>>]
    /\ work = [n \in Nodes |-> None]
    /\ task = [n \in Nodes |-> None] /\ locked = [n \in Nodes |-> FALSE]
    /\ sealing = [n \in Nodes |-> None] /\ result = [n \in Nodes |-> None]
    /\ incoming = [n \in Nodes |-> None] /\ queue = [n \in Nodes |-> <<>>]
    /\ submitted = {} /\ restarts = 0

(***************************************************************************)
(* ValidateAndApplySequencerTransaction, applyTransactionToPool: a node    *)
(* that is the sequencer of the next block signs the transaction and gives *)
(* it to the pool or, holding applyLock, to the worker.  The pool compares *)
(* nonces with the chain it knows.                                         *)
(***************************************************************************)
Submit(n, t) ==
    LET x      == [tx |-> t, sign |-> n]
        number == Len(chain[n]) + 1
    IN \E r \in {GetTxSequencer(chain[n], Adapter(n), t, number)} :
       /\ ~locked[n] /\ (t.kind \in Direct => task[n] = None)
       /\ Cardinality(submitted) < MaxSubmissions
       /\ <<n, t>> \notin submitted /\ submitted' = submitted \cup {<<n, t>>}
       /\ t \notin TxsOf(poolHead[n]) /\ \A y \in pool[n] : y.tx # t
       /\ Remember(n, r)
       /\ IF r.seq # n THEN UNCHANGED <<latest, pool, task, locked>>
          ELSE /\ latest' = [latest EXCEPT ![n] = number]
               /\ IF t.kind \in Direct
                  THEN /\ task' = [task EXCEPT ![n] = [x |-> x, head |-> chain[n]]]
                       /\ locked' = [locked EXCEPT ![n] = TRUE]
                       /\ UNCHANGED pool
                  ELSE /\ pool' = [pool EXCEPT ![n] = @ \cup {x}]
                       /\ UNCHANGED <<task, locked>>
       /\ UNCHANGED <<epochCache, startHeight, poolHead, chainVars, work, sealing, result, peerVars, restarts>>

IsAboveStartHeight(n, number) == number > startHeight[n]

\* newWorkLoop's timer: is this node to make the next block?
TimerCheck(n) ==
    LET number == Len(chain[n]) + 1 IN
    /\ work[n] = None /\ pool[n] # {} /\ Len(chain[n]) < MaxHeight
    /\ \E r \in {GetTxSequencer(chain[n], Adapter(n), None, number)} :
          /\ Remember(n, r)
          /\ work' = [work EXCEPT ![n] =
                        IF r.seq = n /\ IsAboveStartHeight(n, number) THEN [head |-> chain[n]]
                        ELSE None]
    /\ UNCHANGED <<epochCache, latest, startHeight, poolVars, chainVars, task, locked, sealing, result,
                   peerVars, boundVars>>

\* waitingSequencerTip, which the sequencer loop calls: it may only load the cache.
WaitingSequencerTip(n) ==
    /\ ~locked[n] /\ startHeight[n] # 0 /\ IsAboveStartHeight(n, latest[n] + 1)
    /\ \E r \in {GetTxSequencer(chain[n], Adapter(n), None, latest[n] + 1)} : Remember(n, r)
    /\ UNCHANGED <<epochCache, latest, startHeight, poolVars, chainVars, mineVars, peerVars, boundVars>>
-----------------------------------------------------------------------------
\* A bound: how many nodes make or insert blocks at the same time.
MayStart(n) ==
    Cardinality({m \in Nodes \ {n} : <<sealing[m], result[m], incoming[m]>> # <<None, None, None>>})
        < MaxBusy

(***************************************************************************)
(* The worker.  mainLoop builds a block on the head of the moment and      *)
(* writes the index; taskLoop seals it, giving up the one before it;       *)
(* resultLoop looks for a duplicate, waits for chainmu and writes it.      *)
(***************************************************************************)
IsSure(n, asked) ==
    asked = chain[n] /\ \A c \in stored[n] : IsPrefix(c, chain[n])

Build(n, txs, sure) ==
    /\ Len(chain[n]) < MaxHeight /\ MayStart(n)
    /\ latest' = [latest EXCEPT ![n] = Len(chain[n]) + 1]
    /\ sealing' = [sealing EXCEPT ![n] = Append(chain[n], [txs |-> txs, sure |-> sure])]

\* handleErrInTask, or an event of a new head: a waiting submitter goes on.
Release(n) == locked' = [locked EXCEPT ![n] = FALSE]

\* rollupCh, commitNewTx: the transaction alone in a block, if the index it was given is that of
\* the next block and it can be executed.
BuildTask(n) ==
    /\ task[n] # None
    /\ task' = [task EXCEPT ![n] = None]
    /\ LET x == task[n].x IN
       IF Len(task[n].head) # Len(chain[n]) \/ x.tx \in TxsOf(chain[n])
       THEN Release(n) /\ UNCHANGED <<latest, sealing>>
       ELSE /\ Build(n, <<x>>, x.tx.kind # "respan" /\ IsSure(n, task[n].head))
            /\ UNCHANGED locked
    /\ UNCHANGED <<cache, respans, epochCache, startHeight, poolVars, chainVars, work, result, peerVars,
                   boundVars>>

\* Mutant: what the chain has mined is taken again while the pool still has it.
Executable_Known(n) == pool[n]

\* commitTransactions passes over a transaction whose nonce is too low.
Executable(n) == {x \in pool[n] : x.tx \notin TxsOf(chain[n])}

\* newWorkCh, commitNewWork: the transactions of the pool, in the order of their prices.  Nothing
\* is asked again.
BuildPool(n) ==
    /\ work[n] # None /\ work' = [work EXCEPT ![n] = None]
    /\ IF Executable(n) = {} THEN UNCHANGED <<latest, sealing>>
       ELSE \E txs \in SetToSeqs(Executable(n)) : Build(n, txs, IsSure(n, work[n].head))
    /\ UNCHANGED <<cache, respans, epochCache, startHeight, poolVars, chainVars, task, locked, result,
                   peerVars, boundVars>>

\* A block of that number is in the chain.
IsDuplicate(n, c) == c \in stored[n] \/ Len(c) <= Len(chain[n])

\* resultLoop up to the wait for chainmu.
TakeResult(n) ==
    /\ sealing[n] # None /\ result[n] = None
    /\ sealing' = [sealing EXCEPT ![n] = None]
    /\ IF IsDuplicate(n, sealing[n]) THEN Release(n) /\ UNCHANGED result
       ELSE result' = [result EXCEPT ![n] = sealing[n]] /\ UNCHANGED locked
    /\ UNCHANGED <<nodeVars, poolVars, chainVars, work, task, peerVars, boundVars>>

\* writeBlockWithState: a longer chain becomes the canonical one, and either of two as long.
SetHead(n, c) ==
    \/ Len(c) >= Len(chain[n]) /\ chain' = [chain EXCEPT ![n] = c] /\ Release(n)
    \/ Len(c) <= Len(chain[n]) /\ UNCHANGED <<chain, locked>>

WriteResult(n) ==
    /\ result[n] # None /\ result' = [result EXCEPT ![n] = None]
    /\ stored' = [stored EXCEPT ![n] = @ \cup {result[n]}]
    /\ SetHead(n, result[n])
    /\ UNCHANGED <<nodeVars, poolVars, work, task, sealing, peerVars, boundVars>>

\* The pool's reset, some time after the event of a new head: it drops what the chain has mined
\* and takes back what the chain has left out.
ResetPool(n) ==
    LET left == UNION {ToSet(poolHead[n][i].txs) : i \in DOMAIN poolHead[n]} IN
    /\ poolHead[n] # chain[n] /\ poolHead' = [poolHead EXCEPT ![n] = chain[n]]
    /\ pool' = [pool EXCEPT ![n] = {x \in @ \cup left : x.tx \notin TxsOf(chain[n])}]
    /\ UNCHANGED <<nodeVars, chainVars, mineVars, peerVars, boundVars>>
-----------------------------------------------------------------------------
(* Blocks of a peer: inserter, insertChain, updateTxQueue. *)

IsRespan(b) == Len(b.txs) = 1 /\ b.txs[1].tx.kind = "respan"

\* Mutant: blocks of the node's epoch are refused from the one after its head on.
blocksBeforeInsert_AboveHead(n, c, first, last) ==
    IsAboveStartHeight(n, Len(chain[n])) =>
        \E epoch \in {GetEpochByBlockNumber(chain[n], Len(chain[n]))} \ {None} :
            LET own == {i \in first..last : Len(chain[n]) < i /\ i <= epoch.end}
            IN epoch.signer = n /\ own # {} => IsRespan(c[Min(own)])

\* blocksBeforeInsert, for blocks first..last of c: a node in an epoch of its own takes no
\* block of that epoch, unless recommitEpoch comes first.
blocksBeforeInsert(n, c, first, last) ==
    IsAboveStartHeight(n, Len(chain[n])) =>
        \E epoch \in {GetEpochByBlockNumber(chain[n], Len(chain[n]))} \ {None} :
            LET own == {i \in first..last : epoch.start <= i /\ i <= epoch.end}
            IN epoch.signer = n /\ own # {} => IsRespan(c[Min(own)])

\* updateEpochCache with the epochs of the parent's state.
updateEpochCache(ec, es) ==
    LET entry(i) == [number |-> i, signer |-> es[i].signer]
        last     == entry(Len(es))
    IN IF ec = <<>> THEN [i \in DOMAIN es |-> entry(Len(es) + 1 - i)]
       ELSE IF Head(ec).number = last.number THEN <<last>> \o Tail(ec)
       ELSE <<last>> \o ec

\* processSeqSetBlock for blocks first..last of c: [ok, good, ec], where good is the last block
\* before the first refusal.
processSeqSetBlock(n, c, first, last) ==
    LET signer(i) == c[i].txs[1].sign
        verdict(ok, r, i, ec) == [ok |-> ok, good |-> IF ok THEN i ELSE r.good, ec |-> ec]
        check(r, i, ec) == verdict(\E e \in ToSet(ec) : e.signer = signer(i), r, i, ec)
        one(r, i) ==
          IF ~r.ok THEN r
          ELSE IF IsRespan(c[i]) THEN verdict(signer(i) = c[i].txs[1].tx.signer, r, i, r.ec)
          ELSE check(r, i, updateEpochCache(r.ec, Epochs(SubSeq(c, 1, i - 1))))
    IN FoldLeft(one, [ok |-> TRUE, good |-> first - 1, ec |-> epochCache[n]],
                [i \in 1..(last - first + 1) |-> first + i - 1])

\* Node n receives blocks of m's branch that it does not have, and checks them.  head is, for
\* the properties, the chain it was checked with, the empty one when the check was not enabled.
Receive(n, m) ==
    LET first == Max({i \in 0..Len(chain[m]) : SubSeq(chain[m], 1, i) \in stored[n]}) + 1 IN
    /\ incoming[n] = None /\ MayStart(n)
    /\ \E last \in first..Len(chain[m]) :
          /\ blocksBeforeInsert(n, chain[m], first, last)
          /\ incoming' = [incoming EXCEPT ![n] =
                [blocks |-> SubSeq(chain[m], 1, last), first |-> first, last |-> last,
                 head |-> IF IsAboveStartHeight(n, Len(chain[n])) THEN chain[n] ELSE <<>>]]
    /\ UNCHANGED <<nodeVars, poolVars, chainVars, mineVars, queue, boundVars>>

\* InsertChainWithFunc, which has waited for chainmu, and updateTxQueue.  The blocks before a
\* refused one stay; only a batch without an error is queued.
Insert(n) ==
    /\ incoming[n] # None /\ incoming' = [incoming EXCEPT ![n] = None]
    /\ \E r \in {processSeqSetBlock(n, incoming[n].blocks, incoming[n].first, incoming[n].last)} :
       LET b         == incoming[n]
           branch(i) == SubSeq(b.blocks, 1, i)
           number(i) == b.first + i - 1
       IN /\ epochCache' = [epochCache EXCEPT ![n] = r.ec]
          /\ stored' = [stored EXCEPT ![n] = @ \cup {branch(i) : i \in b.first..r.good}]
          /\ IF r.good < b.first THEN UNCHANGED <<chain, locked>> ELSE SetHead(n, branch(r.good))
          /\ queue' = [queue EXCEPT ![n] =
                IF ~r.ok THEN @
                ELSE @ \o [i \in 1..(b.last - b.first + 1) |->
                             [number |-> number(i), txs |-> b.blocks[number(i)].txs]]]
    /\ UNCHANGED <<cache, respans, latest, startHeight, poolVars, work, task, sealing, result, boundVars>>

\* applyIndexedTransaction, not local, for one transaction of a block.
applyIndexed(c, a, number, t) ==
    LET apply(r) == [cache   |-> IF t.kind = "respan" THEN None ELSE r.cache,
                     respans |-> r.respans,
                     latest  |-> IF r.seq = None THEN a.latest ELSE number]
    IN IF number < a.latest THEN a ELSE apply(GetTxSequencer(c, a, t, Len(c)))

HandleSyncFromOther(n) ==
    /\ queue[n] # <<>> /\ ~locked[n]
    /\ queue' = [queue EXCEPT ![n] = Tail(@)]
    /\ LET b == Head(queue[n]) IN
       \E a \in {FoldLeft(LAMBDA s, x : applyIndexed(chain[n], s, b.number, x.tx),
                          [cache |-> cache[n], respans |-> respans[n], latest |-> latest[n]],
                          b.txs)} :
          Remember(n, a) /\ latest' = [latest EXCEPT ![n] = a.latest]
    /\ UNCHANGED <<epochCache, startHeight, poolVars, chainVars, mineVars, incoming, boundVars>>

\* Mutant: the last block is not on disk.
Restart_LosesHead(n) ==
    /\ restarts < MaxRestarts /\ restarts' = restarts + 1
    /\ chain' = [chain EXCEPT ![n] = IF @ = <<>> THEN @ ELSE Front(@)]
    /\ cache' = [cache EXCEPT ![n] = None] /\ respans' = [respans EXCEPT ![n] = <<>>]
    /\ epochCache' = [epochCache EXCEPT ![n] = <<>>]
    /\ latest' = [latest EXCEPT ![n] = Min({@, Len(chain'[n])})]
    /\ \E m \in Nodes : startHeight' = [startHeight EXCEPT ![n] = Len(chain'[m])]
    /\ pool' = [pool EXCEPT ![n] = {x \in @ : x.tx \notin TxsOf(chain[n])}]
    /\ poolHead' = [poolHead EXCEPT ![n] = chain'[n]]
    /\ work' = [work EXCEPT ![n] = [head |-> None]]
    /\ task' = [task EXCEPT ![n] = None] /\ Release(n)
    /\ sealing' = [sealing EXCEPT ![n] = None] /\ result' = [result EXCEPT ![n] = None]
    /\ incoming' = [incoming EXCEPT ![n] = None] /\ queue' = [queue EXCEPT ![n] = <<>>]
    /\ stored' = [stored EXCEPT ![n] = (@ \ {chain[n]}) \cup {<<>>}]
    /\ UNCHANGED submitted

\* Stop and start, also in the middle of a block.  The chain, the pool's journal with the
\* signatures and LatestIndex are on disk, the rest is lost.  A LatestIndex whose block is missing
\* goes back to the head (initializeLatestL1); startSeqHeight is the head's number or that of
\* another node.  The miner's start asks for a block at once (startCh).
Restart(n) ==
    /\ restarts < MaxRestarts /\ restarts' = restarts + 1
    /\ cache' = [cache EXCEPT ![n] = None] /\ respans' = [respans EXCEPT ![n] = <<>>]
    /\ epochCache' = [epochCache EXCEPT ![n] = <<>>]
    /\ latest' = [latest EXCEPT ![n] = Min({@, Len(chain[n])})]
    /\ \E m \in Nodes : startHeight' = [startHeight EXCEPT ![n] = Len(chain[m])]
    /\ pool' = [pool EXCEPT ![n] = {x \in @ : x.tx \notin TxsOf(chain[n])}]
    /\ poolHead' = [poolHead EXCEPT ![n] = chain[n]]
    /\ work' = [work EXCEPT ![n] = [head |-> None]]
    /\ task' = [task EXCEPT ![n] = None] /\ Release(n)
    /\ sealing' = [sealing EXCEPT ![n] = None] /\ result' = [result EXCEPT ![n] = None]
    /\ incoming' = [incoming EXCEPT ![n] = None] /\ queue' = [queue EXCEPT ![n] = <<>>]
    /\ UNCHANGED <<chainVars, submitted>>

Next ==
  \E n \in Nodes :
    \/ \E t \in Txs : <<n, t>> \in Submissions /\ Submit(n, t)
    \/ TimerCheck(n) \/ WaitingSequencerTip(n)
    \/ BuildTask(n) \/ BuildPool(n) \/ TakeResult(n) \/ WriteResult(n)
    \/ ResetPool(n)
    \/ \E m \in Nodes \ {n} : Receive(n, m)
    \/ Insert(n)
    \/ HandleSyncFromOther(n)
    \/ Restart(n)

Spec == Init /\ [][Next]_vars
-----------------------------------------------------------------------------
(* Properties. *)

Epoch == [signer : Nodes, start : Nat, end : Nat]
SignedTxs == [tx : Txs, sign : Nodes]

\* Types: RespanArr is sorted, as the binary search of insertRespanNumber needs it, and no chain
\* has mined a transaction twice, although the pool learns of a new head only later.
TypeOK ==
    \A n \in Nodes :
        /\ cache[n] \in Epoch \cup {None}
        /\ \A i, j \in DOMAIN respans[n] : i < j => respans[n][i] <= respans[n][j]
        /\ pool[n] \subseteq SignedTxs
        /\ task[n] # None => task[n].x \in SignedTxs /\ task[n].head \in stored[n]
        /\ {poolHead[n], chain[n]} \subseteq stored[n] /\ locked[n] \in BOOLEAN
        /\ \A i, j \in DOMAIN chain[n] :
               i # j => TxsOf(<<chain[n][i]>>) \cap TxsOf(<<chain[n][j]>>) = {}

Common(c, d) == Max({i \in 0..Min({Len(c), Len(d)}) : SubSeq(c, 1, i) = SubSeq(d, 1, i)})

\* The makers of all blocks up to i were sure of their turn.
InTurn(c, i) == \A j \in 1..i : c[j].sure

\* As long as the makers of a chain's blocks were told on the parent of each that it is their turn,
\* and knew no other branch, the blocks are signed by the sequencer of their epoch, as the contract
\* has it in the state before them: the cached epochs give the contract's answer.
OrderlyChains ==
    \A n \in Nodes : \A i \in DOMAIN chain[n] :
        InTurn(chain[n], i) =>
            LET epoch == GetEpochByBlockNumber(SubSeq(chain[n], 1, i - 1), i)
            IN epoch # None /\ \A x \in ToSet(chain[n][i].txs) : x.sign = epoch.signer

\* Two nodes' chains fork only above or at a block whose maker was not sure of its turn: a
\* recommitEpoch, the block of a start, or one built on another head than was asked about.  A
\* sequencer never gives away two blocks of one number, also over a restart.
ForksNeedUnsure ==
    \A n, m \in Nodes :
        LET i == Common(chain[n], chain[m]) + 1
        IN i <= Len(chain[n]) /\ i <= Len(chain[m]) => ~InTurn(chain[n], i) \/ ~InTurn(chain[m], i)

\* The first block that node n drops in a step, when it is its own and of an epoch of its own; or 0.
DroppedOwn(n) ==
    LET epoch == GetEpochByBlockNumber(chain[n], Len(chain[n]))
        i     == Common(chain[n], chain'[n]) + 1
    IN IF /\ i <= Len(chain[n]) /\ Head(chain[n][i].txs).sign = n
          /\ epoch # None /\ epoch.signer = n /\ epoch.start <= i
       THEN i ELSE 0

\* The branch of a peer's blocks b has a recommitEpoch from block i on.
BringsRespan(b, i) == \E j \in i..b.last : IsRespan(b.blocks[j])

\* A node that is the sequencer of its head's epoch drops a block of its own of that epoch for a
\* peer's branch only if that brings a recommitEpoch, or when it wrote the block after
\* blocksBeforeInsert had passed them, or when the check was not enabled.
OwnEpochIsKept ==
    [][\A n \in Nodes : incoming'[n] # incoming[n] /\ restarts' = restarts =>
         \A i \in {DroppedOwn(n)} \ {0} :
             BringsRespan(incoming[n], i) \/ i > Common(chain[n], incoming[n].head)]_vars

\* The same without the last two cases.  It does not hold: the check comes before the wait for
\* chainmu, see README.
OwnBlocksAreKept ==
    [][\A n \in Nodes : incoming'[n] # incoming[n] /\ restarts' = restarts =>
         \A i \in {DroppedOwn(n)} \ {0} : BringsRespan(incoming[n], i)]_vars

\* When every block has been handled and the chains are the same, a node that asks for the
\* sequencer of the next block gets the contract's answer.  The cache of a node that has
\* mined a recommitEpoch itself does not give it: see README.
Settled ==
    \A n \in Nodes : queue[n] = <<>> /\ ~locked[n] /\ incoming[n] = None
                     /\ <<task[n], work[n], sealing[n], result[n]>> = <<None, None, None, None>>

DecisionIsContract ==
    Settled /\ (\A n, m \in Nodes : chain[n] = chain[m]) =>
        \A n \in Nodes :
            LET c     == chain[n]
                epoch == GetEpochByBlockNumber(c, Len(c) + 1)
            IN GetTxSequencer(c, Adapter(n), None, Len(c) + 1).seq =
                 IF epoch = None THEN None ELSE epoch.signer
=============================================================================
