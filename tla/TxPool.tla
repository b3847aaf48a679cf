------------------------------- MODULE TxPool -------------------------------
(***************************************************************************)
(* The transaction pool of l2geth (core/tx_pool.go, tx_list.go,            *)
(* tx_noncer.go, tx_journal.go) of a node above DeSeqBlock, where the pool *)
(* feeds the sequencer.  Transactions enter the queue, a reorganisation    *)
(* that runs in the background moves what has become executable to         *)
(* pending, and new heads of the chain, evictions and limits take them out *)
(* again.  A submission, its request for a reorganisation and the run are  *)
(* three steps, so that heads and submissions interleave with them.        *)
(*                                                                         *)
(* Every transaction uses one unit of gas and sends no value: its cost is  *)
(* its price.  The price heap, which deletes lazily, is the order of the   *)
(* transactions in `all`, and the cost caps of a list, which only save     *)
(* work, are left out.  A chain is the sequence of its transactions.       *)
(***************************************************************************)
EXTENDS Naturals, Sequences, SequencesExt

CONSTANTS
    Accounts,
    Txs,            \* [from, nonce, price]: the transactions that exist
    Submissions,    \* [tx, local]: the calls of AddLocal and AddRemote there may be
    Prices,         \* the prices that SetGasPrice may be called with
    Funds,          \* what each account owns in the genesis state
    PriceBump,      \* per cent that a replacement has to pay more
    AccountSlots, GlobalSlots, AccountQueue, GlobalQueue,   \* TxPoolConfig
    JournalBatch,   \* 1025 in the code: how many transactions load adds at a time
    DeepReorg,      \* 64 in the code: resets over more blocks reinject nothing
    MaxBlocks,      \* bound on the length of the chain
    MaxReorg,       \* bound on the blocks that a new head takes back
    MaxHeads,       \* bound on the new heads
    MaxRestarts,    \* bound on the restarts
    MaxCalls,       \* bound on the addTxs calls between their lock and their request
    None

ASSUME TxPoolAssumption ==
    /\ \A t \in Txs : t.from \in Accounts /\ t.nonce \in Nat /\ t.price \in Nat
    /\ Submissions \subseteq [tx : Txs, local : BOOLEAN]
    /\ Prices \subseteq Nat
    /\ Funds \in [Accounts -> Nat]
    /\ {PriceBump, AccountSlots, GlobalSlots, AccountQueue, GlobalQueue, JournalBatch}
          \subseteq Nat \ {0}
    /\ {DeepReorg, MaxBlocks, MaxReorg, MaxHeads, MaxRestarts, MaxCalls} \subseteq Nat

VARIABLES
    chain,      \* the canonical chain
    head,       \* loop: the head of the last reset request
    pool,       \* type TxPool, see Pool below
    calls,      \* addTxs: the dirty accounts of requests not yet made
    reset,      \* scheduleReorgLoop: the heads of the next reset, or None
    dirty,      \* scheduleReorgLoop: the accounts to promote, or None
    announced,  \* transactions of the pool that NewTxsEvent has told the miner of
    journaled,  \* transactions of the pool whose account was local when they came
    submitted,  \* the transactions that have been submitted, each of them once
    heads, restarts    \* how many of each there were

counters == <<journaled, submitted, heads, restarts>>
vars == <<chain, head, pool, calls, reset, dirty, announced, counters>>
-----------------------------------------------------------------------------
(* The state after a chain. *)

Of(S, a) == {t \in S : t.from = a}

NonceAt(c, a) == Cardinality(Of({[from |-> c[i].from, at |-> i] : i \in DOMAIN c}, a))

BalanceAt(c, a) ==
    Funds[a] - MapThenSumSet(LAMBDA i : IF c[i].from = a THEN c[i].price ELSE 0, DOMAIN c)

Executable(c, t) == t.nonce = NonceAt(c, t.from) /\ t.price <= BalanceAt(c, t.from)

\* The blocks that the consensus accepts, one transaction each.
Chains == {c \in UNION {[1..n -> Txs] : n \in 0..MaxBlocks} :
             \A i \in DOMAIN c : Executable(SubSeq(c, 1, i - 1), c[i])}
-----------------------------------------------------------------------------
(* txList: the transactions of one account by nonce. *)

Same(S, t) == {u \in S : u.from = t.from /\ u.nonce = t.nonce}

\* Add accepts t over the ones of its nonce.
Accepts(S, t) == \A u \in Same(S, t) :
    u.price < t.price /\ (u.price * (100 + PriceBump)) \div 100 <= t.price

ByNonce(S) == SetToSortSeq(S, LAMBDA t, u : t.nonce < u.nonce)

\* Ready: the run of nonces from the lowest one, if that is not above start.
Ready(L, start) ==
    {t \in L : /\ \E u \in L : u.nonce <= start
               /\ \A n \in 0..t.nonce : \/ \E u \in L : u.nonce = n
                                        \/ \A u \in L : u.nonce > n}

\* A variant that keeps one more.
Beyond_OneMore(L, n) == {t \in L : Cardinality({u \in L : u.nonce < t.nonce}) > n}

\* Cap: the transactions beyond the first n.
Beyond(L, n) == {t \in L : Cardinality({u \in L : u.nonce < t.nonce}) >= n}

\* Filter: too costly ones, and what follows the first of them.
Costly(L, balance) == {t \in L : t.price > balance}

\* A variant for lists that are not strict.
After_NotStrict(L, S) == {}

After(L, S) == {t \in L \ S : \E u \in S : u.nonce < t.nonce}
-----------------------------------------------------------------------------
(* The pool, and its methods as functions from pool to pool. *)

Pool == [root : Chains,                 \* the chain of currentState
         nonces : [Accounts -> Nat],    \* pendingNonces
         locals : SUBSET Accounts,
         pending : SUBSET Txs, queue : SUBSET Txs, all : SUBSET Txs,
         beats : Seq(Accounts),         \* the accounts by their last heartbeat
         events : SUBSET Txs,           \* scheduleReorgLoop: queuedEvents
         journal : Seq(Txs)]            \* the journal file

NewPool(c, journal) ==
    [root |-> c, nonces |-> [a \in Accounts |-> NonceAt(c, a)], locals |-> {},
     pending |-> {}, queue |-> {}, all |-> {}, beats |-> <<>>, events |-> {},
     journal |-> journal]

Beat(beats, a) == Append(Remove(beats, a), a)

\* A variant that leaves the replaced transaction in `all`.
enqueueTx_KeepsOld(p, t) ==
    LET old == Same(p.queue, t) IN
    IF Accepts(p.queue, t)
    THEN [p EXCEPT !.queue = (@ \ old) \cup {t}, !.all = @ \cup {t},
                   !.beats = IF Contains(@, t.from) THEN @ ELSE Append(@, t.from)]
    ELSE p

enqueueTx(p, t) ==
    LET old == Same(p.queue, t) IN
    IF Accepts(p.queue, t)
    THEN [p EXCEPT !.queue = (@ \ old) \cup {t}, !.all = (@ \ old) \cup {t},
                   !.beats = IF Contains(@, t.from) THEN @ ELSE Append(@, t.from)]
    ELSE p

EnqueueAll(p, S) == FoldSet(LAMBDA t, q : enqueueTx(q, t), p, S)

promoteTx(p, t) ==
    LET old == Same(p.pending, t) IN
    IF Accepts(p.pending, t)
    THEN [p EXCEPT !.pending = (@ \ old) \cup {t}, !.all = (@ \ old) \cup {t},
                   !.beats = Beat(@, t.from), !.nonces[t.from] = t.nonce + 1]
    ELSE [p EXCEPT !.all = @ \ {t}]

\* The lists find a transaction by its nonce, `all` by its hash.
removeTx(p, t) ==
    LET hit   == Same(p.pending, t)
        later == After(Of(p.pending, t.from), hit)
        left  == p.pending \ (hit \cup later)
        p1    == [p EXCEPT !.all = @ \ {t}, !.pending = left,
                           !.beats = IF Of(left, t.from) = {} THEN Remove(@, t.from) ELSE @,
                           !.nonces[t.from] = IF @ < t.nonce THEN @ ELSE t.nonce]
    IN CASE t \notin p.all -> p
         [] t \in p.all /\ hit # {} -> EnqueueAll(p1, later)
         [] OTHER -> [p EXCEPT !.all = @ \ {t}, !.queue = @ \ Same(@, t)]

RemoveTxs(p, s) == FoldLeft(removeTx, p, s)

Take(s, n) == SubSeq(s, 1, IF n < Len(s) THEN n ELSE Len(s))

\* A variant that forgets about local accounts.
Worst_WithLocals(p) ==
    SetToSortSeq(p.all,
                 LAMBDA t, u : t.price < u.price \/ (t.price = u.price /\ t.nonce > u.nonce))

\* priced: the transactions of remote accounts, the worst first.
Worst(p) ==
    SetToSortSeq({t \in p.all : t.from \notin p.locals},
                 LAMBDA t, u : t.price < u.price \/ (t.price = u.price /\ t.nonce > u.nonce))

Underpriced(p, t) == t.from \notin p.locals /\ \A u \in p.all : u.price >= t.price

validateTx(p, t) ==
    t.nonce >= NonceAt(p.root, t.from) /\ t.price <= BalanceAt(p.root, t.from)

journalTx(p, t) == [p EXCEPT !.journal = IF t.from \in p.locals THEN Append(@, t) ELSE @]

\* A variant that sends no event for a replacement.
queueTxEvent_None(p, t) == p

queueTxEvent(p, t) == [p EXCEPT !.events = (@ \ Same(@, t)) \cup {t}]

Refused(p) == [pool |-> p, err |-> TRUE, replaced |-> FALSE]

Full(p) == Cardinality(p.all) >= GlobalSlots + GlobalQueue

\* The end of add, in a pool that has room: t replaces a pending transaction or is queued.
insert(p, t, local) ==
    LET old == Same(p.pending, t)
        p1 == [p EXCEPT !.pending = (@ \ old) \cup {t}, !.all = (@ \ old) \cup {t},
                        !.beats = Beat(@, t.from)]
        p2 == [enqueueTx(p, t) EXCEPT !.locals = IF local THEN @ \cup {t.from} ELSE @]
    IN CASE old # {} /\ ~Accepts(p.pending, t) -> Refused(p)
         [] old # {} /\ Accepts(p.pending, t) ->
              [pool |-> queueTxEvent(journalTx(p1, t), t), err |-> FALSE, replaced |-> TRUE]
         [] old = {} /\ ~Accepts(p.queue, t) -> Refused(p)
         [] OTHER -> [pool |-> journalTx(p2, t), err |-> FALSE, replaced |-> Same(p.queue, t) # {}]

\* add: the outcome is the pool, whether t was refused and whether it replaced one.
add(p, t, local) ==
    LET excess == Cardinality(p.all) + 1 - (GlobalSlots + GlobalQueue)
    IN CASE t \in p.all \/ ~validateTx(p, t) \/ (Full(p) /\ ~local /\ Underpriced(p, t)) -> Refused(p)
         [] OTHER -> insert(IF Full(p) THEN RemoveTxs(p, Take(Worst(p), excess)) ELSE p, t, local)

\* The pool after an add of account a, and the dirty accounts.
Added(x, dirty0, a) ==
    [pool |-> x.pool, dirty |-> IF x.err \/ x.replaced THEN dirty0 ELSE dirty0 \cup {a}]

addTxsLocked(p, s, local) ==
    FoldLeft(LAMBDA r, t : Added(add(r.pool, t, local), r.dirty, t.from),
             [pool |-> p, dirty |-> {}], s)

\* reset: from the state of one head to that of another.
Reset(p, old, new) ==
    LET common == LongestCommonPrefix({old, new})
        Above(c) == SubSeq(c, Len(common) + 1, Len(c))
        dropped == Reverse(SelectSeq(Above(old), LAMBDA t : ~Contains(Above(new), t)))
        child == new # <<>> /\ old = Front(new)
        shallow == Len(old) <= Len(new) + DeepReorg /\ Len(new) <= Len(old) + DeepReorg
        p1 == [p EXCEPT !.root = new, !.nonces = [a \in Accounts |-> NonceAt(new, a)]]
    IN addTxsLocked(p1, IF child \/ ~shallow THEN <<>> ELSE dropped, FALSE).pool

promoteAccount(p, a) ==
    LET list    == Of(p.queue, a)
        invalid == {t \in list : t.nonce < NonceAt(p.root, a)} \cup Costly(list, BalanceAt(p.root, a))
        readies == Ready(list \ invalid, p.nonces[a])
        left    == list \ (invalid \cup readies)
        caps    == IF a \in p.locals THEN {} ELSE Beyond(left, AccountQueue)
        p1      == [p EXCEPT !.queue = @ \ (list \ (left \ caps)), !.all = @ \ (invalid \cup caps)]
    IN FoldLeft(promoteTx, p1, ByNonce(readies))

promoteExecutables(p, accounts) == FoldLeft(promoteAccount, p, accounts)

demoteAccount(p, a) ==
    LET list     == Of(p.pending, a)
        olds     == {t \in list : t.nonce < NonceAt(p.root, a)}
        drops    == Costly(list \ olds, BalanceAt(p.root, a))
        invalids == After(list \ olds, drops)
        left     == list \ (olds \cup drops \cup invalids)
        gapped   == IF \E t \in left : t.nonce = NonceAt(p.root, a) THEN {} ELSE left
        p1       == EnqueueAll([p EXCEPT !.pending = @ \ (list \ (left \ gapped)),
                                         !.all = @ \ (olds \cup drops)], invalids \cup gapped)
    IN CASE list = {} -> p
         [] list # {} /\ left = gapped -> [p1 EXCEPT !.beats = Remove(@, a)]
         [] OTHER -> p1

demoteUnexecutables(p, accounts) == FoldLeft(demoteAccount, p, accounts)

\* The transactions beyond the first n of each remote account.
Cut(p, n) == UNION {Beyond(Of(p.pending, a), n) : a \in Accounts \ p.locals}

Fits(p, n) == Cardinality(p.pending \ Cut(p, n)) <= GlobalSlots

\* The cut transactions leave the pool, and the nonces follow.
DropCut(p, cut) ==
    LET Lowest(a) == CHOOSE n \in {t.nonce : t \in Of(cut, a)} : \A t \in Of(cut, a) : n <= t.nonce
    IN [p EXCEPT !.pending = @ \ cut, !.all = @ \ cut,
                 !.nonces = [a \in Accounts |->
                     IF Of(cut, a) = {} \/ @[a] < Lowest(a) THEN @[a] ELSE Lowest(a)]]

\* truncatePending cuts the longest lists of remote accounts to one length, the
\* longest with which the limit holds, but to no less than AccountSlots.
truncatePending(p) ==
    LET lengths == AccountSlots..(Cardinality(p.pending) + AccountSlots)
        level   == CHOOSE n \in lengths :
                     /\ Fits(p, n) \/ n = AccountSlots
                     /\ \A m \in lengths : m > n => ~Fits(p, m)
    IN IF Cardinality(p.pending) <= GlobalSlots THEN p ELSE DropCut(p, Cut(p, level))

\* truncateQueue takes the remote account with the latest heartbeat first, and of
\* an account the highest nonces.  An account without heartbeat sorts as the oldest.
truncateQueue(p) ==
    LET queued   == {a \in Accounts \ p.locals : Of(p.queue, a) # {}}
        youngest == Reverse(SelectSeq(p.beats, LAMBDA a : a \in queued))
                        \o SetToSeq(queued \ ToSet(p.beats))
        victims  == FlattenSeq([i \in DOMAIN youngest |-> Reverse(ByNonce(Of(p.queue, youngest[i])))])
        excess   == Cardinality(p.queue) - GlobalQueue
    IN IF Cardinality(p.queue) <= GlobalQueue THEN p
       ELSE RemoveTxs(p, Take(victims, excess))

\* The end of runReorg: every account with pending transactions has its next nonce.
refreshNonces(p) ==
    [p EXCEPT !.nonces = [a \in Accounts |->
        IF Of(p.pending, a) = {} THEN @[a] ELSE Last(ByNonce(Of(p.pending, a))).nonce + 1]]

\* The rest of runReorg once promotion has made p2 of p1.
afterPromotion(p1, p2, rst, events, order) ==
    LET promoted == p2.pending \ p1.pending
        p3 == IF rst = None THEN p2 ELSE demoteUnexecutables(p2, order)
    IN [pool |-> refreshNonces(truncateQueue(truncatePending(p3))),
        events |-> promoted \cup {t \in events : Same(promoted, t) = {}}]

\* The rest of runReorg once the pool has been reset to p1, if it has to.
afterReset(p1, rst, events, accounts, order) ==
    LET promote == IF rst = None THEN accounts ELSE {t.from : t \in p1.queue}
    IN afterPromotion(p1, promoteExecutables(p1, SelectSeq(order, LAMBDA a : a \in promote)), rst,
                      IF rst = None THEN events
                      ELSE {t \in events : t.nonce >= p1.nonces[t.from]}, order)

\* runReorg: the pool afterwards, and the transactions that it announces.
runReorg(p, rst, accounts, order) ==
    LET p0 == [p EXCEPT !.events = {}]
    IN afterReset(IF rst = None THEN p0 ELSE Reset(p0, rst.old, rst.new), rst, p.events, accounts, order)

\* A variant that forgets the queue.
Locals_PendingOnly(p, order) ==
    FlattenSeq([i \in DOMAIN order |->
        IF order[i] \in p.locals THEN ByNonce(Of(p.pending, order[i])) ELSE <<>>])

\* local: the transactions that rotate writes.
Locals(p, order) ==
    FlattenSeq([i \in DOMAIN order |->
        IF order[i] \in p.locals
        THEN ByNonce(Of(p.pending, order[i])) \o ByNonce(Of(p.queue, order[i])) ELSE <<>>])
-----------------------------------------------------------------------------
(* The steps. *)

\* Go's maps are iterated in any order.
Orders == {s \in [1..Cardinality(Accounts) -> Accounts] : ToSet(s) = Accounts}

Init ==
    /\ chain = <<>> /\ head = <<>>
    /\ pool = NewPool(<<>>, <<>>)
    /\ calls = {} /\ reset = None /\ dirty = None /\ announced = {}
    /\ journaled = {} /\ submitted = {} /\ heads = 0 /\ restarts = 0

\* The pool becomes p; what has left it is not announced any more.
Becomes(p) == pool' = p /\ announced' = announced \cap p.all

\* addTxs of one transaction: under the lock.
AddTx(t, local) ==
    /\ t \notin pool.all
    /\ t \notin submitted /\ Cardinality(calls) < MaxCalls
    /\ submitted' = submitted \cup {t}
    /\ \E r \in {addTxsLocked(pool, <<t>>, local)} :
         /\ journaled' = (journaled \cup {u \in {t} : t.from \in r.pool.locals}) \cap r.pool.all
         /\ Becomes(r.pool)
         /\ calls' = calls \cup {r.dirty}
    /\ UNCHANGED <<chain, head, reset, dirty, heads, restarts>>

\* requestPromoteExecutables, which scheduleReorgLoop merges into the next run.
RequestPromote(accounts) ==
    /\ accounts \in calls
    /\ calls' = calls \ {accounts}
    /\ dirty' = IF dirty = None THEN accounts ELSE dirty \cup accounts
    /\ UNCHANGED <<chain, head, pool, reset, announced, counters>>

RunReorg(order) ==
    /\ reset # None \/ dirty # None
    /\ \E r \in {runReorg(pool, reset, IF dirty = None THEN {} ELSE dirty, order)} :
         /\ pool' = r.pool
         /\ announced' = (announced \cup r.events) \cap r.pool.all
    /\ reset' = None /\ dirty' = None
    /\ UNCHANGED <<chain, head, calls, counters>>

\* A new head, of which the loop learns by a ChainHeadEvent and asks for a reset.
\* It is a longer chain or another one of the same length.
NewHead(c) ==
    /\ c # chain /\ Len(c) >= Len(chain)
    /\ Len(LongestCommonPrefix({c, chain})) + MaxReorg >= Len(chain)
    /\ heads < MaxHeads /\ heads' = heads + 1
    /\ chain' = c /\ head' = c
    /\ reset' = [old |-> IF reset = None THEN head ELSE reset.old, new |-> c]
    /\ UNCHANGED <<pool, calls, dirty, announced, journaled, submitted, restarts>>

\* The eviction tick: the queues of remote accounts whose heartbeat is older than
\* Lifetime, which are the first k and the ones without a heartbeat.
Evict(k) ==
    LET young == ToSet(SubSeq(pool.beats, k + 1, Len(pool.beats)))
        old == {t \in pool.queue : t.from \notin pool.locals \cup young}
    IN /\ old # {}
       /\ Becomes(RemoveTxs(pool, ByNonce(old)))
       /\ UNCHANGED <<chain, head, calls, reset, dirty, counters>>

\* SetGasPrice drops the cheaper transactions of remote accounts.
SetGasPrice(price) ==
    LET cheap == SelectSeq(Worst(pool), LAMBDA t : t.price < price) IN
    /\ cheap # <<>>
    /\ Becomes(RemoveTxs(pool, cheap))
    /\ UNCHANGED <<chain, head, calls, reset, dirty, counters>>

\* The journal tick.
Rotate(order) ==
    /\ pool.journal # Locals(pool, order)
    /\ pool' = [pool EXCEPT !.journal = Locals(pool, order)]
    /\ UNCHANGED <<chain, head, calls, reset, dirty, announced, counters>>

\* load: the journal in batches.
Batches(journal) ==
    [k \in 1..((Len(journal) + JournalBatch - 1) \div JournalBatch) |->
        Take(SubSeq(journal, (k - 1) * JournalBatch + 1, Len(journal)), JournalBatch)]

\* AddLocals, which waits for the promotion.
AddLocals(loaded, order) == runReorg(loaded.pool, None, loaded.dirty, order).pool

\* The process stops or crashes, and NewTxPool loads the journal as local
\* transactions, one batch after the other, and rotates it.  The miner, which
\* starts later, reads all that is pending.
Restart(order) ==
    /\ restarts < MaxRestarts /\ restarts' = restarts + 1
    /\ \E p \in {FoldLeft(LAMBDA q, batch : AddLocals(addTxsLocked(q, batch, TRUE), order),
                          NewPool(chain, <<>>), Batches(pool.journal))} :
         /\ pool' = [p EXCEPT !.journal = Locals(p, order)]
         /\ announced' = p.pending
         /\ journaled' = p.all
    /\ head' = chain /\ calls' = {} /\ reset' = None /\ dirty' = None
    /\ UNCHANGED <<chain, submitted, heads>>

Next ==
    \/ \E s \in Submissions : AddTx(s.tx, s.local)
    \/ \E accounts \in calls : RequestPromote(accounts)
    \/ \E order \in Orders : RunReorg(order) \/ Rotate(order) \/ Restart(order)
    \/ \E c \in Chains : NewHead(c)
    \/ \E k \in 0..Cardinality(Accounts) : k <= Len(pool.beats) /\ Evict(k)
    \/ \E price \in Prices : SetGasPrice(price)

Spec == Init /\ [][Next]_vars
-----------------------------------------------------------------------------
\* Every field of the pool has the type that core/tx_pool.go gives it; nonces stay natural
\* numbers when runReorg, removeTx and truncatePending lower them.
TypeOK ==
    /\ {chain, head} \subseteq Chains
    /\ pool \in [root : Chains, nonces : [Accounts -> Nat], locals : SUBSET Accounts,
                 pending : SUBSET Txs, queue : SUBSET Txs, all : SUBSET Txs,
                 beats : Seq(Accounts), events : SUBSET Txs, journal : Seq(Txs)]
    /\ calls \subseteq SUBSET Accounts
    /\ reset \in [old : Chains, new : Chains] \cup {None}
    /\ dirty \in SUBSET Accounts \cup {None}
    /\ announced \subseteq Txs /\ journaled \subseteq Txs /\ submitted \subseteq Txs
    /\ heads \in 0..MaxHeads /\ restarts \in 0..MaxRestarts

Served == reset = None /\ dirty = None
Idle == Served /\ calls = {}

\* `all` is what the lists hold, and an account has one transaction for a nonce:
\* removeTx, which looks in pending first and by nonce alone, removes the right one.
ListsPartitionAll ==
    /\ pool.all = pool.pending \cup pool.queue
    /\ \A t \in pool.all : Same(pool.all, t) = {t}
    /\ pool.pending \cap pool.queue = {}

\* The pending transactions of an account are the ones the miner can execute in
\* order: from the nonce of the state on without a gap, and the nonce handed out
\* for the next one (pendingNonces, eth_getTransactionCount) follows them.
PendingIsExecutable == \A a \in Accounts :
    LET L == Of(pool.pending, a)
        n == NonceAt(pool.root, a)
    IN /\ {t.nonce : t \in L} = n..(n + Cardinality(L) - 1)
       /\ L # {} => pool.nonces[a] = n + Cardinality(L)

\* When every request has been served, no transaction that is next in its account waits
\* in the queue, and the miner has been told of every pending one.
MinerKnowsExecutable == Idle =>
    /\ ~ \E t \in pool.queue : Executable(pool.root, t) /\ pool.nonces[t.from] >= t.nonce
    /\ pool.pending \subseteq announced

\* When every request has been served, nothing in the queue continues the pending
\* transactions of its account.  The code does not achieve this: see README.
ReadyIsPromoted == Idle =>
    ~ \E t \in pool.queue : t.nonce = pool.nonces[t.from]

\* A transaction of a local account leaves the pool only when its nonce is used,
\* its account cannot pay for it or another one takes its place: limits, prices
\* and evictions never remove it.
LocalsAreKept ==
    [][ \A t \in pool.all \ pool'.all : t.from \in pool.locals =>
            \/ restarts' # restarts
            \/ t.nonce < NonceAt(pool'.root, t.from)
            \/ t.price > BalanceAt(pool'.root, t.from)
            \/ Same(pool'.all, t) # {} ]_vars

\* A run of the reorganisation leaves the pool within its limits, local accounts
\* and AccountSlots of each account excepted.
RunEnforcesLimits ==
    [][ (~Served /\ Served' /\ restarts' = restarts) =>
        LET remote == {t \in pool'.all : t.from \notin pool'.locals} IN
        /\ \/ Cardinality(pool'.pending) <= GlobalSlots
           \/ \A t \in remote : Cardinality(Of(pool'.pending, t.from)) <= AccountSlots
        /\ Cardinality(pool'.queue) <= GlobalQueue \/ pool'.queue \cap remote = {} ]_vars

\* A restart keeps a place in the pool for every transaction of it that came from a
\* local account, unless its nonce is used or its account cannot pay for it.
RestartKeepsLocals ==
    [][ restarts' # restarts =>
        \A t \in pool.all \cap journaled :
            (t.nonce >= NonceAt(chain, t.from) /\ t.price <= BalanceAt(chain, t.from))
                => Same(pool'.all, t) # {} ]_vars
=============================================================================
