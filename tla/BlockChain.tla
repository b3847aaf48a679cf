----------------------------- MODULE BlockChain -----------------------------
(***************************************************************************)
(* The chain manager of l2geth (core/blockchain.go): the database of       *)
(* blocks, the canonical index and the head, which InsertChainWithFunc     *)
(* moves for the blocks of peers, WriteBlockWithState for the blocks of    *)
(* the worker and SetHead for an operator.  They exclude each other by     *)
(* chainmu, but every batch that they write to the database is a step, so  *)
(* that the process may crash between any two of them.                     *)
(*                                                                         *)
(* The blocks are a constant tree.  All blocks have the same difficulty    *)
(* (clique with one signer), so the total difficulty is the number.  Each  *)
(* has one transaction, whose rollup metadata is stored by block number.   *)
(* Blocks from the future, the ancient store and fast sync, which this     *)
(* node does not use, are left out.                                        *)
(***************************************************************************)
EXTENDS Naturals, FiniteSets, Sequences, FiniteSetsExt

CONSTANTS
    Blocks, Genesis,
    Parent,          \* the parent of each block
    Bad,             \* blocks whose execution or state root is wrong
    Own,             \* blocks that the node's worker builds
    Refused,         \* blocks that processSeqSetBlock refuses
    MaxBatch,        \* bound on the blocks of one InsertChain
    MaxLate,         \* bound on the insertions that still have to send their event
    MaxFaults,       \* bound on crashes, failed commits, stops and rewinds together
    None

ASSUME BlockChainAssumption ==
    /\ Cardinality(Blocks) \in Nat /\ Genesis \notin Blocks /\ None \notin Blocks
    /\ Parent \in [Blocks -> Blocks \cup {Genesis}]
    /\ {Bad, Own, Refused} \subseteq SUBSET Blocks
    /\ MaxBatch \in Nat /\ MaxLate \in Nat /\ MaxFaults \in Nat

VARIABLES
    stored,     \* database: the blocks, with header, body and total difficulty
    canon,      \* database: the canonical hash of each number, or None
    meta,       \* database: the block that wrote the TransactionMeta of a number
    head,       \* database: the head block, and currentBlock
    header,     \* database: the head header, and the current one
    disk, mem,  \* the blocks whose state is on disk, and in memory only
    archive,    \* gcmode=archive: every state is flushed to disk
    op,         \* the operation that holds chainmu, or None
    caller,     \* "waiting" while a caller of InsertChainWithFunc waits
    late,       \* insertions that have released chainmu and not sent their event
    sealed,     \* the worker's block, or None; checked: it is not a duplicate
    announced,  \* was the head, since a block last made it change, in a ChainHeadEvent?
    crashed,    \* has the node crashed?
    faults

dbVars == <<archive, stored, canon, meta, head, header, disk, mem>>
others == <<caller, late, sealed, announced, crashed, faults>>
vars == <<dbVars, op, caller, late, sealed, announced, crashed, faults>>
-----------------------------------------------------------------------------
Tree == Blocks \cup {Genesis}

\* The chain of each block, from the first block after the genesis block.
Chains ==
    LET up[n \in 0..Cardinality(Blocks)] ==
          IF n = 0 THEN [b \in Tree |-> <<>>]
          ELSE [b \in Tree |-> IF b = Genesis THEN <<>> ELSE Append(up[n - 1][Parent[b]], b)]
    IN up[Cardinality(Blocks)]

Chain(b) == Chains[b]

Number(b) == Len(Chains[b])

Numbers == {Number(b) : b \in Blocks}

\* What the verification of a header demands, so that the blocks are a tree.
ASSUME NumberAssumption == \A b \in Blocks : Number(b) = Number(Parent[b]) + 1

\* a is b, or b descends from it.
Ancestor(a, b) == Number(a) <= Number(b) /\ \A n \in 1..Number(a) : Chain(a)[n] = Chain(b)[n]

HasState(b) == b \in disk \cup mem \cup {Genesis}
HasBlock(b) == b \in stored \cup {Genesis}

\* Linked sequences of blocks, as InsertChainWithFunc demands them.
Batches == {s \in UNION {[1..n -> Blocks] : n \in 1..MaxBatch} :
              \A i \in 2..Len(s) : Parent[s[i]] = s[i - 1]}

Init ==
    /\ archive \in BOOLEAN
    /\ stored = {} /\ disk = {} /\ mem = {}
    /\ canon = [n \in Numbers |-> None] /\ meta = [n \in Numbers |-> None]
    /\ head = Genesis /\ header = Genesis
    /\ op = None /\ caller = "idle" /\ late = {} /\ sealed = None
    /\ announced = TRUE /\ crashed = FALSE /\ faults = 0
-----------------------------------------------------------------------------
(* InsertChainWithFunc and the iteration of insertChainWithFuncAndCh. *)

Op(kind, todo, stage) ==
    [kind |-> kind, todo |-> todo, stage |-> stage,
     last |-> None,         \* lastCanon
     trim |-> TRUE,         \* only known blocks so far
     side |-> None,         \* insertSideChain: the last block it has taken
     path |-> <<>>,         \* reorg: the blocks below the new head; SetHead: the deleted ones
     old |-> None,          \* existMeta; SetHead: the number to rewind to
     from |-> head]         \* the head when the operation began

Operation ==
    [kind  : {"insert", "mine", "rewind"},
     todo  : Seq(Blocks),
     stage : {"next", "side", "write", "commit", "choose", "reorg", "head", "unlock", "rewind"},
     last  : Blocks \cup {None}, trim : BOOLEAN, side : Blocks \cup {None},
     path  : Seq(Blocks), old : Blocks \cup {None} \cup Nat, from : Tree]

ASSUME NoneAssumption == None \notin Operation

At(stage) == op # None /\ op.stage = stage

Fault == faults < MaxFaults /\ faults' = faults + 1

Goto(stage) == op' = [op EXCEPT !.stage = stage]

InsertChain(batch) ==
    /\ op = None /\ caller = "idle"
    /\ Cardinality(late) < MaxLate
    /\ op' = Op("insert", batch, "next")
    /\ caller' = "waiting"
    /\ UNCHANGED <<dbVars, late, sealed, announced, crashed, faults>>

\* What the validator says of the next block.
Next1 == op.todo[1]
Known == op.todo # <<>> /\ HasBlock(Next1) /\ HasState(Next1)
New == op.todo # <<>> /\ ~Known
Runs == New /\ HasBlock(Parent[Next1]) /\ HasState(Parent[Next1])
Pruned == New /\ HasBlock(Parent[Next1]) /\ ~HasState(Parent[Next1])
Unknown == New /\ ~HasBlock(Parent[Next1])

\* A known block only becomes lastCanon: writeKnownBlock is not called any more.
SkipKnown ==
    /\ At("next") /\ Known
    /\ op' = [op EXCEPT !.todo = Tail(@),
                        !.last = IF op.trim /\ Number(Next1) <= Number(head) THEN @ ELSE Next1]
    /\ UNCHANGED <<dbVars, others>>

\* The result on the two channels: the caller returns before chainmu is released.
Reply(o) ==
    /\ caller' = "idle"
    /\ op' = [o EXCEPT !.stage = "unlock"]

\* insertChain, which imports a side chain within the call, sends its event at its end.
Nested == op.side # None

\* processSeqSetBlock, which insertChain does not ask.
Admitted == Next1 \notin Refused \/ Nested

\* Mutant: the import of a side chain sends no event.
Finish_NoNestedEvent ==
    /\ At("next")
    /\ op.todo = <<>> \/ Unknown \/ (Runs /\ Next1 \in Bad /\ Admitted)
    /\ Reply(IF Nested THEN [op EXCEPT !.last = None] ELSE op)
    /\ UNCHANGED <<dbVars, late, sealed, announced, crashed, faults>>

\* The end of the batch, an unknown ancestor, or a block that fails to execute.
Finish ==
    /\ At("next")
    /\ \/ op.todo = <<>>
       \/ Unknown
       \/ Runs /\ Next1 \in Bad /\ Admitted
    /\ Reply(IF Nested THEN [op EXCEPT !.last = None] ELSE op)
    /\ announced' = (announced \/ (Nested /\ op.last = head))
    /\ UNCHANGED <<dbVars, late, sealed, crashed, faults>>

\* processSeqSetBlock refuses the block: return without a result on the channels.
RejectBlock ==
    /\ At("next") /\ Runs
    /\ ~Admitted
    /\ Goto("unlock")
    /\ UNCHANGED <<dbVars, others>>

\* insertSideChain: a block whose parent is stored without its state is written
\* without state, unless it is there already.
InsertSideBlock ==
    /\ At("next") \/ At("side")
    /\ Pruned
    /\ op' = [op EXCEPT !.todo = Tail(@), !.side = Next1, !.stage = "side"]
    /\ IF HasBlock(Next1) THEN UNCHANGED <<stored, meta>>
       ELSE /\ stored' = stored \cup {Next1}
            /\ meta' = [meta EXCEPT ![Number(Next1)] = Next1]
    /\ UNCHANGED <<archive, canon, head, header, disk, mem, others>>

\* Mutant: a lighter side chain ends the call without a result.
ImportSideChain_NoReply ==
    LET chain   == Chain(op.side)
        k       == Max({0} \cup {n \in DOMAIN chain : HasBlock(chain[n]) /\ HasState(chain[n])})
        missing == \E n \in k + 1..Len(chain) : ~HasBlock(chain[n])
    IN /\ At("side") /\ ~Pruned
       /\ op' = IF Number(op.side) < Number(head) \/ missing THEN [op EXCEPT !.stage = "unlock"]
                ELSE [op EXCEPT !.todo = SubSeq(chain, k + 1, Len(chain)), !.stage = "next"]
       /\ UNCHANGED <<dbVars, others>>

\* The end of insertSideChain: if the side chain is as heavy as the head, import its
\* blocks above the last one that has its state.
ImportSideChain ==
    LET chain   == Chain(op.side)
        k       == Max({0} \cup {n \in DOMAIN chain : HasBlock(chain[n]) /\ HasState(chain[n])})
        missing == \E n \in k + 1..Len(chain) : ~HasBlock(chain[n])
    IN /\ At("side") /\ ~Pruned
       /\ IF Number(op.side) < Number(head) \/ missing THEN Reply(op)
          ELSE /\ op' = [op EXCEPT !.todo = SubSeq(chain, k + 1, Len(chain)), !.stage = "next"]
               /\ UNCHANGED caller
       /\ UNCHANGED <<dbVars, late, sealed, announced, crashed, faults>>
-----------------------------------------------------------------------------
(* writeBlockWithState, for the blocks of both. *)

\* The operation gives up its block: with an error to the caller of an insertion.
Fail == IF op.kind = "insert" THEN Reply(op) ELSE Goto("unlock") /\ UNCHANGED caller

\* Go on after the block: with the next one of the batch.
Continue == [op EXCEPT !.todo = Tail(@), !.path = <<>>,
                       !.stage = IF op.kind = "insert" THEN "next" ELSE "unlock"]

\* Execute the next block of a batch and write the block batch, with the TransactionMeta
\* of its number.  The worker's block is executed already; its parent may be gone.
WriteBlock ==
    /\ \/ At("next") /\ Runs /\ Next1 \notin Bad /\ Admitted
       \/ At("write") /\ HasBlock(Parent[Next1])
    /\ stored' = stored \cup {Next1}
    /\ meta' = [meta EXCEPT ![Number(Next1)] = Next1]
    /\ op' = [op EXCEPT !.stage = "commit", !.trim = FALSE, !.old = meta[Number(Next1)]]
    /\ UNCHANGED <<archive, canon, head, header, disk, mem, others>>

ParentGone ==
    /\ At("write") /\ ~HasBlock(Parent[Next1])
    /\ Goto("unlock")
    /\ UNCHANGED <<dbVars, others>>

\* Commit the state.  Only an archive node flushes it: another one flushes the state of
\* 128 blocks before (TriesInMemory), beyond the blocks here.
CommitState ==
    /\ At("commit")
    /\ Goto("choose")
    /\ IF archive THEN disk' = disk \cup {Next1} /\ UNCHANGED mem
       ELSE mem' = mem \cup {Next1} /\ UNCHANGED disk
    /\ UNCHANGED <<archive, stored, canon, meta, head, header, others>>

\* restoreBlockMeta, when the commit fails.
CommitFails ==
    /\ At("commit")
    /\ Fault /\ UNCHANGED crashed
    /\ Fail
    /\ meta' = IF op.old = None THEN meta ELSE [meta EXCEPT ![Number(Next1)] = op.old]
    /\ UNCHANGED <<archive, stored, canon, head, header, disk, mem, late, sealed, announced>>

\* A heavier block becomes the head, one as heavy by a coin flip, another is a side block.
Prefers(b) == Number(b) >= Number(head)
Flips(b) == Number(b) = Number(head)

\* The number of the last common block of the head's chain and b's.
Fork(b) == Max({0} \cup {n \in 1..Number(head) : n <= Number(b) /\ Chain(head)[n] = Chain(b)[n]})

\* Mutant: off by one at the fork.
NewChain_SkipsFirst(b) == SubSeq(Chain(b), Fork(b) + 2, Number(b) - 1)

\* The blocks that a reorganisation to b makes canonical, without b.
NewChain(b) == SubSeq(Chain(b), Fork(b) + 1, Number(b) - 1)

\* Mutant: the head header is only moved onto a new number.
writeHeadBlock_HeaderStays(b) ==
    /\ canon' = [canon EXCEPT ![Number(b)] = b]
    /\ head' = b
    /\ header' = IF canon[Number(b)] = None THEN b ELSE header
    /\ announced' = FALSE

writeHeadBlock(b) ==
    /\ canon' = [canon EXCEPT ![Number(b)] = b]
    /\ head' = b
    /\ header' = IF canon[Number(b)] # b THEN b ELSE header
    /\ announced' = FALSE

WriteHead ==
    /\ \/ At("choose") /\ Prefers(Next1) /\ Parent[Next1] = head
       \/ At("head")
    /\ writeHeadBlock(Next1)
    /\ op' = [Continue EXCEPT !.last = Next1]
    /\ UNCHANGED <<archive, stored, meta, disk, mem, caller, late, sealed, crashed, faults>>

BeginReorg ==
    /\ At("choose") /\ Prefers(Next1) /\ Parent[Next1] # head
    /\ IF Range(NewChain(Next1)) \subseteq stored
       THEN /\ op' = [op EXCEPT !.stage = "reorg", !.path = NewChain(Next1)]
            /\ UNCHANGED caller
       ELSE Fail
    /\ UNCHANGED <<dbVars, late, sealed, announced, crashed, faults>>

StaySide ==
    /\ At("choose") /\ (~Prefers(Next1) \/ Flips(Next1))
    /\ op' = Continue
    /\ UNCHANGED <<dbVars, others>>

\* reorg: write the blocks below the new head, in order.
ReorgBlock ==
    /\ At("reorg") /\ op.path # <<>>
    /\ writeHeadBlock(op.path[1])
    /\ op' = [op EXCEPT !.path = Tail(@)]
    /\ UNCHANGED <<archive, stored, meta, disk, mem, caller, late, sealed, crashed, faults>>

\* reorg: delete the canonical hashes above the head, up to the first gap.
DeleteIndexes ==
    /\ At("reorg") /\ op.path = <<>>
    /\ canon' = [n \in Numbers |->
                   IF n > Number(head) /\ \A m \in Number(head) + 1..n : canon[m] # None
                   THEN None ELSE canon[n]]
    /\ Goto("head")
    /\ UNCHANGED <<archive, stored, meta, head, header, disk, mem, others>>

-----------------------------------------------------------------------------
(* The end of an operation. *)

\* The worker's block is announced with chainmu held, those of a peer after its release.
Unlock ==
    /\ At("unlock")
    /\ op' = None
    /\ IF op.kind = "insert"
       THEN /\ late' = late \cup ({op.last} \ {None})
            /\ UNCHANGED announced
       ELSE /\ announced' = (announced \/ op.last = head)
            /\ UNCHANGED late
    /\ UNCHANGED <<dbVars, caller, sealed, crashed, faults>>

\* The deferred function: fire a chain head event if the block is still the head.
Announce(b) ==
    /\ b \in late
    /\ late' = late \ {b}
    /\ announced' = (announced \/ b = head)
    /\ UNCHANGED <<dbVars, op, caller, sealed, crashed, faults>>
-----------------------------------------------------------------------------
(* The worker, as far as it writes to the chain: commitNewWork on the current *)
(* block, then resultLoop, whose test for a duplicate is without chainmu.     *)

Seal(b) ==
    /\ sealed = None
    /\ Parent[b] = head
    /\ sealed' = [block |-> b, checked |-> FALSE]
    /\ UNCHANGED <<dbVars, op, caller, late, announced, crashed, faults>>

CheckDuplicate ==
    /\ sealed # None /\ ~sealed.checked
    /\ sealed' = IF HasBlock(sealed.block) \/ canon[Number(sealed.block)] # None THEN None
                 ELSE [sealed EXCEPT !.checked = TRUE]
    /\ UNCHANGED <<dbVars, op, caller, late, announced, crashed, faults>>

WriteSealed ==
    /\ sealed # None /\ sealed.checked
    /\ op = None
    /\ op' = Op("mine", <<sealed.block>>, "write")
    /\ sealed' = None
    /\ UNCHANGED <<dbVars, caller, late, announced, crashed, faults>>
-----------------------------------------------------------------------------
(* SetHead, with the batch of markers of each header and one of deletions. *)

SetHead(n) ==
    /\ op = None
    /\ n < Max({Number(head), Number(header)})
    /\ op' = [Op("rewind", <<>>, "rewind") EXCEPT !.old = n]
    /\ Fault
    /\ UNCHANGED <<dbVars, caller, late, sealed, announced, crashed>>

RewindHeader ==
    /\ At("rewind") /\ Number(header) > op.old
    /\ header' = Parent[header]
    /\ head' = CASE Number(header') >= Number(head) -> head
                 [] HasState(header') /\ Number(header') < Number(head) -> header'
                 [] OTHER -> Genesis
    /\ op' = [op EXCEPT !.path = Append(@, header)]
    /\ UNCHANGED <<archive, stored, canon, meta, disk, mem, others>>

\* SetHead sends no event.
DeleteRewound ==
    /\ At("rewind") /\ Number(header) <= op.old
    /\ stored' = stored \ Range(op.path)
    /\ canon' = [n \in Numbers |->
                   IF \E b \in Range(op.path) : Number(b) = n THEN None ELSE canon[n]]
    /\ Goto("unlock")
    /\ announced' = TRUE
    /\ UNCHANGED <<archive, meta, head, header, disk, mem, caller, late, sealed, crashed, faults>>
-----------------------------------------------------------------------------
(* Crash and Stop, each with the loadLastState of the next start: repair rewinds *)
(* the head to the last ancestor that has its state.                             *)

\* Mutant: there is no repair.
Loaded_NoRepair(states) == head

Loaded(states) ==
    LET k == Max({0} \cup {n \in 1..Number(head) : Chain(head)[n] \in states}) IN
    IF k = 0 THEN Genesis ELSE Chain(head)[k]

Restart(states) ==
    /\ disk' = states /\ mem' = {}
    /\ head' = Loaded(states)
    /\ op' = None /\ caller' = "idle" /\ late' = {} /\ sealed' = None
    /\ announced' = TRUE
    /\ UNCHANGED <<archive, stored, canon, meta, header>>

Crash ==
    /\ Fault /\ crashed' = TRUE
    /\ Restart(disk)

\* Mutant: only the parent's state is committed.
Stop_ParentOnly ==
    /\ op = None
    /\ Restart(disk \cup {b \in mem : b \in Range(Chain(head)) /\ Number(b) + 1 = Number(head)})
    /\ Fault /\ UNCHANGED crashed

\* Stop waits for the operation in progress, and commits the states of the head and
\* its parent.
Stop ==
    /\ op = None
    /\ Restart(disk \cup {b \in mem : b \in Range(Chain(head)) /\ Number(b) + 1 >= Number(head)})
    /\ Fault /\ UNCHANGED crashed
-----------------------------------------------------------------------------
Proceed ==
    \/ SkipKnown \/ Finish \/ RejectBlock \/ InsertSideBlock \/ ImportSideChain
    \/ WriteBlock \/ ParentGone \/ CommitState \/ CommitFails \/ BeginReorg \/ StaySide
    \/ ReorgBlock \/ DeleteIndexes \/ WriteHead \/ Unlock
    \/ RewindHeader \/ DeleteRewound

Next ==
    \/ \E batch \in Batches : InsertChain(batch)
    \/ Proceed
    \/ \E b \in late : Announce(b)
    \/ \E b \in Own : Seal(b)
    \/ CheckDuplicate
    \/ WriteSealed
    \/ \E n \in Numbers \cup {0} : SetHead(n)
    \/ Crash
    \/ Stop

\* An operation that holds chainmu goes on; nobody needs to begin one.
Spec == Init /\ [][Next]_vars /\ WF_vars(Proceed)
-----------------------------------------------------------------------------
Idle == op = None /\ late = {}

\* Every variable has the type that core/blockchain.go gives it.
TypeOK ==
    /\ stored \subseteq Blocks /\ disk \subseteq Blocks /\ mem \subseteq Blocks
    /\ canon \in [Numbers -> Blocks \cup {None}] /\ meta \in [Numbers -> Blocks \cup {None}]
    /\ head \in Tree /\ header \in Tree
    /\ op \in Operation \cup {None}
    /\ caller \in {"idle", "waiting"}
    /\ late \subseteq Blocks /\ {archive, announced, crashed} \subseteq BOOLEAN
    /\ sealed # None => sealed.block \in Blocks
    /\ faults \in 0..MaxFaults

\* At every moment, so at every crash too, the canonical hashes up to the head are the
\* chain of the head, and all its blocks are stored (writeHeadBlock, reorg, SetHead).
CanonicalIsLinked ==
    \A n \in 1..Number(head) : canon[n] = Chain(head)[n] /\ canon[n] \in stored

\* Between operations, the state of the head is there to execute the next block on.
HeadHasState == op = None => HasState(head)

\* The head and the head header are always on one chain.  On an archive node that has not
\* crashed they are the same block, and no canonical hash is above it: SetHead, which walks
\* down from the head header, finds all that it has to rewind (writeHeadBlock, reorg,
\* headerchain.go SetHead).  A crash in the middle of SetHead, or a rewind to a block
\* whose state is pruned, takes the head back without the hashes above it.
HeaderIsTip ==
    op = None =>
        /\ Ancestor(head, header) \/ Ancestor(header, head)
        /\ archive /\ ~crashed =>
              header = head /\ \A n \in Numbers : n > Number(head) => canon[n] = None

\* Once the deferred events are out, a head that a block has become has been announced,
\* whatever order the insertions and the worker's blocks ended in.  The exception: a known
\* block above the head, which becomes lastCanon and not the head, takes the event away.
HeadIsAnnounced ==
    Idle => \/ announced
            \/ \E b \in stored : HasState(b) /\ Number(b) > Number(head)

\* An insertion or a block of the worker may go down to the fork in a reorganisation, and
\* never ends with a lighter head than it found (writeBlockWithState).  After an orderly
\* Stop the node resumes on the head it had: the states that Stop commits are enough for
\* loadLastState not to repair.
HeadIsNotLost ==
    [][/\ At("unlock") /\ op' = None /\ op.kind # "rewind" => Number(head) >= Number(op.from)
       /\ op = None /\ op' = None /\ faults' # faults /\ ~crashed' => head' = head]_vars

\* The TransactionMeta of a number is the one of the canonical block: "Since there is 1
\* transaction per block, the blocknumber is used as the key" (accessors_indexes.go).  Side blocks overwrite
\* it: see README.
MetaIsCanonical == Idle => \A n \in 1..Number(head) : meta[n] = canon[n]

\* InsertChainWithFunc returns to its caller, whatever becomes of its blocks, if none of
\* them is one that processSeqSetBlock refuses.
InsertReturns ==
    /\ caller = "waiting"
    /\ op # None /\ op.kind = "insert" /\ Range(op.todo) \cap Refused = {}
    ~> caller = "idle"

\* InsertChainWithFunc returns to its caller: "resolve call function hang without return
\* response" (blockchain.go).  It does not after a block that processSeqSetBlock refuses.
EveryInsertReturns == caller = "waiting" ~> caller = "idle"
=============================================================================
