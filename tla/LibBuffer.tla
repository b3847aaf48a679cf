------------------------------ MODULE LibBuffer ------------------------------
(***************************************************************************)
(* Lib_Buffer.sol: an array of bytes32 slots whose length is a uint40 that  *)
(* shares one storage word (the context) with 27 bytes of extra data.  The  *)
(* slots are a Solidity mapping: total, zero by default, and never cleared. *)
(* Deleting only lowers the length, so the slots above it keep what was     *)
(* deleted until a later push overwrites them.                              *)
(***************************************************************************)
EXTENDS Integers

CONSTANTS
    MaxLength,  \* the largest length: 2^40 - 1 in the contract
    Zero        \* the bytes32 an untouched slot holds

ASSUME MaxLengthAssumption == MaxLength \in Nat \ {0}

\* The keys of the mapping that a uint40 can name.
Slots == 0..MaxLength

\* Every buffer over values V with extra data X.
Buffer(V, X) ==
    [buf : [Slots -> V \cup {Zero}], length : 0..MaxLength, extraData : X]

EmptyBuffer(x) == [buf |-> [i \in Slots |-> Zero], length |-> 0, extraData |-> x]

(* The indices get() answers for. *)
Live(b) == {i \in Slots : i < b.length}

\* Mutant: the length is incremented without a check.
CanPush_Unchecked(b) == TRUE

\* push(): ctx.length++ is checked arithmetic on a uint40, so a full buffer reverts.
CanPush(b) == b.length < MaxLength

push(b, v, x) ==
    [buf |-> [b.buf EXCEPT ![b.length] = v], length |-> b.length + 1, extraData |-> x]

\* The container narrows the index of a get and of a deletion to a uint40 before
\* the library compares it with the length.
Narrow(i) == i % (MaxLength + 1)

\* Mutant: answers for any slot, live or deleted.
CanGet_AnySlot(b, i) == Narrow(i) \in Slots

\* Mutant: does not answer for the last element.
CanGet_BelowLast(b, i) == Narrow(i) + 1 \in Live(b)

\* get() requires _index < ctx.length.
CanGet(b, i) == Narrow(i) \in Live(b)

get(b, i) == b.buf[Narrow(i)]

CanDelete(b, i) == Narrow(i) \in Live(b)

\* Mutant: off by one below the index.
deleteElementsAfterInclusive_OffByOne(b, i, x) ==
    [buf |-> b.buf, length |-> Narrow(i) - 1, extraData |-> x]

deleteElementsAfterInclusive(b, i, x) ==
    [buf |-> b.buf, length |-> Narrow(i), extraData |-> x]
=============================================================================
