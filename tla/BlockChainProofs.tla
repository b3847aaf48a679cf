-------------------------- MODULE BlockChainProofs --------------------------
(***************************************************************************)
(* The canonical chain, the head, the head header and the events of the    *)
(* chain manager, for every finite tree of blocks, batch size and number   *)
(* of faults.                                                              *)
(***************************************************************************)
EXTENDS BlockChain, WellFoundedInduction, TLAPS

-----------------------------------------------------------------------------
(* Natural numbers. *)

(* A set of natural numbers has a least element.                             *)
LEMMA LeastNatural ==
    ASSUME NEW T \in SUBSET Nat, T # {}
    PROVE  \E x \in T : \A y \in T : x <= y
<1> DEFINE R == {ss \in Nat \X Nat : ss[1] < ss[2]}
<1>1. IsWellFoundedOn(R, Nat)  BY NatLessThanWellFounded DEF OpToRel
<1>2. \A x, y \in Nat : ~(<<y, x>> \in R) => x <= y  OBVIOUS
<1> HIDE DEF R
<1>3. \E x \in T : \A y \in T : ~(<<y, x>> \in R)  BY <1>1, WFMin, Zenon
<1> QED  BY <1>2, <1>3, Zenon

(* What holds at zero and is kept by every step up to N holds at every       *)
(* number up to N.                                                           *)
LEMMA Climb ==
    ASSUME NEW N \in Nat, NEW G \in SUBSET Nat, 0 \in G,
           \A n \in 1..N : n - 1 \in G => n \in G
    PROVE  \A n \in 0..N : n \in G
<1> DEFINE T == {n \in 0..N : n \notin G}
<1> SUFFICES ASSUME T # {} PROVE FALSE  OBVIOUS
<1>0. T \in SUBSET Nat  OBVIOUS
<1>1. PICK m \in T : \A k \in T : m <= k
  <2> HIDE DEF T
  <2> QED  BY <1>0, LeastNatural
<1>2. m \in 1..N  BY <1>1
<1>3. m - 1 \in 0..N /\ m - 1 \notin T  BY <1>1, <1>2
<1> QED  BY <1>1, <1>2, <1>3

(* The maximum of a bounded set of numbers with zero, which the chain        *)
(* manager takes to look for the last block with some property.              *)
LEMMA MaxOf ==
    ASSUME NEW N \in Nat, NEW S \in SUBSET (0..N), 0 \in S
    PROVE  Max(S) \in S /\ Max(S) \in Nat /\ \A n \in S : n <= Max(S)
<1> DEFINE T == {k \in Nat : \A n \in S : n <= k}
<1>1. T \in SUBSET Nat /\ N \in T  OBVIOUS
<1>2. PICK k \in T : \A j \in T : k <= j
  <2> HIDE DEF T
  <2> QED  BY <1>1, LeastNatural
<1>3. k \in S
  <2> SUFFICES ASSUME k \notin S PROVE FALSE  OBVIOUS
  <2>1. k # 0 /\ k - 1 \in Nat  OBVIOUS
  <2>2. \A n \in S : n <= k - 1  BY <1>2
  <2>3. k - 1 \in T  BY <2>1, <2>2
  <2> QED  BY <1>2, <2>1, <2>3
<1>4. k \in S /\ \A n \in S : k >= n  BY <1>2, <1>3
<1>5. PICK x : x = Max(S)  OBVIOUS
<1>6. x \in S /\ \A n \in S : x >= n  BY <1>4, <1>5, Zenon DEF Max
<1>7. x \in Nat /\ \A n \in S : n <= x  BY <1>6
<1> QED  BY <1>5, <1>6, <1>7, Zenon

-----------------------------------------------------------------------------
(* Sequences. *)

(* A sequence is a function on the numbers up to its length.                 *)
LEMMA LengthOf ==
    ASSUME NEW A, NEW t \in Seq(A)
    PROVE  Len(t) \in Nat /\ DOMAIN t = 1..Len(t) /\ t \in [1..Len(t) -> A]
OBVIOUS

(* Only the empty sequence has length zero.                                  *)
LEMMA EmptyOf ==
    ASSUME NEW A
    PROVE  <<>> \in Seq(A) /\ Len(<<>>) = 0 /\ \A t \in Seq(A) : t # <<>> => Len(t) \in Nat \ {0}
OBVIOUS

(* What Append adds, and what it leaves.                                     *)
LEMMA AppendOf ==
    ASSUME NEW A, NEW t \in Seq(A), NEW a \in A
    PROVE  /\ Append(t, a) \in Seq(A) /\ Append(t, a) # <<>> /\ Len(Append(t, a)) = Len(t) + 1
           /\ Append(t, a)[Len(t) + 1] = a
           /\ \A i \in 1..Len(t) : Append(t, a)[i] = t[i]
OBVIOUS

(* What Tail leaves.                                                         *)
LEMMA TailOf ==
    ASSUME NEW A, NEW t \in Seq(A), t # <<>>
    PROVE  /\ Head(t) \in A /\ Tail(t) \in Seq(A) /\ Len(Tail(t)) = Len(t) - 1
           /\ \A i \in 1..Len(Tail(t)) : Tail(t)[i] = t[i + 1]
OBVIOUS

(* What SubSeq takes.                                                        *)
LEMMA SubSeqOf ==
    ASSUME NEW A, NEW t \in Seq(A), NEW m \in Nat \ {0}, NEW n \in 0..Len(t)
    PROVE  /\ SubSeq(t, m, n) \in Seq(A)
           /\ Len(SubSeq(t, m, n)) = IF m <= n THEN n - m + 1 ELSE 0
           /\ \A i \in 1..Len(SubSeq(t, m, n)) : SubSeq(t, m, n)[i] = t[m + i - 1]
OBVIOUS

-----------------------------------------------------------------------------
(* The tree of blocks. *)

\* What makes u the function of which Chains is the last value.
UpTo(u) ==
    u = [n \in 0..Cardinality(Blocks) |->
           IF n = 0 THEN [b \in Tree |-> <<>>]
           ELSE [b \in Tree |-> IF b = Genesis THEN <<>> ELSE Append(u[n - 1][Parent[b]], b)]]

\* The values of f from x on, each computed from the one before by h.
Iterates(f, N, x, h) == f = [n \in 0..N |-> IF n = 0 THEN x ELSE h[f[n - 1]]]

(* A function can be defined by recursion on the numbers up to N.            *)
LEMMA IteratesExist ==
    ASSUME NEW N \in Nat, NEW X, NEW x \in X, NEW h \in [X -> X]
    PROVE  \E f \in [0..N -> X] : Iterates(f, N, x, h)
<1> DEFINE G == {m \in Nat : \E f \in [0..m -> X] : Iterates(f, m, x, h)}
<1>1. 0 \in G
  <2>1. Iterates([n \in 0..0 |-> x], 0, x, h)  BY DEF Iterates
  <2> QED  BY <2>1
<1>2. ASSUME NEW m \in 1..N, m - 1 \in G PROVE m \in G
  <2>1. m \in Nat /\ m # 0 /\ m - 1 \in Nat  OBVIOUS
  <2>2. PICK f \in [0..(m - 1) -> X] : Iterates(f, m - 1, x, h)  BY <1>2
  <2> DEFINE g == [n \in 0..m |-> IF n = m THEN h[f[m - 1]] ELSE f[n]]
  <2>3. f[m - 1] \in X /\ h[f[m - 1]] \in X  BY <2>1, <2>2
  <2>4. g \in [0..m -> X]
    <3>1. \A n \in 0..m : n # m => n \in 0..(m - 1)  BY <2>1
    <3> QED  BY <2>2, <2>3, <3>1
  <2>5. ASSUME NEW n \in 0..m PROVE g[n] = IF n = 0 THEN x ELSE h[g[n - 1]]
    <3>1. CASE n = m
      <4>1. m - 1 \in 0..m /\ m - 1 # m  BY <2>1
      <4> QED  BY <2>1, <3>1, <4>1
    <3>2. CASE n # m
      <4>1. n \in 0..(m - 1) /\ (n # 0 => n - 1 \in 0..(m - 1) /\ n - 1 \in 0..m /\ n - 1 # m)
        BY <2>1, <3>2
      <4>2. f[n] = IF n = 0 THEN x ELSE h[f[n - 1]]  BY <2>2, <4>1 DEF Iterates
      <4> QED  BY <3>2, <4>1, <4>2, Zenon
    <3> QED  BY <3>1, <3>2
  <2>6. Iterates(g, m, x, h)  BY <2>5, Zenon DEF Iterates
  <2> HIDE DEF g
  <2> QED  BY <2>1, <2>4, <2>6
<1> HIDE DEF G
<1>3. \A n \in 0..N : n \in G
  <2>1. G \in SUBSET Nat  BY DEF G
  <2> QED  BY <1>1, <1>2, <2>1, Climb
<1> QED  BY <1>3 DEF G

(* The chains of the blocks are the last of the functions that are computed  *)
(* from each other, and sequences of blocks.                                 *)
LEMMA ChainsDefined ==
    \E u \in [0..Cardinality(Blocks) -> [Tree -> Seq(Blocks)]] :
        UpTo(u) /\ Chains = u[Cardinality(Blocks)]
<1> DEFINE N == Cardinality(Blocks)
           X == [Tree -> Seq(Blocks)]
           empty == [b \in Tree |-> <<>>]
           h == [c \in X |-> [b \in Tree |-> IF b = Genesis THEN <<>> ELSE Append(c[Parent[b]], b)]]
<1>1. N \in Nat  BY BlockChainAssumption
<1>2. <<>> \in Seq(Blocks) /\ empty \in X  BY EmptyOf
<1>3. h \in [X -> X]
  <2> SUFFICES ASSUME NEW c \in X, NEW b \in Blocks PROVE Append(c[Parent[b]], b) \in Seq(Blocks)
    BY <1>2, Zenon DEF Tree
  <2>1. c[Parent[b]] \in Seq(Blocks)  BY BlockChainAssumption DEF Tree
  <2> QED  BY <2>1, AppendOf
<1>4. \A c \in X : h[c] = [b \in Tree |-> IF b = Genesis THEN <<>> ELSE Append(c[Parent[b]], b)]
  BY Zenon
<1> HIDE DEF h, N, X
<1>5. PICK f \in [0..N -> X] : Iterates(f, N, empty, h)  BY <1>1, <1>2, <1>3, IteratesExist, Zenon
<1>6. f = [n \in 0..N |-> IF n = 0 THEN empty
                          ELSE [b \in Tree |-> IF b = Genesis THEN <<>>
                                               ELSE Append(f[n - 1][Parent[b]], b)]]
  <2>1. ASSUME NEW n \in 0..N, n # 0
        PROVE  h[f[n - 1]] = [b \in Tree |-> IF b = Genesis THEN <<>>
                                             ELSE Append(f[n - 1][Parent[b]], b)]
    <3>1. n - 1 \in 0..N  BY <1>1, <2>1
    <3>2. f[n - 1] \in X  BY <1>5, <3>1
    <3> QED  BY <1>4, <3>2, Zenon
  <2> QED  BY <1>5, <2>1, Zenon DEF Iterates
<1>7. UpTo(f)  BY <1>6, Zenon DEF UpTo, N
<1> PICK u : u = CHOOSE v : UpTo(v)  OBVIOUS
<1>8. UpTo(u)  BY <1>7
<1>9. Chains = u[N]  BY DEF Chains, UpTo, N
<1> DEFINE G == {n \in 0..N : u[n] \in X}
<1>10. 0 \in 0..N /\ u[0] \in X
  <2>1. 0 \in 0..N  BY <1>1
  <2>2. u[0] = empty  BY <1>8, <2>1, Zenon DEF UpTo, N
  <2> QED  BY <1>2, <2>1, <2>2
<1>11. ASSUME NEW n \in 1..N, u[n - 1] \in X PROVE u[n] \in X
  <2>1. n \in 0..N /\ n # 0  BY <1>1
  <2>2. u[n] = [b \in Tree |-> IF b = Genesis THEN <<>> ELSE Append(u[n - 1][Parent[b]], b)]
    BY <1>8, <2>1, Zenon DEF UpTo, N
  <2>3. u[n] = h[u[n - 1]]  BY <1>4, <1>11, <2>2, Zenon
  <2> QED  BY <1>3, <1>11, <2>3
<1>12. \A n \in 0..N : n \in G
  <2>1. G \in SUBSET Nat /\ 0 \in G  BY <1>1, <1>10
  <2>2. \A n \in 1..N : n - 1 \in G => n \in G  BY <1>1, <1>11
  <2> HIDE DEF G
  <2> QED  BY <1>1, <2>1, <2>2, Climb
<1>13. u \in [0..N -> X]
  <2>1. u = [n \in 0..N |-> u[n]]  BY <1>8, Zenon DEF UpTo, N
  <2> QED  BY <1>12, <2>1, Zenon
<1> QED  BY <1>8, <1>9, <1>13, Zenon DEF N, X

(* The chain of a block is the one of its parent and the block.  The first   *)
(* functions of the recursion are still growing; a value that has the length *)
(* of the one before is equal to it, and the last one has by the numbers of  *)
(* the headers.                                                              *)
LEMMA ChainOf ==
    /\ Chain(Genesis) = <<>>
    /\ \A b \in Tree : Chain(b) \in Seq(Blocks) /\ Number(b) = Len(Chain(b))
    /\ \A b \in Blocks : Parent[b] \in Tree /\ Chain(b) = Append(Chain(Parent[b]), b)
<1> DEFINE N == Cardinality(Blocks)
<1>1. N \in Nat  BY BlockChainAssumption
<1>2. PICK u \in [0..N -> [Tree -> Seq(Blocks)]] : UpTo(u) /\ Chains = u[N]  BY ChainsDefined, Zenon
<1>3. \A b \in Blocks : b \in Tree /\ b # Genesis /\ Parent[b] \in Tree
  BY BlockChainAssumption DEF Tree
<1>4. N \in 0..N /\ Genesis \in Tree  BY <1>1 DEF Tree
<1>5. \A b \in Tree : u[0][b] = <<>>
  <2>1. 0 \in 0..N  BY <1>1
  <2>2. u[0] = [b \in Tree |-> <<>>]  BY <1>2, <2>1 DEF UpTo
  <2> QED  BY <2>2
<1>6. ASSUME NEW n \in 1..N, NEW b \in Blocks PROVE u[n][b] = Append(u[n - 1][Parent[b]], b)
  <2>1. n \in 0..N /\ n # 0  BY <1>1
  <2>2. u[n] = [c \in Tree |-> IF c = Genesis THEN <<>> ELSE Append(u[n - 1][Parent[c]], c)]
    BY <1>2, <2>1, Zenon DEF UpTo
  <2> QED  BY <1>3, <2>2, Zenon
<1>7. \A n \in 0..N : u[n][Genesis] = <<>>
  <2> SUFFICES ASSUME NEW n \in 0..N PROVE u[n][Genesis] = <<>>  OBVIOUS
  <2>1. CASE n = 0  BY <1>4, <1>5, <2>1
  <2>2. CASE n # 0
    <3>1. u[n] = [c \in Tree |-> IF c = Genesis THEN <<>> ELSE Append(u[n - 1][Parent[c]], c)]
      BY <1>2, <2>2, Zenon DEF UpTo
    <3> QED  BY <1>4, <3>1, Zenon
  <2> QED  BY <2>1, <2>2
<1>8. \A n \in 0..N : \A b \in Tree : u[n][b] \in Seq(Blocks)  BY <1>2
<1> DEFINE Same(n) == \A b \in Tree : Len(u[n][b]) = Len(u[n - 1][b]) => u[n][b] = u[n - 1][b]
           G == {n \in Nat : n + 1 \in 1..N => Same(n + 1)}
<1>9. 1 \in 1..N => Same(1)
  <2> SUFFICES ASSUME 1 \in 1..N, NEW b \in Blocks PROVE Len(u[1][b]) # Len(u[0][b])
    BY <1>4, <1>5, <1>7 DEF Tree
  <2>1. u[1][b] = Append(u[0][Parent[b]], b)  BY <1>6
  <2>2. u[1][b] = Append(<<>>, b) /\ u[0][b] = <<>>  BY <1>3, <1>5, <2>1, Zenon
  <2> QED  BY <2>2
<1>10. ASSUME NEW n \in 2..N, Same(n - 1) PROVE Same(n)
  <2>1. n \in 1..N /\ n - 1 \in 1..N /\ n \in 0..N /\ n - 1 \in 0..N /\ n - 2 \in 0..N /\ n - 1 - 1 = n - 2
    BY <1>1
  <2> SUFFICES ASSUME NEW b \in Blocks, Len(u[n][b]) = Len(u[n - 1][b])
               PROVE  u[n][b] = u[n - 1][b]
    BY <1>4, <1>7, <2>1 DEF Tree
  <2>2. PICK p : p = Parent[b]  OBVIOUS
  <2>3. p \in Tree  BY <1>3, <2>2
  <2>4. u[n][b] = Append(u[n - 1][p], b) /\ u[n - 1][b] = Append(u[n - 2][p], b)
    BY <1>6, <2>1, <2>2
  <2>5. u[n - 1][p] \in Seq(Blocks) /\ u[n - 2][p] \in Seq(Blocks)  BY <1>8, <2>1, <2>3
  <2>6. Len(u[n - 1][p]) = Len(u[n - 2][p])  BY <2>4, <2>5
  <2>7. u[n - 1][p] = u[n - 2][p]  BY <1>10, <2>1, <2>3, <2>6
  <2> QED  BY <2>4, <2>7
<1> HIDE DEF Same
<1>11. \A n \in 1..N : Same(n)
  <2>1. G \in SUBSET Nat /\ 0 \in G  BY <1>9
  <2>2. ASSUME NEW n \in 1..N, n - 1 \in G PROVE n \in G
    <3> SUFFICES ASSUME n + 1 \in 1..N PROVE Same(n + 1)  BY <1>1
    <3>1. n + 1 \in 2..N /\ n - 1 + 1 = n /\ n + 1 - 1 = n  BY <1>1
    <3>2. Same(n)  BY <2>2, <3>1
    <3> QED  BY <1>10, <3>1, <3>2
  <2> HIDE DEF G
  <2>3. \A n \in 0..N : n \in G  BY <1>1, <2>1, <2>2, Climb, Zenon
  <2> SUFFICES ASSUME NEW n \in 1..N PROVE Same(n)  OBVIOUS
  <2>4. n - 1 \in 0..N /\ n - 1 + 1 = n  BY <1>1
  <2> QED  BY <2>3, <2>4 DEF G
<1>12. \A b \in Tree : Chain(b) = u[N][b] /\ Number(b) = Len(u[N][b])  BY <1>2 DEF Chain, Number
<1>13. ASSUME NEW b \in Blocks PROVE Chain(b) = Append(Chain(Parent[b]), b)
  <2>1. N \in 1..N /\ N - 1 \in 0..N
    <3>1. Number(b) = Number(Parent[b]) + 1 /\ b \in Tree /\ Parent[b] \in Tree
      BY <1>3, NumberAssumption
    <3>2. N = 0 => Number(b) = 0 /\ Number(Parent[b]) = 0  BY <1>5, <1>12, <3>1
    <3> QED  BY <1>1, <3>1, <3>2
  <2>2. PICK p : p = Parent[b]  OBVIOUS
  <2>3. p \in Tree /\ b \in Tree  BY <1>3, <2>2
  <2>4. u[N][b] = Append(u[N - 1][p], b)  BY <1>6, <2>1, <2>2
  <2>5. u[N - 1][p] \in Seq(Blocks) /\ u[N][p] \in Seq(Blocks)  BY <1>8, <1>4, <2>1, <2>3
  <2>6. Len(u[N][b]) = Len(u[N][p]) + 1  BY <1>12, <2>2, <2>3, NumberAssumption
  <2>7. Len(u[N][p]) = Len(u[N - 1][p])  BY <2>4, <2>5, <2>6
  <2>8. u[N][p] = u[N - 1][p]  BY <1>11, <2>1, <2>3, <2>7, Zenon DEF Same
  <2> QED  BY <1>12, <2>2, <2>3, <2>4, <2>8, Zenon
<1> HIDE DEF N
<1>14. Chain(Genesis) = <<>>  BY <1>4, <1>7, <1>12
<1>15. \A b \in Tree : Chain(b) \in Seq(Blocks) /\ Number(b) = Len(Chain(b))
  BY <1>4, <1>8, <1>12
<1> QED  BY <1>3, <1>13, <1>14, <1>15

(* The numbers of the blocks, and where the chain of a block differs from    *)
(* the one of its parent.                                                    *)
LEMMA NumberOf ==
    /\ Genesis \in Tree
    /\ \A b \in Tree : Number(b) \in Nat /\ (Number(b) = 0 <=> b = Genesis)
    /\ \A b \in Blocks :
          /\ b \in Tree /\ Parent[b] \in Tree /\ Number(b) \in Numbers
          /\ Number(b) = Number(Parent[b]) + 1
          /\ Chain(b)[Number(b)] = b
          /\ \A n \in 1..Number(Parent[b]) : Chain(b)[n] = Chain(Parent[b])[n]
<1>1. \A b \in Tree : Number(b) \in Nat  BY ChainOf, LengthOf
<1>2. ASSUME NEW b \in Blocks
      PROVE  /\ Parent[b] \in Tree /\ b \in Tree /\ Number(b) = Number(Parent[b]) + 1
             /\ Chain(b)[Number(b)] = b
             /\ \A n \in 1..Number(Parent[b]) : Chain(b)[n] = Chain(Parent[b])[n]
  <2>1. PICK p \in Tree : p = Parent[b]  BY ChainOf
  <2>2. PICK c \in Seq(Blocks) : c = Chain(p) /\ Number(p) = Len(c)  BY ChainOf
  <2>3. Chain(b) = Append(c, b) /\ Number(b) = Len(Append(c, b)) /\ b \in Tree
    BY <2>1, <2>2, ChainOf, Zenon DEF Tree
  <2>4. /\ Len(Append(c, b)) = Len(c) + 1 /\ Append(c, b)[Len(c) + 1] = b
        /\ \A n \in 1..Len(c) : Append(c, b)[n] = c[n]
    BY <2>2, AppendOf
  <2> QED  BY <2>1, <2>2, <2>3, <2>4
<1>3. Genesis \in Tree /\ Number(Genesis) = 0  BY ChainOf, EmptyOf DEF Tree
<1>4. \A b \in Tree : Number(b) = 0 <=> b = Genesis  BY <1>1, <1>2, <1>3 DEF Tree
<1> QED  BY <1>1, <1>2, <1>3, <1>4 DEF Numbers

(* Every block is an ancestor of itself, and an ancestor's ancestor is one.  *)
(* Two ancestors of a block are on one chain, and equal if they have the     *)
(* same number.                                                              *)
LEMMA AncestorFacts ==
    ASSUME NEW a \in Tree, NEW b \in Tree
    PROVE  /\ Ancestor(a, a) /\ Ancestor(Genesis, a)
           /\ a \in Blocks => Ancestor(Parent[a], a)
           /\ \A c \in Tree : Ancestor(a, b) /\ Ancestor(b, c) => Ancestor(a, c)
           /\ \A c \in Tree : /\ Ancestor(a, c) /\ Ancestor(b, c) /\ Number(a) <= Number(b)
                              => Ancestor(a, b)
           /\ Ancestor(a, b) /\ Number(a) = Number(b) => a = b
<1>1. Ancestor(a, a) /\ Ancestor(Genesis, a)  BY NumberOf DEF Ancestor
<1>2. a \in Blocks => Ancestor(Parent[a], a)  BY NumberOf DEF Ancestor
<1>3. ASSUME NEW c \in Tree, Ancestor(a, b), Ancestor(b, c) PROVE Ancestor(a, c)
  <2>1. Number(a) \in Nat /\ Number(b) \in Nat /\ Number(c) \in Nat  BY NumberOf
  <2> QED  BY <1>3, <2>1 DEF Ancestor
<1>4. ASSUME NEW c \in Tree, Ancestor(a, c), Ancestor(b, c), Number(a) <= Number(b)
      PROVE  Ancestor(a, b)
  <2>1. Number(a) \in Nat /\ Number(b) \in Nat /\ Number(c) \in Nat  BY NumberOf
  <2> QED  BY <1>4, <2>1 DEF Ancestor
<1>5. ASSUME Ancestor(a, b), Number(a) = Number(b) PROVE a = b
  <2>1. CASE a = Genesis  BY <1>5, <2>1, NumberOf
  <2>2. CASE a # Genesis
    <3>1. Number(a) \in Nat /\ Number(a) # 0 /\ Number(b) # 0  BY <1>5, <2>2, NumberOf
    <3>2. a \in Blocks /\ b \in Blocks  BY <2>2, <3>1, NumberOf DEF Tree
    <3>3. Chain(a)[Number(a)] = Chain(b)[Number(a)]  BY <1>5, <3>1 DEF Ancestor
    <3> QED  BY <1>5, <3>2, <3>3, NumberOf
  <2> QED  BY <2>1, <2>2
<1> QED  BY <1>1, <1>2, <1>3, <1>4, <1>5

(* The blocks of the chain of a block are its ancestors, by their numbers.   *)
LEMMA BlockOfChain ==
    ASSUME NEW b \in Tree, NEW n \in 1..Number(b)
    PROVE  /\ Chain(b)[n] \in Blocks /\ Number(Chain(b)[n]) = n
           /\ Ancestor(Chain(b)[n], b)
<1> DEFINE Good(c) == \A i \in 1..Number(c) : /\ Chain(c)[i] \in Blocks
                                              /\ Number(Chain(c)[i]) = i
                                              /\ Ancestor(Chain(c)[i], c)
           G == {k \in Nat : \A c \in Tree : Number(c) = k => Good(c)}
<1>1. 0 \in G  OBVIOUS
<1>2. ASSUME NEW k \in Nat, k # 0, k - 1 \in G, NEW c \in Tree, Number(c) = k PROVE Good(c)
  <2>1. c \in Blocks  BY <1>2, NumberOf DEF Tree
  <2>2. PICK p \in Tree : p = Parent[c]  BY <2>1, NumberOf
  <2>3. Number(p) = k - 1 /\ Number(p) \in Nat  BY <1>2, <2>1, <2>2, NumberOf
  <2>4. Good(p)  BY <1>2, <2>3
  <2>5. ASSUME NEW i \in 1..k
        PROVE  Chain(c)[i] \in Blocks /\ Number(Chain(c)[i]) = i /\ Ancestor(Chain(c)[i], c)
    <3>1. CASE i = k  BY <1>2, <2>1, <3>1, NumberOf, AncestorFacts
    <3>2. CASE i # k
      <4>1. i \in 1..Number(p)  BY <2>3, <3>2
      <4>2. Chain(c)[i] = Chain(p)[i]  BY <2>1, <2>2, <4>1, NumberOf
      <4>3. Chain(p)[i] \in Blocks /\ Number(Chain(p)[i]) = i /\ Ancestor(Chain(p)[i], p)
        BY <2>4, <4>1
      <4>4. Ancestor(p, c) /\ Chain(p)[i] \in Tree  BY <2>1, <2>2, <4>3, AncestorFacts, NumberOf
      <4> QED  BY <4>2, <4>3, <4>4, AncestorFacts
    <3> QED  BY <3>1, <3>2
  <2> QED  BY <1>2, <2>5
<1> HIDE DEF Good
<1>3. Number(b) \in Nat  BY NumberOf
<1>4. \A k \in 0..Number(b) : k \in G
  <2>1. G \in SUBSET Nat  OBVIOUS
  <2>2. \A k \in 1..Number(b) : k - 1 \in G => k \in G
    <3> SUFFICES ASSUME NEW k \in 1..Number(b), k - 1 \in G PROVE k \in G  OBVIOUS
    <3>1. k \in Nat /\ k # 0  BY <1>3
    <3> QED  BY <1>2, <3>1
  <2> HIDE DEF G
  <2> QED  BY <1>1, <1>3, <2>1, <2>2, Climb
<1>5. Good(b)  BY <1>3, <1>4
<1> QED  BY <1>5 DEF Good

-----------------------------------------------------------------------------
(* Types. *)

\* The stages in which an operation has a block to write.
Writing == {"write", "commit", "choose", "reorg", "head"}

\* What an operation has at a stage.
Staged(o) ==
    o # None => /\ o.stage \in Writing => o.todo # <<>>
                /\ o.stage = "side" => o.side # None
                /\ o.stage = "commit" => o.old \in Blocks \cup {None}
                /\ o.stage = "rewind" => o.kind = "rewind" /\ o.old \in Nat
                /\ o.kind = "rewind" => o.stage \in {"rewind", "unlock"}

\* o with another stage.
AtStage(o, stage) == [o EXCEPT !.stage = stage]

(* The fields of an operation.                                               *)
LEMMA Fields ==
    ASSUME NEW o \in Operation
    PROVE  /\ o # None /\ o.kind \in {"insert", "mine", "rewind"} /\ o.trim \in BOOLEAN
           /\ o.todo \in Seq(Blocks) /\ o.path \in Seq(Blocks) /\ o.from \in Tree
           /\ o.last \in Blocks \cup {None} /\ o.side \in Blocks \cup {None}
           /\ o.old \in Blocks \cup {None} \cup Nat
           /\ o.stage \in Writing \cup {"next", "side", "unlock", "rewind"}
<1>1. o # None  BY NoneAssumption
<1> QED  BY <1>1 DEF Operation, Writing

(* The block that an operation is about to write.                            *)
LEMMA NextBlock ==
    ASSUME NEW todo \in Seq(Blocks), todo # <<>>
    PROVE  /\ todo[1] \in Blocks /\ Tail(todo) \in Seq(Blocks) /\ Parent[todo[1]] \in Tree
           /\ Number(todo[1]) \in Numbers
<1>1. todo[1] \in Blocks /\ Tail(todo) \in Seq(Blocks)
  BY EmptyOf, LengthOf, TailOf
<1> QED  BY <1>1, NumberOf

(* The initial operation and the changes of stage.                           *)
LEMMA NewOperation ==
    ASSUME NEW kind \in {"insert", "mine", "rewind"}, NEW todo \in Seq(Blocks),
           NEW stage \in Writing \cup {"next", "side", "unlock", "rewind"}, head \in Tree
    PROVE  Op(kind, todo, stage) \in Operation
BY EmptyOf DEF Op, Operation, Writing

(* An operation that is sent to its end keeps what it has.                   *)
LEMMA Unlocks ==
    ASSUME NEW o \in Operation
    PROVE  /\ AtStage(o, "unlock") \in Operation /\ Staged(AtStage(o, "unlock"))
           /\ AtStage(o, "unlock").kind = o.kind /\ AtStage(o, "unlock").from = o.from
           /\ AtStage(o, "unlock").stage = "unlock" /\ AtStage(o, "unlock").last = o.last
<1>1. AtStage(o, "unlock") \in Operation  BY DEF AtStage, Operation
<1> QED  BY <1>1, Fields DEF AtStage, Staged, Writing, Operation

(* What an operation goes on with after a block.                             *)
LEMMA ContinueOf ==
    ASSUME op \in Operation, op.todo # <<>>
    PROVE  /\ Continue \in Operation /\ Continue.stage \in {"next", "unlock"}
           /\ Continue.kind = op.kind /\ Continue.from = op.from
<1>1. Tail(op.todo) \in Seq(Blocks) /\ <<>> \in Seq(Blocks)  BY Fields, NextBlock, EmptyOf
<1> QED  BY <1>1, Zenon DEF Continue, Operation

(* The blocks that a reorganisation to b writes are those of b's chain from  *)
(* some number on up to its parent, and the head is on the chain below.      *)
LEMMA NewChainOf ==
    ASSUME head \in Tree, NEW b \in Blocks
    PROVE  /\ Fork(b) \in Nat /\ Fork(b) <= Number(head) /\ Fork(b) <= Number(b)
           /\ \A n \in 1..Fork(b) : Chain(head)[n] = Chain(b)[n]
           /\ \A n \in 1..Number(head) :
                n > Fork(b) /\ n <= Number(b) => Chain(head)[n] # Chain(b)[n]
           /\ NewChain(b) \in Seq(Blocks)
           /\ Fork(b) < Number(b) => Len(NewChain(b)) = Number(b) - 1 - Fork(b)
           /\ Fork(b) = Number(b) => NewChain(b) = <<>>
           /\ \A i \in 1..Len(NewChain(b)) : NewChain(b)[i] = Chain(b)[Fork(b) + i]
<1>1. Number(head) \in Nat /\ Number(b) \in Nat /\ b \in Tree  BY NumberOf
<1>2. PICK S : S = {0} \cup {n \in 1..Number(head) : n <= Number(b) /\ Chain(head)[n] = Chain(b)[n]}
  BY Zenon
<1>3. S \in SUBSET (0..Number(head)) /\ 0 \in S  BY <1>1, <1>2
<1>4. PICK k : k = Fork(b)  OBVIOUS
<1>5. k \in S /\ k \in Nat /\ \A n \in S : n <= k  BY <1>1, <1>2, <1>3, <1>4, MaxOf, Zenon DEF Fork
<1>6. k <= Number(head) /\ k <= Number(b)  BY <1>1, <1>2, <1>5
<1>7. ASSUME NEW n \in 1..k PROVE Chain(head)[n] = Chain(b)[n]
  <2>1. k \in 1..Number(head) /\ k \in 1..Number(b) /\ Chain(head)[k] = Chain(b)[k]
    BY <1>1, <1>2, <1>5, <1>6
  <2>2. PICK a \in Blocks : a = Chain(b)[k] /\ Number(a) = k /\ Ancestor(a, b) /\ Ancestor(a, head)
    BY <1>1, <2>1, BlockOfChain
  <2> QED  BY <1>5, <2>2 DEF Ancestor
<1>8. \A n \in 1..Number(head) : n > k /\ n <= Number(b) => Chain(head)[n] # Chain(b)[n]
  BY <1>1, <1>2, <1>5
<1>9. PICK c \in Seq(Blocks) : c = Chain(b) /\ Len(c) = Number(b)  BY <1>1, ChainOf
<1>10. PICK s : s = SubSeq(c, k + 1, Number(b) - 1) /\ s = NewChain(b)
  BY <1>4, <1>9, Zenon DEF NewChain
<1>11. /\ s \in Seq(Blocks)
       /\ Len(s) = IF k + 1 <= Number(b) - 1 THEN Number(b) - 1 - k ELSE 0
       /\ \A i \in 1..Len(s) : s[i] = c[k + i]
  <2>1. \A i \in (k + 1)..(Number(b) - 1) : i \in 1..Len(c)  BY <1>1, <1>5, <1>9
  <2> QED  BY <1>1, <1>5, <1>9, <1>10, <2>1, SubSeqOf
<1>12. k < Number(b) => Len(s) = Number(b) - 1 - k  BY <1>1, <1>5, <1>11
<1>13. k = Number(b) => s = <<>>
  <2>1. k = Number(b) => Len(s) = 0  BY <1>1, <1>5, <1>11
  <2> QED  BY <2>1, <1>11, EmptyOf
<1> QED  BY <1>4, <1>5, <1>6, <1>7, <1>8, <1>9, <1>10, <1>11, <1>12, <1>13, Zenon

(* The head that a restart finds is the last ancestor with its state.        *)
LEMMA LoadedOf ==
    ASSUME head \in Tree, NEW states \in SUBSET Blocks
    PROVE  /\ Loaded(states) \in Tree /\ Ancestor(Loaded(states), head)
           /\ Loaded(states) \in states \cup {Genesis}
           /\ head \in states \cup {Genesis} => Loaded(states) = head
<1>1. Number(head) \in Nat  BY NumberOf
<1>2. PICK S : S = {0} \cup {n \in 1..Number(head) : Chain(head)[n] \in states}  BY Zenon
<1>3. S \in SUBSET (0..Number(head)) /\ 0 \in S  BY <1>1, <1>2
<1>4. PICK k : k = Max(S)  OBVIOUS
<1>5. k \in S /\ k \in Nat /\ \A n \in S : n <= k  BY <1>1, <1>3, <1>4, MaxOf
<1>6. Loaded(states) = IF k = 0 THEN Genesis ELSE Chain(head)[k]  BY <1>2, <1>4 DEF Loaded
<1>7. CASE k = 0
  <2>1. Loaded(states) = Genesis /\ Genesis \in Tree /\ Ancestor(Genesis, head)
    BY <1>6, <1>7, NumberOf, AncestorFacts
  <2>2. ASSUME head \in states, head # Genesis PROVE FALSE
    <3>1. Number(head) \in 1..Number(head)  BY <1>1, <2>2, NumberOf
    <3>2. head \in Blocks  BY <2>2
    <3>3. Number(head) \in S  BY <1>2, <2>2, <3>1, <3>2, NumberOf
    <3> QED  BY <1>1, <1>5, <1>7, <3>1, <3>3
  <2> QED  BY <2>1, <2>2
<1>8. CASE k # 0
  <2>1. k \in 1..Number(head) /\ Chain(head)[k] \in states  BY <1>2, <1>5, <1>8
  <2>2. Chain(head)[k] \in Blocks /\ Ancestor(Chain(head)[k], head)  BY <2>1, BlockOfChain
  <2>3. head # Genesis  BY <1>1, <2>1, NumberOf
  <2>4. head \in states => Chain(head)[k] = head
    <3> SUFFICES ASSUME head \in states PROVE Chain(head)[k] = head  OBVIOUS
    <3>1. head \in Blocks /\ Number(head) \in 1..Number(head)  BY <1>1, <2>1
    <3>2. Number(head) \in S  BY <1>2, <3>1, NumberOf
    <3>3. k = Number(head)  BY <1>1, <1>5, <2>1, <3>2
    <3> QED  BY <3>1, <3>3, NumberOf
  <2> QED  BY <1>6, <1>8, <2>1, <2>2, <2>3, <2>4 DEF Tree
<1> QED  BY <1>7, <1>8

(* The initial state is well typed.                                          *)
LEMMA InitTypes ==
    ASSUME Init
    PROVE  TypeOK /\ Staged(op)
<1>1. Genesis \in Tree /\ faults \in 0..MaxFaults  BY BlockChainAssumption, NumberOf DEF Init
<1>2. {archive, announced, crashed} \subseteq BOOLEAN  BY Zenon DEF Init
<1>3. canon \in [Numbers -> Blocks \cup {None}] /\ meta \in [Numbers -> Blocks \cup {None}]
  BY DEF Init
<1> QED  BY <1>1, <1>2, <1>3 DEF Init, TypeOK, Staged

(* Every step keeps the types, and an operation what its stage needs.        *)
LEMMA TypeStep ==
    ASSUME TypeOK, Staged(op), Next
    PROVE  TypeOK' /\ Staged(op)'
<1> USE DEF dbVars, others
<1>0. /\ op \in Operation \cup {None} /\ head \in Tree /\ header \in Tree
      /\ canon \in [Numbers -> Blocks \cup {None}] /\ meta \in [Numbers -> Blocks \cup {None}]
  BY DEF TypeOK
<1>1. ASSUME NEW batch \in Batches, InsertChain(batch) PROVE TypeOK' /\ Staged(op)'
  <2>1. batch \in Seq(Blocks)  BY DEF Batches
  <2>2. op' \in Operation  BY <1>0, <1>1, <2>1, NewOperation DEF InsertChain
  <2>3. op'.stage = "next" /\ op'.kind = "insert"  BY <1>1 DEF InsertChain, Op
  <2>4. Staged(op)'  BY <2>3 DEF Staged, Writing
  <2> QED  BY <1>1, <2>2, <2>4 DEF InsertChain, TypeOK
<1>2. CASE SkipKnown
  <2>1. op \in Operation /\ op.todo # <<>> /\ op.stage = "next"
    BY <1>0, <1>2 DEF SkipKnown, At, Known
  <2>2. op.todo[1] \in Blocks /\ Tail(op.todo) \in Seq(Blocks)  BY <2>1, Fields, NextBlock
  <2>3. op' \in Operation  BY <1>2, <2>1, <2>2, Zenon DEF SkipKnown, Operation, Next1
  <2>4. op'.stage = op.stage /\ op'.kind = op.kind  BY <1>2, <2>1 DEF SkipKnown, Operation
  <2>5. Staged(op)'  BY <2>1, <2>3, <2>4, Fields DEF Staged, Writing
  <2> QED  BY <1>2, <2>3, <2>5 DEF SkipKnown, TypeOK
<1>3. CASE Finish
  <2>1. op \in Operation  BY <1>0, <1>3 DEF Finish, At
  <2>2. PICK o : o = IF Nested THEN [op EXCEPT !.last = None] ELSE op  BY Zenon
  <2>3. o \in Operation  BY <2>1, <2>2 DEF Operation
  <2>4. op' = AtStage(o, "unlock") /\ caller' = "idle"
    BY <1>3, <2>2 DEF Finish, Reply, AtStage
  <2>5. announced' \in BOOLEAN  BY <1>3 DEF Finish, TypeOK
  <2> QED  BY <1>3, <2>3, <2>4, <2>5, Unlocks DEF Finish, TypeOK
<1>4. CASE RejectBlock
  <2>1. op \in Operation /\ op' = AtStage(op, "unlock")
    BY <1>0, <1>4 DEF RejectBlock, At, Goto, AtStage
  <2> QED  BY <1>4, <2>1, Unlocks DEF RejectBlock, TypeOK
<1>5. CASE InsertSideBlock
  <2>1. op \in Operation /\ op.todo # <<>> /\ op.stage \in {"next", "side"}
    BY <1>0, <1>5 DEF InsertSideBlock, At, Pruned, New
  <2>2. op.todo[1] \in Blocks /\ Tail(op.todo) \in Seq(Blocks) /\ Number(op.todo[1]) \in Numbers
    BY <2>1, Fields, NextBlock
  <2>3. op' \in Operation  BY <1>5, <2>1, <2>2, Zenon DEF InsertSideBlock, Operation, Next1
  <2>4. op'.stage = "side" /\ op'.kind = op.kind /\ op'.side = op.todo[1]
    BY <1>5, <2>1 DEF InsertSideBlock, Operation, Next1
  <2>5. op.kind # "rewind"  BY <2>1, Fields DEF Staged
  <2>6. Staged(op)'  BY <2>2, <2>4, <2>5, BlockChainAssumption DEF Staged, Writing
  <2>7. stored' \subseteq Blocks /\ meta' \in [Numbers -> Blocks \cup {None}]
    BY <1>0, <1>5, <2>2 DEF InsertSideBlock, Next1, TypeOK
  <2> QED  BY <1>5, <2>3, <2>6, <2>7 DEF InsertSideBlock, TypeOK
<1>6. CASE ImportSideChain
  <2>1. op \in Operation /\ op.stage = "side" /\ op.kind # "rewind"
    BY <1>0, <1>6, Fields DEF ImportSideChain, At, Staged
  <2>2. CASE op' = AtStage(op, "unlock") /\ caller' = "idle"
    BY <1>6, <2>1, <2>2, Unlocks DEF ImportSideChain, TypeOK
  <2>3. CASE ~(op' = AtStage(op, "unlock") /\ caller' = "idle")
    <3>1. op.side \in Tree  BY <2>1, Fields DEF Staged, Tree
    <3>2. PICK c \in Seq(Blocks) : c = Chain(op.side) /\ Len(c) \in Nat
      BY <3>1, ChainOf, LengthOf
    <3>3. PICK k : k = Max({0} \cup {n \in DOMAIN c : HasBlock(c[n]) /\ HasState(c[n])})  BY Zenon
    <3>4. k \in Nat
      <4>1. PICK S : S = {0} \cup {n \in DOMAIN c : HasBlock(c[n]) /\ HasState(c[n])}  BY Zenon
      <4>2. S \in SUBSET (0..Len(c)) /\ 0 \in S  BY <3>2, <4>1
      <4> QED  BY <3>2, <3>3, <4>1, <4>2, MaxOf, Zenon
    <3>5. op' = [op EXCEPT !.todo = SubSeq(c, k + 1, Len(c)), !.stage = "next"] /\ caller' = caller
      BY <1>6, <2>3, <3>2, <3>3 DEF ImportSideChain, Reply, AtStage
    <3>6. SubSeq(c, k + 1, Len(c)) \in Seq(Blocks)  BY <3>2, <3>4
    <3>7. op' \in Operation  BY <2>1, <3>5, <3>6, Zenon DEF Operation
    <3>8. op'.stage = "next" /\ op'.kind = op.kind  BY <2>1, <3>5 DEF Operation
    <3>9. Staged(op)'  BY <2>1, <3>8 DEF Staged, Writing
    <3> QED  BY <1>6, <3>5, <3>7, <3>9 DEF ImportSideChain, TypeOK
  <2> QED  BY <2>2, <2>3
<1>7. CASE WriteBlock
  <2>1. op \in Operation /\ op.todo # <<>> /\ op.stage \in {"next", "write"}
    BY <1>0, <1>7 DEF WriteBlock, At, Runs, New, Staged, Writing
  <2>2. op.todo[1] \in Blocks /\ Number(op.todo[1]) \in Numbers  BY <2>1, Fields, NextBlock
  <2>3. meta[Number(op.todo[1])] \in Blocks \cup {None}  BY <1>0, <2>2
  <2>4. op' \in Operation  BY <1>7, <2>1, <2>3, Zenon DEF WriteBlock, Operation, Next1
  <2>5. /\ op'.stage = "commit" /\ op'.kind = op.kind /\ op'.todo = op.todo
        /\ op'.old = meta[Number(op.todo[1])]
    BY <1>7, <2>1 DEF WriteBlock, Operation, Next1
  <2>6. op.kind # "rewind"  BY <2>1, Fields DEF Staged
  <2>7. Staged(op)'  BY <2>1, <2>3, <2>5, <2>6 DEF Staged
  <2>8. stored' \subseteq Blocks /\ meta' \in [Numbers -> Blocks \cup {None}]
    BY <1>0, <1>7, <2>2 DEF WriteBlock, Next1, TypeOK
  <2> QED  BY <1>7, <2>4, <2>7, <2>8 DEF WriteBlock, TypeOK
<1>8. CASE ParentGone
  <2>1. op \in Operation /\ op' = AtStage(op, "unlock")
    BY <1>0, <1>8 DEF ParentGone, At, Goto, AtStage
  <2> QED  BY <1>8, <2>1, Unlocks DEF ParentGone, TypeOK
<1>9. CASE CommitState
  <2>1. op \in Operation /\ op.stage = "commit" /\ op.todo # <<>> /\ op.kind # "rewind"
    BY <1>0, <1>9, Fields DEF CommitState, At, Staged, Writing
  <2>2. op.todo[1] \in Blocks  BY <2>1, Fields, NextBlock
  <2>3. op' \in Operation  BY <1>9, <2>1 DEF CommitState, Goto, Operation
  <2>4. op'.stage = "choose" /\ op'.kind = op.kind /\ op'.todo = op.todo
    BY <1>9, <2>1 DEF CommitState, Goto, Operation
  <2>5. Staged(op)'  BY <2>1, <2>4 DEF Staged
  <2>6. disk' \subseteq Blocks /\ mem' \subseteq Blocks  BY <1>9, <2>2 DEF CommitState, Next1, TypeOK
  <2> QED  BY <1>9, <2>3, <2>5, <2>6 DEF CommitState, TypeOK
<1>10. CASE CommitFails
  <2>1. op \in Operation /\ op.stage = "commit" /\ op.todo # <<>> /\ op.kind # "rewind"
    BY <1>0, <1>10, Fields DEF CommitFails, At, Staged, Writing
  <2>2. op' = AtStage(op, "unlock") /\ caller' \in {"idle", "waiting"}
    BY <1>10 DEF CommitFails, Fail, Reply, Goto, AtStage, TypeOK
  <2>3. Number(op.todo[1]) \in Numbers  BY <2>1, Fields, NextBlock
  <2>4. meta' \in [Numbers -> Blocks \cup {None}]
    <3>1. CASE op.old \in Blocks  BY <1>0, <1>10, <2>3, <3>1 DEF CommitFails, Next1
    <3>2. CASE op.old = None  BY <1>0, <1>10, <3>2 DEF CommitFails
    <3>3. op.old \in Blocks \cup {None}  BY <2>1, Fields DEF Staged
    <3> QED  BY <3>1, <3>2, <3>3
  <2>5. faults' \in 0..MaxFaults  BY <1>10, BlockChainAssumption DEF CommitFails, Fault, TypeOK
  <2> QED  BY <1>10, <2>1, <2>2, <2>4, <2>5, Unlocks DEF CommitFails, TypeOK
<1>11. CASE BeginReorg
  <2>1. op \in Operation /\ op.stage = "choose" /\ op.todo # <<>> /\ op.kind # "rewind"
    BY <1>0, <1>11, Fields DEF BeginReorg, At, Staged, Writing
  <2>2. CASE op' = AtStage(op, "unlock")
    <3>1. caller' \in {"idle", "waiting"}  BY <1>11 DEF BeginReorg, Fail, Reply, Goto, TypeOK
    <3> QED  BY <1>11, <2>1, <2>2, <3>1, Unlocks DEF BeginReorg, TypeOK
  <2>3. CASE op' # AtStage(op, "unlock")
    <3>1. PICK b \in Blocks : b = op.todo[1] /\ b \in Tree  BY <2>1, Fields, NextBlock, NumberOf
    <3>2. op' = [op EXCEPT !.stage = "reorg", !.path = NewChain(b)] /\ caller' = caller
      BY <1>11, <2>3, <3>1 DEF BeginReorg, Fail, Reply, Goto, AtStage, Next1
    <3>3. NewChain(b) \in Seq(Blocks)  BY <1>0, <3>1, NewChainOf
    <3>4. op' \in Operation  BY <2>1, <3>2, <3>3, Zenon DEF Operation
    <3>5. op'.stage = "reorg" /\ op'.kind = op.kind /\ op'.todo = op.todo
      BY <2>1, <3>2 DEF Operation
    <3>6. Staged(op)'  BY <2>1, <3>5 DEF Staged
    <3> QED  BY <1>11, <3>2, <3>4, <3>6 DEF BeginReorg, TypeOK
  <2> QED  BY <2>2, <2>3
<1>12. CASE StaySide
  <2>1. op \in Operation /\ op.stage = "choose" /\ op.todo # <<>> /\ op.kind # "rewind"
    BY <1>0, <1>12, Fields DEF StaySide, At, Staged, Writing
  <2>2. Continue \in Operation /\ Continue.stage \in {"next", "unlock"} /\ Continue.kind = op.kind
    BY <2>1, ContinueOf
  <2>3. Staged(op)'  BY <1>12, <2>1, <2>2 DEF StaySide, Staged, Writing
  <2> QED  BY <1>12, <2>2, <2>3 DEF StaySide, TypeOK
<1>13. CASE ReorgBlock
  <2>1. op \in Operation /\ op.stage = "reorg" /\ op.todo # <<>> /\ op.kind # "rewind" /\ op.path # <<>>
    BY <1>0, <1>13, Fields DEF ReorgBlock, At, Staged, Writing
  <2>2. op.path[1] \in Blocks /\ Tail(op.path) \in Seq(Blocks)  BY <2>1, Fields, NextBlock
  <2>3. op' \in Operation  BY <1>13, <2>1, <2>2, Zenon DEF ReorgBlock, Operation
  <2>4. op'.stage = op.stage /\ op'.kind = op.kind /\ op'.todo = op.todo
    BY <1>13, <2>1 DEF ReorgBlock, Operation
  <2>5. Staged(op)'  BY <2>1, <2>4 DEF Staged
  <2>6. /\ canon' \in [Numbers -> Blocks \cup {None}] /\ head' \in Tree /\ header' \in Tree
        /\ announced' \in BOOLEAN
    BY <1>0, <1>13, <2>2, NumberOf, Zenon DEF ReorgBlock, writeHeadBlock
  <2> QED  BY <1>13, <2>3, <2>5, <2>6 DEF ReorgBlock, TypeOK
<1>14. CASE DeleteIndexes
  <2>1. op \in Operation /\ op.stage = "reorg" /\ op.todo # <<>> /\ op.kind # "rewind"
    BY <1>0, <1>14, Fields DEF DeleteIndexes, At, Staged, Writing
  <2>2. op' \in Operation  BY <1>14, <2>1 DEF DeleteIndexes, Goto, Operation
  <2>3. op'.stage = "head" /\ op'.kind = op.kind /\ op'.todo = op.todo
    BY <1>14, <2>1 DEF DeleteIndexes, Goto, Operation
  <2>4. Staged(op)'  BY <2>1, <2>3 DEF Staged
  <2>5. canon' \in [Numbers -> Blocks \cup {None}]  BY <1>0, <1>14 DEF DeleteIndexes
  <2> QED  BY <1>14, <2>2, <2>4, <2>5 DEF DeleteIndexes, TypeOK
<1>15. CASE WriteHead
  <2>1. op \in Operation /\ op.stage \in {"choose", "head"} /\ op.todo # <<>> /\ op.kind # "rewind"
    BY <1>0, <1>15, Fields DEF WriteHead, At, Staged, Writing
  <2>2. op.todo[1] \in Blocks  BY <2>1, Fields, NextBlock
  <2>3. Continue \in Operation /\ Continue.stage \in {"next", "unlock"} /\ Continue.kind = op.kind
    BY <2>1, ContinueOf
  <2>4. op' = [Continue EXCEPT !.last = op.todo[1]]  BY <1>15 DEF WriteHead, Next1
  <2>5. op' \in Operation /\ op'.stage = Continue.stage /\ op'.kind = op.kind
    <3>1. PICK o \in Operation : o = Continue  BY <2>3
    <3> QED  BY <2>2, <2>3, <2>4, <3>1 DEF Operation
  <2>6. Staged(op)'  BY <2>1, <2>3, <2>5 DEF Staged, Writing
  <2>7. /\ canon' \in [Numbers -> Blocks \cup {None}] /\ head' \in Tree /\ header' \in Tree
        /\ announced' \in BOOLEAN
    BY <1>0, <1>15, <2>2, NumberOf, Zenon DEF WriteHead, writeHeadBlock, Next1
  <2> QED  BY <1>15, <2>5, <2>6, <2>7 DEF WriteHead, TypeOK
<1>16. CASE Unlock
  <2>1. op \in Operation /\ op' = None  BY <1>0, <1>16 DEF Unlock, At
  <2>2. op.last \in Blocks \cup {None}  BY <2>1, Fields
  <2>3. late' \subseteq Blocks /\ announced' \in BOOLEAN  BY <1>16, <2>2, Zenon DEF Unlock, TypeOK
  <2> QED  BY <1>16, <2>1, <2>3 DEF Unlock, TypeOK, Staged
<1>17. CASE RewindHeader
  <2>1. op \in Operation /\ op.stage = "rewind" /\ op.kind = "rewind" /\ op.old \in Nat
    BY <1>0, <1>17, Fields DEF RewindHeader, At, Staged
  <2>2. header \in Blocks /\ Parent[header] \in Tree
    <3>1. Number(header) # 0  BY <1>0, <1>17, <2>1, NumberOf DEF RewindHeader
    <3>2. header \in Blocks  BY <1>0, <3>1, NumberOf DEF Tree
    <3> QED  BY <3>2, NumberOf
  <2>3. op' = [op EXCEPT !.path = Append(@, header)]  BY <1>17 DEF RewindHeader
  <2>4. Append(op.path, header) \in Seq(Blocks)  BY <2>1, <2>2, Fields, AppendOf
  <2>5. op' \in Operation  BY <2>1, <2>3, <2>4, Zenon DEF Operation
  <2>6. op'.stage = op.stage /\ op'.kind = op.kind /\ op'.old = op.old
    BY <2>1, <2>3 DEF Operation
  <2>7. Staged(op)'  BY <2>1, <2>6 DEF Staged, Writing
  <2>8. head' \in Tree /\ header' \in Tree
    BY <1>0, <1>17, <2>2, NumberOf DEF RewindHeader
  <2> QED  BY <1>17, <2>5, <2>7, <2>8 DEF RewindHeader, TypeOK
<1>18. CASE DeleteRewound
  <2>1. op \in Operation /\ op' = AtStage(op, "unlock")
    BY <1>0, <1>18 DEF DeleteRewound, At, Goto, AtStage
  <2>2. canon' \in [Numbers -> Blocks \cup {None}]  BY <1>0, <1>18 DEF DeleteRewound
  <2> QED  BY <1>18, <2>1, <2>2, Unlocks DEF DeleteRewound, TypeOK
<1>19. ASSUME NEW b \in late, Announce(b) PROVE TypeOK' /\ Staged(op)'
  BY <1>19 DEF Announce, TypeOK, Staged
<1>20. ASSUME NEW b \in Own, Seal(b) PROVE TypeOK' /\ Staged(op)'
  BY <1>20, BlockChainAssumption DEF Seal, TypeOK, Staged
<1>21. CASE CheckDuplicate
  <2>1. sealed' # None => sealed'.block \in Blocks  BY <1>21 DEF CheckDuplicate, TypeOK
  <2> QED  BY <1>21, <2>1 DEF CheckDuplicate, TypeOK, Staged
<1>22. CASE WriteSealed
  <2>1. sealed.block \in Blocks  BY <1>22 DEF WriteSealed, TypeOK
  <2>2. PICK todo \in Seq(Blocks) : todo = <<sealed.block>> /\ todo # <<>>
    <3>1. PICK b \in Blocks : b = sealed.block  BY <2>1
    <3>2. <<b>> \in Seq(Blocks) /\ Len(<<b>>) = 1  OBVIOUS
    <3>3. <<b>> # <<>>  BY <3>2, EmptyOf
    <3> QED  BY <3>1, <3>2, <3>3, Zenon
  <2>3. op' = Op("mine", todo, "write")  BY <1>22, <2>2 DEF WriteSealed
  <2>4. op' \in Operation  BY <1>0, <2>3, NewOperation DEF Writing
  <2>5. op'.stage = "write" /\ op'.kind = "mine" /\ op'.todo = todo  BY <2>3 DEF Op
  <2>6. Staged(op)'  BY <2>2, <2>5 DEF Staged
  <2> QED  BY <1>22, <2>4, <2>6 DEF WriteSealed, TypeOK
<1>23. ASSUME NEW n \in Numbers \cup {0}, SetHead(n) PROVE TypeOK' /\ Staged(op)'
  <2>1. n \in Nat  BY NumberOf DEF Numbers
  <2>2. PICK o : o = Op("rewind", <<>>, "rewind")  OBVIOUS
  <2>3. o \in Operation  BY <1>0, <2>2, NewOperation, EmptyOf, Zenon
  <2>4. o.stage = "rewind" /\ o.kind = "rewind"  BY <2>2 DEF Op
  <2>5. op' = [o EXCEPT !.old = n]  BY <1>23, <2>2 DEF SetHead
  <2>6. op' \in Operation  BY <2>1, <2>3, <2>5 DEF Operation
  <2>7. op'.stage = "rewind" /\ op'.kind = "rewind" /\ op'.old = n
    BY <2>3, <2>4, <2>5 DEF Operation
  <2>8. Staged(op)'  BY <2>1, <2>7 DEF Staged, Writing
  <2>9. faults' \in 0..MaxFaults  BY <1>23, BlockChainAssumption DEF SetHead, Fault, TypeOK
  <2> QED  BY <1>23, <2>6, <2>8, <2>9 DEF SetHead, TypeOK
<1>24. ASSUME NEW states \in SUBSET Blocks, Restart(states), Fault, crashed' \in BOOLEAN
       PROVE  TypeOK' /\ Staged(op)'
  <2>1. head' \in Tree  BY <1>0, <1>24, LoadedOf DEF Restart
  <2>2. faults' \in 0..MaxFaults  BY <1>24, BlockChainAssumption DEF Fault, TypeOK
  <2> QED  BY <1>24, <2>1, <2>2 DEF Restart, TypeOK, Staged
<1>25. CASE Crash  BY <1>24, <1>25 DEF Crash, TypeOK
<1>26. CASE Stop
  <2>1. PICK states : states = disk \cup {b \in mem : b \in Range(Chain(head)) /\ Number(b) + 1 >= Number(head)}
    BY Zenon
  <2>2. states \in SUBSET Blocks  BY <2>1 DEF TypeOK
  <2>3. Restart(states) /\ Fault /\ crashed' \in BOOLEAN  BY <1>26, <2>1 DEF Stop, TypeOK
  <2> QED  BY <1>24, <2>2, <2>3
<1> QED
  BY <1>1, <1>2, <1>3, <1>4, <1>5, <1>6, <1>7, <1>8, <1>9, <1>10, <1>11, <1>12, <1>13, <1>14, <1>15,
     <1>16, <1>17, <1>18, <1>19, <1>20, <1>21, <1>22, <1>23, <1>25, <1>26, Zenon DEF Next, Proceed

-----------------------------------------------------------------------------
(* The canonical index.  c is the index, h the head, t the head header, s the *)
(* stored blocks.                                                             *)

Linked(h, c, s) == \A n \in 1..Number(h) : c[n] = Chain(h)[n] /\ c[n] \in s

OneChain(a, b) == Ancestor(a, b) \/ Ancestor(b, a)

\* Between the head and a head header above it, the index has no other chain.
NoneOther(h, t, c) == \A n \in (Number(h) + 1)..Number(t) : c[n] \in {None, Chain(t)[n]}

IndexOK(h, t, c, s) == Linked(h, c, s) /\ OneChain(h, t) /\ NoneOther(h, t, c)

\* b can be written to the index at number m: its chain below is the chain of the head.
Meets(b, m, h) ==
    /\ m \in 1..Number(b) /\ m - 1 <= Number(h)
    /\ \A n \in 1..(m - 1) : Chain(b)[n] = Chain(h)[n]

Index == [Numbers -> Blocks \cup {None}]

(* writeHeadBlock keeps the index, also where it leaves the head header.     *)
LEMMA HeadMoves ==
    ASSUME NEW h \in Tree, NEW t \in Tree, NEW c \in Index, NEW s \in SUBSET Blocks,
           IndexOK(h, t, c, s), NEW b \in s, Meets(b, Number(b), h)
    PROVE  IndexOK(b, IF c[Number(b)] # b THEN b ELSE t, [c EXCEPT ![Number(b)] = b], s)
<1> DEFINE m == Number(b)
           c2 == [c EXCEPT ![m] = b]
           t2 == IF c[m] # b THEN b ELSE t
<1>1. /\ b \in Blocks /\ b \in Tree /\ m \in Nat /\ m >= 1 /\ m - 1 <= Number(h)
      /\ Number(h) \in Nat /\ Number(t) \in Nat /\ m \in Numbers /\ Chain(b)[m] = b
  BY NumberOf DEF Meets
<1>2. c2[m] = b /\ \A n \in Numbers : n # m => c2[n] = c[n]  BY <1>1 DEF Index
<1>3. \A a \in Tree : \A n \in 1..Number(a) : n \in Numbers
  <2> SUFFICES ASSUME NEW a \in Tree, NEW n \in 1..Number(a) PROVE n \in Numbers  OBVIOUS
  <2> QED  BY BlockOfChain, NumberOf
<1>4. \A n \in 1..(m - 1) : Chain(b)[n] = Chain(h)[n]  BY DEF Meets
<1>5. Linked(b, c2, s)
  <2> SUFFICES ASSUME NEW n \in 1..m PROVE c2[n] = Chain(b)[n] /\ c2[n] \in s  BY DEF Linked
  <2>1. CASE n = m  BY <1>1, <1>2, <2>1
  <2>2. CASE n # m
    <3>1. n \in 1..(m - 1) /\ n \in 1..Number(h) /\ n \in Numbers  BY <1>1, <1>3, <2>2
    <3>2. c[n] = Chain(h)[n] /\ c[n] \in s  BY <3>1 DEF IndexOK, Linked
    <3> QED  BY <1>2, <1>4, <2>2, <3>1, <3>2
  <2> QED  BY <2>1, <2>2
<1>6. CASE c[m] # b
  <2>1. t2 = b  BY <1>6
  <2>2. OneChain(b, t2)  BY <1>1, <2>1, AncestorFacts DEF OneChain
  <2>3. NoneOther(b, t2, c2)  BY <1>1, <2>1 DEF NoneOther
  <2> QED  BY <1>5, <2>2, <2>3 DEF IndexOK
<1>7. CASE c[m] = b
  <2>1. t2 = t /\ OneChain(h, t)  BY <1>7 DEF IndexOK
  <2>2. CASE m <= Number(h)
    <3>1. m \in 1..Number(h)  BY <1>1, <2>2
    <3>2. Chain(h)[m] = b  BY <1>7, <3>1 DEF IndexOK, Linked
    <3>3. Ancestor(b, h)  BY <3>1, <3>2, BlockOfChain
    <3>4. OneChain(b, t)
      <4>1. CASE Ancestor(h, t)  BY <1>1, <3>3, <4>1, AncestorFacts DEF OneChain
      <4>2. CASE Ancestor(t, h)
        <5>1. Number(b) <= Number(t) \/ Number(t) <= Number(b)  BY <1>1
        <5> QED  BY <1>1, <3>3, <4>2, <5>1, AncestorFacts DEF OneChain
      <4> QED  BY <2>1, <4>1, <4>2 DEF OneChain
    <3>5. NoneOther(b, t, c2)
      <4> SUFFICES ASSUME NEW n \in (m + 1)..Number(t) PROVE c2[n] \in {None, Chain(t)[n]}
        BY DEF NoneOther
      <4>1. n \in 1..Number(t) /\ n # m  BY <1>1
      <4>2. c2[n] = c[n]  BY <1>2, <1>3, <4>1
      <4>3. CASE n <= Number(h)
        <5>1. n \in 1..Number(h)  BY <1>1, <4>1, <4>3
        <5>2. Chain(h)[n] = Chain(t)[n]  BY <2>1, <4>1, <5>1 DEF OneChain, Ancestor
        <5> QED  BY <4>2, <5>1, <5>2 DEF IndexOK, Linked
      <4>4. CASE n > Number(h)
        <5>1. n \in (Number(h) + 1)..Number(t)  BY <1>1, <4>1, <4>4
        <5> QED  BY <4>2, <5>1 DEF IndexOK, NoneOther
      <4> QED  BY <1>1, <4>1, <4>3, <4>4
    <3> QED  BY <1>5, <2>1, <3>4, <3>5 DEF IndexOK
  <2>3. CASE m > Number(h)
    <3>1. m = Number(h) + 1  BY <1>1, <2>3
    <3>2. Ancestor(h, b)  BY <1>1, <1>4, <3>1 DEF Ancestor
    <3>3. CASE Number(t) <= Number(h)
      <4>1. Ancestor(t, h)
        <5>1. Ancestor(h, t) => h = t  BY <1>1, <3>3, AncestorFacts DEF Ancestor
        <5> QED  BY <2>1, <5>1, AncestorFacts DEF OneChain
      <4>2. Ancestor(t, b)  BY <1>1, <3>2, <4>1, AncestorFacts
      <4>3. NoneOther(b, t, c2)  BY <1>1, <3>1, <3>3 DEF NoneOther
      <4> QED  BY <1>5, <2>1, <4>2, <4>3 DEF IndexOK, OneChain
    <3>4. CASE Number(t) > Number(h)
      <4>1. m \in (Number(h) + 1)..Number(t) /\ m \in 1..Number(t)  BY <1>1, <3>1, <3>4
      <4>2. b \in {None, Chain(t)[m]}  BY <1>7, <4>1 DEF IndexOK, NoneOther
      <4>3. b = Chain(t)[m]  BY <1>1, <4>2, BlockChainAssumption
      <4>4. Ancestor(b, t)  BY <4>1, <4>3, BlockOfChain
      <4>5. NoneOther(b, t, c2)
        <5> SUFFICES ASSUME NEW n \in (m + 1)..Number(t) PROVE c2[n] \in {None, Chain(t)[n]}
          BY DEF NoneOther
        <5>1. n \in (Number(h) + 1)..Number(t) /\ n \in 1..Number(t) /\ n # m  BY <1>1, <3>1
        <5>2. c2[n] = c[n]  BY <1>2, <1>3, <5>1
        <5> QED  BY <5>1, <5>2 DEF IndexOK, NoneOther
      <4> QED  BY <1>5, <2>1, <4>4, <4>5 DEF IndexOK, OneChain
    <3> QED  BY <1>1, <3>3, <3>4
  <2> QED  BY <1>1, <2>2, <2>3
<1> QED  BY <1>6, <1>7

(* A head that goes back to an ancestor keeps the index.                     *)
LEMMA HeadRetreats ==
    ASSUME NEW h \in Tree, NEW t \in Tree, NEW c \in Index, NEW s \in SUBSET Blocks,
           IndexOK(h, t, c, s), NEW a \in Tree, Ancestor(a, h)
    PROVE  IndexOK(a, t, c, s)
<1>1. Number(a) \in Nat /\ Number(h) \in Nat /\ Number(t) \in Nat /\ Number(a) <= Number(h)
  BY NumberOf DEF Ancestor
<1>2. Linked(a, c, s)  BY <1>1 DEF IndexOK, Linked, Ancestor
<1>3. OneChain(a, t)
  <2>1. Number(a) <= Number(t) \/ Number(t) <= Number(a)  BY <1>1
  <2> QED  BY <2>1, AncestorFacts DEF IndexOK, OneChain
<1>4. NoneOther(a, t, c)
  <2> SUFFICES ASSUME NEW n \in (Number(a) + 1)..Number(t) PROVE c[n] \in {None, Chain(t)[n]}
    BY DEF NoneOther
  <2>1. n \in 1..Number(t)  BY <1>1
  <2>2. CASE n <= Number(h)
    <3>1. n \in 1..Number(h)  BY <1>1, <2>1, <2>2
    <3>2. Chain(h)[n] = Chain(t)[n]  BY <2>1, <3>1 DEF IndexOK, OneChain, Ancestor
    <3> QED  BY <3>1, <3>2 DEF IndexOK, Linked
  <2>3. CASE n > Number(h)
    <3>1. n \in (Number(h) + 1)..Number(t)  BY <1>1, <2>1, <2>3
    <3> QED  BY <3>1 DEF IndexOK, NoneOther
  <2> QED  BY <1>1, <2>1, <2>2, <2>3
<1> QED  BY <1>2, <1>3, <1>4 DEF IndexOK

(* A head header that goes back by a block keeps the index, if the head goes *)
(* with it from above.                                                       *)
LEMMA HeaderRetreats ==
    ASSUME NEW h \in Tree, NEW t \in Blocks, NEW c \in Index, NEW s \in SUBSET Blocks,
           IndexOK(h, t, c, s)
    PROVE  LET p == Parent[t] IN
           /\ Number(p) >= Number(h) => IndexOK(h, p, c, s)
           /\ Number(p) < Number(h) => Ancestor(p, h) /\ IndexOK(p, p, c, s) /\ IndexOK(Genesis, p, c, s)
<1>1. PICK p \in Tree : p = Parent[t] /\ Number(t) = Number(p) + 1  BY NumberOf
<1>2. /\ Number(p) \in Nat /\ Number(h) \in Nat /\ t \in Tree /\ Ancestor(p, t)
      /\ \A n \in 1..Number(p) : Chain(p)[n] = Chain(t)[n]
  BY <1>1, NumberOf, AncestorFacts
<1>3. CASE Number(p) >= Number(h)
  <2>1. Ancestor(h, t)
    <3>1. ~Ancestor(t, h)  BY <1>1, <1>2, <1>3 DEF Ancestor
    <3> QED  BY <3>1 DEF IndexOK, OneChain
  <2>2. Ancestor(h, p)
    <3>1. Number(h) <= Number(p)  BY <1>2, <1>3
    <3> QED  BY <1>2, <2>1, <3>1, AncestorFacts
  <2>3. NoneOther(h, p, c)  BY <1>1, <1>2 DEF IndexOK, NoneOther
  <2> QED  BY <1>1, <1>2, <1>3, <2>2, <2>3 DEF IndexOK, OneChain
<1>4. CASE Number(p) < Number(h)
  <2>1. Ancestor(p, h)
    <3>1. Number(p) <= Number(h)  BY <1>2, <1>4
    <3>2. CASE Ancestor(h, t)  BY <1>2, <3>1, <3>2, AncestorFacts
    <3>3. CASE Ancestor(t, h)  BY <1>2, <3>3, AncestorFacts
    <3> QED  BY <3>2, <3>3 DEF IndexOK, OneChain
  <2>2. Linked(p, c, s)  BY <1>2, <1>4, <2>1 DEF IndexOK, Linked, Ancestor
  <2>3. IndexOK(p, p, c, s)
    <3>1. NoneOther(p, p, c)  BY <1>2 DEF NoneOther
    <3> QED  BY <2>2, <3>1, AncestorFacts DEF IndexOK, OneChain
  <2>4. IndexOK(Genesis, p, c, s)  BY <2>3, HeadRetreats, AncestorFacts, NumberOf
  <2> QED  BY <1>1, <1>2, <1>4, <2>1, <2>3, <2>4
<1> QED  BY <1>1, <1>2, <1>3, <1>4

(* Hashes above the head may be deleted, and blocks that are not the head's. *)
LEMMA IndexShrinks ==
    ASSUME NEW h \in Tree, NEW t \in Tree, NEW c, NEW s, IndexOK(h, t, c, s), NEW c2, NEW s2,
           \A n \in Numbers : c2[n] \in {None, c[n]},
           \A n \in 1..Number(h) : c2[n] = c[n] /\ (c[n] \in s => c[n] \in s2)
    PROVE  IndexOK(h, t, c2, s2)
<1>1. Linked(h, c2, s2)  BY DEF IndexOK, Linked
<1>2. NoneOther(h, t, c2)
  <2> SUFFICES ASSUME NEW n \in (Number(h) + 1)..Number(t) PROVE c2[n] \in {None, Chain(t)[n]}
    BY DEF NoneOther
  <2>1. Number(h) \in Nat /\ Number(t) \in Nat  BY NumberOf
  <2>2. n \in 1..Number(t)  BY <2>1
  <2>3. n \in Numbers  BY <2>2, BlockOfChain, NumberOf
  <2> QED  BY <2>3 DEF IndexOK, NoneOther
<1> QED  BY <1>1, <1>2 DEF IndexOK

-----------------------------------------------------------------------------
(* The inductive invariant: the index, and where an operation is with it.  d *)
(* is the set of blocks with their states.                                   *)

States == disk \cup mem \cup {Genesis}

\* The stages in which the head is on its way to the block that is written.
Moving == {"reorg", "head"}

\* The blocks that reorg has still to write lead from the head's chain to the block.
ReorgOK(o, h, s) ==
    LET b == o.todo[1]
        m == Number(b) - Len(o.path)
    IN  /\ Meets(b, m, h)
        /\ \A i \in 1..Len(o.path) : o.path[i] \in s /\ o.path[i] = Chain(b)[m - 1 + i]

\* The blocks that SetHead has to delete are above the head header, and the head is not.
RewindOK(o, h, t) ==
    \A i \in 1..Len(o.path) : Number(o.path[i]) > Number(t) /\ Number(h) <= Number(t)

OpOK(o, h, t, s, d) ==
    /\ o = None \/ o.stage \notin Moving => h \in d
    /\ o # None =>
         /\ o.stage \in {"commit", "choose", "reorg", "head"} => o.todo[1] \in s
         /\ o.stage \in {"choose", "reorg", "head"} => o.todo[1] \in d
         /\ o.stage = "reorg" => ReorgOK(o, h, s)
         /\ o.stage = "head" => Meets(o.todo[1], Number(o.todo[1]), h)
         /\ o.stage = "rewind" => RewindOK(o, h, t)
         /\ o.kind # "rewind" =>
              Number(o.from) <= IF o.stage \in Moving THEN Number(o.todo[1]) ELSE Number(h)

ChainInv ==
    /\ TypeOK /\ Staged(op)
    /\ IndexOK(head, header, canon, stored)
    /\ OpOK(op, head, header, stored, States)

(* An operation between two blocks, or at its end, asks little.              *)
LEMMA QuietStage ==
    ASSUME NEW o, NEW h, NEW t, NEW s, NEW d, h \in d,
           o # None => /\ o.stage \in {"next", "side", "unlock", "write"}
                       /\ o.kind # "rewind" => Number(o.from) <= Number(h)
    PROVE  OpOK(o, h, t, s, d)
BY DEF OpOK, Moving

(* The index begins empty, with the genesis block as the head.               *)
LEMMA InitChain ==
    ASSUME Init
    PROVE  ChainInv
<1>1. TypeOK /\ Staged(op)  BY InitTypes
<1>2. head = Genesis /\ header = Genesis /\ op = None  BY DEF Init
<1>3. Number(Genesis) = 0 /\ Genesis \in Tree  BY NumberOf
<1>4. IndexOK(head, header, canon, stored)
  BY <1>2, <1>3, AncestorFacts DEF IndexOK, Linked, OneChain, NoneOther
<1>5. OpOK(op, head, header, stored, States)  BY <1>2 DEF OpOK, States
<1> QED  BY <1>1, <1>4, <1>5 DEF ChainInv

(* Every step keeps the index linked and the operation where the index is.   *)
LEMMA ChainStep ==
    ASSUME ChainInv, Next
    PROVE  ChainInv'
<1> USE DEF dbVars, others
<1>0. /\ op \in Operation \cup {None} /\ head \in Tree /\ header \in Tree
      /\ canon \in Index /\ stored \in SUBSET Blocks /\ Staged(op) /\ TypeOK
      /\ Number(head) \in Nat /\ Number(header) \in Nat
  BY NumberOf DEF ChainInv, TypeOK, Index
<1> DEFINE OK == IndexOK(head, header, canon, stored) /\ OpOK(op, head, header, stored, States)
<1>i. OK  BY DEF ChainInv
<1>t. TypeOK' /\ Staged(op)'  BY <1>0, TypeStep
<1> SUFFICES OK'  BY <1>t DEF ChainInv
<1>q. ASSUME UNCHANGED <<head, header, canon>>, stored \subseteq stored'
      PROVE  IndexOK(head, header, canon, stored)'
  <2>1. IndexOK(head, header, canon, stored')
    BY <1>0, <1>i, <1>q, IndexShrinks
  <2> QED  BY <1>q, <2>1
<1>h. op = None \/ op.stage \notin Moving => head \in States  BY <1>i DEF OpOK
<1>f. op # None /\ op.kind # "rewind" /\ op.stage \notin Moving => Number(op.from) <= Number(head)
  BY <1>i DEF OpOK
<1>1. ASSUME NEW batch \in Batches, InsertChain(batch) PROVE OK'
  <2>1. op'.stage = "next" /\ op'.from = head  BY <1>1 DEF InsertChain, Op
  <2>2. head \in States  BY <1>1, <1>h DEF InsertChain
  <2>3. OpOK(op', head, header, stored, States)  BY <1>0, <2>1, <2>2, QuietStage
  <2> QED  BY <1>1, <1>i, <2>3 DEF InsertChain, States
<1>2. CASE SkipKnown
  <2>1. op \in Operation /\ op.stage = "next"  BY <1>0, <1>2 DEF SkipKnown, At
  <2>2. op'.stage = op.stage /\ op'.kind = op.kind /\ op'.from = op.from
    BY <1>2, <2>1 DEF SkipKnown, Operation
  <2>3. OpOK(op', head, header, stored, States)
    BY <2>1, <2>2, <1>h, <1>f, Fields, QuietStage DEF Moving
  <2> QED  BY <1>2, <1>i, <2>3 DEF SkipKnown, States
<1>3. ASSUME NEW o \in Operation, op \in Operation, op' = AtStage(o, "unlock"),
             o.kind = op.kind, o.from = op.from, op.stage \notin Moving,
             UNCHANGED <<head, header, canon, stored, disk, mem>>
      PROVE  OK'
  <2>1. op'.stage = "unlock" /\ op'.kind = op.kind /\ op'.from = op.from  BY <1>3, Unlocks
  <2>2. OpOK(op', head, header, stored, States)
    BY <1>3, <2>1, <1>h, <1>f, Fields, QuietStage
  <2> QED  BY <1>3, <1>i, <2>2 DEF States
<1>4. CASE Finish
  <2>1. op \in Operation /\ op.stage = "next"  BY <1>0, <1>4 DEF Finish, At
  <2>2. PICK o : o = IF Nested THEN [op EXCEPT !.last = None] ELSE op  BY Zenon
  <2>3. o \in Operation /\ o.kind = op.kind /\ o.from = op.from  BY <2>1, <2>2 DEF Operation
  <2>4. op' = AtStage(o, "unlock")  BY <1>4, <2>2 DEF Finish, Reply, AtStage
  <2> QED  BY <1>3, <1>4, <2>1, <2>3, <2>4 DEF Finish, Moving
<1>5. CASE RejectBlock
  BY <1>0, <1>3, <1>5 DEF RejectBlock, At, Goto, AtStage, Moving
<1>6. CASE InsertSideBlock
  <2>1. op \in Operation /\ op.stage \in {"next", "side"}  BY <1>0, <1>6 DEF InsertSideBlock, At
  <2>2. op'.stage = "side" /\ op'.kind = op.kind /\ op'.from = op.from
    BY <1>6, <2>1 DEF InsertSideBlock, Operation
  <2>3. OpOK(op', head, header, stored', States)
    BY <2>1, <2>2, <1>h, <1>f, Fields, QuietStage DEF Moving
  <2>4. IndexOK(head, header, canon, stored)'  BY <1>6, <1>q DEF InsertSideBlock
  <2> QED  BY <1>6, <2>3, <2>4 DEF InsertSideBlock, States
<1>7. CASE ImportSideChain
  <2>1. op \in Operation /\ op.stage = "side"  BY <1>0, <1>7 DEF ImportSideChain, At
  <2>2. CASE op' = AtStage(op, "unlock")
    BY <1>3, <1>7, <2>1, <2>2 DEF ImportSideChain, Moving
  <2>3. CASE op' # AtStage(op, "unlock")
    <3>1. PICK s : op' = [op EXCEPT !.todo = s, !.stage = "next"]
      BY <1>7, <2>3, Zenon DEF ImportSideChain, Reply, AtStage
    <3>2. op'.stage = "next" /\ op'.kind = op.kind /\ op'.from = op.from
      BY <2>1, <3>1 DEF Operation
    <3>3. OpOK(op', head, header, stored, States)
      BY <2>1, <3>2, <1>h, <1>f, Fields, QuietStage DEF Moving
    <3> QED  BY <1>7, <1>i, <3>3 DEF ImportSideChain, States
  <2> QED  BY <2>2, <2>3
<1>8. CASE WriteBlock
  <2>1. op \in Operation /\ op.stage \in {"next", "write"}  BY <1>0, <1>8 DEF WriteBlock, At
  <2>2. op'.stage = "commit" /\ op'.kind = op.kind /\ op'.from = op.from /\ op'.todo = op.todo
    BY <1>8, <2>1 DEF WriteBlock, Operation
  <2>3. op'.todo[1] \in stored'  BY <1>8, <2>2 DEF WriteBlock, Next1
  <2>4. head \in States /\ (op.kind # "rewind" => Number(op.from) <= Number(head))
    BY <1>h, <1>f, <2>1, Fields DEF Moving
  <2>5. OpOK(op', head, header, stored', States)  BY <2>2, <2>3, <2>4 DEF OpOK, Moving
  <2>6. IndexOK(head, header, canon, stored)'  BY <1>8, <1>q DEF WriteBlock
  <2> QED  BY <1>8, <2>5, <2>6 DEF WriteBlock, States
<1>9. CASE ParentGone
  BY <1>0, <1>3, <1>9 DEF ParentGone, At, Goto, AtStage, Moving
<1>10. CASE CommitState
  <2>1. op \in Operation /\ op.stage = "commit"  BY <1>0, <1>10 DEF CommitState, At
  <2>2. op'.stage = "choose" /\ op'.kind = op.kind /\ op'.from = op.from /\ op'.todo = op.todo
    BY <1>10, <2>1 DEF CommitState, Goto, Operation
  <2>3. op.todo[1] \in stored  BY <1>i, <2>1, Fields DEF OpOK
  <2>4. op.todo[1] \in States' /\ States \subseteq States'
    BY <1>10, Zenon DEF CommitState, Next1, States
  <2>5. head \in States /\ (op.kind # "rewind" => Number(op.from) <= Number(head))
    BY <1>h, <1>f, <2>1, Fields DEF Moving
  <2>6. OpOK(op', head, header, stored, States')  BY <2>2, <2>3, <2>4, <2>5 DEF OpOK, Moving
  <2> QED  BY <1>10, <1>i, <2>6 DEF CommitState
<1>11. CASE CommitFails
  <2>1. op \in Operation /\ op.stage = "commit" /\ op' = AtStage(op, "unlock")
    BY <1>0, <1>11 DEF CommitFails, At, Fail, Reply, Goto, AtStage
  <2> QED  BY <1>3, <1>11, <2>1 DEF CommitFails, Moving
<1>12. CASE BeginReorg
  <2>1. op \in Operation /\ op.stage = "choose" /\ op.todo # <<>> /\ op.kind # "rewind"
    BY <1>0, <1>12, Fields DEF BeginReorg, At, Staged, Writing
  <2>2. CASE op' = AtStage(op, "unlock")  BY <1>3, <1>12, <2>1, <2>2 DEF BeginReorg, Moving
  <2>3. CASE op' # AtStage(op, "unlock")
    <3>1. PICK b \in Blocks : b = op.todo[1] /\ b \in Tree /\ Number(b) \in Nat
      BY <2>1, Fields, NextBlock, NumberOf
    <3>2. /\ op' = [op EXCEPT !.stage = "reorg", !.path = NewChain(b)]
          /\ Range(NewChain(b)) \subseteq stored /\ Number(b) >= Number(head)
      BY <1>12, <2>3, <3>1 DEF BeginReorg, Fail, Reply, Goto, AtStage, Next1, Prefers
    <3>3. PICK p \in Seq(Blocks) : p = NewChain(b)  BY <1>0, <3>1, NewChainOf
    <3>4. /\ op'.stage = "reorg" /\ op'.kind = op.kind /\ op'.from = op.from
          /\ op'.todo = op.todo /\ op'.path = p
      BY <2>1, <3>2, <3>3 DEF Operation
    <3>5. PICK k \in Nat : k = Fork(b)  BY <1>0, <3>1, NewChainOf
    <3>6. /\ k <= Number(head) /\ k <= Number(b)
          /\ \A n \in 1..k : Chain(head)[n] = Chain(b)[n]
          /\ k < Number(b) => Len(p) = Number(b) - 1 - k
          /\ k = Number(b) => Len(p) = 0
          /\ \A i \in 1..Len(p) : p[i] = Chain(b)[k + i]
      BY <1>0, <3>1, <3>3, <3>5, NewChainOf, EmptyOf
    <3>7. Number(b) >= 1  BY <3>1, NumberOf
    <3>8. Meets(b, Number(b) - Len(p), head)
      <4>1. CASE k < Number(b)
        <5>1. Number(b) - Len(p) = k + 1  BY <3>1, <3>6, <4>1
        <5>2. k + 1 \in 1..Number(b) /\ k + 1 - 1 = k  BY <3>1, <4>1
        <5> QED  BY <3>6, <5>1, <5>2 DEF Meets
      <4>2. CASE k = Number(b)
        <5>1. Number(b) - Len(p) = k /\ k \in 1..Number(b)  BY <3>1, <3>6, <3>7, <4>2
        <5>2. k - 1 <= Number(head) /\ \A n \in 1..(k - 1) : n \in 1..k  BY <1>0, <3>6
        <5> QED  BY <3>6, <5>1, <5>2 DEF Meets
      <4> QED  BY <3>1, <3>6, <4>1, <4>2
    <3>9. ASSUME NEW i \in 1..Len(p)
          PROVE  p[i] \in stored /\ p[i] = Chain(b)[Number(b) - Len(p) - 1 + i]
      <4>1. p[i] \in stored  BY <3>2, <3>3 DEF Range
      <4>2. k < Number(b)  BY <3>1, <3>6
      <4>3. Number(b) - Len(p) - 1 + i = k + i  BY <3>1, <3>6, <4>2
      <4> QED  BY <3>6, <4>1, <4>3
    <3>10. ReorgOK(op', head, stored)  BY <3>1, <3>4, <3>8, <3>9 DEF ReorgOK
    <3>11. Number(op.from) <= Number(b)
      <4>1. op.from \in Tree /\ Number(op.from) <= Number(head)
        BY <1>f, <2>1, Fields DEF Moving
      <4> QED  BY <1>0, <3>1, <3>2, <4>1, NumberOf
    <3>12. b \in stored /\ b \in States  BY <1>i, <2>1, <3>1, Fields DEF OpOK
    <3>13. head \in States  BY <1>h, <2>1 DEF Moving
    <3>14. OpOK(op', head, header, stored, States)
      BY <3>1, <3>4, <3>10, <3>11, <3>12, <3>13 DEF OpOK, Moving
    <3> QED  BY <1>12, <1>i, <3>14 DEF BeginReorg, States
  <2> QED  BY <2>2, <2>3
<1>13. CASE StaySide
  <2>1. op \in Operation /\ op.stage = "choose" /\ op.todo # <<>>
    BY <1>0, <1>13, Fields DEF StaySide, At, Staged, Writing
  <2>2. op'.stage \in {"next", "unlock"} /\ op'.kind = op.kind /\ op'.from = op.from
    BY <1>13, <2>1, ContinueOf DEF StaySide
  <2>3. OpOK(op', head, header, stored, States)
    BY <2>1, <2>2, <1>h, <1>f, Fields, QuietStage DEF Moving
  <2> QED  BY <1>13, <1>i, <2>3 DEF StaySide, States
<1>14. CASE ReorgBlock
  <2>1. op \in Operation /\ op.stage = "reorg" /\ op.todo # <<>> /\ op.path # <<>>
    BY <1>0, <1>14, Fields DEF ReorgBlock, At, Staged, Writing
  <2>2. PICK b \in Blocks : b = op.todo[1] /\ b \in Tree /\ Number(b) \in Nat
    BY <2>1, Fields, NextBlock, NumberOf
  <2>3. PICK p \in Seq(Blocks) : p = op.path /\ p # <<>> /\ Len(p) \in Nat /\ Len(p) >= 1
    BY <2>1, Fields, EmptyOf, LengthOf
  <2>4. /\ op'.stage = "reorg" /\ op'.kind = op.kind /\ op'.from = op.from
        /\ op'.todo = op.todo /\ op'.path = Tail(p)
    BY <1>14, <2>1, <2>3 DEF ReorgBlock, Operation
  <2>5. PICK m : m = Number(b) - Len(p)  OBVIOUS
  <2>6. /\ Meets(b, m, head)
        /\ \A i \in 1..Len(p) : p[i] \in stored /\ p[i] = Chain(b)[m - 1 + i]
    BY <1>i, <2>1, <2>2, <2>3, <2>5, Fields DEF OpOK, ReorgOK
  <2>7. /\ m \in 1..Number(b) /\ m \in Nat /\ m + 1 <= Number(b) /\ m - 1 <= Number(head)
        /\ \A n \in 1..(m - 1) : Chain(b)[n] = Chain(head)[n]
    BY <2>2, <2>3, <2>5, <2>6 DEF Meets
  <2>8. PICK a \in stored : a = p[1] /\ a = Chain(b)[m]
    <3>1. 1 \in 1..Len(p) /\ m - 1 + 1 = m  BY <2>3, <2>7
    <3> QED  BY <2>6, <3>1
  <2>9. a \in Blocks /\ a \in Tree /\ Number(a) = m /\ Ancestor(a, b)
    BY <1>0, <2>2, <2>7, <2>8, BlockOfChain, NumberOf
  <2>10. \A n \in 1..m : Chain(a)[n] = Chain(b)[n]  BY <2>9 DEF Ancestor
  <2>11. Meets(a, Number(a), head)  BY <2>7, <2>9, <2>10 DEF Meets
  <2>12. IndexOK(head, header, canon, stored)'
    <3>1. IndexOK(a, IF canon[Number(a)] # a THEN a ELSE header,
                  [canon EXCEPT ![Number(a)] = a], stored)
      BY <1>0, <1>i, <2>11, HeadMoves, Zenon
    <3> QED  BY <1>14, <2>3, <2>8, <3>1 DEF ReorgBlock, writeHeadBlock
  <2>13. PICK k \in Nat : k = m + 1 /\ k - 1 = m /\ k \in 1..Number(b) /\ m <= Number(a)
    BY <2>2, <2>7, <2>9
  <2>14. Meets(b, k, a)  BY <2>10, <2>13 DEF Meets
  <2>15. /\ Len(Tail(p)) = Len(p) - 1 /\ \A i \in 1..Len(Tail(p)) : Tail(p)[i] = p[i + 1]
         /\ Number(b) - Len(Tail(p)) = k
    <3>1. Len(Tail(p)) = Len(p) - 1 /\ \A i \in 1..Len(Tail(p)) : Tail(p)[i] = p[i + 1]
      BY <2>3, TailOf
    <3> QED  BY <2>2, <2>3, <2>5, <2>7, <2>13, <3>1
  <2>16. ASSUME NEW i \in 1..Len(Tail(p))
         PROVE  Tail(p)[i] \in stored /\ Tail(p)[i] = Chain(b)[k - 1 + i]
    <3>1. i + 1 \in 1..Len(p) /\ m - 1 + (i + 1) = k - 1 + i  BY <2>3, <2>7, <2>13, <2>15
    <3> QED  BY <2>6, <2>15, <3>1
  <2>17. ReorgOK(op', a, stored)
    <3>1. op'.todo[1] = b /\ op'.path = Tail(p)  BY <2>2, <2>4
    <3> QED  BY <2>14, <2>15, <2>16, <3>1 DEF ReorgOK
  <2>18. /\ b \in stored /\ b \in States
         /\ op.kind # "rewind" => Number(op.from) <= Number(b)
    BY <1>i, <2>1, <2>2, Fields DEF OpOK, Moving
  <2>19. op' # None
    <3>1. Tail(p) \in Seq(Blocks) /\ op' = [op EXCEPT !.path = Tail(p)]
      BY <1>14, <2>3, TailOf DEF ReorgBlock
    <3>2. op' \in Operation  BY <2>1, <3>1, Zenon DEF Operation
    <3> QED  BY <3>2, Fields
  <2>20. OpOK(op', a, header', stored, States)
    BY <2>2, <2>4, <2>17, <2>18, <2>19 DEF OpOK, Moving
  <2> QED  BY <1>14, <2>3, <2>8, <2>12, <2>20 DEF ReorgBlock, writeHeadBlock, States
<1>15. CASE DeleteIndexes
  <2>1. op \in Operation /\ op.stage = "reorg" /\ op.todo # <<>> /\ op.path = <<>>
    BY <1>0, <1>15, Fields DEF DeleteIndexes, At, Staged, Writing
  <2>2. PICK b \in Blocks : b = op.todo[1] /\ Number(b) \in Nat  BY <2>1, Fields, NextBlock, NumberOf
  <2>3. op' \in Operation /\ op'.stage = "head" /\ op'.kind = op.kind /\ op'.from = op.from /\ op'.todo = op.todo
    BY <1>15, <2>1 DEF DeleteIndexes, Goto, Operation
  <2>4. Len(op.path) = 0 /\ Number(b) - Len(op.path) = Number(b)  BY <2>1, <2>2, EmptyOf
  <2>5. Meets(b, Number(b), head)  BY <1>i, <2>1, <2>2, <2>4, Fields, SMTT(30) DEF OpOK, ReorgOK
  <2>6. /\ b \in stored /\ b \in States
        /\ op.kind # "rewind" => Number(op.from) <= Number(b)
    BY <1>i, <2>1, <2>2, Fields DEF OpOK, Moving
  <2>7. OpOK(op', head, header, stored, States)
    BY <2>2, <2>3, <2>5, <2>6, Fields DEF OpOK, Moving
  <2>8. \A n \in Numbers : canon'[n] \in {None, canon[n]} /\ (n <= Number(head) => canon'[n] = canon[n])
    <3> SUFFICES ASSUME NEW n \in Numbers
                 PROVE  canon'[n] \in {None, canon[n]} /\ (n <= Number(head) => canon'[n] = canon[n])
      OBVIOUS
    <3>1. canon'[n] = IF n > Number(head) /\ \A j \in Number(head) + 1..n : canon[j] # None
                      THEN None ELSE canon[n]
      BY <1>15, Zenon DEF DeleteIndexes
    <3>2. n \in Nat  BY NumberOf DEF Numbers
    <3> QED  BY <1>0, <3>1, <3>2
  <2>9. \A n \in 1..Number(head) : n \in Numbers /\ n <= Number(head)
    BY <1>0, BlockOfChain, NumberOf
  <2>10. IndexOK(head, header, canon', stored)  BY <1>0, <1>i, <2>8, <2>9, IndexShrinks
  <2> QED  BY <1>15, <2>7, <2>10 DEF DeleteIndexes, States
<1>16. CASE WriteHead
  <2>1. op \in Operation /\ op.stage \in {"choose", "head"} /\ op.todo # <<>> /\ op.kind # "rewind"
    BY <1>0, <1>16, Fields DEF WriteHead, At, Staged, Writing
  <2>2. PICK b \in Blocks : /\ b = op.todo[1] /\ b \in Tree /\ Number(b) \in Nat /\ Number(b) >= 1
                            /\ op.from \in Tree /\ Number(op.from) \in Nat
    BY <2>1, Fields, NextBlock, NumberOf
  <2>3. b \in stored /\ b \in States  BY <1>i, <2>1, <2>2, Fields DEF OpOK
  <2>4. Meets(b, Number(b), head) /\ Number(op.from) <= Number(b)
    <3>1. CASE op.stage = "choose"
      <4>1. Parent[b] = head /\ Number(b) >= Number(head)
        BY <1>16, <2>2, <3>1 DEF WriteHead, At, Next1, Prefers
      <4>2. Number(op.from) <= Number(head)  BY <1>f, <2>1, <3>1, Fields DEF Moving
      <4>3. Number(b) - 1 = Number(head) /\ \A n \in 1..(Number(b) - 1) : Chain(b)[n] = Chain(head)[n]
        BY <1>0, <2>2, <4>1, NumberOf, SMTT(30)
      <4> QED  BY <1>0, <2>2, <4>1, <4>2, <4>3 DEF Meets
    <3>2. CASE op.stage = "head"
      BY <1>i, <2>1, <2>2, <3>2, Fields DEF OpOK, Moving
    <3> QED  BY <2>1, <3>1, <3>2
  <2>5. IndexOK(head, header, canon, stored)'
    <3>1. IndexOK(b, IF canon[Number(b)] # b THEN b ELSE header,
                  [canon EXCEPT ![Number(b)] = b], stored)
      BY <1>0, <1>i, <2>3, <2>4, HeadMoves
    <3> QED  BY <1>16, <2>2, <3>1 DEF WriteHead, writeHeadBlock, Next1
  <2>6. op'.stage \in {"next", "unlock"} /\ op'.from = op.from
    <3>1. PICK o \in Operation : o = Continue /\ o.stage \in {"next", "unlock"} /\ o.from = op.from
      BY <2>1, ContinueOf
    <3>2. op' = [o EXCEPT !.last = b]  BY <1>16, <2>2, <3>1 DEF WriteHead, Next1
    <3> QED  BY <3>1, <3>2 DEF Operation
  <2>7. OpOK(op', b, header', stored, States)  BY <2>3, <2>4, <2>6, QuietStage
  <2> QED  BY <1>16, <2>2, <2>5, <2>7 DEF WriteHead, writeHeadBlock, Next1, States
<1>17. CASE Unlock
  <2>1. op \in Operation /\ op.stage = "unlock" /\ op' = None  BY <1>0, <1>17 DEF Unlock, At
  <2>2. OpOK(op', head, header, stored, States)  BY <1>h, <2>1, QuietStage DEF Moving
  <2> QED  BY <1>17, <1>i, <2>2 DEF Unlock, States
<1>18. CASE RewindHeader
  <2>1. op \in Operation /\ op.stage = "rewind" /\ op.kind = "rewind" /\ op.old \in Nat
    BY <1>0, <1>18, Fields DEF RewindHeader, At, Staged
  <2>2. header \in Blocks
    <3>1. Number(header) # 0  BY <1>0, <1>18, <2>1, NumberOf DEF RewindHeader
    <3> QED  BY <1>0, <3>1, NumberOf DEF Tree
  <2>3. PICK t \in Tree : /\ t = Parent[header] /\ t = header' /\ Number(t) \in Nat
                          /\ Number(header) = Number(t) + 1
    BY <1>18, <2>2, NumberOf DEF RewindHeader
  <2>4. \/ Number(t) >= Number(head) /\ head' = head
        \/ Number(t) < Number(head) /\ head' = t /\ t \in States
        \/ Number(t) < Number(head) /\ head' = Genesis
    BY <1>0, <1>18, <2>3 DEF RewindHeader, HasState, States
  <2>5. IndexOK(head', t, canon, stored)  BY <1>0, <1>i, <2>2, <2>3, <2>4, HeaderRetreats, Zenon
  <2>6. Number(head') <= Number(t)  BY <1>0, <2>3, <2>4, NumberOf
  <2>7. head' \in States  BY <1>h, <2>1, <2>4 DEF Moving, States
  <2>8. PICK p \in Seq(Blocks) : p = op.path /\ Len(p) \in Nat  BY <2>1, Fields, LengthOf
  <2>9. /\ op'.stage = "rewind" /\ op'.kind = "rewind" /\ op'.path = Append(p, header)
    BY <1>18, <2>1, <2>8 DEF RewindHeader, Operation
  <2>10. ASSUME NEW i \in 1..Len(Append(p, header))
         PROVE  Number(Append(p, header)[i]) > Number(t)
    <3>1. CASE i \in 1..Len(p)
      <4>1. Append(p, header)[i] = p[i] /\ p[i] \in Tree  BY <2>2, <2>8, <3>1 DEF Tree
      <4>2. Number(p[i]) > Number(header)  BY <1>i, <2>1, <2>8, <3>1, Fields, SMTT(30) DEF OpOK, RewindOK
      <4> QED  BY <1>0, <2>3, <4>1, <4>2, NumberOf
    <3>2. CASE i = Len(p) + 1
      <4>1. Append(p, header)[i] = header  BY <2>2, <2>8, <3>2
      <4> QED  BY <2>3, <4>1
    <3> QED  BY <2>2, <2>8, <3>1, <3>2
  <2>11. RewindOK(op', head', t)  BY <2>6, <2>9, <2>10 DEF RewindOK
  <2>12. OpOK(op', head', t, stored, States)  BY <2>7, <2>9, <2>11 DEF OpOK, Moving
  <2> QED  BY <1>18, <2>3, <2>5, <2>12 DEF RewindHeader, States
<1>19. CASE DeleteRewound
  <2>1. op \in Operation /\ op.stage = "rewind" /\ op.kind = "rewind" /\ op' = AtStage(op, "unlock")
    BY <1>0, <1>19, Fields DEF DeleteRewound, At, Staged, Goto, AtStage
  <2>2. op'.stage = "unlock" /\ op'.kind = "rewind"  BY <2>1, Unlocks
  <2>3. OpOK(op', head, header, stored', States)  BY <1>h, <2>1, <2>2, QuietStage DEF Moving
  <2>4. PICK p \in Seq(Blocks) : p = op.path /\ Len(p) \in Nat  BY <2>1, Fields, LengthOf
  <2>5. \A b \in Range(p) : b \in Tree /\ Number(b) > Number(head)
    <3> SUFFICES ASSUME NEW b \in Range(p) PROVE b \in Tree /\ Number(b) > Number(head)  OBVIOUS
    <3>1. PICK i \in 1..Len(p) : b = p[i]  BY <2>4 DEF Range
    <3>2. b \in Tree /\ Number(b) \in Nat  BY <2>4, <3>1, NumberOf
    <3>3. Number(b) > Number(header) /\ Number(head) <= Number(header)
      BY <1>i, <2>1, <2>4, <3>1, Fields DEF OpOK, RewindOK
    <3> QED  BY <1>0, <3>2, <3>3
  <2>6. \A n \in Numbers : canon'[n] \in {None, canon[n]}  BY <1>19 DEF DeleteRewound
  <2>7. ASSUME NEW n \in 1..Number(head)
        PROVE  canon'[n] = canon[n] /\ (canon[n] \in stored => canon[n] \in stored')
    <3>1. n \in Numbers /\ n <= Number(head)  BY <1>0, BlockOfChain, NumberOf
    <3>2. \A b \in Range(p) : Number(b) # n  BY <1>0, <2>5, <3>1, NumberOf
    <3>3. canon'[n] = canon[n]  BY <1>19, <2>4, <3>1, <3>2 DEF DeleteRewound
    <3>4. canon[n] = Chain(head)[n]  BY <1>i DEF IndexOK, Linked
    <3>5. Number(canon[n]) = n  BY <1>0, <3>4, BlockOfChain
    <3> QED  BY <1>19, <2>4, <3>2, <3>3, <3>5, Zenon DEF DeleteRewound
  <2>8. IndexOK(head, header, canon', stored')  BY <1>0, <1>i, <2>6, <2>7, IndexShrinks
  <2> QED  BY <1>19, <2>3, <2>8 DEF DeleteRewound, States
<1>20. ASSUME NEW b \in late, Announce(b) PROVE OK'  BY <1>i, <1>20 DEF Announce, States
<1>21. ASSUME NEW b \in Own, Seal(b) PROVE OK'  BY <1>i, <1>21 DEF Seal, States
<1>22. CASE CheckDuplicate  BY <1>i, <1>22, SMTT(30) DEF CheckDuplicate, States
<1>23. CASE WriteSealed
  <2>1. op'.stage = "write" /\ op'.from = head  BY <1>23 DEF WriteSealed, Op
  <2>2. head \in States  BY <1>23, <1>h DEF WriteSealed
  <2>3. OpOK(op', head, header, stored, States)  BY <1>0, <2>1, <2>2, QuietStage
  <2> QED  BY <1>23, <1>i, <2>3 DEF WriteSealed, States
<1>24. ASSUME NEW n \in Numbers \cup {0}, SetHead(n) PROVE OK'
  <2>1. op'.stage = "rewind" /\ op'.kind = "rewind" /\ op'.path = <<>>  BY <1>24 DEF SetHead, Op
  <2>2. head \in States  BY <1>24, <1>h DEF SetHead
  <2>3. RewindOK(op', head, header)  BY <2>1, EmptyOf DEF RewindOK
  <2>4. OpOK(op', head, header, stored, States)  BY <2>1, <2>2, <2>3 DEF OpOK, Moving
  <2> QED  BY <1>24, <1>i, <2>4 DEF SetHead, States
<1>25. ASSUME NEW states \in SUBSET Blocks, Restart(states) PROVE OK'
  <2>1. PICK a \in Tree : a = head' /\ Ancestor(a, head) /\ a \in states \cup {Genesis}
    BY <1>0, <1>25, LoadedOf DEF Restart
  <2>2. IndexOK(a, header, canon, stored)  BY <1>0, <1>i, <2>1, HeadRetreats
  <2>3. States' = states \cup {Genesis} /\ op' = None  BY <1>25 DEF Restart, States
  <2>4. OpOK(op', a, header, stored, States')  BY <2>1, <2>3, QuietStage
  <2> QED  BY <1>25, <2>1, <2>2, <2>4 DEF Restart
<1>26. CASE Crash  BY <1>0, <1>25, <1>26 DEF Crash, TypeOK
<1>27. CASE Stop
  <2>1. PICK states : states = disk \cup {b \in mem : b \in Range(Chain(head)) /\ Number(b) + 1 >= Number(head)}
    BY Zenon
  <2>2. states \in SUBSET Blocks  BY <1>0, <2>1 DEF TypeOK
  <2>3. Restart(states)  BY <1>27, <2>1 DEF Stop
  <2> QED  BY <1>25, <2>2, <2>3
<1> QED
  BY <1>1, <1>2, <1>4, <1>5, <1>6, <1>7, <1>8, <1>9, <1>10, <1>11, <1>12, <1>13, <1>14, <1>15,
     <1>16, <1>17, <1>18, <1>19, <1>20, <1>21, <1>22, <1>23, <1>24, <1>26, <1>27, Zenon
  DEF Next, Proceed

(* ChainInv is invariant.                                                    *)
LEMMA ChainInvariant == Spec => []ChainInv
<1>1. Init => ChainInv  BY InitChain
<1>2. ChainInv /\ [Next]_vars => ChainInv'
  <2> SUFFICES ASSUME ChainInv, [Next]_vars PROVE ChainInv'  OBVIOUS
  <2>1. CASE Next  BY <2>1, ChainStep
  <2>2. CASE UNCHANGED vars
    <3>1. UNCHANGED dbVars /\ UNCHANGED <<op, caller, late, sealed, announced, crashed, faults>>
      BY <2>2 DEF vars
    <3>2. TypeOK'  BY <3>1 DEF ChainInv, TypeOK, dbVars
    <3>3. Staged(op) /\ IndexOK(head, header, canon, stored) /\ OpOK(op, head, header, stored, States)
      BY DEF ChainInv
    <3>4. Staged(op)' /\ IndexOK(head, header, canon, stored)' /\ OpOK(op, head, header, stored, States)'
      BY <3>1, <3>3 DEF dbVars, States
    <3> QED  BY <3>2, <3>4 DEF ChainInv
  <2> QED  BY <2>1, <2>2
<1> QED  BY <1>1, <1>2, PTL DEF Spec

(* At every moment, so at every crash too, the canonical hashes up to the    *)
(* head are the chain of the head, and all its blocks are stored             *)
(* (writeHeadBlock, reorg, SetHead), in every tree of blocks.                *)
THEOREM Canonical == Spec => []CanonicalIsLinked
<1>1. ChainInv => CanonicalIsLinked  BY DEF ChainInv, IndexOK, Linked, CanonicalIsLinked
<1> QED  BY <1>1, ChainInvariant, PTL

(* Between operations, the state of the head is there to execute the next    *)
(* block on, whatever was pruned, rewound or lost in a crash.                *)
THEOREM Executable == Spec => []HeadHasState
<1>1. ChainInv => HeadHasState
  <2> SUFFICES ASSUME ChainInv, op = None PROVE HasState(head)  BY DEF HeadHasState
  <2>1. head \in States  BY DEF ChainInv, OpOK
  <2> QED  BY <2>1 DEF States, HasState
<1> QED  BY <1>1, ChainInvariant, PTL

(* Stop commits the state of the head, so that the next start resumes on it. *)
LEMMA StopResumes ==
    ASSUME ChainInv, Stop
    PROVE  head' = head
<1>1. op = None /\ head \in Tree /\ mem \subseteq Blocks /\ disk \subseteq Blocks
  BY DEF ChainInv, TypeOK, Stop
<1>2. head \in disk \cup mem \cup {Genesis}  BY <1>1 DEF ChainInv, OpOK, States
<1>3. PICK states : states = disk \cup {b \in mem : b \in Range(Chain(head)) /\ Number(b) + 1 >= Number(head)}
  BY Zenon
<1>4. states \in SUBSET Blocks  BY <1>1, <1>3
<1>5. head \in states \cup {Genesis}
  <2>1. CASE head \in mem /\ head # Genesis
    <3>1. head \in Blocks  BY <1>1, <2>1
    <3>2. Number(head) \in Nat /\ Chain(head)[Number(head)] = head /\ Number(head) >= 1
      BY <3>1, NumberOf, BlockChainAssumption
    <3>3. Chain(head) \in Seq(Blocks) /\ Number(head) = Len(Chain(head))  BY <1>1, ChainOf
    <3>4. Number(head) \in DOMAIN Chain(head)  BY <3>2, <3>3
    <3>5. head \in Range(Chain(head))  BY <3>2, <3>4 DEF Range
    <3> QED  BY <1>3, <2>1, <3>2, <3>5
  <2> QED  BY <1>2, <1>3, <2>1
<1>6. head' = Loaded(states)  BY <1>3 DEF Stop, Restart
<1> QED  BY <1>1, <1>4, <1>5, <1>6, LoadedOf

(* An insertion or a block of the worker never ends with a lighter head than *)
(* it found (writeBlockWithState, reorg), and a node resumes on its head     *)
(* after an orderly Stop.                                                    *)
THEOREM NotLost == Spec => HeadIsNotLost
<1> DEFINE Kept == /\ At("unlock") /\ op' = None /\ op.kind # "rewind" => Number(head) >= Number(op.from)
                   /\ op = None /\ op' = None /\ faults' # faults /\ ~crashed' => head' = head
<1>1. ASSUME ChainInv, Next PROVE Kept
  <2>0. op \in Operation \cup {None} /\ head \in Tree  BY <1>1 DEF ChainInv, TypeOK
  <2>1. ASSUME At("unlock"), op.kind # "rewind" PROVE Number(head) >= Number(op.from)
    <3>1. op \in Operation /\ op.stage = "unlock"  BY <2>0, <2>1 DEF At
    <3>2. Number(op.from) <= Number(head)  BY <1>1, <2>1, <3>1, Fields DEF ChainInv, OpOK, Moving
    <3> QED  BY <2>0, <3>1, <3>2, Fields, NumberOf
  <2>2. ASSUME op = None, op' = None, faults' # faults, ~crashed' PROVE head' = head
    <3>1. ~\E batch \in Batches : InsertChain(batch)  BY <2>2 DEF InsertChain
    <3>2. ~Proceed
      BY <2>2 DEF Proceed, At, SkipKnown, Finish, RejectBlock, InsertSideBlock, ImportSideChain,
         WriteBlock, ParentGone, CommitState, CommitFails, BeginReorg, StaySide, ReorgBlock,
         DeleteIndexes, WriteHead, Unlock, RewindHeader, DeleteRewound
    <3>3. ~(\E b \in late : Announce(b)) /\ ~\E b \in Own : Seal(b)  BY <2>2 DEF Announce, Seal
    <3>4. ~CheckDuplicate /\ ~WriteSealed /\ ~Crash  BY <2>2 DEF CheckDuplicate, WriteSealed, Crash
    <3>5. ASSUME NEW n \in Numbers \cup {0}, SetHead(n) PROVE FALSE
      <4>1. n \in Nat  BY NumberOf DEF Numbers
      <4>2. PICK o \in Operation : o = Op("rewind", <<>>, "rewind")
        BY <2>0, NewOperation, EmptyOf, Zenon
      <4>3. op' = [o EXCEPT !.old = n]  BY <3>5, <4>2 DEF SetHead
      <4>4. op' \in Operation  BY <4>1, <4>3 DEF Operation
      <4> QED  BY <2>2, <4>4, Fields
    <3>6. Stop  BY <1>1, <3>1, <3>2, <3>3, <3>4, <3>5, Zenon DEF Next
    <3> QED  BY <1>1, <3>6, StopResumes
  <2> QED  BY <2>1, <2>2
<1>2. ChainInv /\ [Next]_vars => [Kept]_vars  BY <1>1
<1>3. Spec => [][Next]_vars  BY PTL DEF Spec
<1> QED  BY <1>2, <1>3, ChainInvariant, PTL DEF HeadIsNotLost

-----------------------------------------------------------------------------
(* An archive node: the states on disk are those of whole chains.            *)

ArchiveOK ==
    archive => /\ mem = {} /\ head \in States
               /\ \A b \in disk : Parent[b] \in States
               /\ sealed # None => Parent[sealed.block] \in States
               /\ op # None /\ op.stage \in {"write", "commit"} => Parent[op.todo[1]] \in States

(* With the state of a block, an archive node has those of its chain.        *)
LEMMA WholeChains ==
    ASSUME TypeOK, mem = {}, \A b \in disk : Parent[b] \in States,
           NEW b \in States, b \in Tree, NEW n \in 1..Number(b)
    PROVE  Chain(b)[n] \in States
<1> DEFINE Good(c) == c \in States => \A i \in 1..Number(c) : Chain(c)[i] \in States
           G == {k \in Nat : \A c \in Tree : Number(c) = k => Good(c)}
<1>1. 0 \in G  OBVIOUS
<1>2. ASSUME NEW k \in Nat, k # 0, k - 1 \in G, NEW c \in Tree, Number(c) = k, c \in States,
             NEW i \in 1..k
      PROVE  Chain(c)[i] \in States
  <2>1. c \in Blocks /\ c # Genesis  BY <1>2, NumberOf DEF Tree
  <2>2. PICK p \in Tree : /\ p = Parent[c] /\ Number(p) = k - 1 /\ Chain(c)[k] = c
                          /\ \A j \in 1..(k - 1) : Chain(c)[j] = Chain(p)[j]
    BY <1>2, <2>1, NumberOf
  <2>3. p \in States  BY <1>2, <2>1, <2>2 DEF States
  <2>4. Good(p)  BY <1>2, <2>2
  <2>5. CASE i = k  BY <1>2, <2>2, <2>5
  <2>6. CASE i # k
    <3>1. i \in 1..(k - 1)  BY <2>6
    <3> QED  BY <2>2, <2>3, <2>4, <3>1
  <2> QED  BY <2>5, <2>6
<1>3. \A k \in Nat : k # 0 /\ k - 1 \in G => k \in G  BY <1>2
<1>4. Number(b) \in Nat  BY NumberOf
<1>5. Number(b) \in G
  <2>1. G \in SUBSET Nat  OBVIOUS
  <2> HIDE DEF G
  <2>2. \A k \in 1..Number(b) : k - 1 \in G => k \in G  BY <1>3, <1>4
  <2> QED  BY <1>1, <1>4, <2>1, <2>2, Climb
<1> QED  BY <1>5

(* The states of an archive node stay those of whole chains: a block is      *)
(* executed on the state of its parent, and no state is lost.                *)
LEMMA ArchiveStep ==
    ASSUME ChainInv, ArchiveOK, Next
    PROVE  ArchiveOK'
<1> USE DEF dbVars, others
<1> SUFFICES ASSUME archive' PROVE ArchiveOK'  BY DEF ArchiveOK
<1>0. /\ op \in Operation \cup {None} /\ head \in Tree /\ header \in Tree /\ TypeOK /\ Staged(op)
      /\ disk \subseteq Blocks
  BY DEF ChainInv, TypeOK
<1>a. archive
  BY Zenon DEF Next, Proceed, InsertChain, SkipKnown, Finish, RejectBlock, InsertSideBlock, ImportSideChain,
         WriteBlock, ParentGone, CommitState, CommitFails, BeginReorg, StaySide, ReorgBlock,
         DeleteIndexes, WriteHead, Unlock, RewindHeader, DeleteRewound, Announce, Seal,
         CheckDuplicate, WriteSealed, SetHead, Crash, Stop, Restart
<1>b. /\ mem = {} /\ head \in States /\ \A b \in disk : Parent[b] \in States
      /\ sealed # None => Parent[sealed.block] \in States
      /\ op # None /\ op.stage \in {"write", "commit"} => Parent[op.todo[1]] \in States
  BY <1>a DEF ArchiveOK
<1>1. ASSUME UNCHANGED <<head, disk, mem, sealed>>,
             op' # None => op'.stage \notin {"write", "commit"}
      PROVE  ArchiveOK'
  BY <1>1, <1>b DEF ArchiveOK, States
<1>2. ASSUME NEW batch \in Batches, InsertChain(batch) PROVE ArchiveOK'
  BY <1>1, <1>2 DEF InsertChain, Op
<1>3. CASE SkipKnown
  <2>1. op \in Operation /\ op.stage = "next"  BY <1>0, <1>3 DEF SkipKnown, At
  <2>2. op'.stage = "next"  BY <1>3, <2>1 DEF SkipKnown, Operation
  <2> QED  BY <1>1, <1>3, <2>2 DEF SkipKnown
<1>4. CASE Finish
  <2>1. op \in Operation  BY <1>0, <1>4 DEF Finish, At
  <2>2. op'.stage = "unlock"  BY <1>4, <2>1 DEF Finish, Reply, Operation
  <2> QED  BY <1>1, <1>4, <2>2 DEF Finish
<1>5. CASE RejectBlock
  <2>1. op \in Operation  BY <1>0, <1>5 DEF RejectBlock, At
  <2>2. op'.stage = "unlock"  BY <1>5, <2>1 DEF RejectBlock, Goto, Operation
  <2> QED  BY <1>1, <1>5, <2>2 DEF RejectBlock
<1>6. CASE InsertSideBlock
  <2>1. op \in Operation  BY <1>0, <1>6 DEF InsertSideBlock, At
  <2>2. op'.stage = "side"  BY <1>6, <2>1 DEF InsertSideBlock, Operation
  <2> QED  BY <1>1, <1>6, <2>2 DEF InsertSideBlock
<1>7. CASE ImportSideChain
  <2>1. op \in Operation  BY <1>0, <1>7 DEF ImportSideChain, At
  <2>2. op'.stage \in {"next", "unlock"}  BY <1>7, <2>1, Zenon DEF ImportSideChain, Reply, Operation
  <2> QED  BY <1>1, <1>7, <2>2 DEF ImportSideChain
<1>8. CASE WriteBlock
  <2>1. op \in Operation /\ op.stage \in {"next", "write"}  BY <1>0, <1>8 DEF WriteBlock, At
  <2>2. op'.stage = "commit" /\ op'.todo = op.todo  BY <1>8, <2>1 DEF WriteBlock, Operation
  <2>3. Parent[op.todo[1]] \in States
    <3>1. CASE op.stage = "next"
      BY <1>8, <3>1 DEF WriteBlock, At, Runs, HasState, Next1, States
    <3>2. CASE op.stage = "write"  BY <1>b, <2>1, <3>2, Fields
    <3> QED  BY <2>1, <3>1, <3>2
  <2> QED  BY <1>8, <1>b, <2>2, <2>3 DEF WriteBlock, ArchiveOK, States
<1>9. CASE ParentGone
  <2>1. op \in Operation  BY <1>0, <1>9 DEF ParentGone, At
  <2>2. op'.stage = "unlock"  BY <1>9, <2>1 DEF ParentGone, Goto, Operation
  <2> QED  BY <1>1, <1>9, <2>2 DEF ParentGone
<1>10. CASE CommitState
  <2>1. op \in Operation /\ op.stage = "commit"  BY <1>0, <1>10 DEF CommitState, At
  <2>2. op'.stage = "choose"  BY <1>10, <2>1 DEF CommitState, Goto, Operation
  <2>3. disk' = disk \cup {op.todo[1]} /\ mem' = mem  BY <1>10, <1>a DEF CommitState, Next1
  <2>4. Parent[op.todo[1]] \in States  BY <1>b, <2>1, Fields
  <2>5. States \subseteq States'  BY <2>3 DEF States
  <2>6. \A b \in disk' : Parent[b] \in States'  BY <1>b, <2>3, <2>4, <2>5
  <2> QED  BY <1>10, <1>b, <2>2, <2>3, <2>5, <2>6 DEF CommitState, ArchiveOK
<1>11. CASE CommitFails
  <2>1. op \in Operation  BY <1>0, <1>11 DEF CommitFails, At
  <2>2. op'.stage = "unlock"  BY <1>11, <2>1 DEF CommitFails, Fail, Reply, Goto, Operation
  <2> QED  BY <1>1, <1>11, <2>2 DEF CommitFails
<1>12. CASE BeginReorg
  <2>1. op \in Operation  BY <1>0, <1>12 DEF BeginReorg, At
  <2>2. op'.stage \in {"reorg", "unlock"}
    BY <1>12, <2>1, Zenon DEF BeginReorg, Fail, Reply, Goto, Operation
  <2> QED  BY <1>1, <1>12, <2>2 DEF BeginReorg
<1>13. CASE StaySide
  <2>1. op \in Operation /\ op.todo # <<>>  BY <1>0, <1>13, Fields DEF StaySide, At, Staged, Writing
  <2>2. op'.stage \in {"next", "unlock"}  BY <1>13, <2>1, ContinueOf DEF StaySide
  <2> QED  BY <1>1, <1>13, <2>2 DEF StaySide
<1>14. CASE ReorgBlock
  <2>1. op \in Operation /\ op.stage = "reorg" /\ op.todo # <<>> /\ op.path # <<>>
    BY <1>0, <1>14, Fields DEF ReorgBlock, At, Staged, Writing
  <2>2. PICK b \in Blocks : b = op.todo[1] /\ b \in Tree /\ Number(b) \in Nat
    BY <2>1, Fields, NextBlock, NumberOf
  <2>3. PICK p \in Seq(Blocks) : p = op.path /\ Len(p) \in Nat /\ Len(p) >= 1
    BY <2>1, Fields, EmptyOf, LengthOf
  <2>4. b \in States /\ ReorgOK(op, head, stored)
    BY <2>1, <2>2, Fields DEF ChainInv, OpOK
  <2>5. PICK m : m = Number(b) - Len(p)  BY Zenon
  <2>6. m \in 1..Number(b) /\ m - 1 + 1 = m /\ p[1] = Chain(b)[m - 1 + 1]
    <3>1. Meets(b, m, head) /\ \A i \in 1..Len(p) : p[i] = Chain(b)[m - 1 + i]
      BY <2>2, <2>3, <2>4, <2>5 DEF ReorgOK
    <3>2. m \in 1..Number(b)  BY <3>1 DEF Meets
    <3>3. m - 1 + 1 = m /\ 1 \in 1..Len(p)  BY <2>2, <2>3, <3>2
    <3> QED  BY <3>1, <3>2, <3>3
  <2>7. p[1] \in States  BY <1>0, <1>b, <2>2, <2>4, <2>6, WholeChains
  <2>8. head' = p[1]  BY <1>14, <2>3 DEF ReorgBlock, writeHeadBlock
  <2>9. op'.stage = "reorg"  BY <1>14, <2>1, SMTT(30) DEF ReorgBlock, Operation
  <2> QED  BY <1>14, <1>b, <2>7, <2>8, <2>9 DEF ReorgBlock, ArchiveOK, States
<1>15. CASE DeleteIndexes
  <2>1. op \in Operation  BY <1>0, <1>15, Zenon DEF DeleteIndexes, At
  <2>2. op'.stage = "head"  BY <1>15, <2>1 DEF DeleteIndexes, Goto, Operation
  <2> QED  BY <1>1, <1>15, <2>2 DEF DeleteIndexes
<1>16. CASE WriteHead
  <2>1. op \in Operation /\ op.stage \in {"choose", "head"} /\ op.todo # <<>>
    BY <1>0, <1>16, Fields DEF WriteHead, At, Staged, Writing
  <2>2. op.todo[1] \in States  BY <2>1, Fields, Zenon DEF ChainInv, OpOK
  <2>3. op'.stage \in {"next", "unlock"}
    <3>1. PICK o \in Operation : o = Continue /\ o.stage \in {"next", "unlock"}  BY <2>1, ContinueOf, Zenon
    <3>2. op' = [o EXCEPT !.last = Next1]  BY <1>16, <3>1 DEF WriteHead
    <3> QED  BY <3>1, <3>2 DEF Operation
  <2>4. head' = op.todo[1]  BY <1>16 DEF WriteHead, writeHeadBlock, Next1
  <2> QED  BY <1>16, <1>b, <2>2, <2>3, <2>4 DEF WriteHead, ArchiveOK, States
<1>17. CASE Unlock  BY <1>1, <1>17 DEF Unlock
<1>18. CASE RewindHeader
  <2>1. op \in Operation /\ op.stage = "rewind"  BY <1>0, <1>18 DEF RewindHeader, At
  <2>2. op'.stage = "rewind"  BY <1>18, <2>1 DEF RewindHeader, Operation
  <2>3. head' \in States  BY <1>18, <1>b DEF RewindHeader, HasState, States
  <2> QED  BY <1>18, <1>b, <2>2, <2>3 DEF RewindHeader, ArchiveOK, States
<1>19. CASE DeleteRewound
  <2>1. op \in Operation  BY <1>0, <1>19 DEF DeleteRewound, At
  <2>2. op'.stage = "unlock"  BY <1>19, <2>1, SMTT(30) DEF DeleteRewound, Goto, Operation
  <2> QED  BY <1>1, <1>19, <2>2 DEF DeleteRewound
<1>20. ASSUME NEW b \in late, Announce(b) PROVE ArchiveOK'
  BY <1>20, <1>b DEF Announce, ArchiveOK, States
<1>21. ASSUME NEW b \in Own, Seal(b) PROVE ArchiveOK'
  <2>1. sealed'.block = b /\ Parent[b] = head  BY <1>21 DEF Seal
  <2> QED  BY <1>21, <1>b, <2>1, Zenon DEF Seal, ArchiveOK, States
<1>22. CASE CheckDuplicate
  <2>1. sealed' # None => sealed'.block = sealed.block /\ sealed # None  BY <1>22 DEF CheckDuplicate
  <2> QED  BY <1>22, <1>b, <2>1 DEF CheckDuplicate, ArchiveOK, States
<1>23. CASE WriteSealed
  <2>1. op'.stage = "write" /\ op'.todo = <<sealed.block>> /\ op'.todo[1] = sealed.block
    BY <1>23 DEF WriteSealed, Op
  <2>2. Parent[sealed.block] \in States  BY <1>23, <1>b DEF WriteSealed
  <2> QED  BY <1>23, <1>b, <2>1, <2>2, Zenon DEF WriteSealed, ArchiveOK, States
<1>24. ASSUME NEW n \in Numbers \cup {0}, SetHead(n) PROVE ArchiveOK'
  <2>1. op'.stage = "rewind"  BY <1>24 DEF SetHead, Op
  <2> QED  BY <1>1, <1>24, <2>1 DEF SetHead
<1>25. ASSUME Restart(disk) PROVE ArchiveOK'
  <2>1. head' \in disk \cup {Genesis}  BY <1>0, <1>25, LoadedOf DEF Restart
  <2>2. States' = States /\ mem' = {} /\ sealed' = None /\ op' = None /\ disk' = disk
    BY <1>25, <1>b DEF Restart, States
  <2> QED  BY <1>b, <2>1, <2>2 DEF ArchiveOK, States
<1>26. CASE Crash  BY <1>25, <1>26 DEF Crash
<1>27. CASE Stop
  <2>1. disk \cup {b \in mem : b \in Range(Chain(head)) /\ Number(b) + 1 >= Number(head)} = disk
    BY <1>b
  <2> QED  BY <1>25, <1>27, <2>1 DEF Stop
<1> QED
  BY <1>2, <1>3, <1>4, <1>5, <1>6, <1>7, <1>8, <1>9, <1>10, <1>11, <1>12, <1>13, <1>14, <1>15,
     <1>16, <1>17, <1>18, <1>19, <1>20, <1>21, <1>22, <1>23, <1>24, <1>26, <1>27, Zenon
  DEF Next, Proceed

-----------------------------------------------------------------------------
(* The top of the index of an archive node that has not crashed. *)

Bare(h, c) == \A n \in Numbers : n > Number(h) => c[n] = None

\* The hashes above the head are there up to the first gap.
Filled(h, c) ==
    \A n \in Numbers : n > Number(h) /\ c[n] # None => \A j \in (Number(h) + 1)..n : c[j] # None

\* No block that is still to be written is canonical, unless it is the head already.
Apart(o, h, c) ==
    LET b == o.todo[1] IN
    \/ h = b /\ o.path = <<>>
    \/ \A n \in (Number(b) - Len(o.path))..Number(b) : c[n] # Chain(b)[n]

\* The hashes above the head are those of blocks that SetHead is going to delete.
ToDelete(o, h, c) ==
    \A n \in Numbers : n > Number(h) /\ c[n] # None => \E i \in 1..Len(o.path) : Number(o.path[i]) = n

TopOK(o, h, c) ==
    /\ o = None \/ o.stage \notin {"reorg", "rewind"} => Bare(h, c)
    /\ o # None /\ o.stage \in Moving => Number(h) <= Number(o.todo[1]) /\ Apart(o, h, c)
    /\ o # None /\ o.stage = "head" => o.path = <<>>
    /\ o # None /\ o.stage = "reorg" => Filled(h, c)
    /\ o # None /\ o.stage = "rewind" => ToDelete(o, h, c)

TipInv == archive /\ ~crashed => header = head /\ TopOK(op, head, canon)

(* Every step of an archive node keeps the head and the head header equal,   *)
(* and the hashes above them to what the operation deletes.                  *)
LEMMA TipStep ==
    ASSUME ChainInv, ArchiveOK, TipInv, Next
    PROVE  TipInv'
<1> USE DEF dbVars, others
<1> SUFFICES ASSUME archive', ~crashed' PROVE (header = head /\ TopOK(op, head, canon))'
  BY DEF TipInv
<1> DEFINE Tip == header = head /\ TopOK(op, head, canon)
<1>0. /\ op \in Operation \cup {None} /\ head \in Tree /\ header \in Tree /\ Staged(op)
      /\ canon \in Index /\ Number(head) \in Nat /\ TypeOK
      /\ Linked(head, canon, stored)
  BY NumberOf DEF ChainInv, TypeOK, Index, IndexOK
<1>a. archive /\ ~crashed
  <2>1. archive' = archive
    BY Zenon DEF Next, Proceed, InsertChain, SkipKnown, Finish, RejectBlock, InsertSideBlock, ImportSideChain,
           WriteBlock, ParentGone, CommitState, CommitFails, BeginReorg, StaySide, ReorgBlock,
           DeleteIndexes, WriteHead, Unlock, RewindHeader, DeleteRewound, Announce, Seal,
           CheckDuplicate, WriteSealed, SetHead, Crash, Stop, Restart
  <2>2. crashed' = crashed \/ Crash
    BY Zenon DEF Next, Proceed, InsertChain, SkipKnown, Finish, RejectBlock, InsertSideBlock, ImportSideChain,
           WriteBlock, ParentGone, CommitState, CommitFails, BeginReorg, StaySide, ReorgBlock,
           DeleteIndexes, WriteHead, Unlock, RewindHeader, DeleteRewound, Announce, Seal,
           CheckDuplicate, WriteSealed, SetHead, Stop, Restart
  <2>3. ~Crash  BY DEF Crash
  <2> QED  BY <2>1, <2>2, <2>3
<1>b. header = head /\ TopOK(op, head, canon)  BY <1>a DEF TipInv
<1>1. ASSUME UNCHANGED <<head, header, canon>>, op = None \/ op.stage \notin Moving \cup {"rewind"},
             op' = None \/ op'.stage \notin Moving \cup {"rewind"}
      PROVE  Tip'
  <2>1. Bare(head, canon)  BY <1>1, <1>b DEF TopOK, Moving
  <2>2. TopOK(op', head, canon)  BY <1>1, <2>1 DEF TopOK, Moving
  <2> QED  BY <1>1, <1>b, <2>2
<1>2. ASSUME NEW batch \in Batches, InsertChain(batch) PROVE Tip'
  BY <1>1, <1>2 DEF InsertChain, Op, Moving
<1>3. CASE SkipKnown
  <2>1. op \in Operation /\ op.stage = "next"  BY <1>0, <1>3 DEF SkipKnown, At
  <2>2. op'.stage = "next"  BY <1>3, <2>1 DEF SkipKnown, Operation
  <2> QED  BY <1>1, <1>3, <2>1, <2>2 DEF SkipKnown, Moving
<1>4. CASE Finish
  <2>1. op \in Operation /\ op.stage = "next"  BY <1>0, <1>4 DEF Finish, At
  <2>2. op'.stage = "unlock"  BY <1>4, <2>1 DEF Finish, Reply, Operation
  <2> QED  BY <1>1, <1>4, <2>1, <2>2 DEF Finish, Moving
<1>5. CASE RejectBlock
  <2>1. op \in Operation /\ op.stage = "next"  BY <1>0, <1>5 DEF RejectBlock, At
  <2>2. op'.stage = "unlock"  BY <1>5, <2>1 DEF RejectBlock, Goto, Operation
  <2> QED  BY <1>1, <1>5, <2>1, <2>2 DEF RejectBlock, Moving
<1>6. CASE InsertSideBlock
  <2>1. op \in Operation /\ op.stage \in {"next", "side"}  BY <1>0, <1>6 DEF InsertSideBlock, At
  <2>2. op'.stage = "side"  BY <1>6, <2>1 DEF InsertSideBlock, Operation
  <2> QED  BY <1>1, <1>6, <2>1, <2>2 DEF InsertSideBlock, Moving
<1>7. CASE ImportSideChain
  <2>1. op \in Operation /\ op.stage = "side"  BY <1>0, <1>7 DEF ImportSideChain, At
  <2>2. op'.stage \in {"next", "unlock"}  BY <1>7, <2>1, Zenon DEF ImportSideChain, Reply, Operation
  <2> QED  BY <1>1, <1>7, <2>1, <2>2 DEF ImportSideChain, Moving
<1>8. CASE WriteBlock
  <2>1. op \in Operation /\ op.stage \in {"next", "write"}  BY <1>0, <1>8 DEF WriteBlock, At
  <2>2. op'.stage = "commit"  BY <1>8, <2>1 DEF WriteBlock, Operation
  <2> QED  BY <1>1, <1>8, <2>1, <2>2 DEF WriteBlock, Moving
<1>9. CASE ParentGone
  <2>1. op \in Operation /\ op.stage = "write"  BY <1>0, <1>9 DEF ParentGone, At
  <2>2. op'.stage = "unlock"  BY <1>9, <2>1 DEF ParentGone, Goto, Operation
  <2> QED  BY <1>1, <1>9, <2>1, <2>2 DEF ParentGone, Moving
<1>10. CASE CommitState
  <2>1. op \in Operation /\ op.stage = "commit"  BY <1>0, <1>10 DEF CommitState, At
  <2>2. op'.stage = "choose"  BY <1>10, <2>1 DEF CommitState, Goto, Operation
  <2> QED  BY <1>1, <1>10, <2>1, <2>2 DEF CommitState, Moving
<1>11. CASE CommitFails
  <2>1. op \in Operation /\ op.stage = "commit"  BY <1>0, <1>11 DEF CommitFails, At
  <2>2. op'.stage = "unlock"  BY <1>11, <2>1 DEF CommitFails, Fail, Reply, Goto, Operation
  <2> QED  BY <1>1, <1>11, <2>1, <2>2, SMTT(30) DEF CommitFails, Moving
<1>12. CASE BeginReorg
  <2>1. op \in Operation /\ op.stage = "choose" /\ op.todo # <<>>
    BY <1>0, <1>12, Fields DEF BeginReorg, At, Staged, Writing
  <2>2. CASE op' = AtStage(op, "unlock")
    <3>1. op'.stage = "unlock"  BY <2>1, <2>2, Unlocks
    <3> QED  BY <1>1, <1>12, <2>1, <3>1 DEF BeginReorg, Moving
  <2>3. CASE op' # AtStage(op, "unlock")
    <3>1. PICK b \in Blocks : b = op.todo[1] /\ b \in Tree /\ Number(b) \in Nat
      BY <2>1, Fields, NextBlock, NumberOf
    <3>2. op' = [op EXCEPT !.stage = "reorg", !.path = NewChain(b)] /\ Number(b) >= Number(head)
      BY <1>12, <2>3, <3>1, SMTT(30) DEF BeginReorg, Fail, Reply, Goto, AtStage, Next1, Prefers
    <3>3. PICK p \in Seq(Blocks) : p = NewChain(b)  BY <1>0, <3>1, NewChainOf
    <3>4. op'.stage = "reorg" /\ op'.todo = op.todo /\ op'.path = p
      BY <2>1, <3>2, <3>3, SMTT(30) DEF Operation
    <3>5. PICK k \in Nat : k = Fork(b)  BY <1>0, <3>1, NewChainOf, SMTT(30)
    <3>6. /\ k <= Number(head) /\ k <= Number(b)
          /\ \A n \in 1..k : Chain(head)[n] = Chain(b)[n]
          /\ \A n \in 1..Number(head) : n > k /\ n <= Number(b) => Chain(head)[n] # Chain(b)[n]
          /\ k < Number(b) => Len(p) = Number(b) - 1 - k
          /\ k = Number(b) => p = <<>>
      BY <1>0, <3>1, <3>3, <3>5, NewChainOf
    <3>7. Bare(head, canon)  BY <1>b, <2>1, Zenon DEF TopOK
    <3>8. Apart(op', head, canon)
      <4>1. CASE k = Number(b)
        <5>1. Number(head) = Number(b)  BY <1>0, <3>1, <3>2, <3>6, <4>1
        <5>2. Ancestor(head, b)  BY <1>0, <3>6, <4>1, <5>1, SMTT(30) DEF Ancestor
        <5>3. head = b  BY <1>0, <3>1, <5>1, <5>2, AncestorFacts
        <5> QED  BY <3>1, <3>4, <3>6, <4>1, <5>3 DEF Apart
      <4>2. CASE k < Number(b)
        <5>1. Number(b) - Len(p) = k + 1  BY <3>1, <3>6, <4>2
        <5>2. ASSUME NEW n \in (k + 1)..Number(b) PROVE canon[n] # Chain(b)[n]
          <6>1. n \in 1..Number(b) /\ n > k /\ n <= Number(b)  BY <3>1
          <6>2. CASE n <= Number(head)
            <7>1. n \in 1..Number(head)  BY <1>0, <6>1, <6>2
            <7> QED  BY <1>0, <3>6, <6>1, <7>1 DEF Linked
          <6>3. CASE n > Number(head)
            <7>1. Chain(b)[n] \in Blocks /\ n \in Numbers  BY <3>1, <6>1, BlockOfChain, NumberOf
            <7> QED  BY <3>7, <6>3, <7>1, BlockChainAssumption DEF Bare
          <6> QED  BY <1>0, <6>1, <6>2, <6>3
        <5>3. op'.todo[1] = b /\ Len(op'.path) = Len(p)  BY <3>1, <3>4
        <5> QED  BY <5>1, <5>2, <5>3 DEF Apart
      <4> QED  BY <3>1, <3>6, <4>1, <4>2
    <3>9. Filled(head, canon)  BY <3>7 DEF Filled, Bare
    <3>10. Number(head) <= Number(op'.todo[1])  BY <1>0, <3>1, <3>2, <3>4
    <3>11. op' # None
      <4>1. op' \in Operation  BY <2>1, <3>2, <3>3, Zenon DEF Operation
      <4> QED  BY <4>1, Fields
    <3>12. TopOK(op', head, canon)  BY <3>4, <3>8, <3>9, <3>10, <3>11 DEF TopOK, Moving
    <3> QED  BY <1>12, <1>b, <3>12 DEF BeginReorg
  <2> QED  BY <2>2, <2>3
<1>13. CASE StaySide
  <2>1. op \in Operation /\ op.stage = "choose" /\ op.todo # <<>>
    BY <1>0, <1>13, Fields DEF StaySide, At, Staged, Writing
  <2>2. op'.stage \in {"next", "unlock"}  BY <1>13, <2>1, ContinueOf DEF StaySide
  <2> QED  BY <1>1, <1>13, <2>1, <2>2, SMTT(30) DEF StaySide, Moving
<1>14. CASE ReorgBlock
  <2>1. op \in Operation /\ op.stage = "reorg" /\ op.todo # <<>> /\ op.path # <<>>
    BY <1>0, <1>14, Fields DEF ReorgBlock, At, Staged, Writing
  <2>2. PICK b \in Blocks : b = op.todo[1] /\ b \in Tree /\ Number(b) \in Nat
    BY <2>1, Fields, NextBlock, NumberOf
  <2>3. PICK p \in Seq(Blocks) : p = op.path /\ p # <<>> /\ Len(p) \in Nat /\ Len(p) >= 1
    BY <2>1, Fields, EmptyOf, LengthOf
  <2>4. PICK m : m = Number(b) - Len(p)  BY Zenon
  <2>5. ReorgOK(op, head, stored)  BY <2>1, Fields DEF ChainInv, OpOK
  <2>6. m \in 1..Number(b) /\ m \in Nat /\ m - 1 + 1 = m /\ m + 1 <= Number(b) /\ p[1] = Chain(b)[m - 1 + 1]
    <3>1. Meets(b, m, head) /\ \A i \in 1..Len(p) : p[i] = Chain(b)[m - 1 + i]
      BY <2>2, <2>3, <2>4, <2>5, SMTT(30) DEF ReorgOK
    <3>2. m \in 1..Number(b) /\ m \in Nat  BY <2>2, <3>1 DEF Meets
    <3>3. m - 1 + 1 = m /\ m + 1 <= Number(b) /\ 1 \in 1..Len(p)  BY <2>2, <2>3, <2>4, <3>2
    <3> QED  BY <3>1, <3>2, <3>3, Zenon
  <2>7. PICK a \in Blocks : a = p[1] /\ a = Chain(b)[m] /\ Number(a) = m /\ m \in Numbers
    BY <2>2, <2>6, BlockOfChain, NumberOf
  <2>8. \A n \in m..Number(b) : canon[n] # Chain(b)[n]
    <3>1. Apart(op, head, canon)  BY <1>b, <2>1, Fields DEF TopOK, Moving
    <3> QED  BY <2>2, <2>3, <2>4, <3>1 DEF Apart
  <2>9. canon[m] # a  BY <2>6, <2>7, <2>8
  <2>10. head' = a /\ header' = a /\ canon' = [canon EXCEPT ![m] = a]
    BY <1>14, <2>3, <2>7, <2>9 DEF ReorgBlock, writeHeadBlock
  <2>11. \A n \in Numbers : n # m => canon'[n] = canon[n]  BY <1>0, <2>10 DEF Index
  <2>12. op' = [op EXCEPT !.path = Tail(p)] /\ Tail(p) \in Seq(Blocks) /\ Len(Tail(p)) = Len(p) - 1
    BY <1>14, <2>3, TailOf DEF ReorgBlock
  <2>13. op' \in Operation /\ op'.stage = "reorg" /\ op'.todo = op.todo /\ op'.path = Tail(p)
    BY <2>1, <2>12, Zenon DEF Operation
  <2>14. Apart(op', a, canon')
    <3>1. PICK k \in Nat : k = m + 1 /\ Number(b) - Len(Tail(p)) = k
      BY <2>2, <2>3, <2>4, <2>6, <2>12, SMTT(30)
    <3>2. ASSUME NEW n \in k..Number(b) PROVE canon'[n] # Chain(b)[n]
      <4>1. n \in m..Number(b) /\ n # m /\ n \in 1..Number(b)  BY <2>2, <2>6, <3>1
      <4>2. n \in Numbers  BY <2>2, <4>1, BlockOfChain, NumberOf
      <4> QED  BY <2>8, <2>11, <4>1, <4>2
    <3>3. op'.todo[1] = b /\ Len(op'.path) = Len(Tail(p))  BY <2>2, <2>13
    <3> QED  BY <3>1, <3>2, <3>3 DEF Apart
  <2>15. Filled(a, canon')
    <3> SUFFICES ASSUME NEW n \in Numbers, n > m, canon'[n] # None, NEW j \in (m + 1)..n
                 PROVE  canon'[j] # None
      BY <2>7 DEF Filled
    <3>1. n \in Nat /\ j \in Nat /\ j > m /\ j <= n  BY <2>6, NumberOf DEF Numbers
    <3>2. PICK x \in Blocks : Number(x) = n /\ x \in Tree  BY NumberOf DEF Numbers
    <3>3. j \in 1..Number(x)  BY <2>6, <3>1, <3>2
    <3>4. j \in Numbers  BY <3>2, <3>3, BlockOfChain, NumberOf, SMTT(30)
    <3>5. canon'[j] = canon[j] /\ canon'[n] = canon[n]  BY <2>6, <2>11, <3>1, <3>4, SMTT(30)
    <3>6. CASE j <= Number(head)
      <4>1. j \in 1..Number(head)  BY <1>0, <2>6, <3>1, <3>6
      <4>2. canon[j] = Chain(head)[j] /\ Chain(head)[j] \in Blocks
        BY <1>0, <4>1, BlockOfChain DEF Linked
      <4> QED  BY <3>5, <4>2, BlockChainAssumption
    <3>7. CASE j > Number(head)
      <4>1. n > Number(head) /\ j \in (Number(head) + 1)..n  BY <1>0, <3>1, <3>7
      <4>2. Filled(head, canon)  BY <1>b, <2>1, Fields, SMTT(30) DEF TopOK
      <4> QED  BY <3>5, <4>1, <4>2 DEF Filled
    <3> QED  BY <1>0, <3>1, <3>6, <3>7
  <2>16. Number(a) <= Number(op'.todo[1])  BY <2>2, <2>6, <2>7, <2>13
  <2>17. TopOK(op', a, canon')  BY <2>13, <2>14, <2>15, <2>16, Fields DEF TopOK, Moving
  <2> QED  BY <2>10, <2>17
<1>15. CASE DeleteIndexes
  <2>1. op \in Operation /\ op.stage = "reorg" /\ op.todo # <<>> /\ op.path = <<>>
    BY <1>0, <1>15, Fields DEF DeleteIndexes, At, Staged, Writing
  <2>2. PICK b \in Blocks : b = op.todo[1] /\ b \in Tree /\ Number(b) \in Nat /\ Number(b) >= 1
    BY <2>1, Fields, NextBlock, NumberOf
  <2>3. op' \in Operation /\ op'.stage = "head" /\ op'.todo = op.todo /\ op'.path = op.path
    BY <1>15, <2>1 DEF DeleteIndexes, Goto, Operation
  <2>4. /\ Filled(head, canon) /\ Apart(op, head, canon) /\ Number(head) <= Number(op.todo[1])
    BY <1>b, <2>1, Fields DEF TopOK, Moving
  <2>5. \A n \in Numbers : canon'[n] = IF n > Number(head) /\ \A j \in Number(head) + 1..n : canon[j] # None
                                       THEN None ELSE canon[n]
    BY <1>15, Zenon DEF DeleteIndexes
  <2>6. Bare(head, canon')
    <3> SUFFICES ASSUME NEW n \in Numbers, n > Number(head) PROVE canon'[n] = None  BY DEF Bare
    <3>1. CASE canon[n] = None  BY <2>5, <3>1
    <3>2. CASE canon[n] # None
      <4>1. \A j \in (Number(head) + 1)..n : canon[j] # None  BY <2>4, <3>2 DEF Filled
      <4> QED  BY <2>5, <4>1
    <3> QED  BY <3>1, <3>2
  <2>7. Apart(op', head, canon')
    <3>1. CASE head = b  BY <2>1, <2>2, <2>3, <3>1 DEF Apart
    <3>2. CASE head # b
      <4>1. Len(op.path) = 0 /\ Len(op'.path) = 0 /\ Number(b) - 0 = Number(b)  BY <2>1, <2>2, <2>3, EmptyOf
      <4>2. canon[Number(b)] # b
        <5>1. Number(b) \in (Number(b) - Len(op.path))..Number(b)  BY <2>2, <4>1
        <5>2. canon[Number(b)] # Chain(b)[Number(b)]  BY <2>2, <2>4, <3>2, <5>1 DEF Apart
        <5> QED  BY <5>2, NumberOf
      <4>3. canon'[Number(b)] # b  BY <2>2, <2>5, <4>2, NumberOf, BlockChainAssumption, SMTT(30)
      <4>4. \A n \in Number(b)..Number(b) : canon'[n] # Chain(b)[n]  BY <2>2, <4>3, NumberOf, SMTT(30)
      <4> QED  BY <2>2, <2>3, <4>1, <4>4 DEF Apart
    <3> QED  BY <3>1, <3>2
  <2>8. TopOK(op', head, canon')  BY <2>1, <2>3, <2>4, <2>6, <2>7, Fields DEF TopOK, Moving
  <2> QED  BY <1>15, <1>b, <2>8 DEF DeleteIndexes
<1>16. CASE WriteHead
  <2>1. op \in Operation /\ op.stage \in {"choose", "head"} /\ op.todo # <<>>
    BY <1>0, <1>16, Fields DEF WriteHead, At, Staged, Writing
  <2>2. PICK b \in Blocks : /\ b = op.todo[1] /\ b \in Tree /\ Number(b) \in Nat
                            /\ Number(b) \in Numbers /\ Chain(b)[Number(b)] = b
    BY <2>1, Fields, NextBlock, NumberOf
  <2>3. Bare(head, canon)  BY <1>b, <2>1, Fields, SMTT(30) DEF TopOK
  <2>4. Number(head) <= Number(b) /\ (head = b \/ canon[Number(b)] # b)
    <3>1. CASE op.stage = "choose"
      <4>1. Parent[b] = head  BY <1>16, <2>2, <3>1, SMTT(30) DEF WriteHead, At, Next1
      <4>2. Number(b) > Number(head) /\ Number(head) <= Number(b)  BY <1>0, <2>2, <4>1, NumberOf, SMTT(30)
      <4>3. canon[Number(b)] = None  BY <2>2, <2>3, <4>2 DEF Bare
      <4> QED  BY <4>2, <4>3, BlockChainAssumption
    <3>2. CASE op.stage = "head"
      <4>1. Number(head) <= Number(b) /\ Apart(op, head, canon) /\ op.path = <<>>
        BY <1>b, <2>1, <2>2, <3>2, Fields DEF TopOK, Moving
      <4>2. Number(b) \in (Number(b) - Len(op.path))..Number(b)  BY <2>2, <4>1, EmptyOf
      <4> QED  BY <2>2, <4>1, <4>2, SMTT(30) DEF Apart
    <3> QED  BY <2>1, <3>1, <3>2
  <2>5. head' = b /\ header' = b /\ canon' = [canon EXCEPT ![Number(b)] = b]
    BY <1>16, <1>b, <2>2, <2>4 DEF WriteHead, writeHeadBlock, Next1
  <2>6. Bare(b, canon')
    <3> SUFFICES ASSUME NEW n \in Numbers, n > Number(b) PROVE canon'[n] = None  BY DEF Bare
    <3>1. n \in Nat /\ n # Number(b) /\ n > Number(head)  BY <1>0, <2>2, <2>4, NumberOf DEF Numbers
    <3> QED  BY <1>0, <2>3, <2>5, <3>1 DEF Bare, Index
  <2>7. op'.stage \in {"next", "unlock"}
    <3>1. PICK o \in Operation : o = Continue /\ o.stage \in {"next", "unlock"}  BY <2>1, ContinueOf
    <3>2. op' = [o EXCEPT !.last = Next1]  BY <1>16, <3>1 DEF WriteHead
    <3> QED  BY <3>1, <3>2 DEF Operation
  <2>8. TopOK(op', b, canon')  BY <2>6, <2>7 DEF TopOK, Moving
  <2> QED  BY <2>5, <2>8
<1>17. CASE Unlock
  <2>1. op.stage = "unlock" /\ op' = None  BY <1>17 DEF Unlock, At
  <2> QED  BY <1>1, <1>17, <2>1 DEF Unlock, Moving
<1>18. CASE RewindHeader
  <2>1. op \in Operation /\ op.stage = "rewind" /\ op.kind = "rewind" /\ op.old \in Nat
    BY <1>0, <1>18, Fields DEF RewindHeader, At, Staged
  <2>2. header \in Blocks
    <3>1. Number(header) # 0  BY <1>0, <1>18, <2>1, NumberOf DEF RewindHeader
    <3> QED  BY <1>0, <3>1, NumberOf DEF Tree
  <2>3. PICK t \in Tree : /\ t = Parent[header] /\ t = header' /\ Number(t) \in Nat
                          /\ Number(header) = Number(t) + 1
    BY <1>18, <2>2, NumberOf DEF RewindHeader
  <2>4. HasState(t)
    <3>1. header \in disk  BY <1>a, <1>b, <2>2, BlockChainAssumption DEF ArchiveOK, States
    <3> QED  BY <1>a, <2>3, <3>1, Zenon DEF ArchiveOK, States, HasState
  <2>5. head' = t  BY <1>18, <1>0, <1>b, <2>3, <2>4 DEF RewindHeader
  <2>6. PICK p \in Seq(Blocks) : p = op.path /\ Len(p) \in Nat  BY <2>1, Fields, LengthOf
  <2>7. op'.stage = "rewind" /\ op'.path = Append(p, header)
    BY <1>18, <2>1, <2>6 DEF RewindHeader, Operation
  <2>8. ToDelete(op', t, canon)
    <3> SUFFICES ASSUME NEW n \in Numbers, n > Number(t), canon[n] # None
                 PROVE  \E i \in 1..Len(Append(p, header)) : Number(Append(p, header)[i]) = n
      BY <2>7 DEF ToDelete
    <3>1. n \in Nat  BY NumberOf DEF Numbers
    <3>2. CASE n = Number(header)
      <4>1. Len(p) + 1 \in 1..Len(Append(p, header)) /\ Append(p, header)[Len(p) + 1] = header
        BY <2>2, <2>6, AppendOf
      <4> QED  BY <3>2, <4>1
    <3>3. CASE n > Number(header)
      <4>1. ToDelete(op, head, canon)  BY <1>b, <2>1, Fields, SMTT(30) DEF TopOK
      <4>2. PICK i \in 1..Len(p) : Number(p[i]) = n  BY <1>b, <2>6, <3>3, <4>1 DEF ToDelete
      <4>3. i \in 1..Len(Append(p, header)) /\ Append(p, header)[i] = p[i]
        BY <2>2, <2>6, AppendOf
      <4> QED  BY <4>2, <4>3, SMTT(30)
    <3> QED  BY <2>3, <3>1, <3>2, <3>3
  <2>9. TopOK(op', t, canon)
    <3>1. op' # None
      <4>1. Append(p, header) \in Seq(Blocks)  BY <2>2, <2>6, AppendOf
      <4>2. op' = [op EXCEPT !.path = Append(p, header)]  BY <1>18, <2>6 DEF RewindHeader
      <4>3. op' \in Operation  BY <2>1, <4>1, <4>2, Zenon DEF Operation
      <4> QED  BY <4>3, Fields
    <3> QED  BY <2>7, <2>8, <3>1 DEF TopOK, Moving
  <2> QED  BY <1>18, <2>3, <2>5, <2>9 DEF RewindHeader
<1>19. CASE DeleteRewound
  <2>1. op \in Operation /\ op.stage = "rewind" /\ op' = AtStage(op, "unlock")
    BY <1>0, <1>19 DEF DeleteRewound, At, Goto, AtStage
  <2>2. op'.stage = "unlock"  BY <2>1, Unlocks
  <2>3. ToDelete(op, head, canon)  BY <1>b, <2>1, Fields DEF TopOK
  <2>4. Bare(head, canon')
    <3> SUFFICES ASSUME NEW n \in Numbers, n > Number(head) PROVE canon'[n] = None  BY DEF Bare
    <3>1. canon'[n] = IF \E b \in Range(op.path) : Number(b) = n THEN None ELSE canon[n]
      BY <1>19 DEF DeleteRewound
    <3>2. CASE canon[n] = None  BY <3>1, <3>2
    <3>3. CASE canon[n] # None
      <4>1. PICK i \in 1..Len(op.path) : Number(op.path[i]) = n  BY <2>3, <3>3 DEF ToDelete
      <4>2. op.path[i] \in Range(op.path)
        <5>1. op.path \in Seq(Blocks)  BY <2>1, Fields
        <5> QED  BY <5>1 DEF Range
      <4> QED  BY <3>1, <4>1, <4>2
    <3> QED  BY <3>2, <3>3
  <2>5. TopOK(op', head, canon')  BY <2>2, <2>4 DEF TopOK, Moving
  <2> QED  BY <1>19, <1>b, <2>5 DEF DeleteRewound
<1>20. ASSUME NEW b \in late, Announce(b) PROVE Tip'  BY <1>20, <1>b DEF Announce
<1>21. ASSUME NEW b \in Own, Seal(b) PROVE Tip'  BY <1>21, <1>b DEF Seal
<1>22. CASE CheckDuplicate  BY <1>22, <1>b DEF CheckDuplicate
<1>23. CASE WriteSealed
  <2>1. op = None /\ op'.stage = "write"  BY <1>23 DEF WriteSealed, Op
  <2> QED  BY <1>1, <1>23, <2>1 DEF WriteSealed, Moving
<1>24. ASSUME NEW n \in Numbers \cup {0}, SetHead(n) PROVE Tip'
  <2>1. op = None /\ op'.stage = "rewind"  BY <1>24, SMTT(30) DEF SetHead, Op
  <2>2. Bare(head, canon)  BY <1>b, <2>1 DEF TopOK
  <2>3. ToDelete(op', head, canon)  BY <2>2 DEF ToDelete, Bare
  <2>4. TopOK(op', head, canon)  BY <2>1, <2>2, <2>3 DEF TopOK, Moving
  <2> QED  BY <1>24, <1>b, <2>4 DEF SetHead
<1>25. CASE Crash  BY <1>25 DEF Crash
<1>26. CASE Stop
  <2>1. head' = head  BY <1>26, StopResumes
  <2>2. op = None /\ op' = None /\ header' = header /\ canon' = canon  BY <1>26 DEF Stop, Restart
  <2> QED  BY <1>1, <2>1, <2>2
<1> QED
  BY <1>2, <1>3, <1>4, <1>5, <1>6, <1>7, <1>8, <1>9, <1>10, <1>11, <1>12, <1>13, <1>14, <1>15,
     <1>16, <1>17, <1>18, <1>19, <1>20, <1>21, <1>22, <1>23, <1>24, <1>25, <1>26, Zenon
  DEF Next, Proceed

(* The head and the head header are always on one chain, and on an archive   *)
(* node that has not crashed they are the same block with no canonical hash  *)
(* above it, so that SetHead, which walks down from the head header, finds   *)
(* all that it has to rewind (writeHeadBlock, reorg, headerchain.go).        *)
THEOREM HeaderTip == Spec => []HeaderIsTip
<1> DEFINE Inv == ChainInv /\ ArchiveOK /\ TipInv
<1>1. Init => ArchiveOK /\ TipInv
  <2> SUFFICES ASSUME Init PROVE ArchiveOK /\ TipInv  OBVIOUS
  <2>1. ArchiveOK  BY DEF Init, ArchiveOK, States
  <2>2. Bare(head, canon)  BY DEF Init, Bare
  <2>3. TopOK(op, head, canon)  BY <2>2 DEF Init, TopOK
  <2> QED  BY <2>1, <2>3 DEF Init, TipInv
<1>2. ChainInv /\ ArchiveOK /\ TipInv /\ [Next]_vars => ArchiveOK' /\ TipInv'
  <2> SUFFICES ASSUME ChainInv, ArchiveOK, TipInv, [Next]_vars PROVE ArchiveOK' /\ TipInv'  OBVIOUS
  <2>1. CASE Next  BY <2>1, ArchiveStep, TipStep
  <2>2. CASE UNCHANGED vars
    BY <2>2, Zenon DEF vars, dbVars, ArchiveOK, TipInv, States, TopOK, Bare, Filled, Apart, ToDelete
  <2> QED  BY <2>1, <2>2
<1>3. ChainInv /\ TipInv => HeaderIsTip
  BY Zenon DEF ChainInv, TipInv, HeaderIsTip, IndexOK, OneChain, TopOK, Bare
<1> QED  BY <1>1, <1>2, <1>3, ChainInvariant, PTL DEF Spec
-----------------------------------------------------------------------------
(* The events. *)

\* A known block above the head, which an insertion passes over.
Above == \E b \in stored : HasState(b) /\ Number(b) > Number(head)

\* The operation still has to announce the head, or to replace it.
Owed(o, h) ==
    o # None /\ ((o.last \in Blocks /\ o.last = h) \/ o.stage \in Moving \cup {"rewind"})

Consecutive(todo) == \A i \in 2..Len(todo) : Parent[todo[i]] = todo[i - 1]

\* An insertion whose lastCanon is the head goes on with a child of the head.
Follows(o, h) ==
    o # None =>
      /\ Consecutive(o.todo)
      /\ o.last \in Blocks /\ o.last = h =>
           /\ o.stage # "side"
           /\ o.stage \in {"next", "write", "commit", "choose"} /\ o.todo # <<>> => Parent[o.todo[1]] = h

EventInv ==
    /\ announced \/ Above \/ (head \in late /\ head \in Blocks) \/ Owed(op, head)
    /\ Follows(op, head)

(* The chain of a block is linked.                                           *)
LEMMA ChainLinked ==
    ASSUME NEW b \in Tree, NEW n \in 2..Number(b)
    PROVE  Parent[Chain(b)[n]] = Chain(b)[n - 1]
<1>1. Number(b) \in Nat /\ n \in 1..Number(b) /\ n - 1 \in 1..Number(b)  BY NumberOf
<1>2. PICK c \in Blocks : c = Chain(b)[n] /\ Number(c) = n /\ Ancestor(c, b)  BY <1>1, BlockOfChain
<1>3. PICK q \in Blocks : q = Chain(b)[n - 1] /\ Number(q) = n - 1 /\ Ancestor(q, b)
  BY <1>1, BlockOfChain
<1>4. PICK p \in Tree : p = Parent[c] /\ Number(p) \in Nat /\ Number(c) = Number(p) + 1  BY NumberOf, SMTT(30)
<1>5. q \in Tree /\ c \in Tree /\ Number(p) = Number(q)  BY <1>2, <1>3, <1>4 DEF Tree
<1>6. Ancestor(p, c)  BY <1>4, <1>5, AncestorFacts
<1>7. Ancestor(p, b)  BY <1>2, <1>5, <1>6, AncestorFacts
<1>8. Ancestor(p, q)  BY <1>3, <1>4, <1>5, <1>7, AncestorFacts
<1> QED  BY <1>2, <1>3, <1>4, <1>5, <1>8, AncestorFacts

(* The rest of a linked batch is linked, and follows its first block.        *)
LEMMA ConsecutiveTail ==
    ASSUME NEW todo \in Seq(Blocks), todo # <<>>, Consecutive(todo)
    PROVE  /\ Consecutive(Tail(todo))
           /\ Tail(todo) # <<>> => Parent[Tail(todo)[1]] = todo[1]
<1>1. PICK t \in Seq(Blocks) : /\ t = Tail(todo) /\ Len(t) = Len(todo) - 1
                               /\ \A i \in 1..Len(t) : t[i] = todo[i + 1]
  BY TailOf, Zenon
<1>2. Len(todo) \in Nat /\ Len(t) \in Nat /\ (t # <<>> => Len(t) >= 1)  BY LengthOf, EmptyOf
<1>3. ASSUME NEW i \in 2..Len(t) PROVE Parent[t[i]] = t[i - 1]
  <2>1. i + 1 \in 2..Len(todo) /\ i \in 1..Len(t) /\ i - 1 \in 1..Len(t)  BY <1>1, <1>2
  <2>2. t[i] = todo[i + 1] /\ t[i - 1] = todo[i]  BY <1>1, <2>1
  <2>3. Parent[todo[i + 1]] = todo[i]  BY <2>1 DEF Consecutive
  <2> QED  BY <2>2, <2>3
<1>4. ASSUME t # <<>> PROVE Parent[t[1]] = todo[1]
  <2>1. 1 \in 1..Len(t) /\ 2 \in 2..Len(todo)  BY <1>1, <1>2, <1>4
  <2>2. t[1] = todo[2]  BY <1>1, <2>1
  <2>3. Parent[todo[2]] = todo[1]  BY <2>1 DEF Consecutive
  <2> QED  BY <2>2, <2>3
<1> QED  BY <1>1, <1>3, <1>4 DEF Consecutive

(* Every step that changes the head leaves its event to an operation, and    *)
(* every step that ends one hands the event on or sends it.                  *)
LEMMA EventStep ==
    ASSUME ChainInv, EventInv, Next
    PROVE  EventInv'
<1> USE DEF dbVars, others
<1>0. /\ op \in Operation \cup {None} /\ head \in Tree /\ Number(head) \in Nat /\ Staged(op)
      /\ stored \subseteq Blocks
  BY NumberOf DEF ChainInv, TypeOK
<1>1. /\ announced \/ Above \/ (head \in late /\ head \in Blocks) \/ Owed(op, head)
      /\ Follows(op, head)
  BY SMTT(30) DEF EventInv
<1>2. op = None \/ op.stage \notin Moving => head \in States  BY DEF ChainInv, OpOK
<1>3. ASSUME head' = head, stored \subseteq stored', States \subseteq States', Above PROVE Above'
  BY <1>3 DEF Above, HasState, States
<1>4. ASSUME op \in Operation, op.stage \notin Moving \cup {"rewind"},
             op' \in Operation, op'.last = op.last, op'.todo = op.todo,
             head' = head, late' = late, announced' = announced, stored \subseteq stored', States \subseteq States',
             \/ op'.stage \in Moving \cup {"unlock"}
             \/ op.stage \in {"next", "write", "commit"} /\ op'.stage \in {"commit", "choose"}
      PROVE  EventInv'
  <2>1. op # None /\ op' # None  BY <1>4, Fields
  <2>2. Above => Above'  BY <1>3, <1>4
  <2>3. Owed(op, head) => Owed(op', head)  BY <1>4, <2>1 DEF Owed
  <2>4. Follows(op', head)  BY <1>1, <1>4, <2>1 DEF Follows, Moving
  <2> QED  BY <1>1, <1>4, <2>2, <2>3, <2>4 DEF EventInv
<1>5. ASSUME NEW todo \in Seq(Blocks), Consecutive(todo), op = None,
             op' \in Operation, op'.last = None, op'.todo = todo, op'.stage # "side",
             head' = head, late' = late, announced' = announced, stored' = stored, States' = States
      PROVE  EventInv'
  <2>1. Above => Above'  BY <1>3, <1>5
  <2>2. ~Owed(op, head)  BY <1>5 DEF Owed
  <2>3. Follows(op', head)  BY <1>5, BlockChainAssumption DEF Follows
  <2> QED  BY <1>1, <1>5, <2>1, <2>2, <2>3 DEF EventInv
<1>6. ASSUME NEW batch \in Batches, InsertChain(batch) PROVE EventInv'
  <2>1. batch \in Seq(Blocks) /\ Consecutive(batch)
    <3>1. PICK n \in 1..MaxBatch : batch \in [1..n -> Blocks]  BY DEF Batches
    <3>2. n \in Nat  BY BlockChainAssumption
    <3>3. batch \in Seq(Blocks)  BY <3>1, <3>2
    <3> QED  BY <3>3 DEF Batches, Consecutive
  <2>2. op' \in Operation /\ op'.last = None /\ op'.todo = batch /\ op'.stage = "next"
    <3>1. op' = Op("insert", batch, "next")  BY <1>6 DEF InsertChain
    <3>2. op' \in Operation  BY <1>0, <2>1, <3>1, NewOperation
    <3> QED  BY <3>1, <3>2 DEF Op
  <2> QED  BY <1>5, <1>6, <2>1, <2>2 DEF InsertChain, States
<1>7. CASE SkipKnown
  <2>1. op \in Operation /\ op.stage = "next" /\ op.todo # <<>> /\ op.todo \in Seq(Blocks) /\ op # None
    BY <1>0, <1>7, Fields DEF SkipKnown, At, Known
  <2>2. PICK b \in Blocks : b = op.todo[1] /\ HasState(b) /\ HasBlock(b)
    BY <1>7, <2>1, NextBlock DEF SkipKnown, Known, Next1
  <2>3. /\ op' = [op EXCEPT !.todo = Tail(op.todo),
                            !.last = IF op.trim /\ Number(b) <= Number(head) THEN op.last ELSE b]
        /\ head' = head /\ late' = late /\ announced' = announced /\ stored' = stored /\ States' = States
    BY <1>7, <2>2 DEF SkipKnown, Next1, States
  <2>4. Tail(op.todo) \in Seq(Blocks)  BY <2>1, NextBlock
  <2>5. /\ op' \in Operation /\ op'.todo = Tail(op.todo) /\ op'.stage = "next"
        /\ op'.last = IF op.trim /\ Number(b) <= Number(head) THEN op.last ELSE b
    BY <2>1, <2>3, <2>4, Fields, Zenon DEF Operation
  <2>6. Consecutive(op.todo)  BY <1>1, <2>1 DEF Follows
  <2>7. Consecutive(op'.todo) /\ (op'.todo # <<>> => Parent[op'.todo[1]] = b)
    BY <2>1, <2>2, <2>5, <2>6, ConsecutiveTail
  <2>8. ASSUME op.last \in Blocks, op.last = head PROVE Number(b) > Number(head)
    <3>1. Parent[b] = head  BY <1>1, <2>1, <2>2, <2>8 DEF Follows
    <3> QED  BY <1>0, <3>1, NumberOf
  <2>9. Number(b) \in Nat /\ b \in stored  BY <2>2, NumberOf, BlockChainAssumption DEF HasBlock
  <2>10. Follows(op', head)  BY <1>0, <2>5, <2>7, <2>8, <2>9 DEF Follows
  <2>11. Above => Above'  BY <1>3, <2>3
  <2>12. Owed(op, head) => Above
    BY <2>1, <2>2, <2>8, <2>9 DEF Owed, Above, Moving
  <2> QED  BY <1>1, <2>3, <2>10, <2>11, <2>12 DEF EventInv
<1>8. CASE Finish
  <2>1. op \in Operation /\ op.stage = "next"  BY <1>0, <1>8 DEF Finish, At
  <2>2. /\ op' = [(IF Nested THEN [op EXCEPT !.last = None] ELSE op) EXCEPT !.stage = "unlock"]
        /\ announced' = (announced \/ (Nested /\ op.last = head))
        /\ head' = head /\ late' = late /\ stored' = stored /\ States' = States
    BY <1>8 DEF Finish, Reply, States
  <2>3. CASE ~Nested
    <3>1. op' = [op EXCEPT !.stage = "unlock"] /\ announced' = announced  BY <1>8, <2>2, <2>3 DEF ChainInv, TypeOK
    <3>2. op' \in Operation /\ op'.last = op.last /\ op'.todo = op.todo /\ op'.stage = "unlock"
      BY <2>1, <3>1 DEF Operation
    <3> QED  BY <1>4, <2>1, <2>2, <3>1, <3>2 DEF Moving
  <2>4. CASE Nested
    <3>1. op' = [[op EXCEPT !.last = None] EXCEPT !.stage = "unlock"]  BY <2>2, <2>4
    <3>2. op' \in Operation /\ op'.last = None /\ op'.todo = op.todo /\ op'.stage = "unlock"
      BY <2>1, <3>1, Zenon DEF Operation
    <3>3. Follows(op', head)  BY <1>1, <2>1, <3>2, Fields, BlockChainAssumption DEF Follows
    <3>4. Above => Above'  BY <1>3, <2>2
    <3>5. Owed(op, head) => announced'  BY <2>1, <2>2, <2>4, Zenon DEF Owed, Moving
    <3> QED  BY <1>1, <2>2, <3>3, <3>4, <3>5, Zenon DEF EventInv
  <2> QED  BY <2>3, <2>4
<1>9. ASSUME NEW stage \in {"unlock", "commit", "choose", "reorg", "head"},
             op \in Operation, op.stage \in {"next", "side", "write", "commit", "choose"},
             stage \in {"commit", "choose"} => op.stage \in {"next", "write", "commit"},
             op' = AtStage(op, stage), head' = head, late' = late, announced' = announced,
             stored \subseteq stored', States \subseteq States'
      PROVE  EventInv'
  <2>1. op' \in Operation /\ op'.last = op.last /\ op'.todo = op.todo /\ op'.stage = stage
    BY <1>9 DEF AtStage, Operation
  <2> QED  BY <1>4, <1>9, <2>1 DEF Moving
<1>10. CASE RejectBlock
  BY <1>0, <1>9, <1>10 DEF RejectBlock, At, Goto, AtStage, States
<1>11. CASE InsertSideBlock
  <2>1. op \in Operation /\ op.stage \in {"next", "side"} /\ op.todo # <<>> /\ op.todo \in Seq(Blocks) /\ op # None
    BY <1>0, <1>11, Fields DEF InsertSideBlock, At, Pruned, New
  <2>2. PICK b \in Blocks : b = op.todo[1] /\ ~HasState(Parent[b])
    BY <1>11, <2>1, NextBlock DEF InsertSideBlock, Pruned, Next1
  <2>3. /\ op' = [op EXCEPT !.todo = Tail(op.todo), !.side = b, !.stage = "side"]
        /\ head' = head /\ late' = late /\ announced' = announced
        /\ stored \subseteq stored' /\ States' = States
    BY <1>11, <2>2 DEF InsertSideBlock, Next1, States
  <2>4. Tail(op.todo) \in Seq(Blocks)  BY <2>1, NextBlock
  <2>5. op' \in Operation /\ op'.todo = Tail(op.todo) /\ op'.stage = "side" /\ op'.last = op.last
    BY <2>1, <2>3, <2>4, Zenon DEF Operation
  <2>6. ~(op.last \in Blocks /\ op.last = head)
    <3>1. HasState(head)  BY <1>2, <2>1 DEF Moving, States, HasState
    <3> QED  BY <1>1, <2>1, <2>2, <3>1 DEF Follows
  <2>7. Consecutive(op'.todo)  BY <1>1, <2>1, <2>5, ConsecutiveTail DEF Follows
  <2>8. Follows(op', head)  BY <2>5, <2>6, <2>7 DEF Follows
  <2>9. Above => Above'  BY <1>3, <2>3
  <2>10. ~Owed(op, head)  BY <2>1, <2>6 DEF Owed, Moving
  <2> QED  BY <1>1, <2>3, <2>8, <2>9, <2>10 DEF EventInv
<1>12. CASE ImportSideChain
  <2>1. op \in Operation /\ op.stage = "side" /\ op # None /\ op.side \in Blocks
    BY <1>0, <1>12, Fields DEF ImportSideChain, At, Staged
  <2>2. CASE op' = AtStage(op, "unlock")
    BY <1>9, <1>12, <2>1, <2>2 DEF ImportSideChain, States
  <2>3. CASE op' # AtStage(op, "unlock")
    <3> DEFINE chain == Chain(op.side)
               k     == Max({0} \cup {n \in DOMAIN chain : HasBlock(chain[n]) /\ HasState(chain[n])})
               todo  == SubSeq(chain, k + 1, Len(chain))
    <3>1. /\ op' = [op EXCEPT !.todo = todo, !.stage = "next"]
          /\ head' = head /\ late' = late /\ announced' = announced /\ stored' = stored /\ States' = States
      BY <1>12, <2>3 DEF ImportSideChain, Reply, AtStage, States
    <3>2. chain \in Seq(Blocks) /\ Len(chain) \in Nat /\ Number(op.side) = Len(chain) /\ op.side \in Tree
      BY <2>1, ChainOf, LengthOf, Zenon DEF Tree
    <3>3. k \in Nat
      <4> DEFINE S == {0} \cup {n \in DOMAIN chain : HasBlock(chain[n]) /\ HasState(chain[n])}
      <4>1. S \in SUBSET (0..Len(chain)) /\ 0 \in S  BY <3>2, LengthOf
      <4> HIDE DEF S
      <4>2. Max(S) \in Nat  BY <3>2, <4>1, MaxOf, Zenon
      <4> QED  BY <4>2 DEF S
    <3> HIDE DEF k
    <3>4. todo \in Seq(Blocks) /\ Consecutive(todo)
      <4>1. /\ todo \in Seq(Blocks) /\ Len(todo) \in Nat
            /\ \A i \in 1..Len(todo) : k + i <= Len(chain) /\ todo[i] = chain[k + i]
        BY <3>2, <3>3
      <4> HIDE DEF todo
      <4>2. ASSUME NEW i \in 2..Len(todo) PROVE Parent[todo[i]] = todo[i - 1]
        <5>1. i \in 1..Len(todo) /\ i - 1 \in 1..Len(todo)  BY <4>1
        <5>2. todo[i] = chain[k + i] /\ todo[i - 1] = chain[k + (i - 1)] /\ k + i <= Len(chain)
          BY <4>1, <5>1
        <5>3. k + i \in 2..Number(op.side) /\ (k + i) - 1 = k + (i - 1)  BY <3>2, <3>3, <4>1, <5>2
        <5>4. Parent[chain[k + i]] = chain[(k + i) - 1]  BY <3>2, <5>3, ChainLinked
        <5> QED  BY <5>2, <5>3, <5>4
      <4> QED  BY <4>1, <4>2 DEF Consecutive
    <3> HIDE DEF todo
    <3>5. op' \in Operation /\ op'.todo = todo /\ op'.last = op.last  BY <2>1, <3>1, <3>4, Zenon DEF Operation
    <3>6. ~(op.last \in Blocks /\ op.last = head)  BY <1>1, <2>1 DEF Follows
    <3>7. Follows(op', head)  BY <3>4, <3>5, <3>6 DEF Follows
    <3>8. Above => Above'  BY <1>3, <3>1
    <3>9. ~Owed(op, head)  BY <2>1, <3>6 DEF Owed, Moving
    <3> QED  BY <1>1, <3>1, <3>7, <3>8, <3>9 DEF EventInv
  <2> QED  BY <2>2, <2>3
<1>13. CASE WriteBlock
  <2>1. op \in Operation /\ op.stage \in {"next", "write"}  BY <1>0, <1>13 DEF WriteBlock, At
  <2>2. op' = [op EXCEPT !.stage = "commit", !.trim = FALSE, !.old = meta[Number(Next1)]]
    BY <1>13 DEF WriteBlock
  <2>3. op'.last = op.last /\ op'.todo = op.todo /\ op'.stage = "commit"  BY <2>1, <2>2 DEF Operation
  <2>4. op' \in Operation
    <3>1. op' # None
      <4>1. op.todo # <<>> /\ op.todo \in Seq(Blocks)
        BY <1>0, <1>13, <2>1, Fields DEF WriteBlock, At, Runs, New, Staged, Writing
      <4>2. meta[Number(Next1)] \in Blocks \cup {None}
        BY <4>1, NextBlock DEF ChainInv, TypeOK, Next1
      <4>3. op' \in Operation  BY <2>1, <2>2, <4>2, Zenon DEF Operation
      <4> QED  BY <4>3, Fields
    <3> QED  BY <3>1, TypeStep DEF ChainInv, TypeOK
  <2> QED  BY <1>4, <1>13, <2>1, <2>3, <2>4 DEF WriteBlock, States, Moving
<1>14. CASE ParentGone
  BY <1>0, <1>9, <1>14 DEF ParentGone, At, Goto, AtStage, States
<1>15. CASE CommitState
  BY <1>0, <1>9, <1>15 DEF CommitState, At, Goto, AtStage, States
<1>16. CASE CommitFails
  <2>1. op \in Operation /\ op.stage = "commit" /\ op' = AtStage(op, "unlock")
    BY <1>0, <1>16 DEF CommitFails, At, Fail, Reply, Goto, AtStage
  <2> QED  BY <1>9, <1>16, <2>1 DEF CommitFails, States
<1>17. CASE BeginReorg
  <2>1. op \in Operation /\ op.stage = "choose" /\ op.todo # <<>>
    BY <1>0, <1>17, Fields DEF BeginReorg, At, Staged, Writing
  <2>2. CASE op' = AtStage(op, "unlock")  BY <1>9, <1>17, <2>1, <2>2 DEF BeginReorg, States
  <2>3. CASE op' # AtStage(op, "unlock")
    <3>1. op' = [op EXCEPT !.stage = "reorg", !.path = NewChain(Next1)]
      BY <1>17, <2>3 DEF BeginReorg, Fail, Reply, Goto, AtStage
    <3>2. NewChain(Next1) \in Seq(Blocks)
      <4>1. Next1 \in Blocks  BY <2>1, Fields, NextBlock DEF Next1
      <4> QED  BY <1>0, <4>1, NewChainOf
    <3>3. op' \in Operation /\ op'.last = op.last /\ op'.todo = op.todo /\ op'.stage = "reorg"
      BY <2>1, <3>1, <3>2, Zenon DEF Operation
    <3> QED  BY <1>4, <1>17, <2>1, <3>3 DEF BeginReorg, States, Moving
  <2> QED  BY <2>2, <2>3
<1>18. CASE StaySide
  <2>1. op \in Operation /\ op.stage = "choose" /\ op # None /\ op.todo # <<>> /\ op.todo \in Seq(Blocks)
    BY <1>0, <1>18, Fields, SMTT(30) DEF StaySide, At, Staged, Writing
  <2>2. PICK b \in Blocks : b = op.todo[1] /\ Number(b) \in Nat /\ Number(b) <= Number(head)
    BY <1>0, <1>18, <2>1, NextBlock, NumberOf, SMTT(30) DEF StaySide, Next1, Prefers, Flips
  <2>3. ~(op.last \in Blocks /\ op.last = head)
    <3>1. Parent[b] = head => Number(b) = Number(head) + 1  BY <2>2, NumberOf
    <3> QED  BY <1>0, <1>1, <2>1, <2>2, <3>1, SMTT(30) DEF Follows
  <2>4. /\ op' \in Operation /\ op'.todo = Tail(op.todo) /\ op'.last = op.last
        /\ op'.stage \in {"next", "unlock"}
    <3>1. Tail(op.todo) \in Seq(Blocks)  BY <2>1, NextBlock
    <3>2. Continue.todo = Tail(op.todo) /\ Continue.last = op.last  BY <2>1 DEF Continue, Operation
    <3> QED  BY <1>18, <2>1, <3>2, ContinueOf DEF StaySide
  <2>5. Consecutive(op'.todo)  BY <1>1, <2>1, <2>4, ConsecutiveTail DEF Follows
  <2>6. Follows(op', head)  BY <2>3, <2>4, <2>5 DEF Follows
  <2>7. head' = head /\ late' = late /\ announced' = announced /\ stored' = stored /\ States' = States
    BY <1>18 DEF StaySide, States
  <2>8. Above => Above'  BY <1>3, <2>7
  <2>9. ~Owed(op, head)  BY <2>1, <2>3 DEF Owed, Moving
  <2> QED  BY <1>1, <2>6, <2>7, <2>8, <2>9 DEF EventInv
<1>19. ASSUME op \in Operation, op' \in Operation, op'.todo = op.todo,
              op'.stage \in Moving \cup {"rewind"} \/ (announced' /\ op'.stage = "unlock")
       PROVE  EventInv'
  <2>1. op # None /\ op' # None  BY <1>19, Fields
  <2>2. Follows(op', head')  BY <1>1, <1>19, <2>1 DEF Follows, Moving
  <2>3. announced' \/ Owed(op', head')  BY <1>19, <2>1 DEF Owed
  <2> QED  BY <2>2, <2>3 DEF EventInv
<1>20. CASE ReorgBlock
  <2>1. op \in Operation /\ op.stage = "reorg"  BY <1>0, <1>20 DEF ReorgBlock, At
  <2>2. Tail(op.path) \in Seq(Blocks)
    BY <1>20, <2>1, Fields, TailOf DEF ReorgBlock
  <2>3. op' \in Operation /\ op'.todo = op.todo /\ op'.stage = "reorg"
    BY <1>20, <2>1, <2>2, Zenon DEF ReorgBlock, Operation
  <2> QED  BY <1>19, <2>1, <2>3 DEF Moving
<1>21. CASE DeleteIndexes
  <2>1. op \in Operation  BY <1>0, <1>21 DEF DeleteIndexes, At
  <2>2. op' \in Operation /\ op'.todo = op.todo /\ op'.stage = "head"
    BY <1>21, <2>1 DEF DeleteIndexes, Goto, Operation
  <2> QED  BY <1>19, <2>1, <2>2 DEF Moving
<1>22. CASE WriteHead
  <2>1. op \in Operation /\ op # None /\ op.todo # <<>> /\ op.todo \in Seq(Blocks)
    BY <1>0, <1>22, Fields DEF WriteHead, At, Staged, Writing
  <2>2. PICK b \in Blocks : b = op.todo[1] /\ b = Next1  BY <2>1, NextBlock DEF Next1
  <2>3. head' = b /\ op' = [Continue EXCEPT !.last = b]  BY <1>22, <2>2 DEF WriteHead, writeHeadBlock
  <2>4. Continue \in Operation /\ Continue.stage \in {"next", "unlock"} /\ Continue.todo = Tail(op.todo)
    BY <2>1, ContinueOf DEF Continue, Operation
  <2>5. PICK o \in Operation : o = Continue  BY <2>4
  <2>6. op' \in Operation /\ op'.last = b /\ op'.todo = Tail(op.todo) /\ op'.stage \in {"next", "unlock"}
    BY <2>3, <2>4, <2>5, SMTT(30) DEF Operation
  <2>7. op' # None  BY <2>6, Fields
  <2>8. Consecutive(op'.todo) /\ (op'.todo # <<>> => Parent[op'.todo[1]] = b)
    BY <1>1, <2>1, <2>2, <2>6, ConsecutiveTail, Zenon DEF Follows
  <2>9. Follows(op', head') /\ Owed(op', head')  BY <2>3, <2>6, <2>7, <2>8 DEF Follows, Owed
  <2> QED  BY <2>9 DEF EventInv
<1>23. CASE Unlock
  <2>1. op \in Operation /\ op.stage = "unlock" /\ op' = None /\ head' = head /\ stored' = stored /\ States' = States
    BY <1>0, <1>23 DEF Unlock, At, States
  <2>2. \/ late' = late \cup ({op.last} \ {None}) /\ announced' = announced
        \/ late' = late /\ announced' = (announced \/ op.last = head)
    BY <1>23 DEF Unlock
  <2>3. Follows(op', head)  BY <2>1 DEF Follows
  <2>4. Above => Above'  BY <1>3, <2>1
  <2>5. Owed(op, head) => announced' \/ (head \in late' /\ head \in Blocks)
    BY <2>1, <2>2, BlockChainAssumption, Zenon DEF Owed, Moving
  <2> QED  BY <1>1, <2>1, <2>2, <2>3, <2>4, <2>5, Zenon DEF EventInv
<1>24. CASE RewindHeader
  <2>1. op \in Operation /\ op.stage = "rewind"  BY <1>0, <1>24 DEF RewindHeader, At
  <2>2. op' = [op EXCEPT !.path = Append(op.path, header)]  BY <1>24 DEF RewindHeader
  <2>3. op'.todo = op.todo /\ op'.stage = "rewind"  BY <2>1, <2>2 DEF Operation
  <2>4. op' # None
    <3>1. header \in Blocks
      <4>1. header \in Tree /\ Number(header) > op.old /\ op.old \in Nat
        BY <1>0, <1>24, <2>1, Fields DEF RewindHeader, Staged, ChainInv, TypeOK
      <4>2. Number(header) \in Nat /\ Number(header) # 0  BY <4>1, NumberOf
      <4> QED  BY <4>1, <4>2, NumberOf DEF Tree
    <3>2. Append(op.path, header) \in Seq(Blocks)  BY <2>1, <3>1, Fields, AppendOf
    <3>3. op' \in Operation  BY <2>1, <2>2, <3>2, Zenon DEF Operation
    <3> QED  BY <3>3, Fields
  <2>5. op' \in Operation  BY <2>4, TypeStep DEF ChainInv, TypeOK
  <2> QED  BY <1>19, <2>1, <2>3, <2>5
<1>25. CASE DeleteRewound
  <2>1. op \in Operation  BY <1>0, <1>25 DEF DeleteRewound, At
  <2>2. op' \in Operation /\ op'.todo = op.todo /\ op'.stage = "unlock" /\ announced'
    BY <1>25, <2>1 DEF DeleteRewound, Goto, Operation
  <2> QED  BY <1>19, <2>1, <2>2
<1>26. ASSUME NEW b \in late, Announce(b) PROVE EventInv'
  <2>1. /\ head' = head /\ stored' = stored /\ States' = States /\ op' = op
        /\ late' = late \ {b} /\ announced' = (announced \/ b = head)
    BY <1>26 DEF Announce, States
  <2>2. Above => Above'  BY <1>3, <2>1
  <2> QED  BY <1>1, <2>1, <2>2, Zenon DEF EventInv
<1>27. ASSUME UNCHANGED <<head, stored, disk, mem, op, late, announced>> PROVE EventInv'
  <2>1. Above => Above'  BY <1>3, <1>27 DEF States
  <2> QED  BY <1>1, <1>27, <2>1 DEF EventInv
<1>28. ASSUME NEW b \in Own, Seal(b) PROVE EventInv'  BY <1>27, <1>28 DEF Seal
<1>29. CASE CheckDuplicate  BY <1>27, <1>29 DEF CheckDuplicate
<1>30. CASE WriteSealed
  <2>1. PICK b \in Blocks : b = sealed.block  BY <1>30 DEF WriteSealed, ChainInv, TypeOK
  <2>2. <<b>> \in Seq(Blocks) /\ Len(<<b>>) = 1  OBVIOUS
  <2>3. Consecutive(<<b>>)  BY <2>2 DEF Consecutive
  <2>4. op' = Op("mine", <<b>>, "write")  BY <1>30, <2>1 DEF WriteSealed
  <2>5. op' \in Operation  BY <1>0, <2>2, <2>4, NewOperation, Zenon DEF Writing
  <2>6. op'.last = None /\ op'.todo = <<b>> /\ op'.stage = "write"  BY <2>4 DEF Op
  <2> QED  BY <1>5, <1>30, <2>2, <2>3, <2>5, <2>6, Zenon DEF WriteSealed, States
<1>31. ASSUME NEW n \in Numbers \cup {0}, SetHead(n) PROVE EventInv'
  <2>1. n \in Nat  BY NumberOf DEF Numbers
  <2>2. <<>> \in Seq(Blocks) /\ Consecutive(<<>>)  BY EmptyOf DEF Consecutive
  <2>3. PICK o \in Operation : o = Op("rewind", <<>>, "rewind")  BY <1>0, <2>2, NewOperation, Zenon
  <2>4. op' = [o EXCEPT !.old = n]  BY <1>31, <2>3 DEF SetHead
  <2>5. o.last = None /\ o.todo = <<>> /\ o.stage = "rewind"  BY <2>3 DEF Op
  <2>6. op' \in Operation /\ op'.last = None /\ op'.todo = <<>> /\ op'.stage = "rewind"
    BY <2>1, <2>4, <2>5, SMTT(30) DEF Operation
  <2> QED  BY <1>5, <1>31, <2>2, <2>6, Zenon DEF SetHead, States
<1>32. CASE Crash \/ Stop
  <2>1. announced' /\ op' = None  BY <1>32 DEF Crash, Stop, Restart
  <2> QED  BY <2>1 DEF EventInv, Follows
<1> QED
  BY <1>6, <1>7, <1>8, <1>10, <1>11, <1>12, <1>13, <1>14, <1>15, <1>16, <1>17, <1>18, <1>20,
     <1>21, <1>22, <1>23, <1>24, <1>25, <1>26, <1>28, <1>29, <1>30, <1>31, <1>32, Zenon
  DEF Next, Proceed

(* Once no operation runs and the deferred events are out, a head that a     *)
(* block has become has been announced, unless a known block above it has    *)
(* taken the event away (insertChainWithFuncAndCh, WriteBlockWithState).     *)
THEOREM Announced == Spec => []HeadIsAnnounced
<1>1. Init => EventInv  BY DEF Init, EventInv, Follows
<1>2. ChainInv /\ EventInv /\ [Next]_vars => EventInv'
  <2> SUFFICES ASSUME ChainInv, EventInv, [Next]_vars PROVE EventInv'  OBVIOUS
  <2>1. CASE Next  BY <2>1, EventStep
  <2>2. CASE UNCHANGED vars
    BY <2>2 DEF vars, dbVars, EventInv, Above, HasState
  <2> QED  BY <2>1, <2>2
<1>3. EventInv => HeadIsAnnounced  BY DEF EventInv, HeadIsAnnounced, Idle, Owed, Above
<1> QED  BY <1>1, <1>2, <1>3, ChainInvariant, PTL DEF Spec

=============================================================================
