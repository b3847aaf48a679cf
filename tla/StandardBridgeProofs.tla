------------------------- MODULE StandardBridgeProofs -------------------------
(***************************************************************************)
(* Proofs about StandardBridge: the books of the two bridges balance, for   *)
(* every set of tokens, every bound on amounts and every number of          *)
(* messages under way.  The first section is about sums over finite sets,   *)
(* which is what MapThenSumSet computes.                                    *)
(***************************************************************************)
EXTENDS StandardBridge, FiniteSetTheorems, TLAPS

-----------------------------------------------------------------------------
(* Sums over finite sets.                                                   *)

\* The element that the fold of FiniteSetsExt takes out of a set first.
First(s) == CHOOSE x \in s : TRUE

\* it is the table of the sums of f over the subsets of S.
IsSum(it, S, f) ==
    it = [s \in SUBSET S |-> IF s = {} THEN 0 ELSE f[First(s)] + it[s \ {First(s)}]]

SumOf(S, f) == (CHOOSE it : IsSum(it, S, f))[S]

(* Induction over the subsets of a finite set, as the principle of a        *)
(* minimal element.                                                         *)
LEMMA MinimalSubset ==
    ASSUME NEW S, IsFiniteSet(S), NEW F \in SUBSET SUBSET S, F # {}
    PROVE  \E T \in F : \A U \in F : U \subseteq T => U = T
<1>1. IsWellFoundedOn(StrictSubsetOrdering(S), SUBSET S)
  BY FS_StrictSubsetOrderingWellFounded, FS_FiniteSubsetsOfFinite, Zenon
<1>2. PICK T \in F : \A U \in F : ~(<<U, T>> \in StrictSubsetOrdering(S))
  BY <1>1, WFMin
<1>3. ASSUME NEW U \in F, U \subseteq T, U # T  PROVE <<U, T>> \in StrictSubsetOrdering(S)
  BY <1>3 DEF StrictSubsetOrdering
<1>4. \A U \in F : U \subseteq T => U = T
  <2> TAKE U \in F
  <2> QED  BY <1>2, <1>3, Zenon
<1> QED  BY <1>4

(* The rows of a table of sums: of the empty set, and of the others.        *)
LEMMA EmptyRow ==
    ASSUME NEW S, NEW f, NEW it, IsSum(it, S, f)
    PROVE  it[{}] = 0
<1>1. {} \in SUBSET S  OBVIOUS
<1> QED  BY <1>1 DEF IsSum

(* The sum over a set is the value of one member and the sum over the        *)
(* others.                                                                   *)
LEMMA SumRow ==
    ASSUME NEW S, NEW f, NEW it, IsSum(it, S, f), NEW s \in SUBSET S, s # {}
    PROVE  /\ First(s) \in s /\ s \ {First(s)} \in SUBSET S
           /\ s \ {First(s)} # s
           /\ it[s] = f[First(s)] + it[s \ {First(s)}]
<1>1. First(s) \in s  BY DEF First
<1>2. it[s] = f[First(s)] + it[s \ {First(s)}]  BY Zenon DEF IsSum
<1> QED  BY <1>1, <1>2

(* Two tables have the same sum of what the two functions agree on.         *)
LEMMA SumsAgree ==
    ASSUME NEW R, NEW S, NEW f, NEW g, NEW it, NEW jt, IsSum(it, R, f), IsSum(jt, S, g),
           NEW T \in SUBSET (R \cap S), IsFiniteSet(T), \A x \in T : f[x] = g[x]
    PROVE  it[T] = jt[T]
<1> DEFINE F == {U \in SUBSET T : it[U] # jt[U]}
<1>1. SUFFICES ASSUME F # {} PROVE FALSE  OBVIOUS
<1>2. PICK U \in F : \A V \in F : V \subseteq U => V = U
  <2>1. F \in SUBSET SUBSET T  OBVIOUS
  <2> HIDE DEF F
  <2> QED  BY <1>1, <2>1, MinimalSubset
<1>3. U # {}  BY <1>2, EmptyRow, Zenon
<1>4. U \in SUBSET R /\ U \in SUBSET S  BY <1>2
<1> DEFINE c == First(U)
<1>5. /\ c \in U /\ U \ {c} # U
      /\ it[U] = f[c] + it[U \ {c}] /\ jt[U] = g[c] + jt[U \ {c}]
  <2> HIDE DEF F
  <2> QED  BY <1>3, <1>4, SumRow
<1>6. it[U \ {c}] = jt[U \ {c}] /\ f[c] = g[c]  BY <1>2, <1>5
<1> HIDE DEF c
<1> QED  BY <1>2, <1>5, <1>6

(* Every finite set has its table of sums.                                  *)
LEMMA SumExists ==
    ASSUME NEW S, IsFiniteSet(S), NEW f
    PROVE  \E it : IsSum(it, S, f)
<1> DEFINE F == {T \in SUBSET S : ~ \E it : IsSum(it, T, f)}
<1>1. SUFFICES ASSUME F # {} PROVE FALSE  OBVIOUS
<1>2. PICK T \in F : \A U \in F : U \subseteq T => U = T
  <2>1. F \in SUBSET SUBSET S  OBVIOUS
  <2> HIDE DEF F
  <2> QED  BY <1>1, <2>1, MinimalSubset
<1>3. \A U \in SUBSET T : U # T => \E it : IsSum(it, U, f)  BY <1>2
<1>4. T \in SUBSET S /\ ~ \E it : IsSum(it, T, f)  BY <1>2
<1> HIDE DEF F
<1> DEFINE g(U) == CHOOSE it : IsSum(it, U, f)
           rest(s) == s \ {First(s)}
           h == [s \in SUBSET T |-> IF s = {} THEN 0 ELSE f[First(s)] + g(rest(s))[rest(s)]]
<1>5. \A U \in SUBSET T : U # T => IsSum(g(U), U, f)  BY <1>3
<1>6. \A s \in SUBSET T : s # {} => First(s) \in s /\ rest(s) \in SUBSET T /\ rest(s) # T
  BY DEF First
<1>7. \A s \in SUBSET T : IsFiniteSet(s)  BY <1>4, FS_Subset
<1>8. ASSUME NEW s \in SUBSET T, s # {}  PROVE g(rest(s))[rest(s)] = h[rest(s)]
  <2> DEFINE r == rest(s)
  <2>1. r \in SUBSET T /\ r # T  BY <1>6, <1>8
  <2>2. IsSum(g(r), r, f)  BY <1>5, <2>1, Zenon
  <2>3. CASE r = {}
    <3>1. h[r] = 0  BY <2>1, <2>3
    <3> HIDE DEF g, h
    <3> QED  BY <2>2, <2>3, <3>1, EmptyRow
  <2>4. CASE r # {}
    <3>1. h[r] = f[First(r)] + g(rest(r))[rest(r)]  BY <2>1, <2>4
    <3>2. rest(r) \in SUBSET T /\ rest(r) # T /\ rest(r) \in SUBSET r /\ r \in SUBSET r
      BY <1>6, <2>1, <2>4
    <3>3. IsSum(g(rest(r)), rest(r), f)  BY <1>5, <3>2, Zenon
    <3> HIDE DEF g, h
    <3>4. g(r)[r] = f[First(r)] + g(r)[rest(r)]
      <4>1. PICK it : it = g(r)  BY Zenon
      <4>2. PICK u : u = r  BY Zenon
      <4>3. IsSum(it, u, f) /\ u # {} /\ u \in SUBSET u  BY <2>2, <2>4, <4>1, <4>2
      <4> HIDE DEF r
      <4>4. it[u] = f[First(u)] + it[u \ {First(u)}]  BY <4>3, SumRow
      <4> QED  BY <4>1, <4>2, <4>4
    <3>5. IsFiniteSet(rest(r))  BY <1>7, <3>2
    <3>6. g(r)[rest(r)] = g(rest(r))[rest(r)]
      <4>1. rest(r) \in SUBSET (r \cap rest(r))  BY <3>2
      <4> HIDE DEF r, rest
      <4> QED  BY <2>2, <3>3, <3>5, <4>1, SumsAgree
    <3> QED  BY <3>1, <3>4, <3>6
  <2> QED  BY <2>3, <2>4
<1>9. IsSum(h, T, f)
  <2>1. ASSUME NEW s \in SUBSET T
        PROVE  h[s] = IF s = {} THEN 0 ELSE f[First(s)] + h[s \ {First(s)}]
    <3>1. h[s] = IF s = {} THEN 0 ELSE f[First(s)] + g(rest(s))[rest(s)]  OBVIOUS
    <3> HIDE DEF h, g
    <3> QED  BY <1>8, <3>1
  <2>2. h = [s \in SUBSET T |-> h[s]]  OBVIOUS
  <2> HIDE DEF h
  <2>3. [s \in SUBSET T |-> h[s]]
          = [s \in SUBSET T |-> IF s = {} THEN 0 ELSE f[First(s)] + h[s \ {First(s)}]]
    BY <2>1
  <2> QED  BY <2>2, <2>3, Zenon DEF IsSum
<1> QED  BY <1>4, <1>9

(* So SumOf is the sum in a table of sums.                                  *)
LEMMA SumTable ==
    ASSUME NEW S, IsFiniteSet(S), NEW f
    PROVE  \E it : IsSum(it, S, f) /\ SumOf(S, f) = it[S]
BY SumExists, Zenon DEF SumOf

(* Functions that agree on a finite set have the same sum over it.          *)
LEMMA SumSame ==
    ASSUME NEW S, IsFiniteSet(S), NEW f, NEW g, \A x \in S : f[x] = g[x]
    PROVE  SumOf(S, f) = SumOf(S, g)
<1>1. PICK it : IsSum(it, S, f) /\ SumOf(S, f) = it[S]  BY SumTable
<1>2. PICK jt : IsSum(jt, S, g) /\ SumOf(S, g) = jt[S]  BY SumTable
<1> QED  BY <1>1, <1>2, SumsAgree

(* The sum over nothing, and that a sum of naturals is natural.             *)
LEMMA SumType ==
    ASSUME NEW S, IsFiniteSet(S), NEW f, \A x \in S : f[x] \in Nat
    PROVE  SumOf(S, f) \in Nat /\ (S = {} => SumOf(S, f) = 0)
<1>1. PICK it : IsSum(it, S, f) /\ SumOf(S, f) = it[S]  BY SumTable
<1> DEFINE F == {U \in SUBSET S : it[U] \notin Nat}
<1>2. ASSUME F # {} PROVE FALSE
  <2>1. PICK U \in F : \A V \in F : V \subseteq U => V = U
    <3>1. F \in SUBSET SUBSET S  OBVIOUS
    <3> HIDE DEF F
    <3> QED  BY <1>2, <3>1, MinimalSubset
  <2>2. U \in SUBSET S /\ it[U] \notin Nat  BY <2>1
  <2>3. U # {}  BY <1>1, <2>2, EmptyRow
  <2>4. /\ First(U) \in U /\ U \ {First(U)} # U
        /\ it[U] = f[First(U)] + it[U \ {First(U)}]
    BY <1>1, <2>2, <2>3, SumRow
  <2>5. it[U \ {First(U)}] \in Nat /\ f[First(U)] \in Nat  BY <2>1, <2>2, <2>4
  <2> QED  BY <2>2, <2>4, <2>5
<1> QED  BY <1>1, <1>2, EmptyRow, Zenon

(* A sum of zeroes is zero.                                                 *)
LEMMA SumZero ==
    ASSUME NEW S, IsFiniteSet(S), NEW f, \A x \in S : f[x] = 0
    PROVE  SumOf(S, f) = 0
<1>1. PICK it : IsSum(it, S, f) /\ SumOf(S, f) = it[S]  BY SumTable
<1> DEFINE F == {U \in SUBSET S : it[U] # 0}
<1>2. ASSUME F # {} PROVE FALSE
  <2>1. PICK U \in F : \A V \in F : V \subseteq U => V = U
    <3>1. F \in SUBSET SUBSET S  OBVIOUS
    <3> HIDE DEF F
    <3> QED  BY <1>2, <3>1, MinimalSubset
  <2>2. U \in SUBSET S /\ it[U] # 0  BY <2>1
  <2>3. U # {}  BY <1>1, <2>2, EmptyRow
  <2>4. /\ First(U) \in U /\ U \ {First(U)} # U
        /\ it[U] = f[First(U)] + it[U \ {First(U)}]
    BY <1>1, <2>2, <2>3, SumRow
  <2>5. it[U \ {First(U)}] = 0 /\ f[First(U)] = 0  BY <2>1, <2>2, <2>4
  <2> QED  BY <2>2, <2>4, <2>5
<1> QED  BY <1>1, <1>2

(* One more element adds its value.                                         *)
LEMMA SumAdd ==
    ASSUME NEW S, IsFiniteSet(S), NEW f, NEW m \in S, \A x \in S : f[x] \in Nat
    PROVE  SumOf(S, f) = SumOf(S \ {m}, f) + f[m]
<1>1. PICK it : IsSum(it, S, f) /\ SumOf(S, f) = it[S]  BY SumTable
<1> DEFINE F == {T \in SUBSET S : \E x \in S \ T : it[T \cup {x}] # it[T] + f[x]}
<1>2. ASSUME F # {} PROVE FALSE
  <2>1. PICK T \in F : \A V \in F : V \subseteq T => V = T
    <3>1. F \in SUBSET SUBSET S  OBVIOUS
    <3> HIDE DEF F
    <3> QED  BY <1>2, <3>1, MinimalSubset
  <2>2. PICK x \in S \ T : it[T \cup {x}] # it[T] + f[x]  BY <2>1
  <2> DEFINE W == T \cup {x}
             c == First(W)
  <2>3. T \in SUBSET S /\ W \in SUBSET S /\ W # {} /\ f[x] \in Nat  BY <2>1, <2>2
  <2>4. c \in W /\ it[W] = f[c] + it[W \ {c}]
    <3> HIDE DEF F, W
    <3> QED  BY <1>1, <2>3, SumRow, SMTT(30)
  <2>5. \A U \in SUBSET S : it[U] \in Nat
    <3>1. ASSUME NEW U \in SUBSET S  PROVE it[U] \in Nat
      <4>1. IsFiniteSet(U)  BY FS_Subset
      <4>2. PICK jt : IsSum(jt, U, f) /\ SumOf(U, f) = jt[U]  BY <4>1, SumTable
      <4>3. it[U] = jt[U]  BY <1>1, <4>1, <4>2, SumsAgree
      <4> QED  BY <4>1, <4>2, <4>3, SumType
    <3> QED  BY <3>1
  <2> HIDE DEF c
  <2>6. CASE c = x
    <3>1. W \ {c} = T  BY <2>2, <2>6
    <3>2. it[T] \in Nat  BY <2>3, <2>5
    <3>3. it[W] # it[T] + f[x]  BY <2>2
    <3> HIDE DEF W, F
    <3>4. it[W] = f[x] + it[T]  BY <2>4, <2>6, <3>1, Zenon
    <3> QED  BY <2>3, <3>2, <3>3, <3>4
  <2>7. CASE c # x
    <3> DEFINE U == T \ {c}
    <3>1. c \in T /\ c \in S \ U /\ x \in S \ U /\ U \in SUBSET S /\ U \subseteq T /\ U # T
      BY <2>2, <2>3, <2>4, <2>7
    <3>2. U \notin F  BY <2>1, <3>1, Zenon
    <3>3. it[U \cup {c}] = it[U] + f[c] /\ it[U \cup {x}] = it[U] + f[x]  BY <3>1, <3>2, Zenon
    <3>4. U \cup {c} = T /\ U \cup {x} = W \ {c}  BY <2>7, <3>1
    <3>5. it[U] \in Nat /\ f[c] \in Nat /\ f[x] \in Nat  BY <2>5, <3>1
    <3>6. it[W] # it[T] + f[x]  BY <2>2
    <3> HIDE DEF U, F, W
    <3>7. it[T] = it[U] + f[c] /\ it[W \ {c}] = it[U] + f[x]  BY <3>3, <3>4
    <3> QED  BY <2>4, <3>5, <3>6, <3>7
  <2> QED  BY <2>6, <2>7
<1>3. it[S] = it[S \ {m}] + f[m]
  <2>1. S \ {m} \in SUBSET S /\ m \in S \ (S \ {m}) /\ (S \ {m}) \cup {m} = S  OBVIOUS
  <2>2. S \ {m} \notin F  BY <1>2, Zenon
  <2> QED  BY <2>1, <2>2, Zenon
<1>4. it[S \ {m}] = SumOf(S \ {m}, f)
  <2>1. IsFiniteSet(S \ {m}) /\ S \ {m} \in SUBSET (S \cap (S \ {m}))  BY FS_RemoveElement
  <2>2. PICK jt : IsSum(jt, S \ {m}, f) /\ SumOf(S \ {m}, f) = jt[S \ {m}]  BY <2>1, SumTable
  <2> QED  BY <1>1, <2>1, <2>2, SumsAgree
<1> QED  BY <1>1, <1>3, <1>4

(* Changing the value of one element changes the sum by the difference.     *)
LEMMA SumChange ==
    ASSUME NEW S, IsFiniteSet(S), NEW f, NEW g, NEW m \in S,
           \A x \in S : f[x] \in Nat /\ g[x] \in Nat, \A x \in S \ {m} : f[x] = g[x]
    PROVE  SumOf(S, g) + f[m] = SumOf(S, f) + g[m]
<1>1. IsFiniteSet(S \ {m})  BY FS_RemoveElement
<1>2. SumOf(S \ {m}, f) = SumOf(S \ {m}, g)  BY <1>1, SumSame
<1>3. SumOf(S \ {m}, f) \in Nat  BY <1>1, SumType
<1>4. SumOf(S, f) = SumOf(S \ {m}, f) + f[m] /\ SumOf(S, g) = SumOf(S \ {m}, g) + g[m]
  BY SumAdd
<1> QED  BY <1>2, <1>3, <1>4

-----------------------------------------------------------------------------
(* The sums of StandardBridge.                                              *)

(* Total is the sum of the amounts.                                         *)
LEMMA TotalIsSum ==
    ASSUME NEW ms, IsFiniteSet(ms)
    PROVE  Total(ms) = SumOf(ms, [m \in ms |-> m.amount])
<1> DEFINE f == [m \in ms |-> m.amount]
           d(i) == i = [s \in SUBSET ms |->
                           IF s = {} THEN 0
                           ELSE (CHOOSE x \in s : TRUE).amount + i[s \ {CHOOSE x \in s : TRUE}]]
<1>1. ASSUME NEW i PROVE d(i) <=> IsSum(i, ms, f)
  <2>1. \A s \in SUBSET ms : s # {} =>
           f[CHOOSE x \in s : TRUE] = (CHOOSE x \in s : TRUE).amount  OBVIOUS
  <2> HIDE DEF f
  <2> QED  BY <2>1 DEF IsSum, First
<1>2. Total(ms) = (CHOOSE i : d(i))[ms]  BY DEF Total, MapThenSumSet, MapThenFoldSet
<1>3. IsSum(CHOOSE i : d(i), ms, f)
  <2>1. \E i : d(i)
    <3> HIDE DEF d, f
    <3> QED  BY <1>1, SumExists
  <2>2. d(CHOOSE i : d(i))
    <3> HIDE DEF d
    <3> QED  BY <2>1
  <2> HIDE DEF d, f
  <2> QED  BY <1>1, <2>2
<1> HIDE DEF d, f
<1>4. PICK jt : IsSum(jt, ms, f) /\ SumOf(ms, f) = jt[ms]  BY SumTable
<1>5. (CHOOSE i : d(i))[ms] = jt[ms]  BY <1>3, <1>4, SumsAgree
<1> QED  BY <1>2, <1>4, <1>5 DEF f

(* A total is natural, that of no message is zero, and a message adds its   *)
(* amount to it.                                                            *)
LEMMA TotalType ==
    ASSUME NEW ms \in SUBSET Messages, IsFiniteSet(ms)
    PROVE  Total(ms) \in Nat /\ (ms = {} => Total(ms) = 0)
<1> DEFINE f == [m \in ms |-> m.amount]
<1>1. \A m \in ms : f[m] \in Nat  BY BridgeAssumption DEF Messages, Amounts
<1>2. Total(ms) = SumOf(ms, f)  BY TotalIsSum
<1> HIDE DEF f
<1> QED  BY <1>1, <1>2, SumType

(* One more message adds its amount.                                         *)
LEMMA TotalAdd ==
    ASSUME NEW ms \in SUBSET Messages, IsFiniteSet(ms), NEW m \in Messages, m \notin ms
    PROVE  Total(ms \cup {m}) = Total(ms) + m.amount
<1> DEFINE S == ms \cup {m}
           f == [x \in S |-> x.amount]
           g == [x \in ms |-> x.amount]
<1>1. \A x \in S : f[x] \in Nat  BY BridgeAssumption DEF Messages, Amounts
<1>2. IsFiniteSet(S) /\ S \ {m} = ms /\ m \in S  BY FS_AddElement
<1>3. f[m] = m.amount /\ \A x \in ms : f[x] = g[x]  OBVIOUS
<1>4. Total(S) = SumOf(S, f)  BY <1>2, TotalIsSum, Zenon
<1>5. Total(ms) = SumOf(ms, g)  BY TotalIsSum
<1> HIDE DEF S, f, g
<1>6. SumOf(S, f) = SumOf(ms, f) + f[m]  BY <1>1, <1>2, SumAdd
<1>7. SumOf(ms, f) = SumOf(ms, g)  BY <1>3, SumSame
<1> QED  BY <1>3, <1>4, <1>5, <1>6, <1>7 DEF S

\* What d counts of an L1 token for all L2 tokens together.
Counted(d, l1) == MapThenSumSet(LAMBDA l2 : d[<<l1, l2>>], L2Token)

(* What the bridge has counted for a token is a sum over the L2 tokens.      *)
LEMMA CountedIsSum ==
    ASSUME NEW d, NEW l1
    PROVE  Counted(d, l1) = SumOf(L2Token, [l2 \in L2Token |-> d[<<l1, l2>>]])
<1> DEFINE f == [l2 \in L2Token |-> d[<<l1, l2>>]]
           e(i) == i = [s \in SUBSET L2Token |->
                           IF s = {} THEN 0
                           ELSE d[<<l1, CHOOSE x \in s : TRUE>>] + i[s \ {CHOOSE x \in s : TRUE}]]
<1>1. ASSUME NEW i PROVE e(i) <=> IsSum(i, L2Token, f)
  <2>1. \A s \in SUBSET L2Token : s # {} =>
           f[CHOOSE x \in s : TRUE] = d[<<l1, CHOOSE x \in s : TRUE>>]  OBVIOUS
  <2> HIDE DEF f
  <2> QED  BY <2>1, Zenon DEF IsSum, First
<1>2. Counted(d, l1) = (CHOOSE i : e(i))[L2Token]
  BY DEF Counted, MapThenSumSet, MapThenFoldSet
<1>0. IsFiniteSet(L2Token)  BY BridgeAssumption
<1>3. IsSum(CHOOSE i : e(i), L2Token, f)
  <2>1. \E i : e(i)
    <3> HIDE DEF e, f
    <3> QED  BY <1>0, <1>1, SumExists
  <2>2. e(CHOOSE i : e(i))
    <3> HIDE DEF e
    <3> QED  BY <2>1
  <2> HIDE DEF e, f
  <2> QED  BY <1>1, <2>2
<1> HIDE DEF e, f
<1>4. PICK jt : IsSum(jt, L2Token, f) /\ SumOf(L2Token, f) = jt[L2Token]  BY <1>0, SumTable
<1>5. (CHOOSE i : e(i))[L2Token] = jt[L2Token]  BY <1>0, <1>3, <1>4, SumsAgree
<1> QED  BY <1>2, <1>4, <1>5 DEF f

(* What is counted of an L1 token moves with the count of one pair, and     *)
(* with no pair of another L1 token.                                        *)
LEMMA CountedChange ==
    ASSUME NEW d \in [ERC20 \X L2Token -> Nat], NEW e \in [ERC20 \X L2Token -> Nat],
           NEW l1 \in ERC20, NEW l2 \in L2Token,
           \A p \in ERC20 \X L2Token : p # <<l1, l2>> => d[p] = e[p]
    PROVE  /\ \A k \in ERC20 : Counted(d, k) \in Nat
           /\ Counted(e, l1) + d[<<l1, l2>>] = Counted(d, l1) + e[<<l1, l2>>]
           /\ \A k \in ERC20 \ {l1} : Counted(d, k) = Counted(e, k)
<1> DEFINE f(h, k) == [x \in L2Token |-> h[<<k, x>>]]
<1>0. IsFiniteSet(L2Token)  BY BridgeAssumption
<1>1. \A h, k : Counted(h, k) = SumOf(L2Token, f(h, k))  BY CountedIsSum
<1>2. \A k \in ERC20, x \in L2Token :
         /\ f(d, k)[x] \in Nat /\ f(e, k)[x] \in Nat
         /\ (k # l1 \/ x # l2) => f(d, k)[x] = f(e, k)[x]
  <2> SUFFICES ASSUME NEW k \in ERC20, NEW x \in L2Token
               PROVE  /\ d[<<k, x>>] \in Nat /\ e[<<k, x>>] \in Nat
                      /\ (k # l1 \/ x # l2) => d[<<k, x>>] = e[<<k, x>>]
      OBVIOUS
  <2>1. <<k, x>> \in ERC20 \X L2Token  OBVIOUS
  <2>2. (k # l1 \/ x # l2) => <<k, x>> # <<l1, l2>>  OBVIOUS
  <2> QED  BY <2>1, <2>2
<1>3. f(d, l1)[l2] = d[<<l1, l2>>] /\ f(e, l1)[l2] = e[<<l1, l2>>]  OBVIOUS
<1> HIDE DEF f
<1>4. \A k \in ERC20 : SumOf(L2Token, f(d, k)) \in Nat  BY <1>0, <1>2, SumType
<1>5. SumOf(L2Token, f(e, l1)) + f(d, l1)[l2] = SumOf(L2Token, f(d, l1)) + f(e, l1)[l2]
  <2>1. \A x \in L2Token : f(d, l1)[x] \in Nat /\ f(e, l1)[x] \in Nat  BY <1>2
  <2>2. \A x \in L2Token \ {l2} : f(d, l1)[x] = f(e, l1)[x]  BY <1>2
  <2> QED  BY <1>0, <2>1, <2>2, SumChange
<1>6. \A k \in ERC20 \ {l1} : SumOf(L2Token, f(d, k)) = SumOf(L2Token, f(e, k))
  BY <1>0, <1>2, SumSame
<1> QED  BY <1>1, <1>3, <1>4, <1>5, <1>6

-----------------------------------------------------------------------------
(* The channels.                                                            *)

(* What is in a channel was sent, and a withdrawal of a standard token names *)
(* the asset that the bridge keeps for it; one of a foreign token, never     *)
(* Ether.                                                                    *)
Channels ==
    /\ ToL2!Elements(atL2) \subseteq ToL2!Elements(toL2)
    /\ ToL1!Elements(atL1) \subseteq ToL1!Elements(toL1)
    /\ \A m \in ToL1!Elements(toL1) :
          /\ m.l2Token = OVM_ETH => m.l1Token = Ether
          /\ m.l2Token = Coinbase => m.l1Token = Metis
          /\ m.l2Token \in StandardToken \ {OVM_ETH, Coinbase} => m.l1Token = l1TokenOf[m.l2Token]
          /\ m.l2Token \in ForeignToken => m.l1Token # Ether

IInv == TypeOK /\ Channels /\ Conservation /\ BalanceIsDeposits

(* The messages of a channel: their type, their number, and those after one *)
(* more.                                                                    *)
LEMMA ElementsOf ==
    ASSUME NEW s \in Seq(Messages)
    PROVE  /\ ToL2!Elements(s) \in SUBSET Messages /\ IsFiniteSet(ToL2!Elements(s))
           /\ ToL1!Elements(s) \in SUBSET Messages /\ IsFiniteSet(ToL1!Elements(s))
           /\ \A m \in Messages :
                 /\ Append(s, m) \in Seq(Messages)
                 /\ ToL2!Elements(Append(s, m)) = ToL2!Elements(s) \cup {m}
                 /\ ToL1!Elements(Append(s, m)) = ToL1!Elements(s) \cup {m}
<1> DEFINE E == {s[i] : i \in DOMAIN s}
<1>1. E \in SUBSET Messages  OBVIOUS
<1>2. IsFiniteSet(E)
  <2>1. DOMAIN s = 1..Len(s) /\ Len(s) \in Nat  OBVIOUS
  <2>2. IsFiniteSet(DOMAIN s)  BY <2>1, FS_Interval
  <2>3. s \in Surjection(DOMAIN s, E)  BY DEF Surjection
  <2> HIDE DEF E
  <2> QED  BY <2>2, <2>3, FS_Surjection
<1>3. ASSUME NEW m \in Messages
      PROVE  {Append(s, m)[i] : i \in DOMAIN Append(s, m)} = E \cup {m}
  <2>1. DOMAIN Append(s, m) = 1..Len(s) + 1 /\ DOMAIN s = 1..Len(s) /\ Len(s) \in Nat  OBVIOUS
  <2>2. \A i \in 1..Len(s) + 1 : Append(s, m)[i] = IF i = Len(s) + 1 THEN m ELSE s[i]  OBVIOUS
  <2> QED  BY <2>1, <2>2
<1>4. ToL2!Elements(s) = E /\ ToL1!Elements(s) = E  BY DEF ToL2!Elements, ToL1!Elements
<1> HIDE DEF E
<1>5. ASSUME NEW m \in Messages
      PROVE  /\ Append(s, m) \in Seq(Messages)
             /\ ToL2!Elements(Append(s, m)) = E \cup {m}
             /\ ToL1!Elements(Append(s, m)) = E \cup {m}
  <2>1. Append(s, m) \in Seq(Messages)  OBVIOUS
  <2>2. ToL2!Elements(Append(s, m)) = E \cup {m}  BY <1>3, Zenon DEF ToL2!Elements
  <2>3. ToL1!Elements(Append(s, m)) = E \cup {m}  BY <1>3, Zenon DEF ToL1!Elements
  <2> QED  BY <2>1, <2>2, <2>3
<1> QED  BY <1>1, <1>2, <1>4, <1>5

\* Whether a deposit will mint l2.
Mints(m, l2) == m.l2Token = l2 /\ m.l1Token = l1TokenOf[l2]

(* What is under way is finite, and a sum of naturals.                      *)
LEMMA UnderWay ==
    ASSUME TypeOK, NEW l2 \in StandardToken
    PROVE  /\ Minting(l2) \in SUBSET Messages /\ IsFiniteSet(Minting(l2))
           /\ Leaving(l2) \in SUBSET Messages /\ IsFiniteSet(Leaving(l2))
           /\ Total(Minting(l2)) \in Nat /\ Total(Leaving(l2)) \in Nat
<1>1. /\ ToL2!Elements(toL2) \in SUBSET Messages /\ IsFiniteSet(ToL2!Elements(toL2))
      /\ ToL1!Elements(toL1) \in SUBSET Messages /\ IsFiniteSet(ToL1!Elements(toL1))
  BY ElementsOf DEF TypeOK
<1>2. /\ Minting(l2) \in SUBSET ToL2!Elements(toL2)
      /\ Leaving(l2) \in SUBSET ToL1!Elements(toL1)
  BY DEF Minting, Leaving
<1>3. /\ Minting(l2) \in SUBSET Messages /\ IsFiniteSet(Minting(l2))
      /\ Leaving(l2) \in SUBSET Messages /\ IsFiniteSet(Leaving(l2))
  BY <1>1, <1>2, FS_Subset
<1> QED  BY <1>3, TotalType

(* A deposit that is sent adds to what will be minted, and its delivery     *)
(* takes it away again.                                                     *)
LEMMA MintSent ==
    ASSUME TypeOK, Channels, NEW m \in Messages, ToL2!Send(m), NEW l2 \in StandardToken
    PROVE  Total(Minting(l2)') = Total(Minting(l2)) + IF Mints(m, l2) THEN m.amount ELSE 0
<1>1. toL2 \in Seq(Messages) /\ atL2 \in Seq(Messages)  BY DEF TypeOK
<1>2. ToL2!Elements(toL2') = ToL2!Elements(toL2) \cup {m} /\ m \notin ToL2!Elements(toL2)
  BY <1>1, ElementsOf DEF ToL2!Send
<1>3. m \notin ToL2!Elements(atL2) /\ atL2' = atL2  BY <1>2 DEF Channels, ToL2!Send
<1>4. Total(Minting(l2)) \in Nat  BY UnderWay
<1>5. CASE Mints(m, l2)
  <2>1. Minting(l2)' = Minting(l2) \cup {m} /\ m \notin Minting(l2)
    BY <1>2, <1>3, <1>5 DEF Minting, Mints
  <2> QED  BY <1>5, <2>1, UnderWay, TotalAdd
<1>6. CASE ~Mints(m, l2)
  <2>1. Minting(l2)' = Minting(l2)  BY <1>2, <1>3, <1>6 DEF Minting, Mints
  <2> QED  BY <1>4, <1>6, <2>1
<1> QED  BY <1>5, <1>6

(* A delivery on L2 takes the amount of the message out of what is to be     *)
(* minted.                                                                   *)
LEMMA MintDelivered ==
    ASSUME TypeOK, NEW m \in ToL2!Elements(toL2), ToL2!Deliver(m), NEW l2 \in StandardToken
    PROVE  /\ Total(Minting(l2)') \in Nat
           /\ Total(Minting(l2)) = Total(Minting(l2)') + IF Mints(m, l2) THEN m.amount ELSE 0
<1>1. toL2 \in Seq(Messages) /\ atL2 \in Seq(Messages)  BY DEF TypeOK
<1>2. m \in Messages  BY <1>1, ElementsOf
<1>3. ToL2!Elements(atL2') = ToL2!Elements(atL2) \cup {m} /\ m \notin ToL2!Elements(atL2)
  BY <1>1, <1>2, ElementsOf DEF ToL2!Deliver
<1>4. toL2' = toL2  BY DEF ToL2!Deliver
<1>5. Total(Minting(l2)) \in Nat  BY UnderWay
<1>6. CASE Mints(m, l2)
  <2> DEFINE ms == Minting(l2)'
  <2>1. ms = Minting(l2) \ {m} /\ m \notin ms /\ Minting(l2) = ms \cup {m}
    BY <1>3, <1>4, <1>6 DEF Minting, Mints
  <2>2. ms \in SUBSET Messages /\ IsFiniteSet(ms)  BY <2>1, UnderWay, FS_RemoveElement
  <2> HIDE DEF ms
  <2>3. Total(ms) \in Nat /\ Total(ms \cup {m}) = Total(ms) + m.amount
    BY <1>2, <2>1, <2>2, TotalType, TotalAdd
  <2> QED  BY <1>6, <2>1, <2>3 DEF ms
<1>7. CASE ~Mints(m, l2)
  <2>1. Minting(l2)' = Minting(l2)  BY <1>3, <1>4, <1>7 DEF Minting, Mints
  <2> QED  BY <1>5, <1>7, <2>1
<1> QED  BY <1>6, <1>7

(* The same of the withdrawals.                                             *)
LEMMA LeaveSent ==
    ASSUME TypeOK, Channels, NEW m \in Messages, ToL1!Send(m), NEW l2 \in StandardToken
    PROVE  Total(Leaving(l2)') = Total(Leaving(l2)) + IF m.l2Token = l2 THEN m.amount ELSE 0
<1>1. toL1 \in Seq(Messages) /\ atL1 \in Seq(Messages)  BY DEF TypeOK
<1>2. ToL1!Elements(toL1') = ToL1!Elements(toL1) \cup {m} /\ m \notin ToL1!Elements(toL1)
  BY <1>1, ElementsOf DEF ToL1!Send
<1>3. m \notin ToL1!Elements(atL1) /\ atL1' = atL1  BY <1>2 DEF Channels, ToL1!Send
<1>4. Total(Leaving(l2)) \in Nat  BY UnderWay
<1>5. CASE m.l2Token = l2
  <2>1. Leaving(l2)' = Leaving(l2) \cup {m} /\ m \notin Leaving(l2)
    BY <1>2, <1>3, <1>5 DEF Leaving
  <2> QED  BY <1>5, <2>1, UnderWay, TotalAdd
<1>6. CASE m.l2Token # l2
  <2>1. Leaving(l2)' = Leaving(l2)  BY <1>2, <1>3, <1>6 DEF Leaving
  <2> QED  BY <1>4, <1>6, <2>1
<1> QED  BY <1>5, <1>6

(* A delivery on L1 takes the amount of the message out of what is to be     *)
(* paid.                                                                     *)
LEMMA LeaveDelivered ==
    ASSUME TypeOK, NEW m \in ToL1!Elements(toL1), ToL1!Deliver(m), NEW l2 \in StandardToken
    PROVE  /\ Total(Leaving(l2)') \in Nat
           /\ Total(Leaving(l2)) = Total(Leaving(l2)') + IF m.l2Token = l2 THEN m.amount ELSE 0
<1>1. toL1 \in Seq(Messages) /\ atL1 \in Seq(Messages)  BY DEF TypeOK
<1>2. m \in Messages  BY <1>1, ElementsOf
<1>3. ToL1!Elements(atL1') = ToL1!Elements(atL1) \cup {m} /\ m \notin ToL1!Elements(atL1)
  BY <1>1, <1>2, ElementsOf DEF ToL1!Deliver
<1>4. toL1' = toL1  BY DEF ToL1!Deliver
<1>5. Total(Leaving(l2)) \in Nat  BY UnderWay
<1>6. CASE m.l2Token = l2
  <2> DEFINE ms == Leaving(l2)'
  <2>1. ms = Leaving(l2) \ {m} /\ m \notin ms /\ Leaving(l2) = ms \cup {m}
    BY <1>3, <1>4, <1>6 DEF Leaving
  <2>2. ms \in SUBSET Messages /\ IsFiniteSet(ms)  BY <2>1, UnderWay, FS_RemoveElement
  <2> HIDE DEF ms
  <2>3. Total(ms) \in Nat /\ Total(ms \cup {m}) = Total(ms) + m.amount
    BY <1>2, <2>1, <2>2, TotalType, TotalAdd
  <2> QED  BY <1>6, <2>1, <2>3 DEF ms
<1>7. CASE m.l2Token # l2
  <2>1. Leaving(l2)' = Leaving(l2)  BY <1>3, <1>4, <1>7 DEF Leaving
  <2> QED  BY <1>5, <1>7, <2>1
<1> QED  BY <1>6, <1>7

-----------------------------------------------------------------------------
(* The induction.                                                           *)

(* The second part of BalanceIsDeposits, in terms of Counted.               *)
LEMMA BalanceCounted ==
    BalanceIsDeposits <=>
        /\ \A pair \in ERC20 \X L2Token : deposits[pair] >= 0
        /\ \A l1 \in ERC20 : balance[l1] = Counted(deposits, l1)
BY DEF BalanceIsDeposits, Counted, MapThenSumSet, MapThenFoldSet

(* The books balance when nothing was deposited.                             *)
LEMMA InitIInv == Init => IInv
<1> SUFFICES ASSUME Init PROVE IInv  OBVIOUS
<1>1. TypeOK  BY DEF Init, TypeOK
<1>2. Channels  BY DEF Init, Channels, ToL1!Elements, ToL2!Elements
<1>3. Conservation
  <2> SUFFICES ASSUME NEW l2 \in StandardToken
               PROVE  Locked(l2) = supply[l2] + Total(Minting(l2)) + Total(Leaving(l2))
      BY DEF Conservation
  <2>1. Minting(l2) = {} /\ Leaving(l2) = {}
    BY DEF Init, Minting, Leaving, ToL1!Elements, ToL2!Elements
  <2>2. Total(Minting(l2)) = 0 /\ Total(Leaving(l2)) = 0
    BY <1>1, <2>1, UnderWay, TotalType
  <2>3. Locked(l2) = 0 /\ supply[l2] = 0
    BY BridgeAssumption DEF Init, Locked, L1Asset, L2Token
  <2> QED  BY <2>2, <2>3
<1>4. BalanceIsDeposits
  <2>1. ASSUME NEW l1 \in ERC20 PROVE Counted(deposits, l1) = 0
    <3> DEFINE f == [l2 \in L2Token |-> deposits[<<l1, l2>>]]
    <3>1. \A x \in L2Token : f[x] = 0  BY DEF Init
    <3>2. Counted(deposits, l1) = SumOf(L2Token, f)  BY CountedIsSum
    <3> HIDE DEF f
    <3> QED  BY <3>1, <3>2, SumZero, BridgeAssumption
  <2>2. \A l1 \in ERC20 : balance[l1] = 0  BY DEF Init, L1Asset
  <2>3. \A pair \in ERC20 \X L2Token : deposits[pair] = 0  BY DEF Init
  <2> QED  BY <2>1, <2>2, <2>3, BalanceCounted
<1> QED  BY <1>1, <1>2, <1>3, <1>4 DEF IInv

(* BalanceIsDeposits after a step, in the form of the sums.                  *)
LEMMA BalanceAfter ==
    ASSUME deposits' \in [ERC20 \X L2Token -> Nat],
           \A l1 \in ERC20 : balance'[l1] = Counted(deposits', l1)
    PROVE  BalanceIsDeposits'
<1>1. \A pair \in ERC20 \X L2Token : deposits'[pair] >= 0  OBVIOUS
<1> QED  BY <1>1, Zenon DEF BalanceIsDeposits, Counted, MapThenSumSet, MapThenFoldSet

(* What each action does to the channels.                                   *)
LEMMA SendDepositOK ==
    ASSUME TypeOK, Channels, NEW l1 \in L1Asset \cup {ZeroAddress}, NEW l2 \in L2Token,
           NEW amount \in Amounts, SendDeposit(l1, l2, amount)
    PROVE  \E m \in Messages :
              /\ m.l1Token = l1 /\ m.l2Token = l2 /\ m.amount = amount
              /\ ToL2!Send(m)
              /\ {toL2', atL2'} \subseteq Seq(Messages)
              /\ ToL2!Elements(atL2') \subseteq ToL2!Elements(toL2')
<1> DEFINE m == [nonce |-> Len(toL2), l1Token |-> l1, l2Token |-> l2, amount |-> amount]
<1>1. toL2 \in Seq(Messages) /\ atL2 \in Seq(Messages)  BY DEF TypeOK
<1>2. m \in Messages /\ m.l1Token = l1 /\ m.l2Token = l2 /\ m.amount = amount
  BY <1>1 DEF Messages
<1>3. ToL2!Send(m)  BY DEF SendDeposit
<1> HIDE DEF m
<1>4. toL2' = Append(toL2, m) /\ atL2' = atL2  BY <1>3 DEF ToL2!Send
<1>5. ToL2!Elements(toL2') = ToL2!Elements(toL2) \cup {m} /\ toL2' \in Seq(Messages)
  BY <1>1, <1>2, <1>4, ElementsOf
<1>6. ToL2!Elements(atL2') \subseteq ToL2!Elements(toL2')  BY <1>4, <1>5 DEF Channels
<1> QED  BY <1>1, <1>2, <1>3, <1>4, <1>5, <1>6

(* Depositing Ether.                                                        *)
LEMMA DepositETHIInv ==
    ASSUME IInv, NEW amount \in Amounts, DepositETH(amount)
    PROVE  IInv'
<1> USE DEF IInv
<1>1. amount \in Nat  BY BridgeAssumption DEF Amounts
<1>2. OVM_ETH \in L2Token /\ OVM_ETH \in StandardToken /\ l1TokenOf[OVM_ETH] = ZeroAddress
  BY BridgeAssumption DEF L2Token
<1>3. PICK m \in Messages :
          /\ m.l1Token = ZeroAddress /\ m.l2Token = OVM_ETH /\ m.amount = amount
          /\ ToL2!Send(m)
          /\ {toL2', atL2'} \subseteq Seq(Messages)
          /\ ToL2!Elements(atL2') \subseteq ToL2!Elements(toL2')
  BY <1>2, SendDepositOK DEF DepositETH
<1>4. /\ balance' = [balance EXCEPT ![Ether] = balance[Ether] + amount]
      /\ UNCHANGED <<deposits, supply, toL1, atL1, failed>>
  BY DEF DepositETH
<1>5. TypeOK'
  <2>1. balance' \in [L1Asset -> Nat]  BY <1>1, <1>4 DEF TypeOK, L1Asset
  <2> QED  BY <1>3, <1>4, <2>1 DEF TypeOK
<1>6. Channels'  BY <1>3, <1>4, Zenon DEF Channels, ToL1!Elements
<1>7. Conservation'
  <2> SUFFICES ASSUME NEW l2 \in StandardToken
               PROVE  Locked(l2)' = supply'[l2] + Total(Minting(l2)') + Total(Leaving(l2)')
      BY DEF Conservation
  <2>1. Locked(l2) = supply[l2] + Total(Minting(l2)) + Total(Leaving(l2))  BY DEF Conservation
  <2>2. Leaving(l2)' = Leaving(l2) /\ supply' = supply  BY <1>4 DEF Leaving, ToL1!Elements
  <2>3. Total(Minting(l2)') = Total(Minting(l2)) + IF Mints(m, l2) THEN m.amount ELSE 0
    BY <1>3, MintSent
  <2>4. /\ Total(Minting(l2)) \in Nat /\ Total(Leaving(l2)) \in Nat /\ supply[l2] \in Nat
    BY UnderWay DEF TypeOK
  <2>5. Mints(m, l2) <=> l2 = OVM_ETH  BY <1>2, <1>3 DEF Mints
  <2>6. Locked(l2)' = Locked(l2) + IF l2 = OVM_ETH THEN amount ELSE 0
    <3>1. CASE l2 = OVM_ETH
      BY <1>4, <3>1, BridgeAssumption DEF Locked, TypeOK, L1Asset
    <3>2. CASE l2 # OVM_ETH
      <4>1. Locked(l2)' = Locked(l2)  BY <1>4, <3>2 DEF Locked
      <4>2. Locked(l2) \in Nat  BY <2>1, <2>4
      <4> QED  BY <3>2, <4>1, <4>2
    <3> QED  BY <3>1, <3>2
  <2> HIDE DEF IInv
  <2> QED  BY <1>1, <1>3, <2>1, <2>2, <2>3, <2>4, <2>5, <2>6
<1>8. BalanceIsDeposits'
  <2>1. \A l1 \in ERC20 : balance'[l1] = balance[l1]
    BY <1>4, BridgeAssumption DEF TypeOK, L1Asset
  <2> QED  BY <1>4, <2>1, BalanceCounted, BalanceAfter DEF TypeOK
<1> QED  BY <1>5, <1>6, <1>7, <1>8

(* Depositing an ERC20 token: METIS counts for the coinbase, another token   *)
(* for the L2 token that the depositor names.                                *)
LEMMA DepositERC20IInv ==
    ASSUME IInv, NEW l1 \in ERC20, NEW l2 \in L2Token, NEW amount \in Amounts,
           DepositERC20(l1, l2, amount)
    PROVE  IInv'
<1> USE DEF IInv
<1> DEFINE k2 == IF l1 = Metis THEN Coinbase ELSE l2
           m1 == IF l1 = Metis THEN ZeroAddress ELSE l1
<1>1. amount \in Nat  BY BridgeAssumption DEF Amounts
<1>2. k2 \in L2Token /\ m1 \in L1Asset \cup {ZeroAddress}
  BY BridgeAssumption DEF L2Token, L1Asset
<1>3. SendDeposit(m1, k2, amount)  BY DEF DepositERC20
<1>4. /\ balance' = [balance EXCEPT ![l1] = balance[l1] + amount]
      /\ deposits' = [deposits EXCEPT ![<<l1, k2>>] = deposits[<<l1, k2>>] + amount]
      /\ UNCHANGED <<supply, toL1, atL1, failed>>
  BY Zenon DEF DepositERC20
<1>5. \A t \in StandardToken :
         m1 = l1TokenOf[t] /\ k2 = t
            <=> t # OVM_ETH /\ <<l1, k2>> = IF t = Coinbase THEN <<Metis, Coinbase>> ELSE <<l1TokenOf[t], t>>
  BY BridgeAssumption DEF L1Asset
<1> HIDE DEF k2, m1
<1>6. PICK m \in Messages :
          /\ m.l1Token = m1 /\ m.l2Token = k2 /\ m.amount = amount
          /\ ToL2!Send(m)
          /\ {toL2', atL2'} \subseteq Seq(Messages)
          /\ ToL2!Elements(atL2') \subseteq ToL2!Elements(toL2')
  BY <1>2, <1>3, SendDepositOK
<1>7. <<l1, k2>> \in ERC20 \X L2Token /\ l1 \in L1Asset  BY <1>2 DEF L1Asset
<1>8. TypeOK'
  <2>1. balance' \in [L1Asset -> Nat]  BY <1>1, <1>4, <1>7 DEF TypeOK
  <2>2. deposits' \in [ERC20 \X L2Token -> Nat]  BY <1>1, <1>4, <1>7 DEF TypeOK
  <2> QED  BY <1>4, <1>6, <2>1, <2>2 DEF TypeOK
<1>9. Channels'  BY <1>4, <1>6, Zenon DEF Channels, ToL1!Elements
<1>10. Conservation'
  <2> SUFFICES ASSUME NEW t \in StandardToken
               PROVE  Locked(t)' = supply'[t] + Total(Minting(t)') + Total(Leaving(t)')
      BY DEF Conservation
  <2>1. Locked(t) = supply[t] + Total(Minting(t)) + Total(Leaving(t))  BY DEF Conservation
  <2>2. Leaving(t)' = Leaving(t) /\ supply' = supply  BY <1>4 DEF Leaving, ToL1!Elements
  <2>3. Total(Minting(t)') = Total(Minting(t)) + IF Mints(m, t) THEN m.amount ELSE 0
    BY <1>6, MintSent
  <2>4. /\ Total(Minting(t)) \in Nat /\ Total(Leaving(t)) \in Nat /\ supply[t] \in Nat
    BY UnderWay DEF TypeOK
  <2>5. Locked(t)' = Locked(t) + IF Mints(m, t) THEN amount ELSE 0
    <3>1. CASE t = OVM_ETH
      <4>1. ~Mints(m, t)  BY <1>5, <1>6, <3>1, Zenon DEF Mints
      <4>2. Locked(t)' = Locked(t)
        BY <1>4, <1>7, <3>1, BridgeAssumption DEF Locked, TypeOK, L1Asset
      <4>3. Locked(t) \in Nat  BY <2>1, <2>4
      <4> QED  BY <4>1, <4>2, <4>3
    <3>2. CASE t # OVM_ETH
      <4> DEFINE q == IF t = Coinbase THEN <<Metis, Coinbase>> ELSE <<l1TokenOf[t], t>>
      <4>1. Mints(m, t) <=> <<l1, k2>> = q  BY <1>5, <1>6, <3>2, SMTT(30) DEF Mints
      <4>2. Locked(t) = deposits[q] /\ Locked(t)' = deposits'[q]
        BY <3>2 DEF Locked
      <4>3. q \in ERC20 \X L2Token  BY <3>2, BridgeAssumption DEF L2Token
      <4> HIDE DEF q
      <4>4. deposits'[q] = deposits[q] + IF <<l1, k2>> = q THEN amount ELSE 0
        <5>1. deposits \in [ERC20 \X L2Token -> Nat]  BY DEF TypeOK
        <5>2. deposits[q] \in Nat  BY <4>3, <5>1
        <5>3. CASE <<l1, k2>> = q  BY <1>4, <4>3, <5>1, <5>3
        <5>4. CASE <<l1, k2>> # q
          <6>1. deposits'[q] = deposits[q]  BY <1>4, <4>3, <5>1, <5>4
          <6> QED  BY <5>2, <5>4, <6>1
        <5> QED  BY <5>3, <5>4
      <4> QED  BY <4>1, <4>2, <4>4
    <3> QED  BY <3>1, <3>2
  <2> HIDE DEF IInv
  <2> QED  BY <1>1, <1>6, <2>1, <2>2, <2>3, <2>4, <2>5
<1>11. BalanceIsDeposits'
  <2>1. deposits \in [ERC20 \X L2Token -> Nat] /\ deposits' \in [ERC20 \X L2Token -> Nat]
    BY <1>8 DEF TypeOK
  <2>2. /\ \A p \in ERC20 \X L2Token : p # <<l1, k2>> => deposits[p] = deposits'[p]
        /\ deposits'[<<l1, k2>>] = deposits[<<l1, k2>>] + amount
        /\ deposits[<<l1, k2>>] \in Nat
    BY <1>4, <1>7, <2>1
  <2>3. /\ \A k \in ERC20 : Counted(deposits, k) \in Nat
        /\ Counted(deposits', l1) + deposits[<<l1, k2>>] = Counted(deposits, l1) + deposits'[<<l1, k2>>]
        /\ \A k \in ERC20 \ {l1} : Counted(deposits, k) = Counted(deposits', k)
    BY <1>2, <2>1, <2>2, CountedChange
  <2>4. \A k \in ERC20 : Counted(deposits', k) \in Nat
    BY <1>2, <2>1, <2>2, CountedChange, Zenon
  <2>5. Counted(deposits', l1) = Counted(deposits, l1) + amount
    BY <1>1, <2>2, <2>3, <2>4
  <2>6. \A k \in ERC20 : balance[k] = Counted(deposits, k)  BY BalanceCounted
  <2>7. \A k \in ERC20 : balance'[k] = IF k = l1 THEN balance[k] + amount ELSE balance[k]
    BY <1>4 DEF TypeOK, L1Asset
  <2>8. \A k \in ERC20 : balance'[k] = Counted(deposits', k)
    BY <2>3, <2>5, <2>6, <2>7
  <2> QED  BY <2>1, <2>8, BalanceAfter
<1> QED  BY <1>8, <1>9, <1>10, <1>11

(* A delivered deposit is minted or refused.                                *)
LEMMA FinalizeDepositIInv ==
    ASSUME IInv, NEW m \in ToL2!Elements(toL2), FinalizeDeposit(m)
    PROVE  IInv'
<1> USE DEF IInv
<1>1. toL2 \in Seq(Messages) /\ atL2 \in Seq(Messages)  BY DEF TypeOK
<1>2. m \in Messages  BY <1>1, ElementsOf
<1>3. /\ m.amount \in Nat /\ m.l2Token \in L2Token  BY <1>2, BridgeAssumption DEF Messages, Amounts
<1>4. ToL2!Deliver(m) /\ UNCHANGED <<balance, deposits, toL1, atL1>>  BY DEF FinalizeDeposit
<1>5. toL2' = toL2 /\ atL2' = Append(atL2, m)  BY <1>4 DEF ToL2!Deliver
<1>6. atL2' \in Seq(Messages) /\ ToL2!Elements(atL2') = ToL2!Elements(atL2) \cup {m}
  BY <1>1, <1>2, <1>5, ElementsOf
<1>7. /\ supply' \in [StandardToken -> Nat] /\ failed' \subseteq Messages
      /\ \A t \in StandardToken : supply'[t] = supply[t] + IF Mints(m, t) THEN m.amount ELSE 0
  <2>1. supply \in [StandardToken -> Nat] /\ failed \subseteq Messages  BY DEF TypeOK
  <2>2. CASE /\ m.l1Token \in l1Token(m.l2Token)
             /\ supply' = IF m.l2Token \in StandardToken
                          THEN [supply EXCEPT ![m.l2Token] = supply[m.l2Token] + m.amount] ELSE supply
             /\ UNCHANGED failed
    <3>1. CASE m.l2Token \in StandardToken
      <4>1. m.l1Token = l1TokenOf[m.l2Token]  BY <2>2, <3>1 DEF l1Token
      <4>2. \A t \in StandardToken : Mints(m, t) <=> t = m.l2Token  BY <4>1 DEF Mints
      <4> HIDE DEF IInv
      <4> QED  BY <1>3, <2>1, <2>2, <3>1, <4>2
    <3>2. CASE m.l2Token \notin StandardToken
      <4>1. \A t \in StandardToken : ~Mints(m, t)  BY <3>2 DEF Mints
      <4> HIDE DEF IInv
      <4> QED  BY <2>1, <2>2, <3>2, <4>1
    <3> QED  BY <3>1, <3>2
  <2>3. CASE /\ m.l2Token \in StandardToken => m.l1Token # l1TokenOf[m.l2Token]
             /\ failed' = failed \cup {m}
             /\ UNCHANGED supply
    <3>1. \A t \in StandardToken : ~Mints(m, t)  BY <2>3 DEF Mints
    <3> HIDE DEF IInv
    <3> QED  BY <1>2, <2>1, <2>3, <3>1
  <2> QED  BY <2>2, <2>3 DEF FinalizeDeposit
<1>8. TypeOK'  BY <1>4, <1>5, <1>6, <1>7, SMTT(30) DEF TypeOK
<1>9. Channels'  BY <1>4, <1>5, <1>6 DEF Channels, ToL1!Elements
<1>10. Conservation'
  <2> SUFFICES ASSUME NEW t \in StandardToken
               PROVE  Locked(t)' = supply'[t] + Total(Minting(t)') + Total(Leaving(t)')
      BY DEF Conservation
  <2>1. Locked(t) = supply[t] + Total(Minting(t)) + Total(Leaving(t))  BY DEF Conservation
  <2>2. Leaving(t)' = Leaving(t) /\ Locked(t)' = Locked(t)
    BY <1>4 DEF Leaving, ToL1!Elements, Locked
  <2>3. /\ Total(Minting(t)') \in Nat
        /\ Total(Minting(t)) = Total(Minting(t)') + IF Mints(m, t) THEN m.amount ELSE 0
    BY <1>4, MintDelivered
  <2>4. Total(Leaving(t)) \in Nat /\ supply[t] \in Nat  BY UnderWay DEF TypeOK
  <2>5. supply'[t] = supply[t] + IF Mints(m, t) THEN m.amount ELSE 0  BY <1>7
  <2> HIDE DEF IInv
  <2> QED  BY <1>3, <2>1, <2>2, <2>3, <2>4, <2>5
<1>11. BalanceIsDeposits'
  BY <1>4, BalanceCounted, BalanceAfter DEF TypeOK
<1> QED  BY <1>8, <1>9, <1>10, <1>11

(* A withdrawal burns what it sends.                                        *)
LEMMA WithdrawIInv ==
    ASSUME IInv, NEW l2 \in L2Token, NEW amount \in Amounts, Withdraw(l2, amount)
    PROVE  IInv'
<1> USE DEF IInv
<1>1. toL1 \in Seq(Messages) /\ atL1 \in Seq(Messages)  BY DEF TypeOK
<1>2. amount \in Nat  BY BridgeAssumption DEF Amounts
<1> DEFINE asset(l1) == CASE l2 = OVM_ETH -> Ether [] l2 = Coinbase -> Metis [] OTHER -> l1
           message(l1) == [nonce |-> Len(toL1), l2Token |-> l2, amount |-> amount,
                           l1Token |-> asset(l1)]
<1>3. PICK l1 \in l1Token(l2) : ToL1!Send(message(l1))  BY DEF Withdraw
<1>4. UNCHANGED <<balance, deposits, toL2, atL2, failed>>  BY DEF Withdraw
<1> DEFINE m == message(l1)
<1>5. /\ l2 = OVM_ETH => asset(l1) = Ether
      /\ l2 = Coinbase => asset(l1) = Metis
      /\ l2 \in StandardToken \ {OVM_ETH, Coinbase} => asset(l1) = l1TokenOf[l2]
      /\ l2 \in ForeignToken => asset(l1) # Ether
      /\ asset(l1) \in L1Asset \cup {ZeroAddress}
  BY BridgeAssumption, SMTT(30) DEF l1Token, L1Asset, L2Token
<1> HIDE DEF asset
<1>6. /\ m \in Messages /\ m.l1Token = asset(l1) /\ m.l2Token = l2 /\ m.amount = amount
      /\ ToL1!Send(m)
  BY <1>1, <1>3, <1>5 DEF Messages
<1> HIDE DEF m, message
<1>7. toL1' = Append(toL1, m) /\ atL1' = atL1  BY <1>6 DEF ToL1!Send
<1>8. toL1' \in Seq(Messages) /\ ToL1!Elements(toL1') = ToL1!Elements(toL1) \cup {m}
  BY <1>1, <1>6, <1>7, ElementsOf
<1>9. /\ supply' \in [StandardToken -> Nat]
      /\ \A t \in StandardToken :
            /\ supply[t] \in Nat /\ supply'[t] \in Nat
            /\ supply[t] = supply'[t] + IF t = l2 THEN amount ELSE 0
  <2>1. supply \in [StandardToken -> Nat]  BY DEF TypeOK
  <2>2. CASE /\ l2 \in StandardToken /\ supply[l2] >= amount
             /\ supply' = [supply EXCEPT ![l2] = supply[l2] - amount]
    <3>1. supply[l2] \in Nat /\ supply[l2] - amount \in Nat  BY <1>2, <2>1, <2>2
    <3> HIDE DEF IInv
    <3> QED  BY <1>2, <2>1, <2>2, <3>1
  <2>3. CASE l2 \in ForeignToken /\ UNCHANGED supply
    <3>1. l2 \notin StandardToken  BY <2>3, BridgeAssumption
    <3> HIDE DEF IInv
    <3> QED  BY <2>1, <2>3, <3>1
  <2> QED  BY <2>2, <2>3 DEF Withdraw
<1>10. TypeOK'  BY <1>1, <1>4, <1>7, <1>8, <1>9 DEF TypeOK
<1>11. Channels'
  <2>1. ToL1!Elements(atL1') \subseteq ToL1!Elements(toL1')  BY <1>7, <1>8 DEF Channels
  <2>2. \A w \in ToL1!Elements(toL1') :
          /\ w.l2Token = OVM_ETH => w.l1Token = Ether
          /\ w.l2Token = Coinbase => w.l1Token = Metis
          /\ w.l2Token \in StandardToken \ {OVM_ETH, Coinbase} => w.l1Token = l1TokenOf[w.l2Token]
          /\ w.l2Token \in ForeignToken => w.l1Token # Ether
    BY <1>5, <1>6, <1>8 DEF Channels
  <2>3. ToL2!Elements(atL2') \subseteq ToL2!Elements(toL2')
    BY <1>4 DEF Channels, ToL2!Elements
  <2> QED  BY <2>1, <2>2, <2>3 DEF Channels
<1>12. Conservation'
  <2> SUFFICES ASSUME NEW t \in StandardToken
               PROVE  Locked(t)' = supply'[t] + Total(Minting(t)') + Total(Leaving(t)')
      BY DEF Conservation
  <2>1. Locked(t) = supply[t] + Total(Minting(t)) + Total(Leaving(t))  BY DEF Conservation
  <2>2. Minting(t)' = Minting(t) /\ Locked(t)' = Locked(t)
    BY <1>4 DEF Minting, ToL2!Elements, Locked
  <2>3. Total(Leaving(t)') = Total(Leaving(t)) + IF l2 = t THEN amount ELSE 0
    BY <1>6, LeaveSent
  <2>4. Total(Leaving(t)) \in Nat /\ Total(Minting(t)) \in Nat  BY UnderWay
  <2>5. supply'[t] \in Nat /\ supply[t] = supply'[t] + IF t = l2 THEN amount ELSE 0  BY <1>9
  <2> HIDE DEF IInv
  <2> QED  BY <1>2, <2>1, <2>2, <2>3, <2>4, <2>5
<1>13. BalanceIsDeposits'
  BY <1>4, BalanceCounted, BalanceAfter DEF TypeOK
<1> QED  BY <1>10, <1>11, <1>12, <1>13

(* A withdrawal is paid from what its token has locked.                     *)
LEMMA PayIInv ==
    ASSUME IInv, NEW m \in ToL1!Elements(toL1), FinalizeWithdrawal(m)
    PROVE  IInv'
<1> USE DEF IInv
<1>1. toL1 \in Seq(Messages) /\ atL1 \in Seq(Messages)  BY DEF TypeOK
<1>2. m \in Messages  BY <1>1, ElementsOf
<1> DEFINE l1 == m.l1Token
           l2 == m.l2Token
<1>3. m.amount \in Nat /\ l2 \in L2Token  BY <1>2, BridgeAssumption DEF Messages, Amounts
<1>4. ToL1!Deliver(m) /\ UNCHANGED <<supply, toL2, atL2, failed>>  BY DEF FinalizeWithdrawal
<1>5. toL1' = toL1 /\ atL1' = Append(atL1, m)  BY <1>4 DEF ToL1!Deliver
<1>6. atL1' \in Seq(Messages) /\ ToL1!Elements(atL1') = ToL1!Elements(atL1) \cup {m}
  BY <1>1, <1>2, <1>5, ElementsOf
<1>7. /\ l2 = OVM_ETH => l1 = Ether
      /\ l2 = Coinbase => l1 = Metis
      /\ l2 \in StandardToken \ {OVM_ETH, Coinbase} => l1 = l1TokenOf[l2]
      /\ l2 \in ForeignToken => l1 # Ether
  BY DEF Channels
<1>8. Channels'
  <2>1. ToL2!Elements(atL2') \subseteq ToL2!Elements(toL2')
    BY <1>4 DEF Channels, ToL2!Elements
  <2> QED  BY <1>5, <1>6, <2>1 DEF Channels
<1>9. ASSUME \A t \in StandardToken : Locked(t)' \in Nat
                  /\ Locked(t) = Locked(t)' + IF l2 = t THEN m.amount ELSE 0
      PROVE  Conservation'
  <2> SUFFICES ASSUME NEW t \in StandardToken
               PROVE  Locked(t)' = supply'[t] + Total(Minting(t)') + Total(Leaving(t)')
      BY DEF Conservation
  <2>1. Locked(t) = supply[t] + Total(Minting(t)) + Total(Leaving(t))  BY DEF Conservation
  <2>2. Minting(t)' = Minting(t) /\ supply' = supply  BY <1>4 DEF Minting, ToL2!Elements
  <2>3. /\ Total(Leaving(t)') \in Nat
        /\ Total(Leaving(t)) = Total(Leaving(t)') + IF l2 = t THEN m.amount ELSE 0
    BY <1>4, LeaveDelivered
  <2>4. Total(Minting(t)) \in Nat /\ supply[t] \in Nat  BY UnderWay DEF TypeOK
  <2>5. Locked(t)' \in Nat /\ Locked(t) = Locked(t)' + IF l2 = t THEN m.amount ELSE 0  BY <1>9
  <2> HIDE DEF IInv, l2
  <2>6. CASE l2 = t
    <3>1. /\ Total(Leaving(t)) = Total(Leaving(t)') + m.amount
          /\ Locked(t) = Locked(t)' + m.amount
      BY <2>3, <2>5, <2>6
    <3> QED  BY <1>3, <2>1, <2>2, <2>3, <2>4, <2>5, <3>1
  <2>7. CASE l2 # t
    <3>1. Total(Leaving(t)) = Total(Leaving(t)') /\ Locked(t) = Locked(t)'
      BY <2>3, <2>5, <2>7
    <3> QED  BY <2>1, <2>2, <3>1
  <2> QED  BY <2>6, <2>7
<1>10. CASE PayERC20(m)
  <2>1. /\ l1 \in ERC20 /\ deposits[<<l1, l2>>] >= m.amount /\ balance[l1] >= m.amount
        /\ deposits' = [deposits EXCEPT ![<<l1, l2>>] = deposits[<<l1, l2>>] - m.amount]
        /\ balance' = [balance EXCEPT ![l1] = balance[l1] - m.amount]
    BY <1>10 DEF PayERC20
  <2> HIDE DEF l1, l2
  <2>2. <<l1, l2>> \in ERC20 \X L2Token /\ l1 \in L1Asset  BY <1>3, <2>1 DEF L1Asset
  <2>3. deposits \in [ERC20 \X L2Token -> Nat] /\ balance \in [L1Asset -> Nat]  BY DEF TypeOK
  <2>4. /\ deposits[<<l1, l2>>] \in Nat /\ deposits[<<l1, l2>>] - m.amount \in Nat
        /\ balance[l1] \in Nat /\ balance[l1] - m.amount \in Nat
    BY <1>3, <2>1, <2>2, <2>3
  <2>5. deposits' \in [ERC20 \X L2Token -> Nat] /\ balance' \in [L1Asset -> Nat]
    BY <2>1, <2>2, <2>3, <2>4
  <2>6. TypeOK'  BY <1>1, <1>4, <1>5, <1>6, <2>5 DEF TypeOK
  <2>7. Conservation'
    <3>1. ASSUME NEW t \in StandardToken
          PROVE  /\ Locked(t)' \in Nat
                 /\ Locked(t) = Locked(t)' + IF l2 = t THEN m.amount ELSE 0
      <4>1. CASE t = OVM_ETH
        <5>1. l2 # t /\ l1 # Ether  BY <1>7, <2>1, <4>1, BridgeAssumption
        <5>2. Locked(t) = balance[Ether] /\ Locked(t)' = balance'[Ether]
          BY <4>1, BridgeAssumption DEF Locked
        <5>3. balance'[Ether] = balance[Ether] /\ balance[Ether] \in Nat
          BY <2>1, <2>3, <5>1 DEF L1Asset
        <5> QED  BY <5>1, <5>2, <5>3
      <4>2. CASE t # OVM_ETH
        <5> DEFINE q == IF t = Coinbase THEN <<Metis, Coinbase>> ELSE <<l1TokenOf[t], t>>
        <5>1. l2 = t <=> <<l1, l2>> = q  BY <1>7, <4>2
        <5>2. Locked(t) = deposits[q] /\ Locked(t)' = deposits'[q]  BY <4>2 DEF Locked
        <5>3. q \in ERC20 \X L2Token  BY <4>2, BridgeAssumption DEF L2Token
        <5> HIDE DEF q
        <5>4. deposits[q] \in Nat /\ deposits'[q] \in Nat  BY <2>3, <2>5, <5>3
        <5>5. CASE <<l1, l2>> = q
          <6>1. deposits'[q] = deposits[q] - m.amount  BY <2>1, <2>3, <5>3, <5>5
          <6> QED  BY <1>3, <5>1, <5>2, <5>4, <5>5, <6>1
        <5>6. CASE <<l1, l2>> # q
          <6>1. deposits'[q] = deposits[q]  BY <2>1, <2>3, <5>3, <5>6
          <6> QED  BY <5>1, <5>2, <5>4, <5>6, <6>1
        <5> QED  BY <5>5, <5>6
      <4> QED  BY <4>1, <4>2
    <3> QED  BY <1>9, <3>1
  <2>8. BalanceIsDeposits'
    <3>1. /\ \A p \in ERC20 \X L2Token : p # <<l1, l2>> => deposits[p] = deposits'[p]
          /\ deposits'[<<l1, l2>>] = deposits[<<l1, l2>>] - m.amount
      BY <2>1, <2>2, <2>3
    <3>0. /\ l1 \in ERC20 /\ l2 \in L2Token
          /\ deposits \in [ERC20 \X L2Token -> Nat] /\ deposits' \in [ERC20 \X L2Token -> Nat]
      BY <1>3, <2>1, <2>3, <2>5
    <3> HIDE DEF IInv
    <3>2. /\ \A k \in ERC20 : Counted(deposits, k) \in Nat
          /\ Counted(deposits', l1) + deposits[<<l1, l2>>] = Counted(deposits, l1) + deposits'[<<l1, l2>>]
          /\ \A k \in ERC20 \ {l1} : Counted(deposits, k) = Counted(deposits', k)
      BY <3>0, <3>1, CountedChange, ZenonT(30)
    <3>3. \A k \in ERC20 : Counted(deposits', k) \in Nat
      BY <3>0, <3>1, CountedChange, Zenon
    <3>4. Counted(deposits', l1) = Counted(deposits, l1) - m.amount
      <4>1. Counted(deposits', l1) \in Nat /\ Counted(deposits, l1) \in Nat
        BY <3>0, <3>2, <3>3
      <4>2. \A x, y, a, d \in Nat : x + d = y + (d - a) => x = y - a  OBVIOUS
      <4>3. Counted(deposits', l1) + deposits[<<l1, l2>>]
              = Counted(deposits, l1) + (deposits[<<l1, l2>>] - m.amount)
        BY <3>1, <3>2
      <4> QED  BY <1>3, <2>4, <4>1, <4>2, <4>3
    <3>5. \A k \in ERC20 : balance[k] = Counted(deposits, k)  BY BalanceCounted DEF IInv
    <3>6. \A k \in ERC20 : balance'[k] = IF k = l1 THEN balance[k] - m.amount ELSE balance[k]
      BY <2>1, <2>3 DEF L1Asset
    <3>7. \A k \in ERC20 : balance'[k] = Counted(deposits', k)
      BY <3>2, <3>4, <3>5, <3>6
    <3> QED  BY <2>5, <3>7, BalanceAfter
  <2> QED  BY <1>8, <2>6, <2>7, <2>8
<1>11. CASE PayETH(m)
  <2>1. /\ l1 = Ether /\ balance[Ether] >= m.amount /\ deposits' = deposits
        /\ balance' = [balance EXCEPT ![Ether] = balance[Ether] - m.amount]
    BY <1>11 DEF PayETH
  <2>2. l2 = OVM_ETH  BY <1>3, <1>7, <2>1, BridgeAssumption DEF L2Token, L1Asset
  <2> HIDE DEF l1, l2
  <2>3. balance \in [L1Asset -> Nat] /\ Ether \in L1Asset  BY DEF TypeOK, L1Asset
  <2>4. balance[Ether] \in Nat /\ balance[Ether] - m.amount \in Nat  BY <1>3, <2>1, <2>3
  <2>5. balance' \in [L1Asset -> Nat] /\ balance'[Ether] = balance[Ether] - m.amount
    BY <2>1, <2>3, <2>4
  <2>6. TypeOK'  BY <1>1, <1>4, <1>5, <1>6, <2>1, <2>5, SMTT(30) DEF TypeOK
  <2>7. Conservation'
    <3>1. ASSUME NEW t \in StandardToken
          PROVE  /\ Locked(t)' \in Nat
                 /\ Locked(t) = Locked(t)' + IF l2 = t THEN m.amount ELSE 0
      <4>1. CASE t = OVM_ETH
        <5>1. Locked(t) = balance[Ether] /\ Locked(t)' = balance'[Ether]
          BY <4>1, BridgeAssumption DEF Locked
        <5> QED  BY <1>3, <2>2, <2>4, <2>5, <4>1, <5>1
      <4>2. CASE t # OVM_ETH
        <5>1. Locked(t)' = Locked(t)  BY <2>1, <4>2 DEF Locked
        <5>2. Locked(t) \in Nat
          <6>1. Locked(t) = supply[t] + Total(Minting(t)) + Total(Leaving(t))  BY DEF Conservation
          <6>2. supply[t] \in Nat /\ Total(Minting(t)) \in Nat /\ Total(Leaving(t)) \in Nat
            BY UnderWay DEF TypeOK
          <6> QED  BY <6>1, <6>2
        <5> QED  BY <2>2, <4>2, <5>1, <5>2
      <4> QED  BY <4>1, <4>2
    <3> QED  BY <1>9, <3>1
  <2>8. BalanceIsDeposits'
    <3>1. \A k \in ERC20 : balance'[k] = balance[k]
      BY <2>1, <2>3, BridgeAssumption DEF L1Asset
    <3> QED  BY <2>1, <3>1, BalanceCounted, BalanceAfter DEF TypeOK
  <2> QED  BY <1>8, <2>6, <2>7, <2>8
<1> QED  BY <1>10, <1>11 DEF FinalizeWithdrawal

(* Every step of the two bridges keeps the books.                            *)
LEMMA NextIInv == IInv /\ [Next]_vars => IInv'
<1> SUFFICES ASSUME IInv, [Next]_vars PROVE IInv'  OBVIOUS
<1>1. CASE UNCHANGED vars
  <2>1. TypeOK'  BY <1>1, Zenon DEF vars, IInv, TypeOK
  <2>4. Channels'  BY <1>1, Zenon DEF vars, IInv, Channels, ToL1!Elements, ToL2!Elements
  <2>2. Conservation'
    <3>1. \A t \in StandardToken : /\ Locked(t)' = Locked(t) /\ Minting(t)' = Minting(t)
                                    /\ Leaving(t)' = Leaving(t) /\ supply' = supply
      BY <1>1 DEF vars, Locked, Minting, Leaving, ToL1!Elements, ToL2!Elements
    <3>2. \A t \in StandardToken :
             Locked(t)' = supply'[t] + Total(Minting(t)') + Total(Leaving(t)')
      BY <3>1 DEF IInv, Conservation
    <3> QED  BY <3>2 DEF Conservation
  <2>3. BalanceIsDeposits'
    BY <1>1, BalanceCounted, BalanceAfter DEF vars, IInv, TypeOK
  <2> QED  BY <2>1, <2>2, <2>3, <2>4 DEF IInv
<1>2. CASE Next
  BY <1>2, DepositETHIInv, DepositERC20IInv, FinalizeDepositIInv, WithdrawIInv, PayIInv DEF Next
<1> QED  BY <1>1, <1>2

(* Whatever tokens there are and whatever is under way, what L1 keeps for a *)
(* standard token is what L2 has of it and what is between the two.         *)
THEOREM Balanced == Spec => []Conservation
<1>1. IInv => Conservation  BY DEF IInv
<1> QED  BY <1>1, InitIInv, NextIInv, PTL DEF Spec

(* The bridge holds of each ERC20 token what it has counted for all L2      *)
(* tokens together: deposits and withdrawals of one pair never draw on      *)
(* another.                                                                 *)
THEOREM Counts == Spec => []BalanceIsDeposits
<1>1. IInv => BalanceIsDeposits  BY DEF IInv
<1> QED  BY <1>1, InitIInv, NextIInv, PTL DEF Spec

(* A withdrawal of a standard token that is under way can be paid: the      *)
(* checked subtraction and the transfer of finalizeERC20Withdrawal, or the  *)
(* transfer of finalizeETHWithdrawal, find what they take.                  *)
WithdrawalsAreFunded ==
    \A m \in ToL1!Elements(toL1) \ ToL1!Elements(atL1) : m.l2Token \in StandardToken =>
        /\ m.l1Token \in L1Asset /\ balance[m.l1Token] >= m.amount
        /\ m.l1Token # Ether => deposits[<<m.l1Token, m.l2Token>>] >= m.amount

(* finalizeERC20Withdrawal and finalizeETHWithdrawal can pay every           *)
(* withdrawal of a standard token that is under way.                         *)
THEOREM Funded == Spec => []WithdrawalsAreFunded
<1>1. IInv => WithdrawalsAreFunded
  <2> SUFFICES ASSUME IInv, NEW m \in ToL1!Elements(toL1) \ ToL1!Elements(atL1),
                      m.l2Token \in StandardToken
               PROVE  /\ m.l1Token \in L1Asset /\ balance[m.l1Token] >= m.amount
                      /\ m.l1Token # Ether => deposits[<<m.l1Token, m.l2Token>>] >= m.amount
      BY DEF WithdrawalsAreFunded
  <2> USE DEF IInv
  <2> DEFINE l1 == m.l1Token
             l2 == m.l2Token
             ms == Leaving(l2) \ {m}
  <2>1. m \in Messages /\ m.amount \in Nat /\ l2 \in StandardToken
    <3>1. toL1 \in Seq(Messages)  BY DEF TypeOK
    <3>2. m \in Messages  BY <3>1, ElementsOf
    <3> HIDE DEF IInv
    <3> QED  BY <3>2, BridgeAssumption DEF Messages, Amounts
  <2>2. Locked(l2) >= m.amount
    <3>1. m \in Leaving(l2) /\ ms \cup {m} = Leaving(l2) /\ m \notin ms  BY DEF Leaving
    <3>2. ms \in SUBSET Messages /\ IsFiniteSet(ms)  BY <2>1, UnderWay, FS_RemoveElement
    <3>3. supply[l2] \in Nat /\ Total(Minting(l2)) \in Nat  BY <2>1, UnderWay DEF TypeOK
    <3>4. Locked(l2) = supply[l2] + Total(Minting(l2)) + Total(Leaving(l2))
      BY <2>1 DEF Conservation
    <3> HIDE DEF ms, l2, IInv
    <3>5. Total(Leaving(l2)) = Total(ms) + m.amount /\ Total(ms) \in Nat
      BY <2>1, <3>1, <3>2, TotalAdd, TotalType
    <3> QED  BY <2>1, <3>3, <3>4, <3>5
  <2>3. CASE l2 = OVM_ETH
    <3>1. l1 = Ether /\ Ether \in L1Asset  BY <2>3 DEF Channels, L1Asset
    <3>2. Locked(l2) = balance[Ether]  BY <2>3, BridgeAssumption DEF Locked
    <3> QED  BY <2>2, <3>1, <3>2
  <2>4. CASE l2 # OVM_ETH
    <3>1. l1 = IF l2 = Coinbase THEN Metis ELSE l1TokenOf[l2]  BY <2>1, <2>4 DEF Channels
    <3>2. l1 \in ERC20 /\ l1 \in L1Asset /\ l2 \in L2Token
      BY <2>1, <2>4, <3>1, BridgeAssumption DEF L1Asset, L2Token
    <3>3. Locked(l2) = deposits[<<l1, l2>>]  BY <2>4, <3>1 DEF Locked
    <3>4. balance[l1] >= deposits[<<l1, l2>>]
      <4> DEFINE f == [x \in L2Token |-> deposits[<<l1, x>>]]
      <4>1. \A x \in L2Token : f[x] \in Nat  BY <3>2 DEF TypeOK
      <4>2. f[l2] = deposits[<<l1, l2>>]  BY <3>2
      <4>3. balance[l1] = SumOf(L2Token, f)  BY <3>2, BalanceCounted, CountedIsSum
      <4> HIDE DEF f, l1, l2
      <4>4. IsFiniteSet(L2Token) /\ IsFiniteSet(L2Token \ {l2})
        BY BridgeAssumption, FS_RemoveElement
      <4>5. SumOf(L2Token, f) = SumOf(L2Token \ {l2}, f) + f[l2]  BY <3>2, <4>1, <4>4, SumAdd
      <4>6. SumOf(L2Token \ {l2}, f) \in Nat  BY <4>1, <4>4, SumType
      <4> QED  BY <3>2, <4>1, <4>2, <4>3, <4>5, <4>6
    <3>5. balance[l1] \in Nat /\ deposits[<<l1, l2>>] \in Nat  BY <3>2 DEF TypeOK
    <3> HIDE DEF l1, l2, IInv
    <3> QED  BY <2>1, <2>2, <3>2, <3>3, <3>4, <3>5 DEF l1, l2
  <2> QED  BY <2>3, <2>4
<1> QED  BY <1>1, InitIInv, NextIInv, PTL DEF Spec
=============================================================================
