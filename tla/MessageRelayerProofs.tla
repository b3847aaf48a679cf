------------------------ MODULE MessageRelayerProofs ------------------------
(***************************************************************************)
(* The message relayer stands at a batch and skips no message, for every   *)
(* number of transactions, size of batch, window, interval of the queries, *)
(* number of failures and of crashes.                                      *)
(***************************************************************************)
EXTENDS MessageRelayer, SequenceTheorems, WellFoundedInduction, TLAPS

-----------------------------------------------------------------------------
(* Numbers and sequences. *)

(* A set of natural numbers has a least element.                             *)
LEMMA LeastNatural ==
    ASSUME NEW T \in SUBSET Nat, T # {}
    PROVE  \E x \in T : \A y \in T : x <= y
<1> DEFINE R == {ss \in Nat \X Nat : ss[1] < ss[2]}
<1>1. IsWellFoundedOn(R, Nat)  BY NatLessThanWellFounded DEF OpToRel
<1>2. \A x, y \in Nat : ~(<<y, x>> \in R) => x <= y  OBVIOUS
<1> HIDE DEF R
<1>3. \E x \in T : \A y \in T : ~(<<y, x>> \in R)  BY <1>1, WFMin, Zenon
<1> QED  BY <1>2, <1>3, Zenon

(* What holds at zero and is kept by every step up to N holds at every       *)
(* number up to N.                                                           *)
LEMMA Climb ==
    ASSUME NEW N \in Nat, NEW G \in SUBSET Nat, 0 \in G,
           \A n \in 1..N : n - 1 \in G => n \in G
    PROVE  \A n \in 0..N : n \in G
<1> DEFINE T == {n \in 0..N : n \notin G}
<1> SUFFICES ASSUME T # {} PROVE FALSE  OBVIOUS
<1>0. T \in SUBSET Nat  OBVIOUS
<1>1. PICK m \in T : \A k \in T : m <= k
  <2> HIDE DEF T
  <2> QED  BY <1>0, LeastNatural
<1>2. m \in 1..N  BY <1>1
<1>3. m - 1 \in 0..N /\ m - 1 \notin T  BY <1>1, <1>2
<1> QED  BY <1>1, <1>2, <1>3

(* The minimum of a set of numbers, which is how the relayer finds the first *)
(* event.                                                                    *)
LEMMA MinOf ==
    ASSUME NEW S \in SUBSET Nat, S # {}
    PROVE  Min(S) \in S
<1>1. PICK k \in S : \A n \in S : k <= n  BY LeastNatural
<1> QED  BY <1>1, Zenon DEF Min

(* A sequence that grows keeps its elements.                                 *)
LEMMA AppendRange ==
    ASSUME NEW c \in Seq(Nat), NEW x \in Nat
    PROVE  Append(c, x) \in Seq(Nat) /\ Range(Append(c, x)) = Range(c) \cup {x}
<1> DEFINE d == Append(c, x)
<1>1. /\ d \in Seq(Nat) /\ Len(c) \in Nat /\ DOMAIN c = 1..Len(c) /\ DOMAIN d = 1..(Len(c) + 1)
      /\ \A i \in 1..Len(c) : d[i] = c[i]
      /\ d[Len(c) + 1] = x
  BY AppendProperties, LenProperties
<1> HIDE DEF d
<1>2. Range(d) \subseteq Range(c) \cup {x}
  <2> SUFFICES ASSUME NEW i \in 1..(Len(c) + 1) PROVE d[i] \in Range(c) \cup {x}  BY <1>1 DEF Range
  <2>1. i \in 1..Len(c) \/ i = Len(c) + 1  BY <1>1
  <2> QED  BY <1>1, <2>1 DEF Range
<1>3. ASSUME NEW i \in 1..Len(c) PROVE c[i] \in Range(d)
  <2>1. i \in DOMAIN d /\ d[i] = c[i]  BY <1>1
  <2> QED  BY <2>1, Zenon DEF Range
<1>4. x \in Range(d)
  <2>1. Len(c) + 1 \in DOMAIN d  BY <1>1
  <2> QED  BY <1>1, <2>1, Zenon DEF Range
<1>5. Range(c) \subseteq Range(d)  BY <1>1, <1>3, Zenon DEF Range
<1> QED  BY <1>1, <1>2, <1>4, <1>5 DEF d

\* What makes f the function of which Among is the last value.
Kept(f, s, T) ==
    f = [n \in 0..Len(s) |-> IF n = 0 THEN <<>>
                             ELSE IF s[n] \in T THEN Append(f[n - 1], s[n]) ELSE f[n - 1]]

(* The function by which Among is defined exists.                            *)
LEMMA KeptExists ==
    ASSUME NEW s \in Seq(Nat), NEW T
    PROVE  \E f : Kept(f, s, T)
<1> DEFINE OneMore(c, n) == IF s[n] \in T THEN Append(c, s[n]) ELSE c
           Upto(f, m) == f = [n \in 0..m |-> IF n = 0 THEN <<>> ELSE OneMore(f[n - 1], n)]
           G == {m \in Nat : \E f : Upto(f, m)}
<1>1. 0 \in G
  <2>1. Upto([n \in 0..0 |-> <<>>], 0)  OBVIOUS
  <2> QED  BY <2>1, Zenon
<1>2. ASSUME NEW m \in 1..Len(s), m - 1 \in G PROVE m \in G
  <2>1. m \in Nat /\ m # 0 /\ m - 1 \in Nat  BY LenProperties
  <2>2. PICK f : Upto(f, m - 1)  BY <1>2, Zenon
  <2> HIDE DEF OneMore
  <2> DEFINE g == [n \in 0..m |-> IF n = m THEN OneMore(f[m - 1], m) ELSE f[n]]
  <2>5. ASSUME NEW n \in 0..m PROVE g[n] = IF n = 0 THEN <<>> ELSE OneMore(g[n - 1], n)
    <3>1. CASE n = m
      <4>1. m - 1 \in 0..m /\ m - 1 # m  BY <2>1
      <4> QED  BY <2>1, <3>1, <4>1, Zenon
    <3>2. CASE n # m
      <4>1. n \in 0..(m - 1) /\ (n # 0 => n - 1 \in 0..(m - 1) /\ n - 1 \in 0..m /\ n - 1 # m)
        BY <2>1, <3>2
      <4>2. f[n] = IF n = 0 THEN <<>> ELSE OneMore(f[n - 1], n)  BY <2>2, <4>1, Zenon
      <4> QED  BY <3>2, <4>1, <4>2, Zenon
    <3> QED  BY <3>1, <3>2
  <2>6. Upto(g, m)  BY <2>5, Zenon
  <2> HIDE DEF g, Upto
  <2> QED  BY <2>1, <2>6
<1>3. \A n \in 0..Len(s) : n \in G
  <2> HIDE DEF Upto
  <2>1. G \in SUBSET Nat  OBVIOUS
  <2> HIDE DEF G
  <2> QED  BY <1>1, <1>2, <2>1, Climb, LenProperties, Zenon
<1>4. Len(s) \in G
  <2> HIDE DEF G
  <2> QED  BY <1>3, LenProperties
<1> QED  BY <1>4, Zenon DEF Kept

(* Among returns the elements of the sequence that are in the set.           *)
LEMMA AmongRange ==
    ASSUME NEW s \in Seq(Nat), NEW T
    PROVE  Among(s, T) \in Seq(Nat) /\ Range(Among(s, T)) = Range(s) \cap T
<1> PICK f : f = CHOOSE u : Kept(u, s, T)  OBVIOUS
<1>1. Kept(f, s, T)  BY KeptExists
<1>2. Among(s, T) = f[Len(s)]  BY DEF Among, Kept
<1> DEFINE N == Len(s)
           G == {n \in 0..N : f[n] \in Seq(Nat) /\ Range(f[n]) = {s[i] : i \in 1..n} \cap T}
<1>3. N \in Nat /\ DOMAIN s = 1..N /\ \A n \in 1..N : s[n] \in Nat  BY LenProperties, ElementOfSeq
<1>4. 0 \in G
  <2>1. 0 \in 0..N  BY <1>3
  <2>2. f[0] = <<>>  BY <1>1, <2>1, Zenon DEF Kept
  <2>3. <<>> \in Seq(Nat) /\ DOMAIN <<>> = {} /\ 1..0 = {}  BY EmptySeq
  <2>4. Range(<<>>) = {}  BY <2>3, Zenon DEF Range
  <2>5. {s[i] : i \in 1..0} = {}  BY <2>3, Zenon
  <2> QED  BY <2>1, <2>2, <2>3, <2>4, <2>5, Zenon
<1>5. ASSUME NEW n \in 1..N, n - 1 \in G PROVE n \in G
  <2>1. n \in 0..N /\ n # 0 /\ n - 1 \in 0..N /\ s[n] \in Nat  BY <1>3
  <2>2. f[n] = IF s[n] \in T THEN Append(f[n - 1], s[n]) ELSE f[n - 1]  BY <1>1, <2>1, Zenon DEF Kept
  <2>3. {s[i] : i \in 1..n} = {s[i] : i \in 1..(n - 1)} \cup {s[n]}
    <3>1. 1..n = 1..(n - 1) \cup {n}  BY <2>1
    <3> QED  BY <3>1, Zenon
  <2>4. f[n - 1] \in Seq(Nat) /\ Range(f[n - 1]) = {s[i] : i \in 1..(n - 1)} \cap T  BY <1>5
  <2>5. CASE s[n] \in T
    <3>1. f[n] = Append(f[n - 1], s[n])  BY <2>2, <2>5, Zenon
    <3>2. f[n] \in Seq(Nat) /\ Range(f[n]) = Range(f[n - 1]) \cup {s[n]}
      <4>1. PICK c \in Seq(Nat) : c = f[n - 1]  BY <2>4, Zenon
      <4>2. Append(c, s[n]) \in Seq(Nat) /\ Range(Append(c, s[n])) = Range(c) \cup {s[n]}
        BY <2>1, AppendRange
      <4> QED  BY <3>1, <4>1, <4>2, Zenon
    <3> QED  BY <2>1, <2>3, <2>4, <2>5, <3>1, <3>2, Zenon
  <2>6. CASE s[n] \notin T
    <3>1. f[n] = f[n - 1]  BY <2>2, <2>6
    <3>2. {s[i] : i \in 1..n} \cap T = {s[i] : i \in 1..(n - 1)} \cap T  BY <2>3, <2>6
    <3> QED  BY <2>1, <2>4, <3>1, <3>2, Zenon
  <2> QED  BY <2>5, <2>6, Zenon
<1>6. N \in G
  <2>1. G \in SUBSET Nat  BY <1>3
  <2> HIDE DEF G
  <2>2. \A n \in 0..N : n \in G  BY <1>3, <1>4, <1>5, <2>1, Climb, Zenon
  <2> QED  BY <1>3, <2>2
<1> QED  BY <1>2, <1>3, <1>6, Zenon DEF Range

(* Ascending lists the numbers of the set below the bound.                   *)
LEMMA AscendingRange ==
    ASSUME NEW bound \in Nat, NEW T \in SUBSET (0..(bound - 1))
    PROVE  Ascending(T, bound) \in Seq(Nat) /\ Range(Ascending(T, bound)) = T
<1> DEFINE s == [n \in 1..bound |-> n - 1]
<1>1. s \in Seq(Nat)  OBVIOUS
<1>2. T \subseteq Range(s)
  <2> SUFFICES ASSUME NEW t \in T PROVE \E n \in 1..bound : s[n] = t  BY DEF Range
  <2>1. t + 1 \in 1..bound /\ s[t + 1] = t  OBVIOUS
  <2> QED  BY <2>1
<1>3. Ascending(T, bound) = Among(s, T)  BY DEF Ascending
<1> HIDE DEF s
<1> QED  BY <1>1, <1>2, <1>3, AmongRange, Zenon
-----------------------------------------------------------------------------
(* The inductive invariant.  It speaks of the histories without a deletion,  *)
(* which is what the two theorems are about.                                 *)

Event == [batchIndex : Nat, prev : Nat, size : Nat, at : Nat]
Relay == [message : Messages, event : Nat]

\* A height between two batches, or at the end of the last one.
Border(height) == height = Total \/ \E e \in DOMAIN log : log[e].prev = height

\* The height below which the service is done: the end of the last round, or the start of the one
\* that runs.
Passed == IF pc \in {"poll", "save"} THEN nextUnfinalizedTxHeight ELSE lastFinalizedTxHeight

\* The chain is the whole log, and its batches follow each other without a gap.
LogInv ==
    /\ now \in Nat /\ log \in Seq(Event) /\ live = [i \in 1..Len(log) |-> i]
    /\ Total \in Nat
    /\ \A e \in DOMAIN log : log[e].size > 0 /\ End(e) <= Total /\ Border(End(e))
    /\ \A e, f \in DOMAIN log : e < f => End(e) <= log[f].prev

\* The heights are at borders of batches and in order.
HeightInv ==
    /\ store \in Nat /\ lastFinalizedTxHeight \in Nat /\ nextUnfinalizedTxHeight \in Nat
    /\ store <= lastFinalizedTxHeight /\ lastFinalizedTxHeight <= nextUnfinalizedTxHeight
    /\ Border(store) /\ Border(lastFinalizedTxHeight) /\ Border(nextUnfinalizedTxHeight)

\* Some event of the cache covers a height.
Cached(height) == \E e \in Range(eventCache) : Covers(e, height)

\* The cache has the events of the batches of the round, and of the next one when it is taken.
CacheInv ==
    /\ eventCache \in Seq(Nat) /\ Range(eventCache) \subseteq DOMAIN log
    /\ pc \notin {"poll", "save"} =>
         \A height \in Nat : lastFinalizedTxHeight <= height /\ height < nextUnfinalizedTxHeight
                               => Cached(height)
    /\ pc = "size" => Cached(nextUnfinalizedTxHeight)

Idle == {"poll", "save", "scan", "size", "fetch"}
Attempt == {"dry", "dryAgain", "send", "sendAgain"} \cup Waiting
Inside == Attempt \cup {"message", "proof"}

\* The header found covers the height that was wanted, and one that the round needs is found.
FindInv ==
    /\ step \in {"start", "read", "done"}
    /\ step # "start" => pc \in Lookups
    /\ step = "done" /\ header # 0 => header \in Range(eventCache) /\ Covers(header, Wanted)
    /\ step = "done" /\ pc \in {"size", "proof"} => header # 0
    /\ pc \in Attempt => header \in DOMAIN log

\* The messages of a round are of its transactions.
RoundInv ==
    /\ pc \in Idle \cup Inside \cup {"finish"}
    /\ todo \in Seq(Messages)
    /\ \A m \in Range(todo) : lastFinalizedTxHeight <= m /\ m < nextUnfinalizedTxHeight
    /\ pc \in Inside <=> todo # <<>>

\* The service waits for the last of its transactions, or has its receipt.
WaitInv ==
    /\ pending \in Seq(Relay)
    /\ pc \notin Waiting => receipt = "none"
    /\ pc \in Waiting =>
         \/ receipt = "none" /\ pending # <<>> /\ pending[Len(pending)].message = Head(todo)
         \/ receipt = "ok" /\ pending = <<>> /\ Head(todo) \in Dealt
         \/ receipt = "reverted" /\ pending = <<>>

\* Unless a call has failed in a round, the messages passed are dealt with, and those of the round
\* are or wait in todo.
DealtInv ==
    ~broken =>
        \A m \in Messages :
            /\ m < Passed => m \in Dealt
            /\ pc \notin Idle /\ m < nextUnfinalizedTxHeight => m \in Range(todo) \/ m \in Dealt

RelayInv ==
    LogInv /\ HeightInv /\ CacheInv /\ FindInv /\ RoundInv /\ WaitInv /\ DealtInv

IInv == deletions \in Nat /\ (deletions = 0 => RelayInv)
-----------------------------------------------------------------------------
(* The log and the cache. *)

(* The events of the log are typed.                                          *)
LEMMA Events ==
    ASSUME LogInv
    PROVE  /\ Len(log) \in Nat /\ DOMAIN log = 1..Len(log)
           /\ \A e \in DOMAIN log :
                /\ e \in Nat /\ e # 0 /\ log[e] \in Event
                /\ log[e].batchIndex \in Nat /\ log[e].prev \in Nat /\ log[e].size \in Nat
                /\ End(e) \in Nat
<1>1. Len(log) \in Nat /\ DOMAIN log = 1..Len(log) /\ \A e \in DOMAIN log : log[e] \in Event
  BY LenProperties, ElementOfSeq DEF LogInv
<1>2. \A x \in Event : x.batchIndex \in Nat /\ x.prev \in Nat /\ x.size \in Nat
  BY DEF Event
<1>3. \A e \in DOMAIN log : End(e) = log[e].prev + log[e].size  BY DEF End
<1>4. \A e \in DOMAIN log : e \in Nat /\ e # 0  BY <1>1
<1>5. \A e \in DOMAIN log : End(e) \in Nat  BY <1>1, <1>2, <1>3
<1> QED  BY <1>1, <1>2, <1>4, <1>5

(* The first event in a cache that covers a height, if one does.             *)
LEMMA First ==
    ASSUME NEW c \in Seq(Nat), 0 \notin Range(c), NEW height
    PROVE  /\ FirstIn(c, height) # 0
                => FirstIn(c, height) \in Range(c) /\ Covers(FirstIn(c, height), height)
           /\ FirstIn(c, height) = 0 => \A e \in Range(c) : ~Covers(e, height)
<1> DEFINE at == {i \in DOMAIN c : Covers(c[i], height)}
<1>1. FirstIn(c, height) = IF at = {} THEN 0 ELSE c[Min(at)]  BY Zenon DEF FirstIn
<1>2. CASE at = {}
  <2>1. \A e \in Range(c) : ~Covers(e, height)  BY <1>2, Zenon DEF Range
  <2> QED  BY <1>1, <1>2, <2>1
<1>3. CASE at # {}
  <2>1. at \in SUBSET Nat
    <3>1. DOMAIN c \subseteq Nat  BY LenProperties
    <3> QED  BY <3>1
  <2> PICK i : i = Min(at)  BY Zenon
  <2>2. i \in at
    <3> HIDE DEF at
    <3> QED  BY <1>3, <2>1, MinOf
  <2>3. c[i] \in Range(c) /\ Covers(c[i], height)  BY <2>2, Zenon DEF Range
  <2>4. FirstIn(c, height) = c[i]  BY <1>1, <1>3, Zenon
  <2> QED  BY <2>3, <2>4
<1> QED  BY <1>2, <1>3

(* A batch that covers a border starts there.                                *)
LEMMA StartsAt ==
    ASSUME LogInv, NEW height \in Nat, Border(height), NEW e \in DOMAIN log, Covers(e, height)
    PROVE  log[e].prev = height /\ Border(End(e)) /\ End(e) \in Nat
<1>1. height < End(e) /\ log[e].prev <= height /\ End(e) <= Total /\ Border(End(e))
  BY DEF Covers, LogInv
<1>2. /\ Total \in Nat
      /\ \A f \in DOMAIN log : f \in Nat /\ log[f].prev \in Nat /\ End(f) \in Nat /\ log[f].prev < End(f)
  BY Events DEF LogInv, End
<1>3. PICK f \in DOMAIN log : log[f].prev = height  BY <1>1, <1>2 DEF Border
<1>4. ~(e < f)  BY <1>1, <1>2, <1>3 DEF LogInv
<1>5. ~(f < e)
  <2>1. f < e => End(f) <= log[e].prev  BY DEF LogInv
  <2> QED  BY <1>1, <1>2, <1>3, <2>1
<1>6. e = f  BY <1>2, <1>4, <1>5
<1> QED  BY <1>1, <1>2, <1>3, <1>6

(* A step of the service leaves the log alone.                               *)
LEMMA SameLog ==
    ASSUME LogInv, UNCHANGED l1Vars
    PROVE  /\ LogInv' /\ Total' = Total
           /\ now' = now /\ log' = log /\ live' = live /\ deletions' = deletions
           /\ \A x : Border(x)' <=> Border(x)
           /\ \A e : End(e)' = End(e)
           /\ \A e, x : Covers(e, x)' <=> Covers(e, x)
<1>1. now' = now /\ log' = log /\ live' = live /\ deletions' = deletions  BY DEF l1Vars
<1>2. \A e : End(e)' = End(e)  BY <1>1 DEF End
<1>3. Total' = Total  BY <1>1, <1>2 DEF Total
<1>4. \A x : Border(x)' <=> Border(x)  BY <1>1, <1>3 DEF Border
<1>5. \A e, x : Covers(e, x)' <=> Covers(e, x)  BY <1>1, <1>2 DEF Covers
<1>6. LogInv'  BY <1>1, <1>2, <1>3, <1>4, <1>5 DEF LogInv
<1> QED  BY <1>1, <1>2, <1>3, <1>4, <1>5, <1>6

(* The elements of a sequence are its head and those of its tail.            *)
LEMMA TailRange ==
    ASSUME NEW S, NEW s \in Seq(S), s # <<>>
    PROVE  /\ Tail(s) \in Seq(S) /\ Head(s) \in S /\ Head(s) \in Range(s)
           /\ Range(s) = Range(Tail(s)) \cup {Head(s)}
<1> DEFINE t == Tail(s)
<1>1. /\ t \in Seq(S) /\ Head(s) \in S /\ Len(t) = Len(s) - 1 /\ Head(s) = s[1]
      /\ \A i \in 1..Len(t) : t[i] = s[i + 1]
  BY HeadTailProperties
<1>2. Len(s) \in Nat \ {0} /\ DOMAIN s = 1..Len(s) /\ DOMAIN t = 1..Len(t)
  BY <1>1, EmptySeq, LenProperties
<1> HIDE DEF t
<1>3. Head(s) \in Range(s)
  <2>1. 1 \in DOMAIN s  BY <1>2
  <2> QED  BY <1>1, <2>1, Zenon DEF Range
<1>4. ASSUME NEW i \in DOMAIN s PROVE s[i] \in Range(t) \cup {Head(s)}
  <2>1. CASE i = 1  BY <1>1, <2>1
  <2>2. CASE i # 1
    <3>1. i - 1 \in 1..Len(t) /\ (i - 1) + 1 = i  BY <1>1, <1>2, <2>2
    <3>2. t[i - 1] = s[i]  BY <1>1, <3>1
    <3> QED  BY <1>2, <3>1, <3>2 DEF Range
  <2> QED  BY <2>1, <2>2
<1>5. ASSUME NEW i \in DOMAIN t PROVE t[i] \in Range(s)
  <2>1. i + 1 \in DOMAIN s /\ t[i] = s[i + 1]  BY <1>1, <1>2
  <2> QED  BY <2>1, Zenon DEF Range
<1>6. Range(s) \subseteq Range(t) \cup {Head(s)}  BY <1>4, Zenon DEF Range
<1>7. Range(t) \subseteq Range(s)  BY <1>5, Zenon DEF Range
<1> QED  BY <1>1, <1>3, <1>6, <1>7 DEF t

(* The invariant gives the heights and the messages their types.             *)
LEMMA Heights ==
    ASSUME RelayInv
    PROVE  /\ lastFinalizedTxHeight \in Nat /\ nextUnfinalizedTxHeight \in Nat /\ store \in Nat
           /\ Passed \in Nat /\ store <= Passed /\ lastFinalizedTxHeight <= Passed
           /\ Passed <= nextUnfinalizedTxHeight
           /\ MaxElements \in Nat /\ \A m \in Messages : m \in Nat /\ m < MaxElements
<1>1. MaxElements \in Nat /\ Messages \subseteq 0..(MaxElements - 1)
  BY MessageRelayerAssumption, Zenon
<1>2. \A m \in Messages : m \in Nat /\ m < MaxElements  BY <1>1
<1> QED  BY <1>1, <1>2 DEF RelayInv, HeightInv, Passed

(* An empty sequence has no elements.                                        *)
LEMMA NoElements == Range(<<>>) = {}
<1>1. DOMAIN <<>> = {}  OBVIOUS
<1> QED  BY <1>1, Zenon DEF Range

(* A cache that only grows keeps what it covers.                             *)
LEMMA StillCached ==
    ASSUME LogInv, UNCHANGED l1Vars, Range(eventCache) \subseteq Range(eventCache')
    PROVE  \A x : Cached(x) => Cached(x)'
<1>1. \A e, x : Covers(e, x) => Covers(e, x)'  BY SameLog
<1> QED  BY <1>1 DEF Cached
-----------------------------------------------------------------------------
(* Looking for a header. *)

(* A step that looks for a header leaves the round alone, and finds what the *)
(* round needs: its batches are in the cache.                                *)
LEMMA Finding ==
    ASSUME RelayInv, UNCHANGED l1Vars, UNCHANGED relayVars,
           UNCHANGED <<pc, heights, workVars, store, given, broken>>,
           pc \in Lookups,
           eventCache' \in Seq(Nat), Range(eventCache') \subseteq DOMAIN log,
           Range(eventCache) \subseteq Range(eventCache'),
           step' = "read" \/ (step' = "done" /\ header' = FirstIn(eventCache', Wanted))
    PROVE  RelayInv'
<1>1. /\ pc' = pc /\ lastFinalizedTxHeight' = lastFinalizedTxHeight
      /\ nextUnfinalizedTxHeight' = nextUnfinalizedTxHeight /\ todo' = todo /\ seen' = seen
      /\ store' = store /\ given' = given /\ broken' = broken
      /\ successful' = successful /\ failed' = failed /\ pending' = pending /\ receipt' = receipt
  BY DEF heights, workVars, relayVars
<1>2. /\ LogInv' /\ log' = log /\ (\A x : Border(x)' <=> Border(x))
      /\ (\A e, x : Covers(e, x)' <=> Covers(e, x))
  BY SameLog DEF RelayInv
<1>3. HeightInv'  BY <1>1, <1>2 DEF RelayInv, HeightInv
<1>4. \A x : Cached(x) => Cached(x)'  BY StillCached DEF RelayInv
<1>5. CacheInv'  BY <1>1, <1>2, <1>4 DEF RelayInv, CacheInv
<1>6. Wanted' = Wanted  BY <1>1 DEF Wanted
<1>7. ASSUME step' = "done"
      PROVE  /\ header' # 0 => header' \in Range(eventCache') /\ Covers(header', Wanted)
             /\ pc \in {"size", "proof"} => header' # 0
  <2>1. header' = FirstIn(eventCache', Wanted)  BY <1>7
  <2>2. 0 \notin Range(eventCache')  BY Events DEF RelayInv
  <2>3. /\ header' # 0 => header' \in Range(eventCache') /\ Covers(header', Wanted)
        /\ header' = 0 => \A e \in Range(eventCache') : ~Covers(e, Wanted)
    BY <2>1, <2>2, First
  <2>4. pc \in {"size", "proof"} => Cached(Wanted)
    <3>1. CASE pc = "size"  BY <3>1 DEF Wanted, RelayInv, CacheInv
    <3>2. CASE pc = "proof"
      <4>1. todo \in Seq(Messages) /\ todo # <<>>  BY <3>2 DEF RelayInv, RoundInv, Inside
      <4>2. Head(todo) \in Messages /\ Head(todo) \in Range(todo)  BY <4>1, TailRange
      <4>3. Head(todo) \in Nat  BY <4>2, Heights
      <4>4. Cached(Head(todo))  BY <3>2, <4>2, <4>3 DEF RelayInv, CacheInv, RoundInv
      <4> QED  BY <3>2, <4>4 DEF Wanted
    <3> QED  BY <3>1, <3>2
  <2>5. Cached(Wanted) => header' # 0  BY <2>3 DEF Cached
  <2> QED  BY <2>3, <2>4, <2>5
<1>8. FindInv'
  <2>1. pc' \notin Attempt  BY <1>1 DEF Lookups, Attempt, Waiting
  <2> QED  BY <1>1, <1>2, <1>6, <1>7, <2>1 DEF FindInv
<1>9. Dealt' = Dealt /\ Passed' = Passed  BY <1>1 DEF Dealt, Passed
<1>10. RoundInv'  BY <1>1 DEF RelayInv, RoundInv
<1>11. WaitInv'  BY <1>1, <1>9 DEF RelayInv, WaitInv
<1>12. DealtInv'  BY <1>1, <1>9 DEF RelayInv, DealtInv
<1> QED  BY <1>2, <1>3, <1>5, <1>8, <1>10, <1>11, <1>12 DEF RelayInv

(* Without a new block the cache answers.                                    *)
LEMMA GetBlockNumberStep ==
    ASSUME RelayInv, GetBlockNumber
    PROVE  RelayInv'
<1>1. /\ pc \in Lookups /\ UNCHANGED l1Vars /\ UNCHANGED relayVars
      /\ UNCHANGED <<pc, heights, workVars, store, given, broken>>
      /\ eventCache' = eventCache
      /\ step' = "read" \/ (step' = "done" /\ header' = FirstIn(eventCache, Wanted))
  BY DEF GetBlockNumber, cacheVars
<1>2. eventCache \in Seq(Nat) /\ Range(eventCache) \subseteq DOMAIN log  BY DEF RelayInv, CacheInv
<1> QED  BY <1>1, <1>2, Finding

(* A query adds events of the log to the cache.                              *)
LEMMA QueryFilterStep ==
    ASSUME RelayInv, QueryFilter
    PROVE  RelayInv'
<1> DEFINE added == Ascending(Unread, Len(log) + 1)
<1>1. /\ step = "read" /\ UNCHANGED l1Vars /\ UNCHANGED relayVars
      /\ UNCHANGED <<pc, heights, workVars, store, given, broken>>
      /\ eventCache' = eventCache \o added
  BY Zenon DEF QueryFilter
<1>2. step' = "read" \/ (step' = "done" /\ header' = FirstIn(eventCache', Wanted))
  <2> PICK found : found = FirstIn(eventCache', Wanted)  BY Zenon
  <2> QED  BY <1>1 DEF QueryFilter, findVars
<1>3. eventCache \in Seq(Nat) /\ Range(eventCache) \subseteq DOMAIN log  BY DEF RelayInv, CacheInv
<1>4. Len(log) + 1 \in Nat /\ Unread \subseteq DOMAIN log /\ Unread \in SUBSET (0..((Len(log) + 1) - 1))
  <2>1. Unread \subseteq DOMAIN log  BY DEF Unread
  <2>2. Len(log) \in Nat /\ DOMAIN log = 1..Len(log)  BY Events DEF RelayInv
  <2> QED  BY <2>1, <2>2
<1>5. added \in Seq(Nat) /\ Range(added) = Unread  BY <1>4, AscendingRange
<1> HIDE DEF added
<1>6. eventCache' \in Seq(Nat)  BY <1>1, <1>3, <1>5, ConcatProperties
<1>7. Range(eventCache') = Range(eventCache) \cup Unread  BY <1>1, <1>3, <1>5, RangeConcatenation
<1>8. pc \in Lookups  BY <1>1 DEF RelayInv, FindInv
<1> QED  BY <1>1, <1>2, <1>3, <1>4, <1>6, <1>7, <1>8, Finding
-----------------------------------------------------------------------------
(* The start of a round. *)

(* A round begins where the last one ended.                                  *)
LEMMA Begin ==
    ASSUME RelayInv, UNCHANGED l1Vars, UNCHANGED cacheVars, UNCHANGED workVars, UNCHANGED relayVars,
           UNCHANGED <<nextUnfinalizedTxHeight, given, broken>>,
           pc \in {"poll", "save"}, step' = "start",
           store' \in {store, nextUnfinalizedTxHeight},
           \/ pc' \in {"poll", "save"} /\ lastFinalizedTxHeight' = lastFinalizedTxHeight /\ store' = store
           \/ pc' = "scan" /\ lastFinalizedTxHeight' = nextUnfinalizedTxHeight
    PROVE  RelayInv'
<1>1. /\ nextUnfinalizedTxHeight' = nextUnfinalizedTxHeight /\ todo' = todo /\ seen' = seen
      /\ eventCache' = eventCache /\ given' = given /\ broken' = broken
      /\ successful' = successful /\ failed' = failed /\ pending' = pending /\ receipt' = receipt
  BY DEF cacheVars, workVars, relayVars
<1>2. /\ LogInv' /\ log' = log /\ (\A x : Border(x)' <=> Border(x))
  BY SameLog DEF RelayInv
<1>3. /\ lastFinalizedTxHeight \in Nat /\ nextUnfinalizedTxHeight \in Nat /\ store \in Nat
      /\ lastFinalizedTxHeight <= nextUnfinalizedTxHeight /\ store <= lastFinalizedTxHeight
  BY DEF RelayInv, HeightInv
<1>4. HeightInv'  BY <1>1, <1>2, <1>3 DEF RelayInv, HeightInv
<1>5. Passed = nextUnfinalizedTxHeight /\ Passed' = Passed /\ Dealt' = Dealt
  BY <1>1 DEF Passed, Dealt
<1>6. pc \in Idle /\ pc' \in Idle /\ pc' \notin Inside /\ pc' \notin Attempt /\ pc' \notin Waiting
      /\ pc \notin Inside /\ pc \notin Waiting
  BY DEF Idle, Inside, Attempt, Waiting
<1>7. CacheInv'  BY <1>1, <1>2, <1>3 DEF RelayInv, CacheInv
<1>8. FindInv'  BY <1>6 DEF FindInv
<1>9. todo = <<>>  BY <1>6 DEF RelayInv, RoundInv
<1>10. RoundInv'  BY <1>1, <1>6, <1>9, NoElements DEF RelayInv, RoundInv
<1>11. WaitInv'  BY <1>1, <1>6 DEF RelayInv, WaitInv
<1>12. DealtInv'  BY <1>1, <1>5, <1>6 DEF RelayInv, DealtInv
<1> QED  BY <1>2, <1>4, <1>7, <1>8, <1>10, <1>11, <1>12 DEF RelayInv

(* A finalized transaction is found, or not.                                 *)
LEMMA PollStep ==
    ASSUME RelayInv, Poll
    PROVE  RelayInv'
<1>1. /\ pc = "poll" /\ step' = "start" /\ store' = store
      /\ UNCHANGED l1Vars /\ UNCHANGED cacheVars /\ UNCHANGED workVars /\ UNCHANGED relayVars
      /\ UNCHANGED <<nextUnfinalizedTxHeight, given, broken>>
      /\ \/ pc' \in {"poll", "save"} /\ lastFinalizedTxHeight' = lastFinalizedTxHeight
         \/ pc' = "scan" /\ lastFinalizedTxHeight' = nextUnfinalizedTxHeight
  BY DEF Poll, Done
<1> QED  BY <1>1, Begin

(* The height that is stored is the one at which the round starts.           *)
LEMMA SaveStep ==
    ASSUME RelayInv, Save
    PROVE  RelayInv'
<1>1. /\ pc = "save" /\ pc' = "scan" /\ lastFinalizedTxHeight' = nextUnfinalizedTxHeight
      /\ store' \in {store, nextUnfinalizedTxHeight} /\ step' = step
      /\ UNCHANGED l1Vars /\ UNCHANGED cacheVars /\ UNCHANGED workVars /\ UNCHANGED relayVars
      /\ UNCHANGED <<nextUnfinalizedTxHeight, given, broken>>
  BY DEF Save, findVars
<1>2. step' = "start"  BY <1>1 DEF RelayInv, FindInv, Lookups
<1> QED  BY <1>1, <1>2, Begin

(* The batch that is taken next is in the cache.                             *)
LEMMA ScanStep ==
    ASSUME RelayInv, Scan
    PROVE  RelayInv'
<1>1. /\ pc = "scan" /\ step = "done" /\ step' = "start" /\ UNCHANGED l1Vars
      /\ lastFinalizedTxHeight' = lastFinalizedTxHeight
      /\ nextUnfinalizedTxHeight' = nextUnfinalizedTxHeight /\ todo' = todo /\ seen' = seen
      /\ store' = store /\ given' = given /\ broken' = broken /\ eventCache' = eventCache
      /\ successful' = successful /\ failed' = failed /\ pending' = pending /\ receipt' = receipt
      /\ pc' = "fetch" \/ (pc' = "size" /\ header # 0)
  BY DEF Scan, Done, Finalized, heights, workVars, relayVars, cacheVars
<1>2. /\ LogInv' /\ log' = log /\ (\A x : Border(x)' <=> Border(x))
      /\ (\A e, x : Covers(e, x)' <=> Covers(e, x))
  BY <1>1, SameLog DEF RelayInv
<1>3. HeightInv'  BY <1>1, <1>2 DEF RelayInv, HeightInv
<1>4. header # 0 => Cached(nextUnfinalizedTxHeight)  BY <1>1 DEF RelayInv, FindInv, Wanted, Cached
<1>5. \A x : Cached(x) => Cached(x)'  BY <1>1, StillCached DEF RelayInv
<1>6. CacheInv'  BY <1>1, <1>2, <1>4, <1>5 DEF RelayInv, CacheInv
<1>7. pc' \in Idle /\ pc' \notin Inside /\ pc' \notin Attempt /\ pc' \notin Waiting
      /\ pc \notin Inside /\ pc \notin Waiting
  BY <1>1 DEF Idle, Inside, Attempt, Waiting
<1>8. FindInv'  BY <1>1, <1>7 DEF FindInv
<1>9. RoundInv'  BY <1>1, <1>7 DEF RelayInv, RoundInv
<1>10. WaitInv'  BY <1>1, <1>7 DEF RelayInv, WaitInv
<1>11. Passed = lastFinalizedTxHeight /\ Passed' = Passed /\ Dealt' = Dealt
  BY <1>1 DEF Passed, Dealt
<1>12. DealtInv'  BY <1>1, <1>7, <1>11, SMTT(30) DEF RelayInv, DealtInv
<1> QED  BY <1>2, <1>3, <1>6, <1>8, <1>9, <1>10, <1>12 DEF RelayInv

(* The service takes a whole batch: the TypeError is out of reach, since the *)
(* event that it has found once is still in the cache.                       *)
LEMMA SizeStep ==
    ASSUME RelayInv, Size
    PROVE  RelayInv'
<1> DEFINE last == lastFinalizedTxHeight
           next == nextUnfinalizedTxHeight
<1>1. pc = "size" /\ step = "done" /\ step' = "start"  BY DEF Size, Done
<1>2. header # 0 /\ header \in Range(eventCache) /\ Covers(header, next)
  BY <1>1 DEF RelayInv, FindInv, Wanted
<1>3. /\ next' = next + log[header].size /\ pc' \in {"fetch", "scan"}
      /\ todo' = todo /\ seen' = seen /\ last' = last /\ UNCHANGED l1Vars
      /\ store' = store /\ given' = given /\ broken' = broken /\ eventCache' = eventCache
      /\ successful' = successful /\ failed' = failed /\ pending' = pending /\ receipt' = receipt
  BY <1>2 DEF Size, workVars, cacheVars, relayVars
<1>4. /\ LogInv' /\ log' = log /\ (\A x : Border(x)' <=> Border(x))
      /\ (\A e, x : Covers(e, x)' <=> Covers(e, x))
  BY <1>3, SameLog DEF RelayInv
<1>5. last \in Nat /\ next \in Nat /\ store \in Nat /\ last <= next  BY Heights DEF RelayInv, HeightInv
<1>6. header \in DOMAIN log  BY <1>2 DEF RelayInv, CacheInv
<1>7. log[header].prev = next /\ Border(End(header)) /\ log[header].size \in Nat
  BY <1>2, <1>5, <1>6, StartsAt, Events DEF RelayInv, HeightInv
<1>8. next' = End(header) /\ next' \in Nat /\ next <= next'  BY <1>3, <1>5, <1>7, SMTT(30) DEF End
<1>9. HeightInv'
  <2>1. Border(next')  BY <1>7, <1>8
  <2> QED  BY <1>3, <1>4, <1>5, <1>8, <2>1 DEF RelayInv, HeightInv
<1>10. \A x : Cached(x) => Cached(x)'  BY <1>3, StillCached DEF RelayInv
<1>11. ASSUME NEW height \in Nat, last <= height, height < next' PROVE Cached(height)
  <2>1. CASE height < next  BY <1>1, <1>11, <2>1 DEF RelayInv, CacheInv
  <2>2. CASE ~(height < next)
    <3>1. Covers(header, height)  BY <1>5, <1>7, <1>8, <1>11, <2>2 DEF Covers
    <3> QED  BY <1>2, <3>1 DEF Cached
  <2> QED  BY <2>1, <2>2
<1>12. CacheInv'
  <2>1. pc' # "size"  BY <1>3
  <2>2. \A height \in Nat : last <= height /\ height < next' => Cached(height)'  BY <1>10, <1>11
  <2> QED  BY <1>3, <1>4, <2>1, <2>2 DEF RelayInv, CacheInv
<1>13. pc' \in Idle /\ pc' \notin Inside /\ pc' \notin Attempt /\ pc' \notin Waiting
       /\ pc' \notin {"poll", "save"} /\ pc \notin Inside /\ pc \notin Waiting
  BY <1>1, <1>3 DEF Idle, Inside, Attempt, Waiting
<1>14. FindInv'  BY <1>1, <1>13 DEF FindInv
<1>15. todo = <<>>  BY <1>13 DEF RelayInv, RoundInv
<1>16. RoundInv'  BY <1>3, <1>13, <1>15, NoElements DEF RelayInv, RoundInv
<1>17. WaitInv'  BY <1>3, <1>13 DEF RelayInv, WaitInv
<1>18. Passed = last /\ Passed' = Passed /\ Dealt' = Dealt  BY <1>1, <1>3, <1>13 DEF Passed, Dealt
<1>19. DealtInv'  BY <1>3, <1>13, <1>18 DEF RelayInv, DealtInv
<1> QED  BY <1>4, <1>9, <1>12, <1>14, <1>16, <1>17, <1>19 DEF RelayInv

(* All messages of the round's transactions are fetched.                     *)
LEMMA FetchStep ==
    ASSUME RelayInv, Fetch
    PROVE  RelayInv'
<1> DEFINE last == lastFinalizedTxHeight
           next == nextUnfinalizedTxHeight
           T == {m \in Messages : last <= m /\ m < next}
           sent == Ascending(T, MaxElements)
<1>1. /\ pc = "fetch" /\ pc' = (IF sent = <<>> THEN "poll" ELSE "message") /\ todo' = sent
      /\ UNCHANGED l1Vars /\ step' = step
      /\ last' = last /\ next' = next /\ store' = store /\ given' = given /\ broken' = broken
      /\ eventCache' = eventCache
      /\ successful' = successful /\ failed' = failed /\ pending' = pending /\ receipt' = receipt
  BY Zenon DEF Fetch, heights, cacheVars, relayVars, findVars
<1>2. MaxElements \in Nat /\ T \in SUBSET (0..(MaxElements - 1))  BY MessageRelayerAssumption, Zenon
<1>3. \A m \in T : m \in Messages /\ last <= m /\ m < next  OBVIOUS
<1>4. last \in Nat /\ next \in Nat /\ Passed = last  BY <1>1, Heights DEF Passed
<1>5. \A m \in Messages : m \in Nat /\ (m < next => m < last \/ m \in T)  BY <1>4, Heights
<1> HIDE DEF T
<1>6. sent \in Seq(Nat) /\ Range(sent) = T  BY <1>2, AscendingRange
<1> HIDE DEF sent
<1>7. sent \in Seq(Messages)
  <2>1. sent \in Seq(T)  BY <1>6, SeqOfRange
  <2> QED  BY <1>3, <2>1, SeqMonotonic
<1>8. sent = <<>> => T = {}  BY <1>6, NoElements
<1>9. /\ LogInv' /\ log' = log /\ (\A x : Border(x)' <=> Border(x))
  BY <1>1, SameLog DEF RelayInv
<1>10. HeightInv'  BY <1>1, <1>9 DEF RelayInv, HeightInv
<1>11. \A x : Cached(x) => Cached(x)'  BY <1>1, StillCached DEF RelayInv
<1>12. CacheInv'  BY <1>1, <1>9, <1>11 DEF RelayInv, CacheInv
<1>13. /\ pc' \in Inside <=> sent # <<>>
       /\ pc' \in Idle <=> sent = <<>>
       /\ pc' \in Idle \cup Inside /\ pc' \notin Attempt /\ pc' \notin Waiting /\ pc \notin Waiting
  BY <1>1 DEF Idle, Inside, Attempt, Waiting
<1>14. step = "start"  BY <1>1 DEF RelayInv, FindInv, Lookups
<1>15. FindInv'  BY <1>1, <1>13, <1>14 DEF FindInv
<1>16. RoundInv'  BY <1>1, <1>3, <1>6, <1>7, <1>13 DEF RoundInv
<1>17. WaitInv'  BY <1>1, <1>13 DEF RelayInv, WaitInv
<1>18. Dealt' = Dealt  BY <1>1 DEF Dealt
<1>19. DealtInv'
  <2> SUFFICES ASSUME ~broken, NEW m \in Messages
               PROVE  (m < Passed' => m \in Dealt) /\ (m < next => m \in Range(sent) \/ m \in Dealt)
    BY <1>1, <1>18 DEF DealtInv
  <2>1. m < last => m \in Dealt  BY <1>4 DEF RelayInv, DealtInv
  <2>2. m < next => m \in T \/ m \in Dealt  BY <1>5, <2>1
  <2>3. CASE sent = <<>>  BY <1>1, <1>6, <1>8, <2>2, <2>3 DEF Passed
  <2>4. CASE sent # <<>>
    <3>1. Passed' = last  BY <1>1, <2>4 DEF Passed
    <3> QED  BY <1>6, <2>1, <2>2, <3>1
  <2> QED  BY <2>3, <2>4
<1> QED  BY <1>9, <1>10, <1>12, <1>15, <1>16, <1>17, <1>19 DEF RelayInv
-----------------------------------------------------------------------------
(* The messages of a round. *)

(* A step inside a round keeps its messages or is done with the first.       *)
LEMMA RoundStep ==
    ASSUME RelayInv, UNCHANGED l1Vars, UNCHANGED heights, UNCHANGED cacheVars,
           store' = store, broken' = broken,
           pc \in Inside, Dealt \subseteq Dealt',
           \/ todo' = todo /\ pc' \in Inside
           \/ todo' = Tail(todo) /\ Head(todo) \in Dealt'
              /\ pc' = IF Tail(todo) = <<>> THEN "finish" ELSE "message",
           FindInv', WaitInv'
    PROVE  RelayInv'
<1>1. /\ lastFinalizedTxHeight' = lastFinalizedTxHeight
      /\ nextUnfinalizedTxHeight' = nextUnfinalizedTxHeight /\ eventCache' = eventCache
  BY DEF heights, cacheVars
<1>2. /\ LogInv' /\ log' = log /\ (\A x : Border(x)' <=> Border(x))
  BY SameLog DEF RelayInv
<1>3. HeightInv'  BY <1>1, <1>2 DEF RelayInv, HeightInv
<1>4. \A x : Cached(x) => Cached(x)'  BY <1>1, StillCached DEF RelayInv
<1>5. todo \in Seq(Messages) /\ todo # <<>>  BY DEF RelayInv, RoundInv
<1>6. /\ Tail(todo) \in Seq(Messages) /\ Range(todo) = Range(Tail(todo)) \cup {Head(todo)}
  BY <1>5, TailRange
<1>7. /\ todo' \in Seq(Messages) /\ Range(todo') \subseteq Range(todo)
      /\ \A m \in Range(todo) : m \in Range(todo') \/ m \in Dealt'
      /\ pc' \in Inside <=> todo' # <<>>
      /\ pc' \in Inside \cup {"finish"}
  <2>1. CASE todo' = todo /\ pc' \in Inside  BY <1>5, <2>1
  <2>2. CASE /\ todo' = Tail(todo) /\ Head(todo) \in Dealt'
             /\ pc' = IF Tail(todo) = <<>> THEN "finish" ELSE "message"
    <3>1. "finish" \notin Inside /\ "message" \in Inside  BY DEF Inside, Attempt, Waiting
    <3> QED  BY <1>6, <2>2, <3>1
  <2> QED  BY <2>1, <2>2
<1>8. /\ pc' \notin {"poll", "save", "size"} /\ pc \notin {"poll", "save", "size"}
      /\ pc \notin Idle /\ pc' \notin Idle
  BY <1>7 DEF Inside, Attempt, Waiting, Idle
<1>9. CacheInv'  BY <1>1, <1>2, <1>4, <1>8 DEF RelayInv, CacheInv
<1>10. RoundInv'  BY <1>1, <1>7 DEF RelayInv, RoundInv
<1>11. Passed = lastFinalizedTxHeight /\ Passed' = Passed  BY <1>1, <1>8 DEF Passed
<1>12. DealtInv'
  <2> SUFFICES ASSUME ~broken, NEW m \in Messages
               PROVE  /\ m < Passed => m \in Dealt'
                      /\ m < nextUnfinalizedTxHeight => m \in Range(todo') \/ m \in Dealt'
    BY <1>1, <1>11 DEF DealtInv
  <2>1. m < Passed => m \in Dealt  BY DEF RelayInv, DealtInv
  <2>2. m < nextUnfinalizedTxHeight => m \in Range(todo) \/ m \in Dealt
    BY <1>8 DEF RelayInv, DealtInv
  <2> QED  BY <1>7, <2>1, <2>2
<1> QED  BY <1>2, <1>3, <1>9, <1>10, <1>12 DEF RelayInv

(* What is known at a message: no header is looked for.                      *)
LEMMA AtMessage ==
    ASSUME RelayInv, pc \in Attempt \cup {"message"}
    PROVE  /\ step = "start" /\ pc \in Inside /\ todo # <<>> /\ todo \in Seq(Messages)
           /\ Head(todo) \in Messages
<1>1. step = "start" /\ pc \in Inside
  BY DEF RelayInv, FindInv, Lookups, Attempt, Inside, Waiting
<1>2. todo # <<>> /\ todo \in Seq(Messages)  BY <1>1 DEF RelayInv, RoundInv
<1> QED  BY <1>1, <1>2, TailRange

(* A message that is relayed already leaves the round.                       *)
LEMMA MessageStep ==
    ASSUME RelayInv, Message
    PROVE  RelayInv'
<1>1. /\ pc = "message" /\ UNCHANGED l1Vars /\ UNCHANGED heights /\ UNCHANGED cacheVars
      /\ store' = store /\ broken' = broken /\ given' = given /\ step' = step /\ header' = header
      /\ successful' = successful /\ failed' = failed /\ pending' = pending /\ receipt' = receipt
      /\ \/ Head(todo) \in successful /\ NextMessage
         \/ pc' = "proof" /\ todo' = todo
  BY DEF Message, findVars, relayVars
<1>2. step = "start"  BY <1>1, AtMessage
<1>3. Dealt' = Dealt  BY <1>1 DEF Dealt
<1>4. \/ todo' = todo /\ pc' = "proof"
      \/ todo' = Tail(todo) /\ Head(todo) \in Dealt'
         /\ pc' = IF Tail(todo) = <<>> THEN "finish" ELSE "message"
  BY <1>1 DEF NextMessage, Dealt
<1>5. pc' \in {"proof", "finish", "message"}  BY <1>4
<1>6. pc' \notin Attempt /\ pc' \notin Waiting /\ pc \notin Waiting /\ pc \in Inside /\ "proof" \in Inside
  BY <1>1, <1>5 DEF Attempt, Waiting, Inside
<1>7. FindInv'  BY <1>1, <1>2, <1>6 DEF FindInv
<1>8. WaitInv'  BY <1>1, <1>6 DEF RelayInv, WaitInv
<1> QED  BY <1>1, <1>3, <1>4, <1>6, <1>7, <1>8, RoundStep

(* The header of a message's batch is found: without a deletion the          *)
(* TypeError of _getMessageProof is out of reach.                            *)
LEMMA ProofStep ==
    ASSUME RelayInv, Proof
    PROVE  RelayInv'
<1>1. pc = "proof" /\ step = "done" /\ step' = "start"  BY DEF Proof
<1>2. header # 0 /\ header \in DOMAIN log  BY <1>1 DEF RelayInv, FindInv, CacheInv
<1>3. /\ pc' = "dry" /\ todo' = todo /\ UNCHANGED l1Vars /\ UNCHANGED heights /\ UNCHANGED cacheVars
      /\ store' = store /\ broken' = broken /\ given' = given /\ header' = header
      /\ successful' = successful /\ failed' = failed /\ pending' = pending /\ receipt' = receipt
  BY <1>2 DEF Proof, workVars, relayVars
<1>4. pc' \in Inside /\ pc \in Inside /\ pc' \notin Waiting /\ pc \notin Waiting
  BY <1>1, <1>3 DEF Inside, Attempt, Waiting
<1>5. Dealt' = Dealt  BY <1>3 DEF Dealt
<1>6. log' = log  BY <1>3 DEF l1Vars
<1>7. FindInv'  BY <1>1, <1>2, <1>3, <1>6 DEF FindInv
<1>8. WaitInv'  BY <1>3, <1>4 DEF RelayInv, WaitInv
<1> QED  BY <1>3, <1>4, <1>5, <1>7, <1>8, RoundStep

(* Without a deletion the chain has all batches of the log, so that a        *)
(* message that the service gives up counts as given up.                     *)
LEMMA GivenUp ==
    ASSUME RelayInv, pc \in Attempt, GiveUp
    PROVE  /\ Head(todo) \in given' /\ given \subseteq given'
           /\ todo' = Tail(todo) /\ pc' = IF Tail(todo) = <<>> THEN "finish" ELSE "message"
<1>1. header \in DOMAIN log  BY DEF RelayInv, FindInv
<1>2. live = [i \in DOMAIN log |-> i]  BY Events DEF RelayInv, LogInv
<1>3. header \in Range(live)  BY <1>1, <1>2 DEF Range
<1> QED  BY <1>3 DEF GiveUp, NextMessage

(* A dry run gives a message up only after the second attempt.               *)
LEMMA DryRunStep ==
    ASSUME RelayInv, DryRun
    PROVE  RelayInv'
<1>1. /\ pc \in {"dry", "dryAgain"} /\ UNCHANGED l1Vars /\ UNCHANGED heights /\ UNCHANGED cacheVars
      /\ store' = store /\ broken' = broken /\ step' = step
      /\ successful' = successful /\ failed' = failed /\ pending' = pending /\ receipt' = receipt
      /\ \/ pc' \in {"send", "dryAgain"} /\ todo' = todo /\ given' = given /\ header' = header
         \/ GiveUp
  BY DEF DryRun, relayVars
<1>2. pc \in Attempt /\ pc \in Inside /\ pc \notin Waiting  BY <1>1 DEF Attempt, Waiting, Inside
<1>3. step = "start" /\ header \in DOMAIN log  BY <1>2, AtMessage DEF RelayInv, FindInv
<1>4. log' = log  BY <1>1 DEF l1Vars
<1>5. CASE pc' \in {"send", "dryAgain"} /\ todo' = todo /\ given' = given /\ header' = header
  <2>1. pc' \in Inside /\ pc' \notin Waiting  BY <1>5 DEF Inside, Attempt, Waiting
  <2>2. Dealt' = Dealt  BY <1>1, <1>5 DEF Dealt
  <2>3. FindInv'  BY <1>1, <1>3, <1>4, <1>5 DEF FindInv
  <2>4. WaitInv'  BY <1>1, <1>2, <2>1 DEF RelayInv, WaitInv
  <2> QED  BY <1>1, <1>2, <1>5, <2>1, <2>2, <2>3, <2>4, RoundStep
<1>6. CASE GiveUp
  <2>1. /\ Head(todo) \in given' /\ given \subseteq given'
        /\ todo' = Tail(todo) /\ pc' = IF Tail(todo) = <<>> THEN "finish" ELSE "message"
    BY <1>2, <1>6, GivenUp
  <2>2. pc' \in {"finish", "message"}  BY <2>1
  <2>3. pc' \notin Attempt /\ pc' \notin Waiting  BY <2>2 DEF Attempt, Waiting
  <2>4. Dealt \subseteq Dealt' /\ Head(todo) \in Dealt'  BY <1>1, <2>1 DEF Dealt
  <2>5. FindInv'  BY <1>1, <1>3, <2>3 DEF FindInv
  <2>6. WaitInv'  BY <1>1, <1>2, <2>3 DEF RelayInv, WaitInv
  <2> QED  BY <1>1, <1>2, <2>1, <2>4, <2>5, <2>6, RoundStep
<1> QED  BY <1>1, <1>5, <1>6

(* The transaction that is sent is the last one.                             *)
LEMMA SendStep ==
    ASSUME RelayInv, Send
    PROVE  RelayInv'
<1> DEFINE t == [message |-> Head(todo), event |-> header]
<1>1. /\ pc \in {"send", "sendAgain"} /\ pc' \in Waiting /\ pending' = Append(pending, t)
      /\ UNCHANGED l1Vars /\ UNCHANGED heights /\ UNCHANGED cacheVars
      /\ store' = store /\ broken' = broken /\ step' = step /\ header' = header /\ todo' = todo
      /\ successful' = successful /\ failed' = failed /\ receipt' = receipt /\ given' = given
  BY DEF Send, findVars, workVars, Waiting
<1>2. pc \in Attempt /\ pc \in Inside /\ pc \notin Waiting /\ pc' \in Inside
  BY <1>1 DEF Attempt, Waiting, Inside
<1>3. step = "start" /\ header \in DOMAIN log /\ Head(todo) \in Messages
  BY <1>2, AtMessage DEF RelayInv, FindInv
<1>4. log' = log /\ Dealt' = Dealt  BY <1>1 DEF l1Vars, Dealt
<1>5. FindInv'  BY <1>1, <1>3, <1>4 DEF FindInv
<1>6. t \in Relay /\ t.message = Head(todo)
  <2>1. header \in Nat  BY <1>3, Events DEF RelayInv
  <2> QED  BY <1>3, <2>1 DEF Relay
<1> HIDE DEF t
<1>7. pending \in Seq(Relay) /\ receipt = "none"  BY <1>2 DEF RelayInv, WaitInv
<1>8. pending' \in Seq(Relay) /\ Len(pending') = Len(pending) + 1 /\ pending'[Len(pending) + 1] = t
  BY <1>1, <1>6, <1>7, AppendProperties
<1>9. pending' # <<>>
  <2>1. Len(pending) \in Nat /\ Len(<<>>) = 0  BY <1>7, LenProperties
  <2> QED  BY <1>8, <2>1
<1>10. WaitInv'  BY <1>1, <1>6, <1>7, <1>8, <1>9 DEF WaitInv
<1> QED  BY <1>1, <1>2, <1>4, <1>5, <1>10, RoundStep

(* A message leaves the round when it is relayed or given up.                *)
LEMMA WaitStep ==
    ASSUME RelayInv, Wait
    PROVE  RelayInv'
<1>1. /\ pc \in Waiting /\ receipt' = "none"
      /\ UNCHANGED l1Vars /\ UNCHANGED heights /\ UNCHANGED cacheVars
      /\ store' = store /\ broken' = broken /\ step' = step
      /\ successful' = successful /\ failed' = failed /\ pending' = pending
      /\ \/ receipt = "ok" /\ NextMessage /\ given' = given
         \/ pc' = "sendAgain" /\ todo' = todo /\ given' = given /\ header' = header
         \/ GiveUp
  BY DEF Wait
<1>2. pc \in Attempt /\ pc \in Inside  BY <1>1 DEF Attempt, Inside
<1>3. step = "start" /\ header \in DOMAIN log  BY <1>2, AtMessage DEF RelayInv, FindInv
<1>4. log' = log /\ pending \in Seq(Relay)  BY <1>1 DEF l1Vars, RelayInv, WaitInv
<1>5. CASE pc' = "sendAgain" /\ todo' = todo /\ given' = given /\ header' = header
  <2>1. pc' \in Inside /\ pc' \notin Waiting  BY <1>5 DEF Inside, Attempt, Waiting
  <2>2. Dealt' = Dealt  BY <1>1, <1>5 DEF Dealt
  <2>3. FindInv'  BY <1>1, <1>3, <1>4, <1>5 DEF FindInv
  <2>4. WaitInv'  BY <1>1, <1>4, <2>1 DEF WaitInv
  <2> QED  BY <1>1, <1>2, <1>5, <2>1, <2>2, <2>3, <2>4, RoundStep
<1>6. ASSUME todo' = Tail(todo), pc' = IF Tail(todo) = <<>> THEN "finish" ELSE "message",
             Head(todo) \in Dealt', Dealt \subseteq Dealt'
      PROVE  RelayInv'
  <2>1. pc' \in {"finish", "message"}  BY <1>6
  <2>2. pc' \notin Attempt /\ pc' \notin Waiting  BY <2>1 DEF Attempt, Waiting
  <2>3. FindInv'  BY <1>1, <1>3, <2>2 DEF FindInv
  <2>4. WaitInv'  BY <1>1, <1>4, <2>2 DEF WaitInv
  <2> QED  BY <1>1, <1>2, <1>6, <2>3, <2>4, RoundStep
<1>7. CASE receipt = "ok" /\ NextMessage /\ given' = given
  <2>1. Head(todo) \in Dealt  BY <1>1, <1>7 DEF RelayInv, WaitInv
  <2>2. Dealt' = Dealt  BY <1>1, <1>7 DEF Dealt
  <2>3. todo' = Tail(todo) /\ pc' = IF Tail(todo) = <<>> THEN "finish" ELSE "message"
    BY <1>7 DEF NextMessage
  <2> QED  BY <1>6, <2>1, <2>2, <2>3
<1>8. CASE GiveUp
  <2>1. /\ Head(todo) \in given' /\ given \subseteq given'
        /\ todo' = Tail(todo) /\ pc' = IF Tail(todo) = <<>> THEN "finish" ELSE "message"
    BY <1>2, <1>8, GivenUp
  <2>2. Dealt \subseteq Dealt' /\ Head(todo) \in Dealt'  BY <1>1, <2>1 DEF Dealt
  <2> QED  BY <1>6, <2>1, <2>2
<1> QED  BY <1>1, <1>5, <1>7, <1>8
-----------------------------------------------------------------------------
(* The end of a round. *)

(* A round is over.  When a failed call ends it, it is broken, had taken     *)
(* nothing or had nothing left to relay.                                     *)
LEMMA RoundOver ==
    ASSUME RelayInv, UNCHANGED l1Vars, UNCHANGED heights, store' = store, pc' = "poll",
           todo' = <<>>, step' = "start", Dealt' = Dealt, pending' = pending, receipt' = "none",
           eventCache' \in Seq(Nat), Range(eventCache') \subseteq DOMAIN log,
           ~broken' => ~broken /\ (pc \in {"poll", "finish"}
                                   \/ ~(lastFinalizedTxHeight < nextUnfinalizedTxHeight))
    PROVE  RelayInv'
<1>1. /\ lastFinalizedTxHeight' = lastFinalizedTxHeight
      /\ nextUnfinalizedTxHeight' = nextUnfinalizedTxHeight
  BY DEF heights
<1>2. /\ LogInv' /\ log' = log /\ (\A x : Border(x)' <=> Border(x))
  BY SameLog DEF RelayInv
<1>3. HeightInv'  BY <1>1, <1>2 DEF RelayInv, HeightInv
<1>4. CacheInv'  BY <1>2 DEF CacheInv
<1>5. pc' \in Idle /\ pc' \notin Inside /\ pc' \notin Attempt /\ pc' \notin Waiting
  BY DEF Idle, Inside, Attempt, Waiting
<1>6. FindInv'  BY <1>5 DEF FindInv
<1>7. RoundInv'
  <2>1. <<>> \in Seq(Messages)  BY EmptySeq
  <2> QED  BY <1>5, <2>1, NoElements DEF RoundInv
<1>8. WaitInv'  BY <1>5 DEF RelayInv, WaitInv
<1>9. ASSUME ~broken', NEW m \in Messages, m < nextUnfinalizedTxHeight PROVE m \in Dealt
  <2>1. ~broken  BY <1>9
  <2>2. CASE pc = "finish"
    <3>1. todo = <<>> /\ pc \notin Idle  BY <2>2 DEF RelayInv, RoundInv, Inside, Attempt, Waiting, Idle
    <3> QED  BY <1>9, <2>1, <3>1, NoElements DEF RelayInv, DealtInv
  <2>3. CASE pc # "finish"
    <3>1. m < Passed
      <4>1. pc = "poll" \/ ~(lastFinalizedTxHeight < nextUnfinalizedTxHeight)  BY <1>9, <2>3
      <4>2. pc = "poll" => Passed = nextUnfinalizedTxHeight  BY DEF Passed
      <4>3. m \in Nat /\ nextUnfinalizedTxHeight \in Nat /\ lastFinalizedTxHeight \in Nat
            /\ Passed \in Nat /\ lastFinalizedTxHeight <= Passed
        BY Heights
      <4> QED  BY <1>9, <4>1, <4>2, <4>3
    <3> QED  BY <2>1, <3>1 DEF RelayInv, DealtInv
  <2> QED  BY <2>2, <2>3
<1>10. DealtInv'
  <2>1. Passed' = nextUnfinalizedTxHeight  BY <1>1 DEF Passed
  <2> QED  BY <1>1, <1>5, <1>9, <2>1 DEF DealtInv
<1> QED  BY <1>2, <1>3, <1>4, <1>6, <1>7, <1>8, <1>10 DEF RelayInv

(* The last message is dealt with.  Which events the cache loses does not    *)
(* matter: the next round needs none of them.                                *)
LEMMA FinishStep ==
    ASSUME RelayInv, Finish
    PROVE  RelayInv'
<1> DEFINE keep == {e \in Range(eventCache) : IsGreater(log[e].batchIndex, log[header].batchIndex)}
<1>1. /\ pc = "finish" /\ pc' = "poll" /\ todo' = <<>> /\ step' = "start"
      /\ UNCHANGED l1Vars /\ UNCHANGED heights /\ store' = store /\ broken' = broken /\ given' = given
      /\ successful' = successful /\ failed' = failed /\ pending' = pending /\ receipt' = receipt
      /\ eventCache' = eventCache \/ eventCache' = Among(eventCache, keep)
  BY Zenon DEF Finish, Done, NoWork, relayVars
<1> HIDE DEF keep
<1>2. eventCache \in Seq(Nat) /\ Range(eventCache) \subseteq DOMAIN log  BY DEF RelayInv, CacheInv
<1>3. /\ Among(eventCache, keep) \in Seq(Nat)
      /\ Range(Among(eventCache, keep)) = Range(eventCache) \cap keep
  BY <1>2, AmongRange
<1>4. eventCache' \in Seq(Nat) /\ Range(eventCache') \subseteq DOMAIN log  BY <1>1, <1>2, <1>3
<1>5. Dealt' = Dealt  BY <1>1 DEF Dealt
<1>6. receipt' = "none"  BY <1>1 DEF RelayInv, WaitInv, Waiting
<1> QED  BY <1>1, <1>4, <1>5, <1>6, RoundOver

(* A call that fails ends the round.                                         *)
LEMMA ErrorStep ==
    ASSUME RelayInv, Error
    PROVE  RelayInv'
<1>1. /\ pc \notin Waiting /\ pc' = "poll" /\ todo' = <<>> /\ step' = "start"
      /\ UNCHANGED l1Vars /\ UNCHANGED heights /\ store' = store /\ given' = given
      /\ successful' = successful /\ failed' = failed /\ pending' = pending /\ receipt' = receipt
      /\ eventCache' = eventCache
      /\ broken' = (broken \/ (pc \notin {"poll", "finish"}
                               /\ lastFinalizedTxHeight < nextUnfinalizedTxHeight))
  BY DEF Error, NoWork, relayVars, cacheVars
<1>2. eventCache' \in Seq(Nat) /\ Range(eventCache') \subseteq DOMAIN log
  BY <1>1 DEF RelayInv, CacheInv
<1>3. Dealt' = Dealt  BY <1>1 DEF Dealt
<1>4. receipt' = "none"  BY <1>1 DEF RelayInv, WaitInv
<1> QED  BY <1>1, <1>2, <1>3, <1>4, RoundOver, Zenon

(* After a restart the log is read again from the start, and the service     *)
(* goes on at the stored height, below which nothing is left.                *)
LEMMA CrashStep ==
    ASSUME RelayInv, Crash
    PROVE  RelayInv'
<1>1. /\ pc' = "poll" /\ todo' = <<>> /\ step' = "start" /\ eventCache' = <<>>
      /\ lastFinalizedTxHeight' = store /\ nextUnfinalizedTxHeight' = store
      /\ UNCHANGED l1Vars /\ store' = store /\ broken' = broken /\ given' = given
      /\ successful' = successful /\ failed' = failed /\ pending' = pending /\ receipt' = "none"
  BY DEF Crash, NoWork
<1>2. Passed' = store /\ Dealt' = Dealt  BY <1>1 DEF Passed, Dealt
<1>3. LogInv' /\ log' = log /\ \A x : Border(x)' <=> Border(x)
  BY <1>1, SameLog DEF RelayInv
<1>4. store \in Nat /\ Passed \in Nat /\ store <= Passed  BY Heights
<1>5. HeightInv'  BY <1>1, <1>3, <1>4 DEF RelayInv, HeightInv
<1>6. <<>> \in Seq(Nat) /\ <<>> \in Seq(Messages)  BY EmptySeq
<1>7. CacheInv'  BY <1>1, <1>6, NoElements DEF CacheInv
<1>8. pc' \in Idle /\ pc' \notin Inside /\ pc' \notin Attempt /\ pc' \notin Waiting
  BY <1>1 DEF Idle, Inside, Attempt, Waiting
<1>9. FindInv'  BY <1>1, <1>8 DEF FindInv
<1>10. RoundInv'  BY <1>1, <1>6, <1>8, NoElements DEF RoundInv
<1>11. WaitInv'  BY <1>1, <1>8 DEF RelayInv, WaitInv
<1>12. DealtInv'
  <2> SUFFICES ASSUME ~broken, NEW m \in Messages, m < store PROVE m \in Dealt
    BY <1>1, <1>2, <1>8 DEF DealtInv
  <2>1. m \in Nat /\ m < Passed  BY <1>4, Heights
  <2> QED  BY <2>1 DEF RelayInv, DealtInv
<1> QED  BY <1>3, <1>5, <1>7, <1>9, <1>10, <1>11, <1>12 DEF RelayInv
-----------------------------------------------------------------------------
(* The steps of L1. *)

(* What speaks of the service alone, when more messages may be dealt with.   *)
LEMMA SameService ==
    ASSUME RelayInv, UNCHANGED serviceVars, Dealt \subseteq Dealt'
    PROVE  /\ RoundInv' /\ DealtInv' /\ Wanted' = Wanted /\ pc' = pc
           /\ lastFinalizedTxHeight' = lastFinalizedTxHeight
           /\ nextUnfinalizedTxHeight' = nextUnfinalizedTxHeight /\ store' = store
           /\ eventCache' = eventCache /\ step' = step /\ header' = header /\ todo' = todo
<1>1. /\ pc' = pc /\ given' = given /\ broken' = broken
      /\ lastFinalizedTxHeight' = lastFinalizedTxHeight
      /\ nextUnfinalizedTxHeight' = nextUnfinalizedTxHeight /\ store' = store
      /\ eventCache' = eventCache /\ step' = step /\ header' = header
      /\ todo' = todo /\ seen' = seen
  BY DEF serviceVars, heights, cacheVars, workVars, findVars
<1>2. Passed' = Passed /\ Wanted' = Wanted  BY <1>1 DEF Passed, Wanted
<1>3. RoundInv'  BY <1>1 DEF RelayInv, RoundInv
<1>4. DealtInv'  BY <1>1, <1>2 DEF RelayInv, DealtInv
<1> QED  BY <1>1, <1>2, <1>3, <1>4

(* A step that leaves the service and the log alone.                         *)
LEMMA MessengerStep ==
    ASSUME RelayInv, UNCHANGED serviceVars, Dealt \subseteq Dealt', WaitInv',
           LogInv', log' = log, live' = live
    PROVE  RelayInv'
<1>1. /\ RoundInv' /\ DealtInv' /\ Wanted' = Wanted /\ pc' = pc
      /\ lastFinalizedTxHeight' = lastFinalizedTxHeight
      /\ nextUnfinalizedTxHeight' = nextUnfinalizedTxHeight /\ store' = store
      /\ eventCache' = eventCache /\ step' = step /\ header' = header
  BY SameService
<1>2. \A e : End(e)' = End(e)  BY DEF End
<1>3. Total' = Total  BY <1>2 DEF Total
<1>4. \A x : Border(x)' <=> Border(x)  BY <1>3 DEF Border
<1>5. \A e, x : Covers(e, x)' <=> Covers(e, x)  BY <1>2 DEF Covers
<1>6. HeightInv'  BY <1>1, <1>4 DEF RelayInv, HeightInv
<1>7. \A x : Cached(x) => Cached(x)'  BY <1>1, <1>5 DEF Cached
<1>8. CacheInv'  BY <1>1, <1>7 DEF RelayInv, CacheInv
<1>9. FindInv'  BY <1>1, <1>5 DEF RelayInv, FindInv
<1> QED  BY <1>1, <1>6, <1>8, <1>9 DEF RelayInv

(* Steps that leave the service's transactions alone.                        *)
LEMMA SameWait ==
    ASSUME RelayInv, UNCHANGED serviceVars, Dealt \subseteq Dealt', pending' = pending, receipt' = receipt
    PROVE  WaitInv'
<1>1. pc' = pc /\ todo' = todo  BY SameService
<1> QED  BY <1>1 DEF RelayInv, WaitInv

(* Someone else relays a message.                                            *)
LEMMA OtherStep ==
    ASSUME RelayInv, NEW m \in Messages, RelayedByOther(m)
    PROVE  RelayInv'
<1>1. /\ successful' = successful \cup {m} /\ failed' = failed /\ pending' = pending /\ receipt' = receipt
      /\ UNCHANGED l1Vars /\ UNCHANGED serviceVars
  BY DEF RelayedByOther
<1>2. given' = given  BY <1>1 DEF serviceVars
<1>3. Dealt \subseteq Dealt'  BY <1>1, <1>2 DEF Dealt
<1>4. WaitInv'  BY <1>1, <1>3, SameWait
<1>5. LogInv' /\ log' = log /\ live' = live  BY <1>1, SameLog DEF RelayInv
<1> QED  BY <1>1, <1>3, <1>4, <1>5, MessengerStep

(* The receipt that the service waits for is of the message it relays.       *)
LEMMA MineStep ==
    ASSUME RelayInv, MineRelay
    PROVE  RelayInv'
<1> DEFINE t == Head(pending)
           ok == Relayable(t.message, t.event)
<1>1. /\ pending # <<>> /\ pending' = Tail(pending) /\ UNCHANGED l1Vars /\ UNCHANGED serviceVars
      /\ \/ ok /\ successful' = successful \cup {t.message} /\ failed' = failed
         \/ ok /\ failed' = failed \cup {t.message} /\ successful' = successful
         \/ ~ok /\ successful' = successful /\ failed' = failed
      /\ receipt' = IF Len(pending) > 1 \/ pc \notin Waiting THEN receipt
                    ELSE IF ok THEN "ok" ELSE "reverted"
  BY DEF MineRelay
<1> HIDE DEF ok
<1>2. given' = given  BY <1>1 DEF serviceVars
<1>3. Dealt \subseteq Dealt' /\ (ok => t.message \in Dealt')  BY <1>1, <1>2 DEF Dealt
<1>4. pc' = pc /\ todo' = todo  BY <1>1, <1>3, SameService
<1>5. pending \in Seq(Relay)  BY DEF RelayInv, WaitInv
<1>6. /\ pending' \in Seq(Relay) /\ Len(pending') = Len(pending) - 1 /\ Len(pending) \in Nat
      /\ t = pending[1] /\ \A i \in 1..Len(pending') : pending'[i] = pending[i + 1]
  BY <1>1, <1>5, HeadTailProperties, LenProperties
<1>7. Len(pending) >= 1 /\ (pending' = <<>> <=> Len(pending') = 0)  BY <1>1, <1>5, <1>6, EmptySeq
<1> HIDE DEF t
<1>8. WaitInv'
  <2>1. CASE pc \notin Waiting
    <3>1. receipt = "none" /\ receipt' = receipt  BY <1>1, <2>1 DEF RelayInv, WaitInv
    <3> QED  BY <1>4, <1>6, <2>1, <3>1 DEF WaitInv
  <2>2. CASE pc \in Waiting /\ Len(pending) > 1
    <3>1. receipt = "none" /\ pending[Len(pending)].message = Head(todo)
      BY <1>1, <2>2 DEF RelayInv, WaitInv
    <3>2. receipt' = "none"  BY <1>1, <2>2, <3>1
    <3>3. Len(pending') \in 1..Len(pending') /\ Len(pending') # 0 /\ Len(pending') + 1 = Len(pending)
      BY <1>6, <2>2
    <3>4. pending'[Len(pending')] = pending[Len(pending)]  BY <1>6, <3>3
    <3> QED  BY <1>4, <1>6, <1>7, <2>2, <3>1, <3>2, <3>3, <3>4 DEF WaitInv
  <2>3. CASE pc \in Waiting /\ ~(Len(pending) > 1)
    <3>1. receipt = "none" /\ pending[Len(pending)].message = Head(todo)
      BY <1>1, <2>3 DEF RelayInv, WaitInv
    <3>2. Len(pending) = 1 /\ pending' = <<>>  BY <1>6, <1>7, <2>3
    <3>3. t.message = Head(todo)  BY <1>6, <3>1, <3>2
    <3>4. \/ receipt' = "ok" /\ Head(todo) \in Dealt'
          \/ receipt' = "reverted"
      BY <1>1, <1>3, <2>3, <3>3
    <3> QED  BY <1>4, <1>6, <2>3, <3>2, <3>4 DEF WaitInv
  <2> QED  BY <2>1, <2>2, <2>3
<1>9. LogInv' /\ log' = log /\ live' = live  BY <1>1, SameLog DEF RelayInv
<1> QED  BY <1>1, <1>3, <1>8, <1>9, MessengerStep

(* A step of the messenger's or the chain's owner.                           *)
LEMMA OwnerStep ==
    ASSUME RelayInv, UNCHANGED l1Vars, UNCHANGED relayVars, UNCHANGED serviceVars
    PROVE  RelayInv'
<1>1. /\ successful' = successful /\ failed' = failed /\ pending' = pending /\ receipt' = receipt
      /\ given' = given
  BY DEF relayVars, serviceVars
<1>2. Dealt' = Dealt  BY <1>1 DEF Dealt
<1>3. WaitInv'  BY <1>1, <1>2, SameWait
<1>4. LogInv' /\ log' = log /\ live' = live  BY SameLog DEF RelayInv
<1> QED  BY <1>2, <1>3, <1>4, MessengerStep

(* Time passes.                                                              *)
LEMMA TickStep ==
    ASSUME RelayInv, Tick
    PROVE  RelayInv'
<1>1. /\ now' = now + 1 /\ log' = log /\ live' = live /\ now \in Nat
      /\ UNCHANGED relayVars /\ UNCHANGED serviceVars
  BY DEF Tick, RelayInv, LogInv
<1>2. \A e : End(e)' = End(e)  BY <1>1 DEF End
<1>3. Total' = Total  BY <1>1, <1>2 DEF Total
<1>4. \A x : Border(x)' <=> Border(x)  BY <1>1, <1>3 DEF Border
<1>5. LogInv'
  <2>1. now' \in Nat  BY <1>1
  <2> QED  BY <1>1, <1>2, <1>3, <1>4, <2>1 DEF RelayInv, LogInv
<1>6. /\ successful' = successful /\ failed' = failed /\ pending' = pending /\ receipt' = receipt
      /\ given' = given
  BY <1>1 DEF relayVars, serviceVars
<1>7. Dealt' = Dealt  BY <1>6 DEF Dealt
<1>8. WaitInv'  BY <1>1, <1>6, <1>7, SameWait
<1> QED  BY <1>1, <1>5, <1>7, <1>8, MessengerStep

(* A batch is appended at the end of the chain, and its event to the log.    *)
LEMMA AppendStep ==
    ASSUME RelayInv, NEW size \in 1..MaxBatchSize, AppendStateBatch(size)
    PROVE  RelayInv'
<1> PICK n : n = Len(log)  BY Zenon
<1> DEFINE ev == [batchIndex |-> FirstBatch + Len(live), prev |-> Total, size |-> size, at |-> now]
<1>1. /\ Total + size <= MaxElements /\ log' = Append(log, ev) /\ live' = Append(live, n + 1)
      /\ now' = now /\ UNCHANGED relayVars /\ UNCHANGED serviceVars
  BY DEF AppendStateBatch
<1>2. /\ LogInv /\ n \in Nat /\ DOMAIN log = 1..n /\ now \in Nat /\ Total \in Nat
      /\ size \in Nat /\ size > 0 /\ log \in Seq(Event) /\ live = [i \in 1..n |-> i]
  BY Events DEF RelayInv, LogInv
<1>3. live \in Seq(Nat) /\ Len(live) = n  BY <1>2
<1>4. ev \in Event /\ ev.prev = Total /\ ev.size = size
  <2>1. FirstBatch \in Nat  BY MessageRelayerAssumption, Zenon
  <2> QED  BY <1>2, <1>3, <2>1 DEF Event
<1> HIDE DEF ev
<1>5. /\ log' \in Seq(Event) /\ Len(log') = n + 1 /\ DOMAIN log' = 1..(n + 1)
      /\ (\A e \in 1..n : log'[e] = log[e]) /\ log'[n + 1] = ev
  BY <1>1, <1>2, <1>4, AppendProperties, LenProperties
<1>6. live' = [i \in 1..(n + 1) |-> i]
  <2>1. /\ live' \in Seq(Nat) /\ Len(live') = n + 1 /\ live'[n + 1] = n + 1
        /\ \A i \in 1..n : live'[i] = live[i]
    BY <1>1, <1>2, <1>3, AppendProperties
  <2>2. DOMAIN live' = 1..(n + 1) /\ live' = [i \in DOMAIN live' |-> live'[i]]  BY <2>1, LenProperties
  <2>3. \A i \in 1..(n + 1) : i \in 1..n \/ i = n + 1  BY <1>2
  <2>4. \A i \in 1..(n + 1) : live'[i] = i  BY <1>2, <2>1, <2>3
  <2> QED  BY <2>2, <2>4
<1>7. \A e \in 1..n : End(e)' = End(e) /\ End(e) \in Nat  BY <1>2, <1>5, Events, SMTT(30) DEF End
<1>8. End(n + 1)' = Total + size  BY <1>4, <1>5 DEF End
<1>9. Total' = Total + size
  <2>1. live' # <<>> /\ Len(live') = n + 1 /\ live'[n + 1] = n + 1
    <3>1. n + 1 \in 1..(n + 1) /\ n + 1 \in Nat  BY <1>2
    <3>2. Len(live') = n + 1  BY <1>6, <3>1
    <3>3. live'[n + 1] = n + 1  BY <1>6, <3>1
    <3>4. live' # <<>>
      <4>1. Len(<<>>) = 0  OBVIOUS
      <4> QED  BY <1>2, <3>2, <4>1
    <3> QED  BY <3>2, <3>3, <3>4
  <2> QED  BY <1>8, <2>1 DEF Total
<1>10. \A e \in 1..(n + 1) : e \in 1..n \/ e = n + 1  BY <1>2
<1>11. n + 1 \in DOMAIN log' /\ \A e \in 1..n : e \in DOMAIN log'  BY <1>2, <1>5
<1>12. \A x : Border(x) => Border(x)'
  <2> SUFFICES ASSUME NEW x, Border(x) PROVE \E e \in DOMAIN log' : log'[e].prev = x  BY SMTT(30) DEF Border
  <2>1. CASE x = Total  BY <1>4, <1>5, <1>11, <2>1
  <2>2. ASSUME NEW e \in DOMAIN log, log[e].prev = x PROVE \E f \in DOMAIN log' : log'[f].prev = x
    BY <1>2, <1>5, <1>11, <2>2
  <2> QED  BY <2>1, <2>2 DEF Border
<1>13. ASSUME NEW e \in DOMAIN log'
       PROVE  log'[e].size > 0 /\ End(e)' <= Total' /\ Border(End(e))'
  <2>1. CASE e \in 1..n
    <3>1. log[e].size > 0 /\ End(e) <= Total /\ Border(End(e))
      BY <1>2, <2>1, SMTT(30) DEF LogInv
    <3>2. Border(End(e))'
      <4> PICK x : x = End(e)  OBVIOUS
      <4>1. x = End(e)'  BY <1>7, <2>1
      <4> QED  BY <1>12, <3>1, <4>1
    <3> QED  BY <1>1, <1>2, <1>5, <1>7, <1>9, <2>1, <3>1, <3>2, SMTT(30)
  <2>2. CASE e = n + 1
    <3>1. End(e)' = Total'  BY <1>8, <1>9, <2>2
    <3>2. Border(End(e))'  BY <3>1 DEF Border
    <3> QED  BY <1>1, <1>2, <1>4, <1>5, <1>9, <2>2, <3>1, <3>2
  <2> QED  BY <1>5, <1>10, <2>1, <2>2
<1>14. ASSUME NEW e \in DOMAIN log', NEW f \in DOMAIN log', e < f PROVE End(e)' <= log'[f].prev
  <2>1. e \in 1..n  BY <1>2, <1>5, <1>14
  <2>2. CASE f \in 1..n  BY <1>2, <1>5, <1>7, <1>14, <2>1, <2>2, SMTT(30) DEF LogInv
  <2>3. CASE f = n + 1  BY <1>2, <1>4, <1>5, <1>7, <2>1, <2>3 DEF LogInv
  <2> QED  BY <1>5, <1>10, <2>2, <2>3
<1>15. LogInv'
  <2>1. Total' \in Nat  BY <1>2, <1>9
  <2> QED  BY <1>1, <1>2, <1>5, <1>6, <1>13, <1>14, <2>1, Zenon DEF LogInv
<1>16. /\ successful' = successful /\ failed' = failed /\ pending' = pending /\ receipt' = receipt
       /\ given' = given
  BY <1>1 DEF relayVars, serviceVars
<1>17. Dealt' = Dealt  BY <1>16 DEF Dealt
<1>18. /\ RoundInv' /\ DealtInv' /\ Wanted' = Wanted /\ pc' = pc
       /\ lastFinalizedTxHeight' = lastFinalizedTxHeight
       /\ nextUnfinalizedTxHeight' = nextUnfinalizedTxHeight /\ store' = store
       /\ eventCache' = eventCache /\ step' = step /\ header' = header
  BY <1>1, <1>17, SameService
<1>19. WaitInv'  BY <1>1, <1>16, <1>17, SameWait
<1>20. HeightInv'  BY <1>12, <1>18 DEF RelayInv, HeightInv
<1>21. eventCache \in Seq(Nat) /\ Range(eventCache) \subseteq 1..n  BY <1>2 DEF RelayInv, CacheInv
<1>22. \A e \in 1..n : \A x : Covers(e, x) => Covers(e, x)'  BY <1>5, <1>7 DEF Covers
<1>23. \A x : Cached(x) => Cached(x)'  BY <1>18, <1>21, <1>22 DEF Cached
<1>24. CacheInv'  BY <1>11, <1>18, <1>21, <1>23 DEF RelayInv, CacheInv
<1>25. FindInv'
  <2>1. step = "done" /\ header # 0 => header \in Range(eventCache) /\ Covers(header, Wanted)'
    BY <1>18, <1>21, <1>22 DEF RelayInv, FindInv
  <2>2. pc \in Attempt => header \in DOMAIN log'  BY <1>2, <1>11 DEF RelayInv, FindInv
  <2> QED  BY <1>18, <2>1, <2>2 DEF RelayInv, FindInv
<1> QED  BY <1>15, <1>18, <1>19, <1>20, <1>24, <1>25 DEF RelayInv
-----------------------------------------------------------------------------
(* The theorems. *)

(* The invariant holds in every history.                                     *)
LEMMA Invariant == Spec => []IInv
<1>1. Init => IInv
  <2> SUFFICES ASSUME Init PROVE IInv  OBVIOUS
  <2>1. /\ now = 1 /\ log = <<>> /\ live = <<>> /\ pc = "poll" /\ step = "start"
        /\ lastFinalizedTxHeight = 0 /\ nextUnfinalizedTxHeight = 0 /\ store = 0
        /\ eventCache = <<>> /\ todo = <<>> /\ pending = <<>> /\ receipt = "none" /\ deletions = 0
    BY DEF Init
  <2>2. /\ DOMAIN <<>> = {} /\ Len(<<>>) = 0 /\ <<>> \in Seq(Event) /\ <<>> \in Seq(Nat)
        /\ <<>> \in Seq(Messages) /\ <<>> \in Seq(Relay) /\ <<>> = [i \in 1..0 |-> i]
    BY EmptySeq
  <2>3. Total = 0  BY <2>1 DEF Total
  <2>4. \A m \in Messages : m \in Nat  BY MessageRelayerAssumption
  <2>5. LogInv  BY <2>1, <2>2, <2>3 DEF LogInv
  <2>6. HeightInv  BY <2>1, <2>3 DEF HeightInv, Border
  <2>7. CacheInv  BY <2>1, <2>2, NoElements DEF CacheInv
  <2>8. pc \in Idle /\ pc \notin Inside /\ pc \notin Attempt /\ pc \notin Waiting
    BY <2>1 DEF Idle, Inside, Attempt, Waiting
  <2>9. FindInv  BY <2>1, <2>8 DEF FindInv
  <2>10. RoundInv  BY <2>1, <2>2, <2>8, NoElements DEF RoundInv
  <2>11. WaitInv  BY <2>1, <2>2, <2>8 DEF WaitInv
  <2>12. DealtInv  BY <2>1, <2>4, <2>8 DEF DealtInv, Passed
  <2> QED  BY <2>1, <2>5, <2>6, <2>7, <2>9, <2>10, <2>11, <2>12 DEF IInv, RelayInv
<1>2. IInv /\ [Next]_vars => IInv'
  <2> SUFFICES ASSUME IInv, [Next]_vars PROVE IInv'  OBVIOUS
  <2>0. deletions \in Nat /\ (deletions = 0 => RelayInv)  BY DEF IInv
  <2>1. CASE L1
    <3>1. ASSUME NEW size \in 1..MaxBatchSize, AppendStateBatch(size) PROVE IInv'
      <4>1. deletions' = deletions  BY <3>1 DEF AppendStateBatch
      <4> QED  BY <2>0, <3>1, <4>1, AppendStep DEF IInv
    <3>2. ASSUME NEW i \in DOMAIN live, DeleteStateBatch(i) PROVE IInv'
      <4>1. deletions' = deletions + 1  BY <3>2 DEF DeleteStateBatch
      <4> QED  BY <2>0, <4>1 DEF IInv
    <3>3. CASE Tick
      <4>1. deletions' = deletions  BY <3>3 DEF Tick
      <4> QED  BY <2>0, <3>3, <4>1, TickStep DEF IInv
    <3>4. CASE \/ \E window \in Windows : SetFraudProofWindow(window)
               \/ \E p \in BOOLEAN : SetPaused(p)
               \/ \E m \in Messages : \E b \in {blocked \cup {m}, blocked \ {m}} : SetBlocked(b)
      <4>1. UNCHANGED l1Vars /\ UNCHANGED relayVars /\ UNCHANGED serviceVars
        BY <3>4, Zenon DEF SetFraudProofWindow, SetPaused, SetBlocked
      <4>2. deletions' = deletions  BY <4>1 DEF l1Vars
      <4> QED  BY <2>0, <4>1, <4>2, OwnerStep DEF IInv
    <3>5. ASSUME NEW m \in Messages, RelayedByOther(m) PROVE IInv'
      <4>1. deletions' = deletions  BY <3>5, SMTT(30) DEF RelayedByOther, l1Vars
      <4> QED  BY <2>0, <3>5, <4>1, OtherStep DEF IInv
    <3> QED  BY <2>1, <3>1, <3>2, <3>3, <3>4, <3>5, Zenon DEF L1
  <2>2. CASE MineRelay
    <3>1. deletions' = deletions  BY <2>2 DEF MineRelay, l1Vars
    <3> QED  BY <2>0, <2>2, <3>1, MineStep DEF IInv
  <2>3. CASE Relayer
    <3>1. UNCHANGED l1Vars
      BY <2>3, Zenon DEF Relayer, GetBlockNumber, QueryFilter, Poll, Save, Scan, Size, Fetch,
                         Message, Proof, DryRun, Send, Wait, Finish
    <3>2. deletions' = deletions  BY <3>1 DEF l1Vars
    <3>3. RelayInv => RelayInv'
      BY <2>3, GetBlockNumberStep, QueryFilterStep, PollStep, SaveStep, ScanStep, SizeStep, FetchStep,
         MessageStep, ProofStep, DryRunStep, SendStep, WaitStep, FinishStep, Zenon
         DEF Relayer
    <3> QED  BY <2>0, <3>2, <3>3 DEF IInv
  <2>4. CASE Error
    <3>1. deletions' = deletions  BY <2>4 DEF Error, l1Vars
    <3> QED  BY <2>0, <2>4, <3>1, ErrorStep DEF IInv
  <2>5. CASE Crash
    <3>1. deletions' = deletions  BY <2>5 DEF Crash, l1Vars
    <3> QED  BY <2>0, <2>5, <3>1, CrashStep DEF IInv
  <2>6. CASE UNCHANGED vars
    <3>1. /\ UNCHANGED serviceVars /\ UNCHANGED l1Vars /\ UNCHANGED relayVars
          /\ deletions' = deletions
      BY <2>6 DEF vars, l1Vars
    <3> QED  BY <2>0, <3>1, OwnerStep DEF IInv
  <2> QED  BY <2>1, <2>2, <2>3, <2>4, <2>5, <2>6 DEF Next
<1> QED  BY <1>1, <1>2, PTL DEF Spec

(* While no failed call has ended a round that had taken a batch, and no     *)
(* batch was deleted, every message that the service has passed is relayed   *)
(* or given up after two attempts, whatever crashes, batches, pauses, late   *)
(* receipts and other relayers there are: the height that is stored when a   *)
(* round starts is never above a message that still waits, and the batches   *)
(* of a round stay in the cache until its messages are proved.               *)
THEOREM Skipless == Spec => []NothingIsSkipped
<1>1. IInv => NothingIsSkipped
  <2> SUFFICES ASSUME IInv, ~broken, deletions = 0, NEW m \in Messages, m < store \/ m < Passed
               PROVE  m \in Dealt
    BY DEF NothingIsSkipped, Passed
  <2>1. RelayInv  BY DEF IInv
  <2>2. m \in Nat /\ store \in Nat /\ Passed \in Nat /\ store <= Passed  BY <2>1, Heights
  <2> QED  BY <2>1, <2>2 DEF RelayInv, DealtInv
<1> QED  BY <1>1, Invariant, PTL

(* While no batch was deleted, the service stands between two batches,       *)
(* whatever calls fail and crashes happen: a round takes whole batches and a *)
(* restart goes back to the start of one.                                    *)
THEOREM AtBatch == Spec => []StandsAtBatch
<1>1. IInv => StandsAtBatch
  <2> SUFFICES ASSUME IInv, deletions = 0,
                      NEW height \in {lastFinalizedTxHeight, nextUnfinalizedTxHeight}
               PROVE  height = Total \/ \E e \in Range(live) : log[e].prev = height
    BY DEF StandsAtBatch
  <2>1. RelayInv /\ LogInv  BY DEF IInv, RelayInv
  <2>2. Border(height)  BY <2>1 DEF RelayInv, HeightInv
  <2>3. Range(live) = DOMAIN log
    <3>1. live = [i \in DOMAIN log |-> i]  BY <2>1, Events DEF LogInv
    <3> QED  BY <3>1 DEF Range
  <2> QED  BY <2>2, <2>3 DEF Border
<1> QED  BY <1>1, Invariant, PTL

=============================================================================
