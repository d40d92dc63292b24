-------------------------- MODULE LuaTable_proofs ---------------------------
(***************************************************************************)
(* Proofs about LuaTable, for all keys and values, every hash function and *)
(* every number of collisions.                                             *)
(*                                                                         *)
(* The invariant says what the code of ltable.c takes for granted: a key   *)
(* is in the chain of its main position, chains share no link and have no  *)
(* cycle, live nodes come before the dead ones of the same key, and the    *)
(* nodes without a key lie below lastfree.  The last one makes room: a     *)
(* resize to as many nodes as there are entries never lacks a free one.    *)
(***************************************************************************)
EXTENDS LuaTable, FiniteSetTheorems, NaturalsInduction, TLAPS

\* A set of naturals has a least member.
LEMMA LeastNat ==
  ASSUME NEW S, S \subseteq Nat, S # {}
  PROVE  \E n \in S : \A m \in S : n <= m
<1> DEFINE Less == {p \in Nat \X Nat : p[1] < p[2]}
<1>1. IsWellFoundedOn(Less, Nat)
  BY NatLessThanWellFounded DEF OpToRel
<1>2. \E n \in S : \A m \in S : ~ (<<m, n>> \in Less)
  BY <1>1, WFMin
<1>3. \A n, m \in S : ~ (<<m, n>> \in Less) => n <= m
  OBVIOUS
<1> QED BY <1>2, <1>3

\* Min and Max of FiniteSetsExt.
LEMMA MinNat ==
  ASSUME NEW S, S \subseteq Nat, S # {}
  PROVE  Min(S) \in S /\ \A m \in S : Min(S) <= m
<1>1. \E n \in S : \A m \in S : n <= m
  BY LeastNat
<1> QED BY <1>1 DEF Min

\* A bounded one has a greatest.
LEMMA MaxNat ==
  ASSUME NEW S, S \subseteq Nat, S # {}, NEW b \in Nat, \A m \in S : m <= b
  PROVE  Max(S) \in S /\ \A m \in S : m <= Max(S)
<1> DEFINE T == {b - m : m \in S}
<1>1. T \subseteq Nat /\ T # {}
  <2>1. \A m \in S : b - m \in Nat
    OBVIOUS
  <2> QED BY <2>1
<1> HIDE DEF T
<1>2. PICK n \in T : \A m \in T : n <= m
  BY <1>1, LeastNat
<1>3. PICK x \in S : n = b - x
  BY DEF T
<1>4. \A m \in S : b - m \in T
  BY DEF T
<1>5. \A m \in S : x >= m
  BY <1>2, <1>3, <1>4
<1>6. Max(S) \in S /\ \A m \in S : Max(S) >= m
  BY <1>5 DEF Max
<1> QED BY <1>6

-----------------------------------------------------------------------------
(* Powers of two.                                                          *)

\* The recursive function of TwoTo exists.
LEMMA PowersExist ==
  ASSUME NEW m \in Nat
  PROVE  \E f : f = [i \in 0..m |-> IF i = 0 THEN 1 ELSE 2 * f[i - 1]]
<1> DEFINE Good(n) == \E f : f = [i \in 0..n |-> IF i = 0 THEN 1 ELSE 2 * f[i - 1]]
<1> DEFINE Bad == {n \in Nat : ~ Good(n)}
<1>1. Good(0)
  <2> DEFINE f == [i \in 0..0 |-> 1]
  <2>1. f = [i \in 0..0 |-> IF i = 0 THEN 1 ELSE 2 * f[i - 1]]
    OBVIOUS
  <2> QED BY <2>1
<1>2. ASSUME NEW n \in Nat, Good(n) PROVE Good(n + 1)
  <2>1. PICK f : f = [i \in 0..n |-> IF i = 0 THEN 1 ELSE 2 * f[i - 1]]
    BY <1>2
  <2> DEFINE g == [i \in 0..(n + 1) |-> IF i <= n THEN f[i] ELSE 2 * f[n]]
  <2>2. \A i \in 0..(n + 1) : g[i] = IF i = 0 THEN 1 ELSE 2 * g[i - 1]
    <3> TAKE i \in 0..(n + 1)
    <3>1. CASE i = n + 1
      BY <3>1
    <3>2. CASE i <= n
      <4>1. f[i] = IF i = 0 THEN 1 ELSE 2 * f[i - 1]
        BY <2>1, <3>2
      <4> QED BY <3>2, <4>1
    <3> QED BY <3>1, <3>2
  <2>3. g = [i \in 0..(n + 1) |-> IF i = 0 THEN 1 ELSE 2 * g[i - 1]]
    BY <2>2
  <2> QED BY <2>3
<1> HIDE DEF Good
<1>3. Bad = {}
  <2> SUFFICES ASSUME Bad # {} PROVE FALSE
    OBVIOUS
  <2>1. PICK n \in Bad : \A k \in Bad : n <= k
    BY LeastNat
  <2>2. n # 0 /\ n - 1 \in Nat /\ n - 1 \notin Bad
    BY <1>1, <2>1
  <2>3. Good(n)
    BY <1>2, <2>2
  <2> QED BY <2>1, <2>3
<1>4. Good(m)
  BY <1>3
<1> QED BY <1>4 DEF Good

\* The numbers that bound Log2s.
LEMMA KeysFinite == Cardinality(Keys) \in Nat /\ IsFiniteSet(Keys) /\ MaxGrow \in Nat
BY KeyAssumption, FS_CardinalityType

\* TwoTo doubles, and outgrows its argument.
LEMMA Powers ==
  /\ \A i \in Log2s : TwoTo[i] \in Nat /\ TwoTo[i] > i
  /\ TwoTo[0] = 1
  /\ \A i \in Log2s : i # 0 => TwoTo[i] = 2 * TwoTo[i - 1]
<1> DEFINE m == Cardinality(Keys) + MaxGrow + 1
<1>1. m \in Nat /\ Log2s = 0..m
  BY KeysFinite DEF Log2s
<1> HIDE DEF m
<1>2. TwoTo = [i \in 0..m |-> IF i = 0 THEN 1 ELSE 2 * TwoTo[i - 1]]
  BY PowersExist, <1>1 DEF TwoTo
<1>3. TwoTo[0] = 1 /\ \A i \in 1..m : TwoTo[i] = 2 * TwoTo[i - 1]
  BY <1>1, <1>2
<1> DEFINE Good(i) == TwoTo[i] \in Nat /\ TwoTo[i] > i
<1> DEFINE Bad == {i \in 0..m : ~ Good(i)}
<1>4. Good(0)
  BY <1>3
<1>5. ASSUME NEW i \in 1..m, Good(i - 1) PROVE Good(i)
  BY <1>1, <1>3, <1>5
<1> HIDE DEF Good
<1>6. Bad = {}
  <2> SUFFICES ASSUME Bad # {} PROVE FALSE
    OBVIOUS
  <2>1. Bad \subseteq Nat
    BY <1>1
  <2>2. PICK n \in Bad : \A k \in Bad : n <= k
    BY <2>1, LeastNat
  <2>3. n \in 1..m /\ n - 1 \in 0..m /\ n - 1 \notin Bad
    BY <1>1, <1>4, <2>2
  <2> QED BY <1>5, <2>2, <2>3
<1>7. \A i \in 0..m : Good(i)
  BY <1>6
<1> QED BY <1>1, <1>3, <1>7 DEF Good

-----------------------------------------------------------------------------
(* Chains.                                                                 *)

Closed(link, S) == \A i \in S : link[i] # None => link[i] \in S

\* Position q is in the chain that begins at p: every set that holds p and
\* what its members link to holds q.
Reaches(link, p, q) ==
  \A S \in SUBSET DOMAIN link : p \in S /\ Closed(link, S) => q \in S

\* The links of a vector of nodes.
IsLinks(link, D) == IsFiniteSet(D) /\ None \notin D /\ link \in [D -> D \cup {None}]

\* The recursive function of Chain exists.
LEMMA ChainExists ==
  ASSUME NEW link, NEW p, NEW m, m \in Nat
  PROVE  \E f : f = [i \in 0..m |-> IF i = 0 THEN p
                                    ELSE IF f[i - 1] = None THEN None ELSE link[f[i - 1]]]
<1> DEFINE After(q) == IF q = None THEN None ELSE link[q]
<1> HIDE DEF After
<1> DEFINE Good(n) == \E f : f = [i \in 0..n |-> IF i = 0 THEN p ELSE After(f[i - 1])]
<1> DEFINE Bad == {n \in Nat : ~ Good(n)}
<1>1. Good(0)
  <2> DEFINE f == [i \in 0..0 |-> p]
  <2>1. f = [i \in 0..0 |-> IF i = 0 THEN p ELSE After(f[i - 1])]
    OBVIOUS
  <2> QED BY <2>1
<1>2. ASSUME NEW n \in Nat, Good(n) PROVE Good(n + 1)
  <2>1. PICK f : f = [i \in 0..n |-> IF i = 0 THEN p ELSE After(f[i - 1])]
    BY <1>2
  <2> DEFINE g == [i \in 0..(n + 1) |-> IF i <= n THEN f[i] ELSE After(f[n])]
  <2>2. \A i \in 0..(n + 1) : g[i] = IF i = 0 THEN p ELSE After(g[i - 1])
    <3> TAKE i \in 0..(n + 1)
    <3>1. CASE i = n + 1
      BY <3>1
    <3>2. CASE i <= n
      <4>1. f[i] = IF i = 0 THEN p ELSE After(f[i - 1])
        BY <2>1, <3>2
      <4> QED BY <3>2, <4>1
    <3> QED BY <3>1, <3>2
  <2>3. g = [i \in 0..(n + 1) |-> IF i = 0 THEN p ELSE After(g[i - 1])]
    BY <2>2
  <2> QED BY <2>3
<1> HIDE DEF Good
<1>3. Bad = {}
  <2> SUFFICES ASSUME Bad # {} PROVE FALSE
    OBVIOUS
  <2>1. PICK n \in Bad : \A k \in Bad : n <= k
    BY LeastNat
  <2>2. n # 0 /\ n - 1 \in Nat /\ n - 1 \notin Bad
    BY <1>1, <2>1
  <2>3. Good(n)
    BY <1>2, <2>2
  <2> QED BY <2>1, <2>3
<1>4. Good(m)
  BY <1>3
<1> QED BY <1>4 DEF Good, After

\* The recursive function is what it is written to be.
LEMMA ChainSteps ==
  ASSUME NEW link, NEW p, IsFiniteSet(DOMAIN link)
  PROVE  /\ Cardinality(DOMAIN link) \in Nat
         /\ DOMAIN Chain(link, p) = 0..Cardinality(DOMAIN link)
         /\ Chain(link, p)[0] = p
         /\ \A i \in 1..Cardinality(DOMAIN link) :
              Chain(link, p)[i] = IF Chain(link, p)[i - 1] = None THEN None
                                  ELSE link[Chain(link, p)[i - 1]]
<1> DEFINE n == Cardinality(DOMAIN link)
<1>1. n \in Nat
  BY FS_CardinalityType
<1> DEFINE at == Chain(link, p)
<1>2. at = [i \in 0..n |-> IF i = 0 THEN p
                           ELSE IF at[i - 1] = None THEN None ELSE link[at[i - 1]]]
  BY <1>1, ChainExists DEF Chain
<1> HIDE DEF at, n
<1> QED BY <1>1, <1>2 DEF at, n

\* A set of indices that holds 0 and with i also i + 1 holds them all.
LEMMA UpToNat ==
  ASSUME NEW n, n \in Nat, NEW S, 0 \in S, \A i \in 1..n : i - 1 \in S => i \in S
  PROVE  0..n \subseteq S
<1> DEFINE Bad == {i \in 0..n : i \notin S}
<1> SUFFICES ASSUME Bad # {} PROVE FALSE
  OBVIOUS
<1>1. Bad \subseteq Nat
  OBVIOUS
<1>2. PICK b \in Bad : \A i \in Bad : b <= i
  BY <1>1, LeastNat
<1>3. b \in 1..n /\ b - 1 \in 0..n /\ b - 1 \notin Bad
  BY <1>2
<1> QED BY <1>2, <1>3

\* A chain stays in the vector, and each position in it is reached.
LEMMA ChainReached ==
  ASSUME NEW link, NEW D, IsLinks(link, D), NEW p, p \in D
  PROVE  \A i \in 0..Cardinality(D) :
           LET q == Chain(link, p)[i]
           IN  q = None \/ (q \in D /\ Reaches(link, p, q))
<1> DEFINE Good(q) == q = None \/ (q \in D /\ Reaches(link, p, q))
<1>1. DOMAIN link = D /\ IsFiniteSet(D) /\ link \in [D -> D \cup {None}]
  BY DEF IsLinks
<1>2. PICK at : at = Chain(link, p)
  OBVIOUS
<1>3. PICK n : n = Cardinality(D)
  OBVIOUS
<1>4. /\ n \in Nat /\ at[0] = p
      /\ \A i \in 1..n : at[i] = IF at[i - 1] = None THEN None ELSE link[at[i - 1]]
  BY <1>1, <1>2, <1>3, ChainSteps
<1>5. Good(p)
  BY <1>1 DEF Reaches
<1>6. ASSUME NEW q \in D, Reaches(link, p, q) PROVE Good(link[q])
  BY <1>1, <1>6 DEF Reaches, Closed
<1> DEFINE S == {i \in 0..n : Good(at[i])}
<1> HIDE DEF Good
<1>7. 0 \in S
  BY <1>4, <1>5
<1>8. \A i \in 1..n : i - 1 \in S => i \in S
  <2> SUFFICES ASSUME NEW i \in 1..n, Good(at[i - 1]) PROVE Good(at[i])
    BY <1>4
  <2>1. CASE at[i - 1] = None
    BY <1>4, <2>1 DEF Good
  <2>2. CASE at[i - 1] # None
    <3>1. at[i - 1] \in D /\ Reaches(link, p, at[i - 1])
      BY <2>2 DEF Good
    <3>2. Good(link[at[i - 1]])
      BY <1>6, <3>1
    <3> QED BY <1>4, <2>2, <3>2
  <2> QED BY <2>1, <2>2
<1>9. 0..n \subseteq S
  BY <1>4, <1>7, <1>8, UpToNat
<1>10. \A i \in 0..n : Good(at[i])
  BY <1>9
<1> QED BY <1>2, <1>3, <1>10 DEF Good

\* What is reached is in the chain, which is long enough for all of it.
LEMMA ReachedInChain ==
  ASSUME NEW link, NEW D, IsLinks(link, D), NEW p, p \in D, NEW q, Reaches(link, p, q)
  PROVE  \E i \in 0..Cardinality(D) : Chain(link, p)[i] = q
<1>1. DOMAIN link = D /\ IsFiniteSet(D) /\ link \in [D -> D \cup {None}]
  BY DEF IsLinks
<1>2. PICK at : at = Chain(link, p)
  OBVIOUS
<1>3. PICK n : n = Cardinality(D)
  OBVIOUS
<1>4. /\ n \in Nat /\ at[0] = p
      /\ \A i \in 1..n : at[i] = IF at[i - 1] = None THEN None ELSE link[at[i - 1]]
  BY <1>1, <1>2, <1>3, ChainSteps
<1>5. \A i \in 0..n : at[i] \in D \cup {None}
  BY <1>2, <1>3, ChainReached
\* The first place where the chain ends or comes back to where it was,
<1> DEFINE Ends == {j \in 0..n : at[j] = None \/ \E i \in 0..(j - 1) : at[i] = at[j]}
<1>6. Ends # {}
  <2> SUFFICES ASSUME Ends = {} PROVE FALSE
    OBVIOUS
  <2>1. \A j \in 0..n : at[j] \in D /\ \A i \in 0..(j - 1) : at[i] # at[j]
    BY <1>5
  <2>2. PICK f : f = [j \in 0..n |-> at[j]]
    OBVIOUS
  <2>3. f \in [0..n -> D]
    BY <2>1, <2>2
  <2>4. IsFiniteSet(0..n) /\ Cardinality(0..n) = n + 1
    BY <1>4, FS_Interval
  <2>5. Cardinality(D) < Cardinality(0..n)
    BY <1>3, <1>4, <2>4
  <2>6. \E x, y \in 0..n : x # y /\ f[x] = f[y]
    <3>1. PICK places : places = 0..n
      OBVIOUS
    <3>2. /\ IsFiniteSet(places) /\ IsFiniteSet(D) /\ Cardinality(D) < Cardinality(places)
          /\ f \in [places -> D]
      BY <1>1, <2>3, <2>4, <2>5, <3>1
    <3>3. \E x, y \in places : x # y /\ f[x] = f[y]
      BY <3>2, FS_PigeonHole
    <3> QED BY <3>1, <3>3
  <2> QED BY <1>4, <2>1, <2>2, <2>6
<1>7. PICK e \in Ends : \A j \in Ends : e <= j
  <2>1. Ends \subseteq Nat
    BY <1>4
  <2> QED BY <1>6, <2>1, LeastNat
\* and what is before it, which is closed.
<1> DEFINE S == {at[i] : i \in 0..(e - 1)}
<1>8. e \in 0..n /\ e # 0 /\ \A i \in 0..(e - 1) : i \in 0..n /\ at[i] # None
  <2>1. e \in 0..n
    BY <1>7
  <2>2. \A i \in 0..(e - 1) : i \in 0..n /\ i \notin Ends
    BY <1>4, <1>7, <2>1
  <2>3. at[0] # None
    BY <1>1, <1>4 DEF IsLinks
  <2>4. e # 0
    BY <1>7, <2>3
  <2> QED BY <2>1, <2>2, <2>4
<1>9. S \subseteq D /\ p \in S
  BY <1>4, <1>5, <1>8
<1>10. Closed(link, S)
  <2> SUFFICES ASSUME NEW i \in 0..(e - 1), link[at[i]] # None PROVE link[at[i]] \in S
    BY DEF Closed
  <2>1. i + 1 \in 1..n /\ at[i + 1] = link[at[i]]
    BY <1>4, <1>8
  <2>2. CASE i + 1 < e
    <3>1. i + 1 \in 0..(e - 1)
      BY <1>4, <1>8, <2>2
    <3> QED BY <2>1, <3>1
  <2>3. CASE i + 1 = e
    <3>1. PICK k \in 0..(e - 1) : at[k] = at[e]
      BY <1>7, <2>1, <2>3
    <3> QED BY <2>1, <2>3, <3>1
  <2> QED BY <1>4, <1>8, <2>2, <2>3
<1>11. q \in S
  BY <1>1, <1>9, <1>10 DEF Reaches
<1> QED BY <1>2, <1>3, <1>8, <1>11

\* FirstInChain finds a position if one is reached, and else none.
LEMMA FirstFound ==
  ASSUME NEW link, NEW D, IsLinks(link, D), NEW p, p \in D, NEW S, S \subseteq D
  PROVE  /\ (\A q \in S : ~ Reaches(link, p, q)) => FirstInChain(link, p, S) = None
         /\ (\E q \in S : Reaches(link, p, q)) =>
              /\ FirstInChain(link, p, S) \in S
              /\ Reaches(link, p, FirstInChain(link, p, S))
<1>1. DOMAIN link = D /\ IsFiniteSet(D) /\ None \notin D
  BY DEF IsLinks
<1>2. PICK at : at = Chain(link, p)
  OBVIOUS
<1>3. PICK n : n = Cardinality(D)
  OBVIOUS
<1>4. n \in Nat /\ DOMAIN at = 0..n
  BY <1>1, <1>2, <1>3, ChainSteps
<1>5. PICK hits : hits = {i \in DOMAIN at : at[i] \in S}
  OBVIOUS
<1>6. FirstInChain(link, p, S) = IF hits = {} THEN None ELSE at[Min(hits)]
  BY <1>2, <1>5 DEF FirstInChain
<1>7. \A i \in hits : at[i] \in S /\ Reaches(link, p, at[i])
  BY <1>1, <1>2, <1>3, <1>4, <1>5, ChainReached
<1>8. hits # {} => Min(hits) \in hits
  BY <1>4, <1>5, MinNat
<1>9. ASSUME NEW q \in S, Reaches(link, p, q) PROVE hits # {}
  <2>1. PICK i \in 0..n : at[i] = q
    BY <1>2, <1>3, <1>9, ReachedInChain
  <2> QED BY <1>4, <1>5, <2>1
<1> QED BY <1>6, <1>7, <1>8, <1>9

\* Ranks grow along the links: there is no cycle.
Ranks(link, r) ==
  /\ r \in [DOMAIN link -> Nat]
  /\ \A i \in DOMAIN link : link[i] # None => r[i] < r[link[i]]

\* What a position reaches has a higher rank.
LEMMA ReachRanked ==
  ASSUME NEW link, NEW D, IsLinks(link, D), NEW r, Ranks(link, r), NEW p, p \in D,
         NEW q, Reaches(link, p, q)
  PROVE  q = p \/ r[p] < r[q]
<1> DEFINE S == {x \in D : x = p \/ r[p] < r[x]}
<1>1. DOMAIN link = D /\ link \in [D -> D \cup {None}] /\ r \in [D -> Nat]
  BY DEF IsLinks, Ranks
<1>2. Closed(link, S)
  BY <1>1 DEF Closed, Ranks
<1>3. S \in SUBSET D /\ p \in S
  OBVIOUS
<1>4. q \in S
  BY <1>1, <1>2, <1>3 DEF Reaches
<1> QED BY <1>4

\* A chain visits its positions in the order of their ranks.
LEMMA ChainRanked ==
  ASSUME NEW link, NEW D, IsLinks(link, D), NEW r, Ranks(link, r), NEW p, p \in D,
         NEW i, NEW j, i \in 0..Cardinality(D), j \in 0..Cardinality(D), i < j,
         Chain(link, p)[j] # None
  PROVE  Chain(link, p)[i] # None /\ r[Chain(link, p)[i]] < r[Chain(link, p)[j]]
<1>1. /\ DOMAIN link = D /\ IsFiniteSet(D) /\ r \in [D -> Nat]
      /\ link \in [D -> D \cup {None}]
  BY DEF IsLinks, Ranks
<1>2. PICK at : at = Chain(link, p)
  OBVIOUS
<1>3. PICK n : n = Cardinality(D)
  OBVIOUS
<1>4. /\ n \in Nat
      /\ \A k \in 1..n : at[k] = IF at[k - 1] = None THEN None ELSE link[at[k - 1]]
  BY <1>1, <1>2, <1>3, ChainSteps
<1>5. \A k \in 0..n : at[k] \in D \cup {None}
  BY <1>2, <1>3, ChainReached
<1> DEFINE Good(k) == at[k] # None => at[i] # None /\ (i < k => r[at[i]] < r[at[k]])
<1> DEFINE S == {k \in 0..n : i <= k => Good(k)}
<1>6. i \in 0..n /\ j \in 0..n
  BY <1>3
<1>7. 0 \in S
  BY <1>4, <1>6
<1>8. ASSUME NEW k \in 1..n, k - 1 \in S PROVE k \in S
  <2>1. CASE i < k
    <3>1. k - 1 \in 0..n /\ i <= k - 1 /\ Good(k - 1)
      BY <1>4, <1>6, <1>8, <2>1
    <3> SUFFICES ASSUME at[k] # None PROVE at[i] # None /\ r[at[i]] < r[at[k]]
      BY <1>4, <1>6
    <3>2. at[k - 1] # None /\ at[k] = link[at[k - 1]]
      BY <1>4
    <3>3. at[k - 1] \in D /\ r[at[k - 1]] < r[at[k]] /\ at[k] \in D
      BY <1>1, <1>5, <3>1, <3>2 DEF Ranks
    <3>4. at[i] # None /\ at[i] \in D
      BY <1>5, <1>6, <3>1, <3>2
    <3>5. i < k - 1 \/ i = k - 1
      BY <1>6, <3>1
    <3> QED BY <1>1, <3>1, <3>2, <3>3, <3>4, <3>5
  <2>2. CASE ~ (i < k)
    BY <1>4, <1>6, <2>2
  <2> QED BY <2>1, <2>2
<1>9. 0..n \subseteq S
  <2> HIDE DEF Good
  <2> QED BY <1>4, <1>7, <1>8, UpToNat
<1>10. Good(j)
  BY <1>6, <1>9
<1> QED BY <1>2, <1>10

\* FirstInChain finds the position of the least rank.
LEMMA FirstRanked ==
  ASSUME NEW link, NEW D, IsLinks(link, D), NEW r, Ranks(link, r), NEW p, p \in D,
         NEW S, S \subseteq D, NEW q, q \in S, Reaches(link, p, q),
         \A s \in S : s # q => r[q] < r[s]
  PROVE  FirstInChain(link, p, S) = q
<1>1. DOMAIN link = D /\ IsFiniteSet(D) /\ None \notin D /\ r \in [D -> Nat]
  BY DEF IsLinks, Ranks
<1>2. PICK at : at = Chain(link, p)
  OBVIOUS
<1>3. PICK n : n = Cardinality(D)
  OBVIOUS
<1>4. n \in Nat /\ DOMAIN at = 0..n
  BY <1>1, <1>2, <1>3, ChainSteps
<1>5. PICK hits : hits = {i \in DOMAIN at : at[i] \in S}
  OBVIOUS
<1>6. PICK j \in 0..n : at[j] = q
  BY <1>2, <1>3, ReachedInChain
<1>7. j \in hits /\ hits \subseteq Nat
  BY <1>4, <1>5, <1>6
<1>8. PICK m : m = Min(hits)
  OBVIOUS
<1>9. m \in hits /\ m <= j
  BY <1>7, <1>8, MinNat
<1>10. m \in 0..n /\ at[m] \in S
  BY <1>4, <1>5, <1>9
<1>11. FirstInChain(link, p, S) = at[m]
  BY <1>2, <1>5, <1>7, <1>8 DEF FirstInChain
<1>12. m < j => r[at[m]] < r[q]
  BY <1>1, <1>2, <1>3, <1>6, <1>10, ChainRanked
<1> QED BY <1>1, <1>6, <1>9, <1>10, <1>11, <1>12

-----------------------------------------------------------------------------
(* The invariant of a table.                                               *)

Positions(t) == 0..(Size(t) - 1)

Slot == Values \cup {Nil}

NodeType(D) ==
  [key : Keys \cup {Nil}, dead : BOOLEAN, val : Slot, next : D \cup {None}]

IsTable(t) ==
  /\ Size(t) \in Nat
  /\ t \in [array : Seq(Slot), node : [Positions(t) -> NodeType(Positions(t))],
            lastfree : 0..Size(t)]

Keyed(t, i) == t.node[i].key # Nil

\* A key that is there, dead or not, has its main position taken by a key
\* whose main position it is, and is in the chain that begins there.
Rooted(t) ==
  \A i \in Positions(t) : Keyed(t, i) =>
    LET m == MainPosition(t, t.node[i].key)
    IN  Keyed(t, m) /\ MainPosition(t, t.node[m].key) = m

InChain(t) ==
  \A i \in Positions(t) :
    Keyed(t, i) => Reaches(Links(t), MainPosition(t, t.node[i].key), i)

\* No two nodes link to the same node, and none to a node without a key.
OneLink(t) ==
  \A i \in Positions(t) : t.node[i].next # None =>
    /\ Keyed(t, t.node[i].next)
    /\ \A j \in Positions(t) : t.node[j].next = t.node[i].next => i = j

\* A live node comes before the dead ones with the same key in their chain,
\* which has no cycle.
LiveFirst(t, r) ==
  \A i, d \in Positions(t) :
    Keyed(t, i) /\ HasKey(t.node[i], t.node[d].key) /\ i # d => r[i] < r[d]

Ranked(t) == \E r : Ranks(Links(t), r) /\ LiveFirst(t, r)

\* lastfree is above all nodes without a key.
Free(t) ==
  \A i \in Positions(t) : ~ Keyed(t, i) => t.node[i] = EmptyNode /\ i < t.lastfree

\* A value has a live key; a key of the array part is not in a node.
Entries(t) ==
  /\ \A i \in Positions(t) : t.node[i].val # Nil => Keyed(t, i) /\ ~ t.node[i].dead
  /\ \A i \in Positions(t) : Keyed(t, i) => t.node[i].key \notin 1..Len(t.array)
  /\ \A s \in 1..Len(t.array) : t.array[s] # Nil => s \in IntKeys

WellFormed(t) ==
  /\ IsTable(t)
  /\ Rooted(t)
  /\ InChain(t)
  /\ OneLink(t)
  /\ Ranked(t)
  /\ Free(t)
  /\ Entries(t)

\* Number keys, other keys and nil are told apart.
LEMMA KeysApart ==
  /\ Keys \cap Nat = IntKeys
  /\ Nil \notin Keys /\ Nil \notin Values
  /\ Hash \in [Keys -> Nat]
BY KeyAssumption DEF Keys

\* Sizes, positions and links have their types.
LEMMA TablePositions ==
  ASSUME NEW t, IsTable(t)
  PROVE  /\ Size(t) \in Nat
         /\ DOMAIN t.node = Positions(t)
         /\ IsFiniteSet(Positions(t)) /\ Cardinality(Positions(t)) = Size(t)
         /\ None \notin Positions(t)
         /\ IsLinks(Links(t), Positions(t))
         /\ \A i \in Positions(t) : Links(t)[i] = t.node[i].next
         /\ \A i \in Positions(t) : t.node[i] \in NodeType(Positions(t))
<1>1. Size(t) \in Nat /\ t.node \in [Positions(t) -> NodeType(Positions(t))]
  BY DEF IsTable
<1>2. IsFiniteSet(Positions(t)) /\ Cardinality(Positions(t)) = Size(t)
  BY <1>1, FS_Interval DEF Positions
<1>3. None \notin Positions(t)
  BY <1>1 DEF Positions, None
<1>4. \A i \in Positions(t) : t.node[i].next \in Positions(t) \cup {None}
  BY <1>1 DEF NodeType
<1>5. Links(t) = [i \in Positions(t) |-> t.node[i].next]
  BY <1>1 DEF Links
<1>6. Links(t) \in [Positions(t) -> Positions(t) \cup {None}]
  BY <1>4, <1>5
<1> QED BY <1>1, <1>2, <1>3, <1>5, <1>6 DEF IsLinks

\* A hash part that has nodes has the main position of every key.
LEMMA MainPositionIn ==
  ASSUME NEW t, Size(t) \in Nat, Size(t) # 0, NEW k \in Keys
  PROVE  MainPosition(t, k) \in Positions(t)
<1>1. PICK n \in Nat : n = Size(t)
  OBVIOUS
<1>2. PICK h \in Nat : h = Hash[k]
  BY KeysApart
<1>3. n # 0 /\ h % n \in 0..(n - 1)
  BY <1>1
<1>4. h % (IF n = 1 THEN 1 ELSE n - 1) \in 0..(n - 1)
  BY <1>1
<1> QED BY <1>1, <1>2, <1>3, <1>4 DEF MainPosition, Positions

\* The main position of a key depends on the table's size alone.
LEMMA MainPositionSame ==
  ASSUME NEW t, NEW u, Size(u) = Size(t), NEW k
  PROVE  MainPosition(u, k) = MainPosition(t, k)
BY DEF MainPosition

-----------------------------------------------------------------------------
(* Looking a key up.                                                       *)

\* luaH_get finds the live node of a key, dead ones and collisions in its
\* chain notwithstanding.
LEMMA FindLive ==
  ASSUME NEW t, WellFormed(t), NEW k \in Keys, NEW i, i \in Positions(t),
         HasKey(t.node[i], k)
  PROVE  Find(t, k) = i
<1>1. PICK S : S = {j \in DOMAIN t.node : HasKey(t.node[j], k)}
  OBVIOUS
<1>2. /\ DOMAIN t.node = Positions(t) /\ IsLinks(Links(t), Positions(t))
      /\ Size(t) \in Nat
  BY TablePositions DEF WellFormed
<1>3. S \subseteq Positions(t) /\ i \in S /\ Keyed(t, i) /\ t.node[i].key = k
  BY <1>1, <1>2, KeysApart DEF HasKey, Keyed
<1>4. PICK p : p = MainPosition(t, k)
  OBVIOUS
<1>5. Reaches(Links(t), p, i)
  BY <1>3, <1>4 DEF WellFormed, InChain
<1>6. p \in Positions(t)
  BY <1>2, <1>4, MainPositionIn DEF Positions
<1>7. PICK r : Ranks(Links(t), r) /\ LiveFirst(t, r)
  BY DEF WellFormed, Ranked
<1>8. \A s \in S : s # i => r[i] < r[s]
  BY <1>1, <1>2, <1>3, <1>7 DEF LiveFirst, HasKey
<1>9. FirstInChain(Links(t), p, S) = i
  BY <1>2, <1>3, <1>5, <1>6, <1>7, <1>8, FirstRanked
<1> QED BY <1>1, <1>3, <1>4, <1>9 DEF Find, First

\* It finds no node for a key that no live node has.
LEMMA FindNone ==
  ASSUME NEW t, WellFormed(t), NEW k \in Keys,
         \A i \in Positions(t) : ~ HasKey(t.node[i], k)
  PROVE  Find(t, k) = None
<1>1. DOMAIN t.node = Positions(t)
  BY TablePositions DEF WellFormed
<1>2. {j \in DOMAIN t.node : HasKey(t.node[j], k)} = {}
  BY <1>1
<1> QED BY <1>2 DEF Find, First

\* No two live nodes have the same key.
LEMMA LiveOnce ==
  ASSUME NEW t, WellFormed(t), NEW k \in Keys, NEW i, i \in Positions(t), NEW j,
         j \in Positions(t), HasKey(t.node[i], k), HasKey(t.node[j], k)
  PROVE  i = j
BY FindLive

\* What Find gives is the live node of the key, if there is one.
LEMMA FindIs ==
  ASSUME NEW t, WellFormed(t), NEW k \in Keys
  PROVE  /\ Find(t, k) # None => Find(t, k) \in Positions(t)
                                 /\ HasKey(t.node[Find(t, k)], k)
         /\ Find(t, k) = None => \A i \in Positions(t) : ~ HasKey(t.node[i], k)
<1>1. None \notin Positions(t)
  BY TablePositions DEF WellFormed
<1>2. CASE \E i \in Positions(t) : HasKey(t.node[i], k)
  BY <1>1, <1>2, FindLive
<1>3. CASE \A i \in Positions(t) : ~ HasKey(t.node[i], k)
  BY <1>3, FindNone
<1> QED BY <1>2, <1>3

\* A key of the array part is looked up there.
LEMMA GetSlot ==
  ASSUME NEW t, NEW k, k \in Nat, InArray(t, k)
  PROVE  Get(t, k) = t.array[k]
BY DEF Get

\* Any other key has the value of its live node,
LEMMA GetNode ==
  ASSUME NEW t, WellFormed(t), NEW k \in Keys, NEW i, i \in Positions(t),
         HasKey(t.node[i], k)
  PROVE  Get(t, k) = t.node[i].val
<1>1. Find(t, k) = i /\ None \notin Positions(t)
  BY FindLive, TablePositions DEF WellFormed
<1>2. ~ InArray(t, k)
  BY KeysApart DEF WellFormed, Entries, HasKey, InArray, Keyed
<1> QED BY <1>1, <1>2 DEF Get

\* or nil without one.
LEMMA GetNothing ==
  ASSUME NEW t, WellFormed(t), NEW k \in Keys, ~ InArray(t, k),
         \A i \in Positions(t) : ~ HasKey(t.node[i], k)
  PROVE  Get(t, k) = Nil
BY FindNone DEF Get

\* What is looked up is a value or nil, and only keys have values.
LEMMA GetType ==
  ASSUME NEW t, WellFormed(t), NEW k
  PROVE  Get(t, k) \in Slot /\ (Get(t, k) # Nil => k \in Keys)
<1>1. CASE k \in Nat /\ InArray(t, k)
  <2>1. t.array \in Seq(Slot)
    BY DEF WellFormed, IsTable
  <2>2. t.array[k] \in Slot /\ (t.array[k] # Nil => k \in IntKeys)
    BY <1>1, <2>1 DEF WellFormed, Entries, InArray
  <2> QED BY <1>1, <2>2 DEF Get, Keys
<1>2. CASE ~ (k \in Nat /\ InArray(t, k))
  <2>1. CASE k \in Keys /\ Find(t, k) # None
    <3>1. t.node[Find(t, k)].val \in Slot
      BY <2>1, FindIs, TablePositions DEF WellFormed, NodeType
    <3> QED BY <1>2, <2>1, <3>1 DEF Get
  <2>2. CASE ~ (k \in Keys /\ Find(t, k) # None)
    BY <1>2, <2>2 DEF Get, Slot
  <2> QED BY <2>1, <2>2
<1> QED BY <1>1, <1>2

\* The free position, if there is a node without a key.
LEMMA FreePositionIs ==
  ASSUME NEW t, WellFormed(t)
  PROVE  /\ FreePosition(t) = None => \A i \in Positions(t) : Keyed(t, i)
         /\ FreePosition(t) # None =>
              /\ FreePosition(t) \in Positions(t)
              /\ ~ Keyed(t, FreePosition(t))
              /\ \A i \in Positions(t) : ~ Keyed(t, i) => i <= FreePosition(t)
<1>1. DOMAIN t.node = Positions(t) /\ Size(t) \in Nat /\ None \notin Positions(t)
  BY TablePositions DEF WellFormed
<1>2. PICK free : free = {i \in DOMAIN t.node : i < t.lastfree /\ t.node[i].key = Nil}
  OBVIOUS
<1>3. free = {i \in Positions(t) : ~ Keyed(t, i)}
  BY <1>1, <1>2 DEF WellFormed, Free, Keyed
<1>4. FreePosition(t) = IF free = {} THEN None ELSE Max(free)
  BY <1>2 DEF FreePosition
<1>5. free # {} => Max(free) \in free /\ \A m \in free : m <= Max(free)
  <2>1. free \subseteq Nat /\ \A m \in free : m <= Size(t)
    BY <1>1, <1>3 DEF Positions
  <2> QED BY <1>1, <2>1, MaxNat
<1> QED BY <1>1, <1>3, <1>4, <1>5

-----------------------------------------------------------------------------
(* A new key.                                                              *)

\* The nodes n and m hold the same entry.
Same(n, m) == n.key = m.key /\ n.dead = m.dead /\ n.val = m.val

\* u is t with the key k and its value in a node, and what had a value in t.
Inserted(t, u, k, v) ==
  /\ Size(u) = Size(t) /\ u.array = t.array
  /\ \E i \in Positions(t) : HasKey(u.node[i], k) /\ u.node[i].val = v
  /\ \A j \in Positions(t) : \/ HasKey(u.node[j], k) /\ u.node[j].val = v
                             \/ \E i \in Positions(t) : Same(u.node[j], t.node[i])
  /\ \A i \in Positions(t) :
       t.node[i].val # Nil => \E j \in Positions(t) : Same(u.node[j], t.node[i])

\* The key k may be put into a node of t: it has no live node.
Absent(t, k) ==
  /\ Size(t) # 0
  /\ ~ InArray(t, k)
  /\ \A i \in Positions(t) : ~ HasKey(t.node[i], k)

\* newkey takes a main position without a value.
LEMMA OccupyKeeps ==
  ASSUME NEW t, WellFormed(t), NEW k \in Keys, NEW v \in Slot, Absent(t, k),
         NEW p, p = MainPosition(t, k), t.node[p].val = Nil
  PROVE  WellFormed(Occupy(t, p, k, v)) /\ Inserted(t, Occupy(t, p, k, v), k, v)
<1>1. PICK u : u = Occupy(t, p, k, v)
  OBVIOUS
<1>2. PICK P : P = Positions(t)
  OBVIOUS
<1>3. /\ Size(t) \in Nat /\ Size(t) # 0 /\ P = 0..(Size(t) - 1)
      /\ t \in [array : Seq(Slot), node : [P -> NodeType(P)], lastfree : 0..Size(t)]
  BY <1>2 DEF WellFormed, IsTable, Positions, Absent
<1>4. p \in P
  BY <1>2, <1>3, MainPositionIn
<1>5. /\ u.array = t.array /\ u.lastfree = t.lastfree
      /\ u.node = [t.node EXCEPT ![p] = WithKey(@, k, v)]
      /\ u \in [array : Seq(Slot), node : [P -> NodeType(P)], lastfree : 0..Size(t)]
  <2>1. WithKey(t.node[p], k, v) \in NodeType(P)
    <3>1. PICK n \in NodeType(P) : n = t.node[p]
      BY <1>3, <1>4
    <3>2. [n EXCEPT !.key = k, !.dead = FALSE, !.val = v] \in NodeType(P)
      BY <3>1 DEF NodeType
    <3> QED BY <3>1, <3>2 DEF WithKey
  <2> QED BY <1>1, <1>3, <1>4, <2>1 DEF Occupy
<1>6. /\ u.node[p].key = k /\ u.node[p].dead = FALSE /\ u.node[p].val = v
      /\ u.node[p].next = t.node[p].next
      /\ \A i \in P : i # p => u.node[i] = t.node[i]
  BY <1>3, <1>4, <1>5 DEF WithKey, NodeType
<1>7. Size(u) = Size(t) /\ Positions(u) = P
  BY <1>2, <1>3, <1>5 DEF Size, Positions
<1>8. Links(u) = Links(t)
  BY <1>3, <1>5, <1>6 DEF Links
<1>9. \A q : MainPosition(u, q) = MainPosition(t, q)
  BY <1>7, MainPositionSame
<1>10. k # Nil
  BY KeysApart
<1>11. IsTable(u)
  BY <1>2, <1>5, <1>7, <1>3 DEF IsTable
<1>12. Rooted(u)
  <2> SUFFICES ASSUME NEW i \in P, Keyed(u, i), NEW m, m = MainPosition(t, u.node[i].key)
      PROVE  Keyed(u, m) /\ MainPosition(t, u.node[m].key) = m
    BY <1>7, <1>9 DEF Rooted
  <2>1. CASE i = p
    BY <1>6, <1>10, <2>1 DEF Keyed
  <2>2. CASE i # p
    <3>1. Keyed(t, m) /\ MainPosition(t, t.node[m].key) = m /\ u.node[i].key \in Keys
      BY <1>2, <1>3, <1>6, <2>2 DEF WellFormed, Rooted, Keyed, NodeType
    <3>2. m \in P
      BY <1>2, <1>3, <3>1, MainPositionIn
    <3> QED BY <1>6, <1>10, <3>1, <3>2 DEF Keyed
  <2> QED BY <2>1, <2>2
<1>13. InChain(u)
  <2> SUFFICES ASSUME NEW i \in P, Keyed(u, i)
      PROVE  Reaches(Links(t), MainPosition(t, u.node[i].key), i)
    BY <1>7, <1>8, <1>9 DEF InChain
  <2>1. CASE i = p
    BY <1>6, <2>1 DEF Reaches
  <2>2. CASE i # p
    BY <1>2, <1>6, <2>2 DEF WellFormed, InChain, Keyed
  <2> QED BY <2>1, <2>2
<1>14. OneLink(u)
  <2>1. \A i \in P : u.node[i].next = t.node[i].next
    BY <1>6
  <2>2. \A i \in P : t.node[i].next # None => t.node[i].next \in P
    BY <1>3 DEF NodeType
  <2>3. \A i \in P : Keyed(t, i) => Keyed(u, i)
    BY <1>6, <1>10 DEF Keyed
  <2> QED BY <1>2, <1>7, <2>1, <2>2, <2>3 DEF WellFormed, OneLink
<1>15. Ranked(u)
  <2>1. PICK r : Ranks(Links(t), r) /\ LiveFirst(t, r)
    BY DEF WellFormed, Ranked
  <2>2. LiveFirst(u, r)
    <3> SUFFICES ASSUME NEW i \in P, NEW d \in P, Keyed(u, i), i # d,
                        HasKey(u.node[i], u.node[d].key)
        PROVE  r[i] < r[d]
      BY <1>7 DEF LiveFirst
    <3>1. CASE i = p
      <4>1. t.node[d].key = k /\ Keyed(t, d)
        BY <1>6, <1>10, <3>1 DEF HasKey, Keyed
      <4>2. Reaches(Links(t), p, d)
        BY <1>2, <4>1 DEF WellFormed, InChain
      <4> QED BY <1>2, <1>4, <2>1, <3>1, <4>2, ReachRanked, TablePositions DEF WellFormed
    <3>2. CASE d = p
      <4>1. HasKey(t.node[i], k)
        BY <1>6, <3>2 DEF HasKey
      <4> QED BY <1>2, <4>1 DEF Absent
    <3>3. CASE i # p /\ d # p
      BY <1>2, <1>6, <2>1, <3>3 DEF LiveFirst, Keyed
    <3> QED BY <3>1, <3>2, <3>3
  <2> QED BY <1>8, <2>1, <2>2 DEF Ranked
<1>16. Free(u)
  BY <1>2, <1>5, <1>6, <1>7, <1>10 DEF WellFormed, Free, Keyed
<1>17. Entries(u)
  BY <1>2, <1>5, <1>6, <1>7, <1>10 DEF WellFormed, Entries, Keyed, Absent, InArray
<1>18. Inserted(t, u, k, v)
  <2>1. \A j \in P : j # p => Same(u.node[j], t.node[j])
    BY <1>6 DEF Same
  <2>2. HasKey(u.node[p], k) /\ u.node[p].val = v
    BY <1>6 DEF HasKey
  <2> QED BY <1>2, <1>4, <1>5, <1>7, <2>1, <2>2 DEF Inserted
<1> QED BY <1>1, <1>11, <1>12, <1>13, <1>14, <1>15, <1>16, <1>17, <1>18 DEF WellFormed

\* A chain that a key begins goes on at the new position q behind p.
LEMMA ReachBehind ==
  ASSUME NEW link, NEW link2, NEW D, IsLinks(link, D), IsLinks(link2, D),
         NEW p, p \in D, NEW q, q \in D, p # q, link[q] = None,
         link2[p] = q, link2[q] = link[p],
         \A i \in D : i # p /\ i # q => link2[i] = link[i]
  PROVE  /\ \A m, i \in D : Reaches(link, m, i) => Reaches(link2, m, i)
         /\ Reaches(link2, p, q)
<1>1. DOMAIN link = D /\ DOMAIN link2 = D /\ None \notin D
  BY DEF IsLinks
<1>2. \A S \in SUBSET D : Closed(link2, S) => Closed(link, S)
  <2> SUFFICES ASSUME NEW S \in SUBSET D, Closed(link2, S), NEW i \in S, link[i] # None
      PROVE  link[i] \in S
    BY DEF Closed
  <2>1. CASE i = p
    <3>1. q \in S
      BY <1>1, <2>1 DEF Closed
    <3> QED BY <2>1, <3>1 DEF Closed
  <2>2. CASE i = q
    BY <2>2
  <2>3. CASE i # p /\ i # q
    BY <2>3 DEF Closed
  <2> QED BY <2>1, <2>2, <2>3
<1>3. \A m, i \in D : Reaches(link, m, i) => Reaches(link2, m, i)
  BY <1>1, <1>2 DEF Reaches
<1>4. Reaches(link2, p, q)
  BY <1>1 DEF Reaches, Closed
<1> QED BY <1>3, <1>4

\* A position moves from p to q: what was reached still is, q for p.
LEMMA ReachMoved ==
  ASSUME NEW link, NEW link2, NEW D, IsLinks(link, D), IsLinks(link2, D),
         NEW p, p \in D, NEW q, q \in D, NEW b, b \in D, p # q, b # p, b # q,
         link[q] = None, link[b] = p, link[p] # p,
         \A i \in D : link[i] = p => i = b,
         link2[b] = q, link2[q] = link[p], link2[p] = None,
         \A i \in D : i # p /\ i # q /\ i # b => link2[i] = link[i]
  PROVE  \A m, i \in D : m # p /\ Reaches(link, m, i) =>
           Reaches(link2, m, IF i = p THEN q ELSE i)
<1>1. DOMAIN link = D /\ DOMAIN link2 = D /\ None \notin D
  BY DEF IsLinks
<1> SUFFICES ASSUME NEW m \in D, NEW i \in D, m # p, Reaches(link, m, i),
                    NEW S \in SUBSET D, m \in S, Closed(link2, S)
    PROVE  (IF i = p THEN q ELSE i) \in S
  BY <1>1 DEF Reaches
<1>2. PICK T : T = {x \in D : IF x = p THEN q \in S ELSE x \in S}
  OBVIOUS
<1>3. Closed(link, T)
  <2> SUFFICES ASSUME NEW x \in T, link[x] # None PROVE link[x] \in T
    BY DEF Closed
  <2>1. link[x] \in D
    BY <1>2 DEF IsLinks
  <2>2. CASE x = p
    BY <1>1, <1>2, <2>1, <2>2 DEF Closed
  <2>3. CASE x = b
    <3>1. q \in S
      BY <1>1, <1>2, <2>3 DEF Closed
    <3> QED BY <1>2, <2>3, <3>1
  <2>4. CASE x # p /\ x # b
    <3>1. x \in S /\ x # q /\ link[x] # p /\ link2[x] = link[x]
      BY <1>2, <2>4
    <3>2. link[x] \in S
      BY <3>1 DEF Closed
    <3> QED BY <1>2, <2>1, <3>1, <3>2
  <2> QED BY <2>2, <2>3, <2>4
<1>4. T \in SUBSET D /\ m \in T
  BY <1>2
<1>5. i \in T
  BY <1>1, <1>3, <1>4 DEF Reaches
<1> QED BY <1>2, <1>5

\* What is reached from elsewhere is reached over a link to it.
LEMMA ReachedOver ==
  ASSUME NEW link, NEW D, IsLinks(link, D), NEW m, m \in D, NEW p, p \in D, m # p,
         Reaches(link, m, p)
  PROVE  \E b \in D : Reaches(link, m, b) /\ link[b] = p
<1>1. DOMAIN link = D /\ link \in [D -> D \cup {None}] /\ None \notin D
  BY DEF IsLinks
<1> SUFFICES ASSUME \A b \in D : Reaches(link, m, b) => link[b] # p PROVE FALSE
  OBVIOUS
<1>2. PICK T : T = {x \in D : Reaches(link, m, x) /\ x # p}
  OBVIOUS
<1>3. m \in T
  BY <1>1, <1>2 DEF Reaches
<1>4. Closed(link, T)
  <2> SUFFICES ASSUME NEW x \in T, link[x] # None PROVE link[x] \in T
    BY DEF Closed
  <2>1. link[x] \in D /\ link[x] # p
    BY <1>1, <1>2
  <2>2. Reaches(link, m, link[x])
    BY <1>1, <1>2 DEF Reaches, Closed
  <2> QED BY <1>2, <2>1, <2>2
<1>5. T \in SUBSET D
  BY <1>2
<1>6. p \in T
  BY <1>1, <1>3, <1>4, <1>5 DEF Reaches
<1> QED BY <1>2, <1>6

\* newkey leaves the colliding node in its main position, and chains the new
\* one behind it.
LEMMA ChainBehindKeeps ==
  ASSUME NEW t, WellFormed(t), NEW k \in Keys, NEW v \in Slot, Absent(t, k),
         NEW p, p = MainPosition(t, k), t.node[p].val # Nil,
         MainPosition(t, t.node[p].key) = p,
         NEW q, q = FreePosition(t), q # None
  PROVE  /\ WellFormed(ChainBehind(t, p, q, k, v))
         /\ Inserted(t, ChainBehind(t, p, q, k, v), k, v)
<1>1. PICK u : u = ChainBehind(t, p, q, k, v)
  OBVIOUS
<1>2. PICK P : P = Positions(t)
  OBVIOUS
<1>3. /\ Size(t) \in Nat /\ Size(t) # 0 /\ P = 0..(Size(t) - 1)
      /\ t \in [array : Seq(Slot), node : [P -> NodeType(P)], lastfree : 0..Size(t)]
  BY <1>2 DEF WellFormed, IsTable, Positions, Absent
<1>4. p \in P /\ Keyed(t, p) /\ ~ t.node[p].dead
  <2>1. p \in P
    BY <1>2, <1>3, MainPositionIn
  <2> QED BY <1>2, <2>1 DEF WellFormed, Entries
<1>5. /\ q \in P /\ ~ Keyed(t, q) /\ p # q /\ t.node[q] = EmptyNode
      /\ \A i \in P : ~ Keyed(t, i) => i <= q
  BY <1>2, <1>4, FreePositionIs DEF WellFormed, Free
<1>6. PICK new : new = WithKey([EmptyNode EXCEPT !.next = t.node[p].next], k, v)
  OBVIOUS
<1>7. /\ new.key = k /\ new.dead = FALSE /\ new.val = v /\ new.next = t.node[p].next
      /\ new \in NodeType(P)
  <2>1. new = [key |-> k, dead |-> FALSE, val |-> v, next |-> t.node[p].next]
    BY <1>6 DEF WithKey, EmptyNode
  <2>2. t.node[p].next \in P \cup {None}
    BY <1>3, <1>4 DEF NodeType
  <2> QED BY <2>1, <2>2 DEF NodeType
<1>8. PICK old : old = [t.node[p] EXCEPT !.next = q]
  OBVIOUS
<1>9. /\ old.key = t.node[p].key /\ old.dead = t.node[p].dead /\ old.val = t.node[p].val
      /\ old.next = q /\ old \in NodeType(P)
  <2>1. PICK n \in NodeType(P) : n = t.node[p]
    BY <1>3, <1>4
  <2> QED BY <1>5, <1>8, <2>1 DEF NodeType
<1>10. /\ u.array = t.array /\ u.lastfree = q
       /\ u.node = [i \in P |-> IF i = q THEN new ELSE IF i = p THEN old ELSE t.node[i]]
       /\ u \in [array : Seq(Slot), node : [P -> NodeType(P)], lastfree : 0..Size(t)]
  <2>1. u = [array |-> t.array, lastfree |-> q,
             node |-> [[t.node EXCEPT ![q] = new] EXCEPT ![p].next = q]]
    BY <1>1, <1>3, <1>6 DEF ChainBehind
  <2>2. [[t.node EXCEPT ![q] = new] EXCEPT ![p].next = q]
          = [i \in P |-> IF i = q THEN new ELSE IF i = p THEN old ELSE t.node[i]]
    BY <1>3, <1>4, <1>5, <1>8
  <2>3. u.node \in [P -> NodeType(P)]
    BY <1>3, <1>7, <1>9, <2>1, <2>2
  <2>4. q \in 0..Size(t) /\ t.array \in Seq(Slot)
    BY <1>3, <1>5
  <2>5. u.array = t.array /\ u.lastfree = q
    BY <2>1
  <2>6. u = [array |-> u.array, node |-> u.node, lastfree |-> u.lastfree]
    BY <2>1
  <2> QED BY <2>1, <2>2, <2>3, <2>4, <2>5, <2>6
<1>11. u.node[q] = new /\ u.node[p] = old /\ \A i \in P : i # p /\ i # q => u.node[i] = t.node[i]
  BY <1>4, <1>5, <1>10
<1>12. Size(u) = Size(t) /\ Positions(u) = P
  BY <1>2, <1>3, <1>10 DEF Size, Positions
<1>13. \A x : MainPosition(u, x) = MainPosition(t, x)
  BY <1>12, MainPositionSame
<1>14. k # Nil
  BY KeysApart
<1>15. IsTable(u)
  BY <1>2, <1>10, <1>12, <1>3 DEF IsTable
<1>16. \A i \in P : i # q => Keyed(u, i) = Keyed(t, i) /\ u.node[i].key = t.node[i].key
                            /\ u.node[i].dead = t.node[i].dead
                            /\ u.node[i].val = t.node[i].val
  BY <1>9, <1>11 DEF Keyed
<1>17. Keyed(u, q)
  BY <1>7, <1>11, <1>14 DEF Keyed
<1>18. PICK l : l = Links(t)
  OBVIOUS
<1>19. PICK l2 : l2 = Links(u)
  OBVIOUS
<1>20. /\ IsLinks(l, P) /\ IsLinks(l2, P) /\ None \notin P
       /\ \A i \in P : l[i] = t.node[i].next /\ l2[i] = u.node[i].next
  BY <1>2, <1>12, <1>15, <1>18, <1>19, TablePositions DEF WellFormed
<1>21. /\ l[q] = None /\ l2[p] = q /\ l2[q] = l[p]
       /\ \A i \in P : i # p /\ i # q => l2[i] = l[i]
       /\ \A i \in P : l[i] # q
  <2>1. l[q] = None
    BY <1>5, <1>20 DEF EmptyNode
  <2>2. \A i \in P : l[i] # q
    BY <1>2, <1>5, <1>20 DEF WellFormed, OneLink
  <2> QED BY <1>4, <1>5, <1>7, <1>9, <1>11, <1>20, <2>1, <2>2
<1>22. Rooted(u)
  <2> SUFFICES ASSUME NEW i \in P, Keyed(u, i), NEW m, m = MainPosition(t, u.node[i].key)
      PROVE  Keyed(u, m) /\ MainPosition(t, u.node[m].key) = m
    BY <1>12, <1>13 DEF Rooted
  <2>1. CASE i = q
    <3>1. m = p
      BY <1>7, <1>11, <2>1
    <3> QED BY <1>4, <1>5, <1>16, <3>1
  <2>2. CASE i # q
    <3>1. Keyed(t, m) /\ MainPosition(t, t.node[m].key) = m /\ u.node[i].key \in Keys
      BY <1>2, <1>3, <1>16, <2>2 DEF WellFormed, Rooted, Keyed, NodeType
    <3>2. m \in P /\ m # q
      BY <1>2, <1>3, <1>5, <3>1, MainPositionIn
    <3> QED BY <1>16, <3>1, <3>2
  <2> QED BY <2>1, <2>2
<1>23. InChain(u)
  <2> SUFFICES ASSUME NEW i \in P, Keyed(u, i)
      PROVE  Reaches(l2, MainPosition(t, u.node[i].key), i)
    BY <1>12, <1>13, <1>19 DEF InChain
  <2>1. CASE i = q
    <3>1. Reaches(l2, p, q)
      BY <1>4, <1>5, <1>20, <1>21, ReachBehind
    <3> QED BY <1>7, <1>11, <2>1, <3>1
  <2>2. CASE i # q
    <3>1. PICK m : m = MainPosition(t, u.node[i].key)
      OBVIOUS
    <3>2. Reaches(l, m, i) /\ u.node[i].key \in Keys
      BY <1>2, <1>3, <1>16, <1>18, <2>2, <3>1 DEF WellFormed, InChain, Keyed, NodeType
    <3>3. m \in P
      BY <1>2, <1>3, <3>1, <3>2, MainPositionIn
    <3>4. Reaches(l2, m, i)
      BY <1>4, <1>5, <1>20, <1>21, <3>2, <3>3, ReachBehind
    <3> QED BY <3>1, <3>4
  <2> QED BY <2>1, <2>2
<1>24. OneLink(u)
  <2>1. \A i \in P : l[i] # None => l[i] \in P /\ Keyed(t, l[i])
                                    /\ \A j \in P : l[j] = l[i] => i = j
    BY <1>2, <1>20 DEF WellFormed, OneLink, IsLinks
  <2>2. \A i \in P : l2[i] # None => Keyed(u, l2[i]) /\ \A j \in P : l2[j] = l2[i] => i = j
    <3> SUFFICES ASSUME NEW i \in P, l2[i] # None
        PROVE  Keyed(u, l2[i]) /\ \A j \in P : l2[j] = l2[i] => i = j
      OBVIOUS
    <3>1. CASE i = p
      BY <1>5, <1>17, <1>21, <3>1
    <3>2. CASE i = q
      BY <1>4, <1>16, <1>21, <2>1, <3>2
    <3>3. CASE i # p /\ i # q
      BY <1>4, <1>16, <1>21, <2>1, <3>3
    <3> QED BY <3>1, <3>2, <3>3
  <2> QED BY <1>12, <1>20, <2>2 DEF OneLink
<1>25. Ranked(u)
  <2>1. PICK r : Ranks(l, r) /\ LiveFirst(t, r)
    BY <1>18 DEF WellFormed, Ranked
  <2>2. PICK s : s = [x \in P |-> IF x = q THEN 2 * r[p] + 1 ELSE 2 * r[x]]
    OBVIOUS
  <2>3. /\ r \in [P -> Nat] /\ \A i \in P : l[i] # None => l[i] \in P /\ r[i] < r[l[i]]
    BY <1>20, <2>1 DEF Ranks, IsLinks
  <2>4. Ranks(l2, s)
    <3>1. s \in [P -> Nat]
      BY <1>4, <2>2, <2>3
    <3>2. ASSUME NEW i \in P, l2[i] # None PROVE s[i] < s[l2[i]]
      <4>1. CASE i = p
        BY <1>4, <1>5, <1>21, <2>2, <2>3, <4>1
      <4>2. CASE i = q
        BY <1>4, <1>5, <1>21, <2>2, <2>3, <3>2, <4>2
      <4>3. CASE i # p /\ i # q
        BY <1>5, <1>21, <2>2, <2>3, <3>2, <4>3
      <4> QED BY <4>1, <4>2, <4>3
    <3> QED BY <1>20, <3>1, <3>2 DEF Ranks, IsLinks
  <2>5. LiveFirst(u, s)
    <3> SUFFICES ASSUME NEW i \in P, NEW d \in P, Keyed(u, i), i # d,
                        HasKey(u.node[i], u.node[d].key)
        PROVE  s[i] < s[d]
      BY <1>12 DEF LiveFirst
    <3>1. CASE i = q
      <4>1. t.node[d].key = k /\ Keyed(t, d)
        BY <1>7, <1>11, <1>14, <1>16, <3>1 DEF HasKey, Keyed
      <4>2. d # p
        BY <1>2, <1>4, <4>1 DEF Absent, HasKey
      <4>3. Reaches(l, p, d)
        BY <1>2, <1>18, <4>1 DEF WellFormed, InChain
      <4>4. r[p] < r[d]
        BY <1>4, <1>20, <2>1, <4>2, <4>3, ReachRanked
      <4> QED BY <1>4, <2>2, <2>3, <3>1, <4>4
    <3>2. CASE d = q
      <4>1. HasKey(t.node[i], k)
        BY <1>7, <1>11, <1>16, <3>2 DEF HasKey
      <4> QED BY <1>2, <4>1 DEF Absent
    <3>3. CASE i # q /\ d # q
      <4>1. r[i] < r[d]
        BY <1>2, <1>16, <2>1, <3>3 DEF LiveFirst, HasKey
      <4> QED BY <2>2, <2>3, <3>3, <4>1
    <3> QED BY <3>1, <3>2, <3>3
  <2> QED BY <1>19, <2>4, <2>5 DEF Ranked
<1>26. Free(u)
  <2> SUFFICES ASSUME NEW i \in P, ~ Keyed(u, i) PROVE u.node[i] = EmptyNode /\ i < q
    BY <1>10, <1>12 DEF Free
  <2>1. i # q /\ i # p /\ ~ Keyed(t, i)
    BY <1>4, <1>16, <1>17
  <2> QED BY <1>2, <1>3, <1>5, <1>11, <2>1 DEF WellFormed, Free
<1>27. Entries(u)
  <2>1. ASSUME NEW i \in P
        PROVE  /\ u.node[i].val # Nil => Keyed(u, i) /\ ~ u.node[i].dead
               /\ Keyed(u, i) => u.node[i].key \notin 1..Len(t.array)
    <3>1. CASE i = q
      BY <1>7, <1>11, <1>17, <3>1 DEF Absent, InArray
    <3>2. CASE i # q
      BY <1>2, <1>16, <3>2 DEF WellFormed, Entries
    <3> QED BY <3>1, <3>2
  <2> QED BY <1>10, <1>12, <2>1 DEF WellFormed, Entries
<1>28. Inserted(t, u, k, v)
  <2>1. \A i \in P : i # q => Same(u.node[i], t.node[i])
    BY <1>16 DEF Same
  <2>2. HasKey(u.node[q], k) /\ u.node[q].val = v
    BY <1>7, <1>11 DEF HasKey
  <2>3. t.node[q].val = Nil
    BY <1>5 DEF EmptyNode
  <2> QED BY <1>2, <1>5, <1>10, <1>12, <2>1, <2>2, <2>3 DEF Inserted, Same
<1> QED BY <1>1, <1>15, <1>22, <1>23, <1>24, <1>25, <1>26, <1>27, <1>28 DEF WellFormed

\* The node before the one that moves is found.
LEMMA BeforeIs ==
  ASSUME NEW t, WellFormed(t), NEW p, p \in Positions(t), Keyed(t, p),
         MainPosition(t, t.node[p].key) # p,
         NEW b, b = First(t, t.node[p].key, {i \in DOMAIN t.node : t.node[i].next = p})
  PROVE  b \in Positions(t) /\ t.node[b].next = p
<1>1. PICK P : P = Positions(t)
  OBVIOUS
<1>2. PICK l : l = Links(t)
  OBVIOUS
<1>3. /\ IsLinks(l, P) /\ DOMAIN t.node = P /\ \A i \in P : l[i] = t.node[i].next
      /\ t.node[p].key \in Keys /\ Size(t) # 0 /\ Size(t) \in Nat
  <2>1. t.node[p].key \in Keys
    BY TablePositions DEF WellFormed, NodeType, Keyed
  <2>2. Size(t) # 0
    BY TablePositions DEF WellFormed, Positions
  <2> QED BY <1>1, <1>2, <2>1, <2>2, TablePositions DEF WellFormed
<1>4. PICK m : m = MainPosition(t, t.node[p].key)
  OBVIOUS
<1>5. m \in P /\ m # p /\ Reaches(l, m, p)
  BY <1>1, <1>2, <1>3, <1>4, MainPositionIn DEF WellFormed, InChain
<1>6. PICK S : S = {i \in P : t.node[i].next = p}
  OBVIOUS
<1>7. PICK c \in P : Reaches(l, m, c) /\ l[c] = p
  BY <1>1, <1>3, <1>5, ReachedOver
<1>8. c \in S /\ S \subseteq P
  BY <1>3, <1>6, <1>7
<1>9. FirstInChain(l, m, S) \in S
  BY <1>3, <1>5, <1>7, <1>8, FirstFound
<1> QED BY <1>1, <1>2, <1>3, <1>4, <1>6, <1>8, <1>9 DEF First

\* newkey moves the colliding node, which is not in its main position, to the
\* free one, with the link to it.
LEMMA MoveAwayKeeps ==
  ASSUME NEW t, WellFormed(t), NEW k \in Keys, NEW v \in Slot, Absent(t, k),
         NEW p, p = MainPosition(t, k), t.node[p].val # Nil,
         MainPosition(t, t.node[p].key) # p,
         NEW q, q = FreePosition(t), q # None
  PROVE  /\ WellFormed(MoveAway(t, p, q, k, v))
         /\ Inserted(t, MoveAway(t, p, q, k, v), k, v)
<1>1. PICK u : u = MoveAway(t, p, q, k, v)
  OBVIOUS
<1>2. PICK P : P = Positions(t)
  OBVIOUS
<1>3. /\ Size(t) \in Nat /\ Size(t) # 0 /\ P = 0..(Size(t) - 1)
      /\ t \in [array : Seq(Slot), node : [P -> NodeType(P)], lastfree : 0..Size(t)]
  BY <1>2 DEF WellFormed, IsTable, Positions, Absent
<1>4. p \in P /\ Keyed(t, p) /\ ~ t.node[p].dead
  <2>1. p \in P
    BY <1>2, <1>3, MainPositionIn
  <2> QED BY <1>2, <2>1 DEF WellFormed, Entries
<1>5. /\ q \in P /\ ~ Keyed(t, q) /\ p # q /\ t.node[q] = EmptyNode
      /\ \A i \in P : ~ Keyed(t, i) => i <= q
  BY <1>2, <1>4, FreePositionIs DEF WellFormed, Free
<1>6. PICK b : b = First(t, t.node[p].key, {i \in DOMAIN t.node : t.node[i].next = p})
  OBVIOUS
<1>7. b \in P /\ t.node[b].next = p
  BY <1>2, <1>4, <1>6, BeforeIs
<1>8. PICK l : l = Links(t)
  OBVIOUS
<1>9. /\ IsLinks(l, P) /\ None \notin P
      /\ \A i \in P : l[i] = t.node[i].next
  BY <1>2, <1>8, TablePositions DEF WellFormed
<1>10. PICK r : Ranks(l, r) /\ LiveFirst(t, r)
  BY <1>8 DEF WellFormed, Ranked
<1>11. r \in [P -> Nat] /\ \A i \in P : l[i] # None => l[i] \in P /\ r[i] < r[l[i]]
  BY <1>9, <1>10 DEF Ranks, IsLinks
<1>12. /\ l[q] = None /\ l[b] = p /\ b # p /\ b # q /\ l[p] # p
       /\ \A i \in P : l[i] = p => i = b
       /\ \A i \in P : l[i] # q
  <2>1. l[q] = None
    BY <1>5, <1>9 DEF EmptyNode
  <2>2. \A i \in P : l[i] # q
    BY <1>2, <1>5, <1>9 DEF WellFormed, OneLink
  <2>3. l[b] = p /\ l[b] # None
    BY <1>4, <1>7, <1>9
  <2>4. \A i \in P : l[i] = p => i = b
    BY <1>2, <1>4, <1>7, <1>9 DEF WellFormed, OneLink
  <2>5. b # p /\ l[p] # p
    BY <1>4, <1>7, <1>11, <2>3
  <2> QED BY <2>1, <2>2, <2>3, <2>4, <2>5
<1>13. PICK new : new = WithKey(EmptyNode, k, v)
  OBVIOUS
<1>14. /\ new.key = k /\ new.dead = FALSE /\ new.val = v /\ new.next = None
       /\ new \in NodeType(P)
  <2>1. new = [key |-> k, dead |-> FALSE, val |-> v, next |-> None]
    BY <1>13 DEF WithKey, EmptyNode
  <2> QED BY <2>1 DEF NodeType
<1>15. PICK old : old = [t.node[b] EXCEPT !.next = q]
  OBVIOUS
<1>16. /\ old.key = t.node[b].key /\ old.dead = t.node[b].dead /\ old.val = t.node[b].val
       /\ old.next = q /\ old \in NodeType(P)
  <2>1. PICK n \in NodeType(P) : n = t.node[b]
    BY <1>3, <1>7
  <2> QED BY <1>5, <1>15, <2>1 DEF NodeType
<1>17. /\ u.array = t.array /\ u.lastfree = q
       /\ u.node = [i \in P |-> IF i = p THEN new ELSE IF i = q THEN t.node[p]
                                ELSE IF i = b THEN old ELSE t.node[i]]
       /\ u \in [array : Seq(Slot), node : [P -> NodeType(P)], lastfree : 0..Size(t)]
  <2>1. PICK n : n = [t.node EXCEPT ![b].next = q]
    OBVIOUS
  <2>2. u = [array |-> t.array, lastfree |-> q,
             node |-> [[n EXCEPT ![q] = t.node[p]] EXCEPT ![p] = new]]
    BY <1>1, <1>3, <1>6, <1>13, <2>1 DEF MoveAway
  <2>3. n = [i \in P |-> IF i = b THEN old ELSE t.node[i]]
    BY <1>3, <1>7, <1>15, <2>1
  <2>4. u.node = [i \in P |-> IF i = p THEN new ELSE IF i = q THEN t.node[p]
                              ELSE IF i = b THEN old ELSE t.node[i]]
    BY <1>4, <1>5, <1>7, <2>2, <2>3
  <2>5. u.node \in [P -> NodeType(P)]
    BY <1>3, <1>4, <1>14, <1>16, <2>4
  <2>6. q \in 0..Size(t) /\ t.array \in Seq(Slot)
    BY <1>3, <1>5
  <2>7. u.array = t.array /\ u.lastfree = q
    BY <2>2
  <2>8. u = [array |-> u.array, node |-> u.node, lastfree |-> u.lastfree]
    BY <2>2
  <2> QED BY <2>4, <2>5, <2>6, <2>7, <2>8
<1>18. /\ u.node[p] = new /\ u.node[q] = t.node[p] /\ u.node[b] = old
       /\ \A i \in P : i # p /\ i # q /\ i # b => u.node[i] = t.node[i]
  BY <1>4, <1>5, <1>7, <1>12, <1>17
<1>19. Size(u) = Size(t) /\ Positions(u) = P
  BY <1>2, <1>3, <1>17 DEF Size, Positions
<1>20. \A x : MainPosition(u, x) = MainPosition(t, x)
  BY <1>19, MainPositionSame
<1>21. k # Nil
  BY KeysApart
<1>22. IsTable(u)
  BY <1>2, <1>17, <1>19, <1>3 DEF IsTable
<1>23. /\ \A i \in P : i # p /\ i # q => Same(u.node[i], t.node[i])
       /\ Same(u.node[q], t.node[p])
  BY <1>16, <1>18 DEF Same
<1>24. Keyed(u, p) /\ Keyed(u, q) /\ \A i \in P : i # p /\ i # q => Keyed(u, i) = Keyed(t, i)
  BY <1>4, <1>14, <1>18, <1>21, <1>23 DEF Keyed, Same
<1>25. PICK l2 : l2 = Links(u)
  OBVIOUS
<1>26. IsLinks(l2, P) /\ \A i \in P : l2[i] = u.node[i].next
  BY <1>19, <1>22, <1>25, TablePositions
<1>27. /\ l2[b] = q /\ l2[q] = l[p] /\ l2[p] = None
       /\ \A i \in P : i # p /\ i # q /\ i # b => l2[i] = l[i]
  BY <1>4, <1>5, <1>7, <1>9, <1>14, <1>16, <1>18, <1>26
\* Nothing had the main position p.
<1>28. \A i \in P : Keyed(t, i) => MainPosition(t, t.node[i].key) # p
                                   /\ MainPosition(t, t.node[i].key) \in P
                                   /\ MainPosition(t, t.node[i].key) # q
  <2> SUFFICES ASSUME NEW i \in P, Keyed(t, i), NEW m, m = MainPosition(t, t.node[i].key)
      PROVE  m # p /\ m \in P /\ m # q
    OBVIOUS
  <2>1. Keyed(t, m) /\ MainPosition(t, t.node[m].key) = m
    BY <1>2 DEF WellFormed, Rooted
  <2>2. t.node[i].key \in Keys
    BY <1>3 DEF Keyed, NodeType
  <2> QED BY <1>2, <1>3, <1>5, <2>1, <2>2, MainPositionIn
<1>29. Rooted(u)
  <2> SUFFICES ASSUME NEW i \in P, Keyed(u, i), NEW m, m = MainPosition(t, u.node[i].key)
      PROVE  Keyed(u, m) /\ MainPosition(t, u.node[m].key) = m
    BY <1>19, <1>20 DEF Rooted
  <2>1. CASE i = p
    BY <1>14, <1>18, <1>24, <2>1
  <2>2. CASE i # p
    <3>1. PICK j \in P : Keyed(t, j) /\ t.node[j].key = u.node[i].key
      BY <1>4, <1>23, <1>24, <2>2 DEF Same
    <3>2. Keyed(t, m) /\ MainPosition(t, t.node[m].key) = m
      BY <1>2, <3>1 DEF WellFormed, Rooted
    <3>3. m # p /\ m # q /\ m \in P
      BY <1>28, <3>1
    <3> QED BY <1>23, <1>24, <3>2, <3>3 DEF Same
  <2> QED BY <2>1, <2>2
<1>30. InChain(u)
  <2> SUFFICES ASSUME NEW i \in P, Keyed(u, i)
      PROVE  Reaches(l2, MainPosition(t, u.node[i].key), i)
    BY <1>19, <1>20, <1>25 DEF InChain
  <2>1. CASE i = p
    BY <1>14, <1>18, <2>1 DEF Reaches
  <2>2. CASE i # p
    <3>1. PICK j \in P : /\ Keyed(t, j) /\ t.node[j].key = u.node[i].key
                         /\ i = IF j = p THEN q ELSE j
      BY <1>4, <1>5, <1>23, <1>24, <2>2 DEF Same
    <3>2. PICK m : m = MainPosition(t, t.node[j].key)
      OBVIOUS
    <3>3. Reaches(l, m, j) /\ m \in P /\ m # p
      BY <1>2, <1>8, <1>28, <3>1, <3>2 DEF WellFormed, InChain
    <3>4. Reaches(l2, m, IF j = p THEN q ELSE j)
      BY <1>4, <1>5, <1>7, <1>9, <1>12, <1>26, <1>27, <3>3, ReachMoved
    <3> QED BY <3>1, <3>2, <3>4
  <2> QED BY <2>1, <2>2
<1>31. OneLink(u)
  <2>1. \A i \in P : l[i] # None => l[i] \in P /\ Keyed(t, l[i])
                                    /\ \A j \in P : l[j] = l[i] => i = j
    BY <1>2, <1>9 DEF WellFormed, OneLink, IsLinks
  <2>2. \A i \in P : l2[i] # None => Keyed(u, l2[i]) /\ \A j \in P : l2[j] = l2[i] => i = j
    <3> SUFFICES ASSUME NEW i \in P, l2[i] # None
        PROVE  Keyed(u, l2[i]) /\ \A j \in P : l2[j] = l2[i] => i = j
      OBVIOUS
    <3>1. CASE i = p
      BY <1>27, <3>1
    <3>2. CASE i = q
      BY <1>4, <1>12, <1>24, <1>27, <2>1, <3>2
    <3>3. CASE i = b
      BY <1>5, <1>12, <1>24, <1>27, <2>1, <3>3
    <3>4. CASE i # p /\ i # q /\ i # b
      BY <1>4, <1>12, <1>24, <1>27, <2>1, <3>4
    <3> QED BY <3>1, <3>2, <3>3, <3>4
  <2> QED BY <1>19, <1>26, <2>2 DEF OneLink
<1>32. Ranked(u)
  <2>1. PICK s : s = [x \in P |-> IF x = q THEN r[p] ELSE r[x]]
    OBVIOUS
  <2>2. Ranks(l2, s)
    <3>1. s \in [P -> Nat]
      BY <1>4, <1>11, <2>1
    <3>2. ASSUME NEW i \in P, l2[i] # None PROVE s[i] < s[l2[i]]
      <4>1. CASE i = b
        BY <1>4, <1>5, <1>11, <1>12, <1>27, <2>1, <4>1
      <4>2. CASE i = q
        BY <1>4, <1>5, <1>11, <1>12, <1>27, <2>1, <3>2, <4>2
      <4>3. CASE i # p /\ i # q /\ i # b
        BY <1>11, <1>12, <1>27, <2>1, <3>2, <4>3
      <4> QED BY <1>27, <3>2, <4>1, <4>2, <4>3
    <3> QED BY <1>26, <3>1, <3>2 DEF Ranks, IsLinks
  <2>3. LiveFirst(u, s)
    <3> SUFFICES ASSUME NEW i \in P, NEW d \in P, Keyed(u, i), i # d,
                        HasKey(u.node[i], u.node[d].key)
        PROVE  s[i] < s[d]
      BY <1>19 DEF LiveFirst
    <3>1. ASSUME NEW x \in P, x # p
          PROVE  \E y \in P : /\ Same(u.node[x], t.node[y]) /\ s[x] = r[y]
                              /\ x = IF y = p THEN q ELSE y
      BY <1>4, <1>5, <1>23, <2>1, <3>1
    <3>2. \A x \in P : x # p => u.node[x].key # k \/ ~ Keyed(u, x)
      <4> SUFFICES ASSUME NEW x \in P, x # p, Keyed(u, x), u.node[x].key = k PROVE FALSE
        OBVIOUS
      <4>1. PICK y \in P : Same(u.node[x], t.node[y])
        BY <3>1
      <4>2. Keyed(t, y) /\ t.node[y].key = k
        BY <4>1 DEF Same, Keyed
      <4> QED BY <1>28, <4>2
    <3>3. i # p /\ d # p
      BY <1>14, <1>18, <1>21, <3>2 DEF HasKey, Keyed
    <3>4. PICK y \in P : /\ Same(u.node[i], t.node[y]) /\ s[i] = r[y]
                         /\ i = IF y = p THEN q ELSE y
      BY <3>1, <3>3
    <3>5. PICK z \in P : /\ Same(u.node[d], t.node[z]) /\ s[d] = r[z]
                         /\ d = IF z = p THEN q ELSE z
      BY <3>1, <3>3
    <3>6. y # z /\ Keyed(t, y) /\ HasKey(t.node[y], t.node[z].key)
      BY <3>4, <3>5 DEF Same, Keyed, HasKey
    <3> QED BY <1>2, <1>10, <3>4, <3>5, <3>6 DEF LiveFirst
  <2> QED BY <1>25, <2>2, <2>3 DEF Ranked
<1>33. Free(u)
  <2> SUFFICES ASSUME NEW i \in P, ~ Keyed(u, i) PROVE u.node[i] = EmptyNode /\ i < q
    BY <1>17, <1>19 DEF Free
  <2>1. i # q /\ i # p /\ ~ Keyed(t, i)
    BY <1>24
  <2>2. t.node[i] = EmptyNode /\ l[i] = None
    <3>1. t.node[i] = EmptyNode
      BY <1>2, <2>1 DEF WellFormed, Free
    <3> QED BY <1>9, <3>1 DEF EmptyNode
  <2>3. i # b
    BY <1>4, <1>9, <1>12, <2>2
  <2> QED BY <1>3, <1>5, <1>18, <2>1, <2>2, <2>3
<1>34. Entries(u)
  <2>1. ASSUME NEW i \in P
        PROVE  /\ u.node[i].val # Nil => Keyed(u, i) /\ ~ u.node[i].dead
               /\ Keyed(u, i) => u.node[i].key \notin 1..Len(t.array)
    <3>1. CASE i = p
      BY <1>14, <1>18, <1>24, <3>1 DEF Absent, InArray
    <3>2. CASE i # p
      <4>1. PICK y \in P : Same(u.node[i], t.node[y])
        BY <1>4, <1>23, <3>2
      <4>2. t.node[y].val # Nil => Keyed(t, y) /\ ~ t.node[y].dead
        BY <1>2 DEF WellFormed, Entries
      <4>3. Keyed(t, y) => t.node[y].key \notin 1..Len(t.array)
        BY <1>2 DEF WellFormed, Entries
      <4> QED BY <4>1, <4>2, <4>3 DEF Same, Keyed
    <3> QED BY <3>1, <3>2
  <2> QED BY <1>17, <1>19, <2>1 DEF WellFormed, Entries
<1>35. Inserted(t, u, k, v)
  <2>1. HasKey(u.node[p], k) /\ u.node[p].val = v
    BY <1>14, <1>18 DEF HasKey
  <2>2. t.node[q].val = Nil
    BY <1>5 DEF EmptyNode
  <2> QED BY <1>2, <1>4, <1>5, <1>17, <1>19, <1>23, <2>1, <2>2 DEF Inserted, Same
<1> QED BY <1>1, <1>22, <1>29, <1>30, <1>31, <1>32, <1>33, <1>34, <1>35 DEF WellFormed

-----------------------------------------------------------------------------
(* All three ways of newkey, and assignments to what is there.             *)

\* newkey inserts the key where no rehash is needed.
LEMMA NewKeyKeeps ==
  ASSUME NEW t, WellFormed(t), NEW k \in Keys, NEW v \in Slot, Absent(t, k),
         ~ NeedsRehash(t, k)
  PROVE  WellFormed(NewKey(t, k, v)) /\ Inserted(t, NewKey(t, k, v), k, v)
<1>1. PICK p : p = MainPosition(t, k)
  OBVIOUS
<1>2. PICK q : q = FreePosition(t)
  OBVIOUS
<1>3. Size(t) # 0 /\ (t.node[p].val # Nil => q # None)
  BY <1>1, <1>2 DEF Absent, NeedsRehash
<1>4. CASE t.node[p].val = Nil
  BY <1>1, <1>3, <1>4, OccupyKeeps DEF NewKey
<1>5. CASE t.node[p].val # Nil /\ MainPosition(t, t.node[p].key) # p
  BY <1>1, <1>2, <1>3, <1>5, MoveAwayKeeps DEF NewKey
<1>6. CASE t.node[p].val # Nil /\ MainPosition(t, t.node[p].key) = p
  BY <1>1, <1>2, <1>3, <1>6, ChainBehindKeeps DEF NewKey
<1> QED BY <1>4, <1>5, <1>6

\* A key has the same value in two tables with the same live nodes for it that
\* have a value.
LEMMA SameGet ==
  ASSUME NEW t, WellFormed(t), NEW u, WellFormed(u), Size(u) = Size(t), u.array = t.array,
         NEW x \in Keys,
         \A j \in Positions(t) : HasKey(u.node[j], x) =>
           \E i \in Positions(t) : HasKey(t.node[i], x) /\ t.node[i].val = u.node[j].val,
         \A i \in Positions(t) : HasKey(t.node[i], x) /\ t.node[i].val # Nil =>
           \E j \in Positions(t) : HasKey(u.node[j], x) /\ t.node[i].val = u.node[j].val
  PROVE  Get(u, x) = Get(t, x)
<1>1. Positions(u) = Positions(t)
  BY DEF Positions
<1>2. CASE InArray(t, x)
  <2>1. x \in Nat /\ InArray(u, x)
    BY <1>2 DEF InArray
  <2> QED BY <1>2, <2>1, GetSlot
<1>3. CASE ~ InArray(t, x) /\ \E i \in Positions(t) : HasKey(t.node[i], x)
  <2>1. PICK i \in Positions(t) : HasKey(t.node[i], x)
    BY <1>3
  <2>2. Get(t, x) = t.node[i].val
    BY <2>1, GetNode
  <2>3. CASE \E j \in Positions(t) : HasKey(u.node[j], x)
    <3>1. PICK j \in Positions(t) : HasKey(u.node[j], x)
      BY <2>3
    <3>2. PICK c \in Positions(t) : HasKey(t.node[c], x) /\ t.node[c].val = u.node[j].val
      BY <3>1
    <3>3. c = i
      BY <2>1, <3>2, LiveOnce
    <3>4. Get(u, x) = u.node[j].val
      BY <1>1, <3>1, GetNode
    <3> QED BY <2>2, <3>2, <3>3, <3>4
  <2>4. CASE \A j \in Positions(t) : ~ HasKey(u.node[j], x)
    <3>1. t.node[i].val = Nil
      BY <2>1, <2>4
    <3>2. ~ InArray(u, x)
      BY <1>3 DEF InArray
    <3> QED BY <1>1, <2>2, <2>4, <3>1, <3>2, GetNothing
  <2> QED BY <2>3, <2>4
<1>4. CASE ~ InArray(t, x) /\ \A i \in Positions(t) : ~ HasKey(t.node[i], x)
  <2>1. ~ InArray(u, x) /\ \A j \in Positions(u) : ~ HasKey(u.node[j], x)
    BY <1>1, <1>4 DEF InArray
  <2> QED BY <1>4, <2>1, GetNothing
<1> QED BY <1>2, <1>3, <1>4

\* An inserted key has its value, and no other changes.
LEMMA InsertedGet ==
  ASSUME NEW t, WellFormed(t), NEW u, WellFormed(u), NEW k \in Keys, NEW v,
         Inserted(t, u, k, v), NEW x \in Keys
  PROVE  Get(u, x) = IF x = k THEN v ELSE Get(t, x)
<1>1. Size(u) = Size(t) /\ Positions(u) = Positions(t) /\ u.array = t.array
  BY DEF Inserted, Positions
<1>2. CASE x = k
  BY <1>1, <1>2, GetNode DEF Inserted
<1>3. CASE x # k
  <2>1. \A j \in Positions(t) : HasKey(u.node[j], x) =>
          \E i \in Positions(t) : HasKey(t.node[i], x) /\ t.node[i].val = u.node[j].val
    BY <1>3 DEF Inserted, HasKey, Same
  <2>2. \A i \in Positions(t) : HasKey(t.node[i], x) /\ t.node[i].val # Nil =>
          \E j \in Positions(t) : HasKey(u.node[j], x) /\ t.node[i].val = u.node[j].val
    BY DEF Inserted, HasKey, Same
  <2> QED BY <1>1, <1>3, <2>1, <2>2, SameGet
<1> QED BY <1>2, <1>3

\* The steps of Put and of the collector.
WithNodes(t, N)   == [t EXCEPT !.node = N]
WithVal(t, i, v)  == [t EXCEPT !.node[i].val = v]
WithSlot(t, k, v) == [t EXCEPT !.array[k] = v]

\* The nodes' values change, and keys without a value may die.
Revalued(t, N) ==
  /\ N \in [Positions(t) -> NodeType(Positions(t))]
  /\ \A i \in Positions(t) :
       /\ N[i].key = t.node[i].key /\ N[i].next = t.node[i].next
       /\ t.node[i].dead => N[i].dead
       /\ N[i].val # Nil => Keyed(t, i) /\ ~ N[i].dead
       /\ ~ Keyed(t, i) => N[i] = t.node[i]

\* Changing values and killing keys without one keeps the table well-formed.
LEMMA RevaluedKeeps ==
  ASSUME NEW t, WellFormed(t), NEW N, Revalued(t, N), NEW u, u = WithNodes(t, N)
  PROVE  /\ WellFormed(u) /\ Links(u) = Links(t) /\ Size(u) = Size(t)
         /\ u.array = t.array /\ u.node = N
<1>1. PICK P : P = Positions(t)
  OBVIOUS
<1>2. /\ Size(t) \in Nat /\ P = 0..(Size(t) - 1)
      /\ t \in [array : Seq(Slot), node : [P -> NodeType(P)], lastfree : 0..Size(t)]
      /\ N \in [P -> NodeType(P)]
  BY <1>1 DEF WellFormed, IsTable, Positions, Revalued
<1>3. /\ u.array = t.array /\ u.lastfree = t.lastfree /\ u.node = N
      /\ u \in [array : Seq(Slot), node : [P -> NodeType(P)], lastfree : 0..Size(t)]
  BY <1>2 DEF WithNodes
<1>4. Size(u) = Size(t) /\ Positions(u) = P
  BY <1>1, <1>2, <1>3 DEF Size, Positions
<1>5. \A i \in P : /\ N[i].key = t.node[i].key /\ N[i].next = t.node[i].next
                   /\ t.node[i].dead => N[i].dead
                   /\ N[i].val # Nil => Keyed(t, i) /\ ~ N[i].dead
                   /\ ~ Keyed(t, i) => N[i] = t.node[i]
  BY <1>1 DEF Revalued
<1>6. \A i \in P : Keyed(u, i) = Keyed(t, i)
  BY <1>3, <1>5 DEF Keyed
<1>7. Links(u) = Links(t)
  BY <1>2, <1>3, <1>5 DEF Links
<1>8. \A q : MainPosition(u, q) = MainPosition(t, q)
  BY <1>4, MainPositionSame
<1>9. IsTable(u)
  BY <1>1, <1>2, <1>3, <1>4 DEF IsTable
<1>10. Rooted(u)
  <2> SUFFICES ASSUME NEW i \in P, Keyed(u, i), NEW m, m = MainPosition(t, u.node[i].key)
      PROVE  Keyed(u, m) /\ MainPosition(t, u.node[m].key) = m
    BY <1>4, <1>8 DEF Rooted
  <2>1. Keyed(t, m) /\ MainPosition(t, t.node[m].key) = m
    BY <1>1, <1>3, <1>5, <1>6 DEF WellFormed, Rooted
  <2>2. m \in P
    <3>1. t.node[i].key \in Keys /\ Size(t) # 0
      BY <1>2, <1>6 DEF Keyed, NodeType
    <3> QED BY <1>1, <1>2, <1>3, <1>5, <3>1, MainPositionIn
  <2> QED BY <1>3, <1>5, <1>6, <2>1, <2>2
<1>11. InChain(u)
  BY <1>1, <1>3, <1>4, <1>5, <1>6, <1>7, <1>8 DEF WellFormed, InChain
<1>12. OneLink(u)
  <2>1. \A i \in P : t.node[i].next # None => t.node[i].next \in P
    BY <1>2 DEF NodeType
  <2> QED BY <1>1, <1>3, <1>4, <1>5, <1>6, <2>1 DEF WellFormed, OneLink
<1>13. Ranked(u)
  <2>1. PICK r : Ranks(Links(t), r) /\ LiveFirst(t, r)
    BY DEF WellFormed, Ranked
  <2>2. LiveFirst(u, r)
    BY <1>1, <1>3, <1>4, <1>5, <1>6, <2>1 DEF LiveFirst, HasKey
  <2> QED BY <1>7, <2>1, <2>2 DEF Ranked
<1>14. Free(u)
  BY <1>1, <1>3, <1>4, <1>5, <1>6 DEF WellFormed, Free
<1>15. Entries(u)
  BY <1>1, <1>3, <1>4, <1>5, <1>6 DEF WellFormed, Entries
<1> QED BY <1>3, <1>4, <1>7, <1>9, <1>10, <1>11, <1>12, <1>13, <1>14, <1>15 DEF WellFormed

\* Assigning to the live node of a key changes its value alone.
LEMMA SetValueKeeps ==
  ASSUME NEW t, WellFormed(t), NEW k \in Keys, NEW v \in Slot,
         NEW i, i \in Positions(t), HasKey(t.node[i], k),
         NEW u, u = WithVal(t, i, v)
  PROVE  /\ WellFormed(u) /\ Links(u) = Links(t) /\ Size(u) = Size(t)
         /\ u.array = t.array
         /\ \A j \in Positions(t) : u.node[j].key = t.node[j].key
                                    /\ u.node[j].dead = t.node[j].dead
                                    /\ u.node[j].val = IF j = i THEN v ELSE t.node[j].val
         /\ \A x \in Keys : Get(u, x) = IF x = k THEN v ELSE Get(t, x)
<1>1. PICK P : P = Positions(t)
  OBVIOUS
<1>2. PICK N : N = [t.node EXCEPT ![i].val = v]
  OBVIOUS
<1>3. /\ t \in [array : Seq(Slot), node : [P -> NodeType(P)], lastfree : 0..Size(t)]
      /\ i \in P /\ Keyed(t, i) /\ ~ t.node[i].dead /\ k # Nil
  BY <1>1, KeysApart DEF WellFormed, IsTable, HasKey, Keyed
<1>4. PICK n \in NodeType(P) : n = t.node[i]
  BY <1>3
<1>5. N = [j \in P |-> IF j = i THEN [n EXCEPT !.val = v] ELSE t.node[j]]
  BY <1>2, <1>3, <1>4
<1>6. [n EXCEPT !.val = v] \in NodeType(P)
  BY <1>4 DEF NodeType
<1>7. /\ N \in [P -> NodeType(P)]
      /\ \A j \in P : /\ N[j].key = t.node[j].key /\ N[j].next = t.node[j].next
                      /\ N[j].dead = t.node[j].dead
                      /\ N[j].val = IF j = i THEN v ELSE t.node[j].val
                      /\ j # i => N[j] = t.node[j]
  <2>1. N \in [P -> NodeType(P)]
    BY <1>3, <1>5, <1>6
  <2>2. /\ [n EXCEPT !.val = v].key = n.key /\ [n EXCEPT !.val = v].next = n.next
        /\ [n EXCEPT !.val = v].dead = n.dead /\ [n EXCEPT !.val = v].val = v
    BY <1>4 DEF NodeType
  <2> QED BY <1>4, <1>5, <2>1, <2>2
<1>8. Revalued(t, N)
  BY <1>1, <1>3, <1>7 DEF Revalued, WellFormed, Entries
<1>9. u = WithNodes(t, N)
  BY <1>2, <1>3 DEF WithNodes, WithVal
<1>10. /\ WellFormed(u) /\ Links(u) = Links(t) /\ Size(u) = Size(t)
       /\ u.array = t.array /\ u.node = N
  BY <1>8, <1>9, RevaluedKeeps
<1>11. Positions(u) = P
  BY <1>1, <1>10 DEF Positions
<1>12. \A x \in Keys, j \in P : HasKey(u.node[j], x) = HasKey(t.node[j], x)
  BY <1>7, <1>10 DEF HasKey
<1>13. ASSUME NEW x \in Keys PROVE Get(u, x) = IF x = k THEN v ELSE Get(t, x)
  <2>1. CASE x = k
    BY <1>1, <1>3, <1>7, <1>10, <1>11, <1>12, <2>1, GetNode
  <2>2. CASE x # k /\ InArray(t, x)
    <3>1. x \in Nat /\ InArray(u, x)
      BY <1>10, <2>2 DEF InArray
    <3> QED BY <1>10, <2>2, <3>1, GetSlot
  <2>3. CASE x # k /\ \E j \in P : HasKey(t.node[j], x)
    <3>1. PICK j \in P : HasKey(t.node[j], x)
      BY <2>3
    <3>2. j # i
      BY <2>3, <3>1 DEF HasKey
    <3> QED BY <1>1, <1>7, <1>10, <1>11, <1>12, <2>3, <3>1, <3>2, GetNode
  <2>4. CASE x # k /\ ~ InArray(t, x) /\ \A j \in P : ~ HasKey(t.node[j], x)
    <3>1. ~ InArray(u, x)
      BY <1>10, <2>4 DEF InArray
    <3> QED BY <1>1, <1>10, <1>11, <1>12, <2>4, <3>1, GetNothing
  <2> QED BY <2>1, <2>2, <2>3, <2>4
<1> QED BY <1>1, <1>7, <1>10, <1>13

\* So does assigning to a slot of the array part.
LEMMA SetSlotKeeps ==
  ASSUME NEW t, WellFormed(t), NEW k \in Keys, NEW v \in Slot, InArray(t, k),
         NEW u, u = WithSlot(t, k, v)
  PROVE  /\ WellFormed(u) /\ Links(u) = Links(t) /\ Size(u) = Size(t)
         /\ Len(u.array) = Len(t.array) /\ u.node = t.node
         /\ \A s \in 1..Len(t.array) : u.array[s] = IF s = k THEN v ELSE t.array[s]
         /\ \A x \in Keys : Get(u, x) = IF x = k THEN v ELSE Get(t, x)
<1>1. PICK A : A = [t.array EXCEPT ![k] = v]
  OBVIOUS
<1>2. t \in [array : Seq(Slot), node : [Positions(t) -> NodeType(Positions(t))],
             lastfree : 0..Size(t)]
  BY DEF WellFormed, IsTable
<1>3. k \in Nat /\ k \in 1..Len(t.array) /\ k \in IntKeys
  BY KeysApart DEF InArray
<1>4. /\ A \in Seq(Slot) /\ Len(A) = Len(t.array)
      /\ \A s \in 1..Len(t.array) : A[s] = IF s = k THEN v ELSE t.array[s]
  BY <1>1, <1>2, <1>3
<1>5. u = [t EXCEPT !.array = A]
  BY <1>1, <1>2 DEF WithSlot
<1>6. u.array = A /\ u.node = t.node /\ u.lastfree = t.lastfree
  BY <1>2, <1>5
<1>7. Size(u) = Size(t) /\ Positions(u) = Positions(t) /\ Links(u) = Links(t)
  BY <1>6 DEF Size, Positions, Links
<1>8. \A q : MainPosition(u, q) = MainPosition(t, q)
  BY <1>7, MainPositionSame
<1>9. \A i : Keyed(u, i) = Keyed(t, i)
  BY <1>6 DEF Keyed
<1>10. IsTable(u)
  <2>1. u \in [array : Seq(Slot), node : [Positions(t) -> NodeType(Positions(t))],
               lastfree : 0..Size(t)]
    BY <1>2, <1>4, <1>5
  <2> QED BY <1>7, <2>1 DEF IsTable, WellFormed
<1>11. Rooted(u) /\ InChain(u)
  BY <1>6, <1>7, <1>8, <1>9 DEF WellFormed, Rooted, InChain
<1>12. OneLink(u) /\ Free(u)
  BY <1>6, <1>7, <1>9 DEF WellFormed, OneLink, Free
<1>13. Ranked(u)
  BY <1>6, <1>7, <1>9 DEF WellFormed, Ranked, LiveFirst
<1>14. Entries(u)
  BY <1>3, <1>4, <1>6, <1>7, <1>9 DEF WellFormed, Entries
<1>15. WellFormed(u)
  BY <1>10, <1>11, <1>12, <1>13, <1>14 DEF WellFormed
<1>16. ASSUME NEW x \in Keys PROVE Get(u, x) = IF x = k THEN v ELSE Get(t, x)
  <2>1. InArray(u, x) = InArray(t, x)
    BY <1>4, <1>6 DEF InArray
  <2>2. CASE InArray(t, x)
    <3>1. x \in Nat /\ x \in 1..Len(t.array)
      BY <2>2 DEF InArray
    <3> QED BY <1>4, <1>6, <2>1, <2>2, <3>1, GetSlot
  <2>3. CASE ~ InArray(t, x) /\ \E j \in Positions(t) : HasKey(t.node[j], x)
    <3>1. x # k
      BY <2>3
    <3> QED BY <1>6, <1>7, <1>15, <2>3, <3>1, GetNode
  <2>4. CASE ~ InArray(t, x) /\ \A j \in Positions(t) : ~ HasKey(t.node[j], x)
    <3>1. x # k
      BY <2>4
    <3> QED BY <1>6, <1>7, <1>15, <2>1, <2>4, <3>1, GetNothing
  <2> QED BY <2>2, <2>3, <2>4
<1> QED BY <1>4, <1>6, <1>7, <1>15, <1>16

-----------------------------------------------------------------------------
(* Put, and the room for it.                                               *)

\* Put has a place for the key k.
Fits(t, k) == InArray(t, k) \/ Find(t, k) # None \/ ~ NeedsRehash(t, k)

\* The nodes with a key have a value, and their keys are of the set H.
Packed(t, H) ==
  \A i \in Positions(t) : Keyed(t, i) => t.node[i].val # Nil /\ t.node[i].key \in H

\* luaH_set where there is room.
LEMMA PutKeeps ==
  ASSUME NEW t, WellFormed(t), NEW k \in Keys, NEW v \in Slot, Fits(t, k),
         NEW u, u = Put(t, k, v)
  PROVE  /\ WellFormed(u) /\ Size(u) = Size(t) /\ Len(u.array) = Len(t.array)
         /\ \A x \in Keys : Get(u, x) = IF x = k THEN v ELSE Get(t, x)
         /\ \A H : Packed(t, H) /\ v # Nil /\ (InArray(t, k) \/ k \in H) => Packed(u, H)
<1>1. CASE InArray(t, k)
  <2>1. u = WithSlot(t, k, v)
    BY <1>1 DEF Put, WithSlot
  <2>2. /\ WellFormed(u) /\ Size(u) = Size(t)
        /\ Len(u.array) = Len(t.array) /\ u.node = t.node
        /\ \A x \in Keys : Get(u, x) = IF x = k THEN v ELSE Get(t, x)
    BY <1>1, <2>1, SetSlotKeeps
  <2>3. \A H : Packed(t, H) => Packed(u, H)
    BY <2>2 DEF Packed, Positions, Keyed
  <2> QED BY <2>2, <2>3
<1>2. CASE ~ InArray(t, k) /\ Find(t, k) # None
  <2>1. PICK i : i = Find(t, k)
    OBVIOUS
  <2>2. i \in Positions(t) /\ HasKey(t.node[i], k)
    BY <1>2, <2>1, FindIs
  <2>3. u = WithVal(t, i, v)
    BY <1>2, <2>1 DEF Put, WithVal
  <2>4. /\ WellFormed(u) /\ Size(u) = Size(t) /\ u.array = t.array
        /\ \A j \in Positions(t) : u.node[j].key = t.node[j].key
                                   /\ u.node[j].val = IF j = i THEN v ELSE t.node[j].val
        /\ \A x \in Keys : Get(u, x) = IF x = k THEN v ELSE Get(t, x)
    BY <2>2, <2>3, SetValueKeeps
  <2>5. \A H : Packed(t, H) /\ v # Nil => Packed(u, H)
    BY <2>4 DEF Packed, Positions, Keyed
  <2> QED BY <2>4, <2>5
<1>3. CASE ~ InArray(t, k) /\ Find(t, k) = None
  <2>1. u = NewKey(t, k, v)
    BY <1>3 DEF Put
  <2>2. ~ NeedsRehash(t, k) /\ Absent(t, k)
    BY <1>3, FindIs DEF Fits, Absent, NeedsRehash
  <2>3. WellFormed(u) /\ Inserted(t, u, k, v)
    BY <2>1, <2>2, NewKeyKeeps
  <2>4. Size(u) = Size(t) /\ u.array = t.array /\ Positions(u) = Positions(t)
    BY <2>3 DEF Inserted, Positions
  <2>5. \A x \in Keys : Get(u, x) = IF x = k THEN v ELSE Get(t, x)
    BY <2>3, InsertedGet
  <2>6. ASSUME NEW H, Packed(t, H), v # Nil, k \in H PROVE Packed(u, H)
    <3> SUFFICES ASSUME NEW j \in Positions(t), Keyed(u, j)
        PROVE  u.node[j].val # Nil /\ u.node[j].key \in H
      BY <2>4 DEF Packed
    <3>1. CASE HasKey(u.node[j], k) /\ u.node[j].val = v
      BY <2>6, <3>1 DEF HasKey
    <3>2. CASE \E i \in Positions(t) : Same(u.node[j], t.node[i])
      BY <2>6, <3>2 DEF Packed, Same, Keyed
    <3> QED BY <2>3, <3>1, <3>2 DEF Inserted
  <2> QED BY <1>3, <2>3, <2>4, <2>5, <2>6
<1> QED BY <1>1, <1>2, <1>3

\* A packed table has room for a key as long as there are not more keys than
\* nodes.
LEMMA Capacity ==
  ASSUME NEW t, WellFormed(t), NEW H, Packed(t, H), IsFiniteSet(H),
         Cardinality(H) <= Size(t), NEW k \in Keys, k \in H
  PROVE  Fits(t, k)
<1> SUFFICES ASSUME Find(t, k) = None, NeedsRehash(t, k) PROVE FALSE
  BY DEF Fits
<1>1. PICK P : P = Positions(t)
  OBVIOUS
<1>2. /\ Size(t) \in Nat /\ IsFiniteSet(P) /\ Cardinality(P) = Size(t)
      /\ \A i \in P : t.node[i] \in NodeType(P)
  BY <1>1, TablePositions DEF WellFormed
<1>3. Cardinality(H) \in Nat /\ Cardinality(H \ {k}) = Cardinality(H) - 1 /\ IsFiniteSet(H \ {k})
  BY FS_CardinalityType, FS_RemoveElement
<1>4. Cardinality(H) # 0
  BY FS_EmptySet
<1>5. Size(t) # 0
  BY <1>2, <1>3, <1>4
<1>6. \A i \in P : Keyed(t, i)
  BY <1>1, <1>5, FreePositionIs DEF NeedsRehash
<1>7. \A i \in P : ~ HasKey(t.node[i], k)
  BY <1>1, FindIs
<1>8. PICK f : f = [i \in P |-> t.node[i].key]
  OBVIOUS
<1>9. \A i \in P : t.node[i].key \in H \ {k} /\ t.node[i].key \in Keys
                   /\ HasKey(t.node[i], t.node[i].key)
  <2> SUFFICES ASSUME NEW i \in P
      PROVE  t.node[i].key \in H \ {k} /\ t.node[i].key \in Keys
             /\ HasKey(t.node[i], t.node[i].key)
    OBVIOUS
  <2>1. t.node[i].val # Nil /\ t.node[i].key \in H
    BY <1>1, <1>6 DEF Packed
  <2>2. ~ t.node[i].dead
    BY <1>1, <2>1 DEF WellFormed, Entries
  <2>3. t.node[i].key \in Keys
    BY <1>2, <1>6 DEF NodeType, Keyed
  <2> QED BY <1>7, <2>1, <2>2, <2>3 DEF HasKey
<1>10. \A i, j \in P : f[i] = f[j] => i = j
  BY <1>1, <1>8, <1>9, LiveOnce
<1>11. f \in Injection(P, H \ {k})
  BY <1>8, <1>9, <1>10, Zenon DEF Injection, IsInjective
<1>12. Cardinality(P) <= Cardinality(H \ {k})
  BY <1>2, <1>3, <1>11, FS_Injection
<1> QED BY <1>2, <1>3, <1>12

-----------------------------------------------------------------------------
(* The entries of a table.                                                 *)

Count(t) == Len(t.array) + Size(t)

\* The entry with number i is a slot or a node.
LEMMA EntryAt ==
  ASSUME NEW t, WellFormed(t)
  PROVE  /\ Len(t.array) \in Nat /\ Size(t) \in Nat /\ Count(t) \in Nat
         /\ \A i \in 1..Len(t.array) : KeyAt(t, i) = i /\ ValAt(t, i) = t.array[i]
         /\ \A i \in (Len(t.array) + 1)..Count(t) :
              /\ i - Len(t.array) - 1 \in Positions(t)
              /\ KeyAt(t, i) = t.node[i - Len(t.array) - 1].key
              /\ ValAt(t, i) = t.node[i - Len(t.array) - 1].val
         /\ \A p \in Positions(t) :
              /\ Len(t.array) + 1 + p \in (Len(t.array) + 1)..Count(t)
              /\ KeyAt(t, Len(t.array) + 1 + p) = t.node[p].key
              /\ ValAt(t, Len(t.array) + 1 + p) = t.node[p].val
<1>1. Size(t) \in Nat /\ t.array \in Seq(Slot)
  BY DEF WellFormed, IsTable
<1>2. PICK n \in Nat : n = Len(t.array)
  BY <1>1
<1>3. PICK z \in Nat : z = Size(t)
  BY <1>1
<1> QED BY <1>2, <1>3 DEF KeyAt, ValAt, Count, Positions

\* luaH_get agrees with the entries.
LEMMA EntryGet ==
  ASSUME NEW t, WellFormed(t), NEW i, i \in 1..Count(t), ValAt(t, i) # Nil
  PROVE  KeyAt(t, i) \in Keys /\ Get(t, KeyAt(t, i)) = ValAt(t, i)
<1>1. CASE i <= Len(t.array)
  <2>1. i \in 1..Len(t.array) /\ i \in Nat
    BY <1>1, EntryAt
  <2>2. KeyAt(t, i) = i /\ ValAt(t, i) = t.array[i]
    BY <2>1, EntryAt
  <2>3. i \in IntKeys
    BY <2>1, <2>2 DEF WellFormed, Entries
  <2> QED BY <2>1, <2>2, <2>3, GetSlot DEF InArray, Keys
<1>2. CASE ~ (i <= Len(t.array))
  <2>1. PICK p : p = i - Len(t.array) - 1
    OBVIOUS
  <2>2. i \in (Len(t.array) + 1)..Count(t)
    BY <1>2, EntryAt
  <2>3. p \in Positions(t) /\ KeyAt(t, i) = t.node[p].key /\ ValAt(t, i) = t.node[p].val
    BY <2>1, <2>2, EntryAt
  <2>4. Keyed(t, p) /\ ~ t.node[p].dead
    BY <2>3 DEF WellFormed, Entries
  <2>5. t.node[p].key \in Keys
    BY <2>3, <2>4, TablePositions DEF WellFormed, NodeType, Keyed
  <2>6. HasKey(t.node[p], t.node[p].key)
    BY <2>4 DEF HasKey
  <2> QED BY <2>3, <2>5, <2>6, GetNode
<1> QED BY <1>1, <1>2

\* No key has two entries with a value.
LEMMA EntryOnce ==
  ASSUME NEW t, WellFormed(t), NEW i, i \in 1..Count(t), NEW j, j \in 1..Count(t),
         ValAt(t, i) # Nil, ValAt(t, j) # Nil, KeyAt(t, i) = KeyAt(t, j)
  PROVE  i = j
<1>1. ASSUME NEW e \in 1..Count(t), e > Len(t.array), ValAt(t, e) # Nil
      PROVE  \E p \in Positions(t) : /\ e = Len(t.array) + 1 + p
                                     /\ HasKey(t.node[p], KeyAt(t, e))
                                     /\ KeyAt(t, e) \in Keys
                                     /\ KeyAt(t, e) \notin 1..Len(t.array)
  <2>1. PICK p : p = e - Len(t.array) - 1
    OBVIOUS
  <2>2. e \in (Len(t.array) + 1)..Count(t) /\ e = Len(t.array) + 1 + p
    <3>1. PICK n \in Nat : n = Len(t.array)
      BY EntryAt
    <3>2. PICK c \in Nat : c = Count(t)
      BY EntryAt
    <3>3. e \in 1..c /\ e > n /\ p = e - n - 1
      BY <1>1, <2>1, <3>1, <3>2
    <3>4. e \in (n + 1)..c /\ e = n + 1 + p
      BY <3>3
    <3> QED BY <3>1, <3>2, <3>4
  <2>3. p \in Positions(t) /\ KeyAt(t, e) = t.node[p].key /\ ValAt(t, e) = t.node[p].val
    BY <2>1, <2>2, EntryAt
  <2>4. ~ t.node[p].dead /\ t.node[p].key \notin 1..Len(t.array)
    BY <1>1, <2>3 DEF WellFormed, Entries
  <2> QED BY <1>1, <2>2, <2>3, <2>4, EntryGet DEF HasKey
<1>2. ASSUME NEW e \in 1..Count(t), ~ (e > Len(t.array))
      PROVE  e \in 1..Len(t.array) /\ KeyAt(t, e) = e
  <2>1. e \in 1..Len(t.array)
    BY <1>2, EntryAt
  <2> QED BY <2>1, EntryAt
<1>3. CASE i > Len(t.array) /\ j > Len(t.array)
  <2>1. PICK p \in Positions(t) : /\ i = Len(t.array) + 1 + p
                                  /\ HasKey(t.node[p], KeyAt(t, i)) /\ KeyAt(t, i) \in Keys
    BY <1>1, <1>3
  <2>2. PICK q \in Positions(t) : /\ j = Len(t.array) + 1 + q
                                  /\ HasKey(t.node[q], KeyAt(t, j))
    BY <1>1, <1>3
  <2>3. p = q
    BY <2>1, <2>2, LiveOnce
  <2> QED BY <2>1, <2>2, <2>3
<1>4. CASE ~ (i > Len(t.array)) \/ ~ (j > Len(t.array))
  BY <1>1, <1>2, <1>4
<1> QED BY <1>3, <1>4

\* A key with a value has an entry.
LEMMA EntryOf ==
  ASSUME NEW t, WellFormed(t), NEW x \in Keys, Get(t, x) # Nil
  PROVE  \/ InArray(t, x)
         \/ \E p \in Positions(t) : HasKey(t.node[p], x) /\ t.node[p].val = Get(t, x)
<1>1. CASE \E p \in Positions(t) : HasKey(t.node[p], x)
  BY <1>1, GetNode
<1>2. CASE \A p \in Positions(t) : ~ HasKey(t.node[p], x)
  BY <1>2, GetNothing
<1> QED BY <1>1, <1>2

-----------------------------------------------------------------------------
(* Resize.                                                                 *)

EmptyTable(A, m) == [array |-> A, node |-> NoNodes(m), lastfree |-> m]

\* A table without entries is well-formed.
LEMMA EmptyWell ==
  ASSUME NEW m, m \in Nat, NEW A, A \in Seq(Slot),
         \A s \in 1..Len(A) : A[s] # Nil => s \in IntKeys,
         NEW u, u = EmptyTable(A, m)
  PROVE  /\ WellFormed(u) /\ Size(u) = m /\ u.array = A
         /\ \A H : Packed(u, H)
         /\ \A x \in Keys : Get(u, x) = IF x \in 1..Len(A) THEN A[x] ELSE Nil
<1>1. u.array = A /\ u.node = [i \in 0..(m - 1) |-> EmptyNode] /\ u.lastfree = m
  BY DEF EmptyTable, NoNodes
<1>2. Size(u) = m /\ Positions(u) = 0..(m - 1)
  <2>1. Cardinality(0..(m - 1)) = m
    <3>1. m - 1 \in Int
      OBVIOUS
    <3>2. Cardinality(0..(m - 1)) = IF 0 > m - 1 THEN 0 ELSE m - 1 - 0 + 1
      BY <3>1, FS_Interval
    <3> QED BY <3>2
  <2>2. DOMAIN u.node = 0..(m - 1)
    BY <1>1
  <2> QED BY <2>1, <2>2 DEF Size, Positions
<1>3. EmptyNode \in NodeType(Positions(u))
  BY DEF EmptyNode, NodeType, Slot
<1>4. IsTable(u)
  <2>1. u.node \in [Positions(u) -> NodeType(Positions(u))]
    BY <1>1, <1>2, <1>3
  <2>2. u = [array |-> u.array, node |-> u.node, lastfree |-> u.lastfree]
    BY DEF EmptyTable
  <2>3. u.lastfree \in 0..Size(u)
    BY <1>1, <1>2
  <2> QED BY <1>1, <1>2, <2>1, <2>2, <2>3 DEF IsTable
<1>5. \A i \in Positions(u) : u.node[i] = EmptyNode /\ ~ Keyed(u, i) /\ i < m
                              /\ u.node[i].next = None /\ u.node[i].val = Nil
                              /\ u.node[i].key = Nil
  <2>1. EmptyNode.next = None /\ EmptyNode.val = Nil /\ EmptyNode.key = Nil
    BY DEF EmptyNode
  <2>2. \A i \in Positions(u) : u.node[i] = EmptyNode /\ i < m
    BY <1>1, <1>2
  <2> QED BY <2>1, <2>2 DEF Keyed
<1>6. Ranked(u)
  <2>1. PICK r : r = [i \in Positions(u) |-> 0]
    OBVIOUS
  <2>2. DOMAIN Links(u) = Positions(u) /\ \A i \in Positions(u) : Links(u)[i] = None
    BY <1>4, <1>5, TablePositions DEF IsLinks
  <2>3. Ranks(Links(u), r)
    BY <2>1, <2>2 DEF Ranks
  <2>4. LiveFirst(u, r)
    BY <1>5 DEF LiveFirst
  <2> QED BY <2>3, <2>4 DEF Ranked
<1>7. Rooted(u) /\ InChain(u) /\ OneLink(u) /\ Free(u)
  BY <1>1, <1>5 DEF Rooted, InChain, OneLink, Free
<1>8. Entries(u)
  BY <1>1, <1>5 DEF Entries
<1>9. WellFormed(u)
  BY <1>4, <1>6, <1>7, <1>8 DEF WellFormed
<1>10. ASSUME NEW x \in Keys PROVE Get(u, x) = IF x \in 1..Len(A) THEN A[x] ELSE Nil
  <2>1. InArray(u, x) <=> x \in 1..Len(A)
    BY <1>1 DEF InArray
  <2>2. CASE InArray(u, x)
    <3>1. x \in Nat
      BY <2>1, <2>2
    <3> QED BY <1>1, <2>1, <2>2, <3>1, GetSlot
  <2>3. CASE ~ InArray(u, x)
    <3>1. \A i \in Positions(u) : ~ HasKey(u.node[i], x)
      BY <1>5, KeysApart DEF HasKey
    <3> QED BY <1>9, <2>1, <2>3, <3>1, GetNothing
  <2> QED BY <2>2, <2>3
<1> QED BY <1>1, <1>2, <1>5, <1>9, <1>10 DEF Packed

\* The recursive function is what it is written to be.
LEMMA ResizeSteps ==
  ASSUME NEW t, NEW na, NEW nh, NEW all, all = Vanishing(t, na) + Size(t), all \in Nat
  PROVE  \E after : /\ after[0] = Resized(t, na, nh)
                    /\ \A n \in 1..all :
                         after[n] = Reinsert(after[n - 1], KeyAt(t, Moved(t, na, n)),
                                             ValAt(t, Moved(t, na, n)))
                    /\ Resize(t, na, nh) = after[all]
<1> DEFINE Step(n, r) == Reinsert(r, KeyAt(t, Moved(t, na, n)), ValAt(t, Moved(t, na, n)))
<1> HIDE DEF Step
<1>1. PICK first : first = Resized(t, na, nh)
  OBVIOUS
<1> DEFINE Good(n) == \E f : f = [i \in 0..n |-> IF i = 0 THEN first ELSE Step(i, f[i - 1])]
<1> DEFINE Bad == {n \in Nat : ~ Good(n)}
<1>2. Good(0)
  <2> DEFINE f == [i \in 0..0 |-> first]
  <2>1. f = [i \in 0..0 |-> IF i = 0 THEN first ELSE Step(i, f[i - 1])]
    OBVIOUS
  <2> QED BY <2>1
<1>3. ASSUME NEW n \in Nat, Good(n) PROVE Good(n + 1)
  <2>1. PICK f : f = [i \in 0..n |-> IF i = 0 THEN first ELSE Step(i, f[i - 1])]
    BY <1>3
  <2> DEFINE g == [i \in 0..(n + 1) |-> IF i <= n THEN f[i] ELSE Step(i, f[n])]
  <2>2. \A i \in 0..(n + 1) : g[i] = IF i = 0 THEN first ELSE Step(i, g[i - 1])
    <3> TAKE i \in 0..(n + 1)
    <3>1. CASE i = n + 1
      BY <3>1
    <3>2. CASE i <= n
      <4>1. f[i] = IF i = 0 THEN first ELSE Step(i, f[i - 1])
        BY <2>1, <3>2
      <4> QED BY <3>2, <4>1
    <3> QED BY <3>1, <3>2
  <2>3. g = [i \in 0..(n + 1) |-> IF i = 0 THEN first ELSE Step(i, g[i - 1])]
    BY <2>2
  <2> QED BY <2>3
<1> HIDE DEF Good
<1>4. Bad = {}
  <2> SUFFICES ASSUME Bad # {} PROVE FALSE
    OBVIOUS
  <2>1. PICK n \in Bad : \A k \in Bad : n <= k
    BY LeastNat
  <2>2. n # 0 /\ n - 1 \in Nat /\ n - 1 \notin Bad
    BY <1>2, <2>1
  <2>3. Good(n)
    BY <1>3, <2>2
  <2> QED BY <2>1, <2>3
<1>5. Good(all)
  BY <1>4
<1> DEFINE after[n \in 0..all] == IF n = 0 THEN first ELSE Step(n, after[n - 1])
<1>6. after = [n \in 0..all |-> IF n = 0 THEN first ELSE Step(n, after[n - 1])]
  BY <1>5 DEF Good
<1>7. Resize(t, na, nh) = after[all]
  BY <1>1 DEF Resize, Step
<1> HIDE DEF after
<1>8. after[0] = first /\ \A n \in 1..all : after[n] = Step(n, after[n - 1])
  BY <1>6
<1> QED BY <1>1, <1>7, <1>8 DEF Step

\* The entries that are moved: those that are not in a slot that stays.
LEMMA MovedIs ==
  ASSUME NEW t, WellFormed(t), NEW na, na \in Nat,
         NEW all, all = Vanishing(t, na) + Size(t)
  PROVE  /\ all \in Nat
         /\ \A n \in 1..all : /\ Moved(t, na, n) \in 1..Count(t)
                              /\ Moved(t, na, n) > na \/ Moved(t, na, n) > Len(t.array)
         /\ \A n, j \in 1..all : Moved(t, na, n) = Moved(t, na, j) => n = j
         /\ \A i \in 1..Count(t) :
              i > na \/ i > Len(t.array) => \E n \in 1..all : Moved(t, na, n) = i
<1>1. PICK l \in Nat : l = Len(t.array)
  BY EntryAt
<1>2. PICK z \in Nat : z = Size(t)
  BY EntryAt
<1>3. Count(t) = l + z
  BY <1>1, <1>2 DEF Count
<1>4. PICK v \in Nat : v = Vanishing(t, na) /\ v = IF na < l THEN l - na ELSE 0
  BY <1>1 DEF Vanishing
<1>5. \A n : Moved(t, na, n) = IF n <= v THEN na + n ELSE l + z + 1 - (n - v)
  BY <1>1, <1>2, <1>4 DEF Moved
<1>6. all = v + z
  BY <1>2, <1>4
<1>7. ASSUME NEW n \in 1..all
      PROVE  /\ Moved(t, na, n) \in 1..(l + z)
             /\ Moved(t, na, n) > na \/ Moved(t, na, n) > l
  BY <1>4, <1>5, <1>6
<1>8. ASSUME NEW n \in 1..all, NEW j \in 1..all, Moved(t, na, n) = Moved(t, na, j) PROVE n = j
  <2>1. CASE n <= v /\ j <= v
    BY <1>5, <1>6, <1>8, <2>1
  <2>2. CASE n > v /\ j > v
    BY <1>5, <1>6, <1>8, <2>2
  <2>3. CASE n <= v /\ j > v
    BY <1>4, <1>5, <1>6, <1>8, <2>3
  <2>4. CASE n > v /\ j <= v
    BY <1>4, <1>5, <1>6, <1>8, <2>4
  <2> QED BY <1>6, <2>1, <2>2, <2>3, <2>4
<1>9. ASSUME NEW i \in 1..(l + z), i > na \/ i > l PROVE \E n \in 1..all : Moved(t, na, n) = i
  <2>1. CASE i <= l
    <3>1. i - na \in 1..v /\ i - na \in 1..all
      BY <1>4, <1>6, <1>9, <2>1
    <3>2. Moved(t, na, i - na) = i
      BY <1>5, <3>1
    <3> QED BY <3>1, <3>2
  <2>2. CASE i > l
    <3>1. PICK n : n = v + l + z + 1 - i
      OBVIOUS
    <3>2. n \in 1..all /\ ~ (n <= v)
      BY <1>6, <2>2, <3>1
    <3>3. Moved(t, na, n) = i
      BY <1>5, <2>2, <3>1, <3>2
    <3> QED BY <3>2, <3>3
  <2> QED BY <2>1, <2>2
<1> QED BY <1>1, <1>3, <1>6, <1>7, <1>8, <1>9

\* A resize that makes room for the keys H of the hash part keeps all values.
LEMMA ResizeKeeps ==
  ASSUME NEW t, WellFormed(t), NEW na, na \in Nat, NEW nh, NEW m, m = NodesFor(nh), m \in Nat,
         NEW H, IsFiniteSet(H), Cardinality(H) <= m,
         \A x \in Keys : Get(t, x) # Nil /\ x \notin 1..na => x \in H,
         NEW u, u = Resize(t, na, nh)
  PROVE  /\ WellFormed(u) /\ Len(u.array) = na /\ Size(u) = m /\ Packed(u, H)
         /\ \A x \in Keys : Get(u, x) = Get(t, x)
<1>1. PICK all : all = Vanishing(t, na) + Size(t)
  OBVIOUS
<1>2. PICK e : e = [n \in 1..all |-> Moved(t, na, n)]
  OBVIOUS
<1>3. PICK c : c = Count(t)
  OBVIOUS
<1>4. /\ all \in Nat
      /\ \A n \in 1..all : e[n] \in 1..c /\ (e[n] > na \/ e[n] > Len(t.array))
      /\ \A n, j \in 1..all : e[n] = e[j] => n = j
      /\ \A i \in 1..c : i > na \/ i > Len(t.array) => \E n \in 1..all : e[n] = i
  BY <1>1, <1>2, <1>3, MovedIs
<1>5. PICK after : /\ after[0] = Resized(t, na, nh)
                   /\ \A n \in 1..all :
                        after[n] = Reinsert(after[n - 1], KeyAt(t, e[n]), ValAt(t, e[n]))
                   /\ u = after[all]
  BY <1>1, <1>2, <1>4, ResizeSteps
<1> DEFINE Pending(n, x) ==
             \E j \in (n + 1)..all : ValAt(t, e[j]) # Nil /\ KeyAt(t, e[j]) = x
<1> DEFINE Good(n, r) ==
             /\ WellFormed(r) /\ Len(r.array) = na /\ Size(r) = m /\ Packed(r, H)
             /\ \A x \in Keys : Get(r, x) = IF Pending(n, x) THEN Nil ELSE Get(t, x)
<1>6. Len(t.array) \in Nat /\ Size(t) \in Nat /\ c \in Nat
  BY <1>3, EntryAt
<1>7. Good(0, after[0])
  <2>1. PICK r : r = after[0]
    OBVIOUS
  <2>2. PICK A : A = [i \in 1..na |-> IF i <= Len(t.array) THEN t.array[i] ELSE Nil]
    OBVIOUS
  <2>3. t \in [array : Seq(Slot), node : [Positions(t) -> NodeType(Positions(t))],
               lastfree : 0..Size(t)]
    BY DEF WellFormed, IsTable
  <2>4. A \in Seq(Slot) /\ Len(A) = na
    BY <2>2, <2>3, <1>6 DEF Slot
  <2>5. \A s \in 1..Len(A) : A[s] # Nil => s \in IntKeys
    BY <1>6, <2>2, <2>4 DEF WellFormed, Entries
  <2>6. r = EmptyTable(A, m)
    BY <1>5, <2>1, <2>2, <2>3 DEF Resized, EmptyTable
  <2>7. /\ WellFormed(r) /\ Size(r) = m /\ r.array = A /\ Packed(r, H)
        /\ \A x \in Keys : Get(r, x) = IF x \in 1..Len(A) THEN A[x] ELSE Nil
    BY <2>4, <2>5, <2>6, EmptyWell
  <2>8. ASSUME NEW x \in Keys
        PROVE  Get(r, x) = IF Pending(0, x) THEN Nil ELSE Get(t, x)
    <3>1. CASE x \in 1..na /\ x <= Len(t.array)
      <4>1. x \in Nat /\ InArray(t, x)
        BY <1>6, <3>1 DEF InArray
      <4>2. Get(r, x) = t.array[x] /\ Get(t, x) = t.array[x]
        BY <2>2, <2>4, <2>7, <3>1, <4>1, GetSlot
      <4>3. ASSUME NEW j \in 1..all, ValAt(t, e[j]) # Nil, KeyAt(t, e[j]) = x PROVE FALSE
        <5>1. x \in 1..c /\ KeyAt(t, x) = x /\ ValAt(t, x) = t.array[x]
          BY <1>3, <1>6, <3>1, <4>1, EntryAt DEF Count, InArray
        <5>2. ValAt(t, x) = Get(t, x) /\ Get(t, KeyAt(t, e[j])) = ValAt(t, e[j])
          BY <1>3, <1>4, <4>2, <4>3, <5>1, EntryGet
        <5>3. e[j] = x
          BY <1>3, <1>4, <4>3, <5>1, <5>2, EntryOnce
        <5> QED BY <1>4, <1>6, <3>1, <5>3
      <4> QED BY <4>2, <4>3
    <3>2. CASE ~ (x \in 1..na /\ x <= Len(t.array))
      <4>1. Get(r, x) = Nil
        BY <2>2, <2>4, <2>7, <3>2
      <4>2. ASSUME Get(t, x) # Nil PROVE Pending(0, x)
        <5>1. CASE InArray(t, x)
          <6>1. x \in 1..Len(t.array) /\ x \in Nat /\ x > na
            BY <1>6, <3>2, <5>1 DEF InArray
          <6>2. x \in 1..c
            BY <1>3, <1>6, <6>1 DEF Count
          <6>3. PICK n \in 1..all : e[n] = x
            BY <1>4, <6>1, <6>2
          <6>4. KeyAt(t, x) = x /\ ValAt(t, x) = Get(t, x)
            BY <5>1, <6>1, EntryAt, GetSlot
          <6> QED BY <4>2, <6>3, <6>4
        <5>2. CASE \E p \in Positions(t) : HasKey(t.node[p], x) /\ t.node[p].val = Get(t, x)
          <6>1. PICK p \in Positions(t) : HasKey(t.node[p], x) /\ t.node[p].val = Get(t, x)
            BY <5>2
          <6>2. PICK i : i = Len(t.array) + 1 + p
            OBVIOUS
          <6>3. /\ i \in (Len(t.array) + 1)..c
                /\ KeyAt(t, i) = t.node[p].key /\ ValAt(t, i) = t.node[p].val
            BY <1>3, <6>2, EntryAt
          <6>4. i \in 1..c /\ i > Len(t.array)
            BY <1>6, <6>3
          <6>5. PICK n \in 1..all : e[n] = i
            BY <1>4, <6>4
          <6> QED BY <4>2, <6>1, <6>3, <6>5 DEF HasKey
        <5> QED BY <4>2, <5>1, <5>2, EntryOf
      <4> QED BY <4>1, <4>2
    <3> QED BY <3>1, <3>2
  <2> QED BY <2>1, <2>4, <2>7, <2>8
<1>8. ASSUME NEW n \in 1..all, Good(n - 1, after[n - 1]) PROVE Good(n, after[n])
  <2>1. PICK r : r = after[n - 1]
    OBVIOUS
  <2>2. PICK s : s = after[n]
    OBVIOUS
  <2>3. PICK k : k = KeyAt(t, e[n])
    OBVIOUS
  <2>4. PICK v : v = ValAt(t, e[n])
    OBVIOUS
  <2>5. s = Reinsert(r, k, v)
    BY <1>5, <2>1, <2>2, <2>3, <2>4
  <2>6. \A x : Pending(n - 1, x) <=> Pending(n, x) \/ (v # Nil /\ x = k)
    <3>1. \A j : j \in ((n - 1) + 1)..all <=> j \in (n + 1)..all \/ j = n
      BY <1>4
    <3> QED BY <2>3, <2>4, <3>1
  <2>7. CASE v = Nil
    <3>1. s = r
      BY <2>5, <2>7 DEF Reinsert
    <3>2. \A x : Pending(n - 1, x) <=> Pending(n, x)
      BY <2>6, <2>7
    <3> HIDE DEF Pending
    <3> QED BY <1>8, <2>1, <2>2, <3>1, <3>2
  <2>8. CASE v # Nil
    <3>1. k \in Keys /\ Get(t, k) = v
      BY <1>3, <1>4, <2>3, <2>4, <2>8, EntryGet
    <3>2. s = Put(r, k, v) /\ v \in Slot
      BY <2>5, <2>8, <3>1, GetType DEF Reinsert
    <3>3. WellFormed(r) /\ Len(r.array) = na /\ Size(r) = m /\ Packed(r, H)
      BY <1>8, <2>1
    <3>4. InArray(r, k) \/ k \in H
      BY <2>8, <3>1, <3>3 DEF InArray
    <3>5. Fits(r, k)
      <4>1. CASE InArray(r, k)
        BY <4>1 DEF Fits
      <4>2. CASE k \in H
        BY <3>1, <3>3, <4>2, Capacity
      <4> QED BY <3>4, <4>1, <4>2
    <3>6. /\ WellFormed(s) /\ Size(s) = Size(r) /\ Len(s.array) = Len(r.array)
          /\ \A x \in Keys : Get(s, x) = IF x = k THEN v ELSE Get(r, x)
          /\ Packed(s, H)
      BY <2>8, <3>1, <3>2, <3>3, <3>4, <3>5, PutKeeps
    <3>7. ~ Pending(n, k)
      <4> SUFFICES ASSUME NEW j \in (n + 1)..all, ValAt(t, e[j]) # Nil, KeyAt(t, e[j]) = k
          PROVE  FALSE
        OBVIOUS
      <4>1. j \in 1..all /\ j # n
        BY <1>4
      <4>2. e[j] = e[n]
        BY <1>3, <1>4, <2>3, <2>4, <2>8, <4>1, EntryOnce
      <4> QED BY <1>4, <4>1, <4>2
    <3>8. ASSUME NEW x \in Keys PROVE Get(s, x) = IF Pending(n, x) THEN Nil ELSE Get(t, x)
      <4>1. Get(r, x) = IF Pending(n - 1, x) THEN Nil ELSE Get(t, x)
        BY <1>8, <2>1
      <4>2. Pending(n - 1, x) <=> Pending(n, x) \/ x = k
        BY <2>6, <2>8
      <4> HIDE DEF Pending
      <4> QED BY <3>1, <3>6, <3>7, <4>1, <4>2
    <3> HIDE DEF Pending
    <3> QED BY <2>2, <3>3, <3>6, <3>8
  <2> QED BY <2>7, <2>8
<1>9. Good(all, after[all])
  <2>1. PICK S : S = {n \in 0..all : Good(n, after[n])}
    OBVIOUS
  <2> HIDE DEF Good
  <2>2. 0 \in S
    BY <1>4, <1>7, <2>1
  <2>3. \A n \in 1..all : n - 1 \in S => n \in S
    BY <1>4, <1>8, <2>1
  <2>4. 0..all \subseteq S
    BY <1>4, <2>2, <2>3, UpToNat
  <2> QED BY <1>4, <2>1, <2>4
<1>10. \A x : ~ Pending(all, x)
  BY <1>4
<1> HIDE DEF Pending
<1> QED BY <1>5, <1>9, <1>10

-----------------------------------------------------------------------------
(* Rehash.                                                                 *)

\* A set is counted in two parts.
LEMMA CountSplit ==
  ASSUME NEW S, IsFiniteSet(S), NEW U, U \subseteq S
  PROVE  /\ IsFiniteSet(U) /\ IsFiniteSet(S \ U)
         /\ Cardinality(S) \in Nat /\ Cardinality(U) \in Nat /\ Cardinality(S \ U) \in Nat
         /\ Cardinality(S) = Cardinality(U) + Cardinality(S \ U)
<1>1. PICK T : T = S \ U
  OBVIOUS
<1>2. IsFiniteSet(U) /\ IsFiniteSet(T)
  BY <1>1, FS_Subset
<1>3. U \cup T = S /\ U \cap T = {}
  BY <1>1
<1>4. Cardinality(U \cup T) = Cardinality(U) + Cardinality(T) - Cardinality(U \cap T)
  BY <1>2, FS_Union
<1>5. Cardinality(S) \in Nat /\ Cardinality(U) \in Nat /\ Cardinality(T) \in Nat
  BY <1>2, FS_CardinalityType
<1>6. Cardinality(U \cap T) = 0
  BY <1>3, FS_EmptySet
<1> QED BY <1>1, <1>2, <1>3, <1>4, <1>5, <1>6

NodeSizes == PowerOf2s \cup {0}

\* There is a power of two for every size that is asked for.
LEMMA PowersNat ==
  /\ PowerOf2s \subseteq Nat
  /\ \A p \in PowerOf2s : p > 0
  /\ \A n \in 0..(Cardinality(Keys) + MaxGrow + 1) : \E p \in PowerOf2s : p >= n
<1>1. \A i \in Log2s : TwoTo[i] \in Nat /\ TwoTo[i] > i /\ i \in Nat
  BY Powers, KeysFinite DEF Log2s
<1>2. \A n \in 0..(Cardinality(Keys) + MaxGrow + 1) : n \in Log2s
  BY DEF Log2s
<1>3. \A i \in Log2s : TwoTo[i] \in PowerOf2s
  BY DEF PowerOf2s
<1>4. \A p \in PowerOf2s : \E i \in Log2s : p = TwoTo[i]
  BY DEF PowerOf2s
<1>5. \A p \in PowerOf2s : p \in Nat /\ p > 0
  BY <1>1, <1>4
<1>6. \A n \in 0..(Cardinality(Keys) + MaxGrow + 1) : TwoTo[n] >= n
  BY <1>1, <1>2
<1> QED BY <1>2, <1>3, <1>5, <1>6

\* setnodevector takes as many nodes as it was asked for, or more.
LEMMA NodesForIs ==
  ASSUME NEW n, n \in Nat, n \in PowerOf2s \/ n <= Cardinality(Keys) + MaxGrow + 1
  PROVE  NodesFor(n) \in NodeSizes /\ NodesFor(n) \in Nat /\ NodesFor(n) >= n
<1>1. PICK S : S = {m \in PowerOf2s : m >= n}
  OBVIOUS
<1>2. S # {}
  <2>1. \E p \in PowerOf2s : p >= n
    BY PowersNat, KeysFinite
  <2> QED BY <1>1, <2>1
<1>3. Min(S) \in S
  BY <1>1, <1>2, PowersNat, MinNat
<1>4. NodesFor(n) = IF n = 0 THEN 0 ELSE Min(S)
  BY <1>1 DEF NodesFor
<1>5. Min(S) \in PowerOf2s /\ Min(S) >= n /\ Min(S) \in Nat
  BY <1>1, <1>3, PowersNat
<1> QED BY <1>4, <1>5 DEF NodeSizes

Present(t) == {x \in Keys : Get(t, x) # Nil}

\* No more slots and nodes have a value than there are keys, and rehash counts
\* every key that has one.
LEMMA UsedCounts ==
  ASSUME NEW t, WellFormed(t)
  PROVE  /\ IsFiniteSet(UsedSlots(t)) /\ IsFiniteSet(UsedNodes(t)) /\ IsFiniteSet(Present(t))
         /\ Cardinality(Present(t)) <= Cardinality(UsedSlots(t)) + Cardinality(UsedNodes(t))
         /\ Cardinality(UsedSlots(t)) + Cardinality(UsedNodes(t)) <= Cardinality(Keys)
<1>1. PICK U : U = UsedSlots(t)
  OBVIOUS
<1>2. PICK V : V = UsedNodes(t)
  OBVIOUS
<1>3. PICK Q : Q = Present(t)
  OBVIOUS
<1>4. /\ U \subseteq 1..Len(t.array) /\ Len(t.array) \in Nat
      /\ \A x \in U : x \in IntKeys /\ t.array[x] # Nil
  BY <1>1, EntryAt DEF WellFormed, Entries, UsedSlots
<1>5. U \subseteq Q
  <2>1. \A x \in U : x \in Nat /\ InArray(t, x) /\ x \in Keys
    BY <1>4 DEF InArray, Keys
  <2> QED BY <1>3, <1>4, <2>1, GetSlot DEF Present
<1>6. /\ V = {i \in Positions(t) : t.node[i].val # Nil}
      /\ IsFiniteSet(Positions(t))
  BY <1>2, TablePositions DEF WellFormed, UsedNodes
<1>7. IsFiniteSet(V)
  BY <1>6, FS_Subset
<1>8. IsFiniteSet(Keys) /\ Q \subseteq Keys
  BY <1>3, KeysFinite DEF Present
<1>9. IsFiniteSet(Q) /\ IsFiniteSet(U)
  BY <1>5, <1>8, FS_Subset
<1>10. \A x \in Q \ U : /\ Find(t, x) \in V /\ HasKey(t.node[Find(t, x)], x)
  <2> SUFFICES ASSUME NEW x \in Q \ U
      PROVE  Find(t, x) \in V /\ HasKey(t.node[Find(t, x)], x)
    OBVIOUS
  <2>1. x \in Keys /\ Get(t, x) # Nil
    BY <1>3 DEF Present
  <2>2. ~ InArray(t, x)
    <3> SUFFICES ASSUME InArray(t, x) PROVE FALSE
      OBVIOUS
    <3>1. x \in 1..Len(t.array) /\ x \in Nat
      BY <1>4 DEF InArray
    <3>2. t.array[x] # Nil
      BY <2>1, <3>1, GetSlot
    <3> QED BY <1>1, <3>1, <3>2 DEF UsedSlots
  <2>3. PICK p \in Positions(t) : HasKey(t.node[p], x) /\ t.node[p].val = Get(t, x)
    BY <2>1, <2>2, EntryOf
  <2>4. Find(t, x) = p
    BY <2>1, <2>3, FindLive
  <2> QED BY <1>6, <2>1, <2>3, <2>4
<1>11. PICK f : f = [x \in Q \ U |-> Find(t, x)]
  OBVIOUS
<1>12. f \in Injection(Q \ U, V)
  <2>1. f \in [Q \ U -> V]
    BY <1>10, <1>11
  <2>2. \A x, y \in Q \ U : f[x] = f[y] => x = y
    BY <1>10, <1>11 DEF HasKey
  <2> QED BY <2>1, <2>2 DEF Injection, IsInjective
<1>13. Cardinality(Q \ U) <= Cardinality(V)
  BY <1>7, <1>12, FS_Injection
<1>14. PICK g : g = [i \in V |-> t.node[i].key]
  OBVIOUS
<1>15. \A i \in V : /\ i \in Positions(t) /\ HasKey(t.node[i], g[i]) /\ g[i] \in Keys
                    /\ g[i] \notin U
  <2> SUFFICES ASSUME NEW i \in V
      PROVE  /\ i \in Positions(t) /\ HasKey(t.node[i], g[i]) /\ g[i] \in Keys
             /\ g[i] \notin U
    OBVIOUS
  <2>1. i \in Positions(t) /\ g[i] = t.node[i].key /\ t.node[i].val # Nil
    BY <1>6, <1>14
  <2>2. Keyed(t, i) /\ ~ t.node[i].dead
    BY <2>1 DEF WellFormed, Entries
  <2>3. g[i] \notin 1..Len(t.array)
    BY <2>1, <2>2 DEF WellFormed, Entries
  <2>4. g[i] \in Keys
    BY <2>1, <2>2, TablePositions DEF WellFormed, NodeType, Keyed
  <2> QED BY <1>4, <2>1, <2>2, <2>3, <2>4 DEF HasKey
<1>16. g \in Injection(V, Keys \ U)
  <2>1. g \in [V -> Keys \ U]
    BY <1>14, <1>15
  <2>2. \A i, j \in V : g[i] = g[j] => i = j
    BY <1>15, LiveOnce
  <2>3. DOMAIN g = V
    BY <1>14
  <2> QED BY <2>1, <2>2, <2>3 DEF Injection, IsInjective
<1>17. IsFiniteSet(Keys \ U) /\ IsFiniteSet(Q \ U)
  BY <1>8, <1>9, FS_Subset
<1>18. Cardinality(V) <= Cardinality(Keys \ U)
  BY <1>16, <1>17, FS_Injection
<1>19. Cardinality(Keys) = Cardinality(U) + Cardinality(Keys \ U)
  BY <1>5, <1>8, CountSplit
<1>20. Cardinality(Q) = Cardinality(U) + Cardinality(Q \ U)
  BY <1>5, <1>9, CountSplit
<1> QED
  <2>1. /\ Cardinality(U) \in Nat /\ Cardinality(V) \in Nat /\ Cardinality(Q \ U) \in Nat
        /\ Cardinality(Keys \ U) \in Nat
    BY <1>7, <1>9, <1>17, FS_CardinalityType
  <2> QED BY <1>1, <1>2, <1>3, <1>7, <1>9, <1>13, <1>18, <1>19, <1>20, <2>1

\* The sizes that computesizes may choose.
Fitting(I) ==
  {n \in PowerOf2s : /\ n \div 2 < Cardinality(I)
                     /\ \E i \in I : n \div 2 < i /\ i <= n
                     /\ Cardinality(UpTo(I, n)) > n \div 2}

\* computesizes chooses the largest fitting size.
LEMMA ArraySizeIs ==
  ASSUME NEW I, IsFiniteSet(I)
  PROVE  /\ ArraySize(I) \in Nat
         /\ ArraySize(I) # 0 => ArraySize(I) \in Fitting(I)
         /\ \A n \in Fitting(I) : n <= ArraySize(I)
<1>1. PICK c \in Nat : c = Cardinality(I)
  BY FS_CardinalityType
<1>2. PICK S : S = Fitting(I)
  OBVIOUS
<1>3. S \subseteq Nat /\ \A n \in S : n \div 2 < c
  BY <1>1, <1>2, PowersNat DEF Fitting
<1>4. \A n \in S : n <= 2 * c + 1
  <2> SUFFICES ASSUME NEW n \in Nat, n \div 2 < c PROVE n <= 2 * c + 1
    BY <1>3
  <2> QED OBVIOUS
<1>5. S # {} => Max(S) \in S /\ \A n \in S : n <= Max(S)
  <2>1. PICK b \in Nat : b = 2 * c + 1
    OBVIOUS
  <2>2. \A n \in S : n <= b
    BY <1>4, <2>1
  <2> QED BY <1>3, <2>2, MaxNat
<1>6. ArraySize(I) = IF S = {} THEN 0 ELSE Max(S)
  BY <1>2 DEF ArraySize, Fitting
<1> QED BY <1>2, <1>3, <1>5, <1>6

\* rehash counts the number keys that have a value.
LEMMA IntsUsedIs ==
  ASSUME NEW t, WellFormed(t)
  PROVE  /\ IntsUsed(t) = Present(t) \cap IntKeys
         /\ IsFiniteSet(Present(t))
<1>1. \A x \in UsedSlots(t) : x \in IntKeys /\ x \in Present(t)
  <2> SUFFICES ASSUME NEW x \in UsedSlots(t) PROVE x \in IntKeys /\ x \in Present(t)
    OBVIOUS
  <2>1. x \in 1..Len(t.array) /\ t.array[x] # Nil
    BY DEF UsedSlots
  <2>2. x \in IntKeys /\ x \in Nat /\ x \in Keys
    BY <2>1 DEF WellFormed, Entries, Keys
  <2> QED BY <2>1, <2>2, GetSlot DEF InArray, Present
<1>2. \A i \in UsedNodes(t) : t.node[i].key \in Present(t)
  <2> SUFFICES ASSUME NEW i \in UsedNodes(t) PROVE t.node[i].key \in Present(t)
    OBVIOUS
  <2>1. i \in Positions(t) /\ t.node[i].val # Nil
    BY TablePositions DEF WellFormed, UsedNodes
  <2>2. Keyed(t, i) /\ ~ t.node[i].dead
    BY <2>1 DEF WellFormed, Entries
  <2>3. t.node[i].key \in Keys /\ HasKey(t.node[i], t.node[i].key)
    BY <2>1, <2>2, TablePositions DEF WellFormed, NodeType, Keyed, HasKey
  <2> QED BY <2>1, <2>3, GetNode DEF Present
<1>3. ASSUME NEW x \in Present(t), x \in IntKeys PROVE x \in IntsUsed(t)
  <2>1. x \in Keys /\ Get(t, x) # Nil /\ x \in Nat
    BY <1>3, KeysApart DEF Present
  <2>2. CASE InArray(t, x)
    BY <2>1, <2>2, GetSlot DEF InArray, IntsUsed, UsedSlots
  <2>3. CASE \E p \in Positions(t) : HasKey(t.node[p], x) /\ t.node[p].val = Get(t, x)
    <3>1. PICK p \in Positions(t) : HasKey(t.node[p], x) /\ t.node[p].val = Get(t, x)
      BY <2>3
    <3>2. p \in UsedNodes(t) /\ t.node[p].key = x
      BY <2>1, <3>1, TablePositions DEF WellFormed, UsedNodes, HasKey
    <3> QED BY <1>3, <3>2 DEF IntsUsed
  <2> QED BY <2>1, <2>2, <2>3, EntryOf
<1>4. IntsUsed(t) \subseteq Present(t) \cap IntKeys
  BY <1>1, <1>2 DEF IntsUsed
<1>5. Present(t) \cap IntKeys \subseteq IntsUsed(t)
  BY <1>3
<1> QED BY <1>4, <1>5, UsedCounts

\* A rehash keeps what is there and makes room for the new key.
LEMMA RehashKeeps ==
  ASSUME NEW t, WellFormed(t), NEW k \in Keys, NEW u, u = Rehash(t, k)
  PROVE  /\ WellFormed(u) /\ Size(u) \in NodeSizes /\ Fits(u, k)
         /\ Len(u.array) = ArraySize(IntsUsed(t) \cup ({k} \cap IntKeys))
         /\ \A x \in Keys : Get(u, x) = Get(t, x)
<1>1. PICK Q : Q = Present(t)
  OBVIOUS
<1>2. PICK ints : ints = IntsUsed(t) \cup ({k} \cap IntKeys)
  OBVIOUS
<1>3. PICK na : na = ArraySize(ints)
  OBVIOUS
<1>4. PICK low : low = UpTo(ints, na)
  OBVIOUS
<1> DEFINE total == Cardinality(UsedSlots(t)) + Cardinality(UsedNodes(t)) + 1
<1>5. PICK nh : nh = total - Cardinality(low)
  OBVIOUS
<1>6. u = Resize(t, na, nh)
  <2>1. u = Resize(t, na, total - Cardinality(low))
    BY <1>2, <1>3, <1>4 DEF Rehash
  <2> HIDE DEF total
  <2> QED BY <1>5, <2>1
<1>7. PICK all : all = Q \cup {k}
  OBVIOUS
<1>8. PICK H : H = all \ low
  OBVIOUS
<1>9. IsFiniteSet(Q) /\ ints = all \cap IntKeys
  BY <1>1, <1>2, <1>7, IntsUsedIs
<1>10. IsFiniteSet(all) /\ Cardinality(all) <= Cardinality(Q) + 1 /\ Cardinality(Q) \in Nat
       /\ Cardinality(all) \in Nat
  <2>1. /\ IsFiniteSet(Q \cup {k})
        /\ Cardinality(Q \cup {k}) = IF k \in Q THEN Cardinality(Q) ELSE Cardinality(Q) + 1
    BY <1>9, FS_AddElement
  <2>2. Cardinality(Q) \in Nat
    BY <1>9, FS_CardinalityType
  <2> QED BY <1>7, <2>1, <2>2
<1>11. low \subseteq all /\ IsFiniteSet(ints)
  BY <1>4, <1>9, <1>10, FS_Subset DEF UpTo
<1>12. na \in Nat
  BY <1>3, <1>11, ArraySizeIs
<1>13. /\ IsFiniteSet(low) /\ IsFiniteSet(H)
       /\ Cardinality(low) \in Nat /\ Cardinality(H) \in Nat
       /\ Cardinality(all) = Cardinality(low) + Cardinality(H)
  BY <1>8, <1>10, <1>11, CountSplit
<1>14. PICK us \in Nat : us = Cardinality(UsedSlots(t))
  BY UsedCounts, FS_CardinalityType
<1>15. PICK un \in Nat : un = Cardinality(UsedNodes(t))
  BY UsedCounts, FS_CardinalityType
<1>16. Cardinality(Q) <= us + un /\ us + un <= Cardinality(Keys)
  BY <1>1, <1>14, <1>15, UsedCounts
<1>17. nh \in Nat /\ Cardinality(H) <= nh /\ nh <= Cardinality(Keys) + MaxGrow + 1
  <2>1. nh = us + un + 1 - Cardinality(low)
    <3>1. total = us + un + 1
      BY <1>14, <1>15
    <3> HIDE DEF total
    <3> QED BY <1>5, <1>13, <3>1
  <2> QED BY <1>10, <1>13, <1>16, <2>1, KeysFinite
<1>18. PICK m : m = NodesFor(nh)
  OBVIOUS
<1>19. m \in NodeSizes /\ m \in Nat /\ m >= nh
  BY <1>17, <1>18, NodesForIs
<1>20. \A x \in all : x \in Keys /\ (x \notin 1..na => x \in H) /\ (x \in 1..na => x \notin H)
  <2> SUFFICES ASSUME NEW x \in all
      PROVE  x \in Keys /\ (x \notin 1..na => x \in H) /\ (x \in 1..na => x \notin H)
    OBVIOUS
  <2>1. x \in Keys
    BY <1>1, <1>7 DEF Present
  <2>2. x \in low <=> x \in IntKeys /\ x <= na
    BY <1>4, <1>9 DEF UpTo
  <2>3. x \in 1..na <=> x \in IntKeys /\ x <= na
    <3>1. CASE x \in IntKeys
      <4>1. x \in Nat /\ x # 0
        BY <3>1, KeyAssumption
      <4> QED BY <1>12, <3>1, <4>1
    <3>2. CASE x \notin IntKeys
      <4>1. x \notin Nat
        BY <2>1, <3>2, KeysApart
      <4> QED BY <1>12, <3>2, <4>1
    <3> QED BY <3>1, <3>2
  <2> QED BY <1>8, <2>1, <2>2, <2>3
<1>21. \A x \in Keys : Get(t, x) # Nil /\ x \notin 1..na => x \in H
  BY <1>1, <1>7, <1>20 DEF Present
<1>22. Cardinality(H) <= m
  BY <1>13, <1>17, <1>19
<1>23. /\ WellFormed(u) /\ Len(u.array) = na /\ Size(u) = m /\ Packed(u, H)
       /\ \A x \in Keys : Get(u, x) = Get(t, x)
  BY <1>6, <1>12, <1>13, <1>18, <1>19, <1>21, <1>22, ResizeKeeps
<1>24. Fits(u, k)
  <2>1. CASE k \in 1..na
    BY <1>23, <2>1 DEF Fits, InArray
  <2>2. CASE k \notin 1..na
    <3>1. k \in H
      BY <1>7, <1>20, <2>2
    <3> QED BY <1>13, <1>22, <1>23, <3>1, Capacity
  <2> QED BY <2>1, <2>2
<1> QED BY <1>2, <1>3, <1>19, <1>23, <1>24

\* Set stores the value and leaves every other key with what it has.
LEMMA SetKeeps ==
  ASSUME NEW t, WellFormed(t), Size(t) \in NodeSizes,
         NEW k \in Keys, NEW v \in Slot, NEW u, u = Set(t, k, v)
  PROVE  /\ WellFormed(u) /\ Size(u) \in NodeSizes
         /\ \A x \in Keys : Get(u, x) = IF x = k THEN v ELSE Get(t, x)
         /\ Get(t, k) # Nil => u = Put(t, k, v)
<1>1. CASE ~ InArray(t, k) /\ Find(t, k) = None /\ NeedsRehash(t, k)
  <2>1. PICK r : r = Rehash(t, k)
    OBVIOUS
  <2>2. u = Put(r, k, v)
    BY <1>1, <2>1 DEF Set
  <2>3. /\ WellFormed(r) /\ Size(r) \in NodeSizes /\ Fits(r, k)
        /\ \A x \in Keys : Get(r, x) = Get(t, x)
    BY <2>1, RehashKeeps
  <2>4. /\ WellFormed(u) /\ Size(u) = Size(r)
        /\ \A x \in Keys : Get(u, x) = IF x = k THEN v ELSE Get(r, x)
    BY <2>2, <2>3, PutKeeps
  <2>5. Get(t, k) = Nil
    BY <1>1, FindIs, GetNothing
  <2> QED BY <2>3, <2>4, <2>5
<1>2. CASE ~ (~ InArray(t, k) /\ Find(t, k) = None /\ NeedsRehash(t, k))
  <2>1. u = Put(t, k, v) /\ Fits(t, k)
    BY <1>2 DEF Set, Fits
  <2>2. /\ WellFormed(u) /\ Size(u) = Size(t)
        /\ \A x \in Keys : Get(u, x) = IF x = k THEN v ELSE Get(t, x)
    BY <2>1, PutKeeps
  <2> QED BY <2>1, <2>2
<1> QED BY <1>1, <1>2

\* When the array part changes, its size is what computesizes chose for the
\* integer keys and the new one.
LEMMA SetArray ==
  ASSUME NEW t, WellFormed(t), NEW k \in Keys, NEW v \in Slot, NEW u, u = Set(t, k, v),
         Len(u.array) # Len(t.array)
  PROVE  Len(u.array) = ArraySize(IntsUsed(t) \cup ({k} \cap IntKeys))
<1>1. CASE ~ InArray(t, k) /\ Find(t, k) = None /\ NeedsRehash(t, k)
  <2>1. PICK r : r = Rehash(t, k)
    OBVIOUS
  <2>2. u = Put(r, k, v)
    BY <1>1, <2>1 DEF Set
  <2>3. /\ WellFormed(r) /\ Fits(r, k)
        /\ Len(r.array) = ArraySize(IntsUsed(t) \cup ({k} \cap IntKeys))
    BY <2>1, RehashKeeps
  <2>4. Len(u.array) = Len(r.array)
    BY <2>2, <2>3, PutKeeps
  <2> QED BY <2>3, <2>4
<1>2. CASE ~ (~ InArray(t, k) /\ Find(t, k) = None /\ NeedsRehash(t, k))
  <2>1. u = Put(t, k, v) /\ Fits(t, k)
    BY <1>2 DEF Set, Fits
  <2> QED BY <2>1, PutKeeps
<1> QED BY <1>1, <1>2

-----------------------------------------------------------------------------
(* The other operations on a table.                                        *)

\* luaH_resizearray keeps the entries.
LEMMA GrowKeeps ==
  ASSUME NEW t, WellFormed(t), Size(t) \in NodeSizes, NEW n, n \in Nat,
         n > Len(t.array), NEW u, u = Resize(t, n, Size(t))
  PROVE  /\ WellFormed(u) /\ Size(u) \in NodeSizes
         /\ \A x \in Keys : Get(u, x) = Get(t, x)
<1>1. PICK H : H = {x \in Present(t) : x \notin 1..n}
  OBVIOUS
<1>2. PICK m : m = NodesFor(Size(t))
  OBVIOUS
<1>3. /\ Size(t) \in Nat /\ Len(t.array) \in Nat
      /\ IsFiniteSet(Positions(t)) /\ Cardinality(Positions(t)) = Size(t)
  BY EntryAt, TablePositions DEF WellFormed
<1>4. m \in NodeSizes /\ m \in Nat /\ m >= Size(t)
  <2>1. Size(t) \in PowerOf2s \/ Size(t) <= Cardinality(Keys) + MaxGrow + 1
    BY <1>3, KeysFinite DEF NodeSizes
  <2> QED BY <1>2, <1>3, <2>1, NodesForIs
<1>5. \A x \in H : Find(t, x) \in Positions(t) /\ HasKey(t.node[Find(t, x)], x)
  <2> SUFFICES ASSUME NEW x \in H
      PROVE  Find(t, x) \in Positions(t) /\ HasKey(t.node[Find(t, x)], x)
    OBVIOUS
  <2>1. x \in Keys /\ Get(t, x) # Nil /\ x \notin 1..n
    BY <1>1 DEF Present
  <2>2. ~ InArray(t, x)
    BY <1>3, <2>1 DEF InArray
  <2> QED BY <2>1, <2>2, EntryOf, FindLive
<1>6. PICK f : f = [x \in H |-> Find(t, x)]
  OBVIOUS
<1>7. f \in Injection(H, Positions(t))
  <2>1. f \in [H -> Positions(t)]
    BY <1>5, <1>6
  <2>2. \A x, y \in H : f[x] = f[y] => x = y
    BY <1>5, <1>6 DEF HasKey
  <2> QED BY <2>1, <2>2 DEF Injection, IsInjective
<1>8. IsFiniteSet(H) /\ Cardinality(H) <= Cardinality(Positions(t))
  BY <1>3, <1>7, FS_Injection
<1>9. Cardinality(H) <= m
  BY <1>3, <1>4, <1>8, FS_CardinalityType
<1>10. \A x \in Keys : Get(t, x) # Nil /\ x \notin 1..n => x \in H
  BY <1>1 DEF Present
<1>11. WellFormed(u) /\ Size(u) = m /\ \A x \in Keys : Get(u, x) = Get(t, x)
  BY <1>2, <1>4, <1>8, <1>9, <1>10, ResizeKeeps
<1> QED BY <1>4, <1>11

\* u has the layout of t, and no value where t had none.
Layout(t, u) ==
  /\ Size(u) = Size(t) /\ Len(u.array) = Len(t.array) /\ Links(u) = Links(t)
  /\ \A i \in Positions(t) : u.node[i].key = t.node[i].key
  /\ \A j \in 1..Count(t) : ValAt(u, j) # Nil => ValAt(t, j) # Nil

\* The collector, marking keys dead, changes neither values nor layout.
LEMMA RemoveEmptyKeeps ==
  ASSUME NEW t, WellFormed(t),
         NEW N, N = [i \in DOMAIN t.node |->
                       IF t.node[i].val = Nil THEN Removed(t.node[i]) ELSE t.node[i]],
         NEW u, u = WithNodes(t, N)
  PROVE  /\ WellFormed(u) /\ Layout(t, u)
         /\ \A x \in Keys : Get(u, x) = Get(t, x)
<1>1. PICK P : P = Positions(t)
  OBVIOUS
<1>2. DOMAIN t.node = P /\ \A i \in P : t.node[i] \in NodeType(P)
  BY <1>1, TablePositions DEF WellFormed
<1>3. \A n \in NodeType(P) :
        n.val = Nil =>
          /\ Removed(n) \in NodeType(P)
          /\ Removed(n).key = n.key /\ Removed(n).next = n.next /\ Removed(n).val = Nil
          /\ n.dead => Removed(n).dead
          /\ ~ n.dead /\ n.key = Nil => Removed(n) = n
  <2> SUFFICES ASSUME NEW n \in NodeType(P), n.val = Nil
      PROVE  /\ Removed(n) \in NodeType(P)
             /\ Removed(n).key = n.key /\ Removed(n).next = n.next /\ Removed(n).val = Nil
             /\ n.dead => Removed(n).dead
             /\ ~ n.dead /\ n.key = Nil => Removed(n) = n
    OBVIOUS
  <2>1. PICK d \in BOOLEAN : d <=> n.dead \/ n.key \in Collectable
    OBVIOUS
  <2>2. n.dead \in BOOLEAN
    BY DEF NodeType
  <2>3. d = (n.dead \/ n.key \in Collectable)
    BY <2>1, <2>2
  <2>4. Removed(n) = [n EXCEPT !.val = Nil, !.dead = d]
    BY <2>3 DEF Removed
  <2>5. n.key = Nil => n.key \notin Collectable
    BY KeysApart DEF Keys
  <2> QED BY <2>1, <2>2, <2>4, <2>5 DEF NodeType, Slot
<1>4. N \in [P -> NodeType(P)] /\ \A i \in P : N[i] = IF t.node[i].val = Nil
                                                     THEN Removed(t.node[i]) ELSE t.node[i]
  BY <1>2, <1>3
<1>5. \A i \in P : ~ Keyed(t, i) => ~ t.node[i].dead
  BY <1>1 DEF WellFormed, Free, EmptyNode
<1>6. \A i \in P : N[i].key = t.node[i].key /\ N[i].val = t.node[i].val
                   /\ N[i].next = t.node[i].next
  BY <1>2, <1>3, <1>4
<1>7. \A i \in P : /\ t.node[i].dead => N[i].dead
                   /\ t.node[i].val # Nil => N[i] = t.node[i]
                   /\ ~ Keyed(t, i) => N[i] = t.node[i]
  BY <1>2, <1>3, <1>4, <1>5 DEF Keyed
<1>8. Revalued(t, N)
  BY <1>1, <1>4, <1>6, <1>7 DEF Revalued, WellFormed, Entries
<1>9. /\ WellFormed(u) /\ Links(u) = Links(t) /\ Size(u) = Size(t)
      /\ u.array = t.array /\ u.node = N
  BY <1>8, RevaluedKeeps
<1>10. ASSUME NEW x \in Keys PROVE Get(u, x) = Get(t, x)
  <2>1. \A j \in P : HasKey(u.node[j], x) =>
          \E i \in P : HasKey(t.node[i], x) /\ t.node[i].val = u.node[j].val
    <3> SUFFICES ASSUME NEW j \in P, HasKey(N[j], x)
        PROVE  HasKey(t.node[j], x) /\ t.node[j].val = N[j].val
      BY <1>9
    <3>1. N[j].key = x /\ ~ N[j].dead
      BY DEF HasKey
    <3>2. t.node[j].key = x /\ ~ t.node[j].dead /\ t.node[j].val = N[j].val
      BY <1>6, <1>7, <3>1
    <3> QED BY <3>2 DEF HasKey
  <2>2. \A i \in P : HasKey(t.node[i], x) /\ t.node[i].val # Nil =>
          \E j \in P : HasKey(u.node[j], x) /\ t.node[i].val = u.node[j].val
    BY <1>7, <1>9 DEF HasKey
  <2> QED BY <1>1, <1>9, <2>1, <2>2, SameGet
<1>11. Layout(t, u)
  <2>1. ASSUME NEW j \in 1..Count(t), ValAt(u, j) # Nil PROVE ValAt(t, j) # Nil
    <3>1. CASE j <= Len(t.array)
      BY <1>9, <2>1, <3>1 DEF ValAt
    <3>2. CASE ~ (j <= Len(t.array))
      <4>1. j \in (Len(t.array) + 1)..Count(t)
        BY <3>2, EntryAt
      <4>2. j - Len(t.array) - 1 \in P
        BY <1>1, <4>1, EntryAt
      <4> QED BY <1>6, <1>9, <2>1, <3>2, <4>2 DEF ValAt
    <3> QED BY <3>1, <3>2
  <2> QED BY <1>1, <1>6, <1>9, <2>1 DEF Layout
<1> QED BY <1>9, <1>10, <1>11

\* The layout is kept part by part.
LEMMA LayoutByParts ==
  ASSUME NEW t, WellFormed(t), NEW u, Size(u) = Size(t), Len(u.array) = Len(t.array),
         Links(u) = Links(t),
         \A i \in Positions(t) : /\ u.node[i].key = t.node[i].key
                                 /\ u.node[i].val # Nil => t.node[i].val # Nil,
         \A s \in 1..Len(t.array) : u.array[s] # Nil => t.array[s] # Nil
  PROVE  Layout(t, u)
<1>1. ASSUME NEW j \in 1..Count(t), ValAt(u, j) # Nil PROVE ValAt(t, j) # Nil
  <2>1. CASE j <= Len(t.array)
    <3>1. j \in 1..Len(t.array)
      BY <2>1, EntryAt
    <3> QED BY <1>1, <2>1, <3>1 DEF ValAt
  <2>2. CASE ~ (j <= Len(t.array))
    <3>1. j \in (Len(t.array) + 1)..Count(t)
      BY <2>2, EntryAt
    <3>2. j - Len(t.array) - 1 \in Positions(t)
      BY <3>1, EntryAt
    <3> QED BY <1>1, <2>2, <3>2 DEF ValAt
  <2> QED BY <2>1, <2>2
<1> QED BY <1>1 DEF Layout

\* Assigning to what is there keeps the layout.
LEMMA PutPresent ==
  ASSUME NEW t, WellFormed(t), NEW k \in Keys, NEW v \in Slot, Get(t, k) # Nil,
         NEW u, u = Put(t, k, v)
  PROVE  Layout(t, u)
<1>1. CASE InArray(t, k)
  <2>1. u = WithSlot(t, k, v)
    BY <1>1 DEF Put, WithSlot
  <2>2. /\ Links(u) = Links(t) /\ Size(u) = Size(t)
        /\ Len(u.array) = Len(t.array) /\ u.node = t.node
        /\ \A s \in 1..Len(t.array) : u.array[s] = IF s = k THEN v ELSE t.array[s]
    BY <1>1, <2>1, SetSlotKeeps
  <2>3. t.array[k] # Nil
    BY <1>1, GetSlot DEF InArray
  <2> QED BY <2>2, <2>3, LayoutByParts
<1>2. CASE ~ InArray(t, k)
  <2>1. PICK i \in Positions(t) : HasKey(t.node[i], k) /\ t.node[i].val = Get(t, k)
    BY <1>2, EntryOf
  <2>2. Find(t, k) = i /\ i # None
    BY <2>1, FindLive, TablePositions DEF WellFormed
  <2>3. u = WithVal(t, i, v)
    BY <1>2, <2>2 DEF Put, WithVal
  <2>4. /\ Links(u) = Links(t) /\ Size(u) = Size(t) /\ u.array = t.array
        /\ \A j \in Positions(t) : u.node[j].key = t.node[j].key
                                   /\ u.node[j].val = IF j = i THEN v ELSE t.node[j].val
    BY <2>1, <2>3, SetValueKeeps
  <2> QED BY <2>1, <2>4, LayoutByParts
<1> QED BY <1>1, <1>2

Cleared(t, i) == [t EXCEPT !.node[i] = Removed(@)]

\* The collector, clearing a weak entry, changes its value alone.
LEMMA ClearWeakKeeps ==
  ASSUME NEW t, WellFormed(t), NEW k, k \in Objects, Get(t, k) # Nil,
         NEW u, u = Cleared(t, Find(t, k))
  PROVE  /\ WellFormed(u) /\ Layout(t, u)
         /\ \A x \in Keys : Get(u, x) = IF x = k THEN Nil ELSE Get(t, x)
<1>1. k \in Keys /\ k \notin Nat /\ k \in Collectable /\ k # Nil
  BY KeyAssumption DEF Keys, Collectable
<1>2. PICK i \in Positions(t) : HasKey(t.node[i], k) /\ t.node[i].val = Get(t, k)
  <2>1. ~ InArray(t, k)
    BY <1>1, EntryAt DEF InArray
  <2> QED BY <1>1, <2>1, EntryOf
<1>3. Find(t, k) = i
  BY <1>1, <1>2, FindLive
<1>4. PICK P : P = Positions(t)
  OBVIOUS
<1>5. t \in [array : Seq(Slot), node : [P -> NodeType(P)], lastfree : 0..Size(t)] /\ i \in P
  BY <1>4 DEF WellFormed, IsTable
<1>6. PICK n \in NodeType(P) : n = t.node[i]
  BY <1>5
<1>7. Removed(n) = [n EXCEPT !.val = Nil, !.dead = TRUE]
  BY <1>1, <1>2, <1>6 DEF Removed, HasKey
<1>8. /\ Removed(n) \in NodeType(P) /\ Removed(n).key = n.key /\ Removed(n).next = n.next
      /\ Removed(n).val = Nil /\ Removed(n).dead = TRUE
  BY <1>6, <1>7 DEF NodeType, Slot
<1>9. PICK N : N = [t.node EXCEPT ![i] = Removed(n)]
  OBVIOUS
<1>10. /\ N \in [P -> NodeType(P)] /\ N[i] = Removed(n)
       /\ \A j \in P : j # i => N[j] = t.node[j]
  BY <1>5, <1>8, <1>9
<1>11. Keyed(t, i)
  BY <1>1, <1>2 DEF Keyed, HasKey
<1>12. ASSUME NEW j \in P
       PROVE  /\ N[j].key = t.node[j].key /\ N[j].next = t.node[j].next
              /\ t.node[j].dead => N[j].dead
              /\ N[j].val # Nil => Keyed(t, j) /\ ~ N[j].dead
              /\ ~ Keyed(t, j) => N[j] = t.node[j]
  <2>1. CASE j = i
    BY <1>6, <1>8, <1>10, <1>11, <2>1
  <2>2. CASE j # i
    BY <1>4, <1>10, <2>2 DEF WellFormed, Entries
  <2> QED BY <2>1, <2>2
<1>13. Revalued(t, N)
  BY <1>4, <1>10, <1>12 DEF Revalued
<1>14. u = WithNodes(t, N)
  BY <1>3, <1>5, <1>6, <1>9 DEF WithNodes, Cleared
<1>15. /\ WellFormed(u) /\ Links(u) = Links(t) /\ Size(u) = Size(t)
       /\ u.array = t.array /\ u.node = N
  BY <1>13, <1>14, RevaluedKeeps
<1>16. Layout(t, u)
  <2>1. \A j \in P : N[j].val # Nil => t.node[j].val # Nil
    BY <1>8, <1>10
  <2> QED BY <1>4, <1>12, <1>15, <2>1, LayoutByParts
<1>17. ASSUME NEW x \in Keys PROVE Get(u, x) = IF x = k THEN Nil ELSE Get(t, x)
  <2>1. CASE x = k
    <3>1. \A j \in P : ~ HasKey(u.node[j], k)
      <4> SUFFICES ASSUME NEW j \in P, HasKey(N[j], k) PROVE FALSE
        BY <1>15
      <4>1. j # i
        BY <1>8, <1>10 DEF HasKey
      <4>2. HasKey(t.node[j], k)
        BY <1>10, <4>1
      <4> QED BY <1>1, <1>2, <1>4, <4>1, <4>2, LiveOnce
    <3>2. ~ InArray(u, k)
      BY <1>1, <1>15, EntryAt DEF InArray
    <3>3. Positions(u) = P
      BY <1>4, <1>15 DEF Positions
    <3> QED BY <1>1, <1>15, <2>1, <3>1, <3>2, <3>3, GetNothing
  <2>2. CASE x # k
    <3>1. \A j \in P : HasKey(N[j], x) => j # i /\ N[j] = t.node[j]
      BY <1>2, <1>6, <1>8, <1>10, <2>2 DEF HasKey
    <3>2. \A j \in P : HasKey(t.node[j], x) => j # i /\ N[j] = t.node[j]
      BY <1>2, <1>10, <2>2 DEF HasKey
    <3>3. Get(u, x) = Get(t, x)
      BY <1>4, <1>15, <3>1, <3>2, SameGet
    <3> QED BY <2>2, <3>3
  <2> QED BY <2>1, <2>2
<1> QED BY <1>15, <1>16, <1>17

-----------------------------------------------------------------------------
(* Where a traversal is.                                                   *)

\* findindex finds the entry of a key with a value.
LEMMA IndexOfEntry ==
  ASSUME NEW t, WellFormed(t), NEW j, j \in 1..Count(t), ValAt(t, j) # Nil
  PROVE  IndexOf(t, KeyAt(t, j)) = j
<1>1. PICK k : k = KeyAt(t, j)
  OBVIOUS
<1>2. k \in Keys /\ k # Nil
  BY <1>1, EntryGet, KeysApart
<1>3. CASE j <= Len(t.array)
  <2>1. j \in 1..Len(t.array) /\ k = j
    BY <1>1, <1>3, EntryAt
  <2> QED BY <1>1, <1>2, <2>1 DEF IndexOf, InArray
<1>4. CASE ~ (j <= Len(t.array))
  <2>1. PICK l \in Nat : l = Len(t.array)
    BY EntryAt
  <2>2. PICK p : p = j - l - 1
    OBVIOUS
  <2>3. j \in (Len(t.array) + 1)..Count(t)
    BY <1>4, EntryAt
  <2>4. p \in Positions(t) /\ k = t.node[p].key /\ t.node[p].val # Nil
    BY <1>1, <2>1, <2>2, <2>3, EntryAt
  <2>5. p \in Nat /\ j = l + 1 + p
    <3>1. p \in Nat
      BY <2>4, EntryAt DEF Positions
    <3>2. j \in Int
      BY EntryAt
    <3> QED BY <2>2, <3>1, <3>2
  <2>6. Keyed(t, p) /\ ~ t.node[p].dead /\ ~ InArray(t, k)
    BY <2>4 DEF WellFormed, Entries, InArray
  <2>7. PICK S : S = {i \in DOMAIN t.node : MatchesKey(t.node[i], k)}
    OBVIOUS
  <2>8. /\ S \subseteq Positions(t) /\ p \in S
        /\ DOMAIN t.node = Positions(t) /\ IsLinks(Links(t), Positions(t))
    BY <2>4, <2>7, TablePositions DEF WellFormed, MatchesKey
  <2>9. PICK m : m = MainPosition(t, k)
    OBVIOUS
  <2>10. m \in Positions(t) /\ Reaches(Links(t), m, p)
    <3>1. Size(t) # 0 /\ Size(t) \in Nat
      BY <2>4, EntryAt DEF Positions
    <3> QED BY <1>2, <2>4, <2>6, <2>9, <3>1, MainPositionIn DEF WellFormed, InChain
  <2>11. PICK r : Ranks(Links(t), r) /\ LiveFirst(t, r)
    BY DEF WellFormed, Ranked
  <2>12. \A s \in S : s # p => r[p] < r[s]
    BY <2>4, <2>6, <2>7, <2>8, <2>11 DEF LiveFirst, HasKey, MatchesKey
  <2>13. FirstInChain(Links(t), m, S) = p
    BY <2>8, <2>10, <2>11, <2>12, FirstRanked
  <2>14. First(t, k, S) = p
    BY <2>8, <2>9, <2>13 DEF First
  <2>15. p # None
    BY <2>5 DEF None
  <2>16. IndexOf(t, k) = Len(t.array) + 1 + p
    BY <1>2, <2>6, <2>7, <2>14, <2>15 DEF IndexOf
  <2> QED BY <1>1, <2>1, <2>5, <2>16
<1> QED BY <1>3, <1>4

\* findindex answers by the layout alone, so a key is found where it was, even
\* when it has died since.
LEMMA LayoutKeepsIndex ==
  ASSUME NEW t, WellFormed(t), NEW u, WellFormed(u), Layout(t, u), NEW k
  PROVE  /\ IndexOf(u, k) = IndexOf(t, k) /\ Count(u) = Count(t)
         /\ \A j \in 1..Count(t) : KeyAt(u, j) = KeyAt(t, j)
<1>1. /\ Positions(u) = Positions(t) /\ DOMAIN u.node = Positions(t)
      /\ DOMAIN t.node = Positions(t) /\ Count(u) = Count(t)
  BY TablePositions DEF WellFormed, Layout, Positions, Count
<1>2. {i \in DOMAIN u.node : MatchesKey(u.node[i], k)}
        = {i \in DOMAIN t.node : MatchesKey(t.node[i], k)}
  BY <1>1 DEF Layout, MatchesKey
<1>3. Size(u) = Size(t) /\ Len(u.array) = Len(t.array) /\ Links(u) = Links(t)
  BY DEF Layout
<1>4. MainPosition(u, k) = MainPosition(t, k)
  BY <1>3, MainPositionSame
<1>5. IndexOf(u, k) = IndexOf(t, k)
  <2>1. \A S : First(u, k, S) = First(t, k, S)
    BY <1>3, <1>4 DEF First
  <2>2. InArray(u, k) <=> InArray(t, k)
    BY <1>3 DEF InArray
  <2> QED BY <1>2, <1>3, <2>1, <2>2 DEF IndexOf
<1>6. ASSUME NEW j \in 1..Count(t) PROVE KeyAt(u, j) = KeyAt(t, j)
  <2>1. CASE j <= Len(t.array)
    BY <1>3, <2>1 DEF KeyAt
  <2>2. CASE ~ (j <= Len(t.array))
    <3>1. j \in (Len(t.array) + 1)..Count(t)
      BY <2>2, EntryAt
    <3>2. j - Len(t.array) - 1 \in Positions(t)
      BY <3>1, EntryAt
    <3> QED BY <1>3, <2>2, <3>2 DEF KeyAt, Layout
  <2> QED BY <2>1, <2>2
<1> QED BY <1>1, <1>5, <1>6

-----------------------------------------------------------------------------
(* The specification.                                                      *)

\* A traversal gave the entries up to where it is, and none behind.
Walking ==
  /\ walk # "failed"
  /\ walk = "running" =>
       /\ IndexOf(table, cur) \in 0..Count(table)
       /\ \A j \in 1..Count(table) :
            ValAt(table, j) # Nil => (KeyAt(table, j) \in seen <=> j <= IndexOf(table, cur))

TableInv ==
  /\ WellFormed(table) /\ Size(table) \in NodeSizes
  /\ cur \in Keys \cup {Nil}
  /\ walk \in {"none", "running", "failed"}
  /\ seen \subseteq Keys
  /\ map \in [Keys -> Slot]
  /\ HoldsWhatWasAssigned
  /\ Walking

\* A new table satisfies the invariant.
LEMMA InitTable == Init => TableInv
<1> SUFFICES ASSUME Init PROVE TableInv
  OBVIOUS
<1>1. PICK na \in 0..MaxGrow, nh \in 0..MaxGrow : table = NewTable(na, nh)
  BY DEF Init
<1>2. na \in Nat /\ nh \in Nat /\ nh <= Cardinality(Keys) + MaxGrow + 1
  BY KeysFinite
<1>3. PICK m : m = NodesFor(nh)
  OBVIOUS
<1>4. m \in NodeSizes /\ m \in Nat
  BY <1>2, <1>3, NodesForIs
<1>5. PICK A : A = [i \in 1..na |-> Nil]
  OBVIOUS
<1>6. A \in Seq(Slot) /\ Len(A) = na /\ \A s \in 1..na : A[s] = Nil
  BY <1>2, <1>5 DEF Slot
<1>7. table = EmptyTable(A, m)
  BY <1>1, <1>3, <1>5 DEF NewTable, EmptyTable
<1>8. /\ WellFormed(table) /\ Size(table) = m
      /\ \A x \in Keys : Get(table, x) = IF x \in 1..Len(A) THEN A[x] ELSE Nil
  <2>1. \A s \in 1..Len(A) : A[s] # Nil => s \in IntKeys
    BY <1>6
  <2>2. WellFormed(table)
    BY <1>4, <1>6, <1>7, <2>1, EmptyWell
  <2>3. Size(table) = m
    BY <1>4, <1>6, <1>7, <2>1, EmptyWell
  <2>4. \A x \in Keys : Get(table, x) = IF x \in 1..Len(A) THEN A[x] ELSE Nil
    <3>1. m \in Nat /\ A \in Seq(Slot)
      BY <1>4, <1>6
    <3> QED BY <1>7, <2>1, <3>1, EmptyWell
  <2> QED BY <2>2, <2>3, <2>4
<1>9. \A x \in Keys : Get(table, x) = Nil
  BY <1>6, <1>8
<1>10. map = [k \in Keys |-> Nil] /\ cur = Nil /\ walk = "none" /\ seen = {}
  BY DEF Init
<1>11. HoldsWhatWasAssigned /\ Walking
  BY <1>9, <1>10 DEF HoldsWhatWasAssigned, Walking
<1> QED BY <1>4, <1>8, <1>10, <1>11 DEF TableInv, Slot

\* A step that keeps the layout leaves the traversal where it is.
LEMMA WalkingKept ==
  ASSUME TableInv, WellFormed(table'), Layout(table, table'), UNCHANGED <<cur, walk, seen>>
  PROVE  Walking'
<1>1. PICK t : t = table
  OBVIOUS
<1>2. PICK u : u = table'
  OBVIOUS
<1>3. WellFormed(t) /\ WellFormed(u) /\ Layout(t, u)
  BY <1>1, <1>2 DEF TableInv
<1>4. /\ IndexOf(u, cur) = IndexOf(t, cur) /\ Count(u) = Count(t)
      /\ \A j \in 1..Count(t) : KeyAt(u, j) = KeyAt(t, j)
  BY <1>3, LayoutKeepsIndex
<1>5. \A j \in 1..Count(t) : ValAt(u, j) # Nil => ValAt(t, j) # Nil
  BY <1>3 DEF Layout
<1>6. cur' = cur /\ walk' = walk /\ seen' = seen
  OBVIOUS
<1>7. walk # "failed"
  BY DEF TableInv, Walking
<1>8. ASSUME walk = "running"
      PROVE  /\ IndexOf(u, cur) \in 0..Count(u)
             /\ \A j \in 1..Count(u) :
                  ValAt(u, j) # Nil => (KeyAt(u, j) \in seen <=> j <= IndexOf(u, cur))
  <2>1. /\ IndexOf(t, cur) \in 0..Count(t)
        /\ \A j \in 1..Count(t) :
             ValAt(t, j) # Nil => (KeyAt(t, j) \in seen <=> j <= IndexOf(t, cur))
    BY <1>1, <1>8 DEF TableInv, Walking
  <2> QED BY <1>4, <1>5, <2>1
<1> QED BY <1>2, <1>6, <1>7, <1>8 DEF Walking

\* Every step keeps the invariant.
LEMMA StepTable == TableInv /\ [Next]_vars => TableInv'
<1> SUFFICES ASSUME TableInv, [Next]_vars PROVE TableInv'
  OBVIOUS
<1>1. PICK t : t = table
  OBVIOUS
<1>2. PICK u : u = table'
  OBVIOUS
<1>3. /\ WellFormed(t) /\ Size(t) \in NodeSizes
      /\ cur \in Keys \cup {Nil} /\ seen \subseteq Keys
      /\ map \in [Keys -> Slot] /\ \A x \in Keys : Get(t, x) = map[x]
      /\ walk # "failed" /\ walk \in {"none", "running", "failed"}
  BY <1>1 DEF TableInv, HoldsWhatWasAssigned, Walking
<1>4. ASSUME NEW k \in Keys, NEW v \in Slot, Assign(k, v) PROVE TableInv'
  <2>1. u = Set(t, k, v) /\ map' = [map EXCEPT ![k] = v]
    BY <1>1, <1>2, <1>4 DEF Assign
  <2>2. /\ WellFormed(u) /\ Size(u) \in NodeSizes
        /\ \A x \in Keys : Get(u, x) = IF x = k THEN v ELSE Get(t, x)
        /\ Get(t, k) # Nil => u = Put(t, k, v)
    <3>1. WellFormed(t) /\ Size(t) \in NodeSizes /\ u = Set(t, k, v)
      BY <1>3, <2>1
    <3>2. WellFormed(u) /\ Size(u) \in NodeSizes
      BY <3>1, SetKeeps
    <3>3. \A x \in Keys : Get(u, x) = IF x = k THEN v ELSE Get(t, x)
      BY <3>1, SetKeeps
    <3>4. Get(t, k) # Nil => u = Put(t, k, v)
      BY <3>1, SetKeeps
    <3> QED BY <3>2, <3>3, <3>4
  <2>3. /\ map' \in [Keys -> Slot] /\ \A x \in Keys : Get(u, x) = map'[x]
    BY <1>3, <2>1, <2>2
  <2>4. CASE Get(t, k) # Nil
    <3>1. UNCHANGED <<cur, walk, seen>>
      BY <1>1, <1>4, <2>4 DEF Assign
    <3>2. Layout(t, u)
      BY <1>3, <2>2, <2>4, PutPresent
    <3>3. Walking'
      BY <1>1, <1>2, <2>2, <3>1, <3>2, WalkingKept
    <3> QED BY <1>2, <1>3, <2>2, <2>3, <3>1, <3>3 DEF TableInv, HoldsWhatWasAssigned
  <2>5. CASE Get(t, k) = Nil
    <3>1. cur' = Nil /\ walk' = "none" /\ seen' = {}
      BY <1>1, <1>4, <2>5 DEF Assign
    <3>2. Walking'
      BY <3>1 DEF Walking
    <3> QED BY <1>2, <1>3, <2>2, <2>3, <3>1, <3>2 DEF TableInv, HoldsWhatWasAssigned
  <2> QED BY <2>4, <2>5
<1>5. ASSUME NEW n \in 1..MaxGrow, GrowArray(n) PROVE TableInv'
  <2>1. /\ walk = "none" /\ n > Len(t.array) /\ n \in Nat /\ u = Resize(t, n, Size(t))
        /\ UNCHANGED <<cur, walk, seen, map>>
    BY <1>1, <1>2, <1>5 DEF GrowArray
  <2>2. WellFormed(u) /\ Size(u) \in NodeSizes /\ \A x \in Keys : Get(u, x) = Get(t, x)
    BY <1>3, <2>1, GrowKeeps
  <2>3. Walking'
    BY <2>1 DEF Walking
  <2> QED BY <1>2, <1>3, <2>1, <2>2, <2>3 DEF TableInv, HoldsWhatWasAssigned
<1>6. CASE RemoveEmpty
  <2>1. PICK N : N = [i \in DOMAIN t.node |->
                        IF t.node[i].val = Nil THEN Removed(t.node[i]) ELSE t.node[i]]
    OBVIOUS
  <2>2. u = WithNodes(t, N) /\ UNCHANGED <<cur, walk, seen, map>>
    BY <1>1, <1>2, <1>6, <2>1 DEF RemoveEmpty, WithNodes
  <2>3. WellFormed(u) /\ Layout(t, u) /\ \A x \in Keys : Get(u, x) = Get(t, x)
    BY <1>3, <2>1, <2>2, RemoveEmptyKeeps
  <2>4. Walking'
    BY <1>1, <1>2, <2>2, <2>3, WalkingKept
  <2> QED BY <1>2, <1>3, <2>2, <2>3, <2>4 DEF TableInv, HoldsWhatWasAssigned, Layout
<1>7. ASSUME NEW k \in Objects, ClearWeak(k) PROVE TableInv'
  <2>1. /\ Get(t, k) # Nil /\ u = Cleared(t, Find(t, k))
        /\ map' = [map EXCEPT ![k] = Nil] /\ UNCHANGED <<cur, walk, seen>>
    BY <1>1, <1>2, <1>7 DEF ClearWeak, Cleared
  <2>2. /\ WellFormed(u) /\ Layout(t, u)
        /\ \A x \in Keys : Get(u, x) = IF x = k THEN Nil ELSE Get(t, x)
    BY <1>3, <2>1, ClearWeakKeeps
  <2>3. /\ map' \in [Keys -> Slot] /\ \A x \in Keys : Get(u, x) = map'[x]
    BY <1>3, <2>1, <2>2 DEF Slot
  <2>4. Walking'
    BY <1>1, <1>2, <2>1, <2>2, WalkingKept
  <2> QED BY <1>2, <1>3, <2>1, <2>2, <2>3, <2>4 DEF TableInv, HoldsWhatWasAssigned, Layout
<1>8. CASE BeginTraversal
  <2>1. walk' = "running" /\ cur' = Nil /\ seen' = {} /\ u = t /\ map' = map
    BY <1>1, <1>2, <1>8 DEF BeginTraversal
  <2>2. IndexOf(u, Nil) = 0 /\ Count(u) \in Nat
    BY <1>3, <2>1, EntryAt DEF IndexOf
  <2>3. Walking'
    BY <1>2, <2>1, <2>2 DEF Walking
  <2> QED BY <1>2, <1>3, <2>1, <2>3 DEF TableInv, HoldsWhatWasAssigned
<1>9. CASE Traverse
  <2>1. walk = "running" /\ u = t /\ map' = map
    BY <1>1, <1>2, <1>9 DEF Traverse
  <2>2. PICK i : i = IndexOf(t, cur)
    OBVIOUS
  <2>3. /\ i \in 0..Count(t) /\ Count(t) \in Nat
        /\ \A j \in 1..Count(t) : ValAt(t, j) # Nil => (KeyAt(t, j) \in seen <=> j <= i)
    BY <1>1, <1>3, <2>1, <2>2, EntryAt DEF TableInv, Walking
  <2>4. i # None
    BY <2>3 DEF None
  <2>5. CASE Behind(t, i) = {}
    <3>1. walk' = "none" /\ cur' = Nil /\ seen' = {}
      BY <1>1, <1>9, <2>2, <2>4, <2>5 DEF Traverse
    <3>2. Walking'
      BY <3>1 DEF Walking
    <3> QED BY <1>2, <1>3, <2>1, <3>1, <3>2 DEF TableInv, HoldsWhatWasAssigned
  <2>6. CASE Behind(t, i) # {}
    <3>1. PICK j : j = Min(Behind(t, i))
      OBVIOUS
    <3>2. cur' = KeyAt(t, j) /\ seen' = seen \cup {KeyAt(t, j)} /\ walk' = walk
      BY <1>1, <1>9, <2>2, <2>4, <2>6, <3>1 DEF Traverse
    <3>3. /\ j \in (i + 1)..Count(t) /\ ValAt(t, j) # Nil
          /\ \A b \in (i + 1)..Count(t) : ValAt(t, b) # Nil => j <= b
      <4>1. Behind(t, i) \subseteq Nat
        BY <2>3 DEF Behind, Count
      <4>2. j \in Behind(t, i) /\ \A b \in Behind(t, i) : j <= b
        BY <2>6, <3>1, <4>1, MinNat
      <4> QED BY <4>2 DEF Behind, Count
    <3>4. j \in 1..Count(t)
      BY <2>3, <3>3
    <3>5. IndexOf(t, KeyAt(t, j)) = j /\ KeyAt(t, j) \in Keys
      BY <1>3, <3>3, <3>4, IndexOfEntry, EntryGet
    <3>6. ASSUME NEW b \in 1..Count(t), ValAt(t, b) # Nil
          PROVE  KeyAt(t, b) \in seen' <=> b <= j
      <4>1. KeyAt(t, b) = KeyAt(t, j) => b = j
        BY <1>3, <3>3, <3>4, <3>6, EntryOnce
      <4>2. b <= i \/ b \in (i + 1)..Count(t)
        BY <2>3
      <4>3. b <= j <=> b <= i \/ b = j
        BY <2>3, <3>3, <3>6, <4>2
      <4> QED BY <2>3, <3>2, <3>6, <4>1, <4>3
    <3>7. Walking'
      BY <1>2, <2>1, <2>3, <3>2, <3>4, <3>5, <3>6 DEF Walking
    <3> QED BY <1>2, <1>3, <2>1, <3>2, <3>5, <3>7 DEF TableInv, HoldsWhatWasAssigned
  <2> QED BY <2>5, <2>6
<1>10. CASE UNCHANGED vars
  BY <1>10 DEF vars, TableInv, HoldsWhatWasAssigned, Walking
<1> QED BY <1>4, <1>5, <1>6, <1>7, <1>8, <1>9, <1>10 DEF Next, Slot

\* The invariant of tables: whatever is assigned, grown, cleared by the
\* collector and traversed, the chains of ltable.c stay whole, the table holds
\* what was assigned, and a traversal is where its history says.
THEOREM TableWhole == Spec => []TableInv
BY InitTable, StepTable, PTL DEF Spec

\* Every variable keeps its type: nodes link to nodes, the hash part is a power
\* of two, lastfree is within it.
THEOREM TypeCorrect == Spec => []TypeOK
<1>1. TableInv => TypeOK
  <2> SUFFICES ASSUME TableInv PROVE TypeOK
    OBVIOUS
  <2>1. /\ IsTable(table) /\ Size(table) \in NodeSizes
        /\ cur \in Keys \cup {Nil} /\ walk \in {"none", "running", "failed"}
        /\ seen \subseteq Keys /\ map \in [Keys -> Slot]
    BY DEF TableInv, WellFormed
  <2>2. /\ DOMAIN table.node = Positions(table)
        /\ \A i \in Positions(table) : table.node[i] \in NodeType(Positions(table))
    BY <2>1, TablePositions
  <2>3. table.array \in Seq(Slot) /\ table.lastfree \in 0..Size(table)
    BY <2>1 DEF IsTable
  <2> QED BY <2>1, <2>2, <2>3 DEF TypeOK, NodeType, NodeSizes, Slot, Positions
<1> QED BY <1>1, TableWhole, PTL

\* luaH_get finds for each key what luaH_set last stored, through all
\* collisions, moved nodes, rehashes, resizes and dead keys.
THEOREM KeepsAssigned == Spec => []HoldsWhatWasAssigned
<1>1. TableInv => HoldsWhatWasAssigned
  BY DEF TableInv
<1> QED BY <1>1, TableWhole, PTL

-----------------------------------------------------------------------------
(* The table implements the map.                                           *)

\* A step of luaH_next gives an entry that was not given, or ends with all
\* given.
LEMMA TraverseGives ==
  ASSUME TableInv, Traverse
  PROVE  /\ walk = "running" /\ map' = map
         /\ \/ /\ {k \in Keys : map[k] # Nil} \subseteq seen
               /\ walk' = "none" /\ seen' = {}
            \/ \E k \in Keys : /\ map[k] # Nil /\ k \notin seen
                               /\ seen' = seen \cup {k} /\ walk' = walk
<1>1. PICK t : t = table
  OBVIOUS
<1>2. WellFormed(t) /\ \A x \in Keys : Get(t, x) = map[x]
  BY <1>1 DEF TableInv, HoldsWhatWasAssigned
<1>3. walk = "running" /\ map' = map
  BY DEF Traverse
<1>4. PICK i : i = IndexOf(t, cur)
  OBVIOUS
<1>5. /\ i \in 0..Count(t) /\ Count(t) \in Nat
      /\ \A j \in 1..Count(t) : ValAt(t, j) # Nil => (KeyAt(t, j) \in seen <=> j <= i)
  BY <1>1, <1>2, <1>3, <1>4, EntryAt DEF TableInv, Walking
<1>6. i # None
  BY <1>5 DEF None
<1>7. CASE Behind(t, i) = {}
  <2>1. walk' = "none" /\ seen' = {}
    BY <1>1, <1>4, <1>6, <1>7 DEF Traverse
  <2>2. ASSUME NEW k \in Keys, map[k] # Nil PROVE k \in seen
    <3>1. Get(t, k) # Nil
      BY <1>2, <2>2
    <3>2. \E j \in 1..Count(t) : KeyAt(t, j) = k /\ ValAt(t, j) # Nil
      <4>1. CASE InArray(t, k)
        <5>1. k \in 1..Len(t.array) /\ k \in Nat
          BY <1>2, <4>1, EntryAt DEF InArray
        <5>2. k \in 1..Count(t)
          BY <1>2, <5>1, EntryAt DEF Count
        <5> QED BY <1>2, <3>1, <4>1, <5>1, <5>2, EntryAt, GetSlot
      <4>2. CASE \E p \in Positions(t) : HasKey(t.node[p], k) /\ t.node[p].val = Get(t, k)
        <5>1. PICK p \in Positions(t) : HasKey(t.node[p], k) /\ t.node[p].val = Get(t, k)
          BY <4>2
        <5>2. PICK j : j = Len(t.array) + 1 + p
          OBVIOUS
        <5>3. /\ j \in (Len(t.array) + 1)..Count(t)
              /\ KeyAt(t, j) = t.node[p].key /\ ValAt(t, j) = t.node[p].val
          BY <1>2, <5>1, <5>2, EntryAt
        <5>4. j \in 1..Count(t)
          BY <1>2, <5>3, EntryAt
        <5>5. t.node[p].key = k /\ t.node[p].val # Nil
          BY <3>1, <5>1 DEF HasKey
        <5> QED BY <5>3, <5>4, <5>5
      <4> QED BY <1>2, <3>1, <4>1, <4>2, EntryOf
    <3>3. PICK j \in 1..Count(t) : KeyAt(t, j) = k /\ ValAt(t, j) # Nil
      BY <3>2
    <3>4. j <= i
      <4>1. j \notin Behind(t, i)
        BY <1>7
      <4>2. j \notin (i + 1)..(Len(t.array) + Size(t))
        BY <3>3, <4>1 DEF Behind
      <4> QED BY <1>2, <1>5, <4>2, EntryAt DEF Count
    <3> QED BY <1>5, <3>3, <3>4
  <2> QED BY <1>3, <2>1, <2>2
<1>8. CASE Behind(t, i) # {}
  <2>1. PICK j : j = Min(Behind(t, i))
    OBVIOUS
  <2>2. /\ seen' = seen \cup {KeyAt(t, j)} /\ walk' = walk
    BY <1>1, <1>4, <1>6, <1>8, <2>1 DEF Traverse
  <2>3. j \in (i + 1)..Count(t) /\ ValAt(t, j) # Nil
    <3>1. Behind(t, i) \subseteq Nat
      BY <1>5 DEF Behind, Count
    <3>2. j \in Behind(t, i)
      BY <1>8, <2>1, <3>1, MinNat
    <3> QED BY <3>2 DEF Behind, Count
  <2>4. j \in 1..Count(t) /\ ~ (j <= i)
    BY <1>5, <2>3
  <2>5. KeyAt(t, j) \in Keys /\ Get(t, KeyAt(t, j)) = ValAt(t, j)
    BY <1>2, <2>3, <2>4, EntryGet
  <2>6. KeyAt(t, j) \notin seen
    BY <1>5, <2>3, <2>4
  <2> QED BY <1>2, <1>3, <2>2, <2>3, <2>5, <2>6
<1> QED BY <1>7, <1>8

\* The table implements the map: a traversal with luaH_next gives each entry
\* once, refuses none and ends when it gave all, while entries are assigned to
\* and the collector clears some and marks keys dead.
THEOREM Implements == Spec => ImplementsMap
<1>1. Init => Map!MapInit
  BY DEF Init, Map!MapInit
<1>2. ASSUME TableInv, [Next]_vars PROVE [Map!MapNext]_(Map!mapVars)
  <2>1. \A x \in Keys : Get(table, x) = map[x]
    BY <1>2 DEF TableInv, HoldsWhatWasAssigned
  <2>2. ASSUME NEW k \in Keys, NEW v \in Slot, Assign(k, v) PROVE Map!MapNext
    <3>1. Map!Assign(k, v)
      BY <2>1, <2>2 DEF Assign, Map!Assign
    <3> QED BY <3>1 DEF Map!MapNext, Slot
  <2>3. ASSUME NEW n \in 1..MaxGrow, GrowArray(n) PROVE UNCHANGED Map!mapVars
    BY <2>3 DEF GrowArray, Map!mapVars
  <2>4. CASE RemoveEmpty
    BY <2>4 DEF RemoveEmpty, Map!mapVars
  <2>5. ASSUME NEW k \in Objects, ClearWeak(k) PROVE Map!MapNext
    <3>1. k \in Keys
      BY DEF Keys, Collectable
    <3>2. Map!Assign(k, Nil)
      BY <2>1, <2>5, <3>1 DEF ClearWeak, Map!Assign
    <3> QED BY <3>1, <3>2 DEF Map!MapNext
  <2>6. CASE BeginTraversal
    <3>1. Map!Begin
      BY <2>6 DEF BeginTraversal, Map!Begin
    <3> QED BY <3>1 DEF Map!MapNext
  <2>7. CASE Traverse
    <3>1. walk = "running" /\ map' = map
      BY <1>2, <2>7, TraverseGives
    <3>2. CASE {k \in Keys : map[k] # Nil} \subseteq seen /\ walk' = "none" /\ seen' = {}
      <4>1. Map!End
        BY <3>1, <3>2 DEF Map!End, Map!Present
      <4> QED BY <4>1 DEF Map!MapNext
    <3>3. CASE \E k \in Keys : /\ map[k] # Nil /\ k \notin seen
                               /\ seen' = seen \cup {k} /\ walk' = walk
      <4>1. PICK k \in Keys : /\ map[k] # Nil /\ k \notin seen
                              /\ seen' = seen \cup {k} /\ walk' = walk
        BY <3>3
      <4>2. Map!Give(k)
        BY <3>1, <4>1 DEF Map!Give, Map!Present
      <4> QED BY <4>2 DEF Map!MapNext
    <3> QED BY <1>2, <2>7, <3>2, <3>3, TraverseGives
  <2>8. CASE UNCHANGED vars
    BY <2>8 DEF vars, Map!mapVars
  <2> QED BY <1>2, <2>2, <2>3, <2>4, <2>5, <2>6, <2>7, <2>8 DEF Next, Slot
<1> QED BY <1>1, <1>2, TableWhole, PTL DEF Spec, ImplementsMap, Map!MapSpec

-----------------------------------------------------------------------------
(* The size of the array part.                                             *)

\* Whatever more than half uses is considered, and what is chosen is so used.
LEMMA FittingIs ==
  ASSUME NEW I, IsFiniteSet(I), I \subseteq IntKeys
  PROVE  \A m \in PowerOf2s : m \in Fitting(I) <=> MostlyUsed(I, m)
<1> SUFFICES ASSUME NEW m \in PowerOf2s PROVE m \in Fitting(I) <=> MostlyUsed(I, m)
  OBVIOUS
<1>1. m \in Nat
  BY PowersNat
<1>2. PICK U : U = UpTo(I, m)
  OBVIOUS
<1>3. U \subseteq I /\ \A i \in I : i \in Nat /\ i # 0
  BY <1>2, KeyAssumption DEF UpTo
<1>4. PICK c \in Nat : c = Cardinality(U)
  BY <1>3, FS_Subset, FS_CardinalityType
<1>5. PICK d \in Nat : d = Cardinality(I)
  BY FS_CardinalityType
<1>6. c <= d
  BY <1>3, <1>4, <1>5, FS_Subset
<1>7. PICK h \in Nat : h = m \div 2 /\ (2 * h = m \/ 2 * h + 1 = m)
  BY <1>1
<1>8. c > h => \E i \in I : h < i /\ i <= m
  <2> SUFFICES ASSUME \A i \in I : ~ (h < i /\ i <= m) PROVE c <= h
    BY <1>4, <1>7
  <2>1. U \subseteq 1..h
    BY <1>1, <1>2, <1>3 DEF UpTo
  <2>2. IsFiniteSet(1..h) /\ Cardinality(1..h) = h
    <3>1. Cardinality(1..h) = IF 1 > h THEN 0 ELSE h - 1 + 1
      BY FS_Interval
    <3> QED BY <3>1, FS_Interval
  <2>3. Cardinality(U) <= Cardinality(1..h)
    BY <2>1, <2>2, FS_Subset
  <2> QED BY <1>4, <2>2, <2>3
<1>9. m \in Fitting(I) <=> h < d /\ (\E i \in I : h < i /\ i <= m) /\ c > h
  BY <1>2, <1>4, <1>5, <1>7 DEF Fitting
<1>10. MostlyUsed(I, m) <=> 2 * c > m
  BY <1>2, <1>4 DEF MostlyUsed
<1> QED BY <1>1, <1>4, <1>5, <1>6, <1>7, <1>8, <1>9, <1>10

\* computesizes and rehash size the array part: the largest power of two up to
\* which more than half of the keys are in use, the new key among them.
THEOREM ArrayPartMostlyUsed == Spec => ArrayMostlyUsed
<1>1. ASSUME TableInv, [Next]_vars, NEW k \in Keys, Get(table, k) = Nil, Get(table', k) # Nil,
             Len(table'.array) # Len(table.array)
      PROVE  LET ints == IntsUsed(table) \cup ({k} \cap IntKeys)
                 n    == Len(table'.array)
             IN  /\ n > 0 => MostlyUsed(ints, n)
                 /\ \A m \in PowerOf2s : MostlyUsed(ints, m) => m <= n
  <2>1. PICK t : t = table
    OBVIOUS
  <2>2. PICK u : u = table'
    OBVIOUS
  <2>3. WellFormed(t) /\ Size(t) \in NodeSizes /\ Get(t, k) = Nil /\ Get(u, k) # Nil
    BY <1>1, <2>1, <2>2 DEF TableInv
  <2>4. \E v \in Slot : u = Set(t, k, v)
    <3>1. ASSUME NEW x \in Keys, NEW v \in Slot, Assign(x, v) PROVE u = Set(t, k, v)
      <4>1. u = Set(t, x, v)
        BY <2>1, <2>2, <3>1 DEF Assign
      <4>2. \A y \in Keys : Get(u, y) = IF y = x THEN v ELSE Get(t, y)
        BY <2>3, <4>1, SetKeeps
      <4> QED BY <2>3, <4>1, <4>2
    <3>2. ASSUME NEW n \in 1..MaxGrow, GrowArray(n) PROVE FALSE
      <4>1. n \in Nat /\ n > Len(t.array) /\ u = Resize(t, n, Size(t))
        BY <2>1, <2>2, <3>2 DEF GrowArray
      <4> QED BY <2>3, <4>1, GrowKeeps
    <3>3. CASE RemoveEmpty
      <4>1. PICK N : N = [i \in DOMAIN t.node |->
                            IF t.node[i].val = Nil THEN Removed(t.node[i]) ELSE t.node[i]]
        OBVIOUS
      <4>2. u = WithNodes(t, N)
        BY <2>1, <2>2, <3>3, <4>1 DEF RemoveEmpty, WithNodes
      <4> QED BY <2>3, <4>1, <4>2, RemoveEmptyKeeps
    <3>4. ASSUME NEW x \in Objects, ClearWeak(x) PROVE FALSE
      <4>1. Get(t, x) # Nil /\ u = Cleared(t, Find(t, x))
        BY <2>1, <2>2, <3>4 DEF ClearWeak, Cleared
      <4> QED BY <2>3, <4>1, ClearWeakKeeps
    <3>5. CASE BeginTraversal \/ Traverse \/ UNCHANGED vars
      BY <2>1, <2>2, <2>3, <3>5 DEF BeginTraversal, Traverse, vars
    <3> QED BY <1>1, <3>1, <3>2, <3>3, <3>4, <3>5 DEF Next, Slot
  <2>5. PICK ints : ints = IntsUsed(t) \cup ({k} \cap IntKeys)
    OBVIOUS
  <2>6. PICK n : n = Len(u.array)
    OBVIOUS
  <2>7. n = ArraySize(ints)
    BY <1>1, <2>1, <2>2, <2>3, <2>4, <2>5, <2>6, SetArray
  <2>8. IsFiniteSet(ints) /\ ints \subseteq IntKeys
    <3>1. IntsUsed(t) = Present(t) \cap IntKeys
      BY <2>3, IntsUsedIs
    <3>2. ints \subseteq Keys /\ ints \subseteq IntKeys
      BY <2>5, <3>1 DEF Present
    <3> QED BY <3>2, KeysFinite, FS_Subset
  <2>9. /\ n \in Nat /\ (n # 0 => n \in Fitting(ints))
        /\ \A m \in Fitting(ints) : m <= n
    BY <2>7, <2>8, ArraySizeIs
  <2>10. \A m \in PowerOf2s : m \in Fitting(ints) <=> MostlyUsed(ints, m)
    BY <2>8, FittingIs
  <2>11. Fitting(ints) \subseteq PowerOf2s
    BY DEF Fitting
  <2>12. /\ n > 0 => MostlyUsed(ints, n)
         /\ \A m \in PowerOf2s : MostlyUsed(ints, m) => m <= n
    BY <2>9, <2>10, <2>11
  <2> QED BY <2>1, <2>2, <2>5, <2>6, <2>12
<1>2. TableInv /\ [Next]_vars => [ArrayFits]_vars
  BY <1>1 DEF ArrayFits
<1> QED BY <1>2, TableWhole, PTL DEF Spec, ArrayMostlyUsed

-----------------------------------------------------------------------------
(* The length.                                                             *)

\* Between is what the last of its rounds found.
LEMMA BetweenRounds ==
  ASSUME NEW t, NEW low \in Nat, NEW high \in Nat, low < high
  PROVE  \E r : /\ r[0] = <<low, high>>
                /\ \A n \in 1..(high - low) :
                     r[n] = Narrowed(t, r[n - 1][1], r[n - 1][2])
                /\ Between(t, low, high) = r[high - low][1]
<1> DEFINE Step(b) == Narrowed(t, b[1], b[2])
<1> HIDE DEF Step
<1>1. PICK all \in Nat : all = high - low
  OBVIOUS
<1>2. PICK first : first = <<low, high>>
  OBVIOUS
<1> DEFINE Good(n) == \E f : f = [i \in 0..n |-> IF i = 0 THEN first ELSE Step(f[i - 1])]
<1> DEFINE Bad == {n \in Nat : ~ Good(n)}
<1>3. Good(0)
  <2> DEFINE f == [i \in 0..0 |-> first]
  <2>1. f = [i \in 0..0 |-> IF i = 0 THEN first ELSE Step(f[i - 1])]
    OBVIOUS
  <2> QED BY <2>1
<1>4. ASSUME NEW n \in Nat, Good(n) PROVE Good(n + 1)
  <2>1. PICK f : f = [i \in 0..n |-> IF i = 0 THEN first ELSE Step(f[i - 1])]
    BY <1>4
  <2> DEFINE g == [i \in 0..(n + 1) |-> IF i <= n THEN f[i] ELSE Step(f[n])]
  <2>2. \A i \in 0..(n + 1) : g[i] = IF i = 0 THEN first ELSE Step(g[i - 1])
    <3> TAKE i \in 0..(n + 1)
    <3>1. CASE i = n + 1
      BY <3>1
    <3>2. CASE i <= n
      <4>1. f[i] = IF i = 0 THEN first ELSE Step(f[i - 1])
        BY <2>1, <3>2
      <4> QED BY <3>2, <4>1
    <3> QED BY <3>1, <3>2
  <2>3. g = [i \in 0..(n + 1) |-> IF i = 0 THEN first ELSE Step(g[i - 1])]
    BY <2>2
  <2> QED BY <2>3
<1> HIDE DEF Good
<1>5. Bad = {}
  <2> SUFFICES ASSUME Bad # {} PROVE FALSE
    OBVIOUS
  <2>1. PICK n \in Bad : \A k \in Bad : n <= k
    BY LeastNat
  <2>2. n # 0 /\ n - 1 \in Nat /\ n - 1 \notin Bad
    BY <1>3, <2>1
  <2>3. Good(n)
    BY <1>4, <2>2
  <2> QED BY <2>1, <2>3
<1>6. Good(all)
  BY <1>5
<1> DEFINE round[n \in 0..all] == IF n = 0 THEN first ELSE Step(round[n - 1])
<1>7. round = [n \in 0..all |-> IF n = 0 THEN first ELSE Step(round[n - 1])]
  BY <1>6 DEF Good
<1>8. Between(t, low, high) = round[all][1]
  BY <1>1, <1>2 DEF Between, Step
<1> HIDE DEF round
<1>9. round[0] = first /\ \A n \in 1..all : round[n] = Step(round[n - 1])
  BY <1>7
<1> QED BY <1>1, <1>2, <1>8, <1>9 DEF Step

\* One round keeps the lower end present and the upper end absent, and
\* brings them nearer, until they are neighbours.
Bracket(t, b, i, j) ==
  /\ b = <<i, j>> /\ i < j
  /\ i = 0 \/ Get(t, i) # Nil
  /\ Get(t, j) = Nil

\* A round of the binary search keeps the bracket, and narrows it.
LEMMA NarrowedKeeps ==
  ASSUME NEW t, NEW b, NEW i \in Nat, NEW j \in Nat, Bracket(t, b, i, j)
  PROVE  \E x, y \in Nat : /\ Bracket(t, Narrowed(t, b[1], b[2]), x, y)
                           /\ (j - i <= 1 /\ y - x <= 1) \/ y - x < j - i
<1>1. b[1] = i /\ b[2] = j /\ i < j
  BY DEF Bracket
<1>2. PICK m \in Nat : m = (i + j) \div 2 /\ (2 * m = i + j \/ 2 * m + 1 = i + j)
  OBVIOUS
<1>3. CASE j - i <= 1
  <2>1. Narrowed(t, i, j) = <<i, j>>
    BY <1>3 DEF Narrowed
  <2> QED BY <1>1, <1>3, <2>1 DEF Bracket
<1>4. CASE ~ (j - i <= 1) /\ Get(t, m) = Nil
  <2>1. Narrowed(t, i, j) = <<i, m>>
    BY <1>2, <1>4 DEF Narrowed
  <2>2. i < m /\ m < j
    BY <1>1, <1>2, <1>4
  <2>3. Bracket(t, Narrowed(t, b[1], b[2]), i, m)
    BY <1>1, <1>4, <2>1, <2>2 DEF Bracket
  <2>4. m - i < j - i
    BY <2>2
  <2> QED BY <2>3, <2>4
<1>5. CASE ~ (j - i <= 1) /\ Get(t, m) # Nil
  <2>1. Narrowed(t, i, j) = <<m, j>>
    BY <1>2, <1>5 DEF Narrowed
  <2>2. i < m /\ m < j
    BY <1>1, <1>2, <1>5
  <2>3. Bracket(t, Narrowed(t, b[1], b[2]), m, j)
    BY <1>1, <1>5, <2>1, <2>2 DEF Bracket
  <2>4. j - m < j - i
    BY <2>2
  <2> QED BY <2>3, <2>4
<1> QED BY <1>3, <1>4, <1>5

\* n is a border of the table.
Border(t, n) == n \in Nat /\ (n = 0 \/ Get(t, n) # Nil) /\ Get(t, n + 1) = Nil

\* The binary search finds a border.
LEMMA BetweenBorder ==
  ASSUME NEW t, NEW low \in Nat, NEW high \in Nat, low < high,
         low = 0 \/ Get(t, low) # Nil, Get(t, high) = Nil
  PROVE  Border(t, Between(t, low, high))
<1>1. PICK all \in Nat : all = high - low /\ all > 0
  OBVIOUS
<1>2. PICK r : /\ r[0] = <<low, high>>
               /\ \A n \in 1..all : r[n] = Narrowed(t, r[n - 1][1], r[n - 1][2])
               /\ Between(t, low, high) = r[all][1]
  <2>1. PICK r : /\ r[0] = <<low, high>>
                 /\ \A n \in 1..(high - low) :
                      r[n] = Narrowed(t, r[n - 1][1], r[n - 1][2])
                 /\ Between(t, low, high) = r[high - low][1]
    BY BetweenRounds
  <2> QED BY ONLY <1>1, <2>1
<1> DEFINE Good(n) == \E i, j \in Nat : /\ Bracket(t, r[n], i, j)
                                        /\ j - i <= 1 \/ j - i <= all - n
<1> DEFINE Bad == {n \in 0..all : ~ Good(n)}
<1>3. Good(0)
  <2>1. Bracket(t, r[0], low, high)
    BY <1>2 DEF Bracket
  <2> QED BY <1>1, <2>1
<1>4. ASSUME NEW n \in 1..all, Good(n - 1) PROVE Good(n)
  <2>1. PICK i, j \in Nat : /\ Bracket(t, r[n - 1], i, j)
                            /\ j - i <= 1 \/ j - i <= all - (n - 1)
    BY <1>4
  <2>2. PICK x, y \in Nat : /\ Bracket(t, Narrowed(t, r[n - 1][1], r[n - 1][2]), x, y)
                            /\ (j - i <= 1 /\ y - x <= 1) \/ y - x < j - i
    BY <2>1, NarrowedKeeps
  <2>3. Bracket(t, r[n], x, y)
    BY <1>2, <2>2
  <2>4. y - x <= 1 \/ y - x <= all - n
    BY <1>1, <2>1, <2>2
  <2> QED BY <2>3, <2>4
<1> HIDE DEF Good
<1>5. Bad = {}
  <2> SUFFICES ASSUME Bad # {} PROVE FALSE
    OBVIOUS
  <2>1. Bad \subseteq Nat
    BY <1>1
  <2>2. PICK n \in Bad : \A k \in Bad : n <= k
    BY <2>1, LeastNat
  <2>3. n \in 1..all /\ n - 1 \in 0..all /\ n - 1 \notin Bad
    BY <1>1, <1>3, <2>2
  <2> QED BY <1>4, <2>2, <2>3
<1>6. Good(all)
  BY <1>1, <1>5
<1>7. PICK i, j \in Nat : Bracket(t, r[all], i, j) /\ (j - i <= 1 \/ j - i <= all - all)
  BY <1>6 DEF Good
<1>8. j = i + 1 /\ r[all][1] = i
  BY <1>1, <1>7 DEF Bracket
<1>9. (i = 0 \/ Get(t, i) # Nil) /\ Get(t, i + 1) = Nil
  BY <1>7, <1>8 DEF Bracket
<1> QED BY <1>2, <1>8, <1>9 DEF Border

\* Doubling makes numbers that differ.
LEMMA Doubling ==
  ASSUME NEW p \in Nat, p # 0
  PROVE  /\ p * TwoTo[0] = p
         /\ \A n \in Log2s : p * TwoTo[n] \in Nat /\ p * TwoTo[n] > 0
         /\ \A n \in Log2s : n # 0 => p * TwoTo[n] = 2 * (p * TwoTo[n - 1])
         /\ \A a, b \in Log2s : p * TwoTo[a] = p * TwoTo[b] => a = b
         /\ \A b \in Log2s : \A a \in 0..(b - 1) : p * TwoTo[a] < p * TwoTo[b]
<1>1. PICK l \in Nat : Log2s = 0..l
  BY KeysFinite DEF Log2s
<1>2. \A n \in Log2s : TwoTo[n] \in Nat /\ TwoTo[n] > n
  BY Powers
<1>3. \A n \in Log2s : p * TwoTo[n] \in Nat /\ p * TwoTo[n] > 0
  <2> SUFFICES ASSUME NEW n \in Log2s PROVE p * TwoTo[n] \in Nat /\ p * TwoTo[n] > 0
    OBVIOUS
  <2>1. PICK x \in Nat : x = TwoTo[n] /\ x > 0
    BY <1>1, <1>2
  <2> QED BY <2>1
<1>4. p * TwoTo[0] = p
  BY Powers
<1>5. \A n \in Log2s : n # 0 => p * TwoTo[n] = 2 * (p * TwoTo[n - 1])
  <2> SUFFICES ASSUME NEW n \in Log2s, n # 0 PROVE p * TwoTo[n] = 2 * (p * TwoTo[n - 1])
    OBVIOUS
  <2>1. n - 1 \in Log2s
    BY <1>1
  <2>2. PICK x \in Nat : x = TwoTo[n - 1]
    BY <1>2, <2>1
  <2>3. TwoTo[n] = 2 * x
    BY <2>2, Powers
  <2> QED BY <2>2, <2>3
<1> DEFINE Good(n) == \A a \in 0..(n - 1) : p * TwoTo[a] < p * TwoTo[n]
<1> DEFINE Bad == {n \in 0..l : ~ Good(n)}
<1>6. Good(0)
  OBVIOUS
<1>7. ASSUME NEW n \in 1..l, Good(n - 1) PROVE Good(n)
  <2> SUFFICES ASSUME NEW a \in 0..(n - 1) PROVE p * TwoTo[a] < p * TwoTo[n]
    OBVIOUS
  <2>1. PICK x \in Nat : x = p * TwoTo[n - 1] /\ x > 0
    BY <1>1, <1>3
  <2>2. p * TwoTo[n] = 2 * x
    BY <1>1, <1>5, <2>1
  <2>3. PICK y \in Nat : y = p * TwoTo[a]
    BY <1>1, <1>3
  <2>4. a # n - 1 => y < x
    BY <1>7, <2>1, <2>3
  <2>5. a = n - 1 => y = x
    BY <2>1, <2>3
  <2> QED BY <2>1, <2>2, <2>3, <2>4, <2>5
<1> HIDE DEF Good
<1>8. Bad = {}
  <2> SUFFICES ASSUME Bad # {} PROVE FALSE
    OBVIOUS
  <2>1. Bad \subseteq Nat
    OBVIOUS
  <2>2. PICK n \in Bad : \A k \in Bad : n <= k
    BY <2>1, LeastNat
  <2>3. n \in 1..l /\ n - 1 \in 0..l /\ n - 1 \notin Bad
    BY <1>6, <2>2
  <2> QED BY <1>7, <2>2, <2>3
<1>9. \A b \in Log2s : \A a \in 0..(b - 1) : p * TwoTo[a] < p * TwoTo[b]
  BY <1>1, <1>8 DEF Good
<1>10. ASSUME NEW a \in Log2s, NEW b \in Log2s, p * TwoTo[a] = p * TwoTo[b] PROVE a = b
  <2>1. PICK x \in Nat : x = p * TwoTo[a] /\ x = p * TwoTo[b]
    BY <1>3, <1>10
  <2>2. a \in 0..(b - 1) => x < x
    BY <1>9, <2>1
  <2>3. b \in 0..(a - 1) => x < x
    BY <1>9, <2>1
  <2> QED BY <1>1, <2>1, <2>2, <2>3
<1> QED BY <1>3, <1>4, <1>5, <1>9, <1>10

\* TwoTo grows.
LEMMA PowersGrow ==
  ASSUME NEW l \in Log2s
  PROVE  \A n \in 0..l : TwoTo[n] \in Nat /\ TwoTo[n] <= TwoTo[l]
<1>1. l \in Nat /\ \A n \in 0..l : n \in Log2s
  BY KeysFinite DEF Log2s
<1>2. \A n \in Log2s : TwoTo[n] \in Nat
  BY Powers
<1>3. \A n \in 0..(l - 1) : 1 * TwoTo[n] < 1 * TwoTo[l]
  BY Doubling
<1> QED BY <1>1, <1>2, <1>3

\* A table lacks some of any more numbers than there are keys.
LEMMA SomeAbsent ==
  ASSUME NEW t, WellFormed(t), NEW D, IsFiniteSet(D), Cardinality(D) > Cardinality(Keys),
         NEW f \in [D -> Nat], \A x, y \in D : f[x] = f[y] => x = y
  PROVE  \E d \in D : Get(t, f[d]) = Nil
<1> SUFFICES ASSUME \A d \in D : Get(t, f[d]) # Nil PROVE FALSE
  OBVIOUS
<1>1. \A d \in D : f[d] \in Keys
  BY GetType
<1>2. f \in Injection(D, Keys)
  <2>1. f \in [D -> Keys]
    BY <1>1
  <2> QED BY <2>1 DEF Injection, IsInjective
<1>3. Cardinality(D) <= Cardinality(Keys)
  BY <1>2, KeysFinite, FS_Injection
<1>4. Cardinality(D) \in Nat /\ Cardinality(Keys) \in Nat
  BY KeysFinite, FS_CardinalityType
<1> QED BY <1>3, <1>4

\* unbound_search finds a border above the array part, by doubling or, beyond
\* MAX_INT, by counting.
LEMMA UnboundBorder ==
  ASSUME NEW t, WellFormed(t), NEW from \in Nat, from = 0 \/ Get(t, from) # Nil
  PROVE  Border(t, UnboundSearch(t, from))
<1>1. PICK p \in Nat : p = from + 1 /\ p # 0
  OBVIOUS
<1>2. PICK c \in Nat : c = Cardinality(Keys)
  BY KeysFinite
<1>3. PICK l \in Nat : Log2s = 0..l /\ l > c
  BY <1>2, KeysFinite DEF Log2s
<1>4. PICK f : f = [n \in Log2s |-> p * TwoTo[n]]
  OBVIOUS
<1>5. /\ f \in [Log2s -> Nat] /\ f[0] = p
      /\ \A n \in Log2s : n # 0 => f[n] = 2 * f[n - 1] /\ f[n - 1] > 0
      /\ \A a, b \in Log2s : f[a] = f[b] => a = b
  <2>1. \A n \in Log2s : f[n] = p * TwoTo[n]
    BY <1>4
  <2>2. f \in [Log2s -> Nat] /\ 0 \in Log2s /\ \A n \in Log2s : n # 0 => n - 1 \in Log2s
    BY <1>1, <1>3, <1>4, Doubling
  <2> QED BY <1>1, <2>1, <2>2, Doubling
<1>6. PICK D : D = {n \in Log2s : Get(t, f[n]) = Nil}
  OBVIOUS
<1>7. D # {} /\ D \subseteq Nat /\ D \subseteq Log2s
  <2>1. IsFiniteSet(0..l) /\ Cardinality(0..l) = l + 1
    <3>1. Cardinality(0..l) = IF 0 > l THEN 0 ELSE l - 0 + 1
      BY FS_Interval
    <3> QED BY <3>1, FS_Interval
  <2>2. IsFiniteSet(Log2s) /\ Cardinality(Log2s) > Cardinality(Keys)
    BY <1>2, <1>3, <2>1
  <2>3. \E n \in Log2s : Get(t, f[n]) = Nil
    BY <1>5, <2>2, SomeAbsent
  <2> QED BY <1>3, <1>6, <2>3
<1>8. PICK s : s = Min(D)
  OBVIOUS
<1>9. s \in D /\ \A n \in D : s <= n
  BY <1>7, <1>8, MinNat
<1>10. {n \in Log2s : Get(t, (from + 1) * TwoTo[n]) = Nil} = D
  BY <1>1, <1>4, <1>6
<1>11. CASE s = 0
  <2>1. UnboundSearch(t, from) = from
    BY <1>8, <1>10, <1>11 DEF UnboundSearch
  <2>2. Get(t, from + 1) = Nil
    BY <1>1, <1>5, <1>6, <1>9, <1>11
  <2> QED BY <2>1, <2>2 DEF Border
<1>12. CASE s # 0
  <2>1. s \in Log2s /\ s - 1 \in Log2s /\ s - 1 \notin D
    BY <1>3, <1>7, <1>9, <1>12
  <2>2. Get(t, f[s - 1]) # Nil /\ Get(t, f[s]) = Nil
    BY <1>6, <1>9, <2>1
  <2>3. /\ f[s] = (from + 1) * TwoTo[s] /\ f[s - 1] = (from + 1) * TwoTo[s - 1]
    BY <1>1, <1>4, <2>1
  <2>4. f[s - 1] \in Nat /\ f[s] \in Nat /\ f[s - 1] < f[s]
    BY <1>5, <1>12, <2>1
  <2>5. CASE f[s] > MaxInt
    <3>1. PICK M : M = Max(PowerOf2s)
      OBVIOUS
    <3>2. M \in Nat /\ M > c
      <4>1. \A n \in Log2s : TwoTo[n] \in Nat /\ TwoTo[n] <= TwoTo[l]
        BY <1>3, PowersGrow
      <4>2. PowerOf2s # {} /\ PowerOf2s \subseteq Nat /\ TwoTo[l] \in PowerOf2s
            /\ \A m \in PowerOf2s : m <= TwoTo[l]
        BY <1>3, <4>1 DEF PowerOf2s
      <4>3. M \in PowerOf2s /\ \A m \in PowerOf2s : m <= M
        BY <3>1, <4>2, MaxNat
      <4>4. TwoTo[l] > l /\ TwoTo[l] <= M /\ M \in Nat /\ TwoTo[l] \in Nat
        BY <1>3, <4>2, <4>3, Powers
      <4> QED BY <1>3, <4>4
    <3>3. PICK E : E = {n \in 1..M : Get(t, n) = Nil}
      OBVIOUS
    <3>4. E # {} /\ E \subseteq Nat
      <4>1. IsFiniteSet(1..M) /\ Cardinality(1..M) = M
        <5>1. Cardinality(1..M) = IF 1 > M THEN 0 ELSE M - 1 + 1
          BY <3>2, FS_Interval
        <5> QED BY <3>2, <5>1, FS_Interval
      <4>2. PICK g : g = [n \in 1..M |-> n]
        OBVIOUS
      <4>3. g \in [1..M -> Nat] /\ \A x \in 1..M : g[x] = x
        BY <3>2, <4>2
      <4>4. Cardinality(1..M) > Cardinality(Keys)
        BY <1>2, <3>2, <4>1
      <4>5. \E n \in 1..M : Get(t, g[n]) = Nil
        BY <4>1, <4>3, <4>4, SomeAbsent
      <4> QED BY <3>2, <3>3, <4>3, <4>5
    <3>5. PICK e : e = Min(E)
      OBVIOUS
    <3>6. e \in E /\ \A n \in E : e <= n
      BY <3>4, <3>5, MinNat
    <3>7. UnboundSearch(t, from) = e - 1
      BY <1>8, <1>10, <1>12, <2>3, <2>5, <3>1, <3>3, <3>5 DEF UnboundSearch
    <3>8. e \in 1..M /\ e \in Nat /\ Get(t, e) = Nil /\ e - 1 \in Nat /\ e - 1 + 1 = e
      BY <3>2, <3>3, <3>6
    <3>9. e - 1 = 0 \/ Get(t, e - 1) # Nil
      <4>1. e - 1 # 0 => e - 1 \in 1..M /\ e - 1 \notin E
        BY <3>2, <3>4, <3>6, <3>8
      <4> QED BY <3>3, <4>1
    <3> QED BY <3>7, <3>8, <3>9 DEF Border
  <2>6. CASE ~ (f[s] > MaxInt)
    <3>1. UnboundSearch(t, from) = Between(t, f[s - 1], f[s])
      BY <1>8, <1>10, <1>12, <2>3, <2>6 DEF UnboundSearch
    <3> QED BY <2>2, <2>4, <3>1, BetweenBorder
  <2> QED BY <2>5, <2>6
<1> QED BY <1>11, <1>12

\* luaH_getn gives a border.
LEMMA LengthBorder ==
  ASSUME NEW t, WellFormed(t)
  PROVE  Border(t, Length(t))
<1>1. PICK n \in Nat : n = Len(t.array)
  BY EntryAt
<1>2. n > 0 => Get(t, n) = t.array[n]
  BY <1>1, GetSlot DEF InArray
<1>3. CASE n > 0 /\ t.array[n] = Nil
  <2>1. Length(t) = Between(t, 0, n)
    BY <1>1, <1>3 DEF Length
  <2> QED BY <1>2, <1>3, <2>1, BetweenBorder
<1>4. CASE ~ (n > 0 /\ t.array[n] = Nil) /\ Size(t) = 0
  <2>1. Length(t) = n
    BY <1>1, <1>4 DEF Length
  <2>2. n + 1 \in Nat /\ ~ InArray(t, n + 1)
    BY <1>1 DEF InArray
  <2>3. Positions(t) = {}
    BY <1>4 DEF Positions
  <2>4. n + 1 \in Keys => Get(t, n + 1) = Nil
    BY <2>2, <2>3, GetNothing
  <2>5. n + 1 \notin Keys => Get(t, n + 1) = Nil
    BY GetType
  <2> QED BY <1>1, <1>2, <1>4, <2>1, <2>4, <2>5 DEF Border
<1>5. CASE ~ (n > 0 /\ t.array[n] = Nil) /\ Size(t) # 0
  <2>1. Length(t) = UnboundSearch(t, n)
    BY <1>1, <1>5 DEF Length
  <2>2. n = 0 \/ Get(t, n) # Nil
    BY <1>1, <1>2, <1>5
  <2> QED BY <2>1, <2>2, UnboundBorder
<1> QED BY <1>3, <1>4, <1>5

\* luaH_getn gives a border of the table, by binary search in the array part
\* or by unbound_search above it, nodes out of order notwithstanding.
THEOREM LengthCorrect == Spec => []LengthIsBorder
<1>1. TableInv => LengthIsBorder
  <2> SUFFICES ASSUME TableInv PROVE LengthIsBorder
    OBVIOUS
  <2>1. PICK t : t = table
    OBVIOUS
  <2>2. Border(t, Length(t))
    BY <2>1, LengthBorder DEF TableInv
  <2> QED BY <2>1, <2>2 DEF LengthIsBorder, Border
<1> QED BY <1>1, TableWhole, PTL
=============================================================================
