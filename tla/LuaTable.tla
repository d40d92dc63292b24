------------------------------ MODULE LuaTable ------------------------------
(***************************************************************************)
(* A Lua table (lua/ltable.c): an array part, and a hash part in which the *)
(* chains of colliding keys are threaded through one vector of nodes.  The *)
(* program assigns to it, traverses it with next and takes its length; the *)
(* collector clears weak entries and marks the keys of empty entries dead. *)
(*                                                                         *)
(* A node's position is its index in the vector.  The hash of a key is a   *)
(* constant, so that an instance chooses which keys collide.               *)
(***************************************************************************)
EXTENDS Integers, FiniteSets, Sequences, SequencesExt

CONSTANTS
  IntKeys,  \* the numbers that are keys
  Strings,  \* the strings that are keys
  Objects,  \* the other collectable keys
  Hash,     \* the hash of each key before it is reduced to a position
  Values,   \* the values other than nil
  Nil,
  MaxGrow,  \* bound: the array size that a constructor asks for
  MaxInt    \* MAX_INT, small here so that the length search meets it

Collectable == Strings \cup Objects
Keys        == IntKeys \cup Collectable

ASSUME KeyAssumption ==
  /\ IsFiniteSet(Keys)
  /\ IntKeys \subseteq Nat \ {0}
  /\ Collectable \cap Nat = {} /\ Strings \cap Objects = {}
  /\ Nil \notin Keys \cup Values
  /\ Hash \in [Keys -> Nat]
  /\ MaxGrow \in Nat /\ MaxInt \in Nat \ {0}

VARIABLES
  table,  \* the Table
  cur,    \* the key that the traversal passes to next
  walk,   \* the traversal: "none", "running" or "failed"
  seen,   \* history: the keys that the traversal gave
  map     \* history: the value last assigned to each key

vars == <<table, cur, walk, seen, map>>

-----------------------------------------------------------------------------
(* Nodes and chains.  None is the null link.                               *)

None == -1

EmptyNode == [key |-> Nil, dead |-> FALSE, val |-> Nil, next |-> None]

\* sizenode; the shared dummynode of an empty hash part counts as no node.
Size(t) == Cardinality(DOMAIN t.node)

\* MaxGrow also bounds, with the keys, how large a part can be.
Log2s == 0..(Cardinality(Keys) + MaxGrow + 1)

\* twoto.
TwoTo[i \in Log2s] == IF i = 0 THEN 1 ELSE 2 * TwoTo[i - 1]
PowerOf2s == {TwoTo[i] : i \in Log2s}

MainPosition(t, k) ==
  IF k \in Strings THEN Hash[k] % Size(t)
  ELSE Hash[k] % (IF Size(t) = 1 THEN 1 ELSE Size(t) - 1)

Links(t) == [p \in DOMAIN t.node |-> t.node[p].next]

\* The positions of the chain that begins at p, one after the other.
Chain(link, p) ==
  LET at[i \in 0..Cardinality(DOMAIN link)] ==
        IF i = 0 THEN p ELSE IF at[i - 1] = None THEN None ELSE link[at[i - 1]]
  IN  at

\* The first of the positions S in the chain that begins at p.
FirstInChain(link, p, S) ==
  LET at   == Chain(link, p)
      hits == {i \in DOMAIN at : at[i] \in S}
  IN  IF hits = {} THEN None ELSE at[Min(hits)]

\* The first of them in the chain of k.
First(t, k, S) ==
  IF S = {} THEN None ELSE FirstInChain(Links(t), MainPosition(t, k), S)

HasKey(n, k) == n.key = k /\ ~ n.dead

\* A traversal also accepts a key that died since it was given.  Mutant:
\* it does not.
MatchesLive(n, k) == n.key = k /\ ~ n.dead
MatchesKey(n, k) == n.key = k

InArray(t, k) == k \in 1..Len(t.array)

Find(t, k) == First(t, k, {i \in DOMAIN t.node : HasKey(t.node[i], k)})

Get(t, k) ==
  IF k \in Nat /\ InArray(t, k) THEN t.array[k]
  ELSE IF k \notin Keys \/ Find(t, k) = None THEN Nil
  ELSE t.node[Find(t, k)].val

-----------------------------------------------------------------------------
(* A new key.                                                              *)

\* getfreepos looks for a node without a key below lastfree, downwards.
FreePosition(t) ==
  LET free == {i \in DOMAIN t.node : i < t.lastfree /\ t.node[i].key = Nil}
  IN  IF free = {} THEN None ELSE Max(free)

WithKey(n, k, v) == [n EXCEPT !.key = k, !.dead = FALSE, !.val = v]

\* The position p is free for the key: what it links to stays linked.
Occupy(t, p, k, v) == [t EXCEPT !.node[p] = WithKey(@, k, v)]

\* The colliding node is in its own main position: the new one is chained
\* behind it, in the free position.
ChainBehind(t, p, free, k, v) ==
  [t EXCEPT !.lastfree   = free,
            !.node[free] = WithKey([EmptyNode EXCEPT !.next = t.node[p].next], k, v),
            !.node[p].next = free]

\* The colliding node is not in its main position: it moves to the free one.
\* Mutant: the node before it still links to the old place.
MoveUnlinked(t, p, free, k, v) ==
  [t EXCEPT !.lastfree   = free,
            !.node[free] = t.node[p],
            !.node[p]    = WithKey(EmptyNode, k, v)]
MoveAway(t, p, free, k, v) ==
  LET before == First(t, t.node[p].key, {i \in DOMAIN t.node : t.node[i].next = p})
  IN  [t EXCEPT !.lastfree   = free,
                !.node[before].next = free,
                !.node[free] = t.node[p],
                !.node[p]    = WithKey(EmptyNode, k, v)]

\* newkey without the rehash.  Without room the key is lost: the C code would
\* rehash, but Set asks for that first, and Resize makes room for all keys.
NewKey(t, k, v) ==
  LET p    == MainPosition(t, k)
      free == FreePosition(t)
  IN  IF Size(t) = 0 THEN t
      ELSE IF t.node[p].val = Nil THEN Occupy(t, p, k, v)
      ELSE IF free = None THEN t
      ELSE IF MainPosition(t, t.node[p].key) # p THEN MoveAway(t, p, free, k, v)
      ELSE ChainBehind(t, p, free, k, v)

NeedsRehash(t, k) ==
  \/ Size(t) = 0
  \/ t.node[MainPosition(t, k)].val # Nil /\ FreePosition(t) = None

\* *luaH_set(t, k) = v where there is a slot for k, or room for one.
Put(t, k, v) ==
  IF InArray(t, k) THEN [t EXCEPT !.array[k] = v]
  ELSE IF Find(t, k) # None THEN [t EXCEPT !.node[Find(t, k)].val = v]
  ELSE NewKey(t, k, v)

-----------------------------------------------------------------------------
(* Rehash.                                                                 *)

\* The smallest power of two that is not below n; 0 is the dummy node.
\* Mutant: n itself.
NodesUnrounded(n) == n
NodesFor(n) == IF n = 0 THEN 0 ELSE Min({m \in PowerOf2s : m >= n})

NoNodes(n) == [i \in 0..(n - 1) |-> EmptyNode]

\* Entries are numbered: array slots from 1, nodes after them.
KeyAt(t, i) == IF i <= Len(t.array) THEN i ELSE t.node[i - Len(t.array) - 1].key
ValAt(t, i) == IF i <= Len(t.array) THEN t.array[i] ELSE t.node[i - Len(t.array) - 1].val

\* The entry that a resize to na slots inserts again as the nth: those of the
\* slots that vanish, then those of the nodes from the last to the first.
Vanishing(t, na) == IF na < Len(t.array) THEN Len(t.array) - na ELSE 0
Moved(t, na, n) ==
  IF n <= Vanishing(t, na) THEN na + n
  ELSE Len(t.array) + Size(t) + 1 - (n - Vanishing(t, na))

Reinsert(r, k, v) == IF v = Nil THEN r ELSE Put(r, k, v)

\* resize: the array part changes to na slots, the hash part to empty nodes.
Resized(t, na, nh) ==
  [t EXCEPT !.array    = [i \in 1..na |-> IF i <= Len(t.array) THEN t.array[i] ELSE Nil],
            !.node     = NoNodes(NodesFor(nh)),
            !.lastfree = NodesFor(nh)]

Resize(t, na, nh) ==
  LET all == Vanishing(t, na) + Size(t)
      after[n \in 0..all] ==
        IF n = 0 THEN Resized(t, na, nh)
        ELSE Reinsert(after[n - 1], KeyAt(t, Moved(t, na, n)), ValAt(t, Moved(t, na, n)))
  IN  after[all]

UsedSlots(t) == {i \in 1..Len(t.array) : t.array[i] # Nil}
UsedNodes(t) == {i \in DOMAIN t.node : t.node[i].val # Nil}

IntsUsed(t) == UsedSlots(t) \cup ({t.node[i].key : i \in UsedNodes(t)} \cap IntKeys)

UpTo(I, n) == {i \in I : i <= n}

\* computesizes: the largest power of two such that more than half of the
\* slots up to it are in use, tried only where a slice (n/2, n] is in use.
\* Mutant: half of them is enough.
ArrayHalfUsed(I) ==
  LET fits == {n \in PowerOf2s : /\ n \div 2 < Cardinality(I)
                                 /\ \E i \in I : n \div 2 < i /\ i <= n
                                 /\ Cardinality(UpTo(I, n)) >= n \div 2}
  IN  IF fits = {} THEN 0 ELSE Max(fits)

ArraySize(I) ==
  LET fits == {n \in PowerOf2s : /\ n \div 2 < Cardinality(I)
                                 /\ \E i \in I : n \div 2 < i /\ i <= n
                                 /\ Cardinality(UpTo(I, n)) > n \div 2}
  IN  IF fits = {} THEN 0 ELSE Max(fits)

Rehash(t, k) ==
  LET ints  == IntsUsed(t) \cup ({k} \cap IntKeys)
      total == Cardinality(UsedSlots(t)) + Cardinality(UsedNodes(t)) + 1
      na    == ArraySize(ints)
  IN  Resize(t, na, total - Cardinality(UpTo(ints, na)))

\* *luaH_set(t, k) = v.
Set(t, k, v) ==
  LET absent == ~ InArray(t, k) /\ Find(t, k) = None
  IN  Put(IF absent /\ NeedsRehash(t, k) THEN Rehash(t, k) ELSE t, k, v)

-----------------------------------------------------------------------------
(* Traversal and length.                                                   *)

\* The number of the entry with key k; nil comes before all.
IndexOf(t, k) ==
  IF k = Nil THEN 0
  ELSE IF InArray(t, k) THEN k
  ELSE LET p == First(t, k, {i \in DOMAIN t.node : MatchesKey(t.node[i], k)})
       IN  IF p = None THEN None ELSE Len(t.array) + 1 + p

\* The indices of the entries that luaH_next finds behind index i.
Behind(t, i) == {j \in (i + 1)..(Len(t.array) + Size(t)) : ValAt(t, j) # Nil}

\* Binary search between i and j, where i is present or 0 and j is absent.
Narrowed(t, i, j) ==
  LET m == (i + j) \div 2
  IN  IF j - i <= 1 THEN <<i, j>> ELSE IF Get(t, m) = Nil THEN <<i, m>> ELSE <<m, j>>

Between(t, low, high) ==
  LET round[n \in 0..(high - low)] ==
        IF n = 0 THEN <<low, high>> ELSE Narrowed(t, round[n - 1][1], round[n - 1][2])
  IN  round[high - low][1]

\* Above the array part the search doubles j until t[j] is absent; once j
\* exceeds MAX_INT it counts from 1 instead.
UnboundSearch(t, from) ==
  LET j(n)  == (from + 1) * TwoTo[n]
      steps == Min({n \in Log2s : Get(t, j(n)) = Nil})
  IN  IF steps = 0 THEN from
      ELSE IF j(steps) > MaxInt
      THEN Min({n \in 1..Max(PowerOf2s) : Get(t, n) = Nil}) - 1
      ELSE Between(t, j(steps - 1), j(steps))

\* luaH_getn: the length of the table.  Mutant: a full array part is all.
ArrayLength(t) ==
  LET n == Len(t.array)
  IN  IF n > 0 /\ t.array[n] = Nil THEN Between(t, 0, n) ELSE n

Length(t) ==
  LET n == Len(t.array)
  IN  IF n > 0 /\ t.array[n] = Nil THEN Between(t, 0, n)
      ELSE IF Size(t) = 0 THEN n
      ELSE UnboundSearch(t, n)

-----------------------------------------------------------------------------
(* The operations.                                                         *)

NewTable(na, nh) ==
  [array |-> [i \in 1..na |-> Nil], node |-> NoNodes(NodesFor(nh)),
   lastfree |-> NodesFor(nh)]

Init ==
  /\ \E na, nh \in 0..MaxGrow : table = NewTable(na, nh)
  /\ cur = Nil
  /\ walk = "none"
  /\ seen = {}
  /\ map = [k \in Keys |-> Nil]

\* A traversal is defined as long as it only assigns to what is there.
Assign(k, v) ==
  /\ table' = Set(table, k, v)
  /\ map' = [map EXCEPT ![k] = v]
  /\ IF Get(table, k) # Nil
     THEN UNCHANGED <<cur, walk, seen>>
     ELSE cur' = Nil /\ walk' = "none" /\ seen' = {}

\* luaH_resizearray: a constructor is about to store n values; the table is
\* not yet visible to anything that could traverse it.
GrowArray(n) ==
  /\ walk = "none"
  /\ n > Len(table.array)
  /\ table' = Resize(table, n, Size(table))
  /\ UNCHANGED <<cur, walk, seen, map>>

Removed(n) == [n EXCEPT !.val = Nil, !.dead = n.dead \/ n.key \in Collectable]

\* The collector traverses the table: the keys of empty entries die.
RemoveEmpty ==
  /\ table' = [table EXCEPT !.node = [i \in DOMAIN @ |->
                 IF @[i].val = Nil THEN Removed(@[i]) ELSE @[i]]]
  /\ UNCHANGED <<cur, walk, seen, map>>

\* The collector clears the entry of an object that is gone, in a table
\* with weak keys; the traversal holds on to the key that it is at.
ClearWeak(k) ==
  /\ k \in Objects \ {cur}
  /\ Get(table, k) # Nil
  /\ table' = [table EXCEPT !.node[Find(table, k)] = Removed(@)]
  /\ map' = [map EXCEPT ![k] = Nil]
  /\ UNCHANGED <<cur, walk, seen>>

BeginTraversal ==
  /\ walk' = "running"
  /\ cur' = Nil
  /\ seen' = {}
  /\ UNCHANGED <<table, map>>

\* luaH_next: gives the entry behind cur, ends, or refuses cur.
Traverse ==
  /\ walk = "running"
  /\ UNCHANGED <<table, map>>
  /\ LET i == IndexOf(table, cur)
     IN  IF i = None
         THEN walk' = "failed" /\ UNCHANGED <<cur, seen>>
         ELSE IF Behind(table, i) = {}
         THEN walk' = "none" /\ cur' = Nil /\ seen' = {}
         ELSE /\ cur' = KeyAt(table, Min(Behind(table, i)))
              /\ seen' = seen \cup {cur'}
              /\ UNCHANGED walk

Next ==
  \/ \E k \in Keys, v \in Values \cup {Nil} : Assign(k, v)
  \/ \E n \in 1..MaxGrow : GrowArray(n)
  \/ RemoveEmpty
  \/ \E k \in Objects : ClearWeak(k)
  \/ BeginTraversal
  \/ Traverse

Spec == Init /\ [][Next]_vars

-----------------------------------------------------------------------------
(* Properties.                                                             *)

TypeOK ==
  /\ table.array \in Seq(Values \cup {Nil})
  /\ DOMAIN table.node = 0..(Size(table) - 1)
  /\ Size(table) \in PowerOf2s \cup {0}
  /\ \A i \in DOMAIN table.node :
       table.node[i] \in [key : Keys \cup {Nil}, dead : BOOLEAN, val : Values \cup {Nil},
                          next : (DOMAIN table.node) \cup {None}]
  /\ table.lastfree \in 0..Size(table)
  /\ cur \in Keys \cup {Nil}
  /\ walk \in {"none", "running", "failed"}
  /\ seen \subseteq Keys
  /\ map \in [Keys -> Values \cup {Nil}]

\* What luaH_get finds for a key is what was last assigned to it, through all
\* collisions, moves, rehashes and dead keys.
HoldsWhatWasAssigned == \A k \in Keys : Get(table, k) = map[k]

\* A traversal with luaH_next gives each entry once, ends when it gave all, and
\* never refuses the key it is at, while entries are changed and cleared and
\* the collector marks their keys dead.  HoldsWhatWasAssigned makes map a
\* function of the table: LuaTable implements LuaMap.
Map == INSTANCE LuaMap WITH map <- map, walk <- walk, seen <- seen

ImplementsMap == Map!MapSpec

\* luaH_getn gives a border: t[n] is there or n is 0, and t[n + 1] is not.
LengthIsBorder ==
  LET n == Length(table)
  IN  (n = 0 \/ Get(table, n) # Nil) /\ Get(table, n + 1) = Nil

MostlyUsed(I, n) == 2 * Cardinality(UpTo(I, n)) > n

\* A step that brings a new entry and changes the array part (rehash) gives it
\* the largest power of two up to which more than half of the keys are in use.
ArrayFits ==
  \A k \in Keys :
    /\ Get(table, k) = Nil /\ Get(table', k) # Nil
    /\ Len(table'.array) # Len(table.array)
    => LET ints == IntsUsed(table) \cup ({k} \cap IntKeys)
           n    == Len(table'.array)
       IN  /\ n > 0 => MostlyUsed(ints, n)
           /\ \A m \in PowerOf2s : MostlyUsed(ints, m) => m <= n

\* computesizes: the array part is what at least half of it justifies.
ArrayMostlyUsed == [][ArrayFits]_vars
=============================================================================
