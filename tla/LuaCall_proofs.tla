--------------------------- MODULE LuaCall_proofs ---------------------------
(***************************************************************************)
(* Proofs about LuaCall, for every number of coroutines and every limit on *)
(* C calls and on CallInfos.                                               *)
(*                                                                         *)
(* The properties relate what a thread believes about itself to the C      *)
(* stack.  They are inductive together with the order of the activations   *)
(* on the C stack (Stack), and with the same relation at each place where  *)
(* control can come back to: below a lua_resume, and below a luaD_pcall    *)
(* for what that saved (Kept).                                             *)
(***************************************************************************)
EXTENDS LuaCall, TLAPS, FiniteSetTheorems, SequenceTheorems, WellFoundedInduction

\* The activations of a thread lie together, with a lua_resume below them if
\* the thread is a coroutine.
Separated(s) ==
  \A i, j \in 1..Len(s) : i < j =>
    (s[i].th = s[j].th <=> \A k \in (i + 1)..j : s[k].op # "resume")

\* A coroutine runs above the lua_resume that runs it.
Rooted(s) ==
  \A i \in 1..Len(s) :
    s[i].th = Main \/ \E j \in 1..i : s[j].op = "resume" /\ s[j].th = s[i].th

\* What an activation may have been called by.
Callers(a) ==
  CASE a.op = "call" ->
         IF a.raises THEN {"call", "execute", "function"}
         ELSE {"pcall", "execute", "function"}
    [] a.op = "execute" -> {"call", "resume"}
    [] a.op = "function" -> {"call", "execute"}
    [] OTHER -> {"function"}

\* Each activation was called by one that can call it, the first by lua_pcall.
Ordered(s) ==
  /\ \A i \in 2..Len(s) : s[i - 1].op \in Callers(s[i])
  /\ s # <<>> => s[1].op = "pcall" /\ s[1].th = Main

\* The order of the activations on the C stack.
Stack(s) == Separated(s) /\ Rooted(s) /\ Ordered(s)

\* A thread t with c CallInfos, nCcalls k and errfunc h fits the first n
\* activations of s.
Fits(s, n, t, c, k, h) ==
  /\ c = Cardinality(Frames(s, t, n))
  /\ k = Depth(s, n)
  /\ h <=> Handled(s, t, n)

\* The number of CallInfos, nCcalls and errfunc of each thread are c, k, h and
\* its baseCcalls b: the thread that a lua_resume made wait fits what lies
\* below that, and so does what a luaD_pcall saved.
Kept(s, c, k, h, b) ==
  \A i \in 1..Len(s) :
    /\ s[i].op = "resume" =>
         /\ Fits(s, i - 1, s[i - 1].th, c[s[i - 1].th], k[s[i - 1].th], h[s[i - 1].th])
         /\ k[s[i - 1].th] < MaxCCalls
         /\ b[s[i].th] = Depth(s, i)
    /\ s[i].op = "pcall" =>
         /\ Fits(s, i - 1, s[i].th, s[i].ci, s[i].nCcalls, s[i].errfunc)
         /\ s[i].nCcalls < MaxCCalls + Reserve

\* The running thread fits the whole stack.
Current(s, c, k, h) == Fits(s, Len(s), Holder(s), c[Holder(s)], k[Holder(s)], h[Holder(s)])

\* A coroutine with activations is "ok"; one without has no handler, and it
\* has the CallInfos to go on with if it yielded.
On(s, t) == \E i \in 1..Len(s) : s[i].th = t

\* Where coroutine co stands, by its status.
SettledAt(s, c, h, st, co) ==
  IF On(s, co) THEN st[co] = "ok"
  ELSE ~ h[co] /\ \/ st[co] = "error"
                  \/ st[co] = "ok" /\ c[co] = 0
                  \/ st[co] = "yield" /\ c[co] >= 2

\* The same of every coroutine.
Settled(s, c, h, st) == \A co \in Coroutines : SettledAt(s, c, h, st, co)

\* Each thread links the jump buffers of its own activations, in order.
Chained(s, e) == \A t \in Threads : Ascending(e[t]) /\ Range(e[t]) = Buffers(s, t)

\* A C stack with what its threads believe, their jump buffers being e.
World(s, c, k, h, b, e) ==
  /\ s \in Seq(Activations) /\ Stack(s)
  /\ Kept(s, c, k, h, b) /\ Current(s, c, k, h)
  /\ e \in [Threads -> Seq(Nat)] /\ Chained(s, e)

\* inc_ci keeps room for one more CallInfo.
Sized ==
  /\ ci \in [Threads -> Seq(Kinds)]
  /\ size \in [Threads -> Nat]
  /\ \A t \in Threads : Len(ci[t]) < size[t]

\* nCcalls stays within LUAI_MAXCCALLS and what error handling may add.
Limited == nCcalls \in [Threads -> 0..(MaxCCalls + Reserve)]

\* No error, an error that can run a handler, one that is being thrown.
Errors == {"none", "run", "throw"}

\* The remaining variables.
Typed ==
  /\ base \in [Threads -> 0..MaxCCalls] /\ base[Main] = 0
  /\ status \in [Threads -> {"ok", "yield", "error"}]
  /\ errfunc \in [Threads -> BOOLEAN]
  /\ fresh \subseteq Coroutines
  /\ err \in Errors

\* An error has somewhere to go; an overflow in the handling of an overflow
\* ends in LUA_ERRERR.
Raised ==
  /\ native # <<>> => native[Len(native)].op # "pcall"
  /\ err # "none" => native # <<>>
  /\ nCcalls[Running] >= MaxCCalls + Reserve => err = "throw"

\* The CallInfos of each thread.
Counts == [t \in Threads |-> Len(ci[t])]

\* The inductive invariant.
CallInv ==
  /\ Sized /\ Limited /\ Typed /\ Raised
  /\ World(native, Counts, nCcalls, errfunc, base, errorJmp)
  /\ Settled(native, Counts, errfunc, status)

-----------------------------------------------------------------------------
(* Sequences and sets.                                                     *)

\* Appending an activation.
LEMMA Pushed ==
  ASSUME NEW S, NEW s \in Seq(S), NEW a \in S
  PROVE  /\ Append(s, a) \in Seq(S) /\ Append(s, a) # <<>>
         /\ Len(Append(s, a)) = Len(s) + 1 /\ Len(s) \in Nat
         /\ \A i \in 1..Len(s) : Append(s, a)[i] = s[i]
         /\ Append(s, a)[Len(s) + 1] = a
OBVIOUS

\* Cutting a stack at height n.
LEMMA Cut ==
  ASSUME NEW S, NEW s \in Seq(S), NEW n \in 0..Len(s)
  PROVE  /\ SubSeq(s, 1, n) \in Seq(S) /\ Len(SubSeq(s, 1, n)) = n /\ Len(s) \in Nat
         /\ \A i \in 1..n : SubSeq(s, 1, n)[i] = s[i]
OBVIOUS

\* A set of naturals that is not empty has a least element.
LEMMA LeastNat ==
  ASSUME NEW T, T \subseteq Nat, T # {}
  PROVE  \E x \in T : \A y \in T : x <= y
<1> DEFINE Less == {p \in Nat \X Nat : p[1] < p[2]}
<1>1. IsWellFoundedOn(Less, Nat)
  BY NatLessThanWellFounded DEF OpToRel
<1>2. \E x \in T : \A y \in T : ~ (<<y, x>> \in Less)
  BY <1>1, WFMin
<1>3. \A x, y \in T : ~ (<<y, x>> \in Less) => x <= y
  OBVIOUS
<1> QED BY <1>2, <1>3

-----------------------------------------------------------------------------
(* The measures of the C stack.                                            *)

\* Two stacks that agree on their first n activations measure the same there.
Agree(s, u, n) == \A i \in 1..n : s[i] = u[i]

\* Stacks that agree up to n have the same C calls there,
LEMMA DepthAgrees ==
  ASSUME NEW s, NEW u, NEW n \in Nat, Agree(s, u, n)
  PROVE  Depth(s, n) = Depth(u, n)
BY DEF Depth, Agree

\* the same CallInfos,
LEMMA FramesAgree ==
  ASSUME NEW s, NEW u, NEW n \in Nat, Agree(s, u, n), NEW t
  PROVE  Frames(s, t, n) = Frames(u, t, n)
<1>1. {j \in 1..n : s[j].th = t} = {j \in 1..n : u[j].th = t}
  BY DEF Agree
<1>2. \A i \in {j \in 1..n : u[j].th = t} : Runs(s[i]) = Runs(u[i])
  BY DEF Agree
<1> QED BY <1>1, <1>2 DEF Frames

\* the same handler,
LEMMA HandledAgrees ==
  ASSUME NEW s, NEW u, NEW n \in Nat, Agree(s, u, n), NEW t
  PROVE  Handled(s, t, n) <=> Handled(u, t, n)
<1>1. \A i \in 1..n : s[i] = u[i]
  BY DEF Agree
<1>2. \A i \in 1..n : \A j \in (i + 1)..n : j \in 1..n
  OBVIOUS
<1> QED BY <1>1, <1>2 DEF Handled, Guards

\* and are fitted by the same threads.
LEMMA FitsAgrees ==
  ASSUME NEW s, NEW u, NEW n \in Nat, Agree(s, u, n), NEW t, NEW c, NEW k, NEW h
  PROVE  Fits(s, n, t, c, k, h) <=> Fits(u, n, t, c, k, h)
BY DepthAgrees, FramesAgree, HandledAgrees DEF Fits

\* C calls are finite in number.
LEMMA DepthType ==
  ASSUME NEW s, NEW n \in Nat
  PROVE  Depth(s, n) \in Nat /\ IsFiniteSet({i \in 1..n : s[i].op \in {"call", "resume"}})
<1> DEFINE D == {i \in 1..n : s[i].op \in {"call", "resume"}}
<1>1. IsFiniteSet(1..n)
  BY FS_Interval
<1>2. D \in SUBSET (1..n)
  OBVIOUS
<1>3. IsFiniteSet(D)
  BY <1>1, <1>2, FS_Subset
<1> QED BY <1>3, FS_CardinalityType DEF Depth

\* luaD_call and lua_resume are the C calls that are counted.
Counted(a) == IF a.op \in {"call", "resume"} THEN 1 ELSE 0

\* One activation more counts one C call or none.
LEMMA DepthStep ==
  ASSUME NEW s, NEW n \in Nat
  PROVE  Depth(s, n + 1) = Depth(s, n) + Counted(s[n + 1])
<1> DEFINE D(m) == {i \in 1..m : s[i].op \in {"call", "resume"}}
<1>1. IsFiniteSet(D(n)) /\ n + 1 \notin D(n)
  BY DepthType
<1>2. CASE s[n + 1].op \in {"call", "resume"}
  <2>1. D(n + 1) = D(n) \cup {n + 1}
    BY <1>2
  <2>2. Cardinality(D(n) \cup {n + 1}) = Cardinality(D(n)) + 1
    BY <1>1, FS_AddElement
  <2> QED BY <2>1, <2>2, <1>2 DEF Depth, Counted
<1>3. CASE s[n + 1].op \notin {"call", "resume"}
  <2>1. D(n + 1) = D(n)
    BY <1>3
  <2>2. Depth(s, n) \in Nat
    BY DepthType
  <2> QED BY <2>1, <2>2, <1>3 DEF Depth, Counted
<1> QED BY <1>2, <1>3

\* A higher stack has no fewer, and as many only without calls between.
LEMMA DepthGrows ==
  ASSUME NEW s, NEW m \in Nat, NEW n \in Nat, m <= n
  PROVE  /\ Depth(s, m) <= Depth(s, n)
         /\ Depth(s, m) = Depth(s, n) => \A i \in (m + 1)..n : s[i].op \notin {"call", "resume"}
<1> DEFINE D(k) == {i \in 1..k : s[i].op \in {"call", "resume"}}
<1>1. D(m) \in SUBSET D(n) /\ IsFiniteSet(D(n))
  <2>1. IsFiniteSet(D(n))
    BY DepthType
  <2> QED BY <2>1
<1>2. Cardinality(D(m)) <= Cardinality(D(n)) /\ (Cardinality(D(n)) = Cardinality(D(m)) => D(n) = D(m))
  BY <1>1, FS_Subset
<1>3. \A i \in (m + 1)..n : s[i].op \in {"call", "resume"} => i \in D(n) /\ i \notin D(m)
  OBVIOUS
<1> QED BY <1>2, <1>3 DEF Depth

\* An activation runs a number of CallInfos.
LEMMA RunsType == \A a \in Activations : Runs(a) \in Nat
BY DEF Activations, Runs

\* The CallInfos below n are finite in number.
LEMMA FramesFinite ==
  ASSUME NEW s \in Seq(Activations), NEW n \in 0..Len(s), NEW t
  PROVE  IsFiniteSet(Frames(s, t, n)) /\ Cardinality(Frames(s, t, n)) \in Nat
<1> DEFINE own == {j \in 1..n : s[j].th = t}
           F(i) == {i} \X (1..Runs(s[i]))
<1>1. IsFiniteSet(own)
  <2>1. IsFiniteSet(1..n)
    BY FS_Interval
  <2>2. own \in SUBSET (1..n)
    OBVIOUS
  <2> QED BY <2>1, <2>2, FS_Subset
<1>2. IsFiniteSet({F(i) : i \in own})
  <2> DEFINE f == [i \in own |-> F(i)]
  <2>1. f \in [own -> {F(i) : i \in own}]
    OBVIOUS
  <2>2. ASSUME NEW T \in {F(i) : i \in own} PROVE \E i \in own : f[i] = T
    <3>1. PICK i \in own : T = F(i)
      OBVIOUS
    <3>2. f[i] = F(i)
      OBVIOUS
    <3> QED BY <3>1, <3>2
  <2>3. f \in Surjection(own, {F(i) : i \in own})
    BY <2>1, <2>2 DEF Surjection
  <2> QED BY <1>1, <2>3, FS_Surjection
<1>3. ASSUME NEW i \in own PROVE IsFiniteSet(F(i))
  <2>1. Runs(s[i]) \in Nat
    BY RunsType
  <2>2. IsFiniteSet(1..Runs(s[i]))
    BY <2>1, FS_Interval
  <2>3. IsFiniteSet({i})
    BY FS_Singleton
  <2> QED BY <2>2, <2>3, FS_Product
<1>4. IsFiniteSet(UNION {F(i) : i \in own})
  <2>1. \A T \in {F(i) : i \in own} : IsFiniteSet(T)
    BY <1>3
  <2> QED BY <1>2, <2>1, FS_UNION
<1>5. Frames(s, t, n) = UNION {F(i) : i \in own}
  BY DEF Frames
<1> QED BY <1>4, <1>5, FS_CardinalityType

\* One activation more adds those it runs, to its thread.
LEMMA FramesStep ==
  ASSUME NEW s \in Seq(Activations), NEW n \in Nat, n < Len(s), NEW t
  PROVE  Cardinality(Frames(s, t, n + 1)) =
           Cardinality(Frames(s, t, n)) + IF s[n + 1].th = t THEN Runs(s[n + 1]) ELSE 0
<1> DEFINE m == Runs(s[n + 1])
           last == {n + 1} \X (1..m)
<1>1. m \in Nat
  BY RunsType
<1>2. IsFiniteSet(Frames(s, t, n)) /\ Cardinality(Frames(s, t, n)) \in Nat
  BY FramesFinite
<1>3. CASE s[n + 1].th = t
  <2>1. IsFiniteSet(last) /\ Cardinality(last) = m
    <3>1. IsFiniteSet(1..m) /\ Cardinality(1..m) = m
      BY <1>1, FS_Interval
    <3>2. IsFiniteSet({n + 1}) /\ Cardinality({n + 1}) = 1
      BY FS_Singleton
    <3>3. IsFiniteSet(last) /\ Cardinality(last) = Cardinality({n + 1}) * Cardinality(1..m)
      BY <3>1, <3>2, FS_Product
    <3>4. 1 * m = m
      BY <1>1
    <3> HIDE DEF m, last
    <3> QED BY <3>1, <3>2, <3>3, <3>4
  <2>2. {j \in 1..(n + 1) : s[j].th = t} = {j \in 1..n : s[j].th = t} \cup {n + 1}
    BY <1>3
  <2>3. Frames(s, t, n + 1) = Frames(s, t, n) \cup last
    BY <2>2 DEF Frames
  <2>4. Frames(s, t, n) \cap last = {}
    BY DEF Frames
  <2>5. Cardinality(Frames(s, t, n) \cup last)
          = Cardinality(Frames(s, t, n)) + Cardinality(last) - Cardinality({})
    BY <1>2, <2>1, <2>4, FS_Union
  <2>6. Cardinality({}) = 0
    BY FS_EmptySet
  <2> HIDE DEF m, last
  <2>7. Cardinality(Frames(s, t, n + 1)) = Cardinality(Frames(s, t, n) \cup last)
    BY <2>3
  <2>8. Cardinality(Frames(s, t, n + 1)) = Cardinality(Frames(s, t, n)) + m
    BY <1>1, <1>2, <2>1, <2>5, <2>6, <2>7
  <2> QED BY <1>3, <2>8 DEF m
<1>4. CASE s[n + 1].th # t
  <2>1. {j \in 1..(n + 1) : s[j].th = t} = {j \in 1..n : s[j].th = t}
    BY <1>4
  <2>2. Frames(s, t, n + 1) = Frames(s, t, n)
    BY <2>1 DEF Frames
  <2> QED BY <1>2, <1>4, <2>2
<1> QED BY <1>3, <1>4

\* A higher stack has no fewer CallInfos.
LEMMA FramesGrow ==
  ASSUME NEW s \in Seq(Activations), NEW m \in 0..Len(s), NEW n \in m..Len(s), NEW t
  PROVE  Cardinality(Frames(s, t, m)) <= Cardinality(Frames(s, t, n))
<1>1. Frames(s, t, m) \in SUBSET Frames(s, t, n)
  BY DEF Frames
<1> QED BY <1>1, FramesFinite, FS_Subset

\* One activation more changes the handler if it guards the thread.
LEMMA HandledStep ==
  ASSUME NEW s, NEW n \in Nat, NEW t
  PROVE  Handled(s, t, n + 1) <=>
           IF Guards(s, t, n + 1) THEN s[n + 1].handler ELSE Handled(s, t, n)
<1>1. CASE Guards(s, t, n + 1)
  BY <1>1 DEF Handled
<1>2. CASE ~ Guards(s, t, n + 1)
  <2>1. ASSUME NEW i \in 1..n
        PROVE (\A j \in (i + 1)..(n + 1) : ~ Guards(s, t, j)) <=> \A j \in (i + 1)..n : ~ Guards(s, t, j)
    BY <1>2
  <2> QED BY <1>2, <2>1 DEF Handled
<1> QED BY <1>1, <1>2

\* A thread without activations in between measures the same.
LEMMA FitsAbove ==
  ASSUME NEW s, NEW m \in Nat, NEW n \in Nat, m <= n, NEW t,
         \A i \in (m + 1)..n : s[i].th # t
  PROVE  Frames(s, t, n) = Frames(s, t, m) /\ (Handled(s, t, n) <=> Handled(s, t, m))
<1>1. {j \in 1..n : s[j].th = t} = {j \in 1..m : s[j].th = t}
  OBVIOUS
<1>2. \A i \in (m + 1)..n : ~ Guards(s, t, i)
  BY DEF Guards
<1>3. ASSUME NEW i \in 1..m
      PROVE (\A j \in (i + 1)..n : ~ Guards(s, t, j)) <=> \A j \in (i + 1)..m : ~ Guards(s, t, j)
  BY <1>2
<1> QED BY <1>1, <1>2, <1>3 DEF Frames, Handled

\* A thread that has done nothing fits an empty stack.
LEMMA EmptyStack ==
  ASSUME NEW s, NEW t
  PROVE  Fits(s, 0, t, 0, 0, FALSE)
<1>1. 1..0 = {}
  OBVIOUS
<1>2. Frames(s, t, 0) = {} /\ {i \in 1..0 : s[i].op \in {"call", "resume"}} = {}
  BY <1>1 DEF Frames
<1>3. ~ Handled(s, t, 0)
  BY <1>1 DEF Handled
<1> QED BY <1>2, <1>3, FS_EmptySet DEF Fits, Depth

-----------------------------------------------------------------------------
(* The order of the activations.                                           *)

\* The lower part of a stack is ordered too.
LEMMA StackCut ==
  ASSUME NEW s \in Seq(Activations), Stack(s), NEW n \in 0..Len(s)
  PROVE  Stack(SubSeq(s, 1, n))
<1> DEFINE u == SubSeq(s, 1, n)
<1>1. Len(u) = n /\ n \in Nat /\ (\A i \in 1..n : u[i] = s[i]) /\ 1..n \subseteq 1..Len(s)
      /\ u \in Seq(Activations)
  BY Cut
<1> HIDE DEF u
<1>2. Separated(u)
  <2> SUFFICES ASSUME NEW i \in 1..n, NEW j \in 1..n, i < j
               PROVE u[i].th = u[j].th <=> \A k \in (i + 1)..j : u[k].op # "resume"
    BY <1>1 DEF Separated
  <2>1. s[i].th = s[j].th <=> \A k \in (i + 1)..j : s[k].op # "resume"
    BY <1>1 DEF Stack, Separated
  <2>2. \A k \in (i + 1)..j : u[k] = s[k]
    BY <1>1
  <2> QED BY <1>1, <2>1, <2>2
<1>3. Rooted(u)
  <2> SUFFICES ASSUME NEW i \in 1..n, u[i].th # Main
               PROVE \E j \in 1..i : u[j].op = "resume" /\ u[j].th = u[i].th
    BY <1>1 DEF Rooted
  <2>1. PICK j \in 1..i : s[j].op = "resume" /\ s[j].th = s[i].th
    BY <1>1 DEF Stack, Rooted
  <2>2. j \in 1..n
    BY <1>1
  <2> QED BY <1>1, <2>1, <2>2
<1>4. Ordered(u)
  <2>1. \A i \in 2..n : u[i] = s[i] /\ u[i - 1] = s[i - 1] /\ i \in 2..Len(s)
    BY <1>1
  <2>2. u # <<>> => u[1] = s[1] /\ s # <<>>
    BY <1>1
  <2> QED BY <1>1, <2>1, <2>2 DEF Stack, Ordered
<1> QED BY <1>2, <1>3, <1>4 DEF Stack, u

\* The thread that runs goes on, or another one is resumed.
LEMMA StackPush ==
  ASSUME NEW s \in Seq(Activations), Stack(s), NEW a \in Activations,
         IF s = <<>> THEN a.op = "pcall" /\ a.th = Main ELSE s[Len(s)].op \in Callers(a),
         IF a.op = "resume" THEN ~ On(s, a.th) ELSE a.th = Holder(s)
  PROVE  Stack(Append(s, a))
<1> DEFINE u == Append(s, a)
           l == Len(s)
<1>1. /\ u \in Seq(Activations) /\ Len(u) = l + 1 /\ l \in Nat
      /\ \A i \in 1..l : u[i] = s[i]
      /\ u[l + 1] = a
  BY Pushed
<1>2. s = <<>> <=> l = 0
  OBVIOUS
<1>3. l > 0 /\ a.op # "resume" => a.th = s[l].th
  BY <1>2 DEF Holder, Last
<1> HIDE DEF u, l
<1>4. Separated(u)
  <2> SUFFICES ASSUME NEW i \in 1..(l + 1), NEW j \in 1..(l + 1), i < j
               PROVE u[i].th = u[j].th <=> \A k \in (i + 1)..j : u[k].op # "resume"
    BY <1>1 DEF Separated
  <2>1. CASE j \in 1..l
    <3>1. s[i].th = s[j].th <=> \A k \in (i + 1)..j : s[k].op # "resume"
      BY <1>1, <2>1 DEF Stack, Separated, l
    <3>2. \A k \in (i + 1)..j : u[k] = s[k]
      BY <1>1, <2>1
    <3> QED BY <1>1, <2>1, <3>1, <3>2
  <2>2. CASE j = l + 1 /\ a.op = "resume"
    <3>1. s[i].th # a.th /\ i \in 1..l
      BY <1>1, <2>2 DEF On, l
    <3> QED BY <1>1, <2>2, <3>1
  <2>3. CASE j = l + 1 /\ a.op # "resume"
    <3>1. i \in 1..l /\ l > 0
      BY <1>1, <2>3
    <3>2. i < l => (s[i].th = s[l].th <=> \A k \in (i + 1)..l : s[k].op # "resume")
      BY <1>1, <3>1 DEF Stack, Separated, l
    <3>3. (\A k \in (i + 1)..j : u[k].op # "resume") <=> \A k \in (i + 1)..l : s[k].op # "resume"
      BY <1>1, <2>3
    <3>4. u[i].th = u[j].th <=> s[i].th = s[l].th
      BY <1>1, <1>3, <2>3, <3>1
    <3>5. i = l => \A k \in (i + 1)..l : s[k].op # "resume"
      OBVIOUS
    <3> QED BY <1>1, <3>1, <3>2, <3>3, <3>4, <3>5
  <2> QED BY <1>1, <2>1, <2>2, <2>3
<1>5. Rooted(u)
  <2> SUFFICES ASSUME NEW i \in 1..(l + 1), u[i].th # Main
               PROVE \E j \in 1..i : u[j].op = "resume" /\ u[j].th = u[i].th
    BY <1>1 DEF Rooted
  <2>1. CASE i \in 1..l
    <3>1. PICK j \in 1..i : s[j].op = "resume" /\ s[j].th = s[i].th
      BY <1>1, <2>1 DEF Stack, Rooted, l
    <3> QED BY <1>1, <2>1, <3>1
  <2>2. CASE i = l + 1 /\ a.op = "resume"
    BY <1>1, <2>2
  <2>3. CASE i = l + 1 /\ a.op # "resume"
    <3>1. l > 0 /\ s[l].th = a.th /\ l \in 1..l
      BY <1>1, <1>2, <1>3, <2>3 DEF Holder
    <3>2. PICK j \in 1..l : s[j].op = "resume" /\ s[j].th = s[l].th
      BY <1>1, <2>3, <3>1 DEF Stack, Rooted, l
    <3> QED BY <1>1, <2>3, <3>1, <3>2
  <2> QED BY <1>1, <2>1, <2>2, <2>3
<1>6. Ordered(u)
  <2>1. ASSUME NEW i \in 2..(l + 1) PROVE u[i - 1].op \in Callers(u[i])
    <3>1. CASE i \in 2..l
      BY <1>1, <3>1 DEF Stack, Ordered, l
    <3>2. CASE i = l + 1
      BY <1>1, <1>2, <3>2 DEF l
    <3> QED BY <1>1, <3>1, <3>2
  <2>2. u[1].op = "pcall" /\ u[1].th = Main
    BY <1>1, <1>2 DEF Stack, Ordered
  <2> QED BY <1>1, <2>1, <2>2 DEF Ordered
<1> QED BY <1>4, <1>5, <1>6 DEF Stack, u

\* A thread that is not on top waits for one that it resumed.
LEMMA Waiting ==
  ASSUME NEW s \in Seq(Activations), Stack(s), NEW t, On(s, t), t # Holder(s)
  PROVE  \E k \in 2..Len(s) :
           s[k].op = "resume" /\ s[k - 1].th = t /\ \A j \in k..Len(s) : s[j].th # t
<1> DEFINE l == Len(s)
<1>1. PICK i \in 1..l : s[i].th = t
  BY DEF On
<1>2. l \in Nat /\ s[l].th # t /\ i < l
  BY <1>1 DEF Holder, Last
<1>3. \A j \in (i + 1)..l : s[j].th = t <=> \A k \in (i + 1)..j : s[k].op # "resume"
  BY <1>1, <1>2 DEF Stack, Separated
<1> DEFINE T == {k \in (i + 1)..l : s[k].op = "resume"}
<1>4. T # {} /\ T \subseteq Nat
  BY <1>2, <1>3
<1>5. PICK k \in T : \A j \in T : k <= j
  BY <1>4, LeastNat
<1>6. k \in 2..l /\ s[k].op = "resume" /\ k \in (i + 1)..l
  BY <1>5
<1>7. s[k - 1].th = t
  <2>1. CASE k - 1 = i
    BY <1>1, <2>1
  <2>2. CASE k - 1 # i
    <3>1. k - 1 \in (i + 1)..l
      BY <1>6, <2>2
    <3>2. \A j \in (i + 1)..(k - 1) : s[j].op # "resume"
      BY <1>5, <1>6
    <3> QED BY <1>3, <3>1, <3>2
  <2> QED BY <2>1, <2>2
<1>8. \A j \in k..l : s[j].th # t
  BY <1>3, <1>6
<1> QED BY <1>6, <1>7, <1>8

\* Which thread holds what is left of the C stack, and what was pushed on it.
LEMMA HolderCut ==
  ASSUME NEW s \in Seq(Activations), NEW n \in 0..Len(s)
  PROVE  Holder(SubSeq(s, 1, n)) = IF n = 0 THEN Main ELSE s[n].th
<1> DEFINE u == SubSeq(s, 1, n)
<1>1. Len(u) = n /\ (\A i \in 1..n : u[i] = s[i]) /\ n \in Nat
  BY Cut
<1>2. u = <<>> <=> n = 0
  BY <1>1
<1> HIDE DEF u
<1> QED BY <1>1, <1>2 DEF Holder, Last, u

\* The thread of the topmost activation holds the stack.
LEMMA HolderPush ==
  ASSUME NEW s \in Seq(Activations), NEW a \in Activations
  PROVE  Holder(Append(s, a)) = a.th
BY Pushed DEF Holder, Last

\* The top of a stack belongs to its holder, and so does all of the stack down
\* to one of its activations.
LEMMA HolderTop ==
  ASSUME NEW s \in Seq(Activations), Stack(s), NEW n \in 1..Len(s), s[n].th = Holder(s)
  PROVE  /\ \A i \in n..Len(s) : s[i].th = Holder(s)
         /\ \A i \in (n + 1)..Len(s) : s[i].op # "resume"
<1> DEFINE l == Len(s)
<1>1. l \in Nat /\ l > 0 /\ Holder(s) = s[l].th
  BY DEF Holder, Last
<1>2. CASE n = l
  BY <1>1, <1>2
<1>3. CASE n < l
  <2>1. \A k \in (n + 1)..l : s[k].op # "resume"
    BY <1>1, <1>3 DEF Stack, Separated
  <2>2. \A i \in (n + 1)..l : s[i].th = s[n].th
    BY <1>1, <1>3, <2>1 DEF Stack, Separated
  <2> QED BY <2>1, <2>2, <1>1
<1> QED BY <1>1, <1>2, <1>3

\* The thread that resumed is another one than any above it.
LEMMA ResumerBelow ==
  ASSUME NEW s \in Seq(Activations), Stack(s), NEW i \in 1..Len(s), s[i].op = "resume"
  PROVE  /\ i \in 2..Len(s) /\ s[i - 1].op = "function"
         /\ \A j \in i..Len(s) : s[i - 1].th # s[j].th
<1>1. i \in 2..Len(s)
  BY DEF Stack, Ordered
<1>2. s[i - 1].op \in Callers(s[i])
  BY <1>1 DEF Stack, Ordered
<1>3. ASSUME NEW j \in i..Len(s) PROVE s[i - 1].th # s[j].th
  <2>1. i - 1 \in 1..Len(s) /\ j \in 1..Len(s) /\ i - 1 < j /\ i \in (i - 1 + 1)..j
    BY <1>1
  <2> QED BY <2>1 DEF Stack, Separated
<1> QED BY <1>1, <1>2, <1>3 DEF Callers

-----------------------------------------------------------------------------
(* What a thread believes about itself, as activations come and go.        *)

\* A thread that fits n activations fits n + 1, counting what it adds.
LEMMA FitsStep ==
  ASSUME NEW s \in Seq(Activations), NEW n \in Nat, n < Len(s), NEW t, ~ Guards(s, t, n + 1),
         NEW c \in Int, NEW k \in Int, NEW h
  PROVE  Fits(s, n, t, c, k, h) <=>
           Fits(s, n + 1, t, c + (IF s[n + 1].th = t THEN Runs(s[n + 1]) ELSE 0),
                k + Counted(s[n + 1]), h)
<1>1. Handled(s, t, n + 1) <=> Handled(s, t, n)
  BY HandledStep
<1>2. Depth(s, n + 1) = Depth(s, n) + Counted(s[n + 1]) /\ Depth(s, n) \in Nat
      /\ Counted(s[n + 1]) \in Nat
  BY DepthStep, DepthType DEF Counted
<1>3. Cardinality(Frames(s, t, n + 1)) =
        Cardinality(Frames(s, t, n)) + IF s[n + 1].th = t THEN Runs(s[n + 1]) ELSE 0
  BY FramesStep
<1>4. Cardinality(Frames(s, t, n)) \in Nat /\ Runs(s[n + 1]) \in Nat
  BY FramesFinite, RunsType
<1> QED BY <1>1, <1>2, <1>3, <1>4 DEF Fits

\* The same for an activation pushed on top.
LEMMA FitsPush ==
  ASSUME NEW s \in Seq(Activations), NEW a \in Activations, NEW t,
         NEW c \in Int, NEW k \in Int, NEW h, Fits(s, Len(s), t, c, k, h)
  PROVE  Fits(Append(s, a), Len(s) + 1, t, c + (IF a.th = t THEN Runs(a) ELSE 0), k + Counted(a),
              IF a.th = t /\ a.op = "pcall" THEN a.handler ELSE h)
<1> DEFINE u == Append(s, a)
           l == Len(s)
<1>1. u \in Seq(Activations) /\ Len(u) = l + 1 /\ l \in Nat /\ u[l + 1] = a
      /\ \A i \in 1..l : s[i] = u[i]
  BY Pushed
<1> HIDE DEF u
<1>2. Fits(u, l, t, c, k, h)
  BY <1>1, FitsAgrees DEF Agree
<1>3. Guards(u, t, l + 1) <=> a.th = t /\ a.op = "pcall"
  BY <1>1 DEF Guards
<1>4. CASE a.th = t /\ a.op = "pcall"
  <2>1. Handled(u, t, l + 1) <=> a.handler
    BY <1>1, <1>3, <1>4, HandledStep
  <2>2. Depth(u, l + 1) = k + Counted(a)
    BY <1>1, <1>2, DepthStep DEF Fits
  <2>3. Cardinality(Frames(u, t, l + 1)) = c + Runs(a)
    BY <1>1, <1>2, <1>4, FramesStep DEF Fits
  <2> QED BY <1>4, <2>1, <2>2, <2>3 DEF Fits, u
<1>5. CASE ~ (a.th = t /\ a.op = "pcall")
  <2>1. Fits(u, l + 1, t, c + (IF a.th = t THEN Runs(a) ELSE 0), k + Counted(a), h)
    BY <1>1, <1>2, <1>3, <1>5, FitsStep
  <2> QED BY <1>5, <2>1 DEF u
<1> QED BY <1>4, <1>5

\* A thread without activations.
LEMMA FitsOff ==
  ASSUME NEW s \in Seq(Activations), NEW t, ~ On(s, t), NEW h, ~ h
  PROVE  Fits(s, Len(s), t, 0, Depth(s, Len(s)), h)
<1>1. Frames(s, t, Len(s)) = Frames(s, t, 0) /\ (Handled(s, t, Len(s)) <=> Handled(s, t, 0))
  BY FitsAbove DEF On
<1> QED BY <1>1, EmptyStack DEF Fits

\* Only thread t changes what it believes.
Others(t, c, k, h, c2, k2, h2) ==
  \A u \in Threads \ {t} : c2[u] = c[u] /\ k2[u] = k[u] /\ h2[u] = h[u]

\* An activation belongs to a thread.
LEMMA ThreadsType == \A a \in Activations : a.th \in Threads
BY DEF Activations

\* Kept holds of the lower part of a stack.
LEMMA KeptCut ==
  ASSUME NEW s \in Seq(Activations), Stack(s), NEW n \in 0..Len(s),
         NEW c, NEW k, NEW h, NEW b, Kept(s, c, k, h, b),
         n < Len(s) => s[n + 1].th = Holder(s),
         NEW c2, NEW k2, NEW h2, Others(Holder(s), c, k, h, c2, k2, h2)
  PROVE  Kept(SubSeq(s, 1, n), c2, k2, h2, b)
<1> DEFINE u == SubSeq(s, 1, n)
           l == Len(s)
<1>1. Len(u) = n /\ n \in Nat /\ l \in Nat /\ (\A i \in 1..n : u[i] = s[i]) /\ n <= l
  BY Cut
<1> HIDE DEF u
<1> SUFFICES ASSUME NEW i \in 1..n
    PROVE /\ u[i].op = "resume" =>
               /\ Fits(u, i - 1, u[i - 1].th, c2[u[i - 1].th], k2[u[i - 1].th], h2[u[i - 1].th])
               /\ k2[u[i - 1].th] < MaxCCalls
               /\ b[u[i].th] = Depth(u, i)
          /\ u[i].op = "pcall" =>
               /\ Fits(u, i - 1, u[i].th, u[i].ci, u[i].nCcalls, u[i].errfunc)
               /\ u[i].nCcalls < MaxCCalls + Reserve
  BY <1>1 DEF Kept, u
<1>2. i \in 1..l /\ u[i] = s[i] /\ i - 1 \in Nat /\ i \in Nat /\ Agree(s, u, i - 1) /\ Agree(s, u, i)
  BY <1>1 DEF Agree
<1>3. CASE s[i].op = "resume"
  <2> DEFINE r == s[i - 1].th
  <2>1. i \in 2..l /\ \A j \in i..l : r # s[j].th
    BY <1>1, <1>2, <1>3, ResumerBelow
  <2>2. r # Holder(s)
    <3>1. CASE n < l
      BY <1>1, <2>1, <3>1
    <3>2. CASE n = l
      BY <1>1, <2>1, <3>2 DEF Holder, Last
    <3> QED BY <1>1, <3>1, <3>2
  <2>3. r \in Threads
    BY <2>1, ThreadsType
  <2>4. c2[r] = c[r] /\ k2[r] = k[r] /\ h2[r] = h[r]
    BY <2>2, <2>3 DEF Others
  <2>5. Fits(s, i - 1, r, c[r], k[r], h[r]) /\ k[r] < MaxCCalls /\ b[s[i].th] = Depth(s, i)
    BY <1>2, <1>3 DEF Kept
  <2>6. u[i - 1] = s[i - 1]
    BY <1>1, <2>1
  <2> HIDE DEF r
  <2>7. Fits(u, i - 1, r, c2[r], k2[r], h2[r])
    BY <1>2, <2>4, <2>5, FitsAgrees
  <2>8. b[u[i].th] = Depth(u, i)
    BY <1>2, <2>5, DepthAgrees
  <2> QED BY <1>2, <1>3, <2>4, <2>5, <2>6, <2>7, <2>8 DEF r
<1>4. CASE s[i].op = "pcall"
  <2>1. Fits(s, i - 1, s[i].th, s[i].ci, s[i].nCcalls, s[i].errfunc)
        /\ s[i].nCcalls < MaxCCalls + Reserve
    BY <1>2, <1>4 DEF Kept
  <2> QED BY <1>2, <1>4, <2>1, FitsAgrees
<1> QED BY <1>2, <1>3, <1>4

\* Pushing an activation leaves what lies below it alone.
LEMMA KeptBelow ==
  ASSUME NEW s \in Seq(Activations), NEW a \in Activations,
         Stack(s), NEW c, NEW k, NEW h, NEW b, Kept(s, c, k, h, b), NEW i \in 1..Len(s)
  PROVE  LET u == Append(s, a)
         IN /\ u[i].op = "resume" =>
                 /\ Fits(u, i - 1, u[i - 1].th, c[u[i - 1].th], k[u[i - 1].th], h[u[i - 1].th])
                 /\ k[u[i - 1].th] < MaxCCalls
                 /\ b[u[i].th] = Depth(u, i)
            /\ u[i].op = "pcall" =>
                 /\ Fits(u, i - 1, u[i].th, u[i].ci, u[i].nCcalls, u[i].errfunc)
                 /\ u[i].nCcalls < MaxCCalls + Reserve
<1> DEFINE u == Append(s, a)
<1>1. (\A j \in 1..Len(s) : u[j] = s[j]) /\ Len(s) \in Nat
  BY Pushed
<1> HIDE DEF u
<1>2. u[i] = s[i] /\ i - 1 \in Nat /\ i \in Nat /\ Agree(s, u, i - 1) /\ Agree(s, u, i)
  BY <1>1 DEF Agree
<1>3. CASE s[i].op = "resume"
  <2> DEFINE F(v, r) == Fits(v, i - 1, r, c[r], k[r], h[r])
  <2>1. F(s, s[i - 1].th) /\ k[s[i - 1].th] < MaxCCalls /\ b[s[i].th] = Depth(s, i)
    BY <1>3 DEF Kept
  <2>2. u[i - 1] = s[i - 1]
    BY <1>1, <1>3, ResumerBelow
  <2>3. F(u, s[i - 1].th)
    BY <1>2, <2>1, FitsAgrees
  <2> QED BY <1>2, <1>3, <2>1, <2>2, <2>3, DepthAgrees DEF u
<1>4. CASE s[i].op = "pcall"
  <2>1. Fits(s, i - 1, s[i].th, s[i].ci, s[i].nCcalls, s[i].errfunc)
        /\ s[i].nCcalls < MaxCCalls + Reserve
    BY <1>4 DEF Kept
  <2> QED BY <1>2, <1>4, <2>1, FitsAgrees DEF u
<1> QED BY <1>2, <1>3, <1>4 DEF u

\* Kept holds on when the running thread pushes an activation.
LEMMA KeptPush ==
  ASSUME NEW s \in Seq(Activations), Stack(s), NEW a \in Activations,
         a.op # "resume", a.th = Holder(s),
         NEW c, NEW k, NEW h, NEW b, Kept(s, c, k, h, b),
         a.op = "pcall" => /\ Fits(s, Len(s), a.th, a.ci, a.nCcalls, a.errfunc)
                           /\ a.nCcalls < MaxCCalls + Reserve,
         NEW c2, NEW k2, NEW h2, Others(a.th, c, k, h, c2, k2, h2)
  PROVE  Kept(Append(s, a), c2, k2, h2, b)
<1> DEFINE u == Append(s, a)
           l == Len(s)
<1>1. Kept(s, c2, k2, h2, b)
  <2>1. SubSeq(s, 1, l) = s /\ l \in 0..l
    OBVIOUS
  <2>2. Kept(SubSeq(s, 1, l), c2, k2, h2, b)
    BY <2>1, KeptCut
  <2> QED BY <2>1, <2>2
<1>2. /\ u \in Seq(Activations) /\ Len(u) = l + 1 /\ l \in Nat /\ u[l + 1] = a
      /\ \A i \in 1..l : u[i] = s[i]
  BY Pushed
<1>3. \A i \in 1..l :
        /\ u[i].op = "resume" =>
             /\ Fits(u, i - 1, u[i - 1].th, c2[u[i - 1].th], k2[u[i - 1].th], h2[u[i - 1].th])
             /\ k2[u[i - 1].th] < MaxCCalls
             /\ b[u[i].th] = Depth(u, i)
        /\ u[i].op = "pcall" =>
             /\ Fits(u, i - 1, u[i].th, u[i].ci, u[i].nCcalls, u[i].errfunc)
             /\ u[i].nCcalls < MaxCCalls + Reserve
  BY <1>1, KeptBelow
<1> HIDE DEF u
<1>4. a.op = "pcall" => Fits(u, l, a.th, a.ci, a.nCcalls, a.errfunc)
  BY <1>2, FitsAgrees DEF Agree
<1>5. \A i \in 1..(l + 1) : i \in 1..l \/ (i = l + 1 /\ i - 1 = l)
  BY <1>2
<1> QED BY <1>2, <1>3, <1>4, <1>5 DEF Kept, u

\* Kept holds on when a coroutine is resumed.
LEMMA KeptResume ==
  ASSUME NEW s \in Seq(Activations), Stack(s), s # <<>>, NEW a \in Activations,
         a.op = "resume", ~ On(s, a.th),
         NEW c, NEW k, NEW h, NEW b, Kept(s, c, k, h, b),
         Current(s, c, k, h), k[Holder(s)] < MaxCCalls,
         NEW c2, NEW k2, NEW h2, Others(a.th, c, k, h, c2, k2, h2),
         NEW b2, b2[a.th] = Depth(s, Len(s)) + 1, \A t \in Threads \ {a.th} : b2[t] = b[t]
  PROVE  Kept(Append(s, a), c2, k2, h2, b2)
<1> DEFINE u == Append(s, a)
           l == Len(s)
           t == Holder(s)
<1>1. /\ u \in Seq(Activations) /\ Len(u) = l + 1 /\ l \in Nat /\ u[l + 1] = a
      /\ \A i \in 1..l : u[i] = s[i]
  BY Pushed
<1>2. l \in 1..l /\ t = s[l].th /\ t \in Threads /\ t # a.th
  BY ThreadsType DEF Holder, Last, On
<1>3. Kept(s, c2, k2, h2, b2)
  <2> SUFFICES ASSUME NEW i \in 1..l
      PROVE /\ s[i].op = "resume" =>
                 /\ Fits(s, i - 1, s[i - 1].th, c2[s[i - 1].th], k2[s[i - 1].th], h2[s[i - 1].th])
                 /\ k2[s[i - 1].th] < MaxCCalls
                 /\ b2[s[i].th] = Depth(s, i)
            /\ s[i].op = "pcall" =>
                 /\ Fits(s, i - 1, s[i].th, s[i].ci, s[i].nCcalls, s[i].errfunc)
                 /\ s[i].nCcalls < MaxCCalls + Reserve
    BY DEF Kept
  <2>1. CASE s[i].op = "resume"
    <3>1. i \in 2..l
      BY <2>1, ResumerBelow
    <3>2. i - 1 \in 1..l /\ i \in 1..l
      BY <3>1
    <3>3. s[i - 1].th \in Threads \ {a.th} /\ s[i].th \in Threads \ {a.th}
      BY <3>2, ThreadsType DEF On
    <3> QED BY <2>1, <3>3 DEF Kept, Others
  <2>2. CASE s[i].op = "pcall"
    BY <2>2 DEF Kept
  <2> QED BY <2>1, <2>2
<1>4. \A i \in 1..l :
        /\ u[i].op = "resume" =>
             /\ Fits(u, i - 1, u[i - 1].th, c2[u[i - 1].th], k2[u[i - 1].th], h2[u[i - 1].th])
             /\ k2[u[i - 1].th] < MaxCCalls
             /\ b2[u[i].th] = Depth(u, i)
        /\ u[i].op = "pcall" =>
             /\ Fits(u, i - 1, u[i].th, u[i].ci, u[i].nCcalls, u[i].errfunc)
             /\ u[i].nCcalls < MaxCCalls + Reserve
  BY <1>3, KeptBelow
<1> HIDE DEF u
<1>5. c2[t] = c[t] /\ k2[t] = k[t] /\ h2[t] = h[t] /\ u[l] = s[l]
  BY <1>1, <1>2 DEF Others
<1>6. Fits(u, l, t, c2[t], k2[t], h2[t]) /\ k2[t] < MaxCCalls
  <2>1. Fits(s, l, t, c2[t], k2[t], h2[t])
    BY <1>5 DEF Current
  <2> QED BY <1>1, <1>5, <2>1, FitsAgrees DEF Agree
<1>7. b2[a.th] = Depth(u, l + 1)
  <2>1. Depth(u, l) = Depth(s, l)
    BY <1>1, DepthAgrees DEF Agree
  <2> QED BY <1>1, <2>1, DepthStep DEF Counted
<1>8. \A i \in 1..(l + 1) : i \in 1..l \/ (i = l + 1 /\ i - 1 = l)
  BY <1>1
<1> HIDE DEF t
<1> QED BY <1>1, <1>2, <1>4, <1>5, <1>6, <1>7, <1>8 DEF Kept, u

\* The thread whose activation was pushed is the one that runs.
LEMMA CurrentPush ==
  ASSUME NEW s \in Seq(Activations), NEW a \in Activations, a.op # "resume", a.th = Holder(s),
         NEW c, NEW k, NEW h, Current(s, c, k, h), c[a.th] \in Int, k[a.th] \in Int,
         NEW c2, NEW k2, NEW h2,
         c2[a.th] = c[a.th] + Runs(a), k2[a.th] = k[a.th] + Counted(a),
         h2[a.th] <=> IF a.op = "pcall" THEN a.handler ELSE h[a.th]
  PROVE  Current(Append(s, a), c2, k2, h2)
<1> DEFINE t == a.th
<1>1. Fits(s, Len(s), t, c[t], k[t], h[t])
  BY DEF Current
<1>2. Fits(Append(s, a), Len(s) + 1, t, c[t] + Runs(a), k[t] + Counted(a),
           IF a.op = "pcall" THEN a.handler ELSE h[t])
  BY <1>1, FitsPush
<1>3. Holder(Append(s, a)) = t /\ Len(Append(s, a)) = Len(s) + 1
  BY HolderPush, Pushed
<1> HIDE DEF t
<1>4. Fits(Append(s, a), Len(s) + 1, t, c2[t], k2[t], h2[t])
  BY <1>2 DEF Fits, t
<1> QED BY <1>3, <1>4 DEF Current

\* The coroutine that is resumed fits the stack it starts on.
LEMMA CurrentResume ==
  ASSUME NEW s \in Seq(Activations), NEW a \in Activations, a.op = "resume", ~ On(s, a.th),
         NEW c2, NEW k2, NEW h2,
         c2[a.th] = 0, k2[a.th] = Depth(s, Len(s)) + 1, ~ h2[a.th]
  PROVE  Current(Append(s, a), c2, k2, h2)
<1> DEFINE t == a.th
           d == Depth(s, Len(s))
<1>1. Fits(s, Len(s), t, 0, d, h2[t])
  BY FitsOff
<1>2. d \in Nat /\ Runs(a) = 0 /\ Counted(a) = 1
  <2>1. Len(s) \in Nat
    OBVIOUS
  <2> QED BY <2>1, DepthType DEF Runs, Counted
<1>3. Fits(Append(s, a), Len(s) + 1, t, 0 + (IF a.th = t THEN Runs(a) ELSE 0), d + Counted(a),
           IF a.th = t /\ a.op = "pcall" THEN a.handler ELSE h2[t])
  <2> HIDE DEF d
  <2> QED BY <1>1, <1>2, FitsPush
<1>4. Holder(Append(s, a)) = t /\ Len(Append(s, a)) = Len(s) + 1
  BY HolderPush, Pushed
<1> HIDE DEF t, d
<1>5. Fits(Append(s, a), Len(s) + 1, t, c2[t], k2[t], h2[t])
  BY <1>2, <1>3 DEF Fits, t, d
<1> QED BY <1>4, <1>5 DEF Current

-----------------------------------------------------------------------------
(* The chains of jump buffers.                                             *)

\* The last jump buffer of a thread is its highest.
LEMMA ChainTop ==
  ASSUME NEW e \in Seq(Nat), Ascending(e), e # <<>>
  PROVE  /\ Last(e) \in Range(e) /\ Last(e) \in Nat /\ \A x \in Range(e) : x <= Last(e)
         /\ Front(e) \in Seq(Nat) /\ Ascending(Front(e)) /\ Range(Front(e)) = Range(e) \ {Last(e)}
<1> DEFINE l == Len(e)
           f == SubSeq(e, 1, l - 1)
<1>1. l \in Nat /\ l > 0 /\ DOMAIN e = 1..l /\ \A i \in 1..l : e[i] \in Nat
  OBVIOUS
<1>2. f \in Seq(Nat) /\ DOMAIN f = 1..(l - 1) /\ \A i \in 1..(l - 1) : f[i] = e[i]
  BY <1>1
<1>3. \A i \in 1..(l - 1) : e[i] < e[l]
  BY <1>1 DEF Ascending
<1> HIDE DEF f, l
<1>4. \A x : x \in Range(e) <=> \E i \in 1..l : x = e[i]
  BY <1>1 DEF Range
<1>5. \A x : x \in Range(f) <=> \E i \in 1..(l - 1) : x = e[i]
  BY <1>2 DEF Range
<1>6. \A i \in 1..l : i \in 1..(l - 1) \/ i = l
  BY <1>1
<1>7. \A i \in 1..(l - 1) : i \in 1..l
  BY <1>1
<1>8. l \in 1..l
  BY <1>1
<1>9. \A x \in Range(e) : x <= e[l]
  BY <1>1, <1>3, <1>4, <1>6, <1>7
<1>10. Range(f) = Range(e) \ {e[l]}
  BY <1>1, <1>3, <1>4, <1>5, <1>6, <1>7
<1>11. Ascending(f)
  <2> SUFFICES ASSUME NEW i \in 1..(l - 1), NEW j \in 1..(l - 1), i < j PROVE f[i] < f[j]
    BY <1>2 DEF Ascending
  <2>1. e[i] < e[j]
    BY <1>1, <1>7 DEF Ascending
  <2> QED BY <1>2, <2>1
<1>12. Last(e) = e[l] /\ Front(e) = f
  BY DEF Last, Front, l, f
<1> QED BY <1>1, <1>2, <1>4, <1>8, <1>9, <1>10, <1>11, <1>12

\* A higher one can be linked.
LEMMA ChainAppend ==
  ASSUME NEW e \in Seq(Nat), Ascending(e), NEW n \in Nat, \A x \in Range(e) : x < n
  PROVE  /\ Append(e, n) \in Seq(Nat) /\ Ascending(Append(e, n))
         /\ Range(Append(e, n)) = Range(e) \cup {n}
<1> DEFINE l == Len(e)
           f == Append(e, n)
<1>1. l \in Nat /\ DOMAIN e = 1..l
  OBVIOUS
<1>2. f \in Seq(Nat) /\ DOMAIN f = 1..(l + 1) /\ f[l + 1] = n /\ \A i \in 1..l : f[i] = e[i]
  BY <1>1
<1> HIDE DEF f, l
<1>3. \A i \in 1..(l + 1) : i \in 1..l \/ i = l + 1
  BY <1>1
<1>4. \A x : x \in Range(f) <=> \E i \in 1..(l + 1) : x = f[i]
  BY <1>2 DEF Range
<1>5. \A x : x \in Range(e) <=> \E i \in 1..l : x = e[i]
  BY <1>1 DEF Range
<1>6. \A i \in 1..l : i \in 1..(l + 1)
  BY <1>1
<1>7. l + 1 \in 1..(l + 1)
  BY <1>1
<1>8. Range(f) = Range(e) \cup {n}
  BY <1>2, <1>3, <1>4, <1>5, <1>6, <1>7
<1>9. Ascending(f)
  <2> SUFFICES ASSUME NEW i \in 1..(l + 1), NEW j \in 1..(l + 1), i < j PROVE f[i] < f[j]
    BY <1>2 DEF Ascending
  <2>1. i \in 1..l
    BY <1>1
  <2>2. CASE j \in 1..l
    BY <1>1, <1>2, <2>1, <2>2 DEF Ascending
  <2>3. CASE j = l + 1
    BY <1>2, <1>5, <2>1, <2>3
  <2> QED BY <1>3, <2>2, <2>3
<1> QED BY <1>2, <1>8, <1>9 DEF f

\* Activations that hold a jump buffer: luaD_rawrunprotected.
IsBuffer(a) == a.op \in {"pcall", "resume"}

\* Thread t links buffer i, at the head of its list.
WithBuffer(e, t, i) == [e EXCEPT ![t] = Append(@, i)]
\* Thread t unlinks the head of its list.
WithoutBuffer(e, t) == [e EXCEPT ![t] = Front(@)]

\* Where the jump buffers of a thread are.
LEMMA BuffersBound ==
  ASSUME NEW s \in Seq(Activations), NEW t
  PROVE  \A i : i \in Buffers(s, t) <=> i \in 1..Len(s) /\ s[i].th = t /\ IsBuffer(s[i])
BY DEF Buffers, IsBuffer

\* Chained holds on when an activation is pushed,
LEMMA ChainedPush ==
  ASSUME NEW s \in Seq(Activations), NEW a \in Activations,
         NEW e \in [Threads -> Seq(Nat)], Chained(s, e),
         NEW e2, e2 = IF IsBuffer(a) THEN [e EXCEPT ![a.th] = Append(@, Len(s) + 1)] ELSE e
  PROVE  e2 \in [Threads -> Seq(Nat)] /\ Chained(Append(s, a), e2)
<1> DEFINE u == Append(s, a)
           l == Len(s)
<1>1. /\ u \in Seq(Activations) /\ Len(u) = l + 1 /\ l \in Nat /\ u[l + 1] = a
      /\ \A i \in 1..l : u[i] = s[i]
  BY Pushed
<1> HIDE DEF u
<1>2. ASSUME NEW t \in Threads
      PROVE Buffers(u, t) = IF a.th = t /\ IsBuffer(a) THEN Buffers(s, t) \cup {l + 1} ELSE Buffers(s, t)
  <2>1. \A i : i \in 1..(l + 1) <=> i \in 1..l \/ i = l + 1
    BY <1>1
  <2>2. l + 1 \notin 1..l
    BY <1>1
  <2>3. \A i : i \in Buffers(u, t) <=> i \in 1..(l + 1) /\ u[i].th = t /\ IsBuffer(u[i])
    BY <1>1, BuffersBound
  <2>4. \A i : i \in Buffers(s, t) <=> i \in 1..l /\ s[i].th = t /\ IsBuffer(s[i])
    BY BuffersBound
  <2> QED BY <1>1, <2>1, <2>2, <2>3, <2>4
<1>3. ASSUME NEW t \in Threads
      PROVE e2[t] \in Seq(Nat) /\ Ascending(e2[t]) /\ Range(e2[t]) = Buffers(u, t)
  <2>1. e[t] \in Seq(Nat) /\ Ascending(e[t]) /\ Range(e[t]) = Buffers(s, t)
    BY DEF Chained
  <2>2. CASE a.th = t /\ IsBuffer(a)
    <3>1. e2[t] = Append(e[t], l + 1)
      BY <2>2
    <3>2. \A x \in Range(e[t]) : x < l + 1
      BY <1>1, <2>1, BuffersBound
    <3>3. Buffers(u, t) = Buffers(s, t) \cup {l + 1} /\ l + 1 \in Nat
      BY <1>1, <1>2, <2>2
    <3>4. /\ Append(e[t], l + 1) \in Seq(Nat) /\ Ascending(Append(e[t], l + 1))
          /\ Range(Append(e[t], l + 1)) = Range(e[t]) \cup {l + 1}
      BY <2>1, <3>2, <3>3, ChainAppend
    <3> QED BY <2>1, <3>1, <3>3, <3>4
  <2>3. CASE ~ (a.th = t /\ IsBuffer(a))
    <3>1. e2[t] = e[t]
      BY <2>3
    <3> QED BY <1>2, <2>1, <2>3, <3>1
  <2> QED BY <2>2, <2>3
<1>4. DOMAIN e2 = Threads /\ e2 = [t \in Threads |-> e2[t]]
  OBVIOUS
<1> QED BY <1>3, <1>4 DEF Chained, u

\* and when activations without jump buffer are cut off.
LEMMA ChainedCut ==
  ASSUME NEW s \in Seq(Activations), NEW n \in 0..Len(s), NEW e, Chained(s, e),
         \A i \in (n + 1)..Len(s) : ~ IsBuffer(s[i])
  PROVE  Chained(SubSeq(s, 1, n), e)
<1> DEFINE u == SubSeq(s, 1, n)
<1>1. /\ u \in Seq(Activations) /\ Len(u) = n /\ n \in Nat /\ Len(s) \in Nat /\ n <= Len(s)
      /\ \A i \in 1..n : u[i] = s[i]
  BY Cut
<1> HIDE DEF u
<1>2. \A i : i \in 1..Len(s) <=> i \in 1..n \/ i \in (n + 1)..Len(s)
  BY <1>1
<1>3. ASSUME NEW t \in Threads PROVE Buffers(u, t) = Buffers(s, t)
  <2>1. \A i : i \in Buffers(u, t) <=> i \in 1..n /\ u[i].th = t /\ IsBuffer(u[i])
    BY <1>1, BuffersBound
  <2>2. \A i : i \in Buffers(s, t) <=> i \in 1..Len(s) /\ s[i].th = t /\ IsBuffer(s[i])
    BY BuffersBound
  <2> QED BY <1>1, <1>2, <2>1, <2>2
<1> QED BY <1>3 DEF Chained, u

\* The last buffer of the thread that runs is taken off with what lies above.
LEMMA ChainedPop ==
  ASSUME NEW s \in Seq(Activations), Stack(s), NEW t \in Threads, t = Holder(s),
         NEW e \in [Threads -> Seq(Nat)], Chained(s, e),
         NEW n \in 0..Len(s), n < Len(s), s[n + 1].th = t, IsBuffer(s[n + 1]),
         \A i \in (n + 2)..Len(s) : ~ IsBuffer(s[i]),
         NEW e2, e2 = [e EXCEPT ![t] = Front(e[t])]
  PROVE  e2 \in [Threads -> Seq(Nat)] /\ Chained(SubSeq(s, 1, n), e2)
<1> DEFINE u == SubSeq(s, 1, n)
<1>1. /\ u \in Seq(Activations) /\ Len(u) = n /\ n \in Nat /\ Len(s) \in Nat
      /\ \A i \in 1..n : u[i] = s[i]
  BY Cut
<1> HIDE DEF u
<1>2. \A i : i \in 1..Len(s) <=> i \in 1..n \/ i = n + 1 \/ i \in (n + 2)..Len(s)
  BY <1>1
<1>3. ASSUME NEW r \in Threads
      PROVE Buffers(u, r) = IF r = t THEN Buffers(s, r) \ {n + 1} ELSE Buffers(s, r)
  <2>1. n + 1 \notin 1..n
    BY <1>1
  <2>2. \A i : i \in Buffers(u, r) <=> i \in 1..n /\ u[i].th = r /\ IsBuffer(u[i])
    BY <1>1, BuffersBound
  <2>3. \A i : i \in Buffers(s, r) <=> i \in 1..Len(s) /\ s[i].th = r /\ IsBuffer(s[i])
    BY BuffersBound
  <2>4. ASSUME NEW i
        PROVE i \in Buffers(u, r) <=> i \in Buffers(s, r) /\ ~ (r = t /\ i = n + 1)
    <3>1. CASE i \in 1..n
      <4>1. i # n + 1 /\ u[i] = s[i] /\ i \in 1..Len(s)
        BY <1>1, <1>2, <2>1, <3>1
      <4> QED BY <2>2, <2>3, <3>1, <4>1
    <3>2. CASE i = n + 1
      <4>1. i \notin Buffers(u, r)
        BY <2>1, <2>2, <3>2
      <4>2. s[i].th = t
        BY <3>2
      <4>3. i \in Buffers(s, r) => r = t
        BY <2>3, <4>2
      <4> QED BY <3>2, <4>1, <4>3
    <3>3. CASE i \notin 1..n /\ i # n + 1
      BY <1>2, <2>2, <2>3, <3>3
    <3> QED BY <3>1, <3>2, <3>3
  <2> QED BY <2>4
<1>4. e[t] \in Seq(Nat) /\ Ascending(e[t]) /\ Range(e[t]) = Buffers(s, t)
  BY DEF Chained
<1>5. n + 1 \in Range(e[t]) /\ \A i \in Range(e[t]) : i <= n + 1
  <2>1. \A i : i \in Buffers(s, t) <=> i \in 1..Len(s) /\ s[i].th = t /\ IsBuffer(s[i])
    BY BuffersBound
  <2>2. \A i : i \in 1..n \/ i = n + 1 => i <= n + 1
    BY <1>1
  <2> QED BY <1>2, <1>4, <2>1, <2>2
<1>6. e[t] # <<>>
  BY <1>5 DEF Range
<1>7. Last(e[t]) = n + 1
  <2>1. Last(e[t]) \in Nat /\ Last(e[t]) <= n + 1 /\ n + 1 <= Last(e[t])
    BY <1>4, <1>5, <1>6, ChainTop
  <2> QED BY <1>1, <2>1
<1>8. Front(e[t]) \in Seq(Nat) /\ Ascending(Front(e[t])) /\ Range(Front(e[t])) = Buffers(s, t) \ {n + 1}
  BY <1>4, <1>6, <1>7, ChainTop
<1>9. e2 \in [Threads -> Seq(Nat)]
  BY <1>8
<1>10. ASSUME NEW r \in Threads PROVE Ascending(e2[r]) /\ Range(e2[r]) = Buffers(u, r)
  <2>1. CASE r = t
    BY <1>3, <1>8, <2>1
  <2>2. CASE r # t
    BY <1>3, <2>2 DEF Chained
  <2> QED BY <2>1, <2>2
<1> QED BY <1>9, <1>10 DEF Chained, u

-----------------------------------------------------------------------------
(* A C stack with what its threads believe: as an activation is pushed and *)
(* as activations are left.                                                *)

\* What World says of the running thread.
LEMMA WorldHolder ==
  ASSUME NEW s, NEW c, NEW k, NEW h, NEW b, NEW e, World(s, c, k, h, b, e)
  PROVE  /\ Holder(s) \in Threads /\ c[Holder(s)] \in Nat /\ k[Holder(s)] \in Nat
         /\ k[Holder(s)] = Depth(s, Len(s))
<1>1. s \in Seq(Activations) /\ Current(s, c, k, h) /\ Len(s) \in Nat
  BY DEF World
<1>2. Holder(s) \in Threads
  <2>1. CASE s = <<>>
    BY <2>1 DEF Holder, Threads
  <2>2. CASE s # <<>>
    <3>1. Len(s) \in 1..Len(s) /\ Holder(s) = s[Len(s)].th
      BY <1>1, <2>2 DEF Holder, Last
    <3> QED BY <1>1, <3>1, ThreadsType
  <2> QED BY <2>1, <2>2
<1>3. Depth(s, Len(s)) \in Nat /\ Cardinality(Frames(s, Holder(s), Len(s))) \in Nat
  <2>1. Len(s) \in 0..Len(s)
    BY <1>1
  <2> QED BY <1>1, <2>1, DepthType, FramesFinite
<1> QED BY <1>1, <1>2, <1>3 DEF Current, Fits

\* luaD_call, luaV_execute or a C function is entered.
LEMMA WorldPush ==
  ASSUME NEW s, NEW c, NEW k, NEW h, NEW b, NEW e, World(s, c, k, h, b, e), s # <<>>,
         NEW a \in Activations, a.op \in {"call", "execute", "function"}, a.th = Holder(s),
         s[Len(s)].op \in Callers(a),
         NEW c2, NEW k2, NEW h2, Others(a.th, c, k, h, c2, k2, h2),
         c2[a.th] = c[a.th] + Runs(a), k2[a.th] = k[a.th] + Counted(a), h2[a.th] = h[a.th]
  PROVE  World(Append(s, a), c2, k2, h2, b, e)
<1>1. /\ s \in Seq(Activations) /\ Stack(s)
      /\ Kept(s, c, k, h, b) /\ Current(s, c, k, h)
      /\ e \in [Threads -> Seq(Nat)] /\ Chained(s, e)
  BY DEF World
<1>2. Append(s, a) \in Seq(Activations) /\ Stack(Append(s, a))
  BY <1>1, StackPush
<1>3. Kept(Append(s, a), c2, k2, h2, b)
  BY <1>1, KeptPush
<1>4. Current(Append(s, a), c2, k2, h2)
  <2>1. c[a.th] \in Int /\ k[a.th] \in Int
    BY WorldHolder
  <2> QED BY <1>1, <2>1, CurrentPush
<1>5. Chained(Append(s, a), e)
  BY <1>1, ChainedPush DEF IsBuffer
<1> QED BY <1>1, <1>2, <1>3, <1>4, <1>5 DEF World

\* luaD_pcall saves what the thread believes.
LEMMA WorldPCall ==
  ASSUME NEW s, NEW c, NEW k, NEW h, NEW b, NEW e, World(s, c, k, h, b, e),
         NEW a \in Activations, a.op = "pcall", a.th = Holder(s),
         s # <<>> => s[Len(s)].op = "function",
         a.ci = c[a.th], a.nCcalls = k[a.th], a.errfunc = h[a.th], k[a.th] < MaxCCalls + Reserve,
         NEW h2, Others(a.th, c, k, h, c, k, h2), h2[a.th] = a.handler,
         NEW e2, e2 = WithBuffer(e, a.th, Len(s) + 1)
  PROVE  World(Append(s, a), c, k, h2, b, e2)
<1>1. /\ s \in Seq(Activations) /\ Stack(s)
      /\ Kept(s, c, k, h, b) /\ Current(s, c, k, h)
      /\ e \in [Threads -> Seq(Nat)] /\ Chained(s, e)
  BY DEF World
<1>2. Append(s, a) \in Seq(Activations) /\ Stack(Append(s, a))
  BY <1>1, StackPush DEF Callers, Holder
<1>3. Kept(Append(s, a), c, k, h2, b)
  <2>1. Fits(s, Len(s), a.th, a.ci, a.nCcalls, a.errfunc)
    BY <1>1 DEF Current
  <2> QED BY <1>1, <2>1, KeptPush
<1>4. Current(Append(s, a), c, k, h2)
  <2>1. c[a.th] \in Int /\ k[a.th] \in Int /\ Runs(a) = 0 /\ Counted(a) = 0
    BY WorldHolder DEF Runs, Counted
  <2>2. c[a.th] = c[a.th] + Runs(a) /\ k[a.th] = k[a.th] + Counted(a) /\ a.op # "resume"
    BY <2>1
  <2>3. h2[a.th] <=> IF a.op = "pcall" THEN a.handler ELSE h[a.th]
    OBVIOUS
  <2> QED BY <1>1, <2>1, <2>2, <2>3, CurrentPush
<1>5. e2 \in [Threads -> Seq(Nat)] /\ Chained(Append(s, a), e2)
  <2>1. e2 = IF IsBuffer(a) THEN WithBuffer(e, a.th, Len(s) + 1) ELSE e
    BY DEF IsBuffer, WithBuffer
  <2> QED BY <1>1, <2>1, ChainedPush DEF WithBuffer
<1> QED BY <1>1, <1>2, <1>3, <1>4, <1>5 DEF World

\* Only what the threads believe counts.
LEMMA WorldSame ==
  ASSUME NEW s, NEW c, NEW k, NEW h, NEW b, NEW e, World(s, c, k, h, b, e),
         NEW c2, \A u \in Threads : c2[u] = c[u]
  PROVE  World(s, c2, k, h, b, e)
<1>1. s \in Seq(Activations) /\ Stack(s) /\ Kept(s, c, k, h, b) /\ Current(s, c, k, h)
  BY DEF World
<1>2. Holder(s) \in Threads
  BY WorldHolder
<1>3. Others(Holder(s), c, k, h, c2, k, h) /\ Len(s) \in 0..Len(s) /\ SubSeq(s, 1, Len(s)) = s
  BY <1>1 DEF Others
<1>4. Kept(SubSeq(s, 1, Len(s)), c2, k, h, b)
  BY <1>1, <1>3, KeptCut
<1>5. Current(s, c2, k, h)
  BY <1>1, <1>2 DEF Current
<1> QED BY <1>3, <1>4, <1>5 DEF World

\* lua_resume of a thread that has no activation.
LEMMA WorldResume ==
  ASSUME NEW s, NEW c, NEW k, NEW h, NEW b, NEW e, World(s, c, k, h, b, e),
         s # <<>>, s[Len(s)].op = "function", k[Holder(s)] < MaxCCalls,
         NEW a \in Activations, a.op = "resume", ~ On(s, a.th),
         NEW c2, NEW k2, NEW h2, Others(a.th, c, k, h, c2, k2, h2),
         c2[a.th] = 0, k2[a.th] = k[Holder(s)] + 1, ~ h2[a.th],
         NEW b2, b2[a.th] = k[Holder(s)] + 1, \A t \in Threads \ {a.th} : b2[t] = b[t],
         NEW e2, e2 = WithBuffer(e, a.th, Len(s) + 1)
  PROVE  World(Append(s, a), c2, k2, h2, b2, e2)
<1>1. /\ s \in Seq(Activations) /\ Stack(s)
      /\ Kept(s, c, k, h, b) /\ Current(s, c, k, h)
      /\ e \in [Threads -> Seq(Nat)] /\ Chained(s, e)
  BY DEF World
<1>2. Append(s, a) \in Seq(Activations) /\ Stack(Append(s, a))
  BY <1>1, StackPush DEF Callers
<1>3. k[Holder(s)] = Depth(s, Len(s))
  BY WorldHolder
<1>4. Kept(Append(s, a), c2, k2, h2, b2)
  BY <1>1, <1>3, KeptResume
<1>5. Current(Append(s, a), c2, k2, h2)
  BY <1>1, <1>3, CurrentResume
<1>6. e2 \in [Threads -> Seq(Nat)] /\ Chained(Append(s, a), e2)
  BY <1>1, ChainedPush DEF IsBuffer, WithBuffer
<1> QED BY <1>1, <1>2, <1>4, <1>5, <1>6 DEF World

\* luaV_execute, a C function or luaD_call is left.
LEMMA WorldPop ==
  ASSUME NEW s, NEW c, NEW k, NEW h, NEW b, NEW e, World(s, c, k, h, b, e), s # <<>>,
         NEW a, a = s[Len(s)], a.op \in {"call", "execute", "function"},
         NEW c2, NEW k2, NEW h2, Others(a.th, c, k, h, c2, k2, h2),
         c2[a.th] = c[a.th] - Runs(a), k2[a.th] = k[a.th] - Counted(a), h2[a.th] = h[a.th]
  PROVE  /\ World(SubSeq(s, 1, Len(s) - 1), c2, k2, h2, b, e)
         /\ Holder(SubSeq(s, 1, Len(s) - 1)) = a.th
         /\ Len(s) >= 2 /\ s[Len(s) - 1].op \in Callers(a) /\ s[Len(s) - 1].th = a.th
<1> DEFINE l == Len(s)
           n == l - 1
           u == SubSeq(s, 1, n)
<1>1. /\ s \in Seq(Activations) /\ Stack(s)
      /\ Kept(s, c, k, h, b) /\ Current(s, c, k, h)
      /\ e \in [Threads -> Seq(Nat)] /\ Chained(s, e)
  BY DEF World
<1>2. l \in 1..l /\ l \in Nat /\ Holder(s) = a.th /\ a \in Activations
  BY <1>1 DEF Holder, Last
<1>3. l >= 2
  BY <1>1, <1>2 DEF Stack, Ordered
<1>4. n \in Nat /\ n \in 1..l /\ n \in 0..l /\ n + 1 = l /\ n # 0
  BY <1>2, <1>3
<1>5. s[n].op \in Callers(a)
  BY <1>1, <1>2, <1>3 DEF Stack, Ordered
<1>6. s[n].th = a.th
  <2>1. \A i \in (n + 1)..l : s[i].op # "resume"
    BY <1>2
  <2>2. n < l
    BY <1>2
  <2> HIDE DEF n
  <2>3. s[n].th = s[l].th
    BY <1>1, <1>2, <1>4, <2>1, <2>2 DEF Stack, Separated
  <2> QED BY <2>3
<1>7. Holder(u) = a.th
  BY <1>1, <1>4, <1>6, HolderCut
<1>8. u \in Seq(Activations) /\ Stack(u)
  BY <1>1, <1>4, Cut, StackCut
<1>9. Kept(u, c2, k2, h2, b)
  BY <1>1, <1>2, <1>4, KeptCut
<1>10. Current(u, c2, k2, h2)
  <2> DEFINE t == a.th
  <2>1. Fits(s, n + 1, t, c[t], k[t], h[t])
    BY <1>1, <1>2, <1>4 DEF Current
  <2>2. c[t] \in Nat /\ k[t] \in Nat /\ Runs(a) \in Nat /\ Counted(a) \in Nat
    BY <1>2, WorldHolder, RunsType DEF Counted
  <2>3. c2[t] \in Int /\ k2[t] \in Int /\ c2[t] + Runs(a) = c[t] /\ k2[t] + Counted(a) = k[t]
    BY <2>2
  <2>4. ~ Guards(s, t, n + 1)
    BY <1>4 DEF Guards
  <2>5. s[n + 1].th = t /\ s[n + 1] = a
    BY <1>4
  <2> HIDE DEF t, n
  <2>6. Fits(s, n, t, c2[t], k2[t], h2[t])
    <3>1. Fits(s, n + 1, t, c2[t] + (IF s[n + 1].th = t THEN Runs(s[n + 1]) ELSE 0),
               k2[t] + Counted(s[n + 1]), h2[t])
      BY <2>1, <2>3, <2>5 DEF t
    <3>2. n < Len(s)
      BY <1>2, <1>4
    <3> QED BY <1>1, <1>4, <2>3, <2>4, <3>1, <3>2, FitsStep
  <2>7. Len(u) = n /\ Agree(s, u, n)
    BY <1>1, <1>4, Cut DEF Agree
  <2>8. Fits(u, n, t, c2[t], k2[t], h2[t])
    BY <1>4, <2>6, <2>7, FitsAgrees
  <2> QED BY <1>7, <2>7, <2>8 DEF Current, t
<1>11. Chained(u, e)
  <2>1. \A i \in (n + 1)..Len(s) : ~ IsBuffer(s[i])
    BY <1>2 DEF IsBuffer
  <2> QED BY <1>1, <1>4, <2>1, ChainedCut
<1> QED BY <1>1, <1>3, <1>5, <1>6, <1>7, <1>8, <1>9, <1>10, <1>11 DEF World

\* luaD_pcall or lua_resume is left with all that lies above it.
LEMMA WorldUnwind ==
  ASSUME NEW s, NEW c, NEW k, NEW h, NEW b, NEW e, World(s, c, k, h, b, e),
         NEW n \in Nat, n < Len(s), NEW t, t = Holder(s),
         NEW a, a = s[n + 1], a.th = t, IsBuffer(a),
         \A i \in (n + 2)..Len(s) : ~ IsBuffer(s[i]),
         NEW c2, NEW k2, NEW h2, Others(t, c, k, h, c2, k2, h2),
         a.op = "pcall" => c2[t] = a.ci /\ k2[t] = a.nCcalls /\ h2[t] = a.errfunc,
         NEW e2, e2 = WithoutBuffer(e, t)
  PROVE  /\ World(SubSeq(s, 1, n), c2, k2, h2, b, e2)
         /\ k2[Holder(SubSeq(s, 1, n))] < MaxCCalls + Reserve
         /\ n # 0 => s[n].op = "function"
         /\ a.op = "pcall" => Holder(SubSeq(s, 1, n)) = t
         /\ a.op = "resume" => n # 0 /\ \A i \in 1..n : s[i].th # t
<1> DEFINE u == SubSeq(s, 1, n)
           l == Len(s)
<1>1. /\ s \in Seq(Activations) /\ Stack(s)
      /\ Kept(s, c, k, h, b) /\ Current(s, c, k, h)
      /\ e \in [Threads -> Seq(Nat)] /\ Chained(s, e)
  BY DEF World
<1>2. l \in Nat /\ n \in 0..l /\ n + 1 \in 1..l
  BY <1>1
<1>3. a \in Activations /\ t \in Threads /\ (a.op = "pcall" \/ a.op = "resume")
  BY <1>1, <1>2, ThreadsType DEF IsBuffer
<1>4. n # 0 => s[n].op = "function"
  <2> SUFFICES ASSUME n # 0 PROVE s[n].op = "function"
    OBVIOUS
  <2>1. n + 1 \in 2..l /\ n + 1 - 1 = n
    BY <1>2
  <2>2. s[n].op \in Callers(a)
    BY <1>1, <2>1 DEF Stack, Ordered
  <2> QED BY <1>3, <2>2 DEF Callers
<1>5. u \in Seq(Activations) /\ Stack(u) /\ Len(u) = n /\ Agree(s, u, n)
  BY <1>1, <1>2, Cut, StackCut DEF Agree
<1>6. Kept(u, c2, k2, h2, b)
  BY <1>1, <1>2, KeptCut
<1>7. e2 \in [Threads -> Seq(Nat)] /\ Chained(u, e2)
  BY <1>1, <1>2, <1>3, ChainedPop DEF WithoutBuffer
<1>8. Holder(u) = IF n = 0 THEN Main ELSE s[n].th
  BY <1>1, <1>2, HolderCut
<1> HIDE DEF u, l
<1>9. CASE a.op = "pcall"
  <2>1. Holder(u) = t
    <3>1. CASE n = 0
      <4>1. s # <<>>
        BY <3>1
      <4> QED BY <1>1, <1>8, <3>1, <4>1 DEF Stack, Ordered
    <3>2. CASE n # 0
      <4>1. n \in 1..Len(s) /\ n + 1 \in 1..Len(s) /\ n < n + 1
        BY <1>2, <3>2 DEF l
      <4>2. \A i \in (n + 1)..(n + 1) : s[i].op # "resume"
        BY <1>9
      <4>3. s[n].th = s[n + 1].th
        BY <1>1, <4>1, <4>2 DEF Stack, Separated
      <4> QED BY <1>8, <3>2, <4>3
    <3> QED BY <3>1, <3>2
  <2>2. Fits(s, n, t, a.ci, a.nCcalls, a.errfunc) /\ a.nCcalls < MaxCCalls + Reserve
    BY <1>1, <1>2, <1>9 DEF Kept, l
  <2>3. Fits(u, n, t, c2[t], k2[t], h2[t])
    BY <1>2, <1>5, <1>9, <2>2, FitsAgrees
  <2> QED BY <1>4, <1>5, <1>6, <1>7, <1>9, <2>1, <2>2, <2>3 DEF World, Current, u
<1>10. CASE a.op = "resume"
  <2>1. n + 1 \in 2..Len(s) /\ \A j \in (n + 1)..Len(s) : s[n].th # s[j].th
    <3>1. n + 1 \in 2..Len(s) /\ \A j \in (n + 1)..Len(s) : s[n + 1 - 1].th # s[j].th
      BY <1>1, <1>2, <1>10, ResumerBelow DEF l
    <3> QED BY <3>1
  <2> DEFINE r == s[n].th
  <2>2. n # 0 /\ r # t /\ r \in Threads /\ Holder(u) = r
    <3>1. n \in 1..Len(s) /\ n + 1 \in (n + 1)..Len(s)
      BY <1>2, <2>1 DEF l
    <3> QED BY <1>1, <1>8, <2>1, <3>1, ThreadsType
  <2>3. Fits(s, n, r, c[r], k[r], h[r]) /\ k[r] < MaxCCalls
    <3>1. n + 1 - 1 = n
      OBVIOUS
    <3> QED BY <1>1, <1>2, <1>10, <3>1 DEF Kept, l
  <2>4. c2[r] = c[r] /\ k2[r] = k[r] /\ h2[r] = h[r]
    BY <2>2 DEF Others
  <2>5. k2[r] < MaxCCalls + Reserve
    <3>1. k2[r] \in Nat
      BY <1>2, <2>3, <2>4, DepthType DEF Fits
    <3> QED BY <2>3, <2>4, <3>1, CallAssumption
  <2>6. \A i \in 1..n : s[i].th # t
    <3>1. \A i \in 1..n : i \in 1..Len(s) /\ n + 1 \in 1..Len(s) /\ i < n + 1 /\ n + 1 \in (i + 1)..(n + 1)
      BY <1>2 DEF l
    <3> QED BY <1>1, <1>10, <3>1 DEF Stack, Separated
  <2> HIDE DEF r
  <2>7. Fits(u, n, r, c2[r], k2[r], h2[r])
    BY <1>2, <1>5, <2>3, <2>4, FitsAgrees
  <2> QED BY <1>4, <1>5, <1>6, <1>7, <1>10, <2>2, <2>5, <2>6, <2>7 DEF World, Current, u
<1> QED BY <1>3, <1>9, <1>10

\* The protected call that is about to be left found what the thread believes
\* now, except for its handler.
LEMMA WorldGuard ==
  ASSUME NEW s, NEW c, NEW k, NEW h, NEW b, NEW e, World(s, c, k, h, b, e), s # <<>>,
         NEW a, a = s[Len(s)], a.op = "pcall"
  PROVE  a.th = Holder(s) /\ c[a.th] = a.ci /\ k[a.th] = a.nCcalls
<1> DEFINE n == Len(s) - 1
           t == a.th
<1>1. s \in Seq(Activations) /\ Kept(s, c, k, h, b) /\ Current(s, c, k, h)
  BY DEF World
<1>2. n \in Nat /\ n + 1 = Len(s) /\ n + 1 \in 1..Len(s) /\ n < Len(s)
  BY <1>1
<1>3. a \in Activations /\ t = Holder(s) /\ Runs(a) = 0 /\ Counted(a) = 0
  BY <1>1, <1>2 DEF Holder, Last, Runs, Counted
<1>4. Fits(s, n, t, a.ci, a.nCcalls, a.errfunc) /\ Fits(s, n + 1, t, c[t], k[t], h[t])
  BY <1>1, <1>2, <1>3 DEF Kept, Current
<1> HIDE DEF n
<1>5. Cardinality(Frames(s, t, n + 1)) = Cardinality(Frames(s, t, n)) + 0
  BY <1>1, <1>2, <1>3, FramesStep
<1>6. Depth(s, n + 1) = Depth(s, n) + 0 /\ Depth(s, n) \in Nat
  BY <1>2, <1>3, DepthStep, DepthType
<1>7. Cardinality(Frames(s, t, n)) \in Nat
  BY <1>1, <1>2, FramesFinite
<1> QED BY <1>3, <1>4, <1>5, <1>6, <1>7 DEF Fits

\* A coroutine whose lua_resume is the last buffer has no handler and counts
\* at least that C call.
LEMMA WorldUnhandled ==
  ASSUME NEW s, NEW c, NEW k, NEW h, NEW b, NEW e, World(s, c, k, h, b, e),
         NEW n \in Nat, n < Len(s), s[n + 1].th = Holder(s), s[n + 1].op = "resume",
         \A i \in (n + 2)..Len(s) : ~ IsBuffer(s[i])
  PROVE  ~ h[Holder(s)] /\ k[Holder(s)] >= 1
<1> DEFINE t == Holder(s)
           l == Len(s)
<1>1. s \in Seq(Activations) /\ Stack(s) /\ Current(s, c, k, h) /\ l \in Nat
  BY DEF World
<1>2. \A i \in 1..n : s[i].th # t
  <2>1. \A i \in 1..n : i \in 1..Len(s) /\ n + 1 \in 1..Len(s) /\ i < n + 1 /\ n + 1 \in (i + 1)..(n + 1)
    BY <1>1
  <2> QED BY <1>1, <2>1 DEF Stack, Separated
<1>3. \A i \in 1..l : i \in 1..n \/ i = n + 1 \/ i \in (n + 2)..l
  BY <1>1
<1>4. \A i \in 1..l : ~ Guards(s, t, i)
  BY <1>2, <1>3 DEF Guards, IsBuffer
<1>5. ~ Handled(s, t, l)
  BY <1>4 DEF Handled
<1>6. Depth(s, n + 1) = Depth(s, n) + 1 /\ Depth(s, n) \in Nat
  BY DepthStep, DepthType DEF Counted
<1>7. Depth(s, n + 1) <= Depth(s, l) /\ Depth(s, l) \in Nat
  <2>1. n + 1 \in Nat /\ n + 1 <= l
    BY <1>1
  <2> QED BY <1>1, <2>1, DepthGrows, DepthType
<1> HIDE DEF t
<1> QED BY <1>1, <1>5, <1>6, <1>7 DEF Current, Fits, t

-----------------------------------------------------------------------------
(* Which threads have activations, and what that says of coroutines.       *)

\* Who is on the stack after a push,
LEMMA OnPush ==
  ASSUME NEW s \in Seq(Activations), NEW a \in Activations, NEW t
  PROVE  On(Append(s, a), t) <=> On(s, t) \/ a.th = t
<1>1. \A i : i \in 1..(Len(s) + 1) <=> i \in 1..Len(s) \/ i = Len(s) + 1
  OBVIOUS
<1> QED BY <1>1, Pushed DEF On

\* after a cut within the activations of the running thread.
LEMMA OnCut ==
  ASSUME NEW s \in Seq(Activations), Stack(s), NEW n \in Nat, n < Len(s),
         s[n + 1].th = Holder(s), NEW t, t # Holder(s)
  PROVE  On(SubSeq(s, 1, n), t) <=> On(s, t)
<1> DEFINE u == SubSeq(s, 1, n)
<1>1. Len(u) = n /\ (\A i \in 1..n : u[i] = s[i]) /\ Len(s) \in Nat
  BY Cut
<1>2. \A i \in (n + 1)..Len(s) : s[i].th = Holder(s)
  BY HolderTop
<1>3. \A i : i \in 1..Len(s) <=> i \in 1..n \/ i \in (n + 1)..Len(s)
  BY <1>1
<1> HIDE DEF u
<1> QED BY <1>1, <1>2, <1>3 DEF On, u

\* The running thread is on the stack.
LEMMA OnHolder ==
  ASSUME NEW s \in Seq(Activations), s # <<>>
  PROVE  On(s, Holder(s))
<1>1. Len(s) \in 1..Len(s)
  OBVIOUS
<1> QED BY <1>1 DEF On, Holder, Last

\* SettledAt depends on nothing but what it mentions.
LEMMA SettledSame ==
  ASSUME NEW s, NEW c, NEW h, NEW st, NEW u, NEW c2, NEW h2, NEW st2, NEW co,
         SettledAt(s, c, h, st, co), On(u, co) <=> On(s, co),
         c2[co] = c[co], h2[co] = h[co], st2[co] = st[co]
  PROVE  SettledAt(u, c2, h2, st2, co)
BY DEF SettledAt

-----------------------------------------------------------------------------
(* The operations.                                                         *)

\* A thread has a number of CallInfos.
LEMMA CountsType ==
  ASSUME Sized
  PROVE  \A t \in Threads : Counts[t] = Len(ci[t]) /\ Counts[t] \in Nat
BY DEF Sized, Counts

\* inc_ci leaves room, or reports an error.
LEMMA SizedGrown ==
  ASSUME Sized, NEW t \in Threads, size' = [size EXCEPT ![t] = SizeGrown(t)]
  PROVE  /\ size' \in [Threads -> Nat] /\ CallError(t) \in Errors
         /\ \A u \in Threads : Len(ci[u]) < size'[u]
         /\ CallError(t) = "none" => Len(ci[t]) + 1 < size'[t]
<1>1. Len(ci[t]) \in Nat /\ size[t] \in Nat /\ Len(ci[t]) < size[t] /\ MaxCalls \in Nat
  BY CallAssumption DEF Sized
<1>2. SizeGrown(t) \in Nat /\ size[t] <= SizeGrown(t)
  BY <1>1 DEF SizeGrown, Full
<1>3. CallError(t) = "none" => Len(ci[t]) + 1 < SizeGrown(t)
  BY <1>1 DEF SizeGrown, Full, CallError
<1>4. size'[t] = SizeGrown(t) /\ \A u \in Threads \ {t} : size'[u] = size[u]
  BY DEF Sized
<1>5. \A u \in Threads : Len(ci[u]) < size'[u]
  BY <1>1, <1>2, <1>4 DEF Sized
<1>6. size' \in [Threads -> Nat]
  BY <1>2 DEF Sized
<1>7. CallError(t) \in Errors
  BY DEF CallError, Errors
<1> QED BY <1>3, <1>4, <1>5, <1>6, <1>7

\* luaD_precall: the function has a CallInfo, or an error is raised.
LEMMA PreCallStep ==
  ASSUME Sized, NEW t \in Threads, NEW f \in Kinds, NEW failed, NEW entered,
         PreCall(t, f, failed, entered)
  PROVE  /\ Sized' /\ err' \in Errors
         /\ \A u \in Threads \ {t} : Counts'[u] = Counts[u]
         /\ \/ err' = "none" /\ native' = entered /\ Counts'[t] = Counts[t] + 1
            \/ err' # "none" /\ native' = failed /\ Counts' = Counts
<1>1. /\ size' \in [Threads -> Nat] /\ CallError(t) \in Errors /\ err' = CallError(t)
      /\ \A u \in Threads : Len(ci[u]) < size'[u]
      /\ CallError(t) = "none" => Len(ci[t]) + 1 < size'[t]
  BY SizedGrown DEF PreCall
<1>2. CASE CallError(t) = "none"
  <2>1. ci' = [ci EXCEPT ![t] = Append(@, f)] /\ native' = entered
    BY <1>2 DEF PreCall
  <2>2. ci[t] \in Seq(Kinds)
    BY DEF Sized
  <2>3. Append(ci[t], f) \in Seq(Kinds) /\ Len(Append(ci[t], f)) = Len(ci[t]) + 1
    BY <2>2
  <2>4. ci' \in [Threads -> Seq(Kinds)] /\ ci'[t] = Append(ci[t], f)
        /\ \A u \in Threads \ {t} : ci'[u] = ci[u]
    BY <2>1, <2>3 DEF Sized
  <2>5. \A u \in Threads : Len(ci'[u]) < size'[u]
    BY <1>1, <1>2, <2>3, <2>4
  <2> QED BY <1>1, <1>2, <2>1, <2>3, <2>4, <2>5 DEF Sized, Counts
<1>3. CASE CallError(t) # "none"
  <2>1. ci' = ci /\ native' = failed
    BY <1>3 DEF PreCall
  <2> QED BY <1>1, <1>3, <2>1 DEF Sized, Counts
<1> QED BY <1>2, <1>3

\* The activations that operations push are activations.
LEMMA ActivationsType ==
  ASSUME NEW t \in Threads
  PROVE  /\ \A r \in BOOLEAN : Call(t, r) \in Activations
         /\ \A n \in Nat \ {0} : Execute(t, n) \in Activations
         /\ Function(t) \in Activations /\ Resumption(t) \in Activations
BY DEF Activations, Call, Execute, Function, Resumption

\* So is the body of a function, Lua or C.
LEMMA BodyType ==
  ASSUME NEW t \in Threads, NEW f
  PROVE  /\ Body(t, f) \in Activations /\ Body(t, f).th = t
         /\ Body(t, f).op \in {"execute", "function"} /\ "call" \in Callers(Body(t, f))
         /\ Runs(Body(t, f)) = 1 /\ Counted(Body(t, f)) = 0
<1>1. CASE f = "Lua"
  BY <1>1, ActivationsType DEF Body, Execute, Runs, Counted, Callers
<1>2. CASE f # "Lua"
  BY <1>2, ActivationsType DEF Body, Function, Runs, Counted, Callers
<1> QED BY <1>1, <1>2

\* luaD_call on the C stack below, where the thread has handler h and jump
\* buffers e.
LEMMA DCallStep ==
  ASSUME Sized, Limited, NEW below, NEW h, NEW e,
         World(below, Counts, nCcalls, h, base, e), below # <<>>,
         NEW t, t = Holder(below), nCcalls[t] < MaxCCalls + Reserve,
         NEW f \in Kinds, NEW raises \in BOOLEAN,
         below[Len(below)].op \in Callers(Call(t, raises)), DCall(t, f, below, raises)
  PROVE  /\ Sized' /\ Limited' /\ err' \in Errors
         /\ World(native', Counts', nCcalls', h, base, e)
         /\ native' # <<>> /\ native'[Len(native')].op # "pcall" /\ Holder(native') = t
         /\ nCcalls'[t] >= MaxCCalls + Reserve => err' = "throw"
         /\ \A u : On(native', u) <=> On(below, u)
         /\ Others(t, Counts, nCcalls, h, Counts', nCcalls', h)
<1> DEFINE d == nCcalls[t] + 1
           c == Call(t, raises)
           inner == Append(below, c)
<1>1. below \in Seq(Activations) /\ t \in Threads /\ nCcalls[t] \in Nat
  BY WorldHolder DEF World
<1>2. c \in Activations /\ c.op = "call" /\ c.th = t /\ Runs(c) = 0 /\ Counted(c) = 1
  BY <1>1, ActivationsType DEF Call, Runs, Counted
<1>3. nCcalls' = [nCcalls EXCEPT ![t] = d] /\ d \in 0..(MaxCCalls + Reserve)
  BY <1>1, CallAssumption DEF DCall
<1>4. Limited' /\ nCcalls'[t] = d /\ \A u \in Threads \ {t} : nCcalls'[u] = nCcalls[u]
  BY <1>1, <1>3 DEF Limited
<1>5. World(inner, Counts, nCcalls', h, base, e)
  <2>1. Others(t, Counts, nCcalls, h, Counts, nCcalls', h)
    BY <1>4 DEF Others
  <2>2. Counts[t] = Counts[t] + Runs(c) /\ nCcalls'[t] = nCcalls[t] + Counted(c)
    BY <1>1, <1>2, <1>4, CountsType
  <2> HIDE DEF c
  <2> QED BY <1>1, <1>2, <2>1, <2>2, WorldPush DEF c
<1>6. Holder(inner) = t /\ inner # <<>> /\ inner[Len(inner)] = c
      /\ \A u : On(inner, u) <=> On(below, u)
  <2>1. below # <<>> => On(below, t)
    BY <1>1, OnHolder
  <2> QED BY <1>1, <1>2, <2>1, HolderPush, Pushed, OnPush
<1>7. d < MaxCCalls + Reserve \/ OverflowError(d) = "throw"
  BY <1>3, CallAssumption DEF OverflowError
<1> HIDE DEF inner, c, d
<1>8. CASE OverflowError(d) # "none"
  <2>1. err' = OverflowError(d) /\ native' = inner /\ ci' = ci /\ size' = size
    BY <1>8 DEF DCall, inner, c, d
  <2>2. Sized' /\ Counts' = Counts
    BY <2>1 DEF Sized, Counts
  <2>3. err' \in Errors
    BY <2>1 DEF OverflowError, Errors
  <2>4. nCcalls'[t] >= MaxCCalls + Reserve => err' = "throw"
    BY <1>1, <1>4, <1>7, <2>1, CallAssumption DEF d
  <2> QED BY <1>2, <1>4, <1>5, <1>6, <2>1, <2>2, <2>3, <2>4 DEF Others
<1>9. CASE OverflowError(d) = "none"
  <2>1. PreCall(t, f, inner, Append(inner, Body(t, f)))
    BY <1>9 DEF DCall, inner, c, d
  <2>2. /\ Sized' /\ err' \in Errors
        /\ \A u \in Threads \ {t} : Counts'[u] = Counts[u]
        /\ \/ err' = "none" /\ native' = Append(inner, Body(t, f)) /\ Counts'[t] = Counts[t] + 1
           \/ err' # "none" /\ native' = inner /\ Counts' = Counts
    BY <1>1, <2>1, PreCallStep
  <2>3. ~ (nCcalls'[t] >= MaxCCalls + Reserve)
    BY <1>1, <1>4, <1>7, <1>9, CallAssumption DEF d
  <2>4. Others(t, Counts, nCcalls, h, Counts', nCcalls', h)
    BY <1>4, <2>2 DEF Others
  <2>5. CASE err' = "none"
    <3> DEFINE a == Body(t, f)
    <3>1. native' = Append(inner, a) /\ Counts'[t] = Counts[t] + 1
      BY <2>2, <2>5
    <3>2. /\ a \in Activations /\ a.th = t
          /\ a.op \in {"execute", "function"} /\ "call" \in Callers(a)
          /\ Runs(a) = 1 /\ Counted(a) = 0
      BY <1>1, BodyType
    <3> HIDE DEF a
    <3>3. Others(t, Counts, nCcalls', h, Counts', nCcalls', h)
      BY <2>2 DEF Others
    <3>4. nCcalls'[t] = nCcalls'[t] + Counted(a)
      BY <1>1, <1>4, <3>2 DEF d
    <3>5. World(native', Counts', nCcalls', h, base, e)
      BY <1>2, <1>5, <1>6, <3>1, <3>2, <3>3, <3>4, WorldPush
    <3>6. inner \in Seq(Activations) /\ On(below, t)
      BY <1>1, <1>5, OnHolder DEF World
    <3>7. native' # <<>> /\ native'[Len(native')] = a /\ Holder(native') = t
      BY <3>1, <3>2, <3>6, HolderPush, Pushed
    <3>8. \A u : On(native', u) <=> On(below, u)
      BY <1>6, <3>1, <3>2, <3>6, OnPush
    <3> QED BY <1>4, <2>2, <2>3, <2>4, <3>2, <3>5, <3>7, <3>8
  <2>6. CASE err' # "none"
    BY <1>2, <1>4, <1>5, <1>6, <2>2, <2>3, <2>4, <2>6
  <2> QED BY <2>5, <2>6
<1> QED BY <1>8, <1>9

\* luaV_execute goes on with another number of calls.
LEMMA ExecuteStep ==
  ASSUME World(native, Counts, nCcalls, errfunc, base, errorJmp), native # <<>>,
         NEW a, a = native[Len(native)], a.op = "execute",
         NEW x \in Activations, x.op = "execute", x.th = a.th,
         Others(a.th, Counts, nCcalls, errfunc, Counts', nCcalls, errfunc),
         Counts'[a.th] = Counts[a.th] - Runs(a) + Runs(x),
         native' = Append(Front(native), x)
  PROVE  /\ World(native', Counts', nCcalls, errfunc, base, errorJmp)
         /\ native' # <<>> /\ native'[Len(native')].op = "execute" /\ Holder(native') = a.th
         /\ \A t : On(native', t) <=> On(native, t)
<1> DEFINE f == SubSeq(native, 1, Len(native) - 1)
           t == a.th
           c1 == [v \in Threads |-> IF v = t THEN Counts[t] - Runs(a) ELSE Counts[v]]
<1>1. native \in Seq(Activations) /\ Len(native) \in 1..Len(native) /\ Len(native) \in Nat
  BY DEF World
<1>2. a \in Activations /\ t = Holder(native) /\ t \in Threads
  BY <1>1, ThreadsType DEF Holder, Last
<1>3. Runs(a) \in Nat /\ Counted(a) = 0
  BY <1>2, RunsType DEF Runs, Counted
<1>4. c1[t] = Counts[t] - Runs(a) /\ Others(t, Counts, nCcalls, errfunc, c1, nCcalls, errfunc) /\ nCcalls[t] = nCcalls[t] - Counted(a)
      /\ Counts[t] \in Nat
  BY <1>2, <1>3, WorldHolder DEF Others
<1>5. World(f, c1, nCcalls, errfunc, base, errorJmp) /\ Holder(f) = t
      /\ Len(native) >= 2 /\ native[Len(native) - 1].op \in Callers(a)
  <2>1. a.op \in {"call", "execute", "function"} /\ errfunc[a.th] = errfunc[a.th]
    OBVIOUS
  <2>2. c1[a.th] = Counts[a.th] - Runs(a) /\ Others(a.th, Counts, nCcalls, errfunc, c1, nCcalls, errfunc)
        /\ nCcalls[a.th] = nCcalls[a.th] - Counted(a)
    BY <1>4
  <2> HIDE DEF c1
  <2>3. /\ World(SubSeq(native, 1, Len(native) - 1), c1, nCcalls, errfunc, base, errorJmp)
        /\ Holder(SubSeq(native, 1, Len(native) - 1)) = a.th
        /\ Len(native) >= 2 /\ native[Len(native) - 1].op \in Callers(a)
    BY <2>1, <2>2, WorldPop
  <2> QED BY <2>3
<1>6. f \in Seq(Activations) /\ Len(f) = Len(native) - 1 /\ f # <<>> /\ f[Len(f)] = native[Len(native) - 1]
  <2> DEFINE n == Len(native) - 1
  <2>1. n \in 0..Len(native) /\ n \in 1..n
    BY <1>1, <1>5
  <2> HIDE DEF n
  <2>2. /\ SubSeq(native, 1, n) \in Seq(Activations) /\ Len(SubSeq(native, 1, n)) = n
        /\ \A i \in 1..n : SubSeq(native, 1, n)[i] = native[i]
    BY <1>1, <2>1, Cut
  <2>3. SubSeq(native, 1, n) # <<>>
    BY <2>1, <2>2
  <2> QED BY <2>1, <2>2, <2>3 DEF n, f
<1>7. x.th = t /\ Runs(x) \in Nat /\ Counted(x) = 0 /\ Callers(x) = Callers(a)
  BY RunsType DEF Counted, Callers
<1>8. native' = Append(f, x)
  BY DEF Front
<1>9. Others(t, c1, nCcalls, errfunc, Counts', nCcalls, errfunc)
  BY DEF Others
<1>10. Counts'[t] = c1[t] + Runs(x) /\ nCcalls[t] = nCcalls[t] + Counted(x)
  <2>1. nCcalls[t] \in Nat /\ Counts'[t] = Counts[t] - Runs(a) + Runs(x)
    BY <1>2, WorldHolder
  <2> HIDE DEF c1, t
  <2> QED BY <1>3, <1>4, <1>7, <2>1
<1> HIDE DEF f, c1
<1>11. World(native', Counts', nCcalls, errfunc, base, errorJmp)
  BY <1>5, <1>6, <1>7, <1>8, <1>9, <1>10, WorldPush
<1>12. native' # <<>> /\ native'[Len(native')] = x /\ Holder(native') = t
  BY <1>6, <1>7, <1>8, HolderPush, Pushed
<1>13. ASSUME NEW v PROVE On(native', v) <=> On(native, v)
  <2>1. On(native', v) <=> On(f, v) \/ v = t
    BY <1>6, <1>7, <1>8, OnPush
  <2>2. On(native, t)
    BY <1>1, <1>2, OnHolder
  <2>3. v # t => (On(f, v) <=> On(native, v))
    <3> DEFINE n == Len(native) - 1
    <3>1. n \in Nat /\ n < Len(native) /\ native[n + 1].th = Holder(native) /\ Stack(native)
      BY <1>1, <1>2 DEF World
    <3> HIDE DEF n
    <3>2. v # t => (On(SubSeq(native, 1, n), v) <=> On(native, v))
      BY <1>1, <1>2, <3>1, OnCut
    <3> QED BY <3>2 DEF n, f
  <2> QED BY <2>1, <2>2, <2>3
<1> QED BY <1>7, <1>11, <1>12, <1>13

\* The stack without its topmost activation.
LEMMA FrontFacts ==
  ASSUME NEW s \in Seq(Activations), s # <<>>
  PROVE  /\ Front(s) = SubSeq(s, 1, Len(s) - 1) /\ Front(s) \in Seq(Activations)
         /\ Len(Front(s)) = Len(s) - 1 /\ Len(Front(s)) \in Nat
         /\ Last(s) = s[Len(s)] /\ Last(s) \in Activations /\ Len(s) \in 1..Len(s)
         /\ Len(s) > 1 => Front(s) # <<>> /\ Last(Front(s)) = s[Len(s) - 1]
<1> DEFINE n == Len(s) - 1
<1>1. n \in Nat /\ n \in 0..Len(s) /\ n + 1 = Len(s) /\ Len(s) \in 1..Len(s)
  OBVIOUS
<1> HIDE DEF n
<1>2. Len(SubSeq(s, 1, n)) = n /\ SubSeq(s, 1, n) \in Seq(Activations)
      /\ \A i \in 1..n : SubSeq(s, 1, n)[i] = s[i]
  BY <1>1, Cut
<1>3. n > 0 => SubSeq(s, 1, n) # <<>> /\ SubSeq(s, 1, n)[n] = s[n]
  BY <1>1, <1>2
<1> QED BY <1>1, <1>2, <1>3 DEF n, Front, Last

\* A thread that is resumed runs nothing yet.
LEMMA WorldResumed ==
  ASSUME NEW s, NEW c, NEW k, NEW h, NEW b, NEW e, World(s, c, k, h, b, e), s # <<>>,
         Last(s).op = "resume"
  PROVE  c[Holder(s)] = 0
<1> DEFINE n == Len(s) - 1
           t == Holder(s)
<1>1. s \in Seq(Activations) /\ Stack(s) /\ Current(s, c, k, h)
  BY DEF World
<1>2. n \in Nat /\ n + 1 = Len(s) /\ n < Len(s) /\ s[n + 1].th = t /\ s[n + 1].op = "resume"
  BY <1>1 DEF Holder, Last
<1> HIDE DEF n, t
<1>3. \A i \in 1..n : s[i].th # t
  <2>1. \A i \in 1..n : i \in 1..Len(s) /\ n + 1 \in 1..Len(s) /\ i < n + 1 /\ n + 1 \in (i + 1)..(n + 1)
    BY <1>2
  <2> QED BY <1>1, <1>2, <2>1 DEF Stack, Separated
<1>4. Frames(s, t, n) = Frames(s, t, 0)
  BY <1>2, <1>3, FitsAbove
<1>5. Cardinality(Frames(s, t, 0)) = 0
  BY EmptyStack DEF Fits
<1>6. Cardinality(Frames(s, t, n + 1)) = Cardinality(Frames(s, t, n)) + 0
  BY <1>1, <1>2, FramesStep DEF Runs
<1> QED BY <1>1, <1>2, <1>4, <1>5, <1>6 DEF Current, Fits, t

\* What a thread has below it when the function that it ran is left.
LEMMA LeaveStep ==
  ASSUME Sized', Limited, NEW s, NEW c, World(s, c, nCcalls, errfunc, base, errorJmp), s # <<>>,
         s[Len(s)].op \in {"call", "execute", "resume"},
         NEW t, t = Holder(s), nCcalls[t] < MaxCCalls + Reserve, err = "none",
         errfunc \in [Threads -> BOOLEAN],
         Others(t, c, nCcalls, errfunc, Counts', nCcalls, errfunc),
         Last(s).op # "resume" => c[t] = Counts'[t],
         Leave(t, s),
         NEW st2, Settled(s, c, errfunc, status),
         \A co \in Coroutines \ {t} : st2[co] = status[co],
         Last(s).op # "resume" => \A co \in Coroutines : st2[co] = status[co],
         Last(s).op = "resume" =>
           (st2[t] = "ok" /\ Counts'[t] = 0) \/ (st2[t] = "yield" /\ Counts'[t] >= 2)
  PROVE  /\ World(native', Counts', nCcalls', errfunc', base, errorJmp')
         /\ Limited' /\ err' \in Errors
         /\ errfunc' \in [Threads -> BOOLEAN]
         /\ native' # <<>> => native'[Len(native')].op # "pcall"
         /\ err' # "none" => native' # <<>>
         /\ nCcalls'[Holder(native')] < MaxCCalls + Reserve
         /\ Settled(native', Counts', errfunc', st2)
<1> DEFINE l == Len(s)
           a == s[l]
           outer == Front(s)
<1>1. s \in Seq(Activations) /\ Stack(s) /\ errorJmp \in [Threads -> Seq(Nat)]
  BY DEF World
<1>2. /\ outer = SubSeq(s, 1, l - 1) /\ outer \in Seq(Activations) /\ Len(outer) = l - 1
      /\ Last(s) = a /\ a \in Activations /\ l \in 1..l /\ l - 1 \in Nat /\ l \in Nat
      /\ l > 1 => outer # <<>> /\ Last(outer) = s[l - 1]
  BY <1>1, FrontFacts
<1>3. t \in Threads /\ a.th = t /\ nCcalls[t] \in Nat
  BY <1>2, WorldHolder DEF Holder
<1> HIDE DEF outer, l, a
<1>4. CASE a.op = "resume"
  <2>1. /\ native' = outer /\ nCcalls' = [nCcalls EXCEPT ![t] = @ - 1]
        /\ errorJmp' = WithoutBuffer(errorJmp, t)
        /\ errfunc' = errfunc /\ err' = err
    BY <1>2, <1>4 DEF Leave, OuterJmp, outer, WithoutBuffer
  <2> DEFINE n == l - 1
  <2>2. n \in Nat /\ n < Len(s) /\ n + 1 = Len(s) /\ a = s[n + 1] /\ IsBuffer(a)
        /\ \A i \in (n + 2)..Len(s) : ~ IsBuffer(s[i])
    BY <1>2, <1>4 DEF l, a, IsBuffer
  <2> HIDE DEF n
  <2>3. ~ errfunc[t] /\ nCcalls[t] >= 1
    BY <1>3, <1>4, <2>2, WorldUnhandled
  <2>4. Limited' /\ \A u \in Threads \ {t} : nCcalls'[u] = nCcalls[u]
    <3>1. nCcalls[t] - 1 \in 0..(MaxCCalls + Reserve)
      BY <1>3, <2>3, CallAssumption
    <3> QED BY <1>3, <2>1, <3>1 DEF Limited
  <2>5. Others(t, c, nCcalls, errfunc, Counts', nCcalls', errfunc')
    BY <2>1, <2>4 DEF Others
  <2>6. /\ World(SubSeq(s, 1, n), Counts', nCcalls', errfunc', base, errorJmp')
        /\ nCcalls'[Holder(SubSeq(s, 1, n))] < MaxCCalls + Reserve
        /\ n # 0 => s[n].op = "function"
        /\ n # 0 /\ \A i \in 1..n : s[i].th # t
    <3>1. a.op = "pcall" => Counts'[t] = a.ci /\ nCcalls'[t] = a.nCcalls /\ errfunc'[t] = a.errfunc
      BY <1>4
    <3>2. /\ World(s, c, nCcalls, errfunc, base, errorJmp)
          /\ n \in Nat /\ n < Len(s) /\ t = Holder(s) /\ a = s[n + 1] /\ a.th = t /\ IsBuffer(a)
          /\ \A i \in (n + 2)..Len(s) : ~ IsBuffer(s[i])
      BY <1>3, <2>2
    <3>3. errorJmp' = WithoutBuffer(errorJmp, t)
      BY <2>1
    <3>4. World(SubSeq(s, 1, n), Counts', nCcalls', errfunc', base, errorJmp')
      BY <2>5, <3>1, <3>2, <3>3, WorldUnwind
    <3>5. nCcalls'[Holder(SubSeq(s, 1, n))] < MaxCCalls + Reserve
      BY <2>5, <3>1, <3>2, <3>3, WorldUnwind
    <3>6. (n # 0 => s[n].op = "function") /\ n # 0 /\ \A i \in 1..n : s[i].th # t
      BY <1>4, <2>5, <3>1, <3>2, <3>3, WorldUnwind
    <3> QED BY <3>4, <3>5, <3>6
  <2>7. native' = SubSeq(s, 1, n)
    BY <1>2, <2>1 DEF n
  <2>8. native'[Len(native')].op # "pcall" /\ (\A i \in 1..n : native'[i] = s[i]) /\ Len(native') = n
    <3>1. n \in 0..Len(s) /\ n \in 1..n
      BY <2>2, <2>6
    <3>2. Len(SubSeq(s, 1, n)) = n /\ \A i \in 1..n : SubSeq(s, 1, n)[i] = s[i]
      BY <1>1, <3>1, Cut
    <3> QED BY <2>6, <2>7, <3>1, <3>2
  <2>9. Settled(native', Counts', errfunc', st2)
    <3>1. ~ On(native', t)
      BY <2>6, <2>8 DEF On
    <3>2. \A u : u # t => (On(native', u) <=> On(s, u))
      BY <1>1, <1>3, <2>2, <2>7, OnCut
    <3>3. SettledAt(native', Counts', errfunc', st2, t)
      BY <1>2, <1>4, <2>1, <2>3, <3>1 DEF SettledAt
    <3>4. ASSUME NEW co \in Coroutines, co # t PROVE SettledAt(native', Counts', errfunc', st2, co)
      <4>1. SettledAt(s, c, errfunc, status, co) /\ st2[co] = status[co] /\ co \in Threads \ {t}
        BY <3>4 DEF Settled, Threads
      <4> QED BY <2>5, <3>2, <3>4, <4>1, SettledSame DEF Others
    <3> QED BY <3>3, <3>4 DEF Settled
  <2> QED BY <2>1, <2>4, <2>6, <2>7, <2>8, <2>9 DEF Errors
<1>5. CASE a.op = "call"
  <2> DEFINE n == l - 2
             g == s[l - 1]
  <2>1. /\ nCcalls' = [nCcalls EXCEPT ![t] = @ - 1]
        /\ err' = IF a.raises THEN "throw" ELSE "none"
    BY <1>2, <1>5 DEF Leave
  <2>2. nCcalls'[t] = nCcalls[t] - 1 /\ \A u \in Threads \ {t} : nCcalls'[u] = nCcalls[u]
    BY <1>3, <2>1 DEF Limited
  <2>3. Runs(a) = 0 /\ Counted(a) = 1 /\ a.op \in {"call", "execute", "function"}
        /\ a.op # "resume"
    BY <1>5 DEF Runs, Counted
  <2>4. Counts'[t] = c[t] - Runs(a) /\ nCcalls'[t] = nCcalls[t] - Counted(a)
        /\ Others(t, c, nCcalls, errfunc, Counts', nCcalls', errfunc)
    <3>1. c[t] \in Nat /\ c[t] = Counts'[t]
      BY <1>2, <2>3, WorldHolder
    <3> QED BY <2>2, <2>3, <3>1 DEF Others
  <2>5. /\ World(outer, Counts', nCcalls', errfunc, base, errorJmp) /\ Holder(outer) = t
        /\ l >= 2 /\ g.op \in Callers(a) /\ g.th = t
    BY <1>2, <1>3, <2>3, <2>4, WorldPop DEF a, l
  <2>6. outer # <<>> /\ Last(outer) = g /\ nCcalls'[t] \in Nat
    BY <1>2, <2>5, WorldHolder
  <2>7. Limited' /\ nCcalls'[t] < MaxCCalls + Reserve
    BY <1>3, <2>1, <2>2, <2>6, CallAssumption DEF Limited
  <2>8. \A u \in Coroutines : On(outer, u) <=> On(s, u)
    <3> DEFINE m == l - 1
    <3>1. m \in Nat /\ m < Len(s) /\ s[m + 1].th = Holder(s)
      BY <1>2, <1>3 DEF l, a
    <3> HIDE DEF m
    <3>2. \A u : u # t => (On(SubSeq(s, 1, m), u) <=> On(s, u))
      BY <1>1, <3>1, OnCut
    <3>3. On(outer, t) /\ On(s, t)
      BY <1>1, <1>2, <2>5, <2>6, OnHolder
    <3> QED BY <1>2, <3>2, <3>3 DEF m
  <2> HIDE DEF n, g
  <2>9. CASE g.op = "pcall"
    <3>1. /\ native' = Front(outer) /\ errorJmp' = WithoutBuffer(errorJmp, t)
          /\ errfunc' = [errfunc EXCEPT ![t] = g.errfunc]
      BY <1>2, <1>5, <2>6, <2>9 DEF Leave, OuterJmp, OldHandler, outer, WithoutBuffer
    <3>2. err' = "none"
      <4>1. ~ a.raises
        BY <1>5, <2>5, <2>9 DEF Callers
      <4> QED BY <2>1, <4>1
    <3>3. /\ n \in Nat /\ n < Len(outer) /\ n + 1 = Len(outer) /\ g = outer[n + 1] /\ IsBuffer(g)
          /\ \A i \in (n + 2)..Len(outer) : ~ IsBuffer(outer[i])
      BY <1>2, <2>5, <2>6, <2>9 DEF n, IsBuffer, Last
    <3>4. Counts'[t] = g.ci /\ nCcalls'[t] = g.nCcalls
      <4>1. g = outer[Len(outer)]
        BY <3>3
      <4> QED BY <2>5, <2>6, <2>9, <4>1, WorldGuard
    <3>5. errfunc'[t] = g.errfunc /\ errfunc' \in [Threads -> BOOLEAN]
          /\ \A u \in Threads \ {t} : errfunc'[u] = errfunc[u]
      <4>1. g \in Activations
        BY <1>1, <1>2, <2>5 DEF g
      <4>2. g.errfunc \in BOOLEAN
        BY <2>9, <4>1 DEF Activations
      <4> QED BY <1>3, <3>1, <4>2
    <3>7. Others(t, Counts', nCcalls', errfunc, Counts', nCcalls', errfunc')
      BY <3>5 DEF Others
    <3>8. g.op = "pcall" => Counts'[t] = g.ci /\ nCcalls'[t] = g.nCcalls /\ errfunc'[t] = g.errfunc
      BY <3>4, <3>5
    <3>9. errorJmp' = WithoutBuffer(errorJmp, t) /\ t = Holder(outer) /\ g.th = t
      BY <2>5, <3>1
    <3>10. /\ World(SubSeq(outer, 1, n), Counts', nCcalls', errfunc', base, errorJmp')
           /\ nCcalls'[Holder(SubSeq(outer, 1, n))] < MaxCCalls + Reserve
           /\ n # 0 => outer[n].op = "function"
           /\ Holder(SubSeq(outer, 1, n)) = t
      BY <2>5, <2>9, <3>3, <3>7, <3>8, <3>9, WorldUnwind
    <3>11. native' = SubSeq(outer, 1, n) /\ n \in 0..Len(outer)
      BY <1>2, <2>5, <3>1, <3>3 DEF Front
    <3>12. Len(native') = n /\ native' \in Seq(Activations) /\ \A i \in 1..n : native'[i] = outer[i]
      BY <1>2, <3>11, Cut
    <3>13. native' # <<>> => native'[Len(native')].op # "pcall"
      <4>1. native' # <<>> => n # 0 /\ n \in 1..n
        BY <3>3, <3>12
      <4> QED BY <3>10, <3>12, <4>1
    <3>14. Settled(native', Counts', errfunc', st2)
      <4>1. ASSUME t \in Coroutines PROVE On(native', t) /\ On(s, t)
        <5>1. native' # <<>>
          BY <3>10, <3>11, <4>1, CallAssumption DEF Holder
        <5> QED BY <1>1, <3>10, <3>11, <3>12, <5>1, OnHolder
      <4>2. \A u : u # t => (On(native', u) <=> On(outer, u))
        <5>1. Stack(outer)
          BY <2>5 DEF World
        <5> QED BY <1>2, <2>5, <3>3, <3>11, <5>1, OnCut
      <4>3. t \in Coroutines => SettledAt(native', Counts', errfunc', st2, t)
        BY <1>2, <2>3, <4>1 DEF Settled, SettledAt
      <4>4. Others(t, c, nCcalls, errfunc, Counts', nCcalls', errfunc')
        BY <2>4, <3>7 DEF Others
      <4>5. ASSUME NEW co \in Coroutines, co # t PROVE SettledAt(native', Counts', errfunc', st2, co)
        <5>1. SettledAt(s, c, errfunc, status, co) /\ st2[co] = status[co] /\ co \in Threads \ {t}
          BY <4>5 DEF Settled, Threads
        <5>2. On(native', co) <=> On(s, co)
          BY <2>8, <4>2, <4>5
        <5> QED BY <4>4, <5>1, <5>2, SettledSame DEF Others
      <4> QED BY <4>3, <4>5 DEF Settled
    <3> QED BY <2>7, <3>2, <3>5, <3>10, <3>11, <3>13, <3>14 DEF Errors
  <2>10. CASE g.op # "pcall"
    <3>1. native' = outer /\ errorJmp' = errorJmp /\ errfunc' = errfunc
      BY <1>2, <1>5, <2>6, <2>10 DEF Leave, outer
    <3>2. native' # <<>> /\ native'[Len(native')].op # "pcall" /\ Holder(native') = t
      BY <2>5, <2>6, <2>10, <3>1 DEF Last
    <3>3. Settled(native', Counts', errfunc', st2)
      <4>1. t \in Coroutines => SettledAt(native', Counts', errfunc', st2, t)
        <5>1. On(outer, t) /\ On(s, t)
          BY <1>1, <1>2, <2>5, <2>6, OnHolder
        <5> QED BY <1>2, <2>3, <3>1, <5>1 DEF Settled, SettledAt
      <4>2. Others(t, c, nCcalls, errfunc, Counts', nCcalls', errfunc')
        BY <2>4, <3>1
      <4>3. ASSUME NEW co \in Coroutines, co # t PROVE SettledAt(native', Counts', errfunc', st2, co)
        <5>1. SettledAt(s, c, errfunc, status, co) /\ st2[co] = status[co] /\ co \in Threads \ {t}
          BY <4>3 DEF Settled, Threads
        <5>2. On(native', co) <=> On(s, co)
          BY <2>8, <3>1
        <5> QED BY <4>2, <5>1, <5>2, SettledSame DEF Others
      <4> QED BY <4>1, <4>3 DEF Settled
    <3> QED BY <2>1, <2>5, <2>7, <3>1, <3>2, <3>3 DEF Errors
  <2> QED BY <2>9, <2>10
<1>6. CASE a.op = "execute"
  <2>1. native' = s /\ nCcalls' = nCcalls /\ errorJmp' = errorJmp /\ errfunc' = errfunc /\ err' = err
    BY <1>2, <1>6 DEF Leave
  <2>2. c[t] = Counts'[t] /\ \A u \in Threads \ {t} : Counts'[u] = c[u]
    BY <1>2, <1>6 DEF Others
  <2>3. World(s, Counts', nCcalls, errfunc, base, errorJmp)
    <3>1. \A u \in Threads : Counts'[u] = c[u]
      BY <2>2
    <3> QED BY <3>1, WorldSame
  <2>4. Settled(s, Counts', errfunc, st2)
    <3> SUFFICES ASSUME NEW co \in Coroutines PROVE SettledAt(s, Counts', errfunc, st2, co)
      BY DEF Settled
    <3>1. SettledAt(s, c, errfunc, status, co) /\ st2[co] = status[co] /\ Counts'[co] = c[co]
      BY <1>2, <1>6, <2>2 DEF Settled, Threads
    <3> QED BY <3>1, SettledSame
  <2>5. Limited' /\ native'[Len(native')].op # "pcall"
    BY <1>6, <2>1 DEF Limited, a, l
  <2> QED BY <2>1, <2>3, <2>4, <2>5 DEF Errors
<1> QED BY <1>4, <1>5, <1>6 DEF a, l

-----------------------------------------------------------------------------
(* Every step keeps the invariant.                                         *)

\* What the invariant says of the running thread.
LEMMA RunningFacts ==
  ASSUME CallInv
  PROVE  /\ native \in Seq(Activations) /\ Stack(native) /\ Running \in Threads
         /\ Counts[Running] = Len(ci[Running]) /\ Counts[Running] \in Nat
         /\ nCcalls[Running] \in Nat /\ nCcalls[Running] = Depth(native, Len(native))
         /\ Counts[Running] = Cardinality(Frames(native, Running, Len(native)))
         /\ native # <<>> => /\ Running = native[Len(native)].th /\ On(native, Running)
                             /\ Last(native) = native[Len(native)]
                             /\ Last(native) \in Activations
         /\ err # "throw" => nCcalls[Running] < MaxCCalls + Reserve
<1>1. native \in Seq(Activations) /\ Stack(native) /\ Current(native, Counts, nCcalls, errfunc)
  BY DEF CallInv, World
<1>2. Running \in Threads /\ nCcalls[Running] \in Nat /\ Counts[Running] \in Nat
      /\ nCcalls[Running] = Depth(native, Len(native))
  BY WorldHolder DEF CallInv, Running
<1>3. Counts[Running] = Cardinality(Frames(native, Running, Len(native)))
  BY <1>1 DEF Current, Fits, Running
<1>4. Counts[Running] = Len(ci[Running])
  BY <1>2 DEF Counts
<1>5. native # <<>> => /\ Running = native[Len(native)].th /\ On(native, Running)
                       /\ Last(native) = native[Len(native)] /\ Last(native) \in Activations
  BY <1>1, FrontFacts, OnHolder DEF Running, Holder
<1>6. err # "throw" => nCcalls[Running] < MaxCCalls + Reserve
  BY <1>2, CallAssumption DEF CallInv, Raised
<1> QED BY <1>1, <1>2, <1>3, <1>4, <1>5, <1>6

\* The thread that runs goes on running, with activations as before.
LEMMA SettledRunning ==
  ASSUME CallInv, NEW t, t = Running,
         \A co \in Coroutines : On(native', co) <=> On(native, co),
         status' = status, \A co \in Coroutines \ {t} : errfunc'[co] = errfunc[co],
         \A u \in Threads \ {t} : Counts'[u] = Counts[u]
  PROVE  Settled(native', Counts', errfunc', status')
<1> SUFFICES ASSUME NEW co \in Coroutines PROVE SettledAt(native', Counts', errfunc', status', co)
  BY DEF Settled
<1>1. SettledAt(native, Counts, errfunc, status, co)
  BY DEF CallInv, Settled
<1>2. CASE co = t
  <2>1. native # <<>>
    BY <1>2, CallAssumption DEF Running, Holder
  <2>2. On(native, co)
    BY <1>2, <2>1, RunningFacts
  <2> QED BY <1>1, <2>2 DEF SettledAt
<1>3. CASE co # t
  <2>1. Counts'[co] = Counts[co] /\ errfunc'[co] = errfunc[co]
    BY <1>3 DEF Threads
  <2> QED BY <1>1, <2>1, SettledSame
<1> QED BY <1>2, <1>3

\* A call from Lua code keeps the invariant.
LEMMA CallFromLuaStep ==
  ASSUME CallInv, NEW f \in Kinds, CallFromLua(f)
  PROVE  CallInv'
<1> DEFINE t == Running
           a == Last(native)
           entered == IF f = "Lua" THEN Append(Front(native), Execute(t, a.n + 1))
                      ELSE Append(native, Function(t))
<1>1. /\ err = "none" /\ native # <<>> /\ a.op = "execute"
      /\ PreCall(t, f, native, entered)
      /\ UNCHANGED <<nCcalls, base, status, errorJmp, errfunc, fresh>>
  BY DEF CallFromLua, AtTop
<1>2. /\ native \in Seq(Activations) /\ t \in Threads /\ Counts[t] \in Nat /\ nCcalls[t] \in Nat
      /\ t = native[Len(native)].th /\ a = native[Len(native)] /\ a \in Activations
      /\ nCcalls[t] < MaxCCalls + Reserve
  BY <1>1, RunningFacts
<1> HIDE DEF entered, t, a
<1>3. /\ Sized' /\ err' \in Errors
      /\ \A u \in Threads \ {t} : Counts'[u] = Counts[u]
      /\ \/ err' = "none" /\ native' = entered /\ Counts'[t] = Counts[t] + 1
         \/ err' # "none" /\ native' = native /\ Counts' = Counts
  BY <1>1, <1>2, PreCallStep DEF CallInv
<1>4. World(native, Counts, nCcalls, errfunc, base, errorJmp) /\ t = Holder(native)
  BY DEF CallInv, t, Running
<1>5. /\ World(native', Counts', nCcalls, errfunc, base, errorJmp)
      /\ native' # <<>> /\ native'[Len(native')].op # "pcall" /\ Holder(native') = t
      /\ \A u : On(native', u) <=> On(native, u)
  <2>1. CASE err' # "none"
    BY <1>1, <1>2, <1>3, <1>4, <2>1
  <2>2. CASE err' = "none" /\ f = "Lua"
    <3> DEFINE x == Execute(t, a.n + 1)
    <3>1. native' = Append(Front(native), x) /\ Counts'[t] = Counts[t] + 1
      BY <1>3, <2>2 DEF entered
    <3>2. Runs(a) = a.n /\ a.n \in Nat
      BY <1>1, <1>2, RunsType DEF Runs
    <3>3. x \in Activations /\ x.op = "execute" /\ x.th = t /\ Runs(x) = a.n + 1
      <4>1. a.n + 1 \in Nat \ {0}
        BY <3>2
      <4> QED BY <1>2, <4>1, ActivationsType DEF Execute, Runs
    <3>4. Counts'[t] = Counts[t] - Runs(a) + Runs(x)
      BY <1>2, <3>1, <3>2, <3>3
    <3>5. Others(t, Counts, nCcalls, errfunc, Counts', nCcalls, errfunc)
      BY <1>3 DEF Others
    <3> HIDE DEF x
    <3>6. /\ native # <<>> /\ a = native[Len(native)] /\ a.op = "execute"
          /\ x \in Activations /\ x.op = "execute" /\ x.th = a.th
          /\ Others(a.th, Counts, nCcalls, errfunc, Counts', nCcalls, errfunc)
          /\ Counts'[a.th] = Counts[a.th] - Runs(a) + Runs(x)
          /\ native' = Append(Front(native), x) /\ a.th = t
      BY <1>1, <1>2, <3>1, <3>3, <3>4, <3>5
    <3>7. World(native', Counts', nCcalls, errfunc, base, errorJmp)
      BY <1>4, <3>6, ExecuteStep
    <3>8. native' # <<>> /\ native'[Len(native')].op = "execute" /\ Holder(native') = a.th
      BY <1>4, <3>6, ExecuteStep
    <3>9. \A u : On(native', u) <=> On(native, u)
      BY <1>4, <3>6, ExecuteStep
    <3> QED BY <3>6, <3>7, <3>8, <3>9
  <2>3. CASE err' = "none" /\ f # "Lua"
    <3> DEFINE x == Function(t)
    <3>1. native' = Append(native, x) /\ Counts'[t] = Counts[t] + 1
      BY <1>3, <2>3 DEF entered
    <3>2. x \in Activations /\ x.op = "function" /\ x.th = t /\ Runs(x) = 1 /\ Counted(x) = 0
          /\ "execute" \in Callers(x)
      BY <1>2, ActivationsType DEF Function, Runs, Counted, Callers
    <3> HIDE DEF x
    <3>3. Others(t, Counts, nCcalls, errfunc, Counts', nCcalls, errfunc)
      BY <1>3 DEF Others
    <3>4. nCcalls[t] = nCcalls[t] + Counted(x)
      BY <1>2, <3>2
    <3>5. World(native', Counts', nCcalls, errfunc, base, errorJmp)
      BY <1>1, <1>2, <1>4, <3>1, <3>2, <3>3, <3>4, WorldPush
    <3>6. native' # <<>> /\ native'[Len(native')] = x /\ Holder(native') = t
      BY <1>2, <3>1, <3>2, HolderPush, Pushed
    <3>7. On(native, t)
      BY <1>1, RunningFacts DEF t
    <3>8. \A u : On(native', u) <=> On(native, u)
      BY <1>2, <3>1, <3>2, <3>7, OnPush
    <3> QED BY <3>2, <3>5, <3>6, <3>8
  <2> QED BY <1>3, <2>1, <2>2, <2>3
<1>6. Settled(native', Counts', errfunc', status')
  BY <1>1, <1>3, <1>5, SettledRunning DEF t
<1>7. Limited' /\ Typed'
  BY <1>1, <1>3 DEF CallInv, Limited, Typed
<1>8. Raised'
  <2>1. nCcalls'[Running'] = nCcalls[t] /\ nCcalls[t] < MaxCCalls + Reserve
    BY <1>1, <1>2, <1>5 DEF Running
  <2> QED BY <1>2, <1>5, <2>1, CallAssumption DEF Raised
<1> QED BY <1>1, <1>3, <1>5, <1>6, <1>7, <1>8 DEF CallInv

\* A tail call keeps the invariant.
LEMMA TailCallStep ==
  ASSUME CallInv, TailCall
  PROVE  CallInv'
<1> DEFINE t == Running
<1>1. /\ err = "none" /\ native # <<>> /\ Last(native).op = "execute"
      /\ size' = [size EXCEPT ![t] = SizeGrown(t)] /\ err' = CallError(t)
      /\ UNCHANGED <<native, ci, nCcalls, base, status, errorJmp, errfunc, fresh>>
  BY DEF TailCall, AtTop
<1>2. t \in Threads /\ Last(native) = native[Len(native)] /\ nCcalls[t] < MaxCCalls + Reserve
      /\ nCcalls[t] \in Nat
  BY <1>1, RunningFacts
<1>3. /\ size' \in [Threads -> Nat] /\ CallError(t) \in Errors
      /\ \A u \in Threads : Len(ci[u]) < size'[u]
  BY <1>1, <1>2, SizedGrown DEF CallInv
<1>4. Sized' /\ Counts' = Counts
  BY <1>1, <1>3 DEF CallInv, Sized, Counts
<1>5. Limited' /\ Typed'
  BY <1>1, <1>3 DEF CallInv, Limited, Typed
<1>6. Raised'
  <2>1. nCcalls'[Running'] = nCcalls[t]
    BY <1>1 DEF Running
  <2> QED BY <1>1, <1>2, <2>1, CallAssumption DEF Raised
<1> QED BY <1>1, <1>4, <1>5, <1>6 DEF CallInv

\* An error keeps the invariant.
LEMMA RaiseStep ==
  ASSUME CallInv, NEW kind \in {"run", "throw"}, Raise(kind)
  PROVE  CallInv'
<1>1. /\ err = "none" /\ native # <<>> /\ Last(native).op \in {"execute", "function"}
      /\ err' = kind /\ UNCHANGED <<native, perThread, fresh>>
  BY DEF Raise, AtTop
<1>2. Last(native) = native[Len(native)] /\ nCcalls[Running] < MaxCCalls + Reserve
      /\ nCcalls[Running] \in Nat
  BY <1>1, RunningFacts
<1>3. Sized' /\ Limited' /\ Typed' /\ Counts' = Counts
  BY <1>1 DEF CallInv, Sized, Limited, Typed, Counts, Errors, perThread
<1>4. Raised'
  <2>1. nCcalls'[Running'] = nCcalls[Running]
    BY <1>1 DEF Running, perThread
  <2> QED BY <1>1, <1>2, <2>1, CallAssumption DEF Raised
<1> QED BY <1>1, <1>3, <1>4 DEF CallInv, perThread

\* A step that changes nothing keeps the invariant.
LEMMA StutterStep ==
  ASSUME CallInv, UNCHANGED vars
  PROVE  CallInv'
<1>1. Sized' /\ Limited' /\ Typed' /\ Counts' = Counts
  BY DEF CallInv, Sized, Limited, Typed, Counts, vars, perThread
<1>2. Raised'
  BY DEF CallInv, Raised, Running, vars, perThread
<1> QED BY <1>1, <1>2 DEF CallInv, vars, perThread

\* A call through luaD_call keeps the invariant.
LEMMA CallThroughCStep ==
  ASSUME CallInv, NEW f \in Kinds, CallThroughC(f)
  PROVE  CallInv'
<1> DEFINE t == Running
<1>1. /\ err = "none" /\ native # <<>> /\ Last(native).op \in {"execute", "function"}
      /\ DCall(t, f, native, FALSE) /\ UNCHANGED <<base, status, errorJmp, errfunc, fresh>>
  BY DEF CallThroughC, AtTop
<1>2. /\ Last(native) = native[Len(native)] /\ nCcalls[t] < MaxCCalls + Reserve
      /\ t \in Threads /\ On(native, t)
  BY <1>1, RunningFacts
<1>3. World(native, Counts, nCcalls, errfunc, base, errorJmp) /\ Sized /\ Limited
      /\ t = Holder(native)
  BY DEF CallInv, Running
<1>4. native[Len(native)].op \in Callers(Call(t, FALSE))
  BY <1>1, <1>2 DEF Callers, Call
<1> HIDE DEF t
<1>5. /\ Sized' /\ Limited' /\ err' \in Errors
      /\ World(native', Counts', nCcalls', errfunc, base, errorJmp)
      /\ native' # <<>> /\ native'[Len(native')].op # "pcall" /\ Holder(native') = t
      /\ nCcalls'[t] >= MaxCCalls + Reserve => err' = "throw"
      /\ \A u : On(native', u) <=> On(native, u)
      /\ Others(t, Counts, nCcalls, errfunc, Counts', nCcalls', errfunc)
  BY <1>1, <1>2, <1>3, <1>4, DCallStep
<1>6. Settled(native', Counts', errfunc', status')
  BY <1>1, <1>5, SettledRunning DEF t, Others
<1>7. Typed'
  BY <1>1, <1>5 DEF CallInv, Typed
<1>8. Raised'
  BY <1>5 DEF Raised, Running
<1> QED BY <1>1, <1>5, <1>6, <1>7, <1>8 DEF CallInv

\* lua_pcall keeps the invariant.
LEMMA ProtectedCallStep ==
  ASSUME CallInv, NEW f \in Kinds, NEW h \in BOOLEAN, ProtectedCall(f, h)
  PROVE  CallInv'
<1> DEFINE t == Running
           guard == PCall(t, h)
           below == Append(native, guard)
<1>1. /\ err = "none"
      /\ native # <<>> => Last(native).op = "function"
      /\ DCall(t, f, below, FALSE)
      /\ errorJmp' = WithBuffer(errorJmp, t, Len(native) + 1)
      /\ errfunc' = [errfunc EXCEPT ![t] = h]
      /\ UNCHANGED <<base, status, fresh>>
  BY DEF ProtectedCall, InC, HostRuns, AtTop, WithBuffer
<1>2. /\ native # <<>> => Last(native) = native[Len(native)] /\ On(native, t)
      /\ t \in Threads /\ nCcalls[t] < MaxCCalls + Reserve /\ native \in Seq(Activations)
      /\ Counts[t] = Len(ci[t]) /\ Counts[t] \in Nat /\ nCcalls[t] \in Nat
  BY <1>1, RunningFacts
<1>3. World(native, Counts, nCcalls, errfunc, base, errorJmp) /\ Sized /\ Limited
      /\ t = Holder(native) /\ errfunc \in [Threads -> BOOLEAN]
  BY DEF CallInv, Typed, Running
<1>4. /\ guard \in Activations /\ guard.op = "pcall" /\ guard.th = t /\ guard.handler = h
      /\ guard.ci = Counts[t] /\ guard.nCcalls = nCcalls[t] /\ guard.errfunc = errfunc[t]
  <2>1. errfunc[t] \in BOOLEAN /\ Len(ci[t]) \in Nat
    BY <1>2, <1>3
  <2> QED BY <1>2, <2>1 DEF PCall, Activations
<1> HIDE DEF t, guard, below
<1>5. native # <<>> => native[Len(native)].op = "function"
  BY <1>1, <1>2
<1>6. /\ errfunc' \in [Threads -> BOOLEAN] /\ errfunc'[t] = h
      /\ \A u \in Threads \ {t} : errfunc'[u] = errfunc[u]
  BY <1>1, <1>2, <1>3
<1>7. World(below, Counts, nCcalls, errfunc', base, errorJmp')
  <2>1. Others(guard.th, Counts, nCcalls, errfunc, Counts, nCcalls, errfunc')
        /\ errfunc'[guard.th] = guard.handler
    BY <1>4, <1>6 DEF Others
  <2>2. /\ guard.op = "pcall" /\ guard.th = Holder(native) /\ guard \in Activations
        /\ guard.ci = Counts[guard.th] /\ guard.nCcalls = nCcalls[guard.th]
        /\ guard.errfunc = errfunc[guard.th] /\ nCcalls[guard.th] < MaxCCalls + Reserve
        /\ errorJmp' = WithBuffer(errorJmp, guard.th, Len(native) + 1)
    BY <1>1, <1>2, <1>3, <1>4
  <2>3. World(Append(native, guard), Counts, nCcalls, errfunc', base, errorJmp')
    BY <1>3, <1>5, <2>1, <2>2, WorldPCall
  <2> QED BY <2>3 DEF below
<1>8. /\ below # <<>> /\ Holder(below) = t /\ below[Len(below)].op = "pcall"
      /\ \A u : On(below, u) <=> On(native, u) \/ u = t
  <2>1. below \in Seq(Activations) /\ below # <<>> /\ below[Len(below)] = guard
    BY <1>2, <1>4, Pushed DEF below
  <2>2. Holder(below) = t
    BY <1>2, <1>4, HolderPush DEF below
  <2>3. \A u : On(below, u) <=> On(native, u) \/ u = t
    BY <1>2, <1>4, OnPush DEF below
  <2> QED BY <1>4, <2>1, <2>2, <2>3
<1>9. below[Len(below)].op \in Callers(Call(t, FALSE))
  BY <1>8 DEF Callers, Call
<1>10. /\ Sized' /\ Limited' /\ err' \in Errors
       /\ World(native', Counts', nCcalls', errfunc', base, errorJmp')
       /\ native' # <<>> /\ native'[Len(native')].op # "pcall" /\ Holder(native') = t
       /\ nCcalls'[t] >= MaxCCalls + Reserve => err' = "throw"
       /\ \A u : On(native', u) <=> On(below, u)
       /\ Others(t, Counts, nCcalls, errfunc', Counts', nCcalls', errfunc')
  BY <1>1, <1>2, <1>3, <1>7, <1>8, <1>9, DCallStep
<1>11. \A co \in Coroutines : On(native', co) <=> On(native, co)
  <2>1. ASSUME NEW co \in Coroutines, co = t PROVE On(native, co)
    <3>1. native # <<>>
      BY <1>3, <2>1, CallAssumption DEF Holder
    <3> QED BY <1>2, <2>1, <3>1
  <2> QED BY <1>8, <1>10, <2>1
<1>12. Settled(native', Counts', errfunc', status')
  <2>1. \A co \in Coroutines \ {t} : errfunc'[co] = errfunc[co]
    BY <1>6 DEF Threads
  <2>2. \A u \in Threads \ {t} : Counts'[u] = Counts[u]
    BY <1>10 DEF Others
  <2> QED BY <1>1, <1>11, <2>1, <2>2, SettledRunning DEF t
<1>13. Typed'
  BY <1>1, <1>6, <1>10 DEF CallInv, Typed
<1>14. Raised'
  BY <1>10 DEF Raised, Running
<1> QED BY <1>1, <1>10, <1>12, <1>13, <1>14 DEF CallInv

\* The call of an error handler keeps the invariant.
LEMMA CallHandlerStep ==
  ASSUME CallInv, NEW f \in Kinds, CallHandler(f)
  PROVE  CallInv'
<1> DEFINE t == Running
<1>1. /\ err = "run" /\ errfunc[t]
      /\ DCall(t, f, native, TRUE) /\ UNCHANGED <<base, status, errorJmp, errfunc, fresh>>
  BY DEF CallHandler
<1>2. native # <<>> /\ native[Len(native)].op # "pcall"
  BY <1>1 DEF CallInv, Raised
<1>3. /\ Last(native) = native[Len(native)] /\ nCcalls[t] < MaxCCalls + Reserve
      /\ native \in Seq(Activations) /\ Stack(native)
      /\ t \in Threads /\ On(native, t) /\ native[Len(native)] \in Activations
  BY <1>1, <1>2, RunningFacts
<1>4. World(native, Counts, nCcalls, errfunc, base, errorJmp) /\ Sized /\ Limited
      /\ t = Holder(native)
  BY DEF CallInv, Running
<1> HIDE DEF t
<1>5. native[Len(native)].op # "resume"
  <2> SUFFICES ASSUME native[Len(native)].op = "resume" PROVE FALSE
    OBVIOUS
  <2> DEFINE n == Len(native) - 1
  <2>1. n \in Nat /\ n < Len(native) /\ n + 1 = Len(native)
    BY <1>2, <1>3
  <2>2. (n + 2)..Len(native) = {}
    BY <2>1
  <2> HIDE DEF n
  <2>3. native[n + 1].th = Holder(native) /\ native[n + 1].op = "resume"
    BY <1>2, <1>3, <2>1 DEF Holder
  <2>4. ~ errfunc[Holder(native)]
    BY <1>4, <2>1, <2>2, <2>3, WorldUnhandled
  <2> QED BY <1>1, <1>4, <2>4
<1>6. native[Len(native)].op \in Callers(Call(t, TRUE))
  BY <1>2, <1>3, <1>5 DEF Callers, Call, Activations
<1>7. /\ Sized' /\ Limited' /\ err' \in Errors
      /\ World(native', Counts', nCcalls', errfunc, base, errorJmp)
      /\ native' # <<>> /\ native'[Len(native')].op # "pcall" /\ Holder(native') = t
      /\ nCcalls'[t] >= MaxCCalls + Reserve => err' = "throw"
      /\ \A u : On(native', u) <=> On(native, u)
      /\ Others(t, Counts, nCcalls, errfunc, Counts', nCcalls', errfunc)
  BY <1>1, <1>2, <1>3, <1>4, <1>6, DCallStep
<1>8. Settled(native', Counts', errfunc', status')
  BY <1>1, <1>7, SettledRunning DEF t, Others
<1>9. Typed'
  BY <1>1, <1>7 DEF CallInv, Typed
<1>10. Raised'
  BY <1>7 DEF Raised, Running
<1> QED BY <1>1, <1>7, <1>8, <1>9, <1>10 DEF CallInv

-----------------------------------------------------------------------------
(* Returns.                                                                *)

\* What the activation on top runs is among the CallInfos of its thread.
LEMMA RunsHeld ==
  ASSUME CallInv, native # <<>>
  PROVE  Runs(Last(native)) <= Counts[Running] /\ Runs(Last(native)) \in Nat
<1> DEFINE n == Len(native) - 1
<1>1. /\ native \in Seq(Activations) /\ Last(native) = native[Len(native)]
      /\ Last(native) \in Activations /\ Last(native).th = Running
      /\ Counts[Running] = Cardinality(Frames(native, Running, Len(native)))
  BY RunningFacts
<1>2. n \in Nat /\ n < Len(native) /\ n + 1 = Len(native) /\ n \in 0..Len(native)
  BY <1>1
<1> HIDE DEF n
<1>3. Cardinality(Frames(native, Running, n + 1)) =
        Cardinality(Frames(native, Running, n))
          + IF native[n + 1].th = Running THEN Runs(native[n + 1]) ELSE 0
  BY <1>1, <1>2, FramesStep
<1>4. Cardinality(Frames(native, Running, n)) \in Nat
  BY <1>1, <1>2, FramesFinite
<1>5. Runs(Last(native)) \in Nat
  BY <1>1, RunsType
<1> QED BY <1>1, <1>2, <1>3, <1>4, <1>5

\* One CallInfo fewer.
LEMMA CallInfoPopped ==
  ASSUME Sized, NEW t \in Threads, Counts[t] >= 1,
         ci' = [ci EXCEPT ![t] = Front(@)], size' = size
  PROVE  /\ Sized' /\ Counts'[t] = Counts[t] - 1
         /\ \A u \in Threads \ {t} : Counts'[u] = Counts[u]
<1> DEFINE q == ci[t]
<1>1. q \in Seq(Kinds) /\ Counts[t] = Len(q) /\ Len(q) >= 1
  BY DEF Sized, Counts
<1>2. Front(q) \in Seq(Kinds) /\ Len(Front(q)) = Len(q) - 1
  BY <1>1 DEF Front
<1>3. /\ ci' \in [Threads -> Seq(Kinds)] /\ ci'[t] = Front(q)
      /\ \A u \in Threads \ {t} : ci'[u] = ci[u]
  BY <1>2 DEF Sized
<1> HIDE DEF q
<1>4. ASSUME NEW u \in Threads PROVE Len(ci'[u]) < size'[u]
  <2>1. Len(ci[u]) < size[u] /\ size[u] \in Nat
    BY DEF Sized
  <2> QED BY <1>1, <1>2, <1>3, <2>1 DEF q
<1>5. Sized'
  BY <1>3, <1>4 DEF Sized
<1> QED BY <1>1, <1>2, <1>3, <1>5 DEF Counts

\* lua_resume runs coroutines, never the main thread.
LEMMA ResumedCoroutine ==
  ASSUME NEW s \in Seq(Activations), Stack(s), NEW i \in 1..Len(s), s[i].op = "resume"
  PROVE  s[i].th \in Coroutines
<1>1. s # <<>> /\ 1 \in 1..Len(s)
  OBVIOUS
<1>2. i \in 2..Len(s)
  BY ResumerBelow
<1>3. s[1].th = Main
  BY <1>1 DEF Stack, Ordered
<1>4. s[1].th # s[i].th
  <2>1. 1 < i /\ i \in (1 + 1)..i
    BY <1>2
  <2> QED BY <1>1, <2>1 DEF Stack, Separated
<1>5. s[i] \in Activations
  OBVIOUS
<1> QED BY <1>3, <1>4, <1>5, ThreadsType DEF Threads

\* The thread that runs left the top activation, and has others below.
LEMMA SettledPopped ==
  ASSUME CallInv, Len(native) >= 2, native[Len(native) - 1].th = Running,
         NEW c2, \A u \in Threads \ {Running} : c2[u] = Counts[u]
  PROVE  Settled(Front(native), c2, errfunc, status)
<1> DEFINE n == Len(native) - 1
           s == SubSeq(native, 1, n)
<1> SUFFICES ASSUME NEW co \in Coroutines PROVE SettledAt(Front(native), c2, errfunc, status, co)
  BY DEF Settled
<1>1. /\ native \in Seq(Activations) /\ Stack(native) /\ native # <<>>
      /\ native[Len(native)].th = Running
  BY RunningFacts
<1>2. n \in Nat /\ n < Len(native) /\ n + 1 = Len(native) /\ n \in 1..n /\ n \in 0..Len(native)
      /\ native[n].th = Running
  BY <1>1
<1>3. Front(native) = s
  BY DEF Front
<1> HIDE DEF n
<1>4. Len(s) = n /\ s[n] = native[n]
  BY <1>1, <1>2, Cut
<1> HIDE DEF s
<1>5. SettledAt(native, Counts, errfunc, status, co)
  BY DEF CallInv, Settled
<1>6. CASE co = Running
  <2>1. On(native, co) /\ On(s, co)
    BY <1>1, <1>2, <1>4, <1>6, RunningFacts DEF On
  <2> QED BY <1>3, <1>5, <2>1 DEF SettledAt
<1>7. CASE co # Running
  <2>1. On(s, co) <=> On(native, co)
    BY <1>1, <1>2, <1>7, OnCut DEF s, Running
  <2>2. c2[co] = Counts[co]
    BY <1>7 DEF Threads
  <2> QED BY <1>3, <1>5, <2>1, <2>2, SettledSame
<1> QED BY <1>6, <1>7

\* A return of the topmost activation keeps the invariant.
LEMMA ReturnStep ==
  ASSUME CallInv, err = "none", native # <<>>,
         Last(native).op \in {"execute", "function"}, Runs(Last(native)) = 1,
         ci' = [ci EXCEPT ![Running] = Front(@)], Leave(Running, Front(native)),
         UNCHANGED <<size, base, status, fresh>>
  PROVE  CallInv'
<1> DEFINE t == Running
           a == Last(native)
           s == Front(native)
<1>1. /\ native \in Seq(Activations) /\ t \in Threads /\ Stack(native)
      /\ a = native[Len(native)] /\ a \in Activations /\ a.th = t
      /\ Counts[t] \in Nat /\ nCcalls[t] \in Nat /\ nCcalls[t] < MaxCCalls + Reserve
  BY RunningFacts
<1>2. Counts[t] >= 1
  BY <1>1, RunsHeld
<1>3. /\ Sized' /\ Counts'[t] = Counts[t] - 1 /\ \A u \in Threads \ {t} : Counts'[u] = Counts[u]
  BY <1>1, <1>2, CallInfoPopped DEF CallInv
<1>4. /\ s = SubSeq(native, 1, Len(native) - 1) /\ s \in Seq(Activations)
      /\ Len(s) = Len(native) - 1 /\ Len(s) \in Nat
      /\ Len(native) > 1 => s # <<>> /\ Last(s) = native[Len(native) - 1]
  BY <1>1, FrontFacts
<1>5. World(native, Counts, nCcalls, errfunc, base, errorJmp) /\ t = Holder(native)
      /\ Limited /\ errfunc \in [Threads -> BOOLEAN]
  BY DEF CallInv, Typed, Running
<1>6. Leave(t, s) /\ a.op \in {"execute", "function"} /\ Runs(a) = 1
  OBVIOUS
<1> HIDE DEF t, a, s
<1>7. Counted(a) = 0
  BY <1>6 DEF Counted
<1>8. /\ World(s, Counts', nCcalls, errfunc, base, errorJmp)
      /\ Holder(s) = t /\ Len(native) >= 2 /\ native[Len(native) - 1].op \in Callers(a)
      /\ native[Len(native) - 1].th = t
  <2>1. Others(a.th, Counts, nCcalls, errfunc, Counts', nCcalls, errfunc)
    BY <1>1, <1>3 DEF Others
  <2>2. /\ Counts'[a.th] = Counts[a.th] - Runs(a) /\ nCcalls[a.th] = nCcalls[a.th] - Counted(a)
        /\ errfunc[a.th] = errfunc[a.th] /\ a.op \in {"call", "execute", "function"}
        /\ a = native[Len(native)]
    BY <1>1, <1>3, <1>6, <1>7
  <2>3. /\ World(SubSeq(native, 1, Len(native) - 1), Counts', nCcalls, errfunc, base, errorJmp)
        /\ Holder(SubSeq(native, 1, Len(native) - 1)) = a.th
        /\ Len(native) >= 2 /\ native[Len(native) - 1].op \in Callers(a)
        /\ native[Len(native) - 1].th = a.th
    BY <1>5, <2>1, <2>2, WorldPop
  <2> QED BY <1>1, <1>4, <2>3
<1>9. s # <<>> /\ Last(s) = native[Len(native) - 1] /\ Last(s) = s[Len(s)]
      /\ s[Len(s)].op \in {"call", "execute", "resume"}
  <2>1. Callers(a) \subseteq {"call", "execute", "resume"}
    BY <1>6 DEF Callers
  <2>2. s # <<>> /\ Last(s) = native[Len(native) - 1]
    BY <1>1, <1>4, <1>8
  <2>3. Last(s) = s[Len(s)]
    BY DEF Last
  <2> QED BY <1>8, <2>1, <2>2, <2>3
<1>10. Settled(s, Counts', errfunc, status)
  BY <1>3, <1>8, SettledPopped DEF t, s
<1>11. Last(s).op = "resume" => status'[t] = "ok" /\ Counts'[t] = 0
  <2> SUFFICES ASSUME Last(s).op = "resume" PROVE status'[t] = "ok" /\ Counts'[t] = 0
    OBVIOUS
  <2>1. Counts'[t] = 0
    BY <1>8, <1>9, WorldResumed
  <2>2. Len(s) \in 1..Len(s) /\ Stack(s)
    BY <1>4, <1>8, <1>9 DEF World
  <2>3. t \in Coroutines
    <3>1. s[Len(s)].th = t
      BY <1>8, <1>9
    <3> QED BY <1>4, <1>9, <2>2, <3>1, ResumedCoroutine
  <2>4. On(s, t)
    BY <1>4, <1>8, <1>9, OnHolder
  <2>5. status[t] = "ok"
    BY <1>10, <2>3, <2>4 DEF Settled, SettledAt
  <2> QED BY <2>1, <2>5
<1>12. /\ World(native', Counts', nCcalls', errfunc', base, errorJmp')
       /\ Limited' /\ err' \in Errors
       /\ errfunc' \in [Threads -> BOOLEAN]
       /\ native' # <<>> => native'[Len(native')].op # "pcall"
       /\ err' # "none" => native' # <<>>
       /\ nCcalls'[Holder(native')] < MaxCCalls + Reserve
       /\ Settled(native', Counts', errfunc', status')
  <2>1. Others(t, Counts', nCcalls, errfunc, Counts', nCcalls, errfunc)
    BY DEF Others
  <2>2. \A co \in Coroutines : status'[co] = status[co]
    OBVIOUS
  <2> QED BY <1>1, <1>3, <1>5, <1>6, <1>8, <1>9, <1>10, <1>11, <2>1, <2>2, LeaveStep
<1>13. Typed'
  BY <1>12 DEF CallInv, Typed
<1>14. Raised'
  <2>1. nCcalls'[Holder(native')] \in Nat
    BY <1>12, WorldHolder
  <2> QED BY <1>12, <2>1, CallAssumption DEF Raised, Running
<1> QED BY <1>3, <1>12, <1>13, <1>14 DEF CallInv

\* A return from a C function keeps the invariant.
LEMMA ReturnFromCStep ==
  ASSUME CallInv, ReturnFromC
  PROVE  CallInv'
<1>1. /\ err = "none" /\ native # <<>> /\ Last(native).op = "function"
      /\ ci' = [ci EXCEPT ![Running] = Front(@)] /\ Leave(Running, Front(native))
      /\ UNCHANGED <<size, base, status, fresh>>
  BY DEF ReturnFromC, AtTop
<1>2. Runs(Last(native)) = 1
  BY <1>1 DEF Runs
<1> QED BY <1>1, <1>2, ReturnStep

\* A return from Lua code keeps the invariant.
LEMMA ReturnFromLuaStep ==
  ASSUME CallInv, ReturnFromLua
  PROVE  CallInv'
<1> DEFINE t == Running
           a == Last(native)
<1>1. /\ err = "none" /\ native # <<>> /\ a.op = "execute"
      /\ ci' = [ci EXCEPT ![t] = Front(@)] /\ UNCHANGED <<size, base, status, fresh>>
      /\ IF a.n > 1
         THEN /\ native' = Append(Front(native), Execute(t, a.n - 1))
              /\ UNCHANGED <<nCcalls, errorJmp, errfunc, err>>
         ELSE Leave(t, Front(native))
  BY DEF ReturnFromLua, AtTop
<1>2. /\ native \in Seq(Activations) /\ t \in Threads /\ Counts[t] \in Nat /\ nCcalls[t] \in Nat
      /\ a = native[Len(native)] /\ a \in Activations /\ a.th = t
      /\ nCcalls[t] < MaxCCalls + Reserve
  BY <1>1, RunningFacts
<1>3. Runs(a) = a.n /\ a.n \in Nat \ {0}
  BY <1>1, <1>2 DEF Runs, Activations
<1>4. CASE ~ (a.n > 1)
  <2>1. Runs(a) = 1
    BY <1>3, <1>4
  <2> QED BY <1>1, <1>4, <2>1, ReturnStep
<1>5. CASE a.n > 1
  <2> DEFINE x == Execute(t, a.n - 1)
  <2>1. x \in Activations /\ x.op = "execute" /\ x.th = t /\ Runs(x) = a.n - 1
    <3>1. a.n - 1 \in Nat \ {0}
      BY <1>3, <1>5
    <3> QED BY <1>2, <3>1, ActivationsType DEF Execute, Runs
  <2>2. native' = Append(Front(native), x) /\ UNCHANGED <<nCcalls, errorJmp, errfunc, err>>
    BY <1>1, <1>5
  <2> HIDE DEF x
  <2>3. Counts[t] >= 1
    BY <1>1, <1>2, <1>3, RunsHeld
  <2>4. World(native, Counts, nCcalls, errfunc, base, errorJmp) /\ Sized
    BY DEF CallInv
  <2>5. /\ Sized' /\ Counts'[t] = Counts[t] - 1
        /\ \A u \in Threads \ {t} : Counts'[u] = Counts[u]
    BY <1>1, <1>2, <2>3, <2>4, CallInfoPopped
  <2>6. Counts'[a.th] = Counts[a.th] - Runs(a) + Runs(x)
    BY <1>2, <1>3, <2>1, <2>5
  <2> HIDE DEF t, a
  <2>7. /\ native # <<>> /\ a = native[Len(native)] /\ a.op = "execute"
        /\ x \in Activations /\ x.op = "execute" /\ x.th = a.th
        /\ Others(a.th, Counts, nCcalls, errfunc, Counts', nCcalls, errfunc)
    BY <1>1, <1>2, <2>1, <2>5 DEF Others
  <2>8. /\ World(native', Counts', nCcalls, errfunc, base, errorJmp)
        /\ native' # <<>> /\ native'[Len(native')].op = "execute" /\ Holder(native') = a.th
        /\ \A u : On(native', u) <=> On(native, u)
    BY <2>2, <2>4, <2>6, <2>7, ExecuteStep
  <2>9. Settled(native', Counts', errfunc', status')
    BY <1>1, <2>2, <2>5, <2>8, SettledRunning DEF t
  <2>10. Limited' /\ Typed'
    BY <1>1, <2>2 DEF CallInv, Limited, Typed
  <2>11. Raised'
    <3>1. nCcalls'[Running'] = nCcalls[t]
      BY <1>2, <2>2, <2>8 DEF Running
    <3> QED BY <1>1, <1>2, <2>2, <2>8, <3>1, CallAssumption DEF Raised
  <2> QED BY <1>1, <2>2, <2>5, <2>8, <2>9, <2>10, <2>11 DEF CallInv
<1> QED BY <1>4, <1>5

-----------------------------------------------------------------------------
(* Errors.                                                                 *)

\* The last jump buffer of the thread that runs is in the activation that
\* luaD_throw goes to, with no other above it.
LEMMA Catcher ==
  ASSUME CallInv, errorJmp[Running] # <<>>, NEW place, place = Last(errorJmp[Running])
  PROVE  /\ place \in 1..Len(native) /\ native[place].th = Running /\ IsBuffer(native[place])
         /\ native[place] \in Activations
         /\ \A i \in (place + 1)..Len(native) : ~ IsBuffer(native[i])
<1> DEFINE t == Running
           e == errorJmp[t]
<1>1. native \in Seq(Activations) /\ Stack(native) /\ t \in Threads
  BY RunningFacts
<1>2. e \in Seq(Nat) /\ Ascending(e) /\ Range(e) = Buffers(native, t)
  BY <1>1 DEF CallInv, World, Chained
<1>3. e # <<>> /\ place = Last(e)
  OBVIOUS
<1> HIDE DEF e
<1>4. place \in Buffers(native, t) /\ place \in Nat /\ \A x \in Buffers(native, t) : x <= place
  BY <1>2, <1>3, ChainTop
<1>5. \A i : i \in Buffers(native, t) <=> i \in 1..Len(native) /\ native[i].th = t /\ IsBuffer(native[i])
  BY <1>1, BuffersBound
<1>6. place \in 1..Len(native) /\ native[place].th = t /\ IsBuffer(native[place])
  BY <1>4, <1>5
<1>7. native[place] \in Activations
  BY <1>1, <1>6
<1>8. ASSUME NEW i \in (place + 1)..Len(native) PROVE ~ IsBuffer(native[i])
  <2>1. i \in place..Len(native) /\ i \in 1..Len(native) /\ ~ (i <= place)
    BY <1>1, <1>4, <1>6
  <2>2. native[i].th = t
    BY <1>1, <1>6, <2>1, HolderTop DEF Running
  <2> QED BY <1>4, <1>5, <2>1, <2>2
<1> QED BY <1>6, <1>7, <1>8

\* The jump to the innermost buffer, of luaD_pcall or lua_resume, keeps it.
LEMMA ThrowStep ==
  ASSUME CallInv, Throw
  PROVE  CallInv'
<1> DEFINE t == Running
           place == Last(errorJmp[t])
           catch == native[place]
           n == place - 1
<1>1. /\ errorJmp[t] # <<>> /\ err' = "none" /\ native' = SubSeq(native, 1, n)
      /\ errorJmp' = WithoutBuffer(errorJmp, t) /\ UNCHANGED <<base, fresh>>
      /\ IF catch.op = "pcall"
         THEN /\ ci' = [ci EXCEPT ![t] = SubSeq(@, 1, catch.ci)]
              /\ nCcalls' = [nCcalls EXCEPT ![t] = catch.nCcalls]
              /\ errfunc' = [errfunc EXCEPT ![t] = catch.errfunc]
              /\ size' = [size EXCEPT ![t] = SizeRestored(t, catch.ci)]
              /\ UNCHANGED status
         ELSE /\ status' = [status EXCEPT ![t] = "error"]
              /\ nCcalls' = [nCcalls EXCEPT ![t] = @ - 1]
              /\ UNCHANGED <<ci, errfunc, size>>
  BY DEF Throw, WithoutBuffer, OuterJmp, OldHandler, ErrorStatus
<1>2. /\ place \in 1..Len(native) /\ catch.th = t /\ IsBuffer(catch) /\ catch \in Activations
      /\ \A i \in (place + 1)..Len(native) : ~ IsBuffer(native[i])
  BY <1>1, Catcher
<1>3. /\ native \in Seq(Activations) /\ Stack(native) /\ t \in Threads
      /\ Counts[t] = Len(ci[t]) /\ Counts[t] \in Nat /\ nCcalls[t] \in Nat
      /\ Counts[t] = Cardinality(Frames(native, t, Len(native)))
  BY RunningFacts
<1>4. /\ World(native, Counts, nCcalls, errfunc, base, errorJmp) /\ t = Holder(native)
      /\ Sized /\ Limited /\ Typed /\ Settled(native, Counts, errfunc, status)
      /\ Kept(native, Counts, nCcalls, errfunc, base)
  BY DEF CallInv, World, Running
<1>5. native # <<>> /\ On(native, t)
  BY <1>2, <1>3 DEF On
<1> HIDE DEF t, place, catch
<1>6. /\ n \in Nat /\ n < Len(native) /\ n + 1 = place /\ n \in 0..Len(native)
      /\ Len(native) \in n..Len(native) /\ (n + 2)..Len(native) = (place + 1)..Len(native)
      /\ native[n + 1] = catch
  BY <1>2, <1>3 DEF catch
<1> HIDE DEF n
<1>7. \A co \in Coroutines \ {t} : On(native', co) <=> On(native, co)
  BY <1>1, <1>2, <1>3, <1>4, <1>6, OnCut
<1>8. /\ errfunc \in [Threads -> BOOLEAN] /\ base \in [Threads -> 0..MaxCCalls] /\ base[Main] = 0
      /\ status \in [Threads -> {"ok", "yield", "error"}] /\ fresh \subseteq Coroutines
  BY <1>4 DEF Typed
<1>9. err' = "none" /\ base' = base
  BY <1>1
<1>10. CASE catch.op = "pcall"
  <2>1. /\ ci' = [ci EXCEPT ![t] = SubSeq(@, 1, catch.ci)]
        /\ nCcalls' = [nCcalls EXCEPT ![t] = catch.nCcalls]
        /\ errfunc' = [errfunc EXCEPT ![t] = catch.errfunc]
        /\ size' = [size EXCEPT ![t] = SizeRestored(t, catch.ci)]
        /\ UNCHANGED status
    BY <1>1, <1>10
  <2>2. catch.ci \in Nat /\ catch.nCcalls \in Nat /\ catch.errfunc \in BOOLEAN
    BY <1>2, <1>10 DEF Activations
  <2>3. /\ catch.ci = Cardinality(Frames(native, t, n))
        /\ catch.nCcalls < MaxCCalls + Reserve
    <3>1. place - 1 = n
      BY <1>2, <1>6
    <3> QED BY <1>2, <1>4, <1>10, <3>1 DEF Kept, Fits, catch
  <2>4. catch.ci <= Len(ci[t])
    BY <1>3, <1>6, <2>3, FramesGrow
  <2>5. Sized' /\ Counts'[t] = catch.ci /\ \A u \in Threads \ {t} : Counts'[u] = Counts[u]
    <3> DEFINE q == SubSeq(ci[t], 1, catch.ci)
               z == SizeRestored(t, catch.ci)
    <3>1. ci[t] \in Seq(Kinds) /\ size[t] \in Nat /\ Len(ci[t]) < size[t]
      BY <1>3, <1>4 DEF Sized
    <3>2. q \in Seq(Kinds) /\ Len(q) = catch.ci
      BY <2>2, <2>4, <3>1
    <3>3. z \in Nat /\ catch.ci < z
      BY <2>2, <2>4, <3>1, CallAssumption DEF SizeRestored
    <3> HIDE DEF q, z
    <3>4. /\ ci' \in [Threads -> Seq(Kinds)] /\ ci'[t] = q
          /\ \A u \in Threads \ {t} : ci'[u] = ci[u]
      BY <1>3, <1>4, <2>1, <3>2 DEF Sized, q
    <3>5. /\ size' \in [Threads -> Nat] /\ size'[t] = z
          /\ \A u \in Threads \ {t} : size'[u] = size[u]
      BY <1>3, <1>4, <2>1, <3>3 DEF Sized, z
    <3>6. \A u \in Threads : Len(ci'[u]) < size'[u]
      BY <1>4, <3>2, <3>3, <3>4, <3>5 DEF Sized
    <3>7. Sized'
      BY <3>4, <3>5, <3>6 DEF Sized
    <3> QED BY <1>3, <3>2, <3>4, <3>7 DEF Counts
  <2>6. /\ nCcalls' \in [Threads -> 0..(MaxCCalls + Reserve)] /\ nCcalls'[t] = catch.nCcalls
        /\ \A u \in Threads \ {t} : nCcalls'[u] = nCcalls[u]
    <3>1. catch.nCcalls \in 0..(MaxCCalls + Reserve)
      BY <2>2, <2>3, CallAssumption
    <3> QED BY <1>3, <1>4, <2>1, <3>1 DEF Limited
  <2>7. /\ errfunc' \in [Threads -> BOOLEAN] /\ errfunc'[t] = catch.errfunc
        /\ \A u \in Threads \ {t} : errfunc'[u] = errfunc[u]
    BY <1>3, <1>8, <2>1, <2>2
  <2>8. Others(t, Counts, nCcalls, errfunc, Counts', nCcalls', errfunc')
    BY <2>5, <2>6, <2>7 DEF Others
  <2>9. /\ World(SubSeq(native, 1, n), Counts', nCcalls', errfunc', base, errorJmp')
        /\ nCcalls'[Holder(SubSeq(native, 1, n))] < MaxCCalls + Reserve
        /\ n # 0 => native[n].op = "function"
        /\ catch.op = "pcall" => Holder(SubSeq(native, 1, n)) = t
    <3>1. /\ n \in Nat /\ n < Len(native) /\ catch = native[n + 1] /\ catch.th = t
          /\ IsBuffer(catch) /\ \A i \in (n + 2)..Len(native) : ~ IsBuffer(native[i])
          /\ errorJmp' = WithoutBuffer(errorJmp, t)
          /\ Counts'[t] = catch.ci /\ nCcalls'[t] = catch.nCcalls /\ errfunc'[t] = catch.errfunc
      BY <1>1, <1>2, <1>6, <2>5, <2>6, <2>7
    <3> QED BY <1>4, <2>8, <3>1, WorldUnwind
  <2>10. /\ World(native', Counts', nCcalls', errfunc', base, errorJmp')
         /\ Holder(native') = t /\ nCcalls'[t] < MaxCCalls + Reserve
    BY <1>1, <1>10, <2>9
  <2>11. native' # <<>> => native'[Len(native')].op = "function"
    <3>1. Len(native') = n /\ \A i \in 1..n : native'[i] = native[i]
      BY <1>1, <1>3, <1>6, Cut
    <3> QED BY <1>6, <2>9, <3>1
  <2>12. Settled(native', Counts', errfunc', status')
    <3> SUFFICES ASSUME NEW co \in Coroutines
                 PROVE SettledAt(native', Counts', errfunc', status', co)
      BY DEF Settled
    <3>1. SettledAt(native, Counts, errfunc, status, co)
      BY <1>4 DEF Settled
    <3>2. CASE co = t
      <4>1. native' # <<>>
        BY <2>10, <3>2, CallAssumption DEF Holder
      <4>2. On(native', t)
        BY <2>10, <4>1, OnHolder DEF World
      <4> QED BY <1>5, <2>1, <3>1, <3>2, <4>2 DEF SettledAt
    <3>3. CASE co # t
      <4>1. Counts'[co] = Counts[co] /\ errfunc'[co] = errfunc[co]
        BY <2>5, <2>7, <3>3 DEF Threads
      <4>2. status'[co] = status[co] /\ (On(native', co) <=> On(native, co))
        BY <1>7, <2>1, <3>3
      <4> QED BY <3>1, <4>1, <4>2, SettledSame
    <3> QED BY <3>2, <3>3
  <2>13. Limited' /\ Typed'
    BY <1>1, <1>8, <2>1, <2>6, <2>7 DEF Limited, Typed, Errors
  <2>14. Raised'
    BY <1>9, <2>2, <2>6, <2>10, <2>11, CallAssumption DEF Raised, Running
  <2> QED BY <1>9, <2>5, <2>10, <2>12, <2>13, <2>14 DEF CallInv
<1>11. CASE catch.op # "pcall"
  <2>1. /\ status' = [status EXCEPT ![t] = "error"]
        /\ nCcalls' = [nCcalls EXCEPT ![t] = @ - 1]
        /\ UNCHANGED <<ci, errfunc, size>>
    BY <1>1, <1>11
  <2>2. catch.op = "resume"
    BY <1>2, <1>11 DEF IsBuffer
  <2>3. ~ errfunc[t] /\ nCcalls[t] >= 1
    BY <1>2, <1>4, <1>6, <2>2, WorldUnhandled
  <2>4. Sized' /\ Counts' = Counts
    BY <1>4, <2>1 DEF Sized, Counts
  <2>5. /\ nCcalls' \in [Threads -> 0..(MaxCCalls + Reserve)]
        /\ \A u \in Threads \ {t} : nCcalls'[u] = nCcalls[u]
    <3>1. nCcalls[t] \in 0..(MaxCCalls + Reserve)
      BY <1>3, <1>4 DEF Limited
    <3>2. nCcalls[t] - 1 \in 0..(MaxCCalls + Reserve)
      BY <2>3, <3>1, CallAssumption
    <3> QED BY <1>3, <1>4, <2>1, <3>2 DEF Limited
  <2>6. Others(t, Counts, nCcalls, errfunc, Counts, nCcalls', errfunc)
    BY <2>5 DEF Others
  <2>7. /\ World(SubSeq(native, 1, n), Counts, nCcalls', errfunc, base, errorJmp')
        /\ nCcalls'[Holder(SubSeq(native, 1, n))] < MaxCCalls + Reserve
        /\ n # 0 => native[n].op = "function"
        /\ catch.op = "resume" => n # 0 /\ \A i \in 1..n : native[i].th # t
    <3>1. /\ n \in Nat /\ n < Len(native) /\ catch = native[n + 1] /\ catch.th = t
          /\ IsBuffer(catch) /\ \A i \in (n + 2)..Len(native) : ~ IsBuffer(native[i])
          /\ errorJmp' = WithoutBuffer(errorJmp, t) /\ catch.op # "pcall"
      BY <1>1, <1>2, <1>6, <1>11
    <3> QED BY <1>4, <2>6, <3>1, WorldUnwind
  <2>8. /\ World(native', Counts', nCcalls', errfunc', base, errorJmp')
        /\ nCcalls'[Holder(native')] < MaxCCalls + Reserve
    BY <1>1, <2>1, <2>4, <2>7
  <2>9. Len(native') = n /\ \A i \in 1..n : native'[i] = native[i]
    BY <1>1, <1>3, <1>6, Cut
  <2>10. native' # <<>> => native'[Len(native')].op = "function"
    BY <1>6, <2>7, <2>9
  <2>11. Settled(native', Counts', errfunc', status')
    <3> SUFFICES ASSUME NEW co \in Coroutines
                 PROVE SettledAt(native', Counts', errfunc', status', co)
      BY DEF Settled
    <3>1. SettledAt(native, Counts, errfunc, status, co)
      BY <1>4 DEF Settled
    <3>2. CASE co = t
      <4>1. ~ On(native', t)
        BY <2>2, <2>7, <2>9 DEF On
      <4>2. status'[t] = "error"
        BY <1>3, <1>8, <2>1
      <4> QED BY <2>1, <2>3, <3>2, <4>1, <4>2 DEF SettledAt
    <3>3. CASE co # t
      <4>1. status'[co] = status[co]
        BY <1>8, <2>1, <3>3 DEF Threads
      <4>2. On(native', co) <=> On(native, co)
        BY <1>7, <3>3
      <4> QED BY <2>1, <2>4, <3>1, <4>1, <4>2, SettledSame
    <3> QED BY <3>2, <3>3
  <2>12. Typed'
    <3>1. status' \in [Threads -> {"ok", "yield", "error"}]
      BY <1>3, <1>8, <2>1
    <3> QED BY <1>1, <1>8, <2>1, <3>1 DEF Typed, Errors
  <2>13. Limited'
    BY <2>5 DEF Limited
  <2>14. Raised'
    <3>1. nCcalls'[Holder(native')] \in Nat
      BY <2>8, WorldHolder
    <3> QED BY <1>9, <2>8, <2>10, <3>1, CallAssumption DEF Raised, Running
  <2> QED BY <1>9, <2>1, <2>4, <2>8, <2>11, <2>12, <2>13, <2>14 DEF CallInv
<1> QED BY <1>10, <1>11

-----------------------------------------------------------------------------
(* Coroutines.                                                             *)

\* A thread that waits for the one it resumed is in a function.
LEMMA WaitingRuns ==
  ASSUME CallInv, NEW t, On(native, t), t # Running
  PROVE  Counts[t] >= 1
<1>1. native \in Seq(Activations) /\ Stack(native) /\ t # Holder(native)
  BY RunningFacts DEF Running
<1>2. PICK k \in 2..Len(native) : native[k].op = "resume" /\ native[k - 1].th = t
  BY <1>1, Waiting
<1>3. k \in 1..Len(native)
  OBVIOUS
<1>4. Counts[t] = Cardinality(Frames(native, t, k - 1))
  BY <1>2, <1>3 DEF CallInv, World, Kept, Fits
<1>5. native[k - 1].op = "function"
  BY <1>1, <1>2, <1>3, ResumerBelow
<1> DEFINE n == k - 2
<1>6. n \in Nat /\ n < Len(native) /\ n + 1 = k - 1 /\ n \in 0..Len(native)
  BY <1>1, <1>2
<1> HIDE DEF n
<1>7. Cardinality(Frames(native, t, n + 1)) =
        Cardinality(Frames(native, t, n)) + IF native[n + 1].th = t THEN Runs(native[n + 1]) ELSE 0
  BY <1>1, <1>6, FramesStep
<1>8. Cardinality(Frames(native, t, n)) \in Nat
  BY <1>1, <1>6, FramesFinite
<1>9. Runs(native[n + 1]) = 1
  BY <1>5, <1>6 DEF Runs
<1> QED BY <1>2, <1>4, <1>6, <1>7, <1>8, <1>9

\* A coroutine that coroutine.status calls suspended can be continued.
LEMMA Suspended ==
  ASSUME CallInv, NEW co \in Coroutines, CoStatus(co) = "suspended"
  PROVE  /\ co # Running /\ ~ On(native, co) /\ ~ errfunc[co]
         /\ \/ status[co] = "ok" /\ Counts[co] = 0
            \/ status[co] = "yield" /\ Counts[co] >= 2
<1>1. /\ co # Running /\ status[co] # "error"
      /\ status[co] = "yield" \/ ci[co] = <<>>
  BY DEF CoStatus
<1>2. SettledAt(native, Counts, errfunc, status, co)
  BY DEF CallInv, Settled
<1>3. ci[co] = <<>> => Counts[co] = 0
  BY DEF Counts, Threads
<1>4. ~ On(native, co)
  <2> SUFFICES ASSUME On(native, co) PROVE FALSE
    OBVIOUS
  <2>1. status[co] = "ok"
    BY <1>2 DEF SettledAt
  <2>2. Counts[co] >= 1
    BY <1>1, WaitingRuns
  <2> QED BY <1>1, <1>3, <2>1, <2>2
<1> QED BY <1>1, <1>2, <1>4 DEF SettledAt

\* What a thread off the C stack takes its depth for matters to no other.
LEMMA WorldOff ==
  ASSUME NEW s, NEW c, NEW k, NEW h, NEW b, NEW e, World(s, c, k, h, b, e), s # <<>>,
         NEW x, ~ On(s, x), NEW k2, \A u \in Threads \ {x} : k2[u] = k[u]
  PROVE  World(s, c, k2, h, b, e)
<1>1. s \in Seq(Activations) /\ Stack(s) /\ Kept(s, c, k, h, b) /\ Current(s, c, k, h)
  BY DEF World
<1>2. \A i \in 1..Len(s) : k2[s[i].th] = k[s[i].th]
  BY <1>1, ThreadsType DEF On
<1>3. \A i \in 1..Len(s) : s[i].op = "resume" => i - 1 \in 1..Len(s)
  BY <1>1, ResumerBelow
<1>4. Kept(s, c, k2, h, b)
  BY <1>1, <1>2, <1>3 DEF Kept
<1>5. Holder(s) = s[Len(s)].th /\ Len(s) \in 1..Len(s)
  BY <1>1 DEF Holder, Last
<1>6. Current(s, c, k2, h)
  BY <1>1, <1>2, <1>5 DEF Current
<1> QED BY <1>4, <1>6 DEF World

\* lua_resume, new or continued, keeps the invariant.
LEMMA ResumeStep ==
  ASSUME CallInv, NEW co \in Coroutines, Resume(co)
  PROVE  CallInv'
<1> DEFINE t == Running
           level == nCcalls[t]
           a == Resumption(co)
           resumed == Append(native, a)
<1>1. /\ err = "none" /\ native # <<>> /\ Last(native).op = "function"
      /\ CoStatus(co) = "suspended" /\ fresh' = fresh \ {co} /\ errfunc' = errfunc
      /\ IF level >= MaxCCalls
         THEN /\ nCcalls' = [nCcalls EXCEPT ![co] = level]
              /\ UNCHANGED <<native, ci, size, base, status, errorJmp, err>>
         ELSE /\ nCcalls' = [nCcalls EXCEPT ![co] = level + 1]
              /\ base' = [base EXCEPT ![co] = level + 1]
              /\ errorJmp' = WithBuffer(errorJmp, co, Len(native) + 1)
              /\ status' = [status EXCEPT ![co] = "ok"]
              /\ IF status[co] = "ok"
                 THEN PreCall(co, "Lua", resumed, Append(resumed, Execute(co, 1)))
                 ELSE /\ ci' = [ci EXCEPT ![co] = Front(@)]
                      /\ native' = Append(resumed, Execute(co, Len(ci[co]) - 1))
                      /\ UNCHANGED <<size, err>>
  BY DEF Resume, AtTop, Level, WithBuffer, ResumedCalls
<1>2. /\ native \in Seq(Activations) /\ t \in Threads /\ level \in Nat
      /\ Last(native) = native[Len(native)] /\ level < MaxCCalls + Reserve
  BY <1>1, RunningFacts
<1>3. /\ World(native, Counts, nCcalls, errfunc, base, errorJmp) /\ t = Holder(native)
      /\ Sized /\ Limited /\ Typed /\ Settled(native, Counts, errfunc, status)
  BY DEF CallInv, Running
<1>4. /\ co # t /\ ~ On(native, co) /\ ~ errfunc[co]
      /\ \/ status[co] = "ok" /\ Counts[co] = 0
         \/ status[co] = "yield" /\ Counts[co] >= 2
  BY <1>1, Suspended
<1>5. co \in Threads /\ co # Main /\ Counts[co] = Len(ci[co]) /\ Counts[co] \in Nat
  BY <1>3, CountsType, CallAssumption DEF Threads
<1> HIDE DEF t, level, a, resumed
<1>6. CASE level >= MaxCCalls
  <2>1. /\ nCcalls' = [nCcalls EXCEPT ![co] = level]
        /\ UNCHANGED <<native, ci, size, base, status, errorJmp, errfunc, err>>
    BY <1>1, <1>6
  <2>2. Limited' /\ \A u \in Threads \ {co} : nCcalls'[u] = nCcalls[u]
    <3>1. level \in 0..(MaxCCalls + Reserve)
      BY <1>2, CallAssumption
    <3> QED BY <1>3, <1>5, <2>1, <3>1 DEF Limited
  <2>3. Sized' /\ Counts' = Counts
    BY <1>3, <2>1 DEF Sized, Counts
  <2>4. World(native', Counts', nCcalls', errfunc', base', errorJmp')
    <3>1. World(native, Counts, nCcalls', errfunc, base, errorJmp)
      BY <1>1, <1>3, <1>4, <2>2, WorldOff
    <3> QED BY <2>1, <2>3, <3>1
  <2>5. Settled(native', Counts', errfunc', status')
    BY <1>3, <2>1, <2>3
  <2>6. Typed'
    BY <1>1, <1>3, <2>1 DEF Typed
  <2>7. Raised'
    <3>1. nCcalls'[t] = nCcalls[t] /\ Running' = t
      BY <1>2, <1>4, <2>1, <2>2 DEF t, Running
    <3> QED BY <2>1, <3>1 DEF CallInv, Raised, t
  <2> QED BY <2>2, <2>3, <2>4, <2>5, <2>6, <2>7 DEF CallInv
<1>7. CASE ~ (level >= MaxCCalls)
  <2>1. /\ nCcalls' = [nCcalls EXCEPT ![co] = level + 1]
        /\ base' = [base EXCEPT ![co] = level + 1]
        /\ errorJmp' = WithBuffer(errorJmp, co, Len(native) + 1)
        /\ status' = [status EXCEPT ![co] = "ok"]
        /\ fresh' = fresh \ {co} /\ errfunc' = errfunc
        /\ IF status[co] = "ok"
           THEN PreCall(co, "Lua", resumed, Append(resumed, Execute(co, 1)))
           ELSE /\ ci' = [ci EXCEPT ![co] = Front(@)]
                /\ native' = Append(resumed, Execute(co, Len(ci[co]) - 1))
                /\ UNCHANGED <<size, err>>
    BY <1>1, <1>7
  <2>2. level + 1 \in 0..MaxCCalls /\ level + 1 \in 0..(MaxCCalls + Reserve)
        /\ level + 1 < MaxCCalls + Reserve /\ level < MaxCCalls
    BY <1>2, <1>7, CallAssumption
  <2>3. /\ nCcalls' \in [Threads -> 0..(MaxCCalls + Reserve)] /\ nCcalls'[co] = level + 1
        /\ \A u \in Threads \ {co} : nCcalls'[u] = nCcalls[u]
    BY <1>3, <1>5, <2>1, <2>2 DEF Limited
  <2>4. /\ base' \in [Threads -> 0..MaxCCalls] /\ base'[co] = level + 1 /\ base'[Main] = 0
        /\ \A u \in Threads \ {co} : base'[u] = base[u]
    BY <1>3, <1>5, <2>1, <2>2 DEF Typed, Threads
  <2>5. /\ status' \in [Threads -> {"ok", "yield", "error"}] /\ status'[co] = "ok"
        /\ \A u \in Threads \ {co} : status'[u] = status[u]
    BY <1>3, <1>5, <2>1 DEF Typed
  <2>6. a \in Activations /\ a.op = "resume" /\ a.th = co
    BY <1>5, ActivationsType DEF a, Resumption
  <2> DEFINE c1 == [u \in Threads |-> IF u = co THEN 0 ELSE Counts[u]]
  <2>7. c1[co] = 0 /\ \A u \in Threads \ {co} : c1[u] = Counts[u]
    BY <1>5
  <2> HIDE DEF c1
  <2>8. World(resumed, c1, nCcalls', errfunc, base', errorJmp')
    <3>1. native[Len(native)].op = "function" /\ nCcalls[Holder(native)] < MaxCCalls
      BY <1>1, <1>2, <1>3, <2>2 DEF level
    <3>2. Others(a.th, Counts, nCcalls, errfunc, c1, nCcalls', errfunc)
      BY <2>3, <2>6, <2>7 DEF Others
    <3>3. /\ ~ On(native, a.th) /\ c1[a.th] = 0 /\ nCcalls'[a.th] = nCcalls[Holder(native)] + 1
          /\ ~ errfunc[a.th] /\ base'[a.th] = nCcalls[Holder(native)] + 1
          /\ \A u \in Threads \ {a.th} : base'[u] = base[u]
          /\ errorJmp' = WithBuffer(errorJmp, a.th, Len(native) + 1)
      BY <1>3, <1>4, <2>1, <2>3, <2>4, <2>6, <2>7 DEF level
    <3>4. World(native, Counts, nCcalls, errfunc, base, errorJmp) /\ native # <<>>
      BY <1>1, <1>3
    <3>5. World(Append(native, a), c1, nCcalls', errfunc, base', errorJmp')
      BY <2>6, <3>1, <3>2, <3>3, <3>4, WorldResume
    <3> QED BY <3>5 DEF resumed
  <2>9. /\ resumed \in Seq(Activations) /\ resumed # <<>> /\ resumed[Len(resumed)] = a
        /\ Holder(resumed) = co /\ \A u : On(resumed, u) <=> On(native, u) \/ u = co
    <3>1. resumed \in Seq(Activations) /\ resumed # <<>> /\ resumed[Len(resumed)] = a
      BY <1>2, <2>6, Pushed DEF resumed
    <3>2. Holder(resumed) = co
      BY <1>2, <2>6, HolderPush DEF resumed
    <3>3. \A u : On(resumed, u) <=> On(native, u) \/ u = co
      BY <1>2, <2>6, OnPush DEF resumed
    <3> QED BY <3>1, <3>2, <3>3
  \* luaV_execute for the n calls that are left.
  <2>10. ASSUME NEW n \in Nat \ {0}, native' = Append(resumed, Execute(co, n)),
                Counts'[co] = n, \A u \in Threads \ {co} : Counts'[u] = Counts[u]
         PROVE  /\ World(native', Counts', nCcalls', errfunc, base', errorJmp')
                /\ native' # <<>> /\ native'[Len(native')].op # "pcall" /\ Holder(native') = co
                /\ \A u : On(native', u) <=> On(resumed, u)
    <3> DEFINE x == Execute(co, n)
    <3>1. x \in Activations /\ x.op = "execute" /\ x.th = co /\ Runs(x) = n /\ Counted(x) = 0
          /\ "resume" \in Callers(x)
      BY <1>5, ActivationsType DEF Execute, Runs, Counted, Callers
    <3>2. native' = Append(resumed, x)
      BY <2>10
    <3> HIDE DEF x
    <3>3. /\ x.op \in {"call", "execute", "function"} /\ x.th = Holder(resumed)
          /\ resumed[Len(resumed)].op \in Callers(x)
          /\ Others(x.th, c1, nCcalls', errfunc, Counts', nCcalls', errfunc)
          /\ Counts'[x.th] = c1[x.th] + Runs(x) /\ nCcalls'[x.th] = nCcalls'[x.th] + Counted(x)
          /\ errfunc[x.th] = errfunc[x.th]
      BY <1>2, <2>3, <2>6, <2>7, <2>9, <2>10, <3>1 DEF Others
    <3>4. World(native', Counts', nCcalls', errfunc, base', errorJmp')
      BY <2>8, <2>9, <3>1, <3>2, <3>3, WorldPush
    <3>5. native' # <<>> /\ native'[Len(native')] = x /\ Holder(native') = co
      BY <2>9, <3>1, <3>2, HolderPush, Pushed
    <3>6. \A u : On(native', u) <=> On(resumed, u)
      BY <2>9, <3>1, <3>2, OnPush
    <3> QED BY <3>1, <3>4, <3>5, <3>6
  <2>11. /\ Sized' /\ err' \in Errors /\ \A u \in Threads \ {co} : Counts'[u] = Counts[u]
         /\ World(native', Counts', nCcalls', errfunc, base', errorJmp')
         /\ native' # <<>> /\ native'[Len(native')].op # "pcall" /\ Holder(native') = co
         /\ \A u : On(native', u) <=> On(resumed, u)
    <3>1. CASE status[co] = "ok"
      <4>1. PreCall(co, "Lua", resumed, Append(resumed, Execute(co, 1))) /\ "Lua" \in Kinds
        BY <2>1, <3>1 DEF Kinds
      <4>2. /\ Sized' /\ err' \in Errors
            /\ \A u \in Threads \ {co} : Counts'[u] = Counts[u]
            /\ \/ /\ err' = "none" /\ native' = Append(resumed, Execute(co, 1))
                  /\ Counts'[co] = Counts[co] + 1
               \/ err' # "none" /\ native' = resumed /\ Counts' = Counts
        BY <1>3, <1>5, <4>1, PreCallStep
      <4>3. Counts[co] = 0
        BY <1>4, <3>1
      <4>4. CASE err' = "none"
        <5>1. native' = Append(resumed, Execute(co, 1)) /\ Counts'[co] = 1 /\ 1 \in Nat \ {0}
          BY <4>2, <4>3, <4>4
        <5> QED BY <2>10, <4>2, <5>1
      <4>5. CASE err' # "none"
        <5>1. native' = resumed /\ \A u \in Threads : Counts'[u] = c1[u]
          BY <2>7, <4>2, <4>3, <4>5
        <5>2. World(native', Counts', nCcalls', errfunc, base', errorJmp')
          BY <2>8, <5>1, WorldSame
        <5> QED BY <2>6, <2>9, <4>2, <5>1, <5>2
      <4> QED BY <4>4, <4>5
    <3>2. CASE status[co] # "ok"
      <4>1. Counts[co] >= 1 /\ Len(ci[co]) - 1 \in Nat \ {0}
        <5>1. Counts[co] >= 2
          BY <1>4, <3>2
        <5> DEFINE m == Counts[co]
        <5>2. m \in Nat /\ m >= 2
          BY <1>5, <5>1
        <5>3. m = Len(ci[co])
          BY <1>5
        <5> HIDE DEF m
        <5>4. m >= 1
          BY <5>2
        <5>5. m - 1 \in Nat /\ m - 1 # 0
          BY <5>2
        <5> QED BY <5>3, <5>4, <5>5 DEF m
      <4>2. /\ ci' = [ci EXCEPT ![co] = Front(@)] /\ size' = size /\ err' = err
            /\ native' = Append(resumed, Execute(co, Len(ci[co]) - 1))
        BY <2>1, <3>2
      <4>3. /\ Sized' /\ Counts'[co] = Counts[co] - 1
            /\ \A u \in Threads \ {co} : Counts'[u] = Counts[u]
        <5>1. Sized /\ co \in Threads /\ ci' = [ci EXCEPT ![co] = Front(@)] /\ size' = size
          BY <1>3, <1>5, <4>2
        <5> QED BY <4>1, <5>1, CallInfoPopped
      <4>4. Counts'[co] = Len(ci[co]) - 1
        BY <1>5, <4>3
      <4>5. err' \in Errors
        BY <1>3, <4>2 DEF Typed
      <4> QED BY <2>10, <4>1, <4>2, <4>3, <4>4, <4>5
    <3> QED BY <3>1, <3>2
  <2>12. Settled(native', Counts', errfunc', status')
    <3> SUFFICES ASSUME NEW u \in Coroutines
                 PROVE SettledAt(native', Counts', errfunc', status', u)
      BY DEF Settled
    <3>1. On(native', u) <=> On(native, u) \/ u = co
      BY <2>9, <2>11
    <3>2. CASE u = co
      BY <2>5, <3>1, <3>2 DEF SettledAt
    <3>3. CASE u # co
      <4>1. Counts'[u] = Counts[u] /\ status'[u] = status[u] /\ errfunc'[u] = errfunc[u]
            /\ (On(native', u) <=> On(native, u))
        BY <2>1, <2>5, <2>11, <3>1, <3>3 DEF Threads
      <4>2. SettledAt(native, Counts, errfunc, status, u)
        BY <1>3 DEF Settled
      <4> QED BY <4>1, <4>2, SettledSame
    <3> QED BY <3>2, <3>3
  <2>13. Limited' /\ Typed'
    BY <1>3, <2>1, <2>3, <2>4, <2>5, <2>11 DEF Limited, Typed
  <2>14. Raised'
    BY <1>2, <2>2, <2>3, <2>11, CallAssumption DEF Raised, Running
  <2> QED BY <2>1, <2>11, <2>12, <2>13, <2>14 DEF CallInv
<1> QED BY <1>6, <1>7

\* A thread that may yield was resumed, and there is no C call in between.
LEMMA YieldPlace ==
  ASSUME CallInv, AtTop("function"), MayYield(Running)
  PROVE  /\ Running \in Coroutines /\ Len(native) >= 3
         /\ native[Len(native) - 1].op = "execute"
         /\ native[Len(native) - 2].op = "resume"
<1> DEFINE t == Running
           l == Len(native)
<1>1. /\ native \in Seq(Activations) /\ Stack(native) /\ t \in Threads /\ native # <<>>
      /\ t = native[l].th /\ native[l].op = "function" /\ nCcalls[t] = Depth(native, l)
  BY RunningFacts DEF AtTop
<1>2. nCcalls[t] <= base[t] /\ base[Main] = 0 /\ Kept(native, Counts, nCcalls, errfunc, base)
  BY DEF MayYield, CallInv, World, Typed
<1>3. l \in Nat /\ l >= 1
  BY <1>1
<1>4. \A i \in 1..l : native[i].op \in {"execute", "function"} =>
        i >= 2 /\ native[i - 1].op \in Callers(native[i])
  BY <1>1 DEF Stack, Ordered
<1> HIDE DEF t, l
\* The C calls below: the function and luaV_execute have one.
<1>5. ASSUME NEW r \in 0..l, \A i \in (r + 1)..l : native[i].op \notin {"call", "resume"},
             r # 0 => native[r].op = "resume"
      PROVE  r # 0 /\ l - 1 >= r + 1 /\ l - 2 = r /\ native[l - 1].op = "execute"
  <2>1. l >= 2 /\ native[l - 1].op \in {"call", "execute"}
    BY <1>1, <1>3, <1>4 DEF Callers
  <2>2. l - 1 > r
    <3>1. r # l
      BY <1>1, <1>3, <1>5
    <3>2. r # l - 1
      BY <1>3, <1>5, <2>1
    <3> QED BY <1>3, <3>1, <3>2
  <2>3. native[l - 1].op = "execute" /\ l - 1 \in 1..l
    BY <1>3, <1>5, <2>1, <2>2
  <2>4. l - 1 >= 2 /\ native[(l - 1) - 1].op \in {"call", "resume"}
    BY <1>4, <2>3 DEF Callers
  <2>5. ~ (l - 2 > r)
    BY <1>3, <1>5, <2>4
  <2> QED BY <1>3, <2>2, <2>3, <2>4, <2>5
<1>6. t # Main
  <2> SUFFICES ASSUME t = Main PROVE FALSE
    OBVIOUS
  <2>1. Depth(native, 0) = 0
    BY EmptyStack DEF Fits
  <2>2. Depth(native, l) = 0
    <3>1. Depth(native, l) \in Nat
      BY <1>3, DepthType
    <3>2. nCcalls[t] <= 0
      BY <1>2
    <3> QED BY <1>1, <3>1, <3>2
  <2>3. \A i \in (0 + 1)..l : native[i].op \notin {"call", "resume"}
    BY <1>3, <2>1, <2>2, DepthGrows
  <2>4. 0 \in 0..l /\ 0 <= l
    BY <1>3
  <2> QED BY <1>5, <2>3, <2>4
<1>7. PICK r \in 1..l : native[r].op = "resume" /\ native[r].th = t
  BY <1>1, <1>3, <1>6 DEF Stack, Rooted, l
<1>8. base[t] = Depth(native, r)
  BY <1>2, <1>7 DEF Kept, l
<1>9. \A i \in (r + 1)..l : native[i].op \notin {"call", "resume"}
  <2>1. r \in Nat /\ l \in Nat /\ r <= l
    BY <1>3
  <2>2. Depth(native, r) \in Nat /\ Depth(native, l) \in Nat
    BY <2>1, DepthType
  <2>3. Depth(native, r) <= Depth(native, l)
    BY <2>1, DepthGrows
  <2>4. Depth(native, r) = Depth(native, l)
    BY <1>1, <1>2, <1>8, <2>2, <2>3
  <2> QED BY <2>1, <2>4, DepthGrows
<1>10. l - 1 >= r + 1 /\ l - 2 = r /\ native[l - 1].op = "execute"
  BY <1>5, <1>7, <1>9
<1>11. t \in Coroutines
  BY <1>1, <1>6 DEF Threads
<1>12. l >= 3 /\ native[l - 2].op = "resume"
  BY <1>3, <1>7, <1>10
<1> QED BY <1>10, <1>11, <1>12 DEF t, l

\* A yield, down to the lua_resume, keeps the invariant.
LEMMA YieldStep ==
  ASSUME CallInv, Yield
  PROVE  CallInv'
<1> DEFINE t == Running
           s == Front(native)
           u == Front(s)
           a == native[Len(native)]
           x == native[Len(native) - 1]
<1>1. CASE ~ MayYield(t)
  <2>1. Raise("run")
    BY <1>1 DEF Yield, Raise, perThread
  <2> QED BY <2>1, RaiseStep
<1>2. CASE MayYield(t)
  <2>1. /\ err = "none" /\ native # <<>> /\ Last(native).op = "function"
        /\ status' = [status EXCEPT ![t] = "yield"]
        /\ Leave(t, IF Last(s).op = "execute" THEN Front(s) ELSE s)
        /\ UNCHANGED <<ci, size, base, fresh>>
    BY <1>2 DEF Yield, AtTop
  <2>2. /\ t \in Coroutines /\ Len(native) >= 3 /\ x.op = "execute"
        /\ native[Len(native) - 2].op = "resume"
    BY <1>2, YieldPlace DEF Yield
  <2>3. /\ native \in Seq(Activations) /\ Stack(native) /\ t \in Threads /\ Last(native) = a
        /\ a \in Activations /\ a.th = t /\ Counts[t] \in Nat /\ nCcalls[t] \in Nat
        /\ nCcalls[t] < MaxCCalls + Reserve /\ On(native, t)
    BY <2>1, RunningFacts
  <2>4. /\ World(native, Counts, nCcalls, errfunc, base, errorJmp) /\ t = Holder(native)
        /\ Sized /\ Limited /\ Typed /\ Settled(native, Counts, errfunc, status)
    BY DEF CallInv, Running
  <2>5. /\ s = SubSeq(native, 1, Len(native) - 1) /\ s \in Seq(Activations)
        /\ Len(s) = Len(native) - 1 /\ s # <<>> /\ Last(s) = x
    BY <2>1, <2>2, <2>3, FrontFacts
  <2>6. /\ u = SubSeq(s, 1, Len(s) - 1) /\ u \in Seq(Activations) /\ Len(u) = Len(s) - 1
        /\ u # <<>> /\ Last(u) = s[Len(s) - 1] /\ Last(s) = s[Len(s)] /\ Last(u) = u[Len(u)]
    <3>1. Len(s) > 1
      BY <2>2, <2>3, <2>5
    <3>2. s \in Seq(Activations) /\ s # <<>>
      BY <2>5
    <3> HIDE DEF s
    <3>3. /\ u = SubSeq(s, 1, Len(s) - 1) /\ u \in Seq(Activations) /\ Len(u) = Len(s) - 1
          /\ u # <<>> /\ Last(u) = s[Len(s) - 1] /\ Last(s) = s[Len(s)]
      BY <3>1, <3>2, FrontFacts
    <3>4. Last(u) = u[Len(u)]
      BY DEF Last
    <3> QED BY <3>3, <3>4
  <2>7. s[Len(s) - 1] = native[Len(native) - 2] /\ Len(native) \in Nat
    BY <2>2, <2>3, <2>5
  <2>8. Leave(t, u)
    BY <2>1, <2>2, <2>5
  <2>9. Last(u).op = "resume" /\ x = s[Len(s)]
    BY <2>2, <2>5, <2>6, <2>7
  <2>10. SubSeq(native, 1, Len(native) - 2) = u /\ native[Len(native) - 1] = x
    BY <2>2, <2>3, <2>5, <2>6
  <2> HIDE DEF t, s, u, a, x
  <2>11. a.op = "function" /\ Runs(a) = 1 /\ Counted(a) = 0
    BY <2>1, <2>3 DEF Runs, Counted
  <2> DEFINE c1 == [v \in Threads |-> IF v = t THEN Counts[t] - 1 ELSE Counts[v]]
  <2>12. c1[t] = Counts[t] - 1 /\ \A v \in Threads \ {t} : c1[v] = Counts[v]
    BY <2>3
  <2> HIDE DEF c1
  <2>13. /\ World(s, c1, nCcalls, errfunc, base, errorJmp) /\ Holder(s) = t /\ x.th = t
    <3>1. /\ a = native[Len(native)] /\ a.op \in {"call", "execute", "function"}
          /\ Others(a.th, Counts, nCcalls, errfunc, c1, nCcalls, errfunc)
          /\ c1[a.th] = Counts[a.th] - Runs(a) /\ nCcalls[a.th] = nCcalls[a.th] - Counted(a)
          /\ errfunc[a.th] = errfunc[a.th]
      BY <2>3, <2>11, <2>12 DEF Others, a
    <3>2. /\ World(SubSeq(native, 1, Len(native) - 1), c1, nCcalls, errfunc, base, errorJmp)
          /\ Holder(SubSeq(native, 1, Len(native) - 1)) = a.th
          /\ native[Len(native) - 1].th = a.th
      BY <2>1, <2>4, <3>1, WorldPop
    <3> QED BY <2>3, <2>5, <2>10, <3>2
  <2>14. x \in Activations /\ Runs(x) \in Nat \ {0} /\ Counted(x) = 0
    <3>1. x \in Activations
      BY <2>5, <2>6, <2>9
    <3> QED BY <2>2, <3>1 DEF Activations, Runs, Counted
  <2> DEFINE c2 == [v \in Threads |-> IF v = t THEN c1[t] - Runs(x) ELSE Counts[v]]
  <2>15. c2[t] = c1[t] - Runs(x) /\ \A v \in Threads \ {t} : c2[v] = Counts[v]
    BY <2>3
  <2> HIDE DEF c2
  <2>16. /\ World(u, c2, nCcalls, errfunc, base, errorJmp) /\ Holder(u) = t
    <3>1. /\ x = s[Len(s)] /\ x.op \in {"call", "execute", "function"}
          /\ Others(x.th, c1, nCcalls, errfunc, c2, nCcalls, errfunc)
          /\ c2[x.th] = c1[x.th] - Runs(x) /\ nCcalls[x.th] = nCcalls[x.th] - Counted(x)
          /\ errfunc[x.th] = errfunc[x.th]
      BY <2>2, <2>3, <2>9, <2>12, <2>13, <2>14, <2>15 DEF Others
    <3>2. World(s, c1, nCcalls, errfunc, base, errorJmp) /\ s # <<>>
      BY <2>5, <2>13
    <3>3. /\ World(SubSeq(s, 1, Len(s) - 1), c2, nCcalls, errfunc, base, errorJmp)
          /\ Holder(SubSeq(s, 1, Len(s) - 1)) = x.th
      BY <3>1, <3>2, WorldPop
    <3> QED BY <2>6, <2>13, <3>3
  <2>17. Counts[t] >= 2
    <3>1. c2[t] \in Nat
      BY <2>16, WorldHolder
    <3> QED BY <2>3, <2>12, <2>14, <2>15, <3>1
  <2>18. Sized' /\ Counts' = Counts
    BY <2>1, <2>4 DEF Sized, Counts
  <2>19. /\ status' \in [Threads -> {"ok", "yield", "error"}] /\ status'[t] = "yield"
         /\ \A co \in Coroutines \ {t} : status'[co] = status[co]
    BY <2>1, <2>3, <2>4 DEF Typed, Threads
  <2>20. Settled(u, c2, errfunc, status)
    <3> SUFFICES ASSUME NEW co \in Coroutines PROVE SettledAt(u, c2, errfunc, status, co)
      BY DEF Settled
    <3>1. SettledAt(native, Counts, errfunc, status, co)
      BY <2>4 DEF Settled
    <3>2. CASE co = t
      <4>1. On(u, co)
        BY <2>6, <2>16, <3>2, OnHolder
      <4> QED BY <2>3, <3>1, <3>2, <4>1 DEF SettledAt
    <3>3. CASE co # t
      <4> DEFINE n == Len(native) - 2
      <4>1. n \in Nat /\ n < Len(native) /\ n + 1 = Len(native) - 1
        BY <2>2, <2>7
      <4>2. native[n + 1].th = Holder(native) /\ SubSeq(native, 1, n) = u
        BY <2>4, <2>10, <2>13, <4>1
      <4> HIDE DEF n
      <4>3. On(u, co) <=> On(native, co)
        BY <2>3, <2>4, <3>3, <4>1, <4>2, OnCut
      <4>4. c2[co] = Counts[co]
        BY <2>15, <3>3 DEF Threads
      <4> QED BY <3>1, <4>3, <4>4, SettledSame
    <3> QED BY <3>2, <3>3
  <2>21. /\ World(native', Counts', nCcalls', errfunc', base, errorJmp')
         /\ Limited' /\ err' \in Errors
         /\ errfunc' \in [Threads -> BOOLEAN]
         /\ native' # <<>> => native'[Len(native')].op # "pcall"
         /\ err' # "none" => native' # <<>>
         /\ nCcalls'[Holder(native')] < MaxCCalls + Reserve
         /\ Settled(native', Counts', errfunc', status')
    <3>1. Others(t, c2, nCcalls, errfunc, Counts', nCcalls, errfunc)
      BY <2>15, <2>18 DEF Others
    <3>2. u[Len(u)].op \in {"call", "execute", "resume"} /\ u # <<>> /\ Last(u).op = "resume"
      BY <2>6, <2>9
    <3>3. errfunc \in [Threads -> BOOLEAN] /\ err = "none" /\ Limited
          /\ t = Holder(u) /\ nCcalls[t] < MaxCCalls + Reserve
      BY <2>1, <2>3, <2>4, <2>16 DEF Typed
    <3>4. (status'[t] = "ok" /\ Counts'[t] = 0) \/ (status'[t] = "yield" /\ Counts'[t] >= 2)
      BY <2>17, <2>18, <2>19
    <3> QED BY <2>3, <2>8, <2>16, <2>18, <2>19, <2>20, <3>1, <3>2, <3>3, <3>4, LeaveStep
  <2>22. Typed' /\ base' = base
    BY <2>1, <2>4, <2>19, <2>21 DEF Typed
  <2>23. Raised'
    <3>1. nCcalls'[Holder(native')] \in Nat
      BY <2>21, WorldHolder
    <3> QED BY <2>21, <3>1, CallAssumption DEF Raised, Running
  <2> QED BY <2>18, <2>21, <2>22, <2>23 DEF CallInv
<1> QED BY <1>1, <1>2

-----------------------------------------------------------------------------
(* The theorems.                                                           *)

\* lua_newstate establishes the invariant.
LEMMA CallInit ==
  ASSUME Init
  PROVE  CallInv
<1>1. /\ native = <<>> /\ fresh = Coroutines /\ err = "none" /\ Running = Main /\ Main \in Threads
      /\ native \in Seq(Activations) /\ Len(native) = 0 /\ 1..Len(native) = {}
  BY DEF Init, Running, Holder, Threads
<1>2. \A t \in Threads :
        /\ Counts[t] = 0 /\ ci[t] = <<>> /\ size[t] = BasicCI /\ nCcalls[t] = 0 /\ base[t] = 0
        /\ status[t] = "ok" /\ errorJmp[t] = <<>> /\ errfunc[t] = FALSE
  BY DEF Init, Counts
<1>3. Sized
  BY <1>2, CallAssumption DEF Init, Sized
<1>4. Limited
  <2>1. 0 \in 0..(MaxCCalls + Reserve)
    BY CallAssumption
  <2> QED BY <2>1 DEF Init, Limited
<1>5. Typed
  <2>1. 0 \in 0..MaxCCalls
    BY CallAssumption
  <2> QED BY <1>1, <1>2, <2>1 DEF Init, Typed, Errors
<1>6. Raised
  BY <1>1, <1>2, CallAssumption DEF Raised
<1>7. World(native, Counts, nCcalls, errfunc, base, errorJmp)
  <2>1. Stack(native)
    BY <1>1 DEF Stack, Separated, Rooted, Ordered
  <2>2. Kept(native, Counts, nCcalls, errfunc, base)
    BY <1>1 DEF Kept
  <2>3. Current(native, Counts, nCcalls, errfunc)
    <3>1. Fits(native, 0, Main, 0, 0, FALSE)
      BY EmptyStack
    <3> QED BY <1>1, <1>2, <3>1 DEF Current, Running
  <2>4. errorJmp \in [Threads -> Seq(Nat)]
    BY DEF Init
  <2>5. ASSUME NEW t \in Threads
        PROVE  Ascending(errorJmp[t]) /\ Range(errorJmp[t]) = Buffers(native, t)
    <3>1. errorJmp[t] = <<>> /\ DOMAIN errorJmp[t] = {} /\ DOMAIN native = {}
      BY <1>1, <1>2
    <3> QED BY <3>1 DEF Ascending, Buffers, Range
  <2> QED BY <1>1, <2>1, <2>2, <2>3, <2>4, <2>5 DEF World, Chained
<1>8. Settled(native, Counts, errfunc, status)
  BY <1>1, <1>2 DEF Settled, SettledAt, On, Threads
<1> QED BY <1>3, <1>4, <1>5, <1>6, <1>7, <1>8 DEF CallInv

\* What the threads believe about themselves agrees with the C stack, at every
\* place that control can come back to.
THEOREM CallInvariant == Spec => []CallInv
<1>1. Init => CallInv
  BY CallInit
<1>2. CallInv /\ [Next]_vars => CallInv'
  <2> SUFFICES ASSUME CallInv, [Next]_vars PROVE CallInv'
    OBVIOUS
  <2>1. ASSUME NEW f \in Kinds, CallFromLua(f) \/ CallThroughC(f) \/ CallHandler(f) PROVE CallInv'
    BY <2>1, CallFromLuaStep, CallThroughCStep, CallHandlerStep
  <2>2. ASSUME NEW f \in Kinds, NEW h \in BOOLEAN, ProtectedCall(f, h) PROVE CallInv'
    BY <2>2, ProtectedCallStep
  <2>3. CASE TailCall
    BY <2>3, TailCallStep
  <2>4. CASE ReturnFromLua
    BY <2>4, ReturnFromLuaStep
  <2>5. CASE ReturnFromC
    BY <2>5, ReturnFromCStep
  <2>6. ASSUME NEW kind \in {"run", "throw"}, Raise(kind) PROVE CallInv'
    BY <2>6, RaiseStep
  <2>7. CASE Throw
    BY <2>7, ThrowStep
  <2>8. ASSUME NEW co \in Coroutines, Resume(co) PROVE CallInv'
    BY <2>8, ResumeStep
  <2>9. CASE Yield
    BY <2>9, YieldStep
  <2>10. CASE UNCHANGED vars
    BY <2>10, StutterStep
  <2> QED BY <2>1, <2>2, <2>3, <2>4, <2>5, <2>6, <2>7, <2>8, <2>9, <2>10 DEF Next
<1> QED BY <1>1, <1>2, PTL DEF Spec

\* The invariant gives types,
LEMMA CallTyped ==
  ASSUME CallInv
  PROVE  TypeOK
BY DEF CallInv, World, Sized, Limited, Typed, TypeOK, Errors

\* No operation leaves a CallInfo array without room for the next error, nor
\* takes nCcalls over the limit that the handling of an overflow has.
THEOREM CallTypes == Spec => []TypeOK
<1>1. CallInv => TypeOK
  BY CallTyped
<1> QED BY <1>1, CallInvariant, PTL

\* live jump buffers,
LEMMA BuffersLive ==
  ASSUME CallInv
  PROVE  JumpBuffersLive
<1>1. \A t \in Threads : Ascending(errorJmp[t]) /\ Range(errorJmp[t]) = Buffers(native, t)
  BY DEF CallInv, World, Chained
<1>2. ASSUME err # "none" PROVE errorJmp[Running] # <<>>
  <2>1. /\ native # <<>> /\ native \in Seq(Activations) /\ Stack(native) /\ Running \in Threads
        /\ Running = native[Len(native)].th
    BY <1>2, RunningFacts DEF CallInv, Raised
  <2>2. 1 \in 1..Len(native) /\ Len(native) \in 1..Len(native)
    BY <2>1
  <2>3. PICK i \in 1..Len(native) : native[i].th = Running /\ native[i].op \in {"pcall", "resume"}
    <3>1. CASE Running = Main
      BY <2>1, <2>2, <3>1 DEF Stack, Ordered
    <3>2. CASE Running # Main
      <4>1. PICK j \in 1..Len(native) : native[j].op = "resume" /\ native[j].th = Running
        BY <2>1, <2>2, <3>2 DEF Stack, Rooted
      <4> QED BY <4>1
    <3> QED BY <3>1, <3>2
  <2>4. i \in Range(errorJmp[Running])
    BY <1>1, <2>1, <2>3, BuffersBound DEF IsBuffer
  <2> QED BY <2>4 DEF Range
<1> QED BY <1>1, <1>2 DEF JumpBuffersLive

\* luaD_throw always has a buffer to jump to, of an activation that is still
\* on the C stack and is the innermost one of the thread that has one.
THEOREM JumpsLive == Spec => []JumpBuffersLive
<1>1. CallInv => JumpBuffersLive
  BY BuffersLive
<1> QED BY <1>1, CallInvariant, PTL

\* A thread that is on the C stack fits it up to its last activation.
LEMMA OnFits ==
  ASSUME CallInv, NEW t, On(native, t)
  PROVE  \E n \in 1..Len(native) :
           /\ native[n].th = t /\ \A j \in (n + 1)..Len(native) : native[j].th # t
           /\ Fits(native, n, t, Counts[t], nCcalls[t], errfunc[t])
<1>1. native \in Seq(Activations) /\ Stack(native)
  BY RunningFacts
<1>2. CASE t = Running
  <2>1. native # <<>>
    BY DEF On
  <2>2. Len(native) \in 1..Len(native) /\ (Len(native) + 1)..Len(native) = {}
    BY <1>1, <2>1
  <2>3. native[Len(native)].th = t
    BY <1>2, <2>1, RunningFacts
  <2>4. Fits(native, Len(native), t, Counts[t], nCcalls[t], errfunc[t])
    BY <1>2 DEF CallInv, World, Current, Running
  <2> QED BY <2>2, <2>3, <2>4
<1>3. CASE t # Running
  <2>1. PICK k \in 2..Len(native) :
          native[k].op = "resume" /\ native[k - 1].th = t /\ \A j \in k..Len(native) : native[j].th # t
    BY <1>1, <1>3, Waiting DEF Running
  <2>2. k \in 1..Len(native) /\ k - 1 \in 1..Len(native) /\ ((k - 1) + 1)..Len(native) = k..Len(native)
    BY <1>1
  <2>3. Fits(native, k - 1, t, Counts[t], nCcalls[t], errfunc[t])
    BY <2>1, <2>2 DEF CallInv, World, Kept
  <2> QED BY <2>1, <2>2, <2>3
<1> QED BY <1>2, <1>3

\* the count of C calls,
LEMMA CountsKept ==
  ASSUME CallInv
  PROVE  CallsCounted
<1> SUFFICES ASSUME NEW i \in DOMAIN native, Topmost(i)
             PROVE nCcalls[native[i].th] = Depth(native, i)
  BY DEF CallsCounted
<1> DEFINE t == native[i].th
<1>1. native \in Seq(Activations) /\ DOMAIN native = 1..Len(native)
  BY RunningFacts
<1>2. On(native, t)
  BY <1>1 DEF On
<1>3. PICK n \in 1..Len(native) :
        /\ native[n].th = t /\ \A j \in (n + 1)..Len(native) : native[j].th # t
        /\ Fits(native, n, t, Counts[t], nCcalls[t], errfunc[t])
  BY <1>2, OnFits
<1>4. ~ (n > i)
  BY <1>1, <1>3 DEF Topmost
<1>5. ~ (i > n)
  BY <1>1, <1>3
<1>6. n = i
  BY <1>1, <1>4, <1>5
<1> QED BY <1>3, <1>6 DEF Fits

\* The C calls that a thread counts, for the overflow and the yields it may
\* make, are those on the C stack.
THEOREM CallsAreCounted == Spec => []CallsCounted
<1>1. CallInv => CallsCounted
  BY CountsKept
<1> QED BY <1>1, CallInvariant, PTL

\* (the property's words and the proof's for being on the C stack)
LEMMA OnSame ==
  ASSUME CallInv, NEW t
  PROVE  OnCStack(t) <=> On(native, t)
<1>1. DOMAIN native = 1..Len(native)
  BY RunningFacts
<1> QED BY <1>1 DEF OnCStack, On

\* The last activation of a thread measures the thread.
LEMMA OnMeasures ==
  ASSUME CallInv, NEW t, On(native, t)
  PROVE  /\ Counts[t] = Cardinality(Frames(native, t, Len(native)))
         /\ errfunc[t] <=> Handled(native, t, Len(native))
<1>1. PICK n \in 1..Len(native) :
        /\ native[n].th = t /\ \A j \in (n + 1)..Len(native) : native[j].th # t
        /\ Fits(native, n, t, Counts[t], nCcalls[t], errfunc[t])
  BY OnFits
<1>2. n \in Nat /\ Len(native) \in Nat /\ n <= Len(native)
  BY RunningFacts
<1>3. /\ Frames(native, t, Len(native)) = Frames(native, t, n)
      /\ Handled(native, t, Len(native)) <=> Handled(native, t, n)
  BY <1>1, <1>2, FitsAbove
<1> QED BY <1>1, <1>3 DEF Fits

\* the CallInfos that run,
LEMMA CallInfosKept ==
  ASSUME CallInv
  PROVE  CallInfosRun
<1> SUFFICES ASSUME NEW t \in Threads, OnCStack(t)
             PROVE Len(ci[t]) = Cardinality(Frames(native, t, Len(native)))
  BY DEF CallInfosRun
<1>1. Counts[t] = Cardinality(Frames(native, t, Len(native)))
  BY OnSame, OnMeasures
<1> QED BY <1>1 DEF Counts

\* A thread on the C stack has one CallInfo for each function that runs there.
THEOREM CallInfosAreRun == Spec => []CallInfosRun
<1>1. CallInv => CallInfosRun
  BY CallInfosKept
<1> QED BY <1>1, CallInvariant, PTL

\* the innermost handler
LEMMA HandlersKept ==
  ASSUME CallInv
  PROVE  InnermostHandler
<1> SUFFICES ASSUME NEW t \in Threads PROVE errfunc[t] = Handled(native, t, Len(native))
  BY DEF InnermostHandler
<1>1. errfunc[t] \in BOOLEAN /\ Handled(native, t, Len(native)) \in BOOLEAN
  BY DEF CallInv, Typed, Handled
<1>2. native \in Seq(Activations) /\ Stack(native)
  BY RunningFacts
<1>3. CASE On(native, t)
  BY <1>1, <1>3, OnMeasures
<1>4. CASE ~ On(native, t) /\ t \in Coroutines
  <2>1. ~ errfunc[t]
    BY <1>4 DEF CallInv, Settled, SettledAt
  <2>2. ~ Handled(native, t, Len(native))
    BY <1>4 DEF Handled, Guards, On
  <2> QED BY <1>1, <2>1, <2>2
<1>5. CASE ~ On(native, t) /\ t = Main
  <2>1. native = <<>>
    <3> SUFFICES ASSUME native # <<>> PROVE FALSE
      OBVIOUS
    <3>1. 1 \in 1..Len(native) /\ native[1].th = Main
      BY <1>2 DEF Stack, Ordered
    <3> QED BY <1>5, <3>1 DEF On
  <2>2. Running = Main
    BY <2>1 DEF Running, Holder
  <2>3. errfunc[t] <=> Handled(native, t, Len(native))
    BY <1>5, <2>2 DEF CallInv, World, Current, Fits, Running
  <2> QED BY <1>1, <2>3
<1> QED BY <1>3, <1>4, <1>5 DEF Threads

\* An error of a thread finds the handler of its innermost lua_pcall, also when
\* others were nested and left in any way.
THEOREM HandlersInnermost == Spec => []InnermostHandler
<1>1. CallInv => InnermostHandler
  BY HandlersKept
<1> QED BY <1>1, CallInvariant, PTL

\* and truthful statuses.
LEMMA StatusKept ==
  ASSUME CallInv
  PROVE  StatusTruthful
<1> SUFFICES ASSUME NEW co \in Coroutines
             PROVE OnCStack(co) <=> CoStatus(co) \in {"running", "normal"}
  BY DEF StatusTruthful
<1>1. OnCStack(co) <=> On(native, co)
  BY OnSame
<1>2. SettledAt(native, Counts, errfunc, status, co)
  BY DEF CallInv, Settled
<1>3. Counts[co] = Len(ci[co]) /\ ci[co] \in Seq(Kinds)
  BY DEF Counts, CallInv, Sized, Threads
<1>4. CASE co = Running
  <2>1. native # <<>>
    BY <1>4, CallAssumption DEF Running, Holder
  <2>2. On(native, co)
    BY <1>4, <2>1, RunningFacts
  <2> QED BY <1>1, <1>4, <2>2 DEF CoStatus
<1>5. CASE co # Running
  <2>1. CoStatus(co) \in {"running", "normal"} <=>
          status[co] # "yield" /\ status[co] # "error" /\ ci[co] # <<>>
    BY <1>5 DEF CoStatus
  <2>2. On(native, co) => status[co] = "ok" /\ Counts[co] >= 1
    BY <1>2, <1>5, WaitingRuns DEF SettledAt
  <2>3. Counts[co] >= 1 => ci[co] # <<>>
    BY <1>3
  <2>4. Counts[co] = 0 => ci[co] = <<>>
    <3>1. \A q \in Seq(Kinds) : Len(q) = 0 => q = <<>>
      OBVIOUS
    <3> QED BY <1>3, <3>1
  <2> QED BY <1>1, <1>2, <2>1, <2>2, <2>3, <2>4 DEF SettledAt
<1> QED BY <1>4, <1>5

\* coroutine.status tells which threads have something on the C stack.
THEOREM StatusIsTruthful == Spec => []StatusTruthful
<1>1. CallInv => StatusTruthful
  BY StatusKept
<1> QED BY <1>1, CallInvariant, PTL
=============================================================================
