---------------------------- MODULE LuaGC_precise ----------------------------
(***************************************************************************)
(* Proof that a full collection is precise: what luaC_fullgc leaves is in  *)
(* every set that holds the roots and is closed under strong references.   *)
(*                                                                         *)
(* Such a set S is fixed in advance, and every step of the collection is   *)
(* shown to add only members of S to what is marked.  What S has to hold   *)
(* grows on the way, when userdata is separated, and shrinks when entries  *)
(* of weak tables are cleared and garbage is freed; so a set that is       *)
(* closed after a step must be shown to be closed before it.               *)
(***************************************************************************)
EXTENDS LuaGC_safety

\* S holds what the collection is bound to keep.
Holding(S) == S \subseteq alloc /\ Roots \subseteq S /\ Strongly(S)

\* What the collection is going to keep: the marked objects, and after the
\* mark phase those that the sweep does not free.
Live == IF gcstate \in Marking THEN {o \in alloc : ~ White(o)} ELSE Survivors

\* No table of L has an entry that goes while what it marked stays.
NoSideMarks(L) == KeyWeak \cap L = {} /\ (ValueWeak \cap L = {} \/ Keys \cap Obj = {})

\* The inductive invariant, together with the one of LuaGC_safety.
PreciseInv ==
  /\ weak \subseteq KeyWeak \cup ValueWeak
  /\ full = "mark" /\ NoSideMarks(Live) => \A S \in SUBSET Obj : Holding(S) => Live \subseteq S

-----------------------------------------------------------------------------
(* Marking.                                                                *)

\* From inside of a closed set nothing outside of it is marked.
LEMMA MarkSetHeld ==
  ASSUME NEW S, S \subseteq Obj, Strongly(S), NEW X, X \subseteq S
  PROVE  MarkSet(X) \subseteq S
<1> DEFINE first  == {o \in X : White(o)}
           values == {v \in UNION {UpValue(u) : u \in first \cap Upvals} : White(v)}
           fields == {m \in UNION {ref[u] : u \in (first \cup values) \cap Udatas} : White(m)}
<1>0. \A o \in S : Children(o) \subseteq S
  BY DEF Strongly
<1>1. first \subseteq S
  OBVIOUS
<1>2. values \subseteq S
  <2>1. \A uv \in Upvals : Children(uv) = UpValue(uv)
    BY Disjoint DEF Children
  <2>2. \A uv \in first \cap Upvals : UpValue(uv) \subseteq S
    BY <1>0, <1>1, <2>1
  <2> QED BY <2>2
<1>3. fields \subseteq S
  <2>1. \A u \in Udatas : Children(u) = ref[u]
    BY Disjoint DEF Children
  <2>2. \A u \in (first \cup values) \cap Udatas : ref[u] \subseteq S
    BY <1>0, <1>1, <1>2, <2>1
  <2> QED BY <2>2
<1> QED BY <1>1, <1>2, <1>3 DEF MarkSet

\* A step of the mark phase that leaves the heap alone and gives the objects of
\* M a color is precise if every set that holds what is live holds M too.
LEMMA MarkingPrecise ==
  ASSUME TypeOK, PreciseInv,
         UNCHANGED <<alloc, ref, entry, stack, owner, level, mt, run, full>>,
         tmudata \subseteq tmudata', weak' \subseteq KeyWeak \cup ValueWeak,
         gcstate \in Marking, gcstate' \in Marking,
         NEW M,
         \A o \in Obj : color'[o] = color[o] \/ (color[o] \notin Whites /\ color'[o] \notin Whites)
                                             \/ (o \in M /\ color'[o] \notin Whites),
         \A S \in SUBSET Obj : (Roots \subseteq S)' /\ Strongly(S) /\ Live \subseteq S => M \subseteq S
  PROVE  PreciseInv'
<1>0. alloc \subseteq Obj
  BY DEF TypeOK
<1>1. Live \subseteq Live' /\ Live' \subseteq Live \cup M
  BY <1>0 DEF Live, White
<1>2. NoSideMarks(Live)' => NoSideMarks(Live)
  BY <1>1 DEF NoSideMarks
<1>3. ASSUME full' = "mark", NoSideMarks(Live)', NEW S \in SUBSET Obj, Holding(S)'
      PROVE  Live' \subseteq S
  <2>1. S \subseteq alloc /\ (Roots \subseteq S)' /\ Roots \subseteq S
    BY <1>3 DEF Holding, Roots
  <2>2. \A o : Children(o)' = Children(o) /\ Access(o)' = Access(o)
    BY DEF Children, Access, UpValue, StackRefs, KeyRefs, ValueRefs, Used
  <2>3. Strongly(S)
    BY <1>3, <2>2 DEF Holding, Strongly
  <2>4. Live \subseteq S
    BY <1>2, <1>3, <2>1, <2>3 DEF PreciseInv, Holding
  <2> QED BY <1>1, <2>1, <2>3, <2>4
<1> QED BY <1>3 DEF PreciseInv

\* The gray lists hold live objects.
LEMMA GrayIsLive ==
  ASSUME SafeInv, gcstate \in Marking
  PROVE  gray \cup grayagain \cup weak \subseteq Live
BY DEF SafeInv, GrayLists, Live, White, Whites

\* propagatemark.
LEMMA PropagatePrecise ==
  ASSUME TypeOK, SafeInv, PreciseInv, NEW o \in Obj, Propagate(o)
  PROVE  PreciseInv'
<1> DEFINE M == MarkSet(Children(o))
<1>0. /\ gcstate \in Marking /\ o \in gray /\ color[o] \notin Whites
      /\ UNCHANGED <<alloc, ref, entry, stack, owner, level, mt, run, full, gcstate, tmudata>>
      /\ color' = [Painted(M) EXCEPT ![o] =
                     IF o \in Threads \cup KeyWeak \cup ValueWeak THEN "gray" ELSE "black"]
      /\ weak' \subseteq weak \cup KeyWeak \cup ValueWeak
  BY GrayIsLive DEF Propagate, heap, finals, Live, White
<1>1. M \subseteq Obj
  <2>1. Children(o) \subseteq Obj
    BY AccessType DEF Access
  <2> QED BY <2>1, MarkSetFacts DEF SafeInv
<1>2. ASSUME NEW p \in Obj
      PROVE  \/ color'[p] = color[p] \/ (color[p] \notin Whites /\ color'[p] \notin Whites)
             \/ (p \in M /\ color'[p] \notin Whites)
  <2> HIDE DEF M
  <2>1. color'[p] = IF p = o THEN (IF o \in Threads \cup KeyWeak \cup ValueWeak THEN "gray" ELSE "black")
                             ELSE Painted(M)[p]
    BY <1>0 DEF Painted
  <2>2. (p \in M => Painted(M)[p] \notin Whites) /\ (p \notin M => Painted(M)[p] = color[p])
    BY <1>1, PaintedFacts
  <2> QED BY <1>0, <2>1, <2>2 DEF Whites
<1>3. ASSUME NEW S \in SUBSET Obj, Strongly(S), Live \subseteq S PROVE M \subseteq S
  <2>1. Children(o) \subseteq S
    BY <1>0, <1>3, GrayIsLive DEF Strongly
  <2> QED BY <1>3, <2>1, MarkSetHeld
<1>4. weak' \subseteq KeyWeak \cup ValueWeak
  BY <1>0 DEF PreciseInv
<1> HIDE DEF M
<1> QED BY <1>0, <1>2, <1>3, <1>4, MarkingPrecise

\* remarkupvals: the values of marked upvalues.
LEMMA RemarkUpvalsPrecise ==
  ASSUME TypeOK, SafeInv, PreciseInv, RemarkUpvals
  PROVE  PreciseInv'
<1> DEFINE M == MarkSet(OpenValues)
<1>0. /\ gcstate \in Marking /\ gcstate' \in Marking
      /\ UNCHANGED <<alloc, ref, entry, stack, owner, level, mt, run, full, weak, tmudata>>
      /\ color' = Painted(M)
  BY DEF RemarkUpvals, Mark, heap, finals, Marking, Atomic
<1>1. ASSUME NEW S \in SUBSET Obj, Strongly(S), Live \subseteq S PROVE OpenValues \subseteq S
  <2>1. ASSUME NEW uv \in Upvals \cap alloc, color[uv] = "gray" PROVE UpValue(uv) \subseteq S
    <3>1. uv \in S
      BY <1>0, <1>1, <2>1 DEF Live, White, Whites
    <3>2. Children(uv) = UpValue(uv)
      BY Disjoint DEF Children
    <3> QED BY <1>1, <3>1, <3>2 DEF Strongly
  <2> QED BY <2>1 DEF OpenValues
<1>2. M \subseteq Obj
  <2>1. \A uv \in Upvals : UpValue(uv) \subseteq Obj
    BY UpValueType
  <2>2. OpenValues \subseteq Obj
    BY <2>1 DEF OpenValues
  <2> QED BY <2>2, MarkSetFacts DEF SafeInv
<1>3. ASSUME NEW S \in SUBSET Obj, Strongly(S), Live \subseteq S PROVE M \subseteq S
  BY <1>1, <1>3, MarkSetHeld
<1> HIDE DEF M
<1>4. \A p \in Obj : color'[p] = color[p] \/ (p \in M /\ color'[p] \notin Whites)
  BY <1>0, <1>2, PaintedFacts
<1>5. weak' \subseteq KeyWeak \cup ValueWeak
  BY <1>0 DEF PreciseInv
<1> QED BY <1>0, <1>3, <1>4, <1>5, MarkingPrecise

\* The second stage of atomic(): roots.
LEMMA RemarkWeakPrecise ==
  ASSUME TypeOK, SafeInv, PreciseInv, RemarkWeak
  PROVE  PreciseInv'
<1> DEFINE M == MarkSet(UnbarrieredRoots)
<1>0. /\ gcstate \in Marking /\ gcstate' \in Marking
      /\ UNCHANGED <<alloc, ref, entry, stack, owner, level, mt, run, full, tmudata>>
      /\ color' = Painted(M) /\ weak' = {}
  BY DEF RemarkWeak, heap, finals, Marking, Atomic
<1>1. UnbarrieredRoots \subseteq Roots /\ UnbarrieredRoots \subseteq Obj
  BY Disjoint DEF UnbarrieredRoots, Roots, TypeOK
<1>2. M \subseteq Obj
  BY <1>1, MarkSetFacts DEF SafeInv
<1>3. ASSUME NEW S \in SUBSET Obj, (Roots \subseteq S)', Strongly(S) PROVE M \subseteq S
  <2>1. UnbarrieredRoots \subseteq S
    BY <1>0, <1>1, <1>3 DEF Roots
  <2> QED BY <1>3, <2>1, MarkSetHeld
<1> HIDE DEF M
<1>4. \A p \in Obj : color'[p] = color[p] \/ (p \in M /\ color'[p] \notin Whites)
  BY <1>0, <1>2, PaintedFacts
<1> QED BY <1>0, <1>3, <1>4, MarkingPrecise

\* The third stage of atomic() marks nothing.
LEMMA RemarkAgainPrecise ==
  ASSUME TypeOK, SafeInv, PreciseInv, RemarkAgain
  PROVE  PreciseInv'
<1>0. /\ gcstate \in Marking /\ gcstate' \in Marking
      /\ UNCHANGED <<alloc, ref, entry, stack, owner, level, mt, run, full, tmudata, color, weak>>
  BY DEF RemarkAgain, heap, marks, finals, Marking, Atomic
<1>1. weak' \subseteq KeyWeak \cup ValueWeak
  BY <1>0 DEF PreciseInv
<1> DEFINE M == {}
<1>2. \A p \in Obj : color'[p] = color[p]
  BY <1>0
<1>3. \A S \in SUBSET Obj : M \subseteq S
  OBVIOUS
<1> QED BY <1>0, <1>1, <1>2, <1>3, MarkingPrecise

\* The fourth: userdata that waits for its finalizer is a root from then on.
LEMMA SeparatePrecise ==
  ASSUME TypeOK, SafeInv, PreciseInv, SeparateUdata
  PROVE  PreciseInv'
<1> DEFINE M == Separated \cup Preserved
<1>0. /\ gcstate \in Marking /\ gcstate' \in Marking
      /\ UNCHANGED <<alloc, ref, entry, stack, owner, level, mt, run, full, weak>>
      /\ tmudata' = Separated
      /\ color' = [o \in Obj |-> IF o \in Separated THEN "black" ELSE Painted(Preserved)[o]]
  BY DEF SeparateUdata, heap, Marking, Atomic
<1>1. Separated \subseteq Udatas /\ Udatas \subseteq Obj /\ tmudata \subseteq Separated
  BY Disjoint DEF Separated, Unreached, TypeOK
<1>2. Preserved \subseteq Obj
  <2>1. UNION {ref[u] : u \in Separated} \subseteq Obj
    BY <1>1 DEF TypeOK
  <2> QED BY <2>1, MarkSetFacts DEF Preserved, SafeInv
<1>3. ASSUME NEW S \in SUBSET Obj, (Roots \subseteq S)', Strongly(S) PROVE M \subseteq S
  <2>1. Separated \subseteq S
    BY <1>0, <1>3 DEF Roots
  <2>2. \A u \in Udatas : Children(u) = ref[u]
    BY Disjoint DEF Children
  <2>3. \A u \in Separated : ref[u] \subseteq S
    BY <1>1, <1>3, <2>1, <2>2 DEF Strongly
  <2>4. UNION {ref[u] : u \in Separated} \subseteq S
    BY <2>3
  <2>5. Preserved \subseteq S
    BY <1>3, <2>4, MarkSetHeld DEF Preserved
  <2> QED BY <2>1, <2>5
<1>4. ASSUME NEW p \in Obj PROVE color'[p] = color[p] \/ (p \in M /\ color'[p] \notin Whites)
  <2>1. color'[p] = IF p \in Separated THEN "black" ELSE Painted(Preserved)[p]
    BY <1>0
  <2>2. /\ p \in Preserved => Painted(Preserved)[p] \notin Whites
        /\ p \notin Preserved => Painted(Preserved)[p] = color[p]
    BY <1>2, PaintedFacts
  <2> QED BY <2>1, <2>2 DEF Whites
<1>5. weak' \subseteq KeyWeak \cup ValueWeak
  BY <1>0 DEF PreciseInv
<1> HIDE DEF M
<1> QED BY <1>0, <1>1, <1>3, <1>4, <1>5, MarkingPrecise

\* luaC_fullgc starts to mark when everything is white.
LEMMA FullMarkPrecise ==
  ASSUME TypeOK, FinalInv, SafeInv, FullMark
  PROVE  PreciseInv'
<1> DEFINE S0 == {MainThread, Registry} \cup ({stack[MainThread][GlobalsSlot], mt} \cap Obj)
           M == MarkSet(S0)
<1>0. /\ gcstate = "finalize" /\ gcstate' \in Marking /\ weak' = {}
      /\ UNCHANGED <<alloc, ref, entry, stack, owner, level, mt, run, tmudata>>
      /\ color' = Painted(M)
  BY DEF FullMark, MarkRootSet, heap, finals, Marking
<1>1. /\ \A o \in alloc \ tmudata : White(o)
      /\ alloc \subseteq Obj
  BY <1>0, AllWhite DEF White, TypeOK
<1>2. M \subseteq Obj
  <2>1. S0 \subseteq Obj
    BY Disjoint, ConstantAssumption
  <2> QED BY <2>1, MarkSetFacts DEF SafeInv
<1>3. ASSUME NEW S \in SUBSET Obj, Holding(S)' PROVE M \subseteq S
  <2>1. Roots \subseteq S
    BY <1>0, <1>3 DEF Holding, Roots
  <2>2. \A o : Children(o)' = Children(o) /\ Access(o)' = Access(o)
    BY <1>0 DEF Children, Access, UpValue, StackRefs, KeyRefs, ValueRefs, Used
  <2>3. Strongly(S)
    BY <1>3, <2>2 DEF Holding, Strongly
  <2>4. {stack[MainThread][GlobalsSlot]} \cap Obj \subseteq S
    <3>1. MainThread \in S /\ MainThread \in Threads /\ GlobalsSlot \in Slots
      BY <2>1, ConstantAssumption DEF Roots
    <3>2. {stack[MainThread][GlobalsSlot]} \cap Obj \subseteq Children(MainThread)
      BY <3>1, Disjoint DEF Children, StackRefs
    <3> QED BY <2>3, <3>1, <3>2 DEF Strongly
  <2>5. S0 \subseteq S
    BY <2>1, <2>4 DEF Roots
  <2> QED BY <2>3, <2>5, MarkSetHeld
<1> HIDE DEF M
<1>4. \A p \in Obj : color'[p] = color[p] \/ p \in M
  BY <1>0, <1>2, PaintedFacts
<1>5. Live' \subseteq tmudata \cup M
  BY <1>0, <1>1, <1>4 DEF Live, White
<1>6. ASSUME NEW S \in SUBSET Obj, Holding(S)' PROVE Live' \subseteq S
  <2>1. tmudata \subseteq S
    BY <1>0, <1>6 DEF Holding, Roots
  <2> QED BY <1>3, <1>5, <1>6, <2>1
<1> QED BY <1>0, <1>6 DEF PreciseInv
-----------------------------------------------------------------------------
(* The end of the mark phase and the sweep.                                *)

\* cleartable and the flip.
LEMMA FlipPrecise ==
  ASSUME TypeOK, FinalInv, SafeInv, PreciseInv, Flip
  PROVE  PreciseInv'
<1>0. /\ gcstate \in Marking /\ gcstate' \notin Marking
      /\ UNCHANGED <<alloc, ref, stack, owner, level, mt, run, tmudata, full, weak>>
      /\ \A t \in Tables, k \in Keys :
           entry'[t][k] = IF t \in weak /\ k \in Used(t) /\ ClearedEntry(t, k) THEN Nil
                                                                               ELSE entry[t][k]
  BY DEF Flip, Marking, Atomic, lists, finals
<1>1. Live' = {o \in alloc : o \in Fixed \/ ~ White(o) \/ o \in StringsOfWeak}
  BY <1>0, FlipSurvivors DEF Live
<1>2. Live \subseteq Live'
  BY <1>0, <1>1 DEF Live
<1>3. NoSideMarks(Live)' => NoSideMarks(Live)
  BY <1>2 DEF NoSideMarks
<1>4. weak \subseteq Tables /\ weak \subseteq Live
  BY <1>0, GrayIsLive DEF TypeOK
<1>5. ASSUME full' = "mark", NoSideMarks(Live)', NEW S \in SUBSET Obj, Holding(S)'
      PROVE  Live' \subseteq S
  <2>1. Keys \cap Obj = {} \/ weak = {}
    BY <1>2, <1>4, <1>5 DEF NoSideMarks, PreciseInv
  <2>2. weak \cap KeyWeak = {}
    BY <1>2, <1>4, <1>5 DEF NoSideMarks
  <2>3. S \subseteq alloc /\ Roots \subseteq S /\ Fixed \cap alloc \subseteq S
    BY <1>0, <1>5 DEF Holding, Roots, Fixed
  <2>4. ASSUME NEW t \in Tables \ weak
        PROVE  Used(t)' = Used(t) /\ KeyRefs(t)' = KeyRefs(t) /\ ValueRefs(t)' = ValueRefs(t)
    <3>1. \A k \in Keys : entry'[t][k] = entry[t][k]
      BY <1>0, <2>4
    <3>2. Used(t)' = Used(t)
      BY <3>1 DEF Used
    <3>3. \A k \in Used(t) : entry'[t][k] = entry[t][k]
      BY <3>1 DEF Used
    <3> QED BY <3>2, <3>3 DEF KeyRefs, ValueRefs
  <2>5. ASSUME NEW t \in weak
        PROVE  KeyRefs(t) = {} /\ t \in ValueWeak
               /\ ValueRefs(t) \cap Strings \subseteq ValueRefs(t)'
    <3>1. KeyRefs(t) = {}
      BY <2>1, <2>5 DEF KeyRefs, Used
    <3>2. t \in ValueWeak
      BY <2>2, <2>5 DEF PreciseInv
    <3>3. ASSUME NEW k \in Used(t), entry[t][k] \in Strings PROVE entry[t][k] \in ValueRefs(t)'
      <4>1. k \in Keys /\ k \notin Obj /\ entry[t][k] # Nil /\ entry[t][k] \in Obj
        BY <2>1, <2>5, <3>3, Disjoint DEF Used
      <4>2. ~ ClearedEntry(t, k)
        BY <3>3, <4>1 DEF ClearedEntry, ClearedKey, ClearedValue
      <4>3. entry'[t][k] = entry[t][k]
        BY <1>0, <1>4, <2>5, <4>1, <4>2
      <4> QED BY <4>1, <4>3 DEF ValueRefs, Used
    <3> QED BY <3>1, <3>2, <3>3 DEF ValueRefs
  <2>6. ASSUME NEW o \in S
        PROVE  Children(o) \subseteq Children(o)' /\ Access(o) \cap Strings \subseteq Access(o)'
    <3>1. CASE o \in weak
      <4>1. Children(o) = ref[o] /\ ref[o] \subseteq Children(o)'
        BY <1>0, <1>4, <2>5, <3>1 DEF Children
      <4>2. ref[o] \subseteq Access(o)' /\ ValueRefs(o)' \subseteq Access(o)'
        BY <1>4, <3>1, <4>1 DEF Access
      <4>3. Access(o) = ref[o] \cup KeyRefs(o) \cup ValueRefs(o)
        BY <1>4, <3>1, AccessOfTable
      <4> QED BY <2>5, <3>1, <4>1, <4>2, <4>3
    <3>2. CASE o \in Tables \ weak
      BY <1>0, <2>4, <3>2 DEF Children, Access
    <3>3. CASE o \notin Tables
      BY <1>0, <3>3 DEF Children, Access, StackRefs, UpValue
    <3> QED BY <3>1, <3>2, <3>3
  <2>7. Strongly(S)
    BY <1>5, <2>6 DEF Holding, Strongly
  <2>8. Live \subseteq S
    BY <1>0, <1>3, <1>5, <2>3, <2>7 DEF PreciseInv, Holding
  <2>9. StringsOfWeak \subseteq S
    <3>1. ASSUME NEW t \in weak PROVE (KeyRefs(t) \cup ValueRefs(t)) \cap Strings \subseteq S
      <4>1. t \in S /\ t \in Tables
        BY <1>4, <2>8, <3>1
      <4> QED BY <2>7, <4>1, AccessOfTable DEF Strongly
    <3>2. ASSUME NEW t \in weak, NEW k \in Used(t), entry[t][k] \in Strings
          PROVE  entry[t][k] \in ValueRefs(t)
      BY <3>2, Disjoint DEF ValueRefs
    <3> QED BY <3>1, <3>2 DEF StringsOfWeak
  <2> QED BY <1>0, <1>1, <2>3, <2>8, <2>9 DEF Live
<1> QED BY <1>0, <1>5 DEF PreciseInv

\* What is not freed refers to the same objects after a sweep step.
LEMMA SweptReferences ==
  ASSUME TypeOK, FinalInv, SafeInv, NEW S, NEW swept, NEW freed, NEW orphans,
         Swept(S, swept, freed, orphans), NEW o \in alloc \ freed
  PROVE  Children(o)' = Children(o) /\ Access(o)' = Access(o)
<1>1. /\ \A uv \in orphans : uv \in Upvals /\ owner[uv] \in freed
      /\ \A uv \in (Upvals \cap alloc) \ (freed \cup orphans) : owner[uv] \notin freed
  BY SweptFacts
<1>0. o \in Obj
  BY DEF TypeOK
<1>2. CASE o \in Tables
  <2>1. ref'[o] = ref[o] /\ entry'[o] = entry[o]
    BY <1>0, <1>1, <1>2, Disjoint DEF Swept
  <2>2. KeyRefs(o)' = KeyRefs(o) /\ ValueRefs(o)' = ValueRefs(o)
    BY <2>1 DEF KeyRefs, ValueRefs, Used
  <2> QED BY <1>2, <2>1, <2>2 DEF Children, Access
<1>3. CASE o \in Threads
  <2>1. stack'[o] = stack[o] /\ run' = run /\ o \notin Tables
    BY <1>3, Disjoint DEF Swept
  <2> QED BY <1>3, <2>1 DEF Children, Access, StackRefs
<1>4. CASE o \in Upvals
  <2>0. o \notin Tables \cup Threads
    BY <1>4, Disjoint
  <2>1. UpValue(o)' = UpValue(o)
    <3>1. CASE o \in orphans
      <4>1. owner'[o] = Nil /\ ref'[o] = UpValue(o)
        BY <1>0, <1>4, <3>1 DEF Swept
      <4> QED BY <4>1 DEF UpValue
    <3>2. CASE o \notin orphans
      <4>1. owner'[o] = owner[o] /\ ref'[o] = ref[o] /\ level' = level
        BY <1>0, <1>4, <3>2 DEF Swept
      <4>2. owner[o] # Nil => owner[o] \in Threads \ freed
        BY <1>1, <1>4, <3>2 DEF TypeOK
      <4>3. owner[o] # Nil => stack'[owner[o]] = stack[owner[o]]
        BY <4>2 DEF Swept
      <4> QED BY <4>1, <4>3 DEF UpValue
    <3> QED BY <3>1, <3>2
  <2> QED BY <1>4, <2>0, <2>1 DEF Children, Access
<1>5. CASE o \in Funcs \cup Udatas \cup Strings
  <2>1. o \notin Tables \cup Threads \cup Upvals
    BY <1>5, Disjoint
  <2>2. ref'[o] = ref[o]
    BY <1>0, <1>1, <2>1 DEF Swept
  <2> QED BY <2>1, <2>2 DEF Children, Access
<1> QED BY <1>0, <1>2, <1>3, <1>4, <1>5, Disjoint

\* A sweep step.
LEMMA SweepPrecise ==
  ASSUME TypeOK, FinalInv, SafeInv, PreciseInv,
         NEW S \in SUBSET unswept, SweepString(S) \/ Sweep(S)
  PROVE  PreciseInv'
<1>1. PICK swept, freed, orphans : Swept(S, swept, freed, orphans)
  BY SweepIsSwept
<1>2. UNCHANGED <<full, weak>>
  BY DEF SweepString, Sweep, lists
<1>3. /\ gcstate \notin Marking /\ gcstate' \notin Marking
      /\ alloc' = alloc \ freed /\ UNCHANGED <<mt, run, tmudata>>
  BY <1>1 DEF Swept, Marking, Atomic, Sweeping
<1>4. Live' = Live
  BY <1>1, <1>3, SweptFacts DEF Live
<1>5. ASSUME NEW T \in SUBSET Obj, Holding(T)' PROVE Holding(T)
  <2>1. T \subseteq alloc \ freed /\ Roots \subseteq T
    BY <1>3, <1>5 DEF Holding, Roots
  <2>2. \A o \in T : Children(o)' = Children(o) /\ Access(o)' = Access(o)
    BY <1>1, <2>1, SweptReferences
  <2> QED BY <1>5, <2>1, <2>2 DEF Holding, Strongly
<1> QED BY <1>2, <1>4, <1>5 DEF PreciseInv, NoSideMarks

-----------------------------------------------------------------------------
(* The other steps.                                                        *)

\* The program does not run while a full collection does.
LEMMA ProgramPrecise ==
  ASSUME PreciseInv, Allocate \/ Update
  PROVE  PreciseInv'
<1> DEFINE NotFull == full' = "no" /\ weak' = weak
<1>1. CASE Allocate
  <2>1. \A s, t : NewTable(t, s) => NotFull
    BY DEF NewTable, Running, lists
  <2>2. \A s, x : NewString(x, s) => NotFull
    BY DEF NewString, Running, lists
  <2>3. \A s, th : NewThread(th, s) => NotFull
    BY DEF NewThread, Running, lists
  <2>4. \A s, e, u : NewUdata(u, e, s) => NotFull
    BY DEF NewUdata, Running, lists
  <2>5. \A s, e, f, v : NewCClosure(f, e, v, s) => NotFull
    BY DEF NewCClosure, Running, lists
  <2>6. \A s, e, f, uv : ClosureOverUpvalue(f, e, uv, s) => NotFull
    BY DEF ClosureOverUpvalue, Running, lists
  <2>7. \A s, e, f, uv, lv : ClosureOverLocal(f, e, uv, lv, s) => NotFull
    BY DEF ClosureOverLocal, Running, lists
  <2>8. NotFull
    BY <1>1, <2>1, <2>2, <2>3, <2>4, <2>5, <2>6, <2>7 DEF Allocate
  <2> QED BY <2>8 DEF PreciseInv
<1>2. CASE Update
  <2>1. full' = "no" /\ weak' = weak
    BY <1>2 DEF Update, SetEntry, SetMetatable, SetBasicMetatable, CloseUpvals, Fetch, SetField,
                SetUpval, Resume, Yield, Running, lists
  <2> QED BY <2>1 DEF PreciseInv
<1> QED BY <1>1, <1>2

\* Steps that begin or end a collection.
LEMMA BoundaryPrecise ==
  ASSUME PreciseInv,
         FullGC \/ MarkRoot \/ EndCycle \/ \E u \in Udatas, s \in Temps : CallFinalizer(u, s)
  PROVE  PreciseInv'
<1>1. full' # "mark" /\ (weak' = weak \/ weak' = {})
  BY DEF FullGC, MarkRoot, MarkRootSet, EndCycle, CallFinalizer, Running, lists
<1> QED BY <1>1 DEF PreciseInv

\* A state that differs in nothing the invariant mentions.
LEMMA StutterPrecise == ASSUME PreciseInv, UNCHANGED vars PROVE PreciseInv'
<1>1. /\ UNCHANGED <<alloc, ref, entry, stack, owner, level, mt, run, color, cw, gcstate>>
      /\ UNCHANGED <<full, weak, tmudata>>
  BY DEF vars, heap, marks, lists, finals
<1>2. /\ \A o : Children(o)' = Children(o) /\ Access(o)' = Access(o)
      /\ Live' = Live /\ Roots' = Roots
  BY <1>1 DEF Children, Access, UpValue, StackRefs, KeyRefs, ValueRefs, Used, Survivors, Roots,
              IsDead, Live, White
<1>3. \A S : Holding(S)' <=> Holding(S)
  BY <1>1, <1>2 DEF Holding, Strongly
<1> QED BY <1>1, <1>2, <1>3 DEF PreciseInv, NoSideMarks

\* Every step keeps the invariant.
LEMMA StepPrecise ==
  ASSUME TypeOK, FinalInv, SafeInv, PreciseInv, [Next]_vars PROVE PreciseInv'
<1>1. CASE Collector
  BY <1>1, PropagatePrecise, RemarkUpvalsPrecise, RemarkWeakPrecise, RemarkAgainPrecise,
     SeparatePrecise, FlipPrecise, SweepPrecise, FullMarkPrecise, BoundaryPrecise
     DEF Collector
<1> QED BY <1>1, ProgramPrecise, BoundaryPrecise, StutterPrecise DEF Next, Mutator

-----------------------------------------------------------------------------
\* The invariant of full collections.
THEOREM FullCollectionInvariant == Spec => []PreciseInv
<1>1. Init => PreciseInv
  BY DEF Init, PreciseInv
<1>2. TypeOK /\ FinalInv /\ SafeInv /\ PreciseInv /\ [Next]_vars => PreciseInv'
  BY StepPrecise
<1> QED BY <1>1, <1>2, TypeCorrect, FinalizerInvariant, CollectorInvariant, PTL DEF Spec

\* What luaC_fullgc leaves allocated is in every set that holds the roots,
\* waiting userdata included, and is closed under strong references: nothing
\* that was garbage when it began to mark is left, whatever the program did
\* before.
THEOREM FullCollectionPrecise == Spec => []FullGCPrecise
<1>1. TypeOK /\ PreciseInv => FullGCPrecise
  <2>1. SUFFICES ASSUME TypeOK, PreciseInv, full = "mark", gcstate = "finalize", NoSideMarks(alloc),
                        NEW S \in SUBSET alloc, Roots \subseteq S, Strongly(S)
                 PROVE  alloc \subseteq S
    BY DEF FullGCPrecise, NoSideMarks
  <2>2. Live = alloc
    BY <2>1 DEF Live, Survivors, Marking, Atomic, Sweeping
  <2>3. S \in SUBSET Obj
    BY <2>1 DEF TypeOK
  <2> QED BY <2>1, <2>2, <2>3 DEF PreciseInv, Holding
<1> QED BY <1>1, TypeCorrect, FullCollectionInvariant, PTL
=============================================================================
