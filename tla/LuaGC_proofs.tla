---------------------------- MODULE LuaGC_proofs ----------------------------
(***************************************************************************)
(* Proofs about LuaGC, for every set of objects, slots and keys: the types *)
(* of its state, and that a finalizer runs at most once, and before its    *)
(* userdata is freed.  The latter two follow from one inductive invariant  *)
(* about userdata: what color a dead one has, where the sweep is, and how  *)
(* tmudata, FINALIZEDBIT and the calls made so far go together.            *)
(***************************************************************************)
EXTENDS LuaGC, TLAPS

Colors == Whites \cup {"gray", "black"}

-----------------------------------------------------------------------------
(* What the marking operators return. *)

LEMMA PaintedType ==
  ASSUME color \in [Obj -> Colors], NEW M
  PROVE  Painted(M) \in [Obj -> Colors]
BY DEF Painted, MarkedColor, Colors

LEMMA LinkedType == ASSUME NEW M PROVE Linked(M) \subseteq Obj
BY DEF Linked, Obj

LEMMA BarrierForwardType ==
  ASSUME TypeOK, NEW o \in Obj, NEW v, BarrierForward(o, v)
  PROVE  color' \in [Obj -> Colors] /\ gray' \subseteq Obj
<1>1. color \in [Obj -> Colors] /\ gray \subseteq Obj /\ cw \in Colors
  BY DEF TypeOK, Colors
<1>2. CASE Mark({v})
  BY <1>1, <1>2, PaintedType, LinkedType DEF Mark
<1>3. CASE ~ Mark({v})
  BY <1>1, <1>3 DEF BarrierForward
<1> QED BY <1>2, <1>3

LEMMA BarrierBackType ==
  ASSUME TypeOK, NEW t \in Obj, NEW V, BarrierBack(t, V)
  PROVE  color' \in [Obj -> Colors] /\ grayagain' \subseteq Obj
BY DEF TypeOK, Colors, BarrierBack

-----------------------------------------------------------------------------
(* What the operands of an operation are, and writes to a stack.           *)

LEMMA StackWrite ==
  ASSUME TypeOK, NEW th \in Threads, NEW s \in Slots, NEW v \in Value
  PROVE  [stack EXCEPT ![th][s] = v] \in [Threads -> [Slots -> Value]]
<1>1. stack \in [Threads -> [Slots -> Value]]
  BY DEF TypeOK
<1>2. [stack[th] EXCEPT ![s] = v] \in [Slots -> Value]
  BY <1>1
<1> QED BY <1>1, <1>2

LEMMA UpValueType == ASSUME TypeOK, NEW uv \in Upvals PROVE UpValue(uv) \subseteq Obj
BY DEF UpValue, TypeOK, Obj

LEMMA AccessType == ASSUME TypeOK, NEW o \in Obj PROVE Access(o) \subseteq Obj
<1>1. ref[o] \subseteq Obj
  BY DEF TypeOK
<1>2. KeyRefs(o) \subseteq Obj /\ ValueRefs(o) \subseteq Obj
  BY DEF KeyRefs, ValueRefs
<1>3. StackRefs(o) \subseteq Obj
  BY DEF StackRefs, TypeOK, Obj
<1> QED BY <1>1, <1>2, <1>3, UpValueType DEF Access, Children

LEMMA ReadableType == ASSUME TypeOK PROVE Readable \subseteq Obj \ Upvals
<1>1. Held \subseteq Obj
  BY ConstantAssumption DEF TypeOK, Held, Obj
<1>2. \A x : x \in UNION {Access(o) : o \in Held} => x \in Obj
  BY <1>1, AccessType
<1>3. \A x : x \in UNION {UpValue(uv) : uv \in UpvalsHeld} => x \in Obj
  BY UpValueType DEF UpvalsHeld
<1>4. \A x : x \in Readable => x \in Obj
  BY <1>1, <1>2, <1>3 DEF Readable
<1> QED BY <1>4 DEF Readable

LEMMA EnvsType == Envs \subseteq Tables
BY DEF Envs

LEMMA CreateType ==
  ASSUME TypeOK, NEW o \in Obj \ Upvals, NEW R \in SUBSET Obj, NEW s \in Temps, Create(o, R, s)
  PROVE  /\ alloc' \subseteq Obj
         /\ ref' \in [Obj -> SUBSET Obj]
         /\ color' \in [Obj -> Whites \cup {"gray", "black"}]
         /\ stack' \in [Threads -> [Slots -> Value]]
<1>1. run \in Threads /\ s \in Slots /\ o \in Value
  BY DEF TypeOK, Temps, Value
<1>2. stack' \in [Threads -> [Slots -> Value]]
  BY <1>1, StackWrite, Zenon DEF Create
<1>3. alloc' \subseteq Obj /\ ref' \in [Obj -> SUBSET Obj]
  BY DEF TypeOK, Create
<1>4. color' \in [Obj -> Whites \cup {"gray", "black"}]
  BY DEF TypeOK, Create
<1> QED BY <1>2, <1>3, <1>4

-----------------------------------------------------------------------------
(* Type correctness: one lemma for each of the three parts of Next.        *)

LEMMA AllocateType == ASSUME TypeOK, Allocate PROVE TypeOK'
<1>0. PICK s \in Temps :
        \/ \E t \in Tables : NewTable(t, s)
        \/ \E x \in Strings : NewString(x, s)
        \/ \E th \in Threads : NewThread(th, s)
        \/ \E e \in Envs, u \in Udatas : NewUdata(u, e, s)
        \/ \E e \in Envs, f \in Funcs, v \in Readable \cup {Nil} : NewCClosure(f, e, v, s)
        \/ \E e \in Envs, f \in Funcs, uv \in UpvalsHeld : ClosureOverUpvalue(f, e, uv, s)
        \/ \E e \in Envs, f \in Funcs, uv \in Upvals, lv \in Temps :
              ClosureOverLocal(f, e, uv, lv, s)
  BY Zenon DEF Allocate
<1>k. Envs \subseteq Obj /\ \A o \in Obj \ Upvals : o \in Value
  BY EnvsType DEF Obj, Value
<1>1. ASSUME NEW t \in Tables, NewTable(t, s) PROVE TypeOK'
  <2>1. t \in Obj \ Upvals
    BY KindAssumption DEF Obj
  <2> QED BY <1>1, <2>1, CreateType DEF TypeOK, NewTable, lists, finals
<1>2. ASSUME NEW x \in Strings, NewString(x, s) PROVE TypeOK'
  <2>1. x \in Obj \ Upvals
    BY KindAssumption DEF Obj
  <2>2. CASE Create(x, {}, s)
    BY <1>2, <2>1, <2>2, CreateType DEF TypeOK, NewString, lists, finals
  <2>3. CASE ~ Create(x, {}, s)
    <3>1. stack' \in [Threads -> [Slots -> Value]]
      <4>1. run \in Threads /\ s \in Slots /\ x \in Value
        BY <1>k, <2>1 DEF TypeOK, Temps
      <4>2. stack' = [stack EXCEPT ![run][s] = x]
        BY <1>2, <2>3 DEF NewString
      <4> QED BY <4>1, <4>2, StackWrite
    <3>2. color' \in [Obj -> Whites \cup {"gray", "black"}]
      BY <1>2, <2>3 DEF NewString, TypeOK
    <3> QED BY <1>2, <2>3, <3>1, <3>2 DEF TypeOK, NewString, lists, finals
  <2> QED BY <2>2, <2>3
<1>3. ASSUME NEW th \in Threads, NewThread(th, s) PROVE TypeOK'
  <2>1. th \in Obj \ Upvals /\ th \in Value
    BY <1>k, KindAssumption DEF Obj
  <2>2. stack' \in [Threads -> [Slots -> Value]]
    <3> DEFINE new == [p \in Slots |-> IF p = GlobalsSlot THEN stack[run][GlobalsSlot] ELSE Nil]
    <3>1. stack[run][GlobalsSlot] \in Value /\ Nil \in Value
      BY ConstantAssumption DEF TypeOK, Value
    <3>2. new \in [Slots -> Value]
      BY <3>1
    <3>3. [stack EXCEPT ![run][s] = th] \in [Threads -> [Slots -> Value]]
      BY <2>1, StackWrite DEF TypeOK, Temps
    <3>4. stack' = [[stack EXCEPT ![run][s] = th] EXCEPT ![th] = new]
      BY <1>3 DEF NewThread
    <3> HIDE DEF new
    <3> QED BY <3>2, <3>3, <3>4
  <2>3. color' \in [Obj -> Whites \cup {"gray", "black"}] /\ alloc' \subseteq Obj
    BY <1>3, <2>1 DEF NewThread, TypeOK
  <2> QED BY <1>3, <2>2, <2>3 DEF TypeOK, NewThread, lists, finals
<1>4. ASSUME NEW e \in Envs, NEW u \in Udatas, NewUdata(u, e, s) PROVE TypeOK'
  <2>1. u \in Obj \ Upvals /\ {e} \in SUBSET Obj
    BY <1>k, KindAssumption DEF Obj
  <2> QED BY <1>4, <2>1, CreateType DEF TypeOK, NewUdata, lists
<1>5. ASSUME NEW e \in Envs, NEW f \in Funcs, NEW v \in Readable \cup {Nil},
             NewCClosure(f, e, v, s)
      PROVE TypeOK'
  <2>1. f \in Obj \ Upvals /\ {e, v} \cap Obj \in SUBSET Obj
    BY KindAssumption DEF Obj
  <2> QED BY <1>5, <2>1, CreateType DEF TypeOK, NewCClosure, lists, finals
<1>6. ASSUME NEW e \in Envs, NEW f \in Funcs, NEW uv \in UpvalsHeld,
             ClosureOverUpvalue(f, e, uv, s)
      PROVE TypeOK'
  <2>1. f \in Obj \ Upvals /\ {e, uv} \in SUBSET Obj
    BY <1>k, KindAssumption DEF Obj, UpvalsHeld
  <2> QED BY <1>6, <2>1, CreateType DEF TypeOK, ClosureOverUpvalue, lists, finals
<1>7. ASSUME NEW e \in Envs, NEW f \in Funcs, NEW uv \in Upvals, NEW lv \in Temps,
             ClosureOverLocal(f, e, uv, lv, s)
      PROVE TypeOK'
  <2>1. f \in Obj \ Upvals /\ uv \in Obj /\ {e, uv} \in SUBSET Obj /\ f \in Value
    BY <1>k, KindAssumption DEF Obj
  <2>2. stack' \in [Threads -> [Slots -> Value]]
    BY <1>7, <2>1, StackWrite DEF ClosureOverLocal, Temps, TypeOK
  <2>3. alloc' \subseteq Obj /\ ref' \in [Obj -> SUBSET Obj]
    BY <1>7, <2>1 DEF ClosureOverLocal, TypeOK
  <2>4. color' \in [Obj -> Whites \cup {"gray", "black"}]
    BY <1>7, <2>1 DEF ClosureOverLocal, TypeOK
  <2>5. owner' \in [Upvals -> Threads \cup {Nil}] /\ level' \in [Upvals -> Slots]
    BY <1>7 DEF ClosureOverLocal, TypeOK, Temps
  <2> QED BY <1>7, <2>2, <2>3, <2>4, <2>5 DEF TypeOK, ClosureOverLocal, lists, finals
<1> QED BY <1>0, <1>1, <1>2, <1>3, <1>4, <1>5, <1>6, <1>7

LEMMA UpdateType == ASSUME TypeOK, Update PROVE TypeOK'
<1>k. /\ Readable \subseteq Obj \ Upvals /\ Readable \cup {Prim, Nil} \subseteq Value
      /\ run \in Threads
      /\ Temps \subseteq Slots
  BY ReadableType DEF Value, Temps, TypeOK
<1>1. ASSUME NEW t \in Readable \cap Tables, NEW k \in Keys,
             NEW v \in Readable \cup {Prim, Nil}, SetEntry(t, k, v)
      PROVE TypeOK'
  <2>1. entry' \in [Tables -> [Keys -> Value]]
    <3>1. [entry[t] EXCEPT ![k] = v] \in [Keys -> Value]
      BY <1>k DEF TypeOK
    <3> QED BY <3>1, <1>1 DEF TypeOK, SetEntry
  <2>2. color' \in [Obj -> Whites \cup {"gray", "black"}] /\ grayagain' \subseteq Obj
    BY <1>1, <1>k, BarrierBackType DEF SetEntry, Colors
  <2> QED BY <1>1, <2>1, <2>2 DEF TypeOK, SetEntry, finals
<1>2. ASSUME NEW t \in Readable \cap Tables, NEW m, SetMetatable(t, m)
      PROVE TypeOK'
  <2>1. ref' \in [Obj -> SUBSET Obj]
    BY <1>2, <1>k DEF TypeOK, SetMetatable
  <2>2. color' \in [Obj -> Whites \cup {"gray", "black"}] /\ grayagain' \subseteq Obj
    BY <1>2, <1>k, BarrierBackType DEF SetMetatable, Colors
  <2> QED BY <1>2, <2>1, <2>2 DEF TypeOK, SetMetatable, finals
<1>3. ASSUME NEW m \in Tables \cup {Nil}, SetBasicMetatable(m) PROVE TypeOK'
  BY <1>3 DEF TypeOK, SetBasicMetatable, marks, lists, finals
<1>4. ASSUME NEW lv \in Temps, CloseUpvals(lv) PROVE TypeOK'
  <2>1. ref' \in [Obj -> SUBSET Obj]
    <3>1. \A o \in Upvals : UpValue(o) \subseteq Obj
      BY UpValueType
    <3>2. \A o \in Obj : ref[o] \subseteq Obj
      BY DEF TypeOK
    <3> QED BY <1>4, <3>1, <3>2 DEF CloseUpvals
  <2>2. owner' \in [Upvals -> Threads \cup {Nil}] /\ alloc' \subseteq Obj
    BY <1>4 DEF CloseUpvals, TypeOK
  <2>3. color' \in [Obj -> Whites \cup {"gray", "black"}]
    BY <1>4 DEF CloseUpvals, TypeOK, Whites, Unused, MarkedColor
  <2>4. gray' \subseteq Obj
    BY <1>4, LinkedType DEF CloseUpvals, TypeOK
  <2> QED BY <1>4, <2>1, <2>2, <2>3, <2>4 DEF TypeOK, CloseUpvals, finals
<1>5. ASSUME NEW v \in Readable \cup {Nil}, NEW s \in Slots, Fetch(v, s) PROVE TypeOK'
  <2>1. stack' \in [Threads -> [Slots -> Value]]
    BY <1>5, <1>k, StackWrite DEF Fetch
  <2> QED BY <1>5, <2>1 DEF TypeOK, Fetch, marks, lists, finals
<1>6. ASSUME NEW v \in Readable \cup {Nil}, NEW o \in Readable, NEW x, SetField(o, x, v)
      PROVE TypeOK'
  <2>1. ref' \in [Obj -> SUBSET Obj]
    <3>1. (ref[o] \ {x}) \cup ({v} \cap Obj) \subseteq Obj
      BY <1>k DEF TypeOK
    <3> QED BY <1>6, <1>k, <3>1 DEF TypeOK, SetField
  <2>2. color' \in [Obj -> Whites \cup {"gray", "black"}] /\ gray' \subseteq Obj
    BY <1>6, <1>k, BarrierForwardType DEF SetField, Colors
  <2> QED BY <1>6, <2>1, <2>2 DEF TypeOK, SetField, finals
<1>7. ASSUME NEW v \in Readable \cup {Nil}, NEW uv \in UpvalsHeld, SetUpval(uv, v) PROVE TypeOK'
  <2>1. uv \in Upvals /\ uv \in Obj
    BY DEF UpvalsHeld, Obj
  <2>2. ref' \in [Obj -> SUBSET Obj] /\ stack' \in [Threads -> [Slots -> Value]]
    <3>1. CASE owner[uv] = Nil
      BY <1>7, <2>1, <3>1 DEF TypeOK, SetUpval
    <3>2. CASE owner[uv] # Nil
      <4>1. owner[uv] \in Threads /\ level[uv] \in Slots /\ v \in Value
        BY <1>k, <2>1, <3>2 DEF TypeOK
      <4>2. [stack EXCEPT ![owner[uv]][level[uv]] = v] \in [Threads -> [Slots -> Value]]
        BY <4>1, StackWrite
      <4> QED BY <1>7, <3>2, <4>2 DEF TypeOK, SetUpval
    <3> QED BY <3>1, <3>2
  <2>3. color' \in [Obj -> Whites \cup {"gray", "black"}] /\ gray' \subseteq Obj
    BY <1>7, <2>1, BarrierForwardType DEF SetUpval, Colors
  <2> QED BY <1>7, <2>2, <2>3 DEF TypeOK, SetUpval, finals
<1>8. ASSUME NEW v \in Readable \cup {Nil}, NEW th \in Threads, NEW s \in Temps, Resume(th, v, s)
      PROVE TypeOK'
  <2>1. stack' \in [Threads -> [Slots -> Value]]
    BY <1>8, <1>k, StackWrite DEF Resume
  <2> QED BY <1>8, <2>1 DEF TypeOK, Resume, marks, lists, finals
<1>9. ASSUME NEW v \in Readable \cup {Nil}, NEW s \in Temps, Yield(v, s) PROVE TypeOK'
  <2>1. MainThread \in Threads
    BY ConstantAssumption
  <2>2. stack' \in [Threads -> [Slots -> Value]]
    BY <1>9, <1>k, <2>1, StackWrite DEF Yield
  <2> QED BY <1>9, <2>1, <2>2 DEF TypeOK, Yield, marks, lists, finals
<1> QED BY <1>1, <1>2, <1>3, <1>4, <1>5, <1>6, <1>7, <1>8, <1>9 DEF Update

LEMMA MarkRootType ==
  ASSUME TypeOK, MarkRootSet
  PROVE  /\ color' \in [Obj -> Whites \cup {"gray", "black"}]
         /\ gray' \subseteq Obj /\ grayagain' \subseteq Obj /\ weak' \subseteq Tables
         /\ gcstate' \in States
<1>1. PICK M : color' = Painted(M) /\ gray' = Linked(M)
  BY DEF MarkRootSet
<1>2. color \in [Obj -> Colors]
  BY DEF TypeOK, Colors
<1> QED BY <1>1, <1>2, PaintedType, LinkedType DEF MarkRootSet, Colors, States

LEMMA SweepListType ==
  ASSUME TypeOK, NEW S \in SUBSET unswept, SweepList(S)
  PROVE  /\ alloc' \subseteq Obj
         /\ ref' \in [Obj -> SUBSET Obj]
         /\ entry' \in [Tables -> [Keys -> Value]]
         /\ stack' \in [Threads -> [Slots -> Value]]
         /\ owner' \in [Upvals -> Threads \cup {Nil}]
         /\ color' \in [Obj -> Whites \cup {"gray", "black"}]
         /\ finalized' \subseteq Udatas
         /\ unswept' \subseteq Obj
<1>1. Nil \in Value
  BY DEF Value
<1>2. alloc' \subseteq Obj /\ finalized' \subseteq Udatas /\ unswept' \subseteq Obj
  BY DEF SweepList, TypeOK
<1>3. ref' \in [Obj -> SUBSET Obj]
  <2>1. \A o \in Obj : ref[o] \subseteq Obj
    BY DEF TypeOK
  <2>2. \A T : Orphans(T) \subseteq Upvals
    BY DEF Orphans
  <2> QED BY <2>1, <2>2, UpValueType DEF SweepList
<1>4. entry' \in [Tables -> [Keys -> Value]]
  BY <1>1 DEF SweepList, TypeOK
<1>5. stack' \in [Threads -> [Slots -> Value]]
  BY <1>1 DEF SweepList, TypeOK
<1>6. owner' \in [Upvals -> Threads \cup {Nil}]
  BY DEF SweepList, TypeOK
<1>7. color' \in [Obj -> Whites \cup {"gray", "black"}]
  BY DEF SweepList, TypeOK, Unused, Whites, Rewhite
<1> QED BY <1>2, <1>3, <1>4, <1>5, <1>6, <1>7

LEMMA CollectorType == ASSUME TypeOK, Collector PROVE TypeOK'
<1>k. color \in [Obj -> Colors] /\ gray \subseteq Obj /\ weak \subseteq Obj
  BY DEF TypeOK, Colors, Obj
<1>1. CASE MarkRoot
  BY <1>1, MarkRootType DEF TypeOK, MarkRoot, heap, finals
<1>2. ASSUME NEW o \in Obj, Propagate(o) PROVE TypeOK'
  <2>1. color' \in [Obj -> Whites \cup {"gray", "black"}]
    BY <1>2, <1>k, PaintedType DEF Propagate, Colors
  <2>2. gray' \subseteq Obj /\ grayagain' \subseteq Obj
    BY <1>2, LinkedType DEF Propagate, TypeOK, Obj
  <2>3. weak' \subseteq Tables
    BY <1>2, ConstantAssumption DEF Propagate, TypeOK
  <2> QED BY <1>2, <2>1, <2>2, <2>3 DEF TypeOK, Propagate, heap, finals
<1>3. CASE RemarkUpvals
  <2>1. color' \in [Obj -> Whites \cup {"gray", "black"}] /\ gray' \subseteq Obj
    BY <1>3, <1>k, PaintedType, LinkedType DEF RemarkUpvals, Mark, Colors
  <2> QED BY <1>3, <2>1 DEF TypeOK, RemarkUpvals, States, Atomic, heap, finals
<1>4. CASE RemarkWeak
  <2>1. color' \in [Obj -> Whites \cup {"gray", "black"}] /\ gray' \subseteq Obj
    BY <1>4, <1>k, PaintedType, LinkedType DEF RemarkWeak, Colors
  <2> QED BY <1>4, <2>1 DEF TypeOK, RemarkWeak, States, Atomic, heap, finals
<1>5. CASE RemarkAgain
  BY <1>5 DEF TypeOK, RemarkAgain, States, Atomic, heap, marks, finals
<1>6. CASE SeparateUdata
  <2>1. color' \in [Obj -> Whites \cup {"gray", "black"}]
    BY <1>6, <1>k, PaintedType DEF SeparateUdata, Colors
  <2>2. gray' \subseteq Obj
    BY <1>6, LinkedType DEF SeparateUdata
  <2>3. tmudata' \subseteq Udatas /\ finalized' \subseteq Udatas
    BY <1>6 DEF SeparateUdata, TypeOK, Separated, Unreached
  <2> QED BY <1>6, <2>1, <2>2, <2>3 DEF TypeOK, SeparateUdata, States, Atomic, heap
<1>7. CASE Flip
  <2>1. entry' \in [Tables -> [Keys -> Value]]
    BY <1>7 DEF Flip, TypeOK, Value
  <2>2. color' \in [Obj -> Whites \cup {"gray", "black"}] /\ cw' \in Whites
    BY <1>7 DEF Flip, TypeOK, Other, Whites
  <2>3. unswept' \subseteq Obj
    BY <1>7 DEF Flip, TypeOK
  <2> QED BY <1>7, <2>1, <2>2, <2>3 DEF TypeOK, Flip, States, Sweeping, lists, finals
<1>8. ASSUME NEW S \in SUBSET unswept, SweepString(S) PROVE TypeOK'
  BY <1>8, SweepListType DEF TypeOK, SweepString, States, Sweeping, lists
<1>9. ASSUME NEW S \in SUBSET unswept, Sweep(S) PROVE TypeOK'
  BY <1>9, SweepListType DEF TypeOK, Sweep, States, Sweeping, lists
<1>10. ASSUME NEW u \in Udatas, NEW s \in Temps, CallFinalizer(u, s) PROVE TypeOK'
  <2>1. run \in Threads /\ s \in Slots /\ u \in Value
    BY KindAssumption DEF TypeOK, Temps, Value, Obj
  <2>2. stack' \in [Threads -> [Slots -> Value]]
    BY <1>10, <2>1, StackWrite DEF CallFinalizer
  <2>3. color' \in [Obj -> Whites \cup {"gray", "black"}]
    BY <1>10 DEF CallFinalizer, TypeOK
  <2>4. called' \in [Udatas -> Nat]
    <3>1. called \in [Udatas -> Nat] /\ called' = [called EXCEPT ![u] = called[u] + 1]
      BY <1>10 DEF CallFinalizer, TypeOK
    <3> QED BY <3>1
  <2> QED BY <1>10, <2>2, <2>3, <2>4 DEF TypeOK, CallFinalizer, lists
<1>11. CASE EndCycle
  BY <1>11 DEF TypeOK, EndCycle, States, heap, marks, lists, finals
<1>12. CASE FullMark
  BY <1>12, MarkRootType DEF TypeOK, FullMark, heap, finals
<1>13. SUBSET (unswept \cap Strings) \subseteq SUBSET unswept
  OBVIOUS
<1> QED BY <1>1, <1>2, <1>3, <1>4, <1>5, <1>6, <1>7, <1>8, <1>9, <1>10, <1>11, <1>12, <1>13
        DEF Collector

\* Every variable keeps its type, whatever the program and the collector do.
THEOREM TypeCorrect == Spec => []TypeOK
<1>1. Init => TypeOK
  <2> SUFFICES ASSUME Init PROVE TypeOK
    OBVIOUS
  <2>1. alloc \subseteq Obj
    BY ConstantAssumption DEF Init, Obj
  <2>2. /\ entry \in [Tables -> [Keys -> Value]]
        /\ stack \in [Threads -> [Slots -> Value]]
    BY ConstantAssumption, KindAssumption DEF Init, Value, Obj
  <2> QED BY <2>1, <2>2, ConstantAssumption DEF Init, TypeOK, Unused, Whites, States
<1>2. TypeOK /\ [Next]_vars => TypeOK'
  <2> SUFFICES ASSUME TypeOK, [Next]_vars PROVE TypeOK'
    OBVIOUS
  <2>1. CASE FullGC
    BY <2>1 DEF TypeOK, FullGC, States, Sweeping, heap, marks, lists, finals
  <2>2. CASE UNCHANGED vars
    BY <2>2 DEF TypeOK, vars, heap, marks, lists, finals
  <2> QED BY <2>1, <2>2, AllocateType, UpdateType, CollectorType DEF Next, Mutator
<1> QED BY <1>1, <1>2, PTL DEF Spec

-----------------------------------------------------------------------------
(* Finalizers.                                                             *)

\* Userdata waiting for its finalizer is allocated, has FINALIZEDBIT and is
\* not in front of the sweep; without FINALIZEDBIT nothing was called; with it,
\* and off the list, the finalizer was called once.
CallsCounted ==
  /\ tmudata \subseteq alloc \cap finalized
  /\ finalized \subseteq alloc
  /\ unswept \cap tmudata = {}
  /\ \A u \in Udatas \cap alloc :
       /\ u \in tmudata \/ u \notin finalized => called[u] = 0
       /\ u \in (finalized \cap Finalizable) \ tmudata => called[u] = 1
       /\ called[u] <= 1

\* Dead userdata exists only in front of the sweep.
DeadIsUnswept ==
  /\ gcstate \notin Sweeping => unswept = {}
  /\ \A u \in Udatas \cap alloc : IsDead(u) => u \in unswept

\* What the last mark phase did not reach was given to luaC_separateudata.
DeadIsFinalized ==
  /\ \A u \in Finalizable \cap alloc :
       IsDead(u) \/ (gcstate = "separated" /\ White(u)) => u \in finalized
  /\ gcstate = "separated" => \A u \in tmudata : ~ White(u)

FinalInv == CallsCounted /\ DeadIsUnswept /\ DeadIsFinalized

-----------------------------------------------------------------------------
(* Steps that neither sweep, flip, separate nor call leave userdata alone, *)
(* or color it black or with the current white.                            *)

Benign ==
  /\ UNCHANGED <<cw, unswept, tmudata, finalized, called>>
  /\ alloc' \cap Udatas = alloc \cap Udatas
  /\ gcstate' \in Sweeping <=> gcstate \in Sweeping
  /\ gcstate' = "separated" => gcstate = "separated"
  /\ \A u \in Udatas : \/ color'[u] \in {color[u], "black"}
                       \/ gcstate' # "separated" /\ color'[u] = cw

LEMMA UdataObj == Udatas \subseteq Obj /\ Finalizable \subseteq Udatas
BY ConstantAssumption DEF Obj

LEMMA BenignStep == ASSUME TypeOK, FinalInv, Benign PROVE FinalInv'
<1>1. tmudata \subseteq Udatas /\ finalized \subseteq Udatas /\ cw \in Whites
  BY DEF TypeOK
<1>2. \A u \in Udatas : /\ White(u)' => White(u) \/ gcstate' # "separated"
                        /\ IsDead(u)' => IsDead(u)
  BY <1>1 DEF Benign, White, IsDead, Other, Whites
<1>3. CallsCounted'
  BY <1>1 DEF Benign, FinalInv, CallsCounted
<1>4. DeadIsUnswept'
  BY <1>2 DEF Benign, FinalInv, DeadIsUnswept
<1>5. DeadIsFinalized'
  BY <1>1, <1>2, UdataObj DEF Benign, FinalInv, DeadIsFinalized
<1> QED BY <1>3, <1>4, <1>5 DEF FinalInv

LEMMA PaintedUdata ==
  ASSUME NEW M, NEW u \in Udatas PROVE Painted(M)[u] \in {color[u], "black"}
BY UdataObj DEF Painted, MarkedColor

LEMMA BarrierUdata ==
  ASSUME TypeOK, NEW u \in Udatas
  PROVE  /\ \A o \in Obj : \A v : BarrierForward(o, v) => color'[u] \in {color[u], "black", cw}
         /\ \A t \in Tables : \A V : BarrierBack(t, V) => color'[u] = color[u]
<1>1. ASSUME NEW o \in Obj, NEW v, BarrierForward(o, v)
      PROVE  color'[u] \in {color[u], "black", cw}
  <2>1. CASE Mark({v})
    BY <2>1, PaintedUdata DEF Mark
  <2>2. CASE ~ Mark({v})
    BY <1>1, <2>2, UdataObj DEF BarrierForward, TypeOK
  <2> QED BY <2>1, <2>2
<1>2. ASSUME NEW t \in Tables, NEW V, BarrierBack(t, V) PROVE color'[u] = color[u]
  BY <1>2, KindAssumption, UdataObj DEF BarrierBack, TypeOK
<1> QED BY <1>1, <1>2

-----------------------------------------------------------------------------
(* The mutator.                                                            *)

LEMMA CreateUdata ==
  ASSUME TypeOK, NEW o \in Obj, NEW R, NEW s, Create(o, R, s), NEW u \in Udatas
  PROVE  color'[u] = IF u = o THEN cw ELSE color[u]
BY UdataObj DEF Create, TypeOK

LEMMA AllocateFinal == ASSUME TypeOK, FinalInv, Allocate PROVE FinalInv'
<1>k. /\ \A o \in Tables \cup Strings \cup Funcs \cup Upvals \cup Threads : o \notin Udatas /\ o \in Obj
      /\ UpvalsHeld \subseteq Upvals
      /\ Running => gcstate # "separated"
  BY KindAssumption DEF Obj, UpvalsHeld, Running, Atomic
<1>0. PICK s \in Temps :
        \/ \E t \in Tables : NewTable(t, s)
        \/ \E x \in Strings : NewString(x, s)
        \/ \E th \in Threads : NewThread(th, s)
        \/ \E e \in Envs, u \in Udatas : NewUdata(u, e, s)
        \/ \E e \in Envs, f \in Funcs, v \in Readable \cup {Nil} : NewCClosure(f, e, v, s)
        \/ \E e \in Envs, f \in Funcs, uv \in UpvalsHeld : ClosureOverUpvalue(f, e, uv, s)
        \/ \E e \in Envs, f \in Funcs, uv \in Upvals, lv \in Temps :
              ClosureOverLocal(f, e, uv, lv, s)
  BY Zenon DEF Allocate
<1>1. ASSUME NEW t \in Tables, NewTable(t, s) PROVE Benign
  BY <1>1, <1>k, CreateUdata DEF NewTable, Create, finals, Benign
<1>2. ASSUME NEW x \in Strings, NewString(x, s) PROVE Benign
  <2>1. \A u \in Udatas : color'[u] = color[u]
    BY <1>2, <1>k, UdataObj DEF NewString, Create, TypeOK
  <2>2. alloc' \cap Udatas = alloc \cap Udatas
    BY <1>2, <1>k DEF NewString, Create
  <2> QED BY <1>2, <2>1, <2>2 DEF NewString, finals, Benign
<1>3. ASSUME NEW th \in Threads, NewThread(th, s) PROVE Benign
  BY <1>3, <1>k, UdataObj DEF NewThread, finals, Benign, TypeOK
<1>4. ASSUME NEW e \in Envs, NEW n \in Udatas, NewUdata(n, e, s) PROVE FinalInv'
  <2>1. /\ n \notin alloc /\ n \in Obj /\ Create(n, {e}, s)
        /\ alloc' = alloc \cup {n}
        /\ gcstate # "separated"
        /\ UNCHANGED <<cw, gcstate, unswept, tmudata, finalized>>
        /\ called' = [called EXCEPT ![n] = 0]
    BY <1>4, <1>k, UdataObj DEF NewUdata, Create
  <2>2. n \notin tmudata /\ n \notin finalized
    BY <2>1 DEF FinalInv, CallsCounted
  <2>3. \A u \in Udatas : color'[u] = IF u = n THEN cw ELSE color[u]
    BY <2>1, CreateUdata
  <2>4. CallsCounted'
    BY <2>1, <2>2 DEF FinalInv, CallsCounted, TypeOK
  <2>5. DeadIsUnswept'
    BY <2>1, <2>3 DEF FinalInv, DeadIsUnswept, IsDead, TypeOK, Other, Whites
  <2>6. DeadIsFinalized'
    BY <2>1, <2>3, UdataObj DEF FinalInv, DeadIsFinalized, IsDead, TypeOK, Other, Whites
  <2> QED BY <2>4, <2>5, <2>6 DEF FinalInv
<1>5. ASSUME NEW e \in Envs, NEW f \in Funcs, NEW v \in Readable \cup {Nil},
             NewCClosure(f, e, v, s)
      PROVE Benign
  BY <1>5, <1>k, CreateUdata DEF NewCClosure, Create, finals, Benign
<1>6. ASSUME NEW e \in Envs, NEW f \in Funcs, NEW uv \in UpvalsHeld,
             ClosureOverUpvalue(f, e, uv, s)
      PROVE Benign
  BY <1>6, <1>k, CreateUdata DEF ClosureOverUpvalue, Create, finals, Benign
<1>7. ASSUME NEW e \in Envs, NEW f \in Funcs, NEW uv \in Upvals, NEW lv \in Temps,
             ClosureOverLocal(f, e, uv, lv, s)
      PROVE Benign
  <2>1. \A u \in Udatas : color'[u] = color[u]
    BY <1>7, <1>k, UdataObj DEF ClosureOverLocal, TypeOK
  <2> QED BY <1>7, <1>k, <2>1 DEF ClosureOverLocal, finals, Benign
<1> QED BY <1>0, <1>1, <1>2, <1>3, <1>4, <1>5, <1>6, <1>7, BenignStep

LEMMA UpdateFinal == ASSUME TypeOK, FinalInv, Update PROVE FinalInv'
<1>k. /\ Readable \subseteq Obj
      /\ UpvalsHeld \subseteq Upvals /\ Upvals \subseteq Obj
      /\ Running => gcstate # "separated"
  BY ReadableType DEF Running, Atomic, UpvalsHeld, Obj
<1>1. ASSUME NEW t \in Readable \cap Tables, NEW k, NEW v, SetEntry(t, k, v) PROVE Benign
  BY <1>1, BarrierUdata DEF SetEntry, finals, Benign
<1>2. ASSUME NEW t \in Readable \cap Tables, NEW m, SetMetatable(t, m) PROVE Benign
  BY <1>2, BarrierUdata DEF SetMetatable, finals, Benign
<1>3. ASSUME NEW m, SetBasicMetatable(m) PROVE Benign
  BY <1>3 DEF SetBasicMetatable, marks, finals, Benign
<1>4. ASSUME NEW lv \in Temps, CloseUpvals(lv) PROVE Benign
  <2>1. \A u \in Udatas : color'[u] \in {color[u], "black"}
    BY <1>4, KindAssumption, UdataObj DEF CloseUpvals, MarkedColor
  <2>2. alloc' \cap Udatas = alloc \cap Udatas
    BY <1>4, KindAssumption DEF CloseUpvals
  <2> QED BY <1>4, <2>1, <2>2 DEF CloseUpvals, finals, Benign
<1>5. ASSUME NEW v, NEW s, Fetch(v, s) PROVE Benign
  BY <1>5 DEF Fetch, marks, finals, Benign
<1>6. ASSUME NEW v, NEW o \in Readable, NEW x, SetField(o, x, v) PROVE Benign
  BY <1>6, <1>k, BarrierUdata DEF SetField, finals, Benign
<1>7. ASSUME NEW v, NEW uv \in UpvalsHeld, SetUpval(uv, v) PROVE Benign
  BY <1>7, <1>k, BarrierUdata DEF SetUpval, finals, Benign
<1>8. ASSUME NEW v, NEW th, NEW s, Resume(th, v, s) PROVE Benign
  BY <1>8 DEF Resume, marks, finals, Benign
<1>9. ASSUME NEW v, NEW s, Yield(v, s) PROVE Benign
  BY <1>9 DEF Yield, marks, finals, Benign
<1> QED BY <1>1, <1>2, <1>3, <1>4, <1>5, <1>6, <1>7, <1>8, <1>9, BenignStep DEF Update

-----------------------------------------------------------------------------
(* The collector.                                                          *)

LEMMA MarkRootBenign ==
  ASSUME TypeOK, MarkRootSet, gcstate \notin Sweeping,
         UNCHANGED <<heap, cw, unswept, finals>>
  PROVE  Benign
<1>1. PICK M : color' = Painted(M)
  BY DEF MarkRootSet
<1> QED BY <1>1, PaintedUdata DEF MarkRootSet, Benign, heap, finals, Sweeping

\* A sweep frees no userdata but dead userdata of S, and whitens the rest of S.
LEMMA SweepUdata ==
  ASSUME TypeOK, NEW S \in SUBSET unswept, SweepList(S), NEW u \in Udatas
  PROVE  /\ u \in alloc' <=> u \in alloc /\ ~ (u \in S /\ IsDead(u))
         /\ u \in finalized' <=> u \in finalized /\ ~ (u \in S /\ IsDead(u))
         /\ u \in alloc' => color'[u] = IF u \in S THEN cw ELSE color[u]
         /\ u \in unswept' <=> u \in unswept \ S
<1>1. u \notin Upvals /\ u \notin Fixed /\ u \in Obj
  BY KindAssumption, ConstantAssumption, UdataObj DEF Fixed
<1> DEFINE swept == S \cup {uv \in Upvals \cap alloc : owner[uv] \in S}
           freed == {o \in swept \ Fixed : IsDead(o)}
<1>2. u \in swept <=> u \in S
  BY <1>1
<1>3. u \in freed <=> u \in S /\ IsDead(u)
  BY <1>1, <1>2
<1>4. /\ alloc' = alloc \ freed
      /\ finalized' = finalized \ freed
      /\ unswept' = unswept \ (S \cup freed)
      /\ color'[u] = IF u \in freed THEN Unused ELSE IF u \in swept THEN cw ELSE color[u]
  BY <1>1 DEF SweepList, Rewhite
<1> HIDE DEF swept, freed
<1> QED BY <1>2, <1>3, <1>4

LEMMA SweepFinal ==
  ASSUME TypeOK, FinalInv, NEW S \in SUBSET unswept, SweepList(S),
         gcstate \in Sweeping, gcstate' # "separated",
         gcstate' \notin Sweeping => S = unswept,
         UNCHANGED <<cw, tmudata, called>>
  PROVE  FinalInv'
<1>1. tmudata \subseteq Udatas /\ finalized \subseteq Udatas /\ finalized' \subseteq Udatas
  BY SweepListType DEF TypeOK
<1>2. S \cap tmudata = {} /\ unswept' \subseteq unswept
  BY DEF FinalInv, CallsCounted, SweepList
<1>3. CallsCounted'
  BY <1>1, <1>2, SweepUdata DEF FinalInv, CallsCounted
<1>4. cw # Other(cw)
  BY DEF TypeOK, Other, Whites
<1>5. \A u \in Udatas \cap alloc' : IsDead(u)' => IsDead(u) /\ u \notin S
  BY <1>4, SweepUdata DEF IsDead
<1>6. DeadIsUnswept'
  <2>1. S = unswept => unswept' = {}
    BY DEF SweepList
  <2> QED BY <1>5, <2>1, SweepUdata DEF FinalInv, DeadIsUnswept
<1>7. DeadIsFinalized'
  BY <1>5, SweepUdata, UdataObj DEF FinalInv, DeadIsFinalized
<1> QED BY <1>3, <1>6, <1>7 DEF FinalInv

LEMMA SeparateFinal == ASSUME TypeOK, FinalInv, SeparateUdata PROVE FinalInv'
<1>1. /\ gcstate = "remarkagain" /\ gcstate' = "separated"
      /\ alloc' = alloc /\ cw' = cw /\ unswept' = unswept /\ called' = called
      /\ finalized' = finalized \cup Unreached
      /\ tmudata' = tmudata \cup (Unreached \cap Finalizable)
  BY DEF SeparateUdata, Separated, heap
<1>2. Unreached \subseteq (Udatas \cap alloc) \ (tmudata \cup finalized)
  BY DEF Unreached
<1>3. unswept = {}
  BY <1>1 DEF FinalInv, DeadIsUnswept, Sweeping
<1>4. CallsCounted'
  BY <1>1, <1>2, <1>3 DEF FinalInv, CallsCounted
<1>5. \A u \in Udatas : color'[u] = IF u \in tmudata' THEN "black" ELSE Painted(Preserved)[u]
  BY UdataObj DEF SeparateUdata
<1>6. \A u \in Udatas : color'[u] \in Whites => u \notin tmudata' /\ White(u)
  BY <1>5, PaintedUdata DEF White, Whites
<1>7. \A u \in Udatas : color'[u] = Other(cw) => IsDead(u)
  BY <1>5, PaintedUdata DEF IsDead, Other
<1>8. DeadIsUnswept'
  BY <1>1, <1>3, <1>7 DEF FinalInv, DeadIsUnswept, IsDead, Sweeping
<1>9. DeadIsFinalized'
  <2>1. Other(cw) \in Whites
    BY DEF Other, Whites
  <2>2. ASSUME NEW u \in Finalizable \cap alloc, color'[u] \in Whites PROVE u \in finalized'
    BY <1>1, <1>6, <2>2, UdataObj DEF Unreached
  <2>3. \A u \in tmudata' : color'[u] \notin Whites
    <3>1. tmudata' \subseteq Udatas
      BY <1>1, <1>2 DEF TypeOK
    <3> QED BY <1>6, <3>1
  <2> QED BY <1>1, <2>1, <2>2, <2>3 DEF DeadIsFinalized, White, IsDead
<1> QED BY <1>4, <1>8, <1>9 DEF FinalInv

LEMMA FlipFinal == ASSUME TypeOK, FinalInv, Flip PROVE FinalInv'
<1>1. /\ gcstate = "separated" /\ gcstate' = "sweepstring"
      /\ alloc' = alloc /\ cw' = Other(cw)
      /\ UNCHANGED <<tmudata, finalized, called>>
      /\ unswept' = (alloc \ tmudata) \ {uv \in Upvals : owner[uv] # Nil}
  BY DEF Flip, finals
<1>2. \A u \in Udatas : color'[u] = color[u]
  BY KindAssumption, UdataObj DEF Flip, StringsOfWeak, TypeOK
<1>3. \A u \in Udatas : color'[u] = Other(cw') => White(u)
  BY <1>1, <1>2 DEF White, Other, Whites
<1>4. CallsCounted'
  BY <1>1 DEF FinalInv, CallsCounted
<1>5. DeadIsUnswept'
  <2>1. ASSUME NEW u \in Udatas \cap alloc, color'[u] = Other(cw') PROVE u \in unswept'
    <3>1. u \notin tmudata
      BY <1>1, <1>3, <2>1 DEF FinalInv, DeadIsFinalized
    <3> QED BY <1>1, <3>1, KindAssumption
  <2> QED BY <1>1, <2>1 DEF DeadIsUnswept, IsDead, Sweeping
<1>6. DeadIsFinalized'
  BY <1>1, <1>3, UdataObj DEF FinalInv, DeadIsFinalized, IsDead
<1> QED BY <1>4, <1>5, <1>6 DEF FinalInv

LEMMA CallFinal ==
  ASSUME TypeOK, FinalInv, NEW n \in Udatas, NEW s, CallFinalizer(n, s) PROVE FinalInv'
<1>1. /\ gcstate' = gcstate /\ gcstate = "finalize" /\ n \in tmudata
      /\ UNCHANGED <<alloc, cw, unswept, finalized>>
      /\ tmudata' = tmudata \ {n}
      /\ called' = [called EXCEPT ![n] = called[n] + 1]
  BY DEF CallFinalizer
<1>2. \A u \in Udatas : /\ color'[u] = IF u = n THEN cw ELSE color[u]
                        /\ called'[u] = IF u = n THEN called[n] + 1 ELSE called[u]
  BY <1>1, UdataObj DEF CallFinalizer, TypeOK
<1>3. CallsCounted'
  BY <1>1, <1>2 DEF FinalInv, CallsCounted
<1>4. cw # Other(cw)
  BY DEF TypeOK, Other, Whites
<1>5. DeadIsUnswept'
  BY <1>1, <1>2, <1>4 DEF FinalInv, DeadIsUnswept, IsDead
<1>6. DeadIsFinalized'
  BY <1>1, <1>2, <1>4, UdataObj DEF FinalInv, DeadIsFinalized, IsDead
<1> QED BY <1>3, <1>5, <1>6 DEF FinalInv

LEMMA CollectorFinal == ASSUME TypeOK, FinalInv, Collector PROVE FinalInv'
<1>1. CASE MarkRoot
  BY <1>1, MarkRootBenign, BenignStep DEF MarkRoot, Sweeping
<1>2. ASSUME NEW o \in Obj, Propagate(o) PROVE FinalInv'
  <2>1. \A u \in Udatas : color'[u] \in {color[u], "black"}
    <3>1. PICK M : color' = [Painted(M) EXCEPT
                               ![o] = IF o \in Threads \cup KeyWeak \cup ValueWeak THEN "gray"
                                                                                ELSE "black"]
      BY <1>2 DEF Propagate
    <3>2. \A u \in Udatas : u \notin Threads \cup KeyWeak \cup ValueWeak
      BY KindAssumption, ConstantAssumption
    <3> QED BY <3>1, <3>2, PaintedUdata, UdataObj DEF Painted
  <2> QED BY <1>2, <2>1, BenignStep DEF Propagate, heap, finals, Benign
<1>3. CASE RemarkUpvals
  BY <1>3, PaintedUdata, BenignStep DEF RemarkUpvals, Mark, heap, finals, Benign, Sweeping
<1>4. CASE RemarkWeak
  BY <1>4, PaintedUdata, BenignStep DEF RemarkWeak, heap, finals, Benign, Sweeping
<1>5. CASE RemarkAgain
  BY <1>5, BenignStep DEF RemarkAgain, heap, marks, finals, Benign, Sweeping
<1>6. ASSUME NEW S \in SUBSET (unswept \cap Strings), SweepString(S) PROVE FinalInv'
  BY <1>6, SweepFinal DEF SweepString, Sweeping
<1>7. ASSUME NEW S \in SUBSET unswept, Sweep(S) PROVE FinalInv'
  BY <1>7, SweepFinal DEF Sweep, Sweeping
<1>8. CASE EndCycle
  BY <1>8, BenignStep DEF EndCycle, heap, marks, finals, Benign, Sweeping
<1>9. CASE FullMark
  BY <1>9, MarkRootBenign, BenignStep DEF FullMark, Sweeping
<1> QED BY <1>1, <1>2, <1>3, <1>4, <1>5, <1>6, <1>7, <1>8, <1>9, SeparateFinal, FlipFinal,
           CallFinal DEF Collector

-----------------------------------------------------------------------------
\* The invariant about userdata and their finalizers.
THEOREM FinalizerInvariant == Spec => []FinalInv
<1>1. Init => FinalInv
  BY ConstantAssumption, KindAssumption
     DEF Init, FinalInv, CallsCounted, DeadIsUnswept, DeadIsFinalized, Fixed
<1>2. TypeOK /\ FinalInv /\ [Next]_vars => FinalInv'
  <2> SUFFICES ASSUME TypeOK, FinalInv, [Next]_vars PROVE FinalInv'
    OBVIOUS
  <2>1. CASE FullGC
    BY <2>1 DEF FullGC, FinalInv, CallsCounted, DeadIsUnswept, DeadIsFinalized,
                IsDead, White, heap, marks, finals, Sweeping
  <2>2. CASE UNCHANGED vars
    BY <2>2, BenignStep DEF vars, heap, marks, finals, Benign
  <2> QED BY <2>1, <2>2, AllocateFinal, UpdateFinal, CollectorFinal DEF Next, Mutator
<1> QED BY <1>1, <1>2, TypeCorrect, PTL DEF Spec

\* A finalizer runs at most once in the life of its userdata.
THEOREM FinalizedOnce == Spec => []FinalizeOnce
<1>1. FinalInv => FinalizeOnce
  BY DEF FinalInv, CallsCounted, FinalizeOnce
<1> QED BY <1>1, FinalizerInvariant, PTL

\* Userdata with a finalizer is freed only after its finalizer was called.
THEOREM FinalizedBeforeFree == Spec => FinalizeBeforeFree
<1> DEFINE Called == \A u \in Finalizable \cap alloc : u \notin alloc' => called[u] = 1
<1>1. ASSUME TypeOK, FinalInv, [Next]_vars PROVE [Called]_vars
  <2> SUFFICES ASSUME Next, NEW u \in Finalizable \cap alloc, u \notin alloc'
               PROVE  called[u] = 1
    BY <1>1
  <2>1. u \in Udatas
    BY UdataObj
  <2>2. ASSUME NEW S \in SUBSET unswept, SweepList(S) PROVE called[u] = 1
    <3>1. u \in unswept /\ IsDead(u)
      BY <2>1, <2>2, SweepUdata, <1>1
    <3> QED BY <1>1, <2>1, <3>1 DEF FinalInv, CallsCounted, DeadIsFinalized
  <2>3. Allocate \/ Update => u \in alloc'
    <3>1. ASSUME NEW lv \in Temps, CloseUpvals(lv) PROVE u \in alloc'
      BY <2>1, <3>1, KindAssumption DEF CloseUpvals
    <3>2. Update => u \in alloc'
      BY <3>1 DEF Update, SetEntry, SetMetatable, SetBasicMetatable, Fetch, SetField, SetUpval,
                  Resume, Yield
    <3> QED BY <3>2 DEF Allocate, NewTable, NewString, NewUdata, NewThread, NewCClosure,
                        ClosureOverUpvalue, ClosureOverLocal, Create
  <2>4. CASE Collector
    BY <2>2, <2>4 DEF Collector, MarkRoot, Propagate, RemarkUpvals, RemarkWeak, RemarkAgain,
                      SeparateUdata, Flip, SweepString, Sweep, CallFinalizer, EndCycle, FullMark,
                      heap
  <2> QED BY <2>3, <2>4 DEF Next, Mutator, FullGC, heap
<1> QED BY <1>1, TypeCorrect, FinalizerInvariant, PTL DEF Spec, FinalizeBeforeFree

=============================================================================
