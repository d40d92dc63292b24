---------------------------- MODULE LuaGC_safety ----------------------------
(***************************************************************************)
(* Proofs that the collector of LuaGC is safe: nothing that the program    *)
(* can reach is freed (NoDangling), for every heap, every program and      *)
(* every interleaving of the two.  With it come the invariants of the mark *)
(* phase that it needs: TriColor, GrayLists and OpenUpvals.                *)
(***************************************************************************)
EXTENDS LuaGC_proofs

\* An identity that is not in use holds nothing, so that what is allocated
\* again starts empty.
Fresh == \A o \in Obj \ alloc :
  /\ ref[o] = {}
  /\ o \in Tables => \A k \in Keys : entry[o][k] = Nil
  /\ o \in Upvals => owner[o] = Nil

\* What fixed fields refer to: userdata has a metatable and an environment,
\* upvalues hold values, in the stack while they are open; threads and strings
\* have no fixed field.
Shapes ==
  /\ \A u \in Udatas : ref[u] \subseteq Tables
  /\ \A uv \in Upvals : /\ ref[uv] \cap Upvals = {}
                        /\ owner[uv] # Nil => ref[uv] = {}
  /\ \A o \in Threads \cup Strings : ref[o] = {}

\* Which kinds of object are never black or never gray.
Kinds ==
  /\ \A o \in Threads \cup Strings \cup KeyWeak \cup ValueWeak : ~ Black(o)
  /\ \A u \in Udatas : color[u] # "gray"
  /\ \A uv \in Upvals : /\ Black(uv) => owner[uv] = Nil
                        /\ color[uv] = "gray" => owner[uv] # Nil

\* The sweep has not passed o: an open upvalue is swept with its thread.
Pending(o) == o \in unswept \/ (o \in Upvals /\ owner[o] \in unswept)

\* Outside of the mark phase everything that the sweep has passed is white.
SweptWhite == gcstate \notin Marking =>
  \A o \in alloc \ tmudata : Pending(o) \/ color[o] = cw

\* In a mark phase nothing is dead, the roots that barriers cover are marked,
\* and the lists hold objects of the kinds that are traversed.
MarkBasics == gcstate \in Marking =>
  /\ \A o \in alloc : ~ IsDead(o)
  /\ ~ White(MainThread) /\ ~ White(Registry)
  /\ gray \subseteq Tables \cup Funcs \cup Threads
  /\ grayagain \subseteq Tables \cup Threads

\* Nothing in S is white.
AllMarked(S) == \A c \in S : ~ White(c)

\* What each stage of atomic() has achieved, with the program stopped.
Stages ==
  /\ gcstate \in Atomic =>
       \A uv \in Upvals \cap alloc : color[uv] = "gray" => AllMarked(UpValue(uv))
  /\ gcstate \in Atomic \ {"remark"} =>
       /\ AllMarked(UnbarrieredRoots)
       /\ \A t \in weak : AllMarked(Children(t))
  /\ gcstate \in {"remarkagain", "separated"} =>
       \A th \in grayagain : th \in Threads /\ AllMarked(Children(th))
  /\ gcstate = "separated" =>
       \A u \in tmudata : Black(u) /\ AllMarked(ref[u])

\* The inductive invariant, together with TypeOK and FinalInv.
SafeInv ==
  /\ NoDangling
  /\ OpenUpvals
  /\ Fresh
  /\ Shapes
  /\ Kinds
  /\ SweptWhite
  /\ MarkBasics
  /\ TriColor
  /\ GrayLists
  /\ Stages

-----------------------------------------------------------------------------
(* NoDangling, reference by reference.                                     *)

\* S holds whatever its members refer to, weakly or not.
HeapClosed(S) ==
  /\ \A o \in S : ref[o] \subseteq S
  /\ \A t \in S \cap Tables, k \in Keys : entry[t][k] # Nil => {k, entry[t][k]} \cap Obj \subseteq S
  /\ \A th \in S \cap Threads, s \in Slots : stack[th][s] \in Obj => stack[th][s] \in S
  /\ MainThread \in S => run \in S
  /\ \A uv \in S \cap Upvals : owner[uv] # Nil => {stack[owner[uv]][level[uv]]} \cap Obj \subseteq S

\* An object is of one kind, and neither nil nor a primitive value.
LEMMA Disjoint ==
  /\ \A t \in Tables : t \in Obj /\ t \notin Funcs \cup Udatas \cup Upvals \cup Threads \cup Strings
  /\ \A f \in Funcs : f \in Obj /\ f \notin Tables \cup Udatas \cup Upvals \cup Threads \cup Strings
  /\ \A u \in Udatas : u \in Obj /\ u \notin Tables \cup Funcs \cup Upvals \cup Threads \cup Strings
  /\ \A uv \in Upvals : uv \in Obj /\ uv \notin Tables \cup Funcs \cup Udatas \cup Threads \cup Strings
  /\ \A th \in Threads : th \in Obj /\ th \notin Tables \cup Funcs \cup Udatas \cup Upvals \cup Strings
  /\ \A x \in Strings : x \in Obj /\ x \notin Tables \cup Funcs \cup Udatas \cup Upvals \cup Threads
  /\ Nil \notin Obj /\ Prim \notin Obj /\ Prim # Nil
  /\ \A o \in Obj : o \in Tables \cup Funcs \cup Udatas \cup Upvals \cup Threads \cup Strings
BY KindAssumption, ConstantAssumption DEF Obj

\* What can be read out of a table, whatever its mode.
LEMMA AccessOfTable ==
  \A t \in Tables : Access(t) = ref[t] \cup KeyRefs(t) \cup ValueRefs(t)
BY DEF Access, Children

\* What can be read out of an object that is not a table.
LEMMA AccessOfOthers ==
  /\ \A th \in Threads : Access(th) = StackRefs(th)
  /\ \A uv \in Upvals : Access(uv) = UpValue(uv)
  /\ \A o \in Funcs \cup Udatas \cup Strings : Access(o) = ref[o]
BY Disjoint DEF Access, Children

\* HeapClosed says of S what NoDangling says of the survivors.
LEMMA ClosedAccess ==
  TypeOK /\ Shapes =>
    \A S \in SUBSET Obj : HeapClosed(S) <=> \A o \in S : Access(o) \subseteq S
<1> SUFFICES ASSUME TypeOK, Shapes, NEW S \in SUBSET Obj
             PROVE  HeapClosed(S) <=> \A o \in S : Access(o) \subseteq S
  OBVIOUS
<1>1. ASSUME NEW t \in S \cap Tables
      PROVE  Access(t) \subseteq S <=>
               ref[t] \subseteq S /\ \A k \in Keys : entry[t][k] # Nil => {k, entry[t][k]} \cap Obj \subseteq S
  <2>1. Access(t) \subseteq S <=> ref[t] \subseteq S /\ KeyRefs(t) \subseteq S /\ ValueRefs(t) \subseteq S
    BY <1>1, AccessOfTable
  <2>2. KeyRefs(t) \subseteq S <=> \A k \in Keys : entry[t][k] # Nil => {k} \cap Obj \subseteq S
    BY DEF KeyRefs, Used
  <2>3. ValueRefs(t) \subseteq S <=> \A k \in Keys : entry[t][k] # Nil => {entry[t][k]} \cap Obj \subseteq S
    BY DEF ValueRefs, Used
  <2> QED BY <2>1, <2>2, <2>3
<1>2. ASSUME NEW th \in S \cap Threads
      PROVE  Access(th) \subseteq S <=>
               /\ \A s \in Slots : stack[th][s] \in Obj => stack[th][s] \in S
               /\ th = MainThread => run \in S
  BY <1>2, AccessOfOthers DEF StackRefs
<1>3. ASSUME NEW uv \in S \cap Upvals
      PROVE  Access(uv) \subseteq S <=>
               ref[uv] \subseteq S /\ (owner[uv] # Nil => {stack[owner[uv]][level[uv]]} \cap Obj \subseteq S)
  BY <1>3, AccessOfOthers DEF UpValue, Shapes
<1>4. ASSUME NEW o \in S \cap (Funcs \cup Udatas \cup Strings)
      PROVE  Access(o) \subseteq S <=> ref[o] \subseteq S
  BY <1>4, AccessOfOthers
<1>5. \A th \in Threads : ref[th] = {}
  BY DEF Shapes
<1>6. MainThread \in Threads
  BY ConstantAssumption
<1>7. ASSUME HeapClosed(S), NEW o \in S PROVE Access(o) \subseteq S
  <2>1. CASE o \in Tables
    BY <1>7, <1>1, <2>1 DEF HeapClosed
  <2>2. CASE o \in Threads
    BY <1>7, <1>2, <2>2 DEF HeapClosed
  <2>3. CASE o \in Upvals
    BY <1>7, <1>3, <2>3 DEF HeapClosed
  <2>4. CASE o \in Funcs \cup Udatas \cup Strings
    BY <1>7, <1>4, <2>4 DEF HeapClosed
  <2> QED BY <2>1, <2>2, <2>3, <2>4, Disjoint
<1>8. ASSUME \A o \in S : Access(o) \subseteq S PROVE HeapClosed(S)
  <2>1. \A o \in S : ref[o] \subseteq S
    BY <1>8, <1>1, <1>3, <1>4, <1>5, Disjoint
  <2>2. \A t \in S \cap Tables, k \in Keys : entry[t][k] # Nil => {k, entry[t][k]} \cap Obj \subseteq S
    BY <1>8, <1>1
  <2>3. \A th \in S \cap Threads, s \in Slots : stack[th][s] \in Obj => stack[th][s] \in S
    BY <1>8, <1>2
  <2>4. MainThread \in S => run \in S
    BY <1>8, <1>2, <1>6
  <2>5. \A uv \in S \cap Upvals : owner[uv] # Nil => {stack[owner[uv]][level[uv]]} \cap Obj \subseteq S
    BY <1>8, <1>3
  <2> QED BY <2>1, <2>2, <2>3, <2>4, <2>5 DEF HeapClosed
<1> QED BY <1>7, <1>8

\* Survivors are allocated objects.
LEMMA SurvivorsType == TypeOK => Survivors \subseteq alloc /\ alloc \subseteq Obj
BY DEF Survivors, TypeOK

\* NoDangling, with the closure taken apart by kind of reference.
LEMMA NoDanglingClosed ==
  TypeOK /\ Shapes => (NoDangling <=> Roots \subseteq Survivors /\ HeapClosed(Survivors))
<1> SUFFICES ASSUME TypeOK, Shapes
             PROVE NoDangling <=> Roots \subseteq Survivors /\ HeapClosed(Survivors)
  OBVIOUS
<1>1. Survivors \in SUBSET Obj
  BY SurvivorsType
<1>2. HeapClosed(Survivors) <=> \A o \in Survivors : Access(o) \subseteq Survivors
  BY <1>1, ClosedAccess
<1> QED BY <1>2 DEF NoDangling

\* The same for the state after a step.
LEMMA NoDanglingNext ==
  ASSUME TypeOK', Shapes', (Roots \subseteq Survivors)', HeapClosed(Survivors)'
  PROVE  NoDangling'
<1>1. (TypeOK /\ Shapes => (NoDangling <=> Roots \subseteq Survivors /\ HeapClosed(Survivors)))'
  BY NoDanglingClosed, PTL
<1> QED BY <1>1

-----------------------------------------------------------------------------
(* What the program holds survives: the operands of its operations.        *)

\* The part of the invariant that operations of the program rely on.
HeapSafe == TypeOK /\ Shapes /\ NoDangling

\* What HeapSafe says of roots, survivors and references.
LEMMA HeapFacts ==
  ASSUME HeapSafe
  PROVE  /\ Roots \subseteq Survivors
         /\ HeapClosed(Survivors)
         /\ \A o \in Survivors : Access(o) \subseteq Survivors
         /\ Survivors \subseteq alloc
         /\ alloc \subseteq Obj
BY NoDanglingClosed, SurvivorsType DEF HeapSafe, NoDangling

\* What the running thread holds survives.
LEMMA HeldSurvives == ASSUME HeapSafe PROVE Held \subseteq Survivors
<1>1. run \in Survivors /\ Registry \in Survivors /\ run \in Threads
  BY HeapFacts DEF Roots, HeapSafe, TypeOK
<1>2. \A s \in Slots : stack[run][s] \in Obj => stack[run][s] \in Survivors
  BY <1>1, HeapFacts DEF HeapClosed
<1> QED BY <1>1, <1>2 DEF Held

\* So do the upvalues of the closures it holds.
LEMMA UpvalsHeldSurvive == ASSUME HeapSafe PROVE UpvalsHeld \subseteq Survivors \cap Upvals
<1>1. \A f \in Held \cap Funcs : ref[f] \subseteq Survivors
  BY HeldSurvives, HeapFacts DEF HeapClosed
<1> QED BY <1>1 DEF UpvalsHeld

\* So does whatever one operation can read.
LEMMA ReadableSurvives == ASSUME HeapSafe PROVE Readable \subseteq Survivors \ Upvals
<1>1. Held \subseteq Survivors
  BY HeldSurvives
<1>2. \A o \in Held : Access(o) \subseteq Survivors
  BY <1>1, HeapFacts
<1>3. \A uv \in UpvalsHeld : UpValue(uv) \subseteq Survivors
  BY UpvalsHeldSurvive, HeapFacts, AccessOfOthers
<1>4. {mt} \cap Obj \subseteq Survivors
  BY HeapFacts DEF Roots
<1> QED BY <1>1, <1>2, <1>3, <1>4 DEF Readable

\* So do the environments it can give to new objects.
LEMMA EnvsSurvive == ASSUME HeapSafe PROVE Envs \subseteq Survivors \cap Tables
<1>1. run \in Survivors /\ run \in Threads /\ GlobalsSlot \in Slots
  BY HeapFacts, ConstantAssumption DEF Roots, HeapSafe, TypeOK
<1>2. stack[run][GlobalsSlot] \in Obj => stack[run][GlobalsSlot] \in Survivors
  BY <1>1, HeapFacts DEF HeapClosed
<1>3. \A f \in Held \cap Funcs : ref[f] \subseteq Survivors
  BY HeldSurvives, HeapFacts DEF HeapClosed
<1> QED BY <1>2, <1>3, Disjoint DEF Envs

\* Survivors depend on the allocated objects, the phase and who is dead.
LEMMA SurvivorsKept ==
  ASSUME alloc' = alloc, gcstate' \in Sweeping <=> gcstate \in Sweeping,
         gcstate \in Sweeping => \A o \in alloc : IsDead(o)' <=> IsDead(o)
  PROVE  Survivors' = Survivors
BY DEF Survivors

-----------------------------------------------------------------------------
(* Writes to a heap in which nothing dangles.                              *)

\* A stack slot is written, and the running thread may change.
LEMMA StackWriteSafe ==
  ASSUME HeapSafe, TypeOK', NEW th \in Threads, NEW s \in Slots, NEW v,
         v \in Obj => v \in Survivors',
         stack' = [stack EXCEPT ![th][s] = v],
         run' \in Survivors, tmudata' \subseteq Survivors,
         UNCHANGED <<ref, entry, owner, level, mt>>,
         NEW new \in SUBSET Strings, Survivors' = Survivors \cup new
  PROVE  (Roots \subseteq Survivors)' /\ HeapClosed(Survivors)'
<1>1. Roots \subseteq Survivors /\ HeapClosed(Survivors)
  BY HeapFacts
<1>n. \A x \in new : ref[x] = {} /\ x \notin Tables \cup Threads \cup Upvals
  BY Disjoint DEF HeapSafe, Shapes
<1>2. (Roots \subseteq Survivors)'
  BY <1>1 DEF Roots
<1>3. \A q \in Threads, p \in Slots :
         stack'[q][p] = IF q = th /\ p = s THEN v ELSE stack[q][p]
  BY DEF HeapSafe, TypeOK
<1>4. (\A o \in Survivors : ref[o] \subseteq Survivors)'
  BY <1>1, <1>n DEF HeapClosed
<1>5. (\A t \in Survivors \cap Tables, k \in Keys :
          entry[t][k] # Nil => {k, entry[t][k]} \cap Obj \subseteq Survivors)'
  BY <1>1, <1>n DEF HeapClosed
<1>6. (\A q \in Survivors \cap Threads, p \in Slots :
          stack[q][p] \in Obj => stack[q][p] \in Survivors)'
  BY <1>1, <1>n, <1>3 DEF HeapClosed
<1>7. (MainThread \in Survivors => run \in Survivors)'
  OBVIOUS
<1>8. (\A uv \in Survivors \cap Upvals : owner[uv] # Nil =>
          {stack[owner[uv]][level[uv]]} \cap Obj \subseteq Survivors)'
  <2>1. \A uv \in Survivors \cap Upvals : owner[uv] # Nil => owner[uv] \in Threads /\ level[uv] \in Slots
    BY DEF HeapSafe, TypeOK
  <2> QED BY <1>1, <1>n, <1>3, <2>1 DEF HeapClosed
<1> QED BY <1>2, <1>4, <1>5, <1>6, <1>7, <1>8 DEF HeapClosed

\* A fixed field is written.
LEMMA FieldWriteSafe ==
  ASSUME HeapSafe, NEW o \in Obj, NEW R \in SUBSET Survivors,
         ref' = [ref EXCEPT ![o] = R],
         UNCHANGED <<entry, stack, owner, level, mt, run, tmudata>>,
         Survivors' = Survivors
  PROVE  (Roots \subseteq Survivors)' /\ HeapClosed(Survivors)'
<1>1. Roots \subseteq Survivors /\ HeapClosed(Survivors)
  BY HeapFacts
<1>2. (Roots \subseteq Survivors)'
  BY <1>1 DEF Roots
<1>3. (\A p \in Survivors : ref[p] \subseteq Survivors)'
  BY <1>1, HeapFacts DEF HeapClosed, HeapSafe, TypeOK
<1> QED BY <1>1, <1>2, <1>3 DEF HeapClosed

\* An entry of a table is written.
LEMMA EntryWriteSafe ==
  ASSUME HeapSafe, NEW t \in Tables, NEW k \in Keys, NEW v,
         {k, v} \cap Obj \subseteq Survivors,
         entry' = [entry EXCEPT ![t][k] = v],
         UNCHANGED <<ref, stack, owner, level, mt, run, tmudata>>,
         Survivors' = Survivors
  PROVE  (Roots \subseteq Survivors)' /\ HeapClosed(Survivors)'
<1>1. Roots \subseteq Survivors /\ HeapClosed(Survivors)
  BY HeapFacts
<1>2. (Roots \subseteq Survivors)'
  BY <1>1 DEF Roots
<1>3. \A q \in Tables, j \in Keys : entry'[q][j] = IF q = t /\ j = k THEN v ELSE entry[q][j]
  BY DEF HeapSafe, TypeOK
<1>4. (\A q \in Survivors \cap Tables, j \in Keys :
          entry[q][j] # Nil => {j, entry[q][j]} \cap Obj \subseteq Survivors)'
  BY <1>1, <1>3 DEF HeapClosed
<1> QED BY <1>1, <1>2, <1>4 DEF HeapClosed

\* An object other than an upvalue or a thread is made, with fields R.
LEMMA CreateSafe ==
  ASSUME HeapSafe, Fresh, NEW o \in Obj \ (Upvals \cup Threads), NEW R \in SUBSET Survivors,
         NEW s \in Slots, Create(o, R, s),
         UNCHANGED <<entry, owner, level, mt, run, tmudata>>,
         Survivors' = Survivors \cup {o}
  PROVE  (Roots \subseteq Survivors)' /\ HeapClosed(Survivors)'
<1>1. Roots \subseteq Survivors /\ HeapClosed(Survivors) /\ run \in Threads /\ run \in Survivors
  BY HeapFacts DEF Roots, HeapSafe, TypeOK
<1>2. (Roots \subseteq Survivors)'
  BY <1>1 DEF Roots
<1>3. \A q \in Threads, p \in Slots :
         stack'[q][p] = IF q = run /\ p = s THEN o ELSE stack[q][p]
  BY DEF HeapSafe, TypeOK, Create
<1>4. \A p \in Obj : ref'[p] = IF p = o THEN R ELSE ref[p]
  BY DEF HeapSafe, TypeOK, Create
<1>5. (\A p \in Survivors : ref[p] \subseteq Survivors)'
  BY <1>1, <1>4, HeapFacts DEF HeapClosed
<1>6. (\A t \in Survivors \cap Tables, k \in Keys :
          entry[t][k] # Nil => {k, entry[t][k]} \cap Obj \subseteq Survivors)'
  <2>1. o \in Tables => \A k \in Keys : entry[o][k] = Nil
    BY DEF Fresh, Create
  <2> QED BY <1>1, <2>1 DEF HeapClosed
<1>7. (\A q \in Survivors \cap Threads, p \in Slots :
          stack[q][p] \in Obj => stack[q][p] \in Survivors)'
  BY <1>1, <1>3 DEF HeapClosed
<1>8. (\A uv \in Survivors \cap Upvals : owner[uv] # Nil =>
          {stack[owner[uv]][level[uv]]} \cap Obj \subseteq Survivors)'
  <2>1. \A uv \in Survivors \cap Upvals : owner[uv] # Nil => owner[uv] \in Threads /\ level[uv] \in Slots
    BY DEF HeapSafe, TypeOK
  <2> QED BY <1>1, <1>3, <2>1 DEF HeapClosed
<1> QED BY <1>1, <1>2, <1>5, <1>6, <1>7, <1>8 DEF HeapClosed

\* A thread is made: only its globals are copied into its stack.
LEMMA NewThreadSafe ==
  ASSUME HeapSafe, OpenUpvals, NEW th \in Threads, NEW s \in Temps, NewThread(th, s),
         Survivors' = Survivors \cup {th}
  PROVE  (Roots \subseteq Survivors)' /\ HeapClosed(Survivors)'
<1>1. /\ Roots \subseteq Survivors /\ HeapClosed(Survivors) /\ run \in Threads /\ run \in Survivors
      /\ run # th /\ s \in Slots /\ s # GlobalsSlot /\ GlobalsSlot \in Slots
  BY HeapFacts, ConstantAssumption DEF Roots, HeapSafe, TypeOK, NewThread, Temps
<1>2. UNCHANGED <<ref, entry, owner, level, mt, run, tmudata>>
  BY DEF NewThread, finals
<1>3. (Roots \subseteq Survivors)'
  BY <1>1, <1>2 DEF Roots
<1>4. \A q \in Threads, p \in Slots :
         stack'[q][p] = IF q = run /\ p = s THEN th
                        ELSE IF q = th THEN IF p = GlobalsSlot THEN stack[run][GlobalsSlot] ELSE Nil
                        ELSE stack[q][p]
  BY <1>1 DEF HeapSafe, TypeOK, NewThread
<1>5. (\A p \in Survivors : ref[p] \subseteq Survivors)'
  BY <1>1, <1>2 DEF HeapClosed, HeapSafe, Shapes
<1>6. (\A t \in Survivors \cap Tables, k \in Keys :
          entry[t][k] # Nil => {k, entry[t][k]} \cap Obj \subseteq Survivors)'
  BY <1>1, <1>2, Disjoint DEF HeapClosed
<1>7. (\A q \in Survivors \cap Threads, p \in Slots :
          stack[q][p] \in Obj => stack[q][p] \in Survivors)'
  <2>1. stack[run][GlobalsSlot] \in Obj => stack[run][GlobalsSlot] \in Survivors
    BY <1>1 DEF HeapClosed
  <2> QED BY <1>1, <1>4, <2>1, Disjoint DEF HeapClosed
<1>8. (\A uv \in Survivors \cap Upvals : owner[uv] # Nil =>
          {stack[owner[uv]][level[uv]]} \cap Obj \subseteq Survivors)'
  <2>1. \A uv \in Survivors \cap Upvals : owner[uv] # Nil =>
           owner[uv] \in Threads /\ level[uv] \in Slots /\ owner[uv] # th
    BY HeapFacts DEF HeapSafe, TypeOK, OpenUpvals, NewThread
  <2> QED BY <1>1, <1>2, <1>4, <2>1, Disjoint DEF HeapClosed
<1> QED BY <1>1, <1>2, <1>3, <1>5, <1>6, <1>7, <1>8 DEF HeapClosed

\* A closure is made over a local variable, with its open upvalue.
LEMMA CaptureSafe ==
  ASSUME HeapSafe, OpenUpvals, Fresh, NEW f \in Funcs, NEW e \in Envs, NEW uv \in Upvals,
         NEW lv \in Temps, NEW s \in Temps, ClosureOverLocal(f, e, uv, lv, s),
         Survivors' = Survivors \cup {f, uv}
  PROVE  (Roots \subseteq Survivors)' /\ HeapClosed(Survivors)'
<1>1. /\ Roots \subseteq Survivors /\ HeapClosed(Survivors) /\ run \in Threads /\ run \in Survivors
      /\ s \in Slots /\ lv \in Slots
  BY HeapFacts DEF Roots, HeapSafe, TypeOK, Temps
<1>2. UNCHANGED <<entry, mt, run, tmudata>>
  BY DEF ClosureOverLocal, finals
<1>3. (Roots \subseteq Survivors)'
  BY <1>1, <1>2 DEF Roots
<1>4. \A q \in Threads, p \in Slots :
         stack'[q][p] = IF q = run /\ p = s THEN f ELSE stack[q][p]
  BY <1>1 DEF HeapSafe, TypeOK, ClosureOverLocal
<1>5. \A p \in Obj : ref'[p] = IF p = f THEN {e, uv} ELSE ref[p]
  BY DEF HeapSafe, TypeOK, ClosureOverLocal
<1>6. ref[uv] = {} /\ owner'[uv] = run /\ level'[uv] = lv
  <2>1. uv \in Obj /\ run # Nil /\ owner \in [Upvals -> Threads \cup {Nil}] /\ level \in [Upvals -> Slots]
    BY <1>1, Disjoint DEF HeapSafe, TypeOK
  <2>2. CASE uv \in alloc /\ owner[uv] = run /\ level[uv] = lv /\ UNCHANGED <<owner, level>>
    BY <2>1, <2>2 DEF HeapSafe, Shapes
  <2>3. CASE /\ uv \notin alloc
             /\ owner' = [owner EXCEPT ![uv] = run]
             /\ level' = [level EXCEPT ![uv] = lv]
    BY <2>1, <2>3 DEF Fresh
  <2> QED BY <2>2, <2>3 DEF ClosureOverLocal
<1>7. \A p \in Upvals : p # uv => owner'[p] = owner[p] /\ level'[p] = level[p]
  BY DEF ClosureOverLocal, HeapSafe, TypeOK
<1>8. (\A p \in Survivors : ref[p] \subseteq Survivors)'
  <2>1. e \in Survivors /\ f # uv /\ Survivors' \subseteq Obj
    BY EnvsSurvive, Disjoint, HeapFacts
  <2>2. ASSUME NEW p \in Survivors' PROVE ref'[p] \subseteq Survivors'
    <3>1. CASE p = f
      BY <1>5, <2>1, <3>1, Disjoint
    <3>2. CASE p # f /\ p = uv
      BY <1>5, <1>6, <2>1, <3>2
    <3>3. CASE p # f /\ p # uv
      BY <1>1, <1>5, <2>1, <3>3 DEF HeapClosed
    <3> QED BY <3>1, <3>2, <3>3
  <2> QED BY <2>2
<1>9. (\A t \in Survivors \cap Tables, k \in Keys :
          entry[t][k] # Nil => {k, entry[t][k]} \cap Obj \subseteq Survivors)'
  BY <1>1, <1>2, Disjoint DEF HeapClosed
<1>10. (\A q \in Survivors \cap Threads, p \in Slots :
          stack[q][p] \in Obj => stack[q][p] \in Survivors)'
  BY <1>1, <1>4, Disjoint DEF HeapClosed
<1>11. (\A p \in Survivors \cap Upvals : owner[p] # Nil =>
          {stack[owner[p]][level[p]]} \cap Obj \subseteq Survivors)'
  <2>1. \A p \in Survivors \cap Upvals : owner[p] # Nil => owner[p] \in Threads /\ level[p] \in Slots
    BY DEF HeapSafe, TypeOK
  <2>2. {stack'[run][lv]} \cap Obj \subseteq Survivors'
    BY <1>1, <1>4 DEF HeapClosed
  <2>3. ASSUME NEW p \in Survivors \cap Upvals, p # uv, owner[p] # Nil
        PROVE  {stack'[owner[p]][level[p]]} \cap Obj \subseteq Survivors'
    BY <1>1, <1>4, <2>1, <2>3 DEF HeapClosed
  <2> QED BY <1>6, <1>7, <2>2, <2>3, Disjoint
<1> QED BY <1>1, <1>2, <1>3, <1>8, <1>9, <1>10, <1>11 DEF HeapClosed

\* Upvalues leave the stacks: the members of U that survive hold their value.
LEMMA CloseSafe ==
  ASSUME HeapSafe, NEW U \in SUBSET Upvals, NEW freed \in SUBSET Obj, freed \cap Survivors = {},
         ref' = [o \in Obj |-> IF o \in freed THEN {} ELSE IF o \in U THEN UpValue(o) ELSE ref[o]],
         owner' = [uv \in Upvals |-> IF uv \in U THEN Nil ELSE owner[uv]],
         UNCHANGED <<entry, stack, level, mt, run, tmudata>>,
         Survivors' = Survivors
  PROVE  (Roots \subseteq Survivors)' /\ HeapClosed(Survivors)'
<1>1. Roots \subseteq Survivors /\ HeapClosed(Survivors) /\ Survivors \subseteq Obj
  BY HeapFacts
<1>2. (Roots \subseteq Survivors)'
  BY <1>1 DEF Roots
<1>3. \A uv \in U \cap Survivors : UpValue(uv) \subseteq Survivors
  BY HeapFacts, AccessOfOthers
<1>4. (\A p \in Survivors : ref[p] \subseteq Survivors)'
  BY <1>1, <1>3 DEF HeapClosed
<1>5. (\A uv \in Survivors \cap Upvals : owner[uv] # Nil =>
          {stack[owner[uv]][level[uv]]} \cap Obj \subseteq Survivors)'
  BY <1>1 DEF HeapClosed
<1> QED BY <1>1, <1>2, <1>4, <1>5 DEF HeapClosed

-----------------------------------------------------------------------------
(* Marking.                                                                *)

\* Whatever is marked was white; the members of S end up marked, and so do the
\* fields of marked userdata and the values of marked upvalues.
LEMMA MarkSetFacts ==
  ASSUME TypeOK, Shapes, NEW S \in SUBSET Obj
  PROVE  /\ MarkSet(S) \subseteq Obj
         /\ \A o \in MarkSet(S) : White(o)
         /\ \A o \in S : White(o) => o \in MarkSet(S)
         /\ \A u \in MarkSet(S) \cap Udatas : \A c \in ref[u] : White(c) => c \in MarkSet(S)
         /\ \A uv \in MarkSet(S) \cap Upvals : \A c \in UpValue(uv) : White(c) => c \in MarkSet(S)
         /\ MarkSet(S) \cap Upvals \subseteq S
<1> DEFINE first  == {o \in S : White(o)}
           values == {v \in UNION {UpValue(u) : u \in first \cap Upvals} : White(v)}
           fields == {m \in UNION {ref[u] : u \in (first \cup values) \cap Udatas} : White(m)}
<1>1. MarkSet(S) = first \cup values \cup fields
  BY DEF MarkSet
<1>2. \A uv \in Upvals : UpValue(uv) \subseteq Obj \ Upvals
  BY Disjoint DEF UpValue, TypeOK, Shapes, Value
<1>3. \A u \in Udatas : ref[u] \subseteq Tables
  BY DEF Shapes
<1>4. values \subseteq Obj \ Upvals
  BY <1>2
<1>5. fields \subseteq Tables
  BY <1>3
<1>6. \A o \in first \cup values \cup fields : White(o)
  OBVIOUS
<1>7. (first \cup values \cup fields) \cap Upvals \subseteq first
  BY <1>4, <1>5, Disjoint
<1>8. (first \cup values \cup fields) \cap Udatas \subseteq first \cup values
  BY <1>5, Disjoint
<1>9. \A u \in (first \cup values) \cap Udatas : \A c \in ref[u] : White(c) => c \in fields
  OBVIOUS
<1>10. \A uv \in first \cap Upvals : \A c \in UpValue(uv) : White(c) => c \in values
  OBVIOUS
<1>11. first \subseteq S /\ \A o \in S : White(o) => o \in first
  OBVIOUS
<1>12. Tables \subseteq Obj
  BY Disjoint
<1> HIDE DEF first, values, fields
<1>13. MarkSet(S) \subseteq Obj
  BY <1>1, <1>4, <1>5, <1>11, <1>12
<1>14. \A o \in MarkSet(S) : White(o)
  BY <1>1, <1>6
<1>15. \A o \in S : White(o) => o \in MarkSet(S)
  BY <1>1, <1>11
<1>16. \A u \in MarkSet(S) \cap Udatas : \A c \in ref[u] : White(c) => c \in MarkSet(S)
  BY <1>1, <1>8, <1>9
<1>17. \A uv \in MarkSet(S) \cap Upvals : \A c \in UpValue(uv) : White(c) => c \in MarkSet(S)
  BY <1>1, <1>7, <1>10
<1>18. MarkSet(S) \cap Upvals \subseteq S
  BY <1>1, <1>7, <1>11
<1> QED BY <1>13, <1>14, <1>15, <1>16, <1>17, <1>18

\* Nothing outside of a closed set is marked from inside of it.
LEMMA MarkSetInside ==
  ASSUME NEW C \in SUBSET Obj, \A o \in C : Access(o) \subseteq C, NEW S \in SUBSET C
  PROVE  MarkSet(S) \subseteq C
<1> DEFINE first  == {o \in S : White(o)}
           values == {v \in UNION {UpValue(u) : u \in first \cap Upvals} : White(v)}
           fields == {m \in UNION {ref[u] : u \in (first \cup values) \cap Udatas} : White(m)}
<1>1. first \subseteq C
  OBVIOUS
<1>2. values \subseteq C
  <2>1. \A uv \in first \cap Upvals : UpValue(uv) \subseteq C
    BY <1>1, AccessOfOthers
  <2> QED BY <2>1
<1>3. fields \subseteq C
  <2>1. \A u \in (first \cup values) \cap Udatas : ref[u] \subseteq C
    BY <1>1, <1>2, AccessOfOthers
  <2> QED BY <2>1
<1> QED BY <1>1, <1>2, <1>3 DEF MarkSet

\* What painting a set of objects does to each color.
LEMMA PaintedFacts ==
  ASSUME NEW M \in SUBSET Obj
  PROVE  /\ \A o \in M : Painted(M)[o] = MarkedColor(o)
         /\ \A o \in Obj \ M : Painted(M)[o] = color[o]
         /\ \A o \in Obj : MarkedColor(o) \in {"gray", "black"}
         /\ \A o \in M : Painted(M)[o] \notin Whites
BY DEF Painted, MarkedColor, Whites

-----------------------------------------------------------------------------
(* What a step must do for each invariant to be kept.                      *)

\* The colors that an object of each kind can get.
LEMMA KindsStep ==
  ASSUME Kinds, UNCHANGED owner,
         \A o \in Obj : \/ color'[o] = color[o]
                        \/ color'[o] \in Whites
                        \/ color'[o] = MarkedColor(o)
                        \/ color'[o] = "gray" /\ o \notin Udatas \cup Upvals
                        \/ color'[o] = "black" /\ o \in (Tables \cup Funcs \cup Udatas)
                                                        \ (KeyWeak \cup ValueWeak)
  PROVE  Kinds'
<1>1. (\A o \in Threads \cup Strings \cup KeyWeak \cup ValueWeak : ~ Black(o))'
  <2> SUFFICES ASSUME NEW o \in Threads \cup Strings \cup KeyWeak \cup ValueWeak
               PROVE color'[o] # "black"
    BY DEF Black
  <2>1. color[o] # "black" /\ o \notin Udatas \cup Upvals /\ o \in Obj
    BY Disjoint, ConstantAssumption DEF Kinds, Black
  <2>2. o \notin (Tables \cup Funcs \cup Udatas) \ (KeyWeak \cup ValueWeak)
    BY Disjoint
  <2> QED BY <2>1, <2>2 DEF MarkedColor, Whites
<1>2. (\A u \in Udatas : color[u] # "gray")'
  BY Disjoint DEF Kinds, MarkedColor, Whites
<1>3. ASSUME NEW uv \in Upvals
      PROVE  (/\ Black(uv) => owner[uv] = Nil
              /\ color[uv] = "gray" => owner[uv] # Nil)'
  <2>1. uv \in Obj /\ uv \notin Udatas /\ uv \notin Tables \cup Funcs
    BY Disjoint
  <2> QED BY <2>1 DEF Kinds, Black, MarkedColor, Whites
<1> QED BY <1>1, <1>2, <1>3 DEF Kinds

\* Weak tables are tables.
LEMMA WeakKinds == \A o \in KeyWeak \cup ValueWeak : o \in Tables /\ o \notin Udatas \cup Upvals \cup Threads
BY Disjoint, ConstantAssumption

\* SweptWhite holds on if nothing new is left that is not current white.
LEMMA SweptStep ==
  ASSUME SweptWhite, gcstate' \notin Marking => gcstate \notin Marking,
         UNCHANGED <<cw, unswept, tmudata>>,
         \A o \in alloc' \ tmudata : color'[o] # cw =>
            o \in alloc /\ color[o] # cw /\ (o \in Upvals => owner'[o] = owner[o])
  PROVE  SweptWhite'
BY DEF SweptWhite, Pending

\* A black object has no weak part: what it must keep marked are its fields.
Fields(o) == ref[o] \cup (IF o \in Tables THEN KeyRefs(o) \cup ValueRefs(o) ELSE {})

\* TriColor, over the fields of black objects.
TriFields == gcstate \in Marking =>
  \A o \in alloc \ tmudata : Black(o) => AllMarked(Fields(o))

\* The two agree: no weak table, thread or open upvalue is black.
LEMMA TriColorFields == TypeOK /\ Kinds => (TriColor <=> TriFields)
<1> SUFFICES ASSUME TypeOK, Kinds, NEW o \in alloc, Black(o)
             PROVE Children(o) = Fields(o)
  BY DEF TriColor, TriFields, AllMarked
<1>1. o \notin Threads \cup KeyWeak \cup ValueWeak /\ (o \in Upvals => owner[o] = Nil)
  BY DEF Kinds
<1> QED BY <1>1, Disjoint DEF Children, Fields, UpValue

\* The same for the state after a step.
LEMMA TriColorNext == ASSUME TypeOK', Kinds', TriFields' PROVE TriColor'
<1>1. (TypeOK /\ Kinds => (TriColor <=> TriFields))'
  BY TriColorFields, PTL
<1> QED BY <1>1

-----------------------------------------------------------------------------
(* Operations of the program that color nothing but what they make, or     *)
(* bring back from the dead, and write to no object that can be black.     *)

\* Such a step: it may create objects and bring dead ones back.
Quiet ==
  /\ gcstate' = gcstate /\ gcstate \notin Atomic
  /\ UNCHANGED <<cw, unswept, tmudata, gray, grayagain, weak>>
  /\ alloc \subseteq alloc'
  /\ \A o \in alloc : color'[o] = color[o] \/ (IsDead(o) /\ color'[o] = cw)
  /\ \A o \in alloc' \ alloc : color'[o] = cw
  /\ \A o \in alloc : /\ ref'[o] = ref[o]
                      /\ o \in Tables => entry'[o] = entry[o]
                      /\ o \in Upvals => owner'[o] = owner[o]

\* There are two whites, the current one and the other.
LEMMA TwoWhites ==
  TypeOK => /\ cw \in Whites /\ Other(cw) \in Whites /\ Other(cw) # cw
            /\ \A w \in Whites : w # cw => w = Other(cw)
            /\ \A w \in Whites : Other(Other(w)) = w /\ Other(w) \in Whites /\ Other(w) # w
BY DEF TypeOK, Whites, Other

\* It adds to the survivors what it makes or brings back.
LEMMA QuietSurvivors ==
  ASSUME TypeOK, Quiet, alloc \subseteq Obj
  PROVE  Survivors' = Survivors \cup (alloc' \ alloc) \cup {o \in alloc : color'[o] # color[o]}
<1>1. \A o \in alloc' \ alloc : ~ IsDead(o)'
  BY TwoWhites DEF Quiet, IsDead
<1>2. \A o \in alloc : IsDead(o)' <=> IsDead(o) /\ color'[o] = color[o]
  BY TwoWhites DEF Quiet, IsDead
<1>3. gcstate' = gcstate /\ alloc \subseteq alloc'
  BY DEF Quiet
<1> QED BY <1>1, <1>2, <1>3 DEF Survivors

\* It keeps what the invariant says of colors and lists.
LEMMA QuietStep ==
  ASSUME TypeOK, SafeInv, Quiet, TypeOK', Kinds'
  PROVE  SweptWhite' /\ MarkBasics' /\ TriColor' /\ GrayLists' /\ Stages'
<1>0. cw' = cw /\ gcstate' = gcstate /\ alloc \subseteq alloc' /\ Other(cw) # cw
      /\ UNCHANGED <<unswept, tmudata, gray, grayagain, weak>>
  BY TwoWhites DEF Quiet
<1>1. SweptWhite'
  <2>1. SweptWhite
    BY DEF SafeInv
  <2>2. \A o \in alloc' \ tmudata : color'[o] # cw =>
            o \in alloc /\ color[o] # cw /\ (o \in Upvals => owner'[o] = owner[o])
    BY DEF Quiet
  <2> QED BY <1>0, <2>1, <2>2, SweptStep
<1>2. CASE gcstate \notin Marking
  <2>1. gcstate' \notin Marking /\ gcstate' \notin Atomic
    BY <1>0, <1>2 DEF Marking
  <2>2. Stages'
    BY <2>1 DEF Stages, Atomic
  <2> QED BY <1>1, <2>1, <2>2 DEF MarkBasics, GrayLists, TriColor
<1>3. CASE gcstate \in Marking
  <2>1. \A o \in alloc : ~ IsDead(o)
    BY <1>3 DEF SafeInv, MarkBasics
  <2>2. \A o \in alloc : color'[o] = color[o]
    BY <2>1 DEF Quiet
  <2>3. \A o \in alloc' \ alloc : color'[o] = cw
    BY DEF Quiet
  <2>4. MainThread \in alloc /\ Registry \in alloc /\ \A o \in alloc : Access(o) \subseteq alloc
    BY HeapFacts, <1>3 DEF SafeInv, HeapSafe, Roots, Survivors, Marking, Atomic, Sweeping
  <2>5. MarkBasics'
    <3>1. (\A o \in alloc : ~ IsDead(o))'
      BY <1>0, <2>1, <2>2, <2>3 DEF IsDead
    <3>2. (~ White(MainThread) /\ ~ White(Registry))'
      BY <1>3, <2>2, <2>4 DEF SafeInv, MarkBasics, White
    <3> QED BY <1>0, <1>3, <3>1, <3>2 DEF SafeInv, MarkBasics
  <2>6. TriColor'
    <3>1. TriFields
      BY TriColorFields DEF SafeInv
    <3>2. TriFields'
      <4> SUFFICES ASSUME NEW o \in alloc' \ tmudata, Black(o)', NEW c \in Fields(o)'
                   PROVE  ~ White(c)'
        BY <1>0 DEF TriFields, AllMarked
      <4>1. o \in alloc /\ Black(o)
        BY <2>2, <2>3, TwoWhites DEF Black, Whites
      <4>2. ref'[o] = ref[o] /\ (o \in Tables => entry'[o] = entry[o])
        BY <4>1 DEF Quiet
      <4>3. c \in Fields(o)
        BY <4>2 DEF Fields, KeyRefs, ValueRefs, Used
      <4>4. c \in Access(o)
        <5>1. o \in Tables \/ o \in Threads \/ o \in Upvals \/ o \in Funcs \cup Udatas \cup Strings
          BY <4>1, Disjoint DEF TypeOK
        <5>2. o \notin Threads /\ (o \in Upvals => UpValue(o) = ref[o])
          BY <4>1 DEF SafeInv, Kinds, UpValue
        <5> QED BY <5>1, <5>2, <4>3, AccessOfTable, AccessOfOthers, Disjoint DEF Fields
      <4>5. c \in alloc /\ ~ White(c)
        BY <1>3, <3>1, <4>1, <4>3, <4>4, <2>4 DEF TriFields, AllMarked
      <4> QED BY <2>2, <4>5 DEF White
    <3> QED BY <3>2, TriColorNext
  <2>7. GrayLists'
    <3>1. GrayLists
      BY DEF SafeInv
    <3>2. \A o \in alloc' : color'[o] = "gray" => o \in alloc /\ color[o] = "gray"
      BY <2>2, <2>3, TwoWhites DEF Whites
    <3> QED BY <1>0, <1>3, <2>2, <3>1, <3>2 DEF GrayLists
  <2>8. Stages'
    BY <1>0 DEF Stages, Quiet, Atomic
  <2> QED BY <1>1, <2>5, <2>6, <2>7, <2>8
<1> QED BY <1>2, <1>3

\* The invariant gives operations what they rely on.
LEMMA SafeHeap == SafeInv /\ TypeOK => HeapSafe
BY DEF SafeInv, HeapSafe

\* OpenUpvals holds on if upvalues are closed and no owner is freed.
LEMMA OpenStep ==
  ASSUME OpenUpvals, Kinds',
         \A uv \in Upvals \cap alloc' :
            \/ owner'[uv] = Nil
            \/ /\ uv \in alloc /\ owner'[uv] = owner[uv] /\ level'[uv] = level[uv]
               /\ owner[uv] \in alloc => owner[uv] \in alloc'
  PROVE  OpenUpvals'
BY DEF OpenUpvals, Kinds

\* Fresh holds on if identities not in use are not touched.
LEMMA FreshStep ==
  ASSUME Fresh,
         \A o \in Obj \ alloc' : /\ o \notin alloc /\ ref'[o] = ref[o]
                                 /\ o \in Tables => entry'[o] = entry[o]
                                 /\ o \in Upvals => owner'[o] = owner[o]
  PROVE  Fresh'
BY DEF Fresh

\* It keeps the invariant, if it keeps the references safe.
LEMMA QuietSafe ==
  ASSUME TypeOK, SafeInv, Quiet, TypeOK', Kinds', OpenUpvals', Fresh', Shapes',
         (Roots \subseteq Survivors)', HeapClosed(Survivors)'
  PROVE  SafeInv'
<1>1. SweptWhite' /\ MarkBasics' /\ TriColor' /\ GrayLists' /\ Stages'
  BY QuietStep
<1>2. NoDangling'
  BY NoDanglingNext
<1> QED BY <1>1, <1>2 DEF SafeInv

\* An object other than an upvalue or a thread is made.
LEMMA CreateStep ==
  ASSUME TypeOK, SafeInv, TypeOK', Running,
         NEW o \in Obj \ (Upvals \cup Threads), NEW R \in SUBSET Survivors, NEW s \in Temps,
         Create(o, R, s), o \in Udatas => R \subseteq Tables, o \in Strings => R = {},
         UNCHANGED <<entry, owner, level, mt, run, cw, gcstate, lists, unswept, tmudata>>
  PROVE  SafeInv'
<1>0. s \in Slots /\ HeapSafe /\ alloc \subseteq Obj /\ gcstate \notin Atomic
  BY SafeHeap DEF Temps, TypeOK, Running
<1>1. /\ o \notin alloc /\ alloc' = alloc \cup {o}
      /\ \A p \in Obj : ref'[p] = IF p = o THEN R ELSE ref[p]
      /\ \A p \in Obj : color'[p] = IF p = o THEN cw ELSE color[p]
  BY DEF Create, TypeOK
<1>2. Quiet
  BY <1>0, <1>1 DEF Quiet, lists
<1>3. Survivors' = Survivors \cup {o}
  BY <1>0, <1>1, <1>2, QuietSurvivors
<1>4. (Roots \subseteq Survivors)' /\ HeapClosed(Survivors)'
  BY <1>0, <1>3, CreateSafe DEF SafeInv
<1>5. Kinds'
  BY <1>1, KindsStep DEF SafeInv, TypeOK
<1>6. OpenUpvals'
  BY <1>1, <1>5, OpenStep DEF SafeInv
<1>7. Fresh'
  BY <1>1, FreshStep DEF SafeInv
<1>8. Shapes'
  BY <1>1, Disjoint DEF SafeInv, Shapes
<1> QED BY <1>2, <1>4, <1>5, <1>6, <1>7, <1>8, QuietSafe

\* A stack slot is written; a dead string may come back to life.
LEMMA StackStep ==
  ASSUME TypeOK, SafeInv, TypeOK', Running,
         NEW th \in Threads, NEW s \in Slots, NEW v,
         v \in Obj => v \in Survivors \/ (v \in Strings \cap alloc /\ color'[v] = IF IsDead(v) THEN cw ELSE color[v]),
         stack' = [stack EXCEPT ![th][s] = v],
         run' \in Survivors,
         \A o \in Obj : color'[o] = color[o] \/ (o \in Strings /\ IsDead(o) /\ color'[o] = cw),
         UNCHANGED <<alloc, ref, entry, owner, level, mt, cw, gcstate, lists, unswept, tmudata>>
  PROVE  SafeInv'
<1>0. HeapSafe /\ alloc \subseteq Obj /\ gcstate \notin Atomic /\ cw \in Whites
  BY SafeHeap DEF TypeOK, Running
<1>1. Quiet
  BY <1>0 DEF Quiet, lists
<1> DEFINE new == {o \in alloc : color'[o] # color[o]}
<1>2. new \in SUBSET Strings /\ Survivors' = Survivors \cup new
  BY <1>0, <1>1, QuietSurvivors
<1>3. v \in Obj => v \in Survivors'
  <2>1. ASSUME v \in Strings \cap alloc, color'[v] = IF IsDead(v) THEN cw ELSE color[v]
        PROVE  v \in Survivors'
    <3>1. CASE IsDead(v)
      BY <1>2, <2>1, <3>1, TwoWhites DEF IsDead
    <3>2. CASE ~ IsDead(v)
      BY <1>2, <2>1, <3>2 DEF Survivors
    <3> QED BY <3>1, <3>2
  <2> QED BY <1>2, <2>1
<1> HIDE DEF new
<1>4. (Roots \subseteq Survivors)' /\ HeapClosed(Survivors)'
  <2>1. tmudata' \subseteq Survivors
    BY <1>0, HeapFacts DEF Roots
  <2> QED BY <1>0, <1>2, <1>3, <2>1, StackWriteSafe
<1>5. Kinds'
  BY <1>0, KindsStep DEF SafeInv
<1>6. OpenUpvals'
  BY <1>5, OpenStep DEF SafeInv
<1>7. Fresh'
  BY FreshStep DEF SafeInv
<1>8. Shapes'
  BY DEF SafeInv, Shapes
<1> QED BY <1>1, <1>4, <1>5, <1>6, <1>7, <1>8, QuietSafe

\* lua_newthread keeps the invariant.
LEMMA NewThreadStep ==
  ASSUME TypeOK, SafeInv, TypeOK', NEW th \in Threads, NEW s \in Temps, NewThread(th, s)
  PROVE  SafeInv'
<1>0. HeapSafe /\ alloc \subseteq Obj /\ gcstate \notin Atomic /\ cw \in Whites /\ th \in Obj
  BY SafeHeap, Disjoint DEF TypeOK, NewThread, Running
<1>1. /\ th \notin alloc /\ alloc' = alloc \cup {th}
      /\ \A p \in Obj : color'[p] = IF p = th THEN cw ELSE color[p]
      /\ UNCHANGED <<ref, entry, owner, level, cw, gcstate, lists, unswept, tmudata>>
  BY DEF NewThread, TypeOK, finals
<1>2. Quiet
  BY <1>0, <1>1 DEF Quiet, lists
<1>3. Survivors' = Survivors \cup {th}
  BY <1>0, <1>1, <1>2, QuietSurvivors
<1>4. (Roots \subseteq Survivors)' /\ HeapClosed(Survivors)'
  BY <1>0, <1>3, NewThreadSafe DEF SafeInv
<1>5. Kinds'
  BY <1>0, <1>1, KindsStep DEF SafeInv
<1>6. OpenUpvals'
  BY <1>1, <1>5, Disjoint, OpenStep DEF SafeInv
<1>7. Fresh'
  BY <1>1, FreshStep DEF SafeInv
<1>8. Shapes'
  BY <1>1 DEF SafeInv, Shapes
<1> QED BY <1>2, <1>4, <1>5, <1>6, <1>7, <1>8, QuietSafe

\* OP_CLOSURE over a local variable keeps the invariant.
LEMMA CaptureStep ==
  ASSUME TypeOK, SafeInv, TypeOK', NEW f \in Funcs, NEW e \in Envs, NEW uv \in Upvals,
         NEW lv \in Temps, NEW s \in Temps, ClosureOverLocal(f, e, uv, lv, s)
  PROVE  SafeInv'
<1>0. /\ HeapSafe /\ alloc \subseteq Obj /\ gcstate \notin Atomic /\ cw \in Whites
      /\ f \in Obj /\ uv \in Obj /\ f # uv /\ run \in Threads /\ run # Nil /\ run \in alloc
  BY SafeHeap, HeapFacts, Disjoint DEF TypeOK, ClosureOverLocal, Running, Roots
<1>1. /\ f \notin alloc /\ alloc' = alloc \cup {f, uv}
      /\ \A p \in Obj : ref'[p] = IF p = f THEN {e, uv} ELSE ref[p]
      /\ UNCHANGED <<entry, cw, gcstate, lists, unswept, tmudata>>
  BY DEF ClosureOverLocal, TypeOK, finals
<1>2. owner \in [Upvals -> Threads \cup {Nil}] /\ level \in [Upvals -> Slots]
      /\ color \in [Obj -> Whites \cup {"gray", "black"}]
  BY DEF TypeOK
<1>a. \/ /\ uv \in alloc /\ owner[uv] = run /\ level[uv] = lv
         /\ color' = [color EXCEPT ![f] = cw, ![uv] = IF IsDead(uv) THEN cw ELSE @]
         /\ owner' = owner /\ level' = level
      \/ /\ uv \notin alloc
         /\ \A p \in Upvals \cap alloc : ~ (owner[p] = run /\ level[p] = lv)
         /\ color' = [color EXCEPT ![f] = cw, ![uv] = cw]
         /\ owner' = [owner EXCEPT ![uv] = run]
         /\ level' = [level EXCEPT ![uv] = lv]
  BY DEF ClosureOverLocal
<1>3. /\ color'[f] = cw
      /\ \A p \in Obj \ {f, uv} : color'[p] = color[p]
      /\ \A p \in Upvals \ {uv} : owner'[p] = owner[p] /\ level'[p] = level[p]
      /\ owner'[uv] = run /\ level'[uv] = lv
      /\ uv \in alloc => /\ owner[uv] = run /\ level[uv] = lv
                         /\ color'[uv] = IF IsDead(uv) THEN cw ELSE color[uv]
      /\ uv \notin alloc => /\ color'[uv] = cw
                            /\ \A p \in Upvals \cap alloc : ~ (owner[p] = run /\ level[p] = lv)
  <2>1. CASE uv \in alloc
    BY <1>0, <1>2, <1>a, <2>1
  <2>2. CASE uv \notin alloc
    BY <1>0, <1>2, <1>a, <2>2
  <2> QED BY <2>1, <2>2
<1>4. Quiet
  BY <1>0, <1>1, <1>3 DEF Quiet, lists
<1>5. Survivors' = Survivors \cup {f, uv}
  <2>1. Survivors' = Survivors \cup (alloc' \ alloc) \cup {o \in alloc : color'[o] # color[o]}
    BY <1>0, <1>4, QuietSurvivors
  <2>2. f \in alloc' \ alloc
    BY <1>1
  <2>3. uv \in alloc /\ ~ IsDead(uv) => uv \in Survivors
    BY DEF Survivors
  <2>4. IsDead(uv) /\ uv \in alloc => color'[uv] # color[uv]
    BY <1>3, TwoWhites DEF IsDead
  <2>5. \A o \in alloc : o # uv => color'[o] = color[o]
    BY <1>0, <1>1, <1>3
  <2> QED BY <1>1, <2>1, <2>2, <2>3, <2>4, <2>5
<1>6. (Roots \subseteq Survivors)' /\ HeapClosed(Survivors)'
  BY <1>0, <1>5, CaptureSafe DEF SafeInv
<1>7. Kinds'
  <2>1. (\A o \in Threads \cup Strings \cup KeyWeak \cup ValueWeak : ~ Black(o))'
    <3>1. \A o \in Threads \cup Strings \cup KeyWeak \cup ValueWeak : o \in Obj \ {f, uv}
      BY Disjoint, ConstantAssumption
    <3> QED BY <1>3, <3>1 DEF SafeInv, Kinds, Black
  <2>2. (\A u \in Udatas : color[u] # "gray")'
    BY <1>3, Disjoint DEF SafeInv, Kinds
  <2>3. ASSUME NEW p \in Upvals, p # uv
        PROVE  (/\ Black(p) => owner[p] = Nil
                /\ color[p] = "gray" => owner[p] # Nil)'
    <3>1. p \in Obj \ {f, uv}
      BY <2>3, Disjoint
    <3> QED BY <1>3, <2>3, <3>1 DEF SafeInv, Kinds, Black
  <2>4. (/\ Black(uv) => owner[uv] = Nil
         /\ color[uv] = "gray" => owner[uv] # Nil)'
    BY <1>0, <1>3 DEF SafeInv, Kinds, Black, Whites
  <2> QED BY <2>1, <2>2, <2>3, <2>4 DEF Kinds
<1>8. OpenUpvals'
  <2>0. \A p, q \in Upvals \cap alloc :
           owner[p] # Nil /\ owner[q] = owner[p] /\ level[q] = level[p] => q = p
    BY DEF SafeInv, OpenUpvals
  <2>1. \A p \in Upvals \cap alloc : owner[p] # Nil => owner[p] \in alloc
    BY DEF SafeInv, OpenUpvals
  <2>2. (\A p \in Upvals \cap alloc : owner[p] # Nil => owner[p] \in alloc /\ ~ Black(p))'
    BY <1>0, <1>1, <1>3, <1>7, <2>1, Disjoint DEF Kinds
  <2>3. ASSUME NEW p \in Upvals \cap alloc', NEW q \in Upvals \cap alloc', owner'[p] # Nil,
               owner'[q] = owner'[p], level'[q] = level'[p]
        PROVE  q = p
    <3>1. CASE p # uv /\ q # uv
      <4>1. p \in alloc /\ q \in alloc
        BY <1>1, <3>1, Disjoint
      <4> QED BY <1>3, <2>3, <3>1, <4>1 DEF SafeInv, OpenUpvals
    <3>2. CASE p = uv /\ q # uv
      <4>1. q \in alloc /\ owner[q] = run /\ level[q] = lv
        BY <1>1, <1>3, <2>3, <3>2, Disjoint
      <4>2. uv \in alloc /\ owner[uv] = run /\ level[uv] = lv
        BY <1>3, <4>1
      <4> QED BY <1>0, <2>0, <3>2, <4>1, <4>2
    <3>3. CASE p # uv /\ q = uv
      <4>1. p \in alloc /\ owner[p] = run /\ level[p] = lv
        BY <1>1, <1>3, <2>3, <3>3, Disjoint
      <4>2. uv \in alloc /\ owner[uv] = run /\ level[uv] = lv
        BY <1>3, <4>1
      <4> QED BY <1>0, <2>0, <3>3, <4>1, <4>2
    <3> QED BY <3>1, <3>2, <3>3
  <2> QED BY <2>2, <2>3 DEF OpenUpvals
<1>9. Fresh'
  BY <1>1, <1>3, FreshStep DEF SafeInv
<1>10. Shapes'
  <2>1. ref[uv] = {}
    BY <1>0, <1>3 DEF SafeInv, Shapes, Fresh
  <2>2. \A p \in Upvals : owner'[p] # Nil => ref[p] = {}
    BY <1>3, <2>1 DEF SafeInv, Shapes
  <2> QED BY <1>1, <2>2, Disjoint DEF SafeInv, Shapes
<1> QED BY <1>4, <1>6, <1>7, <1>8, <1>9, <1>10, QuietSafe

\* Every allocation keeps the invariant.
LEMMA AllocateSafe == ASSUME TypeOK, SafeInv, Allocate PROVE SafeInv'
<1>0. PICK s \in Temps :
        \/ \E t \in Tables : NewTable(t, s)
        \/ \E x \in Strings : NewString(x, s)
        \/ \E th \in Threads : NewThread(th, s)
        \/ \E e \in Envs, u \in Udatas : NewUdata(u, e, s)
        \/ \E e \in Envs, f \in Funcs, v \in Readable \cup {Nil} : NewCClosure(f, e, v, s)
        \/ \E e \in Envs, f \in Funcs, uv \in UpvalsHeld : ClosureOverUpvalue(f, e, uv, s)
        \/ \E e \in Envs, f \in Funcs, uv \in Upvals, lv \in Temps :
              ClosureOverLocal(f, e, uv, lv, s)
  BY Zenon DEF Allocate
<1>k. /\ TypeOK' /\ HeapSafe
      /\ Envs \subseteq Survivors \cap Tables
      /\ UpvalsHeld \subseteq Survivors
      /\ Readable \subseteq Survivors
      /\ Survivors \subseteq Obj
  BY AllocateType, SafeHeap, EnvsSurvive, UpvalsHeldSurvive, ReadableSurvives, HeapFacts
<1>1. ASSUME NEW t \in Tables, NewTable(t, s) PROVE SafeInv'
  <2>1. /\ Running /\ Create(t, {}, s) /\ t \in Obj \ (Upvals \cup Threads)
        /\ t \notin Udatas /\ {} \in SUBSET Survivors
        /\ UNCHANGED <<entry, owner, level, mt, run, cw, gcstate, lists, unswept, tmudata>>
    BY <1>1, Disjoint DEF NewTable, finals
  <2> QED BY <1>k, <2>1, CreateStep
<1>2. ASSUME NEW x \in Strings, NewString(x, s) PROVE SafeInv'
  <2>1. /\ Running /\ x \in Obj \ (Upvals \cup Threads) /\ x \notin Udatas /\ {} \in SUBSET Survivors
        /\ UNCHANGED <<entry, owner, level, mt, run, cw, gcstate, lists, unswept, tmudata>>
    BY <1>2, Disjoint DEF NewString, finals
  <2>2. CASE Create(x, {}, s)
    BY <1>k, <2>1, <2>2, CreateStep
  <2>3. CASE ~ Create(x, {}, s)
    <3>1. /\ x \in alloc
          /\ stack' = [stack EXCEPT ![run][s] = x]
          /\ color' = [color EXCEPT ![x] = IF IsDead(x) THEN cw ELSE @]
          /\ UNCHANGED <<alloc, ref>>
      BY <1>2, <2>3 DEF NewString
    <3>2. /\ color'[x] = IF IsDead(x) THEN cw ELSE color[x]
          /\ \A o \in Obj : color'[o] = color[o] \/ (o \in Strings /\ IsDead(o) /\ color'[o] = cw)
      BY <2>1, <3>1 DEF TypeOK
    <3>3. run \in Threads /\ s \in Slots /\ run' \in Survivors /\ x \in Strings \cap alloc
      BY <1>k, <2>1, <3>1, HeapFacts DEF TypeOK, Temps, Roots
    <3> QED BY <1>k, <2>1, <3>1, <3>2, <3>3, StackStep
  <2> QED BY <2>2, <2>3
<1>3. ASSUME NEW th \in Threads, NewThread(th, s) PROVE SafeInv'
  BY <1>k, <1>3, NewThreadStep
<1>4. ASSUME NEW e \in Envs, NEW u \in Udatas, NewUdata(u, e, s) PROVE SafeInv'
  <2>1. /\ Running /\ Create(u, {e}, s) /\ u \in Obj \ (Upvals \cup Threads)
        /\ u \notin Strings /\ {e} \in SUBSET Survivors /\ {e} \subseteq Tables
        /\ UNCHANGED <<entry, owner, level, mt, run, cw, gcstate, lists, unswept, tmudata>>
    BY <1>k, <1>4, Disjoint DEF NewUdata
  <2> QED BY <1>k, <2>1, CreateStep
<1>5. ASSUME NEW e \in Envs, NEW f \in Funcs, NEW v \in Readable \cup {Nil},
             NewCClosure(f, e, v, s)
      PROVE SafeInv'
  <2>1. /\ Running /\ Create(f, {e, v} \cap Obj, s) /\ f \in Obj \ (Upvals \cup Threads)
        /\ f \notin Strings \cup Udatas /\ {e, v} \cap Obj \in SUBSET Survivors
        /\ UNCHANGED <<entry, owner, level, mt, run, cw, gcstate, lists, unswept, tmudata>>
    BY <1>k, <1>5, Disjoint DEF NewCClosure, finals
  <2> QED BY <1>k, <2>1, CreateStep
<1>6. ASSUME NEW e \in Envs, NEW f \in Funcs, NEW uv \in UpvalsHeld,
             ClosureOverUpvalue(f, e, uv, s)
      PROVE SafeInv'
  <2>1. /\ Running /\ Create(f, {e, uv}, s) /\ f \in Obj \ (Upvals \cup Threads)
        /\ f \notin Strings \cup Udatas /\ {e, uv} \in SUBSET Survivors
        /\ UNCHANGED <<entry, owner, level, mt, run, cw, gcstate, lists, unswept, tmudata>>
    BY <1>k, <1>6, Disjoint DEF ClosureOverUpvalue, finals
  <2> QED BY <1>k, <2>1, CreateStep
<1>7. ASSUME NEW e \in Envs, NEW f \in Funcs, NEW uv \in Upvals, NEW lv \in Temps,
             ClosureOverLocal(f, e, uv, lv, s)
      PROVE SafeInv'
  BY <1>k, <1>7, CaptureStep
<1> QED BY <1>0, <1>1, <1>2, <1>3, <1>4, <1>5, <1>6, <1>7

\* Fetch, Resume, Yield, and the assignment to an open upvalue.
LEMMA PlainStackStep ==
  ASSUME TypeOK, SafeInv, TypeOK', Running,
         NEW th \in Threads, NEW s \in Slots, NEW v \in Readable \cup {Nil},
         stack' = [stack EXCEPT ![th][s] = v], run' \in Survivors,
         UNCHANGED <<alloc, ref, entry, owner, level, mt, color, cw, gcstate, lists, unswept, tmudata>>
  PROVE  SafeInv'
<1>1. v \in Obj => v \in Survivors
  BY SafeHeap, ReadableSurvives, Disjoint
<1> QED BY <1>1, StackStep

\* A metatable for a basic type, unbarriered, keeps the invariant.
LEMMA BasicMetatableStep ==
  ASSUME TypeOK, SafeInv, TypeOK', NEW m \in (Readable \cap Tables) \cup {Nil}, SetBasicMetatable(m)
  PROVE  SafeInv'
<1>0. HeapSafe /\ alloc \subseteq Obj /\ gcstate \notin Atomic
  BY SafeHeap DEF TypeOK, Running, SetBasicMetatable
<1>1. UNCHANGED <<alloc, ref, entry, stack, owner, level, run, color, cw, gcstate, lists, unswept, tmudata>>
      /\ mt' = m
  BY DEF SetBasicMetatable, marks, finals
<1>2. Quiet
  BY <1>0, <1>1 DEF Quiet, lists
<1>3. Survivors' = Survivors
  BY <1>1, SurvivorsKept DEF IsDead
<1>4. (Roots \subseteq Survivors)' /\ HeapClosed(Survivors)'
  <2>1. Roots \subseteq Survivors /\ HeapClosed(Survivors) /\ {m} \cap Obj \subseteq Survivors
    BY <1>0, HeapFacts, ReadableSurvives, Disjoint
  <2> QED BY <1>1, <1>3, <2>1 DEF Roots, HeapClosed
<1>5. Kinds' /\ Shapes'
  BY <1>1 DEF SafeInv, Kinds, Black, Shapes
<1>6. OpenUpvals'
  BY <1>1, <1>5, OpenStep DEF SafeInv
<1>7. Fresh'
  BY <1>1, FreshStep DEF SafeInv
<1> QED BY <1>2, <1>4, <1>5, <1>6, <1>7, QuietSafe

-----------------------------------------------------------------------------
(* Writes with a barrier.                                                  *)

\* In a mark phase the fields of black objects are allocated.
LEMMA FieldsAlive ==
  ASSUME TypeOK, SafeInv, gcstate \notin Sweeping, NEW o \in alloc, Black(o)
  PROVE  Fields(o) \subseteq alloc
<1>1. o \in Survivors /\ Survivors = alloc /\ HeapSafe /\ o \in Obj
  BY SafeHeap DEF Survivors, TypeOK
<1>2. Access(o) \subseteq alloc
  BY <1>1, HeapFacts
<1>3. o \notin Threads /\ (o \in Upvals => UpValue(o) = ref[o])
  BY DEF SafeInv, Kinds, UpValue
<1> QED BY <1>1, <1>2, <1>3, AccessOfTable, AccessOfOthers, Disjoint DEF Fields

\* What a table gets goes through the back barrier.
LEMMA BackStep ==
  ASSUME TypeOK, SafeInv, TypeOK', Running, NEW t \in Tables, NEW V, BarrierBack(t, V),
         t \in alloc,
         UNCHANGED <<alloc, owner, level, cw, gcstate, gray, weak, unswept, tmudata>>,
         \A o \in Obj \ {t} : ref'[o] = ref[o] /\ (o \in Tables => entry'[o] = entry[o]),
         Fields(t)' \subseteq Fields(t) \cup (V \cap Obj)
  PROVE  /\ Survivors' = Survivors
         /\ Kinds' /\ SweptWhite' /\ MarkBasics' /\ TriColor' /\ GrayLists' /\ Stages'
<1>0. /\ t \in Obj /\ t \notin Udatas \cup Upvals /\ gcstate \notin Atomic /\ cw \in Whites
      /\ alloc \subseteq Obj /\ color \in [Obj -> Whites \cup {"gray", "black"}]
  BY Disjoint DEF TypeOK, Running
<1>1. /\ \A o \in Obj : o # t => color'[o] = color[o]
      /\ color'[t] = color[t] \/ (color[t] = "black" /\ color'[t] = "gray")
      /\ color'[t] = "black" => color[t] = "black" /\ \A v \in V \cap Obj : ~ White(v)
      /\ \/ color'[t] = color[t] /\ grayagain' = grayagain
         \/ color[t] = "black" /\ color'[t] = "gray" /\ grayagain' = grayagain \cup {t}
  BY <1>0 DEF BarrierBack, Caught, Black
<1>2. Survivors' = Survivors
  BY <1>0, <1>1, SurvivorsKept, TwoWhites DEF IsDead, Whites
<1>3. Kinds'
  BY <1>0, <1>1, KindsStep DEF SafeInv
<1>4. SweptWhite'
  BY <1>0, <1>1, SweptStep DEF SafeInv, Whites
<1>5. MarkBasics'
  <2>1. (gcstate \in Marking => \A o \in alloc : ~ IsDead(o))'
    BY <1>0, <1>1, TwoWhites DEF SafeInv, MarkBasics, IsDead, Whites
  <2>2. MainThread \in Obj /\ Registry \in Obj
    BY Disjoint, ConstantAssumption
  <2>3. (gcstate \in Marking => ~ White(MainThread) /\ ~ White(Registry))'
    BY <1>1, <2>2 DEF SafeInv, MarkBasics, White, Whites
  <2> QED BY <1>1, <2>1, <2>3 DEF SafeInv, MarkBasics
<1>6. TriColor'
  <2>1. TriFields
    BY TriColorFields DEF SafeInv
  <2>2. TriFields'
    <3> SUFFICES ASSUME gcstate \in Marking, NEW o \in alloc \ tmudata, color'[o] = "black",
                        NEW c \in Fields(o)'
                 PROVE  ~ White(c)'
      BY DEF TriFields, AllMarked, Black
    <3>1. Black(o) /\ o \in Obj
      BY <1>0, <1>1 DEF Black
    <3>2. ~ White(c) /\ c \in Obj
      <4>1. ASSUME c \in Fields(o) PROVE ~ White(c) /\ c \in Obj
        BY <1>0, <2>1, <3>1, <4>1, FieldsAlive DEF TriFields, AllMarked, Marking, Atomic, Sweeping
      <4>2. CASE o = t
        BY <1>1, <4>1, <4>2
      <4>3. CASE o # t
        <5>1. ref'[o] = ref[o] /\ (o \in Tables => entry'[o] = entry[o])
          BY <3>1, <4>3
        <5>2. c \in Fields(o)
          BY <5>1 DEF Fields, KeyRefs, ValueRefs, Used
        <5> QED BY <5>2, <4>1
      <4> QED BY <4>2, <4>3
    <3> QED BY <1>1, <3>2 DEF White, Whites
  <2> QED BY <1>3, <2>2, TriColorNext
<1>7. GrayLists'
  <2> SUFFICES ASSUME gcstate \in Marking
               PROVE  (/\ gray \cap grayagain = {} /\ gray \cap weak = {} /\ grayagain \cap weak = {}
                       /\ \A o \in gray \cup grayagain \cup weak : o \in alloc /\ color[o] = "gray"
                       /\ \A o \in alloc \cap (Tables \cup Funcs \cup Threads) :
                            color[o] = "gray" => o \in gray \cup grayagain \cup weak)'
    BY DEF GrayLists
  <2>1. /\ gray \cap grayagain = {} /\ gray \cap weak = {} /\ grayagain \cap weak = {}
        /\ \A o \in gray \cup grayagain \cup weak : o \in alloc /\ color[o] = "gray"
        /\ \A o \in alloc \cap (Tables \cup Funcs \cup Threads) :
             color[o] = "gray" => o \in gray \cup grayagain \cup weak
    BY DEF SafeInv, GrayLists
  <2>2. CASE color'[t] = color[t] /\ grayagain' = grayagain
    BY <1>0, <1>1, <2>1, <2>2
  <2>3. CASE color[t] = "black" /\ color'[t] = "gray" /\ grayagain' = grayagain \cup {t}
    <3>1. t \notin gray \cup grayagain \cup weak
      BY <2>1, <2>3
    <3> QED BY <1>0, <1>1, <2>1, <2>3, <3>1
  <2> QED BY <1>1, <2>2, <2>3
<1>8. Stages'
  BY <1>0 DEF Stages, Atomic
<1> QED BY <1>2, <1>3, <1>4, <1>5, <1>6, <1>7, <1>8

\* The members of S are marked in a mark phase; X are objects that the step
\* colors by itself.
MarkStep(S, X) ==
  /\ gcstate \in Marking /\ cw' = cw
  /\ S \subseteq alloc
  /\ X \subseteq alloc /\ X \cap MarkSet(S) = {}
  /\ \A o \in X : color'[o] \in {"gray", "black"}
  /\ \A o \in MarkSet(S) : color'[o] = MarkedColor(o)
  /\ \A o \in Obj \ (MarkSet(S) \cup X) : color'[o] = color[o]

\* In a mark phase everything allocated survives, and white is current.
LEMMA InMarking ==
  ASSUME TypeOK, SafeInv, gcstate \in Marking
  PROVE  /\ HeapSafe /\ Survivors = alloc /\ alloc \subseteq Obj /\ gcstate \notin Sweeping
         /\ MainThread \in alloc /\ Registry \in alloc
         /\ \A o \in alloc : Access(o) \subseteq alloc
         /\ \A o \in alloc : White(o) <=> color[o] = cw
BY SafeHeap, HeapFacts, TwoWhites
   DEF Survivors, Roots, Marking, Atomic, Sweeping, TypeOK, SafeInv, MarkBasics, White, IsDead

\* Marking makes no object white and leaves none of S white.
LEMMA MarkStepFacts ==
  ASSUME TypeOK, SafeInv, NEW S, NEW X, MarkStep(S, X)
  PROVE  /\ MarkSet(S) \subseteq alloc
         /\ \A o \in MarkSet(S) : White(o)
         /\ \A o \in MarkSet(S) \cup X : color'[o] \in {"gray", "black"}
         /\ \A o \in Obj : White(o)' <=> White(o) /\ o \notin MarkSet(S) \cup X
         /\ \A o \in S : ~ White(o)'
         /\ \A o \in alloc : ~ IsDead(o)'
         /\ (~ White(MainThread) /\ ~ White(Registry))'
<1>0. S \in SUBSET Obj /\ S \in SUBSET alloc /\ alloc \in SUBSET Obj /\ Shapes
  BY InMarking DEF MarkStep, SafeInv
<1>1. MarkSet(S) \subseteq alloc
  BY <1>0, InMarking, MarkSetInside DEF MarkStep
<1>2. /\ \A o \in MarkSet(S) : White(o)
      /\ \A o \in S : White(o) => o \in MarkSet(S)
  BY <1>0, MarkSetFacts
<1>3. \A o \in MarkSet(S) \cup X : color'[o] \in {"gray", "black"}
  BY DEF MarkStep, MarkedColor
<1>4. \A o \in Obj : White(o)' <=> White(o) /\ o \notin MarkSet(S) \cup X
  BY <1>2, <1>3 DEF MarkStep, White, Whites
<1>5. \A o \in S : ~ White(o)'
  BY <1>0, <1>2, <1>4
<1>6. \A o \in alloc : ~ IsDead(o)'
  <2>1. \A o \in alloc : ~ IsDead(o)
    BY DEF MarkStep, SafeInv, MarkBasics
  <2> QED BY <1>0, <1>3, <2>1, TwoWhites DEF MarkStep, IsDead, Whites
<1>7. (~ White(MainThread) /\ ~ White(Registry))'
  <2>1. ~ White(MainThread) /\ ~ White(Registry) /\ MainThread \in Obj /\ Registry \in Obj
    BY <1>0, InMarking DEF MarkStep, SafeInv, MarkBasics
  <2> QED BY <1>4, <2>1
<1> QED BY <1>1, <1>2, <1>3, <1>4, <1>5, <1>6, <1>7

\* Black objects other than those of X keep what they hold marked.
LEMMA MarkStepTri ==
  ASSUME TypeOK, SafeInv, NEW S, NEW X, MarkStep(S, X),
         NEW o \in alloc \ tmudata, o \notin X, color'[o] = "black", NEW c \in Fields(o)
  PROVE  c \in Obj /\ ~ White(c)'
<1>0. S \in SUBSET Obj /\ alloc \subseteq Obj /\ Shapes /\ o \in Obj /\ gcstate \in Marking
  BY InMarking DEF MarkStep, SafeInv
<1>1. CASE o \in MarkSet(S)
  <2>1. MarkedColor(o) = "black"
    BY <1>1 DEF MarkStep
  <2>2. CASE o \in Udatas
    <3>1. Fields(o) = ref[o] /\ ref[o] \subseteq Obj
      BY <2>2, Disjoint DEF Fields, TypeOK
    <3> QED BY <1>0, <1>1, <2>2, <3>1, MarkSetFacts, MarkStepFacts
  <2>3. CASE o \in Upvals /\ owner[o] = Nil
    <3>1. Fields(o) = UpValue(o) /\ UpValue(o) \subseteq Obj
      BY <2>3, Disjoint DEF Fields, UpValue, TypeOK
    <3> QED BY <1>0, <1>1, <2>3, <3>1, MarkSetFacts, MarkStepFacts
  <2> QED BY <2>1, <2>2, <2>3 DEF MarkedColor
<1>2. CASE o \notin MarkSet(S)
  <2>1. Black(o)
    BY <1>0, <1>2 DEF MarkStep, Black
  <2>2. c \in Obj
    BY <1>0, <2>1, FieldsAlive, InMarking
  <2>3. ~ White(c)
    BY <1>0, <2>1, TriColorFields DEF SafeInv, TriFields, AllMarked
  <2> QED BY <2>2, <2>3, MarkStepFacts
<1> QED BY <1>1, <1>2

\* What is linked into gray was in no list, and it is all that became gray.
LEMMA MarkStepLists ==
  ASSUME TypeOK, SafeInv, NEW S, NEW X, MarkStep(S, X)
  PROVE  /\ Linked(MarkSet(S)) \cap (gray \cup grayagain \cup weak) = {}
         /\ \A o \in Linked(MarkSet(S)) : o \in alloc /\ o \notin X /\ color'[o] = "gray"
         /\ \A o \in (gray \cup grayagain \cup weak) \ X : o \in alloc /\ color'[o] = "gray"
         /\ \A o \in (alloc \cap (Tables \cup Funcs \cup Threads)) \ X :
              color'[o] = "gray" => o \in gray \cup grayagain \cup weak \cup Linked(MarkSet(S))
<1>0. alloc \subseteq Obj /\ MarkSet(S) \subseteq alloc /\ \A o \in MarkSet(S) : White(o)
  <2>1. alloc \subseteq Obj
    BY DEF TypeOK
  <2> QED BY <2>1, MarkStepFacts
<1>1. /\ \A o \in gray \cup grayagain \cup weak : o \in alloc /\ color[o] = "gray"
      /\ \A o \in alloc \cap (Tables \cup Funcs \cup Threads) :
           color[o] = "gray" => o \in gray \cup grayagain \cup weak
  BY DEF MarkStep, SafeInv, GrayLists
<1>2. \A o \in gray \cup grayagain \cup weak : o \notin MarkSet(S)
  BY <1>0, <1>1 DEF White, Whites
<1>3. \A o \in Linked(MarkSet(S)) : o \in MarkSet(S) /\ MarkedColor(o) = "gray"
  BY Disjoint DEF Linked, MarkedColor
<1>4. \A o \in Linked(MarkSet(S)) : o \in alloc /\ o \notin X /\ color'[o] = "gray"
  BY <1>0, <1>3 DEF MarkStep
<1>5. \A o \in (gray \cup grayagain \cup weak) \ X : o \in alloc /\ color'[o] = "gray"
  BY <1>0, <1>1, <1>2 DEF MarkStep
<1>6. \A o \in (alloc \cap (Tables \cup Funcs \cup Threads)) \ X :
        color'[o] = "gray" => o \in gray \cup grayagain \cup weak \cup Linked(MarkSet(S))
  BY <1>0, <1>1 DEF MarkStep, Linked
<1> QED BY <1>2, <1>3, <1>4, <1>5, <1>6

\* What a field gets goes through the forward barrier, here in a mark phase.
LEMMA ForwardMark ==
  ASSUME TypeOK, SafeInv, TypeOK', gcstate = "propagate",
         NEW o \in alloc, NEW v \in alloc, Black(o), Mark({v}),
         UNCHANGED <<alloc, entry, owner, level, cw, gcstate, grayagain, weak, unswept, tmudata>>,
         \A p \in Obj \ {o} : ref'[p] = ref[p],
         ref'[o] \subseteq ref[o] \cup {v}
  PROVE  /\ Survivors' = Survivors
         /\ Kinds' /\ SweptWhite' /\ MarkBasics' /\ TriColor' /\ GrayLists' /\ Stages'
<1> DEFINE M == MarkSet({v})
<1>0. /\ gcstate \in Marking /\ gcstate \notin Atomic /\ gcstate \notin Sweeping
      /\ alloc \subseteq Obj /\ o \in Obj /\ M \subseteq Obj
      /\ color' = Painted(M) /\ gray' = gray \cup Linked(M)
  BY MarkSetFacts DEF TypeOK, Mark, Marking, Atomic, Sweeping, SafeInv
<1>1. MarkStep({v}, {})
  BY <1>0, PaintedFacts DEF MarkStep
<1>2. Survivors' = Survivors
  BY <1>0, SurvivorsKept
<1>3. Kinds'
  BY <1>0, <1>1, KindsStep DEF SafeInv, MarkStep
<1>4. SweptWhite' /\ Stages'
  BY <1>0 DEF SweptWhite, Stages, Atomic
<1>5. MarkBasics'
  <2>1. (\A p \in alloc : ~ IsDead(p))' /\ (~ White(MainThread) /\ ~ White(Registry))'
    BY <1>1, MarkStepFacts
  <2>2. Linked(M) \subseteq Tables \cup Funcs \cup Threads
    BY DEF Linked
  <2> QED BY <1>0, <2>1, <2>2 DEF SafeInv, MarkBasics
<1>6. TriColor'
  <2>1. TriFields'
    <3> SUFFICES ASSUME NEW p \in alloc \ tmudata, color'[p] = "black", NEW c \in Fields(p)'
                 PROVE  ~ White(c)'
      BY DEF TriFields, AllMarked, Black
    <3>1. \A d \in Fields(p) : ~ White(d)'
      BY <1>1, MarkStepTri
    <3>2. ~ White(v)'
      BY <1>1, MarkStepFacts
    <3>3. c \in Fields(p) \/ c = v
      BY <1>0 DEF Fields, KeyRefs, ValueRefs, Used
    <3> QED BY <3>1, <3>2, <3>3
  <2> QED BY <1>3, <2>1, TriColorNext
<1>7. GrayLists'
  <2>1. gray \cap grayagain = {} /\ gray \cap weak = {} /\ grayagain \cap weak = {}
    BY <1>0 DEF SafeInv, GrayLists
  <2>2. /\ Linked(M) \cap (gray \cup grayagain \cup weak) = {}
        /\ \A p \in Linked(M) : p \in alloc /\ color'[p] = "gray"
        /\ \A p \in gray \cup grayagain \cup weak : p \in alloc /\ color'[p] = "gray"
        /\ \A p \in alloc \cap (Tables \cup Funcs \cup Threads) :
             color'[p] = "gray" => p \in gray \cup grayagain \cup weak \cup Linked(M)
    BY <1>1, MarkStepLists
  <2> QED BY <1>0, <2>1, <2>2 DEF GrayLists
<1> QED BY <1>2, <1>3, <1>4, <1>5, <1>6, <1>7

\* A field write with the forward barrier keeps the invariant.
LEMMA ForwardStep ==
  ASSUME TypeOK, SafeInv, TypeOK', Running,
         NEW o \in alloc \cap (Funcs \cup Udatas \cup Upvals), NEW v, BarrierForward(o, v),
         v \in Obj => v \in alloc,
         UNCHANGED <<alloc, entry, owner, level, cw, gcstate, grayagain, weak, unswept, tmudata>>,
         \A p \in Obj \ {o} : ref'[p] = ref[p],
         ref'[o] \subseteq ref[o] \cup ({v} \cap Obj)
  PROVE  /\ Survivors' = Survivors
         /\ Kinds' /\ SweptWhite' /\ MarkBasics' /\ TriColor' /\ GrayLists' /\ Stages'
<1>0. /\ gcstate \notin Atomic /\ alloc \subseteq Obj /\ o \in Obj /\ cw \in Whites
      /\ color \in [Obj -> Whites \cup {"gray", "black"}]
      /\ gcstate \in Marking => gcstate = "propagate"
  BY DEF TypeOK, Running, Marking
<1>1. CASE v \in Obj /\ Black(o) /\ White(v) /\ gcstate = "propagate"
  <2>1. Mark({v}) /\ v \in alloc /\ Black(o)
    BY <1>1 DEF BarrierForward
  <2>2. ref'[o] \subseteq ref[o] \cup {v}
    OBVIOUS
  <2> QED BY <1>1, <2>1, <2>2, ForwardMark
<1>2. CASE v \in Obj /\ Black(o) /\ White(v) /\ gcstate # "propagate"
  <2>1. gray' = gray /\ color' = [color EXCEPT ![o] = cw] /\ color[o] = "black"
    BY <1>2 DEF BarrierForward, Black
  <2>2. gcstate' \notin Marking /\ gcstate' \notin Atomic
    BY <1>0, <1>2
  <2>3. Survivors' = Survivors
    BY <1>0, <2>1, SurvivorsKept, TwoWhites DEF IsDead, Whites
  <2>4. Kinds'
    BY <1>0, <2>1, KindsStep DEF SafeInv
  <2>5. SweptWhite'
    BY <1>0, <2>1, SweptStep DEF SafeInv, Whites
  <2> QED BY <2>2, <2>3, <2>4, <2>5 DEF MarkBasics, TriColor, GrayLists, Stages, Atomic
<1>3. CASE ~ (v \in Obj /\ Black(o) /\ White(v))
  <2>1. color' = color /\ gray' = gray
    BY <1>3 DEF BarrierForward
  <2>2. Survivors' = Survivors
    BY <2>1, SurvivorsKept DEF IsDead
  <2>3. Kinds'
    BY <2>1, KindsStep DEF SafeInv
  <2>4. SweptWhite'
    BY <2>1, SweptStep DEF SafeInv
  <2>5. MarkBasics' /\ GrayLists' /\ Stages'
    BY <1>0, <2>1 DEF SafeInv, MarkBasics, GrayLists, Stages, IsDead, White, Atomic
  <2>6. TriColor'
    <3>1. TriFields'
      <4> SUFFICES ASSUME gcstate \in Marking, NEW p \in alloc \ tmudata, Black(p),
                          NEW c \in Fields(p)'
                   PROVE  ~ White(c)
        BY <2>1 DEF TriFields, AllMarked, Black, White
      <4>1. \A d \in Fields(p) : ~ White(d)
        BY TriColorFields DEF SafeInv, TriFields, AllMarked
      <4>2. c \in Fields(p) \/ (p = o /\ c = v /\ v \in Obj)
        BY <1>0 DEF Fields, KeyRefs, ValueRefs, Used
      <4> QED BY <1>3, <4>1, <4>2
    <3> QED BY <2>3, <3>1, TriColorNext
  <2> QED BY <2>2, <2>3, <2>4, <2>5, <2>6
<1> QED BY <1>1, <1>2, <1>3

-----------------------------------------------------------------------------
(* luaF_close.                                                             *)

\* Dead objects are in front of the sweep.
LEMMA DeadIsPending ==
  ASSUME TypeOK, FinalInv, SafeInv, NEW o \in alloc, IsDead(o)
  PROVE  gcstate \in Sweeping /\ Pending(o)
<1>1. gcstate \notin Marking
  BY DEF SafeInv, MarkBasics
<1>2. Pending(o)
  <2>1. CASE o \in tmudata
    BY <2>1, Disjoint DEF FinalInv, DeadIsUnswept, TypeOK, Pending
  <2>2. CASE o \notin tmudata
    BY <1>1, <2>2, TwoWhites DEF SafeInv, SweptWhite, IsDead
  <2> QED BY <2>1, <2>2
<1>3. unswept # {}
  BY <1>2 DEF Pending
<1> QED BY <1>2, <1>3 DEF FinalInv, DeadIsUnswept

\* What CloseUpvals does to each object.
Closing(lv, U, freed, grays, M) ==
  /\ U = {uv \in Upvals \cap alloc : owner[uv] = run /\ level[uv] >= lv}
  /\ freed = {uv \in U : IsDead(uv)}
  /\ grays = {uv \in U : color[uv] = "gray"}
  /\ M = LinkMarks(grays)
  /\ Running
  /\ alloc' = alloc \ freed
  /\ ref' = [o \in Obj |-> IF o \in freed THEN {} ELSE IF o \in U THEN UpValue(o) ELSE ref[o]]
  /\ owner' = [uv \in Upvals |-> IF uv \in U THEN Nil ELSE owner[uv]]
  /\ \A o \in Obj : color'[o] = IF o \in M THEN MarkedColor(o)
                                ELSE IF o \in freed THEN Unused
                                ELSE IF o \in grays THEN IF gcstate = "propagate" THEN "black" ELSE cw
                                ELSE color[o]
  /\ gray' = gray \cup Linked(M)
  /\ UNCHANGED <<entry, stack, level, mt, run, cw, gcstate, grayagain, weak, unswept, tmudata>>

\* luaF_close does what Closing says.
LEMMA CloseIsClosing ==
  ASSUME NEW lv \in Temps, CloseUpvals(lv)
  PROVE  \E U, freed, grays, M : Closing(lv, U, freed, grays, M)
<1> DEFINE U     == {uv \in Upvals \cap alloc : owner[uv] = run /\ level[uv] >= lv}
           freed == {uv \in U : IsDead(uv)}
           grays == {uv \in U : color[uv] = "gray"}
           M     == LinkMarks(grays)
<1> Closing(lv, U, freed, grays, M)
  BY DEF CloseUpvals, Closing, finals
<1> QED OBVIOUS

\* The upvalues it closes, and what they hold.
LEMMA ClosingFacts ==
  ASSUME TypeOK, FinalInv, SafeInv, NEW lv, NEW U, NEW freed, NEW grays, NEW M,
         Closing(lv, U, freed, grays, M)
  PROVE  /\ U \subseteq Upvals \cap alloc /\ freed \subseteq U /\ grays \subseteq U
         /\ \A uv \in U : owner[uv] = run /\ owner[uv] # Nil /\ owner'[uv] = Nil
         /\ \A uv \in Upvals \ U : owner'[uv] = owner[uv]
         /\ \A o \in Obj \ U : ref'[o] = ref[o]
         /\ \A uv \in U \ freed : ref'[uv] = UpValue(uv)
         /\ \A uv \in freed : ref'[uv] = {} /\ color'[uv] \in Whites
         /\ \A uv \in U : UpValue(uv) \subseteq Obj \ Upvals
         /\ gcstate \notin Sweeping => freed = {}
         /\ freed \cap Survivors = {}
         /\ freed \cap grays = {}
         /\ gcstate \notin Atomic
<1>1. U \subseteq Upvals \cap alloc /\ freed \subseteq U /\ grays \subseteq U /\ gcstate \notin Atomic
  BY DEF Closing, Running
<1>2. \A uv \in U : owner[uv] = run /\ owner[uv] # Nil /\ owner'[uv] = Nil
  <2>1. run # Nil
    BY Disjoint DEF TypeOK
  <2> QED BY <1>1, <2>1 DEF Closing
<1>3. \A uv \in Upvals \ U : owner'[uv] = owner[uv]
  BY DEF Closing
<1>4. Upvals \subseteq Obj
  BY Disjoint
<1>5. /\ \A o \in Obj \ U : ref'[o] = ref[o]
      /\ \A uv \in U \ freed : ref'[uv] = UpValue(uv)
      /\ \A uv \in freed : ref'[uv] = {}
  BY <1>1, <1>4 DEF Closing
<1>6. \A uv \in U : UpValue(uv) \subseteq Obj \ Upvals
  BY <1>1, Disjoint DEF UpValue, TypeOK, SafeInv, Shapes, Value
<1>7. gcstate \notin Sweeping => freed = {}
  BY <1>1, DeadIsPending DEF Closing
<1>8. freed \cap Survivors = {}
  <2>1. \A uv \in freed : IsDead(uv) /\ uv \notin Fixed
    BY <1>1, Disjoint, ConstantAssumption DEF Closing, Fixed
  <2> QED BY <1>7, <2>1 DEF Survivors
<1>9. freed \cap grays = {}
  BY TwoWhites DEF Closing, IsDead, Whites
<1>10. \A uv \in freed : color'[uv] \in Whites
  <2>1. freed # {} => M = {}
    BY <1>7 DEF Closing, LinkMarks, Sweeping
  <2>2. \A uv \in freed : uv \in Obj
    BY <1>1, <1>4
  <2> QED BY <2>1, <2>2 DEF Closing, Unused, Whites
<1> QED BY <1>1, <1>2, <1>3, <1>5, <1>6, <1>7, <1>8, <1>9, <1>10

\* What linking them into the root list marks.
LEMMA ClosingMarks ==
  ASSUME TypeOK, FinalInv, SafeInv, NEW lv, NEW U, NEW freed, NEW grays, NEW M,
         Closing(lv, U, freed, grays, M)
  PROVE  /\ gcstate \notin Marking => M = {}
         /\ gcstate \in Marking => gcstate = "propagate" /\ freed = {}
         /\ gcstate = "propagate" => /\ M = MarkSet(UNION {UpValue(uv) : uv \in grays})
                                     /\ MarkStep(UNION {UpValue(uv) : uv \in grays}, grays)
         /\ M \cap Upvals = {}
         /\ M \subseteq Obj
<1> DEFINE S == UNION {UpValue(uv) : uv \in grays}
<1>0. /\ U \subseteq Upvals \cap alloc /\ freed \subseteq U /\ grays \subseteq U
      /\ \A uv \in U : UpValue(uv) \subseteq Obj \ Upvals
      /\ gcstate \notin Sweeping => freed = {}
      /\ gcstate \notin Atomic
      /\ alloc \subseteq Obj
      /\ S \subseteq Obj \ Upvals
  BY ClosingFacts DEF TypeOK
<1>1. gcstate \notin Marking => M = {}
  BY DEF Closing, LinkMarks, Marking
<1>2. gcstate \in Marking => gcstate = "propagate" /\ freed = {}
  BY <1>0 DEF Marking, Sweeping
<1>3. ASSUME gcstate = "propagate" PROVE M = MarkSet(S) /\ MarkStep(S, grays)
  <2>0. gcstate \in Marking /\ M = MarkSet(S) /\ freed = {}
    BY <1>0, <1>3 DEF Marking, Closing, LinkMarks, Sweeping
  <2>1. S \subseteq alloc
    <3>1. \A uv \in grays : UpValue(uv) \subseteq alloc
      BY <1>0, <2>0, InMarking, AccessOfOthers
    <3> QED BY <3>1
  <2>2. \A o \in M : White(o)
    BY <1>0, <2>0, MarkSetFacts DEF SafeInv
  <2>3. \A o \in grays : color[o] = "gray" /\ ~ White(o) /\ o \in alloc /\ o \in Obj
    BY <1>0 DEF Closing, White, Whites
  <2>4. grays \cap M = {}
    BY <2>2, <2>3
  <2>5. \A o \in grays : color'[o] = "black"
    BY <1>3, <2>0, <2>3, <2>4 DEF Closing
  <2>6. \A o \in M : color'[o] = MarkedColor(o)
    BY <2>0, <1>0, MarkSetFacts DEF Closing, SafeInv
  <2>7. \A o \in Obj \ (M \cup grays) : color'[o] = color[o]
    BY <2>0 DEF Closing
  <2> HIDE DEF S
  <2>8. cw' = cw
    BY DEF Closing
  <2>9. MarkStep(S, grays)
    BY <2>0, <2>1, <2>3, <2>4, <2>5, <2>6, <2>7, <2>8 DEF MarkStep
  <2> QED BY <2>0, <2>9
<1>4. M \cap Upvals = {} /\ M \subseteq Obj
  <2>1. CASE gcstate = "propagate"
    <3>1. S \in SUBSET Obj /\ S \cap Upvals = {} /\ Shapes
      BY <1>0 DEF SafeInv
    <3>2. MarkSet(S) \subseteq Obj /\ MarkSet(S) \cap Upvals \subseteq S
      BY <3>1, MarkSetFacts
    <3> QED BY <1>3, <2>1, <3>1, <3>2
  <2>2. CASE gcstate # "propagate"
    BY <2>2 DEF Closing, LinkMarks
  <2> QED BY <2>1, <2>2
<1> QED BY <1>1, <1>2, <1>3, <1>4

\* They are closed, and not gray.
LEMMA ClosingKinds ==
  ASSUME TypeOK, FinalInv, SafeInv, NEW lv, NEW U, NEW freed, NEW grays, NEW M,
         Closing(lv, U, freed, grays, M)
  PROVE  Kinds' /\ OpenUpvals' /\ Fresh' /\ Shapes'
<1>f. /\ U \subseteq Upvals \cap alloc /\ freed \subseteq U /\ grays \subseteq U
      /\ \A uv \in U : owner[uv] = run /\ owner[uv] # Nil /\ owner'[uv] = Nil
      /\ \A uv \in Upvals \ U : owner'[uv] = owner[uv]
      /\ \A o \in Obj \ U : ref'[o] = ref[o]
      /\ \A uv \in U \ freed : ref'[uv] = UpValue(uv)
      /\ \A uv \in freed : ref'[uv] = {} /\ color'[uv] \in Whites
      /\ \A uv \in U : UpValue(uv) \subseteq Obj \ Upvals
      /\ freed \cap grays = {}
  BY ClosingFacts
<1>m. M \cap Upvals = {} /\ M \subseteq Obj
  BY ClosingMarks
<1>c. /\ \A o \in Obj \ U : color'[o] = IF o \in M THEN MarkedColor(o) ELSE color[o]
      /\ \A uv \in grays : color'[uv] \in {"black", cw}
      /\ \A uv \in U \ (grays \cup freed) : color'[uv] = color[uv] /\ color[uv] # "gray"
      /\ alloc' = alloc \ freed /\ UNCHANGED <<entry, level>>
      /\ cw \in Whites
  <2>1. \A uv \in U : uv \in Obj /\ uv \notin M
    BY <1>f, <1>m, Disjoint
  <2> QED BY <1>f, <2>1 DEF Closing, TypeOK
<1>1. Kinds'
  <2>1. (\A o \in Threads \cup Strings \cup KeyWeak \cup ValueWeak : ~ Black(o))'
    <3> SUFFICES ASSUME NEW o \in Threads \cup Strings \cup KeyWeak \cup ValueWeak
                 PROVE  color'[o] # "black"
      BY DEF Black
    <3>1. o \in Obj \ U /\ o \notin Udatas \cup Upvals
      BY <1>f, Disjoint, ConstantAssumption
    <3> QED BY <1>c, <3>1 DEF SafeInv, Kinds, Black, MarkedColor
  <2>2. (\A u \in Udatas : color[u] # "gray")'
    <3>1. \A u \in Udatas : u \in Obj \ U
      BY <1>f, Disjoint
    <3> QED BY <1>c, <3>1 DEF SafeInv, Kinds, MarkedColor
  <2>3. ASSUME NEW uv \in Upvals
        PROVE  (/\ Black(uv) => owner[uv] = Nil
                /\ color[uv] = "gray" => owner[uv] # Nil)'
    <3>1. CASE uv \in U
      BY <1>c, <1>f, <3>1 DEF Whites
    <3>2. CASE uv \notin U
      <4>1. uv \in Obj \ U /\ uv \notin M
        BY <1>m, <3>2, Disjoint
      <4> QED BY <1>c, <1>f, <3>2, <4>1 DEF SafeInv, Kinds, Black
    <3> QED BY <3>1, <3>2
  <2> QED BY <2>1, <2>2, <2>3 DEF Kinds
<1>2. OpenUpvals'
  <2>1. \A uv \in Upvals \cap alloc' :
            \/ owner'[uv] = Nil
            \/ /\ uv \in alloc /\ owner'[uv] = owner[uv] /\ level'[uv] = level[uv]
               /\ owner[uv] \in alloc => owner[uv] \in alloc'
    <3> SUFFICES ASSUME NEW uv \in Upvals \cap alloc', owner'[uv] # Nil
                 PROVE  /\ uv \in alloc /\ owner'[uv] = owner[uv] /\ level'[uv] = level[uv]
                        /\ owner[uv] \in alloc => owner[uv] \in alloc'
      OBVIOUS
    <3>1. uv \notin U /\ uv \in alloc /\ owner'[uv] = owner[uv]
      BY <1>c, <1>f
    <3>2. owner[uv] \in Threads
      BY <3>1 DEF TypeOK
    <3> QED BY <1>c, <1>f, <3>1, <3>2, Disjoint
  <2> QED BY <1>1, <2>1, OpenStep DEF SafeInv
<1>3. Fresh'
  <2>1. \A o \in Obj \ alloc' : o \in freed \/ (o \notin alloc /\ o \notin U)
    BY <1>c, <1>f
  <2> QED BY <1>c, <1>f, <2>1, Disjoint DEF SafeInv, Fresh
<1>4. Shapes'
  <2>1. \A o \in Udatas \cup Threads \cup Strings : ref'[o] = ref[o]
    BY <1>f, Disjoint
  <2>2. ASSUME NEW uv \in Upvals
        PROVE  ref'[uv] \cap Upvals = {} /\ (owner'[uv] # Nil => ref'[uv] = {})
    BY <1>f, Disjoint DEF SafeInv, Shapes
  <2> QED BY <2>1, <2>2 DEF SafeInv, Shapes
<1> QED BY <1>1, <1>2, <1>3, <1>4

\* While the mark phase propagates: they turn black, their values marked.
LEMMA ClosingPropagate ==
  ASSUME TypeOK, FinalInv, SafeInv, TypeOK', Kinds', gcstate \in Marking,
         NEW lv, NEW U, NEW freed, NEW grays, NEW M, Closing(lv, U, freed, grays, M)
  PROVE  Survivors' = Survivors /\ MarkBasics' /\ TriColor' /\ GrayLists'
<1> DEFINE S == UNION {UpValue(uv) : uv \in grays}
<1>f. /\ U \subseteq Upvals \cap alloc /\ grays \subseteq U
      /\ \A o \in Obj \ U : ref'[o] = ref[o]
      /\ \A uv \in U \ freed : ref'[uv] = UpValue(uv)
  BY ClosingFacts
<1>m. M = MarkSet(S) /\ MarkStep(S, grays) /\ freed = {} /\ M \cap Upvals = {}
  BY ClosingMarks
<1>c. /\ alloc' = alloc /\ gray' = gray \cup Linked(M)
      /\ UNCHANGED <<entry, gcstate, grayagain, weak, tmudata, cw>>
      /\ \A uv \in grays : color[uv] = "gray"
      /\ \A uv \in U : ~ Black(uv)
  <2>1. \A uv \in U : ~ Black(uv)
    BY <1>f, ClosingFacts DEF SafeInv, Kinds
  <2> QED BY <1>m, <2>1 DEF Closing
<1> HIDE DEF S
<1>1. Survivors' = Survivors
  BY <1>c, InMarking, SurvivorsKept
<1>2. MarkBasics'
  <2>1. (\A p \in alloc : ~ IsDead(p))' /\ (~ White(MainThread) /\ ~ White(Registry))'
    BY <1>c, <1>m, MarkStepFacts
  <2>2. Linked(M) \subseteq Tables \cup Funcs \cup Threads
    BY DEF Linked
  <2> QED BY <1>c, <2>1, <2>2 DEF SafeInv, MarkBasics
<1>3. TriColor'
  <2>1. TriFields'
    <3> SUFFICES ASSUME NEW p \in alloc \ tmudata, color'[p] = "black", NEW c \in Fields(p)'
                 PROVE  ~ White(c)'
      BY <1>c DEF TriFields, AllMarked, Black
    <3>0. p \in Obj
      BY InMarking
    <3>1. CASE p \in grays
      <4>1. Fields(p)' = UpValue(p)
        BY <1>f, <1>m, <3>1, Disjoint DEF Fields
      <4>2. c \in S
        BY <3>1, <4>1 DEF S
      <4> QED BY <1>m, <4>2, MarkStepFacts
    <3>2. CASE p \notin grays
      <4>1. p \notin U
        <5>1. p \in U => p \in Upvals /\ p \notin M
          BY <1>f, <1>m
        <5>2. p \in U => color'[p] = color[p]
          BY <1>m, <3>0, <3>2, <5>1 DEF MarkStep
        <5> QED BY <1>c, <5>2 DEF Black
      <4>2. c \in Fields(p)
        BY <1>c, <1>f, <3>0, <4>1 DEF Fields, KeyRefs, ValueRefs, Used
      <4> QED BY <1>m, <3>2, <4>2, MarkStepTri
    <3> QED BY <3>1, <3>2
  <2> QED BY <2>1, TriColorNext
<1>4. GrayLists'
  <2>1. gray \cap grayagain = {} /\ gray \cap weak = {} /\ grayagain \cap weak = {}
    BY DEF SafeInv, GrayLists
  <2>2. /\ Linked(M) \cap (gray \cup grayagain \cup weak) = {}
        /\ \A p \in Linked(M) : p \in alloc /\ p \notin grays /\ color'[p] = "gray"
        /\ \A p \in (gray \cup grayagain \cup weak) \ grays : p \in alloc /\ color'[p] = "gray"
        /\ \A p \in (alloc \cap (Tables \cup Funcs \cup Threads)) \ grays :
             color'[p] = "gray" => p \in gray \cup grayagain \cup weak \cup Linked(M)
    BY <1>m, MarkStepLists
  <2>3. \A p \in gray \cup grayagain \cup weak : p \notin Upvals
    BY Disjoint DEF SafeInv, MarkBasics, TypeOK
  <2>4. \A p \in Tables \cup Funcs \cup Threads : p \notin Upvals
    BY Disjoint
  <2>5. \A p \in grays : p \in Upvals
    BY <1>f
  <2> QED BY <1>c, <2>1, <2>2, <2>3, <2>4, <2>5 DEF GrayLists
<1> QED BY <1>1, <1>2, <1>3, <1>4

\* Outside of the mark phase: they turn white, or are freed if dead.
LEMMA ClosingOutside ==
  ASSUME TypeOK, FinalInv, SafeInv, gcstate \notin Marking,
         NEW lv, NEW U, NEW freed, NEW grays, NEW M, Closing(lv, U, freed, grays, M)
  PROVE  Survivors' = Survivors /\ SweptWhite'
<1>f. /\ U \subseteq Upvals \cap alloc /\ freed \subseteq U /\ grays \subseteq U
      /\ \A uv \in Upvals \ U : owner'[uv] = owner[uv]
      /\ gcstate \notin Sweeping => freed = {}
      /\ freed \cap Survivors = {}
      /\ freed \cap grays = {}
      /\ alloc \subseteq Obj /\ cw \in Whites
      /\ color \in [Obj -> Whites \cup {"gray", "black"}]
  BY ClosingFacts DEF TypeOK
<1>m. M = {} /\ gcstate # "propagate"
  BY ClosingMarks DEF Marking
<1>c. /\ alloc' = alloc \ freed
      /\ UNCHANGED <<gcstate, unswept, tmudata, cw>>
      /\ \A uv \in grays : color[uv] = "gray"
      /\ \A uv \in freed : IsDead(uv)
      /\ \A o \in Obj \ freed : color'[o] = IF o \in grays THEN cw ELSE color[o]
  BY <1>f, <1>m DEF Closing
<1>1. Survivors' = Survivors
  <2>1. \A o \in alloc \ freed : IsDead(o)' <=> IsDead(o)
    <3> SUFFICES ASSUME NEW o \in alloc \ freed PROVE color'[o] = Other(cw) <=> color[o] = Other(cw)
      BY <1>c DEF IsDead
    <3>1. CASE o \in grays
      BY <1>c, <1>f, <3>1, TwoWhites DEF Whites
    <3>2. CASE o \notin grays
      BY <1>c, <1>f, <3>2
    <3> QED BY <3>1, <3>2
  <2> QED BY <1>c, <1>f, <2>1 DEF Survivors
<1>2. SweptWhite'
  <2>1. \A o \in alloc' \ tmudata : color'[o] # cw =>
            o \in alloc /\ color[o] # cw /\ (o \in Upvals => owner'[o] = owner[o])
    <3> SUFFICES ASSUME NEW o \in alloc \ tmudata, o \notin freed, color'[o] # cw
                 PROVE  color[o] # cw /\ (o \in Upvals => owner'[o] = owner[o])
      BY <1>c
    <3>1. o \notin grays /\ color'[o] = color[o]
      BY <1>c, <1>f
    <3>2. o \notin U
      <4>1. ASSUME o \in U PROVE FALSE
        <5>1. owner[o] # Nil /\ o \in Upvals
          BY <1>f, <4>1, ClosingFacts
        <5>2. color[o] # "black" /\ color[o] # Other(cw) /\ color[o] # "gray"
          BY <3>1, <4>1, <5>1 DEF SafeInv, Kinds, Black, Closing, IsDead
        <5>3. color[o] \in Whites
          BY <1>f, <5>2
        <5> QED BY <3>1, <5>2, <5>3, TwoWhites
      <4> QED BY <4>1
    <3> QED BY <1>f, <3>1, <3>2
  <2> QED BY <1>c, <2>1, SweptStep DEF SafeInv
<1> QED BY <1>1, <1>2

\* luaF_close keeps the invariant.
LEMMA CloseUpvalsStep ==
  ASSUME TypeOK, FinalInv, SafeInv, TypeOK', NEW lv \in Temps, CloseUpvals(lv)
  PROVE  SafeInv'
<1>1. PICK U, freed, grays, M : Closing(lv, U, freed, grays, M)
  BY CloseIsClosing
<1>2. Kinds' /\ OpenUpvals' /\ Fresh' /\ Shapes'
  BY <1>1, ClosingKinds
<1>3. UNCHANGED <<gcstate, entry, stack, level, mt, run, tmudata>> /\ gcstate \notin Atomic
  BY <1>1 DEF Closing, Running
<1>4. Survivors' = Survivors /\ SweptWhite' /\ MarkBasics' /\ TriColor' /\ GrayLists'
  <2>1. CASE gcstate \in Marking
    BY <1>1, <1>2, <1>3, <2>1, ClosingPropagate DEF SweptWhite
  <2>2. CASE gcstate \notin Marking
    BY <1>1, <1>3, <2>2, ClosingOutside DEF MarkBasics, TriColor, GrayLists
  <2> QED BY <2>1, <2>2
<1>5. Stages'
  BY <1>3 DEF Stages, Atomic
<1>6. (Roots \subseteq Survivors)' /\ HeapClosed(Survivors)'
  <2>1. U \in SUBSET Upvals /\ freed \in SUBSET Obj /\ freed \cap Survivors = {}
    BY <1>1, ClosingFacts, Disjoint
  <2>2. /\ ref' = [o \in Obj |-> IF o \in freed THEN {} ELSE IF o \in U THEN UpValue(o) ELSE ref[o]]
        /\ owner' = [uv \in Upvals |-> IF uv \in U THEN Nil ELSE owner[uv]]
    BY <1>1 DEF Closing
  <2> QED BY <1>3, <1>4, <2>1, <2>2, SafeHeap, CloseSafe
<1>7. NoDangling'
  BY <1>2, <1>6, NoDanglingNext
<1> QED BY <1>2, <1>4, <1>5, <1>7 DEF SafeInv

-----------------------------------------------------------------------------
(* The operations of the program that update what exists.                  *)

\* An assignment to a table entry keeps the invariant.
LEMMA SetEntryStep ==
  ASSUME TypeOK, SafeInv, TypeOK', NEW t \in Readable \cap Tables,
         NEW k \in Keys \cap (Readable \cup {Prim}), NEW v \in Readable \cup {Prim, Nil},
         SetEntry(t, k, v)
  PROVE  SafeInv'
<1> DEFINE V == {v} \cup (IF entry[t][k] = Nil THEN {k} ELSE {})
<1>0. /\ HeapSafe /\ t \in alloc /\ t \in Obj /\ Running /\ BarrierBack(t, V)
      /\ {k, v} \cap Obj \subseteq Survivors
      /\ entry' = [entry EXCEPT ![t][k] = v]
      /\ UNCHANGED <<alloc, ref, stack, owner, level, mt, run, cw, gcstate, gray, weak,
                     unswept, tmudata>>
  BY SafeHeap, HeapFacts, ReadableSurvives, Disjoint DEF SetEntry, finals
<1>1. \A q \in Tables, j \in Keys : entry'[q][j] = IF q = t /\ j = k THEN v ELSE entry[q][j]
  BY <1>0 DEF TypeOK
<1>2. \A o \in Obj \ {t} : ref'[o] = ref[o] /\ (o \in Tables => entry'[o] = entry[o])
  BY <1>0 DEF TypeOK
<1>3. Fields(t)' \subseteq Fields(t) \cup (V \cap Obj)
  <2>1. KeyRefs(t)' \subseteq KeyRefs(t) \cup (V \cap Obj)
    BY <1>1 DEF KeyRefs, Used
  <2>2. ValueRefs(t)' \subseteq ValueRefs(t) \cup (V \cap Obj)
    BY <1>1 DEF ValueRefs, Used
  <2> QED BY <1>0, <2>1, <2>2 DEF Fields
<1> HIDE DEF V
<1>4. /\ Survivors' = Survivors
      /\ Kinds' /\ SweptWhite' /\ MarkBasics' /\ TriColor' /\ GrayLists' /\ Stages'
  BY <1>0, <1>2, <1>3, BackStep
<1>5. (Roots \subseteq Survivors)' /\ HeapClosed(Survivors)'
  BY <1>0, <1>4, EntryWriteSafe
<1>6. OpenUpvals'
  BY <1>0, <1>4, OpenStep DEF SafeInv
<1>7. Fresh'
  BY <1>0, <1>2, FreshStep DEF SafeInv
<1>8. Shapes'
  BY <1>0 DEF SafeInv, Shapes
<1>9. NoDangling'
  BY <1>5, <1>8, NoDanglingNext
<1> QED BY <1>4, <1>6, <1>7, <1>8, <1>9 DEF SafeInv

\* lua_setmetatable on a table keeps the invariant.
LEMMA SetMetatableStep ==
  ASSUME TypeOK, SafeInv, TypeOK', NEW t \in Readable \cap Tables,
         NEW m \in (Readable \cap Tables) \cup {Nil}, SetMetatable(t, m)
  PROVE  SafeInv'
<1>0. /\ HeapSafe /\ t \in alloc /\ t \in Obj /\ Running /\ BarrierBack(t, {m})
      /\ {m} \cap Obj \in SUBSET Survivors
      /\ ref' = [ref EXCEPT ![t] = {m} \cap Obj]
      /\ UNCHANGED <<alloc, entry, stack, owner, level, mt, run, cw, gcstate, gray, weak,
                     unswept, tmudata>>
  BY SafeHeap, HeapFacts, ReadableSurvives, Disjoint DEF SetMetatable, finals
<1>1. \A o \in Obj : ref'[o] = IF o = t THEN {m} \cap Obj ELSE ref[o]
  BY <1>0 DEF TypeOK
<1>2. \A o \in Obj \ {t} : ref'[o] = ref[o] /\ (o \in Tables => entry'[o] = entry[o])
  BY <1>0, <1>1
<1>3. Fields(t)' \subseteq Fields(t) \cup ({m} \cap Obj)
  BY <1>0, <1>1 DEF Fields, KeyRefs, ValueRefs, Used
<1>4. /\ Survivors' = Survivors
      /\ Kinds' /\ SweptWhite' /\ MarkBasics' /\ TriColor' /\ GrayLists' /\ Stages'
  BY <1>0, <1>2, <1>3, BackStep
<1>5. (Roots \subseteq Survivors)' /\ HeapClosed(Survivors)'
  BY <1>0, <1>4, FieldWriteSafe
<1>6. OpenUpvals'
  BY <1>0, <1>4, OpenStep DEF SafeInv
<1>7. Fresh'
  BY <1>0, <1>2, FreshStep DEF SafeInv
<1>8. Shapes'
  BY <1>0, <1>1, Disjoint DEF SafeInv, Shapes
<1>9. NoDangling'
  BY <1>5, <1>8, NoDanglingNext
<1> QED BY <1>4, <1>6, <1>7, <1>8, <1>9 DEF SafeInv

\* A write to a field of a function or userdata keeps the invariant.
LEMMA SetFieldStep ==
  ASSUME TypeOK, SafeInv, TypeOK', NEW o \in Readable \cap (Funcs \cup Udatas),
         NEW v \in Readable \cup {Nil}, NEW x, SetField(o, x, v)
  PROVE  SafeInv'
<1> DEFINE N == (ref[o] \ {x}) \cup ({v} \cap Obj)
<1>0. /\ HeapSafe /\ o \in alloc /\ o \in Obj /\ Running /\ BarrierForward(o, v)
      /\ v \in Obj => v \in Survivors
      /\ o \in Survivors
      /\ o \in Udatas => N \subseteq Tables
      /\ ref' = [ref EXCEPT ![o] = N]
      /\ Survivors \subseteq alloc
      /\ UNCHANGED <<alloc, entry, stack, owner, level, mt, run, cw, gcstate, grayagain, weak,
                     unswept, tmudata>>
  BY SafeHeap, HeapFacts, ReadableSurvives, Disjoint DEF SetField, finals
<1>1. \A p \in Obj : ref'[p] = IF p = o THEN N ELSE ref[p]
  BY <1>0 DEF TypeOK
<1>2. N \in SUBSET Survivors
  <2>1. ref[o] \subseteq Survivors
    BY <1>0, HeapFacts DEF HeapClosed
  <2> QED BY <1>0, <2>1
<1>3. ref'[o] \subseteq ref[o] \cup ({v} \cap Obj)
  BY <1>0, <1>1
<1> HIDE DEF N
<1>4. /\ Survivors' = Survivors
      /\ Kinds' /\ SweptWhite' /\ MarkBasics' /\ TriColor' /\ GrayLists' /\ Stages'
  <2>1. o \in alloc \cap (Funcs \cup Udatas \cup Upvals) /\ (v \in Obj => v \in alloc)
        /\ \A p \in Obj \ {o} : ref'[p] = ref[p]
    BY <1>0, <1>1
  <2> QED BY <1>0, <1>3, <2>1, ForwardStep
<1>5. (Roots \subseteq Survivors)' /\ HeapClosed(Survivors)'
  BY <1>0, <1>2, <1>4, FieldWriteSafe
<1>6. OpenUpvals'
  BY <1>0, <1>4, OpenStep DEF SafeInv
<1>7. Fresh'
  BY <1>0, <1>1, FreshStep DEF SafeInv
<1>8. Shapes'
  BY <1>0, <1>1, Disjoint DEF SafeInv, Shapes
<1>9. NoDangling'
  BY <1>5, <1>8, NoDanglingNext
<1> QED BY <1>4, <1>6, <1>7, <1>8, <1>9 DEF SafeInv

\* An assignment to an upvalue, open or closed, keeps the invariant.
LEMMA SetUpvalStep ==
  ASSUME TypeOK, SafeInv, TypeOK', NEW uv \in UpvalsHeld, NEW v \in Readable \cup {Nil},
         SetUpval(uv, v)
  PROVE  SafeInv'
<1>0. /\ HeapSafe /\ uv \in Survivors /\ uv \in Upvals /\ uv \in alloc /\ uv \in Obj
      /\ Running /\ BarrierForward(uv, v)
      /\ v \in Obj => v \in Survivors /\ v \notin Upvals
      /\ Survivors \subseteq alloc
      /\ UNCHANGED <<alloc, entry, owner, level, mt, run, cw, gcstate, grayagain, weak,
                     unswept, tmudata>>
  BY SafeHeap, HeapFacts, ReadableSurvives, UpvalsHeldSurvive, Disjoint DEF SetUpval, finals
<1>1. CASE owner[uv] = Nil
  <2>0. ref' = [ref EXCEPT ![uv] = {v} \cap Obj] /\ stack' = stack
    BY <1>1 DEF SetUpval
  <2>1. \A p \in Obj : ref'[p] = IF p = uv THEN {v} \cap Obj ELSE ref[p]
    BY <2>0 DEF TypeOK
  <2>2. {v} \cap Obj \in SUBSET Survivors
    BY <1>0
  <2>3. /\ Survivors' = Survivors
        /\ Kinds' /\ SweptWhite' /\ MarkBasics' /\ TriColor' /\ GrayLists' /\ Stages'
    <3>1. uv \in alloc \cap (Funcs \cup Udatas \cup Upvals) /\ (v \in Obj => v \in alloc)
          /\ (\A p \in Obj \ {uv} : ref'[p] = ref[p])
          /\ ref'[uv] \subseteq ref[uv] \cup ({v} \cap Obj)
      BY <1>0, <2>1
    <3> QED BY <1>0, <3>1, ForwardStep
  <2>4. (Roots \subseteq Survivors)' /\ HeapClosed(Survivors)'
    BY <1>0, <2>0, <2>2, <2>3, FieldWriteSafe
  <2>5. OpenUpvals'
    BY <1>0, <2>3, OpenStep DEF SafeInv
  <2>6. Fresh'
    BY <1>0, <2>1, FreshStep DEF SafeInv
  <2>7. Shapes'
    BY <1>0, <1>1, <2>1, Disjoint DEF SafeInv, Shapes
  <2>8. NoDangling'
    BY <2>4, <2>7, NoDanglingNext
  <2> QED BY <2>3, <2>5, <2>6, <2>7, <2>8 DEF SafeInv
<1>2. CASE owner[uv] # Nil
  <2>1. ref' = ref /\ stack' = [stack EXCEPT ![owner[uv]][level[uv]] = v]
    BY <1>2 DEF SetUpval
  <2>2. owner[uv] \in Threads /\ level[uv] \in Slots
    BY <1>0, <1>2 DEF TypeOK
  <2>3. ~ Black(uv)
    BY <1>0, <1>2 DEF SafeInv, Kinds
  <2>4. color' = color /\ gray' = gray
    BY <1>0, <2>3 DEF BarrierForward
  <2>5. run' \in Survivors /\ UNCHANGED lists
    BY <1>0, <2>4, HeapFacts DEF Roots, lists
  <2> QED BY <1>0, <2>1, <2>2, <2>4, <2>5, PlainStackStep
<1> QED BY <1>1, <1>2

\* Every operation that moves references keeps the invariant.
LEMMA UpdateSafe == ASSUME TypeOK, FinalInv, SafeInv, Update PROVE SafeInv'
<1>k. /\ TypeOK' /\ HeapSafe /\ Temps \subseteq Slots /\ run \in Threads /\ run \in Survivors
      /\ Readable \subseteq Survivors
      /\ MainThread \in Threads /\ MainThread \in Survivors
  BY UpdateType, SafeHeap, HeapFacts, ReadableSurvives, ConstantAssumption DEF Temps, TypeOK, Roots
<1>1. ASSUME NEW t \in Readable \cap Tables,
             NEW k \in Keys \cap (Readable \cup {Prim}), NEW v \in Readable \cup {Prim, Nil},
             SetEntry(t, k, v)
      PROVE  SafeInv'
  BY <1>k, <1>1, SetEntryStep
<1>2. ASSUME NEW t \in Readable \cap Tables, NEW m \in (Readable \cap Tables) \cup {Nil},
             SetMetatable(t, m)
      PROVE  SafeInv'
  BY <1>k, <1>2, SetMetatableStep
<1>3. ASSUME NEW m \in (Readable \cap Tables) \cup {Nil}, SetBasicMetatable(m) PROVE SafeInv'
  BY <1>k, <1>3, BasicMetatableStep
<1>4. ASSUME NEW lv \in Temps, CloseUpvals(lv) PROVE SafeInv'
  BY <1>k, <1>4, CloseUpvalsStep
<1>5. ASSUME NEW v \in Readable \cup {Nil}, NEW s \in Slots, Fetch(v, s) PROVE SafeInv'
  <2>1. /\ Running /\ stack' = [stack EXCEPT ![run][s] = v] /\ run' \in Survivors
        /\ UNCHANGED <<alloc, ref, entry, owner, level, mt, color, cw, gcstate, lists, unswept, tmudata>>
    BY <1>k, <1>5 DEF Fetch, marks, finals
  <2> QED BY <1>k, <2>1, PlainStackStep
<1>6. ASSUME NEW v \in Readable \cup {Nil}, NEW o \in Readable \cap (Funcs \cup Udatas), NEW x,
             SetField(o, x, v)
      PROVE  SafeInv'
  BY <1>k, <1>6, SetFieldStep
<1>7. ASSUME NEW v \in Readable \cup {Nil}, NEW uv \in UpvalsHeld, SetUpval(uv, v) PROVE SafeInv'
  BY <1>k, <1>7, SetUpvalStep
<1>8. ASSUME NEW v \in Readable \cup {Nil}, NEW th \in Readable \cap Threads, NEW s \in Temps,
             Resume(th, v, s)
      PROVE  SafeInv'
  <2>1. /\ Running /\ stack' = [stack EXCEPT ![th][s] = v] /\ run' \in Survivors
        /\ UNCHANGED <<alloc, ref, entry, owner, level, mt, color, cw, gcstate, lists, unswept, tmudata>>
    BY <1>k, <1>8 DEF Resume, marks, finals
  <2>2. th \in Threads /\ s \in Slots
    BY <1>k
  <2> QED BY <1>k, <2>1, <2>2, PlainStackStep
<1>9. ASSUME NEW v \in Readable \cup {Nil}, NEW s \in Temps, Yield(v, s) PROVE SafeInv'
  <2>1. /\ Running /\ stack' = [stack EXCEPT ![MainThread][s] = v] /\ run' \in Survivors
        /\ UNCHANGED <<alloc, ref, entry, owner, level, mt, color, cw, gcstate, lists, unswept, tmudata>>
    BY <1>k, <1>9 DEF Yield, marks, finals
  <2>2. s \in Slots
    BY <1>k
  <2> QED BY <1>k, <2>1, <2>2, PlainStackStep
<1> QED BY <1>1, <1>2, <1>3, <1>4, <1>5, <1>6, <1>7, <1>8, <1>9 DEF Update

-----------------------------------------------------------------------------
(* Collector steps that leave the heap alone.                              *)

\* The heap is left alone: what is said of references holds on.
LEMMA HeapKept ==
  ASSUME TypeOK, TypeOK', SafeInv, Kinds', alloc' = alloc, Survivors' = Survivors,
         UNCHANGED <<ref, entry, stack, owner, level, mt, run>>, tmudata' \subseteq Survivors
  PROVE  NoDangling' /\ OpenUpvals' /\ Fresh' /\ Shapes'
<1>1. OpenUpvals'
  BY OpenStep DEF SafeInv
<1>2. Fresh'
  BY FreshStep DEF SafeInv
<1>3. Shapes'
  BY DEF SafeInv, Shapes
<1>4. (Roots \subseteq Survivors)' /\ HeapClosed(Survivors)'
  <2>1. Roots \subseteq Survivors /\ HeapClosed(Survivors)
    BY SafeHeap, HeapFacts
  <2> QED BY <2>1 DEF Roots, HeapClosed
<1>5. NoDangling'
  BY <1>3, <1>4, NoDanglingNext
<1> QED BY <1>1, <1>2, <1>3, <1>5

\* Outside of mark and sweep phases only finalizers keep a color.
LEMMA AllWhite ==
  ASSUME TypeOK, FinalInv, SafeInv, gcstate \in {"pause", "finalize"}
  PROVE  /\ \A o \in alloc \ tmudata : color[o] = cw
         /\ \A o \in alloc : ~ IsDead(o)
         /\ unswept = {} /\ Survivors = alloc
<1>1. gcstate \notin Marking /\ gcstate \notin Sweeping
  BY DEF Marking, Atomic, Sweeping
<1>2. unswept = {} /\ Survivors = alloc
  BY <1>1 DEF FinalInv, DeadIsUnswept, Survivors
<1>3. \A o \in alloc \ tmudata : color[o] = cw
  BY <1>1, <1>2 DEF SafeInv, SweptWhite, Pending
<1>4. \A o \in alloc : ~ IsDead(o)
  BY <1>1, DeadIsPending
<1> QED BY <1>2, <1>3, <1>4

\* markroot establishes the invariant of the mark phase.
LEMMA MarkRootStep ==
  ASSUME TypeOK, FinalInv, SafeInv, TypeOK', gcstate \in {"pause", "finalize"},
         MarkRootSet, UNCHANGED <<heap, cw, unswept, finals>>
  PROVE  SafeInv'
<1> DEFINE S == {MainThread, Registry} \cup ({stack[MainThread][GlobalsSlot], mt} \cap Obj)
           M == MarkSet(S)
<1>0. /\ color' = Painted(M) /\ gray' = Linked(M) /\ grayagain' = {} /\ weak' = {}
      /\ gcstate' = "propagate"
      /\ UNCHANGED <<alloc, ref, entry, stack, owner, level, mt, run, cw, unswept, tmudata>>
  BY DEF MarkRootSet, heap, finals
<1>1. /\ HeapSafe /\ Survivors = alloc /\ alloc \subseteq Obj
      /\ \A o \in alloc \ tmudata : color[o] = cw
      /\ \A o \in alloc : ~ IsDead(o)
      /\ \A o \in alloc : Access(o) \subseteq alloc
      /\ Roots \subseteq alloc /\ HeapClosed(alloc)
      /\ gcstate' \in Marking /\ gcstate' \notin Atomic /\ gcstate' \notin Sweeping
      /\ Shapes /\ cw \in Whites
  BY <1>0, SafeHeap, AllWhite, HeapFacts DEF Marking, Atomic, Sweeping, SafeInv, TypeOK
<1>2. S \subseteq alloc /\ MainThread \in S /\ Registry \in S
  <2>1. MainThread \in alloc /\ Registry \in alloc /\ {mt} \cap Obj \subseteq alloc
    BY <1>1 DEF Roots
  <2>2. {stack[MainThread][GlobalsSlot]} \cap Obj \subseteq alloc
    BY <1>1, <2>1, ConstantAssumption DEF HeapClosed
  <2> QED BY <2>1, <2>2
<1>3. /\ M \subseteq alloc
      /\ \A o \in S : White(o) => o \in M
      /\ \A u \in M \cap Udatas : \A c \in ref[u] : White(c) => c \in M
      /\ \A uv \in M \cap Upvals : \A c \in UpValue(uv) : White(c) => c \in M
  <2>1. S \in SUBSET Obj /\ S \in SUBSET alloc /\ alloc \in SUBSET Obj
    BY <1>1, <1>2
  <2>2. M \subseteq alloc
    BY <1>1, <2>1, MarkSetInside
  <2> QED BY <1>1, <2>1, <2>2, MarkSetFacts
<1> HIDE DEF S, M
<1>4. /\ \A o \in M : color'[o] = MarkedColor(o) /\ color'[o] \in {"gray", "black"}
      /\ \A o \in Obj \ M : color'[o] = color[o]
      /\ \A o \in Obj : White(o)' <=> White(o) /\ o \notin M
  <2>1. M \in SUBSET Obj
    BY <1>1, <1>3
  <2> QED BY <1>0, <2>1, PaintedFacts DEF White, Whites
<1>5. Survivors' = Survivors
  BY <1>0, <1>1 DEF Survivors
<1>6. Kinds'
  BY <1>0, <1>4, KindsStep DEF SafeInv
<1>7. NoDangling' /\ OpenUpvals' /\ Fresh' /\ Shapes'
  BY <1>0, <1>1, <1>5, <1>6, HeapKept DEF Roots
<1>8. SweptWhite' /\ Stages'
  BY <1>1 DEF SweptWhite, Stages, Atomic
<1>9. MarkBasics'
  <2>1. (\A o \in alloc : ~ IsDead(o))'
    BY <1>0, <1>1, <1>4, TwoWhites DEF IsDead, Whites
  <2>2. (~ White(MainThread) /\ ~ White(Registry))'
    BY <1>1, <1>2, <1>3, <1>4
  <2>3. Linked(M) \subseteq Tables \cup Funcs \cup Threads
    BY DEF Linked
  <2> QED BY <1>0, <2>1, <2>2, <2>3 DEF MarkBasics
<1>10. TriColor'
  <2>1. TriFields'
    <3> SUFFICES ASSUME NEW p \in alloc \ tmudata, color'[p] = "black", NEW c \in Fields(p)'
                 PROVE  ~ White(c)'
      BY <1>0 DEF TriFields, AllMarked, Black
    <3>1. p \in M /\ MarkedColor(p) = "black"
      BY <1>1, <1>4 DEF Whites
    <3>2. c \in Fields(p)
      BY <1>0 DEF Fields, KeyRefs, ValueRefs, Used
    <3>3. CASE p \in Udatas
      <4>1. c \in ref[p] /\ c \in Obj
        BY <3>2, <3>3, Disjoint DEF Fields, TypeOK
      <4> QED BY <1>3, <1>4, <3>1, <3>3, <4>1
    <3>4. CASE p \in Upvals /\ owner[p] = Nil
      <4>1. c \in UpValue(p) /\ c \in Obj
        BY <3>2, <3>4, Disjoint DEF Fields, UpValue, TypeOK
      <4> QED BY <1>3, <1>4, <3>1, <3>4, <4>1
    <3> QED BY <3>1, <3>3, <3>4 DEF MarkedColor
  <2> QED BY <1>6, <2>1, TriColorNext
<1>11. GrayLists'
  <2>1. \A o \in Linked(M) : o \in alloc /\ color'[o] = "gray"
    BY <1>3, <1>4, Disjoint DEF Linked, MarkedColor
  <2>2. ASSUME NEW o \in alloc \cap (Tables \cup Funcs \cup Threads), color'[o] = "gray"
        PROVE  o \in Linked(M)
    <3>1. o \notin tmudata
      BY Disjoint DEF TypeOK
    <3>2. color[o] # "gray"
      BY <1>1, <3>1 DEF Whites
    <3> QED BY <1>1, <1>4, <2>2, <3>2 DEF Linked
  <2> QED BY <1>0, <2>1, <2>2 DEF GrayLists
<1> QED BY <1>6, <1>7, <1>8, <1>9, <1>10, <1>11 DEF SafeInv

\* What is marked stays marked.
LEMMA MarkStepKeeps ==
  ASSUME TypeOK, SafeInv, NEW S, NEW X, MarkStep(S, X), NEW C \in SUBSET Obj, AllMarked(C)
  PROVE  \A c \in C : ~ White(c)'
BY MarkStepFacts DEF AllMarked

\* The values of the upvalues that a mark step makes gray are marked.
LEMMA MarkStepUpvals ==
  ASSUME TypeOK, SafeInv, NEW S, NEW X, MarkStep(S, X),
         NEW uv \in Upvals \cap alloc, uv \notin X, color'[uv] = "gray",
         color[uv] = "gray" => \A c \in UpValue(uv) : ~ White(c)'
  PROVE  \A c \in UpValue(uv) : ~ White(c)'
<1>0. S \in SUBSET Obj /\ Shapes /\ uv \in Obj /\ UpValue(uv) \subseteq Obj
  <2>1. S \subseteq alloc /\ alloc \subseteq Obj
    BY DEF MarkStep, TypeOK
  <2> QED BY <2>1, UpValueType DEF SafeInv
<1>1. CASE uv \in MarkSet(S)
  <2>1. \A c \in UpValue(uv) : White(c) => c \in MarkSet(S)
    BY <1>0, <1>1, MarkSetFacts
  <2> QED BY <1>0, <2>1, MarkStepFacts
<1>2. CASE uv \notin MarkSet(S)
  BY <1>0, <1>2 DEF MarkStep
<1> QED BY <1>1, <1>2

\* The stages of atomic(), when a mark step leaves the heap and weak alone.
LEMMA MarkStepStages ==
  ASSUME TypeOK, SafeInv, NEW S, NEW X, MarkStep(S, X), X \cap (Upvals \cup tmudata) = {},
         UNCHANGED <<heap, gcstate, tmudata>>,
         \A t \in weak' \ weak : \A c \in Children(t) : ~ White(c)',
         \A th \in grayagain' \ grayagain : th \in Threads /\ \A c \in Children(th) : ~ White(c)',
         weak' \cup grayagain' \subseteq Obj
  PROVE  Stages'
<1>0. /\ UNCHANGED <<alloc, ref, entry, stack, owner, level, mt, run>>
      /\ tmudata \subseteq Udatas
  BY DEF heap, TypeOK
<1>a. /\ \A o : Children(o)' = Children(o)
      /\ \A uv : UpValue(uv)' = UpValue(uv)
      /\ UnbarrieredRoots' = UnbarrieredRoots
  BY <1>0 DEF Children, UpValue, StackRefs, KeyRefs, ValueRefs, Used, UnbarrieredRoots
<1>b. /\ \A o \in Obj : Children(o) \in SUBSET Obj /\ ref[o] \in SUBSET Obj
      /\ \A uv \in Upvals : UpValue(uv) \in SUBSET Obj
      /\ UnbarrieredRoots \in SUBSET Obj
  <2>1. \A o \in Obj : Children(o) \subseteq Obj
    BY AccessType DEF Access
  <2>2. UnbarrieredRoots \subseteq Obj
    BY Disjoint DEF UnbarrieredRoots, TypeOK
  <2> QED BY <2>1, <2>2, UpValueType DEF TypeOK
<1>1. ASSUME gcstate \in Atomic, NEW uv \in Upvals \cap alloc, color'[uv] = "gray"
      PROVE  \A c \in UpValue(uv) : ~ White(c)'
  <2>1. color[uv] = "gray" => AllMarked(UpValue(uv))
    BY <1>1 DEF SafeInv, Stages
  <2>2. color[uv] = "gray" => \A c \in UpValue(uv) : ~ White(c)'
    BY <1>b, <2>1, MarkStepKeeps
  <2> QED BY <1>1, <2>2, MarkStepUpvals
<1>2. ASSUME gcstate \in Atomic \ {"remark"}
      PROVE  /\ \A c \in UnbarrieredRoots : ~ White(c)'
             /\ \A t \in weak' : \A c \in Children(t) : ~ White(c)'
  <2>1. AllMarked(UnbarrieredRoots) /\ \A t \in weak : AllMarked(Children(t))
    BY <1>2 DEF SafeInv, Stages
  <2>2. \A t \in weak : t \in Obj
    BY Disjoint DEF TypeOK
  <2>3. \A t \in weak : \A c \in Children(t) : ~ White(c)'
    BY <1>b, <2>1, <2>2, MarkStepKeeps
  <2> QED BY <1>b, <2>1, <2>3, MarkStepKeeps
<1>3. ASSUME gcstate \in {"remarkagain", "separated"}, NEW th \in grayagain'
      PROVE  th \in Threads /\ \A c \in Children(th) : ~ White(c)'
  <2>1. CASE th \in grayagain
    <3>1. th \in Threads /\ AllMarked(Children(th))
      BY <1>3, <2>1 DEF SafeInv, Stages
    <3> QED BY <1>b, <1>3, <3>1, MarkStepKeeps
  <2>2. CASE th \notin grayagain
    BY <1>3, <2>2
  <2> QED BY <2>1, <2>2
<1>4. ASSUME gcstate = "separated", NEW u \in tmudata
      PROVE  color'[u] = "black" /\ \A c \in ref[u] : ~ White(c)'
  <2>1. color[u] = "black" /\ AllMarked(ref[u]) /\ u \in Obj
    BY <1>0, <1>4, Disjoint DEF SafeInv, Stages, Black
  <2>2. u \notin MarkSet(S)
    BY <2>1, MarkStepFacts DEF White, Whites
  <2>3. color'[u] = "black"
    BY <1>4, <2>1, <2>2 DEF MarkStep
  <2> QED BY <1>b, <2>1, <2>3, MarkStepKeeps
<1>5. gcstate' = gcstate /\ tmudata' = tmudata /\ alloc' = alloc /\ ref' = ref
  BY <1>0
<1> QED BY <1>a, <1>1, <1>2, <1>3, <1>4, <1>5 DEF Stages, AllMarked, Black

\* Marking in a mark phase keeps what is not about one stage or list.
LEMMA MarkStepRest ==
  ASSUME TypeOK, SafeInv, TypeOK', Kinds', NEW S, NEW X, MarkStep(S, X), UNCHANGED heap,
         gcstate' \in Marking, tmudata \subseteq tmudata', tmudata' \subseteq alloc,
         gray' \subseteq Tables \cup Funcs \cup Threads,
         grayagain' \subseteq Tables \cup Threads,
         \A x \in X \ tmudata' : color'[x] = "black" => \A c \in Fields(x) : ~ White(c)'
  PROVE  /\ NoDangling' /\ OpenUpvals' /\ Fresh' /\ Shapes'
         /\ SweptWhite' /\ MarkBasics' /\ TriColor'
<1>0. /\ UNCHANGED <<alloc, ref, entry, stack, owner, level, mt, run>>
      /\ gcstate \in Marking /\ cw' = cw
  BY DEF heap, MarkStep
<1>1. Survivors = alloc /\ Survivors' = Survivors
  BY <1>0, InMarking DEF Survivors, Marking, Atomic, Sweeping
<1>2. NoDangling' /\ OpenUpvals' /\ Fresh' /\ Shapes'
  BY <1>0, <1>1, HeapKept
<1>3. SweptWhite'
  BY DEF SweptWhite
<1>4. MarkBasics'
  <2>1. (\A p \in alloc : ~ IsDead(p))' /\ (~ White(MainThread) /\ ~ White(Registry))'
    BY <1>0, MarkStepFacts
  <2> QED BY <2>1 DEF MarkBasics
<1>5. TriColor'
  <2>1. TriFields'
    <3> SUFFICES ASSUME NEW p \in alloc \ tmudata', color'[p] = "black", NEW c \in Fields(p)'
                 PROVE  ~ White(c)'
      BY <1>0 DEF TriFields, AllMarked, Black
    <3>1. c \in Fields(p) /\ p \in alloc \ tmudata
      BY <1>0 DEF Fields, KeyRefs, ValueRefs, Used
    <3>2. CASE p \in X
      BY <3>1, <3>2
    <3>3. CASE p \notin X
      BY <3>1, <3>3, MarkStepTri
    <3> QED BY <3>2, <3>3
  <2> QED BY <2>1, TriColorNext
<1> QED BY <1>2, <1>3, <1>4, <1>5

\* propagatemark keeps the invariant, in each of the stages it runs in.
LEMMA PropagateStep ==
  ASSUME TypeOK, FinalInv, SafeInv, TypeOK', NEW o \in Obj, Propagate(o)
  PROVE  SafeInv'
<1> DEFINE S == Children(o)
           M == MarkSet(S)
           stays == o \in Threads \cup KeyWeak \cup ValueWeak
<1>0. /\ gcstate \in Marking /\ o \in gray
      /\ color' = [Painted(M) EXCEPT ![o] = IF stays THEN "gray" ELSE "black"]
      /\ gray' = (gray \ {o}) \cup Linked(M)
      /\ grayagain' = IF o \in Threads THEN grayagain \cup {o} ELSE grayagain
      /\ weak' = IF o \in KeyWeak \cup ValueWeak THEN weak \cup {o} ELSE weak
      /\ UNCHANGED <<heap, cw, gcstate, tmudata>>
      /\ alloc' = alloc
  BY DEF Propagate, finals, heap
<1>1. /\ alloc \subseteq Obj /\ Shapes /\ o \in alloc /\ color[o] = "gray"
      /\ o \in Tables \cup Funcs \cup Threads /\ o \notin Udatas \cup Upvals
      /\ gray \cap grayagain = {} /\ gray \cap weak = {} /\ grayagain \cap weak = {}
  BY <1>0, Disjoint DEF SafeInv, GrayLists, MarkBasics, TypeOK
<1>2. S \in SUBSET alloc /\ S \in SUBSET Obj
  BY <1>0, <1>1, InMarking DEF Access
<1>3. M \subseteq Obj /\ o \notin M
  BY <1>1, <1>2, MarkSetFacts DEF White, Whites
<1> HIDE DEF S, M
<1>4. /\ color'[o] = IF stays THEN "gray" ELSE "black"
      /\ \A p \in M : color'[p] = MarkedColor(p)
      /\ \A p \in Obj \ (M \cup {o}) : color'[p] = color[p]
  <2>1. M \in SUBSET Obj /\ Painted(M) \in [Obj -> Colors] /\ M \subseteq Obj \ {o}
    BY <1>3, PaintedType DEF TypeOK, Colors
  <2> QED BY <1>0, <2>1, PaintedFacts
<1>5. MarkStep(S, {o})
  BY <1>0, <1>1, <1>2, <1>3, <1>4 DEF MarkStep, M
<1>6. Kinds'
  <2>1. \A p \in Obj : \/ color'[p] = color[p]
                       \/ color'[p] = MarkedColor(p)
                       \/ color'[p] = "gray" /\ p \notin Udatas \cup Upvals
                       \/ color'[p] = "black" /\ p \in (Tables \cup Funcs \cup Udatas)
                                                        \ (KeyWeak \cup ValueWeak)
    BY <1>1, <1>4
  <2>2. owner' = owner
    BY <1>0 DEF heap
  <2> QED BY <2>1, <2>2, KindsStep DEF SafeInv
<1>7. \A c \in S : ~ White(c)'
  BY <1>5, MarkStepFacts
<1>8. /\ NoDangling' /\ OpenUpvals' /\ Fresh' /\ Shapes'
      /\ SweptWhite' /\ MarkBasics' /\ TriColor'
  <2>1. Linked(M) \subseteq Tables \cup Funcs \cup Threads
    BY DEF Linked
  <2>2. gray' \subseteq Tables \cup Funcs \cup Threads /\ grayagain' \subseteq Tables \cup Threads
    BY <1>0, <2>1 DEF SafeInv, MarkBasics
  <2>3. color'[o] = "black" => \A c \in Fields(o) : ~ White(c)'
    <3>1. color'[o] = "black" => Fields(o) = S
      BY <1>1, <1>4, Disjoint DEF Fields, S, Children
    <3> QED BY <1>7, <3>1
  <2>4. gcstate' \in Marking /\ tmudata \subseteq tmudata' /\ tmudata' \subseteq alloc /\ UNCHANGED heap
    BY <1>0 DEF FinalInv, CallsCounted
  <2> QED BY <1>5, <1>6, <2>2, <2>3, <2>4, MarkStepRest
<1>9. GrayLists'
  <2>1. /\ Linked(M) \cap (gray \cup grayagain \cup weak) = {}
        /\ \A p \in Linked(M) : p \in alloc /\ p \notin {o} /\ color'[p] = "gray"
        /\ \A p \in (gray \cup grayagain \cup weak) \ {o} : p \in alloc /\ color'[p] = "gray"
        /\ \A p \in (alloc \cap (Tables \cup Funcs \cup Threads)) \ {o} :
             color'[p] = "gray" => p \in gray \cup grayagain \cup weak \cup Linked(M)
    BY <1>5, MarkStepLists DEF M
  <2>2. o \in Threads => o \notin KeyWeak \cup ValueWeak
    BY WeakKinds
  <2>3. (gray \cap grayagain = {} /\ gray \cap weak = {} /\ grayagain \cap weak = {})'
    BY <1>0, <1>1, <2>1, <2>2
  <2>4. (\A p \in gray \cup grayagain \cup weak : p \in alloc /\ color[p] = "gray")'
    BY <1>0, <1>1, <1>4, <2>1
  <2>5. (\A p \in alloc \cap (Tables \cup Funcs \cup Threads) :
             color[p] = "gray" => p \in gray \cup grayagain \cup weak)'
    BY <1>0, <1>1, <1>4, <2>1
  <2> QED BY <2>3, <2>4, <2>5 DEF GrayLists
<1>10. Stages'
  <2>1. {o} \cap (Upvals \cup tmudata) = {}
    BY <1>1 DEF TypeOK
  <2>2. \A t \in weak' \ weak : \A c \in Children(t) : ~ White(c)'
    BY <1>0, <1>7 DEF S
  <2>3. \A th \in grayagain' \ grayagain : th \in Threads /\ \A c \in Children(th) : ~ White(c)'
    BY <1>0, <1>7 DEF S
  <2>4. weak' \cup grayagain' \subseteq Obj /\ UNCHANGED <<heap, gcstate, tmudata>>
    BY <1>0, Disjoint DEF TypeOK
  <2> QED BY <1>5, <2>1, <2>2, <2>3, <2>4, MarkStepStages
<1> QED BY <1>6, <1>8, <1>9, <1>10 DEF SafeInv

\* Lists of gray objects that a mark step of atomic() leaves, with gray empty
\* before it and its lists G, A and W together holding what was in a list.
LEMMA MarkStepGray ==
  ASSUME TypeOK, SafeInv, NEW S, NEW X \in SUBSET (Upvals \cup Udatas), MarkStep(S, X),
         alloc' = alloc, gray = {},
         NEW G, NEW A, NEW W, G \cup A \cup W = grayagain \cup weak,
         G \cap A = {}, G \cap W = {}, A \cap W = {},
         gray' = G \cup Linked(MarkSet(S)), grayagain' = A, weak' = W
  PROVE  GrayLists'
<1>1. /\ Linked(MarkSet(S)) \cap (gray \cup grayagain \cup weak) = {}
      /\ \A o \in Linked(MarkSet(S)) : o \in alloc /\ o \notin X /\ color'[o] = "gray"
      /\ \A o \in (gray \cup grayagain \cup weak) \ X : o \in alloc /\ color'[o] = "gray"
      /\ \A o \in (alloc \cap (Tables \cup Funcs \cup Threads)) \ X :
           color'[o] = "gray" => o \in gray \cup grayagain \cup weak \cup Linked(MarkSet(S))
  BY MarkStepLists
<1>2. \A o \in Tables \cup Funcs \cup Threads : o \notin X
  BY Disjoint
<1>3. grayagain \cup weak \subseteq Tables \cup Funcs \cup Threads
  BY DEF MarkStep, SafeInv, MarkBasics, TypeOK
<1> QED BY <1>1, <1>2, <1>3 DEF GrayLists

\* After remarkupvals what gray open upvalues hold is marked.
LEMMA RemarkUpvalsStep ==
  ASSUME TypeOK, FinalInv, SafeInv, TypeOK', RemarkUpvals PROVE SafeInv'
<1> DEFINE S == OpenValues
           M == MarkSet(S)
<1>0. /\ gcstate \in Marking /\ gcstate' \in Marking /\ gcstate' = "remark" /\ gray = {}
      /\ color' = Painted(M) /\ gray' = gray \cup Linked(M)
      /\ UNCHANGED <<heap, cw, grayagain, weak, tmudata>>
      /\ alloc' = alloc /\ UNCHANGED <<owner, ref, stack, level>>
  BY DEF RemarkUpvals, Mark, finals, heap, Marking, Atomic
<1>1. S \in SUBSET alloc /\ S \in SUBSET Obj
  <2>1. \A uv \in Upvals \cap alloc : UpValue(uv) \subseteq alloc
    BY <1>0, InMarking, AccessOfOthers
  <2> QED BY <2>1, InMarking, <1>0 DEF OpenValues
<1>2. M \subseteq Obj
  BY <1>1, MarkSetFacts DEF SafeInv
<1> HIDE DEF M, S
<1>3. MarkStep(S, {})
  BY <1>0, <1>1, <1>2, PaintedFacts DEF MarkStep, M
<1>4. Kinds'
  BY <1>0, <1>2, KindsStep, PaintedFacts DEF SafeInv
<1>5. /\ NoDangling' /\ OpenUpvals' /\ Fresh' /\ Shapes'
      /\ SweptWhite' /\ MarkBasics' /\ TriColor'
  <2>1. gray' \subseteq Tables \cup Funcs \cup Threads /\ grayagain' \subseteq Tables \cup Threads
    BY <1>0 DEF SafeInv, MarkBasics, Linked
  <2>2. tmudata \subseteq tmudata' /\ tmudata' \subseteq alloc /\ UNCHANGED heap
    BY <1>0 DEF FinalInv, CallsCounted
  <2> QED BY <1>0, <1>3, <1>4, <2>1, <2>2, MarkStepRest
<1>6. GrayLists'
  <2>1. grayagain \cap weak = {} /\ {} \in SUBSET (Upvals \cup Udatas)
    BY <1>0 DEF SafeInv, GrayLists
  <2>2. {} \cup grayagain \cup weak = grayagain \cup weak
        /\ {} \cap grayagain = {} /\ {} \cap weak = {}
        /\ gray' = {} \cup Linked(MarkSet(S)) /\ grayagain' = grayagain /\ weak' = weak
    BY <1>0 DEF M
  <2> QED BY <1>0, <1>3, <2>1, <2>2, MarkStepGray
<1>7. Stages'
  <2>1. ASSUME NEW uv \in Upvals \cap alloc, color'[uv] = "gray"
        PROVE  \A c \in UpValue(uv) : ~ White(c)'
    <3>1. color[uv] = "gray" => UpValue(uv) \subseteq S
      BY DEF S, OpenValues, SafeInv, Kinds
    <3>2. \A c \in S : ~ White(c)'
      BY <1>3, MarkStepFacts
    <3>3. color[uv] = "gray" => \A c \in UpValue(uv) : ~ White(c)'
      BY <3>1, <3>2
    <3> QED BY <1>3, <2>1, <3>3, MarkStepUpvals
  <2>2. \A uv : UpValue(uv)' = UpValue(uv)
    BY <1>0 DEF UpValue
  <2> QED BY <1>0, <2>1, <2>2 DEF Stages, AllMarked
<1> QED BY <1>4, <1>5, <1>6, <1>7 DEF SafeInv

\* After the second stage the roots without barrier are marked.
LEMMA RemarkWeakStep ==
  ASSUME TypeOK, FinalInv, SafeInv, TypeOK', RemarkWeak PROVE SafeInv'
<1> DEFINE S == UnbarrieredRoots
           M == MarkSet(S)
<1>0. /\ gcstate \in Atomic /\ gcstate \in Marking
      /\ gcstate' \in Marking /\ gcstate' = "remarkweak" /\ gray = {}
      /\ color' = Painted(M) /\ gray' = weak \cup Linked(M) /\ weak' = {}
      /\ UNCHANGED <<heap, cw, grayagain, tmudata>>
      /\ alloc' = alloc /\ UNCHANGED <<owner, ref, stack, level, run, mt>>
  BY DEF RemarkWeak, finals, heap, Marking, Atomic
<1>1. S \in SUBSET alloc /\ S \in SUBSET Obj
  BY <1>0, InMarking, HeapFacts DEF UnbarrieredRoots, Roots
<1>2. M \subseteq Obj
  BY <1>1, MarkSetFacts DEF SafeInv
<1> HIDE DEF M, S
<1>3. MarkStep(S, {})
  BY <1>0, <1>1, <1>2, PaintedFacts DEF MarkStep, M
<1>4. Kinds'
  BY <1>0, <1>2, KindsStep, PaintedFacts DEF SafeInv
<1>5. /\ NoDangling' /\ OpenUpvals' /\ Fresh' /\ Shapes'
      /\ SweptWhite' /\ MarkBasics' /\ TriColor'
  <2>1. gray' \subseteq Tables \cup Funcs \cup Threads /\ grayagain' \subseteq Tables \cup Threads
    BY <1>0 DEF SafeInv, MarkBasics, Linked, TypeOK
  <2>2. tmudata \subseteq tmudata' /\ tmudata' \subseteq alloc /\ UNCHANGED heap
    BY <1>0 DEF FinalInv, CallsCounted
  <2> QED BY <1>0, <1>3, <1>4, <2>1, <2>2, MarkStepRest
<1>6. GrayLists'
  <2>1. grayagain \cap weak = {} /\ {} \in SUBSET (Upvals \cup Udatas)
    BY <1>0 DEF SafeInv, GrayLists
  <2>2. /\ weak \cup grayagain \cup {} = grayagain \cup weak
        /\ weak \cap grayagain = {} /\ weak \cap {} = {} /\ grayagain \cap {} = {}
        /\ gray' = weak \cup Linked(MarkSet(S)) /\ grayagain' = grayagain /\ weak' = {}
    BY <1>0, <2>1 DEF M
  <2> QED BY <1>0, <1>3, <2>1, <2>2, MarkStepGray
<1>7. Stages'
  <2>1. ASSUME NEW uv \in Upvals \cap alloc, color'[uv] = "gray"
        PROVE  \A c \in UpValue(uv) : ~ White(c)'
    <3>1. color[uv] = "gray" => AllMarked(UpValue(uv)) /\ UpValue(uv) \in SUBSET Obj
      BY <1>0, UpValueType DEF SafeInv, Stages
    <3>2. color[uv] = "gray" => \A c \in UpValue(uv) : ~ White(c)'
      BY <1>3, <3>1, MarkStepKeeps
    <3> QED BY <1>3, <2>1, <3>2, MarkStepUpvals
  <2>2. \A uv : UpValue(uv)' = UpValue(uv)
    BY <1>0 DEF UpValue
  <2>3. (\A c \in UnbarrieredRoots : ~ White(c))'
    <3>1. \A c \in S : ~ White(c)'
      BY <1>3, MarkStepFacts
    <3> QED BY <1>0, <3>1 DEF S, UnbarrieredRoots
  <2> QED BY <1>0, <2>1, <2>2, <2>3 DEF Stages, AllMarked
<1> QED BY <1>4, <1>5, <1>6, <1>7 DEF SafeInv

\* The third stage takes the list of objects to traverse again.
LEMMA RemarkAgainStep ==
  ASSUME TypeOK, FinalInv, SafeInv, TypeOK', RemarkAgain PROVE SafeInv'
<1>0. /\ gcstate \in Atomic \ {"remark"} /\ gcstate \in Marking
      /\ gcstate' \in Marking /\ gcstate' = "remarkagain" /\ gray = {}
      /\ gray' = grayagain /\ grayagain' = {}
      /\ UNCHANGED <<heap, color, cw, weak, unswept, tmudata>>
      /\ UNCHANGED <<alloc, ref, entry, stack, owner, level, mt, run>>
  BY DEF RemarkAgain, finals, marks, heap, Marking, Atomic
<1>1. Survivors = alloc /\ Survivors' = Survivors
  BY <1>0, InMarking DEF Survivors, Marking, Atomic, Sweeping
<1>2. Kinds'
  BY <1>0, KindsStep DEF SafeInv
<1>3. NoDangling' /\ OpenUpvals' /\ Fresh' /\ Shapes'
  <2>1. tmudata' \subseteq Survivors
    BY <1>0, <1>1 DEF FinalInv, CallsCounted
  <2> QED BY <1>0, <1>1, <1>2, <2>1, HeapKept
<1>4. SweptWhite'
  BY <1>0 DEF SweptWhite
<1>5. MarkBasics'
  BY <1>0 DEF SafeInv, MarkBasics, IsDead, White
<1>6. TriColor'
  <2>1. TriFields
    BY TriColorFields DEF SafeInv
  <2>2. \A o : Fields(o)' = Fields(o)
    BY <1>0 DEF Fields, KeyRefs, ValueRefs, Used
  <2>3. TriFields'
    BY <1>0, <2>1, <2>2 DEF TriFields, AllMarked, Black, White
  <2> QED BY <1>2, <2>3, TriColorNext
<1>7. GrayLists'
  BY <1>0 DEF SafeInv, GrayLists
<1>8. Stages'
  <2>1. /\ \A o : Children(o)' = Children(o)
        /\ \A uv : UpValue(uv)' = UpValue(uv)
        /\ UnbarrieredRoots' = UnbarrieredRoots
    BY <1>0 DEF Children, UpValue, StackRefs, KeyRefs, ValueRefs, Used, UnbarrieredRoots
  <2> QED BY <1>0, <2>1 DEF SafeInv, Stages, AllMarked, White
<1> QED BY <1>2, <1>3, <1>4, <1>5, <1>6, <1>7, <1>8 DEF SafeInv

\* After luaC_separateudata and marktmu userdata to finalize is marked.
LEMMA SeparateUdataStep ==
  ASSUME TypeOK, FinalInv, SafeInv, TypeOK', SeparateUdata PROVE SafeInv'
<1> DEFINE S == UNION {ref[u] : u \in Separated}
           M == MarkSet(S)
<1>0. /\ gcstate \in Atomic \ {"remark"} /\ gcstate = "remarkagain" /\ gcstate \in Marking
      /\ gcstate' \in Marking /\ gcstate' = "separated" /\ gray = {}
      /\ color' = [o \in Obj |-> IF o \in Separated THEN "black" ELSE Painted(M)[o]]
      /\ gray' = Linked(M) /\ tmudata' = Separated
      /\ UNCHANGED <<heap, cw, grayagain, weak>>
      /\ UNCHANGED <<alloc, ref, entry, stack, owner, level, mt, run>>
  BY DEF SeparateUdata, Preserved, heap, Marking, Atomic
<1>1. Separated \subseteq Udatas \cap alloc /\ tmudata \subseteq Separated /\ Separated \subseteq Obj
  BY Disjoint DEF Separated, Unreached, FinalInv, CallsCounted, TypeOK
<1>2. S \in SUBSET alloc /\ S \in SUBSET Obj /\ S \subseteq Tables
  <2>1. \A u \in Separated : ref[u] \subseteq alloc /\ ref[u] \subseteq Tables
    BY <1>0, <1>1, InMarking, AccessOfOthers DEF SafeInv, Shapes
  <2> QED BY <2>1, Disjoint
<1>3. M \subseteq Obj \ Separated
  <2>1. M \subseteq Obj
    BY <1>2, MarkSetFacts DEF SafeInv
  <2>2. M \subseteq Tables
    <3>1. \A o \in S : o \notin Udatas \cup Upvals
      BY <1>2, Disjoint
    <3>2. MarkSet(S) \subseteq S
      BY <3>1 DEF MarkSet
    <3> QED BY <1>2, <3>2
  <2> QED BY <1>1, <2>1, <2>2, Disjoint
<1> HIDE DEF M, S
<1>4. /\ \A o \in Separated : color'[o] = "black"
      /\ \A o \in M : color'[o] = MarkedColor(o)
      /\ \A o \in Obj \ (M \cup Separated) : color'[o] = color[o]
  BY <1>0, <1>1, <1>3, PaintedFacts
<1>5. MarkStep(S, Separated)
  BY <1>0, <1>1, <1>2, <1>3, <1>4 DEF MarkStep, M
<1>6. Kinds'
  <2>1. \A p \in Obj : \/ color'[p] = color[p]
                       \/ color'[p] = MarkedColor(p)
                       \/ color'[p] = "black" /\ p \in (Tables \cup Funcs \cup Udatas)
                                                        \ (KeyWeak \cup ValueWeak)
    BY <1>1, <1>4, WeakKinds
  <2> QED BY <1>0, <2>1, KindsStep DEF SafeInv
<1>7. /\ NoDangling' /\ OpenUpvals' /\ Fresh' /\ Shapes'
      /\ SweptWhite' /\ MarkBasics' /\ TriColor'
  <2>1. gray' \subseteq Tables \cup Funcs \cup Threads /\ grayagain' \subseteq Tables \cup Threads
    BY <1>0 DEF SafeInv, MarkBasics, Linked
  <2>2. tmudata \subseteq tmudata' /\ tmudata' \subseteq alloc /\ Separated \ tmudata' = {} /\ UNCHANGED heap
    BY <1>0, <1>1
  <2> QED BY <1>0, <1>5, <1>6, <2>1, <2>2, MarkStepRest
<1>8. GrayLists'
  <2>1. grayagain \cap weak = {} /\ Separated \in SUBSET (Upvals \cup Udatas)
    BY <1>0, <1>1 DEF SafeInv, GrayLists
  <2>2. /\ {} \cup grayagain \cup weak = grayagain \cup weak
        /\ {} \cap grayagain = {} /\ {} \cap weak = {}
        /\ gray' = {} \cup Linked(MarkSet(S)) /\ grayagain' = grayagain /\ weak' = weak
    BY <1>0 DEF M
  <2> QED BY <1>0, <1>5, <2>1, <2>2, MarkStepGray
<1>9. Stages'
  <2>0. /\ \A o : Children(o)' = Children(o)
        /\ \A uv : UpValue(uv)' = UpValue(uv)
        /\ UnbarrieredRoots' = UnbarrieredRoots
    BY <1>0 DEF Children, UpValue, StackRefs, KeyRefs, ValueRefs, Used, UnbarrieredRoots
  <2>a. /\ \A o \in Obj : Children(o) \in SUBSET Obj
        /\ \A uv \in Upvals : UpValue(uv) \in SUBSET Obj
        /\ UnbarrieredRoots \in SUBSET Obj
        /\ weak \subseteq Obj /\ grayagain \subseteq Obj
    BY AccessType, UpValueType, Disjoint DEF Access, UnbarrieredRoots, TypeOK
  <2>1. ASSUME NEW uv \in Upvals \cap alloc, color'[uv] = "gray"
        PROVE  \A c \in UpValue(uv) : ~ White(c)'
    <3>1. color[uv] = "gray" => AllMarked(UpValue(uv))
      BY <1>0 DEF SafeInv, Stages
    <3>2. color[uv] = "gray" => \A c \in UpValue(uv) : ~ White(c)'
      BY <1>5, <2>a, <3>1, MarkStepKeeps
    <3>3. uv \notin Separated
      BY <1>1, Disjoint
    <3> QED BY <1>5, <2>1, <3>2, <3>3, MarkStepUpvals
  <2>2. \A c \in UnbarrieredRoots : ~ White(c)'
    <3>1. AllMarked(UnbarrieredRoots)
      BY <1>0 DEF SafeInv, Stages
    <3> QED BY <1>5, <2>a, <3>1, MarkStepKeeps
  <2>3. ASSUME NEW o \in weak \cup grayagain PROVE \A c \in Children(o) : ~ White(c)'
    <3>1. AllMarked(Children(o))
      BY <1>0, <2>3 DEF SafeInv, Stages
    <3> QED BY <1>5, <2>a, <3>1, MarkStepKeeps
  <2>4. \A th \in grayagain : th \in Threads
    BY <1>0 DEF SafeInv, Stages
  <2>5. \A u \in Separated : color'[u] = "black" /\ \A c \in ref[u] : ~ White(c)'
    <3>1. \A c \in S : ~ White(c)'
      BY <1>5, MarkStepFacts
    <3> QED BY <1>4, <3>1 DEF S
  <2> QED BY <1>0, <2>0, <2>1, <2>2, <2>3, <2>4, <2>5 DEF Stages, AllMarked, Black
<1> QED BY <1>6, <1>7, <1>8, <1>9 DEF SafeInv

-----------------------------------------------------------------------------
(* The end of atomic(): what is marked refers to nothing but marked objects, *)
(* the weak entries apart that cleartable removes.                           *)

\* What a marked object holds strongly is marked.
LEMMA MarkedClosed ==
  ASSUME TypeOK, SafeInv, gcstate = "separated", gray = {}, NEW o \in alloc, ~ White(o)
  PROVE  /\ AllMarked(ref[o])
         /\ o \in Tables /\ o \notin weak => AllMarked(KeyRefs(o) \cup ValueRefs(o))
         /\ o \in Threads => AllMarked(StackRefs(o))
         /\ o \in Upvals => AllMarked(UpValue(o))
<1>0. /\ gcstate \in Marking /\ gcstate \in Atomic /\ gcstate # "remark"
      /\ o \in Obj /\ color[o] \in {"gray", "black"}
      /\ Shapes /\ Kinds /\ GrayLists /\ Stages
  BY DEF Marking, Atomic, White, TypeOK, SafeInv
<1>1. CASE Black(o)
  <2>0. o \notin Threads /\ (o \in Upvals => UpValue(o) = ref[o])
    BY <1>0, <1>1 DEF Kinds, UpValue
  <2>1. CASE o \in tmudata
    <3>1. o \in Udatas /\ AllMarked(ref[o])
      BY <1>0, <2>1 DEF Stages, TypeOK
    <3> QED BY <3>1, Disjoint
  <2>2. CASE o \notin tmudata
    <3>1. AllMarked(Fields(o))
      BY <1>0, <1>1, <2>2, TriColorFields DEF SafeInv, TriFields
    <3> QED BY <2>0, <3>1 DEF Fields, AllMarked
  <2> QED BY <2>1, <2>2
<1>2. CASE color[o] = "gray"
  <2>1. CASE o \in Tables
    <3>1. o \in weak
      BY <1>0, <1>2, <2>1, Disjoint DEF GrayLists, Stages
    <3>2. AllMarked(Children(o)) /\ ref[o] \subseteq Children(o)
      BY <1>0, <2>1, <3>1 DEF Stages, Children
    <3> QED BY <2>1, <3>1, <3>2, Disjoint DEF AllMarked
  <2>2. CASE o \in Threads
    <3>1. o \in grayagain
      BY <1>0, <1>2, <2>2, Disjoint DEF GrayLists, TypeOK
    <3>2. AllMarked(Children(o)) /\ Children(o) = StackRefs(o) /\ ref[o] = {}
      BY <1>0, <2>2, <3>1, Disjoint DEF Stages, Children, Shapes
    <3> QED BY <2>2, <3>2, Disjoint DEF AllMarked
  <2>3. CASE o \in Upvals
    <3>1. AllMarked(UpValue(o)) /\ ref[o] = {}
      BY <1>0, <1>2, <2>3 DEF Stages, Kinds, Shapes
    <3> QED BY <2>3, <3>1, Disjoint DEF AllMarked
  <2>4. CASE o \in Strings
    BY <1>0, <2>4, Disjoint DEF Shapes, AllMarked
  <2>5. o \notin Funcs
    BY <1>0, <1>2, Disjoint DEF GrayLists, Stages, TypeOK
  <2>6. o \notin Udatas
    BY <1>0, <1>2 DEF Kinds
  <2> QED BY <1>0, <2>1, <2>2, <2>3, <2>4, <2>5, <2>6, Disjoint
<1> QED BY <1>0, <1>1, <1>2 DEF Black

\* The objects a flip keeps.
LEMMA FlipSurvivors ==
  ASSUME TypeOK, SafeInv, Flip
  PROVE  /\ StringsOfWeak \subseteq alloc
         /\ Survivors' = {o \in alloc : o \in Fixed \/ ~ White(o) \/ o \in StringsOfWeak}
<1>0. /\ gcstate \in Marking /\ gcstate' \in Sweeping /\ cw' = Other(cw) /\ alloc' = alloc
      /\ \A o \in Obj : color'[o] = IF o \in StringsOfWeak /\ White(o) THEN "gray" ELSE color[o]
  BY DEF Flip, Marking, Atomic, Sweeping
<1>1. StringsOfWeak \subseteq alloc
  <2>1. ASSUME NEW t \in weak PROVE KeyRefs(t) \cup (ValueRefs(t) \cap Strings) \subseteq alloc
    <3>1. t \in alloc /\ t \in Tables
      BY <1>0 DEF SafeInv, GrayLists, TypeOK
    <3> QED BY <1>0, <3>1, InMarking, AccessOfTable
  <2>2. ASSUME NEW t \in weak, NEW j \in Used(t), entry[t][j] \in Strings
        PROVE  entry[t][j] \in ValueRefs(t)
    BY <2>2, Disjoint DEF ValueRefs
  <2> QED BY <2>1, <2>2 DEF StringsOfWeak
<1>2. ASSUME NEW o \in alloc PROVE IsDead(o)' <=> White(o) /\ o \notin StringsOfWeak
  <2>1. o \in Obj /\ (White(o) <=> color[o] = cw) /\ cw # "gray" /\ Other(cw') = cw
    BY <1>0, InMarking, TwoWhites DEF Whites
  <2> QED BY <1>0, <2>1 DEF IsDead
<1> QED BY <1>0, <1>1, <1>2 DEF Survivors

\* What cleartable leaves in a marked table is marked, or a string it marks.
LEMMA FlipEntries ==
  ASSUME TypeOK, SafeInv, Flip, NEW t \in alloc \cap Tables, ~ White(t),
         NEW k \in Keys, entry'[t][k] # Nil
  PROVE  {k, entry'[t][k]} \cap Obj \subseteq {c \in alloc : ~ White(c) \/ c \in StringsOfWeak}
<1>0. /\ gcstate = "separated" /\ gray = {} /\ gcstate \in Marking
      /\ entry'[t][k] = IF t \in weak /\ k \in Used(t) /\ ClearedEntry(t, k) THEN Nil ELSE entry[t][k]
  BY DEF Flip, Marking, Atomic
<1>1. k \in Used(t) /\ entry'[t][k] = entry[t][k] /\ (t \in weak => ~ ClearedEntry(t, k))
  BY <1>0 DEF Used
<1>2. /\ k \in Obj => k \in KeyRefs(t)
      /\ entry[t][k] \in Obj => entry[t][k] \in ValueRefs(t)
  BY <1>1 DEF KeyRefs, ValueRefs
<1>3. KeyRefs(t) \cup ValueRefs(t) \subseteq alloc
  BY <1>0, InMarking, AccessOfTable
<1>4. CASE t \notin weak
  BY <1>0, <1>1, <1>2, <1>3, <1>4, MarkedClosed DEF AllMarked
<1>5. CASE t \in weak
  <2>1. k \in Obj => ~ White(k) \/ k \in StringsOfWeak
    BY <1>1, <1>2, <1>5 DEF ClearedEntry, ClearedKey, StringsOfWeak
  <2>2. entry[t][k] \in Obj => ~ White(entry[t][k]) \/ entry[t][k] \in StringsOfWeak
    <3>1. ~ ClearedKey(k) /\ ~ ClearedValue(entry[t][k])
      BY <1>1, <1>5 DEF ClearedEntry
    <3>2. entry[t][k] \in Strings => entry[t][k] \in StringsOfWeak
      BY <1>1, <1>5, <3>1 DEF StringsOfWeak
    <3> QED BY <3>1, <3>2 DEF ClearedValue
  <2> QED BY <1>1, <1>2, <1>3, <2>1, <2>2
<1> QED BY <1>4, <1>5

\* What atomic() left marked is closed under every reference.
LEMMA FlipClosed ==
  ASSUME TypeOK, FinalInv, SafeInv, Flip
  PROVE  (Roots \subseteq Survivors)' /\ HeapClosed(Survivors)'
<1>0. /\ gcstate = "separated" /\ gray = {} /\ gcstate \in Marking /\ gcstate \in Atomic \ {"remark"}
      /\ UNCHANGED <<alloc, ref, stack, owner, level, mt, run, tmudata>>
  BY DEF Flip, Marking, Atomic, finals
<1>1. Survivors' = {o \in alloc : o \in Fixed \/ ~ White(o) \/ o \in StringsOfWeak}
  BY FlipSurvivors
<1>2. /\ Survivors = alloc /\ MainThread \in alloc /\ Registry \in alloc
      /\ \A o \in alloc : Access(o) \subseteq alloc
      /\ Roots \subseteq alloc /\ alloc \subseteq Obj
      /\ ~ White(MainThread) /\ ~ White(Registry)
      /\ Shapes /\ Stages
  BY <1>0, InMarking, HeapFacts DEF SafeInv, MarkBasics
<1>3. ASSUME NEW o \in Survivors', White(o) PROVE o \in Strings
  BY <1>1, <1>2, <1>3, ConstantAssumption DEF Fixed, StringsOfWeak
<1>4. (Roots \subseteq Survivors)'
  <2>1. \A c \in {run} \cup ({mt} \cap Obj) : ~ White(c)
    BY <1>0, <1>2 DEF Stages, AllMarked, UnbarrieredRoots
  <2>2. \A u \in tmudata : ~ White(u)
    BY <1>0, <1>2 DEF Stages, Black, White, Whites
  <2>3. FixedStrings \subseteq Fixed
    BY DEF Fixed
  <2>4. \A c \in Roots : c \in Fixed \/ ~ White(c)
    BY <1>2, <2>1, <2>2, <2>3 DEF Roots
  <2>5. Roots' = Roots
    BY <1>0 DEF Roots
  <2> QED BY <1>1, <1>2, <2>4, <2>5
<1>5. (\A o \in Survivors : ref[o] \subseteq Survivors)'
  <2> SUFFICES ASSUME NEW o \in Survivors' PROVE ref[o] \subseteq Survivors'
    BY <1>0
  <2>1. CASE White(o)
    BY <1>2, <1>3, <2>1 DEF Shapes
  <2>2. CASE ~ White(o)
    <3>1. o \in alloc /\ AllMarked(ref[o])
      BY <1>0, <1>1, <2>2, MarkedClosed
    <3>2. ref[o] \subseteq alloc
      BY <1>0, <3>1, InMarking, HeapFacts DEF HeapClosed
    <3> QED BY <1>1, <3>1, <3>2 DEF AllMarked
  <2> QED BY <2>1, <2>2
<1>6. ASSUME NEW t \in Survivors' \cap Tables, NEW k \in Keys, entry'[t][k] # Nil
      PROVE  {k, entry'[t][k]} \cap Obj \subseteq Survivors'
  <2>1. t \in alloc \cap Tables /\ ~ White(t)
    BY <1>1, <1>3, Disjoint
  <2> QED BY <1>1, <1>6, <2>1, FlipEntries
<1>7. (\A th \in Survivors \cap Threads, s \in Slots :
          stack[th][s] \in Obj => stack[th][s] \in Survivors)'
  <2> SUFFICES ASSUME NEW th \in Survivors' \cap Threads, NEW s \in Slots, stack[th][s] \in Obj
               PROVE  stack[th][s] \in Survivors'
    BY <1>0
  <2>1. th \in alloc /\ ~ White(th)
    BY <1>1, <1>3, Disjoint
  <2>2. stack[th][s] \in StackRefs(th)
    BY DEF StackRefs
  <2>3. AllMarked(StackRefs(th)) /\ StackRefs(th) \subseteq alloc
    BY <1>0, <1>2, <2>1, MarkedClosed, AccessOfOthers
  <2> QED BY <1>1, <2>2, <2>3 DEF AllMarked
<1>8. (MainThread \in Survivors => run \in Survivors)'
  BY <1>4 DEF Roots
<1>9. (\A uv \in Survivors \cap Upvals : owner[uv] # Nil =>
          {stack[owner[uv]][level[uv]]} \cap Obj \subseteq Survivors)'
  <2> SUFFICES ASSUME NEW uv \in Survivors' \cap Upvals, owner[uv] # Nil
               PROVE  {stack[owner[uv]][level[uv]]} \cap Obj \subseteq Survivors'
    BY <1>0
  <2>1. uv \in alloc /\ ~ White(uv)
    BY <1>1, <1>3, Disjoint
  <2>2. AllMarked(UpValue(uv)) /\ UpValue(uv) \subseteq alloc
    BY <1>0, <1>2, <2>1, MarkedClosed, AccessOfOthers
  <2>3. UpValue(uv) = {stack[owner[uv]][level[uv]]} \cap Obj
    BY DEF UpValue
  <2> QED BY <1>1, <2>2, <2>3 DEF AllMarked
<1> QED BY <1>4, <1>5, <1>6, <1>7, <1>8, <1>9 DEF HeapClosed

\* A sweep starts with everything in front of it.
LEMMA SweepStarts ==
  ASSUME TypeOK, OpenUpvals, NEW o \in alloc \ tmudata,
         unswept' = (alloc \ tmudata) \ {uv \in Upvals : owner[uv] # Nil},
         owner' = owner
  PROVE  Pending(o)'
<1>1. CASE o \in Upvals /\ owner[o] # Nil
  <2>1. owner[o] \in alloc /\ owner[o] \in Threads
    BY <1>1 DEF OpenUpvals, TypeOK
  <2>2. owner[o] \notin Upvals \cup tmudata
    BY <2>1, Disjoint DEF TypeOK
  <2> QED BY <1>1, <2>1, <2>2 DEF Pending
<1>2. CASE ~ (o \in Upvals /\ owner[o] # Nil)
  BY <1>2 DEF Pending
<1> QED BY <1>1, <1>2

\* The flip keeps the invariant: the sweep has everything in front of it.
LEMMA FlipStep ==
  ASSUME TypeOK, FinalInv, SafeInv, TypeOK', Flip PROVE SafeInv'
<1>0. /\ gcstate' = "sweepstring" /\ gcstate' \notin Marking /\ gcstate' \notin Atomic
      /\ UNCHANGED <<alloc, ref, stack, owner, level, mt, run, tmudata>>
      /\ unswept' = (alloc \ tmudata) \ {uv \in Upvals : owner[uv] # Nil}
      /\ \A o \in Obj : color'[o] = IF o \in StringsOfWeak /\ White(o) THEN "gray" ELSE color[o]
  BY DEF Flip, Marking, Atomic, finals
<1>1. Kinds'
  <2>1. \A o \in StringsOfWeak : o \notin Udatas \cup Upvals
    BY Disjoint DEF StringsOfWeak
  <2> QED BY <1>0, <2>1, KindsStep DEF SafeInv
<1>2. Shapes'
  BY <1>0 DEF SafeInv, Shapes
<1>3. NoDangling'
  BY <1>2, FlipClosed, NoDanglingNext
<1>4. OpenUpvals'
  BY <1>0, <1>1, OpenStep DEF SafeInv
<1>5. Fresh'
  <2>1. \A o \in Tables, k \in Keys : entry[o][k] = Nil => entry'[o][k] = Nil
    BY DEF Flip
  <2> QED BY <1>0, <2>1 DEF SafeInv, Fresh
<1>6. SweptWhite'
  <2>1. \A o \in alloc \ tmudata : Pending(o)'
    BY <1>0, SweepStarts DEF SafeInv
  <2> QED BY <1>0, <2>1 DEF SweptWhite
<1>7. MarkBasics' /\ TriColor' /\ GrayLists' /\ Stages'
  BY <1>0 DEF MarkBasics, TriColor, GrayLists, Stages
<1> QED BY <1>1, <1>2, <1>3, <1>4, <1>5, <1>6, <1>7 DEF SafeInv

-----------------------------------------------------------------------------
(* The ends of a cycle.                                                    *)

\* Outside of mark phases the lists and the stages promise nothing.
LEMMA UnmarkedSafe ==
  ASSUME gcstate' \notin Marking, NoDangling', OpenUpvals', Fresh', Shapes', Kinds', SweptWhite'
  PROVE  SafeInv'
BY DEF SafeInv, MarkBasics, TriColor, GrayLists, Stages, Marking, Atomic

\* luaC_fullgc abandons a mark phase: nothing is dead, all is to be swept.
LEMMA FullGCStep == ASSUME TypeOK, FinalInv, SafeInv, TypeOK', FullGC PROVE SafeInv'
<1>0. /\ gcstate \notin Atomic
      /\ UNCHANGED <<alloc, ref, entry, stack, owner, level, mt, run, color, cw, tmudata>>
      /\ tmudata \subseteq alloc /\ OpenUpvals
  BY DEF FullGC, Running, heap, marks, finals, FinalInv, CallsCounted, SafeInv
<1>1. Kinds'
  BY <1>0, KindsStep DEF SafeInv
<1>2. CASE gcstate \in {"pause", "propagate"}
  <2>1. /\ gcstate' = "sweepstring" /\ gcstate' \notin Marking /\ gcstate' \in Sweeping
        /\ gcstate \notin Sweeping
        /\ unswept' = (alloc \ tmudata) \ {uv \in Upvals : owner[uv] # Nil}
    BY <1>2 DEF FullGC, Marking, Atomic, Sweeping
  <2>2. \A o \in alloc : ~ IsDead(o)
    BY <2>1, DeadIsPending
  <2>3. Survivors' = Survivors
    BY <1>0, <2>1, <2>2 DEF Survivors, IsDead
  <2>4. NoDangling' /\ OpenUpvals' /\ Fresh' /\ Shapes'
    <3>1. tmudata' \subseteq Survivors
      BY <1>0, <2>1 DEF Survivors
    <3> QED BY <1>0, <1>1, <2>3, <3>1, HeapKept
  <2>5. SweptWhite'
    <3>1. \A o \in alloc \ tmudata : Pending(o)'
      BY <1>0, <2>1, SweepStarts
    <3> QED BY <1>0, <3>1 DEF SweptWhite
  <2> QED BY <1>1, <2>1, <2>4, <2>5, UnmarkedSafe
<1>3. CASE gcstate \notin {"pause", "propagate"}
  <2>1. /\ gcstate' = gcstate /\ unswept' = unswept /\ gcstate \notin Marking
    BY <1>0, <1>3 DEF FullGC, Marking
  <2>2. Survivors' = Survivors
    BY <1>0, <2>1 DEF Survivors, IsDead
  <2>3. NoDangling' /\ OpenUpvals' /\ Fresh' /\ Shapes'
    <3>1. tmudata' \subseteq Survivors
      BY <1>0, SafeHeap, HeapFacts DEF Roots
    <3> QED BY <1>0, <1>1, <2>2, <3>1, HeapKept
  <2>4. SweptWhite'
    BY <1>0, <2>1 DEF SafeInv, SweptWhite, Pending
  <2> QED BY <1>1, <2>1, <2>3, <2>4, UnmarkedSafe
<1> QED BY <1>2, <1>3

\* The end of a cycle keeps the invariant.
LEMMA EndCycleStep == ASSUME TypeOK, FinalInv, SafeInv, TypeOK', EndCycle PROVE SafeInv'
<1>0. /\ gcstate = "finalize" /\ gcstate' = "pause"
      /\ UNCHANGED <<alloc, ref, entry, stack, owner, level, mt, run, color, cw, unswept, tmudata>>
      /\ gcstate' \notin Marking /\ gcstate' \notin Sweeping
      /\ gcstate \notin Marking /\ gcstate \notin Sweeping
  BY DEF EndCycle, heap, marks, finals, Marking, Atomic, Sweeping
<1>1. Kinds'
  BY <1>0, KindsStep DEF SafeInv
<1>2. Survivors' = Survivors
  BY <1>0 DEF Survivors
<1>3. NoDangling' /\ OpenUpvals' /\ Fresh' /\ Shapes'
  <2>1. tmudata' \subseteq Survivors
    BY <1>0, SafeHeap, HeapFacts DEF Roots
  <2> QED BY <1>0, <1>1, <1>2, <2>1, HeapKept
<1>4. SweptWhite'
  BY <1>0 DEF SafeInv, SweptWhite, Pending
<1> QED BY <1>0, <1>1, <1>3, <1>4, UnmarkedSafe

\* GCTM keeps the invariant: the userdata turns white on the stack.
LEMMA CallFinalizerStep ==
  ASSUME TypeOK, FinalInv, SafeInv, TypeOK', NEW u \in Udatas, NEW s \in Temps,
         CallFinalizer(u, s)
  PROVE  SafeInv'
<1>0. /\ gcstate = "finalize" /\ gcstate' = "finalize" /\ u \in tmudata
      /\ gcstate \notin Marking /\ gcstate \notin Sweeping
      /\ UNCHANGED <<alloc, ref, entry, owner, level, mt, run, cw, unswept>>
      /\ tmudata' = tmudata \ {u}
      /\ stack' = [stack EXCEPT ![run][s] = u]
      /\ \A o \in Obj : color'[o] = IF o = u THEN cw ELSE color[o]
      /\ cw \in Whites /\ run \in Threads /\ s \in Slots /\ HeapSafe /\ alloc \subseteq Obj
  BY SafeHeap DEF CallFinalizer, Marking, Atomic, Sweeping, TypeOK, Temps
<1>1. Survivors' = Survivors /\ Survivors = alloc
  BY <1>0 DEF Survivors
<1>2. tmudata \subseteq alloc /\ unswept = {}
  BY <1>0, AllWhite DEF FinalInv, CallsCounted
<1>3. Kinds'
  BY <1>0, KindsStep DEF SafeInv
<1>4. Shapes'
  BY <1>0 DEF SafeInv, Shapes
<1>5. NoDangling'
  <2>1. u \in Survivors' /\ run' \in Survivors /\ tmudata' \subseteq Survivors
    BY <1>0, <1>1, <1>2, HeapFacts DEF Roots
  <2>2. {} \in SUBSET Strings /\ Survivors' = Survivors \cup {}
    BY <1>1
  <2>3. UNCHANGED <<ref, entry, owner, level, mt>> /\ run \in Threads /\ s \in Slots /\ HeapSafe
        /\ stack' = [stack EXCEPT ![run][s] = u]
    BY <1>0
  <2>4. (Roots \subseteq Survivors)' /\ HeapClosed(Survivors)'
    BY <2>1, <2>2, <2>3, StackWriteSafe
  <2> QED BY <1>4, <2>4, NoDanglingNext
<1>6. OpenUpvals'
  BY <1>0, <1>3, OpenStep DEF SafeInv
<1>7. Fresh'
  BY <1>0, FreshStep DEF SafeInv
<1>8. SweptWhite'
  <2>1. \A o \in alloc \ tmudata : color[o] = cw
    BY <1>0, AllWhite
  <2>2. \A o \in alloc \ tmudata' : color'[o] = cw
    BY <1>0, <2>1
  <2> QED BY <1>0, <2>2 DEF SweptWhite
<1> QED BY <1>0, <1>3, <1>4, <1>5, <1>6, <1>7, <1>8, UnmarkedSafe

-----------------------------------------------------------------------------
(* The sweep.                                                              *)

\* What SweepList does to each object.
Swept(S, swept, freed, orphans) ==
  /\ S \subseteq unswept
  /\ swept = S \cup {uv \in Upvals \cap alloc : owner[uv] \in S}
  /\ freed = {o \in swept \ Fixed : IsDead(o)}
  /\ orphans = {uv \in Upvals \cap alloc : owner[uv] \in freed \cap Threads /\ ~ IsDead(uv)}
  /\ gcstate \in Sweeping
  /\ gcstate' \in Sweeping \/ (gcstate' = "finalize" /\ S = unswept)
  /\ alloc' = alloc \ freed
  /\ unswept' = unswept \ (S \cup freed)
  /\ \A o \in Obj :
       /\ ref'[o] = IF o \in freed THEN {} ELSE IF o \in orphans THEN UpValue(o) ELSE ref[o]
       /\ color'[o] = IF o \in freed THEN Unused ELSE IF o \in swept THEN cw ELSE color[o]
  /\ \A t \in Tables : entry'[t] = IF t \in freed THEN [k \in Keys |-> Nil] ELSE entry[t]
  /\ \A th \in Threads \ freed : stack'[th] = stack[th]
  /\ \A uv \in Upvals : owner'[uv] = IF uv \in freed \cup orphans THEN Nil ELSE owner[uv]
  /\ UNCHANGED <<level, mt, run, cw, tmudata>>

\* Both sweep steps do what Swept says.
LEMMA SweepIsSwept ==
  ASSUME TypeOK, NEW S \in SUBSET unswept, SweepString(S) \/ Sweep(S)
  PROVE  \E swept, freed, orphans : Swept(S, swept, freed, orphans)
<1> DEFINE swept   == S \cup {uv \in Upvals \cap alloc : owner[uv] \in S}
           freed   == {o \in swept \ Fixed : IsDead(o)}
           orphans == Orphans(freed \cap Threads)
<1>1. SweepList(S) /\ UNCHANGED <<level, mt, run, cw, tmudata>>
  BY DEF SweepString, Sweep
<1>2. gcstate \in Sweeping /\ (gcstate' \in Sweeping \/ (gcstate' = "finalize" /\ S = unswept))
  BY DEF SweepString, Sweep, Sweeping
<1>3. /\ alloc' = alloc \ freed
      /\ unswept' = unswept \ (S \cup freed)
      /\ ref' = [o \in Obj |-> IF o \in freed THEN {}
                               ELSE IF o \in orphans THEN UpValue(o) ELSE ref[o]]
      /\ entry' = [t \in Tables |-> IF t \in freed THEN [k \in Keys |-> Nil] ELSE entry[t]]
      /\ stack' = [th \in Threads |-> IF th \in freed THEN [s \in Slots |-> Nil]
                                                      ELSE stack[th]]
      /\ owner' = [uv \in Upvals |-> IF uv \in freed \cup orphans THEN Nil ELSE owner[uv]]
      /\ color' = [o \in Obj |-> IF o \in freed THEN Unused
                                 ELSE IF o \in swept THEN cw ELSE color[o]]
  BY <1>1 DEF SweepList, Rewhite
<1>4. orphans = {uv \in Upvals \cap alloc : owner[uv] \in freed \cap Threads /\ ~ IsDead(uv)}
  BY DEF Orphans
<1> HIDE DEF swept, freed, orphans
<1>5. Swept(S, swept, freed, orphans)
  <2>1. swept = S \cup {uv \in Upvals \cap alloc : owner[uv] \in S}
        /\ freed = {o \in swept \ Fixed : IsDead(o)}
    BY DEF swept, freed
  <2> QED BY <1>1, <1>2, <1>3, <1>4, <2>1 DEF Swept
<1> QED BY <1>5

\* Whom a sweep frees, and that survivors stay the same.
LEMMA SweptFacts ==
  ASSUME TypeOK, FinalInv, SafeInv, NEW S, NEW swept, NEW freed, NEW orphans,
         Swept(S, swept, freed, orphans)
  PROVE  /\ \A o \in freed : o \in swept /\ o \notin Fixed /\ IsDead(o)
         /\ \A o \in swept : o \in Obj /\ (o \in freed \/ o \in Fixed \/ ~ IsDead(o))
         /\ \A o \in Obj \ Upvals : o \in swept <=> o \in S
         /\ \A uv \in Upvals \cap alloc : uv \in swept <=> uv \in S \/ owner[uv] \in S
         /\ \A uv \in orphans : uv \in Upvals \cap alloc /\ uv \in swept /\ uv \notin freed
                                /\ owner[uv] \in freed \cap Threads
         /\ \A uv \in (Upvals \cap alloc) \ (freed \cup orphans) : owner[uv] \notin freed
         /\ Survivors' = Survivors
         /\ \A o \in Survivors : o \in Obj /\ o \in alloc /\ o \notin freed
<1>0. S \subseteq Obj /\ alloc \subseteq Obj /\ Other(cw) # cw
  BY TwoWhites DEF TypeOK, Swept
<1>1. \A o \in freed : o \in swept /\ o \notin Fixed /\ IsDead(o)
  BY DEF Swept
<1>2. \A o \in swept : o \in Obj /\ (o \in freed \/ o \in Fixed \/ ~ IsDead(o))
  BY <1>0 DEF Swept
<1>3. \A o \in Obj \ Upvals : o \in swept <=> o \in S
  BY DEF Swept
<1>4. \A uv \in Upvals \cap alloc : uv \in swept <=> uv \in S \/ owner[uv] \in S
  BY DEF Swept
<1>5. ASSUME NEW uv \in orphans
      PROVE  uv \in Upvals \cap alloc /\ uv \in swept /\ uv \notin freed
             /\ owner[uv] \in freed \cap Threads
  <2>1. uv \in Upvals \cap alloc /\ owner[uv] \in freed \cap Threads /\ ~ IsDead(uv)
    BY DEF Swept
  <2>2. owner[uv] \in S
    BY <1>1, <1>3, <2>1, Disjoint
  <2> QED BY <1>1, <1>4, <2>1, <2>2
<1>6. ASSUME NEW uv \in Upvals \cap alloc, uv \notin freed \cup orphans, owner[uv] \in freed
      PROVE  FALSE
  <2>1. owner[uv] \in Threads
    BY <1>1, <1>2, <1>6, Disjoint DEF TypeOK
  <2>2. owner[uv] \in S
    BY <1>1, <1>3, <1>6, <2>1, Disjoint
  <2>3. uv \in swept /\ uv \notin Fixed
    BY <1>4, <2>2, Disjoint, ConstantAssumption DEF Fixed
  <2>4. IsDead(uv)
    BY <1>6, <2>1 DEF Swept
  <2> QED BY <1>2, <1>6, <2>3, <2>4
<1>7. \A o \in alloc \ freed : IsDead(o)' <=> IsDead(o) /\ o \notin swept
  BY <1>0 DEF Swept, IsDead
<1>8. Survivors' = Survivors
  <2>0. gcstate \in Sweeping /\ alloc' = alloc \ freed
    BY DEF Swept
  <2>1. CASE gcstate' \in Sweeping
    BY <1>1, <1>2, <1>7, <2>0, <2>1 DEF Survivors
  <2>2. CASE gcstate' \notin Sweeping
    <3>1. S = unswept
      BY <2>2 DEF Swept
    <3>2. ASSUME NEW o \in alloc \ freed, IsDead(o) PROVE o \in Fixed
      <4>1. Pending(o)
        BY <3>2, DeadIsPending
      <4>2. o \in swept
        BY <3>1, <4>1 DEF Pending, Swept
      <4> QED BY <1>2, <3>2, <4>2
    <3> QED BY <1>1, <2>0, <2>2, <3>2 DEF Survivors
  <2> QED BY <2>1, <2>2
<1>9. \A o \in Survivors : o \in Obj /\ o \in alloc /\ o \notin freed
  <2>1. gcstate \in Sweeping
    BY DEF Swept
  <2> QED BY <1>0, <1>1, <2>1 DEF Survivors
<1> QED BY <1>1, <1>2, <1>3, <1>4, <1>5, <1>6, <1>8, <1>9

\* Survivors refer to survivors after it, orphaned upvalues included.
LEMMA SweptClosed ==
  ASSUME TypeOK, FinalInv, SafeInv, NEW S, NEW swept, NEW freed, NEW orphans,
         Swept(S, swept, freed, orphans)
  PROVE  (Roots \subseteq Survivors)' /\ HeapClosed(Survivors)'
<1>1. /\ Survivors' = Survivors
      /\ \A o \in Survivors : o \in Obj /\ o \in alloc /\ o \notin freed
      /\ \A uv \in orphans : uv \in Upvals /\ owner[uv] \in freed
      /\ \A uv \in (Upvals \cap alloc) \ (freed \cup orphans) : owner[uv] \notin freed
  BY SweptFacts
<1>2. /\ Roots \subseteq Survivors /\ HeapClosed(Survivors)
      /\ \A o \in Survivors : Access(o) \subseteq Survivors
  BY SafeHeap, HeapFacts
<1>3. (Roots \subseteq Survivors)'
  BY <1>1, <1>2 DEF Swept, Roots
<1>4. ASSUME NEW o \in Survivors PROVE ref'[o] \subseteq Survivors
  <2>1. ref'[o] = IF o \in orphans THEN UpValue(o) ELSE ref[o]
    BY <1>1 DEF Swept
  <2>2. o \in orphans => UpValue(o) \subseteq Survivors
    BY <1>1, <1>2, AccessOfOthers
  <2> QED BY <1>2, <2>1, <2>2 DEF HeapClosed
<1>5. \A t \in Survivors \cap Tables : entry'[t] = entry[t]
  BY <1>1 DEF Swept
<1>6. \A th \in Survivors \cap Threads : stack'[th] = stack[th]
  BY <1>1 DEF Swept
<1>7. ASSUME NEW uv \in Survivors \cap Upvals, owner'[uv] # Nil
      PROVE  /\ owner[uv] # Nil
             /\ stack'[owner'[uv]][level'[uv]] = stack[owner[uv]][level[uv]]
  <2>1. uv \notin freed \cup orphans /\ owner'[uv] = owner[uv] /\ level' = level
    BY <1>1, <1>7 DEF Swept
  <2>2. owner[uv] \in Threads \ freed
    BY <1>1, <1>7, <2>1 DEF TypeOK
  <2> QED BY <1>7, <2>1, <2>2 DEF Swept
<1>8. HeapClosed(Survivors)'
  <2>1. (\A t \in Survivors \cap Tables, k \in Keys :
            entry[t][k] # Nil => {k, entry[t][k]} \cap Obj \subseteq Survivors)'
    BY <1>1, <1>2, <1>5 DEF HeapClosed
  <2>2. (\A th \in Survivors \cap Threads, s \in Slots :
            stack[th][s] \in Obj => stack[th][s] \in Survivors)'
    BY <1>1, <1>2, <1>6 DEF HeapClosed
  <2>3. (\A uv \in Survivors \cap Upvals : owner[uv] # Nil =>
            {stack[owner[uv]][level[uv]]} \cap Obj \subseteq Survivors)'
    BY <1>1, <1>2, <1>7 DEF HeapClosed
  <2>4. (MainThread \in Survivors => run \in Survivors)'
    BY <1>3 DEF Roots
  <2> QED BY <1>1, <1>4, <2>1, <2>2, <2>3, <2>4 DEF HeapClosed
<1> QED BY <1>3, <1>8

\* A sweep step keeps the invariant.
LEMMA SweptSafe ==
  ASSUME TypeOK, FinalInv, SafeInv, TypeOK', NEW S,
         NEW swept, NEW freed, NEW orphans, Swept(S, swept, freed, orphans)
  PROVE  SafeInv'
<1>0. /\ gcstate' \notin Marking /\ gcstate \notin Marking /\ alloc' = alloc \ freed
      /\ S \subseteq Obj /\ cw \in Whites /\ cw' = cw /\ UNCHANGED tmudata
  BY DEF Swept, Marking, Atomic, Sweeping, TypeOK
<1>1. /\ \A o \in freed : o \in swept /\ o \notin Fixed /\ IsDead(o)
      /\ \A o \in swept : o \in Obj
      /\ \A o \in Obj \ Upvals : o \in swept <=> o \in S
      /\ \A uv \in Upvals \cap alloc : uv \in swept <=> uv \in S \/ owner[uv] \in S
      /\ \A uv \in orphans : uv \in Upvals \cap alloc /\ uv \in swept /\ uv \notin freed
                             /\ owner[uv] \in freed \cap Threads
      /\ \A uv \in (Upvals \cap alloc) \ (freed \cup orphans) : owner[uv] \notin freed
  BY SweptFacts
<1>2. \A o \in Obj :
        color'[o] = IF o \in freed THEN Unused ELSE IF o \in swept THEN cw ELSE color[o]
  BY DEF Swept
<1>3. \A uv \in Upvals : /\ uv \in Obj
                         /\ owner'[uv] = IF uv \in freed \cup orphans THEN Nil ELSE owner[uv]
  BY Disjoint DEF Swept
<1>4. Kinds'
  <2>1. \A o \in Obj : (color'[o] = color[o] /\ o \notin swept) \/ color'[o] \in Whites
    BY <1>0, <1>1, <1>2 DEF Unused, Whites
  <2>2. ASSUME NEW o \in Threads \cup Strings \cup KeyWeak \cup ValueWeak PROVE color'[o] # "black"
    <3>1. color[o] # "black" /\ o \in Obj
      BY WeakKinds, Disjoint DEF SafeInv, Kinds, Black
    <3> QED BY <2>1, <3>1 DEF Whites
  <2>3. \A u \in Udatas : color'[u] # "gray"
    BY <2>1, Disjoint DEF SafeInv, Kinds, Whites
  <2>4. ASSUME NEW uv \in Upvals
        PROVE  /\ color'[uv] = "black" => owner'[uv] = Nil
               /\ color'[uv] = "gray" => owner'[uv] # Nil
    <3>1. CASE color'[uv] \in Whites
      BY <3>1 DEF Whites
    <3>2. CASE color'[uv] = color[uv] /\ uv \notin swept
      <4>1. uv \notin freed \cup orphans
        BY <1>1, <3>2
      <4> QED BY <1>3, <3>2, <4>1 DEF SafeInv, Kinds, Black
    <3> QED BY <1>3, <2>1, <3>1, <3>2
  <2> QED BY <2>2, <2>3, <2>4 DEF Kinds, Black
<1>5. Shapes'
  <2>1. \A o \in Obj : ref'[o] = IF o \in freed THEN {} ELSE IF o \in orphans THEN UpValue(o) ELSE ref[o]
    BY DEF Swept
  <2>2. \A u \in Udatas : ref'[u] \subseteq Tables
    BY <1>1, <2>1, Disjoint DEF SafeInv, Shapes
  <2>3. \A o \in Threads \cup Strings : ref'[o] = {}
    BY <1>1, <2>1, Disjoint DEF SafeInv, Shapes
  <2>4. ASSUME NEW uv \in Upvals PROVE ref'[uv] \cap Upvals = {} /\ (owner'[uv] # Nil => ref'[uv] = {})
    <3>1. CASE uv \in freed
      BY <1>3, <2>1, <3>1
    <3>2. CASE uv \in orphans
      <4>1. owner[uv] \in Threads /\ uv \notin freed /\ owner[uv] # Nil /\ level[uv] \in Slots
        BY <1>1, <3>2, Disjoint DEF TypeOK
      <4>2. stack[owner[uv]][level[uv]] \in Value
        BY <4>1 DEF TypeOK
      <4>3. stack[owner[uv]][level[uv]] \notin Upvals
        BY <4>2, Disjoint DEF Value
      <4> QED BY <1>3, <2>1, <3>2, <4>1, <4>3 DEF UpValue
    <3>3. CASE uv \notin freed \cup orphans
      BY <1>3, <2>1, <3>3 DEF SafeInv, Shapes
    <3> QED BY <3>1, <3>2, <3>3
  <2> QED BY <2>2, <2>3, <2>4 DEF Shapes
<1>6. NoDangling'
  BY <1>5, SweptClosed, NoDanglingNext
<1>7. OpenUpvals'
  <2>1. ASSUME NEW uv \in Upvals \cap alloc'
        PROVE  \/ owner'[uv] = Nil
               \/ /\ uv \in alloc /\ owner'[uv] = owner[uv] /\ level'[uv] = level[uv]
                  /\ owner[uv] \in alloc => owner[uv] \in alloc'
    BY <1>0, <1>1, <1>3 DEF Swept
  <2> QED BY <1>4, <2>1, OpenStep DEF SafeInv
<1>8. Fresh'
  <2> SUFFICES ASSUME NEW o \in Obj \ alloc'
               PROVE  /\ ref'[o] = {}
                      /\ o \in Tables => \A k \in Keys : entry'[o][k] = Nil
                      /\ o \in Upvals => owner'[o] = Nil
    BY DEF Fresh
  <2>1. CASE o \in freed
    BY <2>1 DEF Swept
  <2>2. CASE o \notin freed
    <3>1. o \notin alloc /\ o \notin orphans
      BY <1>0, <1>1, <2>2
    <3> QED BY <2>2, <3>1 DEF Swept, SafeInv, Fresh
  <2> QED BY <2>1, <2>2
<1>9. SweptWhite'
  <2> SUFFICES ASSUME NEW o \in alloc' \ tmudata PROVE Pending(o)' \/ color'[o] = cw
    BY <1>0 DEF SweptWhite
  <2>0. /\ o \in Obj /\ o \in alloc /\ o \notin freed
        /\ color'[o] = IF o \in swept THEN cw ELSE color[o]
        /\ unswept' = unswept \ (S \cup freed)
        /\ unswept \subseteq Obj
    BY <1>0, <1>2 DEF Swept, TypeOK
  <2>1. CASE color[o] = cw
    BY <2>0, <2>1
  <2>2. CASE o \in unswept
    <3>1. o \in S => o \in swept
      BY DEF Swept
    <3> QED BY <2>0, <2>2, <3>1 DEF Pending
  <2>3. CASE o \in Upvals /\ owner[o] \in unswept
    <3>1. owner[o] \in Threads
      BY <2>0, <2>3, Disjoint DEF TypeOK
    <3>2. CASE owner[o] \in S
      BY <1>1, <2>0, <2>3, <3>2
    <3>3. CASE owner[o] \notin S
      <4>1. owner[o] \notin freed
        BY <1>1, <3>1, <3>3, Disjoint
      <4>2. owner'[o] = owner[o]
        BY <1>1, <1>3, <2>0, <2>3, <4>1
      <4> QED BY <2>0, <2>3, <3>3, <4>1, <4>2 DEF Pending
    <3> QED BY <3>2, <3>3
  <2>4. Pending(o) \/ color[o] = cw
    BY <1>0, <2>0 DEF SafeInv, SweptWhite
  <2> QED BY <2>1, <2>2, <2>3, <2>4 DEF Pending
<1> QED BY <1>0, <1>4, <1>5, <1>6, <1>7, <1>8, <1>9, UnmarkedSafe

\* Every step of the collector keeps the invariant.
LEMMA CollectorSafe ==
  ASSUME TypeOK, FinalInv, SafeInv, TypeOK', Collector PROVE SafeInv'
<1>1. CASE MarkRoot
  <2>1. gcstate = "pause" /\ MarkRootSet /\ UNCHANGED <<heap, cw, unswept, finals>>
    BY <1>1 DEF MarkRoot
  <2> QED BY <2>1, MarkRootStep
<1>2. CASE FullMark
  <2>1. gcstate = "finalize" /\ MarkRootSet /\ UNCHANGED <<heap, cw, unswept, finals>>
    BY <1>2 DEF FullMark
  <2> QED BY <2>1, MarkRootStep
<1>3. ASSUME NEW S \in SUBSET unswept, SweepString(S) \/ Sweep(S) PROVE SafeInv'
  <2>1. PICK swept, freed, orphans : Swept(S, swept, freed, orphans)
    BY <1>3, SweepIsSwept
  <2> QED BY <2>1, SweptSafe
<1> QED BY <1>1, <1>2, <1>3, PropagateStep, RemarkUpvalsStep, RemarkWeakStep, RemarkAgainStep,
           SeparateUdataStep, FlipStep, CallFinalizerStep, EndCycleStep DEF Collector

\* The state lua_newstate leaves satisfies the invariant.
LEMMA InitSafe == Init => SafeInv
<1> SUFFICES ASSUME Init PROVE SafeInv
  OBVIOUS
<1>1. /\ alloc = {MainThread, Registry, Globals} \cup FixedStrings
      /\ gcstate = "pause" /\ mt = Nil /\ run = MainThread /\ tmudata = {}
      /\ \A o \in Obj : ref[o] = {} /\ color[o] = "white0"
      /\ \A t \in Tables, k \in Keys : entry[t][k] = Nil
      /\ \A uv \in Upvals : owner[uv] = Nil
      /\ \A th \in Threads, s \in Slots : stack[th][s] \in {Globals, Nil}
      /\ cw = "white0"
  BY DEF Init, Unused
<1>2. gcstate \notin Marking /\ gcstate \notin Sweeping /\ Survivors = alloc
  BY <1>1 DEF Marking, Atomic, Sweeping, Survivors
<1>3. alloc \subseteq Obj /\ alloc \cap Upvals = {} /\ Globals \in alloc /\ Nil \notin Obj
  BY <1>1, ConstantAssumption, Disjoint
<1>4. Roots \subseteq Survivors
  BY <1>1, <1>2, <1>3 DEF Roots
<1>5. ASSUME NEW o \in alloc PROVE Access(o) \subseteq alloc
  <2>1. CASE o \in Tables
    <3>1. KeyRefs(o) = {} /\ ValueRefs(o) = {} /\ ref[o] = {}
      BY <1>1, <1>3, <2>1 DEF KeyRefs, ValueRefs, Used
    <3> QED BY <2>1, <3>1, AccessOfTable
  <2>2. CASE o \in Threads
    <3>1. StackRefs(o) \subseteq {Globals, MainThread}
      BY <1>1, <1>3, <2>2 DEF StackRefs
    <3> QED BY <1>1, <2>2, <3>1, AccessOfOthers
  <2>3. CASE o \in Funcs \cup Udatas \cup Strings
    BY <1>1, <1>3, <2>3, AccessOfOthers
  <2> QED BY <1>3, <2>1, <2>2, <2>3, Disjoint
<1>6. NoDangling
  BY <1>2, <1>4, <1>5 DEF NoDangling
<1>7. OpenUpvals /\ Fresh
  BY <1>1, <1>3 DEF OpenUpvals, Fresh
<1>8. Shapes
  BY <1>1, Disjoint DEF Shapes
<1>9. Kinds
  BY <1>1, WeakKinds, Disjoint DEF Kinds, Black
<1>10. SweptWhite
  BY <1>1, <1>3 DEF SweptWhite
<1>11. MarkBasics /\ TriColor /\ GrayLists /\ Stages
  BY <1>2 DEF MarkBasics, TriColor, GrayLists, Stages, Marking, Atomic
<1> QED BY <1>6, <1>7, <1>8, <1>9, <1>10, <1>11 DEF SafeInv

\* So does a state that differs in nothing it mentions.
LEMMA StutterSafe == SafeInv /\ UNCHANGED vars => SafeInv'
<1> SUFFICES ASSUME SafeInv, UNCHANGED vars PROVE SafeInv'
  OBVIOUS
<1>1. /\ UNCHANGED <<alloc, ref, entry, stack, owner, level, mt, run, color, cw, gcstate>>
      /\ UNCHANGED <<gray, grayagain, weak, unswept, tmudata, finalized>>
  BY DEF vars, heap, marks, lists, finals
<1>2. /\ \A o : Children(o)' = Children(o) /\ Access(o)' = Access(o) /\ UpValue(o)' = UpValue(o)
      /\ Survivors' = Survivors /\ Roots' = Roots /\ UnbarrieredRoots' = UnbarrieredRoots
  BY <1>1 DEF Children, Access, UpValue, StackRefs, KeyRefs, ValueRefs, Used, Survivors, Roots,
              UnbarrieredRoots, IsDead
<1>3. NoDangling' /\ OpenUpvals' /\ Fresh' /\ Shapes'
  BY <1>1, <1>2 DEF SafeInv, NoDangling, OpenUpvals, Fresh, Shapes, Black
<1>4. Kinds' /\ SweptWhite' /\ MarkBasics'
  BY <1>1 DEF SafeInv, Kinds, SweptWhite, MarkBasics, Pending, Black, White, IsDead
<1>5. TriColor' /\ GrayLists'
  BY <1>1, <1>2 DEF SafeInv, TriColor, GrayLists, Black, White
<1>6. Stages'
  BY <1>1, <1>2 DEF SafeInv, Stages, AllMarked, Black, White
<1> QED BY <1>3, <1>4, <1>5, <1>6 DEF SafeInv

-----------------------------------------------------------------------------
\* The invariant of the collector and the program together.
THEOREM CollectorInvariant == Spec => []SafeInv
<1>1. ASSUME TypeOK, TypeOK', FinalInv, SafeInv, [Next]_vars PROVE SafeInv'
  BY <1>1, AllocateSafe, UpdateSafe, FullGCStep, CollectorSafe, StutterSafe DEF Next, Mutator
<1>2. TypeOK /\ TypeOK' /\ FinalInv /\ SafeInv /\ [Next]_vars => SafeInv'
  BY <1>1
<1> QED BY <1>2, InitSafe, TypeCorrect, FinalizerInvariant, PTL DEF Spec

\* Nothing that the program or the runtime can still reach, through weak
\* entries too, has been freed or is about to be: every reference it can read
\* leads to an allocated object that the pending sweep keeps.
THEOREM NothingDangles == Spec => []NoDangling
<1>1. SafeInv => NoDangling
  BY DEF SafeInv
<1> QED BY <1>1, CollectorInvariant, PTL

\* The barriers keep what black objects refer to marked, all through the mark
\* phase and with the program running.
THEOREM BarriersSuffice == Spec => []TriColor
<1>1. SafeInv => TriColor
  BY DEF SafeInv
<1> QED BY <1>1, CollectorInvariant, PTL

\* Every object waits in one list of the collector at most, everything in a
\* list is gray, and no gray table, function or thread is in none.
THEOREM ListsHoldTheGray == Spec => []GrayLists
<1>1. SafeInv => GrayLists
  BY DEF SafeInv
<1> QED BY <1>1, CollectorInvariant, PTL

\* An open upvalue designates a slot of a thread that exists, and no two are
\* open on one slot.
THEOREM OpenUpvaluesShared == Spec => []OpenUpvals
<1>1. SafeInv => OpenUpvals
  BY DEF SafeInv
<1> QED BY <1>1, CollectorInvariant, PTL
=============================================================================
