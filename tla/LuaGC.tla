------------------------------- MODULE LuaGC -------------------------------
(***************************************************************************)
(* The incremental mark-and-sweep collector of the Lua 5.1 runtime that    *)
(* the host links in (kge/kge/src/lua/lgc.c), running interleaved with the *)
(* program it serves: the virtual machine and the C API, which allocate    *)
(* objects, move references between them and execute the write barriers.   *)
(*                                                                         *)
(* One thread executes everything, so a collector step and a mutator       *)
(* operation never overlap; what interleaves is whole operations.  The     *)
(* collector runs from luaC_checkGC, i.e. between any two allocating       *)
(* operations, and one luaC_step is a sequence of steps of singlestep().   *)
(* A singlestep is one action here, except the one that calls atomic():    *)
(* its four propagateall loops are taken apart into Propagate steps, with  *)
(* the mutator stopped, so that no action hides a transitive closure.      *)
(*                                                                         *)
(* Object identities are constants, one set per type tag; alloc holds the  *)
(* identities in use, so an address that malloc hands out again is an      *)
(* identity that becomes allocated again.                                  *)
(***************************************************************************)
EXTENDS Integers, FiniteSets

CONSTANTS
  Tables,       \* LUA_TTABLE objects: black ones are blackened back to gray
  Funcs,        \* LUA_TFUNCTION objects: closures, with a forward barrier
  Udatas,       \* LUA_TUSERDATA objects: never gray, may have a finalizer
  Upvals,       \* LUA_TUPVAL objects: open (in a stack) or closed
  Threads,      \* LUA_TTHREAD objects: their stack is written unbarriered
  Strings,      \* LUA_TSTRING objects: interned, one per content
  MainThread,   \* g->mainthread
  Registry,     \* g->l_registry
  Globals,      \* the table in l_gt of the main thread at start
  Slots,        \* stack positions of a thread
  GlobalsSlot,  \* the slot that stands for a thread's l_gt
  Keys,         \* the keys the program uses in tables
  KeyWeak,      \* tables whose metatable has "k" in __mode
  ValueWeak,    \* tables whose metatable has "v" in __mode
  Finalizable,  \* userdata whose metatable has __gc
  FixedStrings, \* strings fixed by luaS_fix (reserved words, event names)
  SweepMax,     \* GCSWEEPMAX: objects swept by one step
  Prim,         \* every non-collectable value other than nil
  Nil           \* nil: an empty stack slot, an absent table entry

Obj == Tables \cup Funcs \cup Udatas \cup Upvals \cup Threads \cup Strings

\* What a stack slot or a table entry can hold: upvalues are not values.
Value == (Obj \ Upvals) \cup {Prim, Nil}

Fixed == FixedStrings \cup {MainThread}

Temps == Slots \ {GlobalsSlot}

ASSUME KindAssumption ==
  /\ Tables \cap (Funcs \cup Udatas \cup Upvals \cup Threads \cup Strings) = {}
  /\ Funcs \cap (Udatas \cup Upvals \cup Threads \cup Strings) = {}
  /\ Udatas \cap (Upvals \cup Threads \cup Strings) = {}
  /\ Upvals \cap (Threads \cup Strings) = {}
  /\ Threads \cap Strings = {}

ASSUME ConstantAssumption ==
  /\ MainThread \in Threads
  /\ Registry \in Tables
  /\ Globals \in Tables
  /\ Slots \subseteq Int
  /\ GlobalsSlot \in Slots
  /\ Keys \subseteq (Obj \ Upvals) \cup {Prim}
  /\ KeyWeak \subseteq Tables
  /\ ValueWeak \subseteq Tables
  /\ Finalizable \subseteq Udatas
  /\ FixedStrings \subseteq Strings
  /\ SweepMax \in Nat \ {0}
  /\ Prim \notin Obj
  /\ Nil \notin Obj
  /\ Prim # Nil

VARIABLES
  (* the heap *)
  alloc,      \* identities in use
  ref,        \* references in fixed fields: metatable, env, upvalues
  entry,      \* table contents: entry[t][k] is the value of key k
  stack,      \* stack[th][s]: the thread's stack, up to its top
  owner,      \* the thread whose stack an open upvalue lives in, or Nil
  level,      \* the slot an open upvalue designates
  mt,         \* g->mt: the metatable of a basic type, or Nil
  run,        \* the running thread
  (* marks *)
  color,      \* the mark bits of every object
  cw,         \* g->currentwhite
  (* the collector *)
  gcstate,    \* g->gcstate, with the stages of atomic() told apart
  full,       \* how far luaC_fullgc is: "no" outside of it
  gray, grayagain, weak,   \* the three gclist lists of global_State
  unswept,    \* objects the sweep position has not passed yet
  tmudata,    \* g->tmudata: userdata waiting for its finalizer
  finalized,  \* userdata with FINALIZEDBIT
  called      \* history: calls of the finalizer of a userdata

heap == <<alloc, ref, entry, stack, owner, level, mt, run>>
marks == <<color, cw>>
lists == <<gray, grayagain, weak>>
finals == <<tmudata, finalized, called>>
vars == <<heap, marks, gcstate, full, lists, unswept, finals>>

-----------------------------------------------------------------------------
(* Colors.  Two whites alternate as the current one: an object with the    *)
(* other white was not reached by the last mark phase.                     *)

Whites == {"white0", "white1"}

\* Mutant of Other: both white bits, as luaC_freeall sets them, instead of one.
OtherBoth(w) == "bothwhites"
Other(w) == IF w = "white0" THEN "white1" ELSE "white0"

\* The color of an identity not in use, which no operation looks at.
Unused == "white0"

White(o) == color[o] \in Whites
Black(o) == color[o] = "black"
IsDead(o) == color[o] = Other(cw)

Atomic == {"remark", "remarkweak", "remarkagain", "separated"}
Sweeping == {"sweepstring", "sweep"}
Marking == {"propagate"} \cup Atomic
States == {"pause", "propagate", "finalize"} \cup Atomic \cup Sweeping

-----------------------------------------------------------------------------
(* References.                                                             *)

UpValue(uv) == IF owner[uv] = Nil THEN ref[uv]
               ELSE {stack[owner[uv]][level[uv]]} \cap Obj

\* The resume that started a coroutine keeps it on the main thread's stack.
StackRefs(th) == ({stack[th][s] : s \in Slots} \cap Obj)
                   \cup (IF th = MainThread THEN {run} ELSE {})

Used(t) == {k \in Keys : entry[t][k] # Nil}
KeyRefs(t) == Used(t) \cap Obj
ValueRefs(t) == {entry[t][k] : k \in Used(t)} \cap Obj

\* What traversing an object marks.  A table holds its keys unless they are
\* weak and its values unless they are weak.
Children(o) ==
  IF o \in Tables THEN ref[o] \cup (IF o \in KeyWeak THEN {} ELSE KeyRefs(o))
                              \cup (IF o \in ValueWeak THEN {} ELSE ValueRefs(o))
  ELSE IF o \in Threads THEN StackRefs(o)
  ELSE IF o \in Upvals THEN UpValue(o)
  ELSE ref[o]

\* What the program can read out of an object it holds: weak references too.
Access(o) == Children(o) \cup (IF o \in Tables THEN KeyRefs(o) \cup ValueRefs(o)
                                               ELSE {})

-----------------------------------------------------------------------------
(* Marking.                                                                *)

\* The objects that markobject on every member of S marks: userdata marks its
\* metatable and environment at once, an upvalue its value; the rest is only
\* linked into a list, to be traversed later.
MarkSet(S) ==
  LET first  == {o \in S : White(o)}
      values == {v \in UNION {UpValue(u) : u \in first \cap Upvals} : White(v)}
      fields == {m \in UNION {ref[u] : u \in (first \cup values) \cap Udatas} : White(m)}
  IN  first \cup values \cup fields

\* The color reallymarkobject leaves: open upvalues are never black.
MarkedColor(o) ==
  IF o \in Udatas \/ (o \in Upvals /\ owner[o] = Nil) THEN "black" ELSE "gray"

Painted(M) == [o \in Obj |-> IF o \in M THEN MarkedColor(o) ELSE color[o]]

\* Marked objects that reallymarkobject links into g->gray.
Linked(M) == M \cap (Tables \cup Funcs \cup Threads)

Mark(S) == /\ color' = Painted(MarkSet(S))
           /\ gray' = gray \cup Linked(MarkSet(S))

\* luaC_barrier and luaC_objbarrier: o now holds v.
BarrierForward(o, v) ==
  IF v \in Obj /\ Black(o) /\ White(v)
    THEN IF gcstate = "propagate"
           THEN Mark({v})
           ELSE color' = [color EXCEPT ![o] = cw] /\ gray' = gray
    ELSE UNCHANGED <<color, gray>>

\* luaC_barriert and luaC_objbarriert test whether table t, which now holds the
\* members of V, must be traversed again.
Caught(t, V) == Black(t) /\ \E v \in V \cap Obj : White(v)

\* Mutants of BarrierBack: none at all; gray, but in no list.
NoBarrierBack(t, V) == UNCHANGED <<color, grayagain>>
BarrierBackUnlinked(t, V) ==
  /\ color' = IF Caught(t, V) THEN [color EXCEPT ![t] = "gray"] ELSE color
  /\ UNCHANGED grayagain

BarrierBack(t, V) ==
  IF Caught(t, V) THEN /\ color' = [color EXCEPT ![t] = "gray"]
                       /\ grayagain' = grayagain \cup {t}
                  ELSE UNCHANGED <<color, grayagain>>

-----------------------------------------------------------------------------
(* The mutator: operations of the running thread on values it holds.       *)

\* The program runs between two collector steps, but not inside atomic() nor
\* inside luaC_fullgc, except in the finalizers that one calls.
Running == full = "no" /\ gcstate \notin Atomic

Held == ({stack[run][s] : s \in Slots} \cap Obj) \cup {Registry, run}

UpvalsHeld == Upvals \cap UNION {ref[f] : f \in Held \cap Funcs}

\* The operands of an operation: what a register or pseudo-index holds, and
\* what one instruction that never runs the collector fetches into a register
\* first, from an object held, an upvalue or the metatable of a basic type.
Readable ==
  (Held \cup (UNION {Access(o) : o \in Held}) \cup (UNION {UpValue(uv) : uv \in UpvalsHeld})
        \cup ({mt} \cap Obj)) \ Upvals

\* getcurrenv, or the environment of the closure being executed.
Envs == Tables \cap ({stack[run][GlobalsSlot]} \cup UNION {ref[f] : f \in Held \cap Funcs})

\* A new object o of the running program, white, with fields R, in slot s.
Create(o, R, s) ==
  /\ o \notin alloc
  /\ alloc' = alloc \cup {o}
  /\ ref' = [ref EXCEPT ![o] = R]
  /\ color' = [color EXCEPT ![o] = cw]
  /\ stack' = [stack EXCEPT ![run][s] = o]

NewTable(t, s) ==
  /\ Running
  /\ Create(t, {}, s)
  /\ UNCHANGED <<entry, owner, level, mt, run, cw, gcstate, full, lists, unswept, finals>>

\* luaS_newlstr: the string table may still hold the string, even dead.
NewString(x, s) ==
  /\ Running
  /\ \/ Create(x, {}, s)
     \/ /\ x \in alloc
        /\ stack' = [stack EXCEPT ![run][s] = x]
        /\ color' = [color EXCEPT ![x] = IF IsDead(x) THEN cw ELSE @]
        /\ UNCHANGED <<alloc, ref>>
  /\ UNCHANGED <<entry, owner, level, mt, run, cw, gcstate, full, lists, unswept, finals>>

\* luaS_newudata: the environment is that of the running function.
NewUdata(u, e, s) ==
  /\ Running
  /\ Create(u, {e}, s)
  /\ called' = [called EXCEPT ![u] = 0]
  /\ UNCHANGED <<entry, owner, level, mt, run, cw, gcstate, full, lists, unswept,
                 tmudata, finalized>>

\* lua_newthread: the new thread shares the table of globals.
NewThread(th, s) ==
  /\ Running
  /\ th \notin alloc
  /\ alloc' = alloc \cup {th}
  /\ color' = [color EXCEPT ![th] = cw]
  /\ stack' = [stack EXCEPT ![run][s] = th,
                            ![th] = [p \in Slots |-> IF p = GlobalsSlot
                                                       THEN stack[run][GlobalsSlot]
                                                       ELSE Nil]]
  /\ UNCHANGED <<ref, entry, owner, level, mt, run, cw, gcstate, full, lists, unswept, finals>>

\* lua_pushcclosure with upvalue v, or f_parser's main function (v = Nil).
NewCClosure(f, e, v, s) ==
  /\ Running
  /\ Create(f, {e, v} \cap Obj, s)
  /\ UNCHANGED <<entry, owner, level, mt, run, cw, gcstate, full, lists, unswept, finals>>

\* OP_CLOSURE capturing an upvalue of the closure being executed.
ClosureOverUpvalue(f, e, uv, s) ==
  /\ Running
  /\ Create(f, {e, uv}, s)
  /\ UNCHANGED <<entry, owner, level, mt, run, cw, gcstate, full, lists, unswept, finals>>

\* OP_CLOSURE capturing the local variable in slot lv: luaF_findupval reuses
\* the open upvalue of that slot, bringing it back if it is dead, or makes one.
ClosureOverLocal(f, e, uv, lv, s) ==
  /\ Running
  /\ f \notin alloc
  /\ \/ /\ uv \in alloc /\ owner[uv] = run /\ level[uv] = lv
        /\ color' = [color EXCEPT ![f] = cw, ![uv] = IF IsDead(uv) THEN cw ELSE @]
        /\ UNCHANGED <<owner, level>>
     \/ /\ uv \notin alloc
        /\ \A p \in Upvals \cap alloc : ~ (owner[p] = run /\ level[p] = lv)
        /\ color' = [color EXCEPT ![f] = cw, ![uv] = cw]
        /\ owner' = [owner EXCEPT ![uv] = run]
        /\ level' = [level EXCEPT ![uv] = lv]
  /\ alloc' = alloc \cup {f, uv}
  /\ ref' = [ref EXCEPT ![f] = {e, uv}]
  /\ stack' = [stack EXCEPT ![run][s] = f]
  /\ UNCHANGED <<entry, mt, run, cw, gcstate, full, lists, unswept, finals>>

\* A value is fetched into a stack slot (OP_MOVE, OP_GETTABLE, OP_GETUPVAL,
\* lua_rawget, ...), or the slot is given up.  Stacks have no barrier.
Fetch(v, s) ==
  /\ Running
  /\ s = GlobalsSlot => v \in Tables
  /\ stack' = [stack EXCEPT ![run][s] = v]
  /\ UNCHANGED <<alloc, ref, entry, owner, level, mt, run, marks, gcstate, full, lists,
                 unswept, finals>>

\* luaV_settable / lua_rawset: t[k] = v; storing nil removes the entry.
SetEntry(t, k, v) ==
  /\ Running
  /\ entry' = [entry EXCEPT ![t][k] = v]
  /\ BarrierBack(t, {v} \cup (IF entry[t][k] = Nil THEN {k} ELSE {}))
  /\ UNCHANGED <<alloc, ref, stack, owner, level, mt, run, cw, gcstate, full, gray, weak,
                 unswept, finals>>

\* lua_setmetatable on a table.
SetMetatable(t, m) ==
  /\ Running
  /\ ref' = [ref EXCEPT ![t] = {m} \cap Obj]
  /\ BarrierBack(t, {m})
  /\ UNCHANGED <<alloc, entry, stack, owner, level, mt, run, cw, gcstate, full, gray, weak,
                 unswept, finals>>

\* lua_setmetatable on a userdata, lua_setfenv, lua_replace on an upvalue or
\* environment index: field x of o (Nil if it holds nil, or what another field
\* holds too) is overwritten with v.  There are two fields to write, and one
\* of them is the environment, a table.
SetField(o, x, v) ==
  LET new == (ref[o] \ {x}) \cup ({v} \cap Obj)
  IN  /\ Running
          /\ Cardinality(new) <= 2 /\ new \cap Tables # {}
      /\ o \in Udatas => new \subseteq Tables
      /\ ref' = [ref EXCEPT ![o] = new]
      /\ BarrierForward(o, v)
      /\ UNCHANGED <<alloc, entry, stack, owner, level, mt, run, cw, gcstate, full,
                     grayagain, weak, unswept, finals>>

\* OP_SETUPVAL on upvalue uv of a closure the thread executes.
SetUpval(uv, v) ==
  /\ Running
  /\ IF owner[uv] = Nil
       THEN /\ ref' = [ref EXCEPT ![uv] = {v} \cap Obj]
            /\ UNCHANGED stack
       ELSE /\ stack' = [stack EXCEPT ![owner[uv]][level[uv]] = v]
            /\ UNCHANGED ref
  /\ BarrierForward(uv, v)
  /\ UNCHANGED <<alloc, entry, owner, level, mt, run, cw, gcstate, full, grayagain, weak,
                 unswept, finals>>

\* luaC_linkupval: what its forward barrier marks for the gray upvalues U that
\* are closed while propagating.  Mutant: no barrier.
LinkNoBarrier(U) == {}
LinkMarks(U) == IF gcstate = "propagate" THEN MarkSet(UNION {UpValue(uv) : uv \in U}) ELSE {}

\* luaF_close: the open upvalues from slot lv up leave the stack.  A dead one
\* is freed on the spot; luaC_linkupval gives a gray one the color that its
\* new, closed state needs.
CloseUpvals(lv) ==
  LET U     == {uv \in Upvals \cap alloc : owner[uv] = run /\ level[uv] >= lv}
      freed == {uv \in U : IsDead(uv)}
      grays == {uv \in U : color[uv] = "gray"}
      M     == LinkMarks(grays)
  IN  /\ Running
      /\ U # {}
      /\ alloc' = alloc \ freed
      /\ ref' = [o \in Obj |-> IF o \in freed THEN {}
                               ELSE IF o \in U THEN UpValue(o) ELSE ref[o]]
      /\ owner' = [uv \in Upvals |-> IF uv \in U THEN Nil ELSE owner[uv]]
      /\ color' = [o \in Obj |->
                      IF o \in M THEN MarkedColor(o)
                      ELSE IF o \in freed THEN Unused
                      ELSE IF o \in grays THEN IF gcstate = "propagate" THEN "black" ELSE cw
                      ELSE color[o]]
      /\ gray' = gray \cup Linked(M)
      /\ UNCHANGED <<entry, stack, level, mt, run, cw, gcstate, full, grayagain, weak,
                     unswept, finals>>

\* auxresume: the main program starts or continues coroutine th with argument v.
Resume(th, v, s) ==
  /\ Running
  /\ run = MainThread
  /\ stack' = [stack EXCEPT ![th][s] = v]
  /\ run' = th
  /\ UNCHANGED <<alloc, ref, entry, owner, level, mt, marks, gcstate, full, lists,
                 unswept, finals>>

\* The coroutine yields, or returns to, the main program with value v.
Yield(v, s) ==
  /\ Running
  /\ run # MainThread
  /\ stack' = [stack EXCEPT ![MainThread][s] = v]
  /\ run' = MainThread
  /\ UNCHANGED <<alloc, ref, entry, owner, level, mt, marks, gcstate, full, lists,
                 unswept, finals>>

\* lua_setmetatable on a value of a basic type: no barrier.
SetBasicMetatable(m) ==
  /\ Running
  /\ mt' = m
  /\ UNCHANGED <<alloc, ref, entry, stack, owner, level, run, marks, gcstate, full, lists,
                 unswept, finals>>

-----------------------------------------------------------------------------
(* The collector.                                                          *)

\* markroot.
MarkRootSet ==
  /\ grayagain' = {}
  /\ weak' = {}
  /\ LET M == MarkSet({MainThread, Registry} \cup ({stack[MainThread][GlobalsSlot], mt} \cap Obj))
     IN  color' = Painted(M) /\ gray' = Linked(M)
  /\ gcstate' = "propagate"

MarkRoot ==
  /\ gcstate = "pause"
  /\ full = "no"
  /\ MarkRootSet
  /\ UNCHANGED <<heap, cw, full, unswept, finals>>

\* propagatemark: traverse one gray object.  Threads and weak tables stay gray
\* and go to a list of objects that atomic() visits again.
Propagate(o) ==
  /\ gcstate \in Marking
  /\ o \in gray
  /\ LET M == MarkSet(Children(o))
         stays == o \in Threads \cup KeyWeak \cup ValueWeak
     IN  /\ color' = [Painted(M) EXCEPT ![o] = IF stays THEN "gray" ELSE "black"]
         /\ gray' = (gray \ {o}) \cup Linked(M)
  /\ grayagain' = IF o \in Threads THEN grayagain \cup {o} ELSE grayagain
  /\ weak' = IF o \in KeyWeak \cup ValueWeak THEN weak \cup {o} ELSE weak
  /\ UNCHANGED <<heap, cw, gcstate, full, unswept, finals>>

\* What the gray open upvalues hold.  Mutant: dead threads are forgotten.
OpenForgotten == {}
OpenValues == UNION {UpValue(uv) : uv \in {p \in Upvals \cap alloc : owner[p] # Nil
                                                                   /\ color[p] = "gray"}}

\* atomic(), first stage: remarkupvals.
RemarkUpvals ==
  /\ gcstate = "propagate"
  /\ gray = {}
  /\ Mark(OpenValues)
  /\ gcstate' = "remark"
  /\ UNCHANGED <<heap, cw, full, grayagain, weak, unswept, finals>>

\* markobject(g, L) and markmt, again.  Mutant: without markmt.
RootsNoMt == {run}
UnbarrieredRoots == {run} \cup ({mt} \cap Obj)

\* atomic(), second stage: weak tables, the running thread, basic metatables.
RemarkWeak ==
  /\ gcstate = "remark"
  /\ gray = {}
  /\ LET M == MarkSet(UnbarrieredRoots)
     IN  color' = Painted(M) /\ gray' = weak \cup Linked(M)
  /\ weak' = {}
  /\ gcstate' = "remarkweak"
  /\ UNCHANGED <<heap, cw, full, grayagain, unswept, finals>>

\* atomic(), third stage: threads and the tables the back barrier caught.
RemarkAgain ==
  /\ gcstate = "remarkweak"
  /\ gray = {}
  /\ gray' = grayagain
  /\ grayagain' = {}
  /\ gcstate' = "remarkagain"
  /\ UNCHANGED <<heap, marks, full, weak, unswept, finals>>

\* Userdata that luaC_separateudata(L, 0) looks at: unreached, and not marked
\* finalized.  Mutant: without the second test.
UnreachedAny == {u \in (Udatas \cap alloc) \ tmudata : White(u)}
Unreached == {u \in (Udatas \cap alloc) \ (tmudata \cup finalized) : White(u)}

\* It appends those with a finalizer to tmudata.  Mutant: the list is restarted.
SeparatedAnew == Unreached \cap Finalizable
Separated == tmudata \cup (Unreached \cap Finalizable)

\* marktmu makes these white and marks them again: their fields are marked.
\* Mutant: the fields are not.
PreservedAlone == {}
Preserved == MarkSet(UNION {ref[u] : u \in Separated})

\* atomic(), fourth stage: unreached userdata with a finalizer is kept for it.
SeparateUdata ==
  /\ gcstate = "remarkagain"
  /\ gray = {}
  /\ finalized' = finalized \cup Unreached
  /\ tmudata' = Separated
  /\ color' = [o \in Obj |-> IF o \in Separated THEN "black" ELSE Painted(Preserved)[o]]
  /\ gray' = Linked(Preserved)
  /\ gcstate' = "separated"
  /\ UNCHANGED <<heap, cw, full, grayagain, weak, unswept, called>>

\* iscleared, for objects that are not strings.
ClearedKey(k) == k \in Obj \ Strings /\ White(k)
ClearedValue(v) == v \in Obj \ Strings /\ (White(v) \/ v \in finalized)

ClearedEntry(t, k) == ClearedKey(k) \/ ClearedValue(entry[t][k])

\* Strings that cleartable looks at are marked: they count as values.  Mutant:
\* they are not.
StringsForgotten == {}
StringsOfWeak ==
  Strings \cap UNION {KeyRefs(t) \cup {entry[t][k] : k \in {j \in Used(t) : ~ ClearedKey(j)}}
                        : t \in weak}

\* atomic(), last stage: cleartable, then flip the current white.
Flip ==
  /\ gcstate = "separated"
  /\ gray = {}
  /\ entry' = [t \in Tables |-> [k \in Keys |->
                  IF t \in weak /\ k \in Used(t) /\ ClearedEntry(t, k) THEN Nil
                                                                       ELSE entry[t][k]]]
  /\ color' = [o \in Obj |-> IF o \in StringsOfWeak /\ White(o) THEN "gray" ELSE color[o]]
  /\ cw' = Other(cw)
  /\ unswept' = (alloc \ tmudata) \ {uv \in Upvals : owner[uv] # Nil}
  /\ gcstate' = "sweepstring"
  /\ UNCHANGED <<alloc, ref, stack, owner, level, mt, run, full, lists, finals>>

\* luaE_freethread closes the upvalues that are left open in a thread of T.
\* Mutant: it leaves them open.
OrphansLeft(T) == {}
Orphans(T) == {uv \in Upvals \cap alloc : owner[uv] \in T /\ ~ IsDead(uv)}

\* makewhite on a survivor of the sweep.  Mutant: it keeps its color.
KeepColor(o) == color[o]
Rewhite(o) == cw

\* sweeplist over the objects of S: dead ones are freed, the others become
\* white for the next cycle.  The open upvalues of a thread are swept with it.
SweepList(S) ==
  LET swept   == S \cup {uv \in Upvals \cap alloc : owner[uv] \in S}
      freed   == {o \in swept \ Fixed : IsDead(o)}
      orphans == Orphans(freed \cap Threads)
  IN  /\ alloc' = alloc \ freed
      /\ ref' = [o \in Obj |-> IF o \in freed THEN {}
                               ELSE IF o \in orphans THEN UpValue(o) ELSE ref[o]]
      /\ entry' = [t \in Tables |-> IF t \in freed THEN [k \in Keys |-> Nil] ELSE entry[t]]
      /\ stack' = [th \in Threads |-> IF th \in freed THEN [s \in Slots |-> Nil]
                                                      ELSE stack[th]]
      /\ owner' = [uv \in Upvals |-> IF uv \in freed \cup orphans THEN Nil ELSE owner[uv]]
      /\ color' = [o \in Obj |-> IF o \in freed THEN Unused
                                 ELSE IF o \in swept THEN Rewhite(o) ELSE color[o]]
      /\ finalized' = finalized \ freed
      /\ unswept' = unswept \ (S \cup freed)

\* GCSsweepstring: one bucket of the string table.
SweepString(S) ==
  /\ gcstate = "sweepstring"
  /\ S \subseteq unswept \cap Strings
  /\ S = {} => unswept \cap Strings = {}
  /\ SweepList(S)
  /\ gcstate' = IF unswept \cap Strings \subseteq S THEN "sweep" ELSE gcstate
  /\ UNCHANGED <<level, mt, run, cw, full, lists, tmudata, called>>

\* GCSsweep: up to SweepMax objects of the root list.  The order of the list
\* is abstracted: any SweepMax of the objects left may come next.
Sweep(S) ==
  /\ gcstate = "sweep"
  /\ S \subseteq unswept
  /\ Cardinality(S) = SweepMax \/ (Cardinality(S) < SweepMax /\ S = unswept)
  /\ SweepList(S)
  /\ gcstate' = IF S = unswept THEN "finalize" ELSE gcstate
  /\ UNCHANGED <<level, mt, run, cw, full, lists, tmudata, called>>

\* GCTM: the first userdata of tmudata (any one: the order is abstracted) goes
\* back to the root list and its finalizer is called with it.
CallFinalizer(u, s) ==
  /\ gcstate = "finalize"
  /\ full # "sweep"
  /\ u \in tmudata
  /\ tmudata' = tmudata \ {u}
  /\ color' = [color EXCEPT ![u] = cw]
  /\ stack' = [stack EXCEPT ![run][s] = u]
  /\ called' = [called EXCEPT ![u] = @ + 1]
  /\ full' = "no"
  /\ UNCHANGED <<alloc, ref, entry, owner, level, mt, run, cw, gcstate, lists, unswept,
                 finalized>>

\* Mutant of EndCycle: it does not wait for the finalizers.
EndCycleEarly ==
  /\ gcstate = "finalize"
  /\ full # "sweep"
  /\ gcstate' = "pause"
  /\ full' = "no"
  /\ UNCHANGED <<heap, marks, lists, unswept, finals>>

\* The cycle ends; it may be the one luaC_fullgc waits for.
EndCycle ==
  /\ gcstate = "finalize"
  /\ full # "sweep"
  /\ tmudata = {}
  /\ gcstate' = "pause"
  /\ full' = "no"
  /\ UNCHANGED <<heap, marks, lists, unswept, finals>>

\* luaC_fullgc, up to its first loop: an unfinished mark phase is abandoned and
\* everything is swept back to white.
FullGC ==
  /\ Running
  /\ full' = "sweep"
  /\ IF gcstate \in {"pause", "propagate"}
       THEN /\ unswept' = (alloc \ tmudata) \ {uv \in Upvals : owner[uv] # Nil}
            /\ gray' = {} /\ grayagain' = {} /\ weak' = {}
            /\ gcstate' = "sweepstring"
       ELSE UNCHANGED <<unswept, lists, gcstate>>
  /\ UNCHANGED <<heap, marks, finals>>

\* Mutant of FullMark: the sweep is taken for the collection.
FullMarkSkipped ==
  /\ full = "sweep"
  /\ gcstate = "finalize"
  /\ full' = "mark"
  /\ UNCHANGED <<heap, marks, gcstate, lists, unswept, finals>>

\* luaC_fullgc, after the pending sweep: a new cycle from its roots.
FullMark ==
  /\ full = "sweep"
  /\ gcstate = "finalize"
  /\ MarkRootSet
  /\ full' = "mark"
  /\ UNCHANGED <<heap, cw, unswept, finals>>

-----------------------------------------------------------------------------
Allocate ==
  \E s \in Temps :
    \/ \E t \in Tables : NewTable(t, s)
    \/ \E x \in Strings : NewString(x, s)
    \/ \E th \in Threads : NewThread(th, s)
    \/ \E e \in Envs :
         \/ \E u \in Udatas : NewUdata(u, e, s)
         \/ \E f \in Funcs, v \in Readable \cup {Nil} : NewCClosure(f, e, v, s)
         \/ \E f \in Funcs, uv \in UpvalsHeld : ClosureOverUpvalue(f, e, uv, s)
         \/ \E f \in Funcs, uv \in Upvals, lv \in Temps : ClosureOverLocal(f, e, uv, lv, s)

Update ==
  \/ \E t \in Readable \cap Tables :
       \/ \E k \in Keys \cap (Readable \cup {Prim}), v \in Readable \cup {Prim, Nil} :
            SetEntry(t, k, v)
       \/ \E m \in (Readable \cap Tables) \cup {Nil} : SetMetatable(t, m)
  \/ \E m \in (Readable \cap Tables) \cup {Nil} : SetBasicMetatable(m)
  \/ \E lv \in Temps : CloseUpvals(lv)
  \/ \E v \in Readable \cup {Nil} :
       \/ \E s \in Slots : Fetch(v, s)
       \/ \E o \in Readable \cap (Funcs \cup Udatas) :
            \E x \in (ref[o] \ Upvals) \cup {Nil} : SetField(o, x, v)
       \/ \E uv \in UpvalsHeld : SetUpval(uv, v)
       \/ \E th \in (Readable \cap Threads) \ {MainThread}, s \in Temps : Resume(th, v, s)
       \/ \E s \in Temps : Yield(v, s)

Mutator == Allocate \/ Update \/ FullGC

Collector ==
  \/ MarkRoot
  \/ \E o \in Obj : Propagate(o)
  \/ RemarkUpvals
  \/ RemarkWeak
  \/ RemarkAgain
  \/ SeparateUdata
  \/ Flip
  \/ \E S \in SUBSET (unswept \cap Strings) : SweepString(S)
  \/ \E S \in SUBSET unswept : Sweep(S)
  \/ \E u \in Udatas, s \in Temps : CallFinalizer(u, s)
  \/ EndCycle
  \/ FullMark

Next == Mutator \/ Collector

\* lua_newstate.
Init ==
  /\ alloc = {MainThread, Registry, Globals} \cup FixedStrings
  /\ ref = [o \in Obj |-> {}]
  /\ entry = [t \in Tables |-> [k \in Keys |-> Nil]]
  /\ stack = [th \in Threads |-> [s \in Slots |-> IF th = MainThread /\ s = GlobalsSlot
                                                   THEN Globals ELSE Nil]]
  /\ owner = [uv \in Upvals |-> Nil]
  /\ level = [uv \in Upvals |-> GlobalsSlot]
  /\ mt = Nil
  /\ run = MainThread
  /\ color = [o \in Obj |-> Unused]
  /\ cw = "white0"
  /\ gcstate = "pause"
  /\ full = "no"
  /\ gray = {} /\ grayagain = {} /\ weak = {}
  /\ unswept = {}
  /\ tmudata = {} /\ finalized = {}
  /\ called = [u \in Udatas |-> 0]

Spec == Init /\ [][Next]_vars

-----------------------------------------------------------------------------
(* Properties.                                                             *)

\* Every variable keeps its type; in particular currentwhite is always one of
\* the two whites and a freed object leaves no bits in tmudata.
TypeOK ==
  /\ alloc \subseteq Obj
  /\ ref \in [Obj -> SUBSET Obj]
  /\ entry \in [Tables -> [Keys -> Value]]
  /\ stack \in [Threads -> [Slots -> Value]]
  /\ owner \in [Upvals -> Threads \cup {Nil}]
  /\ level \in [Upvals -> Slots]
  /\ mt \in Tables \cup {Nil}
  /\ run \in Threads
  /\ color \in [Obj -> Whites \cup {"gray", "black"}]
  /\ cw \in Whites
  /\ gcstate \in States
  /\ full \in {"no", "sweep", "mark"}
  /\ gray \subseteq Obj /\ grayagain \subseteq Obj /\ weak \subseteq Tables
  /\ unswept \subseteq Obj
  /\ tmudata \subseteq Udatas /\ finalized \subseteq Udatas
  /\ called \in [Udatas -> Nat]

\* What the program and the runtime use without asking the collector.
Roots == {MainThread, Registry, run} \cup ({mt} \cap Obj) \cup tmudata \cup FixedStrings

\* Objects that the pending sweep, if there is one, is not going to free.
Survivors == IF gcstate \in Sweeping THEN {o \in alloc : o \in Fixed \/ ~ IsDead(o)}
                                     ELSE alloc

\* Memory safety of the collector: whatever the program can still reach, weak
\* entries included, is allocated and not about to be freed.  Survivors is the
\* closed set that witnesses it (the checkliveness assertions of lobject.h).
NoDangling == /\ Roots \subseteq Survivors
              /\ \A o \in Survivors : Access(o) \subseteq Survivors

\* The invariant the write barriers keep while marking: no black object refers
\* to a white one.  Userdata left in tmudata is exempt: marktmu redoes it.
TriColor == gcstate \in Marking =>
              \A o \in alloc \ tmudata : Black(o) => \A c \in Children(o) : ~ White(c)

\* An object has one gclist link, so it can be in one list of the collector
\* only; what propagatemark takes from a list is gray (its assertion); and every
\* gray table, function and thread waits in a list, or it would never be
\* traversed, while the barriers unlink and relink them in the middle of the
\* mark phase.
GrayLists == gcstate \in Marking =>
  /\ gray \cap grayagain = {} /\ gray \cap weak = {} /\ grayagain \cap weak = {}
  /\ \A o \in gray \cup grayagain \cup weak : o \in alloc /\ color[o] = "gray"
  /\ \A o \in alloc \cap (Tables \cup Funcs \cup Threads) :
       color[o] = "gray" => o \in gray \cup grayagain \cup weak

\* An open upvalue designates a slot of a stack that exists, and two closures
\* over one local variable share one upvalue: no two are open on one slot.
OpenUpvals == \A uv \in {p \in Upvals \cap alloc : owner[p] # Nil} :
  /\ owner[uv] \in alloc
  /\ ~ Black(uv)
  /\ \A p \in Upvals \cap alloc : owner[p] = owner[uv] /\ level[p] = level[uv] => p = uv

\* A finalizer runs at most once in the life of its userdata, whatever is
\* resurrected and however full collections nest.
FinalizeOnce == \A u \in Udatas \cap alloc : called[u] <= 1

\* Userdata with a finalizer is never freed before its finalizer was called.
FinalizeBeforeFree ==
  [][\A u \in Finalizable \cap alloc : u \notin alloc' => called[u] = 1]_vars

\* Strong references, and strings: what cleartable finds in weak tables counts
\* as held.
Strongly(S) == \A o \in S : Children(o) \cup (Access(o) \cap Strings) \subseteq S

\* A full collection frees everything unreachable when it starts, except what
\* finalizers need: what is left is in every set that holds the roots and is
\* closed under strong references.  A table with weak keys marks a value, and
\* one with weak values a key, that cleartable may then remove with its entry,
\* so the promise is for heaps without such tables.
FullGCPrecise ==
  full = "mark" /\ gcstate = "finalize"
    /\ KeyWeak \cap alloc = {} /\ (ValueWeak \cap alloc = {} \/ Keys \cap Obj = {}) =>
    \A S \in SUBSET alloc : Roots \subseteq S /\ Strongly(S) => S = alloc

\* What the comment on iscleared says: an entry with a live key and a strong
\* value loses that value only if the value is userdata being finalized.
LiveEntryKept ==
  [][gcstate = "separated" /\ gcstate' = "sweepstring" =>
       \A t \in (Tables \cap alloc) \ ValueWeak : \A k \in Used(t) :
          ~ ClearedKey(k) /\ entry[t][k] \notin tmudata => entry'[t][k] = entry[t][k]]_vars

\* Unreachable objects: some set without o holds the roots, pending finalizers
\* not counted, and is closed under strong references.
Garbage(o) ==
  \E S \in SUBSET (alloc \ {o}) : /\ Roots \ tmudata \subseteq S
                                  /\ \A p \in S : Children(p) \subseteq S

\* Garbage is freed: no object stays allocated and unreachable for ever.  The
\* collector must run again and again, as it does while the program allocates.
GarbageFreed == \A o \in Obj : ~ <>[] (o \in alloc /\ Garbage(o))

\* Every separated userdata gets its finalizer called.
FinalizersRun == \A u \in Udatas : u \in tmudata ~> u \notin tmudata

=============================================================================
