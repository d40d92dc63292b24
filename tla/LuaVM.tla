------------------------------- MODULE LuaVM -------------------------------
(***************************************************************************)
(* The virtual machine: luaV_execute (lvm.c) with the calls of ldo.c and   *)
(* the upvalues of lfunc.c, running what the compiler makes of a program,  *)
(* or what is left of it after a dump and a load.                          *)
(*                                                                         *)
(* One action is one instruction, with the call or the return it makes.    *)
(* Programs call two C functions: emit appends its arguments to out and    *)
(* returns them, iter(limit, n) is the step of an iterator.  Values are    *)
(* nil, booleans, numbers, strings, tables without metatables, closures    *)
(* and C functions; programs raise no errors.                              *)
(***************************************************************************)
EXTENDS LuaDump, FiniteSets, TLC

CONSTANTS
  Programs,     \* the programs, blocks by their names
  Compiler(_),  \* luaY_parser: the FuncState it makes of a block
  Loader(_, _), \* luaU_undump: a loader of bytes that come in pieces
  StackSize,    \* slots of the Lua stack
  Pieces,       \* sizes of the pieces in which a binary chunk is read
  Dumped        \* bound: the programs that are also dumped and loaded

ASSUME VMAssumption ==
  /\ StackSize \in Nat \ {0}
  /\ Pieces \subseteq Nat \ {0}
  /\ Dumped \subseteq DOMAIN Programs

VARIABLES
  prog,       \* the name of the program
  stage,      \* "source", "chunk", "run", "rejected" or "ended"
  main,       \* the FuncState of the program, then its prototype
  stack,      \* the Lua stack
  top,        \* L->top
  frames,     \* the CallInfos from base_ci to L->ci
  closures,   \* the closures: prototype and upvalues
  upvals,     \* the upvalues: open ones stand for a slot of the stack
  tables,     \* the tables, functions of their keys
  globals,    \* the table of globals
  out         \* what emit got

code == <<prog, stage, main>>
registers == <<stack, top>>
heap == <<closures, upvals, tables>>
vars == <<code, registers, frames, heap, globals, out>>

CFun(name) == <<"cfun", name>>
False(v) == v \in {Nil, Bool(FALSE)}
NoEntries == [k \in {} |-> Nil]
Get(t, k) == IF k \in DOMAIN t THEN t[k] ELSE Nil
Put(t, k, v) == IF v = Nil THEN [x \in DOMAIN t \ {k} |-> t[x]] ELSE (k :> v) @@ t

\* luaH_getn of a table without holes.
Border(t) == CHOOSE n \in 0..Cardinality(DOMAIN t) : Num(n + 1) \notin DOMAIN t

-----------------------------------------------------------------------------
(* Compile, dump and load. *)

Compile ==
  /\ stage = "source"
  /\ main' = Compiler(Programs[prog])
  /\ stage' = IF main'.err THEN "rejected" ELSE "chunk"
  /\ UNCHANGED <<prog, registers, frames, heap, globals, out>>

ChunkName == Str("@chunk")
Compiles == WithSource(Proto(main), ChunkName)

\* lua_call of a prototype with closure 1, on an empty stack.
Enter(p) ==
  /\ main' = p
  /\ stage' = "run"
  /\ closures' = <<[p |-> p, ups |-> <<>>]>>
  /\ stack' = [stack EXCEPT ![1] = <<"fun", 1>>]
  /\ top' = 2 + p.maxstack
  /\ frames' = Append(frames, [func |-> 1, base |-> 2, top |-> 2 + p.maxstack, pc |-> 0,
                               nresults |-> 0, tail |-> 0, cl |-> 1])
  /\ UNCHANGED <<prog, upvals, tables, globals, out>>

Start == stage = "chunk" /\ Enter(Compiles)

\* luaU_dump, then luaU_undump of all that was written.
DumpAndLoad ==
  /\ stage = "chunk"
  /\ prog \in Dumped
  /\ \E strip \in BOOLEAN, piece \in Pieces :
       LET s == Loader(Dump(Compiles, strip), piece)
       IN  ~ s.err /\ Enter(s.v)

-----------------------------------------------------------------------------
(* Registers, upvalues and calls. *)

Ci == Last(frames)
Running == stage = "run" /\ Len(frames) > 1
P == closures[Ci.cl].p
I == InstrAt(P, Ci.pc)
R(n) == stack[Ci.base + n]
Operand(x) == IF IsK(x) THEN P.k[x - BitRK + 1] ELSE R(x)
Ra == Ci.base + I.a

UpvalAt(u) == IF upvals[u].open THEN stack[upvals[u].level] ELSE upvals[u].v

\* L->savedpc, n instructions on.
Skip(n) == frames' = [frames EXCEPT ![Len(frames)].pc = @ + n]
Next1 == Skip(1)

\* luaF_close: the upvalues of the slots from level on get values of their own.
Close(us, level) ==
  [u \in DOMAIN us |-> IF us[u].open /\ us[u].level >= level
                       THEN [open |-> FALSE, level |-> 0, v |-> stack[us[u].level]] ELSE us[u]]

\* The slots from n on hold vs.
Placed(st, n, vs) == [m \in DOMAIN st |-> IF m >= n /\ m < n + Len(vs) THEN vs[m - n + 1] ELSE st[m]]
Slots(st, from, to) == [n \in 1 .. (IF to < from THEN 0 ELSE to - from) |-> st[from + n - 1]]
Nils(n) == [i \in 1 .. (IF n < 0 THEN 0 ELSE n) |-> Nil]

\* luaD_precall of a Lua function with the arguments up to t: its frame, the
\* stack and the table that adjust_varargs may create.
Args(func, t) == Slots(stack, func + 1, t)
Precall(func, t, nresults) ==
  LET p == closures[stack[func][2]].p
      args == Args(func, t)
      fixed == [n \in 1..p.numparams |-> IF n <= Len(args) THEN args[n] ELSE Nil]
      extra == IF Len(args) > p.numparams THEN SubSeq(args, p.numparams + 1, Len(args)) ELSE <<>>
      arg == [k \in {Num(n) : n \in {m \in DOMAIN extra : extra[m] # Nil}} |-> extra[k[2]]] @@ (Str("n") :> Num(Len(extra)))
      base == IF p.vararg.is THEN func + 1 + p.numparams + Len(extra) ELSE func + 1
      params == IF p.vararg.needs THEN Append(fixed, <<"table", Len(tables) + 1>>) ELSE fixed
      moved == IF p.vararg.is THEN Placed(Placed(stack, func + 1, Nils(p.numparams)),
                                          func + 1 + p.numparams, extra) ELSE stack
  IN  [stack |-> Placed(Placed(moved, base, params), base + Len(params), Nils(p.maxstack - Len(params))),
       top |-> base + p.maxstack,
       ci |-> [func |-> func, base |-> base, top |-> base + p.maxstack, pc |-> 0,
               nresults |-> nresults, tail |-> 0, cl |-> stack[func][2]],
       tables |-> IF p.vararg.needs THEN Append(tables, arg) ELSE tables]

\* luaD_poscall: wanted results, of those from first on, go to res.
Filled(st, res, vs, wanted) == Placed(Placed(st, res, Nils(wanted)), res, vs)
Poscall(st, res, vs, wanted) ==
  LET kept == IF wanted = MultRet \/ wanted >= Len(vs) THEN vs ELSE SubSeq(vs, 1, wanted)
  IN  [stack |-> Filled(st, res, kept, wanted),
       top |-> res + (IF wanted = MultRet THEN Len(vs) ELSE wanted)]

\* A C function: its results, and what is out afterwards.
Iter(args) ==
  LET n == IF args[2] = Nil THEN 0 ELSE args[2][2] IN IF n < args[1][2] THEN <<Num(n + 1)>> ELSE <<Nil>>
CResults(f, args) == IF f = CFun("emit") THEN args ELSE Iter(args)
COut(f, args) == IF f = CFun("emit") THEN out \o args ELSE out

-----------------------------------------------------------------------------
(* Instructions. *)

\* MOVE to CONCAT: those that compute a value for register A.
Operate(op, x, y) ==
  CASE op \in {"ADD", "SUB", "MUL", "MOD"} -> Num(Arith(op, x[2], y[2]))
    [] op = "EQ" -> x = y
    [] op = "LT" -> x[2] < y[2]
    [] op = "LE" -> x[2] <= y[2]

Join(vs) == FoldLeft(LAMBDA a, v : Str(a[2] \o v[2]), Str(""), vs)

Result ==
  CASE I.op = "MOVE" -> R(I.b)
    [] I.op = "LOADK" -> P.k[I.b + 1]
    [] I.op = "LOADBOOL" -> Bool(I.b # 0)
    [] I.op = "GETUPVAL" -> UpvalAt(closures[Ci.cl].ups[I.b + 1])
    [] I.op = "GETGLOBAL" -> Get(globals, P.k[I.b + 1])
    [] I.op = "GETTABLE" -> Get(tables[R(I.b)[2]], Operand(I.c))
    [] I.op \in {"ADD", "SUB", "MUL", "MOD"} -> Operate(I.op, Operand(I.b), Operand(I.c))
    [] I.op = "UNM" -> Num(0 - R(I.b)[2])
    [] I.op = "NOT" -> Bool(False(R(I.b)))
    [] I.op = "LEN" -> Num(IF R(I.b)[1] = "str" THEN Len(R(I.b)[2]) ELSE Border(tables[R(I.b)[2]]))
    [] I.op = "CONCAT" -> Join(Slots(stack, Ci.base + I.b, Ci.base + I.c + 1))

\* luaV_concat leaves its result in the first operand's register too.
SetRegister ==
  /\ Running
  /\ I.op \in {"MOVE", "LOADK", "LOADBOOL", "GETUPVAL", "GETGLOBAL", "GETTABLE", "ADD", "SUB",
               "MUL", "MOD", "UNM", "NOT", "LEN", "CONCAT"}
  /\ stack' = [stack EXCEPT ![Ra] = Result,
                            ![Ci.base + (IF I.op = "CONCAT" THEN I.b ELSE I.a)] = Result]
  /\ Skip(IF I.op = "LOADBOOL" /\ I.c # 0 THEN 2 ELSE 1)
  /\ UNCHANGED <<code, top, heap, globals, out>>

LoadNils ==
  /\ Running
  /\ I.op = "LOADNIL"
  /\ stack' = Placed(stack, Ra, Nils(I.b - I.a + 1))
  /\ Next1
  /\ UNCHANGED <<code, top, heap, globals, out>>

SetUpval ==
  /\ Running
  /\ I.op = "SETUPVAL"
  /\ LET u == closures[Ci.cl].ups[I.b + 1]
     IN  IF upvals[u].open
         THEN stack' = [stack EXCEPT ![upvals[u].level] = R(I.a)] /\ UNCHANGED upvals
         ELSE upvals' = [upvals EXCEPT ![u].v = R(I.a)] /\ UNCHANGED stack
  /\ Next1
  /\ UNCHANGED <<code, top, closures, tables, globals, out>>

SetGlobal ==
  /\ Running
  /\ I.op = "SETGLOBAL"
  /\ globals' = Put(globals, P.k[I.b + 1], R(I.a))
  /\ Next1
  /\ UNCHANGED <<code, registers, heap, out>>

NewTable ==
  /\ Running
  /\ I.op = "NEWTABLE"
  /\ tables' = Append(tables, NoEntries)
  /\ stack' = [stack EXCEPT ![Ra] = <<"table", Len(tables) + 1>>]
  /\ Next1
  /\ UNCHANGED <<code, top, closures, upvals, globals, out>>

SetTable ==
  /\ Running
  /\ I.op = "SETTABLE"
  /\ tables' = [tables EXCEPT ![R(I.a)[2]] = Put(@, Operand(I.b), Operand(I.c))]
  /\ Next1
  /\ UNCHANGED <<code, registers, closures, upvals, globals, out>>

\* With B = 0 the items end at the top.
SetItems ==
  /\ Running
  /\ I.op = "SETLIST"
  /\ LET items == Slots(stack, Ra + 1, IF I.b = 0 THEN top ELSE Ra + 1 + I.b)
         before == (I.c - 1) * FieldsPerFlush
         Stored(t, n) == Put(t, Num(before + n), items[n])
     IN  tables' = [tables EXCEPT ![R(I.a)[2]] = FoldLeft(Stored, @, [n \in DOMAIN items |-> n])]
  /\ top' = IF I.b = 0 THEN Ci.top ELSE top
  /\ Next1
  /\ UNCHANGED <<code, stack, closures, upvals, globals, out>>

SelfOp ==
  /\ Running
  /\ I.op = "SELF"
  /\ stack' = [stack EXCEPT ![Ra + 1] = R(I.b), ![Ra] = Get(tables[R(I.b)[2]], Operand(I.c))]
  /\ Next1
  /\ UNCHANGED <<code, top, heap, globals, out>>

\* dojump to where the jump at the next instruction goes, or past it.
Branch(taken) == Skip(IF taken THEN 2 + InstrAt(P, Ci.pc + 1).b ELSE 2)

JumpOp ==
  /\ Running
  /\ I.op = "JMP"
  /\ Skip(1 + I.b)
  /\ UNCHANGED <<code, registers, heap, globals, out>>

Compare ==
  /\ Running
  /\ I.op \in {"EQ", "LT", "LE"}
  /\ Branch(Operate(I.op, Operand(I.b), Operand(I.c)) = (I.a = 1))
  /\ UNCHANGED <<code, registers, heap, globals, out>>

Test ==
  /\ Running
  /\ I.op \in {"TEST", "TESTSET"}
  /\ LET v == R(IF I.op = "TEST" THEN I.a ELSE I.b)
         taken == False(v) # (I.c = 1)
     IN  /\ Branch(taken)
         /\ stack' = IF taken /\ I.op = "TESTSET" THEN [stack EXCEPT ![Ra] = v] ELSE stack
  /\ UNCHANGED <<code, top, heap, globals, out>>

\* The top of a call's arguments.
CallTop == IF I.b # 0 THEN Ra + I.b ELSE top

CallLua ==
  /\ Running
  /\ I.op = "CALL"
  /\ R(I.a)[1] = "fun"
  /\ LET c == Precall(Ra, CallTop, I.c - 1)
     IN  /\ stack' = c.stack
         /\ top' = c.top
         /\ frames' = Append([frames EXCEPT ![Len(frames)].pc = @ + 1], c.ci)
         /\ tables' = c.tables
  /\ UNCHANGED <<code, closures, upvals, globals, out>>

\* The top after a call that returned up to t: that of the frame, when the number
\* of results is known.  Mutant: it stays.
AsReturned(wanted, t) == t
TopAfter(wanted, t) == IF wanted = MultRet THEN t ELSE Ci.top

\* A C function returns at once; a tail call of one is an ordinary call.
CallC ==
  /\ Running
  /\ I.op \in {"CALL", "TAILCALL"}
  /\ R(I.a)[1] = "cfun"
  /\ LET args == Args(Ra, CallTop)
         wanted == IF I.op = "CALL" THEN I.c - 1 ELSE MultRet
         r == Poscall(stack, Ra, CResults(R(I.a), args), wanted)
     IN  /\ stack' = r.stack
         /\ top' = TopAfter(wanted, r.top)
         /\ out' = COut(R(I.a), args)
  /\ Next1
  /\ UNCHANGED <<code, heap, globals>>

\* The new frame is moved over the one that calls, whose upvalues are closed.
TailCall ==
  /\ Running
  /\ I.op = "TAILCALL"
  /\ R(I.a)[1] = "fun"
  /\ LET c == Precall(Ra, CallTop, MultRet)
         func == Ci.func
         base == func + c.ci.base - Ra
     IN  /\ stack' = Placed(c.stack, func, Slots(c.stack, Ra, c.top))
         /\ top' = func + c.top - Ra
         /\ frames' = [frames EXCEPT ![Len(frames)] =
              [c.ci EXCEPT !.func = func, !.base = base, !.top = func + c.top - Ra,
                           !.nresults = Ci.nresults, !.tail = Ci.tail + 1]]
         /\ tables' = c.tables
  /\ upvals' = Close(upvals, Ci.base)
  /\ UNCHANGED <<code, closures, globals, out>>

\* luaV_execute goes on in the caller, or ends with the main function.
Return ==
  /\ Running
  /\ I.op = "RETURN"
  /\ LET vs == Slots(stack, Ra, IF I.b # 0 THEN Ra + I.b - 1 ELSE top)
         r == Poscall(stack, Ci.func, vs, Ci.nresults)
         rest == Front(frames)
     IN  /\ stack' = r.stack
         /\ top' = IF Ci.nresults = MultRet \/ Len(rest) = 1 THEN r.top ELSE Last(rest).top
         /\ frames' = rest
         /\ stage' = IF Len(rest) = 1 THEN "ended" ELSE stage
  /\ upvals' = Close(upvals, Ci.base)
  /\ UNCHANGED <<prog, main, closures, tables, globals, out>>

ForPrep ==
  /\ Running
  /\ I.op = "FORPREP"
  /\ stack' = [stack EXCEPT ![Ra] = Num(@[2] - stack[Ra + 2][2])]
  /\ Skip(1 + I.b)
  /\ UNCHANGED <<code, top, heap, globals, out>>

ForLoop ==
  /\ Running
  /\ I.op = "FORLOOP"
  /\ LET step == stack[Ra + 2][2]
         idx == stack[Ra][2] + step
         limit == stack[Ra + 1][2]
         again == IF step > 0 THEN idx <= limit ELSE limit <= idx
     IN  /\ Skip(IF again THEN 1 + I.b ELSE 1)
         /\ stack' = IF again THEN [stack EXCEPT ![Ra] = Num(idx), ![Ra + 3] = Num(idx)] ELSE stack
  /\ UNCHANGED <<code, top, heap, globals, out>>

\* The iterator is called on copies of the three hidden variables.
TForLoop ==
  /\ Running
  /\ I.op = "TFORLOOP"
  /\ LET cb == Ra + 3
         args == <<stack[Ra + 1], stack[Ra + 2]>>
         r == Poscall(Placed(stack, cb, <<stack[Ra]>> \o args), cb, CResults(stack[Ra], args), I.c).stack
     IN  /\ stack' = IF r[cb] = Nil THEN r ELSE [r EXCEPT ![cb - 1] = r[cb]]
         /\ out' = COut(stack[Ra], args)
         /\ Branch(r[cb] # Nil)
  /\ top' = Ci.top
  /\ UNCHANGED <<code, heap, globals>>

CloseOp ==
  /\ Running
  /\ I.op = "CLOSE"
  /\ upvals' = Close(upvals, Ra)
  /\ Next1
  /\ UNCHANGED <<code, registers, closures, tables, globals, out>>

\* luaF_findupval: the open upvalue of a slot, a new one if there is none.
OpenAt(level) == {u \in DOMAIN upvals : upvals[u].open /\ upvals[u].level = level}

MakeClosure ==
  /\ Running
  /\ I.op = "CLOSURE"
  /\ LET p == P.p[I.b + 1]
         From(j) == InstrAt(P, Ci.pc + j)
         level(j) == Ci.base + From(j).b
         new == SetToSeq({level(j) : j \in {i \in 1..p.nups : From(i).op = "MOVE" /\ OpenAt(level(i)) = {}}})
         Upval(j) ==
           IF From(j).op = "GETUPVAL" THEN closures[Ci.cl].ups[From(j).b + 1]
           ELSE IF OpenAt(level(j)) # {} THEN CHOOSE u \in OpenAt(level(j)) : TRUE
           ELSE Len(upvals) + CHOOSE n \in DOMAIN new : new[n] = level(j)
     IN  /\ upvals' = upvals \o [n \in DOMAIN new |-> [open |-> TRUE, level |-> new[n], v |-> Nil]]
         /\ closures' = Append(closures, [p |-> p, ups |-> [j \in 1..p.nups |-> Upval(j)]])
         /\ Skip(1 + p.nups)
  /\ stack' = [stack EXCEPT ![Ra] = <<"fun", Len(closures) + 1>>]
  /\ UNCHANGED <<code, top, tables, globals, out>>

\* The arguments behind the fixed ones are below the base of the frame.
VarargOp ==
  /\ Running
  /\ I.op = "VARARG"
  /\ LET extra == Slots(stack, Ci.func + 1 + P.numparams, Ci.base)
         vs == IF I.b = 0 THEN extra ELSE SubSeq(extra \o Nils(I.b - 1), 1, I.b - 1)
     IN  /\ stack' = Placed(stack, Ra, vs)
         /\ top' = IF I.b = 0 THEN Ra + Len(extra) ELSE top
  /\ Next1
  /\ UNCHANGED <<code, heap, globals, out>>

Instruction ==
  \/ SetRegister \/ LoadNils \/ SetUpval \/ SetGlobal \/ NewTable \/ SetTable \/ SetItems
  \/ SelfOp \/ JumpOp \/ Compare \/ Test \/ CallLua \/ CallC \/ TailCall \/ Return
  \/ ForPrep \/ ForLoop \/ TForLoop \/ CloseOp \/ MakeClosure \/ VarargOp

Init ==
  /\ prog \in DOMAIN Programs
  /\ stage = "source"
  /\ main = Nil
  /\ stack = [n \in 0 .. StackSize - 1 |-> Nil]
  /\ top = 1
  /\ frames = <<[func |-> 0, base |-> 1, top |-> 1, pc |-> 0, nresults |-> 0, tail |-> 0, cl |-> 0]>>
  /\ closures = <<>> /\ upvals = <<>> /\ tables = <<>>
  /\ globals = [k \in {Str("emit"), Str("iter")} |-> CFun(k[2])]
  /\ out = <<>>

Finished == stage \in {"ended", "rejected"} /\ UNCHANGED vars

Next == Compile \/ Start \/ DumpAndLoad \/ Instruction \/ Finished

Spec == Init /\ [][Next]_vars

=============================================================================
