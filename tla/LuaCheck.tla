------------------------------ MODULE LuaCheck ------------------------------
(***************************************************************************)
(* Symbolic execution of bytecode (ldebug.c): whether the instructions of  *)
(* a prototype are consistent, and which instruction last changed a        *)
(* register, from which the debug interface names the value in it.         *)
(***************************************************************************)
EXTENDS LuaParser

\* luaP_opmodes: whether an instruction is a test, whether it sets register A,
\* and what B and C are: not used, any number, a register, or a register or
\* constant.  ABx and AsBx have one operand besides A, here b.
\* Mutant: TEST does not count as setting its register.
TestNoSet(op) == op \notin {"SETGLOBAL", "SETUPVAL", "SETTABLE", "JMP", "EQ", "LT", "LE",
                            "RETURN", "TFORLOOP", "SETLIST", "CLOSE", "TEST"}
SetsA(op) == op \notin {"SETGLOBAL", "SETUPVAL", "SETTABLE", "JMP", "EQ", "LT", "LE",
                        "RETURN", "TFORLOOP", "SETLIST", "CLOSE"}
BMode(op) ==
  CASE op \in {"MOVE", "LOADNIL", "GETTABLE", "SELF", "UNM", "NOT", "LEN", "CONCAT",
               "JMP", "TEST", "TESTSET", "FORLOOP", "FORPREP"} -> "R"
    [] op \in {"LOADK", "GETGLOBAL", "SETGLOBAL", "SETTABLE", "ADD", "SUB", "MUL", "MOD",
               "EQ", "LT", "LE"} -> "K"
    [] op \in {"TFORLOOP", "CLOSE"} -> "N"
    [] OTHER -> "U"
CMode(op) ==
  CASE op \in {"GETTABLE", "SETTABLE", "SELF", "ADD", "SUB", "MUL", "MOD", "EQ", "LT", "LE"} -> "K"
    [] op = "CONCAT" -> "R"
    [] op \in {"LOADBOOL", "NEWTABLE", "TEST", "TESTSET", "CALL", "TAILCALL", "TFORLOOP", "SETLIST"} -> "U"
    [] OTHER -> "N"
Format(op) ==
  CASE op \in {"LOADK", "GETGLOBAL", "SETGLOBAL", "CLOSURE"} -> "ABx"
    [] op \in {"JMP", "FORLOOP", "FORPREP"} -> "AsBx"
    [] OTHER -> "ABC"

Size(p) == Len(p.code)
InstrAt(p, pc) == p.code[pc + 1]
InRegs(p, r) == r < p.maxstack
Target(pc, i) == pc + 1 + i.b

ArgMode(p, r, mode) ==
  CASE mode = "N" -> r = 0
    [] mode = "R" -> InRegs(p, r)
    [] mode = "K" -> IF IsK(r) THEN r - BitRK < Len(p.k) ELSE r < p.maxstack
    [] OTHER -> TRUE

ArgsValid(p, pc, i) ==
  CASE Format(i.op) = "ABC" -> ArgMode(p, i.b, BMode(i.op)) /\ ArgMode(p, i.c, CMode(i.op))
    [] Format(i.op) = "ABx" -> BMode(i.op) = "K" => i.b < Len(p.k)
    [] OTHER -> Target(pc, i) \in 0 .. Size(p) - 1

\* precheck.
Prechecked(p) ==
  /\ p.maxstack <= MaxStack
  /\ p.numparams + (IF p.vararg.has THEN 1 ELSE 0) <= p.maxstack
  /\ p.vararg.needs => p.vararg.has
  /\ Len(p.upvalues) <= p.nups
  /\ Size(p) > 0 /\ InstrAt(p, Size(p) - 1).op = "RETURN"

\* luaG_checkopenop: an instruction that uses the values up to the top.
OpenOp(i) == i.op \in {"CALL", "TAILCALL", "RETURN", "SETLIST"} /\ i.b = 0

\* What the instruction at pc needs besides.  The count of a SETLIST is never so
\* large here that it takes the next instruction's place.
OpValid(p, pc, i) ==
  LET next == InstrAt(p, pc + 1)
      nup == p.p[i.b + 1].nups
  IN  CASE i.op = "LOADBOOL" -> i.c = 1 => pc + 2 < Size(p)
        [] i.op \in {"GETUPVAL", "SETUPVAL"} -> i.b < p.nups
        [] i.op \in {"GETGLOBAL", "SETGLOBAL"} -> p.k[i.b + 1][1] = "str"
        [] i.op = "SELF" -> InRegs(p, i.a + 1)
        [] i.op = "CONCAT" -> i.b < i.c
        [] i.op = "TFORLOOP" -> i.c >= 1 /\ InRegs(p, i.a + 2 + i.c)
        [] i.op \in {"FORLOOP", "FORPREP"} -> InRegs(p, i.a + 3)
        [] i.op \in {"CALL", "TAILCALL"} ->
             /\ i.b # 0 => InRegs(p, i.a + i.b - 1)
             /\ i.c = 0 => OpenOp(next)
             /\ i.c > 1 => InRegs(p, i.a + i.c - 2)
        [] i.op = "RETURN" -> i.b > 1 => InRegs(p, i.a + i.b - 2)
        [] i.op = "SETLIST" -> i.b > 0 => InRegs(p, i.a + i.b)
        [] i.op = "CLOSURE" ->
             /\ i.b < Len(p.p)
             /\ pc + nup < Size(p)
             /\ \A j \in 1..nup : InstrAt(p, pc + j).op \in {"GETUPVAL", "MOVE"}
        [] i.op = "VARARG" ->
             /\ p.vararg.is /\ ~ p.vararg.needs
             /\ i.b = 0 => OpenOp(next)
             /\ InRegs(p, i.a + i.b - 2)
        [] OTHER -> TRUE

InstrValid(p, pc) ==
  LET i == InstrAt(p, pc)
  IN  /\ InRegs(p, i.a)
      /\ ArgsValid(p, pc, i)
      /\ i.op \in Tests => pc + 2 < Size(p) /\ InstrAt(p, pc + 1).op = "JMP"
      /\ OpValid(p, pc, i)

\* Whether the instruction changes register reg.
Changes(i, reg) ==
  \/ SetsA(i.op) /\ i.a = reg
  \/ i.op = "LOADNIL" /\ i.a <= reg /\ reg <= i.b
  \/ i.op = "SELF" /\ reg = i.a + 1
  \/ i.op = "TFORLOOP" /\ reg >= i.a + 2
  \/ i.op \in {"CALL", "TAILCALL"} /\ reg >= i.a

\* Where symbexec goes on when it follows a register up to lastpc.
Follows(p, pc, i, lastpc) ==
  CASE i.op \in {"JMP", "FORLOOP", "FORPREP"} /\ pc < Target(pc, i) /\ Target(pc, i) <= lastpc -> Target(pc, i)
    [] i.op = "CLOSURE" -> pc + 1 + p.p[i.b + 1].nups
    [] OTHER -> pc + 1

\* symbexec for register reg: the instruction before lastpc that changed it.
RECURSIVE LastChange(_, _, _, _, _)
LastChange(p, pc, lastpc, reg, last) ==
  LET i == InstrAt(p, pc)
  IN  IF pc >= lastpc THEN InstrAt(p, last)
      ELSE LastChange(p, Follows(p, pc, i, lastpc), lastpc, reg, IF Changes(i, reg) THEN pc ELSE last)

SymbExec(p, lastpc, reg) == LastChange(p, 0, lastpc, reg, Size(p) - 1)

\* luaG_checkcode: symbexec for no register looks at every instruction.
CheckCode(p) == Prechecked(p) /\ \A pc \in 0 .. Size(p) - 1 : InstrValid(p, pc)

-----------------------------------------------------------------------------
(* Names of values. *)

\* luaF_getlocalname: the variables active at pc, of which the n-th is meant.
GetLocalName(p, n, pc) ==
  LET active == SelectSeq(p.locvars, LAMBDA v : v.startpc <= pc /\ pc < v.endpc)
  IN  IF n <= Len(active) THEN <<active[n].name>> ELSE <<>>

KName(p, c) == IF IsK(c) /\ p.k[c - BitRK + 1][1] = "str" THEN p.k[c - BitRK + 1][2] ELSE "?"

\* getobjname: what the value in a register is called at pc: <<kind, name>> or
\* nothing.
RECURSIVE GetObjName(_, _, _)
GetObjName(p, pc, reg) ==
  LET local == GetLocalName(p, reg + 1, pc)
      i == SymbExec(p, pc, reg)
  IN  CASE local # <<>> -> <<"local", local[1]>>
        [] local = <<>> /\ i.op = "GETGLOBAL" -> <<"global", p.k[i.b + 1][2]>>
        [] local = <<>> /\ i.op = "MOVE" /\ i.b < i.a -> GetObjName(p, pc, i.b)
        [] local = <<>> /\ i.op = "GETTABLE" -> <<"field", KName(p, i.c)>>
        [] local = <<>> /\ i.op = "GETUPVAL" ->
             <<"upvalue", IF i.b < Len(p.upvalues) THEN p.upvalues[i.b + 1] ELSE "?">>
        [] local = <<>> /\ i.op = "SELF" -> <<"method", KName(p, i.c)>>
        [] OTHER -> <<>>

=============================================================================
