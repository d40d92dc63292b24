------------------------------ MODULE LuaCode ------------------------------
(***************************************************************************)
(* The code generator of the compiler (lcode.c).                           *)
(*                                                                         *)
(* A function being compiled is a record fs, the FuncState; an operator    *)
(* takes it and returns it changed.  fs.e is the expdesc that the C        *)
(* functions pass around by reference.  Instructions are records; program  *)
(* counters count from 0 as in the code, so the instruction at pc is       *)
(* fs.code[pc + 1].  A list of jumps is threaded through the offsets of    *)
(* the jumps themselves and ends with NoJump.                              *)
(*                                                                         *)
(* fs.ok says that every lua_assert so far held, fs.err that the compiler  *)
(* would have raised a syntax error.                                       *)
(***************************************************************************)
EXTENDS Integers, Sequences

CONSTANTS
  MaxStack,         \* MAXSTACK: registers of a function
  FieldsPerFlush    \* LFIELDS_PER_FLUSH: list items stored at once

ASSUME CodeAssumption == MaxStack \in Nat /\ FieldsPerFlush \in Nat \ {0}

NoJump == -1
NoReg == 255
MultRet == -1
BitRK == 256       \* an operand from here on is a constant
IsK(rk) == rk >= BitRK

Nil == <<"nil">>
Bool(b) == <<"bool", b>>
Num(n) == <<"num", n>>
Str(s) == <<"str", s>>

\* An expression of kind k; info is its register, pc, constant or number.
Exp(k, info) == [k |-> k, info |-> info, aux |-> 0, t |-> NoJump, f |-> NoJump]

Instr(op, a, b, c) == [op |-> op, a |-> a, b |-> b, c |-> c]

\* testTMode: the instruction is a test, the next one its jump.
Tests == {"EQ", "LT", "LE", "TEST", "TESTSET", "TFORLOOP"}

Pc(fs) == Len(fs.code)
At(fs, pc) == fs.code[pc + 1]
Asserted(fs, p) == [fs EXCEPT !.ok = @ /\ p]

-----------------------------------------------------------------------------
(* Jumps. *)

GetJump(fs, pc) == LET offset == At(fs, pc).b
                   IN  IF offset = NoJump THEN NoJump ELSE pc + 1 + offset

FixJump(fs, pc, dest) == [fs EXCEPT !.code[pc + 1].b = dest - (pc + 1)]

RECURSIVE Jumps(_, _)
Jumps(fs, list) ==
  IF list = NoJump THEN {} ELSE {list} \cup Jumps(fs, GetJump(fs, list))

\* getjumpcontrol: the test that decides a jump, or the jump.
JumpControl(fs, pc) == IF pc >= 1 /\ At(fs, pc - 1).op \in Tests THEN pc - 1 ELSE pc

\* The jumps of a list whose test would also set a register.
Valued(fs, list) == {j \in Jumps(fs, list) : At(fs, JumpControl(fs, j)).op = "TESTSET"}

NeedValue(fs, list) == Jumps(fs, list) # Valued(fs, list)

\* patchtestreg: a TESTSET sets reg, or nothing when the value is there already.
TestReg(i, reg) ==
  IF reg # NoReg /\ reg # i.b THEN [i EXCEPT !.a = reg] ELSE Instr("TEST", i.b, 0, i.c)

\* patchlistaux: tests that set reg go to vtarget, the other jumps to dtarget.
PatchListAux(fs, list, vtarget, reg, dtarget) ==
  LET all == Jumps(fs, list)
      valued == Valued(fs, list)
      Dest(pc) == IF pc \in valued THEN vtarget ELSE dtarget
  IN  [fs EXCEPT !.code = [n \in DOMAIN @ |->
         IF n - 1 \in all THEN [@[n] EXCEPT !.b = Dest(n - 1) - n]
         ELSE IF n \in valued THEN TestReg(@[n], reg)
         ELSE @[n]]]

RemoveValues(fs, list) ==
  LET valued == Valued(fs, list)
  IN  [fs EXCEPT !.code = [n \in DOMAIN @ |-> IF n \in valued THEN TestReg(@[n], NoReg) ELSE @[n]]]

\* luaK_concat: l1 gets the jumps of l2; First is the list it becomes.
First(l1, l2) == IF l1 = NoJump THEN l2 ELSE l1
Linked(fs, l1, l2) ==
  IF l1 = NoJump \/ l2 = NoJump THEN fs
  ELSE FixJump(fs, CHOOSE j \in Jumps(fs, l1) : GetJump(fs, j) = NoJump, l2)

GetLabel(fs) == [fs EXCEPT !.lasttarget = Pc(fs)]

PatchToHere(fs, list) ==
  [GetLabel(Linked(fs, fs.jpc, list)) EXCEPT !.jpc = First(fs.jpc, list)]

PatchList(fs, list, target) ==
  IF target = Pc(fs) THEN PatchToHere(fs, list)
  ELSE PatchListAux(Asserted(fs, target < Pc(fs)), list, target, NoReg, target)

DischargeJpc(fs) ==
  [PatchListAux(fs, fs.jpc, Pc(fs), NoReg, Pc(fs)) EXCEPT !.jpc = NoJump]

\* luaK_codeABC, luaK_codeABx and luaK_codeAsBx; b holds Bx and sBx.
Code(fs, op, a, b, c) ==
  [DischargeJpc(fs) EXCEPT !.code = Append(@, Instr(op, a, b, c))]

\* The jump is at Pc(fs); jumps to it go where it goes.
Jump(fs) ==
  LET g == Code([fs EXCEPT !.jpc = NoJump], "JMP", 0, NoJump, 0)
  IN  Linked(g, Pc(fs), fs.jpc)

CondJump(fs, op, a, b, c) == Jump(Code(fs, op, a, b, c))

-----------------------------------------------------------------------------
(* Registers and constants. *)

CheckStack(fs, n) ==
  [fs EXCEPT !.maxstack = IF fs.freereg + n > @ THEN fs.freereg + n ELSE @,
             !.err = @ \/ fs.freereg + n >= MaxStack]

ReserveRegs(fs, n) == [CheckStack(fs, n) EXCEPT !.freereg = @ + n]

FreeReg(fs, reg) ==
  IF IsK(reg) \/ reg < fs.nactvar THEN fs
  ELSE [Asserted(fs, reg = fs.freereg - 1) EXCEPT !.freereg = @ - 1]

FreeExp(fs, e) == IF e.k = "VNONRELOC" THEN FreeReg(fs, e.info) ELSE fs

\* addk: a constant is entered once.
AddK(fs, v) == IF \E n \in DOMAIN fs.k : fs.k[n] = v THEN fs ELSE [fs EXCEPT !.k = Append(@, v)]
KIndex(fs, v) == (CHOOSE n \in DOMAIN fs.k : fs.k[n] = v) - 1

\* luaK_nil: registers are nil when a function starts, and two LOADNIL that
\* meet become one unless a jump leads between them.
LoadNil(fs, from, n) ==
  LET prev == At(fs, Pc(fs) - 1)
      last == from + n - 1
  IN  IF Pc(fs) > fs.lasttarget /\ Pc(fs) = 0 /\ from >= fs.nactvar THEN fs
      ELSE IF /\ Pc(fs) > fs.lasttarget /\ Pc(fs) > 0
              /\ prev.op = "LOADNIL" /\ prev.a <= from /\ from <= prev.b + 1
           THEN [fs EXCEPT !.code[Pc(fs)].b = IF last > @ THEN last ELSE @]
      ELSE Code(fs, "LOADNIL", from, last, 0)

-----------------------------------------------------------------------------
(* Expressions: giving fs.e a register, a constant or jumps. *)

HasJumps(e) == e.t # e.f
IsNumeral(e) == e.k = "VKNUM" /\ ~ HasJumps(e)
HasMultRet(k) == k \in {"VCALL", "VVARARG"}

SetReturns(fs, n) ==
  CASE fs.e.k = "VCALL" -> [fs EXCEPT !.code[fs.e.info + 1].c = n + 1]
    [] fs.e.k = "VVARARG" ->
         ReserveRegs([fs EXCEPT !.code[fs.e.info + 1].b = n + 1,
                                !.code[fs.e.info + 1].a = fs.freereg], 1)
    [] OTHER -> fs

SetMultRet(fs) == SetReturns(fs, MultRet)

SetOneRet(fs) ==
  CASE fs.e.k = "VCALL" -> [fs EXCEPT !.e.k = "VNONRELOC", !.e.info = At(fs, fs.e.info).a]
    [] fs.e.k = "VVARARG" -> [fs EXCEPT !.code[fs.e.info + 1].b = 2, !.e.k = "VRELOCABLE"]
    [] OTHER -> fs

\* fs.e becomes the value of the instruction that is coded next.
Relocable(fs, op, a, b, c) ==
  LET g == Code(fs, op, a, b, c)
  IN  [g EXCEPT !.e.k = "VRELOCABLE", !.e.info = Pc(g) - 1]

DischargeVars(fs) ==
  LET e == fs.e IN
  CASE e.k = "VLOCAL" -> [fs EXCEPT !.e.k = "VNONRELOC"]
    [] e.k = "VUPVAL" -> Relocable(fs, "GETUPVAL", 0, e.info, 0)
    [] e.k = "VGLOBAL" -> Relocable(fs, "GETGLOBAL", 0, e.info, 0)
    [] e.k = "VINDEXED" -> Relocable(FreeReg(FreeReg(fs, e.aux), e.info), "GETTABLE", 0, e.info, e.aux)
    [] OTHER -> SetOneRet(fs)

InRegister(fs, reg) == [fs EXCEPT !.e.k = "VNONRELOC", !.e.info = reg]

Discharge2Reg(fs0, reg) ==
  LET fs == DischargeVars(fs0)
      e == fs.e
      g == AddK(fs, Num(e.info))
  IN  CASE e.k = "VNIL" -> InRegister(LoadNil(fs, reg, 1), reg)
        [] e.k \in {"VFALSE", "VTRUE"} ->
             InRegister(Code(fs, "LOADBOOL", reg, IF e.k = "VTRUE" THEN 1 ELSE 0, 0), reg)
        [] e.k = "VK" -> InRegister(Code(fs, "LOADK", reg, e.info, 0), reg)
        [] e.k = "VKNUM" -> InRegister(Code(g, "LOADK", reg, KIndex(g, Num(e.info)), 0), reg)
        [] e.k = "VRELOCABLE" -> InRegister([fs EXCEPT !.code[e.info + 1].a = reg], reg)
        [] e.k = "VNONRELOC" ->
             InRegister(IF reg = e.info THEN fs ELSE Code(fs, "MOVE", reg, e.info, 0), reg)
        [] OTHER -> Asserted(fs, e.k \in {"VVOID", "VJMP"})

Discharge2AnyReg(fs) ==
  IF fs.e.k = "VNONRELOC" THEN fs
  ELSE LET g == ReserveRegs(fs, 1) IN Discharge2Reg(g, g.freereg - 1)

\* The jumps of an expression end behind it; those that carry no value pass
\* through two LOADBOOL.
NeedsLoads(fs, e) == NeedValue(fs, e.t) \/ NeedValue(fs, e.f)
Exp2Reg(fs0, reg) ==
  LET fs1 == Discharge2Reg(fs0, reg)
      jmp == fs1.e.k = "VJMP"
      fs == IF jmp THEN [Linked(fs1, fs1.e.t, fs1.e.info) EXCEPT !.e.t = First(@, fs1.e.info)] ELSE fs1
      e == fs.e
      loads == NeedsLoads(fs, e)
      over == IF loads /\ ~ jmp THEN Jump(fs) ELSE fs
      pf == Pc(over)
      both == Code(GetLabel(Code(GetLabel(over), "LOADBOOL", reg, 0, 1)), "LOADBOOL", reg, 1, 0)
      placed == IF ~ loads THEN fs ELSE PatchToHere(both, IF jmp THEN NoJump ELSE Pc(fs))
      final == Pc(placed)
      falses == PatchListAux(GetLabel(placed), e.f, final, reg, IF loads THEN pf ELSE NoJump)
      trues == PatchListAux(falses, e.t, final, reg, IF loads THEN pf + 1 ELSE NoJump)
      done == IF HasJumps(e) THEN trues ELSE fs
  IN  [done EXCEPT !.e.t = NoJump, !.e.f = NoJump, !.e.info = reg, !.e.k = "VNONRELOC"]

Exp2NextReg(fs) ==
  LET g == DischargeVars(fs)
      h == ReserveRegs(FreeExp(g, g.e), 1)
  IN  Exp2Reg(h, h.freereg - 1)

Exp2AnyReg(fs) ==
  LET g == DischargeVars(fs) IN
  IF g.e.k = "VNONRELOC" /\ ~ HasJumps(g.e) THEN g
  ELSE IF g.e.k = "VNONRELOC" /\ g.e.info >= g.nactvar THEN Exp2Reg(g, g.e.info)
  ELSE Exp2NextReg(g)

Exp2Val(fs) == IF HasJumps(fs.e) THEN Exp2AnyReg(fs) ELSE DischargeVars(fs)

\* luaK_exp2RK; RK is the operand it returns.  Functions with more than 256
\* constants are not modelled.
RK(e) == IF e.k = "VK" THEN BitRK + e.info ELSE e.info
Constant(e) ==
  CASE e.k = "VNIL" -> Nil
    [] e.k = "VKNUM" -> Num(e.info)
    [] OTHER -> Bool(e.k = "VTRUE")
Exp2RK(fs) ==
  LET g == Exp2Val(fs)
      v == Constant(g.e)
      h == AddK(g, v)
  IN  CASE g.e.k \in {"VKNUM", "VTRUE", "VFALSE", "VNIL"} ->
             [h EXCEPT !.e.info = KIndex(h, v), !.e.k = "VK"]
        [] g.e.k = "VK" -> g
        [] OTHER -> Exp2AnyReg(g)

\* luaK_storevar: fs.e is stored in var.
StoreVar(fs, var) ==
  LET g == Exp2AnyReg(fs)
      h == Exp2RK(fs)
  IN  CASE var.k = "VLOCAL" -> Exp2Reg(FreeExp(fs, fs.e), var.info)
        [] var.k = "VUPVAL" -> FreeExp(Code(g, "SETUPVAL", g.e.info, var.info, 0), g.e)
        [] var.k = "VGLOBAL" -> FreeExp(Code(g, "SETGLOBAL", g.e.info, var.info, 0), g.e)
        [] var.k = "VINDEXED" -> FreeExp(Code(h, "SETTABLE", var.info, var.aux, RK(h.e)), h.e)

\* luaK_self: the function and its object, for the method with constant key.
Self(fs, key) ==
  LET g == Exp2AnyReg(fs)
      h == ReserveRegs(FreeExp(g, g.e), 2)
      func == h.freereg - 2
  IN  InRegister(Code(h, "SELF", func, g.e.info, RK(key)), func)

\* luaK_indexed: table t, indexed by fs.e.
Indexed(fs, t) ==
  LET g == Exp2RK(fs) IN [g EXCEPT !.e = [t EXCEPT !.aux = RK(g.e), !.k = "VINDEXED"]]

-----------------------------------------------------------------------------
(* Conditions and operators. *)

InvertJump(fs) ==
  LET pc == JumpControl(fs, fs.e.info)
      i == At(fs, pc)
  IN  [Asserted(fs, i.op \in Tests \ {"TESTSET", "TEST"}) EXCEPT !.code[pc + 1].a = 1 - @]

\* The new jump is the last instruction.
JumpOnCond(fs, cond) ==
  LET ie == At(fs, fs.e.info)
      g == Discharge2AnyReg(fs)
  IN  IF fs.e.k = "VRELOCABLE" /\ ie.op = "NOT"
      THEN CondJump([fs EXCEPT !.code = SubSeq(@, 1, Len(@) - 1)], "TEST", ie.b, 0, 1 - cond)
      ELSE CondJump(FreeExp(g, g.e), "TESTSET", NoReg, g.e.info, cond)

GoIfTrue(fs) ==
  LET g == DischargeVars(fs)
      j == IF g.e.k = "VJMP" THEN InvertJump(g) ELSE JumpOnCond(g, 0)
      pc == IF g.e.k = "VJMP" THEN g.e.info ELSE Pc(j) - 1
      h == IF g.e.k \in {"VK", "VKNUM", "VTRUE"} THEN g
           ELSE [Linked(j, j.e.f, pc) EXCEPT !.e.f = First(@, pc)]
  IN  [PatchToHere(h, h.e.t) EXCEPT !.e.t = NoJump]

GoIfFalse(fs) ==
  LET g == DischargeVars(fs)
      j == IF g.e.k = "VJMP" THEN g ELSE JumpOnCond(g, 1)
      pc == IF g.e.k = "VJMP" THEN g.e.info ELSE Pc(j) - 1
      h == IF g.e.k \in {"VNIL", "VFALSE"} THEN g
           ELSE [Linked(j, j.e.t, pc) EXCEPT !.e.t = First(@, pc)]
  IN  [PatchToHere(h, h.e.f) EXCEPT !.e.f = NoJump]

CodeNot(fs) ==
  LET g == DischargeVars(fs)
      r == Discharge2AnyReg(g)
      h == CASE g.e.k \in {"VNIL", "VFALSE"} -> [g EXCEPT !.e.k = "VTRUE"]
             [] g.e.k \in {"VK", "VKNUM", "VTRUE"} -> [g EXCEPT !.e.k = "VFALSE"]
             [] g.e.k = "VJMP" -> InvertJump(g)
             [] OTHER -> Relocable(FreeExp(r, r.e), "NOT", 0, r.e.info, 0)
      swapped == [h EXCEPT !.e.t = h.e.f, !.e.f = h.e.t]
  IN  RemoveValues(RemoveValues(swapped, swapped.e.f), swapped.e.t)

Arith(op, m, n) ==
  CASE op = "ADD" -> m + n
    [] op = "SUB" -> m - n
    [] op = "MUL" -> m * n
    [] op = "MOD" -> m % n
    [] op = "UNM" -> 0 - m

\* constfolding.
Folds(op, e1, e2) ==
  /\ IsNumeral(e1) /\ IsNumeral(e2)
  /\ op \in {"ADD", "SUB", "MUL", "UNM"} \/ (op = "MOD" /\ e2.info # 0)

\* codearith: e1 op fs.e.  Mutant: the operands are freed in the wrong order.
FreeFirst(fs, o1, o2, e1, e2) == FreeExp(FreeExp(fs, e1), e2)
FreeBoth(fs, o1, o2, e1, e2) ==
  IF o1 > o2 THEN FreeExp(FreeExp(fs, e1), e2) ELSE FreeExp(FreeExp(fs, e2), e1)
CodeArith(fs, op, e1) ==
  LET unary == op \in {"UNM", "LEN"}
      g == IF unary THEN fs ELSE Exp2RK(fs)
      o2 == IF unary THEN 0 ELSE RK(g.e)
      h == Exp2RK([g EXCEPT !.e = e1])
  IN  IF Folds(op, e1, fs.e)
      THEN [fs EXCEPT !.e = [e1 EXCEPT !.info = Arith(op, e1.info, fs.e.info)]]
      ELSE Relocable(FreeBoth(h, RK(h.e), o2, h.e, g.e), op, 0, RK(h.e), o2)

\* codecomp: e1 op fs.e; > and >= exchange their operands.
CodeComp(fs, op, cond, e1) ==
  LET h == Exp2RK([fs EXCEPT !.e = e1])
      g == Exp2RK([h EXCEPT !.e = fs.e])
      o1 == RK(h.e)
      o2 == RK(g.e)
      free == FreeExp(FreeExp(g, g.e), h.e)
      j == IF cond = 0 /\ op # "EQ" THEN CondJump(free, op, 1, o2, o1) ELSE CondJump(free, op, cond, o1, o2)
  IN  [j EXCEPT !.e = [h.e EXCEPT !.k = "VJMP", !.info = Pc(j) - 1]]

Prefix(fs, op) ==
  LET g == IF op = "len" \/ ~ IsNumeral(fs.e) THEN Exp2AnyReg(fs) ELSE fs
  IN  IF op = "not" THEN CodeNot(fs)
      ELSE CodeArith([g EXCEPT !.e = Exp("VKNUM", 0)], IF op = "neg" THEN "UNM" ELSE "LEN", g.e)

Infix(fs, op) ==
  CASE op = "and" -> GoIfTrue(fs)
    [] op = "or" -> GoIfFalse(fs)
    [] op = ".." -> Exp2NextReg(fs)
    [] op \in {"+", "-", "*", "%"} -> IF IsNumeral(fs.e) THEN fs ELSE Exp2RK(fs)
    [] OTHER -> Exp2RK(fs)

\* The second operand of .. is a concatenation too: one CONCAT does both.
PosfixConcat(fs, e1) ==
  LET g == Exp2Val(fs)
      i == At(g, g.e.info)
      h == Asserted(FreeExp(g, e1), e1.info = i.b - 1)
  IN  IF g.e.k = "VRELOCABLE" /\ i.op = "CONCAT"
      THEN [h EXCEPT !.code[g.e.info + 1].b = e1.info,
                     !.e = [e1 EXCEPT !.k = "VRELOCABLE", !.info = g.e.info]]
      ELSE CodeArith(Exp2NextReg(g), "CONCAT", e1)

\* luaK_posfix: e1 op fs.e.
Posfix(fs, op, e1) ==
  LET g == DischargeVars(fs) IN
  CASE op = "and" -> Asserted([Linked(g, g.e.f, e1.f) EXCEPT !.e.f = First(@, e1.f)], e1.t = NoJump)
    [] op = "or" -> Asserted([Linked(g, g.e.t, e1.t) EXCEPT !.e.t = First(@, e1.t)], e1.f = NoJump)
    [] op = ".." -> PosfixConcat(fs, e1)
    [] op = "+" -> CodeArith(fs, "ADD", e1)
    [] op = "-" -> CodeArith(fs, "SUB", e1)
    [] op = "*" -> CodeArith(fs, "MUL", e1)
    [] op = "%" -> CodeArith(fs, "MOD", e1)
    [] op = "==" -> CodeComp(fs, "EQ", 1, e1)
    [] op = "~=" -> CodeComp(fs, "EQ", 0, e1)
    [] op = "<" -> CodeComp(fs, "LT", 1, e1)
    [] op = "<=" -> CodeComp(fs, "LE", 1, e1)
    [] op = ">" -> CodeComp(fs, "LT", 0, e1)
    [] op = ">=" -> CodeComp(fs, "LE", 0, e1)

Ret(fs, first, n) == Code(fs, "RETURN", first, n + 1, 0)

\* luaK_setlist: the last tostore of n items, registers above base.
SetList(fs, base, n, tostore) ==
  [Code(fs, "SETLIST", base, IF tostore = MultRet THEN 0 ELSE tostore, (n - 1) \div FieldsPerFlush + 1)
     EXCEPT !.freereg = base + 1]

=============================================================================
