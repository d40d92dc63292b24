----------------------------- MODULE LuaParser -----------------------------
(***************************************************************************)
(* The parser (lparser.c): blocks, scopes and upvalues, statements and     *)
(* expressions, and the code they become.                                  *)
(*                                                                         *)
(* The parser is one pass over tokens; here it walks the tree that the     *)
(* tokens spell, in the order in which the code reads it.  A tree is a     *)
(* tuple with its kind first.  Expressions:                                *)
(*   <<"nil">> <<"true">> <<"false">> <<"num", n>> <<"str", s>> <<"dots">> *)
(*   <<"name", x>> <<"paren", e>> <<"index", e, e>> <<"call", e, es>>      *)
(*   <<"method", e, x, es>> <<"function", xs, dots, stats>>                *)
(*   <<"table", items>> <<"un", op, e>> <<"bin", op, e, e>>                *)
(* where an item is <<"item", e>> or <<"pair", e, e>>, and statements:     *)
(*   <<"local", xs, es>> <<"assign", es, es>> <<"eval", e>> <<"do", b>>    *)
(*   <<"while", e, b>> <<"repeat", b, e>> <<"for", x, es, b>>              *)
(*   <<"forin", xs, es, b>> <<"if", <<<<e, b>>, ...>>, else>>              *)
(*   <<"localfunction", x, e>> <<"functionstat", e, e>> <<"return", es>>   *)
(*   <<"break">>                                                           *)
(***************************************************************************)
EXTENDS LuaCode, SequencesExt

\* open_func: a FuncState inside those of outer, which is empty or one.
OpenFunc(outer) ==
  [prev |-> outer, code |-> <<>>, k |-> <<>>, p |-> <<>>, freereg |-> 0,
   nactvar |-> 0, actvar |-> <<>>, locvars |-> <<>>, bl |-> <<>>, jpc |-> NoJump,
   lasttarget |-> -1, ups |-> <<>>, maxstack |-> 2, numparams |-> 0,
   vararg |-> [is |-> FALSE, has |-> FALSE, needs |-> FALSE],
   e |-> Exp("VVOID", 0), ok |-> TRUE, err |-> FALSE]

-----------------------------------------------------------------------------
(* Local variables, blocks and upvalues. *)

NewLocalVar(fs, x) ==
  [fs EXCEPT !.actvar = Append(@, Len(fs.locvars) + 1),
             !.locvars = Append(@, [name |-> x, startpc |-> 0, endpc |-> 0])]

NewLocalVars(fs, xs) == FoldLeft(NewLocalVar, fs, xs)

AdjustLocalVars(fs, n) ==
  [fs EXCEPT !.nactvar = @ + n,
             !.locvars = [v \in DOMAIN @ |->
                IF \E i \in fs.nactvar + 1 .. fs.nactvar + n : fs.actvar[i] = v
                THEN [@[v] EXCEPT !.startpc = Pc(fs)] ELSE @[v]]]

RemoveVars(fs, level) ==
  [fs EXCEPT !.nactvar = level,
             !.actvar = SubSeq(@, 1, level),
             !.locvars = [v \in DOMAIN @ |->
                IF \E i \in level + 1 .. fs.nactvar : fs.actvar[i] = v
                THEN [@[v] EXCEPT !.endpc = Pc(fs)] ELSE @[v]]]

\* searchvar: the innermost active variable of that name, from 0, or -1.
SearchVar(fs, x) ==
  LET found == {i \in 1..fs.nactvar : fs.locvars[fs.actvar[i]].name = x}
  IN  IF found = {} THEN -1 ELSE (CHOOSE i \in found : \A j \in found : j <= i) - 1

\* markupval: the block that declares a variable must close it.
MarkUpval(fs, level) ==
  LET declares == {n \in DOMAIN fs.bl : fs.bl[n].nactvar <= level}
      bl == CHOOSE n \in declares : \A m \in declares : m <= n
  IN  IF declares = {} THEN fs ELSE [fs EXCEPT !.bl[bl].upval = TRUE]

\* indexupvalue: an upvalue is entered once, by what it refers to.
IndexUpvalue(fs, x) ==
  LET u == [name |-> x, k |-> fs.e.k, info |-> fs.e.info]
      same == {i \in DOMAIN fs.ups : fs.ups[i].k = u.k /\ fs.ups[i].info = u.info}
      g == IF same = {} THEN [fs EXCEPT !.ups = Append(@, u)]
           ELSE Asserted(fs, \A i \in same : fs.ups[i].name = x)
  IN  [g EXCEPT !.e = Exp("VUPVAL", (CHOOSE i \in DOMAIN g.ups :
                                        g.ups[i].k = u.k /\ g.ups[i].info = u.info) - 1)]

\* singlevaraux; base says that this is the function that uses the name.
RECURSIVE SingleVarAux(_, _, _)
SingleVarAux(fs, x, base) ==
  LET v == SearchVar(fs, x)
      outer == SingleVarAux(fs.prev[1], x, FALSE)
      inner == [fs EXCEPT !.prev = <<outer>>, !.e = outer.e]
  IN  IF v >= 0 THEN [(IF base THEN fs ELSE MarkUpval(fs, v)) EXCEPT !.e = Exp("VLOCAL", v)]
      ELSE IF fs.prev = <<>> \/ outer.e.k = "VGLOBAL" THEN [fs EXCEPT !.e = Exp("VGLOBAL", NoReg)]
      ELSE IndexUpvalue(inner, x)

SingleVar(fs, x) ==
  LET g == SingleVarAux(fs, x, TRUE)
      h == AddK(g, Str(x))
  IN  IF g.e.k = "VGLOBAL" THEN [h EXCEPT !.e.info = KIndex(h, Str(x))] ELSE g

EnterBlock(fs, isbreakable) ==
  [Asserted(fs, fs.freereg = fs.nactvar) EXCEPT
     !.bl = Append(@, [breaklist |-> NoJump, nactvar |-> fs.nactvar,
                       upval |-> FALSE, isbreakable |-> isbreakable])]

\* What a block does to its variables when it is left.
CloseUpvals(fs, bl) == IF bl.upval THEN Code(fs, "CLOSE", bl.nactvar, 0, 0) ELSE fs
LeaveBlock(fs) ==
  LET bl == Last(fs.bl)
      g == CloseUpvals(RemoveVars([fs EXCEPT !.bl = Front(@)], bl.nactvar), bl)
      h == Asserted(g, ~ bl.isbreakable \/ ~ bl.upval)
  IN  PatchToHere([h EXCEPT !.freereg = h.nactvar], bl.breaklist)

\* What close_func leaves of a FuncState.
Proto(fs) ==
  [code |-> fs.code, k |-> fs.k, p |-> fs.p, nups |-> Len(fs.ups),
   upvalues |-> [u \in DOMAIN fs.ups |-> fs.ups[u].name],
   numparams |-> fs.numparams, vararg |-> fs.vararg,
   maxstack |-> fs.maxstack, locvars |-> fs.locvars]

CloseFunc(fs) ==
  LET g == Ret(RemoveVars(fs, 0), 0, 0) IN Asserted(g, g.bl = <<>>)

\* The pseudo-instructions behind CLOSURE say what each upvalue refers to.
RECURSIVE CaptureFrom(_, _)
CaptureFrom(fs, ups) ==
  IF ups = <<>> THEN fs
  ELSE CaptureFrom(Code(fs, IF Head(ups).k = "VLOCAL" THEN "MOVE" ELSE "GETUPVAL", 0, Head(ups).info, 0),
                   Tail(ups))

PushClosure(func) ==
  LET fs == [func.prev[1] EXCEPT !.p = Append(@, Proto(func)),
                                 !.ok = @ /\ func.ok, !.err = @ \/ func.err]
      g == Relocable([fs EXCEPT !.e = Exp("VVOID", 0)], "CLOSURE", 0, Len(fs.p) - 1, 0)
  IN  CaptureFrom(g, func.ups)

\* The registers of the variables that an expression list must fill.
AdjustAssign(fs, nvars, nexps) ==
  LET extra == nvars - nexps
      more == IF extra + 1 < 0 THEN 0 ELSE extra + 1
      g == SetReturns(fs, more)
      h == IF fs.e.k = "VVOID" THEN fs ELSE Exp2NextReg(fs)
      r == ReserveRegs(h, extra)
  IN  IF HasMultRet(fs.e.k) THEN IF more > 1 THEN ReserveRegs(g, more - 1) ELSE g
      ELSE IF extra > 0 THEN LoadNil(r, h.freereg, extra) ELSE h

-----------------------------------------------------------------------------
(* Expressions. *)

RECURSIVE Expr(_, _), ExpList1(_, _), PrimaryExp(_, _), Items(_, _, _), Chunk(_, _), IfClauses(_, _, _, _)

\* body and parlist; dots declares the old variable arg.
Body(fs, f) ==
  LET open == NewLocalVars(OpenFunc(<<fs>>), IF f[3] THEN Append(f[2], "arg") ELSE f[2])
      n == Len(open.actvar)
      g == [AdjustLocalVars(open, n) EXCEPT
              !.vararg = [is |-> f[3], has |-> f[3], needs |-> f[3]], !.numparams = Len(f[2])]
  IN  PushClosure(CloseFunc(Chunk(ReserveRegs(g, n), f[4])))

\* closelistfield: the last list item goes to its register, and when enough
\* are there, into the table.  cc is the ConsControl.
CloseListField(fs, cc) ==
  LET g == Exp2NextReg(fs)
      full == cc.tostore = FieldsPerFlush
  IN  IF ~ cc.item THEN [fs |-> fs, cc |-> cc]
      ELSE [fs |-> IF full THEN SetList(g, cc.t, cc.na, cc.tostore) ELSE g,
            cc |-> [cc EXCEPT !.item = FALSE, !.tostore = IF full THEN 0 ELSE @]]

LastListField(fs, cc) ==
  CASE cc.tostore = 0 -> fs
    [] cc.tostore > 0 /\ cc.item /\ HasMultRet(fs.e.k) -> SetList(SetMultRet(fs), cc.t, cc.na, MultRet)
    [] OTHER -> SetList(IF cc.item THEN Exp2NextReg(fs) ELSE fs, cc.t, cc.na, cc.tostore)

\* recfield: a key and its value, whose registers are free again afterwards.
RecField(fs, cc, key, val) ==
  LET g == Exp2RK(Exp2Val(Expr(fs, key)))
      h == Exp2RK(Expr(g, val))
  IN  [Code(h, "SETTABLE", cc.t, RK(g.e), RK(h.e)) EXCEPT !.freereg = fs.freereg]

Items(fs, items, cc) ==
  LET c == CloseListField(fs, cc)
      i == Head(items)
  IN  IF items = <<>> THEN LastListField(fs, cc)
      ELSE IF i[1] = "item"
      THEN Items(Expr(c.fs, i[2]), Tail(items),
                 [c.cc EXCEPT !.item = TRUE, !.na = @ + 1, !.tostore = @ + 1])
      ELSE Items(RecField(c.fs, c.cc, i[2], i[3]), Tail(items), c.cc)

\* The sizes that NEWTABLE gives the table are left out.
Constructor(fs, items) ==
  LET g == Exp2NextReg(Relocable([fs EXCEPT !.e = Exp("VVOID", 0)], "NEWTABLE", 0, 0, 0))
      cc == [t |-> g.e.info, na |-> 0, tostore |-> 0, item |-> FALSE]
  IN  [Items(g, items, cc) EXCEPT !.e = g.e]

ExpList1(fs, es) ==
  IF Len(es) = 1 THEN Expr(fs, es[1]) ELSE Expr(Exp2NextReg(ExpList1(fs, Front(es))), Last(es))

FuncArgs(fs, es) ==
  LET base == fs.e.info
      g == IF es = <<>> THEN fs ELSE SetMultRet(ExpList1(fs, es))
      open == es # <<>> /\ HasMultRet(g.e.k)
      h == IF es = <<>> \/ open THEN g ELSE Exp2NextReg(g)
      n == IF open THEN MultRet ELSE h.freereg - (base + 1)
      c == Code(Asserted(h, fs.e.k = "VNONRELOC"), "CALL", base, n + 1, 2)
  IN  [c EXCEPT !.e = Exp("VCALL", Pc(c) - 1), !.freereg = base + 1]

PrimaryExp(fs, a) ==
  CASE a[1] = "name" -> SingleVar(fs, a[2])
    [] a[1] = "paren" -> DischargeVars(Expr(fs, a[2]))
    [] a[1] = "index" -> LET t == Exp2AnyReg(PrimaryExp(fs, a[2]))
                         IN  Indexed(Exp2Val(Expr(t, a[3])), t.e)
    [] a[1] = "call" -> FuncArgs(Exp2NextReg(PrimaryExp(fs, a[2])), a[3])
    [] a[1] = "method" -> LET o == PrimaryExp(fs, a[2])
                              g == AddK(o, Str(a[3]))
                          IN  FuncArgs(Self(g, Exp("VK", KIndex(g, Str(a[3])))), a[4])

String(fs, s) == LET g == AddK(fs, Str(s)) IN [g EXCEPT !.e = Exp("VK", KIndex(g, Str(s)))]

Dots(fs) ==
  LET g == Relocable([fs EXCEPT !.err = @ \/ ~ fs.vararg.is, !.vararg.needs = FALSE,
                                !.e = Exp("VVOID", 0)], "VARARG", 0, 1, 0)
  IN  [g EXCEPT !.e.k = "VVARARG"]

\* subexpr and simpleexp; the tree gives the operators their precedence.
Expr(fs, a) ==
  CASE a[1] = "nil" -> [fs EXCEPT !.e = Exp("VNIL", 0)]
    [] a[1] = "true" -> [fs EXCEPT !.e = Exp("VTRUE", 0)]
    [] a[1] = "false" -> [fs EXCEPT !.e = Exp("VFALSE", 0)]
    [] a[1] = "num" -> [fs EXCEPT !.e = Exp("VKNUM", a[2])]
    [] a[1] = "str" -> String(fs, a[2])
    [] a[1] = "dots" -> Dots(fs)
    [] a[1] = "table" -> Constructor(fs, a[2])
    [] a[1] = "function" -> Body(fs, a)
    [] a[1] = "un" -> Prefix(Expr(fs, a[3]), a[2])
    [] a[1] = "bin" -> LET g == Infix(Expr(fs, a[3]), a[2])
                           h == Expr(g, a[4])
                       IN  IF g.err \/ h.err THEN h ELSE Posfix(h, a[2], g.e)
    [] OTHER -> PrimaryExp(fs, a)

-----------------------------------------------------------------------------
(* Statements. *)

Block(fs, b) == LeaveBlock(Chunk(EnterBlock(fs, FALSE), b))

\* The jumps of a condition that is false are e.f of what this returns.
Cond(fs, a) ==
  LET g == Expr(fs, a) IN GoIfTrue([g EXCEPT !.e.k = IF @ = "VNIL" THEN "VFALSE" ELSE @])

\* check_conflict: a local that is assigned, and that an assignment to its left
\* indexes or uses as an index, is saved first.  Mutant: only the table is.
TableConflict(e, reg) == e.k = "VINDEXED" /\ e.info = reg
Conflicts(e, reg) == e.k = "VINDEXED" /\ (e.info = reg \/ e.aux = reg)
Saved(e, reg, copy) ==
  IF ~ Conflicts(e, reg) THEN e
  ELSE [e EXCEPT !.info = IF @ = reg THEN copy ELSE @, !.aux = IF @ = reg THEN copy ELSE @]

RECURSIVE Targets(_, _, _)
Targets(fs, as, lhs) ==
  LET g == PrimaryExp(fs, Head(as))
      conflict == g.e.k = "VLOCAL" /\ \E n \in DOMAIN lhs : Conflicts(lhs[n], g.e.info)
      saved == [n \in DOMAIN lhs |-> Saved(lhs[n], g.e.info, g.freereg)]
      h == ReserveRegs(Code(g, "MOVE", g.freereg, g.e.info, 0), 1)
  IN  IF as = <<>> THEN [fs |-> fs, lhs |-> lhs]
      ELSE IF conflict THEN Targets(h, Tail(as), Append(saved, g.e))
      ELSE Targets(g, Tail(as), Append(lhs, g.e))

\* The values that are in registers, to the variables from right to left.
RECURSIVE StoreAll(_, _)
StoreAll(fs, lhs) ==
  IF lhs = <<>> THEN fs
  ELSE StoreAll(StoreVar([fs EXCEPT !.e = Exp("VNONRELOC", fs.freereg - 1)], Last(lhs)), Front(lhs))

Assignment(fs, as, es) ==
  LET t == Targets(fs, as, <<>>)
      g == ExpList1(t.fs, es)
      h == AdjustAssign(g, Len(as), Len(es))
      drop == IF Len(es) > Len(as) THEN Len(es) - Len(as) ELSE 0
  IN  IF Len(as) = Len(es) THEN StoreAll(StoreVar(SetOneRet(g), Last(t.lhs)), Front(t.lhs))
      ELSE StoreAll([h EXCEPT !.freereg = @ - drop], t.lhs)

\* What a break closes: the variables of the blocks that it leaves.
AnyUpval(left) == \E n \in DOMAIN left : left[n].upval
BreakStat(fs) ==
  LET loops == {n \in DOMAIN fs.bl : fs.bl[n].isbreakable}
      loop == CHOOSE n \in loops : \A m \in loops : m <= n
      left == SubSeq(fs.bl, loop + 1, Len(fs.bl))
      g == IF AnyUpval(left) THEN Code(fs, "CLOSE", fs.bl[loop].nactvar, 0, 0) ELSE fs
      j == Jump(g)
  IN  IF loops = {} THEN [fs EXCEPT !.err = TRUE]
      ELSE [Linked(j, j.bl[loop].breaklist, Pc(g)) EXCEPT !.bl[loop].breaklist = First(@, Pc(g))]

WhileStat(fs, a) ==
  LET c == Cond(GetLabel(fs), a[2])
      b == Block(EnterBlock(c, TRUE), a[3])
      again == PatchList(Jump(b), Pc(b), Pc(fs))
  IN  PatchToHere(LeaveBlock(again), c.e.f)

\* until is inside the scope of the body; with upvalues the loop ends by break.
RepeatStat(fs, a) ==
  LET g == Chunk(EnterBlock(EnterBlock(GetLabel(fs), TRUE), FALSE), a[2])
      c == Cond(g, a[3])
      plain == PatchList(LeaveBlock(c), c.e.f, Pc(fs))
      open == LeaveBlock(PatchToHere(BreakStat(c), c.e.f))
      closing == PatchList(Jump(open), Pc(open), Pc(fs))
  IN  LeaveBlock(IF Last(c.bl).upval THEN closing ELSE plain)

ForBody(fs, base, n, b, isnum) ==
  LET g == AdjustLocalVars(fs, 3)
      prep == IF isnum THEN Code(g, "FORPREP", base, NoJump, 0) ELSE Jump(g)
      scope == AdjustLocalVars(EnterBlock(prep, FALSE), n)
      h == PatchToHere(LeaveBlock(Block(ReserveRegs(scope, n), b)), Pc(prep) - 1)
      loop == IF isnum THEN Code(h, "FORLOOP", base, NoJump, 0)
              ELSE Jump(Code(h, "TFORLOOP", base, 0, n))
  IN  PatchList(loop, Pc(loop) - 1, Pc(prep))

ForNum(fs, a) ==
  LET g == NewLocalVars(fs, <<"(for index)", "(for limit)", "(for step)", a[2]>>)
      e1 == Exp2NextReg(Expr(g, a[3][1]))
      e2 == Exp2NextReg(Expr(e1, a[3][2]))
      one == AddK(e2, Num(1))
      e3 == IF Len(a[3]) = 3 THEN Exp2NextReg(Expr(e2, a[3][3]))
            ELSE ReserveRegs(Code(one, "LOADK", one.freereg, KIndex(one, Num(1)), 0), 1)
  IN  ForBody(e3, fs.freereg, 1, a[4], TRUE)

ForList(fs, a) ==
  LET g == NewLocalVars(fs, <<"(for generator)", "(for state)", "(for control)">> \o a[2])
      h == AdjustAssign(ExpList1(g, a[3]), 3, Len(a[3]))
  IN  ForBody(CheckStack(h, 3), fs.freereg, Len(a[2]), a[4], FALSE)

ForStat(fs, a) ==
  LET g == EnterBlock(fs, TRUE) IN LeaveBlock(IF a[1] = "for" THEN ForNum(g, a) ELSE ForList(g, a))

IfClauses(fs, clauses, els, escape) ==
  LET c == Cond(fs, clauses[1][1])
      b == Block(c, clauses[1][2])
      j == Jump(b)
      out == First(escape, Pc(b))
      h == PatchToHere(Linked(j, escape, Pc(b)), c.e.f)
  IN  CASE Len(clauses) > 1 -> IfClauses(h, Tail(clauses), els, out)
        [] Len(clauses) = 1 /\ els # <<>> -> PatchToHere(Block(h, els[1]), out)
        [] OTHER -> PatchToHere(Linked(b, escape, c.e.f), First(escape, c.e.f))

\* The variable is active in the function that becomes its value.
LocalFunc(fs, a) ==
  LET g == AdjustLocalVars(ReserveRegs(NewLocalVar(fs, a[2]), 1), 1)
      h == StoreVar(Body(g, a[3]), Exp("VLOCAL", fs.freereg))
  IN  [h EXCEPT !.locvars[h.actvar[h.nactvar]].startpc = Pc(h)]

FuncStat(fs, a) == LET g == PrimaryExp(fs, a[2]) IN StoreVar(Body(g, a[3]), g.e)

LocalStat(fs, a) ==
  LET g == NewLocalVars(fs, a[2])
      h == IF a[3] = <<>> THEN [g EXCEPT !.e = Exp("VVOID", 0)] ELSE ExpList1(g, a[3])
  IN  AdjustLocalVars(AdjustAssign(h, Len(a[2]), Len(a[3])), Len(a[2]))

\* A single call is a tail call.
RetStat(fs, es) ==
  LET g == ExpList1(fs, es)
      m == SetMultRet(g)
      tail == Asserted([m EXCEPT !.code[m.e.info + 1].op = "TAILCALL"], At(m, m.e.info).a = m.nactvar)
      one == Exp2AnyReg(g)
      all == Exp2NextReg(g)
  IN  CASE es = <<>> -> Ret(fs, 0, 0)
        [] es # <<>> /\ HasMultRet(g.e.k) ->
             Ret(IF g.e.k = "VCALL" /\ Len(es) = 1 THEN tail ELSE m, g.nactvar, MultRet)
        [] Len(es) = 1 /\ ~ HasMultRet(g.e.k) -> Ret(one, one.e.info, 1)
        [] OTHER -> Ret(Asserted(all, Len(es) = all.freereg - all.nactvar), all.nactvar, Len(es))

\* A call statement uses no results.
ExprStat(fs, a) == LET g == PrimaryExp(fs, a[2]) IN [g EXCEPT !.code[g.e.info + 1].c = 1]

Statement(fs, a) ==
  CASE a[1] = "if" -> IfClauses(fs, a[2], a[3], NoJump)
    [] a[1] = "while" -> WhileStat(fs, a)
    [] a[1] = "do" -> Block(fs, a[2])
    [] a[1] \in {"for", "forin"} -> ForStat(fs, a)
    [] a[1] = "repeat" -> RepeatStat(fs, a)
    [] a[1] = "localfunction" -> LocalFunc(fs, a)
    [] a[1] = "functionstat" -> FuncStat(fs, a)
    [] a[1] = "local" -> LocalStat(fs, a)
    [] a[1] = "return" -> RetStat(fs, a[2])
    [] a[1] = "break" -> BreakStat(fs)
    [] a[1] = "assign" -> Assignment(fs, a[2], a[3])
    [] a[1] = "eval" -> ExprStat(fs, a)

Chunk(fs, b) ==
  LET g == Statement(fs, Head(b))
      h == Asserted(g, g.maxstack >= g.freereg /\ g.freereg >= g.nactvar)
  IN  IF b = <<>> \/ fs.err THEN fs ELSE Chunk([h EXCEPT !.freereg = h.nactvar], Tail(b))

\* luaY_parser: the FuncState of a chunk, a function with any arguments.
Compiled(b) ==
  LET fs == OpenFunc(<<>>)
      g == CloseFunc(Chunk([fs EXCEPT !.vararg.is = TRUE], b))
  IN  Asserted(g, g.ups = <<>>)

=============================================================================
