---------------------------- MODULE LuaMeaning ----------------------------
(***************************************************************************)
(* What a program means, by its text alone: an interpreter of the trees of *)
(* LuaParser with environments and cells instead of registers and          *)
(* upvalues.  It is the reference for the compiler and the virtual machine *)
(* and shares with them only the values and Arith.                         *)
(*                                                                         *)
(* s is the state of a run: cells of variables, tables, functions, globals *)
(* and out, with the values vals of the last expression and how control    *)
(* leaves a statement: "go", "break" or "return".  env maps the names in   *)
(* scope to cells; "..." names a cell with the extra arguments.            *)
(***************************************************************************)
EXTENDS LuaVM

CONSTANT Interpreter(_)   \* Meaning, for the properties

Start0 ==
  [cells |-> <<>>, tabs |-> <<>>, funs |-> <<>>, out |-> <<>>, vals |-> <<>>, sig |-> "go",
   globals |-> [k \in {Str("emit"), Str("iter")} |-> CFun(k[2])]]

Val(s) == IF s.vals = <<>> THEN Nil ELSE s.vals[1]
With(s, vs) == [s EXCEPT !.vals = vs]
NthOrNil(vs, n) == IF n <= Len(vs) THEN vs[n] ELSE Nil

\* New cells for the names xs, with the values vs.
Declare(s, xs, vs) ==
  [s EXCEPT !.cells = @ \o [n \in DOMAIN xs |-> NthOrNil(vs, n)]]
Scope(env, xs, s) ==
  [x \in DOMAIN env \cup {xs[n] : n \in DOMAIN xs} |->
     IF \E n \in DOMAIN xs : xs[n] = x
     THEN Len(s.cells) + CHOOSE n \in DOMAIN xs : xs[n] = x /\ \A m \in DOMAIN xs : xs[m] = x => m <= n
     ELSE env[x]]

NewTab(s, t) == [s EXCEPT !.tabs = Append(@, t), !.vals = <<<<"table", Len(s.tabs) + 1>>>>]

BinaryOp(op, x, y) ==
  CASE op = "+" -> Num(x[2] + y[2])
    [] op = "-" -> Num(x[2] - y[2])
    [] op = "*" -> Num(x[2] * y[2])
    [] op = "%" -> Num(x[2] % y[2])
    [] op = ".." -> Str(x[2] \o y[2])
    [] op = "==" -> Bool(x = y)
    [] op = "~=" -> Bool(x # y)
    [] op = "<" -> Bool(x[2] < y[2])
    [] op = "<=" -> Bool(x[2] <= y[2])
    [] op = ">" -> Bool(x[2] > y[2])
    [] op = ">=" -> Bool(x[2] >= y[2])

RECURSIVE Eval(_, _, _), EvalAll(_, _, _), Apply(_, _, _), Fields(_, _, _, _, _), Exec(_, _, _), Loop(_, _, _, _)
RECURSIVE RunFrom(_, _, _)

\* Calls with arguments, functions and their results.
Apply(s, f, args) ==
  LET fun == s.funs[f[2]]
      n == Len(fun.params)
      extra == IF Len(args) > n THEN SubSeq(args, n + 1, Len(args)) ELSE <<>>
      arg == [k \in {Num(m) : m \in {i \in DOMAIN extra : extra[i] # Nil}} |-> extra[k[2]]] @@ (Str("n") :> Num(Len(extra)))
      t == IF fun.dots THEN NewTab(s, arg) ELSE s
      names == fun.params \o (IF fun.dots THEN <<"arg", "...">> ELSE <<>>)
      values == [m \in 1..n |-> NthOrNil(args, m)] \o (IF fun.dots THEN <<t.vals[1], extra>> ELSE <<>>)
      r == RunFrom(fun.body, Scope(fun.env, names, t), Declare(t, names, values))
  IN  CASE f = CFun("emit") -> [s EXCEPT !.out = @ \o args, !.vals = args]
        [] f = CFun("iter") -> With(s, Iter(args))
        [] OTHER -> [r EXCEPT !.vals = IF r.sig = "return" THEN @ ELSE <<>>, !.sig = "go"]

EvalAll(es, env, s) ==
  LET g == Eval(Head(es), env, s)
      rest == EvalAll(Tail(es), env, g)
  IN  CASE es = <<>> -> With(s, <<>>)
        [] Len(es) = 1 -> g
        [] OTHER -> With(rest, <<Val(g)>> \o rest.vals)

\* Fields of a constructor: the n-th item is next.
Fields(items, env, s, t, n) ==
  LET i == Head(items)
      x == Eval(i[2], env, s)
      y == Eval(i[3], env, x)
      vs == IF Len(items) = 1 THEN x.vals ELSE <<Val(x)>>
      Item(r, m) == [r EXCEPT !.tabs[t] = Put(@, Num(n + m - 1), vs[m])]
  IN  IF items = <<>> THEN With(s, <<<<"table", t>>>>)
      ELSE IF i[1] = "item" THEN Fields(Tail(items), env, FoldLeft(Item, x, [m \in DOMAIN vs |-> m]), t, n + 1)
      ELSE Fields(Tail(items), env, [y EXCEPT !.tabs[t] = Put(@, Val(x), Val(y))], t, n)

Eval(a, env, s) ==
  CASE a[1] = "nil" -> With(s, <<Nil>>)
    [] a[1] = "true" -> With(s, <<Bool(TRUE)>>)
    [] a[1] = "false" -> With(s, <<Bool(FALSE)>>)
    [] a[1] = "num" -> With(s, <<Num(a[2])>>)
    [] a[1] = "str" -> With(s, <<Str(a[2])>>)
    [] a[1] = "dots" -> With(s, s.cells[env["..."]])
    [] a[1] = "name" -> With(s, <<IF a[2] \in DOMAIN env THEN s.cells[env[a[2]]] ELSE Get(s.globals, Str(a[2]))>>)
    [] a[1] = "paren" -> LET g == Eval(a[2], env, s) IN With(g, <<Val(g)>>)
    [] a[1] = "index" -> LET t == Eval(a[2], env, s)
                             k == Eval(a[3], env, t)
                         IN  With(k, <<Get(k.tabs[Val(t)[2]], Val(k))>>)
    [] a[1] = "call" -> LET f == Eval(a[2], env, s)
                            args == EvalAll(a[3], env, f)
                        IN  Apply(args, Val(f), args.vals)
    [] a[1] = "method" -> LET o == Eval(a[2], env, s)
                              args == EvalAll(a[4], env, o)
                          IN  Apply(args, Get(o.tabs[Val(o)[2]], Str(a[3])), <<Val(o)>> \o args.vals)
    [] a[1] = "function" ->
         [s EXCEPT !.funs = Append(@, [params |-> a[2], dots |-> a[3], body |-> a[4], env |-> env]),
                   !.vals = <<<<"fun", Len(s.funs) + 1>>>>]
    [] a[1] = "table" -> Fields(a[2], env, NewTab(s, NoEntries), Len(s.tabs) + 1, 1)
    [] a[1] = "un" -> LET x == Eval(a[3], env, s)
                          v == Val(x)
                      IN  With(x, <<CASE a[2] = "not" -> Bool(False(v))
                                      [] a[2] = "neg" -> Num(0 - v[2])
                                      [] a[2] = "len" ->
                                           Num(IF v[1] = "str" THEN Len(v[2]) ELSE Border(x.tabs[v[2]]))>>)
    [] a[1] = "bin" -> LET x == Eval(a[3], env, s)
                           y == Eval(a[4], env, x)
                       IN  IF a[2] \in {"and", "or"}
                           THEN IF False(Val(x)) = (a[2] = "and") THEN With(x, <<Val(x)>>) ELSE With(y, <<Val(y)>>)
                           ELSE With(y, <<BinaryOp(a[2], Val(x), Val(y))>>)

\* The targets of an assignment, evaluated: cells, globals, or table and key.
Place(s, a, env) ==
  LET t == Eval(a[2], env, s)
      k == Eval(a[3], env, t)
  IN  IF a[1] = "index" THEN With(k, <<"entry", Val(t)[2], Val(k)>>)
      ELSE With(s, IF a[2] \in DOMAIN env THEN <<"cell", env[a[2]]>> ELSE <<"global", Str(a[2])>>)

Store(s, place, v) ==
  CASE place[1] = "cell" -> [s EXCEPT !.cells[place[2]] = v]
    [] place[1] = "global" -> [s EXCEPT !.globals = Put(@, place[2], v)]
    [] place[1] = "entry" -> [s EXCEPT !.tabs[place[2]] = Put(@, place[3], v)]

Assign(a, env, s) ==
  LET ps == FoldLeft(LAMBDA p, t : LET g == Place(p.s, t, env) IN [s |-> g, ps |-> Append(p.ps, g.vals)],
                     [s |-> s, ps |-> <<>>], a[2])
      g == EvalAll(a[3], env, ps.s)
  IN  FoldLeft(LAMBDA r, n : Store(r, ps.ps[n], NthOrNil(g.vals, n)), g, Reverse([n \in DOMAIN a[2] |-> n]))

\* A loop: one turn, then the rest; turn says what binds the variables.
\* With break it ends.
AfterLoop(s) == [s EXCEPT !.sig = IF @ = "break" THEN "go" ELSE @]
Loop(a, env, s, vs) ==
  LET c == Eval(a[2], env, s)
      body == RunFrom(a[3], env, c)
      n == vs[1]
      more == IF vs[3] > 0 THEN n <= vs[2] ELSE n >= vs[2]
      turn == RunFrom(a[4], Scope(env, <<a[2]>>, s), Declare(s, <<a[2]>>, <<Num(n)>>))
      r == Apply(s, vs[1], <<vs[2], vs[3]>>)
      each == RunFrom(a[4], Scope(env, a[2], r), Declare(r, a[2], r.vals))
      until == RunFrom(Append(a[2], <<"until", a[3]>>), env, s)
  IN  CASE a[1] = "while" ->
             IF False(Val(c)) THEN c ELSE IF body.sig # "go" THEN AfterLoop(body) ELSE Loop(a, env, body, vs)
        [] a[1] = "repeat" ->
             IF until.sig # "go" \/ ~ False(Val(until)) THEN AfterLoop(until) ELSE Loop(a, env, until, vs)
        [] a[1] = "for" ->
             IF ~ more THEN s ELSE IF turn.sig # "go" THEN AfterLoop(turn)
             ELSE Loop(a, env, turn, [vs EXCEPT ![1] = @ + vs[3]])
        [] a[1] = "forin" ->
             IF Val(r) = Nil THEN r ELSE IF each.sig # "go" THEN AfterLoop(each)
             ELSE Loop(a, env, each, [vs EXCEPT ![3] = Val(r)])

\* Statements that declare nothing.
Exec(a, env, s) ==
  CASE a[1] = "assign" -> Assign(a, env, s)
    [] a[1] = "functionstat" -> Assign(<<"assign", <<a[2]>>, <<a[3]>>>>, env, s)
    [] a[1] \in {"eval", "until"} -> Eval(a[2], env, s)
    [] a[1] = "do" -> RunFrom(a[2], env, s)
    [] a[1] = "return" -> [EvalAll(a[2], env, s) EXCEPT !.sig = "return"]
    [] a[1] = "break" -> [s EXCEPT !.sig = "break"]
    [] a[1] \in {"while", "repeat"} -> Loop(a, env, s, <<>>)
    [] a[1] = "for" ->
         LET g == EvalAll(a[3], env, s)
         IN  Loop(a, env, g, <<g.vals[1][2], g.vals[2][2], IF Len(a[3]) = 3 THEN g.vals[3][2] ELSE 1>>)
    [] a[1] = "forin" ->
         LET g == EvalAll(a[3], env, s)
         IN  Loop(a, env, g, <<NthOrNil(g.vals, 1), NthOrNil(g.vals, 2), NthOrNil(g.vals, 3)>>)
    [] a[1] = "if" ->
         LET c == Eval(a[2][1][1], env, s)
         IN  CASE ~ False(Val(c)) -> RunFrom(a[2][1][2], env, c)
               [] False(Val(c)) /\ Len(a[2]) > 1 -> Exec(<<"if", Tail(a[2]), a[3]>>, env, c)
               [] False(Val(c)) /\ Len(a[2]) = 1 /\ a[3] # <<>> -> RunFrom(a[3][1], env, c)
               [] OTHER -> c

\* The statements of a block, with the names that they declare.
RunFrom(b, env, s) ==
  LET a == Head(b)
      g == CASE a[1] = "local" -> EvalAll(a[3], env, s)
             [] a[1] = "localfunction" -> Eval(a[3], Scope(env, <<a[2]>>, s), Declare(s, <<a[2]>>, <<>>))
             [] OTHER -> Exec(a, env, s)
  IN  IF b = <<>> THEN s
      ELSE IF g.sig # "go" THEN g
      ELSE IF a[1] = "local" THEN RunFrom(Tail(b), Scope(env, a[2], g), Declare(g, a[2], g.vals))
      ELSE IF a[1] = "localfunction"
      THEN RunFrom(Tail(b), Scope(env, <<a[2]>>, s), [g EXCEPT !.cells[Len(s.cells) + 1] = g.vals[1]])
      ELSE RunFrom(Tail(b), env, g)

Meaning(b) == RunFrom(b, [x \in {"..."} |-> 1], Declare(Start0, <<"...">>, <<<<>>>>)).out

-----------------------------------------------------------------------------
(* Properties. *)

\* What emit got from a program that ends is what its text means: registers,
\* jump lists, upvalues and the frames of calls never change it.
RunsAsWritten == stage = "ended" => out = Interpreter(Programs[prog])

\* The compiler's own assertions hold (freereg, jump lists, blocks), and all the
\* code it makes is code that luaG_checkcode accepts (close_func asserts it).
RECURSIVE Accepted(_)
Accepted(p) == CheckCode(p) /\ \A n \in DOMAIN p.p : Accepted(p.p[n])
CodeChecked == stage = "chunk" => main.ok /\ Accepted(Proto(main))

\* Between instructions the top of the stack is the top of the frame, except in
\* front of an instruction that uses the values up to it (luaV_execute asserts it).
TopKept == Running => Ci.top < StackSize /\ (top = Ci.top \/ OpenOp(I))

\* If the debug interface names the function that a call calls, it names the
\* variable or field that the value is in.
Named(kind, name, v) ==
  CASE kind = "global" -> v = Get(globals, Str(name))
    [] kind = "local" -> \E r \in 0 .. I.a : GetLocalName(P, r + 1, Ci.pc) = <<name>> /\ R(r) = v
    [] kind = "upvalue" -> \E u \in DOMAIN P.upvalues : P.upvalues[u] = name /\ UpvalAt(closures[Ci.cl].ups[u]) = v
    [] OTHER -> name = "?" \/ \E t \in DOMAIN tables : Get(tables[t], Str(name)) = v
NamesTruthful ==
  Running /\ I.op \in {"CALL", "TAILCALL"} /\ main.source = ChunkName =>
    LET n == GetObjName(P, Ci.pc, I.a) IN n = <<>> \/ Named(n[1], n[2], R(I.a))

\* A prototype survives a dump and a load, however the bytes are delivered, but
\* for the names that were stripped; of a chunk that is cut off none is loaded.
RoundTrip ==
  stage = "chunk" /\ prog \in Dumped =>
    \A strip \in BOOLEAN, piece \in Pieces :
      LET data == Dump(Compiles, strip)
          s == Loader(data, piece)
          expected == IF strip THEN Stripped(WithSource(Compiles, Str("=?"))) ELSE Compiles
      IN  /\ ~ s.err /\ s.v = expected
          /\ \A n \in 0 .. Len(data) - 1 : n % 9 = piece % 9 => Loader(SubSeq(data, 1, n), piece).err

=============================================================================
