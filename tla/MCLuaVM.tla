------------------------------ MODULE MCLuaVM ------------------------------
(***************************************************************************)
(* Programs for the compiler and the virtual machine: all conditions of a  *)
(* small grammar in the places where a condition can stand, all ways to    *)
(* leave a loop whose variables a closure has captured, and programs for   *)
(* the rest of the language.                                               *)
(***************************************************************************)
EXTENDS LuaMeaning

-----------------------------------------------------------------------------
(* Short forms of trees. *)

V(x) == <<"name", x>>
K(n) == <<"num", n>>
S(s) == <<"str", s>>
Tru == <<"true">>
Fal == <<"false">>
Bin(a, op, b) == <<"bin", op, a, b>>
Not(a) == <<"un", "not", a>>
CallOf(f, es) == <<"call", f, es>>
Emit(es) == <<"eval", CallOf(V("emit"), es)>>
Loc(xs, es) == <<"local", xs, es>>
Set(ts, es) == <<"assign", ts, es>>
Ix(t, k) == <<"index", t, k>>
Fun(xs, b) == <<"function", xs, FALSE, b>>
VFun(xs, b) == <<"function", xs, TRUE, b>>
LFun(x, xs, b) == <<"localfunction", x, Fun(xs, b)>>
If(c, b) == <<"if", <<<<c, b>>>>, <<>>>>
IfElse(c, b, d) == <<"if", <<<<c, b>>>>, <<d>>>>
Ret_(es) == <<"return", es>>
Break == <<"break">>
Do(b) == <<"do", b>>
Item(e) == <<"item", e>>
Pair(k, e) == <<"pair", k, e>>
Dots_ == <<"dots">>

-----------------------------------------------------------------------------
(* Conditions over a parameter, a global and constants. *)

Atoms == {V("a"), V("g"), <<"nil">>, K(1), Bin(V("a"), "==", K(1)), Not(V("g"))}
Pairs == {Bin(x, op, y) : x \in Atoms, op \in {"and", "or"}, y \in Atoms}
Simple == {Bin(x, op, y) : x \in {V("a"), V("g"), Bin(V("h"), "<", K(2))}, op \in {"and", "or"}, y \in {V("g"), Bin(V("a"), "==", K(1))}}
Conditions ==
  Pairs \cup {Not(c) : c \in Simple}
  \cup {Bin(c, op, x) : c \in Simple, op \in {"and", "or"}, x \in {V("a"), K(1), Not(V("g"))}}
  \cup {Bin(x, op, c) : c \in Simple, op \in {"and", "or"}, x \in {V("a"), <<"nil">>}}
  \cup {Bin(c, op, d) : c \in Simple, op \in {"and", "or"}, d \in Simple}

\* As an argument, as a value, as a condition, negated, and as a result.
ConditionProgram(c) ==
  << Set(<<V("g"), V("h")>>, <<Fal, K(3)>>),
     LFun("f", <<"a">>,
       << Emit(<<c>>),
          Loc(<<"x">>, <<c>>),
          IfElse(c, <<Emit(<<V("x"), S("yes")>>)>>, <<Emit(<<V("x"), S("no")>>)>>),
          <<"while", Not(c), <<Emit(<<S("not")>>), Break>>>>,
          <<"repeat", <<Set(<<V("x")>>, <<Bin(V("x"), "or", c)>>)>>, Bin(c, "or", Tru)>>,
          Ret_(<<c>>) >>),
     Emit(<<CallOf(V("f"), <<K(1)>>), S("")>>),
     Set(<<V("g"), V("h")>>, <<K(2), K(1)>>),
     Emit(<<CallOf(V("f"), <<>>), S("")>>) >>

-----------------------------------------------------------------------------
(* Loops left with captured variables. *)

Loops == {"while", "repeat", "for", "forin"}
Captured == {"i", "x", "y", "out"}
Exits == {"none", "break", "inner", "return"}

LoopProgram(kind, captured, exit) ==
  LET leave == CASE exit = "none" -> <<>>
                 [] exit = "return" -> <<If(Bin(V("i"), "==", K(2)), <<Ret_(<<V("x")>>)>>)>>
                 [] OTHER -> <<If(Bin(V("i"), "==", K(2)), <<Break>>)>>
      v == V(captured)
      closure == Set(<<Ix(V("fs"), V("i"))>>,
                     <<Fun(<<>>, <<Set(<<v>>, <<Bin(v, "+", K(10))>>), Ret_(<<v>>)>>)>>)
      inner == Do(<<Loc(<<"y">>, <<Bin(V("x"), "+", K(1))>>), closure>> \o (IF exit = "inner" THEN leave ELSE <<>>))
      body == <<Loc(<<"x">>, <<Bin(V("i"), "+", K(5))>>), inner>> \o (IF exit = "inner" THEN <<>> ELSE leave)
      count == Set(<<V("n")>>, <<Bin(V("n"), "+", K(1))>>)
      loop == CASE kind = "while" ->
                     <<"while", Bin(V("n"), "<", K(3)), <<count, Loc(<<"i">>, <<V("n")>>)>> \o body>>
                [] kind = "repeat" ->
                     <<"repeat", <<count, Loc(<<"i">>, <<V("n")>>)>> \o body, Bin(V("x"), ">", K(7))>>
                [] kind = "for" -> <<"for", "i", <<K(1), K(3)>>, body>>
                [] kind = "forin" -> <<"forin", <<"i">>, <<V("iter"), K(3)>>, body>>
      call(k) == If(Ix(V("fs"), K(k)), <<Emit(<<CallOf(Ix(V("fs"), K(k)), <<>>), CallOf(Ix(V("fs"), K(k)), <<>>)>>)>>)
  IN  << Loc(<<"fs", "n", "out">>, <<<<"table", <<>>>>, K(0), K(0)>>),
         LFun("f", <<>>, <<loop, Loc(<<"z", "w">>, <<S("z"), S("w")>>), Ret_(<<V("z"), V("w")>>)>>),
         Emit(<<CallOf(V("f"), <<>>)>>), call(1), call(2), call(3), Emit(<<V("out")>>) >>

-----------------------------------------------------------------------------
(* The rest of the language. *)

Assignments ==
  << Loc(<<"i", "t">>, <<K(1), <<"table", <<Item(K(3)), Item(K(4)), Pair(S("x"), K(7))>>>>>>),
     Set(<<V("i"), Ix(V("t"), V("i"))>>, <<Bin(V("i"), "+", K(1)), K(20)>>),
     Emit(<<V("i"), Ix(V("t"), K(1)), Ix(V("t"), K(2))>>),
     Set(<<Ix(V("t"), V("i")), V("i")>>, <<K(30), K(1)>>),
     Emit(<<V("i"), Ix(V("t"), K(1)), Ix(V("t"), K(2))>>),
     Set(<<Ix(V("t"), V("i")), V("i"), V("t")>>, <<K(50), K(9), <<"table", <<Item(K(8))>>>>>>),
     Emit(<<V("i"), Ix(V("t"), K(1))>>),
     Loc(<<"a", "b">>, <<K(1), K(2)>>),
     Set(<<V("a"), V("b")>>, <<V("b"), V("a")>>),
     Set(<<V("g"), V("h"), V("k")>>, <<CallOf(V("emit"), <<V("a"), V("b")>>)>>),
     Emit(<<V("g"), V("h"), V("k")>>),
     Set(<<V("g"), V("h")>>, <<K(5), K(6), CallOf(V("emit"), <<S("x")>>)>>),
     Emit(<<V("g"), V("h"), Ix(V("t"), S("x"))>>) >>

Varargs ==
  << <<"localfunction", "f", VFun(<<"a">>,
       << Loc(<<"b", "c">>, <<Dots_>>), Emit(<<V("a"), V("b"), V("c")>>),
          Loc(<<"t">>, <<<<"table", <<Item(K(0)), Item(Dots_)>>>>>>),
          Emit(<<<<"un", "len", V("t")>>, Ix(V("t"), K(2)), <<"paren", Dots_>>>>),
          Ret_(<<Dots_>>)>>)>>,
     Emit(<<CallOf(V("f"), <<K(1), K(2), K(3), K(4)>>)>>),
     Emit(<<CallOf(V("f"), <<>>)>>),
     <<"localfunction", "old", VFun(<<"a">>, <<Ret_(<<V("a"), Ix(V("arg"), K(1)), Ix(V("arg"), S("n"))>>)>>)>>,
     Emit(<<CallOf(V("old"), <<K(1), K(2), K(3)>>)>>),
     Emit(<<CallOf(V("old"), <<>>), K(5)>>),
     Loc(<<"p">>, <<<<"paren", CallOf(V("emit"), <<K(8), K(9)>>)>>>>), Emit(<<V("p")>>),
     Emit(<<CallOf(V("emit"), <<CallOf(V("emit"), <<K(1), K(2)>>)>>)>>),
     Ret_(<<CallOf(V("f"), <<K(6), Tru>>)>>) >>

Methods ==
  << Loc(<<"o">>, <<<<"table", <<Pair(S("v"), K(4)), Pair(S("get"), Fun(<<"self", "n">>,
       <<Ret_(<<Bin(Ix(V("self"), S("v")), "+", V("n"))>>)>>))>>>>>>),
     Emit(<<<<"method", V("o"), "get", <<K(3)>>>>>>),
     Set(<<V("p")>>, <<<<"table", <<Pair(S("o"), V("o"))>>>>>>),
     Set(<<Ix(V("o"), S("v"))>>, <<K(5)>>),
     Emit(<<<<"method", Ix(V("p"), S("o")), "get", <<<<"method", V("o"), "get", <<K(1)>>>>>>>>>>),
     LFun("up", <<>>, <<Ret_(<<<<"method", V("o"), "get", <<K(0)>>>>>>)>>),
     Emit(<<CallOf(V("up"), <<>>)>>),
     <<"functionstat", Ix(Ix(V("p"), S("o")), S("set")), Fun(<<"self", "n">>, <<Set(<<Ix(V("self"), S("v"))>>, <<V("n")>>)>>)>>,
     <<"eval", <<"method", V("o"), "set", <<K(1)>>>>>>,
     <<"functionstat", V("gf"), Fun(<<>>, <<Ret_(<<Ix(V("o"), S("v"))>>)>>)>>,
     Emit(<<CallOf(V("gf"), <<>>)>>) >>

Expressions ==
  << Loc(<<"a", "b", "s">>, <<K(7), K(2), S("s")>>),
     Emit(<<Bin(Bin(V("a"), "-", V("b")), "*", Bin(K(2), "+", Bin(V("a"), "%", K(4)))), Bin(K(2), "*", K(3))>>),
     Emit(<<Bin(V("s"), "..", Bin(S("t"), "..", Bin(V("s"), "..", S("u")))), Bin(Bin(V("s"), "..", S("x")), "..", S("y"))>>),
     Emit(<<<<"un", "neg", V("a")>>, <<"un", "neg", K(3)>>, <<"un", "len", V("s")>>, <<"un", "len", S("abc")>>>>),
     Emit(<<Bin(V("a"), ">", V("b")), Bin(V("a"), ">=", K(7)), Bin(K(1), "<", V("b")), Bin(V("a"), "~=", V("s")), Bin(V("a"), "<=", K(6))>>),
     Emit(<<Bin(Bin(V("a"), "+", V("b")), "<", Bin(V("b"), "*", V("a"))), Not(Bin(V("a"), "==", V("b")))>>),
     Set(<<V("g")>>, <<Bin(CallOf(V("emit"), <<K(1)>>), "-", Bin(CallOf(V("emit"), <<K(2)>>), "*", CallOf(V("emit"), <<K(3)>>)))>>),
     Emit(<<Bin(V("g"), "+", K(0)), <<"un", "neg", Bin(K(1), "-", V("g"))>>>>) >>

Constructors ==
  << Loc(<<"t">>, <<<<"table", <<Item(K(1)), Pair(S("k"), K(9)), Item(K(2)), Item(K(3)),
       Pair(K(7), K(70)), Item(K(4)), Item(K(5))>>>>>>),
     Emit(<<<<"un", "len", V("t")>>, Ix(V("t"), K(2)), Ix(V("t"), K(3)), Ix(V("t"), K(5)), Ix(V("t"), S("k"))>>),
     Set(<<V("t")>>, <<<<"table", <<Item(K(1)), Item(K(2)), Item(CallOf(V("emit"), <<K(3), K(4)>>))>>>>>>),
     Emit(<<<<"un", "len", V("t")>>, Ix(V("t"), K(4))>>),
     Set(<<V("t")>>, <<<<"table", <<Item(CallOf(V("emit"), <<K(3), K(4)>>)), Item(<<"table", <<Item(K(6))>>>>)>>>>>>),
     Emit(<<<<"un", "len", V("t")>>, Ix(Ix(V("t"), K(2)), K(1))>>),
     Emit(<<<<"un", "len", <<"table", <<Item(K(1)), Item(K(2))>>>>>>>>) >>

Nested ==
  << Loc(<<"x">>, <<K(1)>>),
     LFun("outer", <<"y">>,
       << LFun("mid", <<>>, <<LFun("in", <<"z">>, <<Set(<<V("x")>>, <<Bin(V("x"), "+", V("y"))>>),
                                                     Set(<<V("y")>>, <<V("z")>>), Ret_(<<V("x"), V("y")>>)>>),
                              Ret_(<<V("in")>>)>>),
          Ret_(<<CallOf(V("mid"), <<>>), Fun(<<>>, <<Ret_(<<V("y")>>)>>)>>) >>),
     Loc(<<"f", "g">>, <<CallOf(V("outer"), <<K(10)>>)>>),
     Emit(<<CallOf(V("f"), <<K(3)>>), CallOf(V("g"), <<>>), V("x")>>),
     LFun("sum", <<"n", "acc">>, <<If(Bin(V("n"), "==", K(0)), <<Ret_(<<V("acc")>>)>>),
                                   Ret_(<<CallOf(V("sum"), <<Bin(V("n"), "-", K(1)), Bin(V("acc"), "+", V("n"))>>)>>)>>),
     Emit(<<CallOf(V("sum"), <<K(3), K(0)>>)>>),
     LFun("keep", <<"a">>, <<Loc(<<"b">>, <<V("a")>>),
          Ret_(<<CallOf(V("emit"), <<Fun(<<>>, <<>>) , V("b")>>)>>)>>),
     LFun("later", <<"a">>, <<Ret_(<<CallOf(<<"paren", Fun(<<"k", "pad">>, <<Set(<<V("pad")>>, <<K(0)>>), Ret_(<<CallOf(V("k"), <<>>)>>)>>)>>,
                                            <<Fun(<<>>, <<Ret_(<<V("a")>>)>>)>>)>>)>>),
     Emit(<<CallOf(V("later"), <<K(42)>>)>>),
     Ret_(<<CallOf(V("sum"), <<K(2), K(1)>>)>>) >>

ForLoops ==
  << <<"for", "i", <<K(3), K(1), <<"un", "neg", K(1)>>>>, <<Emit(<<V("i")>>)>>>>,
     <<"for", "i", <<K(2), K(1)>>, <<Emit(<<S("never")>>)>>>>,
     <<"for", "i", <<K(1), K(2)>>, <<<<"for", "j", <<V("i"), K(2)>>,
        <<If(Bin(V("j"), ">", V("i")), <<Break>>), Emit(<<V("i"), V("j")>>)>>>>>>>>,
     <<"forin", <<"k", "v">>, <<V("iter"), K(2), K(0)>>, <<Emit(<<V("k"), V("v")>>)>>>>,
     <<"forin", <<"k">>, <<V("iter"), K(2)>>, <<Set(<<V("k")>>, <<Bin(V("k"), "*", K(5))>>), Emit(<<V("k")>>)>>>>,
     <<"if", <<<<Fal, <<>>>>, <<V("iter"), <<Emit(<<S("two")>>)>>>>, <<Tru, <<>>>>>>, <<<<Emit(<<S("else")>>)>>>>>>,
     <<"if", <<<<Fal, <<>>>>, <<<<"nil">>, <<Emit(<<S("two")>>)>>>>>>, <<<<Emit(<<S("else")>>)>>>>>> >>

\* Functions chosen by conditions.
Callees ==
  << Set(<<V("g"), V("h")>>, <<Fal, V("iter")>>),
     Loc(<<"l", "t">>, <<V("emit"), <<"table", <<Pair(S("m"), V("emit"))>>>>>>),
     Emit(<<CallOf(<<"paren", Bin(V("g"), "or", V("h"))>>, <<K(2), K(0)>>)>>),
     Emit(<<CallOf(<<"paren", Bin(Bin(V("g"), "and", V("h")), "or", V("emit"))>>, <<K(2)>>)>>),
     Emit(<<CallOf(<<"paren", Bin(V("h"), "and", V("l"))>>, <<K(3)>>)>>),
     Emit(<<CallOf(<<"paren", Bin(Bin(K(1), "==", V("h")), "or", V("l"))>>, <<K(4)>>)>>),
     Emit(<<CallOf(<<"paren", Bin(V("l"), "and", V("h"))>>, <<K(5), K(1)>>), CallOf(Ix(V("t"), S("m")), <<K(6)>>)>>),
     LFun("f", <<>>, <<Ret_(<<CallOf(V("l"), <<CallOf(<<"paren", Bin(V("g"), "or", V("l"))>>, <<K(7)>>)>>)>>)>>),
     Emit(<<CallOf(V("f"), <<>>)>>) >>

\* With constants of every type, to be dumped.
Constants ==
  << Loc(<<"a">>, <<Bin(V("g"), "==", <<"nil">>)>>),
     LFun("f", <<"x">>, <<Ret_(<<Bin(V("x"), "==", Tru), V("a")>>)>>),
     Emit(<<CallOf(V("f"), <<V("a")>>), K(2)>>) >>

Rejected == << Do(<<Break>>) >>
RejectedDots == << LFun("f", <<"a">>, <<Emit(<<Dots_>>)>>) >>
TooManyRegisters == << Loc([n \in 1..21 |-> "x"], <<>>) >>

Handwritten == <<Assignments, Varargs, Methods, Expressions, Constructors, Nested, ForLoops, Callees, Constants,
                 Rejected, RejectedDots, TooManyRegisters>>

Names ==
  {<<"hand", n>> : n \in DOMAIN Handwritten}
  \cup {<<"loop", k, c, e>> : k \in Loops, c \in Captured, e \in Exits}
  \cup {<<"condition", c>> : c \in Conditions}

MCPrograms ==
  [n \in Names |-> CASE n[1] = "hand" -> Handwritten[n[2]]
                     [] n[1] = "loop" -> LoopProgram(n[2], n[3], n[4])
                     [] n[1] = "condition" -> ConditionProgram(n[2])]
MCDumped == {<<"hand", 9>>}

\* The values of the operator constants.  They are LET expressions because the
\* cost statistics of TLC do not descend into those.
MCCompiler(b) == LET fs == Compiled(b) IN fs
MCLoader(data, piece) == LET s == Undump(data, piece) IN s
MCInterpreter(b) == LET result == Meaning(b) IN result

=============================================================================
