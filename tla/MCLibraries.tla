---------------------------- MODULE MCLibraries -----------------------------
(***************************************************************************)
(* An instance of the libraries for TLC: one use of a function each, or a  *)
(* behaviour of tables with metatables, of classes, or of modules.         *)
(***************************************************************************)
EXTENDS LibMeaning

CONSTANTS c1, c2, c3

MCTables == {"t1", "t2"}
MCClasses == {c1, c2, c3}

\* A LET expression because the cost statistics of TLC do not descend into it.
MCLexer(text, peeks) == LET tokens == TokensOf(text, peeks) IN tokens

Strings(n) == UNION {[1..k -> {"a", "b"}] : k \in 0..n}

-----------------------------------------------------------------------------
(* Patterns.                                                               *)

Item(op, set) == [op |-> op, set |-> set]
Open == [op |-> "open"]
Close == [op |-> "close"]
Position == [op |-> "position"]
Back(l) == [op |-> "back", l |-> l]

\* a, ., a?, .*, .-, a+, (), %f[b] and $
Plain == {Item("one", {"a"}), Item("?", {"a"}), Item("*", {"a", "b"}), Item("-", {"a", "b"}),
          Item("+", {"a"})}
Special == {Position, Item("frontier", {"b", Zero}), [op |-> "end"],
            [op |-> "balance", b |-> "a", e |-> "b"], [op |-> "balance", b |-> "a", e |-> "a"]}

Patterns ==
  {<<x>> : x \in Plain \cup Special}
    \cup {<<x, y, z>> : x \in Plain, y \in Special \ {[op |-> "end"]}, z \in Plain \cup Special}
    \cup {<<Open, x, Close, y, Back(1)>> : x \in Plain, y \in Plain}
    \cup {<<x, Open, y, Open, z, Close, Close>> : x \in Plain, y \in Plain, z \in Plain}
    \cup {<<Open, x, Close, Open, y, Close, Back(2), Back(1)>> : x \in Plain, y \in Plain}
    \cup {<<x, Position, Open, y, Close, z, Back(2), [op |-> "end"]>> :
            x \in Plain, y \in Plain, z \in Plain}
    \cup {<<x, Open, y>> : x \in Plain, y \in Plain}
    \cup {<<Open, x, Back(1), Close>> : x \in Plain}
    \cup {<<x, Close>> : x \in Plain}
    \cup {<<Position, x, Back(1)>> : x \in Plain}

FindTasks == [kind : {"find"}, src : Strings(4), pat : Patterns]

-----------------------------------------------------------------------------
(* Tokens.                                                                 *)

Word(kind, text, spelled, breaks) ==
  [kind |-> kind, text |-> text, spelled |-> spelled, breaks |-> breaks]
Gap(spelled, breaks) == [spelled |-> spelled, breaks |-> breaks]

Count(c, s) == Len(SelectSeq(s, LAMBDA x : x = c))

\* A quoted string of each value over a, 1, ", \, and the characters that
\* "%q" treats on their own.
QuotedWords ==
  {Word("string", v, Quoted(v), Count(NL, v)) :
     v \in UNION {[1..n -> {97, 49, Quote, Backslash, NL, CR, NUL, 255}] : n \in 0..2}}

\* A long bracket of level n around parts of text and line breaks.
Brackets(n) ==
  LET level == [i \in 1..n |-> Equals]
  IN  [open |-> <<LBracket>> \o level \o <<LBracket>>, close |-> <<RBracket>> \o level \o <<RBracket>>]
Breaks == {<<NL>>, <<CR>>, <<CR, NL>>, <<NL, CR>>}
LongParts == {<<p, q, <<97>>>> : p \in Breaks \cup {<<97>>, <<RBracket, 97>>, <<LBracket, 97>>},
                                 q \in {<<CR, NL>>, <<97>>, <<RBracket, Equals>>, <<Backslash, 110>>}}
Text(parts) ==
  FlattenSeq([i \in DOMAIN parts |->
    IF parts[i] \in Breaks THEN IF i = 1 THEN <<>> ELSE <<NL>> ELSE parts[i]])
LongWords ==
  {Word("string", Text(p), Brackets(n).open \o FlattenSeq(p) \o Brackets(n).close,
        Len(SelectSeq(p, LAMBDA x : x \in Breaks))) : p \in LongParts, n \in 0..2}

Relation(c, equal) ==
  IF equal THEN Word("compare", <<c>>, <<c, Equals>>, 0) ELSE Word("char", <<c>>, <<c>>, 0)
Same(kind, text) == Word(kind, text, text, 0)

\* a1, 10, 1.5, 3e+4, .5, 0x1F, or, ., .., ..., [, =, ==, ~=, -, and escapes by name and
\* by number
Words ==
  {Same("name", <<97, 49>>), Same("number", <<49, 48>>), Same("number", <<49, Dot, 53>>),
   Same("number", <<51, 101, 43, 52>>), Same("number", <<Dot, 53>>),
   Same("number", <<48, 120, 49, 70>>), Same("name", <<111, 114>>), Same("char", <<Dot>>),
   Word("..", <<>>, <<Dot, Dot>>, 0), Word("...", <<>>, <<Dot, Dot, Dot>>, 0),
   Same("char", <<LBracket>>), Same("char", <<Dash>>),
   Relation(Equals, FALSE), Relation(Equals, TRUE), Relation(126, TRUE),
   Word("string", <<9, Quote>>, <<39, Backslash, 116, Quote, 39>>, 0),
   Word("string", <<7, 55>>, <<39, Backslash, 55, Backslash, 48, 53, 53, 39>>, 0),
   Word("string", <<NL, NL>>, <<39, Backslash, CR, NL, Backslash, NL, CR, 39>>, 2)}

\* Blanks, line breaks, and comments of both kinds.
Gaps ==
  {Gap(<<Space>>, 0), Gap(<<NL>>, 1), Gap(<<CR, NL, CR, NL>>, 2), Gap(<<NL, NL, CR>>, 2),
   Gap(<<Space, Dash, Dash, 97, CR, NL>>, 1), Gap(<<Space, Dash, Dash, LBracket, Equals, 97, NL>>, 1),
   Gap(<<Space, Dash, Dash>> \o Brackets(0).open \o <<NL, RBracket, CR>> \o Brackets(0).close, 2),
   Gap(<<Space, Dash, Dash>> \o Brackets(1).open \o Brackets(0).close \o Brackets(1).close, 0)}

TokenTasks ==
  [kind : {"words"}, words : {<<v, w, Same("name", <<97>>)>> :
                              v \in QuotedWords \cup LongWords, w \in Words},
   gaps : {<<g, g, g>> : g \in Gaps}, peeks : {{}}]
    \cup [kind : {"words"}, words : {<<v, w, v>> : v, w \in Words},
          gaps : {<<g, h, g>> : g, h \in Gaps}, peeks : {{2}, {1, 3}}]
    \cup [kind : {"broken"},
          text : {<<Quote, 97>>, <<Quote, 97, NL, Quote>>, <<Quote, Backslash>>,
                  <<Quote, Backslash, 50, 53, 54, Quote>>, <<LBracket, Equals, 97>>,
                  Brackets(0).open \o <<97, RBracket>>, Brackets(1).open \o Brackets(0).close,
                  Brackets(0).open \o Brackets(0).open,
                  <<97, Dash, Dash>> \o Brackets(2).open \o Brackets(1).close}]

-----------------------------------------------------------------------------
(* Lists.                                                                  *)

Pairs(V) == V \X V
Orders == {R \in SUBSET Pairs(1..3) : StrictWeakOrder(R, 1..3)}

\* Relations that are no orders, nil included.
Disorders ==
  {R \cup N \cup M :
     R \in {{}, {<<1, 1>>, <<2, 1>>, <<3, 1>>}, {<<1, 2>>, <<2, 3>>, <<3, 1>>}, Pairs(1..3)},
     N \in {{}, {Absent} \X (1..3)}, M \in {{}, (1..3) \X {Absent}}}

Lists(n) == UNION {[1..k -> 1..3] : k \in 0..n}

SortTasks ==
  [kind : {"sort"}, list : Lists(6), less : Orders, calls : {1000}]
    \cup [kind : {"sort"}, list : Lists(5), less : {{<<1, 2>>, <<1, 3>>, <<2, 3>>}}, calls : 0..9]
    \cup [kind : {"sort"}, list : Lists(5), less : Disorders, calls : {25}]

EditTasks == [kind : {"edit"}, list : Lists(3), pos : 1..5]

Texts == {[i \in 1..n |-> i] : n \in 0..9}

BufferTasks ==
  {[kind |-> "buffer", list |-> l, sep |-> s] :
     l \in UNION {[1..k -> {[i \in 1..n |-> i] : n \in {0, 1, 3, 8}}] : k \in 0..4},
     s \in {<<>>, <<"s">>, <<"s", "t", "u">>}}
  \cup {[kind |-> "buffer", list |-> [i \in 1..n |-> [j \in 1..(2 ^ (n - i) * d) |-> i]], sep |-> <<>>] :
        n \in 1..7, d \in {1, 3}}

-----------------------------------------------------------------------------
Tasks ==
  FindTasks \cup TokenTasks \cup SortTasks \cup EditTasks \cup BufferTasks
    \cup [kind : {"meta", "classes", "require"}]

Init == task \in Tasks /\ MetaInit /\ ClassInit /\ RequireInit

Metatables == Is("meta") /\ MetaNext /\ UNCHANGED <<classVars, requireVars, task>>
ScriptClasses == Is("classes") /\ ClassNext /\ UNCHANGED <<metaVars, requireVars, task>>
ScriptModules == Is("require") /\ RequireNext /\ UNCHANGED <<metaVars, classVars, task>>
Finished ==
  /\ task.kind \notin {"meta", "classes", "require"}
  /\ UNCHANGED <<task, metaVars, classVars, requireVars>>

Next == Metatables \/ ScriptClasses \/ ScriptModules \/ Finished

Spec == Init /\ [][Next]_<<task, metaVars, classVars, requireVars>>
=============================================================================
