------------------------------ MODULE LuaDump ------------------------------
(***************************************************************************)
(* Binary chunks: what luaU_dump writes of a prototype (ldump.c), what     *)
(* luaU_undump makes of it (lundump.c), and the stream between them, which *)
(* delivers the bytes in pieces (lzio.c).                                  *)
(*                                                                         *)
(* A variable of n bytes is written as n bytes that each say whose part    *)
(* they are; a loader that reads other bytes than were written for the     *)
(* variable gets Garbage.  Numbers and instructions have two bytes here.   *)
(***************************************************************************)
EXTENDS LuaCheck

Null == <<"null">>
Garbage == <<"garbage">>
Header == <<"header", 51>>    \* LUAC_VERSION and the sizes of the types

Bytes(x, n) == [i \in 1..n |-> <<x, i, n>>]

\* A prototype and those in it with the source they get.
RECURSIVE WithSource(_, _)
WithSource(p, source) ==
  [code |-> p.code, k |-> p.k, p |-> [n \in DOMAIN p.p |-> WithSource(p.p[n], source)],
   nups |-> p.nups, upvalues |-> p.upvalues, numparams |-> p.numparams,
   vararg |-> p.vararg, maxstack |-> p.maxstack, locvars |-> p.locvars, source |-> source]

RECURSIVE Stripped(_)
Stripped(p) == [p EXCEPT !.locvars = <<>>, !.upvalues = <<>>, !.p = [n \in DOMAIN @ |-> Stripped(@[n])]]

-----------------------------------------------------------------------------
(* ldump.c *)

DumpChar(y) == Bytes(y, 1)
DumpInt(n) == Bytes(<<"int", n>>, 2)
DumpString(s) ==
  IF s = Null THEN DumpInt(0) ELSE DumpInt(Len(s[2]) + 1) \o Bytes(s, Len(s[2]) + 1)

\* FlattenSeq of what is dumped of each member, behind their number.
DumpAll(dumps) == DumpInt(Len(dumps)) \o FlattenSeq(dumps)

DumpConstant(v) ==
  DumpChar(<<"type", v[1]>>) \o
  CASE v[1] = "nil" -> <<>>
    [] v[1] = "bool" -> DumpChar(v)
    [] v[1] = "num" -> Bytes(v, 2)
    [] v[1] = "str" -> DumpString(v)

DumpLocVar(v) == DumpString(Str(v.name)) \o DumpInt(v.startpc) \o DumpInt(v.endpc)

\* DumpFunction with DumpCode, DumpConstants and DumpDebug; outer is the source
\* of the function around it.
RECURSIVE DumpFunction(_, _, _)
DumpFunction(f, outer, strip) ==
  DumpString(IF f.source = outer \/ strip THEN Null ELSE f.source)
  \o DumpChar(<<"nups", f.nups>>) \o DumpChar(<<"numparams", f.numparams>>)
  \o DumpChar(<<"is_vararg", f.vararg>>) \o DumpChar(<<"maxstacksize", f.maxstack>>)
  \o DumpAll([n \in DOMAIN f.code |-> Bytes(<<"instr", f.code[n]>>, 2)])
  \o DumpAll([n \in DOMAIN f.k |-> DumpConstant(f.k[n])])
  \o DumpAll([n \in DOMAIN f.p |-> DumpFunction(f.p[n], f.source, strip)])
  \o DumpAll([n \in DOMAIN f.locvars \ (IF strip THEN DOMAIN f.locvars ELSE {}) |-> DumpLocVar(f.locvars[n])])
  \o DumpAll([n \in DOMAIN f.upvalues \ (IF strip THEN DOMAIN f.upvalues ELSE {}) |-> DumpString(Str(f.upvalues[n]))])

Dump(f, strip) == Bytes(Header, 4) \o DumpFunction(f, Null, strip)

-----------------------------------------------------------------------------
(* lzio.c *)

\* A stream: the bytes at data that the reader has handed out end at data[p + n];
\* it hands out piece bytes at a time.
Stream(data, piece) == [data |-> data, p |-> 0, n |-> 0, piece |-> piece]

Least(m, n) == IF m < n THEN m ELSE n

\* luaZ_fill: the first byte of the new piece is taken already.
NextPiece(z) ==
  LET size == Least(z.piece, Len(z.data) - z.p)
  IN  [z EXCEPT !.n = size - 1, !.p = @ + 1]

AtEnd(z) == z.n = 0 /\ z.p = Len(z.data)

\* luaZ_lookahead puts it back.  Mutant: it does not.
FirstLost(z) == IF z.n = 0 THEN NextPiece(z) ELSE z
Lookahead(z) ==
  LET g == NextPiece(z) IN IF z.n = 0 THEN [g EXCEPT !.n = @ + 1, !.p = @ - 1] ELSE z

\* luaZ_read: n bytes into got, as many as there are.
RECURSIVE Read(_, _, _)
Read(z, n, got) ==
  LET l == Lookahead(z)
      m == Least(n, l.n)
  IN  IF n = 0 \/ AtEnd(z) THEN [z |-> z, got |-> got]
      ELSE Read([l EXCEPT !.n = @ - m, !.p = @ + m], n - m, got \o SubSeq(l.data, l.p + 1, l.p + m))

-----------------------------------------------------------------------------
(* lundump.c.  A loader has the stream, what it loaded last, and whether it *)
(* raised an error, after which it loads nothing.                           *)

\* LoadBlock and LoadVar: a variable of n bytes.
LoadVar(s, n) ==
  LET r == Read(s.z, n, <<>>)
      x == r.got[1][1]
  IN  IF s.err \/ Len(r.got) < n THEN [s EXCEPT !.err = TRUE, !.v = Garbage]
      ELSE [s EXCEPT !.z = r.z, !.v = IF r.got = Bytes(x, n) THEN x ELSE Garbage]

LoadInt(s) ==
  LET g == LoadVar(s, 2)
      good == ~ g.err /\ g.v[1] = "int"
  IN  [g EXCEPT !.err = ~ good, !.v = IF good THEN g.v[2] ELSE 0]

LoadByte(s) ==
  LET g == LoadVar(s, 1) IN [g EXCEPT !.v = IF Len(@) = 2 THEN @[2] ELSE Garbage]

LoadString(s) ==
  LET g == LoadInt(s) IN IF g.v = 0 THEN [g EXCEPT !.v = Null] ELSE LoadVar(g, g.v)

LoadConstant(s) ==
  LET t == LoadVar(s, 1)
  IN  CASE t.v = <<"type", "nil">> -> [t EXCEPT !.v = Nil]
        [] t.v = <<"type", "bool">> -> LoadVar(t, 1)
        [] t.v = <<"type", "num">> -> LoadVar(t, 2)
        [] t.v = <<"type", "str">> -> LoadString(t)
        [] OTHER -> [t EXCEPT !.err = TRUE]

LoadLocVar(s) ==
  LET x == LoadString(s)
      from == LoadInt(x)
      to == LoadInt(from)
  IN  [to EXCEPT !.v = [name |-> x.v[Len(x.v)], startpc |-> from.v, endpc |-> to.v]]

LoadName(s) == LET g == LoadString(s) IN [g EXCEPT !.v = @[Len(@)]]

LoadInstruction(s) == LET g == LoadVar(s, 2) IN [g EXCEPT !.v = @[Len(@)]]

\* As many of them as the number in front says.
LoadAll(s, One(_)) ==
  LET n == LoadInt(s)
      all == FoldLeft(LAMBDA a, i : LET b == One(a.s) IN [s |-> b, vs |-> Append(a.vs, b.v)],
                      [s |-> n, vs |-> <<>>], [i \in 1..n.v |-> i])
  IN  [all.s EXCEPT !.v = all.vs]

RECURSIVE LoadFunction(_, _)
LoadFunction(s, outer) ==
  LET source == LoadString(s)
      mine == IF source.v = Null THEN outer ELSE source.v
      nups == LoadByte(source)
      numparams == LoadByte(nups)
      vararg == LoadByte(numparams)
      maxstack == LoadByte(vararg)
      code == LoadAll(maxstack, LoadInstruction)
      k == LoadAll(code, LoadConstant)
      p == LoadAll(k, LAMBDA a : LoadFunction(a, mine))
      locvars == LoadAll(p, LoadLocVar)
      upvalues == LoadAll(locvars, LoadName)
      f == [source |-> mine, nups |-> nups.v, numparams |-> numparams.v, vararg |-> vararg.v,
            maxstack |-> maxstack.v, code |-> code.v, k |-> k.v, p |-> p.v,
            locvars |-> locvars.v, upvalues |-> upvalues.v]
  IN  IF maxstack.err \/ code.err \/ k.err \/ p.err \/ upvalues.err THEN upvalues
      ELSE [upvalues EXCEPT !.v = f, !.err = ~ CheckCode(f)]

\* luaU_undump.
Undump(data, piece) ==
  LET h == LoadVar([z |-> Stream(data, piece), v |-> Garbage, err |-> FALSE], 4)
  IN  IF h.v # Header THEN [h EXCEPT !.err = TRUE] ELSE LoadFunction(h, Str("=?"))

=============================================================================
