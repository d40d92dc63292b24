------------------------------- MODULE LuaLex -------------------------------
(***************************************************************************)
(* The lexer (llex.c), and string.format's "%q" (addquoted of lstrlib.c),  *)
(* which writes strings for it.  Characters are their codes.  A token is   *)
(* its kind, or the character itself, with its text and the line number    *)
(* after it was read.  Numerals and names keep their spelling: the         *)
(* conversion of numerals, malformed ones included, and the list of        *)
(* reserved words are left out.                                            *)
(***************************************************************************)
EXTENDS Integers, Sequences

EOZ == -1
NUL == 0
NL == 10
CR == 13
Space == 32
Quote == 34
Dash == 45
Dot == 46
Equals == 61
LBracket == 91
Backslash == 92
RBracket == 93

Newlines == {NL, CR}
Spaces == {9, 11, 12, Space}
Digits == 48..57
Letters == 65..90 \cup 97..122 \cup {95}
Relations == {Equals, 60, 62, 126}   \* = < > ~
Delimiters == {Quote, 39}

\* luaX_setinput.  ls: the input, the current character's place, the buffer,
\* the line, the token that was looked at ahead; error: luaX_lexerror.
SetInput(text) ==
  [in |-> text, p |-> 1, buff |-> <<>>, line |-> 1, lookahead |-> <<>>, error |-> FALSE]

Current(ls) == IF ls.p > Len(ls.in) THEN EOZ ELSE ls.in[ls.p]
Advance(ls) == [ls EXCEPT !.p = @ + 1]
Save(ls, c) == [ls EXCEPT !.buff = Append(@, c)]
SaveAndNext(ls) == Advance(Save(ls, Current(ls)))
ResetBuffer(ls) == [ls EXCEPT !.buff = <<>>]
LexError(ls) == [ls EXCEPT !.error = TRUE]

\* strchr also finds the '\0' at the end of the set.
CheckNext(ls, set) == Current(ls) \in set \cup {NUL}

\* inclinenumber: "\n\r" and "\r\n" are one line break.
IncLineNumber(ls) ==
  LET a == Advance(ls)
      pair == Current(a) \in Newlines /\ Current(a) # Current(ls)
  IN  [(IF pair THEN Advance(a) ELSE a) EXCEPT !.line = @ + 1]

RECURSIVE SaveWhile(_, _), SaveCount(_, _)
SaveWhile(ls, set) == IF Current(ls) \in set THEN SaveWhile(SaveAndNext(ls), set) ELSE ls

ReadNumeral(ls) ==
  LET a == SaveWhile(ls, Digits \cup {Dot})
      e == IF CheckNext(a, {69, 101}) THEN SaveAndNext(a) ELSE a
      s == IF CheckNext(a, {69, 101}) /\ CheckNext(e, {43, Dash}) THEN SaveAndNext(e) ELSE e
  IN  SaveWhile(s, Digits \cup Letters)

\* skip_sep: the number of "=", if a second bracket follows, or -n - 1.
SaveCount(ls, n) ==
  IF Current(ls) = Equals THEN SaveCount(SaveAndNext(ls), n + 1) ELSE [ls |-> ls, n |-> n]
SkipSep(ls) ==
  LET c == SaveCount(SaveAndNext(ls), 0)
  IN  [ls |-> c.ls, sep |-> IF Current(c.ls) = Current(ls) THEN c.n ELSE -c.n - 1]

\* read_long_string behind its second bracket.  keep: it is no comment.
RECURSIVE LongBody(_, _, _)
LongBody(ls, keep, sep) ==
  LET c == Current(ls)
  IN  IF c = EOZ THEN LexError(ls)
      ELSE IF c \in {LBracket, RBracket}
      THEN LET k == SkipSep(ls)
           IN  IF k.sep # sep THEN LongBody(k.ls, keep, sep)
               ELSE IF c = RBracket THEN SaveAndNext(k.ls)
               ELSE IF sep = 0 THEN LexError(k.ls)   \* LUA_COMPAT_LSTR is 1
               ELSE LongBody(SaveAndNext(k.ls), keep, sep)
      ELSE IF c \in Newlines
      THEN LET n == IncLineNumber(Save(ls, NL))
           IN  LongBody(IF keep THEN n ELSE ResetBuffer(n), keep, sep)
      ELSE LongBody(IF keep THEN SaveAndNext(ls) ELSE Advance(ls), keep, sep)

ReadLongString(ls, keep, sep) ==
  LET a == SaveAndNext(ls)
  IN  LongBody(IF Current(a) \in Newlines THEN IncLineNumber(a) ELSE a, keep, sep)

\* The most digits of an escape.  Mutant: one more.
FourDigits == 4
MaxDigits == 3

\* The number of an escape \ddd, n digits of which are read.
RECURSIVE Escape(_, _, _)
Escape(ls, c, n) ==
  LET d == 10 * c + (Current(ls) - 48)
      a == Advance(ls)
  IN  IF n + 1 < MaxDigits /\ Current(a) \in Digits THEN Escape(a, d, n + 1)
      ELSE IF d > 255 THEN LexError(a)
      ELSE Save(a, d)

\* \a \b \f \n \r \t \v
Named == [c \in {97, 98, 102, 110, 114, 116, 118} |->
            CASE c = 97 -> 7 [] c = 98 -> 8 [] c = 102 -> 12 [] c = 110 -> NL
              [] c = 114 -> CR [] c = 116 -> 9 [] c = 118 -> 11]

\* What follows a backslash.
ReadEscape(ls) ==
  LET c == Current(ls)
  IN  CASE c \in DOMAIN Named -> Advance(Save(ls, Named[c]))
        [] c \in Newlines     -> IncLineNumber(Save(ls, NL))
        [] c \in Digits       -> Escape(ls, 0, 0)
        [] c = EOZ            -> ls
        [] OTHER              -> SaveAndNext(ls)

RECURSIVE StringBody(_, _)
StringBody(ls, del) ==
  LET c == Current(ls)
  IN  IF ls.error THEN ls
      ELSE IF c = del THEN SaveAndNext(ls)
      ELSE IF c \in Newlines \cup {EOZ} THEN LexError(ls)
      ELSE IF c = Backslash THEN StringBody(ReadEscape(Advance(ls)), del)
      ELSE StringBody(SaveAndNext(ls), del)

ReadString(ls) == StringBody(SaveAndNext(ls), Current(ls))

-----------------------------------------------------------------------------
\* The buffer without the delimiters, n characters at each end.
Inner(ls, n) == SubSeq(ls.buff, n + 1, Len(ls.buff) - n)

Token(ls, kind, text) ==
  IF ls.error THEN [ls |-> ls, kind |-> "error", text |-> <<>>, line |-> ls.line]
  ELSE [ls |-> ls, kind |-> kind, text |-> text, line |-> ls.line]

RECURSIVE Lex(_)

\* "--": a long comment, or one up to the end of the line.
Comment(ls) ==
  LET k == SkipSep(ls)
      short == IF Current(ls) = LBracket THEN ResetBuffer(k.ls) ELSE ls
      RECURSIVE ToLineEnd(_)
      ToLineEnd(l) == IF Current(l) \in Newlines \cup {EOZ} THEN l ELSE ToLineEnd(Advance(l))
  IN  IF Current(ls) = LBracket /\ k.sep >= 0
      THEN ResetBuffer(ReadLongString(ResetBuffer(k.ls), FALSE, k.sep))
      ELSE ToLineEnd(short)

Dots(ls) ==
  LET a == SaveAndNext(ls)
      b == SaveAndNext(a)
  IN  IF CheckNext(a, {Dot})
      THEN IF CheckNext(b, {Dot}) THEN Token(SaveAndNext(b), "...", <<>>) ELSE Token(b, "..", <<>>)
      ELSE IF Current(a) \in Digits
      THEN LET n == ReadNumeral(a) IN Token(n, "number", n.buff)
      ELSE Token(a, "char", <<Dot>>)

\* llex, with an empty buffer at the start.
Lex(ls) ==
  LET c == Current(ls)
      a == Advance(ls)
  IN  IF ls.error THEN Token(ls, "error", <<>>)
      ELSE CASE c \in Newlines -> Lex(IncLineNumber(ls))
        [] c = Dash /\ Current(a) = Dash -> Lex(Comment(Advance(a)))
        [] c = LBracket ->
             LET k == SkipSep(ls)
             IN  IF k.sep >= 0
                 THEN LET s == ReadLongString(k.ls, TRUE, k.sep)
                      IN  Token(s, "string", Inner(s, 2 + k.sep))
                 ELSE IF k.sep = -1 THEN Token(k.ls, "char", <<c>>)
                 ELSE Token(LexError(k.ls), "error", <<>>)
        [] c \in Relations ->
             IF Current(a) = Equals THEN Token(Advance(a), "compare", <<c>>)
             ELSE Token(a, "char", <<c>>)
        [] c \in Delimiters ->
             LET s == ReadString(ls) IN Token(s, "string", Inner(s, 1))
        [] c = Dot -> Dots(ls)
        [] c = EOZ -> Token(ls, "eos", <<>>)
        [] c \in Spaces -> Lex(a)
        [] c \in Digits -> LET n == ReadNumeral(SaveAndNext(ls)) IN Token(n, "number", n.buff)
        [] c \in Letters ->
             LET n == SaveWhile(ls, Digits \cup Letters) IN Token(n, "name", n.buff)
        [] OTHER -> Token(a, "char", <<c>>)

Read(ls) == Lex(ResetBuffer(ls))

\* luaX_lookahead and luaX_next.
LookAhead(ls) ==
  LET t == Read(ls)
  IN  [t.ls EXCEPT !.lookahead = <<[t EXCEPT !.ls = NUL]>>]
NextToken(ls) ==
  IF ls.lookahead # <<>>
  THEN [ls.lookahead[1] EXCEPT !.ls = [ls EXCEPT !.lookahead = <<>>]]
  ELSE Read(ls)

\* All tokens of a text, for a parser that looks ahead before each of the
\* tokens in peeks.
RECURSIVE TokensFrom(_, _, _)
TokensFrom(ls, n, peeks) ==
  LET t == NextToken(IF n \in peeks THEN LookAhead(ls) ELSE ls)
      token == [kind |-> t.kind, text |-> t.text, line |-> t.line]
  IN  IF t.kind \in {"eos", "error"} THEN <<token>>
      ELSE <<token>> \o TokensFrom(t.ls, n + 1, peeks)

TokensOf(text, peeks) == TokensFrom(SetInput(text), 1, peeks)

-----------------------------------------------------------------------------
\* addquoted: what "%q" makes of a string.
RECURSIVE QuotedChars(_, _)
QuotedChars(s, i) ==
  IF i > Len(s) THEN <<>>
  ELSE (CASE s[i] \in {Quote, Backslash, NL} -> <<Backslash, s[i]>>
          [] s[i] = CR  -> <<Backslash, 114>>
          [] s[i] = NUL -> <<Backslash, 48, 48, 48>>
          [] OTHER      -> <<s[i]>>) \o QuotedChars(s, i + 1)

Quoted(s) == <<Quote>> \o QuotedChars(s, 1) \o <<Quote>>
=============================================================================
