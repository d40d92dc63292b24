----------------------------- MODULE LibMeaning -----------------------------
(***************************************************************************)
(* What the libraries of the scripts promise, stated without the           *)
(* algorithms of LuaPattern, LuaLex and LuaTabLib: task is one use of one  *)
(* of them.                                                                *)
(***************************************************************************)
EXTENDS LuaPattern, LuaLex, LuaTabLib, LuaRequire, LuaMeta, ScriptClass, FiniteSets

CONSTANT Lexer(_, _)   \* TokensOf

VARIABLE task

Is(kind) == task.kind = kind

-----------------------------------------------------------------------------
(* Patterns.  A derivation gives the lengths that the items of a pattern   *)
(* match, one after the other; the match is the derivation that is         *)
(* preferred: at the first item where two differ, the longer length, or    *)
(* the shorter one of a lazy item.                                         *)

Opens(pat) == {i \in DOMAIN pat : pat[i].op \in {"open", "position"}}

\* The item that opens capture l, and the item that closes the one opened at o.
Opener(pat, l) ==
  CHOOSE o \in Opens(pat) : Cardinality({i \in Opens(pat) : i <= o}) = l
Depth(pat, i, j) ==
  Cardinality({k \in i..j : pat[k].op = "open"}) - Cardinality({k \in i..j : pat[k].op = "close"})
Closer(pat, o) ==
  CHOOSE j \in (o + 1)..Len(pat) : Depth(pat, o, j) = 0
                                   /\ \A k \in o..(j - 1) : Depth(pat, o, k) > 0

\* Every capture is closed, no other is, and copies are of closed captures.
WellFormed(pat) ==
  /\ \A i \in DOMAIN pat : Depth(pat, 1, i) >= 0
  /\ Depth(pat, 1, Len(pat)) = 0
  /\ \A i \in DOMAIN pat :
       pat[i].op = "back" =>
         /\ pat[i].l <= Cardinality({o \in Opens(pat) : o < i})
         /\ LET o == Opener(pat, pat[i].l)
            IN  pat[o].op = "open" => Closer(pat, o) < i

\* The string of capture l when item i starts at at[i]: <<from, end>>.
Captured(pat, at, l) ==
  LET o == Opener(pat, l)
  IN  <<at[o], at[IF pat[o].op = "open" THEN Closer(pat, o) ELSE o]>>

AllIn(src, s, n, set) == s + n - 1 <= Len(src) /\ \A i \in s..(s + n - 1) : src[i] \in set

Balanced(src, s, n, b, e) ==
  LET Count(c, k) == Cardinality({i \in (s + 1)..k : src[i] = c})
      Open(k) == 1 + (IF b = e THEN 0 ELSE Count(b, k)) - Count(e, k)
  IN  /\ n > 1
      /\ s + n - 1 <= Len(src)
      /\ src[s] = b
      /\ Open(s + n - 1) = 0
      /\ \A k \in s..(s + n - 2) : Open(k) > 0

Boundary(src, s, set) ==
  LET Char(i) == IF i \in DOMAIN src THEN src[i] ELSE Zero
  IN  Char(s - 1) \notin set /\ Char(s) \in set

Copies(src, s, n, from, end) ==
  n = end - from /\ s + n - 1 <= Len(src) /\ SubSeq(src, s, s + n - 1) = SubSeq(src, from, end - 1)

\* The lengths that item i may match at s; at holds where the items before it
\* started.
Lengths(src, pat, i, s, at) ==
  LET item == pat[i]
      Up(lo, hi) == {n \in lo..hi : AllIn(src, s, n, item.set)}
  IN  CASE item.op \in {"open", "close", "position"} -> {0}
        [] item.op = "one"      -> Up(1, 1)
        [] item.op = "?"        -> Up(0, 1)
        [] item.op \in {"*", "-"} -> Up(0, Len(src))
        [] item.op = "+"        -> Up(1, Len(src))
        [] item.op = "end"      -> IF s = Len(src) + 1 THEN {0} ELSE {}
        [] item.op = "balance"  -> {n \in 0..Len(src) : Balanced(src, s, n, item.b, item.e)}
        [] item.op = "frontier" -> IF Boundary(src, s, item.set) THEN {0} ELSE {}
        [] item.op = "back"     ->
             {n \in 0..Len(src) :
                /\ pat[Opener(pat, item.l)].op = "open"
                /\ LET c == Captured(pat, at, item.l) IN Copies(src, s, n, c[1], c[2])}

\* All derivations of the items from i on, as sequences of starts, the end of
\* the match last.
RECURSIVE Derivations(_, _, _, _)
Derivations(src, pat, i, at) ==
  IF i > Len(pat) THEN {at}
  ELSE UNION {Derivations(src, pat, i + 1, Append(at, Last(at) + n)) :
              n \in Lengths(src, pat, i, Last(at), at)}

Preferred(pat, c, d) ==
  \/ c = d
  \/ LET i == CHOOSE k \in DOMAIN c : c[k] # d[k] /\ \A m \in 1..(k - 1) : c[m] = d[m]
     IN  IF pat[i - 1].op = "-" THEN c[i] < d[i] ELSE c[i] > d[i]

MatchAt(src, pat, s) == Derivations(src, pat, 1, <<s>>)

Meant(src, pat) ==
  LET starts == {s \in 1..(Len(src) + 1) : MatchAt(src, pat, s) # {}}
  IN  IF starts = {} THEN NotFound
      ELSE LET s   == CHOOSE x \in starts : \A y \in starts : x <= y
               all == MatchAt(src, pat, s)
               at  == CHOOSE c \in all : \A d \in all : Preferred(pat, c, d)
               Capture(l) == LET c == Captured(pat, at, l) IN
                 [init |-> c[1],
                  len |-> IF pat[Opener(pat, l)].op = "open" THEN c[2] - c[1] ELSE POSITION]
           IN  [from |-> s, to |-> Last(at), error |-> FALSE,
                captures |-> [l \in 1..Cardinality(Opens(pat)) |-> Capture(l)]]

\* The characters that are left when every match is replaced by itself.
Spelled(src, pieces) ==
  FlattenSeq([i \in DOMAIN pieces |->
    IF pieces[i].from = NULL THEN <<pieces[i].to>>
    ELSE [k \in 1..(pieces[i].to - pieces[i].from) |-> pieces[i].from + k - 1]])

\* string.find gives the match that the pattern stands for, captures included,
\* whatever the matcher tried before it found it; a pattern with captures that
\* do not fit together never matches; and gsub replaces the matches that gmatch
\* gives, and nothing else.
MatchesAsDefined ==
  Is("find") =>
    LET found == StrFind(task.src, task.pat, 1, FALSE)
        all   == GMatch(task.src, task.pat, 1)
        parts == GSub(task.src, task.pat, 1, Len(task.src) + 1, FALSE)
    IN  IF WellFormed(task.pat)
        THEN /\ found = Meant(task.src, task.pat)
             /\ SelectSeq(parts, LAMBDA x : x.from # NULL) = all
             /\ Spelled(task.src, parts) = [i \in 1..Len(task.src) |-> i]
        ELSE found.from = NULL

-----------------------------------------------------------------------------
(* Tokens.  A word is a token as it is spelled, with what it stands for and *)
(* the line breaks in it; a gap is what may lie between two words.         *)

Spelling(words, gaps) ==
  FlattenSeq([i \in DOMAIN words |-> words[i].spelled \o gaps[i].spelled])

\* The line of the end of word i.
LineOf(words, gaps, i) ==
  FoldLeft(LAMBDA line, k : line + words[k].breaks + (IF k = 1 THEN 0 ELSE gaps[k - 1].breaks),
           1, [k \in 1..i |-> k])

\* The lexer gives the words back, each with its text and its line: quoted
\* strings as "%q" writes them, long brackets without a first line break and
\* with any line break as "\n", nothing of the comments; wherever the parser
\* looks ahead it reads the same tokens.  An unfinished string or comment, and a
\* number of an escape that is no character, is an error.
TokensAsWritten ==
  /\ Is("words") =>
       LET n == Len(task.words)
           tokens == Lexer(Spelling(task.words, task.gaps), task.peeks)
       IN  /\ Len(tokens) = n + 1
           /\ tokens[n + 1].kind = "eos"
           /\ \A i \in 1..n :
                tokens[i] = [kind |-> task.words[i].kind, text |-> task.words[i].text,
                             line |-> LineOf(task.words, task.gaps, i)]
  /\ Is("broken") => Last(Lexer(task.text, {})).kind = "error"

-----------------------------------------------------------------------------
(* Lists.                                                                  *)

StrictWeakOrder(R, V) ==
  /\ \A a \in V : <<a, a>> \notin R
  /\ \A a, b, c \in V : <<a, b>> \in R /\ <<b, c>> \in R => <<a, c>> \in R
  /\ \A a, b, c \in V : <<a, b>> \in R => <<a, c>> \in R \/ <<c, b>> \in R

Times(f, v) == Cardinality({i \in DOMAIN f : f[i] = v})

\* table.sort with an order that does not fail sorts the list and compares
\* nothing but its elements.  With any other function, one that fails at some
\* call or one that is no order, no element is lost or doubled, although one
\* may change places with the nil in front of or behind the list.
ListSorted ==
  Is("sort") =>
    LET n == Len(task.list)
        S == Sort(task.list, task.less, task.calls)
    IN  /\ \A v \in ToSet(task.list) : Times(S.a, v) = Times(task.list, v)
        /\ StrictWeakOrder(task.less, ToSet(task.list)) =>
             /\ S.read \subseteq 1..n
             /\ ~ S.error => \A i \in 1..(n - 1) : <<S.a[i + 1], S.a[i]>> \notin task.less

\* insert puts a value between two elements and remove takes it out again, and
\* the elements keep their order.
ListEdited ==
  Is("edit") =>
    LET t == Inserted(task.list, task.pos, "new")
    IN  /\ task.pos <= Len(task.list) + 1 => t = InsertAt(task.list, task.pos, "new")
        /\ \A i \in DOMAIN task.list : t[IF i < task.pos THEN i ELSE i + 1] = task.list[i]
        /\ task.pos <= Len(task.list) + 1 =>
             Removed(t, task.pos) = [list |-> task.list, value |-> "new"]

ListsKept == ListSorted /\ ListEdited

\* Whatever is added to a buffer is in its result, in that order, and what the
\* buffer keeps on the stack meanwhile stays within the slots that every C
\* function may use: LIMIT strings and the one that is being added.
BufferInOrder ==
  Is("buffer") =>
    LET B == TConcat(task.list, task.sep)
        n == Len(task.list)
    IN  /\ B.stack = <<FlattenSeq([i \in 1..n |->
                        IF i < n THEN task.list[i] \o task.sep ELSE task.list[i]])>>
        /\ B.most <= Limit + 1

=============================================================================
