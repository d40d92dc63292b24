----------------------------- MODULE LuaPattern -----------------------------
(***************************************************************************)
(* The pattern matcher of the string library (lstrlib.c): it backtracks    *)
(* over one shared MatchState, whose captures every failing branch has to  *)
(* put back as it found them.                                              *)
(*                                                                         *)
(* A subject is a sequence of characters.  A pattern is a sequence of      *)
(* items: a character class is the set of characters it matches, so that   *)
(* classend, match_class and matchbracketclass are abstracted.  Positions  *)
(* count from 1; a string is given by its first position and its end.      *)
(***************************************************************************)
EXTENDS Integers, Sequences

CONSTANTS
  MaxCaptures,  \* LUA_MAXCAPTURES
  Zero          \* the character '\0', which frontiers see at both ends

NULL == 0
UNFINISHED == -1
POSITION == -2

\* A MatchState: the subject, the pattern, and the captures, whose number is
\* level.  error: luaL_error was called.
NewState(src, pat) == [src |-> src, pat |-> pat, capture |-> <<>>, error |-> FALSE]

At(e, ms) == [to |-> e, ms |-> ms]
Fails(ms) == At(NULL, ms)
Raises(ms) == Fails([ms EXCEPT !.error = TRUE])

CharAt(ms, s) == IF s \in DOMAIN ms.src THEN ms.src[s] ELSE Zero

SingleMatch(ms, s, set) == s <= Len(ms.src) /\ ms.src[s] \in set

\* capture_to_close: the last capture that is not finished, or NULL.
ToClose(ms) ==
  LET open == {l \in DOMAIN ms.capture : ms.capture[l].len = UNFINISHED}
  IN  IF open = {} THEN NULL ELSE CHOOSE l \in open : \A o \in open : o <= l

\* The end of the balanced string at s, or NULL.
RECURSIVE Balance(_, _, _, _)
Balance(ms, s, item, cont) ==
  IF s > Len(ms.src) THEN NULL
  ELSE IF ms.src[s] = item.e
  THEN IF cont = 1 THEN s + 1 ELSE Balance(ms, s + 1, item, cont - 1)
  ELSE Balance(ms, s + 1, item, IF ms.src[s] = item.b THEN cont + 1 ELSE cont)

MatchBalance(ms, s, item) ==
  IF CharAt(ms, s) # item.b \/ s > Len(ms.src) THEN NULL
  ELSE Balance(ms, s + 1, item, 1)

\* The end of a copy of capture l at s; a position has no copy.
CopyEnd(ms, s, l) ==
  LET c == ms.capture[l]
  IN  IF /\ c.len # POSITION
         /\ s + c.len - 1 <= Len(ms.src)
         /\ \A i \in 0..(c.len - 1) : ms.src[c.init + i] = ms.src[s + i]
      THEN s + c.len ELSE NULL

AtFrontier(ms, s, set) == CharAt(ms, s - 1) \notin set /\ CharAt(ms, s) \in set

\* How often the item can be repeated from s on.
RECURSIVE Repeats(_, _, _)
Repeats(ms, s, set) ==
  IF SingleMatch(ms, s, set) THEN 1 + Repeats(ms, s + 1, set) ELSE 0

\* What a failing branch does to the captures.  Mutant: a closed one stays
\* closed.
ReopenedNot(ms, l) == ms
Reopened(ms, l) == [ms EXCEPT !.capture[l].len = UNFINISHED]
Dropped(ms) == [ms EXCEPT !.capture = SubSeq(@, 1, Len(@) - 1)]

RECURSIVE Match(_, _, _), MaxExpand(_, _, _, _), MinExpand(_, _, _)

\* The rest of the pattern after i repetitions, or fewer.
MaxExpand(ms, s, i, p) ==
  LET r == Match(ms, s + i, p + 1)
  IN  IF r.to # NULL \/ r.ms.error \/ i = 0 THEN r ELSE MaxExpand(r.ms, s, i - 1, p)

MinExpand(ms, s, p) ==
  LET r == Match(ms, s, p + 1)
  IN  IF r.to # NULL \/ r.ms.error THEN r
      ELSE IF SingleMatch(r.ms, s, ms.pat[p].set) THEN MinExpand(r.ms, s + 1, p)
      ELSE r

StartCapture(ms, s, p, what) ==
  IF Len(ms.capture) >= MaxCaptures THEN Raises(ms)
  ELSE LET r == Match([ms EXCEPT !.capture = Append(@, [init |-> s, len |-> what])], s, p)
       IN  IF r.to = NULL /\ ~ r.ms.error THEN Fails(Dropped(r.ms)) ELSE r

EndCapture(ms, s, p) ==
  LET l == ToClose(ms)
  IN  IF l = NULL THEN Raises(ms)
      ELSE LET r == Match([ms EXCEPT !.capture[l].len = s - ms.capture[l].init], s, p)
           IN  IF r.to = NULL /\ ~ r.ms.error THEN Fails(Reopened(r.ms, l)) ELSE r

\* An optional item: with it, else without.
Optional(ms, s, p) ==
  LET r == IF SingleMatch(ms, s, ms.pat[p].set) THEN Match(ms, s + 1, p + 1) ELSE Fails(ms)
  IN  IF r.to # NULL \/ r.ms.error THEN r ELSE Match(r.ms, s, p + 1)

\* match: the end of the match of the pattern from item p on, at s, or NULL.
Match(ms, s, p) ==
  IF p > Len(ms.pat) THEN At(s, ms)
  ELSE LET item == ms.pat[p]
           Then(e) == IF e = NULL THEN Fails(ms) ELSE Match(ms, e, p + 1)
       IN  CASE item.op = "open"     -> StartCapture(ms, s, p + 1, UNFINISHED)
             [] item.op = "position" -> StartCapture(ms, s, p + 1, POSITION)
             [] item.op = "close"    -> EndCapture(ms, s, p + 1)
             [] item.op = "balance"  -> Then(MatchBalance(ms, s, item))
             [] item.op = "frontier" -> Then(IF AtFrontier(ms, s, item.set) THEN s ELSE NULL)
             [] item.op = "back"     ->
                  IF item.l \notin DOMAIN ms.capture \/ ms.capture[item.l].len = UNFINISHED
                  THEN Raises(ms) ELSE Then(CopyEnd(ms, s, item.l))
             [] item.op = "end"      -> Then(IF s = Len(ms.src) + 1 THEN s ELSE NULL)
             [] item.op = "?"        -> Optional(ms, s, p)
             [] item.op = "*"        -> MaxExpand(ms, s, Repeats(ms, s, item.set), p)
             [] item.op = "+"        ->
                  IF SingleMatch(ms, s, item.set)
                  THEN MaxExpand(ms, s + 1, Repeats(ms, s + 1, item.set), p) ELSE Fails(ms)
             [] item.op = "-"        -> MinExpand(ms, s, p)
             [] item.op = "one"      ->
                  Then(IF SingleMatch(ms, s, item.set) THEN s + 1 ELSE NULL)

-----------------------------------------------------------------------------
(* The functions of the library.                                           *)

NotFound == [from |-> NULL, to |-> NULL, captures |-> <<>>, error |-> FALSE]
Error == [NotFound EXCEPT !.error = TRUE]

\* push_captures after a match at s; an unfinished capture is an error.
Found(s, r) ==
  IF \E l \in DOMAIN r.ms.capture : r.ms.capture[l].len = UNFINISHED THEN Error
  ELSE [from |-> s, to |-> r.to, captures |-> r.ms.capture, error |-> FALSE]

\* The first match at s or behind it; level starts at 0 each time.
RECURSIVE Search(_, _, _, _)
Search(src, pat, s, anchor) ==
  LET r == Match(NewState(src, pat), s, 1)
  IN  IF r.ms.error THEN Error
      ELSE IF r.to # NULL THEN Found(s, r)
      ELSE IF s > Len(src) \/ anchor THEN NotFound
      ELSE Search(src, pat, s + 1, anchor)

\* str_find_aux: negative positions count from the end (posrelat).
StrFind(src, pat, init, anchor) ==
  LET i == IF init < 0 THEN init + Len(src) + 1 ELSE init
  IN  Search(src, pat, IF i < 1 THEN 1 ELSE IF i > Len(src) THEN Len(src) + 1 ELSE i, anchor)

\* Where gmatch_aux goes on: an empty match moves on by one.
NextStart(m) == IF m.to = m.from THEN m.to + 1 ELSE m.to

\* All matches that gmatch gives; it knows no anchor.
RECURSIVE GMatch(_, _, _)
GMatch(src, pat, s) ==
  IF s > Len(src) + 1 THEN <<>>
  ELSE LET m == Search(src, pat, s, FALSE)
       IN  IF m.error THEN <<m>>
           ELSE IF m.from = NULL THEN <<>>
           ELSE <<m>> \o GMatch(src, pat, NextStart(m))

\* A character that gsub copies.
Copied(s) == [NotFound EXCEPT !.to = s]

\* str_gsub: the matches that are replaced, at most max of them, and the
\* characters between them, in the order they are added to the result.
RECURSIVE GSub(_, _, _, _, _)
GSub(src, pat, s, max, anchor) ==
  IF max = 0 THEN [i \in 1..(Len(src) + 1 - s) |-> Copied(s - 1 + i)]
  ELSE LET r     == Match(NewState(src, pat), s, 1)
           added == IF r.to = NULL THEN <<>> ELSE <<Found(s, r)>>
           left  == IF r.to = NULL THEN max ELSE max - 1
           Rest(e) == IF anchor THEN GSub(src, pat, e, 0, anchor)
                      ELSE GSub(src, pat, e, left, anchor)
       IN  IF r.ms.error THEN <<Error>>
           ELSE IF r.to > s THEN added \o Rest(r.to)
           ELSE IF s <= Len(src) THEN added \o <<Copied(s)>> \o Rest(s + 1)
           ELSE added
=============================================================================
