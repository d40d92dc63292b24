----------------------------- MODULE LuaTabLib ------------------------------
(***************************************************************************)
(* The table library (ltablib.c) and what it builds on of the auxiliary    *)
(* library (lauxlib.c): sorting with a function that may fail or be no     *)
(* order, insertion and removal, and concatenation through a luaL_Buffer,  *)
(* whose pieces wait on the Lua stack.                                     *)
(***************************************************************************)
EXTENDS Integers, Sequences, SequencesExt

CONSTANTS
  BufferSize,  \* LUAL_BUFFERSIZE
  Limit,       \* LIMIT: the levels a buffer may have on the stack
  Absent       \* nil, behind the end of a list

-----------------------------------------------------------------------------
(* auxsort.  S is a sort in progress: the array a, from position 0, where  *)
(* nothing is, to the one behind its end; the relation less; calls, the    *)
(* number of calls of the order function after which it raises an error;   *)
(* error; read, the positions that were compared; and i and j.             *)

NewSort(list, less, calls) ==
  [a |-> [k \in 0..(Len(list) + 1) |-> IF k \in DOMAIN list THEN list[k] ELSE Absent],
   less |-> less, calls |-> calls, error |-> FALSE, read |-> {}, i |-> 0, j |-> 0]

Set2(S, i, j) == [S EXCEPT !.a[i] = S.a[j], !.a[j] = S.a[i]]

\* sort_comp of the elements at i and j, and the call it costs.
Less(S, i, j) == <<S.a[i], S.a[j]>> \in S.less
Compared(S, i, j) ==
  [S EXCEPT !.calls = @ - 1, !.error = @ \/ S.calls = 0, !.read = @ \cup {i, j}]

\* Swaps a[i] and a[j] when a[i] < a[j]: "if a[u] < a[l]" with i = u, j = l.
Order(S, i, j) ==
  LET T == Compared(S, i, j)
  IN  IF T.error THEN T ELSE IF Less(S, i, j) THEN Set2(T, i, j) ELSE T

\* The middle is compared with a[u] only when it is not below a[l].
MiddleOrdered(S, l, i, u) ==
  LET T == Compared(S, i, l)
  IN  IF T.error THEN T ELSE IF Less(S, i, l) THEN Set2(T, i, l) ELSE Order(T, u, i)

\* repeat ++i until a[i] >= P, and repeat --j until a[j] <= P; P is a[u - 1].
\* Past the range the order function is invalid, which is an error.
RECURSIVE Forward(_, _), Backward(_, _, _)
Forward(S, u) ==
  LET i == S.i + 1
      T == [Compared(S, i, u - 1) EXCEPT !.i = i]
  IN  IF T.error \/ ~ Less(S, i, u - 1) THEN T
      ELSE IF i > u THEN [T EXCEPT !.error = TRUE] ELSE Forward(T, u)
Backward(S, l, u) ==
  LET j == S.j - 1
      T == [Compared(S, u - 1, j) EXCEPT !.j = j]
  IN  IF T.error \/ ~ Less(S, u - 1, j) THEN T
      ELSE IF j < l THEN [T EXCEPT !.error = TRUE] ELSE Backward(T, l, u)

\* The loop that leaves a[l..i-1] <= P and P <= a[i..u].
RECURSIVE Partition(_, _, _)
Partition(S, l, u) ==
  LET F == Forward(S, u)
      B == Backward(F, l, u)
  IN  IF F.error THEN F
      ELSE IF B.error \/ B.j < B.i THEN B
      ELSE Partition(Set2(B, B.i, B.j), l, u)

\* The smaller half, which is sorted first, and the larger one.  Mutant: the
\* pivot is taken for sorted with the half before it.
HalvesShort(l, i, u) ==
  IF i - l < u - i THEN <<l, i - 1, i + 2, u>> ELSE <<i + 1, u, l, i - 1>>
Halves(l, i, u) ==
  IF i - l < u - i THEN <<l, i - 1, i + 1, u>> ELSE <<i + 1, u, l, i - 1>>

RECURSIVE AuxSort(_, _, _)
AuxSort(S, l, u) ==
  IF l >= u \/ S.error THEN S
  ELSE LET A == Order(S, u, l)
           m == (l + u) \div 2
           M == MiddleOrdered(A, l, m, u)
       IN  IF A.error \/ u - l = 1 THEN A
           ELSE IF M.error \/ u - l = 2 THEN M
           ELSE LET P == Partition([Set2(M, m, u - 1) EXCEPT !.i = l, !.j = u - 1], l, u)
                IN  IF P.error THEN P
                    ELSE LET h == Halves(l, P.i, u)
                             T == AuxSort(Set2(P, u - 1, P.i), h[1], h[2])
                         IN  AuxSort(T, h[3], h[4])

Sort(list, less, calls) == AuxSort(NewSort(list, less, calls), 1, Len(list))

-----------------------------------------------------------------------------
(* tinsert and tremove on a list t, a function of the positions in use; n  *)
(* is what luaL_getn gives, here the length.                               *)

\* Elements from pos to e - 1 move up one by one, the last first; e is at
\* least pos.
Inserted(t, pos, v) ==
  LET e == IF pos > Len(t) + 1 THEN pos ELSE Len(t) + 1
      Up(a, i) == [a EXCEPT ![i] = a[i - 1]]
      moved == FoldLeft(LAMBDA a, k : Up(a, e + pos + 1 - k),
                        [k \in 1..e |-> IF k \in DOMAIN t THEN t[k] ELSE Absent],
                        [k \in 1..(e - pos) |-> pos + k])
  IN  [moved EXCEPT ![pos] = v]

\* Nothing is removed outside of the bounds.
Removed(t, pos) ==
  IF pos \notin DOMAIN t THEN [list |-> t, value |-> Absent]
  ELSE LET Down(a, i) == [a EXCEPT ![i] = a[i + 1]]
           moved == FoldLeft(Down, t, [k \in 1..(Len(t) - pos) |-> pos + k - 1])
       IN  [list |-> SubSeq(moved, 1, Len(t) - 1), value |-> t[pos]]

-----------------------------------------------------------------------------
(* luaL_Buffer.  B is a buffer: the characters in it, the strings it has   *)
(* on the stack (level of them, the last on top), and the most slots of    *)
(* the stack that were in use.                                             *)

BuffInit == [buffer |-> <<>>, stack |-> <<>>, most |-> 0]

Pushed(B, str) ==
  LET stack == Append(B.stack, str)
  IN  [B EXCEPT !.stack = stack, !.most = IF Len(stack) > @ THEN Len(stack) ELSE @]

Concat(B, n) ==
  LET rest == Len(B.stack) - n
  IN  [B EXCEPT !.stack = Append(SubSeq(@, 1, rest),
                                 FlattenSeq(SubSeq(@, rest + 1, Len(@))))]

EmptyBuffer(B) == IF B.buffer = <<>> THEN B ELSE [Pushed(B, B.buffer) EXCEPT !.buffer = <<>>]

\* Whether a string of length l below toget strings of length toplen joins
\* them.  Mutant: only for its length.
JoinsShort(level, toget, toplen, l) == toplen > l
Joins(level, toget, toplen, l) == level - toget + 1 >= Limit \/ toplen > l

RECURSIVE ToGet(_, _, _)
ToGet(B, toget, toplen) ==
  LET level == Len(B.stack)
      l     == Len(B.stack[level - toget])
  IN  IF toget < level /\ Joins(level, toget, toplen, l)
      THEN ToGet(B, toget + 1, toplen + l) ELSE toget

AdjustStack(B) ==
  IF Len(B.stack) <= 1 THEN B ELSE Concat(B, ToGet(B, 1, Len(Last(B.stack))))

\* luaL_prepbuffer, for luaL_addchar when the buffer is full.
PrepBuffer(B) == IF B.buffer = <<>> THEN B ELSE AdjustStack(EmptyBuffer(B))

AddChar(B, c) ==
  LET P == IF Len(B.buffer) < BufferSize THEN B ELSE PrepBuffer(B)
  IN  [P EXCEPT !.buffer = Append(@, c)]

AddLString(B, str) == FoldLeft(AddChar, B, str)

\* luaL_addvalue: the value is on top of the stack, above the strings of B.
\* A value that does not fit into the buffer stays there, the buffer's
\* characters below it.
AddValue(B, str) ==
  IF Len(str) <= BufferSize - Len(B.buffer)
  THEN [Pushed(B, str) EXCEPT !.stack = B.stack, !.buffer = @ \o str]
  ELSE AdjustStack(Pushed(EmptyBuffer(B), str))

PushResult(B) ==
  LET E == EmptyBuffer(B)
  IN  Concat(E, Len(E.stack))

\* tconcat: values and separators, in turn.
TConcat(list, sep) ==
  LET Add(B, i) == LET V == AddValue(B, list[i])
                   IN  IF i < Len(list) THEN AddLString(V, sep) ELSE V
  IN  PushResult(FoldLeft(Add, BuffInit, [i \in DOMAIN list |-> i]))

=============================================================================
