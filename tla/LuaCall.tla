------------------------------ MODULE LuaCall -------------------------------
(***************************************************************************)
(* Calls, errors and coroutines of the Lua runtime (lua/ldo.c, the         *)
(* coroutine library in lua/lbaselib.c, the calls in lua/lvm.c).           *)
(*                                                                         *)
(* Each Lua thread has an array of CallInfo; all threads share the one C   *)
(* stack, on which the runtime recurs.  An error unwinds the C stack to    *)
(* the last luaD_rawrunprotected of the running thread (longjmp or a C++   *)
(* exception); a yield returns through it.  What a thread believes about   *)
(* itself must agree with the C stack.                                     *)
(*                                                                         *)
(* The C stack is a sequence of activations:                               *)
(*   "call"      luaD_call; raises if luaG_errormsg called the handler     *)
(*   "execute"   luaV_execute, running calls of its CallInfos (nexeccalls) *)
(*   "function"  a C function that luaD_precall called                     *)
(*   "pcall"     luaD_pcall, with what it saved and the handler it set     *)
(*   "resume"    lua_resume of the thread                                  *)
(* What a function does in between is any choice of the operations below;  *)
(* the host calls when the C stack is empty.                               *)
(***************************************************************************)
EXTENDS Integers, Sequences, SequencesExt, FiniteSets

CONSTANTS
  Main,       \* the main thread
  Coroutines, \* the other threads
  MaxCCalls,  \* LUAI_MAXCCALLS
  Reserve,    \* LUAI_MAXCCALLS >> 3: C calls left for handling an overflow
  BasicCI,    \* BASIC_CI_SIZE
  MaxCalls    \* LUAI_MAXCALLS

Threads == {Main} \cup Coroutines

ASSUME CallAssumption ==
  /\ Main \notin Coroutines
  /\ MaxCCalls \in Nat \ {0} /\ Reserve \in Nat \ {0}
  /\ BasicCI \in Nat \ {0, 1} /\ MaxCalls \in Nat /\ BasicCI <= MaxCalls

VARIABLES
  native,   \* the C stack
  ci,       \* ci[t]: the CallInfos above base_ci, by the kind of function
  size,     \* size[t]: size_ci
  nCcalls,  \* nCcalls[t]: what the thread takes the depth of the C stack for
  base,     \* base[t]: baseCcalls
  status,   \* status[t]: "ok", "yield" or "error"
  errorJmp, \* errorJmp[t]: the chain of jump buffers, as places on the C stack
  errfunc,  \* errfunc[t]: an error handler is set
  fresh,    \* the threads that were created and not resumed
  err       \* the error being raised: "run" before its handler ran, "throw"

perThread == <<ci, size, nCcalls, base, status, errorJmp, errfunc>>
vars == <<native, perThread, fresh, err>>

-----------------------------------------------------------------------------
(* Activations.                                                            *)

Call(t, raises) == [op |-> "call", th |-> t, raises |-> raises]
Execute(t, n)   == [op |-> "execute", th |-> t, n |-> n]
Function(t)     == [op |-> "function", th |-> t]
Resumption(t)   == [op |-> "resume", th |-> t]
PCall(t, h)     == [op |-> "pcall", th |-> t, handler |-> h, ci |-> Len(ci[t]),
                    nCcalls |-> nCcalls[t], errfunc |-> errfunc[t]]

Body(t, f) == IF f = "Lua" THEN Execute(t, 1) ELSE Function(t)

\* The thread whose activation is on top of the C stack s.
Holder(s) == IF s = <<>> THEN Main ELSE Last(s).th
Running == Holder(native)
AtTop(op) == err = "none" /\ native # <<>> /\ Last(native).op = op
HostRuns == err = "none" /\ native = <<>>

\* The thread has a function that runs C code: of the host, or its own.
InC(t) == t = Running /\ (HostRuns \/ AtTop("function"))

-----------------------------------------------------------------------------
(* luaD_precall and luaD_call.                                             *)

\* inc_ci: growCI doubles a full array, and raises an error once it exceeds
\* LUAI_MAXCALLS; when that happens again it throws LUA_ERRERR.
Full(t) == Len(ci[t]) = size[t] - 1

SizeGrown(t) == IF Full(t) /\ size[t] <= MaxCalls THEN 2 * size[t] ELSE size[t]

CallError(t) ==
  IF ~ Full(t) THEN "none"
  ELSE IF size[t] > MaxCalls THEN "throw"
  ELSE IF SizeGrown(t) > MaxCalls THEN "run" ELSE "none"

\* A function of kind f gets a CallInfo, and the C stack becomes entered; an
\* error finds it as it is at failed.
PreCall(t, f, failed, entered) ==
  /\ size' = [size EXCEPT ![t] = SizeGrown(t)]
  /\ err' = CallError(t)
  /\ IF CallError(t) = "none"
     THEN ci' = [ci EXCEPT ![t] = Append(@, f)] /\ native' = entered
     ELSE UNCHANGED ci /\ native' = failed

\* What luaD_call raises when it is the d-th C call.  Mutant: errors while an
\* overflow is handled go on without end.
OverflowOnce(d) == IF d = MaxCCalls THEN "run" ELSE "none"
OverflowError(d) ==
  IF d = MaxCCalls THEN "run" ELSE IF d >= MaxCCalls + Reserve THEN "throw" ELSE "none"

DCall(t, f, below, raises) ==
  LET d     == nCcalls[t] + 1
      inner == Append(below, Call(t, raises))
  IN  /\ nCcalls' = [nCcalls EXCEPT ![t] = d]
      /\ IF OverflowError(d) = "none"
         THEN PreCall(t, f, inner, Append(inner, Body(t, f)))
         ELSE err' = OverflowError(d) /\ native' = inner /\ UNCHANGED <<ci, size>>

Kinds == {"Lua", "C"}

\* OP_CALL: luaV_execute goes on with a Lua function itself.
CallFromLua(f) ==
  LET t == Running
      entered == IF f = "Lua" THEN Append(Front(native), Execute(t, Last(native).n + 1))
                 ELSE Append(native, Function(t))
  IN  /\ AtTop("execute")
      /\ PreCall(t, f, native, entered)
      /\ UNCHANGED <<nCcalls, base, status, errorJmp, errfunc, fresh>>

\* OP_TAILCALL of a Lua function: it takes over the CallInfo of its caller
\* after it got one of its own.
TailCall ==
  LET t == Running
  IN  /\ AtTop("execute")
      /\ size' = [size EXCEPT ![t] = SizeGrown(t)]
      /\ err' = CallError(t)
      /\ UNCHANGED <<native, ci, nCcalls, base, status, errorJmp, errfunc, fresh>>

\* A metamethod, an iterator, a finalizer or lua_call.
CallThroughC(f) ==
  /\ AtTop("execute") \/ AtTop("function")
  /\ DCall(Running, f, native, FALSE)
  /\ UNCHANGED <<base, status, errorJmp, errfunc, fresh>>

\* lua_pcall of a script or the host, with or without an error handler.
ProtectedCall(f, h) ==
  LET t == Running
  IN  /\ InC(t)
      /\ DCall(t, f, Append(native, PCall(t, h)), FALSE)
      /\ errorJmp' = [errorJmp EXCEPT ![t] = Append(@, Len(native) + 1)]
      /\ errfunc' = [errfunc EXCEPT ![t] = h]
      /\ UNCHANGED <<base, status, fresh>>

-----------------------------------------------------------------------------
(* Returns.                                                                *)

\* luaD_rawrunprotected takes its jump buffer off the chain.  Mutant: it is
\* left there.
SameJmp(t) == errorJmp[t]
OuterJmp(t) == Front(errorJmp[t])

\* luaD_pcall leaves the handler that it found.  Mutant: none.
NoHandler(guard) == FALSE
OldHandler(guard) == guard.errfunc

\* luaV_execute or a C function called by luaD_call or lua_resume is left, and
\* s is what lies below it: these finish too, up to the next activation that
\* runs a function.
Leave(t, s) ==
  LET caller == Last(s)
      outer  == Front(s)
      guarded == outer # <<>> /\ Last(outer).op = "pcall"
  IN  IF caller.op = "resume" THEN
        /\ native' = outer
        /\ nCcalls' = [nCcalls EXCEPT ![t] = @ - 1]
        /\ errorJmp' = [errorJmp EXCEPT ![t] = OuterJmp(t)]
        /\ UNCHANGED <<errfunc, err>>
      ELSE IF caller.op = "call" THEN
        /\ nCcalls' = [nCcalls EXCEPT ![t] = @ - 1]
        /\ err' = IF caller.raises THEN "throw" ELSE "none"
        /\ native' = IF guarded THEN Front(outer) ELSE outer
        /\ errorJmp' = IF guarded THEN [errorJmp EXCEPT ![t] = OuterJmp(t)] ELSE errorJmp
        /\ errfunc' = IF guarded THEN [errfunc EXCEPT ![t] = OldHandler(Last(outer))] ELSE errfunc
      ELSE native' = s /\ UNCHANGED <<nCcalls, errorJmp, errfunc, err>>

\* OP_RETURN: luaV_execute is left with the last of its calls.
ReturnFromLua ==
  LET t == Running
      n == Last(native).n
  IN  /\ AtTop("execute")
      /\ ci' = [ci EXCEPT ![t] = Front(@)]
      /\ IF n > 1
         THEN /\ native' = Append(Front(native), Execute(t, n - 1))
              /\ UNCHANGED <<nCcalls, errorJmp, errfunc, err>>
         ELSE Leave(t, Front(native))
      /\ UNCHANGED <<size, base, status, fresh>>

\* luaD_poscall after a C function.
ReturnFromC ==
  /\ AtTop("function")
  /\ ci' = [ci EXCEPT ![Running] = Front(@)]
  /\ Leave(Running, Front(native))
  /\ UNCHANGED <<size, base, status, fresh>>

-----------------------------------------------------------------------------
(* Errors.                                                                 *)

\* A function raises an error (luaG_errormsg), or luaD_throw is called at
\* once, as for lack of memory.
Raise(kind) ==
  /\ AtTop("execute") \/ AtTop("function")
  /\ err' = kind
  /\ UNCHANGED <<native, perThread, fresh>>

\* luaG_errormsg calls the handler before the stack unwinds.
CallHandler(f) ==
  LET t == Running
  IN  /\ err = "run" /\ errfunc[t]
      /\ DCall(t, f, native, TRUE)
      /\ UNCHANGED <<base, status, errorJmp, errfunc, fresh>>

\* restore_stack_limit, when n CallInfos stay in use.
SizeRestored(t, n) == IF size[t] > MaxCalls /\ n + 1 < MaxCalls THEN MaxCalls ELSE size[t]

\* What lua_resume makes of a thread whose error nothing caught.  Mutant: it
\* stays as it was.
UnmarkedStatus == "ok"
ErrorStatus == "error"

\* luaD_throw: to the luaD_pcall or lua_resume that the jump buffer is in.
Throw ==
  LET t     == Running
      place == Last(errorJmp[t])
      catch == native[place]
  IN  /\ err = "throw" \/ (err = "run" /\ ~ errfunc[t])
      /\ errorJmp[t] # <<>>
      /\ err' = "none"
      /\ native' = SubSeq(native, 1, place - 1)
      /\ errorJmp' = [errorJmp EXCEPT ![t] = OuterJmp(t)]
      /\ IF catch.op = "pcall"
         THEN /\ ci' = [ci EXCEPT ![t] = SubSeq(@, 1, catch.ci)]
              /\ nCcalls' = [nCcalls EXCEPT ![t] = catch.nCcalls]
              /\ errfunc' = [errfunc EXCEPT ![t] = OldHandler(catch)]
              /\ size' = [size EXCEPT ![t] = SizeRestored(t, catch.ci)]
              /\ UNCHANGED status
         ELSE /\ status' = [status EXCEPT ![t] = ErrorStatus]
              /\ nCcalls' = [nCcalls EXCEPT ![t] = @ - 1]
              /\ UNCHANGED <<ci, errfunc, size>>
      /\ UNCHANGED <<base, fresh>>

-----------------------------------------------------------------------------
(* Coroutines.                                                             *)

\* costatus, as the running thread sees co.
CoStatus(co) ==
  IF co = Running THEN "running"
  ELSE IF status[co] = "yield" THEN "suspended"
  ELSE IF status[co] = "error" THEN "dead"
  ELSE IF ci[co] # <<>> THEN "normal"
  ELSE IF co \in fresh THEN "suspended" ELSE "dead"

\* luaV_execute of a resumed thread returns when all its calls did.
ResumedCalls(co) == Len(ci[co]) - 1

\* lua_setlevel: the coroutine continues the count of the C stack.  Mutant: it
\* keeps its own.
OwnLevel(t, co) == nCcalls[co]
Level(t, co) == nCcalls[t]

\* auxresume and lua_resume.  Any other coroutine is refused without a
\* change.  At the limit of C calls the stack of co is emptied for the
\* message: one that never ran has lost its function.
Resume(co) ==
  LET t       == Running
      level   == Level(t, co)
      resumed == Append(native, Resumption(co))
  IN  /\ AtTop("function")
      /\ CoStatus(co) = "suspended"
      /\ fresh' = fresh \ {co}
      /\ IF level >= MaxCCalls
         THEN /\ nCcalls' = [nCcalls EXCEPT ![co] = level]
              /\ UNCHANGED <<native, ci, size, base, status, errorJmp, err>>
         ELSE /\ nCcalls' = [nCcalls EXCEPT ![co] = level + 1]
              /\ base' = [base EXCEPT ![co] = level + 1]
              /\ errorJmp' = [errorJmp EXCEPT ![co] = Append(@, Len(native) + 1)]
              /\ status' = [status EXCEPT ![co] = "ok"]
              /\ IF status[co] = "ok"
                 THEN PreCall(co, "Lua", resumed, Append(resumed, Execute(co, 1)))
                 ELSE /\ ci' = [ci EXCEPT ![co] = Front(@)]
                      /\ native' = Append(resumed, Execute(co, ResumedCalls(co)))
                      /\ UNCHANGED <<size, err>>
      /\ UNCHANGED errfunc

\* lua_yield is refused where C functions in between would be lost.  Mutant:
\* it never is.
YieldAnywhere(t) == TRUE
MayYield(t) == nCcalls[t] <= base[t]

\* The C function and luaV_execute below it are left, their CallInfos stay.
Yield ==
  LET t == Running
      s == Front(native)
  IN  /\ AtTop("function")
      /\ IF MayYield(t)
         THEN /\ status' = [status EXCEPT ![t] = "yield"]
              /\ Leave(t, IF Last(s).op = "execute" THEN Front(s) ELSE s)
         ELSE err' = "run" /\ UNCHANGED <<native, nCcalls, status, errorJmp, errfunc>>
      /\ UNCHANGED <<ci, size, base, fresh>>

-----------------------------------------------------------------------------
Init ==
  /\ native = <<>>
  /\ ci = [t \in Threads |-> <<>>]
  /\ size = [t \in Threads |-> BasicCI]
  /\ nCcalls = [t \in Threads |-> 0]
  /\ base = [t \in Threads |-> 0]
  /\ status = [t \in Threads |-> "ok"]
  /\ errorJmp = [t \in Threads |-> <<>>]
  /\ errfunc = [t \in Threads |-> FALSE]
  /\ fresh = Coroutines
  /\ err = "none"

Next ==
  \/ \E f \in Kinds : CallFromLua(f) \/ CallThroughC(f) \/ CallHandler(f)
  \/ \E f \in Kinds, h \in BOOLEAN : ProtectedCall(f, h)
  \/ TailCall
  \/ ReturnFromLua
  \/ ReturnFromC
  \/ \E kind \in {"run", "throw"} : Raise(kind)
  \/ Throw
  \/ \E co \in Coroutines : Resume(co)
  \/ Yield

Spec == Init /\ [][Next]_vars

-----------------------------------------------------------------------------
(* Properties.                                                             *)

Activations ==
  [op : {"call"}, th : Threads, raises : BOOLEAN]
    \cup [op : {"execute"}, th : Threads, n : Nat \ {0}]
    \cup [op : {"function", "resume"}, th : Threads]
    \cup [op : {"pcall"}, th : Threads, handler : BOOLEAN, ci : Nat, nCcalls : Nat,
          errfunc : BOOLEAN]

TypeOK ==
  /\ native \in Seq(Activations)
  /\ ci \in [Threads -> Seq(Kinds)]
  /\ size \in [Threads -> Nat]
  /\ \A t \in Threads : Len(ci[t]) < size[t]
  /\ nCcalls \in [Threads -> 0..(MaxCCalls + Reserve)]
  /\ base \in [Threads -> 0..MaxCCalls]
  /\ status \in [Threads -> {"ok", "yield", "error"}]
  /\ errorJmp \in [Threads -> Seq(Nat)]
  /\ errfunc \in [Threads -> BOOLEAN]
  /\ fresh \subseteq Coroutines
  /\ err \in {"none", "run", "throw"}

\* An error never jumps into an activation that was left: the jump buffers of
\* each thread are those of its luaD_pcall and lua_resume on the C stack, the
\* last one innermost, and there is one whenever an error is raised.
Buffers(s, t) == {i \in DOMAIN s : s[i].th = t /\ s[i].op \in {"pcall", "resume"}}
Ascending(e) == \A m, n \in DOMAIN e : m < n => e[m] < e[n]

JumpBuffersLive ==
  /\ \A t \in Threads : Ascending(errorJmp[t]) /\ Range(errorJmp[t]) = Buffers(native, t)
  /\ err # "none" => errorJmp[Running] # <<>>

\* nCcalls, by which overflows and forbidden yields are told, is the number of
\* C calls on the C stack, over all threads, up to the last one of the thread.
Depth(s, n) == Cardinality({i \in 1..n : s[i].op \in {"call", "resume"}})
Topmost(i) == \A j \in DOMAIN native : j > i => native[j].th # native[i].th

CallsCounted ==
  \A i \in DOMAIN native : Topmost(i) => nCcalls[native[i].th] = Depth(native, i)

\* The CallInfos of a thread are those of the functions that its activations
\* run: luaV_execute returns with the last of its calls, and unwinding leaves
\* the thread where the protected call was made.
Runs(a) == IF a.op = "execute" THEN a.n ELSE IF a.op = "function" THEN 1 ELSE 0
Frames(s, t, n) == UNION {{i} \X (1..Runs(s[i])) : i \in {j \in 1..n : s[j].th = t}}
OnCStack(t) == \E i \in DOMAIN native : native[i].th = t

CallInfosRun ==
  \A t \in Threads : OnCStack(t) => Len(ci[t]) = Cardinality(Frames(native, t, Len(native)))

\* The handler that an error calls is that of the innermost lua_pcall.
Guards(s, t, i) == s[i].th = t /\ s[i].op = "pcall"
Handled(s, t, n) ==
  \E i \in 1..n : Guards(s, t, i) /\ s[i].handler /\ \A j \in (i + 1)..n : ~ Guards(s, t, j)

InnermostHandler == \A t \in Threads : errfunc[t] = Handled(native, t, Len(native))

\* coroutine.status: a suspended or dead coroutine has nothing on the C stack,
\* a normal one has, and waits for the one that it resumed.
StatusTruthful ==
  \A co \in Coroutines : OnCStack(co) <=> CoStatus(co) \in {"running", "normal"}
=============================================================================
