----------------------------- MODULE LuaGCDebug -----------------------------
(***************************************************************************)
(* LuaGC with the one operation of the debug library that writes an        *)
(* upvalue, debug.setupvalue (lua_setupvalue in lapi.c).  It gives the     *)
(* write barrier the closure it was called with; the object that holds the *)
(* value is the upvalue, which other closures may share.                   *)
(***************************************************************************)
EXTENDS LuaGC

CONSTANTS reg, glob, t1, main, f1, f2, uv1

\* lua_setupvalue on upvalue uv of the Lua closure f.
SetUpvalueOf(f, uv, v) ==
  /\ Running
  /\ IF owner[uv] = Nil
       THEN /\ ref' = [ref EXCEPT ![uv] = {v} \cap Obj]
            /\ UNCHANGED stack
       ELSE /\ stack' = [stack EXCEPT ![owner[uv]][level[uv]] = v]
            /\ UNCHANGED ref
  /\ BarrierForward(f, v)
  /\ UNCHANGED <<alloc, entry, owner, level, mt, run, cw, gcstate, full, grayagain, weak,
                 unswept, finals>>

DebugNext ==
  \/ Next
  \/ \E f \in Funcs \cap Readable, v \in Readable \cup {Nil} :
       \E uv \in ref[f] \cap Upvals : SetUpvalueOf(f, uv, v)

DebugSpec == Init /\ [][DebugNext]_vars

\* The checkliveness assertions of lobject.h, on closed upvalues: the value of an
\* upvalue that some allocated closure of the survivors has is not dead.
UpvalueAlive ==
  \A f \in Funcs \cap Survivors : \A uv \in ref[f] \cap Upvals :
     owner[uv] = Nil => \A v \in UpValue(uv) : v \in Survivors

\* Bounds: no metatables, the globals stay, only mortal objects are stored, and
\* the closures have no other fields than their environment and one upvalue.
DebugBound ==
  /\ mt = Nil
  /\ \A t \in Tables : ref[t] = {}
  /\ \A s \in Slots : stack[main][s] \notin {reg, main, Prim}
  /\ stack[main][GlobalsSlot] = glob
  /\ \A k \in Keys : entry[glob][k] = Nil /\ entry[t1][k] = Nil
  /\ \A k \in Keys : entry[reg][k] \in {Nil, f1, f2}
  /\ \A f \in Funcs : ref[f] \subseteq {glob, uv1}
  /\ ref[uv1] \subseteq {t1}
  /\ full = "no"
=============================================================================
