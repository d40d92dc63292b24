------------------------------ MODULE MCLuaGC ------------------------------
(* Small instances of LuaGC for TLC. *)
EXTENDS LuaGC, TLC

CONSTANTS reg, glob, t1, t2, main, co, f1, f2, u1, u2, uv1, s1

\* Bound: the registry keeps no entry and no metatable, so that a table that
\* never becomes garbage adds no states.
RegistryEmpty == ref[Registry] = {} /\ \A k \in Keys : entry[Registry][k] = Nil

GlobalsStay == \A th \in Threads \cap alloc : stack[th][GlobalsSlot] = Globals
NoMetatables == (\A t \in Tables : ref[t] = {}) /\ mt = Nil

\* grayagain and weak are read in a mark phase only: markroot empties them.
View == <<heap, marks, gcstate, full, gray, IF gcstate \in Marking THEN <<grayagain, weak>> ELSE <<>>,
          unswept, finals>>

\* Bound: entries and registers hold what can become garbage.
EntriesOfInterest ==
  /\ \A t \in Tables, k \in Keys : entry[t][k] \notin {reg, glob, main, Prim}
  /\ \A th \in Threads, s \in Temps : stack[th][s] \notin {reg, glob, main, Prim}

TablesBound ==
  /\ GlobalsStay
  /\ EntriesOfInterest
  /\ entry[glob][Prim] = Nil
  /\ entry[reg][Prim] # s1
  /\ entry[t1][Prim] = Nil
  /\ entry[t2][Prim] \in {t1, s1, Nil}
  /\ \A t \in {reg, glob, t2} : ref[t] = {}
  /\ ref[t1] \subseteq {t2}
  /\ mt \in {Nil, t1}

FinalBound ==
  /\ GlobalsStay /\ NoMetatables
  /\ EntriesOfInterest
  /\ \A k \in Keys : entry[glob][k] = Nil
  /\ entry[reg][u1] = Nil /\ entry[t1][Prim] = Nil
  /\ entry[reg][Prim] \in {t1, u1, Nil}
  /\ entry[t1][u1] \in {u2, Nil}
  /\ ref[u1] \in {{}, {glob}, {t1}}
  /\ ref[u2] \subseteq {glob}

WeakBound ==
  /\ GlobalsStay /\ NoMetatables
  /\ EntriesOfInterest
  /\ entry[glob][Prim] = Nil
  /\ entry[reg][Prim] \in {t1, Nil}
  /\ entry[t1][Prim] \in {u1, Nil}
  /\ ref[u1] \subseteq {glob}

ThreadBound ==
  /\ GlobalsStay /\ NoMetatables
  /\ \A th \in Threads, s \in Temps : stack[th][s] \notin {reg, glob, main, Prim}
  /\ entry[glob][Prim] = Nil
  /\ entry[reg][Prim] \notin {reg, glob, main, Prim}
  /\ \A f \in Funcs : ref[f] \cap {reg, main} = {}
  /\ \A uv \in Upvals : ref[uv] \cap {reg, main, glob} = {}

\* The liveness run takes a program of fewer operations instead of a state
\* constraint: it allocates a table and a userdata, links and drops them.
MortalRefs == (Readable \cap {t1, u1}) \cup {Nil}
LiveNext ==
  \/ Collector
  \/ FullGC
  \/ NewTable(t1, 1)
  \/ NewUdata(u1, glob, 1)
  \/ \E v \in MortalRefs : Fetch(v, 1)
  \/ \E t \in Readable \cap {reg, t1} : \E v \in MortalRefs : SetEntry(t, Prim, v)

\* A program that goes on allocating reaches luaC_checkGC again and again.
LiveSpec == Init /\ [][LiveNext]_vars /\ WF_vars(Collector)

=============================================================================
