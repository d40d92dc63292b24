------------------------------- MODULE LuaMap -------------------------------
(***************************************************************************)
(* What a Lua table promises, whatever its layout: it maps keys to values, *)
(* and a traversal with next gives each entry once, in any order, even if  *)
(* entries are changed or cleared on the way.  A key that is not there     *)
(* ends what is promised of the traversal when it is assigned to.          *)
(***************************************************************************)
CONSTANTS
  Keys,    \* the keys in use
  Values,  \* the values other than nil
  Nil      \* nil, the value of an absent key

VARIABLES
  map,     \* the value of each key
  walk,    \* the traversal: "none", "running" or "failed"
  seen     \* the keys that the traversal gave

mapVars == <<map, walk, seen>>

Present == {k \in Keys : map[k] # Nil}

MapInit ==
  /\ map = [k \in Keys |-> Nil]
  /\ walk = "none"
  /\ seen = {}

Assign(k, v) ==
  /\ map' = [map EXCEPT ![k] = v]
  /\ IF map[k] # Nil
     THEN UNCHANGED <<walk, seen>>
     ELSE walk' = "none" /\ seen' = {}

Begin ==
  /\ walk' = "running"
  /\ seen' = {}
  /\ UNCHANGED map

\* An entry that the traversal did not give before.
Give(k) ==
  /\ walk = "running"
  /\ k \in Present \ seen
  /\ seen' = seen \cup {k}
  /\ UNCHANGED <<map, walk>>

\* The traversal ends only when it gave all that is there.
End ==
  /\ walk = "running"
  /\ Present \subseteq seen
  /\ walk' = "none"
  /\ seen' = {}
  /\ UNCHANGED map

\* No action sets walk to "failed": next never refuses a key that it gave.
MapNext ==
  \/ \E k \in Keys, v \in Values \cup {Nil} : Assign(k, v)
  \/ \E k \in Keys : Give(k)
  \/ Begin
  \/ End

MapSpec == MapInit /\ [][MapNext]_mapVars
=============================================================================
