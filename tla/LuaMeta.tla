------------------------------- MODULE LuaMeta -------------------------------
(***************************************************************************)
(* Access to tables with metatables (luaV_gettable and luaV_settable of    *)
(* lvm.c, luaT_gettm of ltm.c, lua_setmetatable and lua_rawset of lapi.c). *)
(* A metatable remembers in its flags which events it has no tag method    *)
(* for, so that fasttm need not look again: what it remembers must be true *)
(* whatever is assigned to it, and to tables that are their own            *)
(* metatables.  Tag methods are tables here; ScriptClass has functions.    *)
(*                                                                         *)
(* An access follows one link per action; nothing else runs meanwhile.     *)
(***************************************************************************)
EXTENDS Naturals, Sequences

CONSTANTS
  Tables,      \* tables
  Fields,      \* keys that are no events
  Data,        \* values that are no tables
  NilV,        \* nil
  MaxTagLoop   \* MAXTAGLOOP

VARIABLES
  raw,    \* of each table: the value of each key
  meta,   \* of each table: its metatable, or NilV
  flags,  \* of each table: the events it is known to have no tag method for
  access  \* the access under way

metaVars == <<raw, meta, flags, access>>

Events == {"__index", "__newindex"}
AllKeys == Events \cup Fields
ValuesOf(k) == {NilV} \cup (IF k \in Events THEN Tables ELSE Data)

ASSUME MetaAssumption ==
  /\ NilV \notin Tables \cup Data
  /\ Fields \cap Events = {}
  /\ MaxTagLoop \in Nat \ {0}

\* fasttm: whether a metatable m has a tag method for e, and the flags that
\* the question leaves.
TagMethod(fl, m, e) ==
  IF m = NilV \/ (m \in Tables /\ e \in fl[m]) THEN NilV ELSE raw[m][e]
FlagsAfter(fl, m, e) ==
  IF m # NilV /\ raw[m][e] = NilV THEN [fl EXCEPT ![m] = @ \cup {e}] ELSE fl

\* The flags of t after the assignment.  Mutant: as luaH_set left them, before
\* the tag method was looked for.
FlagsAsFound(fl, t) == fl
FlagsForgotten(fl, t) == [fl EXCEPT ![t] = {}]

\* An access has a key and passes through the tables of path, until it found
\* the one that has the key, or no tag method; assignments have a value.
NoAccess == [op |-> "none", key |-> "__index", value |-> NilV, path |-> <<>>, found |-> FALSE]

MetaInit ==
  /\ raw = [t \in Tables |-> [k \in AllKeys |-> NilV]]
  /\ meta = [t \in Tables |-> NilV]
  /\ flags = [t \in Tables |-> Events]
  /\ access = NoAccess

Idle == access.op = "none"
Looking == ~ Idle /\ ~ access.found

Gets(t, k) ==
  /\ Idle
  /\ access' = [op |-> "get", key |-> k, value |-> NilV, path |-> <<t>>, found |-> FALSE]
  /\ UNCHANGED <<raw, meta, flags>>

Sets(t, k, v) ==
  /\ Idle
  /\ access' = [op |-> "set", key |-> k, value |-> v, path |-> <<t>>, found |-> FALSE]
  /\ UNCHANGED <<raw, meta, flags>>

\* The table that the access has come to, the event that it asks for, and the
\* flags when it asks: luaH_set forgets those of the table.
Here == access.path[Len(access.path)]
Event == IF access.op = "get" THEN "__index" ELSE "__newindex"
Known == IF access.op = "get" THEN flags ELSE [flags EXCEPT ![Here] = {}]

HasKey == raw[Here][access.key] # NilV
Asked == TagMethod(Known, meta[Here], Event)

\* One round of luaV_gettable or luaV_settable that returns,
Locate ==
  /\ Looking
  /\ HasKey \/ Asked = NilV
  /\ access' = [access EXCEPT !.found = TRUE]
  /\ flags' = IF HasKey THEN Known ELSE FlagsAfter(Known, meta[Here], Event)
  /\ UNCHANGED <<raw, meta>>

\* and one that repeats with the tag method, or has repeated too often.
Follow ==
  /\ Looking
  /\ ~ HasKey /\ Asked # NilV
  /\ access' = IF Len(access.path) = MaxTagLoop THEN NoAccess
               ELSE [access EXCEPT !.path = Append(@, Asked)]
  /\ flags' = FlagsAfter(Known, meta[Here], Event)
  /\ UNCHANGED <<raw, meta>>

\* What the access found is read, or assigned to.
Finish ==
  /\ ~ Idle /\ access.found
  /\ IF access.op = "get" THEN UNCHANGED <<raw, flags>>
     ELSE /\ raw' = [raw EXCEPT ![Here][access.key] = access.value]
          /\ flags' = FlagsForgotten(flags, Here)
  /\ access' = NoAccess
  /\ UNCHANGED meta

RawSets(t, k, v) ==
  /\ Idle
  /\ raw' = [raw EXCEPT ![t][k] = v]
  /\ flags' = [flags EXCEPT ![t] = {}]
  /\ UNCHANGED <<meta, access>>

SetMetatable(t, m) ==
  /\ Idle
  /\ meta' = [meta EXCEPT ![t] = m]
  /\ UNCHANGED <<raw, flags, access>>

MetaNext ==
  \/ \E t \in Tables, k \in AllKeys : Gets(t, k)
  \/ \E t \in Tables, k \in AllKeys : \E v \in ValuesOf(k) : Sets(t, k, v) \/ RawSets(t, k, v)
  \/ Locate
  \/ Follow
  \/ Finish
  \/ \E t \in Tables, m \in Tables \cup {NilV} : SetMetatable(t, m)

MetaSpec == MetaInit /\ [][MetaNext]_metaVars

-----------------------------------------------------------------------------
(* What tag methods are, without flags.                                    *)

\* The access to key goes on from table t with the table u.
Delegates(t, key, u) ==
  /\ raw[t][key] = NilV
  /\ meta[t] # NilV
  /\ raw[meta[t]][Event] = u

\* An access has passed from each table to its tag method, and stops only where
\* there is none.
AccessAsDefined ==
  /\ \A i \in 1..(Len(access.path) - 1) : Delegates(access.path[i], access.key, access.path[i + 1])
  /\ access.found => \A u \in Tables : ~ Delegates(Here, access.key, u)

\* A metatable that says of an event that it has no tag method for it has
\* none, and so every access finds the tag methods that are there.
AbsentMeansAbsent ==
  /\ \A t \in Tables : \A e \in flags[t] : raw[t][e] = NilV
  /\ AccessAsDefined
=============================================================================
