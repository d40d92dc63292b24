--------------------------- MODULE Library_proofs ---------------------------
(***************************************************************************)
(* Proofs about the state machines of the libraries: that the cache of     *)
(* absent tag methods is never stale, that a method that a class has found *)
(* is replaced only by one that is defined for that class, and that        *)
(* require runs a module once, gives what it gave, and refuses for good    *)
(* what failed.                                                            *)
(***************************************************************************)
EXTENDS LuaMeta, ScriptClass, LuaRequire, TLAPS

-----------------------------------------------------------------------------
(* Metatables: for every set of tables that are each other's or their own  *)
(* metatables.                                                             *)

Value == Tables \cup Data \cup {NilV}

\* The types; tag methods are tables.
MetaTypes ==
  /\ raw \in [Tables -> [AllKeys -> Value]]
  /\ \A t \in Tables, e \in Events : raw[t][e] \in Tables \cup {NilV}
  /\ meta \in [Tables -> Tables \cup {NilV}]
  /\ flags \in [Tables -> SUBSET Events]
  /\ access \in [op : {"none", "get", "set"}, key : AllKeys, value : Value, path : Seq(Tables),
                 found : BOOLEAN]
  /\ access.value \in ValuesOf(access.key)
  /\ IF access.op = "none" THEN access = NoAccess ELSE access.path # <<>>

\* The inductive invariant.
MetaInv == MetaTypes /\ AbsentMeansAbsent

\* What flags fl say of metatables is true.
Truthful(fl) == \A t \in Tables : \A e \in fl[t] : raw[t][e] = NilV

-----------------------------------------------------------------------------
\* The table that an access is at, and the event it asks for.
LEMMA HereType ==
  ASSUME MetaTypes, access.op # "none"
  PROVE  /\ Here \in Tables /\ Event \in Events /\ access.key \in AllKeys
         /\ meta[Here] \in Tables \cup {NilV}
         /\ Len(access.path) \in Nat \ {0} /\ access.path \in Seq(Tables)
<1>1. access.path \in Seq(Tables) /\ access.path # <<>> /\ access.key \in AllKeys
  BY DEF MetaTypes
<1>2. Len(access.path) \in Nat \ {0} /\ Here \in Tables
  BY <1>1 DEF Here
<1> QED BY <1>1, <1>2 DEF Event, Events, MetaTypes

\* luaH_set only forgets.
LEMMA KnownTruthful ==
  ASSUME MetaTypes, Truthful(flags), access.op # "none"
  PROVE  Known \in [Tables -> SUBSET Events] /\ Truthful(Known)
<1>1. Here \in Tables /\ flags \in [Tables -> SUBSET Events]
  BY HereType DEF MetaTypes
<1> QED BY <1>1 DEF Known, Truthful

\* fasttm finds the tag method that there is, or that there is none,
LEMMA TagMethodFound ==
  ASSUME MetaTypes, NEW fl, Truthful(fl), NEW m \in Tables \cup {NilV}, NEW e \in Events
  PROVE  TagMethod(fl, m, e) = IF m = NilV THEN NilV ELSE raw[m][e]
BY MetaAssumption DEF TagMethod, Truthful

\* and remembers only the latter.
LEMMA FlagsAfterTruthful ==
  ASSUME MetaTypes, NEW fl \in [Tables -> SUBSET Events], Truthful(fl),
         NEW m \in Tables \cup {NilV}, NEW e \in Events
  PROVE  FlagsAfter(fl, m, e) \in [Tables -> SUBSET Events] /\ Truthful(FlagsAfter(fl, m, e))
<1>1. CASE m # NilV /\ raw[m][e] = NilV
  <2>1. m \in Tables /\ FlagsAfter(fl, m, e) = [fl EXCEPT ![m] = fl[m] \cup {e}]
    BY <1>1 DEF FlagsAfter
  <2> QED BY <1>1, <2>1 DEF Truthful
<1>2. CASE ~ (m # NilV /\ raw[m][e] = NilV)
  BY <1>2 DEF FlagsAfter
<1> QED BY <1>1, <1>2

-----------------------------------------------------------------------------
(* The operations.                                                         *)

\* No access is under way: there is no path to speak of.
LEMMA IdleDefined == ASSUME access' = NoAccess PROVE AccessAsDefined'
<1>1. access'.path = <<>> /\ access'.found = FALSE
  BY DEF NoAccess
<1>2. 1..(Len(access'.path) - 1) = {}
  BY <1>1
<1> QED BY <1>1, <1>2 DEF AccessAsDefined

\* A key and a value that an assignment can have.
LEMMA ValuesType == \A k \in AllKeys : ValuesOf(k) \subseteq Value
BY DEF ValuesOf, Value

\* lua_gettable and lua_settable begin.
LEMMA BeginKeeps ==
  ASSUME MetaInv, NEW t \in Tables, NEW k \in AllKeys, NEW v \in ValuesOf(k),
         Gets(t, k) \/ Sets(t, k, v)
  PROVE  MetaInv'
<1>1. PICK o \in {"get", "set"}, w \in ValuesOf(k) :
        /\ access' = [op |-> o, key |-> k, value |-> w, path |-> <<t>>, found |-> FALSE]
        /\ UNCHANGED <<raw, meta, flags>>
  BY DEF Gets, Sets, ValuesOf
<1>2. <<t>> \in Seq(Tables) /\ Len(<<t>>) = 1 /\ <<t>> # <<>> /\ w \in Value
  BY ValuesType
<1>3. access' \in [op : {"none", "get", "set"}, key : AllKeys, value : Value, path : Seq(Tables),
                   found : BOOLEAN]
  BY <1>1, <1>2
<1>4. access'.key = k /\ access'.value = w /\ access'.path = <<t>> /\ access'.found = FALSE
  BY <1>1
<1>5. MetaTypes'
  BY <1>1, <1>2, <1>3, <1>4 DEF MetaInv, MetaTypes, ValuesOf
<1>6. AccessAsDefined'
  BY <1>2, <1>4 DEF AccessAsDefined
<1> QED BY <1>1, <1>5, <1>6 DEF MetaInv, AbsentMeansAbsent

\* A round that ends the access.
LEMMA LocateKeeps == ASSUME MetaInv, Locate PROVE MetaInv'
<1>0. MetaTypes /\ access.op # "none" /\ Truthful(flags) /\ AccessAsDefined
  BY DEF MetaInv, Locate, Looking, Idle, AbsentMeansAbsent, Truthful
<1>1. /\ access' = [access EXCEPT !.found = TRUE] /\ raw' = raw /\ meta' = meta
      /\ HasKey \/ Asked = NilV
  BY DEF Locate
<1>2. /\ access'.op = access.op /\ access'.key = access.key /\ access'.value = access.value
      /\ access'.path = access.path /\ Here' = Here /\ Event' = Event
  BY <1>0, <1>1 DEF MetaTypes, Here, Event
<1>3. flags' \in [Tables -> SUBSET Events] /\ Truthful(flags')
  BY <1>0, HereType, KnownTruthful, FlagsAfterTruthful DEF Locate
<1>4. access' \in [op : {"none", "get", "set"}, key : AllKeys, value : Value, path : Seq(Tables),
                   found : BOOLEAN]
  BY <1>0, <1>1 DEF MetaTypes
<1>5. MetaTypes'
  BY <1>0, <1>1, <1>2, <1>3, <1>4 DEF MetaTypes, ValuesOf
<1>6. ASSUME NEW u \in Tables, Delegates(Here, access.key, u) PROVE FALSE
  <2>1. Asked = raw[meta[Here]][Event]
    BY <1>0, <1>6, HereType, KnownTruthful, TagMethodFound DEF Asked, Delegates
  <2>2. ~ HasKey
    BY <1>6 DEF Delegates, HasKey
  <2> QED BY <1>1, <1>6, <2>1, <2>2, MetaAssumption DEF Delegates
<1>7. \A t, u : Delegates(t, access.key, u)' <=> Delegates(t, access.key, u)
  BY <1>1, <1>2 DEF Delegates
<1>8. AccessAsDefined'
  BY <1>0, <1>2, <1>6, <1>7 DEF AccessAsDefined
<1> QED BY <1>1, <1>3, <1>5, <1>8 DEF MetaInv, AbsentMeansAbsent, Truthful

\* A round that goes on with the tag method.
LEMMA FollowKeeps == ASSUME MetaInv, Follow PROVE MetaInv'
<1>0. /\ MetaTypes /\ access.op # "none" /\ Truthful(flags) /\ AccessAsDefined
      /\ access.found = FALSE
  BY DEF MetaInv, MetaTypes, Follow, Looking, Idle, AbsentMeansAbsent, Truthful
<1>1. /\ raw' = raw /\ meta' = meta /\ ~ HasKey /\ Asked # NilV
      /\ flags' = FlagsAfter(Known, meta[Here], Event)
  BY DEF Follow
<1>2. /\ Here \in Tables /\ Event \in Events /\ meta[Here] \in Tables \cup {NilV}
      /\ Len(access.path) \in Nat \ {0} /\ access.path \in Seq(Tables)
  BY <1>0, HereType
<1>3. flags' \in [Tables -> SUBSET Events] /\ Truthful(flags')
  BY <1>0, <1>1, <1>2, KnownTruthful, FlagsAfterTruthful
<1>4. /\ Asked = raw[meta[Here]][Event] /\ meta[Here] \in Tables
      /\ Asked \in Tables
  <2>1. Asked = IF meta[Here] = NilV THEN NilV ELSE raw[meta[Here]][Event]
    BY <1>0, <1>2, KnownTruthful, TagMethodFound DEF Asked
  <2> QED BY <1>0, <1>1, <1>2, <2>1 DEF MetaTypes
<1>5. Delegates(Here, access.key, Asked)
  BY <1>1, <1>4, MetaAssumption DEF Delegates, HasKey
<1>6. CASE access' = NoAccess
  <2>1. access' \in [op : {"none", "get", "set"}, key : AllKeys, value : Value, path : Seq(Tables),
                     found : BOOLEAN]
    BY <1>6 DEF NoAccess, AllKeys, Events, Value
  <2>2. MetaTypes'
    BY <1>0, <1>1, <1>3, <1>6, <2>1 DEF MetaTypes, NoAccess, ValuesOf
  <2> QED BY <1>1, <1>3, <1>6, <2>2, IdleDefined DEF MetaInv, AbsentMeansAbsent, Truthful
<1>7. CASE access' = [access EXCEPT !.path = Append(access.path, Asked)]
  <2>1. /\ access'.op = access.op /\ access'.key = access.key /\ access'.value = access.value
        /\ access'.found = FALSE /\ Event' = Event
        /\ access'.path = Append(access.path, Asked)
    BY <1>0, <1>7 DEF MetaTypes, Event
  <2>2. /\ access'.path \in Seq(Tables) /\ access'.path # <<>>
        /\ Len(access'.path) = Len(access.path) + 1
        /\ \A i \in 1..Len(access.path) : access'.path[i] = access.path[i]
        /\ access'.path[Len(access.path) + 1] = Asked
    BY <1>2, <1>4, <2>1
  <2>3. access' \in [op : {"none", "get", "set"}, key : AllKeys, value : Value, path : Seq(Tables),
                     found : BOOLEAN]
    BY <1>0, <1>7, <2>1, <2>2 DEF MetaTypes
  <2>4. MetaTypes'
    BY <1>0, <1>1, <1>3, <2>1, <2>2, <2>3 DEF MetaTypes, ValuesOf
  <2>5. \A t, u : Delegates(t, access.key, u)' <=> Delegates(t, access.key, u)
    BY <1>1, <2>1 DEF Delegates
  <2>6. ASSUME NEW i \in 1..Len(access.path)
        PROVE  Delegates(access'.path[i], access.key, access'.path[i + 1])
    <3>1. CASE i = Len(access.path)
      BY <1>2, <1>5, <2>2, <3>1 DEF Here
    <3>2. CASE i \in 1..(Len(access.path) - 1)
      <4>1. i + 1 \in 1..Len(access.path)
        BY <1>2, <3>2
      <4> QED BY <1>0, <2>2, <3>2, <4>1 DEF AccessAsDefined
    <3> QED BY <1>2, <3>1, <3>2
  <2>7. AccessAsDefined'
    <3>1. Len(access'.path) - 1 = Len(access.path)
      BY <1>2, <2>2
    <3> QED BY <2>1, <2>5, <2>6, <3>1 DEF AccessAsDefined
  <2> QED BY <1>1, <1>3, <2>4, <2>7 DEF MetaInv, AbsentMeansAbsent, Truthful
<1> QED BY <1>6, <1>7 DEF Follow

\* A key of a table is assigned to, and the flags of that table forgotten.
LEMMA StoreKeeps ==
  ASSUME MetaTypes, Truthful(flags), NEW t \in Tables, NEW k \in AllKeys, NEW v \in ValuesOf(k),
         raw' = [raw EXCEPT ![t][k] = v], flags' = [flags EXCEPT ![t] = {}]
  PROVE  /\ raw' \in [Tables -> [AllKeys -> Value]]
         /\ \A u \in Tables, e \in Events : raw'[u][e] \in Tables \cup {NilV}
         /\ flags' \in [Tables -> SUBSET Events]
         /\ \A u \in Tables : \A e \in flags'[u] : raw'[u][e] = NilV
<1>1. \A u \in Tables, j \in AllKeys : raw'[u][j] = IF u = t /\ j = k THEN v ELSE raw[u][j]
  BY DEF MetaTypes
<1>2. v \in Value /\ Events \subseteq AllKeys
  BY ValuesType DEF AllKeys
<1>3. raw' \in [Tables -> [AllKeys -> Value]]
  BY <1>2 DEF MetaTypes
<1>4. \A u \in Tables, e \in Events : raw'[u][e] \in Tables \cup {NilV}
  BY <1>1, <1>2 DEF MetaTypes, ValuesOf
<1>5. flags' \in [Tables -> SUBSET Events]
  BY DEF MetaTypes
<1>6. \A u \in Tables : flags'[u] = IF u = t THEN {} ELSE flags[u]
  BY DEF MetaTypes
<1>7. \A u \in Tables : \A e \in flags'[u] : e \in AllKeys /\ u # t /\ raw[u][e] = NilV
  BY <1>2, <1>6 DEF MetaTypes, Truthful
<1> QED BY <1>1, <1>3, <1>4, <1>5, <1>7

\* The end of an access.
LEMMA FinishKeeps == ASSUME MetaInv, Finish PROVE MetaInv'
<1>0. /\ MetaTypes /\ access.op # "none" /\ Truthful(flags)
      /\ access' = NoAccess /\ meta' = meta
  BY DEF MetaInv, Finish, Idle, AbsentMeansAbsent, Truthful
<1>1. /\ raw' \in [Tables -> [AllKeys -> Value]]
      /\ \A u \in Tables, e \in Events : raw'[u][e] \in Tables \cup {NilV}
      /\ flags' \in [Tables -> SUBSET Events]
      /\ \A u \in Tables : \A e \in flags'[u] : raw'[u][e] = NilV
  <2>1. CASE access.op = "get"
    BY <1>0, <2>1 DEF Finish, MetaTypes, Truthful
  <2>2. CASE access.op # "get"
    <3>1. /\ raw' = [raw EXCEPT ![Here][access.key] = access.value]
          /\ flags' = [flags EXCEPT ![Here] = {}]
      BY <2>2 DEF Finish, FlagsForgotten
    <3>2. Here \in Tables /\ access.key \in AllKeys /\ access.value \in ValuesOf(access.key)
      BY <1>0, HereType DEF MetaTypes
    <3> QED BY <1>0, <3>1, <3>2, StoreKeeps
  <2> QED BY <2>1, <2>2
<1>2. access' \in [op : {"none", "get", "set"}, key : AllKeys, value : Value, path : Seq(Tables),
                   found : BOOLEAN]
  BY <1>0 DEF NoAccess, AllKeys, Events, Value
<1>3. MetaTypes'
  BY <1>0, <1>1, <1>2 DEF MetaTypes, NoAccess, ValuesOf
<1> QED BY <1>0, <1>1, <1>3, IdleDefined DEF MetaInv, AbsentMeansAbsent

\* lua_rawset and lua_setmetatable, between two accesses.
LEMMA OutsideKeeps ==
  ASSUME MetaInv, \/ \E t \in Tables, k \in AllKeys : \E v \in ValuesOf(k) : RawSets(t, k, v)
                  \/ \E t \in Tables, m \in Tables \cup {NilV} : SetMetatable(t, m)
  PROVE  MetaInv'
<1>0. MetaTypes /\ Truthful(flags) /\ access' = NoAccess /\ access = NoAccess
  BY DEF MetaInv, MetaTypes, AbsentMeansAbsent, Truthful, RawSets, SetMetatable, Idle
<1>1. AccessAsDefined'
  BY <1>0, IdleDefined
<1>2. ASSUME NEW t \in Tables, NEW k \in AllKeys, NEW v \in ValuesOf(k), RawSets(t, k, v)
      PROVE  MetaInv'
  <2>1. /\ raw' \in [Tables -> [AllKeys -> Value]]
        /\ \A u \in Tables, e \in Events : raw'[u][e] \in Tables \cup {NilV}
        /\ flags' \in [Tables -> SUBSET Events]
        /\ \A u \in Tables : \A e \in flags'[u] : raw'[u][e] = NilV
    BY <1>0, <1>2, StoreKeeps DEF RawSets
  <2>2. MetaTypes'
    BY <1>0, <1>2, <2>1 DEF MetaTypes, RawSets, ValuesOf
  <2> QED BY <1>1, <2>1, <2>2 DEF MetaInv, AbsentMeansAbsent
<1>3. ASSUME NEW t \in Tables, NEW m \in Tables \cup {NilV}, SetMetatable(t, m)
      PROVE  MetaInv'
  <2>1. raw' = raw /\ flags' = flags /\ meta' \in [Tables -> Tables \cup {NilV}]
    BY <1>0, <1>3 DEF MetaTypes, SetMetatable
  <2>2. MetaTypes'
    BY <1>0, <2>1 DEF MetaTypes, ValuesOf
  <2> QED BY <1>0, <1>1, <2>1, <2>2 DEF MetaInv, AbsentMeansAbsent, Truthful
<1> QED BY <1>2, <1>3

-----------------------------------------------------------------------------
\* The invariant of tables and their metatables.
THEOREM MetaInvariant == MetaSpec => []MetaInv
<1>1. MetaInit => MetaInv
  <2> SUFFICES ASSUME MetaInit PROVE MetaInv
    OBVIOUS
  <2>1. NoAccess \in [op : {"none", "get", "set"}, key : AllKeys, value : Value,
                      path : Seq(Tables), found : BOOLEAN]
    BY DEF NoAccess, AllKeys, Events, Value
  <2>2. MetaTypes
    BY <2>1 DEF MetaInit, MetaTypes, NoAccess, ValuesOf, Value, AllKeys
  <2>3. AccessAsDefined
    <3>1. access.path = <<>> /\ access.found = FALSE /\ 1..(Len(<<>>) - 1) = {}
      BY DEF MetaInit, NoAccess
    <3> QED BY <3>1 DEF AccessAsDefined
  <2>4. \A t \in Tables : \A e \in flags[t] : raw[t][e] = NilV
    BY DEF MetaInit, AllKeys
  <2> QED BY <2>2, <2>3, <2>4 DEF MetaInv, AbsentMeansAbsent
<1>2. MetaInv /\ UNCHANGED metaVars => MetaInv'
  BY DEF metaVars, MetaInv, MetaTypes, AbsentMeansAbsent, AccessAsDefined, Delegates, Here, Event,
         ValuesOf
<1>3. ASSUME MetaInv, NEW t \in Tables, NEW k \in AllKeys, Gets(t, k) PROVE MetaInv'
  <2>1. NilV \in ValuesOf(k)
    BY DEF ValuesOf
  <2> QED BY <1>3, <2>1, BeginKeeps
<1>4. MetaInv /\ [MetaNext]_metaVars => MetaInv'
  BY <1>2, <1>3, BeginKeeps, LocateKeeps, FollowKeeps, FinishKeeps, OutsideKeeps DEF MetaNext
<1> QED BY <1>1, <1>4, PTL DEF MetaSpec

\* What a metatable remembers to be absent is absent, and so luaV_gettable and
\* luaV_settable pass through the tag methods that there are and through no
\* others, and end where there is none.
THEOREM AbsentIsAbsent == MetaSpec => []AbsentMeansAbsent
<1>1. MetaInv => AbsentMeansAbsent
  BY DEF MetaInv
<1> QED BY <1>1, MetaInvariant, PTL

-----------------------------------------------------------------------------
(* Classes: for every set of classes and methods and every number of       *)
(* definitions.                                                            *)

Method == Classes \X Nat

\* The types; the superclass of a class was there before it.
ClassTypes ==
  /\ Made \subseteq Classes
  /\ super \in [Made -> Made \cup {None}]
  /\ vtbl \in [Classes -> [Methods -> Method \cup {None}]]
  /\ held \in [Classes -> [Methods -> Method \cup {None}]]
  /\ defs \in Nat
  /\ asked \in Seq(Made)
  /\ wanted \in Methods \cup {"new"}

\* The call under way has passed only classes that do not have the method.
PassedLack ==
  wanted \in Methods => \A i \in 1..(Len(asked) - 1) : vtbl[asked[i]][wanted] = None

\* The methods that were defined for class c so far.
Own(c) == {c} \X (0..(defs - 1))

\* A class that found a method has it, or one that was defined for the class.
HeldInTable ==
  \A c \in Classes, m \in Methods :
    held[c][m] # None =>
      vtbl[c][m] # None /\ (vtbl[c][m] = held[c][m] \/ vtbl[c][m] \in Own(c))

\* The inductive invariant.
ClassInv == ClassTypes /\ PassedLack /\ HeldInTable

\* A step of UsedMethodKept.
Replaced ==
  \A c \in Classes, m \in Methods :
    held[c][m] # None /\ held'[c][m] # held[c][m] => held'[c][m] \in Own(c)

-----------------------------------------------------------------------------
\* The class that a call has reached.
LEMMA TopType ==
  ASSUME ClassTypes, asked # <<>>
  PROVE  /\ Len(asked) \in Nat \ {0}
         /\ Top \in Made /\ Top \in Classes /\ asked[1] \in Classes
         /\ Top = asked[Len(asked)]
         /\ super[Top] \in Made \cup {None}
<1>1. asked \in Seq(Made) /\ Made \subseteq Classes /\ super \in [Made -> Made \cup {None}]
  BY DEF ClassTypes
<1>2. Len(asked) \in Nat \ {0}
  BY <1>1
<1> QED BY <1>1, <1>2 DEF Top

-----------------------------------------------------------------------------
LEMMA InitHolds == ASSUME ClassInit PROVE ClassInv
<1>1. Made = {} /\ super \in [Made -> Made \cup {None}]
  BY DEF ClassInit, Made
<1>2. ClassTypes
  BY <1>1 DEF ClassInit, ClassTypes
<1>3. PassedLack /\ HeldInTable
  BY DEF ClassInit, PassedLack, HeldInTable
<1> QED BY <1>2, <1>3 DEF ClassInv

LEMMA ClassKeeps ==
  ASSUME ClassInv, NEW c \in Classes, NEW s \in Made \cup {None}, Class(c, s)
  PROVE  ClassInv'
<1>1. Made' = Made \cup {c}
  BY DEF Class, Made
<1>2. super' \in [Made' -> Made' \cup {None}]
  BY <1>1 DEF Class, ClassInv, ClassTypes
<1>3. asked' = <<>> /\ asked' \in Seq(Made')
  BY DEF Class
<1>4. ClassTypes'
  BY <1>1, <1>2, <1>3 DEF Class, ClassInv, ClassTypes, Method
<1>5. PassedLack'
  BY <1>3 DEF PassedLack
<1>6. HeldInTable'
  BY DEF Class, ClassInv, HeldInTable, Own
<1> QED BY <1>4, <1>5, <1>6 DEF ClassInv

LEMMA DefineKeeps ==
  ASSUME ClassInv, NEW c \in Made, NEW m \in Methods, Define(c, m)
  PROVE  ClassInv'
<1>1. c \in Classes /\ defs \in Nat /\ defs' = defs + 1 /\ <<c, defs>> \in Method
  BY DEF Define, ClassInv, ClassTypes, Method
<1>2. /\ vtbl' \in [Classes -> [Methods -> Method \cup {None}]]
      /\ \A d \in Classes, n \in Methods :
           vtbl'[d][n] = IF d = c /\ n = m THEN <<c, defs>> ELSE vtbl[d][n]
  BY <1>1 DEF Define, ClassInv, ClassTypes
<1>3. ClassTypes'
  BY <1>1, <1>2 DEF Define, ClassInv, ClassTypes, Made, Method
<1>4. PassedLack'
  BY DEF Define, PassedLack
<1>5. HeldInTable'
  <2> SUFFICES ASSUME NEW d \in Classes, NEW n \in Methods, held[d][n] # None
               PROVE  /\ vtbl'[d][n] # None
                      /\ vtbl'[d][n] = held[d][n] \/ vtbl'[d][n] \in {d} \X (0..defs)
    BY <1>1 DEF Define, HeldInTable, Own
  <2>1. CASE d = c /\ n = m
    <3>1. vtbl'[d][n] = <<c, defs>>
      BY <1>2, <2>1
    <3>2. <<c, defs>> # None
      BY <1>1, ClassAssumption
    <3> QED BY <1>1, <2>1, <3>1, <3>2
  <2>2. CASE ~ (d = c /\ n = m)
    <3>1. vtbl'[d][n] = vtbl[d][n]
      BY <1>2, <2>2
    <3>2. {d} \X (0..(defs - 1)) \subseteq {d} \X (0..defs)
      BY <1>1
    <3> QED BY <3>1, <3>2 DEF ClassInv, HeldInTable, Own
  <2> QED BY <2>1, <2>2
<1> QED BY <1>3, <1>4, <1>5 DEF ClassInv

\* The steps that touch neither the tables nor what was found.
LEMMA StartKeeps ==
  ASSUME ClassInv, NEW c \in Made, NEW m \in Methods \cup {"new"}, Call(c, m)
  PROVE  ClassInv'
<1>1. asked' = <<c>> /\ asked' \in Seq(Made) /\ Len(asked') = 1
  BY DEF Call
<1>2. ClassTypes'
  BY <1>1 DEF Call, ClassInv, ClassTypes, Made, Method
<1>3. PassedLack'
  BY <1>1 DEF PassedLack
<1>4. HeldInTable'
  BY DEF Call, ClassInv, HeldInTable, Own
<1> QED BY <1>2, <1>3, <1>4 DEF ClassInv

LEMMA AskKeeps ==
  ASSUME ClassInv, AskSuper
  PROVE  ClassInv'
<1>1. super[Top] \in Made /\ asked \in Seq(Made) /\ Len(asked) \in Nat \ {0}
  BY TopType DEF AskSuper, Passes, ClassInv, ClassTypes
<1>2. /\ asked' \in Seq(Made)
      /\ Len(asked') = Len(asked) + 1
      /\ \A i \in 1..Len(asked) : asked'[i] = asked[i]
  BY <1>1 DEF AskSuper
<1>3. ClassTypes'
  BY <1>2 DEF AskSuper, ClassInv, ClassTypes, Made, Method
<1>4. PassedLack'
  <2> SUFFICES ASSUME wanted \in Methods, NEW i \in 1..Len(asked)
               PROVE  vtbl[asked[i]][wanted] = None
    BY <1>1, <1>2 DEF AskSuper, PassedLack
  <2>1. CASE i = Len(asked)
    BY <2>1 DEF AskSuper, Passes, Top
  <2>2. CASE i # Len(asked)
    BY <1>1, <2>2 DEF ClassInv, PassedLack
  <2> QED BY <2>1, <2>2
<1>5. HeldInTable'
  BY DEF AskSuper, ClassInv, HeldInTable, Own
<1> QED BY <1>3, <1>4, <1>5 DEF ClassInv

\* What the answer changes: what the classes passed lack becomes the value,
\* which the last class has already.
LEMMA AnswerChanges ==
  ASSUME ClassInv, Answer
  PROVE  LET value == vtbl[Top][wanted]
         IN  /\ value \in Method \cup {None}
             /\ asked[1] \in Classes
             /\ vtbl' \in [Classes -> [Methods -> Method \cup {None}]]
             /\ held' \in [Classes -> [Methods -> Method \cup {None}]]
             /\ \A c \in Classes, n \in Methods :
                  \/ vtbl'[c][n] = vtbl[c][n]
                  \/ n = wanted /\ vtbl[c][n] = None /\ vtbl'[c][n] = value
             /\ vtbl'[asked[1]][wanted] = value
             /\ \A c \in Classes, n \in Methods :
                  held'[c][n] = IF c = asked[1] /\ n = wanted THEN value ELSE held[c][n]
<1> DEFINE value == vtbl[Top][wanted]
<1>1. /\ asked # <<>> /\ wanted \in Methods
      /\ vtbl' = KeptIn(vtbl, ToSet(asked), wanted, value)
      /\ held' = [held EXCEPT ![asked[1]][wanted] = value]
  BY DEF Answer
<1>2. /\ Len(asked) \in Nat \ {0} /\ Top \in Classes /\ asked[1] \in Classes
      /\ Top = asked[Len(asked)]
  BY <1>1, TopType DEF ClassInv
<1>3. value \in Method \cup {None}
  BY <1>1, <1>2 DEF ClassInv, ClassTypes
<1>4. ToSet(asked) = {asked[i] : i \in 1..Len(asked)}
  BY DEF ToSet, ClassInv, ClassTypes
<1> HIDE DEF value
<1>5. /\ vtbl' \in [Classes -> [Methods -> Method \cup {None}]]
      /\ \A c \in Classes, n \in Methods :
           vtbl'[c][n] = IF c \in ToSet(asked) /\ n = wanted THEN value ELSE vtbl[c][n]
  <2>1. vtbl \in [Classes -> [Methods -> Method \cup {None}]] /\ wanted \in Methods
    BY <1>1 DEF ClassInv, ClassTypes
  <2>2. vtbl' = [c \in Classes |-> IF c \in ToSet(asked) THEN [vtbl[c] EXCEPT ![wanted] = value]
                                                        ELSE vtbl[c]]
    BY <1>1 DEF KeptIn
  <2>3. \A c \in Classes :
          /\ [vtbl[c] EXCEPT ![wanted] = value] \in [Methods -> Method \cup {None}]
          /\ \A n \in Methods : [vtbl[c] EXCEPT ![wanted] = value][n] =
                                 IF n = wanted THEN value ELSE vtbl[c][n]
    BY <1>3, <2>1
  <2> QED BY <2>1, <2>2, <2>3
<1>6. \A c \in ToSet(asked) : vtbl[c][wanted] = None \/ vtbl[c][wanted] = value
  <2> SUFFICES ASSUME NEW i \in 1..Len(asked)
               PROVE  vtbl[asked[i]][wanted] = None \/ vtbl[asked[i]][wanted] = value
    BY <1>4
  <2>1. CASE i = Len(asked)
    BY <1>2, <2>1 DEF value
  <2>2. CASE i # Len(asked)
    BY <1>1, <1>2, <2>2 DEF ClassInv, PassedLack
  <2> QED BY <2>1, <2>2
<1>7. \A c \in Classes, n \in Methods :
        \/ vtbl'[c][n] = vtbl[c][n]
        \/ n = wanted /\ vtbl[c][n] = None /\ vtbl'[c][n] = value
  BY <1>5, <1>6
<1>8. vtbl'[asked[1]][wanted] = value
  <2>1. asked[1] \in ToSet(asked)
    BY <1>2, <1>4
  <2> QED BY <1>1, <1>2, <1>5, <2>1
<1>9. /\ held' \in [Classes -> [Methods -> Method \cup {None}]]
      /\ \A c \in Classes, n \in Methods :
           held'[c][n] = IF c = asked[1] /\ n = wanted THEN value ELSE held[c][n]
  BY <1>1, <1>2, <1>3 DEF ClassInv, ClassTypes
<1> QED BY <1>2, <1>3, <1>5, <1>7, <1>8, <1>9 DEF value

LEMMA AnswerKeeps ==
  ASSUME ClassInv, Answer
  PROVE  ClassInv'
<1> DEFINE value == vtbl[Top][wanted]
<1>1. /\ vtbl' \in [Classes -> [Methods -> Method \cup {None}]]
      /\ held' \in [Classes -> [Methods -> Method \cup {None}]]
      /\ asked[1] \in Classes /\ wanted \in Methods
      /\ \A c \in Classes, n \in Methods :
           vtbl'[c][n] = vtbl[c][n] \/ (vtbl[c][n] = None /\ vtbl'[c][n] = value)
      /\ vtbl'[asked[1]][wanted] = value
      /\ \A c \in Classes, n \in Methods :
           held'[c][n] = IF c = asked[1] /\ n = wanted THEN value ELSE held[c][n]
  BY AnswerChanges DEF Answer
<1> HIDE DEF value
<1>2. asked' = <<>> /\ asked' \in Seq(Made) /\ wanted' = "new" /\ defs' = defs
  BY DEF Answer
<1>3. ClassTypes'
  BY <1>1, <1>2 DEF Answer, ClassInv, ClassTypes, Made, Method
<1>4. PassedLack'
  BY <1>2 DEF PassedLack
<1>5. HeldInTable'
  <2> SUFFICES ASSUME NEW c \in Classes, NEW n \in Methods, held'[c][n] # None
               PROVE  /\ vtbl'[c][n] # None
                      /\ vtbl'[c][n] = held'[c][n] \/ vtbl'[c][n] \in Own(c)
    BY <1>2 DEF HeldInTable, Own
  <2>1. CASE c = asked[1] /\ n = wanted
    BY <1>1, <2>1
  <2>2. CASE ~ (c = asked[1] /\ n = wanted)
    BY <1>1, <2>2 DEF ClassInv, HeldInTable
  <2> QED BY <2>1, <2>2
<1> QED BY <1>3, <1>4, <1>5 DEF ClassInv

LEMMA ConstructKeeps ==
  ASSUME ClassInv, Construct
  PROVE  ClassInv'
<1>1. /\ asked' = <<>> /\ asked' \in Seq(Made)
      /\ UNCHANGED <<super, ctor, vtbl, defs, wanted, held>>
  BY DEF Construct
<1>2. ClassTypes'
  BY <1>1 DEF ClassInv, ClassTypes, Made, Method
<1>3. PassedLack' /\ HeldInTable'
  BY <1>1 DEF ClassInv, PassedLack, HeldInTable, Own
<1> QED BY <1>2, <1>3 DEF ClassInv

LEMMA CtorKeeps ==
  ASSUME ClassInv, NEW c \in Made, DefineCtor(c)
  PROVE  ClassInv'
<1>1. UNCHANGED <<super, vtbl, defs, asked, wanted, held>>
  BY DEF DefineCtor
<1> QED BY <1>1 DEF ClassInv, ClassTypes, PassedLack, HeldInTable, Own, Made, Method

-----------------------------------------------------------------------------
\* The invariant: in particular a class that found a method never loses it.
THEOREM ClassInvariant == ClassSpec => []ClassInv
<1>1. ClassInit => ClassInv
  BY InitHolds
<1>2. ClassInv /\ [ClassNext]_classVars => ClassInv'
  <2> SUFFICES ASSUME ClassInv, [ClassNext]_classVars
               PROVE  ClassInv'
    OBVIOUS
  <2>1. ASSUME NEW c \in Classes, NEW s \in Made \cup {None}, Class(c, s) PROVE ClassInv'
    BY <2>1, ClassKeeps
  <2>2. ASSUME NEW c \in Made, NEW m \in Methods, Define(c, m) PROVE ClassInv'
    BY <2>2, DefineKeeps
  <2>3. ASSUME NEW c \in Made, NEW m \in Methods \cup {"new"}, Call(c, m) PROVE ClassInv'
    BY <2>3, StartKeeps
  <2>4. ASSUME NEW c \in Made, DefineCtor(c) PROVE ClassInv'
    BY <2>4, CtorKeeps
  <2>5. CASE AskSuper
    BY <2>5, AskKeeps
  <2>6. CASE Answer
    BY <2>6, AnswerKeeps
  <2>7. CASE Construct
    BY <2>7, ConstructKeeps
  <2>8. CASE UNCHANGED classVars
    BY <2>8 DEF classVars, ClassInv, ClassTypes, PassedLack, HeldInTable, Own, Made, Method
  <2> QED BY <2>1, <2>2, <2>3, <2>4, <2>5, <2>6, <2>7, <2>8 DEF ClassNext
<1> QED BY <1>1, <1>2, PTL DEF ClassSpec

\* What a class has found is the method that it has, unless one was defined for
\* it; so the answer to a later call is one of the two.
LEMMA AnswerReplaces ==
  ASSUME ClassInv, [ClassNext]_classVars
  PROVE  Replaced
<1> SUFFICES ASSUME NEW c \in Classes, NEW m \in Methods,
                    held[c][m] # None, held'[c][m] # held[c][m]
             PROVE  held'[c][m] \in Own(c)
  BY DEF Replaced
<1>1. Answer
  BY DEF ClassNext, classVars, Class, Define, DefineCtor, Call, AskSuper, Construct
<1>2. /\ c = asked[1] /\ m = wanted
      /\ held'[c][m] = vtbl[Top][wanted]
      /\ vtbl'[c][m] = vtbl[Top][wanted]
      /\ vtbl'[c][m] = vtbl[c][m] \/ vtbl[c][m] = None
  BY <1>1, AnswerChanges
<1> QED BY <1>2 DEF ClassInv, HeldInTable

\* Neither a new definition in a superclass nor the use by other classes
\* replaces a method that a class has found.
THEOREM MethodKept == ClassSpec => UsedMethodKept
<1>1. ClassInv /\ [ClassNext]_classVars => [Replaced]_classVars
  BY AnswerReplaces
<1>2. ClassSpec => [][Replaced]_classVars
  BY ClassInvariant, <1>1, PTL DEF ClassSpec
<1> QED BY <1>2 DEF UsedMethodKept, Replaced, Own

-----------------------------------------------------------------------------
(* Modules: for every set of modules and results.                          *)

Entry == Results \cup {Unset, False, Sentinel, Table, True}

\* The types; no chunk runs inside itself.
RequireTypes ==
  /\ loaded \in [Modules -> Entry]
  /\ loading \in Seq(Modules)
  /\ \A i, j \in 1..Len(loading) : loading[i] = loading[j] => i = j
  /\ runs \in [Modules -> Nat]
  /\ falses \in [Modules -> Nat]
  /\ given \in [Modules -> (Entry \ {Unset, Sentinel}) \cup {NotYet}]

\* What the entry of a module says of the runs of its chunk: nil, that there
\* was none; false, that all returned it; the mark, that one did not return.
EntryTold ==
  \A m \in Modules :
    /\ loaded[m] = Unset => runs[m] = 0 /\ falses[m] = 0 /\ given[m] = NotYet
    /\ loaded[m] = False => runs[m] = falses[m] /\ given[m] \in {NotYet, False}
    /\ loaded[m] = Sentinel => runs[m] = 1 + falses[m] /\ given[m] \in {NotYet, False}
    /\ runs[m] <= 1 + falses[m]
    /\ given[m] \notin {NotYet, False} => loaded[m] = given[m]

\* A chunk that runs has the mark, or the table of module(), and nothing was
\* given for its module but false.
RunningMarked ==
  \A i \in 1..Len(loading) :
    /\ loaded[loading[i]] \in {Sentinel, Table}
    /\ runs[loading[i]] = 1 + falses[loading[i]]
    /\ given[loading[i]] \in {NotYet, False}

RequireInv == RequireTypes /\ EntryTold /\ RunningMarked

\* An error only leaves chunks.
LEMMA ThrowKeeps ==
  ASSUME RequireInv, Throw
  PROVE  RequireInv' /\ UNCHANGED <<loaded, runs, falses, given>>
<1>1. PICK n \in 0..Len(loading) : loading' = SubSeq(loading, 1, n)
  BY DEF Throw
<1>2. UNCHANGED <<loaded, runs, falses, given>>
  BY DEF Throw
<1>3. /\ loading' \in Seq(Modules) /\ Len(loading') = n /\ n <= Len(loading)
      /\ \A i \in 1..n : i \in 1..Len(loading) /\ loading'[i] = loading[i]
  BY <1>1 DEF RequireInv, RequireTypes
<1>4. RequireTypes'
  BY <1>2, <1>3 DEF RequireInv, RequireTypes
<1>5. EntryTold'
  BY <1>2 DEF RequireInv, EntryTold
<1>6. RunningMarked'
  BY <1>2, <1>3 DEF RequireInv, RunningMarked
<1> QED BY <1>2, <1>4, <1>5, <1>6 DEF RequireInv

\* The innermost chunk.
LEMMA RunningIs ==
  ASSUME RequireInv, loading # <<>>
  PROVE  /\ Len(loading) \in 1..Len(loading) /\ Running = loading[Len(loading)]
         /\ Running \in Modules /\ Running \in Loading
BY DEF RequireInv, RequireTypes, Running, Loading

LEMMA EnterKeeps ==
  ASSUME RequireInv, NEW m \in Modules, Enter(m)
  PROVE  RequireInv'
<1>1. loaded[m] \in {Unset, False}
  BY DEF Enter, Loads
<1>2. /\ loaded' = [loaded EXCEPT ![m] = Sentinel] /\ loading' = Append(loading, m)
      /\ runs' = [runs EXCEPT ![m] = @ + 1] /\ falses' = falses /\ given' = given
  BY DEF Enter
<1>3. \A i \in 1..Len(loading) : loading[i] # m
  BY <1>1 DEF RequireInv, RunningMarked, Unset, False, Sentinel, Table
<1>4. /\ loading' \in Seq(Modules) /\ Len(loading') = Len(loading) + 1
      /\ Len(loading) \in Nat /\ loading'[Len(loading) + 1] = m
      /\ \A i \in 1..Len(loading) : loading'[i] = loading[i]
  BY <1>2 DEF RequireInv, RequireTypes
<1>5. runs[m] = falses[m] /\ runs[m] \in Nat /\ given[m] \in {NotYet, False}
  BY <1>1 DEF RequireInv, RequireTypes, EntryTold, Unset, False
<1>6. RequireTypes'
  <2>1. \A i, j \in 1..Len(loading') : loading'[i] = loading'[j] => i = j
    <3> SUFFICES ASSUME NEW i \in 1..Len(loading'), NEW j \in 1..Len(loading'),
                        loading'[i] = loading'[j]
        PROVE  i = j
      OBVIOUS
    <3>1. PICK n \in Nat : n = Len(loading)
      BY <1>4
    <3>2. CASE i \in 1..n /\ j \in 1..n
      BY <1>4, <3>1, <3>2 DEF RequireInv, RequireTypes
    <3>3. i = n + 1 \/ i \in 1..n
      BY <1>4, <3>1
    <3>4. j = n + 1 \/ j \in 1..n
      BY <1>4, <3>1
    <3>5. i \in 1..n => loading'[i] # m
      BY <1>3, <1>4, <3>1
    <3>6. j \in 1..n => loading'[j] # m
      BY <1>3, <1>4, <3>1
    <3> QED BY <1>4, <3>1, <3>2, <3>3, <3>4, <3>5, <3>6
  <2>2. loaded' \in [Modules -> Entry] /\ runs' \in [Modules -> Nat]
    BY <1>2 DEF RequireInv, RequireTypes, Entry
  <2> QED BY <1>2, <1>4, <2>1, <2>2 DEF RequireInv, RequireTypes
<1>7. /\ loaded'[m] = Sentinel /\ runs'[m] = 1 + falses'[m]
      /\ \A x \in Modules \ {m} : loaded'[x] = loaded[x] /\ runs'[x] = runs[x]
  BY <1>2, <1>5 DEF RequireInv, RequireTypes
<1>8. EntryTold'
  BY <1>2, <1>5, <1>7 DEF RequireInv, RequireTypes, EntryTold, Unset, False, Sentinel
<1>9. RunningMarked'
  <2> SUFFICES ASSUME NEW i \in 1..Len(loading')
      PROVE  /\ loaded'[loading'[i]] \in {Sentinel, Table}
             /\ runs'[loading'[i]] = 1 + falses'[loading'[i]]
             /\ given'[loading'[i]] \in {NotYet, False}
    BY DEF RunningMarked
  <2>1. CASE i = Len(loading) + 1
    BY <1>2, <1>4, <1>5, <1>7, <2>1
  <2>2. CASE i \in 1..Len(loading)
    <3>1. loading[i] \in Modules \ {m}
      BY <1>3, <2>2 DEF RequireInv, RequireTypes
    <3> QED BY <1>2, <1>4, <1>7, <2>2, <3>1 DEF RequireInv, RunningMarked
  <2> QED BY <1>4, <2>1, <2>2
<1> QED BY <1>6, <1>8, <1>9 DEF RequireInv

LEMMA AgainKeeps ==
  ASSUME RequireInv, NEW m \in Modules, Again(m)
  PROVE  RequireInv'
<1>1. /\ UNCHANGED <<loaded, loading, runs, falses>>
      /\ loaded[m] \notin {Unset, False, Sentinel}
      /\ given' = IF m \in Loading THEN given ELSE [given EXCEPT ![m] = loaded[m]]
  BY DEF Again, Loads
<1>2. CASE m \in Loading
  BY <1>1, <1>2 DEF RequireInv, RequireTypes, EntryTold, RunningMarked
<1>3. CASE m \notin Loading
  <2>1. \A i \in 1..Len(loading) : loading[i] # m /\ loading[i] \in Modules
    BY <1>3 DEF Loading, RequireInv, RequireTypes
  <2>2. /\ given'[m] = loaded[m]
        /\ \A x \in Modules \ {m} : given'[x] = given[x]
    BY <1>1, <1>3 DEF RequireInv, RequireTypes
  <2>3. RequireTypes'
    BY <1>1, <1>3 DEF RequireInv, RequireTypes
  <2>4. EntryTold'
    BY <1>1, <2>2 DEF RequireInv, EntryTold
  <2>5. RunningMarked'
    BY <1>1, <2>1, <2>2 DEF RequireInv, RunningMarked
  <2> QED BY <2>3, <2>4, <2>5 DEF RequireInv
<1> QED BY <1>2, <1>3

LEMMA TableKeeps ==
  ASSUME RequireInv, loading # <<>>, loaded' = [loaded EXCEPT ![Running] = Table],
         UNCHANGED <<loading, runs, falses, given>>
  PROVE  RequireInv'
<1>1. Running \in Modules /\ given[Running] \in {NotYet, False}
  BY RunningIs DEF RequireInv, RunningMarked
<1>2. /\ loaded'[Running] = Table /\ \A x \in Modules \ {Running} : loaded'[x] = loaded[x]
      /\ loaded' \in [Modules -> Entry]
  BY <1>1 DEF RequireInv, RequireTypes, Entry
<1>3. RequireTypes'
  BY <1>2 DEF RequireInv, RequireTypes
<1>4. EntryTold'
  BY <1>1, <1>2 DEF RequireInv, EntryTold, Table, Unset, False, Sentinel
<1>5. RunningMarked'
  BY <1>2 DEF RequireInv, RequireTypes, RunningMarked
<1> QED BY <1>3, <1>4, <1>5 DEF RequireInv

\* What a chunk leaves is neither nil nor the mark.
LEMMA LeftIs ==
  ASSUME RequireInv, loading # <<>>, NEW v \in Results \cup {Unset, False}
  PROVE  /\ Left(v, loaded[Running]) \in Entry \ {Unset, Sentinel}
         /\ Left(v, loaded[Running]) = False <=> v = False
<1>1. loaded[Running] \in {Sentinel, Table}
  BY RunningIs DEF RequireInv, RunningMarked
<1>2. Results \cap {Unset, False, Sentinel, NotYet} = {}
  BY RequireAssumption
<1> QED BY <1>1, <1>2 DEF Left, Entry, Unset, False, Sentinel, Table, True

LEMMA ReturnKeeps ==
  ASSUME RequireInv, NEW v \in Results \cup {Unset, False}, Return(v)
  PROVE  RequireInv'
<1>1. loading # <<>>
  BY DEF Return
<1>2. PICK r \in Modules : r = Running /\ r = loading[Len(loading)]
  BY <1>1, RunningIs
<1>3. PICK left \in Entry \ {Unset, Sentinel} :
        left = Left(v, loaded[r]) /\ (left = False <=> v = False)
  BY <1>1, <1>2, LeftIs
<1>4. /\ loaded' = [loaded EXCEPT ![r] = left] /\ given' = [given EXCEPT ![r] = left]
      /\ falses' = IF v = False THEN [falses EXCEPT ![r] = @ + 1] ELSE falses
      /\ loading' = SubSeq(loading, 1, Len(loading) - 1) /\ runs' = runs
  BY <1>2, <1>3 DEF Return
<1>5. PICK n \in Nat : n + 1 = Len(loading)
  <2>1. Len(loading) \in Nat /\ Len(loading) \in 1..Len(loading)
    BY <1>1, RunningIs DEF RequireInv, RequireTypes
  <2>2. Len(loading) - 1 \in Nat /\ (Len(loading) - 1) + 1 = Len(loading)
    BY <2>1
  <2> QED BY <2>2
<1>6. /\ loading' \in Seq(Modules) /\ Len(loading') = n
      /\ \A i \in 1..n : /\ i \in 1..Len(loading) /\ loading'[i] = loading[i]
                         /\ loading[i] \in Modules \ {r}
  <2>1. loading' = SubSeq(loading, 1, n) /\ loading \in Seq(Modules)
    BY <1>4, <1>5 DEF RequireInv, RequireTypes
  <2>2. \A i \in 1..n : i \in 1..Len(loading) /\ i # n + 1 /\ n + 1 \in 1..Len(loading)
    BY <1>5
  <2>3. \A i \in 1..n : loading[i] # r
    BY <1>2, <1>5, <2>2 DEF RequireInv, RequireTypes
  <2> QED BY <1>5, <2>1, <2>2, <2>3
<1>7. runs[r] = 1 + falses[r] /\ falses[r] \in Nat
  BY <1>1, <1>2, RunningIs DEF RequireInv, RequireTypes, RunningMarked
<1>8. /\ loaded'[r] = left /\ given'[r] = left
      /\ falses'[r] = IF v = False THEN falses[r] + 1 ELSE falses[r]
      /\ \A x \in Modules \ {r} : /\ loaded'[x] = loaded[x] /\ given'[x] = given[x]
                                  /\ falses'[x] = falses[x]
      /\ loaded' \in [Modules -> Entry] /\ falses' \in [Modules -> Nat]
      /\ given' \in [Modules -> (Entry \ {Unset, Sentinel}) \cup {NotYet}]
  BY <1>4 DEF RequireInv, RequireTypes
<1>9. RequireTypes'
  <2>1. \A i, j \in 1..Len(loading') : loading'[i] = loading'[j] => i = j
    BY <1>6 DEF RequireInv, RequireTypes
  <2> QED BY <1>4, <1>6, <1>8, <2>1 DEF RequireInv, RequireTypes
<1>10. EntryTold'
  <2> SUFFICES ASSUME NEW m \in Modules
      PROVE  /\ loaded'[m] = Unset => runs'[m] = 0 /\ falses'[m] = 0 /\ given'[m] = NotYet
             /\ loaded'[m] = False => runs'[m] = falses'[m] /\ given'[m] \in {NotYet, False}
             /\ loaded'[m] = Sentinel => runs'[m] = 1 + falses'[m] /\ given'[m] \in {NotYet, False}
             /\ runs'[m] <= 1 + falses'[m]
             /\ given'[m] \notin {NotYet, False} => loaded'[m] = given'[m]
    BY DEF EntryTold
  <2>1. CASE m = r
    <3>1. left # Unset /\ left # Sentinel
      BY <1>3
    <3>2. loaded'[m] = left /\ given'[m] = left /\ runs'[m] = runs[r]
      BY <1>4, <1>8, <2>1
    <3>3. left = False => runs'[m] = falses'[m]
      BY <1>3, <1>7, <1>8, <2>1, <3>2
    <3>4. runs'[m] <= 1 + falses'[m]
      BY <1>7, <1>8, <2>1, <3>2
    <3> QED BY <3>1, <3>2, <3>3, <3>4
  <2>2. CASE m # r
    BY <1>4, <1>8, <2>2 DEF RequireInv, EntryTold
  <2> QED BY <2>1, <2>2
<1>11. RunningMarked'
  <2> SUFFICES ASSUME NEW i \in 1..Len(loading')
      PROVE  /\ loaded'[loading'[i]] \in {Sentinel, Table}
             /\ runs'[loading'[i]] = 1 + falses'[loading'[i]]
             /\ given'[loading'[i]] \in {NotYet, False}
    BY DEF RunningMarked
  <2>1. PICK m \in Modules \ {r} : m = loading'[i] /\ m = loading[i] /\ i \in 1..Len(loading)
    BY <1>6
  <2>2. loaded[m] \in {Sentinel, Table} /\ runs[m] = 1 + falses[m] /\ given[m] \in {NotYet, False}
    BY <2>1 DEF RequireInv, RunningMarked
  <2> QED BY <1>4, <1>8, <2>1, <2>2
<1> QED BY <1>9, <1>10, <1>11 DEF RequireInv

\* The invariant: what the entries of package.loaded say of the past.
THEOREM RequireInvariant == RequireSpec => []RequireInv
<1>1. RequireInit => RequireInv
  <2> SUFFICES ASSUME RequireInit PROVE RequireInv
    OBVIOUS
  <2>1. /\ \A m \in Modules : /\ loaded[m] \in {Unset, Table} /\ runs[m] = 0
                              /\ falses[m] = 0 /\ given[m] = NotYet
        /\ loaded \in [Modules -> {Unset, Table}] /\ runs \in [Modules -> Nat]
        /\ falses \in [Modules -> Nat] /\ given \in [Modules -> {NotYet}]
    BY DEF RequireInit
  <2>2. loading \in Seq(Modules) /\ Len(loading) = 0
    BY DEF RequireInit
  <2>3. RequireTypes
    BY <2>1, <2>2 DEF RequireTypes, Entry
  <2>4. EntryTold
    <3>1. Table # False /\ Table # Sentinel /\ Unset # False /\ Unset # Sentinel /\ Table # Unset
      BY DEF Unset, False, Sentinel, Table
    <3>2. \A m \in Modules : runs[m] <= 1 + falses[m]
      <4> SUFFICES ASSUME NEW m \in Modules PROVE runs[m] <= 1 + falses[m]
        OBVIOUS
      <4>1. runs[m] = 0 /\ falses[m] = 0
        BY <2>1
      <4> QED BY <4>1
    <3>3. \A m \in Modules : loaded[m] = Unset \/ loaded[m] = Table
      BY <2>1
    <3>4. \A m \in Modules :
            /\ loaded[m] = Unset => runs[m] = 0 /\ falses[m] = 0 /\ given[m] = NotYet
            /\ loaded[m] # False /\ loaded[m] # Sentinel
            /\ given[m] \in {NotYet, False}
      BY <2>1, <3>1, <3>3
    <3> QED BY <3>2, <3>4 DEF EntryTold
  <2>5. RunningMarked
    BY <2>2 DEF RunningMarked
  <2> QED BY <2>3, <2>4, <2>5 DEF RequireInv
<1>2. RequireInv /\ [RequireNext]_requireVars => RequireInv'
  <2> SUFFICES ASSUME RequireInv, [RequireNext]_requireVars PROVE RequireInv'
    OBVIOUS
  <2>1. CASE Throw
    BY <2>1, ThrowKeeps
  <2>2. ASSUME NEW m \in Modules, Require(m) PROVE RequireInv'
    BY <2>1, <2>2, AgainKeeps, EnterKeeps DEF Require, Refuse, Missing
  <2>3. CASE CallModule
    BY <2>1, <2>3, TableKeeps DEF CallModule
  <2>4. CASE Fail
    BY <2>1, <2>4 DEF Fail
  <2>5. ASSUME NEW v \in Results \cup {Unset, False}, Return(v) PROVE RequireInv'
    BY <2>5, ReturnKeeps
  <2>6. CASE UNCHANGED requireVars
    BY <2>6 DEF requireVars, RequireInv, RequireTypes, EntryTold, RunningMarked
  <2> QED BY <2>2, <2>3, <2>4, <2>5, <2>6 DEF RequireNext
<1> QED BY <1>1, <1>2, PTL DEF RequireSpec

\* ll_require runs a chunk once, and once more after each time that it
\* returned false, gives again what it gave, and leaves its mark only for a
\* chunk that did not return.
THEOREM OnceRequired == RequireSpec => []RequiredOnce
<1>1. RequireInv => RequiredOnce
  BY DEF RequireInv, RequireTypes, EntryTold, RequiredOnce, NotYet, Unset, Sentinel
<1> QED BY <1>1, RequireInvariant, PTL

\* After an error in its chunk, ll_require refuses a module for good, whatever
\* other chunks do: only its own chunk could replace the mark.
THEOREM FailureIsFinal == RequireSpec => FailedForGood
<1> DEFINE Final == \A m \in Modules :
                      loaded[m] = Sentinel /\ m \notin Loading
                        => /\ loaded'[m] = Sentinel
                           /\ runs'[m] = runs[m] /\ given'[m] = given[m]
<1>1. RequireInv /\ [RequireNext]_requireVars => [Final]_requireVars
  <2> SUFFICES ASSUME RequireInv, RequireNext, NEW m \in Modules, loaded[m] = Sentinel,
                      m \notin Loading
      PROVE  loaded'[m] = Sentinel /\ runs'[m] = runs[m] /\ given'[m] = given[m]
    OBVIOUS
  <2>1. CASE Throw
    BY <2>1 DEF Throw
  <2>2. ASSUME NEW x \in Modules, Require(x)
        PROVE  loaded'[m] = Sentinel /\ runs'[m] = runs[m] /\ given'[m] = given[m]
    <3>1. CASE Again(x)
      BY <3>1 DEF Again, RequireInv, RequireTypes
    <3>2. CASE Enter(x)
      <4>1. x # m
        BY <3>2 DEF Enter, Loads, Unset, False, Sentinel
      <4> QED BY <3>2, <4>1 DEF Enter, RequireInv, RequireTypes
    <3> QED BY <2>1, <2>2, <3>1, <3>2 DEF Require, Refuse, Missing
  <2>3. loading # <<>> => Running # m
    BY RunningIs
  <2>4. CASE CallModule
    BY <2>1, <2>3, <2>4 DEF CallModule, RequireInv, RequireTypes
  <2>5. ASSUME NEW v \in Results \cup {Unset, False}, Return(v)
        PROVE  loaded'[m] = Sentinel /\ runs'[m] = runs[m] /\ given'[m] = given[m]
    BY <2>3, <2>5 DEF Return, RequireInv, RequireTypes
  <2> QED BY <2>1, <2>2, <2>4, <2>5 DEF RequireNext, Fail
<1> QED BY <1>1, RequireInvariant, PTL DEF RequireSpec, FailedForGood
=============================================================================
