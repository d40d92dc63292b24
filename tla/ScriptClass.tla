---------------------------- MODULE ScriptClass -----------------------------
(***************************************************************************)
(* The classes of the scripts (class.lua).  class(super) makes a class     *)
(* table, whose fields ctor, super and new are its own, and a table vtbl   *)
(* for everything else that is assigned to the class: its methods.  An     *)
(* object looks its methods up in vtbl; a method that vtbl does not have   *)
(* is fetched from the vtbl of the superclass, and stays in this one.      *)
(*                                                                         *)
(* Methods are identified by the class they were written for and the       *)
(* number of definitions there were before.  The functions that ask the    *)
(* superclass before they go on, __index and create, climb one class per   *)
(* action; nothing else runs meanwhile.                                    *)
(***************************************************************************)
EXTENDS Naturals, Sequences, SequencesExt

CONSTANTS
  Classes,   \* classes
  Methods,   \* names of methods
  MaxDefs,   \* bound: definitions of methods in a behaviour
  None       \* nil

ASSUME ClassAssumption ==
  /\ None \notin Classes \cup (Classes \X Nat)
  /\ "new" \notin Methods

VARIABLES
  super,   \* the superclass of each class that there is; None
  ctor,    \* whether a class has a constructor
  vtbl,    \* _class: the vtbl of each class
  defs,    \* number of definitions so far
  asked,   \* the classes that the call under way has asked, in order
  wanted,  \* the method it asks for; "new" to make an object, or idle
  held,    \* history: the method that an object of a class found last
  built    \* the constructors that the call of new ran, in order

classVars == <<super, ctor, vtbl, defs, asked, wanted, held, built>>

Made == DOMAIN super

ClassInit ==
  /\ super = [c \in {} |-> None]
  /\ ctor = [c \in Classes |-> FALSE]
  /\ vtbl = [c \in Classes |-> [m \in Methods |-> None]]
  /\ defs = 0
  /\ asked = <<>>
  /\ wanted = "new"
  /\ held = [c \in Classes |-> [m \in Methods |-> None]]
  /\ built = <<>>

Class(c, s) ==
  /\ asked = <<>>
  /\ c \notin Made
  /\ s \in Made \cup {None}
  /\ super' = [x \in Made \cup {c} |-> IF x = c THEN s ELSE super[x]]
  /\ UNCHANGED <<ctor, vtbl, defs, asked, wanted, held, built>>

\* function C:m() ... end, which __newindex puts into vtbl.
Define(c, m) ==
  /\ asked = <<>>
  /\ defs < MaxDefs
  /\ defs' = defs + 1
  /\ vtbl' = [vtbl EXCEPT ![c][m] = <<c, defs>>]
  /\ UNCHANGED <<super, ctor, asked, wanted, held, built>>

\* function C:ctor() ... end: ctor is false in the class table already, so
\* that __newindex is not asked.
DefineCtor(c) ==
  /\ asked = <<>>
  /\ ctor' = [ctor EXCEPT ![c] = TRUE]
  /\ UNCHANGED <<super, vtbl, defs, asked, wanted, held, built>>

\* A method of an object of class c is called, or new to make one.
Call(c, m) ==
  /\ asked = <<>>
  /\ asked' = <<c>>
  /\ wanted' = m
  /\ built' = <<>>
  /\ UNCHANGED <<super, ctor, vtbl, defs, held>>

Top == asked[Len(asked)]

\* A vtbl that does not have the method, and create, ask the superclass.
Passes == super[Top] # None /\ (wanted \in Methods => vtbl[Top][wanted] = None)

AskSuper ==
  /\ asked # <<>>
  /\ Passes
  /\ asked' = Append(asked, super[Top])
  /\ UNCHANGED <<super, ctor, vtbl, defs, wanted, held, built>>

\* Every vtbl on the way keeps what was found.  Mutant: none does.
UncachedIn(tables, cs, m, value) == tables
KeptIn(tables, cs, m, value) ==
  [c \in Classes |-> IF c \in cs THEN [tables[c] EXCEPT ![m] = value] ELSE tables[c]]

\* The class that has the method, or has no superclass, answers.
Answer ==
  /\ asked # <<>>
  /\ wanted \in Methods
  /\ ~ Passes
  /\ LET value == vtbl[Top][wanted]
     IN  /\ vtbl' = KeptIn(vtbl, ToSet(asked), wanted, value)
         /\ held' = [held EXCEPT ![asked[1]][wanted] = value]
  /\ asked' = <<>>
  /\ wanted' = "new"
  /\ UNCHANGED <<super, ctor, defs, built>>

\* create: the constructors, those of the superclasses first.
Construct ==
  /\ asked # <<>>
  /\ wanted = "new"
  /\ ~ Passes
  /\ built' = SelectSeq(Reverse(asked), LAMBDA c : ctor[c])
  /\ asked' = <<>>
  /\ UNCHANGED <<super, ctor, vtbl, defs, wanted, held>>

ClassNext ==
  \/ \E c \in Classes : \E s \in Made \cup {None} : Class(c, s)
  \/ \E c \in Made, m \in Methods : Define(c, m)
  \/ \E c \in Made, m \in Methods \cup {"new"} : Call(c, m)
  \/ \E c \in Made : DefineCtor(c)
  \/ AskSuper
  \/ Answer
  \/ Construct

ClassSpec == ClassInit /\ [][ClassNext]_classVars

\* A method that objects of a class have found changes for them only when it is
\* defined anew for that class: neither a new definition in a superclass, nor
\* the use by other classes, replaces it, nor is it ever lost.
UsedMethodKept ==
  [][\A c \in Classes, m \in Methods :
       held[c][m] # None /\ held'[c][m] # held[c][m]
         => held'[c][m] \in {c} \X (0..(defs - 1))]_classVars
=============================================================================
