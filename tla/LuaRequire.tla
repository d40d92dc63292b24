----------------------------- MODULE LuaRequire -----------------------------
(***************************************************************************)
(* require and module (loadlib.c).  package.loaded has for each module     *)
(* what require gives, or a mark while its chunk runs.  Chunks require     *)
(* other modules, and each other, while they run; what a chunk does next,  *)
(* and whether its file is found and compiles, is open.                    *)
(*                                                                         *)
(* A chunk that runs is a C call of require to the runtime, so that no     *)
(* coroutine can leave it in between: the chunks under way form one stack. *)
(* A chunk calls module with its own name only, and no script writes to    *)
(* package.loaded.                                                         *)
(***************************************************************************)
EXTENDS Naturals, Sequences

CONSTANTS
  Modules,   \* names of modules
  Libraries, \* those that luaL_register entered
  Results,   \* what chunks return, other than nil and false
  MaxRuns    \* bound: runs of the chunk of one module

\* Values of package.loaded besides: nil, false, the mark of a module that is
\* being loaded, the table that module() or luaL_register made, and true.
Unset == "nil"
False == "false"
Sentinel == "sentinel"
Table == "table"
True == "true"

NotYet == "not yet"

ASSUME RequireAssumption == Results \cap {Unset, False, Sentinel, NotYet} = {}

VARIABLES
  loaded,   \* package.loaded
  loading,  \* the modules whose chunks run, the innermost last
  runs,     \* history: how often each chunk began
  falses,   \* history: how often it returned false
  given     \* history: what require gave last for a module that was loaded

requireVars == <<loaded, loading, runs, falses, given>>

Loading == {loading[i] : i \in DOMAIN loading}

RequireInit ==
  /\ loaded = [m \in Modules |-> IF m \in Libraries THEN Table ELSE Unset]
  /\ loading = <<>>
  /\ runs = [m \in Modules |-> 0]
  /\ falses = [m \in Modules |-> 0]
  /\ given = [m \in Modules |-> NotYet]

\* An error leaves the chunks above the one whose pcall catches it; behind all
\* of them is the script at the top, or the host.
Throw ==
  /\ \E n \in 0..Len(loading) : loading' = SubSeq(loading, 1, n)
  /\ UNCHANGED <<loaded, runs, falses, given>>

\* ll_require loads what is nil or false.  Mutant: without the check for loops.
LoadsMarked(v) == v \in {Unset, False, Sentinel}
Loads(v) == v \in {Unset, False}

\* The module is being loaded, or an error left its chunk.
Refuse(m) == loaded[m] = Sentinel /\ ~ Loads(loaded[m]) /\ Throw

\* While a module is being loaded, what it gives may still change.
Again(m) ==
  /\ loaded[m] # Sentinel /\ ~ Loads(loaded[m])
  /\ given' = IF m \in Loading THEN given ELSE [given EXCEPT ![m] = loaded[m]]
  /\ UNCHANGED <<loaded, loading, runs, falses>>

\* No loader finds the module, or its file does not compile.
Missing(m) == Loads(loaded[m]) /\ Throw

Enter(m) ==
  /\ Loads(loaded[m])
  /\ runs[m] < MaxRuns
  /\ loaded' = [loaded EXCEPT ![m] = Sentinel]
  /\ loading' = Append(loading, m)
  /\ runs' = [runs EXCEPT ![m] = @ + 1]
  /\ UNCHANGED <<falses, given>>

Require(m) == Refuse(m) \/ Again(m) \/ Missing(m) \/ Enter(m)

Running == loading[Len(loading)]

\* module(...) in a chunk: the table is found again or made, and becomes the
\* global; a global that is no table is a name conflict.
CallModule ==
  /\ loading # <<>>
  /\ loaded[Running] # Table
  /\ \/ /\ loaded' = [loaded EXCEPT ![Running] = Table]
        /\ UNCHANGED <<loading, runs, falses, given>>
     \/ Throw

Fail == loading # <<>> /\ Throw

\* What is left in loaded when the chunk returned v, and given.  Mutant: a
\* module that returns nothing keeps its mark.
KeptMark(v, entry) == IF v # Unset THEN v ELSE entry
Left(v, entry) ==
  IF v # Unset THEN v ELSE IF entry = Sentinel THEN True ELSE entry

Return(v) ==
  /\ loading # <<>>
  /\ LET left == Left(v, loaded[Running])
     IN  /\ loaded' = [loaded EXCEPT ![Running] = left]
         /\ given' = [given EXCEPT ![Running] = left]
  /\ falses' = IF v = False THEN [falses EXCEPT ![Running] = @ + 1] ELSE falses
  /\ loading' = SubSeq(loading, 1, Len(loading) - 1)
  /\ UNCHANGED runs

RequireNext ==
  \/ \E m \in Modules : Require(m)
  \/ CallModule
  \/ Fail
  \/ \E v \in Results \cup {Unset, False} : Return(v)

RequireSpec == RequireInit /\ [][RequireNext]_requireVars

-----------------------------------------------------------------------------
(* Properties.                                                             *)

\* A chunk runs once, and once more after each time that it returned false;
\* what require gave for a loaded module it gives again; and the mark is left
\* behind only by a chunk that began and did not return.
RequiredOnce ==
  \A m \in Modules :
    /\ runs[m] <= 1 + falses[m]
    /\ given[m] \notin {Unset, Sentinel}
    /\ given[m] \notin {NotYet, False} => loaded[m] = given[m]
    /\ loaded[m] = Sentinel =>
         runs[m] = 1 + falses[m] /\ given[m] \in {NotYet, False}

\* A module whose chunk failed is never run again, nor given.
FailedForGood ==
  [][\A m \in Modules :
       loaded[m] = Sentinel /\ m \notin Loading
         => /\ loaded'[m] = Sentinel
            /\ runs'[m] = runs[m] /\ given'[m] = given[m]]_requireVars
=============================================================================
