----------------------------- MODULE MCLuaCall ------------------------------
(***************************************************************************)
(* An instance of LuaCall for TLC.                                         *)
(***************************************************************************)
EXTENDS LuaCall, TLC

CONSTANTS co1, co2, main, NativeMax

\* Bound: the activations on the C stack.
NativeBound == Len(native) <= NativeMax

Interchangeable == Permutations(Coroutines)
=============================================================================
