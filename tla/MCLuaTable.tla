----------------------------- MODULE MCLuaTable -----------------------------
(***************************************************************************)
(* An instance of LuaTable for TLC.                                        *)
(***************************************************************************)
EXTENDS LuaTable, TLC

CONSTANTS s1, o1, x

MCIntKeys == 1..3
MCStrings == {s1}
MCObjects == {o1}

\* hashnum of 1.0, 2.0 and 3.0 (the sum of their two halves); the string and
\* the object collide with them in small vectors.
MCHash == (1 :> 1072693248) @@ (2 :> 1073741824) @@ (3 :> 1074266112)
            @@ (s1 :> 3) @@ (o1 :> 4)
=============================================================================
