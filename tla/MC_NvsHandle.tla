---------------------------- MODULE MC_NvsHandle ----------------------------
(***************************************************************************)
(* Model-checking instance of NvsHandle: keys of 15 characters (the         *)
(* longest NVS accepts) and one of 16.                                      *)
(***************************************************************************)
EXTENDS NvsHandle

CONSTANTS k15, k16, k15b

MCKeyLen == [k \in Keys |-> IF k = k16 THEN 16 ELSE 15]
=============================================================================
