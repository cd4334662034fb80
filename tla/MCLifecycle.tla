---------------------------- MODULE MCLifecycle -----------------------------
(***************************************************************************)
(* Instances of LibytLifecycle for TLC: ranks with one grid and without.   *)
(***************************************************************************)
EXTENDS LibytLifecycle

CONSTANTS r0, r1, r2

OneOneNone == [r \in Ranks |-> IF r = r2 THEN 0 ELSE 1]
=============================================================================
