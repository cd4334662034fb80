------------------------------- MODULE BigMpi -------------------------------
(***************************************************************************)
(* What the loops of big_mpi.h have in common: MPI takes counts and        *)
(* positions as int.                                                       *)
(***************************************************************************)
EXTENDS Integers

CONSTANT MaxInt   \* INT_MAX

ASSUME MaxIntAssumption == MaxInt \in Nat \ {0}
=============================================================================
