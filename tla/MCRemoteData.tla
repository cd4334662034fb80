---------------------------- MODULE MCRemoteData ----------------------------
(***************************************************************************)
(* Instances of RemoteData for TLC.                                        *)
(***************************************************************************)
EXTENDS RemoteDataInvariants

CONSTANTS r1, r2, g1, g2

\* Two grids of one rank: the second may be missing after the first is read.
TwoGridsOfOneRank == {<<g1, r1>>, <<g2, r1>>}
=============================================================================
