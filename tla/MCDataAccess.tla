---------------------------- MODULE MCDataAccess ----------------------------
(***************************************************************************)
(* Instance of DataAccess for TLC: grids 1 and 2 are local, grid 3 is      *)
(* remote, ids 0 and 4 do not exist.                                       *)
(***************************************************************************)
EXTENDS DataAccess

MCFields    == {"density", "inverse", "unset", "missing"}
MCParticles == {"position", "mass", "missing attribute"}
MCKnown     == {"density", "inverse", "unset", "position", "mass"}

\* Particle counts of the three grids.
Counts == {<<1, 0, 1>>, <<1, -1, 1>>}

\* What is bound: the field of some local grids, particles of grid 1.
Bindings == {{<<2, "density">>, <<1, "position">>},
             {<<1, "density">>, <<2, "density">>, <<1, "mass">>}}

MCCommits ==
  {[count |-> [p \in {"position", "mass"} |-> [i \in 0 .. 2 |-> c[i + 1]]],
    bound |-> b, flat |-> {2}] : c \in Counts, b \in Bindings}

MCPrepareLists == {<<>>, <<2, 1>>, <<1, 4>>}
MCFetchLists   == {<<3, 2>>, <<3, 3>>, <<0, 3>>}
=============================================================================
