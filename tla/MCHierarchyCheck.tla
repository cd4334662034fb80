-------------------------- MODULE MCHierarchyCheck --------------------------
(***************************************************************************)
(* Instances of HierarchyCheck for TLC: one dimension, parents from one    *)
(* below the range of ids to one above, and a wide and a flat interval;    *)
(* and one grid for each other thing that can be wrong with a grid.        *)
(***************************************************************************)
EXTENDS HierarchyCheck

Grid(id, parent, level, left, right, filled) ==
  [id |-> id, parent_id |-> parent, level |-> level,
   left_edge |-> [d \in Dims |-> left],
   right_edge |-> [d \in Dims |-> right],
   filled |-> filled]

Below == IndexOffset - 1
Above == IndexOffset + NumGrids

GoodIds ==
  {Grid(id, p, l, s, 2 - s, TRUE) :
     id \in IndexOffset .. Above - 1, p \in Below .. Above,
     l \in 0 .. 2, s \in {0, 1}}

Spoilt ==
  {Grid(Below, Below, 0, 0, 2, TRUE), Grid(Above, Below, 0, 0, 2, TRUE),
   Grid(IndexOffset, Below, -1, 0, 2, TRUE),
   Grid(IndexOffset, Below, 0, 2, 0, TRUE),
   Grid(IndexOffset, Below, 0, 0, 2, FALSE)}

AllGridData == GoodIds \cup Spoilt
=============================================================================
