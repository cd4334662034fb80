--------------------------- MODULE HierarchyCheck ---------------------------
(***************************************************************************)
(* What yt_commit does with the grids of all ranks when check_data is on:  *)
(* every rank checks its own grids one by one, the lists are gathered, the *)
(* hierarchy is checked with a search table from grid ids to positions,    *)
(* and each grid is written to its place in the arrays bound to Python.    *)
(*                                                                         *)
(* The gathered list is the lists of the ranks one after the other, and a  *)
(* rank whose own check fails returns before the gather: so the model      *)
(* checks the grids in the order in which they will be gathered.  What a   *)
(* grid lacks (an edge, a dimension, the parent id, the rank) is one flag, *)
(* as any of them is an error.  An id or a length that is negative or too  *)
(* large is out of the arrays, which begin at 0.                           *)
(***************************************************************************)
EXTENDS Integers, Sequences, FiniteSets

CONSTANTS
  NumGrids,     \* num_grids, of all ranks
  IndexOffset,  \* index_offset, the least grid id
  Dims,         \* the dimensions
  GridData,     \* the grids a user may fill in
  MaxGiven,     \* bound on how many grids the ranks give together
  Unbound       \* content of an array element that was not written

ASSUME SizeAssumption ==
  NumGrids \in Nat /\ IndexOffset \in Int /\ MaxGiven \in Nat

ASSUME GridAssumption ==
  \A g \in GridData :
    /\ g.id \in Int /\ g.parent_id \in Int /\ g.level \in Int
    /\ g.left_edge \in [Dims -> Int] /\ g.right_edge \in [Dims -> Int]
    /\ g.filled \in BOOLEAN

ASSUME UnboundAssumption == Unbound \notin GridData

VARIABLES
  phase,      \* which loop runs, or how it ended
  hierarchy,  \* the grids read so far, then hierarchy_full
  i,          \* the loop's variable
  order,      \* the search table: position in hierarchy_full, or -1
  table       \* the arrays libyt.hierarchy is made of

vars == <<phase, hierarchy, i, order, table>>

Index == 0 .. NumGrids - 1

Phases == {"local", "unique", "parents", "bind", "accepted", "rejected"}

TypeOK ==
  /\ phase \in Phases
  /\ hierarchy \in Seq(GridData)
  /\ i \in 0 .. NumGrids
  /\ order \in [Index -> Index \cup {-1}]
  /\ table \in [Index -> GridData \cup {Unbound}]

-----------------------------------------------------------------------------

\* hierarchy_full[k], counted from 0 as in the code.
At(k) == hierarchy[k + 1]

\* Where a grid id belongs.
Place(id) == id - IndexOffset

InRange(id) == Place(id) \in Index

\* CheckGrid and the rest of CheckGridsLocal on one grid.  The plausible bug
\* takes a grid that is flat in a dimension for one that is not set.
FlatIsInvalid(g) ==
  /\ g.filled /\ InRange(g.id) /\ g.level >= 0
  /\ IF g.level > 0 THEN InRange(g.parent_id) ELSE Place(g.parent_id) < 0
  /\ \A d \in Dims : g.left_edge[d] < g.right_edge[d]

LocallyValid(g) ==
  /\ g.filled
  /\ InRange(g.id)
  /\ g.level >= 0
  /\ IF g.level > 0 THEN InRange(g.parent_id) ELSE Place(g.parent_id) < 0
  /\ \A d \in Dims : g.left_edge[d] <= g.right_edge[d]

\* The parent of a grid, looked up in the search table.
ParentOf(g) == At(order[Place(g.parent_id)])

\* A child's edges fall between its parent's.
Inside(g, p) ==
  \A d \in Dims : /\ p.left_edge[d] <= g.left_edge[d]
                  /\ g.right_edge[d] <= p.right_edge[d]

\* What CheckHierarchyIsValid asks of one grid.  The plausible bug takes any
\* coarser grid for a parent.
CoarserParent(g) ==
  g.level > 0 =>
    /\ InRange(g.parent_id)
    /\ Inside(g, ParentOf(g))
    /\ ParentOf(g).level < g.level

GoodParent(g) ==
  g.level > 0 =>
    /\ InRange(g.parent_id)
    /\ Inside(g, ParentOf(g))
    /\ ParentOf(g).level = g.level - 1

-----------------------------------------------------------------------------

Init ==
  /\ phase = "local"
  /\ hierarchy = <<>>
  /\ i = 0
  /\ order = [x \in Index |-> -1]
  /\ table = [x \in Index |-> Unbound]

\* A rank checks its next grid.
CheckGridsLocal ==
  /\ phase = "local"
  /\ Len(hierarchy) < MaxGiven
  /\ \E g \in GridData :
       /\ hierarchy' = Append(hierarchy, g)
       /\ phase' = IF LocallyValid(g) THEN "local" ELSE "rejected"
  /\ UNCHANGED <<i, order, table>>

\* All ranks have checked their grids: GatherAllHierarchy, which compares
\* the sum of their numbers with num_grids.
GatherAllHierarchy ==
  /\ phase = "local"
  /\ phase' = IF Len(hierarchy) = NumGrids THEN "unique" ELSE "rejected"
  /\ UNCHANGED <<hierarchy, i, order, table>>

\* An id that was there before is overwritten instead of reported.
FillOrderAlways ==
  /\ phase = "unique" /\ i < NumGrids
  /\ order' = [order EXCEPT ![Place(At(i).id)] = i]
  /\ i' = i + 1
  /\ UNCHANGED <<phase, hierarchy, table>>

\* The first loop of CheckHierarchyIsValid: an id not seen before.
FillOrder ==
  /\ phase = "unique" /\ i < NumGrids
  /\ order[Place(At(i).id)] = -1
  /\ order' = [order EXCEPT ![Place(At(i).id)] = i]
  /\ i' = i + 1
  /\ UNCHANGED <<phase, hierarchy, table>>

\* The same loop: an id seen before.
NotUnique ==
  /\ phase = "unique" /\ i < NumGrids
  /\ order[Place(At(i).id)] # -1
  /\ phase' = "rejected"
  /\ UNCHANGED <<hierarchy, i, order, table>>

\* The second loop: one grid.
CheckParent ==
  /\ phase = "parents" /\ i < NumGrids
  /\ IF GoodParent(At(i))
       THEN i' = i + 1 /\ UNCHANGED phase
       ELSE phase' = "rejected" /\ UNCHANGED i
  /\ UNCHANGED <<hierarchy, order, table>>

\* The loop of BindAllHierarchyToPython: one grid.
Bind ==
  /\ phase = "bind" /\ i < NumGrids
  /\ table' = [table EXCEPT ![Place(At(i).id)] = At(i)]
  /\ i' = i + 1
  /\ UNCHANGED <<phase, hierarchy, order>>

\* A loop is through, and the next begins.
EndLoop ==
  /\ phase \in {"unique", "parents", "bind"} /\ i = NumGrids
  /\ phase' = CASE phase = "unique"  -> "parents"
                [] phase = "parents" -> "bind"
                [] phase = "bind"    -> "accepted"
  /\ i' = 0
  /\ UNCHANGED <<hierarchy, order, table>>

Finished == phase \in {"accepted", "rejected"} /\ UNCHANGED vars

Next ==
  \/ CheckGridsLocal \/ GatherAllHierarchy \/ FillOrder \/ NotUnique
  \/ CheckParent \/ Bind \/ EndLoop \/ Finished

Spec == Init /\ [][Next]_vars

-----------------------------------------------------------------------------
(***************************************************************************)
(* Properties                                                              *)
(***************************************************************************)

\* CheckHierarchyIsValid indexes the hierarchy with order[...] of a parent
\* without looking whether it is still -1: while it does, every entry of the
\* search table is the position of the grid that belongs there.
LookupFound ==
  phase \in {"parents", "bind"} =>
    \A x \in Index : order[x] \in Index /\ Place(At(order[x]).id) = x

\* The grids of the list.
Grids == {hierarchy[k] : k \in DOMAIN hierarchy}

\* The grids that n steps from child to parent take to a root, each step to
\* a grid that encloses the one before.
AtDepth[n \in 0 .. NumGrids] ==
  IF n = 0
    THEN {g \in Grids : Place(g.parent_id) < 0}
    ELSE {g \in Grids : \E p \in AtDepth[n - 1] :
                          p.id = g.parent_id /\ Inside(g, p)}

\* What a hierarchy is: as many grids as announced, each with an id of its
\* own in the range of ids, filled in, and at the level that is its depth
\* below a root.
IsForest ==
  /\ Len(hierarchy) = NumGrids
  /\ {Place(g.id) : g \in Grids} = Index
  /\ \A g \in Grids :
       /\ g.filled
       /\ \A d \in Dims : g.left_edge[d] <= g.right_edge[d]
       /\ g.level \in 0 .. NumGrids
       /\ g \in AtDepth[g.level]

\* Every place of the arrays bound to Python holds the grid of that id.
EveryPlaceBound ==
  phase = "accepted" =>
    \A x \in Index : table[x] \in Grids /\ Place(table[x].id) = x

\* A hierarchy that yt_commit accepts is a forest whose levels are depths and
\* in which every grid encloses its descendants, and each of its grids is at
\* its own place in libyt.hierarchy.
AcceptedIsForest == (phase = "accepted" => IsForest) /\ EveryPlaceBound

\* No such hierarchy is rejected.
RejectedIsBroken == phase = "rejected" => ~IsForest

\* In an accepted hierarchy every refined grid has its parent one level up
\* and around it.  (The step of AcceptedIsForest from child to parent.)
ParentsNested ==
  phase = "accepted" =>
    \A g \in Grids : g.level > 0 =>
      \E p \in Grids : /\ p.id = g.parent_id
                       /\ p.level = g.level - 1
                       /\ Inside(g, p)

-----------------------------------------------------------------------------
(***************************************************************************)
(* The inductive invariant                                                 *)
(***************************************************************************)

\* Until something is wrong, the grids read so far have passed their check.
AllLocallyValid ==
  phase # "rejected" =>
    \A k \in DOMAIN hierarchy : LocallyValid(hierarchy[k])

\* Before the gather no loop has begun.
NotBegun == phase = "local" => i = 0 /\ \A x \in Index : order[x] = -1

Gathered == {"unique", "parents", "bind", "accepted"}

\* After the gather there are as many grids as announced.
AsAnnounced == phase \in Gathered => Len(hierarchy) = NumGrids

\* How many grids a loop has handled: i in the loop, all of them after it.
Handled(loop, after) ==
  IF phase = loop THEN i ELSE IF phase \in after THEN NumGrids ELSE 0

\* The search table has the handled grids and no other.
TableOfFirst ==
  LET n == Handled("unique", {"parents", "bind", "accepted"}) IN
    phase \in Gathered =>
      /\ \A k \in 0 .. n - 1 : order[Place(At(k).id)] = k
      /\ \A x \in Index :
           order[x] # -1 => order[x] < n /\ Place(At(order[x]).id) = x

\* The handled grids have a good parent.
ParentsChecked ==
  \A k \in 0 .. Handled("parents", {"bind", "accepted"}) - 1 :
    GoodParent(At(k))

\* The handled grids are at their places.
FirstBound ==
  \A k \in 0 .. Handled("bind", {"accepted"}) - 1 :
    table[Place(At(k).id)] = At(k)

IInv ==
  /\ TypeOK /\ AllLocallyValid /\ NotBegun /\ AsAnnounced
  /\ TableOfFirst /\ ParentsChecked /\ FirstBound
=============================================================================
