----------------------- MODULE HierarchyCheckProofs -------------------------
(***************************************************************************)
(* For every number of grids, every index offset and every content of the  *)
(* grids: the search table of CheckHierarchyIsValid is never looked up     *)
(* where it is not filled, refined grids of an accepted hierarchy have     *)
(* their parent one level up and around them, and every place of the       *)
(* arrays bound to Python is written.                                      *)
(***************************************************************************)
EXTENDS HierarchyCheck, FiniteSetTheorems, WellFoundedInduction, TLAPS

-----------------------------------------------------------------------------

\* Position k of a list of n grids, counted from 0, is one of its grids.
LEMMA AtInList ==
  ASSUME TypeOK, NEW k \in 0 .. Len(hierarchy) - 1
  PROVE  k + 1 \in DOMAIN hierarchy /\ At(k) = hierarchy[k + 1] /\ At(k) \in GridData
  BY DEF TypeOK, At

\* A grid of the gathered list has its place inside the arrays.
LEMMA PlaceInside ==
  ASSUME TypeOK, AllLocallyValid, AsAnnounced, phase \in Gathered,
         NEW k \in Index
  PROVE  Place(At(k).id) \in Index /\ At(k) \in GridData /\ At(k) \in Grids
  <1>1. k \in 0 .. Len(hierarchy) - 1 /\ phase # "rejected"
    BY DEF AsAnnounced, Gathered, Index
  <1>2. k + 1 \in DOMAIN hierarchy /\ At(k) = hierarchy[k + 1] /\ At(k) \in GridData
    BY <1>1, AtInList
  <1>3. LocallyValid(At(k))
    BY <1>1, <1>2 DEF AllLocallyValid
  <1> QED
    BY <1>2, <1>3 DEF LocallyValid, InRange, Grids

\* Every grid of the gathered list is at some position.
LEMMA GridAt ==
  ASSUME TypeOK, AsAnnounced, phase \in Gathered, NEW g \in Grids
  PROVE  \E k \in Index : g = At(k)
  <1>1. PICK j \in DOMAIN hierarchy : g = hierarchy[j]
    BY DEF Grids
  <1>2. j \in 1 .. NumGrids /\ j - 1 \in Index
    BY <1>1, SizeAssumption DEF AsAnnounced, TypeOK, Index
  <1>3. At(j - 1) = g
    BY <1>1, <1>2 DEF At
  <1> QED
    BY <1>2, <1>3

\* Once the search table has an entry for every grid, it has one for every
\* id: as many grids as ids, all with different ids.
LEMMA NoIdMissing ==
  ASSUME IInv, phase \in {"parents", "bind", "accepted"}
  PROVE  \A x \in Index : order[x] \in Index /\ Place(At(order[x]).id) = x
  <1> DEFINE f == [k \in Index |-> Place(At(k).id)]
  <1>1. /\ TypeOK /\ AllLocallyValid /\ AsAnnounced /\ phase \in Gathered
        /\ TableOfFirst
    BY DEF IInv, Gathered
  <1>2. \A k \in Index : f[k] \in Index /\ order[f[k]] = k
    BY <1>1, PlaceInside DEF TableOfFirst, Handled, Index
  <1>3. f \in Injection(Index, Index)
    <2>1. f \in [Index -> Index]
      BY <1>2
    <2>2. ASSUME NEW j \in Index, NEW k \in Index, f[j] = f[k]
          PROVE  j = k
      BY <1>2, <2>2
    <2> HIDE DEF f
    <2> QED
      BY <2>1, <2>2 DEF Injection, IsInjective
  <1>4. IsFiniteSet(Index)
    BY FS_Interval, SizeAssumption DEF Index
  <1>5. f \in Surjection(Index, Index)
    <2> HIDE DEF f
    <2> QED
      BY <1>3, <1>4, FS_Injection
  <1>6. ASSUME NEW x \in Index
        PROVE  order[x] \in Index /\ Place(At(order[x]).id) = x
    <2>1. PICK k \in Index : f[k] = x
      <3> HIDE DEF f
      <3> QED
        BY <1>5 DEF Surjection
    <2> QED
      BY <1>2, <2>1
  <1> QED
    BY <1>6

-----------------------------------------------------------------------------

LEMMA InitIInv == Init => IInv
  BY SizeAssumption
     DEF Init, IInv, TypeOK, Phases, AllLocallyValid, AsAnnounced, Gathered,
         TableOfFirst, ParentsChecked, FirstBound, Handled, Index, NotBegun

\* A rank's check of a grid adds to the list what LocallyValid accepts.
LEMMA CheckGridsLocalKeeps ==
  ASSUME IInv, CheckGridsLocal
  PROVE  IInv'
  <1>1. PICK g \in GridData :
          /\ hierarchy' = Append(hierarchy, g)
          /\ phase' = IF LocallyValid(g) THEN "local" ELSE "rejected"
    BY DEF CheckGridsLocal
  <1>2. TypeOK'
    BY <1>1 DEF IInv, TypeOK, CheckGridsLocal, Phases, Index
  <1>3. AllLocallyValid'
    <2> SUFFICES ASSUME phase' # "rejected", NEW k \in DOMAIN hierarchy'
                 PROVE  LocallyValid(hierarchy'[k])
      BY DEF AllLocallyValid, LocallyValid, InRange, Place, Index
    <2>1. CASE k \in DOMAIN hierarchy
      BY <1>1, <2>1 DEF IInv, AllLocallyValid, TypeOK, CheckGridsLocal
    <2>2. CASE k = Len(hierarchy) + 1
      BY <1>1, <2>2 DEF IInv, TypeOK
    <2> QED
      BY <1>1, <2>1, <2>2 DEF IInv, TypeOK
  <1>4. phase' \in {"local", "rejected"}
    BY <1>1
  <1> QED
    BY <1>2, <1>3, <1>4, SizeAssumption
       DEF IInv, AsAnnounced, Gathered, TableOfFirst, ParentsChecked,
           FirstBound, Handled, NotBegun, CheckGridsLocal

\* The gather fills no table yet.
LEMMA GatherAllHierarchyKeeps ==
  ASSUME IInv, GatherAllHierarchy
  PROVE  IInv'
  <1>1. TypeOK' /\ AsAnnounced'
    BY DEF IInv, TypeOK, AsAnnounced, GatherAllHierarchy, Phases, Gathered,
           Index
  <1>2. AllLocallyValid'
    BY DEF IInv, AllLocallyValid, GatherAllHierarchy, LocallyValid, InRange,
           Place, Index
  <1>3. i = 0 /\ \A x \in Index : order[x] = -1
    BY DEF IInv, NotBegun, GatherAllHierarchy
  <1> QED
    BY <1>1, <1>2, <1>3
       DEF IInv, GatherAllHierarchy, TableOfFirst, ParentsChecked, FirstBound,
           Handled, Gathered, Index, NotBegun

\* An id not seen before is entered; the others keep their entries.
LEMMA FillOrderKeeps ==
  ASSUME IInv, FillOrder
  PROVE  IInv'
  <1> DEFINE x == Place(At(i).id)
  <1>1. i \in Index /\ x \in Index /\ phase \in Gathered /\ Len(hierarchy) = NumGrids
    BY PlaceInside, SizeAssumption
       DEF IInv, TypeOK, FillOrder, Gathered, Index, AsAnnounced
  <1>2. \A k \in Index : At(k)' = At(k)
    BY DEF FillOrder, At
  <1>3. order' = [order EXCEPT ![x] = i] /\ order[x] = -1 /\ i' = i + 1
    BY DEF FillOrder
  <1> HIDE DEF x
  <1>4. TypeOK'
    BY <1>1, <1>3, SizeAssumption DEF IInv, TypeOK, FillOrder, Index
  <1>5. AllLocallyValid' /\ NotBegun' /\ AsAnnounced'
    BY DEF IInv, AllLocallyValid, NotBegun, AsAnnounced, FillOrder, Gathered,
           LocallyValid, InRange, Place, Index
  <1>6. TableOfFirst'
    <2>1. ASSUME NEW k \in 0 .. i
          PROVE  order'[Place(At(k).id)] = k
      <3>1. k \in Index /\ Place(At(k).id) \in Index
        BY <1>1, <2>1, PlaceInside DEF IInv, Index, TypeOK
      <3>2. CASE k = i
        BY <1>1, <1>3, <3>2 DEF IInv, TypeOK, x
      <3>3. CASE k # i
        <4>1. order[Place(At(k).id)] = k
          BY <3>1, <3>3, <2>1 DEF IInv, TableOfFirst, FillOrder, Handled, Gathered, TypeOK, Index
        <4>2. Place(At(k).id) # x
          BY <4>1, <1>3, <3>1 DEF Index
        <4> QED
          BY <4>1, <4>2, <1>3, <3>1 DEF IInv, TypeOK
      <3> QED
        BY <3>2, <3>3
    <2>2. ASSUME NEW y \in Index, order'[y] # -1
          PROVE  order'[y] < i + 1 /\ Place(At(order'[y]).id) = y
      <3>1. CASE y = x
        BY <1>1, <1>3, <3>1 DEF IInv, TypeOK, x, Index
      <3>2. CASE y # x
        <4>1. order'[y] = order[y] /\ order[y] # -1
          BY <1>3, <2>2, <3>2 DEF IInv, TypeOK
        <4>2. order[y] < i /\ Place(At(order[y]).id) = y
          BY <4>1, <2>2 DEF IInv, TableOfFirst, FillOrder, Handled, Gathered
        <4> QED
          BY <4>1, <4>2, <1>1, <2>2 DEF IInv, TypeOK, Index
      <3> QED
        BY <3>1, <3>2
    <2>3. phase' = "unique" /\ i' = i + 1 /\ hierarchy' = hierarchy
      BY DEF FillOrder
    <2>4. \A k : At(k)' = At(k)
      BY <2>3 DEF At
    <2>5. 0 .. (i + 1) - 1 = 0 .. i
      BY <1>1 DEF Index
    <2> QED
      BY <2>1, <2>2, <2>3, <2>4, <2>5 DEF TableOfFirst, Handled, Place, Index
  <1>7. ParentsChecked' /\ FirstBound'
    BY DEF FillOrder, ParentsChecked, FirstBound, Handled
  <1> QED
    BY <1>4, <1>5, <1>6, <1>7 DEF IInv

LEMMA NotUniqueKeeps ==
  ASSUME IInv, NotUnique
  PROVE  IInv'
  BY DEF IInv, NotUnique, TypeOK, Phases, AllLocallyValid, NotBegun,
         AsAnnounced, Gathered, TableOfFirst, ParentsChecked, FirstBound,
         Handled, Index

\* What the second loop accepts is added to what it accepted before.
LEMMA CheckParentKeeps ==
  ASSUME IInv, CheckParent
  PROVE  IInv'
  <1>1. TypeOK'
    BY SizeAssumption DEF IInv, TypeOK, CheckParent, Phases
  <1>2. /\ AllLocallyValid' /\ NotBegun' /\ AsAnnounced' /\ TableOfFirst'
        /\ FirstBound'
    BY DEF IInv, CheckParent, AllLocallyValid, NotBegun, AsAnnounced, Gathered,
           TableOfFirst, FirstBound, Handled, LocallyValid, InRange, Place,
           Index, At
  <1>3. ParentsChecked'
    <2>1. CASE ~GoodParent(At(i))
      BY <2>1 DEF CheckParent, ParentsChecked, Handled
    <2>2. CASE GoodParent(At(i))
      <3>1. phase = "parents" /\ phase' = "parents" /\ i' = i + 1 /\ i \in Nat
        BY <2>2 DEF CheckParent, IInv, TypeOK
      <3>2. \A k \in 0 .. i - 1 : GoodParent(At(k))
        BY <3>1 DEF IInv, ParentsChecked, Handled
      <3>3. \A k \in 0 .. (i + 1) - 1 : GoodParent(At(k))
        BY <3>1, <3>2, <2>2
      <3>4. \A k : GoodParent(At(k))' <=> GoodParent(At(k))
        BY DEF CheckParent, GoodParent, At, InRange, Place, Index, Inside,
               ParentOf
      <3> QED
        BY <3>1, <3>3, <3>4 DEF ParentsChecked, Handled
    <2> QED
      BY <2>1, <2>2
  <1> QED
    BY <1>1, <1>2, <1>3 DEF IInv

\* A grid is written to its place, where no other grid of the list belongs.
LEMMA BindKeeps ==
  ASSUME IInv, Bind
  PROVE  IInv'
  <1> DEFINE x == Place(At(i).id)
  <1>1. /\ i \in Index /\ x \in Index /\ phase \in Gathered
        /\ At(i) \in GridData
    BY PlaceInside, SizeAssumption
       DEF IInv, TypeOK, Bind, Gathered, Index, AsAnnounced
  <1>2. table' = [table EXCEPT ![x] = At(i)] /\ i' = i + 1 /\ phase = "bind"
    BY DEF Bind
  <1> HIDE DEF x
  <1>3. TypeOK'
    <2>1. table' \in [Index -> GridData \cup {Unbound}]
      BY <1>1, <1>2 DEF IInv, TypeOK
    <2>2. i' \in 0 .. NumGrids
      BY <1>1, <1>2, SizeAssumption DEF Index
    <2> QED
      BY <2>1, <2>2 DEF IInv, TypeOK, Bind, Index
  <1>4. /\ AllLocallyValid' /\ NotBegun' /\ AsAnnounced' /\ TableOfFirst'
        /\ ParentsChecked'
    BY DEF IInv, Bind, AllLocallyValid, NotBegun, AsAnnounced, Gathered,
           TableOfFirst, ParentsChecked, Handled, LocallyValid, InRange, Place,
           Index, At, GoodParent, Inside, ParentOf
  <1>5. FirstBound'
    <2>1. ASSUME NEW k \in 0 .. i
          PROVE  table'[Place(At(k).id)] = At(k)
      <3>1. k \in Index /\ Place(At(k).id) \in Index
        <4>1. k \in Index
          BY <1>1, <2>1, SizeAssumption DEF Index
        <4> QED
          BY <4>1, <1>1, PlaceInside DEF IInv
      <3>2. CASE k = i
        BY <1>1, <1>2, <3>2 DEF IInv, TypeOK, x
      <3>3. CASE k # i
        <4>1. order[Place(At(k).id)] = k /\ order[x] = i
          BY <1>1, <1>2, <3>1 DEF IInv, TableOfFirst, Handled, Index, x
        <4>2. table[Place(At(k).id)] = At(k)
          BY <1>1, <1>2, <2>1, <3>3 DEF IInv, FirstBound, Handled, Index
        <4> QED
          BY <1>2, <3>1, <3>3, <4>1, <4>2 DEF IInv, TypeOK
      <3> QED
        BY <3>2, <3>3
    <2>2. phase' = "bind" /\ \A k : At(k)' = At(k)
      BY DEF Bind, At
    <2>3. 0 .. (i + 1) - 1 = 0 .. i
      BY <1>1 DEF Index
    <2> QED
      BY <1>2, <2>1, <2>2, <2>3 DEF FirstBound, Handled, Place
  <1> QED
    BY <1>3, <1>4, <1>5 DEF IInv

\* At the end of a loop all grids are handled.
LEMMA EndLoopKeeps ==
  ASSUME IInv, EndLoop
  PROVE  IInv'
  <1>1. \/ phase = "unique" /\ phase' = "parents"
        \/ phase = "parents" /\ phase' = "bind"
        \/ phase = "bind" /\ phase' = "accepted"
    BY DEF EndLoop
  <1>2. i = NumGrids /\ i' = 0 /\ UNCHANGED <<hierarchy, order, table>>
    BY DEF EndLoop
  <1>3. TypeOK' /\ NotBegun' /\ AsAnnounced' /\ AllLocallyValid'
    BY <1>1, <1>2, SizeAssumption
       DEF IInv, TypeOK, Phases, NotBegun, AsAnnounced, Gathered,
           AllLocallyValid, LocallyValid, InRange, Place, Index
  <1>4. TableOfFirst'
    BY <1>1, <1>2 DEF IInv, TableOfFirst, Handled, Gathered, At, Place, Index
  <1>5. ParentsChecked'
    BY <1>1, <1>2
       DEF IInv, ParentsChecked, Handled, At, GoodParent, InRange, Place,
           Index, Inside, ParentOf
  <1>6. FirstBound'
    BY <1>1, <1>2 DEF IInv, FirstBound, Handled, At, Place
  <1> QED
    BY <1>3, <1>4, <1>5, <1>6 DEF IInv

LEMMA StutterKeeps ==
  ASSUME IInv, UNCHANGED vars
  PROVE  IInv'
  BY DEF vars, IInv, TypeOK, AllLocallyValid, NotBegun, AsAnnounced, Gathered,
         TableOfFirst, ParentsChecked, FirstBound, Handled, At, LocallyValid,
         InRange, Place, Index, GoodParent, Inside, ParentOf

\* The invariant the rest rests on: what each loop has established of the
\* grids it has handled.
THEOREM Inductive == Spec => []IInv
  <1>1. IInv /\ [Next]_vars => IInv'
    BY CheckGridsLocalKeeps, GatherAllHierarchyKeeps, FillOrderKeeps,
       NotUniqueKeeps, CheckParentKeeps, BindKeeps, EndLoopKeeps, StutterKeeps
       DEF Next, Finished
  <1> QED
    BY InitIInv, <1>1, PTL DEF Spec

-----------------------------------------------------------------------------

\* TypeOK: the loops of the hierarchy check stay inside their arrays, for
\* every number of grids and whatever the user filled in.
THEOREM HierarchyTypeCorrect == Spec => []TypeOK
  <1>1. IInv => TypeOK
    BY DEF IInv
  <1> QED
    BY Inductive, <1>1, PTL

\* LookupFound: order[parent_id - index_offset_] is never -1 when
\* CheckHierarchyIsValid indexes the hierarchy with it.
THEOREM LookupSafe == Spec => []LookupFound
  <1>1. IInv => LookupFound
    BY NoIdMissing DEF LookupFound
  <1> QED
    BY Inductive, <1>1, PTL

\* The third loop writes every place.
LEMMA PlacesBound ==
  ASSUME IInv
  PROVE  EveryPlaceBound
  <1> SUFFICES ASSUME phase = "accepted", NEW x \in Index
               PROVE  table[x] \in Grids /\ Place(table[x].id) = x
    BY DEF EveryPlaceBound
  <1>1. order[x] \in Index /\ Place(At(order[x]).id) = x
    BY NoIdMissing
  <1>2. table[x] = At(order[x])
    BY <1>1 DEF IInv, FirstBound, Handled, Index
  <1>3. At(order[x]) \in Grids
    BY <1>1, PlaceInside DEF IInv, Gathered
  <1> QED
    BY <1>1, <1>2, <1>3

\* In a hierarchy that passed, a refined grid has its parent.
LEMMA HasParent ==
  ASSUME IInv, phase = "accepted", NEW g \in Grids, g.level > 0
  PROVE  \E p \in Grids : p.id = g.parent_id /\ p.level = g.level - 1 /\ Inside(g, p)
  <1>1. PICK k \in Index : g = At(k)
    BY GridAt DEF IInv, Gathered
  <1>2. GoodParent(g)
    BY <1>1 DEF IInv, ParentsChecked, Handled, Index
  <1>3. Place(g.parent_id) \in Index
    BY <1>2 DEF GoodParent, InRange
  <1>4. /\ order[Place(g.parent_id)] \in Index
        /\ Place(ParentOf(g).id) = Place(g.parent_id)
    BY <1>3, NoIdMissing DEF ParentOf
  <1>5. ParentOf(g) \in Grids /\ ParentOf(g) \in GridData /\ g \in GridData
    BY <1>1, <1>4, PlaceInside DEF ParentOf, IInv, Gathered
  <1>6. ParentOf(g).id = g.parent_id
    BY <1>4, <1>5, GridAssumption, SizeAssumption DEF Place
  <1> QED
    BY <1>2, <1>5, <1>6 DEF GoodParent

\* EveryPlaceBound: no element of the arrays of libyt.hierarchy is left
\* unwritten or holds a grid with another id when yt_commit goes on.
THEOREM ArraysComplete == Spec => []EveryPlaceBound
  <1>1. IInv => EveryPlaceBound
    BY PlacesBound
  <1> QED
    BY Inductive, <1>1, PTL

\* ParentsNested: in a hierarchy that passes the check every refined grid has
\* its parent exactly one level up and inside the parent's edges.
THEOREM ParentsEnclose == Spec => []ParentsNested
  <1>1. IInv => ParentsNested
    BY HasParent DEF ParentsNested
  <1> QED
    BY Inductive, <1>1, PTL

-----------------------------------------------------------------------------
(***************************************************************************)
(* Induction over the natural numbers, for sets of them                    *)
(***************************************************************************)

LEMMA LeastNat ==
  ASSUME NEW T \in SUBSET Nat, T # {}
  PROVE  \E x \in T : \A y \in T : x <= y
  <1>1. IsWellFoundedOn(OpToRel(<, Nat), Nat)
    BY NatLessThanWellFounded
  <1>2. PICK x \in T : \A y \in T : ~ (<<y, x>> \in OpToRel(<, Nat))
    BY <1>1, WFMin
  <1>3. \A y \in T : ~ (y < x)
    BY <1>2 DEF OpToRel
  <1> QED
    BY <1>3

LEMMA Induct ==
  ASSUME NEW S, 0 \in S, \A n \in Nat : n \in S => n + 1 \in S
  PROVE  \A n \in Nat : n \in S
  <1> SUFFICES ASSUME Nat \ S # {} PROVE FALSE
    OBVIOUS
  <1>1. PICK x \in Nat \ S : \A y \in Nat \ S : x <= y
    BY LeastNat
  <1>2. x - 1 \in Nat /\ x - 1 \in S
    BY <1>1
  <1> QED
    BY <1>1, <1>2

-----------------------------------------------------------------------------
(***************************************************************************)
(* AtDepth is what its recursive definition says                           *)
(***************************************************************************)

Roots        == {g \in Grids : Place(g.parent_id) < 0}
ChildrenOf(S) == {g \in Grids : \E p \in S : p.id = g.parent_id /\ Inside(g, p)}

\* f is what AtDepth should be, up to n.
IsAtDepth(f, n) ==
  f = [m \in 0 .. n |-> IF m = 0 THEN Roots ELSE ChildrenOf(f[m - 1])]

LEMMA SomeAtDepth ==
  \A n \in Nat : \E f : IsAtDepth(f, n)
  <1> DEFINE S == {n \in Nat : \E f : IsAtDepth(f, n)}
  <1>1. 0 \in S
    <2>1. PICK f : f = [m \in 0 .. 0 |-> Roots]
      OBVIOUS
    <2>2. f = [m \in 0 .. 0 |-> IF m = 0 THEN Roots ELSE ChildrenOf(f[m - 1])]
      BY <2>1
    <2> QED
      BY <2>2 DEF IsAtDepth
  <1>2. ASSUME NEW n \in Nat, n \in S PROVE n + 1 \in S
    <2>1. PICK f : f = [m \in 0 .. n |-> IF m = 0 THEN Roots ELSE ChildrenOf(f[m - 1])]
      BY <1>2 DEF IsAtDepth
    <2>2. PICK h : h = [m \in 0 .. n + 1 |-> IF m = n + 1 THEN ChildrenOf(f[n]) ELSE f[m]]
      OBVIOUS
    <2>3. \A m \in 0 .. n : h[m] = f[m]
      BY <2>2
    <2>4. h[n + 1] = ChildrenOf(f[n])
      BY <2>2
    <2>5. \A m \in 0 .. n + 1 : h[m] = IF m = 0 THEN Roots ELSE ChildrenOf(h[m - 1])
      <3> SUFFICES ASSUME NEW m \in 0 .. n + 1
                   PROVE  h[m] = IF m = 0 THEN Roots ELSE ChildrenOf(h[m - 1])
        OBVIOUS
      <3>1. CASE m = n + 1
        <4>1. h[m - 1] = f[n] /\ m # 0
          BY <2>3, <3>1
        <4> QED
          BY <2>4, <3>1, <4>1
      <3>2. CASE m = 0
        BY <2>1, <2>3, <3>2
      <3>3. CASE m # 0 /\ m # n + 1
        <4>1. m \in 0 .. n /\ m - 1 \in 0 .. n
          BY <3>3
        <4>2. f[m] = ChildrenOf(f[m - 1])
          BY <2>1, <3>3, <4>1
        <4> QED
          BY <2>3, <3>3, <4>1, <4>2
      <3> QED
        BY <3>1, <3>2, <3>3
    <2>6. h = [m \in 0 .. n + 1 |-> IF m = 0 THEN Roots ELSE ChildrenOf(h[m - 1])]
      BY <2>2, <2>5
    <2> QED
      BY <2>6 DEF IsAtDepth
  <1> HIDE DEF S
  <1>3. \A n \in Nat : n \in S
    BY <1>1, <1>2, Induct
  <1> QED
    BY <1>3 DEF S

LEMMA AtDepthIs ==
  ASSUME NEW n \in 0 .. NumGrids
  PROVE  AtDepth[n] = IF n = 0 THEN Roots ELSE ChildrenOf(AtDepth[n - 1])
  <1>1. PICK f : f = [m \in 0 .. NumGrids |-> IF m = 0 THEN Roots ELSE ChildrenOf(f[m - 1])]
    BY SomeAtDepth, SizeAssumption DEF IsAtDepth
  <1>2. AtDepth = [m \in 0 .. NumGrids |-> IF m = 0 THEN Roots ELSE ChildrenOf(AtDepth[m - 1])]
    BY <1>1 DEF AtDepth, Roots, ChildrenOf
  <1> QED
    BY <1>2

-----------------------------------------------------------------------------
(***************************************************************************)
(* What is accepted is a forest                                            *)
(***************************************************************************)

\* All its grids passed their own check.
LEMMA GridsValid ==
  ASSUME IInv, phase = "accepted", NEW g \in Grids
  PROVE  g \in GridData /\ LocallyValid(g) /\ g.level \in Nat
  <1>1. PICK k \in DOMAIN hierarchy : g = hierarchy[k]
    BY DEF Grids
  <1>2. LocallyValid(g)
    BY <1>1 DEF IInv, AllLocallyValid
  <1>3. g \in GridData
    BY <1>1 DEF IInv, TypeOK
  <1> QED
    BY <1>2, <1>3, GridAssumption DEF LocallyValid

\* No grid is deeper than there are grids: it has one ancestor on every level.
LEMMA LevelsBounded ==
  ASSUME IInv, phase = "accepted", NEW g \in Grids
  PROVE  g.level \in 0 .. NumGrids /\ g.level < NumGrids
  <1> DEFINE L == {hierarchy[k].level : k \in 1 .. NumGrids}
             f == [k \in 1 .. NumGrids |-> hierarchy[k].level]
             S == {n \in Nat : n <= g.level => \E h \in Grids : h.level = g.level - n}
  <1>1. DOMAIN hierarchy = 1 .. NumGrids
    BY SizeAssumption DEF IInv, TypeOK, AsAnnounced, Gathered
  <1>2. \A h \in Grids : h.level \in L
    BY <1>1 DEF Grids
  <1>3. g.level \in Nat
    BY GridsValid
  <1>4. 0 \in S
    BY <1>3
  <1>5. ASSUME NEW n \in Nat, n \in S PROVE n + 1 \in S
    <2> SUFFICES ASSUME n + 1 <= g.level
                 PROVE  \E h \in Grids : h.level = g.level - (n + 1)
      OBVIOUS
    <2>1. PICK h \in Grids : h.level = g.level - n
      BY <1>3, <1>5
    <2>2. h.level > 0
      BY <1>3, <2>1
    <2>3. PICK p \in Grids : p.level = h.level - 1
      BY <2>2, HasParent
    <2>4. p.level = g.level - (n + 1)
      BY <1>3, <2>1, <2>3
    <2> QED
      BY <2>4
  <1>6. \A n \in Nat : n \in S
    <2> HIDE DEF S
    <2> QED
      BY <1>4, <1>5, Induct
  <1>7. 0 .. g.level \subseteq L
    <2> SUFFICES ASSUME NEW m \in 0 .. g.level PROVE m \in L
      OBVIOUS
    <2>1. g.level - m \in Nat /\ g.level - m <= g.level
      BY <1>3
    <2>2. PICK h \in Grids : h.level = g.level - (g.level - m)
      BY <1>6, <2>1
    <2> QED
      BY <1>2, <1>3, <2>2
  <1>8. IsFiniteSet(L) /\ Cardinality(L) <= NumGrids
    <2>1. f \in Surjection(1 .. NumGrids, L)
      BY DEF Surjection
    <2>2. IsFiniteSet(1 .. NumGrids) /\ Cardinality(1 .. NumGrids) = NumGrids
      BY FS_Interval, SizeAssumption
    <2> HIDE DEF f, L
    <2> QED
      BY <2>1, <2>2, FS_Surjection
  <1> HIDE DEF L
  <1>9. Cardinality(0 .. g.level) = g.level + 1
    BY <1>3, FS_Interval
  <1>10. g.level + 1 <= NumGrids
    <2>1. Cardinality(0 .. g.level) <= Cardinality(L)
      BY <1>7, <1>8, FS_Subset
    <2>2. Cardinality(L) \in Nat
      BY <1>8, FS_CardinalityType
    <2> QED
      BY <1>3, <1>8, <1>9, <2>1, <2>2, SizeAssumption
  <1> QED
    BY <1>3, <1>10, SizeAssumption

\* Levels are depths.
LEMMA LevelIsDepth ==
  ASSUME IInv, phase = "accepted", NEW g \in Grids
  PROVE  g \in AtDepth[g.level]
  <1> DEFINE S == {n \in Nat : n <= NumGrids =>
                     \A h \in Grids : h.level = n => h \in AtDepth[n]}
  <1>1. 0 \in S
    <2> SUFFICES ASSUME NEW h \in Grids, h.level = 0 PROVE h \in AtDepth[0]
      OBVIOUS
    <2>1. AtDepth[0] = Roots
      BY AtDepthIs, SizeAssumption
    <2>2. Place(h.parent_id) < 0
      BY GridsValid DEF LocallyValid
    <2> QED
      BY <2>1, <2>2 DEF Roots
  <1>2. ASSUME NEW n \in Nat, n \in S PROVE n + 1 \in S
    <2> SUFFICES ASSUME n + 1 <= NumGrids, NEW h \in Grids, h.level = n + 1
                 PROVE  h \in AtDepth[n + 1]
      OBVIOUS
    <2>1. h.level > 0 /\ n <= NumGrids /\ n + 1 \in 0 .. NumGrids /\ n + 1 # 0
      BY SizeAssumption
    <2>2. PICK p \in Grids : p.id = h.parent_id /\ p.level = h.level - 1 /\ Inside(h, p)
      BY <2>1, HasParent
    <2>3. p.level = n
      BY <2>2
    <2>4. p \in AtDepth[n]
      BY <1>2, <2>1, <2>3
    <2>5. AtDepth[n + 1] = ChildrenOf(AtDepth[n])
      BY <2>1, AtDepthIs
    <2> QED
      BY <2>2, <2>4, <2>5 DEF ChildrenOf
  <1>3. \A n \in Nat : n \in S
    <2> HIDE DEF S
    <2> QED
      BY <1>1, <1>2, Induct
  <1>4. g.level \in Nat /\ g.level <= NumGrids
    BY LevelsBounded, SizeAssumption
  <1> QED
    BY <1>3, <1>4

LEMMA AcceptedForest ==
  ASSUME IInv, phase = "accepted"
  PROVE  IsForest
  <1>1. Len(hierarchy) = NumGrids
    BY DEF IInv, AsAnnounced, Gathered
  <1>2. {Place(g.id) : g \in Grids} = Index
    <2>1. ASSUME NEW g \in Grids PROVE Place(g.id) \in Index
      BY GridsValid DEF LocallyValid, InRange
    <2>2. ASSUME NEW x \in Index PROVE \E g \in Grids : Place(g.id) = x
      <3>1. order[x] \in Index /\ Place(At(order[x]).id) = x
        BY NoIdMissing
      <3>2. At(order[x]) \in Grids
        BY <3>1, PlaceInside DEF IInv, Gathered
      <3> QED
        BY <3>1, <3>2
    <2> QED
      BY <2>1, <2>2
  <1>3. \A g \in Grids : g.filled /\ \A d \in Dims : g.left_edge[d] <= g.right_edge[d]
    BY GridsValid DEF LocallyValid
  <1> QED
    BY <1>1, <1>2, <1>3, LevelsBounded, LevelIsDepth DEF IsForest

\* AcceptedIsForest: what yt_commit accepts is a forest, its levels are its
\* depths, and each grid is at its own place in libyt.hierarchy.
THEOREM AcceptedIsAForest == Spec => []AcceptedIsForest
  <1>1. IInv => AcceptedIsForest
    BY AcceptedForest, PlacesBound DEF AcceptedIsForest
  <1> QED
    BY Inductive, <1>1, PTL

-----------------------------------------------------------------------------
(***************************************************************************)
(* What is a forest is not rejected                                        *)
(***************************************************************************)

\* No grid of the list is the parent of g, one level up and around it.
HasNoParent(g) ==
  /\ g.level > 0
  /\ \A p \in Grids : p.id = g.parent_id /\ Inside(g, p) => p.level # g.level - 1

\* Why a hierarchy was rejected.
RejectedFor ==
  phase = "rejected" =>
    \/ \E k \in DOMAIN hierarchy : ~LocallyValid(hierarchy[k])
    \/ Len(hierarchy) # NumGrids
    \/ \E j, k \in DOMAIN hierarchy : j # k /\ hierarchy[j].id = hierarchy[k].id
    \/ \E g \in Grids : HasNoParent(g)

LEMMA LocalRejects ==
  ASSUME IInv, CheckGridsLocal
  PROVE  RejectedFor'
  <1> SUFFICES ASSUME phase' = "rejected"
               PROVE  \E k \in DOMAIN hierarchy' : ~LocallyValid(hierarchy'[k])
    BY DEF RejectedFor, LocallyValid, InRange, Place, Index
  <1>1. PICK g \in GridData :
          hierarchy' = Append(hierarchy, g) /\ ~LocallyValid(g)
    BY DEF CheckGridsLocal
  <1>2. /\ Len(hierarchy) + 1 \in DOMAIN hierarchy'
        /\ hierarchy'[Len(hierarchy) + 1] = g
    BY <1>1 DEF IInv, TypeOK
  <1> QED
    BY <1>1, <1>2

LEMMA GatherRejects ==
  ASSUME IInv, GatherAllHierarchy
  PROVE  RejectedFor'
  BY DEF GatherAllHierarchy, RejectedFor

\* The table says where the id was before.
LEMMA UniqueRejects ==
  ASSUME IInv, NotUnique
  PROVE  RejectedFor'
  <1> DEFINE x == Place(At(i).id)
             j == order[x]
  <1>1. i \in Index /\ x \in Index /\ phase \in Gathered /\ Len(hierarchy) = NumGrids
    BY PlaceInside, SizeAssumption
       DEF IInv, TypeOK, NotUnique, Gathered, Index, AsAnnounced
  <1>2. j \in Index /\ j < i /\ Place(At(j).id) = x
    BY <1>1 DEF IInv, TypeOK, NotUnique, TableOfFirst, Handled, Gathered
  <1>3. At(i) \in GridData /\ At(j) \in GridData
    BY <1>1, <1>2, PlaceInside DEF IInv
  <1>4. At(i).id \in Int /\ At(j).id \in Int
    BY <1>3, GridAssumption
  <1>5. At(i).id = At(j).id
    BY <1>2, <1>4, SizeAssumption DEF Place
  <1> HIDE DEF j
  <1>6. i + 1 \in DOMAIN hierarchy /\ j + 1 \in DOMAIN hierarchy /\ i + 1 # j + 1
    BY <1>1, <1>2, SizeAssumption DEF IInv, TypeOK, Index
  <1>7. hierarchy' = hierarchy
    BY DEF NotUnique
  <1>8. \E m, k \in DOMAIN hierarchy : m # k /\ hierarchy[m].id = hierarchy[k].id
    BY <1>5, <1>6 DEF At
  <1> QED
    BY <1>7, <1>8 DEF RejectedFor

\* Only the grid found in the table has the parent's id.
LEMMA ParentRejects ==
  ASSUME IInv, CheckParent
  PROVE  RejectedFor'
  <1> SUFFICES ASSUME phase' = "rejected"
               PROVE  RejectedFor'
    BY DEF RejectedFor
  <1> DEFINE g == At(i)
  <1>1. phase = "parents" /\ ~GoodParent(g) /\ hierarchy' = hierarchy
    BY DEF CheckParent
  <1>2. /\ i \in Index /\ g \in Grids /\ g \in GridData
        /\ phase \in Gathered /\ i + 1 \in DOMAIN hierarchy
    BY PlaceInside, SizeAssumption
       DEF IInv, TypeOK, CheckParent, Gathered, Index, AsAnnounced
  <1>3. LocallyValid(g)
    BY <1>1, <1>2 DEF IInv, AllLocallyValid, At
  <1>4. g.level > 0
    BY <1>1 DEF GoodParent
  <1>5. InRange(g.parent_id)
    BY <1>3, <1>4 DEF LocallyValid
  <1>6. ~Inside(g, ParentOf(g)) \/ ParentOf(g).level # g.level - 1
    BY <1>1, <1>5 DEF GoodParent
  <1>7. ASSUME NEW p \in Grids, p.id = g.parent_id
        PROVE  p = ParentOf(g)
    <2>1. PICK k \in Index : p = At(k)
      BY <1>2, GridAt DEF IInv
    <2>2. order[Place(At(k).id)] = k
      BY <1>1, <2>1 DEF IInv, TableOfFirst, Handled, Gathered, Index
    <2> QED
      BY <1>7, <2>1, <2>2 DEF ParentOf
  <1>8. HasNoParent(g)
    BY <1>4, <1>6, <1>7 DEF HasNoParent
  <1>9. \E h \in Grids : HasNoParent(h)
    BY <1>2, <1>8
  <1>10. (\E h \in Grids : HasNoParent(h))'
    BY <1>1, <1>9 DEF Grids, HasNoParent, Inside
  <1> QED
    BY <1>10 DEF RejectedFor

LEMMA RejectedForKept ==
  ASSUME IInv, RejectedFor, [Next]_vars
  PROVE  RejectedFor'
  <1>1. CASE FillOrder \/ Bind
    BY <1>1 DEF FillOrder, Bind, RejectedFor
  <1>2. CASE EndLoop
    BY <1>2 DEF EndLoop, RejectedFor
  <1>3. CASE UNCHANGED vars
    BY <1>3 DEF vars, RejectedFor, LocallyValid, InRange, Place, Index, Grids,
                HasNoParent, Inside
  <1> QED
    BY <1>1, <1>2, <1>3, LocalRejects, GatherRejects, UniqueRejects,
       ParentRejects DEF Next, Finished

\* The ids of a forest are different: there are as many as grids.
LEMMA ForestIds ==
  ASSUME TypeOK, IsForest
  PROVE  \A j, k \in DOMAIN hierarchy : hierarchy[j].id = hierarchy[k].id => j = k
  <1> DEFINE f == [k \in 1 .. NumGrids |-> Place(hierarchy[k].id)]
  <1>1. DOMAIN hierarchy = 1 .. NumGrids
    BY SizeAssumption DEF TypeOK, IsForest
  <1>2. f \in Surjection(1 .. NumGrids, Index)
    <2>1. \A k \in 1 .. NumGrids : f[k] \in Index
      BY <1>1 DEF IsForest, Grids
    <2>2. \A x \in Index : \E k \in 1 .. NumGrids : f[k] = x
      <3> SUFFICES ASSUME NEW x \in Index PROVE \E k \in 1 .. NumGrids : f[k] = x
        OBVIOUS
      <3>1. PICK g \in Grids : Place(g.id) = x
        BY DEF IsForest
      <3> QED
        BY <1>1, <3>1 DEF Grids
    <2>3. f \in [1 .. NumGrids -> Index]
      BY <2>1
    <2> HIDE DEF f
    <2> QED
      BY <2>2, <2>3 DEF Surjection
  <1>3. /\ IsFiniteSet(1 .. NumGrids) /\ Cardinality(1 .. NumGrids) = NumGrids
        /\ Cardinality(Index) = NumGrids
    BY FS_Interval, SizeAssumption DEF Index
  <1>4. f \in Injection(1 .. NumGrids, Index)
    <2> HIDE DEF f
    <2> QED
      BY <1>2, <1>3, FS_Surjection
  <1>5. \A j, k \in 1 .. NumGrids : f[j] = f[k] => j = k
    <2> HIDE DEF f
    <2> QED
      BY <1>4 DEF Injection, IsInjective
  <1> QED
    BY <1>1, <1>5

\* Its grids are told apart by their ids.
LEMMA ForestGrids ==
  ASSUME TypeOK, IsForest, NEW p \in Grids, NEW q \in Grids, p.id = q.id
  PROVE  p = q
  BY ForestIds DEF Grids

\* A grid of a forest has one depth.
LEMMA OneDepth ==
  ASSUME TypeOK, IsForest
  PROVE  \A n \in 0 .. NumGrids : \A m \in 0 .. NumGrids : \A g \in Grids :
           g \in AtDepth[n] /\ g \in AtDepth[m] => n = m
  <1> DEFINE S == {n \in Nat : n <= NumGrids =>
                     \A m \in 0 .. NumGrids : \A g \in Grids :
                       g \in AtDepth[n] /\ g \in AtDepth[m] => n = m}
  <1>1. ASSUME NEW m \in 0 .. NumGrids, m # 0, NEW g \in AtDepth[m]
        PROVE  \E p \in AtDepth[m - 1] : p \in Grids /\ p.id = g.parent_id /\ Place(g.parent_id) \in Index
    <2>1. AtDepth[m] = ChildrenOf(AtDepth[m - 1])
      BY <1>1, AtDepthIs
    <2>2. PICK p \in AtDepth[m - 1] : p.id = g.parent_id
      BY <2>1 DEF ChildrenOf
    <2>3. m - 1 \in 0 .. NumGrids
      BY <1>1, SizeAssumption
    <2>4. p \in Grids
      BY <2>3, AtDepthIs DEF Roots, ChildrenOf
    <2>5. Place(p.id) \in Index
      BY <2>4 DEF IsForest
    <2> QED
      BY <2>2, <2>4, <2>5
  <1>2. \A g \in AtDepth[0] : Place(g.parent_id) < 0
    <2>1. AtDepth[0] = Roots
      BY AtDepthIs, SizeAssumption
    <2> QED
      BY <2>1 DEF Roots
  <1>3. 0 \in S
    <2> SUFFICES ASSUME NEW m \in 0 .. NumGrids, NEW g \in Grids,
                        g \in AtDepth[0], g \in AtDepth[m], m # 0
                 PROVE  FALSE
      OBVIOUS
    <2>1. Place(g.parent_id) \in Index
      BY <1>1
    <2> QED
      BY <1>2, <2>1, SizeAssumption DEF Index
  <1>4. ASSUME NEW n \in Nat, n \in S PROVE n + 1 \in S
    <2> SUFFICES ASSUME n + 1 <= NumGrids, NEW m \in 0 .. NumGrids, NEW g \in Grids,
                        g \in AtDepth[n + 1], g \in AtDepth[m]
                 PROVE  n + 1 = m
      OBVIOUS
    <2>1. n + 1 \in 0 .. NumGrids /\ n + 1 # 0 /\ n <= NumGrids /\ (n + 1) - 1 = n
      BY SizeAssumption
    <2>2. PICK p \in AtDepth[n] : p \in Grids /\ p.id = g.parent_id /\ Place(g.parent_id) \in Index
      BY <1>1, <2>1
    <2>3. m # 0
      BY <1>2, <2>2, SizeAssumption DEF Index
    <2>4. PICK q \in AtDepth[m - 1] : q \in Grids /\ q.id = g.parent_id
      BY <1>1, <2>3
    <2>5. p = q
      BY <2>2, <2>4, ForestGrids
    <2>6. m - 1 \in 0 .. NumGrids
      BY <2>3, SizeAssumption
    <2>7. n = m - 1
      BY <1>4, <2>1, <2>2, <2>4, <2>5, <2>6
    <2> QED
      BY <2>7
  <1>5. \A n \in Nat : n \in S
    <2> HIDE DEF S
    <2> QED
      BY <1>3, <1>4, Induct
  <1> QED
    BY <1>5, SizeAssumption

\* Each of its refined grids has its parent.
LEMMA ForestParents ==
  ASSUME TypeOK, IsForest, NEW g \in Grids, g.level > 0
  PROVE  \E p \in Grids : p.id = g.parent_id /\ p.level = g.level - 1 /\ Inside(g, p)
  <1>1. g.level \in 0 .. NumGrids /\ g \in AtDepth[g.level] /\ g.level # 0
    BY DEF IsForest
  <1>2. AtDepth[g.level] = ChildrenOf(AtDepth[g.level - 1])
    BY <1>1, AtDepthIs
  <1>3. PICK p \in AtDepth[g.level - 1] : p.id = g.parent_id /\ Inside(g, p)
    BY <1>1, <1>2 DEF ChildrenOf
  <1>4. g.level - 1 \in 0 .. NumGrids
    BY <1>1, SizeAssumption
  <1>5. p \in Grids
    BY <1>4, AtDepthIs DEF Roots, ChildrenOf
  <1>6. p.level \in 0 .. NumGrids /\ p \in AtDepth[p.level]
    BY <1>5 DEF IsForest
  <1>7. p.level = g.level - 1
    BY <1>4, <1>5, <1>6, OneDepth
  <1> QED
    BY <1>3, <1>5, <1>7

\* Each of its grids passes its own check.
LEMMA ForestValid ==
  ASSUME TypeOK, IsForest, NEW g \in Grids
  PROVE  LocallyValid(g)
  <1>1. /\ g.filled /\ InRange(g.id) /\ g.level \in 0 .. NumGrids
        /\ \A d \in Dims : g.left_edge[d] <= g.right_edge[d]
    BY DEF IsForest, InRange
  <1>2. CASE g.level > 0
    <2>1. PICK p \in Grids : p.id = g.parent_id
      BY <1>2, ForestParents
    <2>2. Place(g.parent_id) \in Index
      BY <2>1 DEF IsForest
    <2> QED
      BY <1>1, <1>2, <2>2 DEF LocallyValid, InRange
  <1>3. CASE g.level = 0
    <2>1. g \in AtDepth[0]
      BY <1>3 DEF IsForest
    <2>2. AtDepth[0] = Roots
      BY AtDepthIs, SizeAssumption
    <2> QED
      BY <1>1, <1>3, <2>1, <2>2 DEF LocallyValid, Roots
  <1> QED
    BY <1>1, <1>2, <1>3

LEMMA ForestNotRejected ==
  ASSUME TypeOK, RejectedFor, phase = "rejected", IsForest
  PROVE  FALSE
  <1>1. ~ \E k \in DOMAIN hierarchy : ~LocallyValid(hierarchy[k])
    BY ForestValid DEF Grids
  <1>2. Len(hierarchy) = NumGrids
    BY DEF IsForest
  <1>3. ~ \E j, k \in DOMAIN hierarchy : j # k /\ hierarchy[j].id = hierarchy[k].id
    BY ForestIds
  <1>4. ~ \E g \in Grids : HasNoParent(g)
    BY ForestParents DEF HasNoParent
  <1> QED
    BY <1>1, <1>2, <1>3, <1>4 DEF RejectedFor

\* RejectedIsBroken: yt_commit turns down no hierarchy that is a forest.
THEOREM NoForestIsRejected == Spec => []RejectedIsBroken
  <1>1. Init => RejectedFor
    BY DEF Init, RejectedFor
  <1>2. IInv /\ RejectedFor /\ [Next]_vars => RejectedFor'
    BY RejectedForKept
  <1>3. IInv /\ RejectedFor => RejectedIsBroken
    BY ForestNotRejected DEF RejectedIsBroken, IInv
  <1> QED
    BY Inductive, <1>1, <1>2, <1>3, PTL DEF Spec
=============================================================================
