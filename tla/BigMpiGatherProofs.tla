------------------------- MODULE BigMpiGatherProofs -------------------------
(***************************************************************************)
(* For every number of ranks, every counts and every INT_MAX: the groups   *)
(* of BigMpiAllgatherv put the data of every rank where one gather would.  *)
(***************************************************************************)
EXTENDS BigMpiGather, WellFoundedInduction, TLAPS

(***************************************************************************)
(* The inductive invariant.  The ranks before the group are gathered, and  *)
(* the offsets of those in it are right.                                   *)
(***************************************************************************)

\* The group begins before the rank that is looked at.
GroupBegins == mpiStart <= i /\ (i > 0 => mpiStart < i)

\* The offsets of the group so far are positions in it.
OffsetsHold == i < Size => \A k \in mpiStart..(i - 1) : offsets[k] = Total(mpiStart, k)

\* The group is put where the data of the ranks before it ends.
StartHolds == indexStart = Total(0, mpiStart)

GatheredBefore == i < Size => received = Expected(0..(mpiStart - 1))

IInv ==
  TypeOK /\ GroupBegins /\ OffsetsHold /\ StartHolds /\ GatheredBefore /\ InPlace

-----------------------------------------------------------------------------
(***************************************************************************)
(* Sums                                                                    *)
(***************************************************************************)

LEMMA Induct ==
  ASSUME NEW S, 0 \in S, \A n \in Nat : n \in S => n + 1 \in S
  PROVE  \A n \in Nat : n \in S
<1> SUFFICES ASSUME Nat \ S # {} PROVE FALSE OBVIOUS
<1>1. IsWellFoundedOn(OpToRel(<, Nat), Nat) BY NatLessThanWellFounded
<1>2. PICK x \in Nat \ S : \A y \in Nat \ S : ~ (<<y, x>> \in OpToRel(<, Nat))
  BY <1>1, WFMin
<1>3. \A y \in Nat \ S : ~ (y < x) BY <1>2 DEF OpToRel
<1>4. x - 1 \in Nat /\ x - 1 \in S BY <1>3
<1> QED BY <1>4

\* f sums up the counts of the ranks from first on, up to n of them.
IsSum(f, first, n) ==
  f = [k \in first..(first + n) |->
         IF k = first THEN 0 ELSE f[k - 1] + sendCounts[k - 1]]

LEMMA SomeSum ==
  ASSUME NEW first \in Nat
  PROVE  \A n \in Nat : \E f : IsSum(f, first, n)
<1> DEFINE S == {n \in Nat : \E f : IsSum(f, first, n)}
<1>1. 0 \in S
  <2>1. PICK f : f = [k \in first..(first + 0) |-> 0] OBVIOUS
  <2>2. f = [k \in first..(first + 0) |->
               IF k = first THEN 0 ELSE f[k - 1] + sendCounts[k - 1]]
    BY <2>1
  <2> QED BY <2>2 DEF IsSum
<1>2. ASSUME NEW n \in Nat, n \in S PROVE n + 1 \in S
  <2>1. PICK f : f = [k \in first..(first + n) |->
                        IF k = first THEN 0 ELSE f[k - 1] + sendCounts[k - 1]]
    BY <1>2 DEF IsSum
  <2> DEFINE last == first + (n + 1)
  <2>2. PICK h : h = [k \in first..last |->
                        IF k = last THEN f[last - 1] + sendCounts[last - 1] ELSE f[k]]
    OBVIOUS
  <2>3. \A k \in first..(first + n) : h[k] = f[k] BY <2>2
  <2>4. h[last] = f[last - 1] + sendCounts[last - 1] BY <2>2
  <2>5. ASSUME NEW k \in first..last
        PROVE  h[k] = IF k = first THEN 0 ELSE h[k - 1] + sendCounts[k - 1]
    <3>1. CASE k = last
      <4>1. k - 1 \in first..(first + n) /\ k # first BY <3>1
      <4>2. h[k - 1] = f[last - 1] BY <2>3, <3>1, <4>1
      <4> QED BY <2>4, <3>1, <4>1, <4>2
    <3>2. CASE k = first BY <2>1, <2>3, <3>2
    <3>3. CASE k # first /\ k # last
      <4>1. k \in first..(first + n) /\ k - 1 \in first..(first + n) BY <3>3
      <4>2. f[k] = f[k - 1] + sendCounts[k - 1] BY <2>1, <3>3, <4>1
      <4>3. h[k] = f[k] /\ h[k - 1] = f[k - 1] BY <2>3, <4>1
      <4> QED BY <3>3, <4>2, <4>3
    <3> QED BY <3>1, <3>2, <3>3
  <2>6. h = [k \in first..last |-> IF k = first THEN 0 ELSE h[k - 1] + sendCounts[k - 1]]
    BY <2>2, <2>5
  <2> QED BY <2>6 DEF IsSum
<1> HIDE DEF S
<1>3. \A n \in Nat : n \in S BY <1>1, <1>2, Induct
<1> QED BY <1>3 DEF S

LEMMA TotalIs ==
  ASSUME NEW first \in 0..Size, NEW n \in first..Size
  PROVE  Total(first, n) =
           IF n = first THEN 0 ELSE Total(first, n - 1) + sendCounts[n - 1]
<1> DEFINE sum == CHOOSE f : f = [k \in first..Size |->
                    IF k = first THEN 0 ELSE f[k - 1] + sendCounts[k - 1]]
<1>1. Size - first \in Nat /\ first + (Size - first) = Size /\ first \in Nat
  BY SizeAssumption
<1>2. \E f : IsSum(f, first, Size - first) BY <1>1, SomeSum
<1>3. PICK f : f = [k \in first..Size |->
                      IF k = first THEN 0 ELSE f[k - 1] + sendCounts[k - 1]]
  BY <1>1, <1>2 DEF IsSum
<1>4. sum = [k \in first..Size |->
               IF k = first THEN 0 ELSE sum[k - 1] + sendCounts[k - 1]]
  BY <1>3
<1>5. \A k : Total(first, k) = sum[k] BY DEF Total
<1> HIDE DEF sum
<1>6. sum[n] = IF n = first THEN 0 ELSE sum[n - 1] + sendCounts[n - 1] BY <1>4
<1> QED BY <1>5, <1>6

LEMMA TotalIsNat ==
  ASSUME sendCounts \in [MpiRanks -> 0..MaxCount],
         NEW first \in 0..Size, NEW n \in first..Size
  PROVE  Total(first, n) \in Nat
<1> DEFINE S == {m \in Nat : first + m <= Size => Total(first, first + m) \in Nat}
<1>0. first \in Nat /\ first \in first..Size BY SizeAssumption
<1>1. 0 \in S
  <2>1. Total(first, first) = 0 BY <1>0, TotalIs
  <2> QED BY <1>0, <2>1
<1>2. ASSUME NEW m \in Nat, m \in S PROVE m + 1 \in S
  <2> SUFFICES ASSUME first + (m + 1) <= Size
               PROVE  Total(first, first + (m + 1)) \in Nat
    OBVIOUS
  <2>1. Total(first, first + m) \in Nat BY <1>0, <1>2, SizeAssumption
  <2>2. first + m \in MpiRanks BY <1>0, SizeAssumption DEF MpiRanks
  <2>3. sendCounts[first + m] \in Nat
    BY <2>2, CountAssumption, MaxIntAssumption
  <2>4. first + (m + 1) \in first..Size /\ first + (m + 1) # first
        /\ first + (m + 1) - 1 = first + m
    BY <1>0, SizeAssumption
  <2>5. Total(first, first + (m + 1)) = Total(first, first + m) + sendCounts[first + m]
    BY <2>4, TotalIs
  <2> QED BY <2>1, <2>3, <2>5
<1> HIDE DEF S
<1>3. \A m \in Nat : m \in S BY <1>1, <1>2, Induct
<1>4. n - first \in S BY <1>0, <1>3, SizeAssumption
<1>5. first + (n - first) = n /\ n <= Size BY <1>0, SizeAssumption
<1> QED BY <1>4, <1>5 DEF S

\* Where the data of a rank is: where its group is, and from there on.
LEMMA TotalAdds ==
  ASSUME sendCounts \in [MpiRanks -> 0..MaxCount],
         NEW first \in 0..Size, NEW n \in first..Size
  PROVE  Total(0, n) = Total(0, first) + Total(first, n)
<1> DEFINE S == {m \in Nat : first + m <= Size =>
              Total(0, first + m) = Total(0, first) + Total(first, first + m)}
<1>0. first \in Nat /\ first \in first..Size /\ 0 \in 0..Size BY SizeAssumption
<1>1. 0 \in S
  <2>1. Total(first, first) = 0 BY <1>0, TotalIs
  <2>2. Total(0, first) \in Nat BY <1>0, TotalIsNat
  <2> QED BY <1>0, <2>1, <2>2
<1>2. ASSUME NEW m \in Nat, m \in S PROVE m + 1 \in S
  <2> SUFFICES ASSUME first + (m + 1) <= Size
               PROVE  Total(0, first + (m + 1)) =
                        Total(0, first) + Total(first, first + (m + 1))
    OBVIOUS
  <2>1. Total(0, first + m) = Total(0, first) + Total(first, first + m)
    BY <1>0, <1>2, SizeAssumption
  <2>2. first + m \in MpiRanks BY <1>0, SizeAssumption DEF MpiRanks
  <2>3. sendCounts[first + m] \in Nat BY <2>2, CountAssumption, MaxIntAssumption
  <2>4. /\ first + (m + 1) \in first..Size /\ first + (m + 1) # first
        /\ first + (m + 1) \in 0..Size /\ first + (m + 1) # 0
        /\ first + (m + 1) - 1 = first + m /\ first + m \in first..Size
    BY <1>0, SizeAssumption
  <2>5. Total(first, first + (m + 1)) = Total(first, first + m) + sendCounts[first + m]
    BY <2>4, TotalIs
  <2>6. Total(0, first + (m + 1)) = Total(0, first + m) + sendCounts[first + m]
    BY <1>0, <2>4, TotalIs
  <2>7. Total(0, first) \in Nat /\ Total(first, first + m) \in Nat
    BY <1>0, <2>4, TotalIsNat
  <2> QED BY <2>1, <2>3, <2>5, <2>6, <2>7
<1> HIDE DEF S
<1>3. \A m \in Nat : m \in S BY <1>1, <1>2, Induct
<1>4. n - first \in S BY <1>0, <1>3, SizeAssumption
<1>5. first + (n - first) = n /\ n <= Size BY <1>0, SizeAssumption
<1> QED BY <1>4, <1>5 DEF S

\* The counts do not change, and neither does what is to be received.
LEMMA TotalStays ==
  ASSUME sendCounts' = sendCounts
  PROVE  \A a, n : Total(a, n)' = Total(a, n)
BY DEF Total

LEMMA ExpectedStays ==
  ASSUME sendCounts' = sendCounts
  PROVE  \A S : Expected(S)' = Expected(S)
BY TotalStays DEF Expected

-----------------------------------------------------------------------------
(***************************************************************************)
(* A group                                                                 *)
(***************************************************************************)

\* What a rank of the group sends arrives where it belongs.
LEMMA GroupInPlace ==
  ASSUME sendCounts \in [MpiRanks -> 0..MaxCount], StartHolds,
         mpiStart \in MpiRanks, NEW last \in mpiStart..(Size - 1), NEW places,
         \A k \in mpiStart..last : places[k] = Total(mpiStart, k)
  PROVE  Expected(0..(mpiStart - 1)) \cup Group(last, places) = Expected(0..last)
<1>1. ASSUME NEW k \in mpiStart..last
      PROVE  /\ Total(0, k) \in Nat /\ indexStart + places[k] = Total(0, k)
  <2>1. mpiStart \in 0..Size /\ k \in mpiStart..Size /\ k \in 0..Size /\ 0 \in 0..Size
    BY SizeAssumption DEF MpiRanks
  <2>2. Total(0, k) = Total(0, mpiStart) + Total(mpiStart, k) BY <2>1, TotalAdds
  <2>3. Total(0, k) \in Nat BY <2>1, TotalIsNat
  <2> QED BY <2>2, <2>3 DEF StartHolds
<1> DEFINE Of(k) == {<<Total(0, k) + e, k, e>> : e \in 0..(sendCounts[k] - 1)}
<1>2. Group(last, places) = UNION {Of(k) : k \in mpiStart..last}
  <2>1. ASSUME NEW k \in mpiStart..last
        PROVE  {<<indexStart + places[k] + e, k, e>> : e \in 0..(sendCounts[k] - 1)} = Of(k)
    BY <1>1
  <2> QED BY <2>1 DEF Group
<1>3. \A S : Expected(S) = UNION {Of(k) : k \in S} BY DEF Expected
<1>4. 0..last = (0..(mpiStart - 1)) \cup (mpiStart..last)
  BY SizeAssumption DEF MpiRanks
<1> HIDE DEF Of
<1> QED BY <1>2, <1>3, <1>4

-----------------------------------------------------------------------------
(***************************************************************************)
(* The steps                                                               *)
(***************************************************************************)

LEMMA InitIs ==
  ASSUME Init
  PROVE  IInv
<1>1. 0 \in MpiRanks /\ 0 \in 0..Size /\ 0 \in 0..MaxInt /\ Size > 0 /\ Size \in Nat
  BY SizeAssumption, CountAssumption, MaxIntAssumption DEF MpiRanks
<1>2. TypeOK BY <1>1 DEF Init, TypeOK
<1>3. GroupBegins /\ OffsetsHold BY <1>1 DEF Init, GroupBegins, OffsetsHold
<1>4. StartHolds
  <2>1. Total(0, 0) = 0 BY <1>1, TotalIs
  <2> QED BY <2>1 DEF Init, StartHolds
<1>5. received = Expected(0..(mpiStart - 1))
  <2>1. 0..(mpiStart - 1) = {} BY DEF Init
  <2> QED BY <2>1 DEF Init, Expected
<1>6. InPlace BY <1>1, <1>5 DEF InPlace, Init
<1> QED BY <1>2, <1>3, <1>4, <1>5, <1>6 DEF IInv, GatheredBefore

LEMMA ExpectedType ==
  ASSUME sendCounts \in [MpiRanks -> 0..MaxCount], NEW S \in SUBSET MpiRanks
  PROVE  Expected(S) \subseteq Nat \X MpiRanks \X Nat
<1>1. ASSUME NEW k \in S, NEW e \in 0..(sendCounts[k] - 1)
      PROVE  <<Total(0, k) + e, k, e>> \in Nat \X MpiRanks \X Nat
  <2>1. k \in 0..Size /\ 0 \in 0..Size BY SizeAssumption DEF MpiRanks
  <2>2. Total(0, k) \in Nat BY <2>1, TotalIsNat
  <2>3. e \in Nat BY CountAssumption, MaxIntAssumption
  <2> QED BY <2>2, <2>3
<1> QED BY <1>1 DEF Expected

LEMMA PositionIs ==
  ASSUME TypeOK, GroupBegins, i < Size
  PROVE  /\ i \in MpiRanks /\ i \in 0..Size /\ i \in mpiStart..(Size - 1)
         /\ Position = Total(mpiStart, i) /\ Position \in Nat
         /\ Accumulate = Total(mpiStart, i)
         /\ ~Exceeds => Position \in 0..MaxInt
<1>1. i \in MpiRanks /\ i \in mpiStart..(Size - 1) /\ mpiStart \in 0..Size /\ i \in mpiStart..Size
  BY SizeAssumption DEF TypeOK, GroupBegins, MpiRanks
<1>2. Total(mpiStart, i) \in Nat BY <1>1, TotalIsNat DEF TypeOK
<1> QED BY <1>1, <1>2, CountAssumption, MaxIntAssumption DEF TypeOK, Position, Accumulate, Exceeds

LEMMA ExtendGroupKeeps ==
  ASSUME IInv, ExtendGroup
  PROVE  IInv'
<1>1. /\ TypeOK /\ GroupBegins /\ i < Size - 1 /\ i < Size /\ ~Exceeds
      /\ offsets' = [offsets EXCEPT ![i] = Position] /\ i' = i + 1
      /\ UNCHANGED <<sendCounts, mpiStart, indexStart, received>>
  BY SizeAssumption DEF IInv, ExtendGroup, TypeOK
<1>2. /\ i \in MpiRanks /\ Position = Total(mpiStart, i) /\ Position \in 0..MaxInt
  BY <1>1, PositionIs
<1>3. TypeOK'
  <2>1. i' \in 0..Size BY <1>1, SizeAssumption DEF TypeOK
  <2>2. offsets' \in [MpiRanks -> 0..MaxInt] BY <1>1, <1>2 DEF TypeOK
  <2> QED BY <1>1, <2>1, <2>2 DEF TypeOK
<1>4. GroupBegins' BY <1>1, SizeAssumption DEF GroupBegins, TypeOK, MpiRanks
<1>5. \A a, n : Total(a, n)' = Total(a, n) BY <1>1, TotalStays
<1>6. OffsetsHold'
  <2> SUFFICES ASSUME NEW k \in mpiStart..i PROVE offsets'[k] = Total(mpiStart, k)
    BY <1>1, <1>5 DEF OffsetsHold, TypeOK
  <2>1. k \in MpiRanks BY <1>1, <1>2, SizeAssumption DEF MpiRanks, TypeOK
  <2>2. CASE k = i BY <1>1, <1>2, <2>2 DEF TypeOK
  <2>3. CASE k # i
    <3>1. k \in mpiStart..(i - 1) BY <1>1, <2>3 DEF TypeOK, MpiRanks
    <3>2. offsets[k] = Total(mpiStart, k) BY <1>1, <3>1 DEF IInv, OffsetsHold
    <3> QED BY <1>1, <2>1, <2>3, <3>2 DEF TypeOK
  <2> QED BY <2>2, <2>3
<1>7. StartHolds' BY <1>1, <1>5 DEF IInv, StartHolds
<1>8. received' = Expected(0..(mpiStart - 1))'
  <2>1. received = Expected(0..(mpiStart - 1)) BY <1>1 DEF IInv, GatheredBefore
  <2>2. Expected(0..(mpiStart - 1))' = Expected(0..(mpiStart - 1))
    BY <1>1, <1>5 DEF Expected
  <2> QED BY <1>1, <2>1, <2>2
<1>9. i' # Size BY <1>1, SizeAssumption DEF TypeOK
<1>10. InPlace' BY <1>8, <1>9 DEF InPlace
<1> QED BY <1>3, <1>4, <1>6, <1>7, <1>8, <1>10 DEF IInv, GatheredBefore

LEMMA StartNewGroupKeeps ==
  ASSUME IInv, StartNewGroup
  PROVE  IInv'
<1> DEFINE places == [offsets EXCEPT ![i] = Position]
<1>1. /\ TypeOK /\ GroupBegins /\ i < Size /\ Exceeds
      /\ received' = received \cup Group(i - 1, places)
      /\ mpiStart' = i /\ indexStart' = Total(0, i)
      /\ offsets' = [k \in MpiRanks |-> IF mpiStart <= k /\ k < i THEN places[k] ELSE 0]
      /\ i' = i + 1 /\ sendCounts' = sendCounts
  BY DEF IInv, StartNewGroup, NewStart
<1>2. /\ i \in MpiRanks /\ i \in 0..Size /\ i \in mpiStart..(Size - 1)
      /\ Accumulate = Total(mpiStart, i)
  BY <1>1, PositionIs
\* The group is not empty: nothing does not exceed.
<1>3. mpiStart < i
  <2> SUFFICES ASSUME mpiStart = i PROVE FALSE BY <1>1 DEF GroupBegins, TypeOK, MpiRanks
  <2>1. i \in i..Size BY <1>2, SizeAssumption
  <2>2. Total(i, i) = 0 BY <1>2, <2>1, TotalIs
  <2> QED BY <1>1, <1>2, <2>2, CountAssumption, MaxIntAssumption DEF Exceeds
<1>4. ASSUME NEW k \in mpiStart..(i - 1)
      PROVE  k \in MpiRanks /\ k < i /\ mpiStart <= k /\ places[k] = Total(mpiStart, k)
             /\ places[k] = offsets[k]
  <2>1. k \in MpiRanks /\ k # i /\ k < i /\ mpiStart <= k
    BY <1>1, <1>2, SizeAssumption DEF MpiRanks, TypeOK
  <2>2. offsets[k] = Total(mpiStart, k) BY <1>1 DEF IInv, OffsetsHold
  <2>3. places[k] = offsets[k] BY <1>1, <2>1 DEF TypeOK
  <2> QED BY <2>1, <2>2, <2>3
<1>5. TypeOK'
  <2>1. i' \in 0..Size BY <1>1, SizeAssumption DEF TypeOK
  <2>2. offsets' \in [MpiRanks -> 0..MaxInt]
    <3>1. ASSUME NEW k \in MpiRanks PROVE offsets'[k] \in 0..MaxInt
      <4>1. CASE mpiStart <= k /\ k < i
        <5>1. k \in mpiStart..(i - 1) BY <1>1, <4>1 DEF MpiRanks, TypeOK
        <5>2. offsets'[k] = offsets[k] BY <1>1, <1>4, <4>1, <5>1
        <5> QED BY <1>1, <5>2 DEF TypeOK
      <4>2. CASE ~(mpiStart <= k /\ k < i)
        BY <1>1, <4>2, CountAssumption, MaxIntAssumption
      <4> QED BY <4>1, <4>2
    <3> QED BY <1>1, <3>1
  <2>3. indexStart' \in Nat
    <3>1. 0 \in 0..Size /\ i \in 0..Size BY <1>2, SizeAssumption
    <3> QED BY <1>1, <3>1, TotalIsNat DEF TypeOK
  <2>4. received' \subseteq Nat \X MpiRanks \X Nat
    <3>1. 0..(i - 1) \in SUBSET MpiRanks BY <1>2, SizeAssumption DEF MpiRanks
    <3>2. received' = Expected(0..(i - 1))
      <4>1. received = Expected(0..(mpiStart - 1)) BY <1>1 DEF IInv, GatheredBefore
      <4>2. i - 1 \in mpiStart..(Size - 1)
        BY <1>1, <1>2, <1>3, SizeAssumption DEF TypeOK, MpiRanks
      <4> HIDE DEF places
      <4> QED BY <1>1, <1>4, <4>1, <4>2, GroupInPlace DEF IInv, TypeOK
    <3> QED BY <1>1, <3>1, <3>2, ExpectedType DEF TypeOK
  <2> QED BY <1>1, <1>2, <2>1, <2>2, <2>3, <2>4 DEF TypeOK
<1>6. GroupBegins' BY <1>1, <1>2 DEF GroupBegins
<1>7. \A a, n : Total(a, n)' = Total(a, n) BY <1>1, TotalStays
<1>8. OffsetsHold'
  <2> SUFFICES ASSUME NEW k \in i..((i + 1) - 1) PROVE offsets'[k] = Total(i, k)
    BY <1>1, <1>7 DEF OffsetsHold
  <2>1. k = i BY <1>2
  <2>2. i \in i..Size BY <1>2, SizeAssumption
  <2>3. Total(i, i) = 0 BY <1>2, <2>2, TotalIs
  <2>4. offsets'[i] = 0 BY <1>1, <1>2
  <2> QED BY <2>1, <2>3, <2>4
<1>9. StartHolds' BY <1>1, <1>7 DEF StartHolds
<1>10. received' = Expected(0..(mpiStart - 1))'
  <2>1. received = Expected(0..(mpiStart - 1)) BY <1>1 DEF IInv, GatheredBefore
  <2>2. i - 1 \in mpiStart..(Size - 1)
    BY <1>1, <1>2, <1>3, SizeAssumption DEF TypeOK, MpiRanks
  <2>3. received' = Expected(0..(i - 1))
    <3> HIDE DEF places
    <3> QED BY <1>1, <1>4, <2>1, <2>2, GroupInPlace DEF IInv, TypeOK
  <2>4. Expected(0..(mpiStart - 1))' = Expected(0..(i - 1)) BY <1>1, <1>7 DEF Expected
  <2> QED BY <2>3, <2>4
<1>11. i' = Size => mpiStart' = Size - 1 /\ Total(0, Size - 1)' > MaxInt
  <2> SUFFICES ASSUME i' = Size PROVE mpiStart' = Size - 1 /\ Total(0, Size - 1) > MaxInt
    BY <1>7
  <2>1. i = Size - 1 BY <1>1, <1>2, SizeAssumption
  <2>2. mpiStart \in 0..Size /\ i \in mpiStart..Size /\ 0 \in 0..Size /\ i \in 0..Size
        /\ mpiStart \in 0..Size
    BY <1>1, <1>2, SizeAssumption DEF TypeOK, MpiRanks
  <2>3. Total(0, i) = Total(0, mpiStart) + Total(mpiStart, i)
    BY <1>1, <2>2, TotalAdds DEF TypeOK
  <2>4. Total(0, mpiStart) \in Nat /\ Total(mpiStart, i) \in Nat
    BY <1>1, <2>2, TotalIsNat DEF TypeOK
  <2>5. Total(mpiStart, i) > MaxInt BY <1>1, <1>2 DEF Exceeds
  <2> QED BY <1>1, <2>1, <2>3, <2>4, <2>5, CountAssumption, MaxIntAssumption
<1>12. InPlace' BY <1>10, <1>11 DEF InPlace
<1> QED BY <1>5, <1>6, <1>8, <1>9, <1>10, <1>12 DEF IInv, GatheredBefore

LEMMA SendLastGroupKeeps ==
  ASSUME IInv, SendLastGroup
  PROVE  IInv'
<1> DEFINE places == [offsets EXCEPT ![i] = Position]
<1>1. /\ TypeOK /\ GroupBegins /\ i = Size - 1 /\ i < Size /\ ~Exceeds
      /\ received' = received \cup Group(i, places)
      /\ offsets' = [k \in MpiRanks |-> IF mpiStart <= k THEN places[k] ELSE 0]
      /\ i' = i + 1 /\ UNCHANGED <<sendCounts, mpiStart, indexStart>>
  BY SizeAssumption DEF IInv, SendLastGroup
<1>2. /\ i \in MpiRanks /\ i \in mpiStart..(Size - 1)
      /\ Position = Total(mpiStart, i) /\ Position \in 0..MaxInt
  BY <1>1, PositionIs
<1>3. ASSUME NEW k \in mpiStart..i PROVE places[k] = Total(mpiStart, k)
  <2>1. k \in MpiRanks BY <1>1, <1>2, SizeAssumption DEF MpiRanks, TypeOK
  <2>2. CASE k = i BY <1>1, <1>2, <2>2 DEF TypeOK
  <2>3. CASE k # i
    <3>1. k \in mpiStart..(i - 1) BY <1>1, <1>2, <2>3 DEF TypeOK, MpiRanks
    <3>2. offsets[k] = Total(mpiStart, k) BY <1>1, <3>1 DEF IInv, OffsetsHold
    <3> QED BY <1>1, <2>1, <2>3, <3>2 DEF TypeOK
  <2> QED BY <2>2, <2>3
<1>4. places \in [MpiRanks -> 0..MaxInt] BY <1>1, <1>2 DEF TypeOK
<1>5. received' = Expected(MpiRanks)
  <2>1. received = Expected(0..(mpiStart - 1)) BY <1>1 DEF IInv, GatheredBefore
  <2>2. 0..i = MpiRanks BY <1>1 DEF MpiRanks
  <2> HIDE DEF places
  <2>3. received' = Expected(0..i)
    BY <1>1, <1>2, <1>3, <2>1, GroupInPlace DEF IInv, TypeOK
  <2> QED BY <2>2, <2>3
<1> HIDE DEF places
<1>6. TypeOK'
  <2>1. i' \in 0..Size BY <1>1, SizeAssumption
  <2>2. offsets' \in [MpiRanks -> 0..MaxInt] BY <1>1, <1>4, CountAssumption, MaxIntAssumption
  <2>3. received' \subseteq Nat \X MpiRanks \X Nat BY <1>1, <1>5, ExpectedType DEF TypeOK
  <2> QED BY <1>1, <2>1, <2>2, <2>3 DEF TypeOK
<1>7. i' = Size BY <1>1, SizeAssumption
<1>8. GroupBegins' BY <1>1, <1>2, SizeAssumption DEF GroupBegins, TypeOK, MpiRanks
<1>9. OffsetsHold' /\ GatheredBefore' BY <1>7, SizeAssumption DEF OffsetsHold, GatheredBefore
<1>10. StartHolds'
  <2>1. \A a, n : Total(a, n)' = Total(a, n) BY <1>1, TotalStays
  <2> QED BY <1>1, <2>1 DEF IInv, StartHolds
<1>11. InPlace'
  <2>1. Expected(MpiRanks)' = Expected(MpiRanks)
    <3>1. \A a, n : Total(a, n)' = Total(a, n) BY <1>1, TotalStays
    <3> QED BY <1>1, <3>1 DEF Expected, MpiRanks
  <2> QED BY <1>5, <1>7, <2>1 DEF InPlace
<1> QED BY <1>6, <1>8, <1>9, <1>10, <1>11 DEF IInv

LEMMA StutterKeeps ==
  ASSUME IInv, UNCHANGED vars
  PROVE  IInv'
<1>1. UNCHANGED <<sendCounts, i, mpiStart, indexStart, offsets, received>> BY DEF vars
<1>2. \A a, n : Total(a, n)' = Total(a, n) BY <1>1, TotalStays
<1>3. TypeOK' BY <1>1 DEF IInv, TypeOK
<1>4. GroupBegins' /\ OffsetsHold' /\ StartHolds'
  BY <1>1, <1>2 DEF IInv, GroupBegins, OffsetsHold, StartHolds
<1>5. /\ Expected(0..(mpiStart - 1))' = Expected(0..(mpiStart - 1))
      /\ Expected(MpiRanks)' = Expected(MpiRanks)
  BY <1>1, <1>2 DEF Expected, MpiRanks
<1>6. GatheredBefore' BY <1>1, <1>5 DEF IInv, GatheredBefore
<1>7. InPlace' BY <1>1, <1>2, <1>5 DEF IInv, InPlace
<1> QED BY <1>3, <1>4, <1>6, <1>7 DEF IInv

\* Up to the rank that is looked at, the groups so far are gathered and the
\* offsets of the next one are right.
THEOREM InvariantHolds == Spec => []IInv
<1>1. Init => IInv BY InitIs
<1>2. IInv /\ [Next]_vars => IInv'
  BY ExtendGroupKeeps, StartNewGroupKeeps, SendLastGroupKeeps, StutterKeeps
     DEF Next, Finished
<1> QED BY <1>1, <1>2, PTL DEF Spec

\* Every offset that BigMpiAllgatherv hands to MPI fits in an int.
THEOREM OffsetsFit == Spec => []TypeOK
<1>1. IInv => TypeOK BY DEF IInv
<1> QED BY <1>1, InvariantHolds, PTL

\* However the ranks are grouped, what is received is where one gather would
\* put it, and at most the last rank is missing.
THEOREM EveryGroupInPlace == Spec => []InPlace
<1>1. IInv => InPlace BY DEF IInv
<1> QED BY <1>1, InvariantHolds, PTL
=============================================================================
