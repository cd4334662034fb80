---------------------------- MODULE BigMpiGather ----------------------------
(***************************************************************************)
(* BigMpiAllgatherv and BigMpiGatherv: gathering more elements than an int *)
(* can count.  MPI takes the position of every rank's data in the receive  *)
(* buffer as an int, so the ranks are cut into groups of consecutive ranks *)
(* whose positions fit, and each group is one MPI_(All)gatherv.  Every     *)
(* rank runs the same loop over the same counts, so the module has one     *)
(* copy of the loop, and of the receive buffer the elements it holds.      *)
(***************************************************************************)
EXTENDS BigMpi

CONSTANTS
  Size,     \* mpi_size
  MaxCount  \* bound on the elements of one rank, for model checking

ASSUME SizeAssumption  == Size \in Nat \ {0}
ASSUME CountAssumption == MaxCount \in 0..MaxInt

VARIABLES
  sendCounts,  \* send_counts
  i,           \* the loop's variable
  mpiStart,    \* first rank of the group being collected
  indexStart,  \* where that group begins in the receive buffer
  offsets,     \* the int array of positions relative to indexStart
  received     \* the <<position, rank, element>> of the receive buffer

vars == <<sendCounts, i, mpiStart, indexStart, offsets, received>>

MpiRanks == 0..(Size - 1)

\* What the ranks from first to n - 1 send, summed up as the code's loops do.
Total(first, n) ==
  LET sum[k \in first..Size] == IF k = first THEN 0 ELSE sum[k - 1] + sendCounts[k - 1]
  IN  sum[n]

\* Type invariant.  The positions, which are handed to MPI, fit in an int; the
\* one of a rank that did not fit is reset before any use.
TypeOK ==
  /\ sendCounts \in [MpiRanks -> 0..MaxCount]
  /\ i \in 0..Size
  /\ mpiStart \in MpiRanks
  /\ indexStart \in Nat
  /\ offsets \in [MpiRanks -> 0..MaxInt]
  /\ received \subseteq Nat \X MpiRanks \X Nat

Init ==
  /\ sendCounts \in [MpiRanks -> 0..MaxCount]
  /\ i = 0
  /\ mpiStart = 0
  /\ indexStart = 0
  /\ offsets = [k \in MpiRanks |-> 0]
  /\ received = {}

\* accumulate, a long: what the ranks from mpiStart to i - 1 send.
Accumulate == Total(mpiStart, i)

(***************************************************************************)
(* One MPI_(All)gatherv in which the ranks from mpiStart to last send; the *)
(* others send nothing.  newOffsets is the array as this turn leaves it.   *)
(***************************************************************************)
Group(last, newOffsets) ==
  UNION {{<<indexStart + newOffsets[k] + e, k, e>> : e \in 0..(sendCounts[k] - 1)}
         : k \in mpiStart..last}

\* The position of rank i is relative to the group; a plausible bug forgets
\* that and takes it from the begin of the buffer.
PositionAbsolute == Total(0, i)

Position == Accumulate

\* The plausible bug of the bound: one too many.
ExceedsLate == Accumulate > MaxInt + 1

Exceeds == Accumulate > MaxInt

\* The rank that did not fit is the first of the next group.
NewStart == i

\* Rank i does not fit any more: the group ends before it and a new one begins.
StartNewGroup ==
  LET newOffsets == [offsets EXCEPT ![i] = Position]
  IN  /\ i < Size
      /\ Exceeds
      /\ received' = received \cup Group(i - 1, newOffsets)
      /\ mpiStart' = NewStart
      /\ indexStart' = Total(0, i)
      /\ offsets' = [k \in MpiRanks |->
                       IF mpiStart <= k /\ k < i THEN newOffsets[k] ELSE 0]
      /\ i' = i + 1
      /\ UNCHANGED sendCounts

\* The last rank is reached, and it fits.
SendLastGroup ==
  LET newOffsets == [offsets EXCEPT ![i] = Position]
  IN  /\ i = Size - 1
      /\ ~Exceeds
      /\ received' = received \cup Group(i, newOffsets)
      /\ offsets' = [k \in MpiRanks |-> IF mpiStart <= k THEN newOffsets[k] ELSE 0]
      /\ i' = i + 1
      /\ UNCHANGED <<sendCounts, mpiStart, indexStart>>

ExtendGroup ==
  /\ i < Size - 1
  /\ ~Exceeds
  /\ offsets' = [offsets EXCEPT ![i] = Position]
  /\ i' = i + 1
  /\ UNCHANGED <<sendCounts, mpiStart, indexStart, received>>

Finished == i = Size /\ UNCHANGED vars

Next == StartNewGroup \/ SendLastGroup \/ ExtendGroup \/ Finished

Spec == Init /\ [][Next]_vars

-----------------------------------------------------------------------------
\* What a gather of the ranks in S has to leave in the receive buffer.
Expected(S) ==
  UNION {{<<Total(0, k) + e, k, e>> : e \in 0..(sendCounts[k] - 1)} : k \in S}

(***************************************************************************)
(* Safety: however the ranks are grouped, everything received so far is    *)
(* where a single gather would have put it, and it is exactly what the     *)
(* ranks of the groups sent so far hold.  At the end at most the last      *)
(* rank's data is missing, and only if it did not fit in the group of the  *)
(* ranks before it.  index_start, mpi_start and offsets.                   *)
(***************************************************************************)
InPlace ==
  \/ /\ received = Expected(0..(mpiStart - 1))
     /\ i = Size => (mpiStart = Size - 1 /\ Total(0, Size - 1) > MaxInt)
  \/ i = Size /\ received = Expected(MpiRanks)

(***************************************************************************)
(* What the comment above the last branch claims ("We can ignore the case  *)
(* when there is only one rank left and its offsets exceeds INT_MAX        *)
(* simultaneously"): no rank is ever left out.                             *)
(***************************************************************************)
GathersEveryRank == i = Size => received = Expected(MpiRanks)
=============================================================================
