---------------------------- MODULE BigMpiChunks ----------------------------
(***************************************************************************)
(* BigMpiGet (and BigMpiBcast, which has the same loop without a target):  *)
(* moving dataLen elements with calls that take an int count.  Every call  *)
(* but the last moves stride = INT_MAX elements; the last one moves the    *)
(* rest, which is empty if stride divides dataLen.                         *)
(***************************************************************************)
EXTENDS BigMpi

CONSTANT Lengths   \* the values data_len may have

ASSUME LengthsAssumption == Lengths \subseteq Nat

VARIABLES
  dataLen,  \* data_len
  turn,     \* i, the loop's variable
  address,  \* address - base_address, counted in elements
  moved,    \* the <<index in recv_buff, element of the target>> of all calls
  counted   \* the sum of the counts of all calls

chunksVars == <<dataLen, turn, address, moved, counted>>

ChunksTypeOK ==
  /\ dataLen \in Lengths
  /\ turn \in Nat
  /\ address \in Nat
  /\ moved \subseteq Nat \X Nat
  /\ counted \in Nat

stride == MaxInt

\* The plausible bug takes one part less when stride divides dataLen, as if
\* remain were never 0 then.
partRoundedUp == (dataLen + stride - 1) \div stride

part == dataLen \div stride + 1

remain == dataLen % stride

ChunksInit ==
  /\ dataLen \in Lengths
  /\ turn = 0
  /\ address = 0
  /\ moved = {}
  /\ counted = 0

\* The i-th call: remain elements if it is the last one, else stride.  The
\* plausible bug always moves stride elements.
CountAlwaysStride == stride

Count == IF turn = part - 1 THEN remain ELSE stride

\* Where the next call reads.
NextAddress == address + stride

MoveChunk ==
  /\ turn < part
  /\ moved' = moved \cup {<<turn * stride + e, address + e>> : e \in 0..(Count - 1)}
  /\ counted' = counted + Count
  /\ address' = NextAddress
  /\ turn' = turn + 1
  /\ UNCHANGED dataLen

ChunksFinished == turn = part /\ UNCHANGED chunksVars

ChunksNext == MoveChunk \/ ChunksFinished

ChunksSpec == ChunksInit /\ [][ChunksNext]_chunksVars

-----------------------------------------------------------------------------
(***************************************************************************)
(* Safety: when the loop ends every element has been moved to its own      *)
(* place, and none twice.                                                  *)
(***************************************************************************)
MovesAll ==
  turn = part =>
    /\ moved = {<<e, e>> : e \in 0..(dataLen - 1)}
    /\ counted = dataLen

(***************************************************************************)
(* Safety: at no time has an element been written to a wrong place or past *)
(* the end of either buffer, and every count fits in an int.               *)
(***************************************************************************)
StaysInside ==
  /\ \A m \in moved : m[1] = m[2] /\ m[1] < dataLen
  /\ Count \in 0..MaxInt
=============================================================================
