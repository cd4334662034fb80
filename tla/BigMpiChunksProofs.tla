------------------------- MODULE BigMpiChunksProofs -------------------------
(***************************************************************************)
(* The chunk loop of BigMpiGet and BigMpiBcast moves every element once,   *)
(* for every length and every INT_MAX.                                     *)
(***************************************************************************)
EXTENDS BigMpiChunks, TLAPS

\* The elements moved so far.
Done == IF turn = part THEN dataLen ELSE turn * stride

(***************************************************************************)
(* The inductive invariant.  The calls before the last one have moved      *)
(* turn * stride elements, all of them inside the buffer; the last one     *)
(* moves what is left.                                                     *)
(***************************************************************************)
Progress ==
  /\ turn \in 0..part
  /\ turn < part => address = turn * stride
  /\ counted = Done
  /\ moved = {<<e, e>> : e \in 0..(Done - 1)}

IInv == ChunksTypeOK /\ Progress

\* Division with remainder.
LEMMA Division ==
  ASSUME NEW n \in Nat, NEW d \in Nat \ {0}
  PROVE  /\ n \div d \in Nat
         /\ n % d \in 0..(d - 1)
         /\ n = d * (n \div d) + (n % d)
  OBVIOUS

\* Chunks of d elements, of which q fit and m elements are left over.
LEMMA Chunks ==
  ASSUME NEW d \in Nat, NEW q \in Nat, NEW m \in Nat, NEW k \in 0..q
  PROVE  /\ k * d \in Nat
         /\ k * d <= d * q + m
         /\ (k + 1) * d = k * d + d
         /\ k = q => d * q + m = k * d + m
         /\ k < q => (k + 1) * d <= d * q + m
  <1>1. k * d \in Nat /\ d * q \in Nat /\ (k + 1) * d = k * d + d
    OBVIOUS
  <1>2. PICK j \in Nat : q = k + j
    BY q - k \in Nat
  <1>3. d * q = k * d + d * j /\ d * j \in Nat
    BY <1>2
  <1>4. k < q => d <= d * j
    <2> SUFFICES ASSUME k < q PROVE d <= d * j
      OBVIOUS
    <2>1. PICK l \in Nat : j = l + 1
      BY <1>2, j - 1 \in Nat
    <2>2. d * j = d * l + d /\ d * l \in Nat
      BY <2>1
    <2> QED BY <2>2
  <1> QED BY <1>1, <1>3, <1>4

\* What the constants of the loop are, and where call number turn stands.
LEMMA Position ==
  ASSUME ChunksTypeOK, turn < part
  PROVE  /\ stride \in Nat \ {0} /\ part \in Nat \ {0} /\ remain \in 0..(stride - 1)
         /\ turn * stride \in 0..dataLen
         /\ (turn + 1) * stride = turn * stride + stride
         /\ turn = part - 1 => dataLen = turn * stride + remain
         /\ turn < part - 1 => (turn + 1) * stride <= dataLen
  <1> DEFINE q == dataLen \div MaxInt
             m == dataLen % MaxInt
  <1>1. dataLen \in Nat /\ turn \in Nat /\ MaxInt \in Nat \ {0}
    BY MaxIntAssumption, LengthsAssumption DEF ChunksTypeOK
  <1>2. q \in Nat /\ m \in 0..(MaxInt - 1) /\ dataLen = MaxInt * q + m
    BY <1>1, Division
  <1>3. part = q + 1 /\ remain = m /\ stride = MaxInt
    BY DEF part, remain, stride
  <1> HIDE DEF q, m
  <1>4. turn \in 0..q
    BY <1>1, <1>2, <1>3
  <1> QED BY <1>1, <1>2, <1>3, <1>4, Chunks

\* What one call adds to what has been moved.
LEMMA Step ==
  ASSUME IInv, turn < part
  PROVE  /\ Done = turn * stride /\ Count \in 0..stride
         /\ Done + Count \in 0..dataLen
         /\ (IF turn + 1 = part THEN dataLen ELSE (turn + 1) * stride) = Done + Count
  <1>1. turn \in Nat /\ dataLen \in Nat
    BY LengthsAssumption DEF IInv, ChunksTypeOK
  <1> QED BY <1>1, Position DEF IInv, Done, Count

\* Type correctness and Progress are inductive.
LEMMA InitIInv == ChunksInit => IInv
  <1> SUFFICES ASSUME ChunksInit PROVE IInv
    OBVIOUS
  <1>1. dataLen \in Nat /\ ChunksTypeOK
    BY LengthsAssumption DEF ChunksInit, ChunksTypeOK
  <1>2. 0 < part /\ 0 * stride = 0
    BY <1>1, Division, MaxIntAssumption DEF part, stride
  <1>3. part \in Nat /\ Done = 0
    BY <1>1, <1>2, Division, MaxIntAssumption DEF ChunksInit, Done, part, stride
  <1> QED BY <1>1, <1>2, <1>3 DEF ChunksInit, IInv, Progress

LEMMA NextIInv == IInv /\ [ChunksNext]_chunksVars => IInv'
  <1> SUFFICES ASSUME IInv, [ChunksNext]_chunksVars PROVE IInv'
    OBVIOUS
  <1>1. CASE MoveChunk
    <2>1. turn < part /\ dataLen' = dataLen /\ part' = part /\ stride' = stride
      BY <1>1 DEF MoveChunk, part, stride
    <2>2. /\ Done = turn * stride /\ Count \in 0..stride
          /\ Done + Count \in 0..dataLen
          /\ Done' = Done + Count
      BY <1>1, <2>1, Step DEF MoveChunk, Done
    <2>3. /\ turn \in Nat /\ dataLen \in Nat /\ address = turn * stride /\ counted = Done
          /\ moved = {<<e, e>> : e \in 0..(Done - 1)}
      BY <2>1, LengthsAssumption DEF IInv, ChunksTypeOK, Progress
    <2>4. stride \in Nat \ {0} /\ part \in Nat /\ (turn + 1) * stride = turn * stride + stride
      BY <2>1, Position DEF IInv
    <2>5. turn' = turn + 1 /\ turn' \in 0..part
      BY <1>1, <2>1, <2>3, <2>4 DEF MoveChunk
    <2>6. address' = turn' * stride
      BY <1>1, <2>3, <2>4, <2>5 DEF MoveChunk, NextAddress
    <2>7. counted' = Done'
      BY <1>1, <2>2, <2>3 DEF MoveChunk
    <2>8. moved' = {<<e, e>> : e \in 0..(Done' - 1)}
      <3>1. moved' = moved \cup {<<Done + e, Done + e>> : e \in 0..(Count - 1)}
        BY <1>1, <2>2, <2>3 DEF MoveChunk
      <3>2. \A e \in Nat : e \in 0..(Done + Count - 1) \ (0..(Done - 1)) =>
                             e - Done \in 0..(Count - 1) /\ e = Done + (e - Done)
        BY <2>2, <2>3, <2>4
      <3>3. \A e \in 0..(Count - 1) : Done + e \in 0..(Done + Count - 1)
        BY <2>2, <2>3, <2>4
      <3>4. 0..(Done - 1) \subseteq 0..(Done + Count - 1)
        BY <2>2, <2>3, <2>4
      <3> QED BY <2>2, <2>3, <3>1, <3>2, <3>3, <3>4
    <2>9. ChunksTypeOK'
      <3>1. Done' \in Nat /\ address' \in Nat
        BY <2>2, <2>3, <2>4, <2>5, <2>6
      <3>2. turn' \in Nat /\ dataLen' \in Lengths /\ counted' \in Nat
        BY <2>1, <2>5, <2>7, <2>4, <3>1 DEF IInv, ChunksTypeOK
      <3>3. moved' \subseteq Nat \X Nat
        <4>1. \A n \in Nat : {<<e, e>> : e \in 0..(n - 1)} \subseteq Nat \X Nat
          OBVIOUS
        <4> QED BY <2>8, <3>1, <4>1
      <3> QED BY <3>1, <3>2, <3>3 DEF ChunksTypeOK
    <2> QED BY <2>1, <2>5, <2>6, <2>7, <2>8, <2>9 DEF IInv, Progress
  <1>2. CASE ChunksFinished \/ UNCHANGED chunksVars
    BY <1>2 DEF ChunksFinished, chunksVars, IInv, ChunksTypeOK, Progress, Done, part, stride
  <1> QED BY <1>1, <1>2 DEF ChunksNext

THEOREM Inductive == ChunksSpec => []IInv
  BY InitIInv, NextIInv, PTL DEF ChunksSpec

\* The types of the loop's variables.
THEOREM ChunksTypeCorrect == ChunksSpec => []ChunksTypeOK
  <1>1. IInv => ChunksTypeOK
    BY DEF IInv
  <1> QED BY <1>1, Inductive, PTL

\* When the loop ends every element has been moved to its place, none twice.
THEOREM EveryElementMoved == ChunksSpec => []MovesAll
  <1>1. IInv => MovesAll
    BY DEF IInv, Progress, Done, MovesAll
  <1> QED BY <1>1, Inductive, PTL

\* No call goes past the end of a buffer, and every count fits in an int.
THEOREM NeverOutside == ChunksSpec => []StaysInside
  <1>1. ASSUME IInv PROVE StaysInside
    <2>1. turn \in Nat /\ dataLen \in Nat /\ MaxInt \in Nat \ {0}
      BY <1>1, MaxIntAssumption, LengthsAssumption DEF IInv, ChunksTypeOK
    <2>2. Done <= dataLen /\ Done \in Nat
      <3>1. CASE turn = part
        BY <2>1, <3>1 DEF Done
      <3>2. CASE turn # part
        <4>1. part \in Nat
          BY <2>1, Division DEF part, stride
        <4>2. turn < part
          BY <1>1, <2>1, <3>2, <4>1 DEF IInv, Progress
        <4>3. turn * stride \in 0..dataLen
          BY <1>1, <4>2, Position DEF IInv
        <4> QED BY <2>1, <3>2, <4>3 DEF Done
      <3> QED BY <3>1, <3>2
    <2>3. \A e \in moved : e[1] = e[2] /\ e[1] < dataLen
      BY <1>1, <2>1, <2>2 DEF IInv, Progress
    <2>4. remain \in 0..(MaxInt - 1)
      BY <2>1, Division DEF remain, stride
    <2>5. Count \in 0..MaxInt
      BY <2>1, <2>4 DEF Count, stride
    <2> QED BY <2>3, <2>5 DEF StaysInside
  <1> QED BY <1>1, Inductive, PTL
=============================================================================
