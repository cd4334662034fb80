----------------------- MODULE InlineFunctionsProofs ------------------------
(***************************************************************************)
(* For every number of ranks, functions and calls: types, what a rank      *)
(* remembers of its functions, and that the ranks, which decide from       *)
(* caches of their own whether to call MPI, are always in the same call.   *)
(***************************************************************************)
EXTENDS InlineFunctionsInvariants, WellFoundedInduction, TLAPS

Places == Collectives \cup LocalSteps

-----------------------------------------------------------------------------
(***************************************************************************)
(* Numbers                                                                 *)
(***************************************************************************)

LEMMA LeastNat ==
  ASSUME NEW T \in SUBSET Nat, T # {}
  PROVE  \E x \in T : \A y \in T : x <= y
<1>1. IsWellFoundedOn(OpToRel(<, Nat), Nat)
  BY NatLessThanWellFounded
<1>2. PICK x \in T : \A y \in T : ~ (<<y, x>> \in OpToRel(<, Nat))
  BY <1>1, WFMin
<1>3. \A y \in T : ~ (y < x)
  BY <1>2 DEF OpToRel
<1> QED BY <1>3

\* A set of numbers up to n that is not empty has a greatest one.
LEMMA GreatestUpTo ==
  ASSUME NEW n \in Nat, NEW T \in SUBSET (1..n), T # {}
  PROVE  \E x \in T : \A y \in T : y <= x
<1> DEFINE U == {n - x : x \in T}
<1>1. U \in SUBSET Nat /\ U # {}
  <2>1. \A x \in T : n - x \in Nat OBVIOUS
  <2>2. PICK x \in T : TRUE OBVIOUS
  <2>3. n - x \in U OBVIOUS
  <2> QED BY <2>1, <2>3
<1>2. PICK u \in U : \A v \in U : u <= v BY <1>1, LeastNat
<1>3. PICK x \in T : u = n - x BY <1>2
<1>4. ASSUME NEW y \in T PROVE y <= x
  <2>1. n - x <= n - y BY <1>2, <1>3
  <2> QED BY <2>1
<1> QED BY <1>4

LEMMA MinIs ==
  ASSUME NEW T \in SUBSET Nat, NEW f \in T, \A g \in T : f <= g
  PROVE  Min(T) = f
<1>1. \E x \in T : \A y \in T : x <= y OBVIOUS
<1>2. Min(T) \in T /\ \A y \in T : Min(T) <= y
  BY <1>1 DEF Min
<1>3. Min(T) <= f /\ f <= Min(T) /\ f \in Nat /\ Min(T) \in Nat
  BY <1>2
<1> QED BY <1>3

-----------------------------------------------------------------------------
(***************************************************************************)
(* The calls of the program                                                *)
(***************************************************************************)

LEMMA CallIs ==
  ASSUME TypeOK, NEW r \in Ranks, pos[r] <= NumCalls
  PROVE  /\ pos[r] \in 1..NumCalls /\ Call(r) \in Calls
         /\ Call(r).op \in Operations /\ Call(r).args \in ArgLists
         /\ Call(r).op \in Commands \cup {"run"} => Call(r).function \in Functions
<1>1. pos[r] \in 1..NumCalls BY CallsAssumption DEF TypeOK
<1>2. Call(r) \in Calls BY <1>1 DEF TypeOK, Call
<1> QED BY <1>1, <1>2, CallsAssumption DEF ArgLists

LEMMA LastFreeIsBefore ==
  ASSUME TypeOK, NEW r \in Ranks
  PROVE  LastFree(r) \in Nat /\ LastFree(r) < pos[r]
<1> DEFINE frees == {k \in 1..NumCalls : k < pos[r] /\ program[k].op = "free"}
<1>1. pos[r] \in Nat /\ pos[r] > 0 BY CallsAssumption DEF TypeOK
<1>2. CASE frees = {} BY <1>1, <1>2 DEF LastFree
<1>3. CASE frees # {}
  <2>1. \E k \in frees : \A l \in frees : l <= k
    <3>1. frees \in SUBSET (1..NumCalls) OBVIOUS
    <3> HIDE DEF frees
    <3> QED BY <1>3, <3>1, GreatestUpTo, CallsAssumption
  <2>2. LastFree(r) \in frees BY <1>3, <2>1 DEF LastFree
  <2> QED BY <1>1, <2>2
<1> QED BY <1>2, <1>3

\* Only a yt_free that returns is a later last one.
LEMMA LastFreeStays ==
  ASSUME TypeOK, NEW r \in Ranks, program' = program,
         \/ pos'[r] = pos[r]
         \/ pos'[r] = pos[r] + 1 /\ Call(r).op # "free"
  PROVE  LastFree(r)' = LastFree(r)
<1> DEFINE frees(p) == {k \in 1..NumCalls : k < p /\ program[k].op = "free"}
<1>1. frees(pos'[r]) = frees(pos[r])
  BY DEF TypeOK, Call
<1>2. LastFree(r) = IF frees(pos[r]) = {} THEN 0
                    ELSE CHOOSE k \in frees(pos[r]) : \A l \in frees(pos[r]) : l <= k
  BY DEF LastFree
<1>3. LastFree(r)' = IF frees(pos'[r]) = {} THEN 0
                     ELSE CHOOSE k \in frees(pos'[r]) : \A l \in frees(pos'[r]) : l <= k
  BY DEF LastFree
<1> HIDE DEF frees
<1> QED BY <1>1, <1>2, <1>3

LEMMA LastFreeMoves ==
  ASSUME TypeOK, NEW r \in Ranks, program' = program, pos[r] <= NumCalls,
         pos'[r] = pos[r] + 1, Call(r).op = "free"
  PROVE  LastFree(r)' = pos[r]
<1> DEFINE frees == {k \in 1..NumCalls : k < pos[r] + 1 /\ program[k].op = "free"}
<1>1. pos[r] \in 1..NumCalls BY CallIs
<1>2. pos[r] \in frees /\ \A l \in frees : l <= pos[r] BY <1>1 DEF Call
<1>3. LastFree(r)' = CHOOSE k \in frees : \A l \in frees : l <= k
  <2> HIDE DEF frees
  <2>1. frees # {} BY <1>2
  <2> QED BY <2>1 DEF LastFree, frees
<1>4. \A k \in frees : (\A l \in frees : l <= k) => k = pos[r]
  BY <1>1, <1>2
<1> QED
  <2> HIDE DEF frees
  <2> QED BY <1>2, <1>3, <1>4

\* It depends on the place in the program only.
LEMMA LastFreeSame ==
  ASSUME NEW r, NEW q, pos[r] = pos[q]
  PROVE  LastFree(r) = LastFree(q)
BY DEF LastFree

-----------------------------------------------------------------------------
(***************************************************************************)
(* A step of one rank                                                      *)
(***************************************************************************)

MovesTo(r, p, place, f) ==
  /\ pos' = [pos EXCEPT ![r] = p]
  /\ pc' = [pc EXCEPT ![r] = place]
  /\ at' = [at EXCEPT ![r] = f]

Learns(r, f, i) == info' = [info EXCEPT ![r] = [info[r] EXCEPT ![f] = i]]

\* The rank goes on in its call, or returns from one that is not yt_free.
Proceeds(r, p) ==
  p = pos[r] \/ (p = pos[r] + 1 /\ pos[r] <= NumCalls /\ Call(r).op # "free")

OthersRest(r) ==
  /\ program' = program
  /\ \A q \in Ranks \ {r} :
       /\ pos'[q] = pos[q] /\ pc'[q] = pc[q] /\ at'[q] = at[q]
       /\ info'[q] = info[q] /\ errMsg'[q] = errMsg[q] /\ ended'[q] = ended[q]

BookOf(r) == [f \in Functions |-> Book(info[r][f])]

LEMMA Moved ==
  ASSUME TypeOK, NEW r \in Ranks, NEW p, NEW place \in Places,
         NEW f \in 0..(NumFunctions + 1), MovesTo(r, p, place, f), Proceeds(r, p)
  PROVE  /\ pos' \in [Ranks -> 1..(NumCalls + 1)]
         /\ pc' \in [Ranks -> Places]
         /\ at' \in [Ranks -> 0..(NumFunctions + 1)]
         /\ pos'[r] = p /\ pc'[r] = place /\ at'[r] = f
         /\ \A q \in Ranks \ {r} :
              pos'[q] = pos[q] /\ pc'[q] = pc[q] /\ at'[q] = at[q]
<1>1. p \in 1..(NumCalls + 1)
  BY CallsAssumption DEF TypeOK, Proceeds
<1>2. /\ pos \in [Ranks -> 1..(NumCalls + 1)] /\ pc \in [Ranks -> Places]
      /\ at \in [Ranks -> 0..(NumFunctions + 1)]
  BY DEF TypeOK, Places
<1> QED BY <1>1, <1>2 DEF MovesTo

LEMMA Learned ==
  ASSUME TypeOK, NEW r \in Ranks, NEW f \in Functions, NEW i \in FunctionInfos,
         Learns(r, f, i)
  PROVE  /\ info' \in [Ranks -> [Functions -> FunctionInfos]]
         /\ info'[r][f] = i
         /\ \A g \in Functions \ {f} : info'[r][g] = info[r][g]
         /\ \A q \in Ranks \ {r} : info'[q] = info[q]
         /\ BookOf(r)' = [BookOf(r) EXCEPT ![f] = Book(i)]
<1>1. info \in [Ranks -> [Functions -> FunctionInfos]]
  BY DEF TypeOK
<1>2. info'[r] = [info[r] EXCEPT ![f] = i] /\ info[r] \in [Functions -> FunctionInfos]
  BY <1>1 DEF Learns
<1>3. \A q \in Ranks \ {r} : info'[q] = info[q]
  BY <1>1 DEF Learns
<1>4. info'[r] \in [Functions -> FunctionInfos]
  BY <1>2
<1>5. info' \in [Ranks -> [Functions -> FunctionInfos]]
  <2>1. info' = [info EXCEPT ![r] = info'[r]] BY <1>2 DEF Learns
  <2> QED BY <1>1, <1>4, <2>1
<1>6. info'[r][f] = i /\ \A g \in Functions \ {f} : info'[r][g] = info[r][g]
  BY <1>2
<1>7. BookOf(r)' = [BookOf(r) EXCEPT ![f] = Book(i)]
  BY <1>6 DEF BookOf
<1> QED BY <1>3, <1>5, <1>6, <1>7

\* The rank is at its place, the others have not moved.
Arrives(r, p, place, f, book) ==
  /\ TypeOK' /\ OwnHistory(r)' /\ OthersRest(r)
  /\ LastFree(r)' = LastFree(r)
  /\ pos'[r] = p /\ pc'[r] = place /\ at'[r] = f
  /\ StandOf'[r] = Stand(p, place, f, book)

\* A step that changes no function.
LEMMA PlainStep ==
  ASSUME OwnInv, NEW r \in Ranks, NEW p, NEW place \in Places,
         NEW f \in 0..(NumFunctions + 1), MovesTo(r, p, place, f), Proceeds(r, p),
         UNCHANGED <<program, info, errMsg, ended>>
  PROVE  Arrives(r, p, place, f, BookOf(r))
<1>1. TypeOK /\ OwnHistory(r) BY DEF OwnInv
<1>2. /\ pos' \in [Ranks -> 1..(NumCalls + 1)]
      /\ pc' \in [Ranks -> Places]
      /\ at' \in [Ranks -> 0..(NumFunctions + 1)]
      /\ pos'[r] = p /\ pc'[r] = place /\ at'[r] = f
      /\ \A q \in Ranks \ {r} :
           pos'[q] = pos[q] /\ pc'[q] = pc[q] /\ at'[q] = at[q]
  BY <1>1, Moved
<1>3. TypeOK' BY <1>1, <1>2 DEF TypeOK, Places
<1>4. LastFree(r)' = LastFree(r)
  BY <1>1, <1>2, LastFreeStays DEF Proceeds
<1>5. OwnHistory(r)'
  <2> SUFFICES ASSUME NEW g \in Functions PROVE Remembered(r, g)'
    BY DEF OwnHistory
  <2>1. Remembered(r, g) BY <1>1 DEF OwnHistory
  <2>2. pos'[r] >= pos[r] /\ pos[r] \in Nat /\ pos'[r] \in Nat
        /\ ended[r][g].call \in Nat
    BY <1>1, <1>2, CallsAssumption DEF Proceeds, TypeOK
  <2> QED BY <1>4, <2>1, <2>2 DEF Remembered, Info
<1>6. StandOf'[r] = Stand(p, place, f, BookOf(r))
  BY <1>2 DEF StandOf, BookOf, Stand
<1>7. OthersRest(r) BY <1>2 DEF OthersRest
<1> QED BY <1>2, <1>3, <1>4, <1>5, <1>6, <1>7 DEF Arrives

\* What is newly known of a function does not say that it has run.
NothingRan(i, old) ==
  /\ i.status = "success" => old.status = "success"
  /\ i.all = "success" => i.status = "success"
  /\ i.run = "unlisted" \/ i.status = "not_executed" =>
       old.run = "unlisted" \/ old.status = "not_executed"

\* A step that changes what is known of a function, and does not run it.
LearnsAndMoves(r, p, place, f, g, i) ==
  /\ MovesTo(r, p, place, f) /\ Proceeds(r, p)
  /\ Learns(r, g, i) /\ NothingRan(i, Info(r, g))
  /\ UNCHANGED <<program, errMsg, ended>>

LEMMA LearningStep ==
  ASSUME OwnInv, NEW r \in Ranks, NEW p, NEW place \in Places,
         NEW f \in 0..(NumFunctions + 1), NEW g \in Functions, NEW i \in FunctionInfos,
         LearnsAndMoves(r, p, place, f, g, i)
  PROVE  /\ Arrives(r, p, place, f, [BookOf(r) EXCEPT ![g] = Book(i)])
         /\ info'[r][g] = i /\ \A h \in Functions \ {g} : info'[r][h] = info[r][h]
<1>0. /\ MovesTo(r, p, place, f) /\ Proceeds(r, p) /\ Learns(r, g, i)
      /\ UNCHANGED <<program, errMsg, ended>>
      /\ i.status = "success" => Info(r, g).status = "success"
      /\ i.all = "success" => i.status = "success"
      /\ i.run = "unlisted" \/ i.status = "not_executed" =>
           Info(r, g).run = "unlisted" \/ Info(r, g).status = "not_executed"
  BY DEF LearnsAndMoves, NothingRan
<1>1. TypeOK /\ OwnHistory(r) BY DEF OwnInv
<1>2. /\ pos' \in [Ranks -> 1..(NumCalls + 1)]
      /\ pc' \in [Ranks -> Places]
      /\ at' \in [Ranks -> 0..(NumFunctions + 1)]
      /\ pos'[r] = p /\ pc'[r] = place /\ at'[r] = f
      /\ \A q \in Ranks \ {r} :
           pos'[q] = pos[q] /\ pc'[q] = pc[q] /\ at'[q] = at[q]
  BY <1>0, <1>1, Moved
<1>3. /\ info' \in [Ranks -> [Functions -> FunctionInfos]]
      /\ info'[r][g] = i
      /\ \A h \in Functions \ {g} : info'[r][h] = info[r][h]
      /\ \A q \in Ranks \ {r} : info'[q] = info[q]
      /\ BookOf(r)' = [BookOf(r) EXCEPT ![g] = Book(i)]
  BY <1>0, <1>1, Learned
<1>4. TypeOK' BY <1>0, <1>1, <1>2, <1>3 DEF TypeOK, Places
<1>5. LastFree(r)' = LastFree(r)
  BY <1>0, <1>1, <1>2, LastFreeStays DEF Proceeds
<1>6. OwnHistory(r)'
  <2> SUFFICES ASSUME NEW h \in Functions PROVE Remembered(r, h)'
    BY DEF OwnHistory
  <2>1. Remembered(r, h) BY <1>1 DEF OwnHistory
  <2>2. pos'[r] >= pos[r] /\ pos[r] \in Nat /\ pos'[r] \in Nat
        /\ ended[r][h].call \in Nat
    BY <1>0, <1>1, <1>2, CallsAssumption DEF Proceeds, TypeOK
  <2>3. CASE h = g
    BY <1>0, <1>3, <1>5, <2>1, <2>2, <2>3 DEF Remembered, Info
  <2>4. CASE h # g
    BY <1>0, <1>3, <1>5, <2>1, <2>2, <2>4 DEF Remembered, Info
  <2> QED BY <2>3, <2>4
<1>7. StandOf'[r] = Stand(p, place, f, [BookOf(r) EXCEPT ![g] = Book(i)])
  <2>1. StandOf'[r] = Stand(p, place, f, BookOf(r)')
    BY <1>2 DEF StandOf, BookOf, Stand
  <2> QED BY <1>3, <2>1
<1>8. OthersRest(r) BY <1>0, <1>2, <1>3 DEF OthersRest
<1>9. Arrives(r, p, place, f, [BookOf(r) EXCEPT ![g] = Book(i)])
  BY <1>2, <1>4, <1>5, <1>6, <1>7, <1>8 DEF Arrives
<1> QED BY <1>3, <1>9 DEF Info

Endeds == {"returns", "raises", "escapes"}

\* A step in which Python runs a function.
LEMMA ExecuteStep ==
  ASSUME OwnInv, NEW r \in Ranks, NEW p, NEW place \in Places,
         NEW f \in 0..(NumFunctions + 1), MovesTo(r, p, place, f), Proceeds(r, p),
         pos[r] <= NumCalls,
         NEW g \in Functions, NEW ending \in Endeds, Execute(r, g, ending),
         program' = program, Info(r, g).run # "unlisted"
  PROVE  /\ Arrives(r, p, place, f, [BookOf(r) EXCEPT ![g] = Executed(@)])
         /\ \A h \in Functions : Info(r, h)'.run = Info(r, h).run
         /\ \A h \in Functions : Info(r, h)'.msgs = Info(r, h).msgs
         /\ Info(r, g)'.all = "need_update"
         /\ \A h \in Functions \ {g} : ended'[r][h] = ended[r][h]
<1> DEFINE status == StatusAfter(r, g, ending)
           i == [info[r][g] EXCEPT !.status = status, !.all = "need_update"]
<1>1. TypeOK /\ OwnHistory(r) BY DEF OwnInv
<1>2. /\ pos' \in [Ranks -> 1..(NumCalls + 1)]
      /\ pc' \in [Ranks -> Places]
      /\ at' \in [Ranks -> 0..(NumFunctions + 1)]
      /\ pos'[r] = p /\ pc'[r] = place /\ at'[r] = f
      /\ \A q \in Ranks \ {r} :
           pos'[q] = pos[q] /\ pc'[q] = pc[q] /\ at'[q] = at[q]
  BY <1>1, Moved
<1>3. status \in {"failed", "success"} BY DEF StatusAfter
<1>4. info[r][g] \in FunctionInfos BY <1>1 DEF TypeOK
<1>5. i \in FunctionInfos
  <2> HIDE DEF status
  <2> QED BY <1>3, <1>4 DEF FunctionInfos, Statuses
<1>6. Learns(r, g, i)
  <2>1. info' = [info EXCEPT ![r][g].status = status, ![r][g].all = "need_update"]
    BY DEF Execute, OverallAfter
  <2> HIDE DEF status
  <2> QED BY <1>1, <2>1 DEF Learns, TypeOK
<1>7. /\ info' \in [Ranks -> [Functions -> FunctionInfos]]
      /\ info'[r][g] = i
      /\ \A h \in Functions \ {g} : info'[r][h] = info[r][h]
      /\ \A q \in Ranks \ {r} : info'[q] = info[q]
      /\ BookOf(r)' = [BookOf(r) EXCEPT ![g] = Book(i)]
  <2> HIDE DEF i
  <2> QED BY <1>1, <1>5, <1>6, Learned
<1>8. i.status = status /\ i.all = "need_update" /\ i.run = info[r][g].run
      /\ i.msgs = info[r][g].msgs
  <2> HIDE DEF status
  <2> QED BY <1>4 DEF FunctionInfos
<1>9. Book(i) = Executed(Book(info[r][g]))
  <2> HIDE DEF status
  <2>1. /\ i.run = info[r][g].run /\ i.args = info[r][g].args
        /\ i.wrapper = info[r][g].wrapper /\ i.msgs = info[r][g].msgs
        /\ i.all = "need_update" /\ i.status # "not_executed"
    BY <1>3, <1>4 DEF FunctionInfos
  <2> HIDE DEF i
  <2>2. Book(i) = Entry(i.run, i.args, i.wrapper, "yes", "need_update", i.msgs)
    BY <2>1 DEF Book
  <2> QED BY <2>1, <2>2 DEF Book, Executed, Entry
<1> HIDE DEF i
<1>10. pos[r] \in 1..NumCalls /\ pos[r] > 0 BY <1>1, CallIs
<1>11. /\ errMsg' \in [Ranks -> [Functions -> 0..NumCalls]]
       /\ errMsg'[r][g] = MessageAfter(r, g, ending)
       /\ \A h \in Functions \ {g} : errMsg'[r][h] = errMsg[r][h]
       /\ \A q \in Ranks \ {r} : errMsg'[q] = errMsg[q]
  <2>1. MessageAfter(r, g, ending) \in 0..NumCalls
    BY <1>1, <1>10 DEF MessageAfter, TypeOK
  <2>2. errMsg' = [errMsg EXCEPT ![r][g] = MessageAfter(r, g, ending)]
    BY DEF Execute
  <2> QED BY <1>1, <2>1, <2>2 DEF TypeOK
<1> DEFINE Ends == [how : {"never", "returns", "raises", "escapes"}, call : 0..NumCalls]
           e == [how |-> ending, call |-> pos[r]]
<1>12. /\ ended' \in [Ranks -> [Functions -> Ends]]
       /\ ended'[r][g] = e
       /\ \A h \in Functions \ {g} : ended'[r][h] = ended[r][h]
       /\ \A q \in Ranks \ {r} : ended'[q] = ended[q]
  <2>1. e \in Ends BY <1>10 DEF Endeds
  <2>2. ended' = [ended EXCEPT ![r][g] = e] BY DEF Execute
  <2>3. ended \in [Ranks -> [Functions -> Ends]] BY <1>1 DEF TypeOK
  <2> HIDE DEF e, Ends
  <2> QED BY <2>1, <2>2, <2>3
<1>13. TypeOK' BY <1>1, <1>2, <1>7, <1>11, <1>12 DEF TypeOK, Places
<1>14. LastFree(r)' = LastFree(r) /\ LastFree(r) < pos[r] /\ LastFree(r) \in Nat
  BY <1>1, <1>2, LastFreeStays, LastFreeIsBefore DEF Proceeds
<1>15. pos'[r] >= pos[r] /\ pos[r] \in Nat /\ pos'[r] \in Nat
  BY <1>1, <1>2, CallsAssumption DEF Proceeds, TypeOK
<1>16. OwnHistory(r)'
  <2> SUFFICES ASSUME NEW h \in Functions PROVE Remembered(r, h)'
    BY DEF OwnHistory
  <2>1. Remembered(r, h) BY <1>1 DEF OwnHistory
  <2>2. ended[r][h].call \in Nat BY <1>1, CallsAssumption DEF TypeOK
  <2>3. CASE h = g
    <3>1. /\ Info(r, h)' = i /\ ended'[r][h].how = ending /\ ended'[r][h].call = pos[r]
          /\ errMsg'[r][h] = MessageAfter(r, g, ending)
      BY <1>7, <1>11, <1>12, <2>3 DEF Info
    <3>2. status = "success" => ending = "returns"
      BY <1>10 DEF StatusAfter, MessageAfter, Endeds
    <3>3. MessageAfter(r, g, ending) # 0 => MessageAfter(r, g, ending) > LastFree(r)
      BY <1>10, <1>14, <2>1, <2>3 DEF MessageAfter, Remembered
    <3>4. i.run # "unlisted" /\ i.status # "not_executed" /\ i.all # "success"
      BY <1>3, <1>8 DEF Info
    <3> QED
      BY <1>8, <1>14, <1>15, <3>1, <3>2, <3>3, <3>4 DEF Remembered
  <2>4. CASE h # g
    <3>1. /\ Info(r, h)' = Info(r, h) /\ ended'[r][h] = ended[r][h]
          /\ errMsg'[r][h] = errMsg[r][h]
      BY <1>7, <1>11, <1>12, <2>4 DEF Info
    <3> QED
      BY <1>14, <1>15, <2>1, <2>2, <3>1 DEF Remembered
  <2> QED BY <2>3, <2>4
<1>17. StandOf'[r] = Stand(p, place, f, [BookOf(r) EXCEPT ![g] = Executed(@)])
  <2>1. StandOf'[r] = Stand(p, place, f, BookOf(r)')
    BY <1>2 DEF StandOf, BookOf, Stand
  <2>2. BookOf(r)' = [BookOf(r) EXCEPT ![g] = Executed(@)]
    <3>1. BookOf(r)[g] = Book(info[r][g]) BY DEF BookOf
    <3> QED BY <1>7, <1>9, <3>1
  <2> QED BY <2>1, <2>2
<1>18. \A h \in Functions : Info(r, h)'.run = Info(r, h).run /\ Info(r, h)'.msgs = Info(r, h).msgs
  BY <1>7, <1>8 DEF Info
<1>19. OthersRest(r)
  BY <1>2, <1>7, <1>11, <1>12 DEF OthersRest
<1>20. Arrives(r, p, place, f, [BookOf(r) EXCEPT ![g] = Executed(@)])
  BY <1>2, <1>13, <1>14, <1>16, <1>17, <1>19 DEF Arrives
<1> QED BY <1>7, <1>8, <1>12, <1>18, <1>20 DEF Info

-----------------------------------------------------------------------------
(***************************************************************************)
(* What each step of a rank does                                           *)
(***************************************************************************)

\* All that is needed of it.
OwnStep(r) ==
  /\ TypeOK' /\ InCall(r)' /\ OwnHistory(r)' /\ OthersRest(r)
  /\ GoesOn(StandOf[r])
  /\ Before(StandOf[r], StandOf'[r])
  /\ Uncaught = FALSE => StandOf'[r] = After(Call(r), StandOf[r])
  /\ \A f \in Functions :
       \/ info'[r][f].msgs = NoMsgs
       \/ info'[r][f].msgs = info[r][f].msgs /\ LastFree(r)' = LastFree(r)
  /\ \A f \in Functions :
       pc[r] = "each" /\ ended'[r][f] # ended[r][f] => ended[r][f].call <= LastFree(r)

LEMMA StandIs ==
  ASSUME TypeOK, NEW r \in Ranks
  PROVE  /\ StandOf[r] = Stand(pos[r], pc[r], at[r], BookOf(r))
         /\ StandOf[r].pos = pos[r] /\ StandOf[r].pc = pc[r] /\ StandOf[r].at = at[r]
         /\ StandOf[r].book = BookOf(r)
         /\ BookOf(r) \in [Functions -> Books] /\ StandOf[r] \in Stands
<1>1. StandOf[r] = Stand(pos[r], pc[r], at[r], BookOf(r))
  BY DEF StandOf, BookOf
<1>2. BookOf(r) \in [Functions -> Books]
  BY DEF TypeOK, BookOf, Books
<1>3. StandOf[r] \in Stands
  BY <1>1, <1>2 DEF TypeOK, Stand, Stands
<1> QED BY <1>1, <1>2, <1>3 DEF Stand

LEMMA BookIs ==
  ASSUME NEW r \in Ranks, NEW f \in Functions
  PROVE  /\ BookOf(r)[f] = Book(Info(r, f))
         /\ BookOf(r)[f].run = Info(r, f).run /\ BookOf(r)[f].args = Info(r, f).args
         /\ BookOf(r)[f].wrapper = Info(r, f).wrapper
         /\ BookOf(r)[f].all = Info(r, f).all /\ BookOf(r)[f].msgs = Info(r, f).msgs
         /\ BookOf(r)[f].ran = IF Info(r, f).status = "not_executed" THEN "no" ELSE "yes"
BY DEF BookOf, Info, Book, Entry

\* How a step that arrives is one.
LEMMA ArrivingIsOwnStep ==
  ASSUME OwnInv, NEW r \in Ranks, NEW p, NEW place, NEW f, NEW book,
         Arrives(r, p, place, f, book), InCall(r)',
         pc[r] \in LocalSteps, pos[r] <= NumCalls,
         (p = pos[r] /\ place # "between") \/ p = pos[r] + 1,
         Uncaught = FALSE => Stand(p, place, f, book) = After(Call(r), StandOf[r]),
         \A g \in Functions : info'[r][g].msgs = info[r][g].msgs \/ info'[r][g].msgs = NoMsgs,
         \A g \in Functions :
           pc[r] = "each" /\ ended'[r][g] # ended[r][g] => ended[r][g].call <= LastFree(r)
  PROVE  OwnStep(r)
<1>1. TypeOK /\ pos[r] \in Nat BY CallsAssumption DEF OwnInv, TypeOK
<1>2. StandOf[r].pos = pos[r] /\ StandOf[r].pc = pc[r]
  BY <1>1, StandIs
<1>3. GoesOn(StandOf[r])
  BY <1>2 DEF GoesOn
<1>4. StandOf'[r].pos = p /\ StandOf'[r].pc = place
  BY DEF Arrives, Stand
<1>5. Before(StandOf[r], StandOf'[r])
  BY <1>1, <1>2, <1>4 DEF Before
<1> QED BY <1>3, <1>5 DEF OwnStep, Arrives

\* Between calls the rank is in none.
LEMMA ReturnedIsInCall ==
  ASSUME NEW r, pc'[r] = "between"
  PROVE  InCall(r)'
BY DEF InCall

LEMMA RestMoves ==
  ASSUME TypeOK, NEW r \in Ranks, NEW place, NEW f, Goto(r, place, f), UNCHANGED pos
  PROVE  MovesTo(r, pos[r], place, f) /\ Proceeds(r, pos[r])
BY DEF TypeOK, Goto, MovesTo, Proceeds

LEMMA ReturnMoves ==
  ASSUME TypeOK, NEW r \in Ranks, Return(r), pos[r] <= NumCalls, Call(r).op # "free"
  PROVE  MovesTo(r, pos[r] + 1, "between", 0) /\ Proceeds(r, pos[r] + 1)
BY DEF TypeOK, Goto, MovesTo, Proceeds, Return

LEMMA Fits ==
  /\ 0 \in 0..(NumFunctions + 1) /\ 1 \in 0..(NumFunctions + 1)
  /\ \A f \in Functions : f \in 0..(NumFunctions + 1) /\ f \in Nat
  /\ Collectives \subseteq Places /\ LocalSteps \subseteq Places
BY FunctionsAssumption DEF Functions, Places

LEMMA EnterDoes ==
  ASSUME OwnInv, NEW r \in Ranks, Enter(r)
  PROVE  OwnStep(r)
<1>1. TypeOK /\ pc[r] = "between" /\ pos[r] <= NumCalls /\ Call(r).op \in EntryPoints
  BY DEF OwnInv, Enter, AtCall
<1>2. Goto(r, "each", 1) /\ UNCHANGED <<program, pos, info, errMsg, ended>>
  BY DEF Enter
<1>3. MovesTo(r, pos[r], "each", 1) /\ Proceeds(r, pos[r])
  BY <1>1, <1>2, RestMoves
<1>4. Arrives(r, pos[r], "each", 1, BookOf(r))
  BY <1>2, <1>3, PlainStep, Fits DEF LocalSteps
<1>5. InCall(r)'
  BY <1>1, <1>2, <1>4 DEF InCall, Call, Arrives
<1>6. Stand(pos[r], "each", 1, BookOf(r)) = After(Call(r), StandOf[r])
  BY <1>1, StandIs DEF After, AfterBetween, EntryPoints
<1> QED BY <1>1, <1>2, <1>4, <1>5, <1>6, ArrivingIsOwnStep DEF LocalSteps

LEMMA StartFreeDoes ==
  ASSUME OwnInv, NEW r \in Ranks, StartFree(r)
  PROVE  OwnStep(r)
<1>1. TypeOK /\ pc[r] = "between" /\ pos[r] <= NumCalls /\ Call(r).op = "free"
  BY DEF OwnInv, StartFree, AtCall
<1>2. Goto(r, "free_barrier", 0) /\ UNCHANGED <<program, pos, info, errMsg, ended>>
  BY DEF StartFree
<1>3. MovesTo(r, pos[r], "free_barrier", 0) /\ Proceeds(r, pos[r])
  BY <1>1, <1>2, RestMoves
<1>4. Arrives(r, pos[r], "free_barrier", 0, BookOf(r))
  BY <1>2, <1>3, PlainStep, Fits DEF Collectives, Barriers
<1>5. InCall(r)'
  BY <1>1, <1>2, <1>4 DEF InCall, Call, Arrives
<1>6. Stand(pos[r], "free_barrier", 0, BookOf(r)) = After(Call(r), StandOf[r])
  BY <1>1, StandIs DEF After, AfterBetween, EntryPoints
<1> QED BY <1>1, <1>2, <1>4, <1>5, <1>6, ArrivingIsOwnStep DEF LocalSteps

LEMMA CommandDoes ==
  ASSUME OwnInv, NEW r \in Ranks, Command(r)
  PROVE  OwnStep(r)
<1>1. TypeOK /\ pc[r] = "between" /\ pos[r] <= NumCalls /\ Call(r).op \in Commands
  BY DEF OwnInv, Command, AtCall
<1> DEFINE f == Call(r).function
<1>2. f \in Functions
  BY <1>1, CallIs
<1>3. Goto(r, "command", f) /\ UNCHANGED <<program, pos, info, errMsg, ended>>
  BY DEF Command
<1>4. MovesTo(r, pos[r], "command", f) /\ Proceeds(r, pos[r])
  BY <1>1, <1>3, RestMoves
<1>5. Arrives(r, pos[r], "command", f, BookOf(r))
  BY <1>2, <1>3, <1>4, PlainStep, Fits DEF Collectives, Broadcasts
<1>6. InCall(r)'
  BY <1>1, <1>3, <1>5 DEF InCall, Call, Arrives
<1>7. Stand(pos[r], "command", f, BookOf(r)) = After(Call(r), StandOf[r])
  BY <1>1, StandIs DEF After, AfterBetween, Commands, EntryPoints
<1> QED BY <1>1, <1>3, <1>5, <1>6, <1>7, ArrivingIsOwnStep DEF LocalSteps

LEMMA GetAllErrorMsgDoes ==
  ASSUME OwnInv, NEW r \in Ranks, GetAllErrorMsg(r)
  PROVE  OwnStep(r)
<1>1. /\ TypeOK /\ pc[r] = "messages" /\ pos[r] <= NumCalls /\ Call(r).op \in Commands
      /\ at[r] = Call(r).function
  BY DEF OwnInv, GetAllErrorMsg, InCall
<1>2. at[r] \in Functions /\ Call(r).op # "free"
  BY <1>1, CallIs DEF Commands
<1>3. UNCHANGED <<program, info, errMsg, ended>>
  BY DEF GetAllErrorMsg
<1>4. CASE Info(r, at[r]).all = "failed" /\ Info(r, at[r]).msgs = NoMsgs
  <2>1. Goto(r, "gather_messages", at[r]) /\ UNCHANGED pos
    BY <1>4 DEF GetAllErrorMsg
  <2>2. MovesTo(r, pos[r], "gather_messages", at[r]) /\ Proceeds(r, pos[r])
    BY <1>1, <2>1, RestMoves
  <2>3. Arrives(r, pos[r], "gather_messages", at[r], BookOf(r))
    BY <1>2, <1>3, <2>2, PlainStep, Fits DEF Collectives
  <2>4. InCall(r)'
    BY <1>1, <1>3, <2>1, <2>3 DEF InCall, Call, Arrives
  <2>5. Stand(pos[r], "gather_messages", at[r], BookOf(r)) = After(Call(r), StandOf[r])
    BY <1>1, <1>2, <1>4, StandIs, BookIs DEF After, AfterMessages
  <2> QED BY <1>1, <1>3, <2>3, <2>4, <2>5, ArrivingIsOwnStep DEF LocalSteps
<1>5. CASE ~(Info(r, at[r]).all = "failed" /\ Info(r, at[r]).msgs = NoMsgs)
  <2>1. Return(r)
    BY <1>5 DEF GetAllErrorMsg
  <2>2. MovesTo(r, pos[r] + 1, "between", 0) /\ Proceeds(r, pos[r] + 1)
    BY <1>1, <1>2, <2>1, ReturnMoves
  <2>3. Arrives(r, pos[r] + 1, "between", 0, BookOf(r))
    BY <1>2, <1>3, <2>2, PlainStep, Fits DEF LocalSteps
  <2>4. InCall(r)'
    BY <2>3, ReturnedIsInCall DEF Arrives
  <2>5. Stand(pos[r] + 1, "between", 0, BookOf(r)) = After(Call(r), StandOf[r])
    BY <1>1, <1>2, <1>5, StandIs, BookIs DEF After, AfterMessages, Returned
  <2> QED BY <1>1, <1>3, <2>3, <2>4, <2>5, ArrivingIsOwnStep DEF LocalSteps
<1> QED BY <1>4, <1>5

LEMMA GetFunctionStatusDoes ==
  ASSUME OwnInv, NEW r \in Ranks, GetFunctionStatus(r)
  PROVE  OwnStep(r)
<1>1. /\ TypeOK /\ pc[r] = "magic" /\ pos[r] <= NumCalls /\ Call(r).op = "status"
      /\ at[r] = Call(r).function
  BY DEF OwnInv, GetFunctionStatus, InCall
<1>2. at[r] \in Functions /\ Call(r).op # "free" /\ Call(r).op \in Commands
  BY <1>1, CallIs DEF Commands
<1>3. UNCHANGED <<program, info, errMsg, ended>>
  BY DEF GetFunctionStatus
<1>4. CASE at[r] \in Listed(r)
  <2> DEFINE place == IF Info(r, at[r]).all = "need_update" THEN "sync_status" ELSE "messages"
  <2>1. Goto(r, place, at[r]) /\ UNCHANGED pos
    BY <1>4 DEF GetFunctionStatus
  <2>2. MovesTo(r, pos[r], place, at[r]) /\ Proceeds(r, pos[r])
    BY <1>1, <2>1, RestMoves
  <2>3. place \in Places /\ place \in {"sync_status", "messages"}
    BY Fits DEF Collectives, Reductions, LocalSteps
  <2>4. Stand(pos[r], place, at[r], BookOf(r)) = After(Call(r), StandOf[r])
    BY <1>1, <1>2, <1>4, StandIs, BookIs DEF After, AfterMagic, Listed
  <2> HIDE DEF place
  <2>5. Arrives(r, pos[r], place, at[r], BookOf(r))
    BY <1>2, <1>3, <2>2, <2>3, PlainStep, Fits
  <2>6. InCall(r)'
    BY <1>1, <1>2, <1>3, <2>1, <2>3, <2>5 DEF InCall, Call, Arrives
  <2> QED BY <1>1, <1>3, <2>3, <2>4, <2>5, <2>6, ArrivingIsOwnStep DEF LocalSteps
<1>5. CASE at[r] \notin Listed(r)
  <2>1. Return(r)
    BY <1>5 DEF GetFunctionStatus
  <2>2. MovesTo(r, pos[r] + 1, "between", 0) /\ Proceeds(r, pos[r] + 1)
    BY <1>1, <1>2, <2>1, ReturnMoves
  <2>3. Arrives(r, pos[r] + 1, "between", 0, BookOf(r))
    BY <1>2, <1>3, <2>2, PlainStep, Fits DEF LocalSteps
  <2>4. InCall(r)'
    BY <2>3, ReturnedIsInCall DEF Arrives
  <2>5. Stand(pos[r] + 1, "between", 0, BookOf(r)) = After(Call(r), StandOf[r])
    <3>1. Info(r, at[r]).run = "unlisted" BY <1>2, <1>5 DEF Listed
    <3>2. [BookOf(r) EXCEPT ![at[r]] = BookOf(r)[at[r]]] = BookOf(r) BY DEF BookOf
    <3> QED
      BY <1>1, <1>2, <3>1, <3>2, StandIs, BookIs DEF After, AfterMagic, Returned
  <2> QED BY <1>1, <1>3, <2>3, <2>4, <2>5, ArrivingIsOwnStep DEF LocalSteps
<1> QED BY <1>4, <1>5

LEMMA StatusBoardDoes ==
  ASSUME OwnInv, NEW r \in Ranks, StatusBoard(r)
  PROVE  OwnStep(r)
<1>1. TypeOK /\ pc[r] = "board" /\ pos[r] <= NumCalls /\ Call(r).op = "enter"
  BY DEF OwnInv, StatusBoard, InCall
<1>2. UNCHANGED <<program, info, errMsg, ended>>
  BY DEF StatusBoard
<1>3. DueToUpdate(StandOf[r]) = ToUpdate(r)
  BY <1>1, StandIs, BookIs DEF DueToUpdate, ToUpdate, Listed
<1>4. CASE ToUpdate(r) = {}
  <2>1. Return(r)
    BY <1>4 DEF StatusBoard
  <2>2. MovesTo(r, pos[r] + 1, "between", 0) /\ Proceeds(r, pos[r] + 1)
    BY <1>1, <2>1, ReturnMoves
  <2>3. Arrives(r, pos[r] + 1, "between", 0, BookOf(r))
    BY <1>2, <2>2, PlainStep, Fits DEF LocalSteps
  <2>4. InCall(r)'
    BY <2>3, ReturnedIsInCall DEF Arrives
  <2>5. Stand(pos[r] + 1, "between", 0, BookOf(r)) = After(Call(r), StandOf[r])
    BY <1>1, <1>3, <1>4, StandIs DEF After, AfterBoard, Returned
  <2> QED BY <1>1, <1>2, <2>3, <2>4, <2>5, ArrivingIsOwnStep DEF LocalSteps
<1>5. CASE ToUpdate(r) # {}
  <2>1. PICK f \in ToUpdate(r) :
          (\A g \in ToUpdate(r) : f <= g) /\ Goto(r, "sync_board", f) /\ UNCHANGED pos
    BY <1>5 DEF StatusBoard
  <2>2. f \in Functions /\ ToUpdate(r) \subseteq Nat
    BY Fits DEF ToUpdate, Listed
  <2>3. Min(ToUpdate(r)) = f
    BY <2>1, <2>2, MinIs
  <2>4. MovesTo(r, pos[r], "sync_board", f) /\ Proceeds(r, pos[r])
    BY <1>1, <2>1, RestMoves
  <2>5. Arrives(r, pos[r], "sync_board", f, BookOf(r))
    BY <1>2, <2>2, <2>4, PlainStep, Fits DEF Collectives, Reductions
  <2>6. InCall(r)'
    BY <1>1, <1>2, <2>1, <2>2, <2>5 DEF InCall, Call, Arrives
  <2>7. Stand(pos[r], "sync_board", f, BookOf(r)) = After(Call(r), StandOf[r])
    BY <1>1, <1>3, <1>5, <2>3, StandIs DEF After, AfterBoard
  <2> QED BY <1>1, <1>2, <2>5, <2>6, <2>7, ArrivingIsOwnStep DEF LocalSteps
<1> QED BY <1>4, <1>5

\* New values in the record of a function.
LEMMA InfoIs ==
  ASSUME TypeOK, NEW r \in Ranks, NEW f \in Functions
  PROVE  /\ Info(r, f) \in FunctionInfos /\ Info(r, f) = info[r][f]
         /\ \A i : info' = [info EXCEPT ![r][f] = i] => Learns(r, f, i)
BY DEF TypeOK, Info, Learns

LEMMA StartRunDoes ==
  ASSUME OwnInv, NEW r \in Ranks, StartRun(r)
  PROVE  OwnStep(r)
<1>1. TypeOK /\ pc[r] = "between" /\ pos[r] <= NumCalls /\ Call(r).op = "run"
  BY DEF OwnInv, StartRun, AtCall
<1> DEFINE f == Call(r).function
<1>2. f \in Functions
  BY <1>1, CallIs
<1>3. UNCHANGED <<program, errMsg, ended>>
  BY DEF StartRun
<1>4. CASE Info(r, f).run = "idle"
  <2>1. Return(r) /\ UNCHANGED info
    BY <1>4 DEF StartRun
  <2>2. MovesTo(r, pos[r] + 1, "between", 0) /\ Proceeds(r, pos[r] + 1)
    BY <1>1, <2>1, ReturnMoves
  <2>3. Arrives(r, pos[r] + 1, "between", 0, BookOf(r))
    BY <1>3, <2>1, <2>2, PlainStep, Fits DEF LocalSteps
  <2>4. InCall(r)'
    BY <2>3, ReturnedIsInCall DEF Arrives
  <2>5. Stand(pos[r] + 1, "between", 0, BookOf(r)) = After(Call(r), StandOf[r])
    BY <1>1, <1>2, <1>4, StandIs, BookIs DEF After, AfterBetween, Returned
  <2> QED BY <1>1, <1>3, <2>1, <2>3, <2>4, <2>5, ArrivingIsOwnStep DEF LocalSteps
<1>5. CASE Info(r, f).run # "idle"
  <2> DEFINE i == [info[r][f] EXCEPT !.run = "run", !.status = "need_update",
                                     !.all = "need_update"]
  <2>1. /\ info' = [info EXCEPT ![r][f].run = "run", ![r][f].status = "need_update",
                                ![r][f].all = "need_update"]
        /\ Goto(r, "run_barrier", f) /\ UNCHANGED pos
    BY <1>5 DEF StartRun
  <2>2. MovesTo(r, pos[r], "run_barrier", f) /\ Proceeds(r, pos[r])
    BY <1>1, <2>1, RestMoves
  <2>3. info[r][f] \in FunctionInfos /\ Info(r, f) = info[r][f]
    BY <1>1, <1>2, InfoIs
  <2>4. Learns(r, f, i)
    <3> HIDE DEF f
    <3> QED BY <1>1, <1>2, <2>1 DEF Learns, TypeOK
  <2>5. i \in FunctionInfos
    BY <2>3 DEF FunctionInfos, Statuses
  <2>6. /\ i.run = "run" /\ i.status = "need_update" /\ i.all = "need_update"
        /\ i.args = info[r][f].args /\ i.wrapper = info[r][f].wrapper
        /\ i.msgs = info[r][f].msgs
    BY <2>3 DEF FunctionInfos
  <2> HIDE DEF i
  <2>7. /\ Arrives(r, pos[r], "run_barrier", f, [BookOf(r) EXCEPT ![f] = Book(i)])
        /\ info'[r][f] = i /\ \A h \in Functions \ {f} : info'[r][h] = info[r][h]
    <3>1. "run_barrier" \in Places /\ f \in 0..(NumFunctions + 1)
      BY <1>2, Fits DEF Collectives, Barriers
    <3> HIDE DEF f
    <3>2. LearnsAndMoves(r, pos[r], "run_barrier", f, f, i)
      BY <1>3, <2>2, <2>4, <2>6 DEF LearnsAndMoves, NothingRan
    <3>3. f \in Functions /\ i \in FunctionInfos BY <1>2, <2>5
    <3>4. Arrives(r, pos[r], "run_barrier", f, [BookOf(r) EXCEPT ![f] = Book(i)])
      BY <3>1, <3>2, <3>3, LearningStep
    <3>5. info'[r][f] = i /\ \A h \in Functions \ {f} : info'[r][h] = info[r][h]
      BY <1>1, <2>4, <3>3, Learned
    <3> QED BY <3>4, <3>5
  <2>8. InCall(r)'
    <3>1. pc'[r] = "run_barrier" /\ at'[r] = f /\ pos'[r] = pos[r] /\ program' = program
      BY <1>3, <2>7 DEF Arrives
    <3>2. Call(r)' = Call(r)
      BY <3>1 DEF Call
    <3>3. info'[r][at'[r]].run = "run"
      BY <2>6, <2>7, <3>1
    <3> HIDE DEF f
    <3>4. at'[r] = Call(r).function
      BY <3>1 DEF f
    <3> QED BY <1>1, <3>1, <3>2, <3>3, <3>4 DEF InCall, Info
  <2>9. Stand(pos[r], "run_barrier", f, [BookOf(r) EXCEPT ![f] = Book(i)])
          = After(Call(r), StandOf[r])
    <3>1. Book(i) = Started(BookOf(r)[f])
      BY <1>2, <2>3, <2>6, BookIs DEF Book, Started
    <3> QED
      BY <1>1, <1>2, <1>5, <3>1, StandIs, BookIs DEF After, AfterBetween
  <2>10. \A g \in Functions : info'[r][g].msgs = info[r][g].msgs
    <3> HIDE DEF f
    <3> QED BY <2>3, <2>6, <2>7
  <2> QED BY <1>1, <1>3, <2>7, <2>8, <2>9, <2>10, ArrivingIsOwnStep DEF LocalSteps
<1> QED BY <1>4, <1>5

LEMMA EndingsAre ==
  ASSUME NEW args, NEW wrapper
  PROVE  /\ Endings(args, wrapper) \subseteq Endeds
         /\ Broken(args, wrapper) => Endings(args, wrapper) = {"escapes"}
         /\ Uncaught = FALSE /\ ~Broken(args, wrapper) => "escapes" \notin Endings(args, wrapper)
BY DEF Endings, Endeds

LEMMA RunFunctionDoes ==
  ASSUME OwnInv, NEW r \in Ranks, RunFunction(r)
  PROVE  OwnStep(r)
<1> DEFINE f    == at[r]
           args == Call(r).args
           book == [BookOf(r) EXCEPT ![f] = Executed(@)]
<1>1. /\ TypeOK /\ pc[r] = "execute" /\ pos[r] <= NumCalls /\ Call(r).op = "run"
      /\ f = Call(r).function /\ Info(r, f).run # "unlisted" /\ program' = program
  BY DEF OwnInv, RunFunction, InCall
<1>2. f \in Functions
  BY <1>1, CallIs
<1>3. ASSUME Return(r), NEW ending \in Endeds, Execute(r, f, ending),
             Uncaught = FALSE => UnableToWrap(args) \/ Broken(args, Wrapper(args, "double"))
      PROVE  OwnStep(r)
  <2>1. MovesTo(r, pos[r] + 1, "between", 0) /\ Proceeds(r, pos[r] + 1)
    BY <1>1, <1>3, ReturnMoves
  <2>2. /\ Arrives(r, pos[r] + 1, "between", 0, book)
        /\ \A h \in Functions : Info(r, h)'.msgs = Info(r, h).msgs
    BY <1>1, <1>2, <1>3, <2>1, ExecuteStep, Fits DEF LocalSteps
  <2>3. InCall(r)'
    BY <2>2, ReturnedIsInCall DEF Arrives
  <2>4. Uncaught = FALSE =>
          Stand(pos[r] + 1, "between", 0, book) = After(Call(r), StandOf[r])
    BY <1>1, <1>3, StandIs DEF After, AfterExecute, Returned
  <2> HIDE DEF book
  <2> QED BY <1>1, <2>2, <2>3, <2>4, ArrivingIsOwnStep DEF LocalSteps, Info
<1>4. ASSUME Goto(r, "sync_run", f), UNCHANGED pos, NEW ending \in Endeds,
             Execute(r, f, ending),
             Uncaught = FALSE => ~UnableToWrap(args) /\ ~Broken(args, Wrapper(args, "double"))
      PROVE  OwnStep(r)
  <2>1. MovesTo(r, pos[r], "sync_run", f) /\ Proceeds(r, pos[r])
    BY <1>1, <1>4, RestMoves
  <2>2. /\ Arrives(r, pos[r], "sync_run", f, book)
        /\ \A h \in Functions : Info(r, h)'.msgs = Info(r, h).msgs
    BY <1>1, <1>2, <1>4, <2>1, ExecuteStep, Fits DEF Collectives, Reductions
  <2>3. InCall(r)'
    BY <1>1, <2>2 DEF InCall, Call, Arrives
  <2>4. Uncaught = FALSE =>
          Stand(pos[r], "sync_run", f, book) = After(Call(r), StandOf[r])
    BY <1>1, <1>4, StandIs DEF After, AfterExecute
  <2> HIDE DEF book
  <2> QED BY <1>1, <2>2, <2>3, <2>4, ArrivingIsOwnStep DEF LocalSteps, Info
<1>5. CASE UnableToWrap(args) /\ Execute(r, f, "raises") /\ Return(r)
  BY <1>3, <1>5 DEF Endeds
<1>6. CASE ~UnableToWrap(args) /\ \E ending \in Endings(args, Wrapper(args, "double")) :
             /\ Execute(r, f, ending)
             /\ IF ending = "escapes" \/ info'[r][f].all # "need_update"
                  THEN Return(r)
                  ELSE Goto(r, "sync_run", f) /\ UNCHANGED pos
  <2>1. PICK ending \in Endings(args, Wrapper(args, "double")) :
             /\ Execute(r, f, ending)
             /\ IF ending = "escapes" \/ info'[r][f].all # "need_update"
                  THEN Return(r)
                  ELSE Goto(r, "sync_run", f) /\ UNCHANGED pos
    BY <1>6
  <2>2. ending \in Endeds
    BY EndingsAre
  <2>3. info'[r][f].all = "need_update"
    <3> HIDE DEF f
    <3>1. info' = [info EXCEPT ![r][f].status = StatusAfter(r, f, ending),
                               ![r][f].all = "need_update"]
      BY <2>1 DEF Execute, OverallAfter
    <3>2. info[r][f] \in FunctionInfos BY <1>1, <1>2 DEF TypeOK
    <3>3. PICK status : status = StatusAfter(r, f, ending) OBVIOUS
    <3>4. info'[r][f] = [info[r][f] EXCEPT !.status = status, !.all = "need_update"]
      BY <1>1, <1>2, <3>1, <3>3 DEF TypeOK
    <3> QED BY <3>2, <3>4 DEF FunctionInfos
  <2>4. CASE ending = "escapes"
    <3>1. Uncaught = FALSE => Broken(args, Wrapper(args, "double"))
      BY <2>4, EndingsAre
    <3> QED BY <1>3, <2>1, <2>2, <2>4, <3>1
  <2>5. CASE ending # "escapes"
    <3>1. ~Broken(args, Wrapper(args, "double"))
      <4>1. Broken(args, Wrapper(args, "double")) =>
              Endings(args, Wrapper(args, "double")) = {"escapes"}
        BY EndingsAre
      <4> HIDE DEF args
      <4> QED BY <2>1, <2>5, <4>1
    <3> QED BY <1>4, <1>6, <2>1, <2>2, <2>3, <2>5, <3>1
  <2> QED BY <2>4, <2>5
<1> QED BY <1>5, <1>6 DEF RunFunction

LEMMA RunEveryFunctionDoes ==
  ASSUME OwnInv, NEW r \in Ranks, RunEveryFunction(r)
  PROVE  OwnStep(r)
<1>1. TypeOK /\ pc[r] = "each" /\ pos[r] <= NumCalls /\ Call(r).op \in EntryPoints
  BY DEF OwnInv, RunEveryFunction, InCall
<1>2. UNCHANGED program
  BY DEF RunEveryFunction
<1>3. DueToRun(StandOf[r]) = ToRun(r)
  BY <1>1, StandIs, BookIs DEF DueToRun, ToRun
<1>4. CASE ToRun(r) = {} /\ Call(r).op # "enter_kernel"
  <2>1. Goto(r, "board_command", 0) /\ UNCHANGED <<pos, info, errMsg, ended>>
    BY <1>4 DEF RunEveryFunction
  <2>2. MovesTo(r, pos[r], "board_command", 0) /\ Proceeds(r, pos[r])
    BY <1>1, <1>2, <2>1, RestMoves
  <2>3. Arrives(r, pos[r], "board_command", 0, BookOf(r))
    BY <1>2, <2>1, <2>2, PlainStep, Fits DEF Collectives, Broadcasts
  <2>4. InCall(r)'
    BY <1>1, <1>2, <1>4, <2>1, <2>3 DEF InCall, Call, Arrives, EntryPoints
  <2>5. Stand(pos[r], "board_command", 0, BookOf(r)) = After(Call(r), StandOf[r])
    BY <1>1, <1>3, <1>4, StandIs DEF After, AfterEach
  <2> QED BY <1>1, <2>1, <2>3, <2>4, <2>5, ArrivingIsOwnStep DEF LocalSteps
<1>5. CASE ToRun(r) = {} /\ Call(r).op = "enter_kernel"
  <2>1. Return(r) /\ UNCHANGED <<info, errMsg, ended>>
    BY <1>5 DEF RunEveryFunction
  <2>2. MovesTo(r, pos[r] + 1, "between", 0) /\ Proceeds(r, pos[r] + 1)
    BY <1>1, <1>5, <2>1, ReturnMoves
  <2>3. Arrives(r, pos[r] + 1, "between", 0, BookOf(r))
    BY <1>2, <2>1, <2>2, PlainStep, Fits DEF LocalSteps
  <2>4. InCall(r)'
    BY <2>3, ReturnedIsInCall DEF Arrives
  <2>5. Stand(pos[r] + 1, "between", 0, BookOf(r)) = After(Call(r), StandOf[r])
    BY <1>1, <1>3, <1>5, StandIs DEF After, AfterEach, Returned
  <2> QED BY <1>1, <2>1, <2>3, <2>4, <2>5, ArrivingIsOwnStep DEF LocalSteps
<1>6. CASE ToRun(r) # {}
  <2>1. PICK f \in ToRun(r) :
          /\ \A g \in ToRun(r) : f <= g
          /\ \E ending \in Endings(Info(r, f).args, Info(r, f).wrapper) :
               Execute(r, f, ending)
          /\ Goto(r, IF info'[r][f].all = "need_update" THEN "sync_each" ELSE "each", f)
          /\ UNCHANGED pos
    BY <1>6 DEF RunEveryFunction
  <2>2. /\ f \in Functions /\ ToRun(r) \subseteq Nat
        /\ Info(r, f).run = "run" /\ Info(r, f).status = "not_executed"
    BY Fits DEF ToRun
  <2>3. Min(ToRun(r)) = f
    BY <2>1, <2>2, MinIs
  <2>4. PICK ending \in Endeds : Execute(r, f, ending)
    BY <2>1, EndingsAre
  <2>5. PICK place \in {"sync_each", "each"} :
          place = IF info'[r][f].all = "need_update" THEN "sync_each" ELSE "each"
    OBVIOUS
  <2>6. MovesTo(r, pos[r], place, f) /\ Proceeds(r, pos[r])
    BY <1>1, <1>2, <2>1, <2>5, RestMoves
  <2> DEFINE book == [BookOf(r) EXCEPT ![f] = Executed(@)]
  <2>7. /\ Arrives(r, pos[r], place, f, book)
        /\ \A h \in Functions : Info(r, h)'.msgs = Info(r, h).msgs
        /\ Info(r, f)'.all = "need_update"
        /\ \A h \in Functions \ {f} : ended'[r][h] = ended[r][h]
    <3>1. place \in Places /\ f \in 0..(NumFunctions + 1)
      BY <2>2, <2>5, Fits DEF Collectives, Reductions, LocalSteps
    <3> QED
      BY <1>1, <1>2, <2>1, <2>2, <2>4, <2>6, <3>1, ExecuteStep
  <2>8. place = "sync_each"
    BY <2>5, <2>7 DEF Info
  <2>9. InCall(r)'
    BY <1>1, <1>2, <2>1, <2>2, <2>7, <2>8 DEF InCall, Call, Arrives
  <2>10. Stand(pos[r], place, f, book) = After(Call(r), StandOf[r])
    BY <1>1, <1>3, <1>6, <2>3, <2>8, StandIs DEF After, AfterEach
  <2>11. \A g \in Functions : ended'[r][g] # ended[r][g] => ended[r][g].call <= LastFree(r)
    BY <2>2, <2>7 DEF OwnInv, OwnHistory, Remembered
  <2> HIDE DEF book
  <2> QED BY <1>1, <2>7, <2>8, <2>9, <2>10, <2>11, ArrivingIsOwnStep DEF LocalSteps, Info
<1> QED BY <1>4, <1>5, <1>6

\* A command of the user that only changes what is known of its function.
LEMMA MagicDoes ==
  ASSUME OwnInv, NEW r \in Ranks, pc[r] = "magic", Call(r).op # "status",
         Return(r), UNCHANGED <<program, errMsg, ended>>,
         NEW i \in FunctionInfos, info' = [info EXCEPT ![r][at[r]] = i],
         i.status = Info(r, at[r]).status, i.all = Info(r, at[r]).all,
         i.run = "unlisted" => Info(r, at[r]).run = "unlisted",
         i.msgs = Info(r, at[r]).msgs \/ i.msgs = NoMsgs,
         Book(i) = IF Info(r, at[r]).run # "unlisted" THEN Commanded(Call(r), BookOf(r)[at[r]])
                   ELSE IF Call(r).op = "load" THEN Book(NewInfo("idle"))
                   ELSE BookOf(r)[at[r]]
  PROVE  OwnStep(r)
<1>1. /\ TypeOK /\ pc[r] = "magic" /\ pos[r] <= NumCalls
      /\ Call(r).op \in Commands /\ at[r] = Call(r).function
  BY DEF OwnInv, InCall
<1>2. at[r] \in Functions /\ Call(r).op # "free"
  BY <1>1, CallIs DEF Commands
<1>3. MovesTo(r, pos[r] + 1, "between", 0) /\ Proceeds(r, pos[r] + 1)
  BY <1>1, <1>2, ReturnMoves
<1>4. Learns(r, at[r], i)
  BY <1>1, <1>2, InfoIs
<1>5. i.all = "success" => i.status = "success"
  BY <1>2 DEF OwnInv, OwnHistory, Remembered
<1>6. /\ Arrives(r, pos[r] + 1, "between", 0, [BookOf(r) EXCEPT ![at[r]] = Book(i)])
      /\ info'[r][at[r]] = i
      /\ \A h \in Functions \ {at[r]} : info'[r][h] = info[r][h]
  <2>1. "between" \in Places /\ 0 \in 0..(NumFunctions + 1)
    BY Fits DEF LocalSteps
  <2>2. LearnsAndMoves(r, pos[r] + 1, "between", 0, at[r], i)
    BY <1>3, <1>4, <1>5 DEF LearnsAndMoves, NothingRan
  <2>3. ASSUME NEW g \in Functions, LearnsAndMoves(r, pos[r] + 1, "between", 0, g, i)
        PROVE  /\ Arrives(r, pos[r] + 1, "between", 0, [BookOf(r) EXCEPT ![g] = Book(i)])
               /\ info'[r][g] = i
               /\ \A h \in Functions \ {g} : info'[r][h] = info[r][h]
    BY <2>1, <2>3, LearningStep
  <2> QED BY <1>2, <2>2, <2>3
<1>7. InCall(r)'
  BY <1>6, ReturnedIsInCall DEF Arrives
<1>8. Stand(pos[r] + 1, "between", 0, [BookOf(r) EXCEPT ![at[r]] = Book(i)])
        = After(Call(r), StandOf[r])
  BY <1>1, <1>2, StandIs, BookIs DEF After, AfterMagic, Returned
<1>9. \A g \in Functions : info'[r][g].msgs = info[r][g].msgs \/ info'[r][g].msgs = NoMsgs
  BY <1>2, <1>6 DEF Info
<1> QED BY <1>1, <1>6, <1>7, <1>8, <1>9, ArrivingIsOwnStep DEF LocalSteps

LEMMA SetFunctionRunDoes ==
  ASSUME OwnInv, NEW r \in Ranks, SetFunctionRun(r)
  PROVE  OwnStep(r)
<1> DEFINE args == Call(r).args
           old  == Info(r, at[r])
           new  == [old EXCEPT !.wrapper = Wrapper(args, @)]
<1>1. /\ TypeOK /\ pc[r] = "magic" /\ pos[r] <= NumCalls /\ Call(r).op = "run_it"
      /\ at[r] = Call(r).function /\ Return(r) /\ UNCHANGED <<program, errMsg, ended>>
  BY DEF OwnInv, SetFunctionRun, InCall
<1>2. at[r] \in Functions /\ args \in ArgLists
  BY <1>1, CallIs DEF Commands
<1>3. old \in FunctionInfos /\ old = info[r][at[r]]
  BY <1>1, <1>2, InfoIs
<1>4. PICK i : i = IF at[r] \notin Listed(r) THEN old
                   ELSE IF UnableToWrap(args) THEN new
                   ELSE [new EXCEPT !.run = "run", !.args = args]
  OBVIOUS
<1>5. info' = [info EXCEPT ![r][at[r]] = i]
  <2> HIDE DEF args
  <2>1. info' = [info EXCEPT ![r][at[r]] =
           IF at[r] \notin Listed(r) THEN info[r][at[r]]
           ELSE IF UnableToWrap(args) THEN new
           ELSE [new EXCEPT !.run = "run", !.args = args]]
    BY DEF SetFunctionRun, args
  <2> HIDE DEF new, old
  <2> QED BY <1>3, <1>4, <2>1
<1>6. Wrapper(args, old.wrapper) \in Quotes
  BY <1>3 DEF Wrapper, Quotes, FunctionInfos
<1> DEFINE wrapper == Wrapper(args, old.wrapper)
<1>7. /\ new \in FunctionInfos /\ new.run = old.run /\ new.args = old.args
      /\ new.wrapper = wrapper
      /\ new.status = old.status /\ new.all = old.all /\ new.msgs = old.msgs
  <2> HIDE DEF old, args
  <2> QED BY <1>3, <1>6 DEF FunctionInfos
<1> HIDE DEF new
<1>8. /\ i \in FunctionInfos /\ i.status = old.status /\ i.all = old.all
      /\ i.msgs = old.msgs
      /\ i.run = "unlisted" => old.run = "unlisted"
      /\ Book(i) = IF at[r] \notin Listed(r) THEN Book(old)
                   ELSE IF UnableToWrap(args)
                     THEN Entry(old.run, old.args, wrapper, Book(old).ran, old.all, old.msgs)
                     ELSE Entry("run", args, wrapper, Book(old).ran, old.all, old.msgs)
  <2>1. CASE at[r] \notin Listed(r)
    <3>1. i = old BY <1>4, <2>1
    <3> QED BY <1>3, <2>1, <3>1
  <2>2. CASE at[r] \in Listed(r) /\ UnableToWrap(args)
    <3>1. i = new BY <1>4, <2>2
    <3> HIDE DEF old, wrapper, args
    <3> QED BY <1>7, <2>2, <3>1 DEF Book, Entry
  <2>3. CASE at[r] \in Listed(r) /\ ~UnableToWrap(args)
    <3>1. i = [new EXCEPT !.run = "run", !.args = args] BY <1>4, <2>3
    <3> HIDE DEF old, wrapper, args
    <3>2. /\ i \in FunctionInfos /\ i.run = "run" /\ i.args = args
          /\ i.wrapper = new.wrapper /\ i.status = new.status /\ i.all = new.all
          /\ i.msgs = new.msgs
      BY <1>2, <1>7, <3>1 DEF FunctionInfos
    <3> QED BY <1>7, <2>3, <3>2 DEF Book, Entry
  <2> QED BY <2>1, <2>2, <2>3
<1>9. Book(i) = IF old.run # "unlisted" THEN Commanded(Call(r), BookOf(r)[at[r]])
                ELSE IF Call(r).op = "load" THEN Book(NewInfo("idle"))
                ELSE BookOf(r)[at[r]]
  <2>1. at[r] \in Listed(r) <=> old.run # "unlisted"
    BY <1>2 DEF Listed
  <2>2. /\ BookOf(r)[at[r]] = Book(old) /\ BookOf(r)[at[r]].run = old.run
        /\ BookOf(r)[at[r]].args = old.args /\ BookOf(r)[at[r]].wrapper = old.wrapper
        /\ BookOf(r)[at[r]].all = old.all /\ BookOf(r)[at[r]].msgs = old.msgs
    BY <1>2, BookIs
  <2> HIDE DEF old
  <2> QED BY <1>1, <1>8, <2>1, <2>2 DEF Commanded
<1> HIDE DEF args
<1> QED BY <1>1, <1>5, <1>8, <1>9, MagicDoes

LEMMA SetFunctionIdleDoes ==
  ASSUME OwnInv, NEW r \in Ranks, SetFunctionIdle(r)
  PROVE  OwnStep(r)
<1> DEFINE old  == Info(r, at[r])
<1>1. /\ TypeOK /\ pc[r] = "magic" /\ pos[r] <= NumCalls /\ Call(r).op = "idle_it"
      /\ at[r] = Call(r).function /\ Return(r) /\ UNCHANGED <<program, errMsg, ended>>
  BY DEF OwnInv, SetFunctionIdle, InCall
<1>2. at[r] \in Functions
  BY <1>1, CallIs DEF Commands
<1>3. old \in FunctionInfos /\ old = info[r][at[r]]
  BY <1>1, <1>2, InfoIs
<1>4. PICK i : i = IF at[r] \notin Listed(r) THEN old
                   ELSE [old EXCEPT !.run = "idle", !.args = <<>>]
  OBVIOUS
<1>5. info' = [info EXCEPT ![r][at[r]] = i]
  <2>1. info' = [info EXCEPT ![r][at[r]] =
           IF at[r] \notin Listed(r) THEN info[r][at[r]]
           ELSE [info[r][at[r]] EXCEPT !.run = "idle", !.args = <<>>]]
    BY DEF SetFunctionIdle
  <2> HIDE DEF old
  <2> QED BY <1>3, <1>4, <2>1
<1>6. /\ i \in FunctionInfos /\ i.status = old.status /\ i.all = old.all
      /\ i.msgs = old.msgs
      /\ i.run = "unlisted" => old.run = "unlisted"
      /\ Book(i) = IF at[r] \notin Listed(r) THEN Book(old)
                   ELSE Entry("idle", <<>>, old.wrapper, Book(old).ran, old.all, old.msgs)
  <2>1. CASE at[r] \notin Listed(r)
    <3>1. i = old BY <1>4, <2>1
    <3> QED BY <1>3, <2>1, <3>1
  <2>2. CASE at[r] \in Listed(r)
    <3>1. i = [old EXCEPT !.run = "idle", !.args = <<>>] BY <1>4, <2>2
    <3> HIDE DEF old
    <3>2. /\ i \in FunctionInfos /\ i.run = "idle" /\ i.args = <<>>
          /\ i.wrapper = old.wrapper /\ i.status = old.status /\ i.all = old.all
          /\ i.msgs = old.msgs
      BY <1>3, <3>1 DEF FunctionInfos
    <3> QED BY <2>2, <3>2 DEF Book, Entry
  <2> QED BY <2>1, <2>2
<1>7. Book(i) = IF old.run # "unlisted" THEN Commanded(Call(r), BookOf(r)[at[r]])
                ELSE IF Call(r).op = "load" THEN Book(NewInfo("idle"))
                ELSE BookOf(r)[at[r]]
  <2>1. at[r] \in Listed(r) <=> old.run # "unlisted"
    BY <1>2 DEF Listed
  <2>2. /\ BookOf(r)[at[r]] = Book(old) /\ BookOf(r)[at[r]].wrapper = old.wrapper
        /\ BookOf(r)[at[r]].all = old.all /\ BookOf(r)[at[r]].msgs = old.msgs
    BY <1>2, BookIs
  <2> HIDE DEF old
  <2> QED BY <1>1, <1>6, <2>1, <2>2 DEF Commanded
<1> QED BY <1>1, <1>5, <1>6, <1>7, MagicDoes

LEMMA LoadScriptDoes ==
  ASSUME OwnInv, NEW r \in Ranks, LoadScript(r)
  PROVE  OwnStep(r)
<1> DEFINE old  == Info(r, at[r])
<1>1. /\ TypeOK /\ pc[r] = "magic" /\ pos[r] <= NumCalls /\ Call(r).op = "load"
      /\ at[r] = Call(r).function /\ Return(r) /\ UNCHANGED <<program, errMsg, ended>>
  BY DEF OwnInv, LoadScript, InCall
<1>2. at[r] \in Functions /\ Call(r).op # "free"
  BY <1>1, CallIs DEF Commands
<1>3. old \in FunctionInfos /\ old = info[r][at[r]]
  BY <1>1, <1>2, InfoIs
<1>4. at[r] \in Listed(r) <=> old.run # "unlisted"
  BY <1>2 DEF Listed
<1>5. CASE at[r] \in Listed(r)
  <2>1. info' = [info EXCEPT ![r][at[r]] = old]
    BY <1>3, <1>5 DEF LoadScript
  <2>2. Book(old) = BookOf(r)[at[r]] /\ Commanded(Call(r), BookOf(r)[at[r]]) = BookOf(r)[at[r]]
    BY <1>1, <1>2, BookIs DEF Commanded
  <2> HIDE DEF old
  <2> QED BY <1>1, <1>3, <1>4, <1>5, <2>1, <2>2, MagicDoes DEF old
<1>6. CASE at[r] \notin Listed(r)
  <2> DEFINE i == NewInfo("idle")
  <2>1. info' = [info EXCEPT ![r][at[r]] = i]
    BY <1>6 DEF LoadScript
  <2>2. i \in FunctionInfos
    BY DEF NewInfo, FunctionInfos, Statuses, Quotes
  <2>3. /\ i.status = "not_executed" /\ i.all = "not_executed" /\ i.run = "idle"
        /\ i.msgs = NoMsgs
    BY DEF NewInfo
  <2>4. MovesTo(r, pos[r] + 1, "between", 0) /\ Proceeds(r, pos[r] + 1)
    BY <1>1, <1>2, ReturnMoves
  <2>5. Learns(r, at[r], i)
    BY <1>1, <1>2, <2>1, InfoIs
  <2> HIDE DEF i
  <2>6. LearnsAndMoves(r, pos[r] + 1, "between", 0, at[r], i)
    BY <1>1, <1>4, <1>6, <2>3, <2>4, <2>5 DEF LearnsAndMoves, NothingRan
  <2>7. ASSUME NEW g \in Functions, LearnsAndMoves(r, pos[r] + 1, "between", 0, g, i)
        PROVE  /\ Arrives(r, pos[r] + 1, "between", 0, [BookOf(r) EXCEPT ![g] = Book(i)])
               /\ info'[r][g] = i
               /\ \A h \in Functions \ {g} : info'[r][h] = info[r][h]
    <3>1. "between" \in Places /\ 0 \in 0..(NumFunctions + 1)
      BY Fits DEF LocalSteps
    <3> QED BY <2>2, <2>7, <3>1, LearningStep
  <2>8. /\ Arrives(r, pos[r] + 1, "between", 0, [BookOf(r) EXCEPT ![at[r]] = Book(i)])
        /\ info'[r][at[r]] = i
        /\ \A h \in Functions \ {at[r]} : info'[r][h] = info[r][h]
    BY <1>2, <2>6, <2>7
  <2>9. InCall(r)'
    BY <2>8, ReturnedIsInCall DEF Arrives
  <2>10. Stand(pos[r] + 1, "between", 0, [BookOf(r) EXCEPT ![at[r]] = Book(i)])
           = After(Call(r), StandOf[r])
    BY <1>1, <1>2, <1>4, <1>6, StandIs, BookIs DEF After, AfterMagic, Returned, i
  <2>11. \A g \in Functions : info'[r][g].msgs = info[r][g].msgs \/ info'[r][g].msgs = NoMsgs
    BY <1>2, <2>3, <2>8
  <2> QED BY <1>1, <2>8, <2>9, <2>10, <2>11, ArrivingIsOwnStep DEF LocalSteps
<1> QED BY <1>5, <1>6

LEMMA FreeDoes ==
  ASSUME OwnInv, NEW r \in Ranks, Free(r)
  PROVE  OwnStep(r)
<1>1. /\ TypeOK /\ pc[r] = "clear" /\ pos[r] <= NumCalls /\ Call(r).op = "free"
      /\ UNCHANGED <<program, ended>> /\ OwnHistory(r)
  BY DEF OwnInv, Free, InCall
<1>2. /\ pos' = [pos EXCEPT ![r] = pos[r] + 1]
      /\ pc' = [pc EXCEPT ![r] = "between"] /\ at' = [at EXCEPT ![r] = 0]
      /\ errMsg' = [errMsg EXCEPT ![r] = [f \in Functions |-> 0]]
      /\ info' = [info EXCEPT ![r] = [f \in Functions |-> Reset(info[r][f])]]
  BY DEF Free, Return, Goto
<1>3. pos[r] \in 1..NumCalls /\ pos[r] + 1 \in 1..(NumCalls + 1)
  BY <1>1, CallIs, CallsAssumption
<1>4. ASSUME NEW f \in Functions
      PROVE  /\ Reset(info[r][f]) \in FunctionInfos
             /\ Reset(info[r][f]).status = "not_executed"
             /\ Reset(info[r][f]).all = "not_executed"
             /\ Reset(info[r][f]).msgs = NoMsgs
             /\ Reset(info[r][f]).run = info[r][f].run
             /\ Reset(info[r][f]).args = info[r][f].args
             /\ Reset(info[r][f]).wrapper = info[r][f].wrapper
  <2>1. info[r][f] \in FunctionInfos BY <1>1 DEF TypeOK
  <2> QED BY <2>1 DEF Reset, FunctionInfos, Statuses
<1>5. /\ info' \in [Ranks -> [Functions -> FunctionInfos]]
      /\ \A f \in Functions : info'[r][f] = Reset(info[r][f])
      /\ \A q \in Ranks \ {r} : info'[q] = info[q]
  <2>1. [f \in Functions |-> Reset(info[r][f])] \in [Functions -> FunctionInfos]
    BY <1>4
  <2>2. info \in [Ranks -> [Functions -> FunctionInfos]]
    BY <1>1 DEF TypeOK
  <2> QED BY <1>2, <2>1, <2>2
<1>6. /\ errMsg' \in [Ranks -> [Functions -> 0..NumCalls]]
      /\ \A f \in Functions : errMsg'[r][f] = 0
      /\ \A q \in Ranks \ {r} : errMsg'[q] = errMsg[q]
  BY <1>1, <1>2, CallsAssumption DEF TypeOK
<1>7. /\ pos' \in [Ranks -> 1..(NumCalls + 1)] /\ pc' \in [Ranks -> Places]
      /\ at' \in [Ranks -> 0..(NumFunctions + 1)]
      /\ pos'[r] = pos[r] + 1 /\ pc'[r] = "between" /\ at'[r] = 0
      /\ \A q \in Ranks \ {r} :
           pos'[q] = pos[q] /\ pc'[q] = pc[q] /\ at'[q] = at[q]
  BY <1>1, <1>2, <1>3, Fits DEF TypeOK, Places, LocalSteps
<1>8. TypeOK'
  BY <1>1, <1>5, <1>6, <1>7 DEF TypeOK, Places
<1>9. LastFree(r)' = pos[r]
  BY <1>1, <1>7, LastFreeMoves
<1>10. OwnHistory(r)'
  <2> SUFFICES ASSUME NEW f \in Functions PROVE Remembered(r, f)'
    BY DEF OwnHistory
  <2>1. Remembered(r, f) BY <1>1 DEF OwnHistory
  <2>2. /\ Info(r, f)'.status = "not_executed" /\ Info(r, f)'.all = "not_executed"
    BY <1>4, <1>5 DEF Info
  <2>3. ended[r][f].call <= pos[r] /\ ended[r][f].call \in Nat /\ pos[r] \in Nat
        /\ ended'[r][f] = ended[r][f]
    BY <1>1, <1>3, <2>1, CallsAssumption DEF Remembered, TypeOK
  <2> QED BY <1>6, <1>7, <1>9, <2>2, <2>3 DEF Remembered
<1>11. OthersRest(r)
  BY <1>1, <1>5, <1>6, <1>7 DEF OthersRest
<1>12. GoesOn(StandOf[r]) /\ Before(StandOf[r], StandOf'[r])
  <2>1. StandOf'[r].pos = pos[r] + 1 BY <1>7 DEF StandOf, Stand
  <2> QED BY <1>1, <1>3, <2>1, StandIs DEF GoesOn, Before, LocalSteps
<1>13. StandOf'[r] = After(Call(r), StandOf[r])
  <2> DEFINE book == [f \in Functions |->
                Entry(BookOf(r)[f].run, BookOf(r)[f].args, BookOf(r)[f].wrapper,
                      "no", "not_executed", NoMsgs)]
  <2>1. After(Call(r), StandOf[r]) = Stand(pos[r] + 1, "between", 0, book)
    BY <1>1, StandIs DEF After, AfterClear, Returned
  <2>2. ASSUME NEW f \in Functions
        PROVE  Book(info'[r][f]) =
                 Entry(BookOf(r)[f].run, BookOf(r)[f].args, BookOf(r)[f].wrapper,
                       "no", "not_executed", NoMsgs)
    BY <1>4, <1>5, BookIs DEF Book, Info
  <2>3. StandOf'[r] = Stand(pos[r] + 1, "between", 0, [f \in Functions |-> Book(info'[r][f])])
    BY <1>7 DEF StandOf
  <2>4. [f \in Functions |-> Book(info'[r][f])] = book
    BY <2>2
  <2> HIDE DEF book
  <2> QED BY <2>1, <2>3, <2>4
<1>14. InCall(r)' BY <1>7, ReturnedIsInCall
<1>15. \A f \in Functions : info'[r][f].msgs = NoMsgs BY <1>4, <1>5
<1> QED BY <1>1, <1>8, <1>10, <1>11, <1>12, <1>13, <1>14, <1>15 DEF OwnStep

LEMMA LocalStepDoes ==
  ASSUME OwnInv, NEW r \in Ranks, LocalStep(r)
  PROVE  OwnStep(r)
BY StartRunDoes, RunFunctionDoes, EnterDoes, RunEveryFunctionDoes, StatusBoardDoes,
   CommandDoes, SetFunctionRunDoes, SetFunctionIdleDoes, LoadScriptDoes,
   GetFunctionStatusDoes, GetAllErrorMsgDoes, StartFreeDoes, FreeDoes DEF LocalStep

-----------------------------------------------------------------------------
(***************************************************************************)
(* Ways                                                                    *)
(***************************************************************************)

\* A rank that takes a step goes on along the way.
LEMMA StepAlongWay ==
  ASSUME NEW calls, NEW old, NEW new, NEW r \in Ranks, OnWay(calls, old),
         GoesOn(old[r]), new[r] \in Stands,
         new[r] = After(calls[old[r].pos], old[r]), Before(old[r], new[r]),
         \A q \in Ranks \ {r} : new[q] = old[q]
  PROVE  OnWay(calls, new)
<1>0. PICK n \in Nat : \E way \in [0..n -> Stands] :
        IsWay(calls, way, n) /\ \A q \in Ranks : \E k \in 0..n : old[q] = way[k]
  BY DEF OnWay
<1>1. PICK way \in [0..n -> Stands] :
        IsWay(calls, way, n) /\ \A q \in Ranks : \E k \in 0..n : old[q] = way[k]
  BY <1>0
<1>2. PICK k \in 0..n : old[r] = way[k]
  BY <1>1
<1>3. CASE k < n
  <2>1. k + 1 \in 1..n /\ k + 1 \in 0..n /\ (k + 1) - 1 = k
    BY <1>3
  <2>2. way[k + 1] = After(calls[way[k].pos], way[k])
    BY <1>1, <2>1 DEF IsWay
  <2>3. new[r] = way[k + 1]
    BY <1>2, <2>2
  <2>4. \A q \in Ranks : \E j \in 0..n : new[q] = way[j]
    BY <1>1, <2>1, <2>3
  <2> QED BY <1>1, <2>4 DEF OnWay
<1>4. CASE k = n
  <2> DEFINE more == [j \in 0..(n + 1) |-> IF j <= n THEN way[j] ELSE new[r]]
  <2>1. more \in [0..(n + 1) -> Stands]
    <3>1. \A j \in 0..(n + 1) : j <= n => j \in 0..n OBVIOUS
    <3> QED BY <3>1
  <2>2. (\A j \in 0..n : more[j] = way[j]) /\ more[n + 1] = new[r]
    OBVIOUS
  <2> HIDE DEF more
  <2>3. ASSUME NEW j \in 1..(n + 1)
        PROVE  GoesOn(more[j - 1]) /\ more[j] = After(calls[more[j - 1].pos], more[j - 1])
    <3>1. CASE j <= n
      <4>1. j \in 1..n /\ j - 1 \in 0..n /\ j \in 0..n BY <3>1
      <4>2. GoesOn(way[j - 1]) /\ way[j] = After(calls[way[j - 1].pos], way[j - 1])
        BY <1>1, <4>1 DEF IsWay
      <4>3. more[j] = way[j] /\ more[j - 1] = way[j - 1]
        BY <2>2, <4>1
      <4> QED BY <4>2, <4>3
    <3>2. CASE j = n + 1
      <4>1. j - 1 = n /\ n \in 0..n BY <3>2
      <4>2. more[j - 1] = old[r] /\ more[j] = new[r]
        BY <1>2, <1>4, <2>2, <3>2, <4>1
      <4> QED BY <4>2
    <3> QED BY <3>1, <3>2
  <2>4. ASSUME NEW i \in 0..(n + 1), NEW j \in 0..(n + 1), i < j
        PROVE  Before(more[i], more[j])
    <3>1. CASE j <= n
      <4>1. i \in 0..n /\ j \in 0..n BY <2>4, <3>1
      <4>2. Before(way[i], way[j]) BY <1>1, <2>4, <4>1 DEF IsWay
      <4> QED BY <2>2, <4>1, <4>2
    <3>2. CASE j = n + 1 /\ i = n
      <4>1. more[i] = old[r] /\ more[j] = new[r]
        BY <1>2, <1>4, <2>2, <3>2
      <4> QED BY <4>1
    <3>3. CASE j = n + 1 /\ i < n
      <4>1. i \in 0..n /\ n \in 0..n BY <3>3
      <4>2. Before(way[i], way[n]) BY <1>1, <3>3, <4>1 DEF IsWay
      <4>3. way[n] = old[r] /\ more[i] = way[i] /\ more[j] = new[r]
        BY <1>2, <1>4, <2>2, <3>3, <4>1
      <4>4. way[i].pos \in Nat /\ way[n].pos \in Nat /\ new[r].pos \in Nat
        BY <4>1, CallsAssumption DEF Stands
      <4> QED BY <4>2, <4>3, <4>4 DEF Before
    <3> QED BY <2>4, <3>1, <3>2, <3>3
  <2>5. IsWay(calls, more, n + 1)
    BY <2>3, <2>4 DEF IsWay
  <2>6. \A q \in Ranks : \E j \in 0..(n + 1) : new[q] = more[j]
    <3> SUFFICES ASSUME NEW q \in Ranks PROVE \E j \in 0..(n + 1) : new[q] = more[j]
      OBVIOUS
    <3>1. CASE q = r
      BY <2>2, <3>1
    <3>2. CASE q # r
      <4>1. PICK j \in 0..n : old[q] = way[j] BY <1>1
      <4>2. j \in 0..(n + 1) /\ more[j] = way[j] BY <2>2
      <4> QED BY <3>2, <4>1, <4>2
    <3> QED BY <3>1, <3>2
  <2>7. n + 1 \in Nat OBVIOUS
  <2> QED BY <2>1, <2>5, <2>6, <2>7 DEF OnWay
<1> QED BY <1>3, <1>4

\* Ranks that do not go on are together at the end of the way.
LEMMA TogetherAtEnd ==
  ASSUME NEW calls, NEW stands, OnWay(calls, stands), NEW r \in Ranks, NEW q \in Ranks,
         ~GoesOn(stands[r]), ~GoesOn(stands[q])
  PROVE  stands[r] = stands[q]
<1>0. PICK n \in Nat : \E way \in [0..n -> Stands] :
        IsWay(calls, way, n) /\ \A p \in Ranks : \E k \in 0..n : stands[p] = way[k]
  BY DEF OnWay
<1>1. PICK way \in [0..n -> Stands] :
        IsWay(calls, way, n) /\ \A p \in Ranks : \E k \in 0..n : stands[p] = way[k]
  BY <1>0
<1>2. ASSUME NEW k \in 0..n, ~GoesOn(way[k]) PROVE k = n
  <2> SUFFICES ASSUME k < n PROVE FALSE OBVIOUS
  <2>1. k + 1 \in 1..n /\ (k + 1) - 1 = k OBVIOUS
  <2>2. GoesOn(way[k]) BY <1>1, <2>1 DEF IsWay
  <2> QED BY <1>2, <2>2
<1>3. PICK j \in 0..n, k \in 0..n : stands[r] = way[j] /\ stands[q] = way[k]
  BY <1>1
<1>4. j = n /\ k = n BY <1>2, <1>3
<1> QED BY <1>3, <1>4

\* Ranks that have returned from the same calls are together.
LEMMA TogetherBetween ==
  ASSUME NEW calls, NEW stands, OnWay(calls, stands), NEW r \in Ranks, NEW q \in Ranks,
         stands[r].pc = "between", stands[q].pc = "between",
         stands[r].pos = stands[q].pos, stands[r].pos \in Nat
  PROVE  stands[r] = stands[q]
<1>0. PICK n \in Nat : \E way \in [0..n -> Stands] :
        IsWay(calls, way, n) /\ \A p \in Ranks : \E k \in 0..n : stands[p] = way[k]
  BY DEF OnWay
<1>1. PICK way \in [0..n -> Stands] :
        IsWay(calls, way, n) /\ \A p \in Ranks : \E k \in 0..n : stands[p] = way[k]
  BY <1>0
<1>2. PICK j \in 0..n, k \in 0..n : stands[r] = way[j] /\ stands[q] = way[k]
  BY <1>1
<1>3. ~Before(way[j], way[k]) /\ ~Before(way[k], way[j])
  BY <1>2 DEF Before
<1>4. \A a, b \in 0..n : a < b => Before(way[a], way[b])
  BY <1>1 DEF IsWay
<1>5. ~(j < k) /\ ~(k < j)
  BY <1>3, <1>4
<1>6. j = k BY <1>5
<1> QED BY <1>2, <1>6

\* Ranks that are together are on a way.
LEMMA TogetherOnWay ==
  ASSUME NEW calls, NEW stands, NEW s \in Stands, \A r \in Ranks : stands[r] = s
  PROVE  OnWay(calls, stands)
<1> DEFINE way == [k \in 0..0 |-> s]
<1>1. way \in [0..0 -> Stands] /\ way[0] = s OBVIOUS
<1> HIDE DEF way
<1>2. IsWay(calls, way, 0) BY DEF IsWay
<1>3. \A r \in Ranks : \E k \in 0..0 : stands[r] = way[k] BY <1>1
<1> QED BY <1>1, <1>2, <1>3 DEF OnWay

-----------------------------------------------------------------------------
(***************************************************************************)
(* The steps of a rank keep the invariant                                  *)
(***************************************************************************)

LEMMA OthersKept ==
  ASSUME OwnInv, NEW r \in Ranks, OthersRest(r), NEW q \in Ranks \ {r}
  PROVE  /\ InCall(q)' /\ OwnHistory(q)' /\ LastFree(q)' = LastFree(q)
         /\ StandOf'[q] = StandOf[q]
<1>1. TypeOK /\ InCall(q) /\ OwnHistory(q) BY DEF OwnInv
<1>2. /\ program' = program /\ pos'[q] = pos[q] /\ pc'[q] = pc[q] /\ at'[q] = at[q]
      /\ info'[q] = info[q] /\ errMsg'[q] = errMsg[q] /\ ended'[q] = ended[q]
  BY DEF OthersRest
<1>3. LastFree(q)' = LastFree(q) BY <1>1, <1>2, LastFreeStays
<1>4. InCall(q)' BY <1>1, <1>2 DEF InCall, Call, Info
<1>5. OwnHistory(q)' BY <1>1, <1>2, <1>3 DEF OwnHistory, Remembered, Info
<1>6. StandOf'[q] = StandOf[q] BY <1>2 DEF StandOf
<1> QED BY <1>3, <1>4, <1>5, <1>6

LEMMA LocalStepKeepsOwn ==
  ASSUME OwnInv, NEW r \in Ranks, OwnStep(r)
  PROVE  OwnInv'
BY OthersKept DEF OwnInv, OwnStep

LEMMA LocalStepKeeps ==
  ASSUME Uncaught = FALSE, IInv, NEW r \in Ranks, OwnStep(r)
  PROVE  IInv'
<1>1. OwnInv /\ TypeOK /\ OthersRest(r) BY DEF IInv, OwnInv, OwnStep
<1>2. OwnInv' /\ TypeOK' BY <1>1, LocalStepKeepsOwn DEF OwnInv
<1>3. OneWay'
  <2>1. StandOf[r].pos = pos[r] BY <1>1, StandIs
  <2>2. StandOf'[r] \in Stands
    <3>1. StandOf'[r] = Stand(pos'[r], pc'[r], at'[r], [f \in Functions |-> Book(info'[r][f])])
      BY DEF StandOf
    <3>2. [f \in Functions |-> Book(info'[r][f])] \in [Functions -> Books]
      BY <1>2 DEF TypeOK, Books
    <3> QED BY <1>2, <3>1, <3>2 DEF TypeOK, Stand, Stands
  <2>3. /\ GoesOn(StandOf[r]) /\ Before(StandOf[r], StandOf'[r])
        /\ StandOf'[r] = After(program[StandOf[r].pos], StandOf[r])
    BY <2>1 DEF OwnStep, Call
  <2>4. \A q \in Ranks \ {r} : StandOf'[q] = StandOf[q]
    BY <1>1, OthersKept
  <2>5. OnWay(program, StandOf) BY DEF IInv, OneWay
  <2>6. OnWay(program, StandOf') BY <2>2, <2>3, <2>4, <2>5, StepAlongWay
  <2> QED BY <1>1, <2>6 DEF OneWay, OthersRest, OnWay, IsWay
<1>4. MessagesFresh'
  <2> SUFFICES ASSUME NEW p \in Ranks, NEW q \in Ranks, NEW f \in Functions,
                      info'[p][f].msgs # NoMsgs, info'[p][f].msgs[q] # 0
               PROVE  info'[p][f].msgs[q] > LastFree(p)'
    BY DEF MessagesFresh
  <2>1. info[p][f].msgs # NoMsgs /\ info[p][f].msgs[q] # 0 =>
          info[p][f].msgs[q] > LastFree(p)
    BY DEF IInv, MessagesFresh
  <2>2. CASE p = r
    BY <2>1, <2>2 DEF OwnStep
  <2>3. CASE p # r
    <3>1. LastFree(p)' = LastFree(p) BY <1>1, <2>3, OthersKept
    <3>2. info'[p] = info[p] BY <1>1, <2>3 DEF OthersRest
    <3> QED BY <2>1, <3>1, <3>2
  <2> QED BY <2>2, <2>3
<1> QED BY <1>2, <1>3, <1>4 DEF IInv

-----------------------------------------------------------------------------
(***************************************************************************)
(* MPI                                                                     *)
(***************************************************************************)

LEMMA PlacesApart ==
  ASSUME NEW place \in Collectives
  PROVE  place \notin LocalSteps /\ place # "between"
BY DEF Collectives, Barriers, Broadcasts, Reductions, LocalSteps

\* A rank in MPI does not go on, and neither does one at the end.
LEMMA WaitsOrEnds ==
  ASSUME TypeOK, NEW r \in Ranks, pc[r] \in Collectives \/ AtEnd(r)
  PROVE  ~GoesOn(StandOf[r])
<1>1. StandOf[r].pc = pc[r] /\ StandOf[r].pos = pos[r] BY StandIs
<1>2. CASE pc[r] \in Collectives BY <1>1, <1>2, PlacesApart DEF GoesOn
<1>3. CASE AtEnd(r)
  <2>1. pc[r] = "between" /\ pos[r] > NumCalls BY <1>3 DEF AtEnd
  <2>2. ~(pos[r] <= NumCalls) BY <2>1, CallsAssumption DEF TypeOK
  <2> QED BY <1>1, <2>1, <2>2 DEF GoesOn
<1> QED BY <1>2, <1>3

LEMMA SameStand ==
  ASSUME NEW r \in Ranks, NEW q \in Ranks, TypeOK, StandOf[r] = StandOf[q]
  PROVE  /\ pos[r] = pos[q] /\ pc[r] = pc[q] /\ at[r] = at[q]
         /\ \A f \in Functions : Book(info[r][f]) = Book(info[q][f])
<1>1. /\ pos[r] = pos[q] /\ pc[r] = pc[q] /\ at[r] = at[q] /\ BookOf(r) = BookOf(q)
  BY StandIs
<1>2. ASSUME NEW f \in Functions PROVE Book(info[r][f]) = Book(info[q][f])
  <2>1. BookOf(r)[f] = BookOf(q)[f] BY <1>1
  <2> QED BY <2>1 DEF BookOf
<1> QED BY <1>1, <1>2

\* Where all wait in MPI, all wait in the same call of it.
LEMMA AllTogether ==
  ASSUME IInv, NEW places \in SUBSET Collectives, AllIn(places),
         NEW r \in Ranks, NEW q \in Ranks
  PROVE  /\ pos[r] = pos[q] /\ pc[r] = pc[q] /\ at[r] = at[q]
         /\ \A f \in Functions : Book(info[r][f]) = Book(info[q][f])
<1>1. TypeOK BY DEF IInv, OwnInv
<1>2. ~GoesOn(StandOf[r]) /\ ~GoesOn(StandOf[q])
  BY <1>1, WaitsOrEnds DEF AllIn
<1>3. StandOf[r] = StandOf[q]
  BY <1>2, TogetherAtEnd DEF IInv, OneWay
<1> QED BY <1>1, <1>3, SameStand

LEMMA KindsOfCollectives ==
  /\ Barriers \in SUBSET Collectives /\ Broadcasts \in SUBSET Collectives
  /\ Reductions \in SUBSET Collectives /\ {"gather_messages"} \in SUBSET Collectives
BY DEF Collectives

\* After MPI all are together again.
LEMMA TogetherKept ==
  ASSUME TypeOK', program' = program,
         \A r, q \in Ranks :
           /\ pos'[r] = pos'[q] /\ pc'[r] = pc'[q] /\ at'[r] = at'[q]
           /\ \A f \in Functions : Book(info'[r][f]) = Book(info'[q][f])
  PROVE  OneWay'
<1>1. PICK p \in Ranks : TRUE BY RanksAssumption
<1>2. ASSUME NEW r \in Ranks
      PROVE  StandOf'[r] = Stand(pos'[r], pc'[r], at'[r], [f \in Functions |-> Book(info'[r][f])])
  BY DEF StandOf
<1>3. ASSUME NEW r \in Ranks PROVE StandOf'[r] = StandOf'[p]
  <2>1. [f \in Functions |-> Book(info'[r][f])] = [f \in Functions |-> Book(info'[p][f])]
    OBVIOUS
  <2>2. pos'[r] = pos'[p] /\ pc'[r] = pc'[p] /\ at'[r] = at'[p] OBVIOUS
  <2>3. StandOf'[r] = Stand(pos'[p], pc'[p], at'[p], [f \in Functions |-> Book(info'[p][f])])
    BY <1>2, <2>1, <2>2
  <2> QED BY <1>2, <2>3
<1>4. StandOf'[p] \in Stands
  <2>1. [f \in Functions |-> Book(info'[p][f])] \in [Functions -> Books]
    BY DEF TypeOK, Books
  <2>2. StandOf'[p] = Stand(pos'[p], pc'[p], at'[p], [f \in Functions |-> Book(info'[p][f])])
    BY <1>2
  <2>3. /\ pos'[p] \in 1..(NumCalls + 1) /\ pc'[p] \in Collectives \cup LocalSteps
        /\ at'[p] \in 0..(NumFunctions + 1)
    BY DEF TypeOK
  <2> QED BY <2>1, <2>2, <2>3 DEF Stand, Stands
<1>5. OnWay(program, StandOf')
  BY <1>3, <1>4, TogetherOnWay
<1> QED BY <1>5 DEF OneWay, OnWay, IsWay

LEMMA HistoryKept ==
  ASSUME TypeOK, NEW r \in Ranks, OwnHistory(r),
         program' = program, errMsg' = errMsg, ended' = ended,
         Proceeds(r, pos'[r]),
         \A f \in Functions : NothingRan(info'[r][f], info[r][f])
  PROVE  OwnHistory(r)' /\ LastFree(r)' = LastFree(r)
<1>1. LastFree(r)' = LastFree(r)
  BY LastFreeStays DEF Proceeds
<1>2. ASSUME NEW f \in Functions PROVE Remembered(r, f)'
  <2>1. Remembered(r, f) BY DEF OwnHistory
  <2>2. pos'[r] >= pos[r] /\ pos[r] \in Nat /\ pos'[r] \in Nat
        /\ ended[r][f].call \in Nat
    BY CallsAssumption DEF Proceeds, TypeOK
  <2>3. NothingRan(info'[r][f], info[r][f]) OBVIOUS
  <2> QED BY <1>1, <2>1, <2>2, <2>3 DEF Remembered, Info, NothingRan
<1> QED BY <1>1, <1>2 DEF OwnHistory

\* Nothing happens to the functions.
LEMMA NothingIsNothingRan ==
  ASSUME TypeOK, NEW r \in Ranks, OwnHistory(r), NEW f \in Functions
  PROVE  NothingRan(info[r][f], info[r][f])
BY DEF NothingRan, OwnHistory, Remembered, Info

LEMMA BarrierKeepsOwn ==
  ASSUME OwnInv, Barrier
  PROVE  OwnInv' /\ \A r \in Ranks : LastFree(r)' = LastFree(r)
<1>1. /\ TypeOK /\ \A r \in Ranks : pc[r] \in Barriers
      /\ UNCHANGED <<program, pos, at, info, errMsg, ended>>
      /\ pc' = [r \in Ranks |-> IF pc[r] = "run_barrier" THEN "execute" ELSE "clear"]
  BY DEF OwnInv, Barrier, AllIn
<1>2. TypeOK' BY <1>1 DEF TypeOK, LocalSteps
<1>3. ASSUME NEW r \in Ranks
      PROVE  InCall(r)' /\ OwnHistory(r)' /\ LastFree(r)' = LastFree(r)
  <2>1. InCall(r) /\ OwnHistory(r) BY DEF OwnInv
  <2>2. \/ pc[r] = "run_barrier" /\ pc'[r] = "execute"
        \/ pc[r] = "free_barrier" /\ pc'[r] = "clear"
    BY <1>1 DEF Barriers
  <2>3. InCall(r)' BY <1>1, <2>1, <2>2 DEF InCall, Call, Info
  <2>4. OwnHistory(r)' /\ LastFree(r)' = LastFree(r)
    BY <1>1, <2>1, HistoryKept, NothingIsNothingRan DEF Proceeds
  <2> QED BY <2>3, <2>4
<1> QED BY <1>2, <1>3 DEF OwnInv

LEMMA BroadcastKeepsOwn ==
  ASSUME OwnInv, BroadcastCommand
  PROVE  OwnInv' /\ \A r \in Ranks : LastFree(r)' = LastFree(r)
<1>1. /\ TypeOK /\ \A r \in Ranks : pc[r] \in Broadcasts
      /\ UNCHANGED <<program, pos, info, errMsg, ended>>
      /\ pc' = [r \in Ranks |-> IF pc[r] = "command" THEN "magic" ELSE "board"]
      /\ at' = [r \in Ranks |-> IF pc[r] = "command" THEN at[r] ELSE 1]
  BY DEF OwnInv, BroadcastCommand, AllIn
<1>2. TypeOK' BY <1>1, Fits DEF TypeOK, LocalSteps
<1>3. ASSUME NEW r \in Ranks
      PROVE  InCall(r)' /\ OwnHistory(r)' /\ LastFree(r)' = LastFree(r)
  <2>1. InCall(r) /\ OwnHistory(r) BY DEF OwnInv
  <2>2. \/ pc[r] = "command" /\ pc'[r] = "magic" /\ at'[r] = at[r]
        \/ pc[r] = "board_command" /\ pc'[r] = "board"
    BY <1>1 DEF Broadcasts
  <2>3. InCall(r)' BY <1>1, <2>1, <2>2 DEF InCall, Call, Info
  <2>4. OwnHistory(r)' /\ LastFree(r)' = LastFree(r)
    BY <1>1, <2>1, HistoryKept, NothingIsNothingRan DEF Proceeds
  <2> QED BY <2>3, <2>4
<1> QED BY <1>2, <1>3 DEF OwnInv

\* Where the sum of the successes leaves a rank.
LEMMA ReductionIs ==
  ASSUME OwnInv, GetAllStatus, NEW r \in Ranks
  PROVE  /\ at[r] \in Functions /\ pos[r] <= NumCalls
         /\ \/ /\ pc[r] = "sync_run" /\ pc'[r] = "between" /\ pos'[r] = pos[r] + 1
               /\ at'[r] = 0 /\ Call(r).op = "run"
            \/ /\ pc[r] = "sync_each" /\ pc'[r] = "each" /\ pos'[r] = pos[r] /\ at'[r] = at[r]
            \/ /\ pc[r] = "sync_board" /\ pc'[r] = "board" /\ pos'[r] = pos[r] /\ at'[r] = at[r]
            \/ /\ pc[r] = "sync_status" /\ pc'[r] = "messages" /\ pos'[r] = pos[r] /\ at'[r] = at[r]
         /\ Proceeds(r, pos'[r])
         /\ \A f \in Functions :
              /\ info'[r][f] \in FunctionInfos
              /\ f # at[r] => info'[r][f] = info[r][f]
              /\ info'[r][f].run = info[r][f].run /\ info'[r][f].args = info[r][f].args
              /\ info'[r][f].wrapper = info[r][f].wrapper
              /\ info'[r][f].status = info[r][f].status
              /\ info'[r][f].msgs = info[r][f].msgs
         /\ info'[r][at[r]].all = Overall(r)
         /\ DOMAIN info'[r] = Functions
<1>1. /\ TypeOK /\ pc[r] \in Reductions /\ InCall(r)
      /\ info' = [q \in Ranks |-> [info[q] EXCEPT ![at[q]].all = Overall(q)]]
      /\ pc' = [q \in Ranks |-> AfterReduction[pc[q]]]
      /\ pos' = [q \in Ranks |-> IF pc[q] = "sync_run" THEN pos[q] + 1 ELSE pos[q]]
      /\ at' = [q \in Ranks |-> IF pc[q] = "sync_run" THEN 0 ELSE at[q]]
  BY DEF OwnInv, GetAllStatus, AllIn
<1>2. pc[r] \in {"sync_run", "sync_each", "sync_board", "sync_status"} /\ pos[r] <= NumCalls
  BY <1>1 DEF Reductions, InCall
<1>3. at[r] \in Functions
  BY <1>1, <1>2, CallIs DEF InCall
<1>4. \/ /\ pc[r] = "sync_run" /\ pc'[r] = "between" /\ pos'[r] = pos[r] + 1
         /\ at'[r] = 0 /\ Call(r).op = "run"
      \/ /\ pc[r] = "sync_each" /\ pc'[r] = "each" /\ pos'[r] = pos[r] /\ at'[r] = at[r]
      \/ /\ pc[r] = "sync_board" /\ pc'[r] = "board" /\ pos'[r] = pos[r] /\ at'[r] = at[r]
      \/ /\ pc[r] = "sync_status" /\ pc'[r] = "messages" /\ pos'[r] = pos[r] /\ at'[r] = at[r]
  BY <1>1, <1>2 DEF AfterReduction, InCall
<1>5. Proceeds(r, pos'[r])
  BY <1>2, <1>4 DEF Proceeds
<1>6. info[r] \in [Functions -> FunctionInfos]
  BY <1>1 DEF TypeOK
<1>7. PICK all : all = Overall(r) OBVIOUS
<1>8. all \in Statuses BY <1>7 DEF Overall, Statuses
<1>9. info'[r] = [info[r] EXCEPT ![at[r]] = [info[r][at[r]] EXCEPT !.all = all]]
  BY <1>1, <1>6, <1>7
<1>10. PICK i : i = [info[r][at[r]] EXCEPT !.all = all] OBVIOUS
<1>11. info[r][at[r]] \in FunctionInfos BY <1>3, <1>6
<1>12. /\ i \in FunctionInfos /\ i.all = all
       /\ i.run = info[r][at[r]].run /\ i.args = info[r][at[r]].args
       /\ i.wrapper = info[r][at[r]].wrapper /\ i.status = info[r][at[r]].status
       /\ i.msgs = info[r][at[r]].msgs
  BY <1>8, <1>10, <1>11 DEF FunctionInfos
<1>13. info'[r] = [info[r] EXCEPT ![at[r]] = i]
  BY <1>9, <1>10
<1>14. ASSUME NEW f \in Functions
       PROVE  /\ info'[r][f] \in FunctionInfos
              /\ f # at[r] => info'[r][f] = info[r][f]
              /\ info'[r][f].run = info[r][f].run /\ info'[r][f].args = info[r][f].args
              /\ info'[r][f].wrapper = info[r][f].wrapper
              /\ info'[r][f].status = info[r][f].status
              /\ info'[r][f].msgs = info[r][f].msgs
  <2>1. CASE f = at[r] BY <1>3, <1>6, <1>12, <1>13, <2>1
  <2>2. CASE f # at[r] BY <1>6, <1>13, <2>2
  <2> QED BY <2>1, <2>2
<1>15. info'[r][at[r]].all = Overall(r) /\ DOMAIN info'[r] = Functions
  BY <1>3, <1>6, <1>7, <1>12, <1>13
<1> QED BY <1>2, <1>3, <1>4, <1>5, <1>14, <1>15

LEMMA GetAllStatusKeepsOwn ==
  ASSUME OwnInv, GetAllStatus
  PROVE  OwnInv' /\ \A r \in Ranks : LastFree(r)' = LastFree(r)
<1>1. TypeOK /\ UNCHANGED <<program, errMsg, ended>>
  BY DEF OwnInv, GetAllStatus
<1>2. TypeOK'
  <2>1. info' \in [Ranks -> [Functions -> FunctionInfos]]
    <3>1. ASSUME NEW r \in Ranks PROVE info'[r] \in [Functions -> FunctionInfos]
      <4>1. info'[r] = [info[r] EXCEPT ![at[r]].all = Overall(r)] BY DEF GetAllStatus
      <4>2. info'[r] = [f \in Functions |-> info'[r][f]] BY <1>1, <4>1 DEF TypeOK
      <4>3. \A f \in Functions : info'[r][f] \in FunctionInfos BY ReductionIs
      <4> QED BY <4>2, <4>3
    <3>2. info' = [r \in Ranks |-> info'[r]] BY DEF GetAllStatus
    <3> QED BY <3>1, <3>2
  <2>2. ASSUME NEW r \in Ranks
        PROVE  /\ pos'[r] \in 1..(NumCalls + 1) /\ pc'[r] \in Places
               /\ at'[r] \in 0..(NumFunctions + 1)
    <3>1. pos[r] \in 1..NumCalls BY <1>1, ReductionIs, CallIs
    <3>2. at[r] \in 0..(NumFunctions + 1) /\ 0 \in 0..(NumFunctions + 1)
      BY ReductionIs, Fits
    <3>3. {"between", "each", "board", "messages"} \subseteq Places
      BY Fits DEF LocalSteps
    <3> QED BY <3>1, <3>2, <3>3, ReductionIs, CallsAssumption
  <2>3. /\ pos' \in [Ranks -> 1..(NumCalls + 1)] /\ pc' \in [Ranks -> Places]
        /\ at' \in [Ranks -> 0..(NumFunctions + 1)]
    <3>1. pos' = [r \in Ranks |-> pos'[r]] /\ pc' = [r \in Ranks |-> pc'[r]]
          /\ at' = [r \in Ranks |-> at'[r]]
      BY DEF GetAllStatus
    <3> QED BY <2>2, <3>1
  <2> QED BY <1>1, <2>1, <2>3 DEF TypeOK, Places
<1>3. ASSUME NEW r \in Ranks
      PROVE  InCall(r)' /\ OwnHistory(r)' /\ LastFree(r)' = LastFree(r)
  <2>1. InCall(r) /\ OwnHistory(r) BY DEF OwnInv
  <2>2. \/ /\ pc[r] = "sync_run" /\ pc'[r] = "between" /\ pos'[r] = pos[r] + 1
           /\ at'[r] = 0 /\ Call(r).op = "run"
        \/ /\ pc[r] = "sync_each" /\ pc'[r] = "each" /\ pos'[r] = pos[r] /\ at'[r] = at[r]
        \/ /\ pc[r] = "sync_board" /\ pc'[r] = "board" /\ pos'[r] = pos[r] /\ at'[r] = at[r]
        \/ /\ pc[r] = "sync_status" /\ pc'[r] = "messages" /\ pos'[r] = pos[r] /\ at'[r] = at[r]
    BY ReductionIs
  <2>3. InCall(r)'
    BY <1>1, <2>1, <2>2 DEF InCall, Call
  <2>4. ASSUME NEW f \in Functions PROVE NothingRan(info'[r][f], info[r][f])
    <3>1. Remembered(r, f) BY <2>1 DEF OwnHistory
    <3>2. CASE f # at[r]
      BY <2>1, <1>1, <3>2, ReductionIs, NothingIsNothingRan
    <3>3. CASE f = at[r]
      <4>1. Overall(r) = "success" => info[r][f].status = "success"
        BY <3>3 DEF Overall, AllSucceeded, Info
      <4>2. /\ info'[r][f].all = Overall(r) /\ info'[r][f].status = info[r][f].status
            /\ info'[r][f].run = info[r][f].run
        BY <3>3, ReductionIs
      <4> QED BY <4>1, <4>2 DEF NothingRan
    <3> QED BY <3>2, <3>3
  <2>5. Proceeds(r, pos'[r]) BY ReductionIs
  <2>6. OwnHistory(r)' /\ LastFree(r)' = LastFree(r)
    BY <1>1, <2>1, <2>4, <2>5, HistoryKept
  <2> QED BY <2>3, <2>6
<1> QED BY <1>2, <1>3 DEF OwnInv

LEMMA GatherIs ==
  ASSUME OwnInv, GatherMessages, NEW r \in Ranks
  PROVE  /\ at[r] \in Functions /\ pos[r] <= NumCalls
         /\ pc'[r] = "between" /\ pos'[r] = pos[r] + 1 /\ at'[r] = 0
         /\ Proceeds(r, pos'[r])
         /\ \A f \in Functions :
              /\ info'[r][f] \in FunctionInfos
              /\ f # at[r] => info'[r][f] = info[r][f]
              /\ info'[r][f].run = info[r][f].run /\ info'[r][f].args = info[r][f].args
              /\ info'[r][f].wrapper = info[r][f].wrapper
              /\ info'[r][f].status = info[r][f].status
              /\ info'[r][f].all = info[r][f].all
         /\ info'[r][at[r]].msgs = [q \in Ranks |-> errMsg[q][at[q]]]
         /\ info'[r] \in [Functions -> FunctionInfos]
<1>1. /\ TypeOK /\ \A q \in Ranks : pc[q] = "gather_messages" /\ InCall(q)
      /\ info' = [q \in Ranks |-> [info[q] EXCEPT ![at[q]].msgs =
                                 [p \in Ranks |-> errMsg[p][at[p]]]]]
      /\ pc'[r] = "between" /\ pos'[r] = pos[r] + 1 /\ at'[r] = 0
  BY DEF OwnInv, GatherMessages, AllIn
<1>2. ASSUME NEW q \in Ranks
      PROVE  at[q] \in Functions /\ pos[q] <= NumCalls /\ Call(q).op # "free"
  <2>1. /\ pos[q] <= NumCalls /\ Call(q).op \in Commands /\ at[q] = Call(q).function
    BY <1>1 DEF InCall
  <2> QED BY <1>1, <2>1, CallIs DEF Commands
<1>3. Proceeds(r, pos'[r]) BY <1>1, <1>2 DEF Proceeds
<1>4. PICK msgs : msgs = [q \in Ranks |-> errMsg[q][at[q]]] OBVIOUS
<1>5. msgs \in [Ranks -> 0..NumCalls]
  <2>1. ASSUME NEW q \in Ranks PROVE errMsg[q][at[q]] \in 0..NumCalls
    BY <1>1, <1>2 DEF TypeOK
  <2> QED BY <1>4, <2>1
<1>6. info[r] \in [Functions -> FunctionInfos] BY <1>1 DEF TypeOK
<1>7. info'[r] = [info[r] EXCEPT ![at[r]] = [info[r][at[r]] EXCEPT !.msgs = msgs]]
  BY <1>1, <1>4, <1>6
<1>8. PICK i : i = [info[r][at[r]] EXCEPT !.msgs = msgs] OBVIOUS
<1>9. info[r][at[r]] \in FunctionInfos BY <1>2, <1>6
<1>10. /\ i \in FunctionInfos /\ i.msgs = msgs
       /\ i.run = info[r][at[r]].run /\ i.args = info[r][at[r]].args
       /\ i.wrapper = info[r][at[r]].wrapper /\ i.status = info[r][at[r]].status
       /\ i.all = info[r][at[r]].all
  BY <1>5, <1>8, <1>9 DEF FunctionInfos
<1>11. info'[r] = [info[r] EXCEPT ![at[r]] = i] BY <1>7, <1>8
<1>12. ASSUME NEW f \in Functions
       PROVE  /\ info'[r][f] \in FunctionInfos
              /\ f # at[r] => info'[r][f] = info[r][f]
              /\ info'[r][f].run = info[r][f].run /\ info'[r][f].args = info[r][f].args
              /\ info'[r][f].wrapper = info[r][f].wrapper
              /\ info'[r][f].status = info[r][f].status
              /\ info'[r][f].all = info[r][f].all
  <2>1. CASE f = at[r] BY <1>2, <1>6, <1>10, <1>11, <2>1
  <2>2. CASE f # at[r] BY <1>6, <1>11, <2>2
  <2> QED BY <2>1, <2>2
<1>13. info'[r][at[r]].msgs = msgs /\ info'[r] \in [Functions -> FunctionInfos]
  BY <1>2, <1>6, <1>10, <1>11
<1> QED BY <1>1, <1>2, <1>3, <1>4, <1>12, <1>13

LEMMA GatherKeepsOwn ==
  ASSUME OwnInv, GatherMessages
  PROVE  OwnInv' /\ \A r \in Ranks : LastFree(r)' = LastFree(r)
<1>1. TypeOK /\ UNCHANGED <<program, errMsg, ended>>
  BY DEF OwnInv, GatherMessages
<1>2. TypeOK'
  <2>1. info' \in [Ranks -> [Functions -> FunctionInfos]]
    <3>1. info' = [r \in Ranks |-> info'[r]] BY DEF GatherMessages
    <3> QED BY <3>1, GatherIs
  <2>2. pos' \in [Ranks -> 1..(NumCalls + 1)]
    <3>1. ASSUME NEW r \in Ranks PROVE pos'[r] \in 1..(NumCalls + 1)
      <4>1. pos[r] \in 1..NumCalls BY <1>1, GatherIs, CallIs
      <4>2. pos'[r] = pos[r] + 1 BY GatherIs
      <4> QED BY <4>1, <4>2, CallsAssumption
    <3>2. pos' = [r \in Ranks |-> pos'[r]] BY DEF GatherMessages
    <3> QED BY <3>1, <3>2
  <2>3. pc' \in [Ranks -> Places] /\ at' \in [Ranks -> 0..(NumFunctions + 1)]
    BY Fits DEF GatherMessages, LocalSteps
  <2> QED BY <1>1, <2>1, <2>2, <2>3 DEF TypeOK, Places
<1>3. ASSUME NEW r \in Ranks
      PROVE  InCall(r)' /\ OwnHistory(r)' /\ LastFree(r)' = LastFree(r)
  <2>1. OwnHistory(r) BY DEF OwnInv
  <2>2. InCall(r)' BY GatherIs, ReturnedIsInCall
  <2>3. ASSUME NEW f \in Functions PROVE NothingRan(info'[r][f], info[r][f])
    <3>1. NothingRan(info[r][f], info[r][f]) BY <1>1, <2>1, NothingIsNothingRan
    <3>2. /\ info'[r][f].run = info[r][f].run /\ info'[r][f].status = info[r][f].status
          /\ info'[r][f].all = info[r][f].all
      BY GatherIs
    <3> QED BY <3>1, <3>2 DEF NothingRan
  <2>4. Proceeds(r, pos'[r]) BY GatherIs
  <2>5. OwnHistory(r)' /\ LastFree(r)' = LastFree(r)
    BY <1>1, <2>1, <2>3, <2>4, HistoryKept
  <2> QED BY <2>2, <2>5
<1> QED BY <1>2, <1>3 DEF OwnInv

-----------------------------------------------------------------------------
(***************************************************************************)
(* A collective is made by all at the same place, on the same book.        *)
(***************************************************************************)

LEMMA BarrierKeeps ==
  ASSUME IInv, Barrier
  PROVE  IInv'
<1>1. TypeOK /\ OwnInv /\ AllIn(Barriers) BY DEF IInv, OwnInv, Barrier
<1>2. OwnInv' /\ TypeOK' /\ \A r \in Ranks : LastFree(r)' = LastFree(r)
  BY <1>1, BarrierKeepsOwn DEF OwnInv
<1>3. OneWay'
  <2>1. UNCHANGED <<program, pos, at, info>> BY DEF Barrier
  <2>2. ASSUME NEW r \in Ranks, NEW q \in Ranks
        PROVE  /\ pos'[r] = pos'[q] /\ pc'[r] = pc'[q] /\ at'[r] = at'[q]
               /\ \A f \in Functions : Book(info'[r][f]) = Book(info'[q][f])
    <3>1. /\ pos[r] = pos[q] /\ pc[r] = pc[q] /\ at[r] = at[q]
          /\ \A f \in Functions : Book(info[r][f]) = Book(info[q][f])
      BY <1>1, AllTogether, KindsOfCollectives
    <3>2. pc'[r] = pc'[q] BY <3>1 DEF Barrier
    <3> QED BY <2>1, <3>1, <3>2
  <2> QED BY <1>2, <2>1, <2>2, TogetherKept
<1>4. MessagesFresh' BY <1>2 DEF IInv, MessagesFresh, Barrier
<1> QED BY <1>2, <1>3, <1>4 DEF IInv

LEMMA BroadcastKeeps ==
  ASSUME IInv, BroadcastCommand
  PROVE  IInv'
<1>1. TypeOK /\ OwnInv /\ AllIn(Broadcasts) BY DEF IInv, OwnInv, BroadcastCommand
<1>2. OwnInv' /\ TypeOK' /\ \A r \in Ranks : LastFree(r)' = LastFree(r)
  BY <1>1, BroadcastKeepsOwn DEF OwnInv
<1>3. OneWay'
  <2>1. UNCHANGED <<program, pos, info>> BY DEF BroadcastCommand
  <2>2. ASSUME NEW r \in Ranks, NEW q \in Ranks
        PROVE  /\ pos'[r] = pos'[q] /\ pc'[r] = pc'[q] /\ at'[r] = at'[q]
               /\ \A f \in Functions : Book(info'[r][f]) = Book(info'[q][f])
    <3>1. /\ pos[r] = pos[q] /\ pc[r] = pc[q] /\ at[r] = at[q]
          /\ \A f \in Functions : Book(info[r][f]) = Book(info[q][f])
      BY <1>1, AllTogether, KindsOfCollectives
    <3>2. pc'[r] = pc'[q] /\ at'[r] = at'[q] BY <3>1 DEF BroadcastCommand
    <3> QED BY <2>1, <3>1, <3>2
  <2> QED BY <1>2, <2>1, <2>2, TogetherKept
<1>4. MessagesFresh' BY <1>2 DEF IInv, MessagesFresh, BroadcastCommand
<1> QED BY <1>2, <1>3, <1>4 DEF IInv

\* What a book shows.
LEMMA BookFields ==
  ASSUME NEW i, NEW j, Book(i) = Book(j)
  PROVE  /\ i.run = j.run /\ i.args = j.args /\ i.wrapper = j.wrapper
         /\ i.all = j.all /\ i.msgs = j.msgs
         /\ i.status = "not_executed" <=> j.status = "not_executed"
<1>1. /\ Book(i).run = i.run /\ Book(i).args = i.args /\ Book(i).wrapper = i.wrapper
      /\ Book(i).all = i.all /\ Book(i).msgs = i.msgs
      /\ Book(i).ran = IF i.status = "not_executed" THEN "no" ELSE "yes"
  BY DEF Book, Entry
<1>2. /\ Book(j).run = j.run /\ Book(j).args = j.args /\ Book(j).wrapper = j.wrapper
      /\ Book(j).all = j.all /\ Book(j).msgs = j.msgs
      /\ Book(j).ran = IF j.status = "not_executed" THEN "no" ELSE "yes"
  BY DEF Book, Entry
<1> QED BY <1>1, <1>2

LEMMA SameFields ==
  ASSUME NEW i, NEW j,
         i.run = j.run, i.args = j.args, i.wrapper = j.wrapper,
         i.all = j.all, i.msgs = j.msgs,
         i.status = "not_executed" <=> j.status = "not_executed"
  PROVE  Book(i) = Book(j)
BY DEF Book, Entry

LEMMA GetAllStatusKeeps ==
  ASSUME IInv, GetAllStatus
  PROVE  IInv'
<1>1. TypeOK /\ OwnInv /\ AllIn(Reductions) /\ program' = program
  BY DEF IInv, OwnInv, GetAllStatus
<1>2. OwnInv' /\ TypeOK' /\ \A r \in Ranks : LastFree(r)' = LastFree(r)
  BY <1>1, GetAllStatusKeepsOwn DEF OwnInv
<1>3. ASSUME NEW r \in Ranks, NEW q \in Ranks
      PROVE  /\ pos'[r] = pos'[q] /\ pc'[r] = pc'[q] /\ at'[r] = at'[q]
             /\ \A f \in Functions : Book(info'[r][f]) = Book(info'[q][f])
  <2>1. /\ pos[r] = pos[q] /\ pc[r] = pc[q] /\ at[r] = at[q]
        /\ \A f \in Functions : Book(info[r][f]) = Book(info[q][f])
    BY <1>1, AllTogether, KindsOfCollectives
  <2>2. pos'[r] = pos'[q] /\ pc'[r] = pc'[q] /\ at'[r] = at'[q]
    BY <2>1 DEF GetAllStatus
  <2>3. Overall(r) = Overall(q) BY DEF Overall
  <2>4. ASSUME NEW f \in Functions PROVE Book(info'[r][f]) = Book(info'[q][f])
    <3>1. Book(info[r][f]) = Book(info[q][f]) BY <2>1
    <3>2. CASE f # at[r]
      <4>1. info'[r][f] = info[r][f] BY <1>1, <3>2, ReductionIs
      <4>2. info'[q][f] = info[q][f] BY <1>1, <2>1, <3>2, ReductionIs
      <4> QED BY <3>1, <4>1, <4>2
    <3>3. CASE f = at[r]
      <4>1. /\ info'[r][f].run = info[r][f].run /\ info'[r][f].args = info[r][f].args
            /\ info'[r][f].wrapper = info[r][f].wrapper
            /\ info'[r][f].status = info[r][f].status
            /\ info'[r][f].msgs = info[r][f].msgs /\ info'[r][f].all = Overall(r)
        BY <1>1, <3>3, ReductionIs
      <4>2. /\ info'[q][f].run = info[q][f].run /\ info'[q][f].args = info[q][f].args
            /\ info'[q][f].wrapper = info[q][f].wrapper
            /\ info'[q][f].status = info[q][f].status
            /\ info'[q][f].msgs = info[q][f].msgs /\ info'[q][f].all = Overall(q)
        BY <1>1, <2>1, <3>3, ReductionIs
      <4>3. /\ info[r][f].run = info[q][f].run /\ info[r][f].args = info[q][f].args
            /\ info[r][f].wrapper = info[q][f].wrapper
            /\ info[r][f].msgs = info[q][f].msgs
            /\ info[r][f].status = "not_executed" <=> info[q][f].status = "not_executed"
        BY <3>1, BookFields
      <4> QED BY <2>3, <4>1, <4>2, <4>3, SameFields
    <3> QED BY <3>2, <3>3
  <2> QED BY <2>2, <2>4
<1>4. OneWay' BY <1>1, <1>2, <1>3, TogetherKept
<1>5. MessagesFresh'
  <2>1. \A r \in Ranks : \A f \in Functions : info'[r][f].msgs = info[r][f].msgs
    BY <1>1, ReductionIs
  <2> QED BY <1>2, <2>1 DEF IInv, MessagesFresh
<1> QED BY <1>2, <1>4, <1>5 DEF IInv

LEMMA GatherKeeps ==
  ASSUME IInv, GatherMessages
  PROVE  IInv'
<1>1. TypeOK /\ OwnInv /\ AllIn({"gather_messages"}) /\ program' = program
  BY DEF IInv, OwnInv, GatherMessages
<1>2. OwnInv' /\ TypeOK' /\ \A r \in Ranks : LastFree(r)' = LastFree(r)
  BY <1>1, GatherKeepsOwn DEF OwnInv
<1>3. ASSUME NEW r \in Ranks, NEW q \in Ranks
      PROVE  /\ pos[r] = pos[q] /\ at[r] = at[q]
             /\ \A f \in Functions : Book(info[r][f]) = Book(info[q][f])
  BY <1>1, AllTogether, KindsOfCollectives
<1>4. ASSUME NEW r \in Ranks, NEW q \in Ranks
      PROVE  /\ pos'[r] = pos'[q] /\ pc'[r] = pc'[q] /\ at'[r] = at'[q]
             /\ \A f \in Functions : Book(info'[r][f]) = Book(info'[q][f])
  <2>1. pos'[r] = pos'[q] /\ pc'[r] = pc'[q] /\ at'[r] = at'[q]
    BY <1>3 DEF GatherMessages
  <2>2. ASSUME NEW f \in Functions PROVE Book(info'[r][f]) = Book(info'[q][f])
    <3>1. Book(info[r][f]) = Book(info[q][f]) BY <1>3
    <3>2. CASE f # at[r]
      <4>1. info'[r][f] = info[r][f] BY <1>1, <3>2, GatherIs
      <4>2. info'[q][f] = info[q][f]
        <5>1. f # at[q] BY <1>3, <3>2
        <5> QED BY <1>1, <5>1, GatherIs
      <4> QED BY <3>1, <4>1, <4>2
    <3>3. CASE f = at[r]
      <4>1. /\ info'[r][f].run = info[r][f].run /\ info'[r][f].args = info[r][f].args
            /\ info'[r][f].wrapper = info[r][f].wrapper
            /\ info'[r][f].status = info[r][f].status /\ info'[r][f].all = info[r][f].all
            /\ info'[r][f].msgs = [p \in Ranks |-> errMsg[p][at[p]]]
        BY <1>1, <3>3, GatherIs
      <4>2. /\ info'[q][f].run = info[q][f].run /\ info'[q][f].args = info[q][f].args
            /\ info'[q][f].wrapper = info[q][f].wrapper
            /\ info'[q][f].status = info[q][f].status /\ info'[q][f].all = info[q][f].all
            /\ info'[q][f].msgs = [p \in Ranks |-> errMsg[p][at[p]]]
        <5>1. f = at[q] BY <1>3, <3>3
        <5> QED BY <1>1, <5>1, GatherIs
      <4>3. /\ info[r][f].run = info[q][f].run /\ info[r][f].args = info[q][f].args
            /\ info[r][f].wrapper = info[q][f].wrapper /\ info[r][f].all = info[q][f].all
            /\ info[r][f].status = "not_executed" <=> info[q][f].status = "not_executed"
        BY <3>1, BookFields
      <4>4. info'[r][f].msgs = info'[q][f].msgs BY <4>1, <4>2
      <4> QED BY <4>1, <4>2, <4>3, <4>4, SameFields
    <3> QED BY <3>2, <3>3
  <2> QED BY <2>1, <2>2
<1>5. OneWay' BY <1>1, <1>2, <1>4, TogetherKept
<1>6. MessagesFresh'
  <2> SUFFICES ASSUME NEW r \in Ranks, NEW q \in Ranks, NEW f \in Functions,
                      info'[r][f].msgs # NoMsgs, info'[r][f].msgs[q] # 0
               PROVE  info'[r][f].msgs[q] > LastFree(r)'
    BY DEF MessagesFresh
  <2>1. LastFree(r)' = LastFree(r) BY <1>2
  <2>2. CASE f # at[r]
    <3>1. info'[r][f] = info[r][f] BY <1>1, <2>2, GatherIs
    <3> QED BY <2>1, <3>1 DEF IInv, MessagesFresh
  <2>3. CASE f = at[r]
    <3>1. info'[r][f].msgs = [p \in Ranks |-> errMsg[p][at[p]]]
      BY <1>1, <2>3, GatherIs
    <3>2. info'[r][f].msgs[q] = errMsg[q][f]
      BY <1>3, <2>3, <3>1
    <3>3. Remembered(q, f) BY <1>1 DEF OwnInv, OwnHistory
    <3>4. errMsg[q][f] > LastFree(q) BY <3>2, <3>3 DEF Remembered
    <3>5. LastFree(q) = LastFree(r) BY <1>3, LastFreeSame
    <3> QED BY <2>1, <3>2, <3>4, <3>5
  <2> QED BY <2>2, <2>3
<1> QED BY <1>2, <1>5, <1>6 DEF IInv

-----------------------------------------------------------------------------
(***************************************************************************)
(* The invariants hold                                                     *)
(***************************************************************************)

LEMMA CollectiveKeepsOwn ==
  ASSUME OwnInv, Collective
  PROVE  OwnInv'
BY BarrierKeepsOwn, BroadcastKeepsOwn, GetAllStatusKeepsOwn, GatherKeepsOwn
   DEF Collective

LEMMA CollectiveKeeps ==
  ASSUME IInv, Collective
  PROVE  IInv'
BY BarrierKeeps, BroadcastKeeps, GetAllStatusKeeps, GatherKeeps DEF Collective

LEMMA StutterKeepsOwn ==
  ASSUME OwnInv, UNCHANGED vars
  PROVE  OwnInv'
<1>1. UNCHANGED <<program, pos, pc, at, info, errMsg, ended>> BY DEF vars
<1>2. TypeOK' BY <1>1 DEF OwnInv, TypeOK
<1>3. ASSUME NEW r \in Ranks PROVE InCall(r)' /\ OwnHistory(r)'
  <2>1. InCall(r) /\ OwnHistory(r) BY DEF OwnInv
  <2>2. LastFree(r)' = LastFree(r) BY <1>1 DEF LastFree
  <2>3. InCall(r)' BY <1>1, <2>1 DEF InCall, Call, Info
  <2>4. OwnHistory(r)' BY <1>1, <2>1, <2>2 DEF OwnHistory, Remembered, Info
  <2> QED BY <2>3, <2>4
<1> QED BY <1>2, <1>3 DEF OwnInv

LEMMA StutterKeeps ==
  ASSUME IInv, UNCHANGED vars
  PROVE  IInv'
<1>1. UNCHANGED <<program, pos, pc, at, info, errMsg, ended>> BY DEF vars
<1>2. OwnInv' BY StutterKeepsOwn DEF IInv
<1>3. StandOf' = StandOf BY <1>1 DEF StandOf
<1>4. OneWay' BY <1>1, <1>3 DEF IInv, OneWay, OnWay, IsWay
<1>5. \A r \in Ranks : LastFree(r)' = LastFree(r) BY <1>1 DEF LastFree
<1>6. MessagesFresh' BY <1>1, <1>5 DEF IInv, MessagesFresh
<1> QED BY <1>2, <1>4, <1>6 DEF IInv

LEMMA InitIsOwn ==
  ASSUME Init
  PROVE  OwnInv
<1>1. ASSUME NEW run \in {"not_set", "unlisted"}
      PROVE  /\ NewInfo(run) \in FunctionInfos
             /\ NewInfo(run).status = "not_executed" /\ NewInfo(run).all = "not_executed"
             /\ NewInfo(run).msgs = NoMsgs
  BY DEF NewInfo, FunctionInfos, Statuses, Quotes
<1>2. TypeOK
  <2>1. program \in [1..NumCalls -> Calls] BY DEF Init
  <2>2. pos \in [Ranks -> 1..(NumCalls + 1)] /\ at \in [Ranks -> 0..(NumFunctions + 1)]
    BY Fits, CallsAssumption DEF Init
  <2>3. pc \in [Ranks -> Collectives \cup LocalSteps] BY DEF Init, LocalSteps
  <2>4. info \in [Ranks -> [Functions -> FunctionInfos]] BY <1>1 DEF Init
  <2>5. errMsg \in [Ranks -> [Functions -> 0..NumCalls]] BY CallsAssumption DEF Init
  <2>6. ended \in [Ranks -> [Functions ->
          [how : {"never", "returns", "raises", "escapes"}, call : 0..NumCalls]]]
    <3>1. 0 \in 0..NumCalls BY CallsAssumption
    <3> QED BY <3>1 DEF Init
  <2> QED BY <2>1, <2>2, <2>3, <2>4, <2>5, <2>6 DEF TypeOK
<1>3. ASSUME NEW r \in Ranks PROVE InCall(r) /\ OwnHistory(r)
  <2>1. InCall(r) BY DEF InCall, Init
  <2>2. ASSUME NEW f \in Functions PROVE Remembered(r, f)
    <3>1. Info(r, f).status = "not_executed" /\ Info(r, f).all = "not_executed"
      BY <1>1 DEF Init, Info
    <3>2. errMsg[r][f] = 0 /\ ended[r][f].call = 0 /\ pos[r] = 1 BY DEF Init
    <3>3. LastFree(r) \in Nat BY <1>2, LastFreeIsBefore
    <3> QED BY <3>1, <3>2, <3>3 DEF Remembered
  <2> QED BY <2>1, <2>2 DEF OwnHistory
<1> QED BY <1>2, <1>3 DEF OwnInv

LEMMA InitIs ==
  ASSUME Init
  PROVE  IInv
<1>1. OwnInv /\ TypeOK BY InitIsOwn DEF OwnInv
<1>2. PICK p \in Ranks : TRUE BY RanksAssumption
<1>3. \A r \in Ranks : StandOf[r] = StandOf[p]
  <2>1. ASSUME NEW r \in Ranks
        PROVE  pos[r] = pos[p] /\ pc[r] = pc[p] /\ at[r] = at[p] /\ info[r] = info[p]
    BY DEF Init
  <2> QED BY <2>1 DEF StandOf
<1>4. StandOf[p] \in Stands BY <1>1, StandIs
<1>5. OneWay BY <1>3, <1>4, TogetherOnWay DEF OneWay
<1>6. MessagesFresh
  <2>1. \A r \in Ranks : \A f \in Functions : info[r][f].msgs = NoMsgs
    BY DEF Init, NewInfo
  <2> QED BY <2>1 DEF MessagesFresh
<1> QED BY <1>1, <1>5, <1>6 DEF IInv

LEMMA StepKeepsOwn ==
  ASSUME OwnInv, [Next]_vars
  PROVE  OwnInv'
<1>1. ASSUME NEW r \in Ranks, LocalStep(r) PROVE OwnInv'
  BY <1>1, LocalStepDoes, LocalStepKeepsOwn
<1>2. CASE Collective BY <1>2, CollectiveKeepsOwn
<1>3. CASE Finished BY <1>3, StutterKeepsOwn DEF Finished
<1>4. CASE UNCHANGED vars BY <1>4, StutterKeepsOwn
<1> QED BY <1>1, <1>2, <1>3, <1>4 DEF Next

LEMMA StepKeeps ==
  ASSUME Uncaught = FALSE, IInv, [Next]_vars
  PROVE  IInv'
<1>1. ASSUME NEW r \in Ranks, LocalStep(r) PROVE IInv'
  <2>1. OwnStep(r) BY <1>1, LocalStepDoes DEF IInv
  <2> QED BY <2>1, LocalStepKeeps
<1>2. CASE Collective BY <1>2, CollectiveKeeps
<1>3. CASE Finished BY <1>3, StutterKeeps DEF Finished
<1>4. CASE UNCHANGED vars BY <1>4, StutterKeeps
<1> QED BY <1>1, <1>2, <1>3, <1>4 DEF Next

\* What a rank remembers of its functions is true of it, whatever Python
\* raises: OwnInv is inductive by itself.
THEOREM OwnInvariantHolds == Spec => []OwnInv
<1>1. Init => OwnInv BY InitIsOwn
<1>2. OwnInv /\ [Next]_vars => OwnInv' BY StepKeepsOwn
<1> QED BY <1>1, <1>2, PTL DEF Spec

\* The lists and caches of every rank have their types.
THEOREM TypesHold == Spec => []TypeOK
<1>1. OwnInv => TypeOK BY DEF OwnInv
<1> QED BY <1>1, OwnInvariantHolds, PTL

\* An entry point runs on its own (RunEveryFunction) only what has not run
\* since the last yt_free, whatever Python raises.
THEOREM NothingRunsTwice == Spec => NotRunTwice
<1> DEFINE Quiet ==
      \A r \in Ranks : \A f \in Functions :
        pc[r] = "each" /\ ended[r][f] # ended'[r][f] => ended[r][f].call <= LastFree(r)
<1>1. OwnInv /\ [Next]_vars => [Quiet]_vars
  <2> SUFFICES ASSUME OwnInv, Next PROVE Quiet OBVIOUS
  <2>1. ASSUME NEW q \in Ranks, LocalStep(q) PROVE Quiet
    <3>1. OwnStep(q) BY <2>1, LocalStepDoes
    <3>2. ASSUME NEW r \in Ranks, NEW f \in Functions,
                 pc[r] = "each", ended[r][f] # ended'[r][f]
          PROVE  ended[r][f].call <= LastFree(r)
      <4>1. r = q BY <3>1, <3>2 DEF OwnStep, OthersRest
      <4> QED BY <3>1, <3>2, <4>1 DEF OwnStep
    <3> QED BY <3>2
  <2>2. CASE Collective
    <3>1. ended' = ended
      BY <2>2 DEF Collective, Barrier, BroadcastCommand, GetAllStatus, GatherMessages
    <3> QED BY <3>1
  <2>3. CASE Finished BY <2>3 DEF Finished, vars
  <2> QED BY <2>1, <2>2, <2>3 DEF Next
<1> QED BY <1>1, OwnInvariantHolds, PTL DEF Spec, NotRunTwice

\* The ranks are always on one way of the program, as long as Python raises
\* nothing that the code around the functions does not catch.
THEOREM InvariantHolds ==
  ASSUME Uncaught = FALSE
  PROVE  Spec => []IInv
<1>1. Init => IInv BY InitIs
<1>2. IInv /\ [Next]_vars => IInv' BY StepKeeps
<1> QED BY <1>1, <1>2, PTL DEF Spec

LEMMA MatchingFollows ==
  ASSUME IInv
  PROVE  CollectivesMatch
<1>1. TypeOK BY DEF IInv, OwnInv
<1> SUFFICES ASSUME NEW r \in Ranks, NEW q \in Ranks, pc[r] \in Collectives
             PROVE  /\ pc[q] \in Collectives =>
                         <<pos[q], pc[q], at[q]>> = <<pos[r], pc[r], at[r]>>
                    /\ ~AtEnd(q)
  BY DEF CollectivesMatch
<1>2. ASSUME pc[q] \in Collectives \/ AtEnd(q) PROVE StandOf[r] = StandOf[q]
  <2>1. ~GoesOn(StandOf[r]) /\ ~GoesOn(StandOf[q]) BY <1>1, <1>2, WaitsOrEnds
  <2> QED BY <2>1, TogetherAtEnd DEF IInv, OneWay
<1>3. pc[q] \in Collectives => <<pos[q], pc[q], at[q]>> = <<pos[r], pc[r], at[r]>>
  BY <1>1, <1>2, SameStand
<1>4. ~AtEnd(q)
  <2> SUFFICES ASSUME AtEnd(q) PROVE FALSE OBVIOUS
  <2>1. pc[q] = pc[r] BY <1>1, <1>2, SameStand
  <2> QED BY <2>1, PlacesApart DEF AtEnd
<1> QED BY <1>3, <1>4

LEMMA SameBooksFollow ==
  ASSUME IInv
  PROVE  SameBook
<1>1. TypeOK BY DEF IInv, OwnInv
<1> SUFFICES ASSUME Together, NEW r \in Ranks, NEW q \in Ranks
             PROVE  \A f \in Functions : Book(info[r][f]) = Book(info[q][f])
  BY DEF SameBook
<1>2. pc[r] = "between" /\ pc[q] = "between" /\ pos[r] = pos[q] /\ pos[r] \in Nat
  BY <1>1, CallsAssumption DEF Together, TypeOK
<1>3. /\ StandOf[r].pc = "between" /\ StandOf[q].pc = "between"
      /\ StandOf[r].pos = StandOf[q].pos /\ StandOf[r].pos \in Nat
  BY <1>1, <1>2, StandIs
<1>4. StandOf[r] = StandOf[q] BY <1>3, TogetherBetween DEF IInv, OneWay
<1> QED BY <1>1, <1>4, SameStand

\* GetAllStatus and GetAllErrorMsg are collective only if a cache of the rank
\* is out of date.  Still no two ranks ever wait in MPI in different calls,
\* and no rank waits for one that has left the program.
THEOREM CollectivesAlwaysMatch ==
  ASSUME Uncaught = FALSE
  PROVE  Spec => []CollectivesMatch
<1>1. IInv => CollectivesMatch BY MatchingFollows
<1> QED BY <1>1, InvariantHolds, PTL

\* Between two calls all the ranks have the same list of functions, with the
\* same overall status and the same cached messages.
THEOREM BooksStayTheSame ==
  ASSUME Uncaught = FALSE
  PROVE  Spec => []SameBook
<1>1. IInv => SameBook BY SameBooksFollow
<1> QED BY <1>1, InvariantHolds, PTL

\* GetAllStatus calls no function successful that any rank has seen fail.
THEOREM SuccessIsAlwaysTrue ==
  ASSUME Uncaught = FALSE
  PROVE  Spec => []SuccessIsTrue
<1>1. IInv => SuccessIsTrue
  <2> SUFFICES ASSUME IInv, Together, NEW r \in Ranks, NEW q \in Ranks,
                      NEW f \in Functions, info[r][f].all = "success"
               PROVE  ended[q][f].how = "returns"
    BY DEF SuccessIsTrue
  <2>1. Book(info[r][f]) = Book(info[q][f]) BY SameBooksFollow DEF SameBook
  <2>2. info[q][f].all = "success" BY <2>1, BookFields
  <2>3. Remembered(q, f) BY DEF IInv, OwnInv, OwnHistory
  <2> QED BY <2>2, <2>3 DEF Remembered, Info
<1> QED BY <1>1, InvariantHolds, PTL

\* No status, message or cached message outlives yt_free.
THEOREM NothingIsCarriedOver ==
  ASSUME Uncaught = FALSE
  PROVE  Spec => []NothingCarriedOver
<1>1. IInv => NothingCarriedOver
  <2>1. IInv => \A r \in Ranks : \A f \in Functions :
                  errMsg[r][f] # 0 => errMsg[r][f] > LastFree(r)
    BY DEF IInv, OwnInv, OwnHistory, Remembered
  <2>2. IInv => MessagesFresh BY DEF IInv
  <2> QED BY <2>1, <2>2 DEF NothingCarriedOver, MessagesFresh
<1> QED BY <1>1, InvariantHolds, PTL

\* The ranks are never all waiting for each other: unless one has a step of
\* its own they are in the same collective, or all have left the program.
THEOREM ProgramNeverDeadlocks ==
  ASSUME Uncaught = FALSE
  PROVE  Spec => []NeverStuck
<1>1. TypeOK /\ CollectivesMatch => NeverStuck
  <2> SUFFICES ASSUME TypeOK, CollectivesMatch,
                      \A r \in Ranks : pc[r] \in Collectives \/ AtEnd(r),
                      NEW q \in Ranks, ~AtEnd(q)
               PROVE  \A r \in Ranks : <<pos[r], pc[r], at[r]>> = <<pos[q], pc[q], at[q]>>
    BY DEF NeverStuck, TypeOK
  <2> QED BY DEF CollectivesMatch
<1> QED BY <1>1, TypesHold, CollectivesAlwaysMatch, PTL
-----------------------------------------------------------------------------
(***************************************************************************)
(* Wrapping                                                                *)
(***************************************************************************)

LEMMA FirstIsQuoted ==
  ASSUME NEW args \in Seq(SUBSET Quotes), Quoted(args) # {}
  PROVE  First(args) \in Quoted(args) /\ \A j \in Quoted(args) : First(args) <= j
<1>1. Quoted(args) \in SUBSET Nat BY DEF Quoted
<1>2. \E i \in Quoted(args) : \A j \in Quoted(args) : i <= j BY <1>1, LeastNat
<1> QED BY <1>2 DEF First

\* Arguments with triple quotes of one kind are wrapped in the other, and
\* neither a call of the simulation nor %libyt run refuses them.
THEOREM OneKindOfQuotesIsWrapped ==
  ASSUME NEW args \in Seq(SUBSET Quotes), NEW default \in Quotes,
         OneKindOfQuotes(args)
  PROVE  ~UnableToWrap(args) /\ ~Broken(args, Wrapper(args, default))
<1>1. PICK kind \in Quotes : \A i \in DOMAIN args : args[i] \subseteq {kind}
  BY DEF OneKindOfQuotes
<1>2. CASE Quoted(args) = {}
  BY <1>2 DEF Quoted, UnableToWrap, Broken
<1>3. CASE Quoted(args) # {}
  <2>1. First(args) \in Quoted(args) BY <1>3, FirstIsQuoted
  <2>2. First(args) \in DOMAIN args /\ args[First(args)] = {kind}
    BY <1>1, <2>1 DEF Quoted
  <2>3. \A d \in Quotes : Wrapper(args, d) \in Quotes \ {kind}
    BY <1>3, <2>2 DEF Wrapper, Quotes
  <2> QED BY <1>1, <2>3 DEF UnableToWrap, Broken, Quoted, Quotes
<1> QED BY <1>2, <1>3
\* What a function is wrapped in for which arguments is not changed
KeepsWrapping ==
  \A r \in Ranks : \A f \in Functions :
    info'[r][f].args = info[r][f].args /\ info'[r][f].wrapper = info[r][f].wrapper

\* by what is done to its statuses,
LEMMA UpdateKeepsWrapping ==
  ASSUME TypeOK, NEW r \in Ranks, NEW f, NEW i, Learns(r, f, i),
         f \in Functions => i.args = info[r][f].args /\ i.wrapper = info[r][f].wrapper
  PROVE  KeepsWrapping
BY DEF TypeOK, KeepsWrapping, Learns

LEMMA ExecuteKeepsWrapping ==
  ASSUME TypeOK, NEW r \in Ranks, NEW f \in Functions, NEW ending, Execute(r, f, ending)
  PROVE  KeepsWrapping
<1>1. PICK s, a : info' = [info EXCEPT ![r][f].status = s, ![r][f].all = a]
  BY DEF Execute
<1>2. info[r][f] \in FunctionInfos BY DEF TypeOK
<1>3. PICK i : i = [info[r][f] EXCEPT !.status = s, !.all = a] OBVIOUS
<1>4. Learns(r, f, i)
  BY <1>1, <1>3 DEF Learns, TypeOK
<1>5. i.args = info[r][f].args /\ i.wrapper = info[r][f].wrapper
  BY <1>2, <1>3 DEF FunctionInfos
<1> QED BY <1>4, <1>5, UpdateKeepsWrapping

\* nor by any step but the three commands that set what is run.
LEMMA OthersKeepWrapping ==
  ASSUME OwnInv, [Next]_vars,
         \A r \in Ranks : ~SetFunctionRun(r) /\ ~SetFunctionIdle(r) /\ ~LoadScript(r)
  PROVE  KeepsWrapping
<1>0. TypeOK BY DEF OwnInv
<1>1. ASSUME info' = info PROVE KeepsWrapping
  BY <1>1 DEF KeepsWrapping
<1>2. ASSUME NEW r \in Ranks, StartRun(r) PROVE KeepsWrapping
  <2> DEFINE f == Call(r).function
  <2>1. f \in Functions
    BY <1>0, <1>2, CallIs DEF StartRun, AtCall
  <2>2. info' = info \/ info' = [info EXCEPT ![r][f].run = "run",
                                            ![r][f].status = "need_update",
                                            ![r][f].all = "need_update"]
    BY <1>2 DEF StartRun
  <2> HIDE DEF f
  <2>3. ASSUME info' # info PROVE KeepsWrapping
    <3>1. info[r][f] \in FunctionInfos BY <1>0, <2>1 DEF TypeOK
    <3> DEFINE i == [info[r][f] EXCEPT !.run = "run", !.status = "need_update",
                                       !.all = "need_update"]
    <3>2. info' = [info EXCEPT ![r][f].run = "run", ![r][f].status = "need_update",
                               ![r][f].all = "need_update"]
      BY <2>2, <2>3
    <3>3. Learns(r, f, i)
      BY <1>0, <2>1, <3>2 DEF Learns, TypeOK
    <3>4. i.args = info[r][f].args /\ i.wrapper = info[r][f].wrapper
      BY <3>1 DEF FunctionInfos
    <3> QED BY <1>0, <3>3, <3>4, UpdateKeepsWrapping
  <2> QED BY <1>1, <2>3
<1>3. ASSUME NEW r \in Ranks, RunFunction(r) PROVE KeepsWrapping
  <2>1. at[r] \in Functions
    BY <1>0, <1>3, CallIs DEF RunFunction, OwnInv, InCall
  <2>2. \E ending : Execute(r, at[r], ending)
    BY <1>3 DEF RunFunction
  <2> QED BY <2>1, <2>2, <1>0, ExecuteKeepsWrapping
<1>4. ASSUME NEW r \in Ranks, RunEveryFunction(r) PROVE KeepsWrapping
  <2>1. info' = info \/ \E f \in Functions : \E ending : Execute(r, f, ending)
    BY <1>4 DEF RunEveryFunction, ToRun
  <2> QED BY <1>1, <2>1, <1>0, ExecuteKeepsWrapping
<1>5. ASSUME NEW r \in Ranks, Free(r) PROVE KeepsWrapping
  <2>1. /\ info' = [info EXCEPT ![r] = [f \in Functions |-> Reset(info[r][f])]]
        /\ info \in [Ranks -> [Functions -> FunctionInfos]]
    BY <1>0, <1>5 DEF Free, TypeOK
  <2>2. /\ \A f \in Functions : info'[r][f] = Reset(info[r][f])
        /\ \A q \in Ranks \ {r} : info'[q] = info[q]
    BY <2>1
  <2>3. ASSUME NEW f \in Functions
        PROVE  info'[r][f].args = info[r][f].args /\ info'[r][f].wrapper = info[r][f].wrapper
    <3>1. info[r][f] \in FunctionInfos BY <2>1
    <3>2. info'[r][f] = Reset(info[r][f]) BY <2>2
    <3> QED BY <3>1, <3>2 DEF Reset, FunctionInfos
  <2> QED BY <2>2, <2>3 DEF KeepsWrapping
<1>6. CASE GetAllStatus
  BY <1>6, ReductionIs DEF KeepsWrapping
<1>7. CASE GatherMessages
  BY <1>7, GatherIs DEF KeepsWrapping
<1>8. ASSUME NEW r \in Ranks,
             \/ Enter(r) \/ StatusBoard(r) \/ Command(r) \/ GetFunctionStatus(r)
             \/ GetAllErrorMsg(r) \/ StartFree(r)
      PROVE  KeepsWrapping
  BY <1>1, <1>8 DEF Enter, StatusBoard, Command, GetFunctionStatus, GetAllErrorMsg, StartFree
<1>9. CASE Barrier \/ BroadcastCommand \/ Finished \/ UNCHANGED vars
  BY <1>1, <1>9 DEF Barrier, BroadcastCommand, Finished, vars
<1> QED BY <1>2, <1>3, <1>4, <1>5, <1>6, <1>7, <1>8, <1>9 DEF Next, LocalStep, Collective

LEMMA NoArgumentsNoQuotes ==
  ASSUME NEW i, i.args = <<>>
  PROVE  WellWrapped(i)
BY DEF WellWrapped, Broken

\* Only a command that libyt refuses can break what a good command has set to
\* run (SetFunctionRun), whatever Python raises.
THEOREM CommandsStayGood == Spec => OnlyRefusalsBreak
<1> DEFINE Refused(r, f) == /\ pc[r] = "magic" /\ Call(r).op = "run_it" /\ at[r] = f
                            /\ UnableToWrap(Call(r).args)
           Kept == \A r \in Ranks : \A f \in Functions :
                     WellWrapped(info[r][f]) /\ ~WellWrapped(info'[r][f]) => Refused(r, f)
<1>1. OwnInv /\ [Next]_vars => [Kept]_vars
  <2> SUFFICES ASSUME OwnInv, [Next]_vars,
                      NEW r \in Ranks, NEW f \in Functions,
                      WellWrapped(info[r][f]), ~WellWrapped(info'[r][f])
               PROVE  Refused(r, f)
    OBVIOUS
  <2>1. ASSUME NEW q \in Ranks, SetFunctionRun(q) PROVE Refused(r, f)
    <3> DEFINE args == Call(q).args
               old  == Info(q, at[q])
               new  == [old EXCEPT !.wrapper = Wrapper(args, @)]
    <3>1. /\ at[q] \in Functions /\ args \in Seq(SUBSET Quotes)
          /\ pc[q] = "magic" /\ Call(q).op = "run_it"
      BY <2>1, CallIs, CallsAssumption DEF OwnInv, InCall, SetFunctionRun, Commands
    <3>2. old \in FunctionInfos /\ old = info[q][at[q]]
      BY <3>1, InfoIs DEF OwnInv
    <3>3. PICK i : i = IF at[q] \notin Listed(q) THEN old
                      ELSE IF UnableToWrap(args) THEN new
                      ELSE [new EXCEPT !.run = "run", !.args = args]
      OBVIOUS
    <3>4. info' = [info EXCEPT ![q][at[q]] = i]
      <4> HIDE DEF args
      <4>1. info' = [info EXCEPT ![q][at[q]] =
               IF at[q] \notin Listed(q) THEN info[q][at[q]]
               ELSE IF UnableToWrap(args) THEN new
               ELSE [new EXCEPT !.run = "run", !.args = args]]
        BY <2>1 DEF SetFunctionRun, args
      <4> HIDE DEF new, old
      <4> QED BY <3>2, <3>3, <4>1
    <3> HIDE DEF args
    <3>5. r = q /\ f = at[q] /\ info'[r][f] = i
      BY <3>1, <3>4 DEF OwnInv, TypeOK
    <3>6. CASE at[q] \notin Listed(q)
      BY <3>2, <3>3, <3>5, <3>6
    <3>7. CASE UnableToWrap(args)
      BY <3>1, <3>5, <3>7 DEF args
    <3>8. CASE at[q] \in Listed(q) /\ ~UnableToWrap(args)
      <4>1. i.args = args /\ i.wrapper = Wrapper(args, old.wrapper)
        <5> HIDE DEF old
        <5> QED BY <3>2, <3>3, <3>8 DEF FunctionInfos
      <4>2. old.wrapper \in Quotes BY <3>2 DEF FunctionInfos
      <4>3. WellWrapped(i)
        BY <3>1, <4>1, <4>2, OneKindOfQuotesIsWrapped DEF WellWrapped
      <4> QED BY <3>5, <4>3
    <3> QED BY <3>6, <3>7, <3>8
  <2>2. ASSUME NEW q \in Ranks, SetFunctionIdle(q) PROVE Refused(r, f)
    <3>1. at[q] \in Functions
      BY <2>2, CallIs DEF OwnInv, InCall, SetFunctionIdle, Commands
    <3>2. info[q][at[q]] \in FunctionInfos BY <3>1 DEF OwnInv, TypeOK
    <3>3. \/ info'[r][f] = info[r][f]
          \/ info'[r][f] = [info[q][at[q]] EXCEPT !.run = "idle", !.args = <<>>]
      BY <2>2, <3>1 DEF SetFunctionIdle, OwnInv, TypeOK
    <3>4. info'[r][f] = info[r][f] \/ info'[r][f].args = <<>>
      BY <3>2, <3>3 DEF FunctionInfos
    <3> QED BY <3>4, NoArgumentsNoQuotes
  <2>3. ASSUME NEW q \in Ranks, LoadScript(q) PROVE Refused(r, f)
    <3>1. info'[r][f] = info[r][f] \/ info'[r][f] = NewInfo("idle")
      BY <2>3 DEF LoadScript, OwnInv, TypeOK
    <3> QED BY <3>1, NoArgumentsNoQuotes DEF NewInfo
  <2>4. CASE \A q \in Ranks : ~SetFunctionRun(q) /\ ~SetFunctionIdle(q) /\ ~LoadScript(q)
    <3>1. KeepsWrapping BY <2>4, OthersKeepWrapping
    <3> QED BY <3>1 DEF KeepsWrapping, WellWrapped
  <2> QED BY <2>1, <2>2, <2>3, <2>4
<1> QED BY <1>1, OwnInvariantHolds, PTL DEF Spec, OnlyRefusalsBreak
=============================================================================
