------------------------ MODULE LibytLifecycleProofs ------------------------
(***************************************************************************)
(* Proofs about LibytLifecycle, for any number of ranks, grids and fields, *)
(* and however far a rank is ahead of the others.                          *)
(***************************************************************************)
EXTENDS LibytLifecycleInvariants, TLAPS

(***************************************************************************)
(* The window of calls                                                     *)
(***************************************************************************)

\* A rank that calls goes one place on, and its call is the one that was, or
\* now is, at that place; if no rank is at the begin any more the first call
\* is forgotten.
LEMMA WindowMoves ==
  ASSUME TypeOK, NEW r \in Ranks, NEW c, NextCall(r, c)
  PROVE  /\ c \in Calls /\ ~crashed /\ pc[r] = "user"
         /\ \E all \in Seq(Calls) : \E now \in [Ranks -> 0 .. Len(all)] :
              /\ Len(all) <= MaxLead
              /\ all = IF at[r] < Len(calls) THEN calls ELSE Append(calls, c)
              /\ now = [at EXCEPT ![r] = @ + 1]
              /\ all[now[r]] = c
              /\ \/ /\ \A q \in Ranks : now[q] > 0
                    /\ calls' = Tail(all) /\ at' = [q \in Ranks |-> now[q] - 1]
                 \/ /\ \E q \in Ranks : now[q] = 0
                    /\ calls' = all /\ at' = now
<1> USE SizeAssumption
<1>1. c \in Choices(r) /\ calls \in Seq(Calls) /\ Len(calls) <= MaxLead
  BY DEF NextCall, TypeOK
<1>2. at \in [Ranks -> 0 .. Len(calls)] /\ at[r] \in 0 .. Len(calls)
  BY DEF TypeOK
<1>3. ~crashed /\ pc[r] = "user" /\ c \in Calls
  BY <1>1, <1>2 DEF Choices
<1>4. at[r] < Len(calls) => c = calls[at[r] + 1]
  BY <1>1, <1>2, <1>3 DEF Choices
<1>5. ~(at[r] < Len(calls)) => Len(calls) < MaxLead
  BY <1>1, <1>2, <1>3 DEF Choices
<1> DEFINE all == IF at[r] < Len(calls) THEN calls ELSE Append(calls, c)
           now == [at EXCEPT ![r] = @ + 1]
<1>6. /\ all \in Seq(Calls) /\ Len(all) <= MaxLead
      /\ at[r] + 1 <= Len(all) /\ Len(calls) <= Len(all)
  BY <1>1, <1>2, <1>3, <1>5
<1>7. now \in [Ranks -> 0 .. Len(all)] /\ now[r] = at[r] + 1
  <2>1. \A q \in Ranks : now[q] \in 0 .. Len(all)
    BY <1>2, <1>6
  <2> QED BY <2>1, <1>2
<1>8. all[now[r]] = c
  BY <1>1, <1>2, <1>3, <1>4, <1>7
<1>9. \/ /\ \A q \in Ranks : now[q] > 0
         /\ calls' = Tail(all) /\ at' = [q \in Ranks |-> now[q] - 1]
      \/ /\ \E q \in Ranks : now[q] = 0
         /\ calls' = all /\ at' = now
  <2>1. CASE \A q \in Ranks : now[q] > 0
    BY <2>1 DEF NextCall
  <2>2. CASE ~ \A q \in Ranks : now[q] > 0
    <3>1. \E q \in Ranks : now[q] = 0 BY <2>2, <1>7
    <3>2. calls' = all /\ at' = now BY <2>2 DEF NextCall
    <3> QED BY <3>1, <3>2
  <2> QED BY <2>1, <2>2
<1> HIDE DEF all, now
<1> QED BY <1>3, <1>6, <1>7, <1>8, <1>9 DEF all, now

LEMMA WindowType ==
  ASSUME TypeOK, SomeRankIsLast, NEW r \in Ranks, NEW c, NextCall(r, c)
  PROVE  /\ calls' \in Seq(Calls) /\ Len(calls') <= MaxLead
         /\ at' \in [Ranks -> 0 .. Len(calls')]
         /\ SomeRankIsLast'
<1>0. PICK all \in Seq(Calls) : \E now \in [Ranks -> 0 .. Len(all)] :
        /\ Len(all) <= MaxLead
        /\ all = IF at[r] < Len(calls) THEN calls ELSE Append(calls, c)
        /\ now = [at EXCEPT ![r] = @ + 1]
        /\ all[now[r]] = c
        /\ \/ /\ \A q \in Ranks : now[q] > 0
              /\ calls' = Tail(all) /\ at' = [q \in Ranks |-> now[q] - 1]
           \/ /\ \E q \in Ranks : now[q] = 0
              /\ calls' = all /\ at' = now
  BY WindowMoves
<1>1. PICK now \in [Ranks -> 0 .. Len(all)] :
        /\ Len(all) <= MaxLead
        /\ now = [at EXCEPT ![r] = @ + 1]
        /\ \/ /\ \A q \in Ranks : now[q] > 0
              /\ calls' = Tail(all) /\ at' = [q \in Ranks |-> now[q] - 1]
           \/ /\ \E q \in Ranks : now[q] = 0
              /\ calls' = all /\ at' = now
  BY <1>0
<1>2. CASE (\E q \in Ranks : now[q] = 0) /\ calls' = all /\ at' = now
  BY <1>1, <1>2 DEF SomeRankIsLast
<1>3. CASE /\ \A q \in Ranks : now[q] > 0
           /\ calls' = Tail(all) /\ at' = [q \in Ranks |-> now[q] - 1]
  <2>1. all # <<>> /\ Len(all) > 0 /\ now[r] > 0
    BY <1>1, <1>3
  <2>2. Tail(all) \in Seq(Calls) /\ Len(Tail(all)) = Len(all) - 1
    BY <2>1
  <2>3. \A q \in Ranks : now[q] - 1 \in 0 .. Len(Tail(all))
    BY <1>3, <2>2
  <2>4. PICK s \in Ranks : at[s] = 0
    BY DEF SomeRankIsLast
  <2>5. at \in [Ranks -> 0 .. Len(calls)] BY DEF TypeOK
  <2>6. now[s] = 1
    BY <1>1, <1>3, <2>4, <2>5
  <2>7. at'[s] = 0
    BY <1>3, <2>6
  <2>8. at' \in [Ranks -> 0 .. Len(calls')]
    BY <1>3, <2>3
  <2>9. Len(calls') <= MaxLead
    <3>1. Len(calls') = Len(all) - 1 BY <1>3, <2>2
    <3>2. Len(all) <= MaxLead BY <1>1
    <3>3. Len(all) \in Int /\ MaxLead \in Int BY SizeAssumption
    <3> QED BY <3>1, <3>2, <3>3
  <2>10. calls' \in Seq(Calls)
    BY <1>3, <2>2
  <2>11. SomeRankIsLast'
    BY <2>7 DEF SomeRankIsLast
  <2> QED BY <2>8, <2>9, <2>10, <2>11
<1> QED BY <1>1, <1>2, <1>3

\* A call of a rank that is at its place of a path continues the path.
LEMMA CallKeepsPath ==
  ASSUME TypeOK, NEW r \in Ranks, NEW c, NextCall(r, c),
         NEW S, NEW After, NEW view, NEW new,
         OnPath(S, After, view, calls, at),
         view[r].wait = "none",
         After[view[r]][c] \in S,
         new[r] = After[view[r]][c],
         \A q \in Ranks \ {r} : new[q] = view[q]
  PROVE  OnPath(S, After, new, calls', at')
<1>0. PICK all \in Seq(Calls) : \E now \in [Ranks -> 0 .. Len(all)] :
        /\ Len(all) <= MaxLead
        /\ all = IF at[r] < Len(calls) THEN calls ELSE Append(calls, c)
        /\ now = [at EXCEPT ![r] = @ + 1]
        /\ all[now[r]] = c
        /\ \/ /\ \A q \in Ranks : now[q] > 0
              /\ calls' = Tail(all) /\ at' = [q \in Ranks |-> now[q] - 1]
           \/ /\ \E q \in Ranks : now[q] = 0
              /\ calls' = all /\ at' = now
  BY WindowMoves
<1>1. PICK now \in [Ranks -> 0 .. Len(all)] :
        /\ all = IF at[r] < Len(calls) THEN calls ELSE Append(calls, c)
        /\ now = [at EXCEPT ![r] = @ + 1]
        /\ all[now[r]] = c
        /\ \/ /\ \A q \in Ranks : now[q] > 0
              /\ calls' = Tail(all) /\ at' = [q \in Ranks |-> now[q] - 1]
           \/ /\ \E q \in Ranks : now[q] = 0
              /\ calls' = all /\ at' = now
  BY <1>0
<1>2. /\ calls \in Seq(Calls) /\ at \in [Ranks -> 0 .. Len(calls)]
      /\ at[r] \in 0 .. Len(calls) /\ now[r] = at[r] + 1
      /\ \A q \in Ranks \ {r} : now[q] = at[q]
  BY <1>1 DEF TypeOK
<1>3. PICK path \in [0 .. Len(calls) -> S] :
        /\ \A k \in 1 .. Len(calls) :
             path[k - 1].wait = "none" /\ path[k] = After[path[k - 1]][calls[k]]
        /\ \A q \in Ranks : view[q] = path[at[q]]
  BY DEF OnPath
<1>4. \E more \in [0 .. Len(all) -> S] :
        /\ \A k \in 1 .. Len(all) :
             more[k - 1].wait = "none" /\ more[k] = After[more[k - 1]][all[k]]
        /\ \A q \in Ranks : new[q] = more[now[q]]
  <2>1. CASE at[r] < Len(calls)
    <3>1. all = calls BY <1>1, <2>1
    <3>2. path[at[r] + 1] = After[path[at[r]]][calls[at[r] + 1]]
      BY <1>2, <1>3, <2>1
    <3>3. new[r] = path[now[r]]
      BY <1>1, <1>2, <1>3, <3>1, <3>2
    <3>4. ASSUME NEW q \in Ranks PROVE new[q] = path[now[q]]
      BY <1>2, <1>3, <3>3
    <3>5. /\ path \in [0 .. Len(all) -> S]
          /\ \A k \in 1 .. Len(all) :
               path[k - 1].wait = "none" /\ path[k] = After[path[k - 1]][all[k]]
      BY <1>3, <3>1
    <3> QED BY <3>4, <3>5
  <2>2. CASE ~(at[r] < Len(calls))
    <3>1. all = Append(calls, c) /\ Len(all) = Len(calls) + 1 /\ at[r] = Len(calls)
      BY <1>1, <1>2, <2>2
    <3> DEFINE more == [k \in 0 .. Len(all) |->
                          IF k <= Len(calls) THEN path[k] ELSE new[r]]
    <3>2. more \in [0 .. Len(all) -> S]
      BY <1>2, <1>3, <3>1
    <3>3. \A k \in 0 .. Len(calls) : more[k] = path[k]
      BY <1>2, <3>1
    <3>4. more[Len(all)] = new[r]
      BY <1>2, <3>1
    <3>5. ASSUME NEW k \in 1 .. Len(all)
          PROVE  more[k - 1].wait = "none" /\ more[k] = After[more[k - 1]][all[k]]
      <4>1. CASE k \in 1 .. Len(calls)
        <5>1. all[k] = calls[k] BY <1>2, <3>1, <4>1
        <5>2. more[k] = path[k] /\ more[k - 1] = path[k - 1]
          BY <1>2, <3>3, <4>1
        <5> QED BY <1>3, <4>1, <5>1, <5>2
      <4>2. CASE k = Len(all)
        <5>1. more[k - 1] = view[r] /\ all[k] = c
          BY <1>1, <1>2, <1>3, <3>1, <3>3, <4>2
        <5> QED BY <3>4, <4>2, <5>1
      <4> QED BY <1>2, <3>1, <4>1, <4>2
    <3>6. ASSUME NEW q \in Ranks PROVE new[q] = more[now[q]]
      <4>1. CASE q = r BY <1>2, <3>1, <3>4, <4>1
      <4>2. CASE q # r
        <5>1. at[q] \in 0 .. Len(calls) BY <1>2
        <5> QED BY <1>2, <1>3, <3>3, <4>2, <5>1
      <4> QED BY <4>1, <4>2
    <3> HIDE DEF more
    <3> QED BY <3>2, <3>5, <3>6
  <2> QED BY <2>1, <2>2
<1>5. PICK more \in [0 .. Len(all) -> S] :
        /\ \A k \in 1 .. Len(all) :
             more[k - 1].wait = "none" /\ more[k] = After[more[k - 1]][all[k]]
        /\ \A q \in Ranks : new[q] = more[now[q]]
  BY <1>4
<1>6. CASE calls' = all /\ at' = now
  BY <1>5, <1>6 DEF OnPath
<1>7. CASE /\ \A q \in Ranks : now[q] > 0
           /\ calls' = Tail(all) /\ at' = [q \in Ranks |-> now[q] - 1]
  <2>1. all # <<>> /\ Len(all) \in Nat /\ Len(all) > 0
    BY <1>1, <1>2
  <2>2. Len(Tail(all)) = Len(all) - 1 /\ \A k \in 1 .. Len(Tail(all)) : Tail(all)[k] = all[k + 1]
    BY <2>1
  <2> DEFINE rest == [k \in 0 .. Len(Tail(all)) |-> more[k + 1]]
  <2>3. rest \in [0 .. Len(Tail(all)) -> S]
    BY <1>5, <2>1, <2>2
  <2>4. ASSUME NEW k \in 1 .. Len(Tail(all))
        PROVE  rest[k - 1].wait = "none" /\ rest[k] = After[rest[k - 1]][Tail(all)[k]]
    <3>1. k + 1 \in 1 .. Len(all) /\ rest[k] = more[k + 1] /\ rest[k - 1] = more[k]
      BY <2>1, <2>2
    <3>2. more[(k + 1) - 1].wait = "none" /\ more[k + 1] = After[more[(k + 1) - 1]][all[k + 1]]
      BY <1>5, <3>1
    <3>3. (k + 1) - 1 = k OBVIOUS
    <3> QED BY <2>2, <3>1, <3>2, <3>3
  <2>5. ASSUME NEW q \in Ranks PROVE new[q] = rest[at'[q]]
    <3>1. now[q] \in 0 .. Len(all) /\ now[q] > 0 /\ at'[q] = now[q] - 1
      BY <1>7
    <3>2. at'[q] \in 0 .. Len(Tail(all)) BY <2>1, <2>2, <3>1
    <3>3. rest[at'[q]] = more[now[q]] BY <3>1, <3>2
    <3> QED BY <1>5, <3>3
  <2> HIDE DEF rest
  <2> QED BY <1>7, <2>3, <2>4, <2>5 DEF OnPath
<1> QED BY <1>1, <1>6, <1>7

\* What is seen of the ranks is all that matters.
LEMMA SameViewSamePath ==
  ASSUME NEW S, NEW After, NEW view, NEW new, NEW cs, NEW place,
         OnPath(S, After, view, cs, place),
         \A q \in Ranks : new[q] = view[q]
  PROVE  OnPath(S, After, new, cs, place)
BY DEF OnPath

\* Ranks that wait are all at the end of the path, and nothing is left of the
\* program: they are in the same state.
LEMMA WaitingTogether ==
  ASSUME TypeOK, SomeRankIsLast, NEW S, NEW After, NEW view,
         OnPath(S, After, view, calls, at),
         \A r \in Ranks : view[r].wait # "none"
  PROVE  /\ calls = <<>> /\ \A r \in Ranks : at[r] = 0
         /\ \A q, r \in Ranks : view[q] = view[r]
<1>1. PICK path \in [0 .. Len(calls) -> S] :
        /\ \A k \in 1 .. Len(calls) : path[k - 1].wait = "none"
        /\ \A q \in Ranks : view[q] = path[at[q]]
  BY DEF OnPath
<1>2. calls \in Seq(Calls) /\ at \in [Ranks -> 0 .. Len(calls)]
  BY DEF TypeOK
<1>3. ASSUME NEW q \in Ranks PROVE at[q] = Len(calls)
  <2>1. at[q] \in 0 .. Len(calls) BY <1>2
  <2>2. SUFFICES ASSUME at[q] < Len(calls) PROVE FALSE BY <1>2, <2>1
  <2>3. at[q] + 1 \in 1 .. Len(calls) /\ (at[q] + 1) - 1 = at[q] BY <1>2, <2>1, <2>2
  <2>4. path[at[q]].wait = "none" BY <1>1, <2>3
  <2> QED BY <1>1, <2>4
<1>4. Len(calls) = 0 BY <1>3 DEF SomeRankIsLast
<1> QED BY <1>1, <1>2, <1>3, <1>4

\* Ranks in the same state, with no call between them, are on a path.
LEMMA PathOfOne ==
  ASSUME NEW S, NEW After, NEW view, NEW place, NEW s \in S,
         \A r \in Ranks : place[r] = 0 /\ view[r] = s
  PROVE  OnPath(S, After, view, <<>>, place)
<1> DEFINE path == [k \in 0 .. 0 |-> s]
<1>1. path \in [0 .. Len(<<>>) -> S] /\ path[0] = s OBVIOUS
<1>2. \A k \in 1 .. Len(<<>>) : FALSE OBVIOUS
<1> HIDE DEF path
<1> QED BY <1>1, <1>2 DEF OnPath

-----------------------------------------------------------------------------
(***************************************************************************)
(* What a call of one rank leaves                                          *)
(***************************************************************************)

LEMMA OtherRankKept ==
  ASSUME NEW q \in Ranks, RankInv(q),
         flags'[q] = flags[q], pc'[q] = pc[q], store'[q] = store[q],
         initCount'[q] = initCount[q], q \in failed => q \in failed'
  PROVE  RankInv(q)'
BY DEF RankInv, FlagsFit, PlaceFits, StoreFits, LabelsFit, AllBound, Has,
       NoLabels

LEMMA SkeletonType ==
  ASSUME TypeOK, NEW r \in Ranks
  PROVE  SkeletonOf[r] \in Skeletons
BY DEF SkeletonOf, Skeletons, Has, TypeOK

LEMMA StateType ==
  ASSUME TypeOK, NEW r \in Ranks
  PROVE  StateOf[r] \in States
<1>1. flags[r] \in SUBSET Flags /\ pc[r] \in {"user", "gathered", "written", "cleanup"} \cup Waiting
      /\ store[r].sumFits \in BOOLEAN
  BY DEF TypeOK, Stores
<1> QED BY <1>1 DEF StateOf, Shared, States, CommonFlags, Flags

LEMMA CallKeepsBarriers ==
  ASSUME IInv, NEW r \in Ranks, NEW c, NextCall(r, c),
         \A q \in Ranks \ {r} :
           flags'[q] = flags[q] /\ pc'[q] = pc[q] /\ initCount'[q] = initCount[q],
         Dead(r) => Dead(r)',
         ~Dead(r) /\ ~Dead(r)' => SkeletonOf'[r] = AfterSkeleton[SkeletonOf[r]][c]
  PROVE  BarriersMatch'
<1> SUFFICES ASSUME Alive' PROVE BarriersMatch' BY DEF BarriersMatch
<1>1. ~Dead(r)' /\ ~Dead(r) BY DEF Alive
<1>2. Alive BY <1>1 DEF Alive, Dead, Has
<1>3. TypeOK /\ OnPath(Skeletons, AfterSkeleton, SkeletonOf, calls, at)
  BY <1>2 DEF IInv, BarriersMatch
<1>4. c \in Calls /\ pc[r] = "user" BY <1>3, WindowMoves
<1>5. SkeletonOf[r] \in Skeletons /\ SkeletonOf[r].wait = "none"
  BY <1>3, <1>4, SkeletonType DEF SkeletonOf, Waiting
<1>6. AfterSkeleton[SkeletonOf[r]][c] \in Skeletons
  BY <1>4, <1>5 DEF AfterSkeleton, Skeletons
<1>7. \A q \in Ranks \ {r} : SkeletonOf'[q] = SkeletonOf[q]
  BY DEF SkeletonOf, Has
<1>8. OnPath(Skeletons, AfterSkeleton, SkeletonOf', calls', at')
  BY <1>1, <1>3, <1>5, <1>6, <1>7, CallKeepsPath
<1> QED BY <1>8 DEF BarriersMatch

LEMMA CallKeepsStates ==
  ASSUME IInv, NEW r \in Ranks, NEW c, NextCall(r, c), parTypes' = parTypes,
         \A q \in Ranks \ {r} :
           /\ flags'[q] = flags[q] /\ pc'[q] = pc[q]
           /\ initCount'[q] = initCount[q] /\ store'[q] = store[q],
         Dead(r) => Dead(r)',
         failed \subseteq failed',
         ~Dead(r) /\ ~Dead(r)' /\ r \notin failed' =>
           StateOf'[r] = AfterState[StateOf[r]][c]
  PROVE  NoFailureNoParting'
<1> SUFFICES ASSUME Alive', failed' = {} PROVE NoFailureNoParting'
  BY DEF NoFailureNoParting
<1>1. ~Dead(r)' /\ ~Dead(r) BY DEF Alive
<1>2. Alive /\ failed = {} BY <1>1 DEF Alive, Dead, Has
<1>3. TypeOK /\ OnPath(States, AfterState, StateOf, calls, at)
  BY <1>2 DEF IInv, NoFailureNoParting
<1>4. c \in Calls /\ pc[r] = "user" BY <1>3, WindowMoves
<1>5. StateOf[r] \in States /\ StateOf[r].wait = "none"
  BY <1>3, <1>4, StateType DEF StateOf, Waiting
<1>6. AfterState[StateOf[r]][c] \in States
  BY <1>4, <1>5 DEF AfterState, States, NewFlags, WaitOf, CommonFlags, Flags, Waiting
<1>7. \A q \in Ranks \ {r} : StateOf'[q] = StateOf[q]
  BY DEF StateOf, Shared
<1>8. OnPath(States, AfterState, StateOf', calls', at')
  BY <1>1, <1>3, <1>5, <1>6, <1>7, CallKeepsPath
<1>9. AfterState' = AfterState
  BY DEF AfterState, NewFlags, WaitOf, ReadyToCommit
<1> QED BY <1>8, <1>9 DEF NoFailureNoParting

LEMMA CallKeepsCommit ==
  ASSUME CommitHolds, NEW r \in Ranks, pc[r] = "user",
         \A q \in Ranks \ {r} :
           flags'[q] = flags[q] /\ pc'[q] = pc[q] /\ store'[q] = store[q],
         Committed(r)' => Committed(r),
         Has(r, "param_yt_set") =>
           /\ Has(r, "param_yt_set")' /\ pc'[r] # "cleanup"
           /\ store'[r].written = store[r].written
           /\ store'[r].hierarchy = store[r].hierarchy
  PROVE  CommitHolds'
<1> SUFFICES ASSUME NEW p \in Ranks, Committed(p)', NEW q \in Ranks
             PROVE  /\ store'[q].written \/ pc'[q] = "gathered"
                    /\ store'[q].hierarchy = "current"
                    /\ Has(q, "param_yt_set")' /\ pc'[q] # "cleanup"
  BY DEF CommitHolds
<1>1. Committed(p) BY DEF Committed, Has
<1>2. /\ store[q].written \/ pc[q] = "gathered"
      /\ store[q].hierarchy = "current"
      /\ Has(q, "param_yt_set") /\ pc[q] # "cleanup"
  BY <1>1 DEF CommitHolds
<1>3. CASE q = r BY <1>2, <1>3
<1>4. CASE q # r BY <1>2, <1>4 DEF Has
<1> QED BY <1>3, <1>4

\* A call that is not collective, or the part of one before it waits.
LEMMA CallKeepsIInv ==
  ASSUME IInv, NEW r \in Ranks, NEW c, NextCall(r, c), TypeOK',
         parTypes' = parTypes, failed \subseteq failed',
         \A q \in Ranks \ {r} :
           /\ flags'[q] = flags[q] /\ pc'[q] = pc[q]
           /\ initCount'[q] = initCount[q] /\ store'[q] = store[q],
         RankInv(r)',
         Dead(r) => Dead(r)',
         ~Dead(r) /\ ~Dead(r)' =>
           /\ SkeletonOf'[r] = AfterSkeleton[SkeletonOf[r]][c]
           /\ r \notin failed' => StateOf'[r] = AfterState[StateOf[r]][c],
         Committed(r)' => Committed(r),
         Has(r, "param_yt_set") =>
           /\ Has(r, "param_yt_set")' /\ pc'[r] # "cleanup"
           /\ store'[r].written = store[r].written
           /\ store'[r].hierarchy = store[r].hierarchy
  PROVE  IInv'
<1>1. \A q \in Ranks : RankInv(q)'
  <2> TAKE q \in Ranks
  <2>1. CASE q = r BY <2>1
  <2>2. CASE q # r BY <2>2, OtherRankKept DEF IInv
  <2> QED BY <2>1, <2>2
<1>2. SomeRankIsLast' BY WindowType DEF IInv
<1>3. BarriersMatch' BY CallKeepsBarriers
<1>4. NoFailureNoParting' BY CallKeepsStates
<1>5. pc[r] = "user" BY WindowMoves DEF IInv
<1>6. CommitHolds' BY <1>5, CallKeepsCommit DEF IInv
<1> QED BY <1>1, <1>2, <1>3, <1>4, <1>6 DEF IInv

\* The parts of TypeOK that a call does not change, or changes at one rank.
LEMMA CallType ==
  ASSUME IInv, NEW r \in Ranks, NEW c, NextCall(r, c),
         NEW p \in {"user", "gathered", "written", "cleanup"} \cup Waiting,
         NEW f \in SUBSET Flags, NEW n \in 0 .. 2,
         parTypes' = parTypes, crashed' = crashed,
         pc' = [pc EXCEPT ![r] = p], flags' = [flags EXCEPT ![r] = f],
         DOMAIN store' = Ranks, store'[r] \in Stores(r),
         \A q \in Ranks \ {r} : store'[q] = store[q],
         initCount' = [initCount EXCEPT ![r] = n],
         failed' \subseteq failed \cup {r}
  PROVE  TypeOK'
<1>1. /\ calls' \in Seq(Calls) /\ Len(calls') <= MaxLead
      /\ at' \in [Ranks -> 0 .. Len(calls')]
  BY WindowType DEF IInv
<1>2. TypeOK BY DEF IInv
<1>3. /\ parTypes' \in BOOLEAN /\ crashed' \in BOOLEAN /\ failed' \subseteq Ranks
  BY <1>2 DEF TypeOK
<1>4. /\ pc' \in [Ranks -> {"user", "gathered", "written", "cleanup"} \cup Waiting]
      /\ initCount' \in [Ranks -> 0 .. 2] /\ flags' \in [Ranks -> SUBSET Flags]
  BY <1>2 DEF TypeOK
<1>5. DOMAIN store' = Ranks /\ \A q \in Ranks : store'[q] \in Stores(q)
  BY <1>2 DEF TypeOK
<1> QED BY <1>1, <1>3, <1>4, <1>5 DEF TypeOK, Stores, Labels

-----------------------------------------------------------------------------
(***************************************************************************)
(* One lemma for each action                                               *)
(***************************************************************************)

\* What the invariant says of the rank that moves.
LEMMA OfRank ==
  ASSUME IInv, NEW r \in Ranks
  PROVE  /\ FlagsFit(r) /\ PlaceFits(r) /\ StoreFits(r) /\ LabelsFit(r)
         /\ flags[r] \in SUBSET Flags /\ store[r] \in Stores(r)
         /\ pc[r] \in {"user", "gathered", "written", "cleanup"} \cup Waiting
         /\ initCount[r] \in 0 .. 2
         /\ pc = [pc EXCEPT ![r] = pc[r]] /\ flags = [flags EXCEPT ![r] = flags[r]]
         /\ initCount = [initCount EXCEPT ![r] = initCount[r]]
         /\ DOMAIN pc = Ranks /\ DOMAIN flags = Ranks /\ DOMAIN store = Ranks
         /\ DOMAIN initCount = Ranks
<1>1. TypeOK /\ RankInv(r) BY DEF IInv
<1>2. /\ DOMAIN pc = Ranks /\ DOMAIN flags = Ranks /\ DOMAIN store = Ranks
      /\ DOMAIN initCount = Ranks
  BY <1>1 DEF TypeOK
<1> QED BY <1>1, <1>2 DEF TypeOK, RankInv

\* Where a call takes the views of a rank.
LEMMA AfterCall ==
  ASSUME TypeOK, NEW r \in Ranks, NEW c \in Calls, pc[r] = "user"
  PROVE  /\ SkeletonOf[r] = [init |-> Has(r, "initialized"),
                             need |-> Has(r, "need_free"), wait |-> "none"]
         /\ AfterSkeleton[SkeletonOf[r]][c] =
              [init |-> Has(r, "initialized") \/ c = "initialize",
               need |-> \/ Has(r, "need_free")
                        \/ Has(r, "initialized") /\ c \in {"set", "set_miscounted"},
               wait |-> IF Has(r, "initialized") /\ c \in {"free", "run"}
                          THEN c ELSE "none"]
         /\ StateOf[r] = [flags |-> Shared(r), fits |-> store[r].sumFits, wait |-> "none"]
         /\ AfterState[StateOf[r]][c] =
              [flags |-> Shared(r) \cup NewFlags(Shared(r), c),
               fits |-> IF /\ c \in Sets
                           /\ "initialized" \in Shared(r) /\ "need_free" \notin Shared(r)
                          THEN c # "set_miscounted" ELSE store[r].sumFits,
               wait |-> WaitOf(Shared(r), c)]
<1>1. SkeletonOf[r] = [init |-> Has(r, "initialized"),
                       need |-> Has(r, "need_free"), wait |-> "none"]
  BY DEF SkeletonOf, Has
<1>2. SkeletonOf[r] \in Skeletons BY SkeletonType
<1>3. StateOf[r] \in States BY StateType
<1>4. StateOf[r] = [flags |-> Shared(r), fits |-> store[r].sumFits, wait |-> "none"]
  <2>1. store[r] \in Stores(r) BY DEF TypeOK
  <2>2. store[r].sumFits \in BOOLEAN BY <2>1 DEF Stores
  <2> QED BY <2>2 DEF StateOf, Waiting
<1>5. AfterSkeleton[SkeletonOf[r]][c] =
        [init |-> Has(r, "initialized") \/ c = "initialize",
         need |-> \/ Has(r, "need_free")
                  \/ Has(r, "initialized") /\ c \in {"set", "set_miscounted"},
         wait |-> IF Has(r, "initialized") /\ c \in {"free", "run"}
                    THEN c ELSE "none"]
  <2>1. ASSUME NEW s \in Skeletons
        PROVE  AfterSkeleton[s][c] =
                 [init |-> s.init \/ c = "initialize",
                  need |-> s.need \/ (s.init /\ c \in {"set", "set_miscounted"}),
                  wait |-> IF s.init /\ c \in {"free", "run"} THEN c ELSE "none"]
    BY DEF AfterSkeleton
  <2>2. /\ SkeletonOf[r].init = Has(r, "initialized")
        /\ SkeletonOf[r].need = Has(r, "need_free")
    BY <1>1
  <2> QED BY <1>2, <2>1, <2>2
<1>6. ASSUME NEW s \in States
      PROVE  AfterState[s][c] =
               [flags |-> s.flags \cup NewFlags(s.flags, c),
                fits |-> IF c \in Sets /\ "initialized" \in s.flags /\ "need_free" \notin s.flags
                           THEN c # "set_miscounted" ELSE s.fits,
                wait |-> WaitOf(s.flags, c)]
  BY DEF AfterState
<1>7. StateOf[r].flags = Shared(r) /\ StateOf[r].fits = store[r].sumFits
  BY <1>4
<1> QED BY <1>1, <1>3, <1>4, <1>5, <1>6, <1>7

LEMMA RefuseKeeps ==
  ASSUME IInv, NEW r \in Ranks, Refuse(r)
  PROVE  IInv'
<1>0. /\ FlagsFit(r) /\ PlaceFits(r) /\ StoreFits(r) /\ LabelsFit(r)
      /\ flags[r] \in SUBSET Flags /\ store[r] \in Stores(r)
      /\ pc[r] \in {"user", "gathered", "written", "cleanup"} \cup Waiting
      /\ initCount[r] \in 0 .. 2
      /\ pc = [pc EXCEPT ![r] = pc[r]] /\ flags = [flags EXCEPT ![r] = flags[r]]
      /\ initCount = [initCount EXCEPT ![r] = initCount[r]]
      /\ DOMAIN pc = Ranks /\ DOMAIN flags = Ranks /\ DOMAIN store = Ranks
      /\ DOMAIN initCount = Ranks
  BY OfRank
<1>1. PICK c \in Choices(r) :
        /\ ~Admitted(r, c) /\ NextCall(r, c) /\ Counted(r, c)
        /\ failed' = IF OwnRefusal(r, c) THEN failed \cup {r} ELSE failed
  BY DEF Refuse
<1>2. /\ parTypes' = parTypes /\ pc' = pc /\ flags' = flags /\ store' = store
      /\ crashed' = crashed
  BY DEF Refuse
<1>3. /\ TypeOK /\ c \in Calls /\ pc[r] = "user"
  BY <1>1, WindowMoves DEF IInv
<1>4. PICK n \in 0 .. 2 : /\ initCount' = [initCount EXCEPT ![r] = n]
                          /\ n >= initCount[r]
                          /\ c # "initialize" => n = initCount[r]
  <2>0. initCount' = IF c = "initialize" /\ initCount[r] < 2
                       THEN [initCount EXCEPT ![r] = @ + 1] ELSE initCount
    BY <1>1 DEF Counted
  <2>1. CASE c = "initialize" /\ initCount[r] < 2
    <3>1. initCount[r] + 1 \in 0 .. 2 /\ initCount' = [initCount EXCEPT ![r] = initCount[r] + 1]
      BY <1>0, <2>0, <2>1
    <3>2. initCount[r] + 1 >= initCount[r] BY <1>0
    <3> QED BY <2>1, <3>1, <3>2
  <2>2. CASE ~(c = "initialize" /\ initCount[r] < 2)
    <3>1. initCount' = initCount BY <2>0, <2>2
    <3>2. initCount' = [initCount EXCEPT ![r] = initCount[r]] BY <1>0, <3>1
    <3>3. initCount[r] \in 0 .. 2 /\ initCount[r] >= initCount[r] BY <1>0
    <3> QED BY <2>2, <3>2, <3>3
  <2> QED BY <2>1, <2>2
<1>5. TypeOK'
  <2>1. failed' \subseteq failed \cup {r} BY <1>1
  <2>2. pc' = [pc EXCEPT ![r] = pc[r]] /\ flags' = [flags EXCEPT ![r] = flags[r]]
    BY <1>0, <1>2
  <2> QED BY <1>0, <1>1, <1>2, <1>4, <2>1, <2>2, CallType
<1>6. initCount'[r] = n /\ \A q \in Ranks \ {r} : initCount'[q] = initCount[q]
  BY <1>0, <1>4
<1>7. RankInv(r)'
  <2>1. FlagsFit(r)'
    BY <1>0, <1>2, <1>4, <1>6 DEF FlagsFit, Has
  <2>2. PlaceFits(r)' /\ StoreFits(r)'
    BY <1>0, <1>2 DEF PlaceFits, StoreFits, Has, NoLabels
  <2>3. LabelsFit(r)'
    BY <1>0, <1>1, <1>2 DEF LabelsFit, AllBound, Has
  <2> QED BY <2>1, <2>2, <2>3 DEF RankInv
<1>8. Dead(r) => Dead(r)'
  BY <1>0, <1>2, <1>4, <1>6 DEF Dead, Has
<1>9. ASSUME ~Dead(r), ~Dead(r)'
      PROVE  /\ c = "initialize" => Has(r, "initialized")
             /\ c \in {"free", "run"} => ~Has(r, "initialized")
             /\ c \in {"set", "set_miscounted"} /\ Has(r, "initialized") => Has(r, "need_free")
             /\ c \in Sets => ~Has(r, "initialized") \/ Has(r, "need_free")
  <2>1. c = "initialize" => Has(r, "initialized")
    <3> SUFFICES ASSUME c = "initialize", ~Has(r, "initialized") PROVE FALSE OBVIOUS
    <3>1. initCount[r] = 0 BY <1>0, <1>9 DEF Dead
    <3> QED BY <1>1, <3>1 DEF Admitted, Sets, Stored
  <2>2. c \in {"free", "run"} => ~Has(r, "initialized")
    BY <1>1 DEF Admitted, Sets, Stored
  <2>3. c \in Sets => ~Has(r, "initialized") \/ Has(r, "need_free")
    BY <1>1 DEF Admitted, Sets, Stored
  <2> QED BY <2>1, <2>2, <2>3 DEF Sets, Stored
<1>10. ASSUME ~Dead(r), ~Dead(r)'
       PROVE  SkeletonOf'[r] = AfterSkeleton[SkeletonOf[r]][c]
  <2>1. SkeletonOf'[r] = SkeletonOf[r] BY <1>2 DEF SkeletonOf, Has
  <2>2. AfterSkeleton[SkeletonOf[r]][c] = SkeletonOf[r]
    <3>1. (Has(r, "initialized") \/ c = "initialize") = Has(r, "initialized")
      BY <1>9, <1>10 DEF Has
    <3>2. (\/ Has(r, "need_free")
           \/ Has(r, "initialized") /\ c \in {"set", "set_miscounted"})
            = Has(r, "need_free")
      <4>1. c \in {"set", "set_miscounted"} /\ Has(r, "initialized") => Has(r, "need_free")
        BY <1>9, <1>10
      <4>2. Has(r, "need_free") \in BOOLEAN /\ Has(r, "initialized") \in BOOLEAN
        BY DEF Has
      <4> QED BY <4>1, <4>2
    <3>3. (IF Has(r, "initialized") /\ c \in {"free", "run"} THEN c ELSE "none") = "none"
      BY <1>9, <1>10
    <3>4. AfterSkeleton[SkeletonOf[r]][c] =
            [init |-> Has(r, "initialized") \/ c = "initialize",
             need |-> \/ Has(r, "need_free")
                      \/ Has(r, "initialized") /\ c \in {"set", "set_miscounted"},
             wait |-> IF Has(r, "initialized") /\ c \in {"free", "run"}
                        THEN c ELSE "none"]
      BY <1>3, AfterCall
    <3>5. SkeletonOf[r] = [init |-> Has(r, "initialized"),
                           need |-> Has(r, "need_free"), wait |-> "none"]
      BY <1>3, AfterCall
    <3> QED BY <3>1, <3>2, <3>3, <3>4, <3>5
  <2> QED BY <2>1, <2>2
<1>11. ASSUME ~Dead(r), ~Dead(r)', r \notin failed'
       PROVE  StateOf'[r] = AfterState[StateOf[r]][c]
  <2>1. NewFlags(Shared(r), c) \subseteq Shared(r)
    BY <1>0, <1>1, <1>3, <1>9, <1>11
       DEF NewFlags, Admitted, Has, FlagsFit, Sets, Stored, Shared
  <2>2. WaitOf(Shared(r), c) = "none"
    BY <1>0, <1>1, <1>3, <1>9, <1>11
       DEF WaitOf, ReadyToCommit, Admitted, OwnRefusal, Has, NeedsGridsPtr, Sets, Stored,
           Shared
  <2>3. StateOf'[r] = StateOf[r]
    BY <1>2 DEF StateOf, Shared
  <2>4. ~(c \in Sets /\ "initialized" \in Shared(r) /\ "need_free" \notin Shared(r))
    BY <1>9, <1>11 DEF Has, Shared
  <2>5. AfterState[StateOf[r]][c] = StateOf[r]
    <3>1. Shared(r) \cup NewFlags(Shared(r), c) = Shared(r) BY <2>1
    <3> QED BY <1>3, <2>2, <2>4, <3>1, AfterCall
  <2> QED BY <2>3, <2>5
<1>12. Committed(r)' => Committed(r)
  BY <1>2 DEF Committed, Has
<1>13. Has(r, "param_yt_set") =>
         Has(r, "param_yt_set")' /\ pc'[r] # "cleanup"
  BY <1>2, <1>3 DEF Has
<1>14. failed \subseteq failed' BY <1>1
<1> QED BY <1>1, <1>2, <1>5, <1>6, <1>7, <1>8, <1>10, <1>11, <1>12, <1>13, <1>14, CallKeepsIInv

LEMMA InitializeKeeps ==
  ASSUME IInv, NEW r \in Ranks, Initialize(r)
  PROVE  IInv'
<1>0. /\ FlagsFit(r) /\ PlaceFits(r) /\ StoreFits(r) /\ LabelsFit(r)
      /\ flags[r] \in SUBSET Flags /\ store[r] \in Stores(r)
      /\ pc[r] \in {"user", "gathered", "written", "cleanup"} \cup Waiting
      /\ initCount[r] \in 0 .. 2
      /\ pc = [pc EXCEPT ![r] = pc[r]] /\ flags = [flags EXCEPT ![r] = flags[r]]
      /\ DOMAIN pc = Ranks /\ DOMAIN flags = Ranks /\ DOMAIN store = Ranks
      /\ DOMAIN initCount = Ranks
  BY OfRank
<1>1. /\ NextCall(r, "initialize") /\ initCount[r] = 0
      /\ initCount' = [initCount EXCEPT ![r] = 1]
      /\ parTypes' = parTypes /\ pc' = pc /\ store' = store /\ crashed' = crashed
  BY <1>0 DEF Initialize, Call, Admitted, Counted, Sets, Stored
<1>2. PICK new \in {{}, {"initialized"}} :
        /\ flags' = [flags EXCEPT ![r] = new]
        /\ new = {} => failed' = failed \cup {r}
        /\ new # {} => failed' = failed
  <2>1. flags[r] = {} BY <1>0, <1>1 DEF FlagsFit
  <2>2. CASE SetFlags(r, {"initialized"}) /\ UNCHANGED failed
    <3>1. flags' = [flags EXCEPT ![r] = {"initialized"}]
      BY <1>0, <2>1, <2>2 DEF SetFlags
    <3> QED BY <2>2, <3>1
  <2>3. CASE failed' = failed \cup {r} /\ UNCHANGED flags
    <3>1. flags' = [flags EXCEPT ![r] = {}] BY <1>0, <2>1, <2>3
    <3> QED BY <2>3, <3>1
  <2> QED BY <2>2, <2>3 DEF Initialize
<1>3. TypeOK /\ "initialize" \in Calls /\ pc[r] = "user"
  BY <1>1, WindowMoves DEF IInv
<1>4. flags'[r] = new /\ initCount'[r] = 1 /\ new \in SUBSET Flags
      /\ failed \subseteq failed' /\ failed' \subseteq failed \cup {r}
      /\ flags[r] = {} /\ pc'[r] = pc[r] /\ store'[r] = store[r]
  BY <1>0, <1>1, <1>2 DEF Flags, FlagsFit
<1>5. TypeOK'
  <2>1. pc' = [pc EXCEPT ![r] = pc[r]] BY <1>0, <1>1
  <2>2. DOMAIN store' = Ranks /\ store'[r] \in Stores(r)
    BY <1>0, <1>1
  <2>3. 1 \in 0 .. 2 OBVIOUS
  <2> QED BY <1>0, <1>1, <1>2, <1>4, <2>1, <2>2, <2>3, CallType
<1>6. RankInv(r)'
  <2>1. FlagsFit(r)' BY <1>2, <1>4 DEF FlagsFit, Has
  <2>2. PlaceFits(r)' BY <1>3, <1>4 DEF PlaceFits
  <2>3. StoreFits(r)' BY <1>0, <1>2, <1>4 DEF StoreFits, Has, NoLabels
  <2>4. LabelsFit(r)' BY <1>0, <1>2, <1>4 DEF LabelsFit, Has
  <2> QED BY <2>1, <2>2, <2>3, <2>4 DEF RankInv
<1>7. ASSUME ~Dead(r)'
      PROVE  /\ SkeletonOf'[r] = AfterSkeleton[SkeletonOf[r]]["initialize"]
             /\ StateOf'[r] = AfterState[StateOf[r]]["initialize"]
  <2>1. new = {"initialized"} BY <1>2, <1>4, <1>7 DEF Dead, Has
  <2>2. SkeletonOf'[r] = [init |-> TRUE, need |-> FALSE, wait |-> "none"]
    <3>1. pc'[r] = "user" /\ flags'[r] = {"initialized"} BY <1>3, <1>4, <2>1
    <3> QED BY <3>1 DEF SkeletonOf, Has
  <2>3. StateOf'[r] = [flags |-> {"initialized"}, fits |-> store[r].sumFits, wait |-> "none"]
    BY <1>0, <1>3, <1>4, <2>1 DEF StateOf, Shared, Waiting, Stores
  <2>4. NewFlags({}, "initialize") = {"initialized"} /\ WaitOf({}, "initialize") = "none"
    BY DEF NewFlags, WaitOf
  <2>5. Shared(r) = {} BY <1>4 DEF Shared
  <2>6. AfterSkeleton[SkeletonOf[r]]["initialize"] =
          [init |-> TRUE, need |-> FALSE, wait |-> "none"]
    BY <1>3, <1>4, AfterCall DEF Has
  <2>7. AfterState[StateOf[r]]["initialize"] =
          [flags |-> {"initialized"}, fits |-> store[r].sumFits, wait |-> "none"]
    BY <1>3, <2>4, <2>5, AfterCall
  <2> QED BY <2>2, <2>3, <2>6, <2>7
<1>8. ~Dead(r) BY <1>1 DEF Dead
<1>9. ~Has(r, "param_yt_set") /\ ~Committed(r)'
  BY <1>2, <1>3, <1>4 DEF Has, Committed
<1>10. \A q \in Ranks \ {r} : flags'[q] = flags[q] /\ initCount'[q] = initCount[q]
  BY <1>0, <1>1, <1>2
<1> QED BY <1>1, <1>4, <1>5, <1>6, <1>7, <1>8, <1>9, <1>10, CallKeepsIInv

LEMMA AllocateType ==
  ASSUME NEW r \in Ranks, store[r] \in Stores(r), parTypes \in BOOLEAN, NEW c \in Sets
  PROVE  /\ Allocate(r, c) \in Stores(r)
         /\ Allocate(r, c).labels = store[r].labels
         /\ Allocate(r, c).data = Older(store[r].data)
         /\ Allocate(r, c).sumFits = (c # "set_miscounted")
         /\ Stored[c] = 4 =>
              /\ Allocate(r, c).fields = "current" /\ Allocate(r, c).hierarchy = "current"
              /\ Allocate(r, c).particles # "old" /\ Allocate(r, c).grids # "old"
              /\ GridsOf[r] = 0 \/ Allocate(r, c).grids = "current"
         /\ Stored[c] = 4 <=> c \in {"set", "set_miscounted"}
<1>1. c \in {"set", "set_miscounted", "set_no_hierarchy", "set_no_grids", "set_no_fields"}
  BY DEF Sets, Stored
<1>2. Stored[c] \in {0, 2, 3, 4} /\ (Stored[c] = 4 <=> c \in {"set", "set_miscounted"})
  BY <1>1 DEF Stored
<1>3. GridsOf[r] \in Nat BY GridAssumption
<1> DEFINE n == Stored[c]
           s == store[r]
           fields == IF n < 1 THEN Older(s.fields) ELSE "current"
           particles == IF n < 2 THEN Older(s.particles)
                        ELSE IF parTypes THEN "current" ELSE "none"
           grids == IF n < 3 THEN Older(s.grids)
                    ELSE IF GridsOf[r] > 0 THEN "current" ELSE "none"
           hierarchy == IF n < 4 THEN Older(s.hierarchy) ELSE "current"
           written == n < 4 /\ s.written
           fits == c # "set_miscounted"
<1>4. /\ s.fields \in Ages /\ s.particles \in Ages /\ s.grids \in Ages
      /\ s.hierarchy \in Ages /\ s.data \in Ages
      /\ s.written \in BOOLEAN /\ s.labels \in Labels(r)
  BY DEF Stores
<1>5. /\ fields \in Ages /\ particles \in Ages /\ grids \in Ages /\ hierarchy \in Ages
      /\ Older(s.data) \in Ages
  BY <1>4 DEF Ages, Older
<1>6. written \in BOOLEAN /\ fits \in BOOLEAN
  OBVIOUS
<1>7. Allocate(r, c) =
        [fields |-> fields, particles |-> particles, grids |-> grids,
         hierarchy |-> hierarchy, sumFits |-> fits, written |-> written,
         labels |-> s.labels, data |-> Older(s.data)]
  <2>1. Allocate(r, c) =
          [store[r] EXCEPT !.fields = fields, !.particles = particles, !.grids = grids,
                           !.hierarchy = hierarchy, !.written = written,
                           !.sumFits = fits, !.data = Older(store[r].data)]
    BY DEF Allocate
  <2> HIDE DEF fields, particles, grids, hierarchy, written, fits, n
  <2> QED BY <2>1 DEF Stores
<1>8. n = 4 =>
        /\ fields = "current" /\ hierarchy = "current" /\ particles # "old"
        /\ grids # "old" /\ (GridsOf[r] = 0 \/ grids = "current")
  BY <1>3
<1>9. fits = (c # "set_miscounted") OBVIOUS
<1> HIDE DEF fields, particles, grids, hierarchy, written, fits, n
<1>10. Allocate(r, c) \in Stores(r)
  BY <1>4, <1>5, <1>6, <1>7 DEF Stores
<1>11. /\ Allocate(r, c).labels = s.labels /\ Allocate(r, c).data = Older(s.data)
       /\ Allocate(r, c).sumFits = fits
       /\ Allocate(r, c).fields = fields /\ Allocate(r, c).particles = particles
       /\ Allocate(r, c).grids = grids /\ Allocate(r, c).hierarchy = hierarchy
  BY <1>7
<1> QED BY <1>2, <1>8, <1>9, <1>10, <1>11 DEF n

LEMMA SetParametersKeeps ==
  ASSUME IInv, NEW r \in Ranks, SetParameters(r)
  PROVE  IInv'
<1>0. /\ FlagsFit(r) /\ PlaceFits(r) /\ StoreFits(r) /\ LabelsFit(r)
      /\ flags[r] \in SUBSET Flags /\ store[r] \in Stores(r)
      /\ pc[r] \in {"user", "gathered", "written", "cleanup"} \cup Waiting
      /\ initCount[r] \in 0 .. 2
      /\ pc = [pc EXCEPT ![r] = pc[r]] /\ flags = [flags EXCEPT ![r] = flags[r]]
      /\ initCount = [initCount EXCEPT ![r] = initCount[r]]
      /\ DOMAIN pc = Ranks /\ DOMAIN flags = Ranks /\ DOMAIN store = Ranks
      /\ DOMAIN initCount = Ranks
  BY OfRank
<1>1. PICK c \in Sets \cap Choices(r) :
        /\ Call(r, c)
        /\ store' = [store EXCEPT ![r] = Allocate(r, c)]
        /\ IF Stored[c] = 4
             THEN SetFlags(r, {"param_yt_set", "need_free"})
             ELSE UNCHANGED flags
  BY DEF SetParameters
<1>2. /\ NextCall(r, c) /\ Has(r, "initialized") /\ ~Has(r, "need_free")
  BY <1>1 DEF Call, Admitted, Sets, Stored
<1>3. /\ parTypes' = parTypes /\ pc' = pc /\ initCount' = initCount
      /\ failed' = failed /\ crashed' = crashed
  BY DEF SetParameters
<1>4. TypeOK /\ c \in Calls /\ pc[r] = "user" /\ parTypes \in BOOLEAN
  BY <1>2, WindowMoves DEF IInv, TypeOK
<1>5. flags[r] = {"initialized"} /\ initCount[r] # 0
  BY <1>0, <1>2 DEF FlagsFit, Has
<1> DEFINE new == IF c \in {"set", "set_miscounted"}
                    THEN {"initialized", "param_yt_set", "need_free"} ELSE {"initialized"}
<1>6. Stored[c] = 4 <=> c \in {"set", "set_miscounted"}
  BY <1>0, <1>4, AllocateType
<1>7. flags' = [flags EXCEPT ![r] = new] /\ flags'[r] = new /\ new \in SUBSET Flags
  <2>1. CASE Stored[c] = 4
    BY <1>0, <1>1, <1>5, <1>6, <2>1 DEF SetFlags, Flags
  <2>2. CASE Stored[c] # 4
    <3>1. flags' = flags BY <1>1, <2>2
    <3>2. new = {"initialized"} BY <1>6, <2>2
    <3> QED BY <1>0, <1>5, <3>1, <3>2
  <2> QED BY <2>1, <2>2
<1> HIDE DEF new
<1>8. /\ store'[r] = Allocate(r, c) /\ DOMAIN store' = Ranks
      /\ \A q \in Ranks \ {r} : store'[q] = store[q] /\ flags'[q] = flags[q]
  BY <1>0, <1>1, <1>7
<1>9. TypeOK'
  <2>1. /\ pc' = [pc EXCEPT ![r] = pc[r]]
        /\ initCount' = [initCount EXCEPT ![r] = initCount[r]]
    BY <1>0, <1>3
  <2>2. store'[r] \in Stores(r) BY <1>0, <1>4, <1>8, AllocateType
  <2> QED BY <1>0, <1>2, <1>3, <1>7, <1>8, <2>1, <2>2, CallType
<1>10. RankInv(r)'
  <2>1. /\ store[r].labels = NoLabels(r) /\ store[r].data = "none"
    BY <1>0, <1>5 DEF StoreFits, Has
  <2>2. /\ store'[r].labels = NoLabels(r) /\ store'[r].data = "none"
    BY <1>0, <1>4, <1>8, <2>1, AllocateType DEF Older
  <2>3. FlagsFit(r)' BY <1>3, <1>5, <1>7 DEF FlagsFit, Has, new
  <2>4. PlaceFits(r)' BY <1>3, <1>4 DEF PlaceFits
  <2>5. StoreFits(r)'
    <3>1. CASE c \in {"set", "set_miscounted"}
      <4>1. /\ store'[r].fields = "current" /\ store'[r].hierarchy = "current"
            /\ store'[r].particles # "old" /\ store'[r].grids # "old"
            /\ GridsOf[r] = 0 \/ store'[r].grids = "current"
        BY <1>0, <1>4, <1>6, <1>8, <3>1, AllocateType
      <4>2. Has(r, "param_yt_set")' BY <1>7, <3>1 DEF Has, new
      <4> QED BY <2>2, <4>1, <4>2 DEF StoreFits
    <3>2. CASE c \notin {"set", "set_miscounted"}
      BY <1>7, <2>2, <3>2 DEF StoreFits, Has, new, NoLabels
    <3> QED BY <3>1, <3>2
  <2>6. LabelsFit(r)'
    BY <1>7, <2>2 DEF LabelsFit, NoLabels, Has, new
  <2> QED BY <2>3, <2>4, <2>5, <2>6 DEF RankInv
<1>11. SkeletonOf'[r] = AfterSkeleton[SkeletonOf[r]][c]
  <2> DEFINE counted == c \in {"set", "set_miscounted"}
  <2>1. c \notin {"initialize", "free", "run"} BY DEF Sets, Stored
  <2>2. pc'[r] = "user" BY <1>3, <1>4
  <2>3. AfterSkeleton[SkeletonOf[r]][c] =
          [init |-> Has(r, "initialized") \/ c = "initialize",
           need |-> \/ Has(r, "need_free")
                    \/ Has(r, "initialized") /\ c \in {"set", "set_miscounted"},
           wait |-> IF Has(r, "initialized") /\ c \in {"free", "run"}
                      THEN c ELSE "none"]
    BY <1>4, AfterCall
  <2>4. CASE counted
    <3>1. SkeletonOf'[r] = [init |-> TRUE, need |-> TRUE, wait |-> "none"]
      <4>1. flags'[r] = {"initialized", "param_yt_set", "need_free"}
        BY <1>7, <2>4 DEF new
      <4> QED BY <2>2, <4>1 DEF SkeletonOf, Has
    <3>2. Has(r, "initialized") /\ ~Has(r, "need_free") BY <1>2
    <3>3. AfterSkeleton[SkeletonOf[r]][c].init = TRUE
      <4>1. AfterSkeleton[SkeletonOf[r]][c].init = (Has(r, "initialized") \/ c = "initialize")
        BY <2>3
      <4>2. (Has(r, "initialized") \/ c = "initialize") = TRUE BY <3>2 DEF Has
      <4> QED BY <4>1, <4>2
    <3>4. AfterSkeleton[SkeletonOf[r]][c].need = TRUE BY <2>3, <3>2, <2>4 DEF Has
    <3>5. AfterSkeleton[SkeletonOf[r]][c].wait = "none" BY <2>1, <2>3
    <3>6. AfterSkeleton[SkeletonOf[r]][c] \in Skeletons
      BY <1>4, SkeletonType DEF AfterSkeleton, Skeletons
    <3>7. AfterSkeleton[SkeletonOf[r]][c] = [init |-> TRUE, need |-> TRUE, wait |-> "none"]
      BY <3>3, <3>4, <3>5, <3>6 DEF Skeletons
    <3> QED BY <3>1, <3>7
  <2>5. CASE ~counted
    <3>1. SkeletonOf'[r] = [init |-> TRUE, need |-> FALSE, wait |-> "none"]
      <4>1. flags'[r] = {"initialized"} BY <1>7, <2>5 DEF new
      <4> QED BY <2>2, <4>1 DEF SkeletonOf, Has
    <3>2. Has(r, "initialized") /\ ~Has(r, "need_free") BY <1>2
    <3>3. AfterSkeleton[SkeletonOf[r]][c].init = TRUE
      <4>1. AfterSkeleton[SkeletonOf[r]][c].init = (Has(r, "initialized") \/ c = "initialize")
        BY <2>3
      <4>2. (Has(r, "initialized") \/ c = "initialize") = TRUE BY <3>2 DEF Has
      <4> QED BY <4>1, <4>2
    <3>4. AfterSkeleton[SkeletonOf[r]][c].need = FALSE BY <2>3, <3>2, <2>5 DEF Has
    <3>5. AfterSkeleton[SkeletonOf[r]][c].wait = "none" BY <2>1, <2>3
    <3>6. AfterSkeleton[SkeletonOf[r]][c] \in Skeletons
      BY <1>4, SkeletonType DEF AfterSkeleton, Skeletons
    <3>7. AfterSkeleton[SkeletonOf[r]][c] = [init |-> TRUE, need |-> FALSE, wait |-> "none"]
      BY <3>3, <3>4, <3>5, <3>6 DEF Skeletons
    <3> QED BY <3>1, <3>7
  <2> QED BY <2>4, <2>5
<1>12. StateOf'[r] = AfterState[StateOf[r]][c]
  <2>1. Shared(r) = {"initialized"} BY <1>5 DEF Shared
  <2>2. c \in {"set", "set_miscounted", "set_no_hierarchy", "set_no_grids", "set_no_fields"}
    BY DEF Sets, Stored
  <2>3. NewFlags(Shared(r), c) =
          IF c \in {"set", "set_miscounted"} THEN {"param_yt_set", "need_free"} ELSE {}
    BY <2>1, <2>2 DEF NewFlags
  <2>4. WaitOf(Shared(r), c) = "none"
    BY <2>2 DEF WaitOf
  <2>5. Shared(r) \cup NewFlags(Shared(r), c) = new
    BY <2>1, <2>3 DEF new
  <2>6. AfterState[StateOf[r]][c] =
          [flags |-> new, fits |-> c # "set_miscounted", wait |-> "none"]
    BY <1>4, <2>1, <2>4, <2>5, AfterCall
  <2>7. store'[r].sumFits = (c # "set_miscounted")
    BY <1>0, <1>4, <1>8, AllocateType
  <2>8. Shared(r)' = new BY <1>7 DEF Shared, new
  <2>9. pc'[r] = "user" BY <1>3, <1>4
  <2>10. StateOf'[r] = [flags |-> new, fits |-> store'[r].sumFits, wait |-> "none"]
    BY <2>7, <2>8, <2>9 DEF StateOf, Waiting
  <2> QED BY <2>6, <2>7, <2>10
<1>13. ~Dead(r) /\ ~Committed(r)' /\ ~Has(r, "param_yt_set")
  BY <1>3, <1>4, <1>5, <1>7 DEF Dead, Committed, Has, new
<1> QED BY <1>2, <1>3, <1>8, <1>9, <1>10, <1>11, <1>12, <1>13, CallKeepsIInv
\* What a call other than yt_set_Parameters has to do to stay on the paths.
LEMMA StaysOnPaths ==
  ASSUME TypeOK, NEW r \in Ranks, NEW c \in Calls, pc[r] = "user",
         c \notin Sets \cup {"initialize"},
         pc'[r] \in {"user"} \cup Waiting, flags'[r] \in SUBSET Flags,
         Has(r, "initialized")' <=> Has(r, "initialized"),
         Has(r, "need_free")' <=> Has(r, "need_free"),
         pc'[r] \in {"free", "run"} =>
           Has(r, "initialized") /\ c = pc'[r],
         Has(r, "initialized") /\ c \in {"free", "run"} => pc'[r] = c
  PROVE  /\ SkeletonOf'[r] = AfterSkeleton[SkeletonOf[r]][c]
         /\ /\ store'[r] = store[r]
            /\ Shared(r)' = Shared(r) \cup NewFlags(Shared(r), c)
            /\ pc'[r] = "count" => c = "commit" /\ ReadyToCommit(Shared(r))
            /\ pc'[r] # "gather"
            /\ c = "commit" /\ ReadyToCommit(Shared(r)) => pc'[r] = "count"
            => StateOf'[r] = AfterState[StateOf[r]][c]
<1>1. SkeletonOf'[r] = AfterSkeleton[SkeletonOf[r]][c]
  <2>1. AfterSkeleton[SkeletonOf[r]][c] =
          [init |-> Has(r, "initialized") \/ c = "initialize",
           need |-> \/ Has(r, "need_free")
                    \/ Has(r, "initialized") /\ c \in {"set", "set_miscounted"},
           wait |-> IF Has(r, "initialized") /\ c \in {"free", "run"}
                      THEN c ELSE "none"]
    BY AfterCall
  <2>2. SkeletonOf'[r] =
          [init |-> Has(r, "initialized")',
           need |-> Has(r, "need_free")' /\ pc'[r] # "cleanup",
           wait |-> IF pc'[r] \in {"free", "run"} THEN pc'[r] ELSE "none"]
    BY DEF SkeletonOf
  <2>3. Has(r, "initialized")' = (Has(r, "initialized") \/ c = "initialize")
    BY DEF Has
  <2>4. (Has(r, "need_free")' /\ pc'[r] # "cleanup") =
          (\/ Has(r, "need_free")
           \/ Has(r, "initialized") /\ c \in {"set", "set_miscounted"})
    BY DEF Has, Waiting, Sets, Stored
  <2>5. (IF pc'[r] \in {"free", "run"} THEN pc'[r] ELSE "none") =
          (IF Has(r, "initialized") /\ c \in {"free", "run"} THEN c ELSE "none")
    BY DEF Has
  <2> QED BY <2>1, <2>2, <2>3, <2>4, <2>5
<1>2. ASSUME store'[r] = store[r],
             Shared(r)' = Shared(r) \cup NewFlags(Shared(r), c),
             pc'[r] = "count" => c = "commit" /\ ReadyToCommit(Shared(r)),
             pc'[r] # "gather",
             c = "commit" /\ ReadyToCommit(Shared(r)) => pc'[r] = "count"
      PROVE  StateOf'[r] = AfterState[StateOf[r]][c]
  <2>1. store[r].sumFits \in BOOLEAN
    <3>1. store[r] \in Stores(r) BY DEF TypeOK
    <3> QED BY <3>1 DEF Stores
  <2>2. StateOf'[r] =
          [flags |-> Shared(r)', fits |-> store[r].sumFits,
           wait |-> IF pc'[r] \in Waiting THEN pc'[r] ELSE "none"]
    BY <1>2, <2>1 DEF StateOf, Waiting
  <2>3. (IF pc'[r] \in Waiting THEN pc'[r] ELSE "none") = WaitOf(Shared(r), c)
    <3>1. "initialized" \in Shared(r) <=> Has(r, "initialized")
      BY DEF Shared, Has
    <3>2. CASE pc'[r] \in {"free", "run"}
      BY <3>1, <3>2 DEF WaitOf, Waiting
    <3>3. CASE pc'[r] = "count"
      BY <1>2, <3>1, <3>3 DEF WaitOf, Waiting
    <3>4. CASE pc'[r] = "user"
      BY <1>2, <3>1, <3>4 DEF WaitOf, Waiting
    <3> QED BY <1>2, <3>2, <3>3, <3>4 DEF Waiting
  <2>4. AfterState[StateOf[r]][c] =
          [flags |-> Shared(r) \cup NewFlags(Shared(r), c),
           fits |-> store[r].sumFits, wait |-> WaitOf(Shared(r), c)]
    BY AfterCall
  <2> QED BY <1>2, <2>2, <2>3, <2>4
<1> QED BY <1>1, <1>2

LEMMA GetPtrKeeps ==
  ASSUME IInv, NEW r \in Ranks, GetPtr(r)
  PROVE  IInv'
<1>0. /\ FlagsFit(r) /\ PlaceFits(r) /\ StoreFits(r) /\ LabelsFit(r)
      /\ flags[r] \in SUBSET Flags /\ store[r] \in Stores(r)
      /\ pc[r] \in {"user", "gathered", "written", "cleanup"} \cup Waiting
      /\ initCount[r] \in 0 .. 2
      /\ pc = [pc EXCEPT ![r] = pc[r]]
      /\ initCount = [initCount EXCEPT ![r] = initCount[r]]
      /\ DOMAIN pc = Ranks /\ DOMAIN flags = Ranks /\ DOMAIN store = Ranks
      /\ DOMAIN initCount = Ranks
  BY OfRank
<1> DEFINE Ptr == [get_fields |-> "get_fields_ptr", get_particles |-> "get_particles_ptr",
                   get_grids |-> "get_grids_ptr"]
<1>1. PICK c \in {"get_fields", "get_particles", "get_grids"} :
        Call(r, c) /\ SetFlags(r, {Ptr[c]})
  BY DEF GetPtr
<1>2. /\ parTypes' = parTypes /\ pc' = pc /\ initCount' = initCount
      /\ store' = store /\ failed' = failed /\ crashed' = crashed
  BY DEF GetPtr
<1>3. /\ NextCall(r, c) /\ Has(r, "initialized") /\ Has(r, "param_yt_set")
      /\ c = "get_particles" => parTypes
  BY <1>1 DEF Call, Admitted, Sets, Stored
<1>4. TypeOK /\ c \in Calls /\ pc[r] = "user" /\ c \notin Sets \cup {"initialize"}
  BY <1>3, WindowMoves DEF IInv, Sets, Stored
<1> DEFINE new == flags[r] \cup {Ptr[c]}
<1>5. /\ flags' = [flags EXCEPT ![r] = new] /\ flags'[r] = new /\ new \in SUBSET Flags
      /\ \A q \in Ranks \ {r} : flags'[q] = flags[q]
  BY <1>0, <1>1 DEF SetFlags, Flags
<1>6. /\ Has(r, "initialized")' <=> Has(r, "initialized")
      /\ Has(r, "need_free")' <=> Has(r, "need_free")
      /\ Has(r, "param_yt_set")' <=> Has(r, "param_yt_set")
      /\ Has(r, "commit_grids")' <=> Has(r, "commit_grids")
  BY <1>5 DEF Has
<1> HIDE DEF new
<1>7. TypeOK'
  <2>1. /\ pc' = [pc EXCEPT ![r] = pc[r]]
        /\ initCount' = [initCount EXCEPT ![r] = initCount[r]]
    BY <1>0, <1>2
  <2>2. store'[r] \in Stores(r) /\ DOMAIN store' = Ranks BY <1>0, <1>2
  <2> QED BY <1>0, <1>2, <1>3, <1>5, <2>1, <2>2, CallType
<1>8. RankInv(r)'
  <2>1. FlagsFit(r)' BY <1>0, <1>2, <1>3, <1>6 DEF FlagsFit, Has
  <2>2. PlaceFits(r)' BY <1>2, <1>4 DEF PlaceFits
  <2>3. StoreFits(r)' BY <1>0, <1>2, <1>3, <1>6 DEF StoreFits
  <2>4. LabelsFit(r)' BY <1>0, <1>2, <1>6 DEF LabelsFit, AllBound
  <2> QED BY <2>1, <2>2, <2>3, <2>4 DEF RankInv
<1>9. Shared(r)' = Shared(r) \cup NewFlags(Shared(r), c)
  <2>1. {"initialized", "param_yt_set"} \subseteq Shared(r) BY <1>3 DEF Shared, Has
  <2>2. NewFlags(Shared(r), c) = {Ptr[c]} \ {"get_grids_ptr"}
    <3>1. CASE c = "get_fields" BY <2>1, <3>1 DEF NewFlags
    <3>2. CASE c = "get_particles" BY <1>3, <2>1, <3>2 DEF NewFlags
    <3>3. CASE c = "get_grids" BY <3>3 DEF NewFlags
    <3> QED BY <3>1, <3>2, <3>3
  <2> QED BY <1>5, <2>2 DEF Shared, new
<1>10. /\ SkeletonOf'[r] = AfterSkeleton[SkeletonOf[r]][c]
       /\ StateOf'[r] = AfterState[StateOf[r]][c]
  <2>1. pc'[r] = "user" /\ store'[r] = store[r] /\ flags'[r] \in SUBSET Flags
    BY <1>2, <1>4, <1>5
  <2>2. c \notin {"free", "run", "commit"} OBVIOUS
  <2> QED BY <1>4, <1>6, <1>9, <2>1, <2>2, StaysOnPaths
<1>11. ~Dead(r) /\ (Committed(r)' => Committed(r))
  BY <1>2, <1>3, <1>6 DEF Dead, Committed
<1> QED
  <2>1. /\ failed \subseteq failed' /\ store'[r] = store[r] /\ pc'[r] # "cleanup"
    BY <1>2, <1>4
  <2> QED BY <1>2, <1>3, <1>5, <1>6, <1>7, <1>8, <1>10, <1>11, <2>1, CallKeepsIInv
\* A call that leads to a place where the rank waits, or to nothing.
LEMMA GoingKeeps ==
  ASSUME IInv, NEW r \in Ranks, NEW c \in {"commit", "run", "free"}, Call(r, c),
         NEW there, there = IF c = "commit" THEN "count" ELSE c,
         \/ Goto(r, there) /\ UNCHANGED failed
         \/ c = "commit" /\ failed' = failed \cup {r} /\ UNCHANGED pc,
         UNCHANGED <<parTypes, initCount, flags, store, crashed>>
  PROVE  IInv'
<1>0. /\ FlagsFit(r) /\ PlaceFits(r) /\ StoreFits(r) /\ LabelsFit(r)
      /\ flags[r] \in SUBSET Flags /\ store[r] \in Stores(r)
      /\ pc[r] \in {"user", "gathered", "written", "cleanup"} \cup Waiting
      /\ initCount[r] \in 0 .. 2
      /\ pc = [pc EXCEPT ![r] = pc[r]] /\ flags = [flags EXCEPT ![r] = flags[r]]
      /\ initCount = [initCount EXCEPT ![r] = initCount[r]]
      /\ DOMAIN pc = Ranks /\ DOMAIN flags = Ranks /\ DOMAIN store = Ranks
      /\ DOMAIN initCount = Ranks
  BY OfRank
<1>1. /\ parTypes' = parTypes /\ flags' = flags /\ initCount' = initCount
      /\ store' = store /\ crashed' = crashed
  OBVIOUS
<1>2. /\ NextCall(r, c) /\ Has(r, "initialized")
      /\ c = "commit" => /\ ReadyToCommit(flags[r]) /\ Has(r, "param_yt_set")
                         /\ ReadyToCommit(Shared(r))
  BY DEF Call, Admitted, Sets, Stored, Has, ReadyToCommit, Shared
<1>3. TypeOK /\ c \in Calls /\ pc[r] = "user" /\ c \notin Sets \cup {"initialize"}
  BY <1>2, WindowMoves DEF IInv, Sets, Stored
<1>4. PICK p \in {"user", there} :
        /\ pc' = [pc EXCEPT ![r] = p]
        /\ p = there => failed' = failed
        /\ p # there => c = "commit" /\ failed' = failed \cup {r}
  <2>1. CASE Goto(r, there) /\ UNCHANGED failed BY <2>1 DEF Goto
  <2>2. CASE c = "commit" /\ failed' = failed \cup {r} /\ UNCHANGED pc
    <3>1. pc' = [pc EXCEPT ![r] = "user"] BY <1>0, <1>3, <2>2
    <3>2. "user" # there BY <2>2
    <3> QED BY <2>2, <3>1, <3>2
  <2> QED BY <2>1, <2>2
<1>5. /\ pc'[r] = p /\ \A q \in Ranks \ {r} : pc'[q] = pc[q]
      /\ failed \subseteq failed' /\ failed' \subseteq failed \cup {r}
      /\ p \in {"user", "count", "run", "free"}
      /\ flags'[r] = flags[r] /\ store'[r] = store[r] /\ initCount'[r] = initCount[r]
  BY <1>0, <1>1, <1>4
<1>6. TypeOK'
  <2>1. /\ flags' = [flags EXCEPT ![r] = flags[r]]
        /\ initCount' = [initCount EXCEPT ![r] = initCount[r]]
    BY <1>0, <1>1
  <2>2. store'[r] \in Stores(r) /\ DOMAIN store' = Ranks BY <1>0, <1>1
  <2>3. p \in {"user", "gathered", "written", "cleanup"} \cup Waiting BY <1>5 DEF Waiting
  <2>4. /\ NextCall(r, c) /\ parTypes' = parTypes /\ crashed' = crashed
        /\ failed' \subseteq failed \cup {r}
        /\ \A q \in Ranks \ {r} : store'[q] = store[q]
        /\ pc' = [pc EXCEPT ![r] = p] /\ flags[r] \in SUBSET Flags
        /\ initCount[r] \in 0 .. 2
    BY <1>0, <1>1, <1>2, <1>4, <1>5
  <2> QED BY <2>1, <2>2, <2>3, <2>4, CallType
<1>7. RankInv(r)'
  <2>1. FlagsFit(r)' BY <1>0, <1>5 DEF FlagsFit, Has
  <2>2. PlaceFits(r)' BY <1>2, <1>4, <1>5 DEF PlaceFits, Has
  <2>3. StoreFits(r)' BY <1>0, <1>5 DEF StoreFits, Has
  <2>4. LabelsFit(r)' BY <1>0, <1>3, <1>5 DEF LabelsFit, AllBound, Has
  <2> QED BY <2>1, <2>2, <2>3, <2>4 DEF RankInv
<1>8. NewFlags(Shared(r), c) = {} /\ Shared(r)' = Shared(r)
  BY <1>5, <1>3 DEF NewFlags, Shared, Sets, Stored
<1>9. /\ SkeletonOf'[r] = AfterSkeleton[SkeletonOf[r]][c]
      /\ r \notin failed' => StateOf'[r] = AfterState[StateOf[r]][c]
  <2>1. /\ pc'[r] \in {"user"} \cup Waiting /\ flags'[r] \in SUBSET Flags
        /\ Has(r, "initialized")' <=> Has(r, "initialized")
        /\ Has(r, "need_free")' <=> Has(r, "need_free")
        /\ pc'[r] # "gather"
    BY <1>0, <1>5 DEF Waiting, Has
  <2>2. /\ pc'[r] \in {"free", "run"} => Has(r, "initialized") /\ c = pc'[r]
        /\ Has(r, "initialized") /\ c \in {"free", "run"} => pc'[r] = c
        /\ pc'[r] = "count" => c = "commit" /\ ReadyToCommit(Shared(r))
        /\ r \notin failed' => pc'[r] = there
    BY <1>2, <1>4, <1>5
  <2> QED BY <1>3, <1>5, <1>8, <2>1, <2>2, StaysOnPaths
<1>10. ~Dead(r) /\ (Committed(r)' => Committed(r))
  BY <1>2, <1>3, <1>5 DEF Dead, Committed, Has
<1> QED
  <2>1. pc'[r] # "cleanup" /\ (Has(r, "param_yt_set") => Has(r, "param_yt_set")')
    BY <1>5 DEF Has
  <2>2. \A q \in Ranks \ {r} :
           /\ flags'[q] = flags[q] /\ pc'[q] = pc[q]
           /\ initCount'[q] = initCount[q] /\ store'[q] = store[q]
    BY <1>1, <1>5
  <2> QED BY <1>1, <1>2, <1>5, <1>6, <1>7, <1>9, <1>10, <2>1, <2>2, CallKeepsIInv

LEMMA FinalizeKeeps ==
  ASSUME IInv, NEW r \in Ranks, Finalize(r)
  PROVE  IInv'
<1>0. /\ FlagsFit(r) /\ PlaceFits(r) /\ StoreFits(r) /\ LabelsFit(r)
      /\ flags[r] \in SUBSET Flags /\ store[r] \in Stores(r)
      /\ pc[r] \in {"user", "gathered", "written", "cleanup"} \cup Waiting
      /\ initCount[r] \in 0 .. 2
      /\ pc = [pc EXCEPT ![r] = pc[r]] /\ flags = [flags EXCEPT ![r] = flags[r]]
      /\ initCount = [initCount EXCEPT ![r] = initCount[r]]
      /\ DOMAIN pc = Ranks /\ DOMAIN flags = Ranks /\ DOMAIN store = Ranks
      /\ DOMAIN initCount = Ranks
  BY OfRank
<1>1. /\ NextCall(r, "finalize") /\ Has(r, "initialized") /\ ~Has(r, "need_free")
      /\ flags' = [flags EXCEPT ![r] = @ \ {"initialized"}]
      /\ parTypes' = parTypes /\ pc' = pc /\ initCount' = initCount
      /\ store' = store /\ failed' = failed /\ crashed' = crashed
  BY DEF Finalize, Call, Admitted, Sets, Stored
<1>2. TypeOK /\ pc[r] = "user" BY <1>1, WindowMoves DEF IInv
<1>3. flags[r] = {"initialized"} /\ initCount[r] # 0
  BY <1>0, <1>1 DEF FlagsFit, Has
<1>4. PICK new \in SUBSET Flags :
        /\ new = {} /\ flags' = [flags EXCEPT ![r] = new] /\ flags'[r] = {}
        /\ \A q \in Ranks \ {r} : flags'[q] = flags[q]
  <2>1. flags[r] \ {"initialized"} = {} BY <1>3
  <2>2. /\ flags' = [flags EXCEPT ![r] = {}] /\ flags'[r] = {}
        /\ \A q \in Ranks \ {r} : flags'[q] = flags[q]
    BY <1>0, <1>1, <2>1
  <2> QED BY <2>2
<1>5. TypeOK'
  <2>1. /\ pc' = [pc EXCEPT ![r] = pc[r]]
        /\ initCount' = [initCount EXCEPT ![r] = initCount[r]]
    BY <1>0, <1>1
  <2>2. store'[r] \in Stores(r) /\ DOMAIN store' = Ranks BY <1>0, <1>1
  <2>3. /\ NextCall(r, "finalize") /\ parTypes' = parTypes /\ crashed' = crashed
        /\ failed' \subseteq failed \cup {r}
        /\ \A q \in Ranks \ {r} : store'[q] = store[q]
        /\ flags' = [flags EXCEPT ![r] = new]
        /\ pc[r] \in {"user", "gathered", "written", "cleanup"} \cup Waiting /\ initCount[r] \in 0 .. 2
    BY <1>0, <1>1, <1>4
  <2> QED BY <2>1, <2>2, <2>3, CallType
<1>6. RankInv(r)'
  <2>1. FlagsFit(r)' BY <1>4 DEF FlagsFit, Has
  <2>2. PlaceFits(r)' BY <1>1, <1>2 DEF PlaceFits
  <2>3. StoreFits(r)' BY <1>0, <1>1, <1>3, <1>4 DEF StoreFits, Has, NoLabels
  <2>4. LabelsFit(r)' BY <1>0, <1>1, <1>2, <1>4 DEF LabelsFit, Has
  <2> QED BY <2>1, <2>2, <2>3, <2>4 DEF RankInv
<1>7. Dead(r)'
  <2>1. initCount'[r] > 0 BY <1>0, <1>1, <1>3
  <2> QED BY <1>4, <2>1 DEF Dead, Has
<1>8. ~Has(r, "param_yt_set") /\ ~Committed(r)'
  BY <1>1, <1>2, <1>3, <1>4 DEF Has, Committed
<1> QED BY <1>1, <1>4, <1>5, <1>6, <1>7, <1>8, CallKeepsIInv

-----------------------------------------------------------------------------
(***************************************************************************)
(* The rest of a call                                                      *)
(***************************************************************************)

\* A step of one rank that leaves it where it is on the paths.
LEMMA RestKeepsIInv ==
  ASSUME IInv, NEW r \in Ranks,
         parTypes' = parTypes, calls' = calls, at' = at, initCount' = initCount,
         crashed' = crashed,
         NEW p \in {"user", "gathered", "written", "cleanup"} \cup Waiting, NEW f \in SUBSET Flags,
         NEW s \in Stores(r),
         pc' = [pc EXCEPT ![r] = p], flags' = [flags EXCEPT ![r] = f],
         store' = [store EXCEPT ![r] = s],
         failed \subseteq failed', failed' \subseteq failed \cup {r},
         RankInv(r)',
         Has(r, "initialized")' <=> Has(r, "initialized"),
         SkeletonOf'[r] = SkeletonOf[r],
         r \notin failed' => StateOf'[r] = StateOf[r],
         CommitHolds'
  PROVE  IInv'
<1>1. TypeOK BY DEF IInv
<1>2. \A q \in Ranks \ {r} :
         /\ flags'[q] = flags[q] /\ pc'[q] = pc[q] /\ store'[q] = store[q]
         /\ initCount'[q] = initCount[q]
  BY <1>1 DEF TypeOK
<1>3. TypeOK'
  <2>1. /\ pc' \in [Ranks -> {"user", "gathered", "written", "cleanup"} \cup Waiting]
        /\ flags' \in [Ranks -> SUBSET Flags]
    BY <1>1 DEF TypeOK
  <2>2. DOMAIN store' = Ranks /\ \A q \in Ranks : store'[q] \in Stores(q)
    BY <1>1 DEF TypeOK
  <2>3. failed' \subseteq Ranks BY <1>1 DEF TypeOK
  <2> QED BY <1>1, <2>1, <2>2, <2>3 DEF TypeOK, Stores, Labels
<1>4. \A q \in Ranks : RankInv(q)'
  <2> TAKE q \in Ranks
  <2>1. CASE q = r BY <2>1
  <2>2. CASE q # r BY <1>2, <2>2, OtherRankKept DEF IInv
  <2> QED BY <2>1, <2>2
<1>5. SomeRankIsLast' BY DEF IInv, SomeRankIsLast
<1>6. Alive' <=> Alive
  <2>1. \A q \in Ranks : Dead(q)' <=> Dead(q) BY <1>2 DEF Dead, Has
  <2> QED BY <2>1 DEF Alive
<1>7. BarriersMatch'
  <2>1. \A q \in Ranks : SkeletonOf'[q] = SkeletonOf[q]
    BY <1>2 DEF SkeletonOf, Has
  <2>2. ASSUME Alive' PROVE OnPath(Skeletons, AfterSkeleton, SkeletonOf', calls', at')
    <3>1. OnPath(Skeletons, AfterSkeleton, SkeletonOf, calls, at)
      BY <1>6, <2>2 DEF IInv, BarriersMatch
    <3>2. OnPath(Skeletons, AfterSkeleton, SkeletonOf', calls, at)
      BY <2>1, <3>1, SameViewSamePath
    <3> QED BY <3>2
  <2> QED BY <2>2 DEF BarriersMatch
<1>8. NoFailureNoParting'
  <2>1. SUFFICES ASSUME Alive', failed' = {}
                 PROVE  OnPath(States, AfterState', StateOf', calls', at')
    BY DEF NoFailureNoParting
  <2>2. \A q \in Ranks : StateOf'[q] = StateOf[q]
    BY <1>2, <2>1 DEF StateOf, Shared
  <2>3. AfterState' = AfterState BY DEF AfterState, NewFlags, WaitOf, ReadyToCommit
  <2>4. OnPath(States, AfterState, StateOf, calls, at)
    BY <1>6, <2>1 DEF IInv, NoFailureNoParting
  <2>5. OnPath(States, AfterState, StateOf', calls, at)
    BY <2>2, <2>4, SameViewSamePath
  <2> QED BY <2>3, <2>5
<1> QED BY <1>3, <1>4, <1>5, <1>7, <1>8 DEF IInv

LEMMA WriteHierarchyKeeps ==
  ASSUME IInv, NEW r \in Ranks, WriteHierarchy(r)
  PROVE  IInv'
<1>0. /\ FlagsFit(r) /\ PlaceFits(r) /\ StoreFits(r) /\ LabelsFit(r)
      /\ flags[r] \in SUBSET Flags /\ store[r] \in Stores(r)
      /\ flags = [flags EXCEPT ![r] = flags[r]]
      /\ DOMAIN pc = Ranks /\ DOMAIN flags = Ranks /\ DOMAIN store = Ranks
  BY OfRank
<1>1. /\ pc[r] = "gathered" /\ pc' = [pc EXCEPT ![r] = "written"]
      /\ parTypes' = parTypes /\ calls' = calls /\ at' = at /\ initCount' = initCount
      /\ flags' = flags /\ failed' = failed /\ crashed' = crashed
      /\ store' = [store EXCEPT ![r] = [store[r] EXCEPT !.written = TRUE]]
  BY <1>0 DEF WriteHierarchy, Goto
<1> DEFINE new == [store[r] EXCEPT !.written = TRUE]
<1>2. /\ new \in Stores(r) /\ new.written
      /\ new.labels = store[r].labels /\ new.data = store[r].data
      /\ new.fields = store[r].fields /\ new.particles = store[r].particles
      /\ new.grids = store[r].grids /\ new.hierarchy = store[r].hierarchy
      /\ new.sumFits = store[r].sumFits
  BY <1>0 DEF Stores
<1> HIDE DEF new
<1>3. /\ store' = [store EXCEPT ![r] = new] /\ store'[r] = new
      /\ pc'[r] = "written"
      /\ \A q \in Ranks \ {r} : pc'[q] = pc[q] /\ store'[q] = store[q]
  BY <1>0, <1>1 DEF new
<1>4. RankInv(r)'
  <2>1. FlagsFit(r)' BY <1>0, <1>1 DEF FlagsFit, Has
  <2>2. PlaceFits(r)' BY <1>0, <1>1, <1>3 DEF PlaceFits, Has
  <2>3. StoreFits(r)' BY <1>0, <1>1, <1>2, <1>3 DEF StoreFits, Has, NoLabels
  <2>4. LabelsFit(r)' BY <1>0, <1>1, <1>2, <1>3 DEF LabelsFit, AllBound, Has
  <2> QED BY <2>1, <2>2, <2>3, <2>4 DEF RankInv
<1>5. SkeletonOf'[r] = SkeletonOf[r]
  <2>1. (Has(r, "need_free")' /\ pc'[r] # "cleanup") =
          (Has(r, "need_free") /\ pc[r] # "cleanup")
    BY <1>1, <1>3 DEF Has
  <2>2. Has(r, "initialized")' = Has(r, "initialized") BY <1>1 DEF Has
  <2> QED BY <1>1, <1>3, <2>1, <2>2 DEF SkeletonOf
<1>6. StateOf'[r] = StateOf[r]
  <2>1. Shared(r)' = Shared(r) BY <1>1 DEF Shared
  <2>2. store[r].sumFits \in BOOLEAN BY <1>0 DEF Stores
  <2> QED BY <1>1, <1>2, <1>3, <2>1, <2>2 DEF StateOf, Waiting
<1>7. CommitHolds'
  <2>1. ASSUME NEW q \in Ranks
        PROVE  /\ store'[q].written \/ pc'[q] = "gathered"
               /\ store'[q].hierarchy = "current"
               /\ Has(q, "param_yt_set")' /\ pc'[q] # "cleanup"
    <3>1. Committed(r) BY <1>1 DEF Committed
    <3>2. /\ store[q].written \/ pc[q] = "gathered"
          /\ store[q].hierarchy = "current"
          /\ Has(q, "param_yt_set") /\ pc[q] # "cleanup"
      BY <3>1 DEF CommitHolds, IInv
    <3>3. Has(q, "param_yt_set")' BY <1>1, <3>2 DEF Has
    <3>4. CASE q = r BY <1>2, <1>3, <3>2, <3>3, <3>4
    <3>5. CASE q # r BY <1>3, <3>2, <3>3, <3>5
    <3> QED BY <3>4, <3>5
  <2> QED BY <2>1 DEF CommitHolds
<1>8. "written" \in {"user", "gathered", "written", "cleanup"} \cup Waiting OBVIOUS
<1>9. Has(r, "initialized")' <=> Has(r, "initialized") BY <1>1 DEF Has
<1>10. flags' = [flags EXCEPT ![r] = flags[r]] BY <1>0, <1>1
<1> QED
  BY <1>0, <1>1, <1>2, <1>3, <1>4, <1>5, <1>6, <1>7, <1>8, <1>9, <1>10, RestKeepsIInv

\* What labelling does to the dictionaries.
LEMMA LabelledType ==
  ASSUME NEW r \in Ranks, NEW labels \in Labels(r),
         NEW i \in 1 .. GridsOf[r] + 1, NEW v \in 1 .. NumFields
  PROVE  /\ Labelled(labels, i, v) \in Labels(r)
         /\ i = GridsOf[r] + 1 =>
              \A g \in 1 .. GridsOf[r] :
                Labelled(labels, i, v)[g] =
                  IF labels[g] # Absent THEN labels[g] ELSE 1 .. NumFields
<1>1. GridsOf[r] \in Nat /\ NumFields \in Nat BY GridAssumption, SizeAssumption
<1>2. DOMAIN labels = 1 .. GridsOf[r] BY DEF Labels
<1>3. ASSUME NEW g \in 1 .. GridsOf[r]
      PROVE  Labelled(labels, i, v)[g] \in {Absent} \cup SUBSET (1 .. NumFields)
  <2>1. Labelled(labels, i, v)[g] =
          IF labels[g] # Absent \/ g > i THEN labels[g]
          ELSE IF g < i THEN 1 .. NumFields ELSE 1 .. v - 1
    BY <1>2 DEF Labelled
  <2>2. 1 .. v - 1 \in SUBSET (1 .. NumFields) BY <1>1
  <2>3. labels[g] \in {Absent} \cup SUBSET (1 .. NumFields) BY DEF Labels
  <2> QED BY <2>1, <2>2, <2>3
<1>4. Labelled(labels, i, v) \in Labels(r)
  <2>1. Labelled(labels, i, v) =
          [g \in 1 .. GridsOf[r] |-> Labelled(labels, i, v)[g]]
    BY <1>2 DEF Labelled
  <2> QED BY <1>3, <2>1 DEF Labels
<1>5. ASSUME i = GridsOf[r] + 1, NEW g \in 1 .. GridsOf[r]
      PROVE  Labelled(labels, i, v)[g] =
               IF labels[g] # Absent THEN labels[g] ELSE 1 .. NumFields
  BY <1>1, <1>2, <1>5 DEF Labelled
<1> QED BY <1>4, <1>5

LEMMA BindLocalDataKeeps ==
  ASSUME IInv, NEW r \in Ranks, BindLocalData(r)
  PROVE  IInv'
<1>0. /\ FlagsFit(r) /\ PlaceFits(r) /\ StoreFits(r) /\ LabelsFit(r)
      /\ flags[r] \in SUBSET Flags /\ store[r] \in Stores(r)
      /\ pc[r] \in {"user", "gathered", "written", "cleanup"} \cup Waiting
      /\ flags = [flags EXCEPT ![r] = flags[r]]
      /\ DOMAIN pc = Ranks /\ DOMAIN flags = Ranks /\ DOMAIN store = Ranks
  BY OfRank
<1> DEFINE n == GridsOf[r]
           s == store[r]
<1>1. /\ ~crashed /\ pc[r] = "written" /\ pc' = [pc EXCEPT ![r] = "user"]
      /\ parTypes' = parTypes /\ calls' = calls /\ at' = at /\ initCount' = initCount
      /\ crashed' = crashed
  BY DEF BindLocalData, Goto
<1>2. PICK i \in 1 .. n + 1 : \E v \in 1 .. NumFields :
        \/ /\ i = n + 1 /\ failed' = failed /\ SetFlags(r, {"commit_grids"})
           /\ store' = [store EXCEPT ![r] =
                          [s EXCEPT !.labels = Labelled(@, i, v),
                                    !.data = IF n > 0 THEN "current" ELSE @,
                                    !.grids = "none"]]
        \/ /\ failed' = failed \cup {r} /\ flags' = flags
           /\ store' = [store EXCEPT ![r] =
                          [s EXCEPT !.labels = Labelled(@, i, v),
                                    !.data = IF n > 0 THEN "current" ELSE @]]
  <2>1. n \in Nat /\ 1 \in 1 .. NumFields BY GridAssumption, SizeAssumption
  <2>2. CASE /\ store' = [store EXCEPT ![r] =
                            [s EXCEPT !.labels = Labelled(@, n + 1, 1),
                                      !.data = IF n > 0 THEN "current" ELSE @,
                                      !.grids = "none"]]
             /\ SetFlags(r, {"commit_grids"}) /\ failed' = failed
    <3>1. n + 1 \in 1 .. n + 1 BY <2>1
    <3> HIDE DEF n
    <3> QED BY <2>1, <2>2, <3>1
  <2>3. ASSUME NEW i \in 1 .. n, NEW v \in 1 .. NumFields,
               store' = [store EXCEPT ![r] =
                          [s EXCEPT !.labels = Labelled(@, i, v),
                                    !.data = IF n > 0 THEN "current" ELSE @]],
               failed' = failed \cup {r}, flags' = flags
        PROVE  \E j \in 1 .. n + 1 : \E w \in 1 .. NumFields :
                 /\ failed' = failed \cup {r} /\ flags' = flags
                 /\ store' = [store EXCEPT ![r] =
                                [s EXCEPT !.labels = Labelled(@, j, w),
                                          !.data = IF n > 0 THEN "current" ELSE @]]
    <3>1. i \in 1 .. n + 1 BY <2>1
    <3> HIDE DEF n
    <3> QED BY <2>3, <3>1
  <2> QED BY <2>2, <2>3 DEF BindLocalData
<1>3. PICK v \in 1 .. NumFields :
        \/ /\ i = n + 1 /\ failed' = failed /\ SetFlags(r, {"commit_grids"})
           /\ store' = [store EXCEPT ![r] =
                          [s EXCEPT !.labels = Labelled(@, i, v),
                                    !.data = IF n > 0 THEN "current" ELSE @,
                                    !.grids = "none"]]
        \/ /\ failed' = failed \cup {r} /\ flags' = flags
           /\ store' = [store EXCEPT ![r] =
                          [s EXCEPT !.labels = Labelled(@, i, v),
                                    !.data = IF n > 0 THEN "current" ELSE @]]
  BY <1>2
<1> DEFINE labels == Labelled(s.labels, i, v)
           data == IF n > 0 THEN "current" ELSE s.data
<1>4. /\ labels \in Labels(r)
      /\ i = n + 1 => \A g \in 1 .. n :
           labels[g] = IF s.labels[g] # Absent THEN s.labels[g] ELSE 1 .. NumFields
  <2>1. s.labels \in Labels(r) BY <1>0 DEF Stores
  <2> QED BY <2>1, LabelledType
<1>5. data \in Ages /\ (data = "current" \/ data = s.data)
  BY <1>0 DEF Stores, Ages
<1>6. PICK grids \in {s.grids, "none"}, f \in {flags[r], flags[r] \cup {"commit_grids"}} :
        /\ store' = [store EXCEPT ![r] =
                       [s EXCEPT !.labels = labels, !.data = data, !.grids = grids]]
        /\ flags' = [flags EXCEPT ![r] = f]
        /\ \/ i = n + 1 /\ failed' = failed /\ f = flags[r] \cup {"commit_grids"}
           \/ /\ failed' = failed \cup {r} /\ f = flags[r] /\ grids = s.grids
  <2>1. CASE /\ i = n + 1 /\ failed' = failed /\ SetFlags(r, {"commit_grids"})
             /\ store' = [store EXCEPT ![r] =
                            [s EXCEPT !.labels = Labelled(@, i, v),
                                      !.data = IF n > 0 THEN "current" ELSE @,
                                      !.grids = "none"]]
    <3>1. store' = [store EXCEPT ![r] =
                     [s EXCEPT !.labels = labels, !.data = data, !.grids = "none"]]
      BY <2>1
    <3>2. flags' = [flags EXCEPT ![r] = flags[r] \cup {"commit_grids"}]
      BY <2>1 DEF SetFlags
    <3> HIDE DEF labels, data, n, s
    <3> QED BY <2>1, <3>1, <3>2
  <2>2. CASE /\ failed' = failed \cup {r} /\ flags' = flags
             /\ store' = [store EXCEPT ![r] =
                            [s EXCEPT !.labels = Labelled(@, i, v),
                                      !.data = IF n > 0 THEN "current" ELSE @]]
    <3>1. [s EXCEPT !.labels = labels, !.data = data] =
            [s EXCEPT !.labels = labels, !.data = data, !.grids = s.grids]
      <4> HIDE DEF labels, data
      <4> QED BY <1>0 DEF Stores
    <3>2. store' = [store EXCEPT ![r] =
                     [s EXCEPT !.labels = labels, !.data = data, !.grids = s.grids]]
      BY <2>2, <3>1
    <3>3. flags' = [flags EXCEPT ![r] = flags[r]]
      BY <1>0, <2>2
    <3> HIDE DEF labels, data, n, s
    <3> QED BY <2>2, <3>2, <3>3
  <2> QED BY <1>3, <2>1, <2>2
<1> HIDE DEF labels, data
<1> DEFINE new == [s EXCEPT !.labels = labels, !.data = data, !.grids = grids]
<1>7. /\ new \in Stores(r)
      /\ new.labels = labels /\ new.data = data /\ new.grids = grids
      /\ new.fields = s.fields /\ new.particles = s.particles
      /\ new.hierarchy = s.hierarchy /\ new.sumFits = s.sumFits
      /\ new.written = s.written
  BY <1>0, <1>4, <1>5 DEF Stores, Ages
<1> HIDE DEF new
<1>8. /\ store' = [store EXCEPT ![r] = new] /\ store'[r] = new
      /\ flags'[r] = f /\ pc'[r] = "user" /\ f \in SUBSET Flags
      /\ failed \subseteq failed' /\ failed' \subseteq failed \cup {r}
      /\ \A q \in Ranks \ {r} :
           flags'[q] = flags[q] /\ pc'[q] = pc[q] /\ store'[q] = store[q]
  BY <1>0, <1>1, <1>6 DEF new, Flags
<1>9. /\ Has(r, "initialized")' <=> Has(r, "initialized")
      /\ Has(r, "need_free")' <=> Has(r, "need_free")
      /\ Has(r, "param_yt_set")' /\ Has(r, "param_yt_set")
      /\ Has(r, "commit_grids") => Has(r, "commit_grids")'
  BY <1>0, <1>1, <1>6, <1>8 DEF Has, PlaceFits
<1>10. RankInv(r)'
  <2>1. FlagsFit(r)' BY <1>0, <1>1, <1>9 DEF FlagsFit, Has
  <2>2. PlaceFits(r)' BY <1>8 DEF PlaceFits
  <2>3. StoreFits(r)'
    <3>1. Has(r, "commit_grids")' \/ grids = s.grids BY <1>6, <1>8 DEF Has
    <3>2. grids = s.grids \/ grids = "none" OBVIOUS
    <3> QED BY <1>0, <1>5, <1>7, <1>8, <1>9, <3>1, <3>2 DEF StoreFits
  <2>4. LabelsFit(r)'
    <3>1. SUFFICES ASSUME r \notin failed'
                   PROVE  \A g \in 1 .. n : labels[g] = 1 .. NumFields
      BY <1>7, <1>8 DEF LabelsFit, AllBound
    <3>2. i = n + 1 /\ r \notin failed BY <1>6, <3>1
    <3> QED BY <1>0, <1>1, <1>4, <3>2 DEF LabelsFit
  <2> QED BY <2>1, <2>2, <2>3, <2>4 DEF RankInv
<1>11. SkeletonOf'[r] = SkeletonOf[r]
  <2>1. /\ Has(r, "initialized")' = Has(r, "initialized")
        /\ Has(r, "need_free")' = Has(r, "need_free")
    BY <1>9 DEF Has
  <2>2. /\ pc[r] # "cleanup" /\ pc'[r] # "cleanup"
        /\ pc[r] \notin {"free", "run"} /\ pc'[r] \notin {"free", "run"}
    BY <1>1, <1>8
  <2>3. (Has(r, "need_free")' /\ pc'[r] # "cleanup") =
          (Has(r, "need_free") /\ pc[r] # "cleanup")
    BY <2>1, <2>2
  <2> QED BY <2>1, <2>2, <2>3 DEF SkeletonOf
<1>12. ASSUME r \notin failed' PROVE StateOf'[r] = StateOf[r]
  <2>1. f = flags[r] \cup {"commit_grids"} BY <1>6, <1>12
  <2>2. Shared(r)' = Shared(r) \cup {"commit_grids"} BY <1>8, <2>1 DEF Shared
  <2>3. s.sumFits \in BOOLEAN BY <1>0 DEF Stores
  <2> QED BY <1>1, <1>7, <1>8, <2>2, <2>3 DEF StateOf, Waiting
<1>13. CommitHolds'
  <2>1. Committed(r) BY <1>1 DEF Committed
  <2>2. \A q \in Ranks :
          /\ store[q].written \/ pc[q] = "gathered"
          /\ store[q].hierarchy = "current"
          /\ Has(q, "param_yt_set") /\ pc[q] # "cleanup"
    BY <2>1 DEF CommitHolds, IInv
  <2>3. ASSUME NEW q \in Ranks
        PROVE  /\ store'[q].written \/ pc'[q] = "gathered"
               /\ store'[q].hierarchy = "current"
               /\ Has(q, "param_yt_set")' /\ pc'[q] # "cleanup"
    <3>1. CASE q = r BY <1>1, <1>7, <1>8, <1>9, <2>2, <3>1
    <3>2. CASE q # r BY <1>8, <2>2, <3>2 DEF Has
    <3> QED BY <3>1, <3>2
  <2> QED BY <2>3 DEF CommitHolds
<1>14. "user" \in {"user", "gathered", "written", "cleanup"} \cup Waiting OBVIOUS
<1> QED BY <1>1, <1>6, <1>7, <1>8, <1>9, <1>10, <1>11, <1>12, <1>13, <1>14, RestKeepsIInv

LEMMA CleanUpKeeps ==
  ASSUME IInv, NEW r \in Ranks, CleanUp(r)
  PROVE  IInv'
<1>0. /\ FlagsFit(r) /\ PlaceFits(r) /\ StoreFits(r) /\ LabelsFit(r)
      /\ flags[r] \in SUBSET Flags /\ store[r] \in Stores(r)
      /\ DOMAIN pc = Ranks /\ DOMAIN flags = Ranks /\ DOMAIN store = Ranks
  BY OfRank
<1>1. /\ ~crashed /\ pc[r] = "cleanup" /\ pc' = [pc EXCEPT ![r] = "user"]
      /\ parTypes' = parTypes /\ calls' = calls /\ at' = at /\ initCount' = initCount
      /\ failed' = failed /\ crashed' = crashed
      /\ store' = [store EXCEPT ![r] = EmptyStore(r)]
      /\ flags' = [flags EXCEPT ![r] = @ \cap {"initialized"}]
  BY DEF CleanUp, Goto, Emptied
<1>2. Has(r, "initialized") BY <1>0, <1>1 DEF PlaceFits
<1>3. PICK f \in SUBSET Flags :
        f = {"initialized"} /\ flags' = [flags EXCEPT ![r] = f] /\ flags'[r] = f
  <2>1. flags[r] \cap {"initialized"} = {"initialized"} BY <1>2 DEF Has
  <2>2. flags' = [flags EXCEPT ![r] = {"initialized"}] BY <1>1, <2>1
  <2>3. flags'[r] = {"initialized"} BY <1>0, <2>2
  <2>4. {"initialized"} \in SUBSET Flags BY DEF Flags
  <2> QED BY <2>2, <2>3, <2>4
<1>4. EmptyStore(r) \in Stores(r)
  <2>1. NoLabels(r) \in Labels(r) BY DEF NoLabels, Labels
  <2> QED BY <2>1 DEF EmptyStore, Stores, Ages
<1>5. /\ pc'[r] = "user" /\ store'[r] = EmptyStore(r)
      /\ \A q \in Ranks \ {r} :
           flags'[q] = flags[q] /\ pc'[q] = pc[q] /\ store'[q] = store[q]
  BY <1>0, <1>1, <1>3
<1>6. /\ Has(r, "initialized")' /\ ~Has(r, "param_yt_set")' /\ ~Has(r, "need_free")'
      /\ ~Has(r, "commit_grids")'
  BY <1>3 DEF Has
<1>7. RankInv(r)'
  <2>1. FlagsFit(r)' BY <1>0, <1>1, <1>2, <1>3, <1>6 DEF FlagsFit, Has
  <2>2. PlaceFits(r)' BY <1>5 DEF PlaceFits
  <2>3. StoreFits(r)' BY <1>5, <1>6 DEF StoreFits, EmptyStore, NoLabels
  <2>4. LabelsFit(r)' BY <1>5, <1>6 DEF LabelsFit, EmptyStore, NoLabels
  <2> QED BY <2>1, <2>2, <2>3, <2>4 DEF RankInv
<1>8. SkeletonOf'[r] = SkeletonOf[r]
  <2>1. SkeletonOf[r] = [init |-> TRUE, need |-> FALSE, wait |-> "none"]
    <3>1. "initialized" \in flags[r] BY <1>2 DEF Has
    <3> QED BY <1>1, <3>1 DEF SkeletonOf, Has
  <2>2. SkeletonOf'[r] = [init |-> TRUE, need |-> FALSE, wait |-> "none"]
    BY <1>3, <1>5 DEF SkeletonOf, Has
  <2> QED BY <2>1, <2>2
<1>9. StateOf'[r] = StateOf[r]
  <2>1. StateOf[r] = [flags |-> {"initialized"}, fits |-> FALSE, wait |-> "none"]
    BY <1>1 DEF StateOf, Waiting
  <2>2. Shared(r)' = {"initialized"} BY <1>3 DEF Shared
  <2>3. store'[r].sumFits = FALSE BY <1>5 DEF EmptyStore
  <2>4. StateOf'[r] = [flags |-> {"initialized"}, fits |-> FALSE, wait |-> "none"]
    BY <1>5, <2>2, <2>3 DEF StateOf, Waiting
  <2> QED BY <2>1, <2>4
<1>10. CommitHolds'
  <2>1. ASSUME NEW q \in Ranks PROVE ~Committed(q)
    BY <1>1 DEF IInv, CommitHolds
  <2>2. ASSUME NEW q \in Ranks PROVE ~Committed(q)'
    <3>1. CASE q = r BY <1>5, <1>6, <3>1 DEF Committed
    <3>2. CASE q # r BY <1>5, <2>1, <3>2 DEF Committed, Has
    <3> QED BY <3>1, <3>2
  <2> QED BY <2>2 DEF CommitHolds
<1>11. Has(r, "initialized")' <=> Has(r, "initialized") BY <1>2, <1>6
<1> QED BY <1>1, <1>3, <1>4, <1>7, <1>8, <1>9, <1>10, <1>11, RestKeepsIInv

-----------------------------------------------------------------------------
(***************************************************************************)
(* The steps that all ranks take together                                  *)
(***************************************************************************)

\* A rank that waits is alive, and was admitted to its call.
LEMMA WaitingIsAlive ==
  ASSUME IInv, \A r \in Ranks : pc[r] \in Waiting
  PROVE  /\ Alive /\ \A r \in Ranks : Has(r, "initialized")
         /\ \A r \in Ranks : pc[r] \in {"count", "gather"} => Has(r, "param_yt_set")
<1>1. ASSUME NEW r \in Ranks
      PROVE  /\ Has(r, "initialized")
             /\ pc[r] \in {"count", "gather"} => Has(r, "param_yt_set")
  <2>1. FlagsFit(r) /\ PlaceFits(r) BY OfRank
  <2> QED BY <2>1 DEF FlagsFit, PlaceFits, Waiting
<1> QED BY <1>1 DEF Alive, Dead

\* Without a failure all ranks that wait are in the same state.
LEMMA SameState ==
  ASSUME IInv, failed = {}, \A r \in Ranks : pc[r] \in Waiting
  PROVE  /\ calls = <<>> /\ \A r \in Ranks : at[r] = 0
         /\ \A q, r \in Ranks : StateOf[q] = StateOf[r]
<1>1. TypeOK /\ SomeRankIsLast BY DEF IInv
<1>2. OnPath(States, AfterState, StateOf, calls, at)
  BY WaitingIsAlive DEF IInv, NoFailureNoParting
<1>3. \A r \in Ranks : StateOf[r].wait # "none"
  BY DEF StateOf, Waiting
<1> QED BY <1>1, <1>2, <1>3, WaitingTogether

\* Whatever failed, ranks that are all at a barrier are in the same call.
LEMMA SameBarrier ==
  ASSUME IInv, \A r \in Ranks : pc[r] \in {"free", "run"}
  PROVE  /\ calls = <<>> /\ \A r \in Ranks : at[r] = 0
         /\ \A q, r \in Ranks : SkeletonOf[q] = SkeletonOf[r] /\ pc[q] = pc[r]
<1>1. TypeOK /\ SomeRankIsLast BY DEF IInv
<1>2. OnPath(Skeletons, AfterSkeleton, SkeletonOf, calls, at)
  BY WaitingIsAlive DEF IInv, BarriersMatch, Waiting
<1>3. \A r \in Ranks : SkeletonOf[r].wait # "none" /\ SkeletonOf[r].wait = pc[r]
  BY DEF SkeletonOf
<1>4. /\ calls = <<>> /\ \A r \in Ranks : at[r] = 0
      /\ \A q, r \in Ranks : SkeletonOf[q] = SkeletonOf[r]
  BY <1>1, <1>2, <1>3, WaitingTogether
<1> QED BY <1>3, <1>4

LEMMA OneStateIsAPath ==
  ASSUME TypeOK', calls' = <<>>, \A r \in Ranks : at'[r] = 0,
         \A q, r \in Ranks : StateOf'[q] = StateOf'[r]
  PROVE  NoFailureNoParting'
<1>1. PICK p \in Ranks : TRUE BY RankAssumption
<1>2. StateOf'[p] \in States
  <2>1. /\ flags'[p] \in SUBSET Flags /\ store'[p].sumFits \in BOOLEAN
        /\ pc'[p] \in {"user", "gathered", "written", "cleanup"} \cup Waiting
    BY DEF TypeOK, Stores
  <2> QED BY <2>1 DEF StateOf, Shared, States, CommonFlags, Flags
<1>3. OnPath(States, AfterState', StateOf', calls', at')
  BY <1>2, PathOfOne
<1> QED BY <1>3 DEF NoFailureNoParting

LEMMA CountGridsKeeps ==
  ASSUME IInv, CountGrids
  PROVE  IInv'
<1>1. /\ \A r \in Ranks : pc[r] = "count"
      /\ pc' = [r \in Ranks |-> IF SumFits(r) THEN "gather" ELSE "user"]
      /\ crashed' \in BOOLEAN
      /\ parTypes' = parTypes /\ calls' = calls /\ at' = at
      /\ initCount' = initCount /\ flags' = flags /\ store' = store
      /\ failed' = failed
  BY DEF CountGrids
<1>2. /\ Alive /\ \A r \in Ranks : Has(r, "initialized") /\ Has(r, "param_yt_set")
  BY <1>1, WaitingIsAlive DEF Waiting
<1>3. \A r \in Ranks : pc'[r] \in {"gather", "user"} BY <1>1
<1>4. TypeOK'
  <2>1. TypeOK BY DEF IInv
  <2>2. pc' \in [Ranks -> {"user", "gathered", "written", "cleanup"} \cup Waiting]
    BY <1>1, <1>3 DEF Waiting
  <2>3. DOMAIN store' = Ranks /\ \A r \in Ranks : store'[r] \in Stores(r)
    BY <1>1, <2>1 DEF TypeOK
  <2> QED BY <1>1, <2>1, <2>2, <2>3 DEF TypeOK, Stores, Labels
<1>5. ASSUME NEW r \in Ranks PROVE RankInv(r)'
  <2>1. FlagsFit(r) /\ StoreFits(r) /\ LabelsFit(r) BY OfRank
  <2>2. FlagsFit(r)' BY <1>1, <2>1 DEF FlagsFit, Has
  <2>3. PlaceFits(r)' BY <1>1, <1>2, <1>3 DEF PlaceFits, Has
  <2>4. StoreFits(r)' BY <1>1, <2>1 DEF StoreFits, Has, NoLabels
  <2>5. LabelsFit(r)' BY <1>1, <1>3, <2>1 DEF LabelsFit, AllBound, Has
  <2> QED BY <2>2, <2>3, <2>4, <2>5 DEF RankInv
<1>6. SomeRankIsLast' BY <1>1 DEF IInv, SomeRankIsLast
<1>7. BarriersMatch'
  <2>1. OnPath(Skeletons, AfterSkeleton, SkeletonOf, calls, at)
    BY <1>2 DEF IInv, BarriersMatch
  <2>2. ASSUME NEW r \in Ranks PROVE SkeletonOf'[r] = SkeletonOf[r]
    <3>1. /\ pc[r] = "count" /\ pc'[r] \in {"gather", "user"}
          /\ Has(r, "initialized")' = Has(r, "initialized")
          /\ Has(r, "need_free")' = Has(r, "need_free")
      BY <1>1, <1>3 DEF Has
    <3> QED BY <3>1 DEF SkeletonOf
  <2>3. OnPath(Skeletons, AfterSkeleton, SkeletonOf', calls, at)
    BY <2>1, <2>2, SameViewSamePath
  <2> QED BY <1>1, <2>3 DEF BarriersMatch
<1>8. NoFailureNoParting'
  <2> SUFFICES ASSUME failed = {} PROVE NoFailureNoParting'
    BY <1>1 DEF NoFailureNoParting
  <2>1. /\ calls' = <<>> /\ \A r \in Ranks : at'[r] = 0
        /\ \A q, r \in Ranks : StateOf[q] = StateOf[r]
    BY <1>1, SameState DEF Waiting
  <2>2. \A r \in Ranks : /\ StateOf[r].flags = Shared(r)
                         /\ StateOf[r].fits = store[r].sumFits
    <3>1. \A r \in Ranks : store[r].sumFits \in BOOLEAN
      BY DEF IInv, TypeOK, Stores
    <3> QED BY <1>1, <3>1 DEF StateOf
  <2>3. ASSUME NEW q \in Ranks, NEW r \in Ranks PROVE StateOf'[q] = StateOf'[r]
    <3>1. Shared(q) = Shared(r) /\ store[q].sumFits = store[r].sumFits
      <4>1. StateOf[q] = StateOf[r] BY <2>1
      <4> QED BY <2>2, <4>1
    <3>2. pc'[q] = pc'[r] BY <1>1, <3>1 DEF SumFits
    <3>3. Shared(q)' = Shared(q) /\ Shared(r)' = Shared(r) BY <1>1 DEF Shared
    <3> QED BY <1>1, <1>3, <3>1, <3>2, <3>3 DEF StateOf
  <2> QED BY <1>4, <2>1, <2>3, OneStateIsAPath
<1>9. CommitHolds'
  <2>1. ASSUME NEW r \in Ranks, Committed(r)' PROVE Committed(r)
    BY <1>1, <1>3, <2>1 DEF Committed, Has
  <2> QED BY <1>1, <1>3, <2>1 DEF IInv, CommitHolds, Has
<1> QED BY <1>4, <1>5, <1>6, <1>7, <1>8, <1>9 DEF IInv

LEMMA GatherHierarchyKeeps ==
  ASSUME IInv, GatherHierarchy
  PROVE  IInv'
<1>1. /\ \A r \in Ranks : pc[r] = "gather"
      /\ parTypes' = parTypes /\ calls' = calls /\ at' = at
      /\ initCount' = initCount /\ flags' = flags
      /\ store' = store /\ failed' = failed /\ crashed' = crashed
      /\ \/ pc' = [r \in Ranks |-> "gathered"]
         \/ pc' = [r \in Ranks |-> "user"]
  BY DEF GatherHierarchy
<1>2. /\ Alive /\ \A r \in Ranks : Has(r, "initialized") /\ Has(r, "param_yt_set")
  BY <1>1, WaitingIsAlive DEF Waiting
<1>3. PICK there \in {"gathered", "user"} :
        (\A r \in Ranks : pc'[r] = there) /\ pc' = [r \in Ranks |-> there]
  BY <1>1
<1>4. DOMAIN store' = Ranks /\ \A r \in Ranks : store'[r] \in Stores(r)
  BY <1>1 DEF IInv, TypeOK
<1>5. TypeOK'
  <2>1. TypeOK BY DEF IInv
  <2>2. pc' \in [Ranks -> {"user", "gathered", "written", "cleanup"} \cup Waiting]
    BY <1>3 DEF Waiting
  <2> QED BY <1>1, <1>4, <2>1, <2>2 DEF TypeOK, Stores, Labels
<1>6. ASSUME NEW r \in Ranks PROVE RankInv(r)'
  <2>1. FlagsFit(r) /\ StoreFits(r) /\ LabelsFit(r) BY OfRank
  <2>2. FlagsFit(r)' BY <1>1, <2>1 DEF FlagsFit, Has
  <2>3. PlaceFits(r)' BY <1>1, <1>2, <1>3 DEF PlaceFits, Has
  <2>4. StoreFits(r)' BY <1>1, <1>4, <2>1 DEF StoreFits, Has, NoLabels
  <2>5. LabelsFit(r)' BY <1>1, <1>3, <1>4, <2>1 DEF LabelsFit, AllBound, Has
  <2> QED BY <2>2, <2>3, <2>4, <2>5 DEF RankInv
<1>7. SomeRankIsLast' BY <1>1 DEF IInv, SomeRankIsLast
<1>8. BarriersMatch'
  <2>1. OnPath(Skeletons, AfterSkeleton, SkeletonOf, calls, at)
    BY <1>2 DEF IInv, BarriersMatch
  <2>2. ASSUME NEW r \in Ranks PROVE SkeletonOf'[r] = SkeletonOf[r]
    <3>1. /\ pc[r] = "gather" /\ pc'[r] \in {"gathered", "user"}
          /\ Has(r, "initialized")' = Has(r, "initialized")
          /\ Has(r, "need_free")' = Has(r, "need_free")
      BY <1>1, <1>3 DEF Has
    <3> QED BY <3>1 DEF SkeletonOf
  <2>3. OnPath(Skeletons, AfterSkeleton, SkeletonOf', calls, at)
    BY <2>1, <2>2, SameViewSamePath
  <2> QED BY <1>1, <2>3 DEF BarriersMatch
<1>9. NoFailureNoParting'
  <2> SUFFICES ASSUME failed = {} PROVE NoFailureNoParting'
    BY <1>1 DEF NoFailureNoParting
  <2>1. /\ calls' = <<>> /\ \A r \in Ranks : at'[r] = 0
        /\ \A q, r \in Ranks : StateOf[q] = StateOf[r]
    BY <1>1, SameState DEF Waiting
  <2>2. \A r \in Ranks : /\ StateOf[r].flags = Shared(r)
                         /\ StateOf[r].fits = store[r].sumFits
    <3>1. \A r \in Ranks : store[r].sumFits \in BOOLEAN
      BY DEF IInv, TypeOK, Stores
    <3> QED BY <1>1, <3>1 DEF StateOf
  <2>3. ASSUME NEW q \in Ranks, NEW r \in Ranks PROVE StateOf'[q] = StateOf'[r]
    <3>1. Shared(q) = Shared(r) /\ store[q].sumFits = store[r].sumFits
      <4>1. StateOf[q] = StateOf[r] BY <2>1
      <4> QED BY <2>2, <4>1
    <3>2. Shared(q)' = Shared(q) /\ Shared(r)' = Shared(r) BY <1>1 DEF Shared
    <3>3. store'[q].sumFits = store'[r].sumFits BY <1>1, <3>1
    <3>4. Shared(q)' = Shared(r)' BY <3>1, <3>2
    <3>5. CASE there = "gathered" BY <1>3, <3>3, <3>4, <3>5 DEF StateOf
    <3>6. CASE there = "user" BY <1>3, <3>3, <3>4, <3>6 DEF StateOf
    <3> QED BY <3>5, <3>6
  <2> QED BY <1>5, <2>1, <2>3, OneStateIsAPath
<1>10. CommitHolds'
  <2>1. ASSUME NEW q \in Ranks
        PROVE  /\ store'[q].hierarchy = "current"
               /\ Has(q, "param_yt_set")' /\ pc'[q] # "cleanup"
    <3>1. StoreFits(q) BY OfRank
    <3> QED BY <1>1, <1>2, <1>3, <3>1 DEF StoreFits, Has
  <2>2. CASE there = "gathered" BY <1>3, <2>1, <2>2 DEF CommitHolds
  <2>3. CASE there = "user"
    <3>1. ASSUME NEW r \in Ranks, Committed(r)' PROVE Committed(r)
      BY <1>1, <1>3, <2>3, <3>1 DEF Committed, Has
    <3>2. ASSUME NEW r \in Ranks, Committed(r)', NEW q \in Ranks PROVE store[q].written
      BY <1>1, <3>1, <3>2 DEF IInv, CommitHolds
    <3> QED BY <1>1, <2>1, <3>2 DEF CommitHolds
  <2> QED BY <2>2, <2>3
<1> QED BY <1>5, <1>6, <1>7, <1>8, <1>9, <1>10 DEF IInv

LEMMA BarrierKeeps ==
  ASSUME IInv, Barrier
  PROVE  IInv'
<1>1. /\ \A r \in Ranks : pc[r] \in {"free", "run"}
      /\ pc' = [r \in Ranks |-> IF pc[r] = "free" THEN "cleanup" ELSE "user"]
      /\ failed' = IF calls = <<>> /\ \A r \in Ranks : pc[r] = "free"
                     THEN {} ELSE failed
      /\ parTypes' = parTypes /\ calls' = calls /\ at' = at
      /\ initCount' = initCount /\ flags' = flags /\ store' = store
      /\ crashed' = crashed
  BY DEF Barrier
<1>2. /\ Alive /\ \A r \in Ranks : Has(r, "initialized")
  BY <1>1, WaitingIsAlive DEF Waiting
<1>3. /\ calls = <<>> /\ \A r \in Ranks : at[r] = 0
      /\ \A q, r \in Ranks : SkeletonOf[q] = SkeletonOf[r] /\ pc[q] = pc[r]
  BY <1>1, SameBarrier
<1>4. PICK p \in Ranks : TRUE BY RankAssumption
<1>5. PICK there \in {"cleanup", "user"} :
        /\ \A r \in Ranks : pc'[r] = there
        /\ there = "cleanup" => failed' = {} /\ \A r \in Ranks : pc[r] = "free"
        /\ there = "user" => failed' = failed /\ \A r \in Ranks : pc[r] = "run"
  <2>1. CASE \A r \in Ranks : pc[r] = "free" BY <1>1, <1>3, <2>1
  <2>2. CASE \A r \in Ranks : pc[r] = "run"
    <3>1. failed' = failed BY <1>1, <1>4, <2>2
    <3> QED BY <1>1, <2>2, <3>1
  <2>3. (\A r \in Ranks : pc[r] = "free") \/ (\A r \in Ranks : pc[r] = "run")
    <3>1. CASE pc[p] = "free" BY <1>3, <3>1
    <3>2. CASE pc[p] = "run" BY <1>3, <3>2
    <3> QED BY <1>1, <3>1, <3>2
  <2> QED BY <2>1, <2>2, <2>3
<1>6. TypeOK'
  <2>1. TypeOK BY DEF IInv
  <2>2. pc' \in [Ranks -> {"user", "gathered", "written", "cleanup"} \cup Waiting]
    BY <1>1 DEF Waiting
  <2>3. failed' \subseteq Ranks BY <1>1, <2>1 DEF TypeOK
  <2>4. DOMAIN store' = Ranks /\ \A r \in Ranks : store'[r] \in Stores(r)
    BY <1>1, <2>1 DEF TypeOK
  <2> QED BY <1>1, <2>1, <2>2, <2>3, <2>4 DEF TypeOK, Stores, Labels
<1>7. ASSUME NEW r \in Ranks PROVE RankInv(r)'
  <2>1. FlagsFit(r) /\ StoreFits(r) /\ LabelsFit(r) BY OfRank
  <2>2. FlagsFit(r)' BY <1>1, <2>1 DEF FlagsFit, Has
  <2>3. PlaceFits(r)' BY <1>1, <1>2, <1>5 DEF PlaceFits, Has
  <2>4. StoreFits(r)' BY <1>1, <2>1 DEF StoreFits, Has, NoLabels
  <2>5. LabelsFit(r)'
    <3>1. CASE there = "cleanup" BY <1>5, <3>1 DEF LabelsFit
    <3>2. CASE there = "user"
      BY <1>1, <1>5, <2>1, <3>2 DEF LabelsFit, AllBound, Has
    <3> QED BY <3>1, <3>2
  <2> QED BY <2>2, <2>3, <2>4, <2>5 DEF RankInv
<1>8. SomeRankIsLast' BY <1>1 DEF IInv, SomeRankIsLast
<1>9. BarriersMatch'
  <2>1. ASSUME NEW r \in Ranks
        PROVE  SkeletonOf'[r] = [init |-> SkeletonOf[r].init,
                                 need |-> SkeletonOf[r].need /\ there # "cleanup",
                                 wait |-> "none"]
    <3>1. /\ pc[r] \in {"free", "run"} /\ pc'[r] = there
          /\ Has(r, "initialized")' = Has(r, "initialized")
          /\ Has(r, "need_free")' = Has(r, "need_free")
      BY <1>1, <1>5 DEF Has
    <3>2. SkeletonOf[r].init = Has(r, "initialized")
      BY DEF SkeletonOf
    <3>3. SkeletonOf[r].need = (Has(r, "need_free") /\ pc[r] # "cleanup")
      BY DEF SkeletonOf
    <3>4. (SkeletonOf[r].need /\ there # "cleanup") =
            (Has(r, "need_free")' /\ pc'[r] # "cleanup")
      BY <3>1, <3>3
    <3>5. SkeletonOf'[r] = [init |-> Has(r, "initialized")',
                            need |-> Has(r, "need_free")' /\ pc'[r] # "cleanup",
                            wait |-> "none"]
      BY <3>1 DEF SkeletonOf
    <3> QED BY <3>1, <3>2, <3>4, <3>5
  <2>2. \A r \in Ranks : SkeletonOf'[r] = SkeletonOf'[p]
    BY <1>3, <2>1
  <2>3. SkeletonOf'[p] \in Skeletons
    BY <1>5 DEF SkeletonOf, Skeletons, Has
  <2>4. OnPath(Skeletons, AfterSkeleton, SkeletonOf', calls', at')
    BY <1>1, <1>3, <2>2, <2>3, PathOfOne
  <2> QED BY <2>4 DEF BarriersMatch
<1>10. NoFailureNoParting'
  <2> SUFFICES ASSUME failed' = {} PROVE NoFailureNoParting'
    BY DEF NoFailureNoParting
  <2>1. ASSUME NEW q \in Ranks, NEW r \in Ranks PROVE StateOf'[q] = StateOf'[r]
    <3>1. CASE there = "cleanup"
      BY <1>5, <3>1 DEF StateOf
    <3>2. CASE there = "user"
      <4>1. StateOf[q] = StateOf[r]
        BY <1>1, <1>5, <3>2, SameState DEF Waiting
      <4>2. \A s \in Ranks : store[s].sumFits \in BOOLEAN
        BY DEF IInv, TypeOK, Stores
      <4>3. \A s \in Ranks : /\ StateOf[s].flags = Shared(s)
                             /\ StateOf[s].fits = store[s].sumFits
        BY <1>1, <4>2 DEF StateOf
      <4>4. Shared(q) = Shared(r) /\ store[q].sumFits = store[r].sumFits
        BY <4>1, <4>3
      <4>5. Shared(q)' = Shared(q) /\ Shared(r)' = Shared(r) BY <1>1 DEF Shared
      <4> QED BY <1>1, <1>5, <3>2, <4>4, <4>5 DEF StateOf
    <3> QED BY <3>1, <3>2
  <2> QED BY <1>1, <1>3, <1>6, <2>1, OneStateIsAPath
<1>11. CommitHolds'
  <2>1. CASE there = "cleanup"
    <3>1. \A r \in Ranks : ~Committed(r)' BY <1>5, <2>1 DEF Committed
    <3> QED BY <3>1 DEF CommitHolds
  <2>2. CASE there = "user"
    <3>1. ASSUME NEW r \in Ranks, Committed(r)' PROVE Committed(r)
      BY <1>1, <1>5, <2>2, <3>1 DEF Committed, Has
    <3> QED BY <1>1, <1>5, <2>2, <3>1 DEF IInv, CommitHolds, Has
  <2> QED BY <2>1, <2>2
<1> QED BY <1>6, <1>7, <1>8, <1>9, <1>10, <1>11 DEF IInv

-----------------------------------------------------------------------------
(***************************************************************************)
(* Theorems                                                                *)
(***************************************************************************)

LEMMA InitHolds ==
  Init => IInv
<1> SUFFICES ASSUME Init PROVE IInv OBVIOUS
<1>1. PICK p \in Ranks : TRUE BY RankAssumption
<1>2. \A r \in Ranks : /\ EmptyStore(r) \in Stores(r) /\ store[r] = EmptyStore(r)
                       /\ flags[r] = {} /\ pc[r] = "user" /\ initCount[r] = 0
  <2>1. \A r \in Ranks : NoLabels(r) \in Labels(r) BY DEF NoLabels, Labels
  <2>2. \A r \in Ranks : EmptyStore(r) \in Stores(r)
    BY <2>1 DEF EmptyStore, Stores, Ages
  <2> QED BY <2>2 DEF Init
<1>3. TypeOK
  <2>1. calls \in Seq(Calls) /\ Len(calls) <= MaxLead
    BY SizeAssumption DEF Init
  <2>2. at \in [Ranks -> 0 .. Len(calls)] BY <2>1 DEF Init
  <2>3. DOMAIN store = Ranks /\ \A r \in Ranks : store[r] \in Stores(r)
    BY <1>2 DEF Init
  <2>4. /\ pc \in [Ranks -> {"user", "gathered", "written", "cleanup"} \cup Waiting]
        /\ initCount \in [Ranks -> 0 .. 2] /\ flags \in [Ranks -> SUBSET Flags]
        /\ failed \subseteq Ranks /\ crashed \in BOOLEAN /\ parTypes \in BOOLEAN
    <3>1. pc \in [Ranks -> {"user", "gathered", "written", "cleanup"} \cup Waiting] BY DEF Init
    <3>2. initCount \in [Ranks -> 0 .. 2] /\ flags \in [Ranks -> SUBSET Flags]
      BY DEF Init
    <3> QED BY <3>1, <3>2 DEF Init
  <2> QED BY <2>1, <2>2, <2>3, <2>4 DEF TypeOK
<1>4. ASSUME NEW r \in Ranks PROVE RankInv(r)
  <2>1. ~Has(r, "param_yt_set") /\ ~Has(r, "commit_grids") BY <1>2 DEF Has
  <2>2. FlagsFit(r) BY <1>2 DEF FlagsFit, Has
  <2>3. PlaceFits(r) BY <1>2 DEF PlaceFits
  <2>0. store[r] = EmptyStore(r) /\ flags[r] = {} /\ pc[r] = "user" BY <1>2
  <2>4. StoreFits(r) BY <2>0, <2>1 DEF StoreFits, EmptyStore
  <2>5. LabelsFit(r) BY <2>0, <2>1 DEF LabelsFit, EmptyStore, NoLabels
  <2> QED BY <2>2, <2>3, <2>4, <2>5 DEF RankInv
<1>5. SomeRankIsLast BY <1>1 DEF Init, SomeRankIsLast
<1>6. \A r \in Ranks :
        /\ SkeletonOf[r] = [init |-> FALSE, need |-> FALSE, wait |-> "none"]
        /\ StateOf[r] = [flags |-> {}, fits |-> FALSE, wait |-> "none"]
  <2> TAKE r \in Ranks
  <2>0. store[r] = EmptyStore(r) /\ flags[r] = {} /\ pc[r] = "user" BY <1>2
  <2>1. SkeletonOf[r] = [init |-> FALSE, need |-> FALSE, wait |-> "none"]
    <3>1. ("initialized" \in flags[r]) = FALSE /\ ("need_free" \in flags[r]) = FALSE
      BY <2>0
    <3>2. ("need_free" \in flags[r] /\ pc[r] # "cleanup") = FALSE BY <3>1
    <3>3. SkeletonOf[r] = [init |-> "initialized" \in flags[r],
                           need |-> "need_free" \in flags[r] /\ pc[r] # "cleanup",
                           wait |-> "none"]
      BY <2>0 DEF SkeletonOf, Has
    <3> QED BY <3>1, <3>2, <3>3
  <2>2. StateOf[r] = [flags |-> {}, fits |-> FALSE, wait |-> "none"]
    <3>1. store[r].sumFits = FALSE BY <2>0 DEF EmptyStore
    <3>2. Shared(r) = {} BY <2>0 DEF Shared
    <3> QED BY <2>0, <3>1, <3>2 DEF StateOf, Waiting
  <2> QED BY <2>1, <2>2
<1>7. calls = <<>> /\ \A r \in Ranks : at[r] = 0 BY DEF Init
<1>8. BarriersMatch
  <2>1. [init |-> FALSE, need |-> FALSE, wait |-> "none"] \in Skeletons BY DEF Skeletons
  <2>2. OnPath(Skeletons, AfterSkeleton, SkeletonOf, calls, at)
    BY <1>6, <1>7, <2>1, PathOfOne
  <2> QED BY <2>2 DEF BarriersMatch
<1>9. NoFailureNoParting
  <2>1. [flags |-> {}, fits |-> FALSE, wait |-> "none"] \in States BY DEF States
  <2>2. OnPath(States, AfterState, StateOf, calls, at)
    BY <1>6, <1>7, <2>1, PathOfOne
  <2> QED BY <2>2 DEF NoFailureNoParting
<1>10. CommitHolds
  <2>1. \A r \in Ranks : ~Committed(r) BY <1>2 DEF Committed, Has
  <2> QED BY <2>1 DEF CommitHolds
<1> QED BY <1>3, <1>4, <1>5, <1>8, <1>9, <1>10 DEF IInv

LEMMA StutterHolds ==
  ASSUME IInv, UNCHANGED vars
  PROVE  IInv'
<1>1. /\ parTypes' = parTypes /\ calls' = calls /\ at' = at /\ pc' = pc
      /\ initCount' = initCount /\ flags' = flags /\ store' = store
      /\ failed' = failed /\ crashed' = crashed
  BY DEF vars
<1>2. TypeOK' BY <1>1 DEF IInv, TypeOK, Stores, Labels
<1>3. \A r \in Ranks : RankInv(r)'
  <2> TAKE r \in Ranks
  <2> QED BY <1>1, OtherRankKept DEF IInv
<1>4. SomeRankIsLast' /\ (Alive' <=> Alive)
  BY <1>1 DEF IInv, SomeRankIsLast, Alive, Dead, Has
<1>5. BarriersMatch'
  <2>1. SkeletonOf' = SkeletonOf BY <1>1 DEF SkeletonOf, Has
  <2> QED BY <1>1, <1>4, <2>1 DEF IInv, BarriersMatch
<1>6. NoFailureNoParting'
  <2>1. StateOf' = StateOf /\ AfterState' = AfterState
    BY <1>1 DEF StateOf, Shared, AfterState, NewFlags, WaitOf, ReadyToCommit
  <2> QED BY <1>1, <1>4, <2>1 DEF IInv, NoFailureNoParting
<1>7. CommitHolds' BY <1>1 DEF IInv, CommitHolds, Committed, Has
<1> QED BY <1>2, <1>3, <1>4, <1>5, <1>6, <1>7 DEF IInv

LEMMA NextHolds ==
  IInv /\ [Next]_vars => IInv'
<1> SUFFICES ASSUME IInv, [Next]_vars PROVE IInv' OBVIOUS
<1>1. ASSUME NEW r \in Ranks, Refuse(r) PROVE IInv' BY <1>1, RefuseKeeps
<1>2. ASSUME NEW r \in Ranks, Initialize(r) PROVE IInv' BY <1>2, InitializeKeeps
<1>3. ASSUME NEW r \in Ranks, SetParameters(r) PROVE IInv' BY <1>3, SetParametersKeeps
<1>4. ASSUME NEW r \in Ranks, GetPtr(r) PROVE IInv' BY <1>4, GetPtrKeeps
<1>5. ASSUME NEW r \in Ranks, Commit(r) PROVE IInv'
  <2>1. /\ Call(r, "commit") /\ UNCHANGED <<parTypes, initCount, flags, store, crashed>>
        /\ \/ Goto(r, "count") /\ UNCHANGED failed
           \/ failed' = failed \cup {r} /\ UNCHANGED pc
    BY <1>5 DEF Commit
  <2> QED BY <2>1, GoingKeeps
<1>6. ASSUME NEW r \in Ranks, BindLocalData(r) PROVE IInv' BY <1>6, BindLocalDataKeeps
<1>7. ASSUME NEW r \in Ranks, Run(r) PROVE IInv'
  <2>1. /\ Call(r, "run") /\ UNCHANGED <<parTypes, initCount, flags, store, crashed>>
        /\ Goto(r, "run") /\ UNCHANGED failed
    BY <1>7 DEF Run
  <2> QED BY <2>1, GoingKeeps
<1>8. ASSUME NEW r \in Ranks, Free(r) PROVE IInv'
  <2>1. /\ Call(r, "free") /\ UNCHANGED <<parTypes, initCount, flags, store, crashed>>
        /\ Goto(r, "free") /\ UNCHANGED failed
    BY <1>8 DEF Free
  <2> QED BY <2>1, GoingKeeps
<1>9. ASSUME NEW r \in Ranks, CleanUp(r) PROVE IInv' BY <1>9, CleanUpKeeps
<1>10. ASSUME NEW r \in Ranks, Finalize(r) PROVE IInv' BY <1>10, FinalizeKeeps
<1>11. CASE CountGrids BY <1>11, CountGridsKeeps
<1>12. CASE GatherHierarchy BY <1>12, GatherHierarchyKeeps
<1>13. CASE Barrier BY <1>13, BarrierKeeps
<1>14. ASSUME NEW r \in Ranks, WriteHierarchy(r) PROVE IInv' BY <1>14, WriteHierarchyKeeps
<1>15. CASE UNCHANGED vars BY <1>15, StutterHolds
<1> QED
  BY <1>1, <1>2, <1>3, <1>4, <1>5, <1>6, <1>7, <1>8, <1>9, <1>10, <1>11, <1>12,
     <1>13, <1>14, <1>15 DEF Next, Step, Collective

\* The inductive invariant holds in every state.
THEOREM InvariantHolds ==
  Spec => []IInv
<1>1. Init => IInv BY InitHolds
<1>2. IInv /\ [Next]_vars => IInv' BY NextHolds
<1> QED BY <1>1, <1>2, PTL DEF Spec

\* Every variable keeps its type; in particular no rank is ever more than
\* MaxLead calls ahead, and grid dictionaries hold only fields there are.
THEOREM TypeHolds ==
  Spec => []TypeOK
<1>1. IInv => TypeOK BY DEF IInv
<1> QED BY <1>1, InvariantHolds, PTL

\* Ranks part only by a failure that the others do not see: otherwise ranks
\* that all wait in MPI are in the same call of libyt, and have all committed
\* or none of them, for any number of ranks and any program.
THEOREM PartingNeedsFailure ==
  Spec => []PartOnlyByFailure
<1>1. IInv => PartOnlyByFailure
  <2> SUFFICES ASSUME IInv, failed = {}, \A r \in Ranks : pc[r] \in Waiting,
                      NEW q \in Ranks, NEW r \in Ranks
               PROVE  pc[q] = pc[r] /\ (Has(q, "commit_grids") <=> Has(r, "commit_grids"))
    BY DEF PartOnlyByFailure
  <2>1. StateOf[q] = StateOf[r] BY SameState
  <2>2. \A s \in Ranks : StateOf[s].flags = Shared(s) /\ StateOf[s].wait = pc[s]
    BY DEF StateOf, Waiting
  <2>3. pc[q] = pc[r] /\ Shared(q) = Shared(r) BY <2>1, <2>2
  <2> QED BY <2>3 DEF Shared, Has
<1> QED BY <1>1, InvariantHolds, PTL

\* While the parameters are set nothing is left from an earlier iteration or
\* an earlier attempt, and a committed rank in which nothing went wrong in
\* this iteration has bound all its arrays.
THEOREM IterationsAreFresh ==
  Spec => []FreshIteration
<1>1. IInv => FreshIteration
  <2> SUFFICES ASSUME IInv, NEW r \in Ranks, Has(r, "param_yt_set")
               PROVE  /\ \A part \in {"fields", "particles", "grids", "hierarchy", "data"} :
                           store[r][part] # "old"
                      /\ store[r].fields = "current" /\ store[r].hierarchy = "current"
                      /\ Has(r, "commit_grids") \/ GridsOf[r] = 0 \/ store[r].grids = "current"
                      /\ Has(r, "commit_grids") /\ r \notin failed /\ pc[r] # "cleanup"
                           => AllBound(r)
    BY DEF FreshIteration
  <2>1. StoreFits(r) /\ LabelsFit(r) BY OfRank
  <2>2. /\ store[r].fields = "current" /\ store[r].hierarchy = "current"
        /\ store[r].particles # "old" /\ store[r].grids # "old"
        /\ store[r].data # "old"
        /\ Has(r, "commit_grids") \/ GridsOf[r] = 0 \/ store[r].grids = "current"
    BY <2>1 DEF StoreFits
  <2>3. Has(r, "commit_grids") /\ r \notin failed /\ pc[r] # "cleanup" => AllBound(r)
    BY <2>1 DEF LabelsFit
  <2> QED BY <2>2, <2>3
<1> QED BY <1>1, InvariantHolds, PTL

\* While some rank has committed and not passed the barrier of yt_free, every
\* rank has the hierarchy in this iteration's arrays, or is inside yt_commit
\* and about to write it there, whatever failed on which rank since.
THEOREM CommitIsShared ==
  Spec => []CommitIsCommon
<1>1. IInv => CommitIsCommon
  BY DEF IInv, CommitHolds, Committed, CommitIsCommon
<1> QED BY <1>1, InvariantHolds, PTL
=============================================================================
