-------------------------- MODULE RemoteDataProofs --------------------------
(***************************************************************************)
(* Proofs about RemoteData, for any set of ranks and grids and any number  *)
(* of fields.                                                              *)
(***************************************************************************)
EXTENDS RemoteDataInvariants, TLAPS

\* Type correctness: TypeOK is inductive by itself.
THEOREM TypeCorrect == Spec => []TypeOK
<1> USE FieldsAssumption, RequestsAssumption
    DEF TypeOK, Collectives, LocalSteps, Outcome, Results, Entries
<1>1. Init => TypeOK
  BY DEF Init, NoEntry, NotGathered
<1>2. TypeOK /\ [Next]_vars => TypeOK'
  <2> SUFFICES ASSUME TypeOK, [Next]_vars PROVE TypeOK'
    OBVIOUS
  <2> USE DEF args, At, Goto, AllAt, AllGoto, CheckAllStates, ExitFrom, AfterLoop
  <2>1. CASE \E r \in Ranks : LocalStep(r)
    <3> PICK r \in Ranks : LocalStep(r)
      BY <2>1
    <3>1. CASE GetLocalFieldData(r)
      BY <3>1 DEF GetLocalFieldData
    <3>2. CASE PrepareData(r)
      <4>1. /\ Listed(r) \subseteq Ids
            /\ Buffers(r) \subseteq Listed(r)
        BY DEF Listed, Buffers
      <4>2. \/ /\ addressList' = [addressList EXCEPT ![r] = Listed(r)]
               /\ attached' = [attached EXCEPT ![r] = Buffers(r)]
               /\ status' = [status EXCEPT ![r] = "ok"]
            \/ \E done \in SUBSET Listed(r) : \E bad \in Buffers(r) \ done :
                 /\ addressList' = [addressList EXCEPT ![r] = done]
                 /\ \E stuck \in {{}, {bad}} :
                      attached' = [attached EXCEPT ![r] =
                                     (done \cap Buffers(r)) \cup stuck]
                 /\ status' = [status EXCEPT ![r] = "failed"]
        BY <3>2 DEF PrepareData
      <4>3. /\ addressList' \in [Ranks -> SUBSET Ids]
            /\ status' \in [Ranks -> Outcome]
        <5>1. PICK S \in SUBSET Ids : addressList' = [addressList EXCEPT ![r] = S]
          BY <4>1, <4>2
        <5>2. PICK o \in Outcome : status' = [status EXCEPT ![r] = o]
          BY <4>2
        <5>3. addressList' \in [Ranks -> SUBSET Ids]
          BY <5>1
        <5>4. status' \in [Ranks -> Outcome]
          BY <5>2
        <5>5. QED
          BY <5>3, <5>4
      <4>4. attached' \in [Ranks -> SUBSET Ids]
        <5>1. PICK S \in SUBSET Ids : attached' = [attached EXCEPT ![r] = S]
          BY <4>1, <4>2
        <5>2. QED
          BY <5>1
      <4>5. QED
        BY <3>2, <4>3, <4>4 DEF PrepareData
    <3>3. CASE OpenEpoch(r)
      BY <3>3 DEF OpenEpoch
    <3>4. CASE FetchRemoteData(r)
      <4>1. PICK req \in todo[r] :
              /\ \E T \in {{}, todo[r] \ {req}} : todo' = [todo EXCEPT ![r] = T]
              /\ \E F \in {{}, {req}} : fetched' = [fetched EXCEPT ![r] = @ \cup F]
              /\ \E P \in {{}, {req}} : pending' = [pending EXCEPT ![r] = @ \cup P]
        <5>1. PICK req \in todo[r] :
                LET address == gathered[r][req[2]][req[1]]
                IN  \/ /\ \E issued \in IF address = "buffer"
                                       THEN {{}, {req}} ELSE {{}} :
                            pending' = [pending EXCEPT ![r] = @ \cup issued]
                       /\ todo' = [todo EXCEPT ![r] = {}]
                       /\ UNCHANGED fetched
                    \/ /\ todo' = [todo EXCEPT ![r] = @ \ {req}]
                       /\ fetched' = [fetched EXCEPT ![r] = @ \cup {req}]
                       /\ pending' = [pending EXCEPT ![r] =
                             IF address = "buffer" THEN @ \cup {req} ELSE @]
          BY <3>4 DEF FetchRemoteData
        <5>2. \E T \in {{}, todo[r] \ {req}} : todo' = [todo EXCEPT ![r] = T]
          BY <5>1
        <5>3. \E F \in {{}, {req}} : fetched' = [fetched EXCEPT ![r] = @ \cup F]
          BY <5>1
        <5>4. \E P \in {{}, {req}} : pending' = [pending EXCEPT ![r] = @ \cup P]
          <6> DEFINE address == gathered[r][req[2]][req[1]]
          <6>1. \/ \E issued \in IF address = "buffer" THEN {{}, {req}} ELSE {{}} :
                      pending' = [pending EXCEPT ![r] = @ \cup issued]
                \/ pending' = [pending EXCEPT ![r] =
                                 IF address = "buffer" THEN @ \cup {req} ELSE @]
            BY <5>1
          <6> HIDE DEF address
          <6>2. pending[r] \cup {} = pending[r]
            OBVIOUS
          <6>3. CASE address = "buffer"
            BY <6>1, <6>3
          <6>4. CASE address # "buffer"
            BY <6>1, <6>2, <6>4
          <6>5. QED
            BY <6>3, <6>4
        <5>5. QED
          BY <5>2, <5>3, <5>4
      <4>2. req \in Requests
        OBVIOUS
      <4>3. todo' \in [Ranks -> SUBSET Requests]
        <5>1. PICK T \in SUBSET Requests : todo' = [todo EXCEPT ![r] = T]
          BY <4>1
        <5>2. QED
          BY <5>1
      <4>4. fetched' \in [Ranks -> SUBSET Requests]
        <5>1. PICK F \in {{}, {req}} : fetched' = [fetched EXCEPT ![r] = @ \cup F]
          BY <4>1
        <5>2. fetched[r] \cup F \in SUBSET Requests
          BY <4>2
        <5>3. QED
          BY <5>1, <5>2
      <4>5. pending' \in [Ranks -> SUBSET Requests]
        <5>1. PICK P \in {{}, {req}} : pending' = [pending EXCEPT ![r] = @ \cup P]
          BY <4>1
        <5>2. pending[r] \cup P \in SUBSET Requests
          BY <4>2
        <5>3. QED
          BY <5>1, <5>2
      <4>6. /\ pc' \in [Ranks -> Collectives \cup LocalSteps]
            /\ status' \in [Ranks -> Outcome]
        BY <3>4 DEF FetchRemoteData
      <4>7. QED
        BY <3>4, <4>3, <4>4, <4>5, <4>6 DEF FetchRemoteData
    <3>5. CASE FetchedAll(r)
      BY <3>5 DEF FetchedAll
    <3>6. CASE DetachBuffer(r)
      BY <3>6 DEF DetachBuffer
    <3>7. CASE CleanUp(r)
      BY <3>7 DEF CleanUp, NotGathered
    <3>8. CASE CallFieldRma(r)
      <4>1. \/ UNCHANGED output
            \/ output' = [output EXCEPT ![r] = @ \cup ({field[r]} \X fetched[r])]
        BY <3>8 DEF CallFieldRma
      <4>2. {field[r]} \X fetched[r] \subseteq (1..NumFields) \X Requests
        OBVIOUS
      <4>3. output' \in [Ranks -> SUBSET ((1..NumFields) \X Requests)]
        <5>1. CASE UNCHANGED output
          BY <5>1
        <5>2. CASE output' = [output EXCEPT ![r] = @ \cup ({field[r]} \X fetched[r])]
          <6> DEFINE S == output[r] \cup ({field[r]} \X fetched[r])
          <6>1. S \in SUBSET ((1..NumFields) \X Requests)
            BY <4>2
          <6>2. output' = [output EXCEPT ![r] = S]
            BY <5>2
          <6> HIDE DEF S
          <6>3. QED
            BY <6>1, <6>2
        <5>3. QED
          BY <4>1, <5>1, <5>2
      <4>4. field' \in [Ranks -> 1..NumFields]
        <5>1. CASE UNCHANGED field
          BY <5>1
        <5>2. CASE MoreFields(r) /\ field' = [field EXCEPT ![r] = @ + 1]
          <6>1. field[r] + 1 \in 1..NumFields
            BY <5>2 DEF MoreFields
          <6>2. QED
            BY <5>2, <6>1
        <5>3. QED
          BY <3>8, <5>1, <5>2 DEF CallFieldRma
      <4>5. pc' \in [Ranks -> Collectives \cup LocalSteps]
        <5>1. \E there \in LocalSteps : pc' = [pc EXCEPT ![r] = there]
          BY <3>8 DEF CallFieldRma
        <5>2. QED
          BY <5>1
      <4>6. result' \in [Ranks -> Results]
        <5>1. \/ UNCHANGED result
              \/ \E o \in Results : result' = [result EXCEPT ![r] = o]
          BY <3>8 DEF CallFieldRma
        <5>2. QED
          BY <5>1
      <4>7. hub' \in [Ranks -> [Ids -> Entries]]
        BY <3>8 DEF CallFieldRma, NoEntry
      <4>8. QED
        BY <3>8, <4>3, <4>4, <4>5, <4>6, <4>7 DEF CallFieldRma
    <3>9. QED
      BY <3>1, <3>2, <3>3, <3>4, <3>5, <3>6, <3>7, <3>8 DEF LocalStep
  <2>2. CASE Collective
    <3>1. CASE CheckLocalData
      BY <3>1 DEF CheckLocalData
    <3>2. CASE InitializeMpiWindow
      BY <3>2 DEF InitializeMpiWindow
    <3>3. CASE CheckWindow
      BY <3>3 DEF CheckWindow
    <3>4. CASE CheckPrepare
      BY <3>4 DEF CheckPrepare
    <3>5. CASE GatherAllPreparedData
      BY <3>5 DEF GatherAllPreparedData, AddressOf
    <3>6. CASE CheckGather
      BY <3>6 DEF CheckGather
    <3>7. CASE CloseEpoch
      BY <3>7 DEF CloseEpoch
    <3>8. CASE CheckFetch
      BY <3>8 DEF CheckFetch
    <3>9. CASE FreeMpiWindow
      BY <3>9 DEF FreeMpiWindow
    <3>10. QED
      BY <2>2, <3>1, <3>2, <3>3, <3>4, <3>5, <3>6, <3>7, <3>8, <3>9 DEF
         Collective
  <2>3. CASE UNCHANGED vars
    BY <2>3 DEF vars
  <2>4. QED
    BY <2>1, <2>2, <2>3 DEF Next, Finished
<1>3. QED
  BY <1>1, <1>2, PTL DEF Spec

-----------------------------------------------------------------------------
(***************************************************************************)
(* Lockstep.                                                               *)
(***************************************************************************)
\* The ranks start in lockstep.
LEMMA LockstepInit == ASSUME Init PROVE Lockstep
BY DEF Init, Lockstep, SameCollective, SameVote, DoneIsLastField,
   NextCollective, Upcoming

\* A local step that keeps the rank's next collective keeps Lockstep.
LEMMA LocalKeepsLockstep ==
  ASSUME TypeOK, Lockstep, NEW r \in Ranks,
         allStatus' = allStatus,
         \A q \in Ranks \ {r} : pc'[q] = pc[q] /\ field'[q] = field[q],
         NextCollective(r)' = NextCollective(r),
         pc'[r] = "done" /\ allStatus[r] = "ok" => field'[r] = NumFields
  PROVE  Lockstep'
<1>1. \A q \in Ranks : NextCollective(q)' = NextCollective(q)
  BY DEF NextCollective, Upcoming
<1>2. SameCollective'
  BY <1>1 DEF Lockstep, SameCollective
<1>3. SameVote' /\ DoneIsLastField'
  BY DEF Lockstep, SameVote, DoneIsLastField
<1>4. QED
  BY <1>2, <1>3 DEF Lockstep

\* So does a collective that every rank leaves for the same place.
LEMMA CollectiveKeepsLockstep ==
  ASSUME TypeOK, Lockstep,
         NEW here \in Collectives, NEW there \in Collectives \cup LocalSteps,
         AllAt(here), AllGoto(there), there # "done",
         field' = field,
         \A r, q \in Ranks : allStatus'[r] = allStatus'[q]
  PROVE  Lockstep'
<1>1. \A r, q \in Ranks : field[r] = field[q]
  <2>1. \A r \in Ranks : NextCollective(r) = <<field[r], here>>
    BY DEF NextCollective, Upcoming, AllAt, Collectives
  <2>2. QED
    BY <2>1 DEF Lockstep, SameCollective
<1>2. SameCollective'
  BY <1>1 DEF SameCollective, NextCollective, AllGoto
<1>3. SameVote' /\ DoneIsLastField'
  BY DEF SameVote, DoneIsLastField, AllGoto
<1>4. QED
  BY <1>2, <1>3 DEF Lockstep

\* Every step keeps the ranks in lockstep.
LEMMA LockstepNext == ASSUME TypeOK, Lockstep, [Next]_vars PROVE Lockstep'
<1> USE DEF args, At, Goto, CheckAllStates, ExitFrom, AfterLoop, Collectives,
   LocalSteps
<1>1. CASE \E r \in Ranks : LocalStep(r)
  <2> PICK r \in Ranks : LocalStep(r)
    BY <1>1
  <2>1. CASE ~CallFieldRma(r)
    <3>1. /\ allStatus' = allStatus
          /\ field' = field
          /\ \A q \in Ranks \ {r} : pc'[q] = pc[q]
          /\ pc'[r] \notin {"cleanup", "done"}
          /\ pc[r] \notin {"cleanup", "release", "done"}
          /\ pc'[r] # "release"
          /\ Upcoming(pc'[r]) = Upcoming(pc[r])
       \/ CleanUp(r)
      BY <2>1 DEF LocalStep, TypeOK, Upcoming, GetLocalFieldData, PrepareData,
                    OpenEpoch, FetchRemoteData, FetchedAll, DetachBuffer
    <3>2. NextCollective(r)' = NextCollective(r)
      BY <3>1 DEF NextCollective, CleanUp, TypeOK
    <3>3. QED
      BY <3>1, <3>2, LocalKeepsLockstep DEF CleanUp, TypeOK
  <2>2. CASE CallFieldRma(r) /\ ~Succeeded(r)
    BY <2>2, LocalKeepsLockstep DEF CallFieldRma, Succeeded, NextCollective,
       TypeOK
  <2>3. CASE CallFieldRma(r) /\ Succeeded(r) /\ MoreFields(r)
    <3>1. NextCollective(r)' = NextCollective(r)
      BY <2>3 DEF CallFieldRma, Succeeded, MoreFields, NextCollective,
         Upcoming, TypeOK
    <3>2. /\ allStatus' = allStatus /\ pc'[r] = "hub"
          /\ \A q \in Ranks \ {r} : pc'[q] = pc[q] /\ field'[q] = field[q]
      BY <2>3 DEF CallFieldRma, TypeOK
    <3>3. QED
      BY <3>1, <3>2, LocalKeepsLockstep
  <2>4. CASE CallFieldRma(r) /\ Succeeded(r) /\ ~MoreFields(r)
    <3>1. field[r] = NumFields
      <4>1. field[r] \in 1..NumFields
        BY DEF TypeOK
      <4>2. ~(field[r] < NumFields)
        BY <2>4 DEF MoreFields
      <4>3. QED
        BY <4>1, <4>2, FieldsAssumption
    <3>2. /\ allStatus' = allStatus /\ field' = field
          /\ pc[r] = "release" /\ pc'[r] = "done"
          /\ \A q \in Ranks \ {r} : pc'[q] = pc[q]
      BY <2>4 DEF CallFieldRma, TypeOK
    <3>3. NextCollective(r)' = NextCollective(r)
      BY <3>1, <3>2 DEF NextCollective
    <3>4. QED
      BY <3>1, <3>2, <3>3, LocalKeepsLockstep
  <2>5. QED
    BY <2>1, <2>2, <2>3, <2>4
<1>2. CASE Collective
  <2>1. field' = field
    BY <1>2 DEF Collective, CheckLocalData, InitializeMpiWindow, CheckWindow,
           CheckPrepare, GatherAllPreparedData, CheckGather, CloseEpoch,
           CheckFetch, FreeMpiWindow
  <2>2. \A r, q \in Ranks : allStatus'[r] = allStatus'[q]
    BY <1>2 DEF Lockstep, SameVote, Collective, CheckLocalData,
           InitializeMpiWindow, CheckWindow, CheckPrepare, GatherAllPreparedData, CheckGather, CloseEpoch,
           CheckFetch, FreeMpiWindow
  <2>3. \E here \in Collectives, there \in (Collectives \cup LocalSteps) \ {"done"} :
          AllAt(here) /\ AllGoto(there)
    BY <1>2 DEF Collective, CheckLocalData, InitializeMpiWindow, CheckWindow,
           CheckPrepare, GatherAllPreparedData, CheckGather, CloseEpoch,
           CheckFetch, FreeMpiWindow
  <2>4. QED
    BY <2>1, <2>2, <2>3, CollectiveKeepsLockstep
<1>3. CASE UNCHANGED vars
  BY <1>3 DEF vars, Lockstep, SameCollective, SameVote, DoneIsLastField,
     NextCollective, Upcoming
<1>4. QED
  BY <1>1, <1>2, <1>3 DEF Next, Finished

\* The ranks stay in lockstep.
THEOREM LockstepHolds == Spec => []Lockstep
<1>1. QED
  BY TypeCorrect, LockstepInit, LockstepNext, PTL DEF Spec

\* Ranks in lockstep that wait in collectives wait in the same one.
LEMMA LockstepMatches == ASSUME TypeOK, Lockstep PROVE CollectivesMatch
<1> SUFFICES ASSUME NEW r \in Ranks, NEW q \in Ranks, pc[r] \in Collectives
             PROVE  /\ pc[q] \in Collectives => pc[q] = pc[r] /\ field[q] = field[r]
                    /\ pc[q] # "done"
  BY DEF CollectivesMatch
<1>1. NextCollective(r) = NextCollective(q)
  BY DEF Lockstep, SameCollective
<1>2. NextCollective(r) = <<field[r], pc[r]>>
  BY DEF NextCollective, Upcoming, Collectives
<1>3. ASSUME pc[q] \in Collectives
      PROVE  pc[q] = pc[r] /\ field[q] = field[r]
  <2>1. NextCollective(q) = <<field[q], pc[q]>>
    BY <1>3 DEF NextCollective, Upcoming, Collectives
  <2>2. QED
    <3>1. <<field[q], pc[q]>> = <<field[r], pc[r]>>
      BY <1>1, <1>2, <2>1
    <3>2. QED
      BY <3>1
<1>4. pc[q] # "done"
  <2> SUFFICES ASSUME pc[q] = "done" PROVE FALSE
    OBVIOUS
  <2>1. NextCollective(q) = <<NumFields + 1, "none">>
    BY FieldsAssumption DEF NextCollective, Lockstep, DoneIsLastField
  <2>2. QED
    <3>1. <<NumFields + 1, "none">> = <<field[r], pc[r]>>
      BY <1>1, <1>2, <2>1
    <3>2. pc[r] = "none"
      BY <3>1
    <3>3. QED
      BY <3>2 DEF Collectives
<1>5. QED
  BY <1>3, <1>4

\* Every rank that waits in an MPI collective waits in the same one for the
\* same field, and none has left the call: GetRemoteData and CallFieldRma do
\* not mismatch or abandon a collective, whichever ranks fail.
THEOREM CollectivesAlwaysMatch == Spec => []CollectivesMatch
<1>1. QED
  BY TypeCorrect, LockstepHolds, LockstepMatches, PTL

-----------------------------------------------------------------------------
(***************************************************************************)
(* Verdict.                                                                *)
(***************************************************************************)
\* No vote has failed and nobody has returned at the start.
LEMMA VerdictInit == ASSUME Init PROVE Verdict
BY DEF Init, Verdict, FailureHasCulprit, ResultFollows

\* A rank that has not failed a vote is not leaving because of one, and after
\* a failed vote every rank is leaving.
LEMMA LeavingTogether ==
  ASSUME TypeOK, Lockstep, Verdict, NEW r \in Ranks, NEW q \in Ranks, pc[r] \notin Leaving
  PROVE  allStatus[q] = "ok"
<1>1. allStatus[r] # "failed"
  BY DEF Verdict, FailureHasCulprit
<1>2. allStatus[r] = allStatus[q]
  BY DEF Lockstep, SameVote
<1>3. QED
  BY <1>1, <1>2 DEF TypeOK, Outcome

\* Every step keeps the verdicts.
LEMMA VerdictNext == ASSUME TypeOK, Lockstep, Verdict, [Next]_vars PROVE Verdict'
<1> USE DEF args, At, Goto, AllAt, AllGoto, CheckAllStates, ExitFrom, AfterLoop,
            Leaving
<1>1. ASSUME NEW r \in Ranks, LocalStep(r) PROVE Verdict'
  <2>1. CASE \/ GetLocalFieldData(r) \/ PrepareData(r) \/ OpenEpoch(r)
             \/ FetchRemoteData(r) \/ FetchedAll(r)
    <3>1. /\ pc[r] \notin Leaving
          /\ pc'[r] \notin Leaving
          /\ \A q \in Ranks \ {r} : pc'[q] = pc[q] /\ status'[q] = status[q]
          /\ allStatus' = allStatus
          /\ result' = result
      BY <2>1 DEF TypeOK, GetLocalFieldData, PrepareData, OpenEpoch,
                     FetchRemoteData, FetchedAll
    <3>2. \A q \in Ranks : allStatus'[q] = "ok"
      BY <3>1, LeavingTogether
    <3>3. QED
      BY <3>1, <3>2 DEF Verdict, FailureHasCulprit, ResultFollows
  <2>2. CASE DetachBuffer(r) \/ CleanUp(r)
    <3>1. /\ pc'[r] \in Leaving \cup {"win_free"}
          /\ pc'[r] # "done" /\ pc[r] # "done"
          /\ \A q \in Ranks \ {r} : pc'[q] = pc[q]
          /\ status' = status
          /\ allStatus' = allStatus
          /\ result' = result
      BY <2>2 DEF TypeOK, DetachBuffer, CleanUp
    <3>2. QED
      BY <3>1 DEF Verdict, FailureHasCulprit, ResultFollows
  <2>3. CASE CallFieldRma(r) /\ ~Succeeded(r)
    <3>1. /\ pc[r] = "release" /\ pc'[r] = "done"
          /\ \A q \in Ranks \ {r} : pc'[q] = pc[q] /\ result'[q] = result[q]
          /\ status' = status
          /\ allStatus' = allStatus
          /\ result'[r] = IF status[r] = "failed" THEN "own_error" ELSE "other_error"
      BY <2>3 DEF CallFieldRma, TypeOK
    <3>2. allStatus[r] = "failed" /\ status[r] \in {"ok", "failed"}
      BY <2>3 DEF Succeeded, TypeOK, Outcome
    <3>3. FailureHasCulprit'
      BY <3>1 DEF Verdict, FailureHasCulprit
    <3>4. ResultFollows'
      BY <3>1, <3>2 DEF Verdict, ResultFollows
    <3>5. QED
      BY <3>3, <3>4 DEF Verdict
  <2>4. CASE CallFieldRma(r) /\ Succeeded(r)
    <3>1. /\ pc[r] = "release"
          /\ \A q \in Ranks \ {r} : pc'[q] = pc[q] /\ result'[q] = result[q]
          /\ status' = status
          /\ allStatus' = allStatus
          /\ \/ pc'[r] = "hub" /\ result'[r] = result[r]
             \/ pc'[r] = "done" /\ result'[r] = "success"
      BY <2>4 DEF CallFieldRma, TypeOK
    <3>2. allStatus[r] = "ok"
      BY <2>4 DEF Succeeded
    <3>3. FailureHasCulprit'
      BY <3>1, <3>2 DEF Verdict, FailureHasCulprit
    <3>4. ResultFollows'
      BY <3>1, <3>2 DEF Verdict, ResultFollows
    <3>5. QED
      BY <3>3, <3>4 DEF Verdict
  <2>5. QED
    BY <1>1, <2>1, <2>2, <2>3, <2>4 DEF LocalStep
<1>2. ASSUME Collective PROVE Verdict'
  <2>1. result' = result /\ \A q \in Ranks : pc[q] # "done" /\ pc'[q] # "done"
    BY <1>2 DEF Collective, CheckLocalData, InitializeMpiWindow, CheckWindow,
           CheckPrepare, GatherAllPreparedData, CheckGather, CloseEpoch,
           CheckFetch, FreeMpiWindow
  <2>2. ResultFollows'
    BY <2>1 DEF Verdict, ResultFollows
  <2>3. CASE \/ CheckLocalData \/ CheckWindow \/ CheckPrepare \/ CheckGather \/ CheckFetch
    <3>1. /\ \A q \in Ranks : allStatus'[q] = IF AllOk THEN "ok" ELSE "failed"
          /\ status' = status
          /\ AllOk \/ \A q \in Ranks : pc'[q] \in Leaving
      BY <2>3 DEF CheckLocalData, CheckWindow, CheckPrepare, CheckGather,
         CheckFetch
    <3>2. QED
      BY <2>2, <3>1 DEF Verdict, FailureHasCulprit, AllOk, TypeOK, Outcome
  <2>4. CASE \/ InitializeMpiWindow \/ GatherAllPreparedData \/ CloseEpoch
    <3>1. /\ \A q \in Ranks : pc[q] \notin Leaving
          /\ allStatus' = allStatus
      BY <2>4 DEF InitializeMpiWindow, GatherAllPreparedData, CloseEpoch
    <3>2. QED
      BY <2>2, <3>1 DEF Verdict, FailureHasCulprit
  <2>5. CASE FreeMpiWindow
    BY <2>2, <2>5 DEF FreeMpiWindow, Verdict, FailureHasCulprit
  <2>6. QED
    BY <1>2, <2>3, <2>4, <2>5 DEF Collective
<1>3. ASSUME UNCHANGED vars PROVE Verdict'
  BY <1>3 DEF vars, Verdict, FailureHasCulprit, ResultFollows
<1>4. QED
  BY <1>1, <1>2, <1>3 DEF Next, Finished

\* What the ranks return follows from the votes.
THEOREM VerdictHolds == Spec => []Verdict
<1>1. QED
  BY TypeCorrect, LockstepHolds, VerdictInit, VerdictNext, PTL DEF Spec

\* Two ranks that have returned agree on success, and "Error occurred in other
\* MPI process." is only said when another rank has failed.
LEMMA VerdictAgrees == ASSUME TypeOK, Lockstep, Verdict PROVE VerdictsAgree
<1> SUFFICES ASSUME NEW r \in Ranks, NEW q \in Ranks
             PROVE  /\ result[r] = "success" => result[q] \in {"running", "success"}
                    /\ result[r] = "other_error" =>
                         \E s \in Ranks \ {r} : /\ status[s] = "failed"
                                                /\ result[s] \in {"running", "own_error"}
  BY DEF VerdictsAgree
<1>1. ASSUME result[r] = "success" PROVE result[q] \in {"running", "success"}
  BY <1>1 DEF TypeOK, Results, Lockstep, SameVote, Verdict, ResultFollows
<1>2. ASSUME result[r] = "other_error"
      PROVE  \E s \in Ranks \ {r} : /\ status[s] = "failed"
                                    /\ result[s] \in {"running", "own_error"}
  <2>1. allStatus[r] = "failed" /\ status[r] = "ok"
    BY <1>2 DEF Verdict, ResultFollows
  <2>2. PICK s \in Ranks : status[s] = "failed"
    BY <2>1 DEF Verdict, FailureHasCulprit
  <2>3. allStatus[s] = "failed"
    BY <2>1 DEF Lockstep, SameVote
  <2>4. result[s] \in {"running", "own_error"}
    BY <2>2, <2>3 DEF TypeOK, Results, Verdict, ResultFollows
  <2>5. QED
    BY <2>1, <2>2, <2>4
<1>3. QED
  BY <1>1, <1>2

\* The ranks never disagree whether a call succeeded, and never blame another
\* rank when none has failed: CallFieldRma's verdict.
THEOREM VerdictsAlwaysAgree == Spec => []VerdictsAgree
<1>1. QED
  BY TypeCorrect, LockstepHolds, VerdictHolds, VerdictAgrees, PTL

-----------------------------------------------------------------------------
(***************************************************************************)
(* Exposure.                                                               *)
(***************************************************************************)
\* Nothing is exposed at the start.
LEMMA ExposureInit == ASSUME Init PROVE Exposure
BY DEF Init, Exposure, WindowHeld, BuffersAttached, GatheredIsCurrent,
       ReadsAreGathered, Windowed, Prepared, Gathered, Epoch

\* Ranks in lockstep are in the gathered part of the call together.
LEMMA GatheredTogether ==
  ASSUME TypeOK, Lockstep, NEW r \in Ranks, NEW q \in Ranks
  PROVE  /\ pc[r] \in Epoch => pc[q] \in Epoch
         /\ pc[r] \in Gathered => pc[q] \in Gathered
<1>1. NextCollective(r) = NextCollective(q)
  BY DEF Lockstep, SameCollective
<1>2. ASSUME NEW s \in Ranks
      PROVE  /\ pc[s] \in Epoch <=> NextCollective(s)[2] = "fence_close"
             /\ pc[s] = "check_gather" <=> NextCollective(s)[2] = "check_gather"
  BY DEF TypeOK, NextCollective, Upcoming, Epoch, Collectives, LocalSteps
<1>3. QED
  BY <1>1, <1>2 DEF Gathered

\* Every step keeps what is exposed exact.
LEMMA ExposureNext ==
  ASSUME TypeOK, TypeOK', Lockstep, Exposure, [Next]_vars
  PROVE  Exposure'
<1> USE DEF args, At, Goto, AllAt, AllGoto, CheckAllStates, ExitFrom, AfterLoop,
            Windowed, Prepared, Gathered, Epoch
<1>1. ASSUME NEW r \in Ranks, LocalStep(r) PROVE Exposure'
  <2>1. CASE GetLocalFieldData(r) \/ CallFieldRma(r)
    <3>1. /\ pc[r] \notin Windowed \cup {"check_window"}
          /\ pc'[r] \in {"check_hub", "hub", "done"}
          /\ \A q \in Ranks \ {r} : /\ pc'[q] = pc[q]
                                    /\ status'[q] = status[q]
                                    /\ hub'[q] = hub[q]
          /\ UNCHANGED <<window, attached, addressList, gathered, pending>>
      BY <2>1 DEF TypeOK, GetLocalFieldData, CallFieldRma
    <3>2. \A q \in Ranks : pc[q] \notin Gathered
      BY <3>1, GatheredTogether
    <3>3. WindowHeld'
      BY <3>1 DEF Exposure, WindowHeld
    <3>4. BuffersAttached'
      BY <3>1 DEF Exposure, BuffersAttached, Listed, Buffers
    <3>5. GatheredIsCurrent'
      BY <3>1, <3>2 DEF GatheredIsCurrent
    <3>6. ReadsAreGathered'
      BY <3>1, <3>2 DEF Exposure, ReadsAreGathered
    <3>7. QED
      BY <3>3, <3>4, <3>5, <3>6 DEF Exposure
  <2>2. CASE PrepareData(r)
    <3>1. /\ pc[r] = "prepare" /\ pc'[r] = "check_prepare"
          /\ status'[r] = "ok" =>
               attached'[r] = Buffers(r) /\ addressList'[r] = Listed(r)
          /\ \A q \in Ranks \ {r} : /\ pc'[q] = pc[q]
                                    /\ status'[q] = status[q]
                                    /\ attached'[q] = attached[q]
                                    /\ addressList'[q] = addressList[q]
          /\ UNCHANGED <<hub, window, gathered, pending>>
      BY <2>2 DEF TypeOK, PrepareData
    <3>2. WindowHeld'
      BY <3>1 DEF Exposure, WindowHeld
    <3>3. BuffersAttached'
      BY <3>1 DEF Exposure, BuffersAttached, Listed, Buffers
    <3>4. GatheredIsCurrent' /\ ReadsAreGathered'
      BY <3>1 DEF Exposure, GatheredIsCurrent, ReadsAreGathered
    <3>5. QED
      BY <3>2, <3>3, <3>4 DEF Exposure
  <2>3. CASE OpenEpoch(r) \/ FetchedAll(r)
    <3>1. /\ pc[r] \in {"fence_open", "fetch"} /\ pc'[r] \in {"fetch", "fence_close"}
          /\ \A q \in Ranks \ {r} : pc'[q] = pc[q] /\ status'[q] = status[q]
          /\ UNCHANGED <<hub, window, attached, addressList, gathered, pending>>
      BY <2>3 DEF TypeOK, OpenEpoch, FetchedAll
    <3>2. WindowHeld'
      BY <3>1 DEF Exposure, WindowHeld
    <3>3. BuffersAttached'
      BY <3>1 DEF Exposure, BuffersAttached, Listed, Buffers
    <3>4. GatheredIsCurrent' /\ ReadsAreGathered'
      BY <3>1 DEF Exposure, GatheredIsCurrent, ReadsAreGathered
    <3>5. QED
      BY <3>2, <3>3, <3>4 DEF Exposure
  <2>4. CASE FetchRemoteData(r)
    <3>1. /\ pc[r] = "fetch" /\ pc'[r] \in {"fetch", "fence_close"}
          /\ \A q \in Ranks \ {r} : /\ pc'[q] = pc[q]
                                    /\ status'[q] = status[q]
                                    /\ pending'[q] = pending[q]
          /\ UNCHANGED <<hub, window, attached, addressList, gathered>>
      BY <2>4 DEF TypeOK, FetchRemoteData
    <3>2. WindowHeld'
      BY <3>1 DEF Exposure, WindowHeld
    <3>3. BuffersAttached'
      BY <3>1 DEF Exposure, BuffersAttached, Listed, Buffers
    <3>4. GatheredIsCurrent'
      BY <3>1 DEF Exposure, GatheredIsCurrent
    <3>5. \A req \in pending'[r] \ pending[r] : gathered[r][req[2]][req[1]] = "buffer"
      BY <2>4 DEF TypeOK, FetchRemoteData
    <3>6. ReadsAreGathered'
      BY <3>1, <3>5 DEF Exposure, ReadsAreGathered
    <3>7. QED
      BY <3>2, <3>3, <3>4, <3>6 DEF Exposure
  <2>5. CASE DetachBuffer(r) \/ CleanUp(r)
    <3>1. /\ pc[r] \in {"detach", "cleanup"} /\ pc'[r] \in {"win_free", "release"}
          /\ \A q \in Ranks \ {r} : /\ pc'[q] = pc[q]
                                    /\ attached'[q] = attached[q]
                                    /\ gathered'[q] = gathered[q]
          /\ UNCHANGED <<hub, status, window, addressList, pending>>
      BY <2>5 DEF TypeOK, DetachBuffer, CleanUp
    <3>2. WindowHeld'
      BY <3>1 DEF Exposure, WindowHeld
    <3>3. BuffersAttached'
      BY <3>1 DEF Exposure, BuffersAttached, Listed, Buffers
    <3>4. GatheredIsCurrent' /\ ReadsAreGathered'
      BY <3>1 DEF Exposure, GatheredIsCurrent, ReadsAreGathered
    <3>5. QED
      BY <3>2, <3>3, <3>4 DEF Exposure
  <2>6. QED
    BY <1>1, <2>1, <2>2, <2>3, <2>4, <2>5 DEF LocalStep
<1>2. ASSUME Collective PROVE Exposure'
  <2>1. CASE CheckLocalData \/ CheckFetch \/ FreeMpiWindow
    <3>1. /\ \A q \in Ranks : pc[q] \notin {"fetch", "fence_close"}
          /\ \A q \in Ranks : pc'[q] \notin Windowed \cup {"check_window"}
          /\ UNCHANGED <<gathered, pending>>
      BY <2>1 DEF CheckLocalData, CheckFetch, FreeMpiWindow
    <3>2. QED
      BY <3>1 DEF Exposure, WindowHeld, BuffersAttached,
         GatheredIsCurrent, ReadsAreGathered
  <2>2. CASE InitializeMpiWindow
    BY <2>2 DEF InitializeMpiWindow, Exposure, WindowHeld, BuffersAttached,
       GatheredIsCurrent, ReadsAreGathered
  <2>3. CASE CheckWindow
    BY <2>3 DEF CheckWindow, AllOk, Exposure, WindowHeld, BuffersAttached,
       GatheredIsCurrent, ReadsAreGathered
  <2>4. CASE CheckPrepare
    BY <2>4 DEF CheckPrepare, AllOk, Exposure, WindowHeld, BuffersAttached,
       GatheredIsCurrent, ReadsAreGathered, Listed, Buffers
  <2>5. CASE GatherAllPreparedData
    <3>1. \A q \in Ranks : addressList[q] = Listed(q)
      BY <2>5 DEF GatherAllPreparedData, Exposure, BuffersAttached
    <3>2. \A q \in Ranks : \A i \in Ids : AddressOf(q, i) = hub[q][i]
      BY <3>1 DEF AddressOf, Listed
    <3>3. GatheredIsCurrent'
      BY <2>5, <3>2 DEF GatherAllPreparedData, GatheredIsCurrent
    <3>4. WindowHeld' /\ BuffersAttached' /\ ReadsAreGathered'
      BY <2>5 DEF GatherAllPreparedData, Exposure, WindowHeld,
         BuffersAttached, ReadsAreGathered, Listed, Buffers
    <3>5. QED
      BY <3>3, <3>4 DEF Exposure
  <2>6. CASE CheckGather
    BY <2>6 DEF CheckGather, Exposure, WindowHeld, BuffersAttached,
       GatheredIsCurrent, ReadsAreGathered, Listed, Buffers
  <2>7. CASE CloseEpoch
    BY <2>7 DEF CloseEpoch, Exposure, WindowHeld, BuffersAttached,
       GatheredIsCurrent, ReadsAreGathered
  <2>8. QED
    BY <1>2, <2>1, <2>2, <2>3, <2>4, <2>5, <2>6, <2>7 DEF Collective
<1>3. ASSUME UNCHANGED vars PROVE Exposure'
  BY <1>3 DEF vars, Exposure, WindowHeld, BuffersAttached, GatheredIsCurrent,
     ReadsAreGathered, Listed, Buffers
<1>4. QED
  BY <1>1, <1>2, <1>3 DEF Next, Finished

\* What the ranks expose to each other is exact.
THEOREM ExposureHolds == Spec => []Exposure
<1>1. QED
  BY TypeCorrect, LockstepHolds, ExposureInit, ExposureNext, PTL DEF Spec

\* A read that may still move bytes has a source.
LEMMA ExposedBuffersOutliveReads ==
  ASSUME TypeOK, Lockstep, Exposure PROVE BuffersOutliveReads
<1> SUFFICES ASSUME NEW r \in Ranks, NEW req \in pending[r]
             PROVE  /\ window[req[2]]
                    /\ req[1] \in attached[req[2]]
                    /\ hub[req[2]][req[1]] = "buffer"
  BY DEF BuffersOutliveReads
<1>1. req[1] \in Ids /\ req[2] \in Ranks
  BY RequestsAssumption DEF TypeOK
<1>2. pc[r] \in Epoch /\ gathered[r][req[2]][req[1]] = "buffer"
  BY DEF Exposure, ReadsAreGathered, Epoch
<1>3. pc[req[2]] \in Epoch
  BY <1>1, <1>2, GatheredTogether
<1>4. hub[req[2]][req[1]] = "buffer"
  BY <1>1, <1>2 DEF Exposure, GatheredIsCurrent, Gathered
<1>5. window[req[2]] /\ attached[req[2]] = Buffers(req[2])
  BY <1>1, <1>3 DEF Exposure, WindowHeld, BuffersAttached, Windowed, Prepared,
     Gathered
<1>6. QED
  BY <1>1, <1>4, <1>5 DEF Buffers

\* FetchRemoteData never reads from a buffer that its owner has detached or
\* freed, however the ranks interleave and whichever fail.
THEOREM BuffersAlwaysOutliveReads == Spec => []BuffersOutliveReads
<1>1. QED
  BY TypeCorrect, LockstepHolds, ExposureHolds, ExposedBuffersOutliveReads, PTL

-----------------------------------------------------------------------------
(***************************************************************************)
(* Complete.                                                               *)
(***************************************************************************)
\* Nothing has been fetched or handed out at the start.
LEMMA CompleteInit == ASSUME Init PROVE Complete
<1>1. \A r \in Ranks : (1..(field[r] - 1)) \X toFetch[r] = {}
  <2> SUFFICES ASSUME NEW r \in Ranks PROVE (1..(field[r] - 1)) \X toFetch[r] = {}
    OBVIOUS
  <2>1. field[r] = 1
    BY DEF Init
  <2>2. 1..(1 - 1) = {}
    OBVIOUS
  <2>3. QED
    BY <2>1, <2>2
<1>2. QED
  BY <1>1 DEF Init, Complete, FetchedSoFar, OutputSoFar, NotFetching, Leaving

\* Every step keeps the fetched data and the output in step with the requests.
LEMMA CompleteNext ==
  ASSUME TypeOK, TypeOK', Verdict, Verdict', Complete, [Next]_vars
  PROVE  Complete'
<1> USE DEF args, At, Goto, AllAt, AllGoto, CheckAllStates, ExitFrom, AfterLoop,
            NotFetching, Leaving
<1>1. ASSUME NEW r \in Ranks, LocalStep(r) PROVE Complete'
  <2>1. CASE GetLocalFieldData(r) \/ PrepareData(r)
    <3>1. /\ pc[r] \in {"hub", "prepare"}
          /\ pc'[r] \in {"check_hub", "check_prepare"}
          /\ pc[r] = "prepare" <=> pc'[r] = "check_prepare"
          /\ \A q \in Ranks \ {r} : pc'[q] = pc[q] /\ status'[q] = status[q]
          /\ UNCHANGED <<args, field, allStatus, todo, fetched, output, result>>
      BY <2>1 DEF TypeOK, GetLocalFieldData, PrepareData
    <3>2. FetchedSoFar'
      BY <3>1 DEF Complete, FetchedSoFar
    <3>3. OutputSoFar'
      BY <3>1 DEF Complete, OutputSoFar
    <3>4. QED
      BY <3>2, <3>3 DEF Complete
  <2>2. CASE OpenEpoch(r)
    <3>1. FetchedSoFar'
      BY <2>2 DEF OpenEpoch, TypeOK, Complete, FetchedSoFar
    <3>2. OutputSoFar'
      BY <2>2 DEF OpenEpoch, TypeOK, Complete, OutputSoFar
    <3>3. QED
      BY <3>1, <3>2 DEF Complete
  <2>3. CASE FetchRemoteData(r)
    <3>1. /\ pc[r] = "fetch"
          /\ \A q \in Ranks \ {r} : /\ pc'[q] = pc[q]
                                    /\ status'[q] = status[q]
                                    /\ todo'[q] = todo[q]
                                    /\ fetched'[q] = fetched[q]
          /\ UNCHANGED <<args, field, allStatus, output, result>>
      BY <2>3 DEF TypeOK, FetchRemoteData
    <3>2. \/ pc'[r] = "fence_close" /\ status'[r] = "failed"
          \/ /\ pc'[r] = "fetch"
             /\ \E req \in todo[r] : /\ todo'[r] = todo[r] \ {req}
                                     /\ fetched'[r] = fetched[r] \cup {req}
      <4>1. PICK req \in todo[r] :
              \/ /\ status' = [status EXCEPT ![r] = "failed"]
                 /\ pc' = [pc EXCEPT ![r] = "fence_close"]
              \/ /\ todo' = [todo EXCEPT ![r] = todo[r] \ {req}]
                 /\ fetched' = [fetched EXCEPT ![r] = fetched[r] \cup {req}]
                 /\ pc' = pc
        BY <2>3 DEF FetchRemoteData
      <4>2. CASE /\ status' = [status EXCEPT ![r] = "failed"]
                 /\ pc' = [pc EXCEPT ![r] = "fence_close"]
        BY <4>2 DEF TypeOK
      <4>3. CASE /\ todo' = [todo EXCEPT ![r] = todo[r] \ {req}]
                 /\ fetched' = [fetched EXCEPT ![r] = fetched[r] \cup {req}]
                 /\ pc' = pc
        <5>1. todo'[r] = todo[r] \ {req} /\ fetched'[r] = fetched[r] \cup {req}
          BY <4>3 DEF TypeOK
        <5>2. QED
          BY <3>1, <4>3, <5>1
      <4>4. QED
        BY <4>1, <4>2, <4>3
    <3>3. FetchedSoFar'
      BY <3>1, <3>2 DEF Complete, FetchedSoFar
    <3>4. OutputSoFar'
      BY <3>1, <3>2 DEF Complete, OutputSoFar
    <3>5. QED
      BY <3>3, <3>4 DEF Complete
  <2>4. CASE FetchedAll(r)
    <3>1. /\ pc[r] = "fetch" /\ pc'[r] = "fence_close" /\ todo[r] = {}
          /\ \A q \in Ranks \ {r} : pc'[q] = pc[q] /\ status'[q] = status[q]
          /\ UNCHANGED <<args, field, allStatus, todo, fetched, output, result>>
      BY <2>4 DEF FetchedAll, LoopDone, TypeOK
    <3>2. fetched[r] = toFetch[r]
      BY <3>1 DEF Complete, FetchedSoFar
    <3>3. FetchedSoFar'
      BY <3>1, <3>2 DEF Complete, FetchedSoFar
    <3>4. OutputSoFar'
      BY <3>1 DEF Complete, OutputSoFar
    <3>5. QED
      BY <3>3, <3>4 DEF Complete
  <2>5. CASE DetachBuffer(r) \/ CleanUp(r)
    <3>1. /\ pc[r] \in Leaving \ {"done"} /\ pc'[r] \in Leaving \ {"done"}
          /\ \A q \in Ranks \ {r} : pc'[q] = pc[q]
          /\ UNCHANGED <<args, field, status, allStatus, todo, fetched, output, result>>
      BY <2>5 DEF TypeOK, DetachBuffer, CleanUp
    <3>2. FetchedSoFar' /\ OutputSoFar'
      BY <3>1 DEF Complete, FetchedSoFar, OutputSoFar
    <3>3. QED
      BY <3>2 DEF Complete
  <2>6. CASE CallFieldRma(r)
    <3>1. /\ pc[r] = "release" /\ pc'[r] \in {"hub", "done"}
          /\ \A q \in Ranks \ {r} : /\ pc'[q] = pc[q]
                                    /\ field'[q] = field[q]
                                    /\ output'[q] = output[q]
                                    /\ result'[q] = result[q]
          /\ UNCHANGED <<args, status, allStatus, todo, fetched>>
      BY <2>6 DEF TypeOK, CallFieldRma
    <3>2. FetchedSoFar'
      BY <3>1 DEF Complete, FetchedSoFar
    <3>3. output[r] = (1..(field[r] - 1)) \X toFetch[r]
      BY <3>1 DEF Complete, OutputSoFar
    <3>4. CASE ~Succeeded(r)
      <4>1. pc'[r] = "done" /\ result'[r] # "success"
        BY <2>6, <3>4 DEF CallFieldRma, TypeOK
      <4>2. QED
        BY <3>1, <3>2, <4>1 DEF Complete, OutputSoFar
    <3>5. CASE Succeeded(r)
      <4>1. output'[r] = output[r] \cup ({field[r]} \X toFetch[r])
        <5>1. fetched[r] = toFetch[r]
          BY <3>1, <3>5 DEF Succeeded, Complete, FetchedSoFar
        <5>2. output'[r] = output[r] \cup ({field[r]} \X fetched[r])
          BY <2>6, <3>5 DEF CallFieldRma, TypeOK
        <5>3. QED
          BY <5>1, <5>2
      <4>2. field[r] \in 1..NumFields
        BY DEF TypeOK
      <4>3. output'[r] = (1..field[r]) \X toFetch[r]
        <5>1. 1..field[r] = (1..(field[r] - 1)) \cup {field[r]}
          BY <4>2, FieldsAssumption
        <5>2. QED
          BY <3>3, <4>1, <5>1
      <4>4. \/ pc'[r] = "hub" /\ field'[r] = field[r] + 1 /\ result'[r] = result[r]
            \/ pc'[r] = "done" /\ field[r] = NumFields
        <5>1. CASE MoreFields(r)
          BY <2>6, <3>5, <5>1 DEF CallFieldRma, TypeOK
        <5>2. CASE ~MoreFields(r)
          <6>1. field[r] = NumFields
            BY <4>2, <5>2, FieldsAssumption DEF MoreFields
          <6>2. QED
            BY <2>6, <3>5, <5>2, <6>1 DEF CallFieldRma, TypeOK
        <5>3. QED
          BY <5>1, <5>2
      <4>5. result[r] = "running"
        BY <3>1 DEF Verdict, ResultFollows
      <4>6. CASE pc'[r] = "hub" /\ field'[r] = field[r] + 1 /\ result'[r] = result[r]
        <5>1. field'[r] - 1 = field[r]
          BY <4>2, <4>6
        <5>2. OutputSoFar'
          BY <3>1, <4>3, <4>5, <4>6, <5>1 DEF Complete, OutputSoFar
        <5>3. QED
          BY <3>2, <5>2 DEF Complete
      <4>7. CASE pc'[r] = "done" /\ field[r] = NumFields
        <5>1. OutputSoFar'
          BY <3>1, <4>3, <4>7 DEF Complete, OutputSoFar
        <5>2. QED
          BY <3>2, <5>1 DEF Complete
      <4>8. QED
        BY <4>4, <4>6, <4>7
    <3>6. QED
      BY <3>4, <3>5
  <2>7. QED
    BY <1>1, <2>1, <2>2, <2>3, <2>4, <2>5, <2>6 DEF LocalStep
<1>2. ASSUME Collective PROVE Complete'
  <2>1. /\ UNCHANGED <<args, field, output, result>>
        /\ \A q \in Ranks : pc[q] # "done" /\ pc'[q] # "done"
    BY <1>2 DEF Collective, CheckLocalData, InitializeMpiWindow,
       CheckWindow, CheckPrepare, GatherAllPreparedData, CheckGather,
       CloseEpoch, CheckFetch, FreeMpiWindow
  <2>2. OutputSoFar'
    BY <2>1 DEF Complete, OutputSoFar
  <2>3. CASE CheckLocalData
    BY <2>2, <2>3 DEF CheckLocalData, Complete, FetchedSoFar
  <2>4. CASE InitializeMpiWindow \/ GatherAllPreparedData
    BY <2>2, <2>4 DEF InitializeMpiWindow, GatherAllPreparedData, Complete,
       FetchedSoFar
  <2>5. CASE CheckWindow \/ CheckPrepare \/ CheckGather
    BY <2>2, <2>5 DEF CheckWindow, CheckPrepare, CheckGather, Complete,
       FetchedSoFar
  <2>6. CASE CloseEpoch
    BY <2>2, <2>6 DEF CloseEpoch, Complete, FetchedSoFar
  <2>7. CASE CheckFetch
    BY <2>2, <2>7 DEF CheckFetch, AllOk, Complete, FetchedSoFar
  <2>8. CASE FreeMpiWindow
    BY <2>2, <2>8 DEF FreeMpiWindow, Complete, FetchedSoFar
  <2>9. QED
    BY <1>2, <2>3, <2>4, <2>5, <2>6, <2>7, <2>8 DEF Collective
<1>3. ASSUME UNCHANGED vars PROVE Complete'
  BY <1>3 DEF vars, Complete, FetchedSoFar, OutputSoFar
<1>4. QED
  BY <1>1, <1>2, <1>3 DEF Next, Finished

\* Fetched data and output follow the request lists.
THEOREM CompleteHolds == Spec => []Complete
<1>1. QED
  BY TypeCorrect, VerdictHolds, CompleteInit, CompleteNext, PTL DEF Spec

\* A successful rank has every request of every field, and no read in flight.
LEMMA CompleteOutput ==
  ASSUME Verdict, Exposure, Complete PROVE OutputComplete
<1> SUFFICES ASSUME NEW r \in Ranks, result[r] = "success"
             PROVE  /\ output[r] = (1..NumFields) \X toFetch[r]
                    /\ pending[r] = {}
  BY DEF OutputComplete
<1>1. output[r] = (1..NumFields) \X toFetch[r]
  BY DEF Complete, OutputSoFar
<1>2. pc[r] = "done"
  BY DEF Verdict, ResultFollows
<1>3. pending[r] = {}
  BY <1>2 DEF Exposure, ReadsAreGathered
<1>4. QED
  BY <1>1, <1>3

\* get_field_remote hands to Python everything that was asked for, fully read.
THEOREM OutputAlwaysComplete == Spec => []OutputComplete
<1>1. QED
  BY VerdictHolds, ExposureHolds, CompleteHolds, CompleteOutput, PTL

-----------------------------------------------------------------------------
(***************************************************************************)
(* Windows.                                                                *)
(***************************************************************************)
\* No rank holds a window at the start.
LEMMA WindowInit == ASSUME Init PROVE WindowLeftOver
BY DEF Init, WindowLeftOver

\* Every step keeps track of the windows that are left over.
LEMMA WindowNext ==
  ASSUME TypeOK, TypeOK', WindowLeftOver, [Next]_vars
  PROVE  WindowLeftOver'
<1> USE DEF args, At, Goto, AllAt, AllGoto, CheckAllStates, ExitFrom, AfterLoop
<1>1. ASSUME NEW r \in Ranks, LocalStep(r) PROVE WindowLeftOver'
  <2>1. CASE ~CallFieldRma(r)
    <3>1. /\ pc[r] \notin {"check_hub", "win_create", "check_window", "release", "done"}
          /\ pc'[r] \in {"hub", "check_hub"} => pc[r] = "hub"
          /\ pc'[r] \in {"cleanup", "release", "done"} => pc[r] = "cleanup"
          /\ pc'[r] \notin {"win_create", "check_window"}
          /\ \A q \in Ranks \ {r} : pc'[q] = pc[q] /\ status'[q] = status[q]
          /\ UNCHANGED <<step, allStatus, window>>
      BY <1>1, <2>1 DEF LocalStep, TypeOK, GetLocalFieldData, PrepareData,
         OpenEpoch, FetchRemoteData, FetchedAll, DetachBuffer, CleanUp
    <3>2. QED
      BY <3>1 DEF WindowLeftOver
  <2>2. CASE CallFieldRma(r)
    <3>1. /\ pc[r] = "release"
          /\ pc'[r] = "done" \/ (pc'[r] = "hub" /\ allStatus[r] = "ok")
          /\ \A q \in Ranks \ {r} : pc'[q] = pc[q]
          /\ UNCHANGED <<step, status, allStatus, window>>
      BY <2>2 DEF CallFieldRma, Succeeded, TypeOK
    <3>2. QED
      BY <3>1 DEF WindowLeftOver
  <2>3. QED
    BY <2>1, <2>2
<1>2. ASSUME Collective PROVE WindowLeftOver'
  <2>1. CASE CheckLocalData
    BY <2>1 DEF CheckLocalData, WindowLeftOver
  <2>2. CASE InitializeMpiWindow
    BY <2>2 DEF InitializeMpiWindow, WindowLeftOver
  <2>3. CASE CheckWindow
    BY <2>3 DEF CheckWindow, AllOk, TypeOK, Outcome, WindowLeftOver
  <2>4. CASE CheckPrepare \/ CheckGather \/ CheckFetch
    BY <2>4 DEF CheckPrepare, CheckGather, CheckFetch, WindowLeftOver
  <2>5. CASE GatherAllPreparedData \/ CloseEpoch \/ FreeMpiWindow
    BY <2>5 DEF GatherAllPreparedData, CloseEpoch, FreeMpiWindow, WindowLeftOver
  <2>6. QED
    BY <1>2, <2>1, <2>2, <2>3, <2>4, <2>5 DEF Collective
<1>3. ASSUME UNCHANGED vars PROVE WindowLeftOver'
  BY <1>3 DEF vars, WindowLeftOver
<1>4. QED
  BY <1>1, <1>2, <1>3 DEF Next, Finished

\* No rank leaves get_field_remote with a window, unless the collective that
\* frees it was made impossible by a creation that failed elsewhere.
THEOREM WindowsAlwaysReleased == Spec => []WindowsReleased
<1>1. ASSUME Verdict, WindowLeftOver PROVE WindowsReleased
  BY <1>1 DEF Verdict, ResultFollows, WindowLeftOver, WindowsReleased
<1>2. QED
  BY <1>1, TypeCorrect, VerdictHolds, WindowInit, WindowNext, PTL DEF Spec

-----------------------------------------------------------------------------
(***************************************************************************)
(* The safety part of the refinement of CollectiveCall.                    *)
(***************************************************************************)
\* Nothing has failed at the start, and nobody is leaving.
LEMMA PassedInit == ASSUME Init PROVE Passed
BY DEF Init, Passed, Leaving

\* Every step keeps track of what the ranks have passed.
LEMMA PassedNext == ASSUME TypeOK, Passed, [Next]_vars PROVE Passed'
<1> USE DEF args, At, Goto, AllAt, AllGoto, CheckAllStates, ExitFrom, AfterLoop,
            Leaving, Voting
<1>1. ASSUME NEW r \in Ranks, LocalStep(r) PROVE Passed'
  <2>1. CASE GetLocalFieldData(r) \/ PrepareData(r) \/ FetchRemoteData(r)
    <3>1. /\ pc[r] \in {"hub", "prepare", "fetch"}
          /\ \/ pc'[r] \in {"check_hub", "check_prepare", "fence_close"}
             \/ pc'[r] = pc[r] /\ status'[r] = status[r]
          /\ \A q \in Ranks \ {r} : pc'[q] = pc[q] /\ status'[q] = status[q]
          /\ UNCHANGED <<step, allStatus>>
      BY <2>1 DEF TypeOK, GetLocalFieldData, PrepareData, FetchRemoteData
    <3>2. QED
      BY <3>1 DEF Passed
  <2>2. CASE OpenEpoch(r) \/ FetchedAll(r)
    <3>1. /\ pc[r] \in {"fence_open", "fetch"}
          /\ pc'[r] \in {"fetch", "fence_close"}
          /\ status'[r] \in {status[r], "ok"}
          /\ \A q \in Ranks \ {r} : pc'[q] = pc[q] /\ status'[q] = status[q]
          /\ UNCHANGED <<step, allStatus>>
      BY <2>2 DEF TypeOK, OpenEpoch, FetchedAll
    <3>2. QED
      BY <3>1 DEF Passed
  <2>3. CASE DetachBuffer(r) \/ CleanUp(r) \/ CallFieldRma(r)
    <3>1. /\ pc[r] \in Leaving
          /\ pc'[r] \in Leaving \cup {"hub"}
          /\ \A q \in Ranks \ {r} : pc'[q] = pc[q]
          /\ UNCHANGED <<step, status, allStatus>>
      BY <2>3 DEF TypeOK, DetachBuffer, CleanUp, CallFieldRma
    <3>2. QED
      BY <3>1 DEF Passed
  <2>4. QED
    BY <1>1, <2>1, <2>2, <2>3 DEF LocalStep
<1>2. ASSUME Collective PROVE Passed'
  <2>1. CASE CheckLocalData \/ CheckWindow \/ CheckPrepare \/ CheckGather
    <3>1. /\ status' = status
          /\ \A q \in Ranks : /\ allStatus'[q] = IF AllOk THEN "ok" ELSE "failed"
                              /\ AllOk => pc'[q] \notin Leaving \cup Voting
      BY <2>1 DEF CheckLocalData, CheckWindow, CheckPrepare, CheckGather
    <3>2. QED
      BY <3>1 DEF Passed, AllOk
  <2>2. CASE CheckFetch
    BY <2>2 DEF CheckFetch, Passed, AllOk
  <2>3. CASE InitializeMpiWindow \/ CloseEpoch
    BY <2>3 DEF InitializeMpiWindow, CloseEpoch, Passed
  <2>4. CASE GatherAllPreparedData
    BY <2>4 DEF GatherAllPreparedData, Passed
  <2>5. CASE FreeMpiWindow
    BY <2>5 DEF FreeMpiWindow, Passed
  <2>6. QED
    BY <1>2, <2>1, <2>2, <2>3, <2>4, <2>5 DEF Collective
<1>3. ASSUME UNCHANGED vars PROVE Passed'
  BY <1>3 DEF vars, Passed
<1>4. QED
  BY <1>1, <1>2, <1>3 DEF Next, Finished

\* The ranks keep track of the steps they have passed.
THEOREM PassedHolds == Spec => []Passed
<1>1. QED
  BY TypeCorrect, PassedInit, PassedNext, PTL DEF Spec

\* The rank the number of settled fields is read off.
LEMMA ThereIsARank == (CHOOSE r \in Ranks : TRUE) \in Ranks
BY RanksAssumption

\* While a rank works on a field, the fields before it are settled for all.
LEMMA WorkingOnIt ==
  ASSUME TypeOK, Lockstep, Verdict, Passed, NEW r \in Ranks, pc[r] \notin Leaving
  PROVE  Settled = field[r] - 1 /\ Settled < NumFields /\ ~Aborted
<1> DEFINE p == CHOOSE q \in Ranks : TRUE
<1>1. p \in Ranks
  BY ThereIsARank
<1> HIDE DEF p
<1>2. \A q \in Ranks : allStatus[q] = "ok"
  BY LeavingTogether
<1>3. NextCollective(p) = NextCollective(r)
  BY <1>1 DEF Lockstep, SameCollective
<1>4. NextCollective(r) = <<field[r], Upcoming(pc[r])>>
  BY DEF NextCollective, Leaving
<1>5. Upcoming(pc[r]) # "win_free" /\ Upcoming(pc[r]) # "none"
  BY DEF Upcoming, Leaving, TypeOK, Collectives, LocalSteps
<1>6. field[r] \in 1..NumFields /\ field[p] \in 1..NumFields
  BY <1>1 DEF TypeOK
<1>7. FieldsSettled(p) = field[r] - 1
  <2>1. CASE pc[p] \notin Leaving
    <3>1. NextCollective(p) = <<field[p], Upcoming(pc[p])>>
      BY <2>1 DEF NextCollective, Leaving
    <3>2. field[p] = field[r]
      BY <1>3, <1>4, <3>1
    <3>3. QED
      BY <2>1, <3>2 DEF FieldsSettled, Leaving
  <2>2. CASE pc[p] \in {"detach", "win_free"}
    <3>1. NextCollective(p) = <<field[p], "win_free">>
      BY <2>2 DEF NextCollective, Upcoming
    <3>2. QED
      BY <1>3, <1>4, <1>5, <3>1
  <2>3. CASE pc[p] \in {"cleanup", "release", "done"}
    <3>1. step[p] = 4
      BY <1>1, <1>2, <2>3 DEF Passed, Leaving
    <3>2. FieldsSettled(p) = field[p]
      BY <1>1, <1>2, <2>3, <3>1 DEF FieldsSettled
    <3>3. NextCollective(p) = <<field[p] + 1, "check_hub">>
      <4>1. NextCollective(p) \in {<<field[p] + 1, "check_hub">>, <<NumFields + 1, "none">>}
        BY <2>3 DEF NextCollective
      <4>2. QED
        BY <1>3, <1>4, <1>5, <4>1
    <3>4. field[p] + 1 = field[r]
      BY <1>3, <1>4, <3>3
    <3>5. QED
      BY <1>6, <3>2, <3>4
  <2>4. QED
    BY <2>1, <2>2, <2>3 DEF Leaving
<1>8. Settled = field[r] - 1
  BY <1>7 DEF Settled, p
<1>9. ~Aborted
  BY <1>2 DEF Aborted
<1>10. QED
  BY <1>6, <1>8, <1>9, FieldsAssumption

\* A rank that leaves the call leaves it decided.
LEMMA LeavesDecided ==
  ASSUME TypeOK, Lockstep, Passed, NEW r \in Ranks,
         pc[r] = "release", allStatus[r] = "ok", field[r] = NumFields
  PROVE  Settled = NumFields /\ ~Aborted
<1> DEFINE p == CHOOSE q \in Ranks : TRUE
<1>1. p \in Ranks
  BY ThereIsARank
<1> HIDE DEF p
<1>2. \A q \in Ranks : allStatus[q] = "ok"
  BY DEF Lockstep, SameVote
<1>3. NextCollective(p) = NextCollective(r)
  BY <1>1 DEF Lockstep, SameCollective
<1>4. field[p] \in 1..NumFields
  BY <1>1 DEF TypeOK
<1>5. NextCollective(r) = <<NumFields + 1, "none">>
  <2>1. ~(field[r] < NumFields)
    BY FieldsAssumption
  <2>2. QED
    BY <2>1 DEF NextCollective
<1>6. pc[p] \in {"cleanup", "release", "done"}
  <2> SUFFICES ASSUME pc[p] \notin {"cleanup", "release", "done"} PROVE FALSE
    OBVIOUS
  <2>1. NextCollective(p) = <<field[p], Upcoming(pc[p])>>
    BY DEF NextCollective
  <2>2. field[p] = NumFields + 1
    BY <1>3, <1>5, <2>1
  <2>3. QED
    BY <1>4, <2>2, FieldsAssumption
<1>7. field[p] = NumFields
  <2> SUFFICES ASSUME field[p] < NumFields PROVE FALSE
    BY <1>4, FieldsAssumption
  <2>1. NextCollective(p) = <<field[p] + 1, "check_hub">>
    BY <1>1, <1>2, <1>6 DEF NextCollective
  <2>2. QED
    BY <1>3, <1>5, <2>1
<1>8. step[p] = 4
  BY <1>1, <1>2, <1>6 DEF Passed, Leaving
<1>9. FieldsSettled(p) = NumFields
  BY <1>1, <1>2, <1>6, <1>7, <1>8 DEF FieldsSettled
<1>10. QED
  BY <1>2, <1>9 DEF Settled, p, Aborted
\* A call starts as CollectiveCall does.
LEMMA PromiseInit == ASSUME Init PROVE Promise!Init
<1>1. Settled = 0
  BY ThereIsARank DEF Settled, FieldsSettled, Init
<1>2. Blamed = {} /\ ~Aborted
  BY DEF Init, Blamed, Aborted
<1>3. QED
  BY <1>1, <1>2 DEF Promise!Init, Init

\* A step that leaves the four variables of CollectiveCall alone.
LEMMA PromiseStutters ==
  ASSUME UNCHANGED <<Settled, Blamed, Aborted, result>>
  PROVE  [Promise!Next]_(Promise!abstractVars)
BY DEF Promise!abstractVars

\* A step in which nobody votes or leaves, and at most more ranks fail.
LEMMA PromiseFails ==
  ASSUME UNCHANGED <<Settled, Aborted, result>>,
         Settled < NumFields, ~Aborted,
         NEW S \in SUBSET Ranks, Blamed' = Blamed \cup S
  PROVE  [Promise!Next]_(Promise!abstractVars)
<1>1. CASE S = {}
  BY <1>1, PromiseStutters
<1>2. CASE S # {}
  <2>1. Promise!Fail(S)
    BY <1>2 DEF Promise!Fail
  <2>2. QED
    BY <2>1 DEF Promise!Next
<1>3. QED
  BY <1>1, <1>2

\* A local step of a rank at work: it fails or goes on.
LEMMA LocalKeepsPromise ==
  ASSUME TypeOK, Lockstep, Verdict, Passed, NEW r \in Ranks,
         pc[r] \notin Leaving, pc'[r] \notin Leaving,
         \A q \in Ranks \ {r} : pc'[q] = pc[q],
         UNCHANGED <<field, step, allStatus, result>>,
         \/ status' = status
         \/ status' = [status EXCEPT ![r] = "failed"]
         \/ status[r] = "ok" /\ status' = [status EXCEPT ![r] = "ok"]
  PROVE  [Promise!Next]_(Promise!abstractVars)
<1>1. Settled < NumFields /\ ~Aborted
  BY WorkingOnIt
<1>2. UNCHANGED <<Settled, Aborted, result>>
  BY ThereIsARank DEF Settled, FieldsSettled, Leaving, Aborted
<1>3. \E S \in {{}, {r}} : Blamed' = Blamed \cup S
  <2>1. CASE status' = status \/ (status[r] = "ok" /\ status' = [status EXCEPT ![r] = "ok"])
    BY <2>1 DEF Blamed, TypeOK
  <2>2. CASE status' = [status EXCEPT ![r] = "failed"]
    BY <2>2 DEF Blamed, TypeOK
  <2>3. QED
    BY <2>1, <2>2
<1>4. QED
  BY <1>1, <1>2, <1>3, PromiseFails

\* A rank that returns: with success if all fields are settled, otherwise with
\* its own error if it has failed.
LEMMA ReturnKeepsPromise ==
  ASSUME TypeOK, Lockstep, Verdict, Passed, NEW r \in Ranks, CallFieldRma(r)
  PROVE  [Promise!Next]_(Promise!abstractVars)
<1> USE DEF args, At, Goto, Leaving
<1>1. /\ pc[r] = "release"
      /\ \A q \in Ranks \ {r} : pc'[q] = pc[q] /\ field'[q] = field[q]
      /\ UNCHANGED <<step, status, allStatus>>
  BY DEF CallFieldRma, TypeOK
<1>2. UNCHANGED <<Blamed, Aborted>>
  BY <1>1 DEF Blamed, Aborted
<1>3. result[r] = "running"
  BY <1>1 DEF Verdict, ResultFollows
<1>4. CASE ~Succeeded(r)
  <2>1. allStatus[r] = "failed" /\ status[r] \in {"ok", "failed"}
    BY <1>4 DEF Succeeded, TypeOK, Outcome
  <2>2. Aborted
    BY <2>1 DEF Aborted
  <2>3. /\ result' = [result EXCEPT ![r] =
              IF status[r] = "failed" THEN "own_error" ELSE "other_error"]
        /\ pc'[r] = "done" /\ field' = field
    BY <1>4 DEF CallFieldRma, TypeOK
  <2>4. UNCHANGED Settled
    BY <1>1, <2>3, ThereIsARank DEF Settled, FieldsSettled
  <2>5. Promise!Verdict(r) = IF status[r] = "failed" THEN "own_error" ELSE "other_error"
    BY <2>2 DEF Promise!Verdict, Blamed
  <2>6. Promise!Return(r)
    BY <1>2, <1>3, <2>2, <2>3, <2>4, <2>5 DEF Promise!Return
  <2>7. QED
    BY <2>6 DEF Promise!Next
<1>5. CASE Succeeded(r) /\ ~MoreFields(r)
  <2>1. field[r] = NumFields
    <3>1. field[r] \in 1..NumFields
      BY DEF TypeOK
    <3>2. QED
      BY <1>5, <3>1, FieldsAssumption DEF MoreFields
  <2>2. Settled = NumFields /\ ~Aborted
    BY <1>1, <1>5, <2>1, LeavesDecided DEF Succeeded
  <2>3. /\ result' = [result EXCEPT ![r] = "success"]
        /\ pc'[r] = "done" /\ field' = field
    BY <1>5 DEF CallFieldRma, TypeOK
  <2>4. UNCHANGED Settled
    BY <1>1, <2>3, ThereIsARank DEF Settled, FieldsSettled
  <2>5. Promise!Verdict(r) = "success"
    BY <2>2 DEF Promise!Verdict
  <2>6. Promise!Return(r)
    BY <1>2, <1>3, <2>2, <2>3, <2>4, <2>5 DEF Promise!Return
  <2>7. QED
    BY <2>6 DEF Promise!Next
<1>6. CASE Succeeded(r) /\ MoreFields(r)
  <2>1. /\ result' = result
        /\ pc'[r] = "hub" /\ field'[r] = field[r] + 1
    BY <1>6 DEF CallFieldRma, TypeOK
  <2>2. allStatus[r] = "ok" /\ step[r] = 4
    BY <1>1, <1>6 DEF Succeeded, Passed
  <2>3. field[r] \in 1..NumFields
    BY DEF TypeOK
  <2>4. (field[r] + 1) - 1 = field[r]
    BY <2>3
  <2>5. FieldsSettled(r) = field[r]
    BY <1>1, <2>2 DEF FieldsSettled
  <2>6. FieldsSettled(r)' = field[r]
    BY <1>1, <2>1, <2>4 DEF FieldsSettled
  <2>7. \A q \in Ranks \ {r} : FieldsSettled(q)' = FieldsSettled(q)
    BY <1>1 DEF FieldsSettled
  <2>8. UNCHANGED Settled
    BY <2>5, <2>6, <2>7, ThereIsARank DEF Settled
  <2>9. QED
    BY <1>2, <2>1, <2>8, PromiseStutters
<1>7. QED
  BY <1>4, <1>5, <1>6

\* A collective: a vote decides for all ranks, the others at most fail on some.
LEMMA CollectiveKeepsPromise ==
  ASSUME TypeOK, Lockstep, Verdict, Passed, Collective PROVE [Promise!Next]_(Promise!abstractVars)
<1> DEFINE p == CHOOSE q \in Ranks : TRUE
<1>p. p \in Ranks
  BY ThereIsARank
<1>s. Settled = FieldsSettled(p) /\ Settled' = FieldsSettled(p)'
  BY DEF Settled
<1> HIDE DEF p
<1> USE DEF args, AllAt, AllGoto, CheckAllStates, ExitFrom, Leaving
<1>1. /\ result' = result
      /\ field' = field
  BY DEF Collective, CheckLocalData, InitializeMpiWindow, CheckWindow,
     CheckPrepare, GatherAllPreparedData, CheckGather, CloseEpoch, CheckFetch,
     FreeMpiWindow
<1>2. CASE CheckLocalData \/ CheckWindow \/ CheckPrepare \/ CheckGather
  <2>1. /\ status' = status
        /\ \A q \in Ranks : /\ allStatus'[q] = IF AllOk THEN "ok" ELSE "failed"
                            /\ pc[q] \notin Leaving
                            /\ AllOk => pc'[q] \notin Leaving
    BY <1>2 DEF CheckLocalData, CheckWindow, CheckPrepare, CheckGather
  <2>2. FieldsSettled(p)' = field[p] - 1 /\ FieldsSettled(p) = field[p] - 1
    BY <1>1, <1>p, <2>1 DEF FieldsSettled
  <2>3. UNCHANGED <<Settled, Blamed>>
    BY <1>s, <2>1, <2>2 DEF Blamed
  <2>4. ~Aborted
    BY <1>p, <2>1, WorkingOnIt
  <2>5. CASE AllOk
    <3>1. ~Aborted'
      BY <2>1, <2>5 DEF Aborted
    <3>2. QED
      BY <1>1, <2>3, <2>4, <3>1, PromiseStutters DEF Aborted
  <2>6. CASE ~AllOk
    <3>1. Aborted'
      BY <1>p, <2>1, <2>6 DEF Aborted
    <3>2. Blamed # {}
      BY <2>6 DEF AllOk, Blamed, TypeOK, Outcome
    <3>3. Promise!Abort
      BY <1>1, <2>3, <2>4, <3>1, <3>2 DEF Promise!Abort
    <3>4. QED
      BY <3>3 DEF Promise!Next
  <2>7. QED
    BY <2>5, <2>6
<1>3. CASE CheckFetch
  <2>1. /\ status' = status
        /\ \A q \in Ranks : /\ allStatus'[q] = IF AllOk THEN "ok" ELSE "failed"
                            /\ pc[q] = "check_fetch"
                            /\ pc'[q] = "detach"
                            /\ step'[q] = 4
    BY <1>3 DEF CheckFetch
  <2>2. UNCHANGED Blamed
    BY <2>1 DEF Blamed
  <2>3. Settled = field[p] - 1 /\ Settled < NumFields /\ ~Aborted
    BY <1>p, <2>1, WorkingOnIt
  <2>4. CASE AllOk
    <3>1. ~Aborted' /\ Blamed = {}
      BY <2>1, <2>4 DEF Aborted, Blamed, AllOk
    <3>2. Settled' = field[p]
      BY <1>1, <1>p, <1>s, <2>1, <2>4 DEF FieldsSettled
    <3>3. field[p] \in 1..NumFields
      BY <1>p DEF TypeOK
    <3>4. Settled' = Settled + 1
      BY <2>3, <3>2, <3>3
    <3>5. UNCHANGED Aborted
      BY <2>3, <3>1 DEF Aborted
    <3>6. Promise!Settle
      BY <1>1, <2>2, <2>3, <3>1, <3>4, <3>5 DEF Promise!Settle
    <3>7. QED
      BY <3>6 DEF Promise!Next
  <2>5. CASE ~AllOk
    <3>1. Aborted'
      BY <1>p, <2>1, <2>5 DEF Aborted
    <3>2. Blamed # {}
      BY <2>5 DEF AllOk, Blamed, TypeOK, Outcome
    <3>3. Settled' = field[p] - 1
      BY <1>1, <1>p, <1>s, <2>1, <2>5 DEF FieldsSettled
    <3>4. Promise!Abort
      BY <1>1, <2>2, <2>3, <3>1, <3>2, <3>3 DEF Promise!Abort
    <3>5. QED
      BY <3>4 DEF Promise!Next
  <2>6. QED
    BY <2>4, <2>5
<1>4. CASE InitializeMpiWindow \/ GatherAllPreparedData \/ CloseEpoch
  <2>1. /\ allStatus' = allStatus
        /\ step' = step
        /\ \A q \in Ranks : pc[q] \notin Leaving /\ pc'[q] \notin Leaving
    BY <1>4 DEF InitializeMpiWindow, GatherAllPreparedData, CloseEpoch
  <2>2. Settled < NumFields /\ ~Aborted
    BY <1>p, <2>1, WorkingOnIt
  <2>3. UNCHANGED Aborted
    BY <2>1 DEF Aborted
  <2>4. UNCHANGED Settled
    BY <1>1, <1>p, <1>s, <2>1 DEF FieldsSettled
  <2>5. \E S \in SUBSET Ranks : Blamed' = Blamed \cup S
    <3>1. CASE CloseEpoch
      BY <3>1 DEF CloseEpoch, Blamed
    <3>2. CASE InitializeMpiWindow \/ GatherAllPreparedData
      <4>1. \A q \in Ranks : pc[q] \in {"win_create", "gather"} /\ allStatus[q] = "ok"
        BY <2>1, <3>2, LeavingTogether DEF InitializeMpiWindow, GatherAllPreparedData
      <4>2. Blamed = {}
        BY <4>1 DEF Passed, Voting, Blamed
      <4>3. Blamed' \in SUBSET Ranks
        BY DEF Blamed
      <4>4. QED
        BY <4>2, <4>3
    <3>3. QED
      BY <1>4, <3>1, <3>2
  <2>6. QED
    BY <1>1, <2>2, <2>3, <2>4, <2>5, PromiseFails
<1>5. CASE FreeMpiWindow
  <2>1. /\ UNCHANGED <<status, allStatus, step>>
        /\ \A q \in Ranks : pc[q] = "win_free" /\ pc'[q] = "cleanup"
    BY <1>5 DEF FreeMpiWindow
  <2>2. UNCHANGED <<Blamed, Aborted>>
    BY <2>1 DEF Blamed, Aborted
  <2>3. UNCHANGED Settled
    BY <1>1, <1>p, <1>s, <2>1 DEF FieldsSettled
  <2>4. QED
    BY <1>1, <2>2, <2>3, PromiseStutters
<1>6. QED
  BY <1>2, <1>3, <1>4, <1>5 DEF Collective

\* Every step of a call is a step of CollectiveCall or changes nothing of it.
LEMMA PromiseNext ==
  ASSUME TypeOK, Lockstep, Verdict, Passed, [Next]_vars
  PROVE  [Promise!Next]_(Promise!abstractVars)
<1>1. ASSUME NEW r \in Ranks, LocalStep(r) PROVE [Promise!Next]_(Promise!abstractVars)
  <2> USE DEF args, At, Goto, AfterLoop, Leaving
  <2>1. CASE GetLocalFieldData(r) \/ PrepareData(r)
    <3>1. pc[r] \in {"hub", "prepare"}
      BY <2>1 DEF GetLocalFieldData, PrepareData
    <3>2. allStatus[r] = "ok" /\ status[r] = "ok"
      BY <3>1, LeavingTogether DEF Passed, Voting
    <3>3. \E o \in Outcome : status' = [status EXCEPT ![r] = o]
      BY <2>1 DEF GetLocalFieldData, PrepareData, Outcome
    <3>4. /\ pc'[r] \notin Leaving
          /\ \A q \in Ranks \ {r} : pc'[q] = pc[q]
          /\ UNCHANGED <<field, step, allStatus, result>>
      BY <2>1 DEF GetLocalFieldData, PrepareData, TypeOK
    <3>5. QED
      BY <3>1, <3>2, <3>3, <3>4, LocalKeepsPromise DEF Outcome
  <2>2. CASE OpenEpoch(r)
    <3>1. /\ pc[r] \notin Leaving /\ pc'[r] \notin Leaving
          /\ \A q \in Ranks \ {r} : pc'[q] = pc[q]
          /\ UNCHANGED <<field, step, status, allStatus, result>>
      BY <2>2 DEF OpenEpoch, TypeOK
    <3>2. QED
      BY <3>1, LocalKeepsPromise
  <2>3. CASE FetchRemoteData(r) \/ FetchedAll(r)
    <3>1. pc[r] = "fetch"
      BY <2>3 DEF FetchRemoteData, FetchedAll
    <3>2. allStatus[r] = "ok" /\ status[r] = "ok"
      BY <3>1, LeavingTogether DEF Passed, Voting
    <3>3. /\ pc'[r] \notin Leaving
          /\ \A q \in Ranks \ {r} : pc'[q] = pc[q]
          /\ UNCHANGED <<field, step, allStatus, result>>
          /\ \/ status' = status
             \/ \E o \in Outcome : status' = [status EXCEPT ![r] = o]
      BY <2>3 DEF FetchRemoteData, FetchedAll, TypeOK, Outcome
    <3>4. QED
      BY <3>1, <3>2, <3>3, LocalKeepsPromise DEF Outcome
  <2>4. CASE DetachBuffer(r) \/ CleanUp(r)
    <3>1. /\ pc[r] \in Leaving /\ pc'[r] \in Leaving
          /\ \A q \in Ranks \ {r} : pc'[q] = pc[q]
          /\ UNCHANGED <<field, step, status, allStatus, result>>
      BY <2>4 DEF DetachBuffer, CleanUp, TypeOK
    <3>2. UNCHANGED <<Blamed, Aborted>>
      BY <3>1 DEF Blamed, Aborted
    <3>3. \A q \in Ranks : FieldsSettled(q)' = FieldsSettled(q)
      BY <3>1 DEF FieldsSettled
    <3>4. UNCHANGED Settled
      BY <3>3, ThereIsARank DEF Settled
    <3>5. QED
      BY <3>1, <3>2, <3>4, PromiseStutters
  <2>5. CASE CallFieldRma(r)
    BY <2>5, ReturnKeepsPromise
  <2>6. QED
    BY <1>1, <2>1, <2>2, <2>3, <2>4, <2>5 DEF LocalStep
<1>2. ASSUME UNCHANGED vars PROVE [Promise!Next]_(Promise!abstractVars)
  <2>1. UNCHANGED <<Settled, Blamed, Aborted, result>>
    BY <1>2 DEF vars, Settled, FieldsSettled, Blamed, Aborted
  <2>2. QED
    BY <2>1, PromiseStutters
<1>3. QED
  BY <1>1, <1>2, CollectiveKeepsPromise DEF Next, Finished

\* The safety part of KeepsPromise: what get_field_remote does on the ranks is
\* what CollectiveCall allows.  Fields are settled for all ranks at once, a
\* failure ends the call for all, and each rank returns what the others allow.
THEOREM KeepsPromiseSafely == Spec => Promise!Safety
<1>1. Init => Promise!Init
  BY PromiseInit
<1>2. QED
  BY <1>1, TypeCorrect, LockstepHolds, VerdictHolds, PassedHolds, PromiseNext, PTL
     DEF Spec, Promise!Safety

-----------------------------------------------------------------------------
(***************************************************************************)
(* No deadlock.                                                            *)
(***************************************************************************)
\* The ranks of a call are never all waiting for each other: unless one can
\* go on by itself they are in the same collective, which then returns, or
\* have all left the call, for any number of ranks and whichever of them fail.
THEOREM CallNeverDeadlocks == Spec => []NeverStuck
<1>1. TypeOK /\ CollectivesMatch => NeverStuck
  <2> SUFFICES ASSUME TypeOK, CollectivesMatch PROVE NeverStuck
    OBVIOUS
  <2>1. CASE \A r \in Ranks : pc[r] = "done"
    BY <2>1 DEF NeverStuck
  <2>2. CASE \E r \in Ranks : pc[r] \notin Collectives \cup {"done"}
    <3>1. \A r \in Ranks : pc[r] \in Collectives \cup LocalSteps
      BY DEF TypeOK
    <3>2. QED
      BY <2>2, <3>1 DEF NeverStuck
  <2>3. ASSUME NEW first \in Ranks, pc[first] \in Collectives,
               \A r \in Ranks : pc[r] \in Collectives \cup {"done"}
        PROVE  NeverStuck
    <3>1. ASSUME NEW r \in Ranks PROVE pc[r] = pc[first]
      <4>1. /\ pc[r] # "done"
            /\ pc[r] \in Collectives => pc[r] = pc[first]
        BY <2>3 DEF CollectivesMatch
      <4>2. QED
        BY <2>3, <4>1
    <3>2. QED
      BY <2>3, <3>1 DEF NeverStuck
  <2>4. QED
    BY <2>1, <2>2, <2>3
<1> QED
  BY <1>1, TypeCorrect, CollectivesAlwaysMatch, PTL
=============================================================================
