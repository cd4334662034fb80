-------------------------- MODULE DataAccessProofs --------------------------
(***************************************************************************)
(* Proofs about DataAccess, for any grids, names, lists and size of the    *)
(* heap.                                                                   *)
(***************************************************************************)
EXTENDS DataAccessInvariants, FiniteSetTheorems, WellFoundedInduction, TLAPS

(***************************************************************************)
(* The heap                                                                *)
(***************************************************************************)

LEMMA FreshIsFree ==
  ASSUME ~Full
  PROVE  Fresh \in Blocks /\ heap[Fresh] = Free /\ Fresh \notin Live
<1>1. \E b \in Blocks : heap[b] = Free BY DEF Full, Live
<1> QED BY <1>1 DEF Fresh, Live

LEMMA InUseIsNotFree ==
  /\ Scratch # Free
  /\ \A name \in Names, gid \in Ids : <<name, gid>> # Free
BY DEF Scratch, Free

\* What Append returns.
LEMMA AppendElements ==
  ASSUME NEW S, NEW s \in Seq(S), NEW e \in S
  PROVE  /\ Append(s, e) \in Seq(S) /\ Len(Append(s, e)) = Len(s) + 1
         /\ \A i \in 1 .. Len(s) : Append(s, e)[i] = s[i]
         /\ Append(s, e)[Len(s) + 1] = e
         /\ DOMAIN s = 1 .. Len(s) /\ Len(s) \in Nat
         /\ DOMAIN Append(s, e) = 1 .. Len(s) + 1
OBVIOUS

\* The blocks of entries, member by member.
LEMMA BlocksMember ==
  ASSUME NEW s, NEW b
  PROVE  b \in BlocksOf(s) <=> b \in Blocks /\ \E i \in DOMAIN s : s[i].ptr = b
BY DEF BlocksOf

\* One entry more.
LEMMA AppendEntry ==
  ASSUME NEW s \in Seq(Entries), NEW e \in Entries, NEW t, t = Append(s, e)
  PROVE  /\ t \in Seq(Entries) /\ Len(t) = Len(s) + 1
         /\ \A i \in 1 .. Len(s) : t[i] = s[i]
         /\ t[Len(s) + 1] = e
         /\ DOMAIN s = 1 .. Len(s) /\ DOMAIN t = 1 .. Len(s) + 1 /\ Len(s) \in Nat
         /\ BlocksOf(t) = BlocksOf(s) \cup ({e.ptr} \cap Blocks)
         /\ Distinct(s) /\ e.ptr \notin BlocksOf(s) => Distinct(t)
<1>1. /\ t \in Seq(Entries) /\ Len(t) = Len(s) + 1
      /\ \A i \in 1 .. Len(s) : t[i] = s[i]
      /\ t[Len(s) + 1] = e
      /\ DOMAIN s = 1 .. Len(s) /\ DOMAIN t = 1 .. Len(s) + 1 /\ Len(s) \in Nat
  OBVIOUS
<1>2. BlocksOf(t) = BlocksOf(s) \cup ({e.ptr} \cap Blocks)
  <2>1. ASSUME NEW b \in BlocksOf(t) PROVE b \in BlocksOf(s) \cup ({e.ptr} \cap Blocks)
    <3>1. PICK i \in DOMAIN t : b = t[i].ptr /\ b \in Blocks BY DEF BlocksOf
    <3>2. CASE i = Len(s) + 1 BY <1>1, <3>1, <3>2
    <3>3. CASE i \in 1 .. Len(s) BY <1>1, <3>1, <3>3 DEF BlocksOf
    <3> QED BY <1>1, <3>1, <3>2, <3>3
  <2>2. ASSUME NEW b \in BlocksOf(s) PROVE b \in BlocksOf(t)
    <3>1. PICK i \in DOMAIN s : b = s[i].ptr /\ b \in Blocks BY DEF BlocksOf
    <3>2. i \in DOMAIN t /\ t[i] = s[i] BY <1>1, <3>1
    <3> QED BY <3>1, <3>2 DEF BlocksOf
  <2>3. ASSUME e.ptr \in Blocks PROVE e.ptr \in BlocksOf(t)
    <3>1. Len(s) + 1 \in DOMAIN t /\ t[Len(s) + 1] = e BY <1>1
    <3> QED BY <2>3, <3>1 DEF BlocksOf
  <2> QED BY <2>1, <2>2, <2>3
<1>3. ASSUME Distinct(s), e.ptr \notin BlocksOf(s) PROVE Distinct(t)
  <2> SUFFICES ASSUME NEW i \in DOMAIN t, NEW j \in DOMAIN t,
                      t[i].ptr = t[j].ptr, t[i].ptr \in Blocks
               PROVE  i = j
    BY DEF Distinct
  <2>1. \A k \in 1 .. Len(s) : t[k] = s[k] /\ (t[k].ptr \in Blocks => t[k].ptr \in BlocksOf(s))
    BY <1>1 DEF BlocksOf
  <2>2. i \in 1 .. Len(s) + 1 /\ j \in 1 .. Len(s) + 1 /\ t[Len(s) + 1] = e
    BY <1>1
  <2>3. CASE i \in 1 .. Len(s) /\ j \in 1 .. Len(s)
    BY <1>1, <1>3, <2>1, <2>3 DEF Distinct
  <2>4. CASE i = Len(s) + 1 /\ j \in 1 .. Len(s) BY <1>3, <2>1, <2>2, <2>4
  <2>5. CASE j = Len(s) + 1 /\ i \in 1 .. Len(s) BY <1>3, <2>1, <2>2, <2>5
  <2>6. CASE i = Len(s) + 1 /\ j = Len(s) + 1 BY <2>6
  <2> QED BY <1>1, <2>2, <2>3, <2>4, <2>5, <2>6
<1> QED BY <1>1, <1>2, <1>3

\* ClearCache, when every buffer has its mark: it frees all that is libyt's.
LEMMA ClearedIsAll ==
  ASSUME TypeOK, NEW marks \in Seq(BOOLEAN), Len(marks) = Len(list),
         \A i \in DOMAIN marks : marks[i] <=> list[i].ptr # SimPtr
  PROVE  Cleared(marks) \cap Blocks = BlocksOf(list)
<1>1. DOMAIN marks = DOMAIN list
  BY DEF TypeOK
<1>2. ASSUME NEW b \in Cleared(marks) \cap Blocks PROVE b \in BlocksOf(list)
  BY <1>1 DEF Cleared, BlocksOf
<1>3. ASSUME NEW b \in BlocksOf(list) PROVE b \in Cleared(marks) \cap Blocks
  <2>1. PICK i \in DOMAIN list : b = list[i].ptr /\ b \in Blocks BY DEF BlocksOf
  <2>2. list[i].ptr # SimPtr BY <2>1, SizesAssumption DEF Blocks, SimPtr
  <2>3. marks[i] BY <1>1, <2>1, <2>2
  <2> QED BY <1>1, <2>1, <2>3 DEF Cleared
<1> QED BY <1>2, <1>3

LEMMA FlaggedFits ==
  ASSUME Memory
  PROVE  /\ Flagged \in Seq(BOOLEAN) /\ Len(Flagged) = Len(list)
         /\ \A i \in DOMAIN Flagged : Flagged[i] <=> list[i].ptr # SimPtr
         /\ Cleared(Flagged) \cap Blocks = BlocksOf(list)
<1>1. /\ list \in Seq(Entries) /\ flags \in Seq(BOOLEAN) /\ FlagsAligned /\ NewAreOurs
      /\ TypeOK
  BY DEF Memory, TypeOK, Ownership
<1>2. DOMAIN list = 1 .. Len(list) /\ Len(list) \in Nat BY <1>1
<1>3. ASSUME NEW i \in DOMAIN list
      PROVE  (IF i \in DOMAIN flags THEN flags[i] ELSE TRUE) \in BOOLEAN
  <2>1. CASE i \in DOMAIN flags
    <3>1. flags[i] \in BOOLEAN BY <1>1, <2>1
    <3> QED BY <2>1, <3>1
  <2>2. CASE i \notin DOMAIN flags BY <2>2
  <2> QED BY <2>1, <2>2
<1>4. Flagged \in [1 .. Len(list) -> BOOLEAN] BY <1>2, <1>3 DEF Flagged
<1>5. Flagged \in Seq(BOOLEAN) /\ Len(Flagged) = Len(list) /\ DOMAIN Flagged = DOMAIN list
  BY <1>2, <1>4
<1>6. \A i \in DOMAIN Flagged : Flagged[i] <=> list[i].ptr # SimPtr
  BY <1>1, <1>5 DEF Flagged, FlagsAligned, NewAreOurs
<1> QED BY <1>1, <1>5, <1>6, ClearedIsAll

\* Nothing happens to a buffer.
LEMMA SameBuffers ==
  ASSUME UNCHANGED <<heap, list, flags, fetched, output, kept>>
  PROVE  /\ Ownership => Ownership'
         /\ NewAreOurs => NewAreOurs'
         /\ Lost' = Lost
BY DEF Ownership, NewAreOurs, Lost, Live, BlocksOf, OutputBlocks, Distinct, FlagsAligned

-----------------------------------------------------------------------------
(***************************************************************************)
(* The steps that leave the buffers alone                                  *)
(***************************************************************************)

LEMMA CommitMemory ==
  ASSUME Memory, NEW c, Commit(c)
  PROVE  Memory' /\ Lost' \subseteq Lost
<1>1. TypeOK' BY DEF Memory, Commit, TypeOK
<1>2. Stages' BY DEF Memory, Commit, Stages, LocalStage
<1> QED BY <1>1, <1>2, SameBuffers DEF Memory, Commit

LEMMA FreeIterationMemory ==
  ASSUME Memory, FreeIteration
  PROVE  Memory' /\ Lost' \subseteq Lost
<1>1. TypeOK' BY DEF Memory, FreeIteration, TypeOK
<1>2. Stages' BY DEF Memory, FreeIteration, Stages, LocalStage
<1> QED BY <1>1, <1>2, SameBuffers DEF Memory, FreeIteration

LEMMA CallLocalMemory ==
  ASSUME Memory, NEW op \in LocalCalls, NEW name \in Names, NEW gid \in Ids,
         CallLocal(op, name, gid)
  PROVE  Memory' /\ Lost' \subseteq Lost
<1>1. TypeOK'
  <2>1. Beginning(name) \in Statuses BY DEF Beginning, Statuses
  <2>2. <<gid>> \in Seq(Ids) OBVIOUS
  <2>3. call' \in [op : LocalCalls \cup RemoteCalls \cup {"none"},
                   name : Names \cup {"none"}, names : SUBSET Names,
                   left : 0 .. MaxNames, prepare : Seq(Ids), fetch : Seq(Ids),
                   status : Statuses]
    BY <2>1, <2>2, SizesAssumption DEF CallLocal
  <2>4. pc' \in {"generate", "generated"} BY DEF CallLocal, AfterLoop
  <2> QED BY <2>2, <2>3, <2>4 DEF Memory, CallLocal, TypeOK
<1>2. Stages'
  <2>1. /\ call'.op = op /\ call'.name = name /\ call'.names = {name}
        /\ call'.fetch = <<gid>> /\ call'.status = Beginning(name)
        /\ todo' = <<gid>> /\ pc' = AfterLoop(Beginning(name), <<gid>>)
        /\ op \in OfFields <=> name \in Fields
    BY DEF CallLocal
  <2>2. /\ list' = <<>> /\ flags' = <<>> /\ later' = <<>> /\ fetched' = <<>>
        /\ empty' = {} /\ output' = {}
    BY DEF CallLocal, Memory, Stages
  <2>3. Len(<<gid>>) = 1 /\ <<gid>> # <<>> OBVIOUS
  <2>4. /\ pc' \in {"generate", "generated"}
        /\ pc' = "generate" => call'.status = "success"
        /\ pc' = "generated" => call'.status # "success"
    BY <2>1, <2>3 DEF AfterLoop
  <2>5. LocalStage' BY <2>1, <2>2, <2>3, <2>4 DEF LocalStage
  <2> QED BY <2>1, <2>2, <2>3, <2>4, <2>5 DEF Stages, InCall, LocalCalls
<1> QED BY <1>1, <1>2, SameBuffers DEF Memory, CallLocal

LEMMA GenerateCrashesMemory ==
  ASSUME Memory, GenerateCrashes
  PROVE  Memory' /\ Lost' \subseteq Lost
<1>1. TypeOK' BY DEF Memory, GenerateCrashes, TypeOK
<1>2. Stages' BY DEF Memory, GenerateCrashes, Stages, LocalStage, InCall
<1> QED BY <1>1, <1>2, SameBuffers DEF Memory, GenerateCrashes

LEMMA CallRemoteMemory ==
  ASSUME Memory, NEW op \in RemoteCalls, NEW prepare \in PrepareLists,
         NEW fetch \in FetchLists, CallRemote(op, prepare, fetch)
  PROVE  Memory' /\ Lost' \subseteq Lost
<1>1. TypeOK'
  BY ListsAssumption, SizesAssumption DEF Memory, CallRemote, TypeOK, Statuses
<1>2. Stages' BY DEF Memory, CallRemote, Stages, LocalStage, InCall
<1> QED BY <1>1, <1>2, SameBuffers DEF Memory, CallRemote

LEMMA NextNameMemory ==
  ASSUME Memory, NEW name \in Names, NextName(name)
  PROVE  Memory' /\ Lost' \subseteq Lost
<1> DEFINE status == IF name \in Derived THEN Beginning(name)
                     ELSE IF name \in Known THEN "success" ELSE "failed"
<1>0. /\ TypeOK /\ call.left > 0
      /\ call' = [call EXCEPT !.name = name, !.names = @ \cup {name},
                             !.left = @ - 1, !.status = status]
  BY DEF Memory, NextName
<1>1. TypeOK'
  <2>1. status \in Statuses BY DEF Beginning, Statuses
  <2>2. call.left - 1 \in 0 .. MaxNames
    BY <1>0, SizesAssumption DEF TypeOK
  <2>3. call' \in [op : LocalCalls \cup RemoteCalls \cup {"none"},
                   name : Names \cup {"none"}, names : SUBSET Names,
                   left : 0 .. MaxNames, prepare : Seq(Ids), fetch : Seq(Ids),
                   status : Statuses]
    <3> HIDE DEF status
    <3> QED BY <1>0, <2>1, <2>2 DEF TypeOK
  <2>4. pc' \in {"look", "generate", "generated"} BY DEF NextName, AfterLoop
  <2>5. todo' \in Seq(Ids) BY <1>0 DEF NextName, TypeOK
  <2> QED BY <1>0, <2>3, <2>4, <2>5 DEF NextName, TypeOK
<1>2. Stages'
  BY DEF Memory, NextName, Stages, LocalStage, InCall, TypeOK, AfterLoop, LocalCalls,
         RemoteCalls
<1> QED BY <1>1, <1>2, SameBuffers DEF Memory, NextName

LEMMA LookFailsMemory ==
  ASSUME Memory, LookFails
  PROVE  Memory' /\ Lost' \subseteq Lost
<1>1. TypeOK' BY DEF Memory, LookFails, TypeOK, Statuses
<1>2. Stages'
  <2>1. /\ pc = "look" /\ pc' = "generated" /\ call.op \in RemoteCalls
        /\ call' = [call EXCEPT !.status = "failed"] /\ call.name \in Fields
        /\ UNCHANGED <<list, flags, todo, later, empty, fetched, output>>
    BY DEF Memory, LookFails, Stages
  <2>2. /\ call'.op = call.op /\ call'.name = call.name /\ call'.names = call.names
    BY <2>1 DEF Memory, TypeOK
  <2>3. call.op \notin LocalCalls /\ call.op # "none" /\ later = <<>>
    BY <2>1 DEF Memory, Stages, LocalCalls, RemoteCalls
  <2> QED BY <2>1, <2>2, <2>3 DEF Memory, Stages, InCall
<1> QED BY <1>1, <1>2, SameBuffers DEF Memory, LookFails

LEMMA LookPostponesMemory ==
  ASSUME Memory, LookPostpones
  PROVE  Memory' /\ Lost' \subseteq Lost
<1>1. TypeOK' BY DEF Memory, LookPostpones, TypeOK
<1>2. Stages' BY NamesAssumption DEF Memory, LookPostpones, Stages, LocalStage, InCall
<1> QED BY <1>1, <1>2, SameBuffers DEF Memory, LookPostpones

LEMMA LookSkipsMemory ==
  ASSUME Memory, LookSkips
  PROVE  Memory' /\ Lost' \subseteq Lost
<1>1. TypeOK' BY DEF Memory, LookSkips, TypeOK
<1>2. Stages' BY DEF Memory, LookSkips, Stages, LocalStage, InCall
<1> QED BY <1>1, <1>2, SameBuffers DEF Memory, LookSkips

LEMMA LookEndsMemory ==
  ASSUME Memory, LookEnds
  PROVE  Memory' /\ Lost' \subseteq Lost
<1>1. TypeOK' BY DEF Memory, LookEnds, TypeOK, AfterLoop
<1>2. Stages'
  BY DEF Memory, LookEnds, Stages, LocalStage, InCall, AfterLoop, LocalCalls, RemoteCalls
<1> QED BY <1>1, <1>2, SameBuffers DEF Memory, LookEnds

LEMMA SortFilledMemory ==
  ASSUME Memory, SortFilled
  PROVE  Memory' /\ Lost' \subseteq Lost
<1>1. TypeOK' BY DEF Memory, SortFilled, TypeOK
<1>2. Stages' BY DEF Memory, SortFilled, Stages, LocalStage, InCall
<1> QED BY <1>1, <1>2, SameBuffers DEF Memory, SortFilled

LEMMA SortEmptyMemory ==
  ASSUME Memory, SortEmpty
  PROVE  Memory' /\ Lost' \subseteq Lost
<1>1. TypeOK' BY DEF Memory, SortEmpty, TypeOK
<1>2. Stages' BY DEF Memory, SortEmpty, Stages, LocalStage, InCall
<1> QED BY <1>1, <1>2, SameBuffers DEF Memory, SortEmpty

LEMMA SortEndsMemory ==
  ASSUME Memory, SortEnds
  PROVE  Memory' /\ Lost' \subseteq Lost
<1>1. TypeOK' BY DEF Memory, SortEnds, TypeOK
<1>2. Stages' BY DEF Memory, SortEnds, Stages, LocalStage, InCall
<1> QED BY <1>1, <1>2, SameBuffers DEF Memory, SortEnds

LEMMA FetchAbortsMemory ==
  ASSUME Memory, FetchAborts
  PROVE  Memory' /\ Lost' \subseteq Lost
<1>1. TypeOK' BY DEF Memory, FetchAborts, TypeOK
<1>2. Stages' BY DEF Memory, FetchAborts, Stages, LocalStage, InCall
<1> QED BY <1>1, <1>2, SameBuffers DEF Memory, FetchAborts

LEMMA ReturnOutputMemory ==
  ASSUME Memory, ReturnOutput
  PROVE  Memory' /\ Lost' \subseteq Lost
<1>1. TypeOK' BY DEF Memory, ReturnOutput, TypeOK
<1>2. Stages'
  BY DEF Memory, ReturnOutput, Stages, LocalStage, InCall, RemoteCalls
<1> QED BY <1>1, <1>2, SameBuffers DEF Memory, ReturnOutput

LEMMA StutterMemory ==
  ASSUME Memory, UNCHANGED vars
  PROVE  Memory' /\ Lost' \subseteq Lost
<1>1. TypeOK' BY DEF Memory, vars, TypeOK
<1>2. Stages' BY DEF Memory, vars, Stages, LocalStage, InCall
<1> QED BY <1>1, <1>2, SameBuffers DEF Memory, vars

-----------------------------------------------------------------------------
(***************************************************************************)
(* The steps that allocate, hand on and free                               *)
(***************************************************************************)

LEMMA PrepareSucceedsMemory ==
  ASSUME Memory, PrepareSucceeds
  PROVE  Memory' /\ Lost' \subseteq Lost
<1>1. /\ pc = "generated" /\ call.op \in RemoteCalls /\ call.status = "success"
      /\ flags' = Flagged /\ todo' = call.fetch /\ pc' \in {"fetch", "sort"}
      /\ UNCHANGED <<pybind, store, heap, call, list, later, empty, fetched, output, kept>>
  BY DEF PrepareSucceeds
<1>2. /\ flags' \in Seq(BOOLEAN) /\ Len(flags') = Len(list)
      /\ \A i \in DOMAIN flags' : flags'[i] <=> list[i].ptr # SimPtr
  BY <1>1, FlaggedFits
<1>3. TypeOK'
  <2>1. TypeOK /\ call.fetch \in Seq(Ids) /\ Len(list) \in Nat BY DEF Memory, TypeOK
  <2> QED BY <1>1, <1>2, <2>1 DEF TypeOK
<1>4. Stages'
  <2>1. pc' = "sort" => call.name \in Particles
    BY <1>1 DEF PrepareSucceeds, Memory, Stages, InCall, Names
  <2> QED BY <1>1, <1>2, <2>1 DEF Memory, Stages, InCall, RemoteCalls, LocalCalls
<1>5. NewAreOurs'
  <2>1. DOMAIN flags' = DOMAIN list BY <1>2 DEF Memory, TypeOK
  <2> QED BY <1>1, <2>1 DEF NewAreOurs
<1>6. Ownership' /\ Lost' = Lost
  <2>1. FlagsAligned' BY <1>1, <1>2 DEF FlagsAligned
  <2> QED BY <1>1, <2>1
       DEF Memory, Ownership, Lost, Live, BlocksOf, OutputBlocks, Distinct
<1> QED BY <1>3, <1>4, <1>5, <1>6 DEF Memory

LEMMA LookFindsMemory ==
  ASSUME Memory, LookFinds
  PROVE  Memory' /\ Lost' \subseteq Lost
<1> DEFINE e == [id |-> Head(todo), ptr |-> SimPtr]
<1>1. /\ pc = "look" /\ todo # <<>> /\ list' = Append(list, e)
      /\ flags' = Append(flags, FALSE) /\ todo' = Tail(todo)
      /\ UNCHANGED <<pybind, store, heap, call, later, empty, fetched, output, kept, pc>>
  BY DEF LookFinds
<1>2. /\ TypeOK /\ list \in Seq(Entries) /\ flags \in Seq(BOOLEAN) /\ todo \in Seq(Ids)
      /\ Len(flags) = Len(list)
  BY <1>1 DEF Memory, TypeOK, Stages
<1>3. e \in Entries /\ e.ptr = SimPtr /\ SimPtr \notin Blocks
  BY <1>1, <1>2, SizesAssumption DEF Entries, Pointers, Blocks, SimPtr
<1> HIDE DEF e
<1>4. /\ list' \in Seq(Entries) /\ Len(list') = Len(list) + 1
      /\ BlocksOf(list') = BlocksOf(list) /\ Distinct(list')
      /\ DOMAIN list' = 1 .. Len(list) + 1 /\ Len(list) \in Nat
  <2>1. Distinct(list) /\ e.ptr \notin BlocksOf(list)
    BY <1>3 DEF Memory, Ownership, BlocksOf
  <2>2. list' = Append(list, e) /\ list \in Seq(Entries) /\ e \in Entries
    BY <1>1, <1>2, <1>3
  <2>3. /\ list' \in Seq(Entries) /\ Len(list') = Len(list) + 1
        /\ DOMAIN list' = 1 .. Len(list) + 1 /\ Len(list) \in Nat
        /\ BlocksOf(list') = BlocksOf(list) \cup ({e.ptr} \cap Blocks)
        /\ Distinct(list) /\ e.ptr \notin BlocksOf(list) => Distinct(list')
    BY <2>2, AppendEntry
  <2> QED BY <1>3, <2>1, <2>3
<1>5. /\ flags' \in Seq(BOOLEAN) /\ Len(flags') = Len(flags) + 1 /\ todo' \in Seq(Ids)
  BY <1>1, <1>2
<1>6. TypeOK' BY <1>1, <1>2, <1>4, <1>5 DEF TypeOK
<1>7. Stages' BY <1>1, <1>2, <1>4, <1>5 DEF Memory, Stages, InCall
<1>8. NewAreOurs'
  <2>1. DOMAIN flags' = DOMAIN list'
    <3>1. DOMAIN flags' = 1 .. Len(flags') BY <1>5
    <3> QED BY <1>2, <1>4, <1>5, <3>1
  <2> QED BY <2>1 DEF NewAreOurs
<1>9. FlagsAligned'
  <2>1. ASSUME NEW i \in DOMAIN flags' PROVE flags'[i] <=> list'[i].ptr # SimPtr
    <3>1. i \in 1 .. Len(flags) + 1 BY <1>5
    <3>2. CASE i \in 1 .. Len(flags)
      <4>1. list'[i] = list[i] BY <1>1, <1>2, <1>3, <3>2
      <4>2. flags'[i] = flags[i]
        <5>1. PICK no \in BOOLEAN : flags' = Append(flags, no) BY <1>1
        <5>0. flags \in Seq(BOOLEAN) BY <1>2
        <5>2. \A k \in 1 .. Len(flags) : Append(flags, no)[k] = flags[k]
          <6> DEFINE B == BOOLEAN
          <6>1. flags \in Seq(B) /\ no \in B BY <5>0
          <6> HIDE DEF B
          <6> QED BY <6>1, AppendElements
        <5> QED BY <5>1, <5>2, <3>2, Zenon
      <4> QED BY <1>2, <3>2, <4>1, <4>2 DEF Memory, Ownership, FlagsAligned
    <3>3. CASE i = Len(flags) + 1
      <4>1. flags'[i] = FALSE /\ list'[i] = e BY <1>1, <1>2, <3>3
      <4> QED BY <1>3, <4>1
    <3> QED BY <1>2, <3>1, <3>2, <3>3
  <2> QED BY <2>1 DEF FlagsAligned
<1>10. Ownership' /\ Lost' = Lost
  <2>1. Live' = Live /\ OutputBlocks' = OutputBlocks /\ BlocksOf(fetched)' = BlocksOf(fetched)
    BY <1>1 DEF Live, OutputBlocks, BlocksOf
  <2> QED BY <1>1, <1>4, <1>9, <2>1 DEF Memory, Ownership, Lost, Distinct
<1> QED BY <1>6, <1>7, <1>8, <1>10 DEF Memory

\* A block of the heap that was free is in use.
LEMMA AllocatedLive ==
  ASSUME TypeOK, ~Full, NEW v \in {Scratch} \cup (Names \X Ids),
         heap' = [heap EXCEPT ![Fresh] = v]
  PROVE  /\ Live' = Live \cup {Fresh}
         /\ heap' \in [Blocks -> {Free, Scratch} \cup (Names \X Ids)]
<1> DEFINE b == Fresh
<1>1. b \in Blocks BY FreshIsFree
<1>2. v # Free
  <2>1. CASE v = Scratch BY <2>1, InUseIsNotFree
  <2>2. CASE v \in Names \X Ids
    <3>1. PICK name \in Names, gid \in Ids : v = <<name, gid>> BY <2>2
    <3> QED BY <3>1, InUseIsNotFree
  <2> QED BY <2>1, <2>2
<1>3. heap \in [Blocks -> {Free, Scratch} \cup (Names \X Ids)] BY DEF TypeOK
<1>4. heap' = [heap EXCEPT ![b] = v] OBVIOUS
<1> HIDE DEF b
<1>5. heap' \in [Blocks -> {Free, Scratch} \cup (Names \X Ids)] BY <1>1, <1>3, <1>4
<1>6. \A c \in Blocks : heap'[c] = IF c = b THEN v ELSE heap[c] BY <1>1, <1>3, <1>4
<1>7. Live' = Live \cup {b} BY <1>1, <1>2, <1>6 DEF Live
<1> QED BY <1>5, <1>7 DEF b

\* One turn of the loop over the grids adds an entry, without a buffer or with
\* a new one.
LEMMA GenerateAdds ==
  ASSUME Memory, pc = "generate",
         NEW e \in Entries, e.id = Head(todo), e.ptr # SimPtr,
         list' = Append(list, e), todo' = Tail(todo),
         pc' = AfterLoop("success", Tail(todo)),
         UNCHANGED <<pybind, store, call, flags, later, empty, fetched, output, kept>>,
         heap' \in [Blocks -> {Free, Scratch} \cup (Names \X Ids)],
         \/ e.ptr = NullPtr /\ Live' = Live
         \/ e.ptr \in Blocks /\ e.ptr \notin Live /\ Live' = Live \cup {e.ptr}
  PROVE  Memory' /\ Lost' \subseteq Lost
<1>1. /\ TypeOK /\ list \in Seq(Entries) /\ flags \in Seq(BOOLEAN)
      /\ todo \in Seq(Ids) /\ todo # <<>> /\ Len(flags) <= Len(list) /\ Stages /\ Ownership
  BY DEF Memory, TypeOK, Stages
<1>2. NullPtr \notin Blocks BY SizesAssumption DEF Blocks, NullPtr
<1>3. BlocksOf(list) \subseteq Live /\ Distinct(list) BY <1>1 DEF Ownership
<1>4. e.ptr \notin BlocksOf(list) BY <1>2, <1>3 DEF BlocksOf
<1>5. /\ list' \in Seq(Entries) /\ Len(list') = Len(list) + 1
      /\ \A i \in 1 .. Len(list) : list'[i] = list[i]
      /\ list'[Len(list) + 1] = e
      /\ DOMAIN list = 1 .. Len(list) /\ DOMAIN list' = 1 .. Len(list) + 1 /\ Len(list) \in Nat
      /\ BlocksOf(list') = BlocksOf(list) \cup ({e.ptr} \cap Blocks)
      /\ Distinct(list) /\ e.ptr \notin BlocksOf(list) => Distinct(list')
  <2>1. list \in Seq(Entries) /\ e \in Entries /\ list' = Append(list, e) BY <1>1
  <2> QED BY <2>1, AppendEntry
<1>6. Tail(todo) \in Seq(Ids) BY <1>1
<1>7. /\ pc' \in {"generate", "generated"}
      /\ pc' = "generate" => Tail(todo) # <<>>
  BY DEF AfterLoop
<1>8. TypeOK'
  <2>1. flags' = flags /\ Len(flags) \in Nat BY <1>1
  <2>2. Len(flags') <= Len(list') BY <1>1, <1>5, <2>1
  <2>3. flags' \in Seq(BOOLEAN) BY <1>1, <2>1
  <2> QED BY <1>1, <1>5, <1>6, <1>7, <2>2, <2>3 DEF TypeOK
<1>9. Stages'
  <2>1. ASSUME call.op \in LocalCalls PROVE LocalStage'
    <3>1. /\ LocalStage /\ list = <<>> /\ todo = call.fetch /\ Len(call.fetch) = 1
      BY <1>1, <2>1 DEF Stages, LocalStage
    <3>2. Tail(todo) = <<>> /\ Head(todo) = call.fetch[1] BY <1>1, <3>1
    <3>3. Len(list) = 0 BY <3>1
    <3>4. pc' # "generate" BY <1>7, <3>2
    <3>5. Len(list') = 1 /\ list'[1] = e
      <4>1. Len(list) + 1 = 1 BY <3>3
      <4> QED BY <1>5, <4>1
    <3>6. call.status = "success" BY <1>1 DEF Stages
    <3>7. /\ flags' = flags /\ output' = output /\ call' = call OBVIOUS
    <3>8. call.fetch[1] = e.id BY <3>1, <3>2
    <3> HIDE DEF LocalStage
    <3>9. flags = <<>> /\ output = {} /\ call.names = {call.name} BY <3>1 DEF LocalStage
    <3> QED BY <3>1, <3>4, <3>5, <3>6, <3>7, <3>8, <3>9 DEF LocalStage
  <2> QED BY <1>1, <1>7, <2>1 DEF Stages, InCall
<1>10. NewAreOurs'
  <2> SUFFICES ASSUME NEW i \in DOMAIN list', i \notin DOMAIN flags' PROVE list'[i].ptr # SimPtr
    BY DEF NewAreOurs
  <2>1. CASE i = Len(list) + 1 BY <1>5, <2>1
  <2>2. CASE i \in 1 .. Len(list) BY <1>5, <2>2 DEF Memory, NewAreOurs
  <2> QED BY <1>5, <2>1, <2>2
<1>11. FlagsAligned'
  <2>1. \A i \in DOMAIN flags : i \in 1 .. Len(list) BY <1>1, <1>5
  <2> QED BY <1>1, <1>5, <2>1 DEF Ownership, FlagsAligned
<1>12. /\ OutputBlocks' = OutputBlocks /\ BlocksOf(fetched)' = BlocksOf(fetched)
       /\ Distinct(fetched)' = Distinct(fetched)
  BY DEF OutputBlocks, BlocksOf, Distinct
<1>13. Ownership'
  <2>1. Distinct(list') BY <1>3, <1>4, <1>5
  <2> QED BY <1>1, <1>2, <1>5, <1>11, <1>12, <2>1 DEF Ownership
<1>14. Lost' \subseteq Lost BY <1>2, <1>5, <1>12 DEF Lost
<1> QED BY <1>8, <1>9, <1>10, <1>13, <1>14 DEF Memory

LEMMA GenerateMemory ==
  ASSUME Memory, Generate
  PROVE  Memory' /\ Lost' \subseteq Lost
<1> DEFINE gid    == Head(todo)
           status == Generated(gid, call.name)
<1>0. /\ pc = "generate" /\ TypeOK /\ Stages /\ todo # <<>> /\ call.name \in Names
      /\ UNCHANGED <<pybind, store, flags, later, empty, fetched, output, kept>>
  BY DEF Generate, Memory, Stages, InCall
<1>1. gid \in Ids BY <1>0 DEF TypeOK
<1>2. status \in {"failed", "not_implemented", "nothing", "success"} BY DEF Generated
<1>3. CASE status \in {"failed", "not_implemented"}
  <2>1. /\ call' = [call EXCEPT !.status = status] /\ pc' = "generated"
        /\ UNCHANGED <<heap, list, todo>>
    BY <1>3 DEF Generate
  <2>2. status \in Statuses /\ status # "success" BY <1>3 DEF Statuses
  <2> HIDE DEF status
  <2>3. /\ call'.op = call.op /\ call'.name = call.name /\ call'.names = call.names
        /\ call'.fetch = call.fetch /\ call'.status = status
    BY <1>0, <2>1 DEF TypeOK
  <2>4. call' \in [op : LocalCalls \cup RemoteCalls \cup {"none"},
                   name : Names \cup {"none"}, names : SUBSET Names,
                   left : 0 .. MaxNames, prepare : Seq(Ids), fetch : Seq(Ids),
                   status : Statuses]
    BY <1>0, <2>1, <2>2 DEF TypeOK
  <2>5. TypeOK' BY <1>0, <2>1, <2>4 DEF TypeOK
  <2>6. Stages' BY <1>0, <2>1, <2>2, <2>3 DEF Stages, LocalStage, InCall
  <2> QED BY <1>0, <2>1, <2>5, <2>6, SameBuffers DEF Memory
<1>4. CASE status = "nothing"
  <2>1. PICK e : e = [id |-> gid, ptr |-> NullPtr] OBVIOUS
  <2>2. /\ heap' = heap /\ list' = Append(list, e) /\ todo' = Tail(todo)
        /\ pc' = AfterLoop("success", Tail(todo)) /\ UNCHANGED call
    BY <1>4, <2>1 DEF Generate
  <2>3. e \in Entries /\ e.id = Head(todo) /\ e.ptr = NullPtr /\ e.ptr # SimPtr
    BY <1>1, <2>1 DEF Entries, Pointers, NullPtr, SimPtr
  <2>4. Live' = Live BY <2>2 DEF Live
  <2>5. heap' \in [Blocks -> {Free, Scratch} \cup (Names \X Ids)] BY <1>0, <2>2 DEF TypeOK
  <2> HIDE DEF status, gid
  <2> QED BY <1>0, <2>2, <2>3, <2>4, <2>5, GenerateAdds
<1>5. CASE status = "success"
  <2>1. PICK e : e = [id |-> gid, ptr |-> Fresh] OBVIOUS
  <2>2. /\ ~Full /\ heap' = [heap EXCEPT ![Fresh] = <<call.name, gid>>]
        /\ list' = Append(list, e) /\ todo' = Tail(todo)
        /\ pc' = AfterLoop("success", Tail(todo)) /\ UNCHANGED call
    BY <1>5, <2>1 DEF Generate
  <2>3. Fresh \in Blocks /\ Fresh \notin Live BY <2>2, FreshIsFree
  <2>4. e \in Entries /\ e.id = Head(todo) /\ e.ptr = Fresh /\ e.ptr # SimPtr
    BY <1>1, <2>1, <2>3, SizesAssumption DEF Entries, Pointers, Blocks, SimPtr
  <2>5. /\ Live' = Live \cup {Fresh}
        /\ heap' \in [Blocks -> {Free, Scratch} \cup (Names \X Ids)]
    BY <1>0, <1>1, <2>2, AllocatedLive
  <2> HIDE DEF status, gid
  <2> QED BY <1>0, <2>2, <2>3, <2>4, <2>5, GenerateAdds
<1> QED BY <1>2, <1>3, <1>4, <1>5

\* A list, and a place of the call, at which libyt holds nothing but py_output.
LEMMA OnlyOutput ==
  ASSUME list' = <<>>, flags' = <<>>, fetched' = <<>>,
         OutputBlocks' \cup kept' \subseteq Live', OutputBlocks' \cap kept' = {},
         \A d, e \in output' : d.ptr = e.ptr /\ d.ptr \in Blocks => d = e
  PROVE  /\ Ownership' /\ NewAreOurs'
         /\ Lost' = Live' \ (OutputBlocks' \cup kept')
<1>1. DOMAIN list' = {} /\ DOMAIN flags' = {} /\ DOMAIN fetched' = {} OBVIOUS
<1>2. BlocksOf(list)' = {} /\ BlocksOf(fetched)' = {} BY <1>1 DEF BlocksOf
<1>3. Distinct(list)' /\ Distinct(fetched)' /\ FlagsAligned' /\ NewAreOurs'
  BY <1>1 DEF Distinct, FlagsAligned, NewAreOurs
<1> QED BY <1>2, <1>3 DEF Ownership, Lost

\* What Set and FreeAll do to the buffers in use.
LEMMA SetLive ==
  ASSUME NEW h \in [Blocks -> {Free, Scratch} \cup (Names \X Ids)],
         NEW S, heap' = Set(h, S, Scratch)
  PROVE  /\ Live' = {b \in Blocks : b \in S \/ h[b] # Free}
         /\ heap' \in [Blocks -> {Free, Scratch} \cup (Names \X Ids)]
BY InUseIsNotFree DEF Live, Set

LEMMA FreeAllLive ==
  ASSUME NEW h \in [Blocks -> {Free, Scratch} \cup (Names \X Ids)],
         NEW S, heap' = FreeAll(h, S)
  PROVE  /\ Live' = {b \in Blocks : b \notin S /\ h[b] # Free}
         /\ heap' \in [Blocks -> {Free, Scratch} \cup (Names \X Ids)]
BY DEF Live, Set, FreeAll

-----------------------------------------------------------------------------
(* Calls that fail *)

LEMMA EmptyLists ==
  /\ <<>> \in Seq(Entries) /\ <<>> \in Seq(BOOLEAN) /\ <<>> \in Seq(Ids)
  /\ Len(<<>>) <= Len(<<>>)
OBVIOUS

LEMMA RaiseMemory ==
  ASSUME Memory, NEW marks, Raise(marks), Cleared(marks) \cap Blocks = BlocksOf(list),
         call.op \in RemoteCalls, later = <<>>
  PROVE  /\ Memory'
         /\ pc' = "returned" /\ call'.op \in RemoteCalls /\ call'.status = "failed"
<1> DEFINE h == Set(heap, BlocksOf(fetched) \cup OutputBlocks, Scratch)
           S == Cleared(marks) \cup (IF pybind THEN OutputBlocks ELSE {})
<1>1. /\ heap' = FreeAll(h, S) /\ list' = <<>> /\ flags' = <<>>
      /\ fetched' = <<>> /\ output' = {} /\ empty' = {} /\ todo' = <<>>
      /\ call' = [call EXCEPT !.status = "failed"] /\ pc' = "returned"
      /\ UNCHANGED <<pybind, store, kept, later>>
  BY DEF Raise, DropList
<1>2. TypeOK /\ Stages /\ Ownership BY DEF Memory
<1>3. /\ h \in [Blocks -> {Free, Scratch} \cup (Names \X Ids)]
      /\ \A b \in Blocks : b \in Live => h[b] # Free
  BY <1>2, InUseIsNotFree DEF TypeOK, Set, Live
<1>4. S \cap kept = {}
  BY <1>2 DEF Ownership, TypeOK
<1> HIDE DEF h, S
<1>5. /\ Live' = {b \in Blocks : b \notin S /\ h[b] # Free}
      /\ heap' \in [Blocks -> {Free, Scratch} \cup (Names \X Ids)]
  BY <1>1, <1>3, FreeAllLive
<1>6. kept \subseteq Live' BY <1>2, <1>3, <1>4, <1>5 DEF Ownership, TypeOK
<1>7. OutputBlocks' = {} BY <1>1 DEF OutputBlocks
<1>8. Ownership' /\ NewAreOurs'
  BY <1>1, <1>6, <1>7, OnlyOutput
<1>9. /\ call'.op = call.op /\ call'.status = "failed" /\ call.op # "none"
      /\ call' \in [op : LocalCalls \cup RemoteCalls \cup {"none"},
                    name : Names \cup {"none"}, names : SUBSET Names,
                    left : 0 .. MaxNames, prepare : Seq(Ids), fetch : Seq(Ids),
                    status : Statuses]
  BY <1>1, <1>2 DEF TypeOK, Statuses, RemoteCalls
<1>10. TypeOK' BY <1>1, <1>2, <1>5, <1>9, EmptyLists DEF TypeOK
<1>11. Stages' BY <1>1, <1>9 DEF Stages, InCall
<1> QED BY <1>1, <1>8, <1>9, <1>10, <1>11 DEF Memory

LEMMA PrepareFailsMemory ==
  ASSUME Memory, PrepareFails
  PROVE  /\ Memory'
         /\ pc' = "returned" /\ call'.op \in RemoteCalls /\ call'.status = "failed"
<1>1. /\ Raise(Flagged) /\ call.op \in RemoteCalls /\ later = <<>>
  BY DEF PrepareFails, Memory, Stages
<1>2. Cleared(Flagged) \cap Blocks = BlocksOf(list) BY FlaggedFits
<1> QED BY <1>1, <1>2, RaiseMemory

LEMMA FlagsFit ==
  ASSUME Memory, Len(flags) = Len(list)
  PROVE  Cleared(flags) \cap Blocks = BlocksOf(list)
<1>1. TypeOK /\ flags \in Seq(BOOLEAN) /\ \A i \in DOMAIN flags : flags[i] <=> list[i].ptr # SimPtr
  BY DEF Memory, TypeOK, Ownership, FlagsAligned
<1> QED BY <1>1, ClearedIsAll

LEMMA FetchFailsMemory ==
  ASSUME Memory, FetchFails
  PROVE  /\ Memory'
         /\ pc' = "returned" /\ call'.op \in RemoteCalls /\ call'.status = "failed"
<1>1. /\ Raise(flags) /\ call.op \in RemoteCalls /\ later = <<>> /\ Len(flags) = Len(list)
  BY DEF FetchFails, Memory, Stages
<1>2. Cleared(flags) \cap Blocks = BlocksOf(list) BY <1>1, FlagsFit
<1> QED BY <1>1, <1>2, RaiseMemory

-----------------------------------------------------------------------------
(* The ways out of derived_func and get_particle *)

LEMMA ReturnsStages ==
  ASSUME Memory, pc = "generated", call.op \in LocalCalls,
         NEW outcome \in Statuses, Returns(outcome), DropList,
         heap' \in [Blocks -> {Free, Scratch} \cup (Names \X Ids)],
         output' \subseteq [id : Ids, name : Names, ptr : Pointers]
  PROVE  /\ TypeOK' /\ Stages'
         /\ list' = <<>> /\ flags' = <<>> /\ fetched' = <<>> /\ kept' = kept
         /\ call'.op = call.op /\ call'.name = call.name /\ call'.names = call.names
         /\ call'.fetch = call.fetch /\ call'.status = outcome
         /\ pc' = "returned" /\ store' = store /\ pybind' = pybind
<1>1. /\ call' = [call EXCEPT !.status = outcome] /\ todo' = <<>> /\ pc' = "returned"
      /\ UNCHANGED <<pybind, store, later, empty, fetched, kept>>
      /\ list' = <<>> /\ flags' = <<>>
  BY DEF Returns, DropList
<1>2. TypeOK /\ fetched = <<>> /\ empty = {} /\ later = <<>> /\ call.op # "none"
  BY DEF Memory, Stages
<1>3. /\ call'.op = call.op /\ call'.name = call.name /\ call'.names = call.names
      /\ call'.fetch = call.fetch /\ call'.status = outcome
      /\ call' \in [op : LocalCalls \cup RemoteCalls \cup {"none"},
                    name : Names \cup {"none"}, names : SUBSET Names,
                    left : 0 .. MaxNames, prepare : Seq(Ids), fetch : Seq(Ids),
                    status : Statuses]
  BY <1>1, <1>2 DEF TypeOK
<1>4. TypeOK' BY <1>1, <1>2, <1>3, EmptyLists DEF TypeOK
<1>5. Stages' BY <1>1, <1>2, <1>3 DEF Stages, InCall
<1> QED BY <1>1, <1>2, <1>3, <1>4, <1>5

LEMMA RaiseLocalMemory ==
  ASSUME Memory, RaiseLocal
  PROVE  Memory' /\ Lost' \subseteq Lost
<1>1. /\ pc = "generated" /\ call.op \in LocalCalls /\ call.status # "success"
      /\ call.status \in Statuses /\ TypeOK /\ Ownership
      /\ Returns(call.status) /\ DropList /\ output' = output
  BY DEF RaiseLocal, Memory, TypeOK
<1>2. list = <<>> /\ fetched = <<>> /\ output = {}
  BY <1>1 DEF Memory, Stages, LocalStage
<1>3. BlocksOf(list) = {} /\ BlocksOf(fetched) = {} /\ OutputBlocks = {} /\ OutputBlocks' = {}
  BY <1>1, <1>2 DEF BlocksOf, OutputBlocks
<1>4. heap' = heap
  <2>1. FreeAll(heap, {}) = heap
    BY <1>1 DEF TypeOK, FreeAll, Set
  <2> QED BY <1>3, <2>1 DEF RaiseLocal
<1>5. Live' = Live BY <1>4 DEF Live
<1>6. /\ TypeOK' /\ Stages' /\ list' = <<>> /\ flags' = <<>> /\ fetched' = <<>> /\ kept' = kept
  <2>1. heap' \in [Blocks -> {Free, Scratch} \cup (Names \X Ids)]
        /\ output' \subseteq [id : Ids, name : Names, ptr : Pointers]
    BY <1>1, <1>4 DEF TypeOK
  <2> QED BY <1>1, <2>1, ReturnsStages
<1>7. Ownership' /\ NewAreOurs' /\ Lost' = Live' \ (OutputBlocks' \cup kept')
  <2>1. kept' \subseteq Live' BY <1>1, <1>5, <1>6 DEF Ownership
  <2>2. output' = {} BY <1>1, <1>2
  <2> QED BY <1>3, <1>6, <2>1, <2>2, OnlyOutput
<1>8. Lost' = Lost BY <1>3, <1>5, <1>6, <1>7 DEF Lost
<1> QED BY <1>6, <1>7, <1>8 DEF Memory

\* When all went well there is one entry, and nothing else is held.
LEMMA OneEntry ==
  ASSUME Memory, pc = "generated", call.op \in LocalCalls, call.status = "success"
  PROVE  /\ list[1] \in Entries /\ DOMAIN list = {1}
         /\ list[1].id \in Ids /\ list[1].ptr \in Blocks \cup {NullPtr}
         /\ BlocksOf(list) = {list[1].ptr} \cap Blocks
         /\ BlocksOf(list) \subseteq Live /\ BlocksOf(list) \cap kept = {}
         /\ kept \subseteq Live
         /\ BlocksOf(fetched) = {} /\ OutputBlocks = {} /\ output = {}
         /\ call.name \in Names /\ NullPtr \notin Blocks
         /\ list[1].id = call.fetch[1] /\ Len(call.fetch) = 1 /\ call.names = {call.name}
<1>1. /\ TypeOK /\ Ownership /\ LocalStage /\ Len(list) = 1 /\ list[1].ptr # SimPtr
      /\ fetched = <<>> /\ output = {} /\ call.name \in Names /\ list \in Seq(Entries)
      /\ list[1].id = call.fetch[1] /\ Len(call.fetch) = 1 /\ call.names = {call.name}
  BY DEF Memory, Stages, LocalStage, TypeOK, InCall
<1>2. DOMAIN list = {1} /\ list[1] \in Entries BY <1>1
<1>3. BlocksOf(list) = {list[1].ptr} \cap Blocks BY <1>2 DEF BlocksOf
<1>4. BlocksOf(fetched) = {} /\ OutputBlocks = {} BY <1>1 DEF BlocksOf, OutputBlocks
<1>5. NullPtr \notin Blocks BY SizesAssumption DEF NullPtr, Blocks
<1>6. list[1].id \in Ids /\ list[1].ptr \in Blocks \cup {NullPtr}
  BY <1>1, <1>2 DEF Entries, Pointers
<1>7. /\ BlocksOf(list) \subseteq Live /\ BlocksOf(list) \cap kept = {}
      /\ kept \subseteq Live
  BY <1>1 DEF Ownership
<1> QED BY <1>1, <1>2, <1>3, <1>4, <1>5, <1>6, <1>7

\* One array is returned.
LEMMA OneArray ==
  ASSUME Memory, pc = "generated", call.op \in LocalCalls,
         Returns("success"), DropList,
         heap' \in [Blocks -> {Free, Scratch} \cup (Names \X Ids)],
         NEW p \in Pointers,
         output' = {[id |-> list[1].id, name |-> call.name, ptr |-> p]},
         list[1].id \in Ids, call.name \in Names,
         kept \cup ({p} \cap Blocks) \subseteq Live', p \notin kept
  PROVE  Memory' /\ Lost' = Live' \ (kept \cup {p})
<1> DEFINE o == [id |-> list[1].id, name |-> call.name, ptr |-> p]
<1>1. o \in [id : Ids, name : Names, ptr : Pointers] /\ o.ptr = p /\ output' = {o}
  OBVIOUS
<1> HIDE DEF o
<1>2. "success" \in Statuses BY DEF Statuses
<1>3. output' \subseteq [id : Ids, name : Names, ptr : Pointers] BY <1>1
<1>4. /\ TypeOK' /\ Stages' /\ list' = <<>> /\ flags' = <<>> /\ fetched' = <<>>
      /\ kept' = kept
  BY <1>2, <1>3, ReturnsStages
<1>5. OutputBlocks' = {p} \cap Blocks BY <1>1 DEF OutputBlocks
<1>6. \A d, e \in output' : d.ptr = e.ptr /\ d.ptr \in Blocks => d = e BY <1>1
<1>7. Ownership' /\ NewAreOurs' /\ Lost' = Live' \ (OutputBlocks' \cup kept')
  BY <1>4, <1>5, <1>6, OnlyOutput
<1>8. Live' \subseteq Blocks BY DEF Live
<1> QED BY <1>4, <1>5, <1>7, <1>8 DEF Memory

LEMMA ReturnNoneMemory ==
  ASSUME Memory, ReturnNone
  PROVE  Memory' /\ Lost' \subseteq Lost
<1>1. /\ pc = "generated" /\ call.op \in LocalCalls /\ call.status = "success"
      /\ list[1].ptr = NullPtr /\ heap' = heap
      /\ output' = {[id |-> list[1].id, name |-> call.name, ptr |-> NullPtr]}
      /\ DropList /\ Returns("success") /\ TypeOK
  BY DEF ReturnNone, Memory
<1>2. /\ list[1].id \in Ids /\ call.name \in Names /\ kept \subseteq Live
      /\ BlocksOf(list) = {list[1].ptr} \cap Blocks
      /\ BlocksOf(fetched) = {} /\ OutputBlocks = {} /\ NullPtr \notin Blocks
  BY <1>1, OneEntry
<1>3. Live' = Live /\ heap' \in [Blocks -> {Free, Scratch} \cup (Names \X Ids)]
  BY <1>1 DEF Live, TypeOK
<1>4. NullPtr \in Pointers /\ NullPtr \notin kept /\ {NullPtr} \cap Blocks = {}
  BY <1>1, <1>2 DEF Pointers, TypeOK
<1>5. Memory' /\ Lost' = Live' \ (kept \cup {NullPtr})
  BY <1>1, <1>2, <1>3, <1>4, OneArray
<1> QED BY <1>1, <1>2, <1>3, <1>5 DEF Lost

LEMMA HandOverMemory ==
  ASSUME Memory, HandOver
  PROVE  Memory' /\ Lost' \subseteq Lost
<1> DEFINE p == list[1].ptr
<1>1. /\ pc = "generated" /\ call.op \in LocalCalls /\ call.status = "success"
      /\ p # NullPtr /\ heap' = heap
      /\ output' = {[id |-> list[1].id, name |-> call.name, ptr |-> p]}
      /\ DropList /\ Returns("success") /\ TypeOK
  BY DEF HandOver, Memory
<1>2. /\ list[1].id \in Ids /\ call.name \in Names /\ kept \subseteq Live
      /\ p \in Blocks \cup {NullPtr} /\ BlocksOf(list) = {p} \cap Blocks
      /\ BlocksOf(list) \subseteq Live /\ BlocksOf(list) \cap kept = {}
      /\ BlocksOf(fetched) = {} /\ OutputBlocks = {}
  BY <1>1, OneEntry
<1> HIDE DEF p
<1>3. Live' = Live /\ heap' \in [Blocks -> {Free, Scratch} \cup (Names \X Ids)]
  BY <1>1 DEF Live, TypeOK
<1>4. p \in Blocks /\ p \in Pointers /\ p \notin kept /\ p \in Live
  BY <1>1, <1>2 DEF Pointers
<1>5. Memory' /\ Lost' = Live' \ (kept \cup {p})
  BY <1>1, <1>2, <1>3, <1>4, OneArray
<1> QED BY <1>2, <1>3, <1>4, <1>5 DEF Lost

LEMMA CopyOverMemory ==
  ASSUME Memory, CopyOver
  PROVE  Memory' /\ Lost' \subseteq Lost
<1> DEFINE p == list[1].ptr
           h == [heap EXCEPT ![Fresh] = heap[p]]
<1>1. /\ pc = "generated" /\ call.op \in LocalCalls /\ call.status = "success"
      /\ p # NullPtr /\ ~Full
      /\ heap' = FreeAll(h, BlocksOf(list))
      /\ output' = {[id |-> list[1].id, name |-> call.name, ptr |-> Fresh]}
      /\ DropList /\ Returns("success") /\ TypeOK
  BY DEF CopyOver, Memory
<1>2. /\ list[1].id \in Ids /\ call.name \in Names /\ kept \subseteq Live
      /\ p \in Blocks \cup {NullPtr} /\ BlocksOf(list) = {p} \cap Blocks
      /\ BlocksOf(list) \subseteq Live /\ BlocksOf(list) \cap kept = {}
      /\ BlocksOf(fetched) = {} /\ OutputBlocks = {}
  BY <1>1, OneEntry
<1>3. Fresh \in Blocks /\ Fresh \notin Live BY <1>1, FreshIsFree
<1>4. p \in Blocks /\ p \notin kept /\ p \in Live /\ BlocksOf(list) = {p} /\ p # Fresh
  BY <1>1, <1>2, <1>3
<1>5. heap[p] # Free BY <1>4 DEF Live
<1>6. /\ heap \in [Blocks -> {Free, Scratch} \cup (Names \X Ids)]
      /\ h \in [Blocks -> {Free, Scratch} \cup (Names \X Ids)]
      /\ \A b \in Blocks : h[b] = IF b = Fresh THEN heap[p] ELSE heap[b]
  BY <1>1, <1>3, <1>4 DEF TypeOK
<1> HIDE DEF p, h
<1>7. /\ Live' = {b \in Blocks : b \notin BlocksOf(list) /\ h[b] # Free}
      /\ heap' \in [Blocks -> {Free, Scratch} \cup (Names \X Ids)]
  BY <1>1, <1>6, FreeAllLive
<1>8. Live' = (Live \cup {Fresh}) \ {p} BY <1>3, <1>4, <1>5, <1>6, <1>7 DEF Live
<1>9. Fresh \in Pointers /\ Fresh \notin kept /\ kept \cup ({Fresh} \cap Blocks) \subseteq Live'
  BY <1>2, <1>3, <1>4, <1>8 DEF Pointers
<1>10. Memory' /\ Lost' = Live' \ (kept \cup {Fresh})
  BY <1>1, <1>2, <1>7, <1>9, OneArray
<1> QED BY <1>2, <1>4, <1>8, <1>10 DEF Lost

LEMMA CopyFailsMemory ==
  ASSUME Memory, CopyFails
  PROVE  Memory' /\ pc' = "returned" /\ call'.status = "no_memory"
<1>1. /\ pc = "generated" /\ call.op \in LocalCalls /\ call.status = "success"
      /\ heap' = Set(heap, BlocksOf(list), Scratch) /\ output' = output
      /\ DropList /\ Returns("no_memory") /\ TypeOK
  BY DEF CopyFails, Memory
<1>2. kept \subseteq Live /\ output = {} BY <1>1, OneEntry
<1>3. /\ Live' = {b \in Blocks : b \in BlocksOf(list) \/ heap[b] # Free}
      /\ heap' \in [Blocks -> {Free, Scratch} \cup (Names \X Ids)]
  BY <1>1, SetLive DEF TypeOK
<1>4. /\ TypeOK' /\ Stages' /\ list' = <<>> /\ flags' = <<>> /\ fetched' = <<>> /\ kept' = kept
      /\ call'.status = "no_memory" /\ pc' = "returned"
  <2>1. output' \subseteq [id : Ids, name : Names, ptr : Pointers]
    BY <1>1 DEF TypeOK
  <2>2. PICK outcome \in Statuses : outcome = "no_memory" BY DEF Statuses
  <2>3. Returns(outcome) BY <1>1, <2>2
  <2> QED BY <1>1, <1>3, <2>1, <2>2, <2>3, ReturnsStages
<1>5. kept \subseteq Live' BY <1>2, <1>3 DEF Live
<1>6. output' = {} /\ OutputBlocks' = {} BY <1>1, <1>2 DEF OutputBlocks
<1>7. Ownership' /\ NewAreOurs'
  BY <1>4, <1>5, <1>6, OnlyOutput
<1> QED BY <1>4, <1>7 DEF Memory

-----------------------------------------------------------------------------
(* Reading, and the dictionary that is returned *)

LEMMA FetchMemory ==
  ASSUME Memory, Fetch
  PROVE  Memory' /\ Lost' \subseteq Lost
<1> DEFINE e == [id |-> Head(todo), ptr |-> Fresh]
<1>1. /\ pc = "fetch" /\ todo # <<>> /\ ~Full
      /\ heap' = [heap EXCEPT ![Fresh] = <<call.name, Head(todo)>>]
      /\ fetched' = Append(fetched, e) /\ todo' = Tail(todo)
      /\ UNCHANGED <<pybind, store, call, list, flags, later, empty, output, kept, pc>>
      /\ TypeOK /\ Ownership /\ Stages
  BY DEF Fetch, Memory
<1>2. /\ Head(todo) \in Ids /\ Tail(todo) \in Seq(Ids) /\ call.name \in Names
      /\ fetched \in Seq(Entries)
  BY <1>1 DEF TypeOK, Stages, InCall
<1>3. Fresh \in Blocks /\ Fresh \notin Live BY <1>1, FreshIsFree
<1>4. e \in Entries /\ e.ptr = Fresh BY <1>2, <1>3 DEF Entries, Pointers
<1>5. /\ Live' = Live \cup {Fresh}
      /\ heap' \in [Blocks -> {Free, Scratch} \cup (Names \X Ids)]
  BY <1>1, <1>2, AllocatedLive
<1> HIDE DEF e
<1>6. e.ptr \notin BlocksOf(fetched) /\ Distinct(fetched)
  BY <1>1, <1>3, <1>4 DEF Ownership
<1>7. /\ fetched' \in Seq(Entries) /\ Distinct(fetched')
      /\ BlocksOf(fetched') = BlocksOf(fetched) \cup {Fresh}
  <2>1. fetched \in Seq(Entries) /\ e \in Entries /\ fetched' = Append(fetched, e)
    BY <1>1, <1>2, <1>4
  <2>2. /\ fetched' \in Seq(Entries)
        /\ BlocksOf(fetched') = BlocksOf(fetched) \cup ({e.ptr} \cap Blocks)
        /\ Distinct(fetched) /\ e.ptr \notin BlocksOf(fetched) => Distinct(fetched')
    BY <2>1, AppendEntry
  <2> QED BY <1>3, <1>4, <1>6, <2>2
<1>8. TypeOK' BY <1>1, <1>2, <1>5, <1>7 DEF TypeOK
<1>9. Stages' BY <1>1 DEF Stages, InCall
<1>10. /\ OutputBlocks' = OutputBlocks /\ BlocksOf(list)' = BlocksOf(list)
       /\ Distinct(list)' = Distinct(list) /\ FlagsAligned' = FlagsAligned
  BY <1>1 DEF OutputBlocks, BlocksOf, Distinct, FlagsAligned
<1>11. Ownership' BY <1>1, <1>3, <1>5, <1>7, <1>10 DEF Ownership
<1>12. NewAreOurs' BY <1>1 DEF Memory, NewAreOurs
<1>13. Lost' \subseteq Lost BY <1>1, <1>5, <1>7, <1>10 DEF Lost
<1> QED BY <1>8, <1>9, <1>11, <1>12, <1>13 DEF Memory

LEMMA KeepMemory ==
  ASSUME Memory, NEW S \in SUBSET OutputBlocks, Keep(S)
  PROVE  Memory' /\ Lost' \subseteq Lost
<1>1. /\ pc = "returned" /\ kept' = kept \cup S
      /\ heap' = Set(FreeAll(heap, OutputBlocks), S, Scratch)
      /\ output' = {} /\ call' = NoCall /\ pc' = "idle"
      /\ UNCHANGED <<pybind, store, list, flags, todo, later, empty, fetched>>
      /\ TypeOK /\ Stages /\ Ownership
  BY DEF Keep, Memory
<1>2. /\ list = <<>> /\ flags = <<>> /\ todo = <<>> /\ fetched = <<>> /\ empty = {} /\ later = <<>>
  BY <1>1 DEF Stages
<1>3. /\ FreeAll(heap, OutputBlocks) \in [Blocks -> {Free, Scratch} \cup (Names \X Ids)]
      /\ \A b \in Blocks : FreeAll(heap, OutputBlocks)[b] =
                             IF b \in OutputBlocks THEN Free ELSE heap[b]
  BY <1>1 DEF TypeOK, FreeAll, Set
<1>4. /\ Live' = {b \in Blocks : b \in S \/ FreeAll(heap, OutputBlocks)[b] # Free}
      /\ heap' \in [Blocks -> {Free, Scratch} \cup (Names \X Ids)]
  BY <1>1, <1>3, SetLive
<1>5. Live' = (Live \ OutputBlocks) \cup S
  BY <1>3, <1>4 DEF Live, OutputBlocks
<1>6. kept \subseteq Live /\ kept \cap OutputBlocks = {} /\ kept \subseteq Blocks
  BY <1>1 DEF Ownership, TypeOK
<1>7. OutputBlocks' = {} BY <1>1 DEF OutputBlocks
<1>8. S \subseteq Blocks BY DEF OutputBlocks
<1>9. Ownership' /\ NewAreOurs' /\ Lost' = Live' \ (OutputBlocks' \cup kept')
  BY <1>1, <1>2, <1>5, <1>6, <1>7, OnlyOutput
<1>10. BlocksOf(list) = {} /\ BlocksOf(fetched) = {} BY <1>2 DEF BlocksOf
<1>11. Lost' \subseteq Lost BY <1>1, <1>5, <1>6, <1>7, <1>9, <1>10 DEF Lost
<1>12. call' \in [op : LocalCalls \cup RemoteCalls \cup {"none"},
                  name : Names \cup {"none"}, names : SUBSET Names,
                  left : 0 .. MaxNames, prepare : Seq(Ids), fetch : Seq(Ids),
                  status : Statuses]
  BY <1>1, EmptyLists, SizesAssumption DEF NoCall, Statuses
<1>13. TypeOK' BY <1>1, <1>4, <1>6, <1>8, <1>12 DEF TypeOK
<1>14. Stages' BY <1>1, <1>2 DEF Stages, InCall
<1> QED BY <1>9, <1>11, <1>13, <1>14 DEF Memory

LEMMA DropMemory ==
  ASSUME Memory, NEW b \in kept, Drop(b)
  PROVE  Memory' /\ Lost' \subseteq Lost
<1>1. /\ pc = "idle" /\ kept' = kept \ {b} /\ heap' = FreeAll(heap, {b})
      /\ UNCHANGED <<pybind, store, call, list, flags, todo, later, empty, fetched, output, pc>>
      /\ TypeOK /\ Stages /\ Ownership
  BY DEF Drop, Memory
<1>2. list = <<>> /\ flags = <<>> /\ fetched = <<>> /\ output = {}
  BY <1>1 DEF Stages
<1>3. /\ Live' = {c \in Blocks : c \notin {b} /\ heap[c] # Free}
      /\ heap' \in [Blocks -> {Free, Scratch} \cup (Names \X Ids)]
  BY <1>1, FreeAllLive DEF TypeOK
<1>4. Live' = Live \ {b} BY <1>3 DEF Live
<1>5. OutputBlocks' = {} /\ OutputBlocks = {} BY <1>1, <1>2 DEF OutputBlocks
<1>6. kept \subseteq Live BY <1>1 DEF Ownership
<1>7. Ownership' /\ NewAreOurs' /\ Lost' = Live' \ (OutputBlocks' \cup kept')
  BY <1>1, <1>2, <1>4, <1>5, <1>6, OnlyOutput
<1>8. BlocksOf(list) = {} /\ BlocksOf(fetched) = {} BY <1>2 DEF BlocksOf
<1>9. Lost' \subseteq Lost BY <1>1, <1>4, <1>5, <1>7, <1>8 DEF Lost
<1>10. TypeOK' BY <1>1, <1>3 DEF TypeOK
<1>11. Stages' BY <1>1 DEF Stages, InCall, LocalStage
<1> QED BY <1>7, <1>9, <1>10, <1>11 DEF Memory

LEMMA InitMemory ==
  ASSUME Init
  PROVE  Memory /\ Lost = {}
<1>1. Live = {} BY DEF Init, Live
<1>2. DOMAIN list = {} /\ DOMAIN fetched = {} /\ DOMAIN flags = {} /\ output = {} /\ kept = {}
  BY DEF Init
<1>3. BlocksOf(list) = {} /\ BlocksOf(fetched) = {} /\ OutputBlocks = {}
  BY <1>2 DEF BlocksOf, OutputBlocks
<1>4. Ownership BY <1>1, <1>2, <1>3 DEF Ownership, Distinct, FlagsAligned
<1>5. NewAreOurs BY <1>2 DEF NewAreOurs
<1>6. TypeOK
  <2>1. NoCall \in [op : LocalCalls \cup RemoteCalls \cup {"none"},
                  name : Names \cup {"none"}, names : SUBSET Names,
                  left : 0 .. MaxNames, prepare : Seq(Ids), fetch : Seq(Ids),
                  status : Statuses]
    BY EmptyLists, SizesAssumption DEF NoCall, Statuses
  <2> QED BY <2>1, EmptyLists DEF Init, TypeOK
<1>7. Stages BY DEF Init, Stages, InCall
<1> QED BY <1>1, <1>4, <1>5, <1>6, <1>7 DEF Memory, Lost

\* A set of natural numbers has a least one; a bounded one has a greatest.
LEMMA LeastNat ==
  ASSUME NEW T \in SUBSET Nat, T # {}
  PROVE  \E x \in T : \A y \in T : x <= y
<1>1. IsWellFoundedOn(OpToRel(<, Nat), Nat) BY NatLessThanWellFounded
<1>2. PICK x \in T : \A y \in T : ~ (<<y, x>> \in OpToRel(<, Nat)) BY <1>1, WFMin
<1>3. \A y \in T : ~ (y < x) BY <1>2 DEF OpToRel
<1> QED BY <1>3

LEMMA GreatestNat ==
  ASSUME NEW n \in Nat, NEW T \in SUBSET (1 .. n), T # {}
  PROVE  \E x \in T : \A y \in T : y <= x
<1> DEFINE U == {m \in Nat : \A y \in T : y <= m}
<1>1. n \in U OBVIOUS
<1>2. U \in SUBSET Nat OBVIOUS
<1>3. \A m \in Nat : m \in U <=> \A y \in T : y <= m OBVIOUS
<1> HIDE DEF U
<1>4. PICK x \in U : \A y \in U : x <= y BY <1>1, <1>2, LeastNat
<1>5. x \in Nat /\ \A y \in T : y <= x BY <1>2, <1>3, <1>4
<1>6. x \in T
  <2> SUFFICES ASSUME x \notin T PROVE FALSE OBVIOUS
  <2>1. \A y \in T : y \in 1 .. n /\ y <= x /\ y # x BY <1>5
  <2>2. PICK z \in T : TRUE OBVIOUS
  <2>3. z \in Nat /\ 1 <= z /\ z <= x BY <2>1, <2>2
  <2>4. x - 1 \in Nat BY <1>5, <2>3
  <2>5. \A y \in T : y <= x - 1 BY <1>5, <2>1
  <2>6. x - 1 \in U BY <1>3, <2>4, <2>5
  <2> QED BY <1>4, <1>5, <2>6
<1> QED BY <1>5, <1>6

\* The entry of a grid that was read last.
Latest(gid) == CHOOSE i \in DOMAIN fetched :
                 /\ fetched[i].id = gid
                 /\ \A j \in DOMAIN fetched : fetched[j].id = gid => j <= i

LEMMA LatestIsThere ==
  ASSUME TypeOK, NEW gid \in {fetched[i].id : i \in DOMAIN fetched}
  PROVE  Latest(gid) \in DOMAIN fetched /\ fetched[Latest(gid)].id = gid
<1> DEFINE T == {i \in DOMAIN fetched : fetched[i].id = gid}
<1>1. DOMAIN fetched = 1 .. Len(fetched) /\ Len(fetched) \in Nat BY DEF TypeOK
<1>2. T \in SUBSET (1 .. Len(fetched)) /\ T # {} BY <1>1
<1>3. \A i : i \in T <=> i \in DOMAIN fetched /\ fetched[i].id = gid OBVIOUS
<1> HIDE DEF T
<1>4. PICK x \in T : \A y \in T : y <= x BY <1>1, <1>2, GreatestNat
<1>5. \E i \in DOMAIN fetched :
        /\ fetched[i].id = gid
        /\ \A j \in DOMAIN fetched : fetched[j].id = gid => j <= i
  BY <1>3, <1>4
<1> QED BY <1>5 DEF Latest

\* What Wrap puts into the dictionary, and what it leaves there.
Got   == {fetched[i].id : i \in DOMAIN fetched} \ empty
New   == {[id |-> gid, name |-> call.name, ptr |-> fetched[Latest(gid)].ptr] : gid \in Got}
         \cup {[id |-> gid, name |-> call.name, ptr |-> NullPtr] : gid \in empty}
Other == {e \in output : e.name # call.name \/ e.id \notin Got \cup empty}

LEMMA WrapSteps ==
  ASSUME Wrap
  PROVE  /\ pc = "fetch" /\ todo = <<>> /\ output' = Other \cup New
         /\ heap' = FreeAll(heap, ((OutputBlocks \cup BlocksOf(fetched))
                                     \ {e.ptr : e \in Other \cup New}) \cup Cleared(flags))
         /\ fetched' = <<>> /\ empty' = {} /\ list' = <<>> /\ flags' = <<>> /\ pc' = "name"
         /\ UNCHANGED <<pybind, store, call, todo, kept, later>>
BY DEF Wrap, Got, New, Other, Latest, DropList

\* The new entries, one by one.
LEMMA NewEntries ==
  ASSUME TypeOK, call.name \in Names
  PROVE  /\ \A e \in New :
              /\ e \in [id : Ids, name : Names, ptr : Pointers]
              /\ e.name = call.name
              /\ \/ /\ e.id \in Got
                    /\ Latest(e.id) \in DOMAIN fetched
                    /\ fetched[Latest(e.id)].id = e.id
                    /\ e.ptr = fetched[Latest(e.id)].ptr
                 \/ e.id \in empty /\ e.ptr = NullPtr
         /\ \A d, e \in New : d.id = e.id => d = e
         /\ {e.id : e \in New} = Got \cup empty
         /\ Got \cap empty = {}
<1>1. /\ \A i \in DOMAIN fetched : fetched[i].id \in Ids /\ fetched[i].ptr \in Pointers
      /\ empty \subseteq Ids /\ NullPtr \in Pointers
  <2>1. fetched \in Seq(Entries) BY DEF TypeOK
  <2>2. \A i \in DOMAIN fetched : fetched[i] \in Entries BY <2>1
  <2> QED BY <2>2 DEF TypeOK, Entries, Pointers
<1>2. \A gid \in Got : Latest(gid) \in DOMAIN fetched /\ fetched[Latest(gid)].id = gid
  BY LatestIsThere DEF Got
<1>3. ASSUME NEW e \in New
      PROVE  /\ e \in [id : Ids, name : Names, ptr : Pointers]
             /\ e.name = call.name
             /\ \/ /\ e.id \in Got
                   /\ e = [id |-> e.id, name |-> call.name, ptr |-> fetched[Latest(e.id)].ptr]
                \/ /\ e.id \in empty
                   /\ e = [id |-> e.id, name |-> call.name, ptr |-> NullPtr]
  <2>1. CASE \E gid \in Got :
               e = [id |-> gid, name |-> call.name, ptr |-> fetched[Latest(gid)].ptr]
    <3>1. PICK gid \in Got :
               e = [id |-> gid, name |-> call.name, ptr |-> fetched[Latest(gid)].ptr]
      BY <2>1
    <3>2. gid \in Ids /\ fetched[Latest(gid)].ptr \in Pointers BY <1>1, <1>2
    <3>3. e.id = gid /\ e.name = call.name BY <3>1
    <3>4. e \in [id : Ids, name : Names, ptr : Pointers] BY <3>1, <3>2
    <3> QED BY <3>1, <3>3, <3>4
  <2>2. CASE \E gid \in empty : e = [id |-> gid, name |-> call.name, ptr |-> NullPtr]
    BY <1>1, <2>2
  <2> QED BY <2>1, <2>2 DEF New
<1>4. Got \cap empty = {} BY DEF Got
<1>5. \A d, e \in New : d.id = e.id => d = e BY <1>3, <1>4
<1>6. {e.id : e \in New} = Got \cup empty
  <2>1. ASSUME NEW gid \in Got PROVE gid \in {e.id : e \in New}
    <3>1. PICK e : e = [id |-> gid, name |-> call.name, ptr |-> fetched[Latest(gid)].ptr] OBVIOUS
    <3>2. e \in New /\ e.id = gid BY <3>1 DEF New
    <3> QED BY <3>2
  <2>2. ASSUME NEW gid \in empty PROVE gid \in {e.id : e \in New}
    <3>1. PICK e : e = [id |-> gid, name |-> call.name, ptr |-> NullPtr] OBVIOUS
    <3>2. e \in New /\ e.id = gid BY <3>1 DEF New
    <3> QED BY <3>2
  <2>3. \A e \in New : e.id \in Got \cup empty BY <1>3
  <2> QED BY <2>1, <2>2, <2>3
<1>7. \A e \in New : e.id \in Got => e.ptr = fetched[Latest(e.id)].ptr
  BY <1>3, <1>4
<1>8. \A e \in New : e.id \in empty => e.ptr = NullPtr BY <1>3, <1>4
<1> QED BY <1>2, <1>3, <1>4, <1>5, <1>6, <1>7, <1>8

LEMMA WrapMemory ==
  ASSUME Memory, Wrap
  PROVE  Memory' /\ Lost' \subseteq Lost
<1> DEFINE dropped == (OutputBlocks \cup BlocksOf(fetched)) \ {e.ptr : e \in Other \cup New}
<1>1. /\ pc = "fetch" /\ todo = <<>> /\ output' = Other \cup New
      /\ heap' = FreeAll(heap, dropped \cup Cleared(flags))
      /\ fetched' = <<>> /\ empty' = {} /\ list' = <<>> /\ flags' = <<>> /\ pc' = "name"
      /\ UNCHANGED <<pybind, store, call, todo, kept, later>>
      /\ TypeOK /\ Stages /\ Ownership
  BY WrapSteps DEF Memory
<1>2. /\ call.name \in Names /\ later = <<>> /\ Len(flags) = Len(list)
      /\ call.op \in RemoteCalls /\ call.status = "success"
  BY <1>1 DEF Stages, InCall
<1>3. Cleared(flags) \cap Blocks = BlocksOf(list) BY <1>2, FlagsFit
<1>4. /\ \A e \in New :
           /\ e \in [id : Ids, name : Names, ptr : Pointers]
           /\ e.name = call.name
           /\ \/ /\ e.id \in Got
                 /\ Latest(e.id) \in DOMAIN fetched
                 /\ fetched[Latest(e.id)].id = e.id
                 /\ e.ptr = fetched[Latest(e.id)].ptr
              \/ e.id \in empty /\ e.ptr = NullPtr
      /\ \A d, e \in New : d.id = e.id => d = e
  BY <1>1, <1>2, NewEntries
<1>5. NullPtr \notin Blocks BY SizesAssumption DEF Blocks, NullPtr
<1>6. Other \subseteq output BY DEF Other
<1>7. \A e \in New : e.ptr \in Blocks =>
        /\ Latest(e.id) \in DOMAIN fetched /\ fetched[Latest(e.id)].id = e.id
        /\ e.ptr = fetched[Latest(e.id)].ptr /\ e.ptr \in BlocksOf(fetched)
  BY <1>4, <1>5 DEF BlocksOf
<1>8. \A d, e \in output' : d.ptr = e.ptr /\ d.ptr \in Blocks => d = e
  <2> SUFFICES ASSUME NEW d \in output', NEW e \in output', d.ptr = e.ptr, d.ptr \in Blocks
               PROVE  d = e
    OBVIOUS
  <2>1. CASE d \in Other /\ e \in Other BY <1>1, <1>6, <2>1 DEF Ownership
  <2>2. CASE d \in New /\ e \in New
    <3>1. Latest(d.id) = Latest(e.id)
      BY <1>1, <1>7, <2>2 DEF Ownership, Distinct
    <3>2. d.id = e.id BY <1>7, <2>2, <3>1
    <3> QED BY <1>4, <2>2, <3>2
  <2>3. ASSUME NEW o \in Other, NEW n \in New, o.ptr = n.ptr, o.ptr \in Blocks PROVE FALSE
    <3>1. o.ptr \in OutputBlocks /\ n.ptr \in BlocksOf(fetched)
      BY <1>6, <1>7, <2>3 DEF OutputBlocks
    <3> QED BY <1>1, <2>3, <3>1 DEF Ownership
  <2> QED BY <1>1, <2>1, <2>2, <2>3
<1>9. OutputBlocks' \subseteq OutputBlocks \cup BlocksOf(fetched)
  BY <1>1, <1>6, <1>7 DEF OutputBlocks
<1>10. dropped = (OutputBlocks \cup BlocksOf(fetched)) \ OutputBlocks'
  <2>1. OutputBlocks' = {e.ptr : e \in Other \cup New} \cap Blocks
    BY <1>1 DEF OutputBlocks
  <2>2. OutputBlocks \cup BlocksOf(fetched) \subseteq Blocks BY DEF OutputBlocks, BlocksOf
  <2> QED BY <2>1, <2>2
<1> HIDE DEF dropped
<1>11. /\ Live' = {b \in Blocks : b \notin dropped \cup Cleared(flags) /\ heap[b] # Free}
       /\ heap' \in [Blocks -> {Free, Scratch} \cup (Names \X Ids)]
  BY <1>1, FreeAllLive DEF TypeOK
<1>12. Live' = Live \ (dropped \cup BlocksOf(list))
  BY <1>3, <1>11 DEF Live
<1>13. OutputBlocks' \cup kept' \subseteq Live' /\ OutputBlocks' \cap kept' = {}
  BY <1>1, <1>9, <1>10, <1>12 DEF Ownership
<1>14. Ownership' /\ NewAreOurs' /\ Lost' = Live' \ (OutputBlocks' \cup kept')
  BY <1>1, <1>8, <1>13, OnlyOutput
<1>15. Lost' \subseteq Lost
  BY <1>1, <1>10, <1>12, <1>14 DEF Lost
<1>16. output' \subseteq [id : Ids, name : Names, ptr : Pointers]
  BY <1>1, <1>4, <1>6 DEF TypeOK
<1>17. TypeOK' BY <1>1, <1>11, <1>16, EmptyLists DEF TypeOK
<1>18. Stages' BY <1>1, <1>2 DEF Stages, InCall
<1> QED BY <1>14, <1>15, <1>17, <1>18 DEF Memory

-----------------------------------------------------------------------------
(***************************************************************************)
(* Every step                                                              *)
(***************************************************************************)

\* What LossNeedsFailure allows.
LossStep ==
  Lost' \subseteq Lost
    \/ (/\ pc' = "returned"
        /\ \/ call'.status = "no_memory"
           \/ call'.op \in RemoteCalls /\ call'.status = "failed")

LEMMA NextMemory ==
  ASSUME Memory, [Next]_vars
  PROVE  Memory' /\ LossStep
<1>1. CASE \E c \in Commits : Commit(c) BY <1>1, CommitMemory DEF LossStep
<1>2. CASE FreeIteration BY <1>2, FreeIterationMemory DEF LossStep
<1>3. CASE \E op \in LocalCalls, name \in Names, gid \in Ids : CallLocal(op, name, gid)
  BY <1>3, CallLocalMemory DEF LossStep
<1>4. CASE Generate BY <1>4, GenerateMemory DEF LossStep
<1>5. CASE GenerateCrashes BY <1>5, GenerateCrashesMemory DEF LossStep
<1>6. CASE RaiseLocal BY <1>6, RaiseLocalMemory DEF LossStep
<1>7. CASE ReturnNone BY <1>7, ReturnNoneMemory DEF LossStep
<1>8. CASE HandOver BY <1>8, HandOverMemory DEF LossStep
<1>9. CASE CopyOver BY <1>9, CopyOverMemory DEF LossStep
<1>10. CASE CopyFails BY <1>10, CopyFailsMemory DEF LossStep
<1>11. CASE \E op \in RemoteCalls :
              \E prepare \in PrepareLists, fetch \in FetchLists : CallRemote(op, prepare, fetch)
  BY <1>11, CallRemoteMemory DEF LossStep
<1>12. CASE \E name \in Names : NextName(name) BY <1>12, NextNameMemory DEF LossStep
<1>13. CASE LookFinds BY <1>13, LookFindsMemory DEF LossStep
<1>14. CASE LookFails BY <1>14, LookFailsMemory DEF LossStep
<1>15. CASE LookPostpones BY <1>15, LookPostponesMemory DEF LossStep
<1>16. CASE LookSkips BY <1>16, LookSkipsMemory DEF LossStep
<1>17. CASE LookEnds BY <1>17, LookEndsMemory DEF LossStep
<1>18. CASE PrepareFails BY <1>18, PrepareFailsMemory DEF LossStep
<1>19. CASE PrepareSucceeds BY <1>19, PrepareSucceedsMemory DEF LossStep
<1>20. CASE SortFilled BY <1>20, SortFilledMemory DEF LossStep
<1>21. CASE SortEmpty BY <1>21, SortEmptyMemory DEF LossStep
<1>22. CASE SortEnds BY <1>22, SortEndsMemory DEF LossStep
<1>23. CASE Fetch BY <1>23, FetchMemory DEF LossStep
<1>24. CASE FetchAborts BY <1>24, FetchAbortsMemory DEF LossStep
<1>25. CASE FetchFails BY <1>25, FetchFailsMemory DEF LossStep
<1>26. CASE Wrap BY <1>26, WrapMemory DEF LossStep
<1>27. CASE ReturnOutput BY <1>27, ReturnOutputMemory DEF LossStep
<1>28. CASE \E S \in SUBSET OutputBlocks : Keep(S) BY <1>28, KeepMemory DEF LossStep
<1>29. CASE \E b \in kept : Drop(b) BY <1>29, DropMemory DEF LossStep
<1>30. CASE Aborted \/ UNCHANGED vars BY <1>30, StutterMemory DEF LossStep, Aborted
<1> QED BY <1>1, <1>2, <1>3, <1>4, <1>5, <1>6, <1>7, <1>8, <1>9, <1>10, <1>11, <1>12,
          <1>13, <1>14, <1>15, <1>16, <1>17, <1>18, <1>19, <1>20, <1>21, <1>22, <1>23,
          <1>24, <1>25, <1>26, <1>27, <1>28, <1>29, <1>30 DEF Next

\* Every buffer that is held is live, and has one holder.
THEOREM MemoryHolds == Spec => []Memory
<1>1. Init => Memory BY InitMemory
<1>2. Memory /\ [Next]_vars => Memory' BY NextMemory
<1> QED BY <1>1, <1>2, PTL DEF Spec

THEOREM TypeHolds == Spec => []TypeOK
<1>1. Memory => TypeOK BY DEF Memory
<1> QED BY <1>1, MemoryHolds, PTL

\* ClearCache, the loops that free storage and NumPy free each buffer once,
\* and none of the simulation's.
THEOREM BuffersAreOwned == Spec => []Ownership
<1>1. Memory => Ownership BY DEF Memory
<1> QED BY <1>1, MemoryHolds, PTL

\* Only a failing remote read and a failing copy leave a buffer behind.
THEOREM BuffersAreNotLost == Spec => LossNeedsFailure
<1>1. Memory /\ [Next]_vars =>
        [Lost' \subseteq Lost
          \/ (/\ pc' = "returned"
              /\ \/ call'.status = "no_memory"
                 \/ call'.op \in RemoteCalls /\ call'.status = "failed")]_vars
  BY NextMemory DEF LossStep
<1> QED BY <1>1, MemoryHolds, PTL DEF Spec, LossNeedsFailure

-----------------------------------------------------------------------------
(***************************************************************************)
(* What is committed, and what the accessors answer                        *)
(***************************************************************************)

LEMMA InitStoreFits ==
  ASSUME Init
  PROVE  StoreFits
<1>1. store = EmptyStore /\ DOMAIN store.hier = {} BY DEF Init, EmptyStore
<1> QED BY <1>1 DEF StoreFits, CountKnown, InRange

LEMMA NextStoreFits ==
  ASSUME StoreFits, [Next]_vars
  PROVE  StoreFits'
<1>1. CASE \E c \in Commits : Commit(c)
  <2>1. PICK c \in Commits : Commit(c) BY <1>1
  <2>2. /\ store'.hier = [i \in 0 .. NumGrids - 1 |-> i + IndexOffset]
        /\ store'.count = c.count
    BY <2>1 DEF Commit
  <2>3. c.count \in [Known \cap Particles -> [0 .. NumGrids - 1 -> Int]]
    BY CommitsAssumption
  <2>4. ASSUME NEW gid \in Ids, NEW name \in Names, CountKnown(gid, name)'
        PROVE  store'.count[name][Index(gid)] \in Int
    <3>1. Index(gid) \in 0 .. NumGrids - 1 /\ name \in Known \cap Particles
      BY <2>2, <2>4 DEF CountKnown, InRange
    <3>2. c.count[name] \in [0 .. NumGrids - 1 -> Int] BY <2>3, <3>1
    <3> QED BY <2>2, <3>1, <3>2
  <2> QED BY <2>2, <2>4 DEF StoreFits
<1>2. CASE FreeIteration
  <2>1. store' = EmptyStore /\ DOMAIN store'.hier = {} BY <1>2 DEF FreeIteration, EmptyStore
  <2> QED BY <2>1 DEF StoreFits, CountKnown, InRange
<1>3. CASE UNCHANGED store BY <1>3 DEF StoreFits, CountKnown, InRange
<1>4. (\A c \in Commits : ~Commit(c)) /\ ~FreeIteration => UNCHANGED store
  BY DEF Next, vars, Aborted, CallLocal, Generate, GenerateCrashes, RaiseLocal, ReturnNone,
         HandOver, CopyOver, CopyFails, CallRemote, NextName, LookFinds, LookFails,
         LookPostpones, LookSkips, LookEnds, PrepareFails, PrepareSucceeds, SortFilled,
         SortEmpty, SortEnds, Fetch, FetchAborts, FetchFails, Wrap, ReturnOutput, Keep, Drop,
         Raise, Returns
<1> QED BY <1>1, <1>2, <1>3, <1>4

LEMMA FoundIsTrue ==
  ASSUME StoreFits, NEW what \in Accessors, NEW gid \in Ids, NEW name
  PROVE  LET answer == GetGridInfo(what, gid, name)
         IN  /\ answer.value # NoGrid => answer.value = gid
             /\ answer.value # NoGrid \/ answer.ok => store # EmptyStore
             /\ what \in HierarchyAccessors /\ store # EmptyStore =>
                  (answer.value # NoGrid <=> gid \in Grids)
<1> DEFINE value == Found(what, gid, name)
<1>1. /\ GetGridInfo(what, gid, name).value = value
      /\ GetGridInfo(what, gid, name).ok => store # EmptyStore
  BY DEF GetGridInfo
<1>2. gid \in Int /\ IndexOffset \in Int /\ NumGrids \in Nat /\ gid # NoGrid
  BY SizesAssumption DEF Ids, NoGrid
<1>3. ASSUME store = EmptyStore PROVE value = NoGrid
  <2>1. ~InRange(gid) /\ ~IsBound(gid, name)
    BY <1>3 DEF InRange, IsBound, EmptyStore
  <2> QED BY <2>1 DEF Found, CountKnown, Accessors
<1>4. ASSUME store # EmptyStore
      PROVE  /\ value \in {gid, NoGrid}
             /\ what \in HierarchyAccessors => (value # NoGrid <=> gid \in Grids)
  <2>1. store.hier = [i \in 0 .. NumGrids - 1 |-> i + IndexOffset]
    BY <1>4 DEF StoreFits
  <2>2. InRange(gid) => store.hier[Index(gid)] = gid
    BY <1>2, <2>1 DEF InRange, Index
  <2>3. InRange(gid) <=> gid \in Grids
    BY <1>2, <2>1 DEF InRange, Index, Grids
  <2>4. value \in {gid, NoGrid}
    BY <2>2 DEF Found, CountKnown, Accessors
  <2>5. what \in HierarchyAccessors => value = IF InRange(gid) THEN gid ELSE NoGrid
    BY <2>2 DEF Found, HierarchyAccessors
  <2> QED BY <1>2, <2>3, <2>4, <2>5
<1> QED BY <1>1, <1>3, <1>4

\* The accessors find the grids that the simulation committed, and no others.
THEOREM AnswersHold == Spec => []AnswersAreTrue
<1>1. Init => StoreFits BY InitStoreFits
<1>2. StoreFits /\ [Next]_vars => StoreFits' BY NextStoreFits
<1>3. StoreFits => AnswersAreTrue BY FoundIsTrue DEF AnswersAreTrue
<1> QED BY <1>1, <1>2, <1>3, PTL DEF Spec

-----------------------------------------------------------------------------
(***************************************************************************)
(* What the buffers hold                                                   *)
(***************************************************************************)

\* What the committed data says does not change with the call.
LEMMA SameStore ==
  ASSUME store' = store
  PROVE  \A gid, name : /\ HasParticles(gid, name)' = HasParticles(gid, name)
                        /\ SeemsEmpty(gid, name)' = SeemsEmpty(gid, name)
BY DEF HasParticles, SeemsEmpty, CountsSeen, CountKnown, InRange

\* Steps that change no buffer and no list.
LEMMA SameContents ==
  ASSUME Contents, UNCHANGED <<store, heap, list, fetched, output>>,
         call'.name = call.name, empty' = empty
  PROVE  Contents'
<1>1. ListHolds' BY SameStore DEF Contents, ListHolds
<1>2. FetchedHolds' BY DEF Contents, FetchedHolds
<1>3. OutputHolds' BY SameStore DEF Contents, OutputHolds
<1>4. EmptyHolds' BY SameStore DEF Contents, EmptyHolds
<1> QED BY <1>1, <1>2, <1>3, <1>4 DEF Contents

\* Steps after which libyt holds no more than py_output.
LEMMA OutputContents ==
  ASSUME list' = <<>>, fetched' = <<>>, empty' = {}, OutputHolds'
  PROVE  Contents'
<1>1. DOMAIN list' = {} /\ DOMAIN fetched' = {} OBVIOUS
<1> QED BY <1>1 DEF Contents, ListHolds, FetchedHolds, EmptyHolds

LEMMA NoOutputHolds ==
  ASSUME output' = {}
  PROVE  OutputHolds'
BY DEF OutputHolds

\* Buffers that stay in use keep what they hold.
LEMMA SameOutputHolds ==
  ASSUME OutputHolds, Ownership, UNCHANGED <<store, output>>,
         \A b \in Live : heap'[b] = heap[b]
  PROVE  OutputHolds'
<1>1. \A e \in output : e.ptr \in Blocks => heap'[e.ptr] = heap[e.ptr]
  BY DEF Ownership, OutputBlocks
<1> QED BY <1>1, SameStore DEF OutputHolds

LEMMA SameListHolds ==
  ASSUME ListHolds, Ownership, UNCHANGED <<store, list>>, call'.name = call.name,
         \A b \in Live : heap'[b] = heap[b]
  PROVE  ListHolds'
<1>1. \A i \in DOMAIN list : list[i].ptr \in Blocks => heap'[list[i].ptr] = heap[list[i].ptr]
  BY DEF Ownership, BlocksOf
<1> QED BY <1>1, SameStore DEF ListHolds

LEMMA SameFetchedHolds ==
  ASSUME FetchedHolds, Ownership, UNCHANGED fetched, call'.name = call.name,
         \A b \in Live : heap'[b] = heap[b]
  PROVE  FetchedHolds'
<1>1. \A i \in DOMAIN fetched : heap'[fetched[i].ptr] = heap[fetched[i].ptr]
  BY DEF Ownership, BlocksOf, FetchedHolds
<1> QED BY <1>1 DEF FetchedHolds

\* A new block changes no other.
LEMMA AllocatedHeap ==
  ASSUME TypeOK, ~Full, NEW v, heap' = [heap EXCEPT ![Fresh] = v]
  PROVE  /\ \A b \in Live : heap'[b] = heap[b]
         /\ heap'[Fresh] = v
<1>1. Fresh \in Blocks /\ Fresh \notin Live /\ Live \subseteq Blocks
  BY FreshIsFree DEF Live
<1>2. heap \in [Blocks -> {Free, Scratch} \cup (Names \X Ids)] BY DEF TypeOK
<1> QED BY <1>1, <1>2

LEMMA IdleContents ==
  ASSUME Memory, pc = "idle", UNCHANGED <<list, fetched, output, empty>>
  PROVE  Contents'
<1>1. list' = <<>> /\ fetched' = <<>> /\ output' = {} /\ empty' = {} BY DEF Memory, Stages
<1> QED BY <1>1, OutputContents, NoOutputHolds

LEMMA NextNameContents ==
  ASSUME Memory, Contents, NEW name \in Names, NextName(name)
  PROVE  Contents'
<1>1. /\ list' = <<>> /\ fetched' = <<>> /\ empty' = {} /\ UNCHANGED <<store, output, heap>>
      /\ OutputHolds /\ Ownership
  BY DEF NextName, Memory, Stages, Contents
<1>2. OutputHolds' BY <1>1, SameOutputHolds
<1> QED BY <1>1, <1>2, OutputContents

LEMMA GenerateContents ==
  ASSUME Memory, Contents, Generate
  PROVE  Contents'
<1> DEFINE gid    == Head(todo)
           status == Generated(gid, call.name)
<1>0. /\ pc = "generate" /\ TypeOK /\ Stages /\ Ownership /\ call.name \in Names
      /\ UNCHANGED <<pybind, store, flags, later, empty, fetched, output, kept>>
      /\ fetched = <<>> /\ empty = {}
  BY DEF Generate, Memory, Stages, InCall
<1>1. CASE status \in {"failed", "not_implemented"}
  <2>1. UNCHANGED <<heap, list>> /\ call' = [call EXCEPT !.status = status]
    BY <1>1 DEF Generate
  <2>2. call'.name = call.name BY <1>0, <2>1 DEF TypeOK
  <2> QED BY <1>0, <2>1, <2>2, SameContents
<1>2. CASE status \in {"nothing", "success"}
  <2> DEFINE p == IF status = "nothing" THEN NullPtr ELSE Fresh
  <2>1. PICK e : e = [id |-> gid, ptr |-> p] OBVIOUS
  <2>2. list' = Append(list, e) /\ call' = call
    BY <1>2, <2>1 DEF Generate
  <2>3. \A b \in Live : heap'[b] = heap[b]
    <3>1. CASE status = "nothing" BY <3>1 DEF Generate
    <3>2. CASE status = "success"
      <4>1. ~Full /\ heap' = [heap EXCEPT ![Fresh] = <<call.name, gid>>]
        BY <3>2 DEF Generate
      <4> QED BY <1>0, <4>1, AllocatedHeap
    <3> QED BY <1>2, <3>1, <3>2
  <2>4. /\ e.ptr \in Blocks => heap'[e.ptr] = <<call.name, e.id>>
        /\ e.ptr = NullPtr => ~HasParticles(e.id, call.name)
        /\ e.id = gid /\ e.ptr = p
    <3>1. CASE status = "nothing"
      <4>1. NullPtr \notin Blocks BY SizesAssumption DEF NullPtr, Blocks
      <4>2. call.name \in Particles /\ store.count[call.name][Index(gid)] = 0
        BY <3>1 DEF Generated
      <4>3. ~HasParticles(gid, call.name)
        BY <4>2, NamesAssumption DEF HasParticles
      <4> HIDE DEF gid, status
      <4> QED BY <2>1, <3>1, <4>1, <4>3
    <3>2. CASE status = "success"
      <4>1. ~Full /\ heap' = [heap EXCEPT ![Fresh] = <<call.name, gid>>]
        BY <3>2 DEF Generate
      <4>2. heap'[Fresh] = <<call.name, gid>> BY <1>0, <4>1, AllocatedHeap
      <4>3. Fresh \in Blocks /\ Fresh # NullPtr
        BY <4>1, FreshIsFree, SizesAssumption DEF NullPtr, Blocks
      <4> HIDE DEF gid, status
      <4> QED BY <2>1, <3>2, <4>2, <4>3
    <3> QED BY <1>2, <3>1, <3>2
  <2>5. /\ \A i \in 1 .. Len(list) : list'[i] = list[i]
        /\ list'[Len(list) + 1] = e
        /\ DOMAIN list = 1 .. Len(list) /\ DOMAIN list' = 1 .. Len(list) + 1
        /\ Len(list) \in Nat
    <3>1. list \in Seq(Entries) BY <1>0 DEF TypeOK
    <3>2. gid \in Ids /\ p \in Pointers
      <4>1. status = "success" => Fresh \in Blocks
        BY FreshIsFree DEF Generate
      <4>2. gid \in Ids BY <1>0 DEF TypeOK, Stages
      <4> HIDE DEF status
      <4> QED BY <1>2, <4>1, <4>2 DEF Pointers
    <3>3. e \in Entries BY <2>1, <3>2 DEF Entries
    <3> HIDE DEF gid, status, p
    <3> QED BY <2>2, <3>1, <3>3, AppendEntry
  <2> HIDE DEF gid, status, p
  <2>6. ListHolds'
    <3> DEFINE Holds(i) ==
                 /\ list'[i].ptr \in Blocks =>
                      heap'[list'[i].ptr] = <<call.name, list'[i].id>>
                 /\ list'[i].ptr = NullPtr => ~HasParticles(list'[i].id, call.name)
    <3>0. (\A i \in DOMAIN list' : Holds(i)) => ListHolds'
      BY <1>0, <2>2, SameStore DEF ListHolds
    <3> SUFFICES ASSUME NEW i \in DOMAIN list' PROVE Holds(i) BY <3>0
    <3>1. CASE i \in 1 .. Len(list)
      <4>1. list'[i] = list[i] /\ i \in DOMAIN list BY <2>5, <3>1
      <4>2. list[i].ptr \in Blocks => heap'[list[i].ptr] = heap[list[i].ptr]
        BY <1>0, <2>3, <4>1 DEF Ownership, BlocksOf
      <4> QED BY <4>1, <4>2 DEF Contents, ListHolds
    <3>2. CASE i = Len(list) + 1
      BY <2>4, <2>5, <3>2
    <3> QED BY <2>5, <3>1, <3>2
  <2>7. OutputHolds' BY <1>0, <2>3, SameOutputHolds DEF Contents
  <2>8. FetchedHolds' /\ EmptyHolds' BY <1>0 DEF FetchedHolds, EmptyHolds
  <2> QED BY <2>6, <2>7, <2>8 DEF Contents
<1> QED BY <1>1, <1>2 DEF Generated

LEMMA LookFindsContents ==
  ASSUME Memory, Contents, LookFinds
  PROVE  Contents'
<1>1. PICK e : e = [id |-> Head(todo), ptr |-> SimPtr] OBVIOUS
<1>2. /\ pc = "look" /\ todo # <<>> /\ list' = Append(list, e)
      /\ UNCHANGED <<store, heap, call, empty, fetched, output>>
      /\ TypeOK /\ Ownership
  BY <1>1 DEF LookFinds, Memory
<1>3. e.ptr \notin Blocks /\ e.ptr # NullPtr /\ e \in Entries
  BY <1>1, <1>2, SizesAssumption DEF Blocks, NullPtr, SimPtr, Entries, Pointers, TypeOK
<1>4. /\ \A i \in 1 .. Len(list) : list'[i] = list[i]
      /\ list'[Len(list) + 1] = e
      /\ DOMAIN list = 1 .. Len(list) /\ DOMAIN list' = 1 .. Len(list) + 1
      /\ Len(list) \in Nat
  <2>1. list \in Seq(Entries) BY <1>2 DEF TypeOK
  <2> QED BY <1>2, <1>3, <2>1, AppendEntry
<1>5. ListHolds'
  <2> DEFINE Holds(i) ==
               /\ list'[i].ptr \in Blocks => heap[list'[i].ptr] = <<call.name, list'[i].id>>
               /\ list'[i].ptr = NullPtr => ~HasParticles(list'[i].id, call.name)
  <2>1. (\A i \in DOMAIN list' : Holds(i)) => ListHolds'
    BY <1>2, SameStore DEF ListHolds
  <2> SUFFICES ASSUME NEW i \in DOMAIN list' PROVE Holds(i) BY <2>1
  <2>2. CASE i \in 1 .. Len(list) BY <1>4, <2>2 DEF Contents, ListHolds
  <2>3. CASE i = Len(list) + 1 BY <1>3, <1>4, <2>3
  <2> QED BY <1>4, <2>2, <2>3
<1>6. FetchedHolds' BY <1>2 DEF Contents, FetchedHolds
<1>7. OutputHolds' BY <1>2, SameOutputHolds DEF Contents
<1>8. EmptyHolds' BY <1>2, SameStore DEF Contents, EmptyHolds
<1> QED BY <1>5, <1>6, <1>7, <1>8 DEF Contents

LEMMA SortEmptyContents ==
  ASSUME Memory, Contents, SortEmpty
  PROVE  Contents'
<1>1. /\ UNCHANGED <<store, heap, call, list, fetched, output>>
      /\ empty' = empty \cup {Head(todo)} /\ call.name \in Particles
      /\ SeemsEmpty(Head(todo), call.name) /\ Ownership
  BY DEF SortEmpty, Memory, Stages
<1>2. EmptyHolds' BY <1>1, SameStore DEF Contents, EmptyHolds
<1>3. ListHolds' BY <1>1, SameListHolds DEF Contents
<1>4. FetchedHolds' BY <1>1, SameFetchedHolds DEF Contents
<1>5. OutputHolds' BY <1>1, SameOutputHolds DEF Contents
<1> QED BY <1>2, <1>3, <1>4, <1>5 DEF Contents

LEMMA FetchContents ==
  ASSUME Memory, Contents, Fetch
  PROVE  Contents'
<1>1. PICK e : e = [id |-> Head(todo), ptr |-> Fresh] OBVIOUS
<1>2. /\ pc = "fetch" /\ todo # <<>> /\ ~Full
      /\ heap' = [heap EXCEPT ![Fresh] = <<call.name, e.id>>]
      /\ fetched' = Append(fetched, e)
      /\ UNCHANGED <<store, call, list, empty, output>>
      /\ TypeOK /\ Ownership
  BY <1>1 DEF Fetch, Memory
<1>3. Fresh \in Blocks BY <1>2, FreshIsFree
<1>4. e \in Entries /\ e.ptr \in Blocks
  BY <1>1, <1>2, <1>3 DEF Entries, Pointers, TypeOK
<1>5. (\A b \in Live : heap'[b] = heap[b]) /\ heap'[e.ptr] = <<call.name, e.id>>
  BY <1>1, <1>2, AllocatedHeap
<1>6. /\ \A i \in 1 .. Len(fetched) : fetched'[i] = fetched[i]
      /\ fetched'[Len(fetched) + 1] = e
      /\ DOMAIN fetched = 1 .. Len(fetched) /\ DOMAIN fetched' = 1 .. Len(fetched) + 1
      /\ Len(fetched) \in Nat
  <2>1. fetched \in Seq(Entries) BY <1>2 DEF TypeOK
  <2> QED BY <1>2, <1>4, <2>1, AppendEntry
<1>7. FetchedHolds'
  <2> DEFINE Holds(i) == /\ fetched'[i].ptr \in Blocks
                         /\ heap'[fetched'[i].ptr] = <<call.name, fetched'[i].id>>
  <2>1. (\A i \in DOMAIN fetched' : Holds(i)) => FetchedHolds'
    BY <1>2 DEF FetchedHolds
  <2> SUFFICES ASSUME NEW i \in DOMAIN fetched' PROVE Holds(i) BY <2>1
  <2>2. CASE i \in 1 .. Len(fetched)
    <3>1. fetched'[i] = fetched[i] /\ i \in DOMAIN fetched BY <1>6, <2>2
    <3>2. fetched[i].ptr \in Blocks /\ heap[fetched[i].ptr] = <<call.name, fetched[i].id>>
      BY <3>1 DEF Contents, FetchedHolds
    <3>3. fetched[i].ptr \in Live BY <1>2, <3>1, <3>2 DEF Ownership, BlocksOf
    <3> QED BY <1>5, <3>1, <3>2, <3>3
  <2>3. CASE i = Len(fetched) + 1 BY <1>4, <1>5, <1>6, <2>3
  <2> QED BY <1>6, <2>2, <2>3
<1>8. ListHolds' BY <1>2, <1>5, SameListHolds DEF Contents
<1>9. OutputHolds' BY <1>2, <1>5, SameOutputHolds DEF Contents
<1>10. EmptyHolds' BY <1>2, SameStore DEF Contents, EmptyHolds
<1> QED BY <1>7, <1>8, <1>9, <1>10 DEF Contents

\* The one array that a local method returns.
LEMMA OneArrayContents ==
  ASSUME Memory, pc = "generated", call.op \in LocalCalls,
         Returns("success"), DropList, NEW p \in Pointers,
         output' = {[id |-> list[1].id, name |-> call.name, ptr |-> p]},
         IF p \in Blocks THEN heap'[p] = <<call.name, list[1].id>>
         ELSE p = NullPtr /\ ~HasParticles(list[1].id, call.name)
  PROVE  Contents'
<1>1. list' = <<>> /\ fetched' = <<>> /\ empty' = {} /\ store' = store
  BY DEF Returns, DropList, Memory, Stages
<1>2. PICK o : o = [id |-> list[1].id, name |-> call.name, ptr |-> p] OBVIOUS
<1>3. o.id = list[1].id /\ o.name = call.name /\ o.ptr = p /\ output' = {o} BY <1>2
<1>4. OutputHolds' BY <1>1, <1>3, SameStore DEF OutputHolds
<1> QED BY <1>1, <1>4, OutputContents

LEMMA ReturnNoneContents ==
  ASSUME Memory, Contents, ReturnNone
  PROVE  Contents'
<1>1. /\ pc = "generated" /\ call.op \in LocalCalls /\ call.status = "success"
      /\ list[1].ptr = NullPtr
      /\ output' = {[id |-> list[1].id, name |-> call.name, ptr |-> NullPtr]}
      /\ DropList /\ Returns("success")
  BY DEF ReturnNone
<1>2. DOMAIN list = {1} /\ NullPtr \notin Blocks BY <1>1, OneEntry
<1>3. ~HasParticles(list[1].id, call.name) BY <1>1, <1>2 DEF Contents, ListHolds
<1>4. NullPtr \in Pointers BY DEF Pointers
<1> QED BY <1>1, <1>2, <1>3, <1>4, OneArrayContents

LEMMA HandOverContents ==
  ASSUME Memory, Contents, HandOver
  PROVE  Contents'
<1> DEFINE p == list[1].ptr
<1>1. /\ pc = "generated" /\ call.op \in LocalCalls /\ call.status = "success"
      /\ p # NullPtr /\ heap' = heap
      /\ output' = {[id |-> list[1].id, name |-> call.name, ptr |-> p]}
      /\ DropList /\ Returns("success")
  BY DEF HandOver
<1>2. DOMAIN list = {1} /\ p \in Blocks BY <1>1, OneEntry
<1>3. heap'[p] = <<call.name, list[1].id>> BY <1>1, <1>2 DEF Contents, ListHolds
<1>4. p \in Pointers BY <1>2 DEF Pointers
<1> HIDE DEF p
<1> QED BY <1>1, <1>2, <1>3, <1>4, OneArrayContents

LEMMA CopyOverContents ==
  ASSUME Memory, Contents, CopyOver
  PROVE  Contents'
<1> DEFINE p == list[1].ptr
           h == [heap EXCEPT ![Fresh] = heap[p]]
<1>1. /\ pc = "generated" /\ call.op \in LocalCalls /\ call.status = "success"
      /\ p # NullPtr /\ ~Full /\ heap' = FreeAll(h, BlocksOf(list))
      /\ output' = {[id |-> list[1].id, name |-> call.name, ptr |-> Fresh]}
      /\ DropList /\ Returns("success") /\ TypeOK
  BY DEF CopyOver, Memory
<1>2. DOMAIN list = {1} /\ p \in Blocks /\ BlocksOf(list) \subseteq Live
  BY <1>1, OneEntry
<1>3. Fresh \in Blocks /\ Fresh \notin Live BY <1>1, FreshIsFree
<1>4. heap[p] = <<call.name, list[1].id>> BY <1>2 DEF Contents, ListHolds
<1>5. h[Fresh] = heap[p] BY <1>1, <1>3 DEF TypeOK
<1> HIDE DEF h, p
<1>6. heap'[Fresh] = <<call.name, list[1].id>>
  BY <1>1, <1>2, <1>3, <1>4, <1>5 DEF FreeAll, Set
<1>7. Fresh \in Pointers BY <1>3 DEF Pointers
<1> QED BY <1>1, <1>3, <1>6, <1>7, OneArrayContents

\* Steps after which py_output is not there.
LEMMA EmptyContents ==
  ASSUME Memory,
         \/ RaiseLocal \/ CopyFails \/ PrepareFails \/ FetchFails
         \/ \E S \in SUBSET OutputBlocks : Keep(S)
  PROVE  Contents'
<1>1. list' = <<>> /\ fetched' = <<>> /\ empty' = {} /\ output' = {}
  BY DEF RaiseLocal, CopyFails, PrepareFails, FetchFails, Raise, Returns, DropList, Keep,
         Memory, Stages, LocalStage
<1> QED BY <1>1, OutputContents, NoOutputHolds

\* A grid in fetch_particle_count0_list has no particles.
LEMMA EmptyIsEmpty ==
  ASSUME StoreFits, NEW gid \in Ids, NEW name \in Particles, SeemsEmpty(gid, name)
  PROVE  ~HasParticles(gid, name)
<1>1. name \in Names /\ name \notin Fields BY NamesAssumption DEF Names
<1>2. CASE CountKnown(gid, name)
  <2>1. /\ store.count[name][Index(gid)] \in Int
        /\ store.count[name][Index(gid)] <= 0
    BY <1>1, <1>2 DEF StoreFits, SeemsEmpty, CountsSeen
  <2> QED BY <1>1, <2>1 DEF HasParticles
<1>3. CASE ~CountKnown(gid, name) BY <1>1, <1>3 DEF HasParticles
<1> QED BY <1>2, <1>3

LEMMA WrapContents ==
  ASSUME Memory, StoreFits, Contents, Wrap
  PROVE  Contents'
<1> DEFINE dropped == (OutputBlocks \cup BlocksOf(fetched)) \ {e.ptr : e \in Other \cup New}
<1>1. /\ pc = "fetch" /\ output' = Other \cup New
      /\ heap' = FreeAll(heap, dropped \cup Cleared(flags))
      /\ fetched' = <<>> /\ empty' = {} /\ list' = <<>>
      /\ store' = store
      /\ TypeOK /\ Stages /\ Ownership
  BY WrapSteps DEF Memory
<1>2. call.name \in Names /\ Len(flags) = Len(list) BY <1>1 DEF Stages, InCall
<1>3. Cleared(flags) \cap Blocks = BlocksOf(list) BY <1>2, FlagsFit
<1>4. \A e \in New :
        /\ e \in [id : Ids, name : Names, ptr : Pointers]
        /\ e.name = call.name
        /\ \/ /\ e.id \in Got
              /\ Latest(e.id) \in DOMAIN fetched
              /\ fetched[Latest(e.id)].id = e.id
              /\ e.ptr = fetched[Latest(e.id)].ptr
           \/ e.id \in empty /\ e.ptr = NullPtr
  BY <1>1, <1>2, NewEntries
<1>5. NullPtr \notin Blocks BY SizesAssumption DEF Blocks, NullPtr
<1>6. Other \subseteq output BY DEF Other
<1>7. ASSUME NEW e \in Other \cup New, e.ptr \in OutputBlocks \cup BlocksOf(fetched)
      PROVE  heap'[e.ptr] = heap[e.ptr]
  <2>1. e.ptr \notin dropped BY <1>7
  <2>2. e.ptr \in Blocks BY <1>7 DEF OutputBlocks, BlocksOf
  <2>3. e.ptr \notin BlocksOf(list) BY <1>1, <1>7 DEF Ownership
  <2>4. e.ptr \notin dropped \cup Cleared(flags) BY <1>3, <2>1, <2>2, <2>3
  <2> HIDE DEF dropped
  <2> QED BY <1>1, <2>2, <2>4 DEF FreeAll, Set
<1>8. ASSUME NEW e \in Other
      PROVE  IF e.ptr \in Blocks THEN heap'[e.ptr] = <<e.name, e.id>>
             ELSE e.ptr = NullPtr /\ ~HasParticles(e.id, e.name)
  <2>1. e \in output BY <1>6
  <2>2. e.ptr \in Blocks => heap'[e.ptr] = heap[e.ptr]
    BY <1>7, <2>1 DEF OutputBlocks
  <2> QED BY <2>1, <2>2 DEF Contents, OutputHolds
<1>9. ASSUME NEW e \in New
      PROVE  IF e.ptr \in Blocks THEN heap'[e.ptr] = <<e.name, e.id>>
             ELSE e.ptr = NullPtr /\ ~HasParticles(e.id, e.name)
  <2>1. CASE e.id \in empty /\ e.ptr = NullPtr
    <3>1. call.name \in Particles /\ SeemsEmpty(e.id, call.name)
      BY <2>1 DEF Contents, EmptyHolds
    <3>2. e.id \in Ids /\ e.name = call.name BY <1>4
    <3>3. ~HasParticles(e.id, call.name) BY <3>1, <3>2, EmptyIsEmpty
    <3> QED BY <1>5, <2>1, <3>2, <3>3
  <2>2. CASE ~(e.id \in empty /\ e.ptr = NullPtr)
    <3>1. /\ Latest(e.id) \in DOMAIN fetched
          /\ fetched[Latest(e.id)].id = e.id
          /\ e.ptr = fetched[Latest(e.id)].ptr /\ e.name = call.name
      BY <1>4, <2>2
    <3>2. e.ptr \in Blocks /\ heap[e.ptr] = <<e.name, e.id>>
      BY <3>1 DEF Contents, FetchedHolds
    <3>3. e.ptr \in BlocksOf(fetched) BY <3>1, <3>2 DEF BlocksOf
    <3>4. heap'[e.ptr] = heap[e.ptr] BY <1>7, <3>3
    <3> QED BY <3>2, <3>4
  <2> QED BY <2>1, <2>2
<1>10. OutputHolds' BY <1>1, <1>8, <1>9, SameStore DEF OutputHolds
<1> QED BY <1>1, <1>10, OutputContents

LEMMA NextContents ==
  ASSUME Memory, StoreFits, Contents, [Next]_vars
  PROVE  Contents'
<1>1. CASE \/ \E c \in Commits : Commit(c)
           \/ FreeIteration
           \/ \E op \in LocalCalls, name \in Names, gid \in Ids : CallLocal(op, name, gid)
           \/ \E op \in RemoteCalls :
                \E prepare \in PrepareLists, fetch \in FetchLists :
                  CallRemote(op, prepare, fetch)
           \/ \E b \in kept : Drop(b)
  BY <1>1, IdleContents DEF Commit, FreeIteration, CallLocal, CallRemote, Drop
<1>2. CASE Generate BY <1>2, GenerateContents
<1>3. CASE \/ GenerateCrashes \/ LookPostpones \/ LookSkips \/ LookEnds \/ PrepareSucceeds
           \/ SortFilled \/ SortEnds \/ FetchAborts \/ ReturnOutput \/ Aborted
           \/ UNCHANGED vars
  BY <1>3, SameContents
  DEF GenerateCrashes, LookPostpones, LookSkips, LookEnds, PrepareSucceeds, SortFilled,
      SortEnds, FetchAborts, ReturnOutput, Aborted, vars
<1>4. CASE LookFails
  <2>1. call' = [call EXCEPT !.status = "failed"] /\ TypeOK BY <1>4 DEF LookFails, Memory
  <2>2. call'.name = call.name BY <2>1 DEF TypeOK
  <2> QED BY <1>4, <2>2, SameContents DEF LookFails
<1>5. CASE \/ RaiseLocal \/ CopyFails \/ PrepareFails \/ FetchFails
           \/ \E S \in SUBSET OutputBlocks : Keep(S)
  BY <1>5, EmptyContents
<1>6. CASE ReturnNone \/ HandOver \/ CopyOver
  BY <1>6, ReturnNoneContents, HandOverContents, CopyOverContents
<1>7. CASE \E name \in Names : NextName(name) BY <1>7, NextNameContents
<1>8. CASE LookFinds BY <1>8, LookFindsContents
<1>9. CASE SortEmpty BY <1>9, SortEmptyContents
<1>10. CASE Fetch BY <1>10, FetchContents
<1>11. CASE Wrap BY <1>11, WrapContents
<1> QED BY <1>1, <1>2, <1>3, <1>4, <1>5, <1>6, <1>7, <1>8, <1>9, <1>10, <1>11 DEF Next

-----------------------------------------------------------------------------
(***************************************************************************)
(* Which requests are answered                                             *)
(***************************************************************************)

\* Taking the first one of a sequence, and appending one.
LEMMA HeadAndTail ==
  ASSUME NEW s \in Seq(Ids), s # <<>>
  PROVE  ToSet(s) = {Head(s)} \cup ToSet(Tail(s))
<1>1. /\ Len(s) \in Nat /\ Len(s) > 0 /\ Head(s) = s[1]
      /\ DOMAIN s = 1 .. Len(s) /\ DOMAIN Tail(s) = 1 .. Len(s) - 1
      /\ \A i \in 1 .. Len(s) - 1 : Tail(s)[i] = s[i + 1]
  OBVIOUS
<1>2. ASSUME NEW x \in ToSet(s) PROVE x \in {Head(s)} \cup ToSet(Tail(s))
  <2>1. PICK i \in DOMAIN s : x = s[i] BY DEF ToSet
  <2>2. CASE i = 1 BY <1>1, <2>1, <2>2
  <2>3. CASE i # 1
    <3>1. i - 1 \in DOMAIN Tail(s) /\ Tail(s)[i - 1] = s[i] BY <1>1, <2>1, <2>3
    <3> QED BY <2>1, <3>1 DEF ToSet
  <2> QED BY <2>2, <2>3
<1>3. Head(s) \in ToSet(s) BY <1>1 DEF ToSet
<1>4. ASSUME NEW x \in ToSet(Tail(s)) PROVE x \in ToSet(s)
  <2>1. PICK i \in DOMAIN Tail(s) : x = Tail(s)[i] BY DEF ToSet
  <2>2. i + 1 \in DOMAIN s /\ Tail(s)[i] = s[i + 1] BY <1>1, <2>1
  <2> QED BY <2>1, <2>2 DEF ToSet
<1> QED BY <1>2, <1>3, <1>4

LEMMA SetOfAppend ==
  ASSUME NEW s \in Seq(Ids), NEW x \in Ids
  PROVE  ToSet(Append(s, x)) = ToSet(s) \cup {x}
<1> DEFINE t == Append(s, x)
<1>1. /\ \A i \in 1 .. Len(s) : t[i] = s[i]
      /\ t[Len(s) + 1] = x
      /\ DOMAIN s = 1 .. Len(s) /\ DOMAIN t = 1 .. Len(s) + 1 /\ Len(s) \in Nat
  BY AppendElements
<1> HIDE DEF t
<1>2. ASSUME NEW y \in ToSet(t) PROVE y \in ToSet(s) \cup {x}
  <2>1. PICK i \in DOMAIN t : y = t[i] BY DEF ToSet
  <2>2. CASE i = Len(s) + 1 BY <1>1, <2>1, <2>2
  <2>3. CASE i \in 1 .. Len(s) BY <1>1, <2>1, <2>3 DEF ToSet
  <2> QED BY <1>1, <2>1, <2>2, <2>3
<1>3. ASSUME NEW y \in ToSet(s) PROVE y \in ToSet(t)
  <2>1. PICK i \in DOMAIN s : y = s[i] BY DEF ToSet
  <2>2. i \in DOMAIN t /\ t[i] = s[i] BY <1>1, <2>1
  <2> QED BY <2>1, <2>2 DEF ToSet
<1>4. x \in ToSet(t)
  <2>1. Len(s) + 1 \in DOMAIN t BY <1>1
  <2> QED BY <1>1, <2>1 DEF ToSet
<1>5. ToSet(t) = ToSet(s) \cup {x} BY <1>2, <1>3, <1>4
<1> QED BY <1>5 DEF t

LEMMA IdsOfAppend ==
  ASSUME NEW s \in Seq(Entries), NEW e \in Entries, NEW t, t = Append(s, e)
  PROVE  IdsOf(t) = IdsOf(s) \cup {e.id}
<1>1. /\ \A i \in 1 .. Len(s) : t[i] = s[i]
      /\ t[Len(s) + 1] = e
      /\ DOMAIN s = 1 .. Len(s) /\ DOMAIN t = 1 .. Len(s) + 1 /\ Len(s) \in Nat
  BY AppendEntry
<1>2. ASSUME NEW y \in IdsOf(t) PROVE y \in IdsOf(s) \cup {e.id}
  <2>1. PICK i \in DOMAIN t : y = t[i].id BY DEF IdsOf
  <2>2. CASE i = Len(s) + 1 BY <1>1, <2>1, <2>2
  <2>3. CASE i \in 1 .. Len(s) BY <1>1, <2>1, <2>3 DEF IdsOf
  <2> QED BY <1>1, <2>1, <2>2, <2>3
<1>3. ASSUME NEW y \in IdsOf(s) PROVE y \in IdsOf(t)
  <2>1. PICK i \in DOMAIN s : y = s[i].id BY DEF IdsOf
  <2>2. i \in DOMAIN t /\ t[i] = s[i] BY <1>1, <2>1
  <2> QED BY <2>1, <2>2 DEF IdsOf
<1>4. e.id \in IdsOf(t)
  <2>1. Len(s) + 1 \in DOMAIN t BY <1>1
  <2> QED BY <1>1, <2>1 DEF IdsOf
<1> QED BY <1>2, <1>3, <1>4

\* Nothing is in progress.
LEMMA NoOutputProgress ==
  ASSUME output' = {}, pc' \notin InCall \cup {"name"},
         pc' = "returned" => call'.status # "success"
  PROVE  Progress'
BY DEF Progress, OneEach, AllAnswered, OthersAnswered, ToSort, ToFetch, InCall

\* A step within the reading of a name.
LEMMA InCallProgress ==
  ASSUME Progress, pc \in InCall, output' = output,
         call'.op = call.op, call'.name = call.name, call'.names = call.names,
         call'.fetch = call.fetch, pc' \in InCall \cup {"aborted"}, ToSort', ToFetch'
  PROVE  Progress'
<1>1. OneEach' BY DEF Progress, OneEach
<1>2. AllAnswered' BY DEF AllAnswered, InCall
<1>3. OthersAnswered'
  BY DEF Progress, OthersAnswered, Answered, Requested
<1> QED BY <1>1, <1>2, <1>3 DEF Progress

LEMMA CallLocalProgress ==
  ASSUME Memory, Progress, NEW op \in LocalCalls, NEW name \in Names, NEW gid \in Ids,
         CallLocal(op, name, gid)
  PROVE  Progress'
<1>1. /\ pc' \in {"generate", "generated"} /\ call'.op \in LocalCalls /\ output' = output
  BY DEF CallLocal, AfterLoop
<1> QED BY <1>1
     DEF Progress, OneEach, AllAnswered, OthersAnswered, ToSort, ToFetch, LocalCalls,
         RemoteCalls

LEMMA CallRemoteProgress ==
  ASSUME Memory, NEW op \in RemoteCalls, NEW prepare, NEW fetch,
         CallRemote(op, prepare, fetch)
  PROVE  Progress'
<1>1. pc' = "name" /\ call'.names = {} /\ output' = {}
  BY DEF CallRemote, Memory, Stages
<1>2. AllAnswered' BY <1>1 DEF AllAnswered, Answered, Requested
<1> QED BY <1>1, <1>2 DEF Progress, OneEach, OthersAnswered, ToSort, ToFetch, InCall

LEMMA NextNameProgress ==
  ASSUME Memory, Progress, NEW name \in Names, NextName(name)
  PROVE  Progress'
<1>1. /\ pc = "name" /\ pc' \in {"look", "generate", "generated"} /\ output' = output
      /\ TypeOK
  BY DEF NextName, AfterLoop, Memory
<1>2. call'.name = name /\ call'.names = call.names \cup {name} /\ call'.fetch = call.fetch
  BY <1>1 DEF NextName, TypeOK
<1>3. \A n \in Names : Answered(n) BY <1>1 DEF Progress, AllAnswered
<1>4. \A n \in Names \ {name} : Answered(n)'
  BY <1>1, <1>2, <1>3 DEF Answered, Requested
<1>5. \A e \in output : e.name = name => e.id \in ToSet(call.fetch)
  <2>1. \A e \in output : e.id \in Ids BY <1>1 DEF TypeOK
  <2> QED BY <1>3, <2>1 DEF Answered, Requested
<1>6. OthersAnswered' BY <1>1, <1>2, <1>4, <1>5 DEF OthersAnswered
<1> QED BY <1>1, <1>6 DEF Progress, OneEach, AllAnswered, ToSort, ToFetch

\* The steps before the reads.
LEMMA LookProgress ==
  ASSUME Memory, Progress,
         \/ Generate \/ GenerateCrashes \/ LookFinds \/ LookFails \/ LookPostpones
         \/ LookSkips \/ LookEnds \/ FetchAborts
  PROVE  Progress'
<1>1. /\ pc \in InCall /\ output' = output
      /\ pc' \in {"look", "generate", "generated", "aborted"}
  BY DEF Generate, GenerateCrashes, LookFinds, LookFails, LookPostpones, LookSkips, LookEnds,
         FetchAborts, AfterLoop, InCall
<1>2. /\ call'.op = call.op /\ call'.name = call.name /\ call'.names = call.names
      /\ call'.fetch = call.fetch
  <2>1. TypeOK BY DEF Memory
  <2>2. CASE call' = call BY <2>2
  <2>3. CASE call' = [call EXCEPT !.status = "failed"] BY <2>1, <2>3 DEF TypeOK
  <2>4. CASE Generate /\ call' # call
    <3>1. call' = [call EXCEPT !.status = Generated(Head(todo), call.name)]
      BY <2>4 DEF Generate
    <3> QED BY <2>1, <3>1 DEF TypeOK
  <2> QED BY <2>2, <2>3, <2>4
       DEF GenerateCrashes, LookFinds, LookFails, LookPostpones, LookSkips, LookEnds,
           FetchAborts
<1>3. ToSort' /\ ToFetch' BY <1>1 DEF ToSort, ToFetch
<1>4. pc' \in InCall \cup {"aborted"} BY <1>1 DEF InCall
<1> QED BY <1>1, <1>2, <1>3, <1>4, InCallProgress

LEMMA NoElements ==
  ToSet(<<>>) = {} /\ IdsOf(<<>>) = {}
BY DEF ToSet, IdsOf

LEMMA PrepareSucceedsProgress ==
  ASSUME Memory, Progress, PrepareSucceeds
  PROVE  Progress'
<1>1. /\ pc = "generated" /\ todo' = call.fetch /\ pc' \in {"fetch", "sort"}
      /\ UNCHANGED <<call, later, empty, fetched, output>>
  BY DEF PrepareSucceeds
<1>2. later = <<>> /\ empty = {} /\ fetched = <<>> BY <1>1 DEF Memory, Stages
<1>3. ToSort' /\ ToFetch' BY <1>1, <1>2, NoElements DEF ToSort, ToFetch
<1> QED BY <1>1, <1>3, InCallProgress DEF InCall

LEMMA SortProgress ==
  ASSUME Memory, Progress, SortFilled \/ SortEmpty \/ SortEnds
  PROVE  Progress'
<1>1. /\ pc = "sort" /\ UNCHANGED <<call, fetched, output>> /\ TypeOK /\ fetched = <<>>
      /\ todo \in Seq(Ids) /\ later \in Seq(Ids)
  BY DEF SortFilled, SortEmpty, SortEnds, Memory, TypeOK, Stages
<1>2. ToSet(todo) \cup ToSet(later) \cup empty = ToSet(call.fetch)
  BY <1>1 DEF Progress, ToSort
<1>3. ASSUME todo # <<>>
      PROVE  /\ ToSet(todo) = {Head(todo)} \cup ToSet(Tail(todo))
             /\ ToSet(Append(later, Head(todo))) = ToSet(later) \cup {Head(todo)}
  <2>1. Head(todo) \in Ids BY <1>1, <1>3
  <2> QED BY <1>1, <1>3, <2>1, HeadAndTail, SetOfAppend
<1>4. ToSort' /\ ToFetch' /\ pc' \in InCall
  <2>1. CASE SortFilled
    <3>1. /\ todo # <<>> /\ later' = Append(later, Head(todo)) /\ todo' = Tail(todo)
          /\ pc' = "sort" /\ empty' = empty
      BY <1>1, <2>1 DEF SortFilled
    <3>2. ToSet(todo') \cup ToSet(later') \cup empty' = ToSet(call'.fetch)
      BY <1>1, <1>2, <1>3, <3>1
    <3> QED BY <3>1, <3>2 DEF ToSort, ToFetch, InCall
  <2>2. CASE SortEmpty
    <3>1. /\ todo # <<>> /\ empty' = empty \cup {Head(todo)} /\ todo' = Tail(todo)
          /\ pc' = "sort" /\ later' = later
      BY <1>1, <2>2 DEF SortEmpty
    <3>2. ToSet(todo') \cup ToSet(later') \cup empty' = ToSet(call'.fetch)
      BY <1>1, <1>2, <1>3, <3>1
    <3> QED BY <3>1, <3>2 DEF ToSort, ToFetch, InCall
  <2>3. CASE SortEnds
    <3>1. todo = <<>> /\ todo' = later /\ pc' = "fetch" /\ empty' = empty
      BY <2>3 DEF SortEnds
    <3>2. ToSet(todo') \cup IdsOf(fetched') \cup empty' = ToSet(call'.fetch)
      BY <1>1, <1>2, <3>1, NoElements
    <3> QED BY <3>1, <3>2 DEF ToSort, ToFetch, InCall
  <2> QED BY <2>1, <2>2, <2>3
<1> QED BY <1>1, <1>4, InCallProgress DEF InCall

LEMMA FetchProgress ==
  ASSUME Memory, Progress, Fetch
  PROVE  Progress'
<1>1. PICK e : e = [id |-> Head(todo), ptr |-> Fresh] OBVIOUS
<1>2. /\ pc = "fetch" /\ pc' = "fetch" /\ todo # <<>> /\ ~Full
      /\ fetched' = Append(fetched, e) /\ todo' = Tail(todo)
      /\ UNCHANGED <<call, empty, output>> /\ TypeOK
  BY <1>1 DEF Fetch, Memory
<1>3. Head(todo) \in Ids /\ todo \in Seq(Ids) /\ fetched \in Seq(Entries)
  BY <1>2 DEF TypeOK
<1>4. e \in Entries /\ e.id = Head(todo)
  BY <1>1, <1>2, <1>3, FreshIsFree DEF Entries, Pointers
<1>5. IdsOf(fetched') = IdsOf(fetched) \cup {Head(todo)}
  BY <1>2, <1>3, <1>4, IdsOfAppend
<1>6. ToSet(todo) = {Head(todo)} \cup ToSet(Tail(todo)) BY <1>2, <1>3, HeadAndTail
<1>7. ToFetch' BY <1>2, <1>5, <1>6 DEF Progress, ToFetch
<1>8. ToSort' BY <1>2 DEF ToSort
<1> QED BY <1>2, <1>7, <1>8, InCallProgress DEF InCall

LEMMA OneArrayProgress ==
  ASSUME Memory, ReturnNone \/ HandOver \/ CopyOver
  PROVE  Progress'
<1>1. /\ pc = "generated" /\ call.op \in LocalCalls /\ call.status = "success"
      /\ call' = [call EXCEPT !.status = "success"] /\ pc' = "returned" /\ TypeOK
      /\ \E p : output' = {[id |-> list[1].id, name |-> call.name, ptr |-> p]}
  BY DEF ReturnNone, HandOver, CopyOver, Returns, Memory
<1>2. /\ list[1].id = call.fetch[1] /\ Len(call.fetch) = 1 /\ call.names = {call.name}
  BY <1>1, OneEntry
<1>3. \E o : output' = {o} /\ o.id = call.fetch[1] /\ o.name = call.name
  <2>1. PICK p : output' = {[id |-> list[1].id, name |-> call.name, ptr |-> p]}
    BY <1>1
  <2>2. PICK o : o = [id |-> list[1].id, name |-> call.name, ptr |-> p] OBVIOUS
  <2>3. output' = {o} /\ o.id = call.fetch[1] /\ o.name = call.name
    BY <1>2, <2>1, <2>2
  <2> QED BY <2>3
<1>4. ToSet(call.fetch) = {call.fetch[1]}
  <2>1. DOMAIN call.fetch = {1}
    <3>1. call.fetch \in Seq(Ids) BY <1>1 DEF TypeOK
    <3> QED BY <1>2, <3>1
  <2> QED BY <2>1 DEF ToSet
<1>5. call'.fetch = call.fetch /\ call'.names = call.names BY <1>1 DEF TypeOK
<1>6. PICK o : output' = {o} /\ o.id = call.fetch[1] /\ o.name = call.name
  BY <1>3
<1>7. AllAnswered' BY <1>2, <1>4, <1>5, <1>6 DEF AllAnswered, Answered, Requested
<1>8. OneEach' BY <1>6 DEF OneEach
<1> QED BY <1>1, <1>7, <1>8 DEF Progress, OthersAnswered, ToSort, ToFetch, InCall

LEMMA WrapProgress ==
  ASSUME Memory, Progress, Wrap
  PROVE  Progress'
<1>1. /\ pc = "fetch" /\ todo = <<>> /\ output' = Other \cup New /\ pc' = "name"
      /\ call' = call /\ TypeOK /\ call.name \in Names /\ call.name \in call.names
      /\ call.op \in RemoteCalls
  BY WrapSteps DEF Memory, Stages, InCall
<1>2. /\ \A e \in New : e.name = call.name
      /\ \A d, e \in New : d.id = e.id => d = e
      /\ {e.id : e \in New} = Got \cup empty
  BY <1>1, NewEntries
<1>3. Got \cup empty = ToSet(call.fetch)
  <2>1. {} \cup IdsOf(fetched) \cup empty = ToSet(call.fetch)
    BY <1>1, NoElements DEF Progress, ToFetch
  <2> QED BY <2>1 DEF Got, IdsOf
<1>4. \A e : e \in Other <=> e \in output /\ (e.name # call.name \/ e.id \notin Got \cup empty)
  BY DEF Other
<1>5. OneEach'
  BY <1>1, <1>2, <1>4 DEF Progress, OneEach
<1>6. /\ \A name \in Names \ {call.name} : Answered(name)
      /\ \A e \in output : e.name = call.name => e.id \in ToSet(call.fetch)
  BY <1>1 DEF Progress, OthersAnswered, InCall
<1>7. ASSUME NEW name \in Names PROVE Answered(name)'
  <2>1. CASE name = call.name
    <3>1. \A gid : Requested(gid, name)' <=> gid \in Got \cup empty
      BY <1>1, <1>3, <2>1 DEF Requested
    <3>2. \A e \in output' : e.name = name => e \in New
      BY <1>1, <1>3, <1>4, <1>6, <2>1
    <3>3. \A gid : (\E e \in output' : e.id = gid /\ e.name = name) <=> gid \in Got \cup empty
      BY <1>1, <1>2, <2>1, <3>2
    <3> QED BY <3>1, <3>3 DEF Answered
  <2>2. CASE name # call.name
    <3>1. \A e : e \in output' /\ e.name = name <=> e \in output /\ e.name = name
      BY <1>1, <1>2, <1>4, <2>2
    <3> QED BY <1>1, <1>6, <2>2, <3>1 DEF Answered, Requested
  <2> QED BY <2>1, <2>2
<1>8. AllAnswered' BY <1>7 DEF AllAnswered
<1> QED BY <1>1, <1>5, <1>8 DEF Progress, OthersAnswered, ToSort, ToFetch, InCall

LEMMA NextProgress ==
  ASSUME Memory, Progress, [Next]_vars
  PROVE  Progress'
<1>1. CASE (\E c \in Commits : Commit(c)) \/ FreeIteration \/ \E b \in kept : Drop(b)
  BY <1>1, NoOutputProgress DEF Commit, FreeIteration, Drop, Memory, Stages, InCall
<1>2. CASE \E op \in LocalCalls, name \in Names, gid \in Ids : CallLocal(op, name, gid)
  BY <1>2, CallLocalProgress
<1>3. CASE \E op \in RemoteCalls :
             \E prepare \in PrepareLists, fetch \in FetchLists : CallRemote(op, prepare, fetch)
  BY <1>3, CallRemoteProgress
<1>4. CASE \/ Generate \/ GenerateCrashes \/ LookFinds \/ LookFails \/ LookPostpones
           \/ LookSkips \/ LookEnds \/ FetchAborts
  BY <1>4, LookProgress
<1>5. CASE PrepareSucceeds BY <1>5, PrepareSucceedsProgress
<1>6. CASE SortFilled \/ SortEmpty \/ SortEnds BY <1>6, SortProgress
<1>7. CASE Fetch BY <1>7, FetchProgress
<1>8. CASE ReturnNone \/ HandOver \/ CopyOver BY <1>8, OneArrayProgress
<1>9. CASE Wrap BY <1>9, WrapProgress
<1>10. CASE \E name \in Names : NextName(name) BY <1>10, NextNameProgress
<1>11. CASE \/ RaiseLocal \/ CopyFails \/ PrepareFails \/ FetchFails
            \/ \E S \in SUBSET OutputBlocks : Keep(S)
  <2>1. output' = {} /\ pc' \in {"returned", "idle"}
    BY <1>11 DEF RaiseLocal, CopyFails, PrepareFails, FetchFails, Raise, Returns, Keep,
                 Memory, Stages, LocalStage
  <2>2. pc' = "returned" => call'.status # "success"
    <3>1. TypeOK BY DEF Memory
    <3> QED BY <1>11, <3>1 DEF RaiseLocal, CopyFails, PrepareFails, FetchFails, Raise,
                               Returns, Keep, TypeOK
  <2> QED BY <2>1, <2>2, NoOutputProgress DEF InCall
<1>12. CASE ReturnOutput
  BY <1>12 DEF ReturnOutput, Progress, OneEach, AllAnswered, Answered, Requested,
               OthersAnswered, ToSort, ToFetch, InCall
<1>13. CASE Aborted \/ UNCHANGED vars
  BY <1>13 DEF Aborted, vars, Progress, OneEach, AllAnswered, Answered, Requested,
               OthersAnswered, ToSort, ToFetch, InCall
<1> QED BY <1>1, <1>2, <1>3, <1>4, <1>5, <1>6, <1>7, <1>8, <1>9, <1>10, <1>11, <1>12, <1>13
     DEF Next

-----------------------------------------------------------------------------
LEMMA InitIInv ==
  ASSUME Init
  PROVE  IInv
<1>1. Memory BY InitMemory
<1>2. StoreFits BY InitStoreFits
<1>3. Contents BY DEF Init, Contents, ListHolds, FetchedHolds, OutputHolds, EmptyHolds
<1>4. Progress
  BY DEF Init, Progress, OneEach, AllAnswered, OthersAnswered, ToSort, ToFetch, InCall
<1> QED BY <1>1, <1>2, <1>3, <1>4 DEF IInv

LEMMA DeliveredFollows ==
  ASSUME IInv
  PROVE  Delivered
<1> SUFFICES ASSUME pc = "returned", call.status = "success"
             PROVE  /\ \A gid \in Ids, name \in Names :
                         Cardinality({e \in output : e.id = gid /\ e.name = name})
                           = IF Requested(gid, name) THEN 1 ELSE 0
                    /\ OutputHolds
  BY DEF Delivered, OutputHolds
<1>1. OutputHolds BY DEF IInv, Contents
<1>2. ASSUME NEW gid \in Ids, NEW name \in Names
      PROVE  Cardinality({e \in output : e.id = gid /\ e.name = name})
               = IF Requested(gid, name) THEN 1 ELSE 0
  <2> DEFINE E == {e \in output : e.id = gid /\ e.name = name}
  <2>1. (\E e \in output : e.id = gid /\ e.name = name) <=> Requested(gid, name)
    BY DEF IInv, Progress, AllAnswered, Answered
  <2>2. CASE Requested(gid, name)
    <3>1. PICK e \in output : e.id = gid /\ e.name = name BY <2>1, <2>2
    <3>2. E = {e} BY <3>1 DEF IInv, Progress, OneEach
    <3> HIDE DEF E
    <3>3. Cardinality(E) = 1 BY <3>2, FS_Singleton
    <3> QED BY <2>2, <3>3 DEF E
  <2>3. CASE ~Requested(gid, name)
    <3>1. E = {} BY <2>1, <2>3
    <3> HIDE DEF E
    <3>2. Cardinality(E) = 0 BY <3>1, FS_EmptySet
    <3> QED BY <2>3, <3>2 DEF E
  <2> QED BY <2>2, <2>3
<1> QED BY <1>1, <1>2

THEOREM InvariantHolds == Spec => []IInv
<1>1. Init => IInv BY InitIInv
<1>2. IInv /\ [Next]_vars => IInv'
  BY NextMemory, NextStoreFits, NextContents, NextProgress DEF IInv
<1> QED BY <1>1, <1>2, PTL DEF Spec

\* A call that returns a result returns what was asked, no more and no less.
THEOREM ResultsAreDelivered == Spec => []Delivered
<1>1. IInv => Delivered BY DeliveredFollows
<1> QED BY <1>1, InvariantHolds, PTL
=============================================================================
