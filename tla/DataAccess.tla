----------------------------- MODULE DataAccess -----------------------------
(***************************************************************************)
(* What one rank looks up and hands out: the accessors yt_getGridInfo_*    *)
(* of the simulation, and libyt.derived_func, libyt.get_particle,          *)
(* libyt.get_field_remote and libyt.get_particle_remote, with which the    *)
(* user's Python asks for data.                                            *)
(*                                                                         *)
(* The subject is memory.  Buffers are bare pointers: the simulation owns  *)
(* those it bound at yt_commit, the ones libyt allocates pass from the     *)
(* function that fills them to a DataHub, a receive list, a dictionary and *)
(* at last an array of the user's, and nothing but the code's own early    *)
(* returns says who frees them.  The other ranks appear as the outcomes    *)
(* they can cause (a failed vote, a grid that its owner did not prepare):  *)
(* module RemoteData has the collective side of the same calls.            *)
(***************************************************************************)
EXTENDS Integers, SequencesExt

CONSTANTS
  IndexOffset,  \* index_offset_, the id of the first grid
  NumGrids,     \* num_grids_
  Local,        \* the grids of this rank, MyRank in proc_num_
  Fields,       \* the field names that are asked for
  Particles,    \* the <<particle type, attribute>> that are asked for
  Known,        \* those of them that field_list_ or particle_list_ has
  Derived,      \* the fields of type "derived_func"
  HasFunc,      \* those with a derived_func or a get_par_attr
  Commits,      \* what the simulation may commit
  PrepareLists, \* the to_prepare lists of the remote reads
  FetchLists,   \* the nonlocal_id lists of the remote reads
  MaxNames,     \* the longest fname_list
  MaxBlocks     \* buffers the heap can hold

Names  == Fields \cup Particles
Grids  == IndexOffset .. IndexOffset + NumGrids - 1
Ids    == IndexOffset - 1 .. IndexOffset + NumGrids
Blocks == 1 .. MaxBlocks

ASSUME SizesAssumption ==
  /\ IndexOffset \in Int
  /\ NumGrids \in Nat
  /\ MaxNames \in Nat
  /\ MaxBlocks \in Nat
ASSUME NamesAssumption ==
  /\ Fields \cap Particles = {}
  /\ Known \subseteq Names
  /\ Derived \subseteq Fields
ASSUME ListsAssumption ==
  /\ Local \subseteq Grids
  /\ PrepareLists \subseteq Seq(Ids)
  /\ FetchLists \subseteq Seq(Ids)
ASSUME CommitsAssumption ==
  \A c \in Commits : c.count \in [Known \cap Particles -> [0 .. NumGrids - 1 -> Int]]

\* A data_ptr: a block of the heap, null, or memory of the simulation.
NullPtr  == 0
SimPtr   == -1
Pointers == Blocks \cup {NullPtr, SimPtr}
Free     == <<>>
Scratch  == <<"scratch">>  \* contents that libyt does not read again

VARIABLES
  pybind,   \* is libyt built with pybind11?
  store,    \* the committed arrays and the dictionaries of bound data
  heap,     \* what each block holds: a quantity of a grid, or nothing
  call,     \* the Python call: its function, names, lists and outcome
  list,     \* data_array_list_ of the DataHub, or storage
  flags,    \* is_new_allocation_list_
  todo,     \* what the loop over the grids has not reached
  later,    \* generate_gid_list, or fetch_data_list while it is built
  empty,    \* fetch_particle_count0_list
  fetched,  \* mpi_fetched_data_
  output,   \* py_output, or the array to return
  kept,     \* the buffers of the arrays that the user's Python keeps
  pc

vars == <<pybind, store, heap, call, list, flags, todo, later, empty, fetched,
          output, kept, pc>>

-----------------------------------------------------------------------------
(* The committed data and the look-ups in it *)

\* num_grids_ is 0 and every array null before yt_commit and after yt_free.
EmptyStore == [hier |-> <<>>, proc |-> <<>>, count |-> <<>>,
               bound |-> {}, flat |-> {}]

\* Mutant: the offset is forgotten.
IndexFromZero(gid) == gid
Index(gid)   == gid - IndexOffset
InRange(gid) == Index(gid) \in DOMAIN store.hier

\* proc_num stays -1 when the look-up fails.
ProcNumIsMine(gid) == InRange(gid) /\ store.proc[Index(gid)]

CountKnown(gid, name) == InRange(gid) /\ name \in Known /\ name \in Particles

\* GetParticleRemote does not initialize count, nor look at the status: any
\* value may be there.
CountsSeen(gid, name) ==
  IF CountKnown(gid, name) THEN {store.count[name][Index(gid)]} ELSE {0, 1}
SeemsFilled(gid, name) == \E count \in CountsSeen(gid, name) : count > 0
SeemsEmpty(gid, name)  == \E count \in CountsSeen(gid, name) : count <= 0

\* libyt.grid_data and libyt.particle_data.
IsBound(gid, name) == <<gid, name>> \in store.bound

HierarchyAccessors ==
  {"Dimensions", "LeftEdge", "RightEdge", "ParentId", "Level", "ProcNum"}
Accessors ==
  HierarchyAccessors \cup {"ParticleCount", "FieldData", "ParticleData"}

\* The grid whose value an accessor finds, NoGrid if it finds none.
NoGrid == IndexOffset - 2
Found(what, gid, name) ==
  CASE what \in HierarchyAccessors ->
         IF InRange(gid) THEN store.hier[Index(gid)] ELSE NoGrid
    [] what = "ParticleCount" ->
         IF CountKnown(gid, name) THEN store.hier[Index(gid)] ELSE NoGrid
    [] what \in {"FieldData", "ParticleData"} ->
         IF IsBound(gid, name) THEN gid ELSE NoGrid

\* yt_getGridInfo_ParentId returns YT_SUCCESS in both branches.
Succeeds(what, value) == value # NoGrid \/ what = "ParentId"

\* The particle type or field an accessor is asked about.
NamesFor(what) ==
  CASE what \in HierarchyAccessors               -> {"none"}
    [] what \in {"ParticleCount", "ParticleData"} -> Particles
    [] what = "FieldData"                        -> Fields

\* yt_getGridInfo_*: before yt_commit they log and return YT_FAIL.  They only
\* read, so that they are a function of the state.
GetGridInfo(what, gid, name) ==
  LET value == Found(what, gid, name)
  IN  [value |-> value, ok |-> store # EmptyStore /\ Succeeds(what, value)]

-----------------------------------------------------------------------------
(* The heap *)

BlocksOf(entries) == {entries[i].ptr : i \in DOMAIN entries} \cap Blocks
OutputBlocks      == {e.ptr : e \in output} \cap Blocks
Live              == {b \in Blocks : heap[b] # Free}
Lost              == Live \ (BlocksOf(list) \cup BlocksOf(fetched)
                               \cup OutputBlocks \cup kept)

Full     == Live = Blocks
Fresh    == CHOOSE b \in Blocks : heap[b] = Free
Set(h, S, value) == [b \in Blocks |-> IF b \in S THEN value ELSE h[b]]
FreeAll(h, S) == Set(h, S, Free)

\* The loop over data_array_list_ is over: what it has added is new.
Flagged == [i \in DOMAIN list |-> IF i \in DOMAIN flags THEN flags[i] ELSE TRUE]

\* Mutant: a DataHub that leaves its data to the caller.
ClearedByNobody(marks) == {}
\* ClearCache frees what is_new_allocation_list_ marks.
Cleared(marks) == {list[i].ptr : i \in {j \in DOMAIN marks : marks[j]}}
\* Mutant: is_new_allocation_list_ is not cleared.
DropOnlyList == list' = <<>> /\ UNCHANGED flags
DropList == list' = <<>> /\ flags' = <<>>

-----------------------------------------------------------------------------
(* yt_commit and yt_free, as far as the data of this rank is concerned *)

Commit(c) ==
  /\ pc = "idle" /\ store = EmptyStore
  /\ store' = [hier  |-> [i \in 0 .. NumGrids - 1 |-> i + IndexOffset],
               proc  |-> [i \in 0 .. NumGrids - 1 |-> i + IndexOffset \in Local],
               count |-> c.count, bound |-> c.bound, flat |-> c.flat]
  /\ UNCHANGED <<pybind, heap, call, list, flags, todo, later, empty, fetched, output,
                 kept, pc>>

FreeIteration ==
  /\ pc = "idle" /\ store # EmptyStore
  /\ store' = EmptyStore
  /\ UNCHANGED <<pybind, heap, call, list, flags, todo, later, empty, fetched, output,
                 kept, pc>>

-----------------------------------------------------------------------------
(* GenerateLocalFieldData and GenerateLocalParticleData *)

LocalCalls  == {"derived_func", "get_particle"}
RemoteCalls == {"get_field_remote", "get_particle_remote"}
OfFields    == {"derived_func", "get_field_remote"}

\* What can be said before the loop over the grids.
Beginning(name) ==
  CASE name \notin Known                    -> "failed"
    [] name \in Fields /\ name \notin HasFunc -> "not_implemented"
    [] OTHER                                -> "success"

\* What becomes of one grid.
Generated(gid, name) ==
  CASE ~ProcNumIsMine(gid)                       -> "failed"
    [] name \in Fields /\ gid \in store.flat     -> "failed"
    [] name \in Particles /\ store.count[name][Index(gid)] < 0 -> "failed"
    [] name \in Particles /\ store.count[name][Index(gid)] = 0 -> "nothing"
    [] name \in Particles /\ name \notin HasFunc -> "not_implemented"
    [] OTHER                                     -> "success"

AfterLoop(status, rest) ==
  IF status = "success" /\ rest # <<>> THEN "generate" ELSE "generated"

\* derived_func and get_particle begin with an empty storage vector.
CallLocal(op, name, gid) ==
  /\ pc = "idle" /\ store # EmptyStore
  /\ op \in OfFields <=> name \in Fields
  /\ call' = [op |-> op, name |-> name, names |-> {name}, left |-> 0,
              prepare |-> <<gid>>, fetch |-> <<gid>>,
              status |-> Beginning(name)]
  /\ todo' = <<gid>>
  /\ pc' = AfterLoop(Beginning(name), <<gid>>)
  /\ UNCHANGED <<pybind, store, heap, list, flags, later, empty, fetched, output, kept>>

\* AllocateMemory writes to what malloc returns without looking at it.
GenerateCrashes ==
  /\ pc = "generate" /\ Generated(Head(todo), call.name) = "success" /\ Full
  /\ pc' = "aborted"
  /\ UNCHANGED <<pybind, store, heap, call, list, flags, todo, later, empty, fetched,
                 output, kept>>

\* One turn of the loop: a buffer, an entry without one, or an early return.
Generate ==
  /\ pc = "generate"
  /\ Generated(Head(todo), call.name) = "success" => ~Full
  /\ LET gid    == Head(todo)
         status == Generated(gid, call.name)
     IN  IF status \in {"failed", "not_implemented"}
         THEN /\ call' = [call EXCEPT !.status = status]
              /\ pc' = "generated"
              /\ UNCHANGED <<heap, list, todo>>
         ELSE /\ heap' = IF status = "nothing" THEN heap
                         ELSE [heap EXCEPT ![Fresh] = <<call.name, gid>>]
              /\ list' = Append(list, [id  |-> gid,
                                       ptr |-> IF status = "nothing"
                                               THEN NullPtr ELSE Fresh])
              /\ todo' = Tail(todo)
              /\ pc' = AfterLoop("success", Tail(todo))
              /\ UNCHANGED call
  /\ UNCHANGED <<pybind, store, flags, later, empty, fetched, output, kept>>

-----------------------------------------------------------------------------
(* DerivedFunc and GetParticle *)

Returns(outcome) ==
  /\ call' = [call EXCEPT !.status = outcome]
  /\ todo' = <<>>
  /\ pc' = "returned"
  /\ UNCHANGED <<pybind, store, later, empty, fetched, kept>>

\* The storage is freed before the exception is raised, except by
\* LibytParticleGetParticle of the C API.
RaiseLocal ==
  /\ pc = "generated" /\ call.op \in LocalCalls /\ call.status # "success"
  /\ heap' = IF pybind \/ call.op = "derived_func"
             THEN FreeAll(heap, BlocksOf(list)) ELSE heap
  /\ DropList
  /\ Returns(call.status)
  /\ UNCHANGED output

\* No particles: None.
ReturnNone ==
  /\ pc = "generated" /\ call.op \in LocalCalls /\ call.status = "success"
  /\ list[1].ptr = NullPtr
  /\ output' = {[id |-> list[1].id, name |-> call.name, ptr |-> NullPtr]}
  /\ DropList
  /\ Returns("success")
  /\ UNCHANGED heap

\* The C API gives the buffer itself to NumPy, which will free it.
HandOver ==
  /\ pc = "generated" /\ call.op \in LocalCalls /\ call.status = "success"
  /\ ~pybind /\ list[1].ptr # NullPtr
  /\ output' = {[id |-> list[1].id, name |-> call.name, ptr |-> list[1].ptr]}
  /\ DropList
  /\ Returns("success")
  /\ UNCHANGED heap

\* Mutant: the array is made over the storage.
WrapAndFree ==
  /\ pc = "generated" /\ call.op \in LocalCalls /\ call.status = "success"
  /\ pybind /\ list[1].ptr # NullPtr /\ ~Full
  /\ output' = {[id |-> list[1].id, name |-> call.name, ptr |-> list[1].ptr]}
  /\ heap' = FreeAll(heap, BlocksOf(list))
  /\ DropList
  /\ Returns("success")

\* pybind11 allocates an array of its own: the data is copied, the storage
\* freed.
CopyOver ==
  /\ pc = "generated" /\ call.op \in LocalCalls /\ call.status = "success"
  /\ pybind /\ list[1].ptr # NullPtr /\ ~Full
  /\ output' = {[id |-> list[1].id, name |-> call.name, ptr |-> Fresh]}
  /\ heap' = FreeAll([heap EXCEPT ![Fresh] = heap[list[1].ptr]], BlocksOf(list))
  /\ DropList
  /\ Returns("success")

\* That array cannot be had: pybind11 throws over the loop that frees.
CopyFails ==
  /\ pc = "generated" /\ call.op \in LocalCalls /\ call.status = "success"
  /\ pybind /\ list[1].ptr # NullPtr /\ Full
  /\ heap' = Set(heap, BlocksOf(list), Scratch)
  /\ DropList
  /\ Returns("no_memory")
  /\ UNCHANGED output

-----------------------------------------------------------------------------
(* GetFieldRemote and GetParticleRemote *)

CallRemote(op, prepare, fetch) ==
  /\ pc = "idle" /\ store # EmptyStore
  /\ call' = [op |-> op, name |-> "none", names |-> {}, left |-> MaxNames,
              prepare |-> prepare, fetch |-> fetch, status |-> "success"]
  /\ pc' = "name"
  /\ UNCHANGED <<pybind, store, heap, list, flags, todo, later, empty, fetched, output,
                 kept>>

\* GetLocalFieldData and GetLocalParticleData begin with a new DataHub: a
\* field to generate, or data to look up in the dictionaries.
NextName(name) ==
  /\ pc = "name" /\ call.left > 0
  /\ call.op \in OfFields <=> name \in Fields
  /\ LET status == IF name \in Derived THEN Beginning(name)
                   ELSE IF name \in Known THEN "success" ELSE "failed"
     IN  /\ call' = [call EXCEPT !.name = name, !.names = @ \cup {name},
                                 !.left = @ - 1, !.status = status]
         /\ pc' = IF name \in Derived \/ status # "success"
                  THEN AfterLoop(status, call.prepare) ELSE "look"
  /\ todo' = call.prepare
  /\ UNCHANGED <<pybind, store, heap, list, flags, later, empty, fetched, output,
                 kept>>

\* Bound data enters the list as it is, and stays the simulation's.
LookFinds ==
  /\ pc = "look" /\ todo # <<>> /\ IsBound(Head(todo), call.name)
  /\ call.name \in Fields \/ SeemsFilled(Head(todo), call.name)
  /\ list' = Append(list, [id |-> Head(todo), ptr |-> SimPtr])
  /\ flags' = Append(flags, FALSE)
  /\ todo' = Tail(todo)
  /\ UNCHANGED <<pybind, store, heap, call, later, empty, fetched, output, kept, pc>>

\* A field that is not bound is an error.
LookFails ==
  /\ pc = "look" /\ todo # <<>> /\ ~IsBound(Head(todo), call.name)
  /\ call.name \in Fields
  /\ call' = [call EXCEPT !.status = "failed"]
  /\ pc' = "generated"
  /\ UNCHANGED <<pybind, store, heap, list, flags, todo, later, empty, fetched,
                 output, kept>>

\* Particles that are not bound are to be generated.
LookPostpones ==
  /\ pc = "look" /\ todo # <<>> /\ ~IsBound(Head(todo), call.name)
  /\ call.name \in Particles /\ SeemsFilled(Head(todo), call.name)
  /\ later' = Append(later, Head(todo))
  /\ todo' = Tail(todo)
  /\ UNCHANGED <<pybind, store, heap, call, list, flags, empty, fetched, output,
                 kept, pc>>

\* A grid without particles is not prepared.
LookSkips ==
  /\ pc = "look" /\ todo # <<>>
  /\ call.name \in Particles /\ SeemsEmpty(Head(todo), call.name)
  /\ todo' = Tail(todo)
  /\ UNCHANGED <<pybind, store, heap, call, list, flags, later, empty, fetched,
                 output, kept, pc>>

LookEnds ==
  /\ pc = "look" /\ todo = <<>>
  /\ todo' = later
  /\ later' = <<>>
  /\ pc' = AfterLoop("success", later)
  /\ UNCHANGED <<pybind, store, heap, call, list, flags, empty, fetched, output,
                 kept>>

\* An exception leaves the call.  The DataHub frees its own buffers.  Nobody
\* frees mpi_fetched_data_.  pybind11 drops py_output, the C API does not.
Raise(marks) ==
  /\ heap' = FreeAll(Set(heap, BlocksOf(fetched) \cup OutputBlocks, Scratch),
                     Cleared(marks) \cup (IF pybind THEN OutputBlocks ELSE {}))
  /\ fetched' = <<>> /\ output' = {} /\ empty' = {}
  /\ DropList
  /\ call' = [call EXCEPT !.status = "failed"]
  /\ todo' = <<>>
  /\ pc' = "returned"
  /\ UNCHANGED <<pybind, store, kept, later>>

\* The vote on the DataHubs, or one of the votes of GetRemoteData before the
\* reads, failed here or on another rank.
PrepareFails ==
  /\ pc = "generated" /\ call.op \in RemoteCalls
  /\ Raise(Flagged)

\* All are prepared.  fetch_data_list is there for fields, and has to be
\* sorted out for particles.
PrepareSucceeds ==
  /\ pc = "generated" /\ call.op \in RemoteCalls /\ call.status = "success"
  /\ flags' = Flagged
  /\ todo' = call.fetch
  /\ pc' = IF call.op \in OfFields THEN "fetch" ELSE "sort"
  /\ UNCHANGED <<pybind, store, heap, call, list, later, empty, fetched, output, kept>>

SortFilled ==
  /\ pc = "sort" /\ todo # <<>> /\ SeemsFilled(Head(todo), call.name)
  /\ later' = Append(later, Head(todo))
  /\ todo' = Tail(todo)
  /\ UNCHANGED <<pybind, store, heap, call, list, flags, empty, fetched, output,
                 kept, pc>>

\* Mutant: a grid without particles gets no entry.
SortDropsEmpty ==
  /\ pc = "sort" /\ todo # <<>> /\ SeemsEmpty(Head(todo), call.name)
  /\ todo' = Tail(todo)
  /\ UNCHANGED <<pybind, store, heap, call, list, flags, later, empty, fetched,
                 output, kept, pc>>

SortEmpty ==
  /\ pc = "sort" /\ todo # <<>> /\ SeemsEmpty(Head(todo), call.name)
  /\ empty' = empty \cup {Head(todo)}
  /\ todo' = Tail(todo)
  /\ UNCHANGED <<pybind, store, heap, call, list, flags, later, fetched, output,
                 kept, pc>>

SortEnds ==
  /\ pc = "sort" /\ todo = <<>>
  /\ todo' = later
  /\ later' = <<>>
  /\ pc' = "fetch"
  /\ UNCHANGED <<pybind, store, heap, call, list, flags, empty, fetched, output,
                 kept>>

\* FetchRemoteData: the rank has prepared the grid, and the read succeeds.
Fetch ==
  /\ pc = "fetch" /\ todo # <<>>
  /\ InRange(Head(todo)) /\ ~Full
  /\ heap' = [heap EXCEPT ![Fresh] = <<call.name, Head(todo)>>]
  /\ fetched' = Append(fetched, [id |-> Head(todo), ptr |-> Fresh])
  /\ todo' = Tail(todo)
  /\ UNCHANGED <<pybind, store, call, list, flags, later, empty, output, kept, pc>>

\* Its buffer is not there, and MPI is given a null address: MPI aborts.
FetchAborts ==
  /\ pc = "fetch" /\ todo # <<>> /\ InRange(Head(todo)) /\ Full
  /\ pc' = "aborted"
  /\ UNCHANGED <<pybind, store, heap, call, list, flags, todo, later, empty, fetched,
                 output, kept>>

\* The loop ends: all read, or a grid that is not prepared or cannot be read.
\* The vote then fails if this rank or another one failed.
FetchFails ==
  /\ pc = "fetch"
  /\ Raise(flags)

\* Every rank read all it wanted: the arrays go into the dictionary.  An
\* array that was there under the same key is dropped by it.
Wrap ==
  /\ pc = "fetch" /\ todo = <<>>
  /\ LET Latest(gid) == CHOOSE i \in DOMAIN fetched :
                        /\ fetched[i].id = gid
                        /\ \A j \in DOMAIN fetched : fetched[j].id = gid => j <= i
         got   == {fetched[i].id : i \in DOMAIN fetched} \ empty
         new   == {[id |-> gid, name |-> call.name, ptr |-> fetched[Latest(gid)].ptr] :
                     gid \in got}
                  \cup {[id |-> gid, name |-> call.name, ptr |-> NullPtr] : gid \in empty}
         other == {e \in output : e.name # call.name \/ e.id \notin got \cup empty}
         dropped == (OutputBlocks \cup BlocksOf(fetched))
                      \ {e.ptr : e \in other \cup new}
     IN  /\ output' = other \cup new
         /\ heap' = FreeAll(heap, dropped \cup Cleared(flags))
  /\ fetched' = <<>> /\ empty' = {}
  /\ DropList
  /\ pc' = "name"
  /\ UNCHANGED <<pybind, store, call, todo, kept, later>>

ReturnOutput ==
  /\ pc = "name"
  /\ pc' = "returned"
  /\ UNCHANGED <<pybind, store, heap, call, list, flags, todo, later, empty, fetched,
                 output, kept>>

-----------------------------------------------------------------------------
(* The user's Python *)

NoCall == [op |-> "none", name |-> "none", names |-> {}, left |-> 0,
           prepare |-> <<>>, fetch |-> <<>>, status |-> "success"]

\* Some of the arrays are kept, the others go with the returned object.
Keep(S) ==
  /\ pc = "returned"
  /\ kept' = kept \cup S
  /\ heap' = Set(FreeAll(heap, OutputBlocks), S, Scratch)
  /\ output' = {}
  /\ call' = NoCall
  /\ pc' = "idle"
  /\ UNCHANGED <<pybind, store, list, flags, todo, later, empty, fetched>>

Drop(b) ==
  /\ pc = "idle"
  /\ kept' = kept \ {b}
  /\ heap' = FreeAll(heap, {b})
  /\ UNCHANGED <<pybind, store, call, list, flags, todo, later, empty, fetched, output, pc>>

Aborted == pc = "aborted" /\ UNCHANGED vars

Init ==
  /\ pybind \in BOOLEAN
  /\ store = EmptyStore
  /\ heap = [b \in Blocks |-> Free]
  /\ call = NoCall
  /\ list = <<>> /\ flags = <<>> /\ todo = <<>> /\ later = <<>> /\ fetched = <<>>
  /\ empty = {} /\ output = {} /\ kept = {}
  /\ pc = "idle"

Next ==
  \/ \E c \in Commits : Commit(c)
  \/ FreeIteration
  \/ \E op \in LocalCalls, name \in Names, gid \in Ids : CallLocal(op, name, gid)
  \/ Generate \/ GenerateCrashes
  \/ RaiseLocal \/ ReturnNone \/ HandOver \/ CopyOver \/ CopyFails
  \/ \E op \in RemoteCalls :
       \E prepare \in PrepareLists, fetch \in FetchLists : CallRemote(op, prepare, fetch)
  \/ \E name \in Names : NextName(name)
  \/ LookFinds \/ LookFails \/ LookPostpones \/ LookSkips \/ LookEnds
  \/ PrepareFails \/ PrepareSucceeds \/ SortFilled \/ SortEmpty \/ SortEnds
  \/ Fetch \/ FetchAborts \/ FetchFails \/ Wrap \/ ReturnOutput
  \/ \E S \in SUBSET OutputBlocks : Keep(S)
  \/ \E b \in kept : Drop(b)
  \/ Aborted

Spec == Init /\ [][Next]_vars

-----------------------------------------------------------------------------
(* Properties *)

Statuses == {"success", "failed", "not_implemented", "no_memory"}
Entries  == [id : Ids, ptr : Pointers]

TypeOK ==
  /\ pybind \in BOOLEAN
  /\ heap \in [Blocks -> {Free, Scratch} \cup (Names \X Ids)]
  /\ call \in [op : LocalCalls \cup RemoteCalls \cup {"none"},
              name : Names \cup {"none"}, names : SUBSET Names,
              left : 0 .. MaxNames, prepare : Seq(Ids), fetch : Seq(Ids),
              status : Statuses]
  /\ list \in Seq(Entries) /\ fetched \in Seq(Entries)
  /\ flags \in Seq(BOOLEAN) /\ Len(flags) <= Len(list)
  /\ todo \in Seq(Ids) /\ later \in Seq(Ids) /\ empty \subseteq Ids
  /\ output \subseteq [id : Ids, name : Names, ptr : Pointers]
  /\ kept \subseteq Blocks
  /\ pc \in {"idle", "name", "look", "generate", "generated", "sort", "fetch",
             "returned", "aborted"}

(***************************************************************************)
(* Safety: every buffer that some part of the program may still read or    *)
(* free is live, and exactly one part will free it.  ClearCache, the loops *)
(* that free storage, NumPy and the user's arrays would otherwise free a   *)
(* buffer twice, or one that belongs to the simulation.                    *)
(***************************************************************************)
Distinct(entries) ==
  \A i, j \in DOMAIN entries :
    entries[i].ptr = entries[j].ptr /\ entries[i].ptr \in Blocks => i = j

FlagsAligned ==
  \A i \in DOMAIN flags : flags[i] <=> list[i].ptr # SimPtr

Ownership ==
  /\ BlocksOf(list) \cup BlocksOf(fetched) \cup OutputBlocks \cup kept \subseteq Live
  /\ Distinct(list) /\ Distinct(fetched)
  /\ \A d, e \in output : d.ptr = e.ptr /\ d.ptr \in Blocks => d = e
  /\ BlocksOf(list) \cap (BlocksOf(fetched) \cup OutputBlocks \cup kept) = {}
  /\ BlocksOf(fetched) \cap (OutputBlocks \cup kept) = {}
  /\ OutputBlocks \cap kept = {}
  /\ FlagsAligned

(***************************************************************************)
(* Action property: a buffer that nobody can free any more is left behind  *)
(* only by a remote read that fails (mpi_fetched_data_, and py_output of   *)
(* the C API) or by a copy that finds no memory.  No call that succeeds,   *)
(* and no call that generates local data and fails, leaves one.            *)
(***************************************************************************)
LossNeedsFailure ==
  [][Lost' \subseteq Lost
       \/ (/\ pc' = "returned"
           /\ \/ call'.status = "no_memory"
              \/ call'.op \in RemoteCalls /\ call'.status = "failed")]_vars

(***************************************************************************)
(* Safety: a call that returns a result returns exactly what was asked:    *)
(* one entry for each grid and name, with the data of that grid and name,  *)
(* or None if the grid has no particles of that type.                      *)
(***************************************************************************)
Requested(gid, name) ==
  gid \in ToSet(call.fetch) /\ name \in call.names

HasParticles(gid, name) ==
  name \in Fields \/ (CountKnown(gid, name) /\ store.count[name][Index(gid)] > 0)

Delivered ==
  pc = "returned" /\ call.status = "success" =>
    /\ \A gid \in Ids, name \in Names :
         Cardinality({e \in output : e.id = gid /\ e.name = name})
           = IF Requested(gid, name) THEN 1 ELSE 0
    /\ \A e \in output :
         IF e.ptr \in Blocks THEN heap[e.ptr] = <<e.name, e.id>>
         ELSE e.ptr = NullPtr /\ ~HasParticles(e.id, e.name)

(***************************************************************************)
(* Safety: what an accessor finds, by an id that starts at index_offset_,  *)
(* is what the simulation committed for that very grid, the first and the  *)
(* last one included; past them, and for every id between yt_free and the  *)
(* next yt_commit, it finds nothing.                                       *)
(***************************************************************************)
AnswersAreTrue ==
  \A what \in Accessors, gid \in Ids : \A name \in NamesFor(what) :
    LET answer == GetGridInfo(what, gid, name)
    IN  /\ answer.value # NoGrid => answer.value = gid
        /\ answer.value # NoGrid \/ answer.ok => store # EmptyStore
        /\ what \in HierarchyAccessors /\ store # EmptyStore =>
             (answer.value # NoGrid <=> gid \in Grids)

(***************************************************************************)
(* What the comment of each accessor says: it "returns YT_FAIL if error    *)
(* occurs".  Nothing found is an error, which yt_getGridInfo_ParentId logs *)
(* and reports as a success.                                               *)
(***************************************************************************)
ErrorsAreReported ==
  \A what \in Accessors, gid \in Ids : \A name \in NamesFor(what) :
    LET answer == GetGridInfo(what, gid, name)
    IN  answer.ok => answer.value # NoGrid
=============================================================================
