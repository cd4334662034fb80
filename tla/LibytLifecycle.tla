--------------------------- MODULE LibytLifecycle ---------------------------
(***************************************************************************)
(* The calls a simulation makes to libyt, from yt_initialize to            *)
(* yt_finalize, and what they do to the check points of                    *)
(* LibytProcessControl and to the storage of DataStructureAmr.  All ranks  *)
(* run the same program, which is any sequence of calls: also calls out of *)
(* order, calls that fail and are made again, iteration after iteration.   *)
(* A rank that does not wait in MPI may be ahead of the others.            *)
(*                                                                         *)
(* A rank can have no grid, and num_par_types can be 0; there is at least  *)
(* one field.  Whether the hierarchy is valid is left open here; the check *)
(* is the module HierarchyCheck.  The inline functions that yt_run_*       *)
(* starts after its barrier are the module InlineFunctions.                *)
(***************************************************************************)
EXTENDS Integers, Sequences, FiniteSets

CONSTANTS
  Ranks,
  GridsOf,    \* num_grids_local of each rank
  NumFields,  \* num_fields
  MaxLead     \* bound on how many calls a rank is ahead of another

ASSUME RankAssumption == IsFiniteSet(Ranks) /\ Ranks # {}
ASSUME GridAssumption == GridsOf \in [Ranks -> Nat]
ASSUME SizeAssumption == NumFields \in Nat \ {0} /\ MaxLead \in Nat \ {0}

\* How much of the storage yt_set_Parameters allocates before a number turns
\* out to be negative: nothing, the lists of fields and particles, also the
\* local grids, or all of it.  miscounted: num_grids is not the sum of the
\* ranks' num_grids_local.
Stored ==
  [set |-> 4, set_miscounted |-> 4, set_no_hierarchy |-> 3, set_no_grids |-> 2,
   set_no_fields |-> 0]

Sets == DOMAIN Stored

Calls ==
  Sets \cup {"initialize", "set_invalid", "get_fields", "get_particles",
             "get_grids", "commit", "run", "free", "finalize"}

\* The check points of LibytProcessControl.
Flags ==
  {"initialized", "param_yt_set", "get_fields_ptr", "get_particles_ptr",
   "get_grids_ptr", "commit_grids", "need_free"}

\* A part of the storage is absent, or was made by the latest
\* yt_set_Parameters, or by an earlier one.
Ages == {"none", "current", "old"}

VARIABLES
  parTypes,   \* num_par_types > 0
  calls,      \* the part of the program some rank has still to call
  at,         \* how many of these a rank has called
  pc,         \* where a rank is
  initCount,  \* init_count of yt_initialize: 0, 1, or more
  flags,      \* the check points that are set
  store,      \* the storage and the Python dictionaries
  failed,     \* the ranks in which a step went wrong that others do not see,
              \* since they were last in yt_free together
  crashed     \* a rank has read through a null pointer

vars == <<parTypes, calls, at, pc, initCount, flags, store, failed, crashed>>

\* The places where a rank waits in MPI: the two gathers of yt_commit, and
\* the MPI_Barrier with which yt_free and yt_run_* begin.
Waiting == {"count", "gather", "free", "run"}

\* libyt.grid_data[gid] of a local grid: no dictionary, or the fields in it.
Absent == 0 .. 0

Labels(r) == [1 .. GridsOf[r] -> {Absent} \cup SUBSET (1 .. NumFields)]

NoLabels(r) == [g \in 1 .. GridsOf[r] |-> Absent]

Stores(r) ==
  [fields : Ages, particles : Ages, grids : Ages, hierarchy : Ages,
   sumFits : BOOLEAN, written : BOOLEAN, labels : Labels(r), data : Ages]

EmptyStore(r) ==
  [fields |-> "none", particles |-> "none", grids |-> "none",
   hierarchy |-> "none", sumFits |-> FALSE, written |-> FALSE,
   labels |-> NoLabels(r), data |-> "none"]

TypeOK ==
  /\ parTypes \in BOOLEAN
  /\ calls \in Seq(Calls) /\ Len(calls) <= MaxLead
  /\ at \in [Ranks -> 0 .. Len(calls)]
  /\ pc \in [Ranks -> {"user", "gathered", "written", "cleanup"} \cup Waiting]
  /\ initCount \in [Ranks -> 0 .. 2]
  /\ flags \in [Ranks -> SUBSET Flags]
  /\ DOMAIN store = Ranks /\ \A r \in Ranks : store[r] \in Stores(r)
  /\ failed \subseteq Ranks
  /\ crashed \in BOOLEAN

-----------------------------------------------------------------------------
(***************************************************************************)
(* The program and the guards of the calls                                 *)
(***************************************************************************)

\* What rank r may call next: what the ranks ahead of it have called, and if
\* there are none, anything.
Choices(r) ==
  IF crashed \/ pc[r] # "user" THEN {}
  ELSE IF at[r] < Len(calls) THEN {calls[at[r] + 1]}
  ELSE IF Len(calls) < MaxLead THEN Calls ELSE {}

\* Rank r makes its next call, which is forgotten when the last rank has made
\* it.
NextCall(r, c) ==
  /\ c \in Choices(r)
  /\ LET all  == IF at[r] < Len(calls) THEN calls ELSE Append(calls, c)
         now  == [at EXCEPT ![r] = @ + 1]
     IN  IF \A q \in Ranks : now[q] > 0
           THEN calls' = Tail(all) /\ at' = [q \in Ranks |-> now[q] - 1]
           ELSE calls' = all /\ at' = now

Has(r, flag) == flag \in flags[r]

\* The plausible bug asks a rank without grids for grids_local all the same.
NeedsGridsPtrAlways(r) == TRUE

NeedsGridsPtr(r) == GridsOf[r] > 0

\* The checks at the beginning of each call.
Admitted(r, c) ==
  CASE c = "initialize" -> ~Has(r, "initialized") /\ initCount[r] = 0
    [] c \in Sets -> Has(r, "initialized") /\ ~Has(r, "need_free")
    [] c = "set_invalid" -> FALSE
    [] c = "get_fields" -> Has(r, "initialized") /\ Has(r, "param_yt_set")
    [] c = "get_particles" ->
         Has(r, "initialized") /\ Has(r, "param_yt_set") /\ parTypes
    [] c = "get_grids" ->
         Has(r, "initialized") /\ Has(r, "param_yt_set") /\ GridsOf[r] > 0
    [] c = "commit" ->
         /\ {"initialized", "param_yt_set", "get_fields_ptr"} \subseteq flags[r]
         /\ parTypes => Has(r, "get_particles_ptr")
         /\ NeedsGridsPtr(r) => Has(r, "get_grids_ptr")
    [] c \in {"run", "free"} -> Has(r, "initialized")
    [] c = "finalize" -> Has(r, "initialized") /\ ~Has(r, "need_free")

Counted(r, c) ==
  initCount' = IF c = "initialize" /\ initCount[r] < 2
                 THEN [initCount EXCEPT ![r] = @ + 1] ELSE initCount

\* A rank with grids did not ask where to put them: its yt_commit is refused,
\* and that of a rank without grids is not.
OwnRefusal(r, c) ==
  /\ c = "commit" /\ GridsOf[r] > 0 /\ ~Has(r, "get_grids_ptr")
  /\ {"initialized", "param_yt_set", "get_fields_ptr"} \subseteq flags[r]
  /\ parTypes => Has(r, "get_particles_ptr")

\* YT_ABORT: the call returns YT_FAIL and has done nothing, but that
\* yt_initialize counts its calls.
Refuse(r) ==
  /\ \E c \in Choices(r) :
       /\ ~Admitted(r, c) /\ NextCall(r, c) /\ Counted(r, c)
       /\ failed' = IF OwnRefusal(r, c) THEN failed \cup {r} ELSE failed
  /\ UNCHANGED <<parTypes, pc, flags, store, crashed>>

Call(r, c) == c \in Choices(r) /\ Admitted(r, c) /\ NextCall(r, c)

SetFlags(r, new) == flags' = [flags EXCEPT ![r] = @ \cup new]

-----------------------------------------------------------------------------
(***************************************************************************)
(* The calls that are not collective                                       *)
(***************************************************************************)

\* Python or its modules may not start.
Initialize(r) ==
  /\ Call(r, "initialize")
  /\ Counted(r, "initialize")
  /\ \/ SetFlags(r, {"initialized"}) /\ UNCHANGED failed
     \/ failed' = failed \cup {r} /\ UNCHANGED flags
  /\ UNCHANGED <<parTypes, pc, store, crashed>>

Older(age) == IF age = "current" THEN "old" ELSE age

\* AllocateStorage: each part is cleaned up if it is there, and made anew if
\* its length is not 0.
Allocate(r, c) ==
  LET s == store[r]
      n == Stored[c]
      Part(upTo, age, wanted) ==
        IF n < upTo THEN Older(age) ELSE IF wanted THEN "current" ELSE "none"
  IN  [s EXCEPT !.fields = Part(1, @, TRUE),
                !.particles = Part(2, @, parTypes),
                !.grids = Part(3, @, GridsOf[r] > 0),
                !.hierarchy = Part(4, @, TRUE),
                !.written = n < 4 /\ @,
                !.sumFits = c # "set_miscounted",
                !.data = Older(@)]

SetParameters(r) ==
  /\ \E c \in Sets \cap Choices(r) :
       /\ Call(r, c)
       /\ store' = [store EXCEPT ![r] = Allocate(r, c)]
       /\ IF Stored[c] = 4
            THEN SetFlags(r, {"param_yt_set", "need_free"})
            ELSE UNCHANGED flags
  /\ UNCHANGED <<parTypes, pc, initCount, failed, crashed>>

GetPtr(r) ==
  /\ \/ Call(r, "get_fields") /\ SetFlags(r, {"get_fields_ptr"})
     \/ Call(r, "get_particles") /\ SetFlags(r, {"get_particles_ptr"})
     \/ Call(r, "get_grids") /\ SetFlags(r, {"get_grids_ptr"})
  /\ UNCHANGED <<parTypes, pc, initCount, store, failed, crashed>>

Finalize(r) ==
  /\ Call(r, "finalize")
  /\ flags' = [flags EXCEPT ![r] = @ \ {"initialized"}]
  /\ UNCHANGED <<parTypes, pc, initCount, store, failed, crashed>>

-----------------------------------------------------------------------------
(***************************************************************************)
(* yt_commit                                                               *)
(***************************************************************************)

Goto(r, there) == pc' = [pc EXCEPT ![r] = there]

\* A rank without grids has nothing to gather and returns at once.
CommitSkipping(r) ==
  /\ Call(r, "commit")
  /\ \/ Goto(r, IF GridsOf[r] = 0 THEN "user" ELSE "count") /\ UNCHANGED failed
     \/ failed' = failed \cup {r} /\ UNCHANGED pc
  /\ UNCHANGED <<parTypes, initCount, flags, store, crashed>>

\* BindInfoToPython and CheckGridsLocal, which look at what this rank's user
\* filled in; a rank that finds an error returns.
Commit(r) ==
  /\ Call(r, "commit")
  /\ \/ Goto(r, "count") /\ UNCHANGED failed
     \/ failed' = failed \cup {r} /\ UNCHANGED pc
  /\ UNCHANGED <<parTypes, initCount, flags, store, crashed>>

\* A rank has its grids_local until it has committed.
HasGrids(r) == GridsOf[r] = 0 \/ store[r].grids # "none"

\* Whether the numbers of local grids that came together add up to the
\* num_grids of rank r.
SumFits(r) == store[r].sumFits /\ \A q \in Ranks : HasGrids(q)

\* SetAllNumGridsLocal.  A rank that sees a wrong sum cleans up and returns;
\* the lists of particle counts, which were not made, are read for it if
\* there are particle types.
CountGrids ==
  /\ ~crashed /\ \A r \in Ranks : pc[r] = "count"
  /\ pc' = [r \in Ranks |-> IF SumFits(r) THEN "gather" ELSE "user"]
  /\ crashed' = (parTypes /\ \E r \in Ranks : ~SumFits(r))
  /\ UNCHANGED <<parTypes, calls, at, initCount, flags, store, failed>>

\* BigMpiAllgatherv, and CheckHierarchyIsValid of the same list on all ranks.
GatherHierarchy ==
  /\ ~crashed /\ \A r \in Ranks : pc[r] = "gather"
  /\ \/ pc' = [r \in Ranks |-> "gathered"]
     \/ pc' = [r \in Ranks |-> "user"]
  /\ UNCHANGED <<parTypes, calls, at, initCount, flags, store, failed, crashed>>

\* The end of BindAllHierarchyToPython: each rank, in its own time, puts the
\* list into the arrays that Python reads.
WriteHierarchy(r) ==
  /\ ~crashed /\ pc[r] = "gathered"
  /\ store' = [store EXCEPT ![r].written = TRUE]
  /\ Goto(r, "written")
  /\ UNCHANGED <<parTypes, calls, at, initCount, flags, failed, crashed>>

\* The loop over the fields goes one too far.
LabelledPastEnd(labels, i, v) ==
  [g \in DOMAIN labels |->
     IF labels[g] # Absent \/ g > i THEN labels[g]
     ELSE IF g < i THEN 1 .. NumFields + 1 ELSE 1 .. v - 1]

\* What libyt.grid_data holds after the loop got to field v of grid i.  If
\* there already is a dictionary for a grid, the new one is dropped.
Labelled(labels, i, v) ==
  [g \in DOMAIN labels |->
     IF labels[g] # Absent \/ g > i THEN labels[g]
     ELSE IF g < i THEN 1 .. NumFields ELSE 1 .. v - 1]

\* BindLocalDataToPython, CleanUpGridsLocal and the check point.  An array
\* may turn out not to be usable; its grid has a dictionary by then.
BindLocalData(r) ==
  LET n == GridsOf[r]
      Bound(i, v) ==
        [store[r] EXCEPT !.labels = Labelled(@, i, v),
                         !.data = IF n > 0 THEN "current" ELSE @]
  IN
  /\ ~crashed /\ pc[r] = "written"
  /\ Goto(r, "user")
  /\ \/ /\ store' = [store EXCEPT ![r] =
                       [Bound(n + 1, 1) EXCEPT !.grids = "none"]]
        /\ SetFlags(r, {"commit_grids"})
        /\ UNCHANGED failed
     \/ /\ \E i \in 1 .. n, v \in 1 .. NumFields :
             store' = [store EXCEPT ![r] = Bound(i, v)]
        /\ failed' = failed \cup {r}
        /\ UNCHANGED flags
  /\ UNCHANGED <<parTypes, calls, at, initCount, crashed>>

-----------------------------------------------------------------------------
(***************************************************************************)
(* yt_run_FunctionArguments and yt_free                                    *)
(***************************************************************************)

Run(r) ==
  /\ Call(r, "run")
  /\ Goto(r, "run")
  /\ UNCHANGED <<parTypes, initCount, flags, store, failed, crashed>>

\* The clean-up does not wait for the other ranks.
FreeAtOnce(r) ==
  /\ Call(r, "free")
  /\ Goto(r, "cleanup")
  /\ UNCHANGED <<parTypes, initCount, flags, store, failed, crashed>>

Free(r) ==
  /\ Call(r, "free")
  /\ Goto(r, "free")
  /\ UNCHANGED <<parTypes, initCount, flags, store, failed, crashed>>

\* MPI_Barrier.  When all ranks are in the same yt_free, what went wrong on
\* some of them before is about to be forgotten.
Barrier ==
  /\ ~crashed /\ \A r \in Ranks : pc[r] \in {"free", "run"}
  /\ pc' = [r \in Ranks |-> IF pc[r] = "free" THEN "cleanup" ELSE "user"]
  /\ failed' = IF calls = <<>> /\ \A r \in Ranks : pc[r] = "free"
                 THEN {} ELSE failed
  /\ UNCHANGED <<parTypes, calls, at, initCount, flags, store, crashed>>

\* The bindings of the local data stay.
EmptiedButData(r) ==
  [EmptyStore(r) EXCEPT !.labels = store[r].labels, !.data = store[r].data]

\* DataStructureAmr::CleanUp.
Emptied(r) == EmptyStore(r)

CleanUp(r) ==
  /\ ~crashed /\ pc[r] = "cleanup"
  /\ store' = [store EXCEPT ![r] = Emptied(r)]
  /\ flags' = [flags EXCEPT ![r] = @ \cap {"initialized"}]
  /\ Goto(r, "user")
  /\ UNCHANGED <<parTypes, calls, at, initCount, failed, crashed>>

-----------------------------------------------------------------------------

Init ==
  /\ parTypes \in BOOLEAN
  /\ calls = <<>>
  /\ at = [r \in Ranks |-> 0]
  /\ pc = [r \in Ranks |-> "user"]
  /\ initCount = [r \in Ranks |-> 0]
  /\ flags = [r \in Ranks |-> {}]
  /\ store = [r \in Ranks |-> EmptyStore(r)]
  /\ failed = {}
  /\ crashed = FALSE

Step(r) ==
  \/ Refuse(r) \/ Initialize(r) \/ SetParameters(r) \/ GetPtr(r)
  \/ Commit(r) \/ WriteHierarchy(r) \/ BindLocalData(r) \/ Run(r) \/ Free(r)
  \/ CleanUp(r) \/ Finalize(r)

Collective == CountGrids \/ GatherHierarchy \/ Barrier

Next == (\E r \in Ranks : Step(r)) \/ Collective

Spec == Init /\ [][Next]_vars

\* A rank that is in a call, or behind another, goes on.
Behind(r) ==
  /\ pc[r] = "user" => at[r] < Len(calls)
  /\ Step(r)

FairSpec ==
  /\ Spec
  /\ \A r \in Ranks : WF_vars(Behind(r))
  /\ WF_vars(Collective)

-----------------------------------------------------------------------------
(***************************************************************************)
(* Properties                                                              *)
(***************************************************************************)

\* Ranks part only because a step failed in one of them for a reason the
\* others do not see: otherwise, when all wait in MPI, they wait in the same
\* call of libyt, all of them have committed or none has.
PartOnlyByFailure ==
  failed = {} /\ (\A r \in Ranks : pc[r] \in Waiting) =>
    \A q, r \in Ranks :
      pc[q] = pc[r] /\ (Has(q, "commit_grids") <=> Has(r, "commit_grids"))

\* All the arrays of the fields of local grids are in libyt.grid_data.
AllBound(r) == \A g \in 1 .. GridsOf[r] : store[r].labels[g] = 1 .. NumFields

\* While the parameters are set, nothing in the storage or in the Python
\* dictionaries is left from an earlier iteration or an earlier attempt, and
\* what yt_set_Parameters has to allocate is there.  A committed rank in which
\* nothing went wrong in this iteration has bound all its arrays, whatever
\* went wrong in iterations before.  (A yt_commit that is repeated after
\* BindLocalDataToPython failed succeeds with arrays missing.)
FreshIteration ==
  \A r \in Ranks : Has(r, "param_yt_set") =>
    /\ \A part \in {"fields", "particles", "grids", "hierarchy", "data"} :
         store[r][part] # "old"
    /\ store[r].fields = "current" /\ store[r].hierarchy = "current"
    /\ Has(r, "commit_grids") \/ GridsOf[r] = 0 \/ store[r].grids = "current"
    /\ Has(r, "commit_grids") /\ r \notin failed /\ pc[r] # "cleanup"
         => AllBound(r)

\* A rank that has committed, and has not passed the barrier of yt_free, can
\* count on every other rank's hierarchy, whatever failed on which rank since:
\* the other has it in this iteration's arrays, or is in yt_commit still and
\* about to put it there.  A rank it meets in MPI, as in yt_run_*, has it.
CommitIsCommon ==
  \A r \in Ranks : Has(r, "commit_grids") /\ pc[r] # "cleanup" =>
    \A q \in Ranks :
      /\ store[q].hierarchy = "current"
      /\ store[q].written \/ pc[q] = "gathered"

\* Every call returns, if nothing fails on some rank only and the grids are
\* counted right.
EveryCallReturns ==
  [](failed = {} /\ ~crashed) =>
    \A r \in Ranks : (pc[r] # "user") ~> (pc[r] = "user")
=============================================================================
