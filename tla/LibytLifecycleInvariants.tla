---------------------- MODULE LibytLifecycleInvariants ----------------------
(***************************************************************************)
(* The inductive invariant of LibytLifecycle.                              *)
(*                                                                         *)
(* What a rank does on its own is in RankInv.  That the ranks stay         *)
(* together is in Lockstep: calls is the part of the program that lies     *)
(* between the slowest rank and the fastest one, and there is one path     *)
(* from call to call on which every rank is.  It is needed twice: for what *)
(* even a failure does not part (which ranks are at a barrier, and which   *)
(* one), and for everything, while nothing has failed.                     *)
(***************************************************************************)
EXTENDS LibytLifecycle

(***************************************************************************)
(* One rank                                                                *)
(***************************************************************************)

\* The check points a rank has set depend on each other.
FlagsFit(r) ==
  /\ initCount[r] = 0 => flags[r] = {}
  /\ Has(r, "need_free") <=> Has(r, "param_yt_set")
  /\ Has(r, "param_yt_set") => Has(r, "initialized")
  /\ ~Has(r, "param_yt_set") => flags[r] \subseteq {"initialized"}

\* A rank is only in a call that was admitted.
PlaceFits(r) ==
  /\ pc[r] \in {"count", "gather", "gathered", "written"} => Has(r, "param_yt_set")
  /\ pc[r] \in {"free", "run", "cleanup"} => Has(r, "initialized")

\* yt_free leaves no local data, and yt_set_Parameters leaves nothing old.
StoreFits(r) ==
  /\ ~Has(r, "param_yt_set") =>
       store[r].labels = NoLabels(r) /\ store[r].data = "none"
  /\ Has(r, "param_yt_set") =>
       /\ store[r].fields = "current" /\ store[r].hierarchy = "current"
       /\ store[r].particles # "old" /\ store[r].grids # "old"
       /\ store[r].data # "old"
       /\ Has(r, "commit_grids") \/ GridsOf[r] = 0 \/ store[r].grids = "current"

\* Without a failure a grid has no dictionary, or one with all its fields.
LabelsFit(r) ==
  r \notin failed /\ pc[r] # "cleanup" =>
    /\ \A g \in 1 .. GridsOf[r] : store[r].labels[g] \in {Absent, 1 .. NumFields}
    /\ Has(r, "commit_grids") => AllBound(r)

RankInv(r) == FlagsFit(r) /\ PlaceFits(r) /\ StoreFits(r) /\ LabelsFit(r)

-----------------------------------------------------------------------------
(***************************************************************************)
(* The ranks together                                                      *)
(***************************************************************************)

\* The slowest rank has called nothing of what is left of the program.
SomeRankIsLast == \E r \in Ranks : at[r] = 0

(***************************************************************************)
(* A path begins with the state that the slowest rank is about to reach,   *)
(* and goes on call by call; it ends where a rank waits.  view[r] is the   *)
(* state that rank r has reached, or will when it is through with its      *)
(* call, and belongs to its place in the program.                          *)
(***************************************************************************)
OnPath(States, After, view, cs, place) ==
  \E path \in [0 .. Len(cs) -> States] :
    /\ \A k \in 1 .. Len(cs) :
         path[k - 1].wait = "none" /\ path[k] = After[path[k - 1]][cs[k]]
    /\ \A r \in Ranks : view[r] = path[place[r]]

\* A rank that did not start, or has been finalized, will never wait again,
\* and no rank gets past MPI without it.
Dead(r) == initCount[r] > 0 /\ ~Has(r, "initialized")

Alive == \A r \in Ranks : ~Dead(r)

\* What no failure of a living rank changes.
Skeletons == [init : BOOLEAN, need : BOOLEAN, wait : {"none", "free", "run"}]

AfterSkeleton ==
  [s \in Skeletons |-> [c \in Calls |->
     [init |-> s.init \/ c = "initialize",
      need |-> s.need \/ (s.init /\ c \in {"set", "set_miscounted"}),
      wait |-> IF s.init /\ c \in {"free", "run"} THEN c ELSE "none"]]]

SkeletonOf ==
  [r \in Ranks |->
     [init |-> Has(r, "initialized"),
      need |-> Has(r, "need_free") /\ pc[r] # "cleanup",
      wait |-> IF pc[r] \in {"free", "run"} THEN pc[r] ELSE "none"]]

BarriersMatch == Alive => OnPath(Skeletons, AfterSkeleton, SkeletonOf, calls, at)

\* What only a failure changes.
CommonFlags == Flags \ {"get_grids_ptr"}

States ==
  [flags : SUBSET CommonFlags, fits : BOOLEAN, wait : {"none"} \cup Waiting]

\* A rank without grids never asks where to put them.
Shared(r) == flags[r] \ {"get_grids_ptr"}

ReadyToCommit(f) ==
  /\ {"initialized", "param_yt_set", "get_fields_ptr"} \subseteq f
  /\ parTypes => "get_particles_ptr" \in f

\* The check points that a call sets on every rank.
NewFlags(f, c) ==
  CASE c = "initialize" -> {"initialized"}
    [] c \in {"set", "set_miscounted"} /\ "initialized" \in f ->
         {"param_yt_set", "need_free"}
    [] c = "get_fields" /\ "param_yt_set" \in f -> {"get_fields_ptr"}
    [] c = "get_particles" /\ "param_yt_set" \in f /\ parTypes ->
         {"get_particles_ptr"}
    [] OTHER -> {}

WaitOf(f, c) ==
  CASE c \in {"free", "run"} /\ "initialized" \in f -> c
    [] c = "commit" /\ ReadyToCommit(f) -> "count"
    [] OTHER -> "none"

AfterState ==
  [s \in States |-> [c \in Calls |->
     [flags |-> s.flags \cup NewFlags(s.flags, c),
      fits |-> IF c \in Sets /\ "initialized" \in s.flags /\ "need_free" \notin s.flags
                 THEN c # "set_miscounted" ELSE s.fits,
      wait |-> WaitOf(s.flags, c)]]]

StateOf ==
  [r \in Ranks |->
     [flags |-> IF pc[r] = "cleanup" THEN {"initialized"}
                ELSE IF pc[r] \in {"gathered", "written"}
                  THEN Shared(r) \cup {"commit_grids"}
                ELSE Shared(r),
      fits |-> pc[r] # "cleanup" /\ store[r].sumFits,
      wait |-> IF pc[r] \in Waiting THEN pc[r] ELSE "none"]]

NoFailureNoParting ==
  Alive /\ failed = {} => OnPath(States, AfterState, StateOf, calls, at)

\* A rank has committed, or is about to: no rank has left that iteration.
Committed(r) ==
  \/ pc[r] \in {"gathered", "written"}
  \/ Has(r, "commit_grids") /\ pc[r] # "cleanup"

CommitHolds ==
  \A r \in Ranks : Committed(r) =>
    \A q \in Ranks :
      /\ store[q].written \/ pc[q] = "gathered"
      /\ store[q].hierarchy = "current"
      /\ Has(q, "param_yt_set") /\ pc[q] # "cleanup"

IInv ==
  /\ TypeOK
  /\ \A r \in Ranks : RankInv(r)
  /\ SomeRankIsLast
  /\ BarriersMatch
  /\ NoFailureNoParting
  /\ CommitHolds
=============================================================================
