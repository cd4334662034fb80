# libyt in TLA+

libyt is a C++ library that a parallel simulation links to analyse its data in
place with Python. Every MPI rank of the simulation runs the same calls of the
C API (`yt_initialize`, `yt_set_Parameters`, `yt_get_*Ptr`, `yt_commit`,
`yt_run_Function`, `yt_free`, `yt_finalize`) and embeds a Python interpreter; a
Python module `libyt` gives the analysis access to the simulation's data, the
data of other ranks included. What is hard in it is that almost everything is
*collective*: a rank that leaves the common path because something failed
there, and only there, leaves every other rank waiting in MPI.

This directory holds the TLA+ specification of the parts of libyt where that
matters, the TLC configurations that check it on small instances, and TLAPS
proofs for any number of ranks, grids, fields and jobs. Paths are relative to the
root of the repository.

## 1. The system

| component | state | operations | hard behaviour |
|---|---|---|---|
| remote data read: `CommMpiRma` (`src/comm_mpi_rma.cpp`), `CallFieldRma` and its callers (`src/libyt_python_module.cpp`), `DataHub` (`src/data_hub_amr.cpp`) | per rank: the DataHub's list of buffers, the window, what is attached, the address list, the gathered list, the fetched list, `step`, states | `get_field_remote`, `get_particle_remote`: window, attach, gather, fenced `MPI_Get`s, votes, detach, free | ranks interleave between collectives; any step may fail on any rank; a buffer must outlive the reads of others |
| data access: `DataHub` (`src/data_hub_amr.cpp`), the methods of the Python module (`src/libyt_python_module.cpp`), the generators and look-ups of `DataStructureAmr`, `yt_getGridInfo_*` (`src/yt_getGridInfo.cpp`) | one rank: the list of buffers of a DataHub and which of them are new, the buffers read from other ranks, the dictionary that is returned, the arrays the user keeps | `derived_func`, `get_particle`, `get_field_remote`, `get_particle_remote`; nine accessors by grid id | bare pointers change hands between lists, dictionaries and NumPy; every early return must free what is its own, and only that; ids that do not exist; calls between iterations |
| chunked MPI calls (`include/big_mpi.h`) | positions and counts of one loop | `BigMpiAllgatherv`, `BigMpiGatherv`, `BigMpiBcast`, `BigMpiGet` | counts and displacements are `int`, lengths are `long` |
| MPI helpers (`src/comm_mpi.cpp`) | none | `CheckAllStates`, `SetStringUsingValueOnRank`, `GatherAll*ToRank` | all ranks must call them together |
| API life cycle (`src/yt_*.cpp`, `src/libyt_process_control.cpp`) | flags `libyt_initialized_`, `param_yt_set_`, `get_*_ptr_`, `commit_grids_`, `need_free_` | the C API | calls out of order, a call that fails half-way and is repeated |
| hierarchy and local data (`src/data_structure_amr.cpp`) | lists of fields, particles, grids; the full hierarchy; the Python dictionaries | allocate, gather, bind, clean up | one rank's check or binding fails and the others gather |
| inline functions (`src/function_info.cpp`, `src/yt_run.cpp`) | per rank and function: run, status, cached status of all ranks, cached messages; the Python dictionary of error messages | `yt_run_Function*`, `GetAllStatus`, `GetAllErrorMsg`, `RunEveryFunction`, reset by `yt_free` | a cache decides whether a call is collective |
| magic commands (`src/magic_command.cpp`) | the function list, the history | `%libyt load, run, idle, status, export, exit` | files read by each rank on its own |
| Python shell (`src/libyt_python_shell.cpp`) | history, captured output | `AllExecute*` | run code everywhere, gather results on the root |
| entry points: prompt, reload mode, Jupyter kernel (`src/yt_run_InteractiveMode.cpp`, `src/yt_run_ReloadScript.cpp`, `src/yt_run_JupyterKernel.cpp`, `src/libyt_kernel.cpp`, `src/libyt_worker.cpp`) | the prompt loop of the root, the dispatch loop of the workers, flag, connection and process id files | enter if a flag file exists, start the kernel, run a cell or command everywhere, refuse or answer at the root alone, leave | each rank tests the flag file on its own; indicators and collectives must stay paired; the workers wait while the root retries the connection file |
| support code (`src/yt_set_UserParameter.cpp`, `src/dtype_utilities.cpp`, `src/numpy_controller.cpp`, logging, timer, Python start-up) | tables | allocation, conversion, formatting | memory that is not there |

How they interact: the simulation's calls go through the API life cycle into
DataStructureAmr, which gathers the hierarchy with the chunked MPI calls and
binds it to Python. `yt_run_Function` runs Python code; that code may call
`get_field_remote` on all ranks, which is the remote data read, or
`derived_func` on one, which calls back into the simulation, and that may call
`yt_getGridInfo_*`; the entry points run code and magic commands that a user
types at the root.

What makes each correct: all ranks call the same collectives in the same order
whatever fails (all components); no read without its buffer, no success that is
not everybody's (remote data read); every buffer freed once, by its owner, and
data returned under the name and grid it was asked for (data access); every element moved once, to its place,
with `int` arguments (chunked calls); a committed hierarchy that is the union
of what the ranks committed, and nothing left after `yt_free` (life cycle); a
status that is the same on every rank and tells the truth about the last run
(inline functions); every job of the root run by every worker (entry points).

## 2. Modules

| module | what it is |
|---|---|
| `CollectiveCall` | what the caller of `get_field_remote` may rely on: fields settled one by one for all the ranks at once, one failure ends the call for all |
| `RemoteData` | the remote data read, one action per collective and per local step |
| `RemoteDataInvariants`, `RemoteDataProofs` | its inductive invariants, and the TLAPS proofs |
| `BigMpi` | what both loops of `big_mpi.h` share: `INT_MAX` |
| `BigMpiGather`, `BigMpiGatherProofs` | the grouping loop of `BigMpiAllgatherv` and `BigMpiGatherv`, and its proofs |
| `BigMpiChunks`, `BigMpiChunksProofs` | the chunk loop of `BigMpiGet` and `BigMpiBcast`, and its proofs |
| `LibytLifecycle` | the API calls of a simulation on every rank, and the storage they make and clean up |
| `LibytLifecycleInvariants`, `LibytLifecycleProofs` | its inductive invariant, and the proofs |
| `HierarchyCheck`, `HierarchyCheckProofs` | the checks `yt_commit` makes of the grids of all ranks, and the arrays it writes; proofs |
| `InlineFunctions` | the inline functions: calls of the simulation, entry points and magic commands on every rank |
| `InlineFunctionsInvariants`, `InlineFunctionsProofs` | its inductive invariant, and the proofs |
| `SharedSession` | what the user of an entry point may rely on: each piece of code run once on every rank, one verdict for all, nobody leaves before the session is closed |
| `EntryPoint` | the interactive prompt, the reload mode and the Jupyter kernel: root and workers |
| `EntryPointInvariants`, `EntryPointProofs` | its inductive invariants, and the TLAPS proofs |
| `DataAccess` | one rank: accessors, local and remote data methods, and who owns each buffer |
| `DataAccessInvariants`, `DataAccessProofs` | its inductive invariants, and the proofs |
| `ReloadFiles`, `ReloadFilesInvariants` | the files with which a user and the reload mode talk to each other, and its inductive invariant; the proof is at the end of `EntryPointProofs` |

`MC...` modules are instances for TLC. Two modules
reach across, each to the abstract specification it implements: `RemoteData` to
`CollectiveCall`, and `EntryPoint` to `SharedSession`. `RemoteData` and `DataAccess` are two
views of the same methods, all ranks with buffers that are there or not, and one
rank with every buffer. The other components meet at calls that one of the two leaves open: `LibytLifecycle`
takes the outcome of the hierarchy's check as open (`HierarchyCheck`) and stops
at the barrier of `yt_run_*` (`InlineFunctions` begins there); `EntryPoint`
takes the outcome of Python code as open; the loops of `big_mpi.h` are one step
of the gathers that use them.

### RemoteData

One behaviour is one call of `get_field_remote` or `get_particle_remote`, on
every rank, for `NumFields` fields or attributes. `toPrepare` and `toFetch` are
the arguments each rank passes; the initial states are all of them. The
variable `pc` is where a rank is; a name in `Collectives` is an MPI call that
returns only when all the ranks are in it, and that is one action of all the
ranks (`CheckLocalData`, `InitializeMpiWindow`, `CheckWindow`, `CheckPrepare`,
`GatherAllPreparedData`, `CheckGather`, `CloseEpoch`, `CheckFetch`,
`FreeMpiWindow`). What a rank does between two of them is an action of the rank
and interleaves with the others (`GetLocalFieldData`, `PrepareData`,
`OpenEpoch`, `FetchRemoteData`, `FetchedAll`, `DetachBuffer`, `CleanUp`,
`CallFieldRma`). The opening `MPI_Win_fence` has `MPI_MODE_NOPRECEDE` and need
not synchronise, so it is a local step.

Every step that can fail in the code may fail in the model, on any set of
ranks: the DataHub (unknown field, a grid not found, generation fails), window
creation, an invalid size or an attach or address error in `PrepareData`, a grid
that is not in the gathered list or an `MPI_Get` that fails in
`FetchRemoteData`, before or after part of a chunked read was issued. A buffer
is one of three values: absent, null pointer, buffer. The data itself, types
and shapes are left out. The memory that receives a read, and grid ids that
occur twice in a rank's list, are in `DataAccess`; here the lists are sets.

`CollectiveCall` has four variables and knows of no window, vote or fence.
`RemoteData` implements it under the mapping `Promise` at its end: `settled` is
the number of fields for which the last vote was passed, `blame` the ranks
whose own last step failed, `aborted` a failed vote.

### BigMpiGather and BigMpiChunks

`BigMpiAllgatherv` walks over the ranks, adding up their counts, and sends a
group when the next rank would take the sum past `INT_MAX`. The model is the
loop, with `MaxInt` for `INT_MAX` and all the counts up to `MaxCount`; a group is
sent by writing which rank's data lies where in the receive buffer. `Total` is
the sum over consecutive ranks, counted up as the code's loops do.
`BigMpiGet` moves `data_len` elements in calls of at most `INT_MAX` and advances
two addresses; the model keeps which element was moved where. `MCBigMpi` runs one
loop after the other, as a remote read does.

### DataAccess

One rank, over any number of iterations (`Commit`, `FreeIteration`), and of
Python calls in them. The heap has `MaxBlocks` buffers; a block is free, or holds
the data of a name in a grid, or `Scratch`, what nothing in libyt reads again. A
pointer is a block, null, or memory of the simulation (`SimPtr`), which libyt
must never free. The variables are the code's: `list` and `flags` are
`data_array_list_` and `is_new_allocation_list_`, `fetched` is
`mpi_fetched_data_`, `output` is `py_output`; `kept` are the buffers of the
arrays that the user's Python still holds after the call. `store` is what
`yt_commit` left: the arrays by index, and what is bound in the dictionaries
`libyt.grid_data` and `libyt.particle_data`.

`CallLocal` and the actions up to `CopyFails` are `derived_func` and
`get_particle`, `CallRemote` and those up to `ReturnOutput` the remote reads,
name by name, each with a new DataHub: look up or generate what this rank
prepares (`Look...`, `Generate`), sort out the grids without particles
(`Sort...`), read (`Fetch`), fill the dictionary (`Wrap`). `pybind` tells the two
builds apart: with pybind11 an array is a copy and an exception drops the
dictionary; with the C API the buffer itself becomes the array's. What other
ranks do appears as its outcome: any vote may fail (`PrepareFails`,
`FetchFails`). The null checks after an allocation never see a null pointer,
because `AllocateMemory` writes to it before (`GenerateCrashes`), and MPI is
given a null address where a receive buffer is missing (`FetchAborts`): the
program ends there (`"aborted"`). The particle count that the code leaves
unset for a grid that does not exist may have any value (`CountsSeen`).

`GetGridInfo` is the nine `yt_getGridInfo_*` functions. They change nothing,
so they are an operator, checked in every state: what they find
(`AnswersAreTrue`), and whether finding nothing is reported (`ErrorsAreReported`,
which is violated).

### LibytLifecycle

All ranks run the same program, which is any sequence of calls: the rank that
is ahead chooses the next one, and the others follow. `MaxLead` bounds how far
ahead it may be; a rank that waits in a collective makes no other call. A call whose checks
fail is the action `Refuse`. A call that passes them does what the code does:
`SetParameters` replaces the parts of the storage one after the other and may
stop in between (`Stored`), `Commit` goes to the first gather or fails before
it, `CountGrids` and `GatherHierarchy` are the two gathers, `WriteHierarchy` is one
rank that puts the gathered list into the arrays Python reads, when the others may
be before or behind it, `BindLocalData` binds grid by grid and field by field and
may stop at any of them, `Free` waits in the barrier and `CleanUp` empties
everything. `flags` are the check points of
`LibytProcessControl`. Each part of the storage is absent, of the latest
`yt_set_Parameters`, or older: that is what "left from before" means.

`failed` is the only history variable: the ranks in which a step went wrong
that the others cannot see. `crashed` stands for a read through a null pointer.
The numbers of grids and fields are constants, `num_fields` is at least one,
and the arrays of a field are there or not, whatever they contain.

### HierarchyCheck

`CheckGridsLocal` is one grid of one rank checked before the gather;
`FillOrder`, `NotUnique` and `CheckParent` are one turn of a loop of
`CheckHierarchyIsValid`; `Bind` is one turn of the loop that writes the arrays of
`libyt.hierarchy`. As the gather puts the ranks' lists one after the other, the
model has one list. What makes a grid invalid by itself, other than its id,
level, parent and edges, is one flag. `IsForest` is the reference definition the
checks are compared with: it is stated from the roots down, with no search
table and no order of the grids.

### InlineFunctions

One behaviour is a *program*: any sequence of `NumCalls` calls that all ranks
make, of the simulation (`yt_run_Function*`, `yt_free`), of an entry point
(`enter`: run the pending functions, print the status board; `enter_kernel`, of
the Jupyter kernel: run them only) and of a user
(`%libyt status`, `run`, `idle` of a function, and `load` of a script that
defines it, only after an entry point). A rank
keeps the function list and the messages of `func_err_msg`, and where it is in
its call. Collectives are actions of all ranks, and match by kind, not by the
place they are called from: two ranks may meet in the reduction of different
functions, as they would in MPI. `GetAllStatus` is entered only from a rank
whose cached `all` is out of date, so a rank whose cache differs goes on alone.

What Python does is open: it returns, raises, or, when `Uncaught` is set, fails
outside of the `except Exception` clause. A command that cannot compile because
its wrapper occurs in its arguments always does the latter. An argument is the
set of the kinds of triple quotes in it. A message is the number of the call
that left it.

### EntryPoint and ReloadFiles

One behaviour of `EntryPoint` is one session of an entry point. Each rank tests
for the flag file by itself; the root of a kernel then writes the file with its
process id and tries again until the user's connection file is usable
(`Launch`, `Connect`, `SupplyConnection`); then the root gets a job
(`ChooseJob`) and the workers learn of it by broadcasts. What a rank expects next is computed from
what it has received (`Dispatch` of a worker's indicator, `KindAt`), never from
what the root means: so a pairing that is wrong in the code would be a mismatch
in the model. The jobs are code (a line, a file, or a cell in two parts), the
magic commands, and leaving, which each mode does its own way. Code ends the
same on all ranks or differently on each, and defines functions; `AllExecute`
votes on its outcome. Which of the functions a rank then lists is open (`Lists`):
`load_input_func_body` finds them by running the code a second time in an empty
namespace, where it can stop early however it ended before. What the root does without a word to the workers are
actions of its own: `Refuse` (code that does not compile, a script that is not
there), `TypePart` (the beginning of a statement, during which the prompt takes
commands for code), `AnswerAlone` (completion and inspection in the kernel) and
`InputEnds`, after which the prompt asks for ever and the workers wait
(`Stranded`).

`SharedSession` is a session without its protocol: no flag file, no indicators,
no broadcasts, no modes. It is closed, open or over for all ranks at once; a
request is a list of pieces of code, run one after the other; each rank runs each
piece once, and `Decide` tells all ranks the same, in one step. `EntryPoint`
implements it under the mapping `Session` at its end: whether the session is open
and what is asked are read off the root, the ranks that have still to run a piece
are those at `execute`, and those that have left are at `left`. `KeepsSession`
is the safety of it; it has no fairness of its own, since at the end of its input
the prompt need not close the session (`AllLeave`).

`ReloadFiles` is the root of the reload mode alone with its user: `RELOAD`, the
exit file, and the two result files. `script` is the version the user saved last,
and each result file holds the version it is the output of.

## 3. Runs

| run | instance | what it shows |
|---|---|---|
| `remote_data` | 2 ranks, 2 grids of one rank, 2 fields, fair | collectives match, buffers outlive reads, verdicts agree, output is complete, windows are released, every rank returns; refinement of `CollectiveCall` |
| `big_mpi` | 5 ranks, counts 0..3, `INT_MAX` 3; lengths 0..13, around the multiples of the stride | gather: elements in place, at positions that fit in an `int`, only the last rank can be left out; chunks: every element moved once and inside the buffers |
| `big_mpi_gather_last` | 3 ranks, counts 0..2, `INT_MAX` 2 | violated: the last rank can be left out |
| `lifecycle` | 2 ranks with a grid and 1 without, 1 field, a rank up to 1 call ahead, fair | ranks part only by a failure, nothing is left of an earlier iteration, a rank that has committed can count on the hierarchy of the others, every call returns |
| `hierarchy_check` | 3 grids with ids from 1, parents in and out of range, levels 0..2, two intervals, one grid for each other error | the search table finds every parent; accepted exactly if a forest; arrays complete |
| `inline_functions` | 2 ranks, 2 functions (one not in the script), programs of 4 calls | matching collectives, equal lists, truthful success, nothing carried over `yt_free`, no function run twice, what is set to run is wrapped in quotes it does not contain unless a later command is refused |
| `inline_functions_stale` | 2 ranks, 1 function, 2 calls | violated: a failure outlives the call it belongs to |
| `entry_point` | 3 ranks, 3 modes, sessions of up to 3 jobs, 1 function, a connection file that may be absent at first, fair | root and workers stay paired and agree on what succeeded, all leave or the input ended, files and history are cleaned up; refinement of `SharedSession` |
| `entry_point_flag` | 2 ranks, 3 modes, the user may create the flag file | violated: ranks part at the flag file |
| `data_access` | 3 grids, 2 of them local, ids 0 to 4, fields bound, derived, without function and unknown, particles with and without; 4 buffers, up to 2 names a call, both builds | every buffer has one owner, nothing is lost but by a call that fails, what is returned is what was asked for, what an accessor finds is of the grid it was asked for |
| `grid_info_errors` | the instance of `data_access` | violated: an accessor finds nothing and reports success |
| `reload_files` | 8 requests of a user who waits for `RELOAD` to vanish, fair | the result seen is that of the script saved; every request is answered |

Bounds. In `remote_data`, two grids are the least with a failure after a first
success, two fields the least with a rank in the next field while another still
cleans up. In `big_mpi`, five ranks and counts up to `INT_MAX`
give groups of every size and several cuts, and the lengths go up to four full
chunks and one element. In `lifecycle`, two ranks with
grids can fail differently, and the one without takes the other branch of every
test on `num_grids_local`; the program is not bounded. A rank further ahead than
one call cannot be ahead over a collective, where all properties are decided.
In `hierarchy_check`, three grids are the least with a grandparent, two
siblings, and a cycle beside a root. Four calls of `inline_functions` are enough for run, look, free,
run, and for an entry point with two commands (load a script, set its function
to run) and the next entry point; two
functions let one be in need of an update while the other is not. Three jobs of
`entry_point` are one that fails, one after it, and leaving. Three ranks let two
workers be at different places of a job while the root is at a third. In `data_access` a call
with two names and two grids holds up to four buffers, so that it can both
succeed and run out of memory at each step; the ids on both sides of the range
and a list that names a grid twice are there. For the safety properties the
proofs of section 4 remove every one of these bounds; they remain for liveness.

Fairness. `FairSpec` of `RemoteData` and `EntryPoint` assumes that a rank that
can take a local step does take one, and that an MPI collective that all ranks
have entered returns: what MPI guarantees of a running program. No fairness is
assumed between different outcomes of a step. That of `LibytLifecycle` assumes
it only of a rank that is in a call, or behind another rank's calls; a
simulation need not make another call. In `ReloadFiles` the root keeps polling,
and the user looks for the answer and leaves in the end. In `EntryPoint` the
user at last supplies a connection file that can be used.

Deadlock is checked in all runs but `lifecycle`: when every rank has returned,
a model stutters (`Finished`), and any other state without a successor would be
ranks waiting for each other. In `lifecycle` ranks that went apart by a failure
on one of them do wait for ever, as in the code; `PartOnlyByFailure` says that
there is no other way.

## 4. Proofs

TLC checks the properties on the instances above; the theorems hold for every
value of the constants. (The types of `BigMpiChunks` and `HierarchyCheck` are in no
run: they are a part of the inductive invariants, and proved.) Every invariant and every action property of the runs
that pass has one. What is assumed is what the modules name, and TLC evaluates in
the runs: there is a rank, a field; numbers are numbers; requests are pairs of a
grid and a rank; a call has an operation that exists; what a simulation commits
has a particle count for each of its grids. Some theorems assume more, in their
statement: `FlagIsLeftAlone` (three of `EntryPointProofs`), `Uncaught = FALSE` (five
of `InlineFunctionsProofs`) and `Patient = TRUE` (`ReloadFiles`). Section 5 says
what happens without.

`RemoteDataProofs` proves the type invariant and each safety invariant of
`remote_data`, for every number of ranks, grids and fields. None of them is
inductive. The argument goes through six invariants (module
`RemoteDataInvariants`), which rely on `TypeOK` and most of them on the ones before:

1. `Lockstep`: all ranks have the same *next* collective. That is a function of
   where a rank is, of its last vote and of its field. A collective
   moves all of them at once; a local step does not change its rank's next
   collective. `CollectivesMatch` follows.
2. `Verdict`: a failed vote has a rank whose own step failed, and only ranks on
   their way out have seen it. `VerdictsAgree` follows.
3. `Exposure`: from one vote to the next, what holds of windows, of attached
   buffers and of the gathered list; with `Lockstep`, a rank that reads has its
   owner between the gather and the closing fence. `BuffersOutliveReads` follows.
4. `Complete`: what is fetched and what is to do make up the request;
   `OutputComplete` follows.
5. `WindowLeftOver`: who can hold a window outside the windowed part;
   `WindowsReleased` follows.
6. `Passed`: a rank that leaves without a failed vote has taken all steps, and
   one that failed since the last vote is on its way to the next.

`KeepsPromiseSafely` is the refinement of `CollectiveCall` without its fairness:
the initial states are initial there, and each step is a step there or changes
nothing there. A step that fails, or the window creation, is `Fail`; the vote on
the fetch is `Settle` if it passes; a vote that does not is `Abort`; a rank that
leaves is `Return`; all others stutter. The number of fields settled is read off
one rank, whichever: that this is right while the others are elsewhere in the
call, perhaps in the next field, follows from `Lockstep` and `Passed`
(`WorkingOnIt`, `LeavesDecided`).

`CallNeverDeadlocks` is that the ranks are never all waiting for each other
(`NeverStuck`): if none has a step of its own, then all have returned, or all
are in the same collective, which can take place. It follows from
`CollectivesMatch` and the types. There is a theorem of this kind for the
inline functions (`ProgramNeverDeadlocks`) and for the entry points
(`SessionNeverDeadlocks`) too, where the workers of a prompt whose input has ended
are the one exception. TLC checks it with the search for deadlocks; it
is the part of the liveness properties that needs no fairness.

`BigMpiChunksProofs` proves `ChunksTypeOK`, `MovesAll` and `StaysInside` for every
length and every `INT_MAX`, from an invariant that gives both addresses and the
elements moved as functions of the loop's index.

`BigMpiGatherProofs` proves `TypeOK` (offsets fit in an `int`) and `InPlace`, for any
number of ranks, counts and `INT_MAX`. Its invariant says that the ranks before
the group are gathered (`GatheredBefore`), where the group begins in the receive
buffer (`StartHolds`), and that the offsets in it are sums from there
(`OffsetsHold`). The lemmas are about `Total`: it exists for every length, and
the sum over a stretch of ranks is that of its parts (`TotalAdds`), so that a
group put after another lies where one gather would put it.

`HierarchyCheckProofs` proves, for every number of grids and dimensions, that
types are kept (`HierarchyTypeCorrect`), that the look-up of a parent never meets
-1 (`LookupSafe`), that the arrays of an accepted hierarchy are completely
written (`ArraysComplete`) and that each of its refined grids has its parent one
level up and around it (`ParentsEnclose`). The invariant `IInv` says what each
loop has handled so far: `AllLocallyValid` and `AsAnnounced` of the list,
`TableOfFirst`, `ParentsChecked` and `FirstBound` of the first `i` grids of the
three loops, `NotBegun` before them. `LookupSafe` needs one more argument: the
first loop finds that no id occurs twice, not that none is missing. That follows
by counting (`NoIdMissing`): `NumGrids` different places among `NumGrids` places
are all of them.

`AcceptedIsAForest` and `NoForestIsRejected` compare the checks with `IsForest`,
which is stated from the roots down by a recursive function (`AtDepth`): an
induction over depth. From a grid of level `n`, `ParentsEnclose` gives a chain of
`n` parents, so levels are depths; that a level is less than the number of grids
follows from counting the levels on the chain (`LevelsBounded`). In the other
direction `RejectedFor` keeps the reason of a rejection, and each reason breaks
the forest: ids occur once in a forest, so a grid has one depth (`OneDepth`).
Together they say that the verdict is a function of the list alone, whichever
branch of the checks came to it: ranks that have gathered the same list accept it
everywhere or nowhere, which is what `LibytLifecycle` takes of it.

`LibytLifecycleProofs` proves the four safety properties of `lifecycle`, for any
number of ranks, grids and fields, any lead, and any program. The invariant
(`LibytLifecycleInvariants`) has three parts:

1. `RankInv`, of each rank: its check points depend on each other, a rank is only
   in a call that was admitted, its storage fits its check points, and without a
   failure its dictionaries are complete.
2. `Lockstep`. `calls` is the stretch of the program between the slowest rank and
   the fastest. There is one path from call to call, given by the program alone,
   and every rank's view of itself is the point of the path at its place; the
   path ends where a rank waits in MPI (`OnPath`). It is needed twice: for what no
   failure changes (`BarriersMatch`: who is initialized, has something to free, or
   is in which barrier), and, while nothing has failed, for everything that only
   a failure changes (`NoFailureNoParting`). Two ranks that wait are both at the
   end, hence in the same call: `PartOnlyByFailure`.
3. `CommitHolds`: from the gather of one commit to the barrier of `yt_free` every
   rank has written the hierarchy of this iteration, or is between the gather and
   its own `WriteHierarchy`, whatever failed. `CommitIsCommon` follows;
   `FreshIteration` follows from `RankInv`.

`InlineFunctionsProofs` proves the safety properties of `inline_functions`, for
any number of ranks and functions and programs of any length. What a rank
remembers of a function is what has happened to it (`InCall`, `OwnHistory`): this
is inductive whatever Python does, and gives `TypeOK` and `NotRunTwice`. That the
ranks stay together needs `OneWay`. Whether a rank enters a collective depends on
caches of its own; but the part of its state that decides this, its stand (place,
function and *book*: the function list without each rank's own outcomes and
messages), changes in local steps by a function of the stand alone (`After`). So
there is one way of stands, which ends where a rank waits, and every rank is on
it. Ranks that wait are at its end, with the same stand, and a collective begins
a new way for all. `CollectivesMatch` and `SameBook` follow, and with `OwnHistory`
`SuccessIsTrue`; `NothingCarriedOver` needs `MessagesFresh` too. Where Python
fails outside of the `except` clause the stand is no longer a function of the
last one, and the ranks do part: hence `Uncaught = FALSE`.
`OneKindOfQuotesIsWrapped` is about the operators that wrap a command, for any
list of arguments: those that stick to one kind of triple quotes, as the
documentation asks, are never refused and never break the command they are
wrapped in. `CommandsStayGood` (`OnlyRefusalsBreak`, an action property) rests on
it: what `%libyt run` accepts is wrapped well, and no other step changes arguments or
wrapper, but one that is refused. It holds whatever Python raises.

`DataAccessProofs` proves the properties of `data_access`, for any grids, names,
request lists, both builds and a heap of any size. `Ownership` is inductive
together with `TypeOK`, `Stages` (which lists are empty at which place) and
`NewAreOurs` (what a loop appended since the flags were written is libyt's own);
this is `Memory`. `LossNeedsFailure`, about steps, follows from it, and
`AnswersAreTrue` needs only `StoreFits` (the hierarchy is there and complete, or not there). On top of `Memory`, `Contents` says
what data each buffer in each list holds, and `Progress` which requests are
answered so far: what is to do, what is fetched and what was found empty make up
the request. With both a call that succeeds returns exactly what was asked for
(`ResultsAreDelivered`).

`EntryPointProofs` proves, for any ranks, functions and number of jobs, the four
invariants of `entry_point`, and that it refines `SharedSession`. Its invariants (module
`EntryPointInvariants`) are:

1. `Typed`: types, with `Together` (what only collectives change is the same
   everywhere), `JobAtRoot` (the root's place fits its job; there is a part of
   the code to send when it sends one) and `LastJob`. `TypeOK` needs them: a worker is
   given `content.parts[turn]`, which has to exist.
2. `Places`: where a rank can be in which mode and job, and when `done` is set.
3. `Kept`: what a rank keeps of code it has run. `VerdictsAgree` follows.
4. `Lockstep`: all ranks have the same next collective (`Ahead`), in the same
   job. A local step does not change it, and a collective moves all; at an
   indicator this is where `Dispatch` has to be the inverse of `Indicator` in each
   mode. `CollectivesMatch` follows.
5. `Removable`: which files and history are still there at which place.
   `NothingLeftOver` follows.

The last two assume `FlagIsLeftAlone`: the user does not create the flag file
while ranks look for it. The run `entry_point_flag` shows that `Lockstep` needs
it; the first two theorems hold without, and so does the refinement.

`SessionIsShared` is `KeepsSession`, all of it. Each step of an entry point is one
of `SharedSession` or changes nothing there: the end of the barrier is `Open`,
a rank that sees no flag file is `Pass`, the choice of a job is `Ask` or `Close`, the
broadcast of the code is `Give` or `Skip`, `Execute` is `Run` and the vote is
`Decide`; ranks that reach the end of the last job are `Leave`; indicators, commands
and what the root does alone are stutters. What
the ranks have to be doing for that is `InSession`, which is inductive with `Typed`
and `Places`:

* `EnterTogether`: while a rank has still to enter the session, nobody is in it: the
  others are on their way in too, or have gone on without it;
* `RunTogether`: while a rank runs a piece of code, or has run it and waits for
  the vote, all ranks do; so the set of ranks at `execute` is all that is left
  of that piece;
* `SameJobs`: in a session the ranks that have been told of a job agree on it, so
  workers take the same turn through the parts of a cell as the root, by which
  the mapping tells which piece is run;
* `Served`: the code that has been sent is the piece whose turn it is, and a job
  without code asks for nothing;
* `RootLeaves`: the root is on its way out if and only if it has been told to leave.

None of them needs the flag file to be left alone: ranks that part there part
before the session begins, and it never opens.

The last section of `EntryPointProofs` is about the files of the reload mode:
`PatientUsersSeeTheirResult` is `SeesOwnResult` of the run `reload_files` for any
number of requests. (The names of `ReloadFiles` begin with `Reload` where
`EntryPoint` has the same one, so that one module can prove about both.) The
user and the root take turns, and the file `RELOAD` says whose turn it is
(`TakeTurns` of `ReloadFilesInvariants`); so the result files are those of the
last request whenever the user looks (`Answered`).

Inductions over numbers (the sums of `BigMpiGather`, depths and counts of
`HierarchyCheck`, the latest call of `InlineFunctions`) are done in the form of a
set of numbers and its least element, and recursive functions are unfolded one
step at a time from their existence for every length.

Not proved, as it is out of the reach of the prover: liveness under fairness
(`AllReturn`, `EveryCallReturns`, `AllLeave`, `EveryRequestAnswered`, and the fair
part of `KeepsPromise`). TLC checks it on the instances of section 3.

## 5. Findings

Runs that TLC finds violated, because the code does not do what a comment or
the documentation says:

* `big_mpi_gather_last`: when the last rank is the one that does not fit, its
  data is not gathered. The comment in the code says the case can be ignored.
* `inline_functions_stale`: a function that failed once in an iteration is
  reported as failed, with the old messages, after later calls that succeed;
  the documentation says the status is that of the latest call.
* `grid_info_errors`: `yt_getGridInfo_ParentId` logs that there is no such grid and
  returns `YT_SUCCESS` with nothing in `parent_id`; its comment, like that of the
  other eight accessors, says `YT_FAIL`.
* `entry_point_flag`: ranks look for the flag file before the barrier that is to
  bring them together, so a file created in between parts them.

What else came up while modelling. The models do the same as the code here, and
the properties are stated for what does hold:

* `%libyt run` changes the stored wrapper while it looks at the arguments of a
  command that it then rejects (`src/magic_command.cpp:729`), and does not set it
  back: a command accepted before, with arguments that the documentation calls
  good, no longer compiles when it is run. `OnlyRefusalsBreak` names this exception.
* The buffers of a remote read that fails are not freed, nor is the dictionary
  of the C API build; a local particle call that fails there keeps its storage too
  (`LossNeedsFailure` names what is lost).
* The particle count of a grid that does not exist is read unset
  (`src/libyt_python_module.cpp:541` and `:577`).
* `AllocateMemory` clears what `malloc` returns before anyone looks at it
  (`src/dtype_utilities.cpp:202`), so the null checks of its callers are never
  reached.
* pybind11 throws over the loop that frees the storage
  (`src/libyt_python_module.cpp:321`).
* A receive buffer is freed when a chunk of its read fails, while earlier chunks
  may be in flight until the fence (`src/comm_mpi_rma.cpp:444`).
* `GetPythonBoundLocalFieldData` and `GetPythonBoundLocalParticleData` use key
  objects after giving them up (`src/data_structure_amr.cpp:2101`, `:2150`), and a
  completion request gives up a list twice (`src/libyt_kernel.cpp:212`). The
  reference counts of Python are not modelled.
* `yt_commit` without `yt_get_GridsPtr` is refused on ranks with grids only; the
  others wait in the gather (`OwnRefusal`, `src/yt_commit.cpp:52`). The same
  happens when the checks before the gather fail on some ranks only.
* When the sum of the grids is wrong, the clean-up of `BindAllHierarchyToPython`
  reads a null list if there are particle types
  (`src/data_structure_amr.cpp:1174`, `crashed`); a second `yt_commit` in an
  iteration is enough.
* A `yt_commit` that failed while it bound local data and is repeated succeeds,
  but a dictionary that the failed one left keeps the later fields out
  (`Labelled`); `FreshIteration` is stated for ranks in which nothing failed.
* `yt_get_GridsPtr` after `yt_commit` succeeds and returns a null pointer.
* A failed `yt_initialize` cannot be repeated: `init_count` is raised first.
* `DetachBuffer` is commented "Detach what is attached in PrepareData", and walks
  a list that `GatherAllPreparedData` has cleared: it detaches nothing.
* `yt_run_FunctionArguments` returns before `GetAllStatus` on a rank where
  `PyRun_SimpleString` fails. If it fails there only, the others wait
  (`Uncaught`, off in the runs).
* After code that failed on some ranks only, the lists of functions may differ. After
  code that succeeded they may lack some of its functions: `load_input_func_body`
  runs the code again in an empty namespace, where what earlier code defined is not
  known (a TODO at `src/libyt_python_shell.cpp:132` says so), and an error ends it
  without a message. No property promises what is listed.
* A user of the reload mode who asks again on seeing a result, instead of
  waiting until `RELOAD` is gone, may have the new request removed with the old
  one (`Patient`, on in the run).
* At the end of its input the root's prompt asks for a line again, for ever.

## 6. Plan

The order was: what is collective and may fail anywhere first (`RemoteData`, its
abstract specification and proofs), then the loops it rests on (`BigMpi...`), the
inline functions, the entry points, the life cycle and the hierarchy, then the
memory of the data methods and the accessors (`DataAccess`), the start of the
kernel and what the root does alone, the proofs, component by component, and last
the session that an entry point implements (`SharedSession`). Next:

1. Code of which the ranks list different functions, composed with
   `InlineFunctions`: what the entry points do with lists that differ (`LoadScript`
   takes code to end, and to be listed, alike on all ranks).
2. What holds of `InlineFunctions` when `Uncaught` is set but Python fails alike on
   all ranks.
3. The views that `libyt.hierarchy` gives of arrays that `yt_free` deletes, if the
   code comes to promise something of them.

## 7. Not modelled

`yt_set_UserParameter` (a conversion into a dictionary), type tables, formatting,
logging, timers, the start-up of Python, help texts, the parsing of Python
source and of the arguments of Python calls, and the sockets of the kernel are
single-rank code without protocol. In serial mode (no MPI) the remote reads
return `None`, and there is nobody to wait for. The checks of the field and
particle lists, and the dictionaries they are bound to, only succeed or fail.
The contents of arrays, their types and shapes are left out everywhere: in
`DataAccess` the data of a buffer is the name and the grid it belongs to.
`HierarchyCheck` leaves out the checks of what a grid's `field_data` points at
(types and dimensions, `src/data_structure_amr.cpp:2612-2664`), and
`LibytLifecycle` takes every array of a bound grid to have data: entries whose
`data_ptr` is null, which the code skips, are not there.
