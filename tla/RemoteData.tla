----------------------------- MODULE RemoteData -----------------------------
(***************************************************************************)
(* libyt.get_field_remote / libyt.get_particle_remote: every MPI rank      *)
(* offers some of its grids and reads grids of the other ranks through     *)
(* one-sided MPI.  One call handles a list of NumFields fields (or         *)
(* particle attributes); for each of them every rank                       *)
(*                                                                         *)
(*   1. collects its local buffers in a DataHub       (GetLocalFieldData)  *)
(*   2. votes, and gives up if any rank failed        (CheckAllStates)     *)
(*   3. runs CommMpiRma::GetRemoteData: create a window, attach, gather    *)
(*      the addresses, read between two fences; every step is followed by  *)
(*      a vote and by an exit of all the ranks if one of them failed       *)
(*   4. detaches, frees the window, drops the DataHub, and either goes on  *)
(*      with the next field or throws a Python exception.                  *)
(*                                                                         *)
(* A collective MPI call that needs every rank is one action, enabled when *)
(* all the ranks wait in it; what a rank does between two collectives is   *)
(* an action of that rank, and these interleave freely.  A rank that       *)
(* leaves the common path therefore leaves the others waiting for ever.    *)
(***************************************************************************)
EXTENDS Naturals

CONSTANTS
  Ranks,       \* the MPI ranks
  Ids,         \* the grid ids
  Requests,    \* the <<grid, owner>> pairs a rank may ask for
  NumFields    \* the length of fname_list, the same on every rank

ASSUME RanksAssumption    == Ranks # {}
ASSUME RequestsAssumption == Requests \subseteq Ids \X Ranks
ASSUME FieldsAssumption   == NumFields \in Nat \ {0}

VARIABLES
  toPrepare,   \* prepare_id_list of each rank: the grids it offers
  toFetch,     \* fetch_data_list of each rank: the <<grid, owner>> it wants
  pc,          \* where each rank is in the call
  field,       \* index of the field each rank is working on
  step,        \* GetRemoteData's local variable step
  status,      \* the outcome of the rank's own last step
  allStatus,   \* the outcome of the rank's last vote
  hub,         \* data_array_list_ of the rank's DataHub, by grid id
  window,      \* does the rank hold an MPI window?
  attached,    \* the grids whose buffer is attached to the rank's window
  addressList, \* the grids in mpi_prepared_data_address_list_
  gathered,    \* all_prepared_data_list_ and its addresses, by owner and id
  todo,        \* the fetch requests FetchRemoteData has not looked at yet
  pending,     \* MPI_Get calls issued and not completed by a fence
  fetched,     \* mpi_fetched_data_
  output,      \* py_output: the <<field, request>> wrapped for Python
  result       \* how the call ended on each rank

args == <<toPrepare, toFetch>>
vars == <<toPrepare, toFetch, pc, field, step, status, allStatus, hub, window,
          attached, addressList, gathered, todo, pending, fetched, output,
          result>>

(***************************************************************************)
(* An entry of the DataHub or of the gathered list: none, one whose        *)
(* data_ptr or address is null, or one with a buffer.  Buffers that the    *)
(* DataHub allocated itself are freed with it and the others belong to     *)
(* NumPy; the protocol has to be right for the first kind.                 *)
(***************************************************************************)
Entries == {"absent", "null", "buffer"}

NoEntry     == [i \in Ids |-> "absent"]
NotGathered == [q \in Ranks |-> [i \in Ids |-> "absent"]]

Collectives == {"check_hub", "win_create", "check_window", "check_prepare",
                "gather", "check_gather", "fence_close", "check_fetch",
                "win_free"}
LocalSteps  == {"hub", "prepare", "fence_open", "fetch", "detach", "cleanup",
                "release", "done"}
Outcome     == {"ok", "failed"}
Results     == {"running", "success", "own_error", "other_error"}

TypeOK ==
  /\ toPrepare \in [Ranks -> SUBSET Ids]
  /\ toFetch \in [Ranks -> SUBSET Requests]
  /\ pc \in [Ranks -> Collectives \cup LocalSteps]
  /\ field \in [Ranks -> 1..NumFields]
  /\ step \in [Ranks -> 0..4]
  /\ status \in [Ranks -> Outcome]
  /\ allStatus \in [Ranks -> Outcome]
  /\ hub \in [Ranks -> [Ids -> Entries]]
  /\ window \in [Ranks -> BOOLEAN]
  /\ attached \in [Ranks -> SUBSET Ids]
  /\ addressList \in [Ranks -> SUBSET Ids]
  /\ gathered \in [Ranks -> [Ranks -> [Ids -> Entries]]]
  /\ todo \in [Ranks -> SUBSET Requests]
  /\ pending \in [Ranks -> SUBSET Requests]
  /\ fetched \in [Ranks -> SUBSET Requests]
  /\ output \in [Ranks -> SUBSET ((1..NumFields) \X Requests)]
  /\ result \in [Ranks -> Results]

-----------------------------------------------------------------------------
Init ==
  /\ toPrepare \in [Ranks -> SUBSET Ids]
  /\ toFetch \in [Ranks -> SUBSET Requests]
  /\ pc = [r \in Ranks |-> "hub"]
  /\ field = [r \in Ranks |-> 1]
  /\ step = [r \in Ranks |-> 0]
  /\ status = [r \in Ranks |-> "ok"]
  /\ allStatus = [r \in Ranks |-> "ok"]
  /\ hub = [r \in Ranks |-> NoEntry]
  /\ window = [r \in Ranks |-> FALSE]
  /\ attached = [r \in Ranks |-> {}]
  /\ addressList = [r \in Ranks |-> {}]
  /\ gathered = [r \in Ranks |-> NotGathered]
  /\ todo = [r \in Ranks |-> {}]
  /\ pending = [r \in Ranks |-> {}]
  /\ fetched = [r \in Ranks |-> {}]
  /\ output = [r \in Ranks |-> {}]
  /\ result = [r \in Ranks |-> "running"]

At(r, here) == pc[r] = here
Goto(r, there) == pc' = [pc EXCEPT ![r] = there]

AllAt(here) == \A r \in Ranks : pc[r] = here
AllGoto(there) == pc' = [r \in Ranks |-> there]

Listed(r)  == {i \in Ids : hub[r][i] # "absent"}
Buffers(r) == {i \in Ids : hub[r][i] = "buffer"}

-----------------------------------------------------------------------------
(***************************************************************************)
(* The DataHub looks up or generates the buffers one grid at a time and    *)
(* returns at the first grid that fails, keeping what it has collected.    *)
(* Failing with nothing collected is an unknown field, attribute or field  *)
(* type.                                                                   *)
(***************************************************************************)
GetLocalFieldData(r) ==
  /\ At(r, "hub")
  /\ \E list \in [Ids -> Entries], outcome \in Outcome :
       LET got == {i \in Ids : list[i] # "absent"}
       IN  /\ IF outcome = "ok"
                THEN got = toPrepare[r]
                ELSE got \subseteq toPrepare[r] /\ (got # toPrepare[r] \/ got = {})
           /\ hub' = [hub EXCEPT ![r] = list]
           /\ status' = [status EXCEPT ![r] = outcome]
  /\ Goto(r, "check_hub")
  /\ UNCHANGED <<args, field, step, allStatus, window, attached, addressList,
                 gathered, todo, pending, fetched, output, result>>

(***************************************************************************)
(* CommMpi::CheckAllStates: an Allgather of the local states; every rank   *)
(* gets success if every state is the desired one.                         *)
(***************************************************************************)
\* A plausible bug: the loop looks for one rank in the desired state.
AllOkAny == \E r \in Ranks : status[r] = "ok"

AllOk == \A r \in Ranks : status[r] = "ok"

CheckAllStates(here, onSuccess, onFailure) ==
  /\ AllAt(here)
  /\ allStatus' = [r \in Ranks |-> IF AllOk THEN "ok" ELSE "failed"]
  /\ AllGoto(IF AllOk THEN onSuccess ELSE onFailure)

\* GetRemoteData has left its steps at step s: the window, if there is one, is
\* given back first.  The plausible bug starts one step too late.
ExitFromLate(s) == IF s >= 2 THEN "detach" ELSE "cleanup"

ExitFrom(s) == IF s >= 1 THEN "detach" ELSE "cleanup"

\* The vote of CallFieldRma on the DataHubs.  On success GetRemoteData starts
\* with its members reset.
CheckLocalData ==
  /\ CheckAllStates("check_hub", "win_create", "release")
  /\ step' = [r \in Ranks |-> 0]
  /\ fetched' = [r \in Ranks |-> {}]
  /\ UNCHANGED <<args, field, status, hub, window, attached, addressList,
                 gathered, todo, pending, output, result>>

\* MPI_Win_create_dynamic is collective; its return code is the rank's own.
InitializeMpiWindow ==
  /\ AllAt("win_create")
  /\ \E created \in [Ranks -> BOOLEAN] :
       /\ window' = created
       /\ status' = [r \in Ranks |-> IF created[r] THEN "ok" ELSE "failed"]
  /\ AllGoto("check_window")
  /\ UNCHANGED <<args, field, step, allStatus, hub, attached, addressList,
                 gathered, todo, pending, fetched, output, result>>

CheckWindow ==
  /\ CheckAllStates("check_window", "prepare", ExitFrom(0))
  /\ step' = [r \in Ranks |-> IF AllOk THEN 1 ELSE step[r]]
  /\ UNCHANGED <<args, field, status, hub, window, attached, addressList,
                 gathered, todo, pending, fetched, output, result>>

(***************************************************************************)
(* PrepareData walks the list: a null pointer is listed without being      *)
(* attached, a buffer is attached and then listed.  It stops at the first  *)
(* buffer whose size is invalid, which cannot be attached, or (attached by *)
(* then) whose address cannot be taken.                                    *)
(***************************************************************************)
PrepareData(r) ==
  /\ At(r, "prepare")
  /\ \/ /\ addressList' = [addressList EXCEPT ![r] = Listed(r)]
        /\ attached' = [attached EXCEPT ![r] = Buffers(r)]
        /\ status' = [status EXCEPT ![r] = "ok"]
     \/ \E done \in SUBSET Listed(r) : \E bad \in Buffers(r) \ done :
          /\ addressList' = [addressList EXCEPT ![r] = done]
          /\ \E stuck \in {{}, {bad}} :
               attached' = [attached EXCEPT ![r] =
                              (done \cap Buffers(r)) \cup stuck]
          /\ status' = [status EXCEPT ![r] = "failed"]
  /\ Goto(r, "check_prepare")
  /\ UNCHANGED <<args, field, step, allStatus, hub, window, gathered, todo,
                 pending, fetched, output, result>>

CheckPrepare ==
  /\ CheckAllStates("check_prepare", "gather", ExitFrom(1))
  /\ step' = [r \in Ranks |-> IF AllOk THEN 2 ELSE step[r]]
  /\ UNCHANGED <<args, field, status, hub, window, attached, addressList,
                 gathered, todo, pending, fetched, output, result>>

(***************************************************************************)
(* GatherAllPreparedData: every rank receives the prepared list and the    *)
(* address list of every rank, and clears its own address list.            *)
(***************************************************************************)
AddressOf(q, i) == IF i \in addressList[q] THEN hub[q][i] ELSE "absent"

GatherAllPreparedData ==
  /\ AllAt("gather")
  /\ gathered' = [r \in Ranks |-> [q \in Ranks |-> [i \in Ids |-> AddressOf(q, i)]]]
  /\ addressList' = [r \in Ranks |-> {}]
  /\ status' = [r \in Ranks |-> "ok"]
  /\ AllGoto("check_gather")
  /\ UNCHANGED <<args, field, step, allStatus, hub, window, attached, todo,
                 pending, fetched, output, result>>

CheckGather ==
  /\ CheckAllStates("check_gather", "fence_open", ExitFrom(2))
  /\ step' = [r \in Ranks |-> IF AllOk THEN 3 ELSE step[r]]
  /\ UNCHANGED <<args, field, status, hub, window, attached, addressList,
                 gathered, todo, pending, fetched, output, result>>

-----------------------------------------------------------------------------
(***************************************************************************)
(* FetchRemoteData.  The opening fence asserts MPI_MODE_NOPRECEDE, so it   *)
(* need not wait for the other ranks: it is a step of the rank.            *)
(***************************************************************************)
OpenEpoch(r) ==
  /\ At(r, "fence_open")
  /\ todo' = [todo EXCEPT ![r] = toFetch[r]]
  /\ Goto(r, "fetch")
  /\ UNCHANGED <<args, field, step, status, allStatus, hub, window, attached,
                 addressList, gathered, pending, fetched, output, result>>

\* Where the loop goes when it ends: to the closing fence, even if the fetch
\* failed.  The plausible bugs leave the epoch open on failure, or always.
AfterLoopEarlyReturn(outcome) ==
  IF outcome = "failed" THEN "check_fetch" ELSE "fence_close"

AfterLoopNoFence(outcome) == "check_fetch"

AfterLoop(outcome) == "fence_close"

\* One turn of the loop over fetch_id_list: the request is looked up in the
\* part of the gathered list that belongs to its owner.  A null address is
\* passed on, a buffer is read with MPI_Get.  The loop ends at a request that
\* is not found, or whose read fails, possibly with some of its calls issued.
FetchRemoteData(r) ==
  /\ At(r, "fetch")
  /\ \E req \in todo[r] :
       LET address == gathered[r][req[2]][req[1]]
       IN  \/ /\ address # "null"
              /\ status' = [status EXCEPT ![r] = "failed"]
              /\ \E issued \in IF address = "buffer" THEN {{}, {req}} ELSE {{}} :
                   pending' = [pending EXCEPT ![r] = @ \cup issued]
              /\ todo' = [todo EXCEPT ![r] = {}]
              /\ Goto(r, AfterLoop("failed"))
              /\ UNCHANGED fetched
           \/ /\ address # "absent"
              /\ todo' = [todo EXCEPT ![r] = @ \ {req}]
              /\ fetched' = [fetched EXCEPT ![r] = @ \cup {req}]
              /\ pending' = [pending EXCEPT ![r] =
                    IF address = "buffer" THEN @ \cup {req} ELSE @]
              /\ UNCHANGED <<status, pc>>
  /\ UNCHANGED <<args, field, step, allStatus, hub, window, attached,
                 addressList, gathered, output, result>>

\* No request is left.
LoopDone(r) == todo[r] = {}

\* The loop is over and every request was found.
FetchedAll(r) ==
  /\ At(r, "fetch")
  /\ LoopDone(r)
  /\ status' = [status EXCEPT ![r] = "ok"]
  /\ Goto(r, AfterLoop("ok"))
  /\ UNCHANGED <<args, field, step, allStatus, hub, window, attached,
                 addressList, gathered, todo, pending, fetched, output, result>>

\* The closing fence waits for every rank and completes every MPI_Get.  It is
\* called whether or not the fetch succeeded.
CloseEpoch ==
  /\ AllAt("fence_close")
  /\ pending' = [r \in Ranks |-> {}]
  /\ AllGoto("check_fetch")
  /\ UNCHANGED <<args, field, step, status, allStatus, hub, window, attached,
                 addressList, gathered, todo, fetched, output, result>>

\* After the last vote step becomes 4 whatever the outcome.
CheckFetch ==
  /\ CheckAllStates("check_fetch", ExitFrom(4), ExitFrom(4))
  /\ step' = [r \in Ranks |-> 4]
  /\ UNCHANGED <<args, field, status, hub, window, attached, addressList,
                 gathered, todo, pending, fetched, output, result>>

-----------------------------------------------------------------------------
\* DetachBuffer walks mpi_prepared_data_address_list_.
DetachBuffer(r) ==
  /\ At(r, "detach")
  /\ attached' = [attached EXCEPT ![r] = @ \ addressList[r]]
  /\ Goto(r, "win_free")
  /\ UNCHANGED <<args, field, step, status, allStatus, hub, window,
                 addressList, gathered, todo, pending, fetched, output, result>>

\* MPI_Win_free is collective, and detaches what is still attached.
FreeMpiWindow ==
  /\ AllAt("win_free")
  /\ window' = [r \in Ranks |-> FALSE]
  /\ attached' = [r \in Ranks |-> {}]
  /\ AllGoto("cleanup")
  /\ UNCHANGED <<args, field, step, status, allStatus, hub, addressList,
                 gathered, todo, pending, fetched, output, result>>

CleanUp(r) ==
  /\ At(r, "cleanup")
  /\ gathered' = [gathered EXCEPT ![r] = NotGathered]
  /\ Goto(r, "release")
  /\ UNCHANGED <<args, field, step, status, allStatus, hub, window, attached,
                 addressList, todo, pending, fetched, output, result>>

\* The verdict is that of the vote.  The plausible bug uses the rank's own.
SucceededHere(r) == status[r] = "ok"

Succeeded(r) == allStatus[r] = "ok"

\* The plausible bugs run the loop over the fields once too often, or leave
\* out the last field.
MoreFieldsOffByOne(r) == field[r] <= NumFields

MoreFieldsTooFew(r) == field[r] + 1 < NumFields

MoreFields(r) == field[r] < NumFields

(***************************************************************************)
(* CallFieldRma returns: the DataHub is destroyed and its new allocations  *)
(* are freed.  On a failed vote the caller throws, naming the rank's own   *)
(* error if it has one; otherwise it wraps the fetched data and goes on    *)
(* with the next field, or returns after the last one.                     *)
(***************************************************************************)
CallFieldRma(r) ==
  /\ At(r, "release")
  /\ hub' = [hub EXCEPT ![r] = NoEntry]
  /\ \/ /\ ~Succeeded(r)
        /\ result' = [result EXCEPT ![r] =
              IF status[r] = "failed" THEN "own_error" ELSE "other_error"]
        /\ Goto(r, "done")
        /\ UNCHANGED <<field, output>>
     \/ /\ Succeeded(r)
        /\ output' = [output EXCEPT ![r] = @ \cup ({field[r]} \X fetched[r])]
        /\ IF MoreFields(r)
             THEN /\ field' = [field EXCEPT ![r] = @ + 1]
                  /\ Goto(r, "hub")
                  /\ UNCHANGED result
             ELSE /\ result' = [result EXCEPT ![r] = "success"]
                  /\ Goto(r, "done")
                  /\ UNCHANGED field
  /\ UNCHANGED <<args, step, status, allStatus, window, attached, addressList,
                 gathered, todo, pending, fetched>>

-----------------------------------------------------------------------------
LocalStep(r) ==
  \/ GetLocalFieldData(r)
  \/ PrepareData(r)
  \/ OpenEpoch(r)
  \/ FetchRemoteData(r)
  \/ FetchedAll(r)
  \/ DetachBuffer(r)
  \/ CleanUp(r)
  \/ CallFieldRma(r)

Collective ==
  \/ CheckLocalData
  \/ InitializeMpiWindow
  \/ CheckWindow
  \/ CheckPrepare
  \/ GatherAllPreparedData
  \/ CheckGather
  \/ CloseEpoch
  \/ CheckFetch
  \/ FreeMpiWindow

\* Every rank has returned or thrown.
Finished == AllAt("done") /\ UNCHANGED vars

Next == (\E r \in Ranks : LocalStep(r)) \/ Collective \/ Finished

(***************************************************************************)
(* Each rank is a process that keeps running, and an MPI collective that   *)
(* all the ranks have entered returns.                                     *)
(***************************************************************************)
Fairness ==
  /\ \A r \in Ranks : WF_vars(LocalStep(r))
  /\ WF_vars(Collective)

Spec     == Init /\ [][Next]_vars
FairSpec == Spec /\ Fairness

-----------------------------------------------------------------------------
(***************************************************************************)
(* The collective a rank enters next, or is waiting in: by field and name. *)
(* A rank that is giving up, or has handled the last field, enters none.   *)
(***************************************************************************)
Upcoming(here) ==
  CASE here = "hub"                      -> "check_hub"
    [] here = "prepare"                  -> "check_prepare"
    [] here \in {"fence_open", "fetch"}  -> "fence_close"
    [] here = "detach"                   -> "win_free"
    [] OTHER                             -> here

NextCollective(r) ==
  IF pc[r] \in {"cleanup", "release", "done"}
    THEN IF allStatus[r] = "ok" /\ field[r] < NumFields
           THEN <<field[r] + 1, "check_hub">>
           ELSE <<NumFields + 1, "none">>
    ELSE <<field[r], Upcoming(pc[r])>>

(***************************************************************************)
(* Safety: no rank ever waits in a collective while another one waits in a *)
(* different one, waits in the same one for another field, or has left the *)
(* call.  Otherwise MPI would match an Allgather of one step with that of  *)
(* another, or hang.  CallFieldRma and GetRemoteData.                      *)
(***************************************************************************)
CollectivesMatch ==
  \A r, q \in Ranks :
    pc[r] \in Collectives =>
      /\ pc[q] \in Collectives => pc[q] = pc[r] /\ field[q] = field[r]
      /\ pc[q] # "done"

(***************************************************************************)
(* Safety: as long as an MPI_Get issued by FetchRemoteData may still move  *)
(* bytes, its owner holds a window, the buffer is attached to it, and the  *)
(* owner's DataHub has not dropped (and possibly freed) the buffer.        *)
(***************************************************************************)
BuffersOutliveReads ==
  \A r \in Ranks : \A req \in pending[r] :
    /\ window[req[2]]
    /\ req[1] \in attached[req[2]]
    /\ hub[req[2]][req[1]] = "buffer"

(***************************************************************************)
(* Safety: the ranks that have returned agree whether the call succeeded,  *)
(* and a rank that says "Error occurred in other MPI process." is right:   *)
(* a rank that has not returned yet or has named its own error is failed.  *)
(* CallFieldRma and its callers.                                           *)
(***************************************************************************)
VerdictsAgree ==
  \A r, q \in Ranks :
    /\ result[r] = "success" => result[q] \in {"running", "success"}
    /\ result[r] = "other_error" =>
         \E s \in Ranks \ {r} : /\ status[s] = "failed"
                                /\ result[s] \in {"running", "own_error"}

(***************************************************************************)
(* Safety: a call that succeeds has handed to Python every requested grid  *)
(* of every field, read to its end (no MPI_Get is left without a fence).   *)
(* FetchRemoteData and the loop of GetFieldRemote.                         *)
(***************************************************************************)
OutputComplete ==
  \A r \in Ranks :
    result[r] = "success" =>
      /\ output[r] = (1..NumFields) \X toFetch[r]
      /\ pending[r] = {}

(***************************************************************************)
(* Safety: a rank that has left the call holds no window, unless another   *)
(* rank failed to create its one, and then the collective MPI_Win_free is  *)
(* not possible any more.  The step >= 1 exit of GetRemoteData.            *)
(***************************************************************************)
WindowsReleased ==
  \A r \in Ranks :
    result[r] # "running" /\ window[r] =>
      step[r] = 0 /\ \E q \in Ranks : ~window[q]

(***************************************************************************)
(* Liveness: every rank leaves the call, whichever ranks fail, wherever.   *)
(***************************************************************************)
AllReturn == <>(\A r \in Ranks : result[r] # "running")

-----------------------------------------------------------------------------
(***************************************************************************)
(* Refinement: a call behaves like CollectiveCall.  All the ranks leave a  *)
(* vote together, so the number of fields settled is read off any of them. *)
(***************************************************************************)
FieldsSettled(r) ==
  IF step[r] = 4 /\ allStatus[r] = "ok" /\
     pc[r] \in {"detach", "win_free", "cleanup", "release", "done"}
    THEN field[r] ELSE field[r] - 1

Settled == FieldsSettled(CHOOSE r \in Ranks : TRUE)
Blamed  == {r \in Ranks : status[r] = "failed"}
Aborted == \E r \in Ranks : allStatus[r] = "failed"

Promise == INSTANCE CollectiveCall
  WITH settled <- Settled, blame <- Blamed, aborted <- Aborted

\* GetRemoteData and its callers keep the promise of CollectiveCall, with
\* its liveness.
KeepsPromise == Promise!Spec
=============================================================================
