------------------------ MODULE RemoteDataInvariants ------------------------
(***************************************************************************)
(* Why RemoteData is safe: the inductive invariants behind its safety      *)
(* properties.  Each needs TypeOK, and most need the ones above them.      *)
(***************************************************************************)
EXTENDS RemoteData

(***************************************************************************)
(* Lockstep.  Between two collectives the ranks are anywhere, but they all *)
(* have the same next collective, they all saw the same outcome of the     *)
(* last vote, and only the last field ends a call that succeeds.           *)
(***************************************************************************)
SameCollective == \A r, q \in Ranks : NextCollective(r) = NextCollective(q)

SameVote == \A r, q \in Ranks : allStatus[r] = allStatus[q]

DoneIsLastField ==
  \A r \in Ranks : pc[r] = "done" /\ allStatus[r] = "ok" => field[r] = NumFields

Lockstep == SameCollective /\ SameVote /\ DoneIsLastField

(***************************************************************************)
(* Verdict.  A failed vote is only seen by ranks that are leaving, it has  *)
(* a culprit, and what a rank returned follows from its two outcomes.      *)
(***************************************************************************)
Leaving == {"detach", "win_free", "cleanup", "release", "done"}

FailureHasCulprit ==
  \A r \in Ranks :
    allStatus[r] = "failed" =>
      pc[r] \in Leaving /\ \E s \in Ranks : status[s] = "failed"

ResultFollows ==
  \A r \in Ranks :
    /\ result[r] = "running" <=> pc[r] # "done"
    /\ result[r] = "success" => allStatus[r] = "ok"
    /\ result[r] = "own_error" => allStatus[r] = "failed" /\ status[r] = "failed"
    /\ result[r] = "other_error" => allStatus[r] = "failed" /\ status[r] = "ok"

Verdict == FailureHasCulprit /\ ResultFollows

(***************************************************************************)
(* Exposure.  From the vote on the window to the closing fence every rank  *)
(* holds a window; from the vote on the preparation its buffers are        *)
(* attached; from the gather on the gathered list is what the DataHubs     *)
(* hold, so that only attached buffers are read.                           *)
(***************************************************************************)
Epoch    == {"fence_open", "fetch", "fence_close"}
Gathered == {"check_gather"} \cup Epoch
Prepared == {"gather"} \cup Gathered
Windowed == {"prepare", "check_prepare"} \cup Prepared

WindowHeld ==
  \A r \in Ranks :
    /\ pc[r] = "check_window" /\ status[r] = "ok" => window[r]
    /\ pc[r] \in Windowed => window[r]

BuffersAttached ==
  \A r \in Ranks :
    /\ pc[r] = "check_prepare" /\ status[r] = "ok" =>
         attached[r] = Buffers(r) /\ addressList[r] = Listed(r)
    /\ pc[r] \in Prepared => attached[r] = Buffers(r)
    /\ pc[r] = "gather" => addressList[r] = Listed(r)

GatheredIsCurrent ==
  \A r, q \in Ranks : \A i \in Ids :
    pc[r] \in Gathered => gathered[r][q][i] = hub[q][i]

ReadsAreGathered ==
  \A r \in Ranks : \A req \in pending[r] :
    /\ pc[r] \in {"fetch", "fence_close"}
    /\ gathered[r][req[2]][req[1]] = "buffer"

Exposure == WindowHeld /\ BuffersAttached /\ GatheredIsCurrent /\ ReadsAreGathered

(***************************************************************************)
(* Progress of the reads.  What has been fetched and what is still to do   *)
(* make up the request list, and the output has every field before the     *)
(* present one.                                                            *)
(***************************************************************************)
NotFetching == {"win_create", "check_window", "prepare", "check_prepare",
                "gather", "check_gather", "fence_open"}

FetchedSoFar ==
  \A r \in Ranks :
    /\ pc[r] \in NotFetching => fetched[r] = {}
    /\ pc[r] = "fetch" => /\ todo[r] \subseteq toFetch[r]
                          /\ fetched[r] = toFetch[r] \ todo[r]
    /\ pc[r] \in {"fence_close", "check_fetch"} /\ status[r] = "ok"
         => fetched[r] = toFetch[r]
    /\ pc[r] \in Leaving \ {"done"} /\ allStatus[r] = "ok"
         => fetched[r] = toFetch[r]

OutputSoFar ==
  \A r \in Ranks :
    /\ pc[r] # "done" => output[r] = (1..(field[r] - 1)) \X toFetch[r]
    /\ result[r] = "success" => output[r] = (1..NumFields) \X toFetch[r]

Complete == FetchedSoFar /\ OutputSoFar

(***************************************************************************)
(* Windows.  A rank outside the windowed part of the call holds a window   *)
(* only if the creation failed elsewhere, and then the call is given up.   *)
(***************************************************************************)
WindowLeftOver ==
  \A r \in Ranks :
    /\ pc[r] \in {"hub", "check_hub"} => ~window[r]
    /\ pc[r] \in {"win_create", "check_window"} => step[r] = 0
    /\ pc[r] = "check_window" /\ status[r] = "failed" => ~window[r]
    /\ pc[r] \in {"cleanup", "release", "done"} /\ window[r] =>
         /\ allStatus[r] = "failed"
         /\ step[r] = 0
         /\ \E q \in Ranks : ~window[q]

(***************************************************************************)
(* Passed.  A rank that leaves without a failed vote has taken all the     *)
(* steps of GetRemoteData, and a rank that has failed since the last vote  *)
(* is on its way to the next: where the fields settled by a call stand.    *)
(***************************************************************************)
Voting == {"check_hub", "check_window", "check_prepare", "check_gather",
           "fence_close", "check_fetch"}

Passed ==
  \A r \in Ranks :
    allStatus[r] = "ok" =>
      /\ pc[r] \in Leaving => step[r] = 4
      /\ pc[r] \notin Voting => status[r] = "ok"

(***************************************************************************)
(* All of it: the reason of every safety property of RemoteData.           *)
(***************************************************************************)
Invariants == Lockstep /\ Verdict /\ Exposure /\ Complete /\ WindowLeftOver
              /\ Passed

(***************************************************************************)
(* Nobody is stuck: some rank has a step of its own to take, or all ranks  *)
(* are in the same collective, or all are done.                            *)
(***************************************************************************)
NeverStuck ==
  \/ \E r \in Ranks : pc[r] \in LocalSteps \ {"done"}
  \/ \E place \in Collectives : \A r \in Ranks : pc[r] = place
  \/ \A r \in Ranks : pc[r] = "done"
=============================================================================
