---------------------------- MODULE ReloadFiles ----------------------------
(***************************************************************************)
(* How a user and the root of yt_run_ReloadScript talk through files.  The *)
(* user saves the script and creates the file RELOAD; the root, which      *)
(* looks for it every two seconds, runs the script, leaves what came out   *)
(* in RELOAD_SUCCESS or RELOAD_FAILED, and removes RELOAD.  The file       *)
(* RELOAD_EXIT ends the session.  What the ranks do with the script is the *)
(* subject of EntryPoint.                                                  *)
(***************************************************************************)
EXTENDS Naturals

CONSTANTS
  NumRequests,  \* how often the user asks
  Patient       \* does the user wait for RELOAD to vanish, or for a result?

ASSUME RequestsAssumption == NumRequests \in Nat /\ Patient \in BOOLEAN

Results == {"SUCCESS", "FAILED"}

VARIABLES
  script,     \* which version of the script is saved
  reload,     \* does RELOAD exist?
  exit,       \* does RELOAD_EXIT exist?
  reloading,  \* the version whose output is in the temporary file, 0 if none
  result,     \* the version whose output each result file has, 0 if it is not there
  rootAt,     \* where the root is in its loop
  success,    \* reload_success of the root
  userAt,     \* what the user does
  seen        \* the version whose output the user saw last

reloadVars == <<script, reload, exit, reloading, result, rootAt, success, userAt, seen>>

NoResult == [name \in Results |-> 0]

ReloadInit ==
  /\ script = 0
  /\ reload = FALSE
  /\ exit = FALSE
  /\ reloading = 0
  /\ result = NoResult
  /\ rootAt = "poll"
  /\ success = TRUE
  /\ userAt = "idle"
  /\ seen = 0

-----------------------------------------------------------------------------
\* The root finds RELOAD.
DetectReload ==
  /\ rootAt = "poll" /\ reload
  /\ rootAt' = "run"
  /\ UNCHANGED <<script, reload, exit, reloading, result, success, userAt, seen>>

\* There is no RELOAD, but RELOAD_EXIT.
DetectExit ==
  /\ rootAt = "poll" /\ ~reload /\ exit
  /\ exit' = FALSE
  /\ rootAt' = "left"
  /\ UNCHANGED <<script, reload, reloading, result, success, userAt, seen>>

\* There is neither, and the root looks again two seconds later.
Sleep == rootAt = "poll" /\ ~reload /\ ~exit /\ UNCHANGED reloadVars

\* The script is read, run everywhere, and the output written to a temporary
\* file.  It may be missing, not compile or fail.
RunScript ==
  /\ rootAt = "run"
  /\ reloading' = script
  /\ success' \in BOOLEAN
  /\ rootAt' = "clean"
  /\ UNCHANGED <<script, reload, exit, result, userAt, seen>>

\* The result files that are removed before the new one is there.  The
\* plausible bug only removes the one of the same name.
RemovedSame == {IF success THEN "SUCCESS" ELSE "FAILED"}

Removed == Results

RemoveOldResults ==
  /\ rootAt = "clean"
  /\ result' = [name \in Results |-> IF name \in Removed THEN 0 ELSE result[name]]
  /\ rootAt' = "publish"
  /\ UNCHANGED <<script, reload, exit, reloading, success, userAt, seen>>

\* The temporary file is renamed.
Publish ==
  /\ rootAt = "publish"
  /\ result' = [result EXCEPT ![IF success THEN "SUCCESS" ELSE "FAILED"] = reloading]
  /\ reloading' = 0
  /\ rootAt' = "consume"
  /\ UNCHANGED <<script, reload, exit, success, userAt, seen>>

\* RELOAD is removed last.  The plausible bug leaves it there.
StillThere == reload

AfterConsume == FALSE

RemoveReload ==
  /\ rootAt = "consume"
  /\ reload' = AfterConsume
  /\ rootAt' = "poll"
  /\ UNCHANGED <<script, exit, reloading, result, success, userAt, seen>>

-----------------------------------------------------------------------------
\* The user saves the next version of the script and creates RELOAD.  One who
\* waits for a result file first removes the old ones.
Request ==
  /\ userAt = "idle" /\ script < NumRequests
  /\ script' = script + 1
  /\ reload' = TRUE
  /\ result' = IF Patient THEN result ELSE NoResult
  /\ userAt' = "waiting"
  /\ UNCHANGED <<exit, reloading, rootAt, success, seen>>

ReadResult ==
  /\ userAt = "waiting"
  /\ Patient => ~reload
  /\ \E name \in Results : result[name] # 0 /\ seen' = result[name]
  /\ userAt' = "idle"
  /\ UNCHANGED <<script, reload, exit, reloading, result, rootAt, success>>

RequestExit ==
  /\ userAt = "idle" /\ script = NumRequests
  /\ exit' = TRUE
  /\ userAt' = "gone"
  /\ UNCHANGED <<script, reload, reloading, result, rootAt, success, seen>>

Root == DetectReload \/ DetectExit \/ RunScript \/ RemoveOldResults \/ Publish \/ RemoveReload
User == Request \/ ReadResult \/ RequestExit

ReloadFinished == userAt = "gone" /\ rootAt = "left" /\ UNCHANGED reloadVars

ReloadNext == Root \/ Sleep \/ User \/ ReloadFinished

\* The root keeps polling; a user looks for the answer, and leaves in the end.
ReloadSpec     == ReloadInit /\ [][ReloadNext]_reloadVars
ReloadFairSpec == ReloadSpec /\ WF_reloadVars(Root) /\ WF_reloadVars(User)

-----------------------------------------------------------------------------
(***************************************************************************)
(* Safety: what a user sees is the output of the version that was saved    *)
(* before asking, never that of an earlier one, only one of the two result *)
(* files is there to see, and no temporary file is left between requests.  *)
(***************************************************************************)
SeesOwnResult ==
  /\ userAt = "idle" => seen = script
  /\ result["SUCCESS"] = 0 \/ result["FAILED"] = 0
  /\ rootAt \in {"poll", "left"} => reloading = 0

(***************************************************************************)
(* Liveness: every request is answered: the documentation says that one of *)
(* the two result files will be generated once RELOAD is there.            *)
(***************************************************************************)
EveryRequestAnswered == \A k \in 1..NumRequests : script = k ~> seen = k
=============================================================================
