----------------------- MODULE ReloadFilesInvariants -----------------------
(***************************************************************************)
(* Why a patient user of the reload mode sees the own result: the user and *)
(* the root take turns, and the file RELOAD says whose turn it is.         *)
(***************************************************************************)
EXTENDS ReloadFiles

\* RELOAD is there from the user's request until the root has answered it.
TakeTurns ==
  /\ reload => userAt = "waiting"
  /\ rootAt \notin {"poll", "left"} => reload

\* The temporary file is there between running the script and publishing it.
Temporary ==
  reloading = IF rootAt \in {"clean", "publish"} THEN script ELSE 0

\* The results that are there are those of the script saved, if any; until
\* the root has removed the old ones there may be one of an earlier version.
Own == \A name \in Results : result[name] \in {0, script}

Answered ==
  /\ result["SUCCESS"] = 0 \/ result["FAILED"] = 0
  /\ rootAt = "publish" => result = NoResult
  /\ rootAt = "consume" => Own
  /\ userAt = "waiting" /\ ~reload => Own
  /\ userAt = "idle" => seen = script

Domains == DOMAIN result = Results

InTurn == Domains /\ TakeTurns /\ Temporary /\ Answered
=============================================================================
