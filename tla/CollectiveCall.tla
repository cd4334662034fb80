--------------------------- MODULE CollectiveCall ---------------------------
(***************************************************************************)
(* What a caller of libyt.get_field_remote may rely on, and nothing of how *)
(* it is done: the fields are settled one after the other, each for all    *)
(* the ranks at once; the first field on which some rank fails ends the    *)
(* call everywhere, the ranks that failed name their own error and the     *)
(* others say that the error occurred elsewhere.                           *)
(***************************************************************************)
EXTENDS Naturals

CONSTANTS
  Ranks,      \* the MPI ranks that call together
  NumFields   \* the length of the list of fields, at least one

VARIABLES
  settled,  \* number of fields that succeeded on every rank
  blame,    \* ranks that failed on the field being settled
  aborted,  \* has the call been given up?
  result    \* what each rank returned

abstractVars == <<settled, blame, aborted, result>>

Init ==
  /\ settled = 0
  /\ blame = {}
  /\ aborted = FALSE
  /\ result = [r \in Ranks |-> "running"]

\* Some ranks fail in a step of the field being settled.
Fail(S) ==
  /\ ~aborted
  /\ settled < NumFields
  /\ S # {}
  /\ blame' = blame \cup S
  /\ UNCHANGED <<settled, aborted, result>>

\* No rank failed: the field is settled for all.
Settle ==
  /\ ~aborted
  /\ blame = {}
  /\ settled < NumFields
  /\ settled' = settled + 1
  /\ UNCHANGED <<blame, aborted, result>>

\* Some rank failed: the call is given up for all.
Abort ==
  /\ ~aborted
  /\ blame # {}
  /\ aborted' = TRUE
  /\ UNCHANGED <<settled, blame, result>>

Verdict(r) ==
  IF ~aborted THEN "success"
  ELSE IF r \in blame THEN "own_error" ELSE "other_error"

\* A rank returns, once the call is decided.
Return(r) ==
  /\ aborted \/ settled = NumFields
  /\ result[r] = "running"
  /\ result' = [result EXCEPT ![r] = Verdict(r)]
  /\ UNCHANGED <<settled, blame, aborted>>

Next ==
  \/ \E S \in SUBSET Ranks : Fail(S)
  \/ Settle
  \/ Abort
  \/ \E r \in Ranks : Return(r)

\* The call is decided and every rank returns.
Decide == Settle \/ Abort

Safety == Init /\ [][Next]_abstractVars

Spec == Safety /\ WF_abstractVars(Decide)
               /\ \A r \in Ranks : WF_abstractVars(Return(r))
=============================================================================
