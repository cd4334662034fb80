---------------------------- MODULE SharedSession ----------------------------
(***************************************************************************)
(* What the user of an entry point may rely on, and nothing of the flag    *)
(* file, the indicators and the broadcasts by which it is done: the        *)
(* session is open on all ranks or on none; one request is served at a     *)
(* time, and its pieces of code are run one after the other; each piece is *)
(* run once on every rank, and the next one only after all ranks have      *)
(* succeeded; all ranks hear the same verdict; and no rank leaves before   *)
(* the user has closed the session.                                        *)
(***************************************************************************)
EXTENDS Naturals, Sequences

CONSTANTS
  Ranks,    \* the MPI ranks of the session
  Pieces    \* pieces of code: how they end, or "empty", and what they define

VARIABLES
  phase,    \* of the session: "before", "open" or "over"
  asked,    \* the pieces of the request being served, none between requests
  next,     \* which of them is run
  started,  \* have the ranks been given that piece?
  todo,     \* the ranks that have still to run it
  outcome,  \* how it ended on each rank
  verdict,  \* what each rank was told of the piece before
  known,    \* the functions that each rank has
  gone      \* the ranks that have left

abstractVars == <<phase, asked, next, started, todo, outcome, verdict, known, gone>>

request == <<asked, next, started, todo, outcome, verdict, known>>

Init ==
  /\ phase = "before"
  /\ asked = <<>>
  /\ next = 1
  /\ started = FALSE
  /\ todo = {}
  /\ outcome = [r \in Ranks |-> "not_run"]
  /\ verdict = [r \in Ranks |-> "success"]
  /\ known = [r \in Ranks |-> {}]
  /\ gone = {}

\* The session opens for all ranks, or else each goes on without it.
Open ==
  /\ phase = "before" /\ gone = {}
  /\ phase' = "open"
  /\ UNCHANGED <<request, gone>>

Pass(r) ==
  /\ phase = "before" /\ r \notin gone
  /\ gone' = gone \cup {r}
  /\ UNCHANGED <<request, phase>>

\* The user asks for code to be run.
Ask ==
  /\ phase = "open" /\ asked = <<>>
  /\ asked' \in Seq(Pieces) \ {<<>>}
  /\ UNCHANGED <<phase, next, started, todo, outcome, verdict, known, gone>>

\* The piece is given to all ranks.
Give ==
  /\ asked # <<>> /\ ~started /\ asked[next].ends # "empty"
  /\ started' = TRUE
  /\ todo' = Ranks
  /\ outcome' = [r \in Ranks |-> "not_run"]
  /\ UNCHANGED <<phase, asked, next, verdict, known, gone>>

\* A rank runs it, and has some of the functions it defines then, whether it
\* succeeds or fails.
Run(r) ==
  /\ r \in todo
  /\ todo' = todo \ {r}
  /\ \E ending \in {"success", "failed"}, names \in SUBSET asked[next].defines :
       /\ outcome' = [outcome EXCEPT ![r] = ending]
       /\ known' = [known EXCEPT ![r] = @ \cup names]
  /\ UNCHANGED <<phase, asked, next, started, verdict, gone>>

\* All ranks are told the same, and go on with the next piece after a success.
Tell(result) ==
  /\ verdict' = [r \in Ranks |-> result]
  /\ IF result = "success" /\ next < Len(asked)
       THEN next' = next + 1 /\ UNCHANGED asked
       ELSE next' = 1 /\ asked' = <<>>

Summary == IF \A r \in Ranks : outcome[r] = "success" THEN "success" ELSE "failed"

Decide ==
  /\ started /\ todo = {}
  /\ Tell(Summary)
  /\ started' = FALSE
  /\ UNCHANGED <<phase, todo, outcome, known, gone>>

\* There is nothing to run in an empty piece.
Skip ==
  /\ asked # <<>> /\ ~started /\ asked[next].ends = "empty"
  /\ Tell("success")
  /\ UNCHANGED <<phase, started, todo, outcome, known, gone>>

\* The user closes the session, between requests, and the ranks leave.
Close ==
  /\ phase = "open" /\ asked = <<>>
  /\ phase' = "over"
  /\ UNCHANGED <<request, gone>>

Leave(S) ==
  /\ phase = "over"
  /\ S # {} /\ S \cap gone = {}
  /\ gone' = gone \cup S
  /\ UNCHANGED <<request, phase>>

Next ==
  \/ Open \/ Ask \/ Give \/ Decide \/ Skip \/ Close
  \/ \E r \in Ranks : Pass(r) \/ Run(r)
  \/ \E S \in SUBSET Ranks : Leave(S)

Safety == Init /\ [][Next]_abstractVars
=============================================================================
