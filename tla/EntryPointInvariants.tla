------------------------ MODULE EntryPointInvariants ------------------------
(***************************************************************************)
(* The inductive invariants of EntryPoint.                                 *)
(***************************************************************************)
EXTENDS EntryPoint

\* The user leaves the flag file alone while the ranks look for it.
FlagIsLeftAlone == UserMayFlag = FALSE

\* The next collective of a rank, or that there is none.
Ahead(r) ==
  CASE pc[r] = "test" ->
         IF flag \/ (mode = "reload" /\ failed) THEN "enter" ELSE "left"
    [] pc[r] \in {"launch", "connect", "choose", "asking"} -> "indicator"
    [] pc[r] = "execute" -> "vote"
    [] pc[r] = "magic"   -> IF mode = "prompt" THEN "end" ELSE "indicator"
    [] pc[r] = "remove"  -> "left"
    [] pc[r] = "stop"    -> "final"
    [] OTHER             -> pc[r]

InCode    == {"code", "execute", "vote"}
InCommand == {"load", "magic", "end"} \cup InCode
InJob     == {"command", "cell", "stop", "final"} \cup InCommand

(***************************************************************************)
(* What only collectives change is the same everywhere.                    *)
(***************************************************************************)
Together ==
  \A r, q \in Ranks : turn[r] = turn[q] /\ code[r] = code[q] /\ verdict[r] = verdict[q]

(***************************************************************************)
(* The root's place fits its job, and the job is one of the mode's.        *)
(***************************************************************************)
JobAtRoot ==
  LET kind == job[root].kind
      what == job[root].what
  IN  /\ pc[root] \in {"indicator"} \cup InJob =>
           /\ kind \in {"exit", "command", "code"}
           /\ mode = "prompt" => kind # "exit"
           /\ kind = "code" => content \in Content(Source(mode))
           /\ kind = "command" /\ what = "load" =>
                content \in Content(File) \cup {Unreadable}
      /\ pc[root] \in {"command", "load", "magic"} => kind = "command"
      /\ pc[root] = "load" => what = "load"
      /\ pc[root] = "cell" => kind = "code" /\ mode = "kernel" /\ turn[root] = 1
      /\ pc[root] \in {"command", "load"} => turn[root] = 1
      /\ pc[root] \in InCode =>
           \/ kind = "command" /\ what = "load" /\ content.readable /\ turn[root] = 1
           \/ kind = "code" /\ turn[root] \in 1 .. LastTurn(root)
                            /\ content.parts # <<>>

(***************************************************************************)
(* The last job is the one that leaves.                                    *)
(***************************************************************************)
LastJob ==
  jobs = NumJobs =>
    \/ pc[root] \in {"remove", "stop", "final", "left"}
    \/ pc[root] = "indicator" /\ mode # "prompt" /\ job[root].kind = "exit"
    \/ /\ pc[root] \in {"indicator", "command", "magic"}
       /\ mode = "prompt" /\ job[root] = [kind |-> "command", what |-> "exit"]
    \/ pc[root] = "end" /\ done[root]

(***************************************************************************)
(* Ranks in a job are in the same job, and all ranks have the same next    *)
(* collective.                                                             *)
(***************************************************************************)
SameJobs ==
  \A r, q \in Ranks :
    /\ pc[r] \in InJob /\ pc[q] \in InJob => job[r].kind = job[q].kind
    /\ /\ pc[r] \in InCommand /\ job[r].kind = "command"
       /\ pc[q] \in InCommand /\ job[q].kind = "command"
       => job[r] = job[q]

Lockstep == SameJobs /\ \A r, q \in Ranks : Ahead(r) = Ahead(q)

(***************************************************************************)
(* Where a rank can be in which mode and job, and when done is set.        *)
(***************************************************************************)
RootsPlaces == {"launch", "connect", "choose", "asking", "remove", "stop"}

PlaceOf(r) ==
  /\ pc[r] \in RootsPlaces => r = root
  /\ pc[r] = "board" => mode # "kernel"
  /\ pc[r] \in {"board", "test", "enter"} => job[r] = NoJob
  /\ pc[r] = "end" => mode = "prompt"
  /\ pc[r] = "remove" => mode = "reload"
  /\ pc[r] \in {"launch", "connect", "stop", "final", "cell"} => mode = "kernel"
  /\ pc[r] \in {"command", "load", "magic"} => job[r].kind = "command"
  /\ done[r] => pc[r] \in {"end", "left"} /\ mode = "prompt"
  /\ pc[r] = "end" => (done[r] <=> job[r].kind = "command" /\ Leaves(r))

Places == \A r \in Ranks : PlaceOf(r)

(***************************************************************************)
(* A rank takes for a success only what returned on it.                    *)
(***************************************************************************)
KeptBy(r) ==
  pc[r] \notin {"execute", "vote"} /\ verdict[r] = "success" /\ code[r].ends # "empty"
    => ran[r] = "success"

Kept == \A r \in Ranks : KeptBy(r)

(***************************************************************************)
(* The files that libyt has created are there for the root to remove, and  *)
(* a rank on its way out has cleared its history.                          *)
(***************************************************************************)
FilesRemovable ==
  /\ generated => mode = "reload" /\ pc[root] \notin {"board", "test"}
  /\ generated /\ flag => pc[root] # "left"
  /\ pid => /\ mode = "kernel"
            /\ pc[root] \notin {"board", "test", "enter", "launch", "final", "left"}

ClearedBy(r) ==
  /\ pc[r] \in {"board", "test", "enter", "remove", "stop", "final", "left"} /\ recorded[r]
       => r = root /\ mode = "prompt"
  /\ done[r] /\ recorded[r] => r = root

Removable == FilesRemovable /\ \A r \in Ranks : ClearedBy(r)

IInv == TypeOK /\ Together /\ JobAtRoot /\ LastJob /\ Places /\ Lockstep /\ Kept /\ Removable

-----------------------------------------------------------------------------
(***************************************************************************)
(* Why an entry point is one session, even if its flag file is created     *)
(* while some ranks look for it.  No rank is in the session while another  *)
(* has still to enter it,                                                  *)
(***************************************************************************)
Outside == {"board", "test", "enter"}

EnterTogether ==
  \A r, q \in Ranks :
    pc[r] \in Outside => pc[q] \in Outside \cup {"left"} /\ job[q] = NoJob

\* they run the same code at the same time (and, SameJobs, in the same job),
RunTogether ==
  \A r, q \in Ranks : pc[r] \in {"execute", "vote"} => pc[q] \in {"execute", "vote"}

\* the code is the part of the request whose turn it is, and a job without
\* code has nothing to run,
Served ==
  /\ Given => code[root] = content.parts[turn[root]]
  /\ pc[root] \in Serving =>
       \/ job[root].kind = "code"
       \/ job[root].kind = "command" /\ job[root].what = "load"
       \/ content = Unreadable

\* and the root is on its way out if and only if it has been told to leave.
RootLeaves ==
  /\ Exiting => pc[root] \in {"indicator", "command", "magic", "end", "remove", "stop",
                              "final", "left"}
  /\ pc[root] \in {"remove", "stop", "final"} => Exiting
  /\ pc[root] = "left" => Exiting \/ job[root] = NoJob

InSession == EnterTogether /\ RunTogether /\ SameJobs /\ Served /\ RootLeaves

-----------------------------------------------------------------------------
(***************************************************************************)
(* Nobody is stuck: some rank, or the user, has a step to take, or all are *)
(* in the same collective, or the session is over, or only the workers of  *)
(* a prompt without input wait.                                            *)
(***************************************************************************)
NeverStuck ==
  \/ \E r \in Ranks : pc[r] \in LocalSteps \ {"left", "asking"}
  \/ \E place \in Collectives : AllAt(place)
  \/ AllLeft
  \/ Stranded
=============================================================================
