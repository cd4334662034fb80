----------------------------- MODULE EntryPoint -----------------------------
(***************************************************************************)
(* One call of an entry point on every rank: yt_run_InteractiveMode (mode  *)
(* "prompt"), yt_run_ReloadScript ("reload") or yt_run_JupyterKernel       *)
(* ("kernel").  Each rank looks for the flag file; those that find it meet *)
(* in a barrier, after which the root gets jobs from the user and tells    *)
(* the workers, job by job, what to do.  A worker learns of a job by       *)
(* broadcasts: an indicator, then the command or the code, part by part.   *)
(*                                                                         *)
(* How a rank gets here (RunEveryFunction), and what the commands do to    *)
(* the inline functions, is the subject of InlineFunctions.                *)
(***************************************************************************)
EXTENDS Integers, Sequences, FiniteSets

CONSTANTS
  Ranks,
  root,         \* mpi_root_
  Modes,        \* the entry points that may be called
  Functions,    \* the functions that user's code may define
  Ends,         \* how a piece of code may end on the ranks, see Parts
  NumJobs,      \* the jobs of a session, the last one of which leaves it
  Connections,  \* what the kernel may find in the place of its connection file
  UserMayFlag   \* may the user create the flag file while the ranks look for it?

ASSUME RanksAssumption == IsFiniteSet(Ranks) /\ root \in Ranks
ASSUME JobsAssumption  == NumJobs \in Nat \ {0} /\ UserMayFlag \in BOOLEAN
ASSUME ModesAssumption ==
  /\ Modes \subseteq {"prompt", "reload", "kernel"}
  /\ Ends \subseteq {"returns", "raises", "differs"}

\* The connection file is libyt's own, or one that the user has to supply.
ConnectionStates == {"own", "absent", "faulty", "good"}
ASSUME ConnectionsAssumption == Connections \subseteq ConnectionStates

(***************************************************************************)
(* A piece of code defines functions, and returns on all the ranks, raises *)
(* on all of them, or differs from one rank to another.  It may be empty.  *)
(***************************************************************************)
Parts  == [ends : Ends, defines : SUBSET Functions]
NoCode == [ends |-> "empty", defines |-> {}]

(***************************************************************************)
(* What a user asks for.  AllExecuteCell runs a cell in two parts, the     *)
(* last statement on its own, unless it has none; anything else is run in  *)
(* one part, which is not empty at the prompt but may be in a file.        *)
(***************************************************************************)
Line     == {<<p>> : p \in Parts}
File     == Line \cup {<<NoCode>>}
Cell     == {<<p, q>> : p \in Parts \cup {NoCode}, q \in Parts} \cup {<<>>}

Content(parts) == [readable : {TRUE}, parts : parts]
Unreadable     == [readable |-> FALSE, parts |-> <<>>]

Leave   == {[kind |-> "exit", what |-> "none", content |-> Unreadable]}
Command(whats, contents) == [kind : {"command"}, what : whats, content : contents]
Code(contents) == [kind : {"code"}, what : {"none"}, content : contents]

Source(mode) ==
  CASE mode = "prompt" -> Line
    [] mode = "reload" -> File
    [] mode = "kernel" -> Cell

Exits(mode) == IF mode = "prompt" THEN Command({"exit"}, {Unreadable}) ELSE Leave

Jobs(mode) ==
  Exits(mode) \cup Command({"exit", "other"}, {Unreadable})
    \cup Command({"load"}, Content(File) \cup {Unreadable})
    \cup Code(Content(Source(mode)))

VARIABLES
  mode,      \* the entry point
  failed,    \* has an inline function that is to run failed?
  flag,      \* does the flag file exist?
  generated, \* remove_flag_file of the root
  pc,        \* where each rank is
  job,       \* what each rank knows of the job: its kind and command
  content,   \* the file or code of the job, at the root
  turn,      \* which part each rank runs
  code,      \* the code each rank got
  ran,       \* how it ended there: has_error
  verdict,   \* what AllExecute returned on each rank
  known,     \* the names in function_info_list_ of each rank
  recorded,  \* does python_shell_ of each rank have a history?
  done,      \* done, the flag of the prompt's loop
  jobs,      \* the jobs done
  connection,\* the connection file of the kernel
  pid,       \* is there a file with the process id of the kernel?
  pending    \* does the prompt hold the beginning of a statement?

vars == <<mode, failed, flag, generated, pc, job, content, turn, code, ran,
          verdict, known, recorded, done, jobs, connection, pid, pending>>

files   == <<connection, pid>>
session == <<mode, failed, flag, generated, files, pending>>
running == <<turn, code, ran, verdict>>

NoJob == [kind |-> "none", what |-> "none"]

Init ==
  /\ mode \in Modes
  /\ failed \in BOOLEAN
  /\ flag \in BOOLEAN
  /\ generated = FALSE
  /\ pc = [r \in Ranks |-> IF mode = "kernel" THEN "test" ELSE "board"]
  /\ job = [r \in Ranks |-> NoJob]
  /\ content = Unreadable
  /\ turn = [r \in Ranks |-> 1]
  /\ code = [r \in Ranks |-> NoCode]
  /\ ran = [r \in Ranks |-> "not_run"]
  /\ verdict = [r \in Ranks |-> "success"]
  /\ known = [r \in Ranks |-> {}]
  /\ recorded = [r \in Ranks |-> FALSE]
  /\ done = [r \in Ranks |-> FALSE]
  /\ jobs = 0
  /\ connection \in IF mode = "kernel" THEN Connections ELSE {"own"}
  /\ pid = FALSE
  /\ pending = FALSE

Collectives == {"board", "enter", "indicator", "command", "load", "cell", "code",
                "vote", "end", "final"}
LocalSteps  == {"test", "launch", "connect", "choose", "execute", "magic", "remove",
                "stop", "asking", "left"}

AllAt(place) == \A r \in Ranks : pc[r] = place

\* Where a rank waits for the next job.
NextRound(r) == IF r = root THEN "choose" ELSE "indicator"

-----------------------------------------------------------------------------
\* The command %libyt status, before the flag file is looked for.
ShowBoard ==
  /\ AllAt("board")
  /\ pc' = [r \in Ranks |-> "test"]
  /\ UNCHANGED <<session, job, content, running, known, recorded, done, jobs>>

(***************************************************************************)
(* Each rank looks for the flag file.  In mode "reload" it also enters if  *)
(* a function failed, and the root creates the file.                       *)
(***************************************************************************)
TestFlag(r) ==
  /\ pc[r] = "test"
  /\ LET enters  == flag \/ (mode = "reload" /\ failed)
         creates == r = root /\ ~flag /\ enters
     IN /\ pc' = [pc EXCEPT ![r] = IF enters THEN "enter" ELSE "left"]
        /\ flag' = (flag \/ creates)
        /\ generated' = (generated \/ creates)
  /\ UNCHANGED <<mode, failed, files, pending, job, content, running, known, recorded,
                 done, jobs>>

Enter ==
  /\ AllAt("enter")
  /\ pc' = [r \in Ranks |-> IF mode = "kernel" /\ r = root THEN "launch"
                            ELSE NextRound(r)]
  /\ UNCHANGED <<session, job, content, running, known, recorded, done, jobs>>

\* The user creates the flag file.
CreateFlag ==
  /\ UserMayFlag \/ AllAt("board")
  /\ ~flag
  /\ flag' = TRUE
  /\ UNCHANGED <<mode, failed, generated, files, pending, pc, job, content, running,
                 known, recorded, done, jobs>>

-----------------------------------------------------------------------------
(* The start of the kernel: the workers wait for its first indicator *)

\* The file with the process id is written.
Launch(r) ==
  /\ pc[r] = "launch"
  /\ pid' = TRUE
  /\ pc' = [pc EXCEPT ![r] = "connect"]
  /\ UNCHANGED <<mode, failed, flag, generated, connection, pending, job, content,
                 running, known, recorded, done, jobs>>

\* The root tries again every two seconds, until the connection file is there
\* and can be used.
Connect(r) ==
  /\ pc[r] = "connect" /\ connection \in {"own", "good"}
  /\ pc' = [pc EXCEPT ![r] = "choose"]
  /\ UNCHANGED <<session, job, content, running, known, recorded, done, jobs>>

\* The user writes, corrects or removes the connection file, until it is good.
SupplyConnection(state) ==
  /\ connection \in {"absent", "faulty"}
  /\ connection' = state
  /\ UNCHANGED <<mode, failed, flag, generated, pid, pending, pc, job, content,
                 running, known, recorded, done, jobs>>

-----------------------------------------------------------------------------
\* The root gets a job from the user.  In the middle of a statement the
\* prompt takes a command for Python code.
ChooseJob(r) ==
  /\ pc[r] = "choose"
  /\ \E j \in IF jobs + 1 < NumJobs THEN Jobs(mode) ELSE Exits(mode) :
       /\ pending => j.kind # "command"
       /\ job' = [job EXCEPT ![r] = [kind |-> j.kind, what |-> j.what]]
       /\ content' = j.content
  /\ jobs' = jobs + 1
  /\ pending' = FALSE
  /\ pc' = [pc EXCEPT ![r] = "indicator"]
  /\ UNCHANGED <<mode, failed, flag, generated, files, running, known, recorded, done>>

(***************************************************************************)
(* What the root does on its own, without a word to the workers: it        *)
(* refuses code that does not compile or a script that is not there, takes *)
(* the beginning of a statement at the prompt, and answers requests of the *)
(* kernel's client, as for completion.                                     *)
(***************************************************************************)
Refuse(r) ==
  /\ pc[r] = "choose" /\ (jobs + 1 < NumJobs \/ pending)
  /\ pending' = FALSE
  /\ jobs' = IF pending THEN jobs ELSE jobs + 1
  /\ UNCHANGED <<mode, failed, flag, generated, files, pc, job, content, running,
                 known, recorded, done>>

TypePart(r) ==
  /\ pc[r] = "choose" /\ mode = "prompt" /\ jobs + 1 < NumJobs
  /\ pending' = TRUE
  /\ jobs' = jobs + 1
  /\ UNCHANGED <<mode, failed, flag, generated, files, pc, job, content, running,
                 known, recorded, done>>

AnswerAlone(r) ==
  /\ pc[r] = "choose" /\ mode = "kernel" /\ jobs + 1 < NumJobs
  /\ jobs' = jobs + 1
  /\ UNCHANGED <<session, pc, job, content, running, known, recorded, done>>

\* readline returns null at the end of the input.  The prompt asks again, for
\* ever.
InputEnds(r) ==
  /\ pc[r] = "choose" /\ mode = "prompt"
  /\ pc' = [pc EXCEPT ![r] = "asking"]
  /\ UNCHANGED <<session, job, content, running, known, recorded, done, jobs>>

\* The indicator of a job.
Indicator(kind) ==
  CASE kind = "exit"    -> -1
    [] kind = "code"    -> 1
    [] kind = "command" -> IF mode = "kernel" THEN 2 ELSE 0

\* What a worker takes it for.  The plausible bug uses the indicators of the
\* prompt in every mode.
DispatchAsPrompt(indicator) == IF indicator = 0 THEN "command" ELSE "code"

Dispatch(indicator) ==
  IF mode = "prompt"
  THEN IF indicator = 0 THEN "command" ELSE "code"
  ELSE CASE indicator = -1 -> "exit"
         [] indicator = 1  -> "code"
         [] OTHER          -> "command"

\* Where the job starts on a rank.  The plausible bug leaves without removing
\* the flag file.
StartNoRemove(r, kind) ==
  CASE kind = "command" -> "command"
    [] kind = "code"    -> IF mode = "kernel" THEN "cell" ELSE "code"
    [] kind = "exit"    -> IF mode = "kernel" THEN "final" ELSE "left"

Start(r, kind) ==
  CASE kind = "command" -> "command"
    [] kind = "code"    -> IF mode = "kernel" THEN "cell" ELSE "code"
    [] kind = "exit" /\ r = root -> IF mode = "kernel" THEN "stop" ELSE "remove"
    [] OTHER                      -> IF mode = "kernel" THEN "final" ELSE "left"

KindAt(r) == IF r = root THEN job[root].kind ELSE Dispatch(Indicator(job[root].kind))

\* On exit every rank clears its history.
Cleared(r) == KindAt(r) = "exit"

SendIndicator ==
  /\ AllAt("indicator")
  /\ pc' = [r \in Ranks |-> Start(r, KindAt(r))]
  /\ job' = [r \in Ranks |-> [kind |-> KindAt(r), what |-> job[r].what]]
  /\ recorded' = [r \in Ranks |-> recorded[r] /\ ~Cleared(r)]
  /\ turn' = [r \in Ranks |-> 1]
  /\ UNCHANGED <<session, content, code, ran, verdict, known, done, jobs>>

-----------------------------------------------------------------------------
\* MagicCommand::Run: the workers get the command from the root.
SendCommand ==
  /\ AllAt("command")
  /\ job' = [r \in Ranks |-> job[root]]
  /\ pc' = [r \in Ranks |-> IF job[root].what = "load" THEN "load" ELSE "magic"]
  /\ UNCHANGED <<session, content, running, known, recorded, done, jobs>>

\* LoadScript: is there a file, and can it be compiled?
SendLoad ==
  /\ AllAt("load")
  /\ pc' = [r \in Ranks |-> IF content.readable THEN "code" ELSE "magic"]
  /\ UNCHANGED <<session, job, content, running, known, recorded, done, jobs>>

\* AllExecuteCell: where does the last statement start?  Nowhere if there is
\* none.
SendCell ==
  /\ AllAt("cell")
  /\ pc' = [r \in Ranks |-> IF content.parts = <<>> THEN NextRound(r) ELSE "code"]
  /\ UNCHANGED <<session, job, content, running, known, recorded, done, jobs>>

-----------------------------------------------------------------------------
\* A rank that has run its code goes on with the command or job it is in.
AfterCode(r) ==
  IF job[r].kind = "command" THEN "magic"
  ELSE IF mode = "prompt" THEN "end" ELSE NextRound(r)

LastTurn(r) == IF mode = "kernel" /\ job[r].kind = "code" THEN 2 ELSE 1

\* The second part of a cell is run if the first one did not fail.  The
\* plausible bug runs it anyway.
AfterPartAnyway(r, result) ==
  IF turn[r] < LastTurn(r) THEN "code" ELSE AfterCode(r)

AfterPart(r, result) ==
  IF turn[r] < LastTurn(r) /\ result = "success" THEN "code" ELSE AfterCode(r)

(***************************************************************************)
(* AllExecute: the workers get the code, every rank runs it, and the       *)
(* outcomes are summed up for all and collected by the root.               *)
(***************************************************************************)
SendCode ==
  /\ AllAt("code")
  /\ LET part == content.parts[turn[root]]
     IN  /\ code' = [r \in Ranks |-> part]
         /\ IF part.ends = "empty"
              THEN /\ pc' = [r \in Ranks |-> AfterPart(r, "success")]
                   /\ turn' = [r \in Ranks |-> turn[r] + 1]
                   /\ verdict' = [r \in Ranks |-> "success"]
                   /\ UNCHANGED ran
              ELSE /\ pc' = [r \in Ranks |-> "execute"]
                   /\ ran' = [r \in Ranks |-> "not_run"]
                   /\ UNCHANGED <<turn, verdict>>
  /\ UNCHANGED <<session, job, content, known, recorded, done, jobs>>

Endings(part) ==
  CASE part.ends = "returns" -> {"success"}
    [] part.ends = "raises"  -> {"failed"}
    [] OTHER                 -> {"success", "failed"}

\* The callables that load_input_func_body lists on a rank.  It runs the code
\* a second time, in a namespace of its own in which names of earlier code are
\* unknown: however the code ended, the second run may stop early and find only
\* some of what the code defines.
Lists(part) == SUBSET part.defines

Execute(r) ==
  /\ pc[r] = "execute"
  /\ \E ending \in Endings(code[r]) :
       /\ ran' = [ran EXCEPT ![r] = ending]
       /\ \E names \in Lists(code[r]) :
            known' = [known EXCEPT ![r] = @ \cup names]
       /\ recorded' = [recorded EXCEPT ![r] = @ \/ ending = "success"]
  /\ pc' = [pc EXCEPT ![r] = "vote"]
  /\ UNCHANGED <<session, job, content, turn, code, verdict, done, jobs>>

\* CheckAllStates.  The plausible bugs use the rank's own outcome, or are
\* content with one success.
VerdictOwn(r) == ran[r]

VerdictAny(r) == IF \E q \in Ranks : ran[q] = "success" THEN "success" ELSE "failed"

Verdict(r) == IF \A q \in Ranks : ran[q] = "success" THEN "success" ELSE "failed"

Vote ==
  /\ AllAt("vote")
  /\ verdict' = [r \in Ranks |-> Verdict(r)]
  /\ pc' = [r \in Ranks |-> AfterPart(r, Verdict(r))]
  /\ turn' = [r \in Ranks |-> turn[r] + 1]
  /\ UNCHANGED <<session, job, content, code, ran, known, recorded, done, jobs>>

-----------------------------------------------------------------------------
\* %libyt exit leaves the prompt, and is refused elsewhere.  The plausible bug
\* mixes up the entry points.
LeavesKernel(r) == job[r].what = "exit" /\ mode = "kernel"

Leaves(r) == job[r].what = "exit" /\ mode = "prompt"

\* The rest of a command: the prompt is left and its history cleared, and
\* the root records a command that succeeded.
Magic(r) ==
  /\ pc[r] = "magic"
  /\ done' = [done EXCEPT ![r] = Leaves(r)]
  /\ \E succeeds \in BOOLEAN :
       /\ job[r].what = "exit" => succeeds = Leaves(r)
       /\ job[r].what = "load" => succeeds = content.readable
       /\ recorded' = [recorded EXCEPT ![r] = (@ /\ ~Leaves(r)) \/ (succeeds /\ r = root)]
  /\ pc' = [pc EXCEPT ![r] = IF mode = "prompt" THEN "end" ELSE NextRound(r)]
  /\ UNCHANGED <<session, job, content, running, known, jobs>>

\* The barrier after each job of the prompt.
EndRound ==
  /\ AllAt("end")
  /\ pc' = [r \in Ranks |-> IF done[r] THEN "left" ELSE NextRound(r)]
  /\ UNCHANGED <<session, job, content, running, known, recorded, done, jobs>>

\* The root removes the flag file it has created.
RemoveFlag(r) ==
  /\ pc[r] = "remove"
  /\ flag' = (flag /\ ~generated)
  /\ pc' = [pc EXCEPT ![r] = "left"]
  /\ UNCHANGED <<mode, failed, generated, files, pending, job, content, running,
                 known, recorded, done, jobs>>

\* The root removes the file with the process id once the kernel has stopped.
StopKernel(r) ==
  /\ pc[r] = "stop"
  /\ pid' = FALSE
  /\ pc' = [pc EXCEPT ![r] = "final"]
  /\ UNCHANGED <<mode, failed, flag, generated, connection, pending, job, content,
                 running, known, recorded, done, jobs>>

\* The last barrier of the kernel.
Shutdown ==
  /\ AllAt("final")
  /\ pc' = [r \in Ranks |-> "left"]
  /\ UNCHANGED <<session, job, content, running, known, recorded, done, jobs>>

AllLeft == AllAt("left")

\* The input of the prompt is over: the root asks, the workers wait.
Stranded == pc[root] = "asking" /\ \A r \in Ranks \ {root} : pc[r] = "indicator"

Finished == (AllLeft \/ Stranded) /\ UNCHANGED vars

UserStep(r) ==
  r = root /\ (ChooseJob(r) \/ Refuse(r) \/ TypePart(r) \/ AnswerAlone(r) \/ InputEnds(r))

LocalStep(r) ==
  \/ TestFlag(r) \/ Launch(r) \/ Connect(r) \/ UserStep(r)
  \/ Execute(r) \/ Magic(r) \/ RemoveFlag(r) \/ StopKernel(r)

Collective ==
  \/ ShowBoard \/ Enter \/ SendIndicator \/ SendCommand \/ SendLoad
  \/ SendCell \/ SendCode \/ Vote \/ EndRound \/ Shutdown

Next ==
  \/ \E r \in Ranks : LocalStep(r)
  \/ Collective
  \/ CreateFlag
  \/ \E state \in ConnectionStates \ {"own"} : SupplyConnection(state)
  \/ Finished

Spec == Init /\ [][Next]_vars

\* Ranks keep running, an MPI call that all have entered returns, and the
\* user gives the root one job after the other and at last a connection file
\* it can use.
FairSpec ==
  /\ Spec
  /\ \A r \in Ranks : WF_vars(LocalStep(r))
  /\ WF_vars(Collective)
  /\ WF_vars(SupplyConnection("good"))

-----------------------------------------------------------------------------
Kinds == {"none", "exit", "command", "code"}
Whats == {"none", "exit", "load", "other"}

TypeOK ==
  /\ mode \in Modes /\ failed \in BOOLEAN /\ flag \in BOOLEAN /\ generated \in BOOLEAN
  /\ pc \in [Ranks -> Collectives \cup LocalSteps]
  /\ job \in [Ranks -> [kind : Kinds, what : Whats]]
  /\ content \in Content(File \cup Cell) \cup {Unreadable}
  /\ turn \in [Ranks -> 1..3]
  /\ code \in [Ranks -> Parts \cup {NoCode}]
  /\ ran \in [Ranks -> {"not_run", "success", "failed"}]
  /\ verdict \in [Ranks -> {"success", "failed"}]
  /\ known \in [Ranks -> SUBSET Functions]
  /\ recorded \in [Ranks -> BOOLEAN] /\ done \in [Ranks -> BOOLEAN]
  /\ jobs \in 0..NumJobs
  /\ connection \in ConnectionStates /\ pid \in BOOLEAN /\ pending \in BOOLEAN

(***************************************************************************)
(* Safety: ranks that wait in MPI wait in the same call, in the same part  *)
(* of the same kind of job, and no rank has left while another waits.      *)
(***************************************************************************)
CollectivesMatch ==
  \A r, q \in Ranks :
    pc[r] \in Collectives =>
      /\ pc[q] # "left"
      /\ pc[q] \in Collectives => pc[q] = pc[r] /\ turn[q] = turn[r]
      /\ pc[q] \in Collectives \ {"indicator"} => job[q].kind = job[r].kind

(***************************************************************************)
(* Safety: once the ranks have voted on a piece of code they all take it   *)
(* for a success, or all for a failure; AllExecuteCell goes on or stops by *)
(* that.  It is a success only if it returned on every rank.               *)
(***************************************************************************)
VerdictsAgree ==
  \A r, q \in Ranks :
    pc[r] \notin {"execute", "vote"} /\ pc[q] \notin {"execute", "vote"} =>
      /\ verdict[r] = verdict[q]
      /\ verdict[r] = "success" /\ code[q].ends # "empty" => ran[q] = "success"

(***************************************************************************)
(* Safety: at the end the flag file is there only if it was not libyt that *)
(* created it, no file tells of a kernel that is gone, and the inputs of   *)
(* the call are not in the history of the next.  Left over is only the     *)
(* command %libyt exit, which the root records after it has cleared its    *)
(* history.                                                                *)
(***************************************************************************)
NothingLeftOver ==
  AllLeft =>
    /\ ~(flag /\ generated) /\ ~pid
    /\ \A r \in Ranks : recorded[r] => r = root /\ mode = "prompt"

(***************************************************************************)
(* Liveness: every rank leaves, whatever the user's code does on each and  *)
(* however often the connection file is wrong.  The exception is a prompt  *)
(* whose input has ended.                                                  *)
(***************************************************************************)
AllLeave == <>(AllLeft \/ Stranded)

-----------------------------------------------------------------------------
(* The session that the user sees *)

\* The root has been told to leave.
Exiting ==
  \/ job[root].kind = "exit"
  \/ mode = "prompt" /\ job[root] = [kind |-> "command", what |-> "exit"]

Phase ==
  IF Exiting THEN "over"
  ELSE IF pc[root] \in {"board", "test", "enter", "left"} THEN "before" ELSE "open"

\* What the root has been asked to run, and which part of it is run.
Serving == {"indicator", "command", "load", "cell", "code", "execute", "vote"}
Asked   == IF pc[root] \in Serving THEN content.parts ELSE <<>>
Current == IF pc[root] \in {"code", "execute", "vote"} THEN turn[root] ELSE 1
Given   == pc[root] \in {"execute", "vote"}

RanksAt(place) == {r \in Ranks : pc[r] = place}

Session == INSTANCE SharedSession WITH
  Pieces <- Parts \cup {NoCode}, phase <- Phase, asked <- Asked, next <- Current,
  started <- Given, todo <- RanksAt("execute"), outcome <- ran, gone <- RanksAt("left")

(***************************************************************************)
(* Refinement: the ranks of an entry point share one session.  Whatever    *)
(* the indicators and broadcasts are, each piece of code that the user     *)
(* gave is run once on every rank, the last statement of a cell only after *)
(* the statements before it succeeded everywhere, all ranks take the same  *)
(* verdict from it, and none leaves before it is told to.                  *)
(***************************************************************************)
KeepsSession == Session!Safety
=============================================================================
