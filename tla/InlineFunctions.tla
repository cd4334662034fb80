-------------------------- MODULE InlineFunctions --------------------------
(***************************************************************************)
(* Inline Python functions: how libyt runs them on every rank, and what it *)
(* remembers of them.  Every rank keeps a list of FunctionInfo with        *)
(*                                                                         *)
(*   run, args, wrapper   is it to run in the next iteration, and how      *)
(*   status               how its last run ended on this rank              *)
(*   all                  how it ended on all the ranks, or "need_update"  *)
(*   msgs                 the error messages of all the ranks, cached      *)
(*                                                                         *)
(* and a Python dictionary func_err_msg with the messages of the rank.     *)
(* GetAllStatus and GetAllErrorMsg are collective only when their cache is *)
(* out of date: the ranks stay together only if their caches agree.        *)
(*                                                                         *)
(* The simulation makes the same API calls on every rank, and the root     *)
(* sends the commands a user types to every rank: both are the program, a  *)
(* sequence of calls.  A rank makes its calls one after the other, and     *)
(* waits for the others only in MPI.                                       *)
(***************************************************************************)
EXTENDS Naturals, Sequences, FiniteSets

CONSTANTS
  Ranks,          \* the MPI ranks
  NumFunctions,   \* functions are numbers, in the order of the list
  InScript,       \* the functions defined in the inline script
  Calls,          \* the calls a program may contain
  NumCalls,       \* the length of the program
  Uncaught        \* may Python raise what "except Exception" lets through?

\* In the order of the list, which is the same on every rank.
Functions == 1..NumFunctions

ASSUME RanksAssumption     == Ranks # {} /\ IsFiniteSet(Ranks)
ASSUME FunctionsAssumption == NumFunctions \in Nat /\ InScript \subseteq Functions
(***************************************************************************)
(* A call has an operation, a function and arguments.  All that matters of *)
(* an argument is which kinds of triple quotes occur in it.                *)
(***************************************************************************)
Commands    == {"status", "run_it", "idle_it", "load"}
EntryPoints == {"enter", "enter_kernel"}   \* the kernel of Jupyter, and the others
Operations  == {"run", "free"} \cup EntryPoints \cup Commands
Quotes      == {"double", "single"}

ASSUME CallsAssumption ==
  /\ NumCalls \in Nat /\ Uncaught \in BOOLEAN
  /\ \A c \in Calls :
       /\ c.op \in Operations /\ c.args \in Seq(SUBSET Quotes)
       /\ c.op \in Commands \cup {"run"} => c.function \in Functions

VARIABLES
  program,   \* the calls of every rank
  pos,       \* the call each rank is in, or makes next
  pc,        \* where each rank is in it
  at,        \* the function each rank handles
  info,      \* function_info_list_ of each rank
  errMsg,    \* func_err_msg: the call that set the message, 0 if there is none
  ended      \* how Python really ended when it last ran the function, and in
             \* which call that was

vars == <<program, pos, pc, at, info, errMsg, ended>>

Statuses == {"need_update", "not_executed", "failed", "success"}
NoMsgs   == <<>>

NewInfo(run) == [run |-> run, args |-> <<>>, wrapper |-> "double",
                 status |-> "not_executed", all |-> "not_executed", msgs |-> NoMsgs]

-----------------------------------------------------------------------------
(***************************************************************************)
(* Wrapping.  The command is wrapped in triple quotes of the kind that the *)
(* first argument with triple quotes does not use; only the arguments      *)
(* after that one are checked for the wrapper.                             *)
(***************************************************************************)
Quoted(args) == {i \in DOMAIN args : args[i] # {}}
First(args)  == CHOOSE i \in Quoted(args) : \A j \in Quoted(args) : i <= j

\* One plausible bug leaves it unset if no argument has quotes, another
\* does not look for them.
WrapperUnset(args, default) ==
  IF Quoted(args) = {} THEN "none"
  ELSE IF "double" \in args[First(args)] THEN "single" ELSE "double"

WrapperKept(args, default) == default

Wrapper(args, default) ==
  IF Quoted(args) = {} THEN default
  ELSE IF "double" \in args[First(args)] THEN "single" ELSE "double"

UnableToWrap(args) ==
  \E i, j \in Quoted(args) : i = First(args) /\ i < j /\ Wrapper(args, "double") \in args[j]

\* The wrapped string ends too early: Python cannot compile the command.
Broken(args, wrapper) == \E i \in DOMAIN args : wrapper \in args[i]

-----------------------------------------------------------------------------
\* Commands are typed in a session that an entry point has opened.
Sensible(p) ==
  \A k \in 1..NumCalls :
    p[k].op \in Commands => k > 1 /\ p[k - 1].op \in Commands \cup EntryPoints

Init ==
  /\ program \in {p \in [1..NumCalls -> Calls] : Sensible(p)}
  /\ pos = [r \in Ranks |-> 1]
  /\ pc = [r \in Ranks |-> "between"]
  /\ at = [r \in Ranks |-> 0]
  /\ info = [r \in Ranks |-> [f \in Functions |->
               NewInfo(IF f \in InScript THEN "not_set" ELSE "unlisted")]]
  /\ errMsg = [r \in Ranks |-> [f \in Functions |-> 0]]
  /\ ended = [r \in Ranks |-> [f \in Functions |-> [how |-> "never", call |-> 0]]]

Barriers   == {"run_barrier", "free_barrier"}
Broadcasts == {"board_command", "command"}
Reductions == {"sync_run", "sync_each", "sync_board", "sync_status"}
Collectives == Barriers \cup Broadcasts \cup Reductions \cup {"gather_messages"}
LocalSteps  == {"between", "execute", "each", "board", "magic", "messages", "clear"}

Call(r)    == program[pos[r]]
Info(r, f) == info[r][f]
Listed(r)  == {f \in Functions : Info(r, f).run # "unlisted"}

\* The rank goes on at place, with function f.
Goto(r, place, f) == pc' = [pc EXCEPT ![r] = place] /\ at' = [at EXCEPT ![r] = f]

\* The call of the rank returns.
Return(r) ==
  /\ pos' = [pos EXCEPT ![r] = @ + 1]
  /\ Goto(r, "between", 0)

AtCall(r, op) == pc[r] = "between" /\ pos[r] <= NumCalls /\ Call(r).op = op

-----------------------------------------------------------------------------
(***************************************************************************)
(* yt_run_FunctionArguments, up to its barrier: a function set to idle is  *)
(* not run, and any other one is set to run; an unknown one is listed.     *)
(***************************************************************************)
StartRun(r) ==
  /\ AtCall(r, "run")
  /\ LET f == Call(r).function
     IN \/ /\ Info(r, f).run = "idle"
           /\ Return(r)
           /\ UNCHANGED info
        \/ /\ Info(r, f).run # "idle"
           /\ info' = [info EXCEPT ![r][f].run = "run",
                                   ![r][f].status = "need_update",
                                   ![r][f].all = "need_update"]
           /\ Goto(r, "run_barrier", f)
           /\ UNCHANGED pos
  /\ UNCHANGED <<program, errMsg, ended>>

(***************************************************************************)
(* What Python does with a command, and what libyt sees of it: the command *)
(* returns, raises an exception that is written to func_err_msg, or fails  *)
(* outside of the try statement.                                           *)
(***************************************************************************)
Endings(args, wrapper) ==
  IF Broken(args, wrapper) THEN {"escapes"}
  ELSE {"returns", "raises"} \cup (IF Uncaught THEN {"escapes"} ELSE {})

MessageAfter(r, f, ending) == IF ending = "raises" THEN pos[r] ELSE errMsg[r][f]

StatusAfter(r, f, ending) ==
  IF ending = "escapes" \/ MessageAfter(r, f, ending) # 0 THEN "failed" ELSE "success"

\* SetStatus and SetStatusUsingPythonResult make the overall status out of
\* date.  The plausible bug settles it at once for a rank that failed.
OverallAfterKnown(status) == IF status = "failed" THEN "failed" ELSE "need_update"

OverallAfter(status) == "need_update"

Execute(r, f, ending) ==
  LET status == StatusAfter(r, f, ending)
  IN  /\ info' = [info EXCEPT ![r][f].status = status,
                              ![r][f].all = OverallAfter(status)]
      /\ errMsg' = [errMsg EXCEPT ![r][f] = MessageAfter(r, f, ending)]
      /\ ended' = [ended EXCEPT ![r][f] = [how |-> ending, call |-> pos[r]]]

(***************************************************************************)
(* The rest of yt_run_FunctionArguments.  A rank that cannot wrap the      *)
(* arguments, or sees Python fail, returns YT_FAIL without GetAllStatus,   *)
(* which is a collective if the overall status is out of date.             *)
(***************************************************************************)
RunFunction(r) ==
  /\ pc[r] = "execute"
  /\ LET f    == at[r]
         args == Call(r).args
     IN \/ /\ UnableToWrap(args)
           /\ Execute(r, f, "raises")
           /\ Return(r)
        \/ /\ ~UnableToWrap(args)
           /\ \E ending \in Endings(args, Wrapper(args, "double")) :
                /\ Execute(r, f, ending)
                /\ IF ending = "escapes" \/ info'[r][f].all # "need_update"
                     THEN Return(r)
                     ELSE Goto(r, "sync_run", f) /\ UNCHANGED pos
  /\ UNCHANGED program

-----------------------------------------------------------------------------
(***************************************************************************)
(* An entry point first runs the functions that are to run and were not    *)
(* run in this iteration (RunEveryFunction), then prints the status board  *)
(* (the command %libyt status).  yt_run_JupyterKernel prints none.         *)
(***************************************************************************)
Enter(r) ==
  /\ \E op \in EntryPoints : AtCall(r, op)
  /\ Goto(r, "each", 1)
  /\ UNCHANGED <<program, pos, info, errMsg, ended>>

\* The plausible bug forgets that the function may have been run already.
ToRunAgain(r) == {f \in Functions : f >= at[r] /\ Info(r, f).run = "run"}

ToRun(r) ==
  {f \in Functions : /\ f >= at[r]
                     /\ Info(r, f).run = "run"
                     /\ Info(r, f).status = "not_executed"}

RunEveryFunction(r) ==
  /\ pc[r] = "each"
  /\ \/ /\ ToRun(r) = {}
        /\ IF Call(r).op = "enter_kernel" THEN Return(r)
             ELSE Goto(r, "board_command", 0) /\ UNCHANGED pos
        /\ UNCHANGED <<info, errMsg, ended>>
     \/ \E f \in ToRun(r) :
          /\ \A g \in ToRun(r) : f <= g
          /\ \E ending \in Endings(Info(r, f).args, Info(r, f).wrapper) :
               Execute(r, f, ending)
          /\ Goto(r, IF info'[r][f].all = "need_update" THEN "sync_each" ELSE "each", f)
          /\ UNCHANGED pos
  /\ UNCHANGED program

\* GetStatusText walks over the list; GetAllStatus is collective for the
\* functions whose overall status is out of date.
ToUpdate(r) ==
  {f \in Listed(r) : f >= at[r] /\ Info(r, f).all = "need_update"}

StatusBoard(r) ==
  /\ pc[r] = "board"
  /\ \/ /\ ToUpdate(r) = {}
        /\ Return(r)
     \/ \E f \in ToUpdate(r) :
          /\ \A g \in ToUpdate(r) : f <= g
          /\ Goto(r, "sync_board", f)
          /\ UNCHANGED pos
  /\ UNCHANGED <<program, info, errMsg, ended>>

-----------------------------------------------------------------------------
\* A command typed at the root: MagicCommand::Run broadcasts it first.
Command(r) ==
  /\ \E op \in Commands : AtCall(r, op)
  /\ Goto(r, "command", Call(r).function)
  /\ UNCHANGED <<program, pos, info, errMsg, ended>>

\* %libyt run: the wrapper is set while the arguments are looked at, and
\* stays set if the command is then rejected.
SetFunctionRun(r) ==
  /\ pc[r] = "magic" /\ Call(r).op = "run_it"
  /\ LET f    == at[r]
         args == Call(r).args
         new  == [Info(r, f) EXCEPT !.wrapper = Wrapper(args, @)]
     IN info' = [info EXCEPT ![r][f] =
           IF f \notin Listed(r) THEN @
           ELSE IF UnableToWrap(args) THEN new
           ELSE [new EXCEPT !.run = "run", !.args = args]]
  /\ Return(r)
  /\ UNCHANGED <<program, errMsg, ended>>

\* %libyt idle
SetFunctionIdle(r) ==
  /\ pc[r] = "magic" /\ Call(r).op = "idle_it"
  /\ info' = [info EXCEPT ![r][at[r]] =
        IF at[r] \notin Listed(r) THEN @ ELSE [@ EXCEPT !.run = "idle", !.args = <<>>]]
  /\ Return(r)
  /\ UNCHANGED <<program, errMsg, ended>>

(***************************************************************************)
(* %libyt load, or code that defines a function: it is listed, if it is    *)
(* not yet, and not to be run by itself.  The code ends and is listed      *)
(* alike on all ranks: how it is sent and voted on is in EntryPoint.        *)
(***************************************************************************)
LoadScript(r) ==
  /\ pc[r] = "magic" /\ Call(r).op = "load"
  /\ info' = [info EXCEPT ![r][at[r]] = IF at[r] \in Listed(r) THEN @ ELSE NewInfo("idle")]
  /\ Return(r)
  /\ UNCHANGED <<program, errMsg, ended>>

\* %libyt status of one function, up to its status.
GetFunctionStatus(r) ==
  /\ pc[r] = "magic" /\ Call(r).op = "status"
  /\ \/ /\ at[r] \notin Listed(r)
        /\ Return(r)
     \/ /\ at[r] \in Listed(r)
        /\ Goto(r, IF Info(r, at[r]).all = "need_update" THEN "sync_status"
                   ELSE "messages", at[r])
        /\ UNCHANGED pos
  /\ UNCHANGED <<program, info, errMsg, ended>>

\* Then the error messages of a function that failed, from the cache if it
\* has been filled.
GetAllErrorMsg(r) ==
  /\ pc[r] = "messages"
  /\ IF Info(r, at[r]).all = "failed" /\ Info(r, at[r]).msgs = NoMsgs
       THEN Goto(r, "gather_messages", at[r]) /\ UNCHANGED pos
       ELSE Return(r)
  /\ UNCHANGED <<program, info, errMsg, ended>>

-----------------------------------------------------------------------------
StartFree(r) ==
  /\ AtCall(r, "free")
  /\ Goto(r, "free_barrier", 0)
  /\ UNCHANGED <<program, pos, info, errMsg, ended>>

\* ResetEveryFunctionStatus.  The plausible bug keeps the cached messages.
ResetKeepMessages(i) == [i EXCEPT !.status = "not_executed", !.all = "not_executed"]

Reset(i) == [i EXCEPT !.status = "not_executed", !.all = "not_executed", !.msgs = NoMsgs]

\* What yt_free does to the functions.
Free(r) ==
  /\ pc[r] = "clear"
  /\ errMsg' = [errMsg EXCEPT ![r] = [f \in Functions |-> 0]]
  /\ info' = [info EXCEPT ![r] = [f \in Functions |-> Reset(@[f])]]
  /\ Return(r)
  /\ UNCHANGED <<program, ended>>

-----------------------------------------------------------------------------
(***************************************************************************)
(* MPI.  A collective matches any call of the same kind, wherever each     *)
(* rank makes it.                                                          *)
(***************************************************************************)
AllIn(places) == \A r \in Ranks : pc[r] \in places

Barrier ==
  /\ AllIn(Barriers)
  /\ pc' = [r \in Ranks |-> IF pc[r] = "run_barrier" THEN "execute" ELSE "clear"]
  /\ UNCHANGED <<program, pos, at, info, errMsg, ended>>

BroadcastCommand ==
  /\ AllIn(Broadcasts)
  /\ pc' = [r \in Ranks |-> IF pc[r] = "command" THEN "magic" ELSE "board"]
  /\ at' = [r \in Ranks |-> IF pc[r] = "command" THEN at[r] ELSE 1]
  /\ UNCHANGED <<program, pos, info, errMsg, ended>>

\* The sum of the ranks' successes, compared with their number.  The
\* plausible bug is content with one.
AllSucceededAny == \E r \in Ranks : Info(r, at[r]).status = "success"

AllSucceeded == \A r \in Ranks : Info(r, at[r]).status = "success"

\* The plausible bug takes the rank's own status instead of the sum.
OverallOwn(r) == Info(r, at[r]).status

Overall(r) == IF AllSucceeded THEN "success" ELSE "failed"

AfterReduction ==
  [sync_run |-> "between", sync_each |-> "each", sync_board |-> "board",
   sync_status |-> "messages"]

GetAllStatus ==
  /\ AllIn(Reductions)
  /\ info' = [r \in Ranks |-> [info[r] EXCEPT ![at[r]].all = Overall(r)]]
  /\ pc' = [r \in Ranks |-> AfterReduction[pc[r]]]
  /\ pos' = [r \in Ranks |-> IF pc[r] = "sync_run" THEN pos[r] + 1 ELSE pos[r]]
  /\ at' = [r \in Ranks |-> IF pc[r] = "sync_run" THEN 0 ELSE at[r]]
  /\ UNCHANGED <<program, errMsg, ended>>

GatherMessages ==
  /\ AllIn({"gather_messages"})
  /\ info' = [r \in Ranks |-> [info[r] EXCEPT ![at[r]].msgs =
                                 [q \in Ranks |-> errMsg[q][at[q]]]]]
  /\ pc' = [r \in Ranks |-> "between"]
  /\ at' = [r \in Ranks |-> 0]
  /\ pos' = [r \in Ranks |-> pos[r] + 1]
  /\ UNCHANGED <<program, errMsg, ended>>

LocalStep(r) ==
  \/ StartRun(r)
  \/ RunFunction(r)
  \/ Enter(r)
  \/ RunEveryFunction(r)
  \/ StatusBoard(r)
  \/ Command(r)
  \/ SetFunctionRun(r)
  \/ SetFunctionIdle(r)
  \/ LoadScript(r)
  \/ GetFunctionStatus(r)
  \/ GetAllErrorMsg(r)
  \/ StartFree(r)
  \/ Free(r)

Collective == Barrier \/ BroadcastCommand \/ GetAllStatus \/ GatherMessages

AtEnd(r) == pc[r] = "between" /\ pos[r] > NumCalls

Finished == (\A r \in Ranks : AtEnd(r)) /\ UNCHANGED vars

Next == (\E r \in Ranks : LocalStep(r)) \/ Collective \/ Finished

Spec == Init /\ [][Next]_vars

-----------------------------------------------------------------------------
ArgLists == {c.args : c \in Calls}

FunctionInfos ==
  [run : {"unlisted", "not_set", "run", "idle"}, args : ArgLists \cup {<<>>},
   wrapper : Quotes, status : Statuses, all : Statuses,
   msgs : [Ranks -> 0..NumCalls] \cup {NoMsgs}]

TypeOK ==
  /\ program \in [1..NumCalls -> Calls]
  /\ pos \in [Ranks -> 1..(NumCalls + 1)]
  /\ pc \in [Ranks -> Collectives \cup LocalSteps]
  /\ at \in [Ranks -> 0..(NumFunctions + 1)]
  /\ info \in [Ranks -> [Functions -> FunctionInfos]]
  /\ errMsg \in [Ranks -> [Functions -> 0..NumCalls]]
  /\ ended \in [Ranks -> [Functions ->
       [how : {"never", "returns", "raises", "escapes"}, call : 0..NumCalls]]]

(***************************************************************************)
(* Safety: ranks that wait in MPI wait in the same call, for the same      *)
(* function, at the same place of it, and none has left the program.       *)
(* GetAllStatus and GetAllErrorMsg decide that from caches of each rank.   *)
(***************************************************************************)
CollectivesMatch ==
  \A r, q \in Ranks :
    pc[r] \in Collectives =>
      /\ pc[q] \in Collectives => <<pos[q], pc[q], at[q]>> = <<pos[r], pc[r], at[r]>>
      /\ ~AtEnd(q)

\* Every rank has returned from the same calls.
Together == \A r, q \in Ranks : pc[r] = "between" /\ pos[r] = pos[q]

(***************************************************************************)
(* Safety: between two calls all the ranks have the same list: the same    *)
(* functions to run, the same ones that have run, the same overall status, *)
(* the same cached messages.  How a run ended on it is each rank's own.    *)
(***************************************************************************)
Entry(run, args, wrapper, ran, all, msgs) ==
  [run |-> run, args |-> args, wrapper |-> wrapper, ran |-> ran, all |-> all,
   msgs |-> msgs]

Book(i) ==
  Entry(i.run, i.args, i.wrapper,
        IF i.status = "not_executed" THEN "no" ELSE "yes", i.all, i.msgs)

SameBook ==
  Together =>
    \A r, q \in Ranks : \A f \in Functions : Book(info[r][f]) = Book(info[q][f])

(***************************************************************************)
(* Safety: a function is only called successful if Python returned from    *)
(* its last run on every rank.  FunctionInfo::GetAllStatus.                *)
(***************************************************************************)
SuccessIsTrue ==
  Together =>
    \A r, q \in Ranks : \A f \in Functions :
      info[r][f].all = "success" => ended[q][f].how = "returns"

\* The last call of yt_free that the rank has returned from, 0 if none.
LastFree(r) ==
  LET frees == {k \in 1..NumCalls : k < pos[r] /\ program[k].op = "free"}
  IN  IF frees = {} THEN 0 ELSE CHOOSE k \in frees : \A l \in frees : l <= k

(***************************************************************************)
(* Safety: yt_free ends an iteration: no status, message or cached message *)
(* of a call before it is ever seen after it.                              *)
(***************************************************************************)
NothingCarriedOver ==
  \A r, q \in Ranks : \A f \in Functions :
    /\ errMsg[r][f] # 0 => errMsg[r][f] > LastFree(r)
    /\ info[r][f].msgs # NoMsgs /\ info[r][f].msgs[q] # 0 =>
         info[r][f].msgs[q] > LastFree(r)

(***************************************************************************)
(* Action property: what an entry point runs on its own has not run since  *)
(* the last yt_free, neither by a call of the simulation nor by an earlier *)
(* entry point.  FunctionInfoList::RunEveryFunction.                       *)
(***************************************************************************)
NotRunTwice ==
  [][\A r \in Ranks : \A f \in Functions :
       pc[r] = "each" /\ ended[r][f] # ended'[r][f] => ended[r][f].call <= LastFree(r)]_vars

(***************************************************************************)
(* What the documentation of the status board says: the status is that of  *)
(* the latest call.  The code does not remove the message of an earlier    *)
(* call of the same iteration, and takes it for a failure of this one.     *)
(***************************************************************************)
FailureIsOfLatestCall ==
  Together =>
    \A r \in Ranks : \A f \in Functions :
      info[r][f].all = "failed" => \E q \in Ranks : ended[q][f].how # "returns"

(***************************************************************************)
(* A function keeps its arguments and its wrapper apart.  Arguments with   *)
(* triple quotes of one kind, which the documentation calls good, are kept *)
(* with a wrapper they do not contain, so that Python can compile what is  *)
(* run at the next entry point.  The one step that may change this is that *)
(* %libyt run refuses other arguments for the function: their wrapper is   *)
(* kept.                                                                   *)
(***************************************************************************)
OneKindOfQuotes(args) == \E kind \in Quotes : \A i \in DOMAIN args : args[i] \subseteq {kind}

WellWrapped(i) == OneKindOfQuotes(i.args) => ~Broken(i.args, i.wrapper)

OnlyRefusalsBreak ==
  [][\A r \in Ranks : \A f \in Functions :
       WellWrapped(info[r][f]) /\ ~WellWrapped(info'[r][f])
         => /\ pc[r] = "magic" /\ Call(r).op = "run_it" /\ at[r] = f
            /\ UnableToWrap(Call(r).args)]_vars
=============================================================================
