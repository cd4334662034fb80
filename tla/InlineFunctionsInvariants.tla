--------------------- MODULE InlineFunctionsInvariants ----------------------
(***************************************************************************)
(* The inductive invariant of InlineFunctions.                             *)
(*                                                                         *)
(* What a rank does on its own is in InCall and OwnHistory.  That the      *)
(* ranks stay together is in OneWay: how a call goes on for a rank depends *)
(* only on where it stands and on its book, so that there is one way from  *)
(* stand to stand, on which every rank is, and it ends where a rank waits  *)
(* in MPI.  The ends of the functions and their messages are each rank's   *)
(* own, and are no part of a stand.                                        *)
(***************************************************************************)
EXTENDS InlineFunctions, FiniteSetsExt

(***************************************************************************)
(* One rank                                                                *)
(***************************************************************************)

\* The places of a call, and the functions a rank handles there.
InCall(r) ==
  /\ pc[r] # "between" => pos[r] <= NumCalls
  /\ pc[r] \in {"run_barrier", "execute", "sync_run"} =>
       Call(r).op = "run" /\ at[r] = Call(r).function
  /\ pc[r] \in {"run_barrier", "execute"} => Info(r, at[r]).run # "unlisted"
  /\ pc[r] \in {"each", "sync_each"} => Call(r).op \in EntryPoints
  /\ pc[r] \in {"board_command", "board", "sync_board"} => Call(r).op = "enter"
  /\ pc[r] \in {"sync_each", "sync_board"} => at[r] \in Functions
  /\ pc[r] \in {"command", "magic", "sync_status", "messages", "gather_messages"} =>
       Call(r).op \in Commands /\ at[r] = Call(r).function
  /\ pc[r] \in {"free_barrier", "clear"} => Call(r).op = "free"

\* What a rank remembers of a function is what has happened to it, and after
\* the last yt_free.
Remembered(r, f) ==
  /\ Info(r, f).status = "success" => ended[r][f].how = "returns"
  /\ Info(r, f).all = "success" => Info(r, f).status = "success"
  /\ ended[r][f].call <= pos[r]
  /\ Info(r, f).run = "unlisted" \/ Info(r, f).status = "not_executed" =>
       ended[r][f].call <= LastFree(r)
  /\ errMsg[r][f] # 0 => errMsg[r][f] > LastFree(r)

OwnHistory(r) == \A f \in Functions : Remembered(r, f)

-----------------------------------------------------------------------------
(***************************************************************************)
(* The ranks together                                                      *)
(***************************************************************************)
Books == {Book(i) : i \in FunctionInfos}

Stands ==
  [pos : 1..(NumCalls + 1), pc : Collectives \cup LocalSteps,
   at : 0..(NumFunctions + 1), book : [Functions -> Books]]

Stand(p, place, f, book) == [pos |-> p, pc |-> place, at |-> f, book |-> book]

StandOf ==
  [r \in Ranks |-> Stand(pos[r], pc[r], at[r], [f \in Functions |-> Book(info[r][f])])]

\* The call returns.
Returned(s, book) == Stand(s.pos + 1, "between", 0, book)

Executed(b) == Entry(b.run, b.args, b.wrapper, "yes", "need_update", b.msgs)

Started(b) == Entry("run", b.args, b.wrapper, "yes", "need_update", b.msgs)

AfterBetween(c, s) ==
  IF c.op = "run"
    THEN IF s.book[c.function].run = "idle" THEN Returned(s, s.book)
         ELSE Stand(s.pos, "run_barrier", c.function,
                [s.book EXCEPT ![c.function] = Started(@)])
  ELSE IF c.op \in EntryPoints THEN Stand(s.pos, "each", 1, s.book)
  ELSE IF c.op = "free" THEN Stand(s.pos, "free_barrier", 0, s.book)
  ELSE Stand(s.pos, "command", c.function, s.book)

AfterExecute(c, s) ==
  LET book == [s.book EXCEPT ![s.at] = Executed(@)]
  IN  IF UnableToWrap(c.args) \/ Broken(c.args, Wrapper(c.args, "double"))
        THEN Returned(s, book)
        ELSE Stand(s.pos, "sync_run", s.at, book)

DueToRun(s) ==
  {f \in Functions : f >= s.at /\ s.book[f].run = "run" /\ s.book[f].ran = "no"}

AfterEach(c, s) ==
  IF DueToRun(s) = {}
    THEN IF c.op = "enter_kernel" THEN Returned(s, s.book)
         ELSE Stand(s.pos, "board_command", 0, s.book)
  ELSE Stand(s.pos, "sync_each", Min(DueToRun(s)),
         [s.book EXCEPT ![Min(DueToRun(s))] = Executed(@)])

DueToUpdate(s) ==
  {f \in Functions : /\ f >= s.at
                     /\ s.book[f].run # "unlisted" /\ s.book[f].all = "need_update"}

AfterBoard(s) ==
  IF DueToUpdate(s) = {} THEN Returned(s, s.book)
  ELSE Stand(s.pos, "sync_board", Min(DueToUpdate(s)), s.book)

\* A command of the user, for a function that is listed.
Commanded(c, b) ==
  IF c.op = "run_it"
    THEN IF UnableToWrap(c.args)
           THEN Entry(b.run, b.args, Wrapper(c.args, b.wrapper), b.ran, b.all, b.msgs)
           ELSE Entry("run", c.args, Wrapper(c.args, b.wrapper), b.ran, b.all, b.msgs)
  ELSE IF c.op = "idle_it" THEN Entry("idle", <<>>, b.wrapper, b.ran, b.all, b.msgs)
  ELSE b

AfterMagic(c, s) ==
  LET b == s.book[s.at]
  IN  IF c.op = "status" /\ b.run # "unlisted"
        THEN Stand(s.pos, IF b.all = "need_update" THEN "sync_status" ELSE "messages",
                   s.at, s.book)
      ELSE Returned(s, [s.book EXCEPT ![s.at] =
             IF b.run # "unlisted" THEN Commanded(c, b)
             ELSE IF c.op = "load" THEN Book(NewInfo("idle")) ELSE b])

AfterMessages(s) ==
  IF s.book[s.at].all = "failed" /\ s.book[s.at].msgs = NoMsgs
    THEN Stand(s.pos, "gather_messages", s.at, s.book)
    ELSE Returned(s, s.book)

AfterClear(s) ==
  Returned(s, [f \in Functions |->
    Entry(s.book[f].run, s.book[f].args, s.book[f].wrapper, "no", "not_executed", NoMsgs)])

\* Where a rank stands after a step of its own in call c.
After(c, s) ==
  CASE s.pc = "between"  -> AfterBetween(c, s)
    [] s.pc = "execute"  -> AfterExecute(c, s)
    [] s.pc = "each"     -> AfterEach(c, s)
    [] s.pc = "board"    -> AfterBoard(s)
    [] s.pc = "magic"    -> AfterMagic(c, s)
    [] s.pc = "messages" -> AfterMessages(s)
    [] s.pc = "clear"    -> AfterClear(s)

\* It does not wait, and has something left to do.
GoesOn(s) == s.pc \in LocalSteps /\ (s.pc = "between" => s.pos <= NumCalls)

\* s comes before t: in an earlier call, or in the same call, that t is in.
Before(s, t) == s.pos < t.pos \/ (s.pos = t.pos /\ t.pc # "between")

IsWay(calls, way, n) ==
  /\ \A k \in 1..n : /\ GoesOn(way[k - 1])
                     /\ way[k] = After(calls[way[k - 1].pos], way[k - 1])
  /\ \A j, k \in 0..n : j < k => Before(way[j], way[k])

OnWay(calls, stands) ==
  \E n \in Nat : \E way \in [0..n -> Stands] :
    IsWay(calls, way, n) /\ \A r \in Ranks : \E k \in 0..n : stands[r] = way[k]

OneWay == OnWay(program, StandOf)

\* The cached messages are of calls after the last yt_free.
MessagesFresh ==
  \A r, q \in Ranks : \A f \in Functions :
    info[r][f].msgs # NoMsgs /\ info[r][f].msgs[q] # 0 =>
      info[r][f].msgs[q] > LastFree(r)

-----------------------------------------------------------------------------
\* Whatever Python raises.
OwnInv == TypeOK /\ \A r \in Ranks : InCall(r) /\ OwnHistory(r)

\* As long as it raises nothing that "except Exception" lets through.
IInv == OwnInv /\ OneWay /\ MessagesFresh

(***************************************************************************)
(* Nobody is stuck: some rank has a step of its own to take, or all ranks  *)
(* are in the same collective for the same function of the same call, or   *)
(* the program is over.                                                    *)
(***************************************************************************)
NeverStuck ==
  \/ \E r \in Ranks : pc[r] \in LocalSteps /\ ~AtEnd(r)
  \/ \E q \in Ranks : pc[q] \in Collectives /\ \A r \in Ranks :
       <<pos[r], pc[r], at[r]>> = <<pos[q], pc[q], at[q]>>
  \/ \A r \in Ranks : AtEnd(r)
=============================================================================
