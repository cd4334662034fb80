-------------------------- MODULE EntryPointProofs --------------------------
(***************************************************************************)
(* Proofs about EntryPoint, for any set of ranks, any functions and any    *)
(* number of jobs, and about the files of its reload mode (ReloadFiles).   *)
(***************************************************************************)
EXTENDS EntryPointInvariants, ReloadFilesInvariants, TLAPS

\* A piece of code that a rank may be asked to run.
LEMMA PieceOfSource ==
  ASSUME NEW c \in Content(Source(mode)), mode \in {"prompt", "reload", "kernel"},
         c.parts # <<>>,
         NEW k \in 1 .. (IF mode = "kernel" THEN 2 ELSE 1)
  PROVE  c.parts[k] \in Parts \cup {NoCode}
<1>1. c.parts \in Source(mode)
  BY DEF Content
<1>2. CASE mode = "prompt"
  BY <1>1, <1>2 DEF Source, Line
<1>3. CASE mode = "reload"
  BY <1>1, <1>3 DEF Source, File, Line
<1>4. CASE mode = "kernel"
  BY <1>1, <1>4 DEF Source, Cell
<1>5. QED
  BY <1>2, <1>3, <1>4

LEMMA PieceOfFile ==
  ASSUME NEW c \in Content(File) \cup {Unreadable}, c.readable
  PROVE  c.parts[1] \in Parts \cup {NoCode}
<1>1. c # Unreadable
  BY DEF Unreadable
<1>2. c.parts \in File
  BY <1>1 DEF Content
<1>3. QED
  BY <1>2 DEF File, Line

\* Only a cell may have nothing to run.
LEMMA SourceHasCode ==
  ASSUME NEW c \in Content(Source(mode)), mode \in {"prompt", "reload"}
  PROVE  c.parts # <<>>
<1>1. c.parts \in File
  BY DEF Content, Source, File
<1>2. QED
  BY <1>1 DEF File, Line

\* What code defines are functions.
LEMMA PieceIsTyped ==
  ASSUME NEW p \in Parts \cup {NoCode}
  PROVE  p.defines \subseteq Functions
BY DEF Parts, NoCode

\* What can be asked for in any mode.
LEMMA SourceIsTyped ==
  ASSUME mode \in {"prompt", "reload", "kernel"}
  PROVE  Source(mode) \subseteq File \cup Cell
BY DEF Source, File

LEMMA ContentIsTyped ==
  ASSUME NEW S, NEW T, S \subseteq T
  PROVE  Content(S) \subseteq Content(T)
BY DEF Content

\* What a user may ask for.
LEMMA JobIsTyped ==
  ASSUME mode \in {"prompt", "reload", "kernel"},
         NEW j \in Jobs(mode) \cup Exits(mode)
  PROVE  /\ j.kind \in {"exit", "command", "code"} /\ j.what \in Whats
         /\ j.content \in Content(File \cup Cell) \cup {Unreadable}
         /\ mode = "prompt" => j.kind # "exit"
         /\ j.kind = "code" => j.content \in Content(Source(mode))
         /\ j.kind = "command" /\ j.what = "load" =>
              j.content \in Content(File) \cup {Unreadable}
         /\ j \in Exits(mode) =>
              IF mode = "prompt" THEN j.kind = "command" /\ j.what = "exit"
              ELSE j.kind = "exit"
<1>1. CASE j \in Exits(mode)
  BY <1>1 DEF Exits, Leave, Command, Whats
<1>2. CASE j \in Command({"exit", "other"}, {Unreadable})
  <2>1. j \notin Leave /\ (j \in Exits(mode) => mode = "prompt" /\ j.what = "exit")
    BY <1>2 DEF Command, Leave, Exits
  <2>2. QED
    BY <1>2, <2>1 DEF Command, Whats
<1>3. CASE j \in Command({"load"}, Content(File) \cup {Unreadable})
  <2>1. j.kind = "command" /\ j.what = "load"
        /\ j.content \in Content(File) \cup {Unreadable}
    BY <1>3 DEF Command
  <2>2. j \notin Exits(mode)
    BY <2>1 DEF Exits, Leave, Command
  <2>3. QED
    BY <2>1, <2>2, ContentIsTyped DEF Whats
<1>4. CASE j \in Code(Content(Source(mode)))
  <2>1. j.kind = "code" /\ j.what = "none" /\ j.content \in Content(Source(mode))
    BY <1>4 DEF Code
  <2>2. j \notin Exits(mode)
    BY <2>1 DEF Exits, Leave, Command
  <2>3. QED
    BY <2>1, <2>2, SourceIsTyped, ContentIsTyped DEF Whats
<1>5. QED
  BY <1>1, <1>2, <1>3, <1>4 DEF Jobs

\* The part of the invariant that holds whatever the user does with the flag.
Typed == TypeOK /\ Together /\ JobAtRoot /\ LastJob

\* When the root is about to send code there is a piece of code to send.
LEMMA CodeIsTyped ==
  ASSUME Typed, pc[root] = "code"
  PROVE  /\ content.parts[turn[root]] \in Parts \cup {NoCode}
         /\ turn[root] \in 1..2
<1>1. mode \in {"prompt", "reload", "kernel"}
  BY ModesAssumption DEF Typed, TypeOK
<1>2. CASE /\ job[root].kind = "command" /\ job[root].what = "load"
           /\ content.readable /\ turn[root] = 1
  <2>1. content \in Content(File) \cup {Unreadable}
    BY <1>2 DEF Typed, JobAtRoot, InJob, InCommand, InCode
  <2>2. QED
    BY <1>2, <2>1, PieceOfFile
<1>3. CASE /\ job[root].kind = "code" /\ turn[root] \in 1 .. LastTurn(root)
           /\ content.parts # <<>>
  <2>1. content \in Content(Source(mode))
    BY <1>3 DEF Typed, JobAtRoot, InJob, InCommand, InCode
  <2>2. LastTurn(root) = IF mode = "kernel" THEN 2 ELSE 1
    BY <1>3 DEF LastTurn
  <2>3. QED
    BY <1>1, <1>3, <2>1, <2>2, PieceOfSource
<1>4. QED
  BY <1>2, <1>3 DEF Typed, JobAtRoot, InCode

-----------------------------------------------------------------------------
LEMMA TypedInit == Init => Typed
<1> SUFFICES ASSUME Init PROVE Typed
  OBVIOUS
<1>1. TypeOK
  <2>1. connection \in ConnectionStates
    BY ConnectionsAssumption DEF Init, ConnectionStates
  <2>2. pc \in [Ranks -> Collectives \cup LocalSteps]
    BY DEF Init, Collectives, LocalSteps
  <2>3. job \in [Ranks -> [kind : Kinds, what : Whats]]
    BY DEF Init, NoJob, Kinds, Whats
  <2>4. jobs \in 0..NumJobs
    BY JobsAssumption DEF Init
  <2>5. content \in Content(File \cup Cell) \cup {Unreadable}
    BY DEF Init
  <2>6. code \in [Ranks -> Parts \cup {NoCode}]
    BY DEF Init
  <2>7. /\ turn \in [Ranks -> 1..3]
        /\ ran \in [Ranks -> {"not_run", "success", "failed"}]
        /\ verdict \in [Ranks -> {"success", "failed"}]
        /\ known \in [Ranks -> SUBSET Functions]
        /\ recorded \in [Ranks -> BOOLEAN] /\ done \in [Ranks -> BOOLEAN]
    BY DEF Init
  <2>8. QED
    BY <2>1, <2>2, <2>3, <2>4, <2>5, <2>6, <2>7 DEF Init, TypeOK
<1>2. Together
  BY DEF Init, Together
<1>3. JobAtRoot
  BY RanksAssumption DEF Init, JobAtRoot, InJob, InCommand, InCode
<1>4. LastJob
  BY JobsAssumption DEF Init, LastJob
<1>5. QED
  BY <1>1, <1>2, <1>3, <1>4 DEF Typed

-----------------------------------------------------------------------------
(***************************************************************************)
(* Every step keeps the types.  An action that leaves all but places alone *)
(* needs to say no more than where the ranks go.                           *)
(***************************************************************************)
LEMMA LaterIsTyped ==
  ASSUME Typed, UNCHANGED <<job, content, running>>, UNCHANGED mode,
         failed' \in BOOLEAN, flag' \in BOOLEAN, generated' \in BOOLEAN,
         pc' \in [Ranks -> Collectives \cup LocalSteps],
         known' \in [Ranks -> SUBSET Functions],
         recorded' \in [Ranks -> BOOLEAN], done' \in [Ranks -> BOOLEAN],
         jobs' \in 0..NumJobs, connection' \in ConnectionStates, pid' \in BOOLEAN,
         pending' \in BOOLEAN
  PROVE  TypeOK' /\ Together'
BY DEF Typed, TypeOK, Together, running

LEMMA TypedStep == Typed /\ [Next]_vars => Typed'
<1> SUFFICES ASSUME Typed, [Next]_vars PROVE Typed'
  OBVIOUS
<1> USE RanksAssumption
<1> mode \in {"prompt", "reload", "kernel"}
  BY ModesAssumption DEF Typed, TypeOK
<1>1. CASE ShowBoard
  <2>1. TypeOK' /\ Together'
    <3>1. pc' \in [Ranks -> Collectives \cup LocalSteps]
      BY <1>1 DEF ShowBoard, LocalSteps
    <3>2. QED
      BY <1>1, <3>1, LaterIsTyped DEF ShowBoard, session, files, Typed, TypeOK
  <2>2. JobAtRoot'
    BY <1>1 DEF ShowBoard, JobAtRoot, InJob, InCommand, InCode
  <2>3. LastJob'
    BY <1>1 DEF ShowBoard, Typed, LastJob, AllAt, session
  <2>4. QED
    BY <2>1, <2>2, <2>3 DEF Typed
<1>2. ASSUME NEW r \in Ranks, TestFlag(r) PROVE Typed'
  <2>1. TypeOK' /\ Together'
    <3>1. /\ pc' \in [Ranks -> Collectives \cup LocalSteps]
          /\ flag' \in BOOLEAN /\ generated' \in BOOLEAN
      BY <1>2 DEF TestFlag, LocalSteps, Collectives, Typed, TypeOK
    <3>2. QED
      BY <1>2, <3>1, LaterIsTyped DEF TestFlag, files, Typed, TypeOK
  <2>2. JobAtRoot'
    BY <1>2 DEF TestFlag, Typed, TypeOK, JobAtRoot, InJob, InCommand, InCode, running,
                LastTurn
  <2>3. LastJob'
    BY <1>2 DEF TestFlag, Typed, TypeOK, LastJob
  <2>4. QED
    BY <2>1, <2>2, <2>3 DEF Typed
<1>3. CASE Enter
  <2>1. TypeOK' /\ Together'
    <3>1. pc' \in [Ranks -> Collectives \cup LocalSteps]
      BY <1>3 DEF Enter, LocalSteps, Collectives, NextRound
    <3>2. QED
      BY <1>3, <3>1, LaterIsTyped DEF Enter, session, files, Typed, TypeOK
  <2>2. JobAtRoot'
    BY <1>3 DEF Enter, NextRound, JobAtRoot, InJob, InCommand, InCode
  <2>3. LastJob'
    BY <1>3 DEF Enter, Typed, LastJob, AllAt, session
  <2>4. QED
    BY <2>1, <2>2, <2>3 DEF Typed
<1>4. CASE CreateFlag
  <2>1. TypeOK' /\ Together'
    BY <1>4, LaterIsTyped DEF CreateFlag, files, Typed, TypeOK
  <2>2. JobAtRoot'
    BY <1>4 DEF CreateFlag, Typed, JobAtRoot, running, LastTurn
  <2>3. LastJob'
    BY <1>4 DEF CreateFlag, Typed, LastJob
  <2>4. QED
    BY <2>1, <2>2, <2>3 DEF Typed
<1>5. ASSUME NEW r \in Ranks, Launch(r) \/ Connect(r) PROVE Typed'
  <2>1. TypeOK' /\ Together'
    <3>1. pc' \in [Ranks -> Collectives \cup LocalSteps] /\ pid' \in BOOLEAN
      BY <1>5 DEF Launch, Connect, LocalSteps, Typed, TypeOK, session, files
    <3>2. QED
      BY <1>5, <3>1, LaterIsTyped DEF Launch, Connect, session, files, Typed, TypeOK
  <2>2. JobAtRoot'
    BY <1>5 DEF Launch, Connect, session, Typed, TypeOK, JobAtRoot, InJob, InCommand,
                InCode, running, LastTurn
  <2>3. LastJob'
    BY <1>5 DEF Launch, Connect, session, Typed, TypeOK, LastJob
  <2>4. QED
    BY <2>1, <2>2, <2>3 DEF Typed
<1>6. ASSUME NEW state \in ConnectionStates \ {"own"}, SupplyConnection(state)
      PROVE  Typed'
  <2>1. TypeOK' /\ Together'
    BY <1>6, LaterIsTyped DEF SupplyConnection, Typed, TypeOK
  <2>2. JobAtRoot'
    BY <1>6 DEF SupplyConnection, Typed, JobAtRoot, running, LastTurn
  <2>3. LastJob'
    BY <1>6 DEF SupplyConnection, Typed, LastJob
  <2>4. QED
    BY <2>1, <2>2, <2>3 DEF Typed
<1>7. ASSUME NEW r \in Ranks, r = root, ChooseJob(r) PROVE Typed'
  <2> pc[root] = "choose" /\ pc'[root] = "indicator"
    BY <1>7 DEF ChooseJob, Typed, TypeOK
  <2>1. PICK j \in Jobs(mode) \cup Exits(mode) :
          /\ jobs + 1 = NumJobs => j \in Exits(mode)
          /\ job' = [job EXCEPT ![root] = [kind |-> j.kind, what |-> j.what]]
          /\ content' = j.content
    <3>1. jobs + 1 = NumJobs => ~(jobs + 1 < NumJobs)
      BY JobsAssumption
    <3>2. QED
      BY <1>7, <3>1 DEF ChooseJob
  <2>2. /\ j.kind \in {"exit", "command", "code"} /\ j.what \in Whats
        /\ j.content \in Content(File \cup Cell) \cup {Unreadable}
        /\ mode = "prompt" => j.kind # "exit"
        /\ j.kind = "code" => j.content \in Content(Source(mode))
        /\ j.kind = "command" /\ j.what = "load" =>
             j.content \in Content(File) \cup {Unreadable}
        /\ j \in Exits(mode) =>
             IF mode = "prompt" THEN j.kind = "command" /\ j.what = "exit"
             ELSE j.kind = "exit"
    BY JobIsTyped
  <2>3. jobs' = jobs + 1 /\ jobs' \in 0..NumJobs
    <3>1. jobs # NumJobs
      BY DEF Typed, LastJob
    <3>2. QED
      BY <1>7, <3>1, JobsAssumption DEF ChooseJob, Typed, TypeOK
  <2>4. TypeOK'
    <3>1. /\ job' \in [Ranks -> [kind : Kinds, what : Whats]]
          /\ content' \in Content(File \cup Cell) \cup {Unreadable}
      BY <2>1, <2>2 DEF Typed, TypeOK, Kinds
    <3>2. pc' \in [Ranks -> Collectives \cup LocalSteps]
      BY <1>7 DEF ChooseJob, Typed, TypeOK, Collectives
    <3>3. QED
      BY <1>7, <2>3, <3>1, <3>2 DEF ChooseJob, Typed, TypeOK, files, running
  <2>5. Together'
    BY <1>7 DEF ChooseJob, running, Typed, Together
  <2>6. job'[root] = [kind |-> j.kind, what |-> j.what]
    BY <2>1 DEF Typed, TypeOK
  <2>7. JobAtRoot'
    BY <1>7, <2>1, <2>2, <2>6 DEF JobAtRoot, InJob, InCommand, InCode, ChooseJob
  <2>8. LastJob'
    <3>1. mode' = mode
      BY <1>7 DEF ChooseJob
    <3>2. jobs + 1 = NumJobs =>
            \/ mode # "prompt" /\ job'[root].kind = "exit"
            \/ mode = "prompt" /\ job'[root] = [kind |-> "command", what |-> "exit"]
      BY <2>1, <2>2, <2>6
    <3>3. QED
      BY <2>3, <3>1, <3>2 DEF LastJob
  <2>9. QED
    BY <2>4, <2>5, <2>7, <2>8 DEF Typed
<1>8. ASSUME NEW r \in Ranks, r = root, Refuse(r) \/ TypePart(r) \/ AnswerAlone(r)
      PROVE  Typed'
  <2>1. jobs' \in 0..NumJobs /\ jobs' # NumJobs
    BY <1>8, JobsAssumption
    DEF Refuse, TypePart, AnswerAlone, Typed, TypeOK, LastJob
  <2>2. pc' = pc /\ pc[root] = "choose"
    BY <1>8 DEF Refuse, TypePart, AnswerAlone
  <2>3. TypeOK' /\ Together'
    BY <1>8, <2>1, LaterIsTyped
    DEF Refuse, TypePart, AnswerAlone, session, files, Typed, TypeOK
  <2>4. JobAtRoot'
    BY <2>2 DEF JobAtRoot, InJob, InCommand, InCode
  <2>5. LastJob'
    BY <2>1 DEF LastJob
  <2>6. QED
    BY <2>3, <2>4, <2>5 DEF Typed
<1>9. ASSUME NEW r \in Ranks, r = root, InputEnds(r) PROVE Typed'
  <2>1. TypeOK' /\ Together'
    <3>1. pc' \in [Ranks -> Collectives \cup LocalSteps]
      BY <1>9 DEF InputEnds, LocalSteps, Typed, TypeOK
    <3>2. QED
      BY <1>9, <3>1, LaterIsTyped DEF InputEnds, session, files, Typed, TypeOK
  <2>2. JobAtRoot'
    BY <1>9 DEF InputEnds, Typed, TypeOK, JobAtRoot, InJob, InCommand, InCode
  <2>3. LastJob'
    BY <1>9 DEF InputEnds, Typed, TypeOK, LastJob
  <2>4. QED
    BY <2>1, <2>2, <2>3 DEF Typed
<1>10. CASE SendIndicator
  <2> pc[root] = "indicator" /\ job[root].kind \in {"exit", "command", "code"}
    BY <1>10 DEF SendIndicator, AllAt, Typed, JobAtRoot
  <2>1. \A r \in Ranks : /\ KindAt(r) \in {"exit", "command", "code"}
                        /\ mode = "prompt" => KindAt(r) # "exit"
    BY DEF KindAt, Dispatch, Indicator, Typed, JobAtRoot
  <2>2. /\ pc'[root] = Start(root, KindAt(root)) /\ KindAt(root) = job[root].kind
        /\ job'[root] = job[root] /\ turn'[root] = 1
    <3>1. KindAt(root) = job[root].kind
      BY DEF KindAt
    <3>2. job[root] \in [kind : Kinds, what : Whats]
      BY DEF Typed, TypeOK
    <3>3. job'[root] = [kind |-> job[root].kind, what |-> job[root].what]
      BY <1>10, <3>1 DEF SendIndicator
    <3>4. job'[root] = job[root]
      BY <3>2, <3>3
    <3>5. QED
      BY <1>10, <3>1, <3>4 DEF SendIndicator
  <2>3. TypeOK'
    <3>1. pc' \in [Ranks -> Collectives \cup LocalSteps]
      BY <1>10, <2>1 DEF SendIndicator, Start, Collectives, LocalSteps
    <3>2. job' \in [Ranks -> [kind : Kinds, what : Whats]]
      <4>1. ASSUME NEW r \in Ranks PROVE KindAt(r) \in Kinds /\ job[r].what \in Whats
        <5>1. KindAt(r) \in Kinds
          BY DEF KindAt, Dispatch, Indicator, Kinds, Typed, JobAtRoot
        <5>2. job[r] \in [kind : Kinds, what : Whats]
          BY DEF Typed, TypeOK
        <5>3. QED
          BY <5>1, <5>2
      <4>2. job' = [r \in Ranks |-> [kind |-> KindAt(r), what |-> job[r].what]]
        BY <1>10 DEF SendIndicator
      <4>3. QED
        BY <4>1, <4>2
    <3>3. recorded' \in [Ranks -> BOOLEAN] /\ turn' \in [Ranks -> 1..3]
      BY <1>10 DEF SendIndicator
    <3>4. QED
      BY <1>10, <3>1, <3>2, <3>3 DEF SendIndicator, Typed, TypeOK, session, files
  <2>4. Together'
    BY <1>10 DEF SendIndicator, Typed, Together
  <2>5. JobAtRoot'
    <3>1. UNCHANGED <<mode, content>>
      BY <1>10 DEF SendIndicator, session
    <3>2. pc'[root] \in {"command", "code", "cell", "stop", "remove"}
          /\ (pc'[root] = "command" => job[root].kind = "command")
          /\ (pc'[root] \in {"code", "cell"} => job[root].kind = "code")
          /\ (pc'[root] = "cell" <=> job[root].kind = "code" /\ mode = "kernel")
      BY <2>2 DEF Start
    <3>3. job[root].kind = "code" =>
            content.parts # <<>> \/ mode = "kernel"
      <4>1. job[root].kind = "code" => content \in Content(Source(mode))
        BY DEF Typed, JobAtRoot
      <4>2. QED
        BY <4>1, SourceHasCode
    <3>4. QED
      BY <2>2, <3>1, <3>2, <3>3
      DEF LastTurn, Typed, JobAtRoot, InJob, InCommand, InCode
  <2>6. LastJob'
    BY <1>10, <2>2 DEF SendIndicator, Start, session, Typed, LastJob
  <2>7. QED
    BY <2>3, <2>4, <2>5, <2>6 DEF Typed
<1>11. CASE SendCommand
  <2> pc[root] = "command" /\ job[root].kind = "command" /\ turn[root] = 1
    BY <1>11 DEF SendCommand, AllAt, Typed, JobAtRoot
  <2>1. job'[root] = job[root]
        /\ pc'[root] = IF job[root].what = "load" THEN "load" ELSE "magic"
    BY <1>11 DEF SendCommand
  <2>2. TypeOK'
    <3>1. pc' \in [Ranks -> Collectives \cup LocalSteps]
      BY <1>11 DEF SendCommand, Collectives, LocalSteps
    <3>2. job' \in [Ranks -> [kind : Kinds, what : Whats]]
      BY <1>11 DEF SendCommand, Typed, TypeOK
    <3>3. QED
      BY <1>11, <3>1, <3>2 DEF SendCommand, Typed, TypeOK, session, files, running
  <2>3. Together'
    BY <1>11 DEF SendCommand, running, Typed, Together
  <2>4. JobAtRoot'
    BY <1>11, <2>1
    DEF SendCommand, session, running, Typed, JobAtRoot, InJob, InCommand, InCode
  <2>5. LastJob'
    BY <1>11, <2>1 DEF SendCommand, session, Typed, LastJob
  <2>6. QED
    BY <2>2, <2>3, <2>4, <2>5 DEF Typed
<1>12. CASE SendLoad
  <2> pc[root] = "load"
    BY <1>12 DEF SendLoad, AllAt
  <2>1. TypeOK' /\ Together'
    <3>1. pc' \in [Ranks -> Collectives \cup LocalSteps]
      BY <1>12 DEF SendLoad, Collectives, LocalSteps
    <3>2. QED
      BY <1>12, <3>1, LaterIsTyped DEF SendLoad, session, files, Typed, TypeOK
  <2>2. JobAtRoot'
    BY <1>12
    DEF SendLoad, session, running, Typed, JobAtRoot, InJob, InCommand, InCode
  <2>3. LastJob'
    BY <1>12 DEF SendLoad, session, Typed, LastJob
  <2>4. QED
    BY <2>1, <2>2, <2>3 DEF Typed
<1>13. CASE SendCell
  <2> pc[root] = "cell"
    BY <1>13 DEF SendCell, AllAt
  <2>1. TypeOK' /\ Together'
    <3>1. pc' \in [Ranks -> Collectives \cup LocalSteps]
      BY <1>13 DEF SendCell, NextRound, Collectives, LocalSteps
    <3>2. QED
      BY <1>13, <3>1, LaterIsTyped DEF SendCell, session, files, Typed, TypeOK
  <2>2. JobAtRoot'
    BY <1>13
    DEF SendCell, NextRound, LastTurn, session, running, Typed, JobAtRoot, InJob,
        InCommand, InCode
  <2>3. LastJob'
    BY <1>13 DEF SendCell, session, Typed, LastJob
  <2>4. QED
    BY <2>1, <2>2, <2>3 DEF Typed
<1>14. CASE SendCode
  <2> DEFINE part == content.parts[turn[root]]
  <2> pc[root] = "code" /\ \A r \in Ranks : pc[r] = "code" /\ turn[r] = turn[root]
    BY <1>14 DEF SendCode, AllAt, Typed, Together
  <2>1. part \in Parts \cup {NoCode} /\ turn[root] \in 1..2
    BY CodeIsTyped
  <2> HIDE DEF part
  <2>2. code' = [r \in Ranks |-> part]
    BY <1>14 DEF SendCode, part
  <2>3. \/ /\ pc' = [r \in Ranks |-> AfterPart(r, "success")]
           /\ turn' = [r \in Ranks |-> turn[r] + 1]
           /\ verdict' = [r \in Ranks |-> "success"]
           /\ ran' = ran
        \/ /\ pc' = [r \in Ranks |-> "execute"]
           /\ ran' = [r \in Ranks |-> "not_run"]
           /\ UNCHANGED <<turn, verdict>>
    BY <1>14 DEF SendCode
  <2>4. TypeOK'
    <3>1. pc' \in [Ranks -> Collectives \cup LocalSteps]
      BY <2>3 DEF AfterPart, AfterCode, NextRound, Collectives, LocalSteps
    <3>2. turn' \in [Ranks -> 1..3] /\ verdict' \in [Ranks -> {"success", "failed"}]
          /\ ran' \in [Ranks -> {"not_run", "success", "failed"}]
      BY <2>1, <2>3 DEF Typed, TypeOK
    <3>3. code' \in [Ranks -> Parts \cup {NoCode}]
      BY <2>1, <2>2
    <3>4. QED
      BY <1>14, <3>1, <3>2, <3>3 DEF SendCode, Typed, TypeOK, session, files
  <2>5. Together'
    BY <2>2, <2>3 DEF Typed, Together
  <2>6. JobAtRoot'
    BY <1>14, <2>1, <2>3
    DEF SendCode, AfterPart, AfterCode, NextRound, LastTurn, session, Typed, JobAtRoot,
        InJob, InCommand, InCode
  <2>7. LastJob'
    BY <1>14 DEF SendCode, session, Typed, LastJob
  <2>8. QED
    BY <2>4, <2>5, <2>6, <2>7 DEF Typed
<1>15. ASSUME NEW r \in Ranks, Execute(r) PROVE Typed'
  <2>1. PICK ending \in Endings(code[r]) :
          /\ ran' = [ran EXCEPT ![r] = ending]
          /\ \E names \in Lists(code[r]) :
               known' = [known EXCEPT ![r] = @ \cup names]
    BY <1>15 DEF Execute
  <2>2. PICK names \in Lists(code[r]) :
          known' = [known EXCEPT ![r] = @ \cup names]
    BY <2>1
  <2>3. TypeOK'
    <3>1. code[r].defines \subseteq Functions
      BY PieceIsTyped DEF Typed, TypeOK
    <3>2. names \subseteq Functions
      BY <3>1 DEF Lists
    <3>3. known' \in [Ranks -> SUBSET Functions]
      BY <2>2, <3>2 DEF Typed, TypeOK
    <3>4. ran' \in [Ranks -> {"not_run", "success", "failed"}]
      BY <2>1 DEF Endings, Typed, TypeOK
    <3>5. pc' \in [Ranks -> Collectives \cup LocalSteps]
          /\ recorded' \in [Ranks -> BOOLEAN]
      BY <1>15 DEF Execute, Collectives, LocalSteps, Typed, TypeOK
    <3>6. QED
      BY <1>15, <3>3, <3>4, <3>5 DEF Execute, Typed, TypeOK, session, files
  <2>4. Together'
    BY <1>15 DEF Execute, Typed, Together
  <2>5. JobAtRoot'
    BY <1>15 DEF Execute, session, LastTurn, Typed, TypeOK, JobAtRoot, InJob, InCommand,
                 InCode
  <2>6. LastJob'
    BY <1>15 DEF Execute, session, Typed, TypeOK, LastJob
  <2>7. QED
    BY <2>3, <2>4, <2>5, <2>6 DEF Typed
<1>16. CASE Vote
  <2> pc[root] = "vote" /\ turn[root] \in 1..2
      /\ \A r \in Ranks : turn[r] = turn[root]
    BY <1>16 DEF Vote, AllAt, LastTurn, Typed, Together, JobAtRoot, InCode
  <2>1. TypeOK'
    <3>1. pc' \in [Ranks -> Collectives \cup LocalSteps]
      BY <1>16 DEF Vote, AfterPart, AfterCode, NextRound, Collectives, LocalSteps
    <3>2. turn' \in [Ranks -> 1..3] /\ verdict' \in [Ranks -> {"success", "failed"}]
      BY <1>16 DEF Vote, Verdict
    <3>3. QED
      BY <1>16, <3>1, <3>2 DEF Vote, Typed, TypeOK, session, files
  <2>2. Together'
    BY <1>16 DEF Vote, Verdict, Typed, Together
  <2>3. JobAtRoot'
    <3>1. pc'[root] = AfterPart(root, Verdict(root)) /\ turn'[root] = turn[root] + 1
      BY <1>16 DEF Vote
    <3>2. QED
      BY <1>16, <3>1
      DEF Vote, AfterPart, AfterCode, NextRound, LastTurn, session, Typed, JobAtRoot,
          InJob, InCommand, InCode
  <2>4. LastJob'
    BY <1>16 DEF Vote, session, Typed, LastJob
  <2>5. QED
    BY <2>1, <2>2, <2>3, <2>4 DEF Typed
<1>17. ASSUME NEW r \in Ranks, Magic(r) PROVE Typed'
  <2>1. TypeOK' /\ Together'
    <3>1. pc' \in [Ranks -> Collectives \cup LocalSteps]
      BY <1>17 DEF Magic, NextRound, Collectives, LocalSteps, Typed, TypeOK
    <3>2. done' \in [Ranks -> BOOLEAN]
      BY <1>17 DEF Magic, Leaves, Typed, TypeOK
    <3>3. recorded' \in [Ranks -> BOOLEAN]
      <4>1. PICK succeeds \in BOOLEAN :
              recorded' = [recorded EXCEPT ![r] = (@ /\ ~Leaves(r)) \/ (succeeds /\ r = root)]
        BY <1>17 DEF Magic
      <4>2. QED
        BY <4>1 DEF Typed, TypeOK
    <3>4. QED
      BY <1>17, <3>1, <3>2, <3>3, LaterIsTyped DEF Magic, session, files, Typed, TypeOK
  <2>2. JobAtRoot'
    <3>1. /\ pc[r] = "magic"
          /\ pc' = [pc EXCEPT ![r] = IF mode = "prompt" THEN "end" ELSE NextRound(r)]
          /\ UNCHANGED <<mode, job, content, turn>>
      BY <1>17 DEF Magic, session, running
    <3>2. CASE r = root
      BY <3>1, <3>2 DEF NextRound, Typed, TypeOK, JobAtRoot, InJob, InCommand, InCode
    <3>3. CASE r # root
      BY <3>1, <3>3 DEF LastTurn, Typed, TypeOK, JobAtRoot
    <3>4. QED
      BY <3>2, <3>3
  <2>3. LastJob'
    BY <1>17 DEF Magic, Leaves, session, Typed, TypeOK, LastJob
  <2>4. QED
    BY <2>1, <2>2, <2>3 DEF Typed
<1>18. CASE EndRound
  <2> pc[root] = "end"
    BY <1>18 DEF EndRound, AllAt
  <2>1. TypeOK' /\ Together'
    <3>1. pc' \in [Ranks -> Collectives \cup LocalSteps]
      BY <1>18 DEF EndRound, NextRound, Collectives, LocalSteps
    <3>2. QED
      BY <1>18, <3>1, LaterIsTyped DEF EndRound, session, files, Typed, TypeOK
  <2>2. JobAtRoot'
    BY <1>18 DEF EndRound, NextRound, JobAtRoot, InJob, InCommand, InCode
  <2>3. LastJob'
    BY <1>18 DEF EndRound, session, Typed, LastJob
  <2>4. QED
    BY <2>1, <2>2, <2>3 DEF Typed
<1>19. ASSUME NEW r \in Ranks, RemoveFlag(r) \/ StopKernel(r) PROVE Typed'
  <2>1. TypeOK' /\ Together'
    <3>1. pc' \in [Ranks -> Collectives \cup LocalSteps]
          /\ pid' \in BOOLEAN /\ flag' \in BOOLEAN
      BY <1>19 DEF RemoveFlag, StopKernel, Collectives, LocalSteps, Typed, TypeOK, files
    <3>2. QED
      BY <1>19, <3>1, LaterIsTyped DEF RemoveFlag, StopKernel, files, Typed, TypeOK
  <2>2. JobAtRoot'
    BY <1>19 DEF RemoveFlag, StopKernel, running, LastTurn, Typed, TypeOK, JobAtRoot,
                 InJob, InCommand, InCode
  <2>3. LastJob'
    BY <1>19 DEF RemoveFlag, StopKernel, Typed, TypeOK, LastJob
  <2>4. QED
    BY <2>1, <2>2, <2>3 DEF Typed
<1>20. CASE Shutdown
  <2> pc'[root] = "left"
    BY <1>20 DEF Shutdown
  <2>1. TypeOK' /\ Together'
    <3>1. pc' \in [Ranks -> Collectives \cup LocalSteps]
      BY <1>20 DEF Shutdown, LocalSteps
    <3>2. QED
      BY <1>20, <3>1, LaterIsTyped DEF Shutdown, session, files, Typed, TypeOK
  <2>2. JobAtRoot' /\ LastJob'
    BY DEF JobAtRoot, InJob, InCommand, InCode, LastJob
  <2>3. QED
    BY <2>1, <2>2 DEF Typed
<1>21. CASE UNCHANGED vars
  <2>1. TypeOK' /\ Together'
    BY <1>21, LaterIsTyped DEF vars, running, files, Typed, TypeOK
  <2>2. JobAtRoot'
    BY <1>21 DEF vars, files, LastTurn, Typed, JobAtRoot
  <2>3. LastJob'
    BY <1>21 DEF vars, files, Typed, LastJob
  <2>4. QED
    BY <2>1, <2>2, <2>3 DEF Typed
<1>22. QED
  BY <1>1, <1>2, <1>3, <1>4, <1>5, <1>6, <1>7, <1>8, <1>9, <1>10, <1>11, <1>12, <1>13,
     <1>14, <1>15, <1>16, <1>17, <1>18, <1>19, <1>20, <1>21
  DEF Next, LocalStep, UserStep, Collective, Finished

(***************************************************************************)
(* Type correctness, and with it that no rank is asked to run a part of    *)
(* the code that is not there, and that a session ends with its last job;  *)
(* also if the user may create the flag file at the wrong moment.          *)
(***************************************************************************)
THEOREM TypesHold == Spec => []TypeOK
<1>1. Spec => []Typed
  BY TypedInit, TypedStep, PTL DEF Spec
<1>2. Typed => TypeOK
  BY DEF Typed
<1>3. QED
  BY <1>1, <1>2, PTL

-----------------------------------------------------------------------------
(* Where the ranks are *)

LEMMA PlacesInit == Init => Places
BY DEF Init, Places, PlaceOf, RootsPlaces

LEMMA PlacesStep == Typed /\ Places /\ [Next]_vars => Places'
<1> SUFFICES ASSUME Typed, Places, [Next]_vars, NEW q \in Ranks PROVE PlaceOf(q)'
  BY DEF Places
<1> USE DEF PlaceOf, RootsPlaces, Leaves
<1> PlaceOf(q) /\ pc \in [Ranks -> Collectives \cup LocalSteps]
  /\ done \in [Ranks -> BOOLEAN]
  BY DEF Places, Typed, TypeOK
<1>1. CASE ShowBoard
  BY <1>1 DEF ShowBoard, AllAt, session
<1>2. ASSUME NEW r \in Ranks, TestFlag(r) PROVE PlaceOf(q)'
  BY <1>2 DEF TestFlag
<1>3. CASE Enter
  BY <1>3 DEF Enter, AllAt, NextRound, session
<1>4. CASE CreateFlag \/ (\E state \in ConnectionStates \ {"own"} : SupplyConnection(state))
  BY <1>4 DEF CreateFlag, SupplyConnection
<1>5. ASSUME NEW r \in Ranks, Launch(r) \/ Connect(r) PROVE PlaceOf(q)'
  <2>1. r = root
    BY <1>5 DEF Launch, Connect, Places
  <2>2. QED
    BY <1>5, <2>1 DEF Launch, Connect, session
<1>6. ASSUME NEW r \in Ranks, r = root, UserStep(r) PROVE PlaceOf(q)'
  <2>1. pc[root] = "choose" /\ UNCHANGED <<mode, done>> /\ (q # root => job'[q] = job[q])
    BY <1>6 DEF UserStep, ChooseJob, Refuse, TypePart, AnswerAlone, InputEnds, session,
                Typed, TypeOK
  <2>2. \/ pc' = pc
        \/ pc' = [pc EXCEPT ![root] = "indicator"]
        \/ pc' = [pc EXCEPT ![root] = "asking"]
    BY <1>6 DEF UserStep, ChooseJob, Refuse, TypePart, AnswerAlone, InputEnds
  <2>3. QED
    BY <2>1, <2>2
<1>7. CASE SendIndicator
  <2>1. /\ pc'[q] = Start(q, KindAt(q)) /\ job'[q].kind = KindAt(q)
        /\ pc[q] = "indicator" /\ UNCHANGED <<mode, done>>
    BY <1>7 DEF SendIndicator, AllAt, session
  <2>2. KindAt(q) \in {"exit", "command", "code"} /\ (mode = "prompt" => KindAt(q) # "exit")
    BY <1>7, RanksAssumption
    DEF SendIndicator, AllAt, KindAt, Dispatch, Indicator, Typed, JobAtRoot
  <2>3. mode \in {"prompt", "reload", "kernel"}
    BY ModesAssumption DEF Typed, TypeOK
  <2>4. QED
    BY <2>1, <2>2, <2>3 DEF Start
<1>8. CASE SendCommand
  BY <1>8, RanksAssumption DEF SendCommand, AllAt, session, Places
<1>9. CASE SendLoad
  BY <1>9 DEF SendLoad, AllAt, session
<1>10. CASE SendCell
  BY <1>10 DEF SendCell, AllAt, NextRound, session
<1>11. CASE SendCode
  <2>1. pc'[q] \in {"code", AfterCode(q), "execute"} /\ pc[q] = "code"
        /\ UNCHANGED <<mode, job, done>>
    BY <1>11 DEF SendCode, AfterPart, AllAt, session
  <2>2. QED
    BY <2>1 DEF AfterCode, NextRound
<1>12. ASSUME NEW r \in Ranks, Execute(r) PROVE PlaceOf(q)'
  BY <1>12 DEF Execute, session
<1>13. CASE Vote
  <2>1. pc'[q] \in {"code", AfterCode(q)} /\ pc[q] = "vote" /\ UNCHANGED <<mode, job, done>>
    BY <1>13 DEF Vote, AfterPart, AllAt, session
  <2>2. QED
    BY <2>1 DEF AfterCode, NextRound
<1>14. ASSUME NEW r \in Ranks, Magic(r) PROVE PlaceOf(q)'
  <2>1. pc[r] = "magic" /\ job[r].kind = "command"
    BY <1>14 DEF Magic, Places
  <2>2. QED
    BY <1>14, <2>1 DEF Magic, NextRound, session
<1>15. CASE EndRound
  BY <1>15 DEF EndRound, AllAt, NextRound, session
<1>16. ASSUME NEW r \in Ranks, RemoveFlag(r) \/ StopKernel(r) PROVE PlaceOf(q)'
  BY <1>16 DEF RemoveFlag, StopKernel
<1>17. CASE Shutdown
  BY <1>17 DEF Shutdown, AllAt, session
<1>18. CASE UNCHANGED vars
  BY <1>18 DEF vars
<1>19. QED
  BY <1>1, <1>2, <1>3, <1>4, <1>5, <1>6, <1>7, <1>8, <1>9, <1>10, <1>11, <1>12, <1>13,
     <1>14, <1>15, <1>16, <1>17, <1>18
  DEF Next, LocalStep, UserStep, Collective, Finished

-----------------------------------------------------------------------------
(* What the ranks keep of the code they ran *)

LEMMA KeptInit == Init => Kept
BY DEF Init, Kept, KeptBy, NoCode

LEMMA KeptStep == Typed /\ Kept /\ [Next]_vars => Kept'
<1> SUFFICES ASSUME Typed, Kept, [Next]_vars, NEW q \in Ranks PROVE KeptBy(q)'
  BY DEF Kept
<1> KeptBy(q)
  BY DEF Kept
<1> pc \in [Ranks -> Collectives \cup LocalSteps] /\ known \in [Ranks -> SUBSET Functions]
    /\ ran \in [Ranks -> {"not_run", "success", "failed"}]
  BY DEF Typed, TypeOK
<1>1. ASSUME UNCHANGED <<code, ran, verdict, known>>,
             pc'[q] = "vote" => pc[q] = "vote",
             pc[q] \in {"execute", "vote"} => pc'[q] = pc[q]
      PROVE  KeptBy(q)'
  BY <1>1 DEF KeptBy
<1>2. CASE SendCode
  <2>1. CASE content.parts[turn[root]].ends = "empty"
    <3>1. content.parts[turn[root]] \in Parts \cup {NoCode}
      BY <1>2, CodeIsTyped, RanksAssumption DEF SendCode, AllAt
    <3>2. content.parts[turn[root]] = NoCode
      BY <2>1, <3>1, ModesAssumption DEF Parts
    <3>3. code'[q] = NoCode
      BY <1>2, <3>2 DEF SendCode
    <3>4. pc'[q] # "vote"
      BY <1>2, <2>1 DEF SendCode, AfterPart, AfterCode, NextRound
    <3>5. QED
      BY <3>3, <3>4 DEF KeptBy, NoCode
  <2>2. CASE content.parts[turn[root]].ends # "empty"
    BY <1>2, <2>2 DEF SendCode, KeptBy
  <2>3. QED
    BY <2>1, <2>2
<1>3. ASSUME NEW r \in Ranks, Execute(r) PROVE KeptBy(q)'
  <2>1. PICK ending \in Endings(code[r]) :
          /\ ran' = [ran EXCEPT ![r] = ending]
          /\ \E names \in Lists(code[r]) :
               known' = [known EXCEPT ![r] = @ \cup names]
    BY <1>3 DEF Execute
  <2>3. pc' = [pc EXCEPT ![r] = "vote"] /\ UNCHANGED <<code, verdict>>
    BY <1>3 DEF Execute
  <2>4. CASE q = r
    BY <2>3, <2>4 DEF KeptBy
  <2>5. CASE q # r
    BY <2>1, <2>3, <2>5 DEF KeptBy
  <2>6. QED
    BY <2>4, <2>5
<1>4. CASE Vote
  <2>1. pc[q] = "vote" /\ UNCHANGED <<code, ran, known>> /\ verdict'[q] = Verdict(q)
    BY <1>4 DEF Vote, AllAt
  <2>2. pc'[q] \notin {"execute", "vote"}
    BY <1>4 DEF Vote, AfterPart, AfterCode, NextRound
  <2>3. verdict'[q] = "success" => ran[q] = "success"
    BY <2>1 DEF Verdict
  <2>4. QED
    BY <2>1, <2>2, <2>3 DEF KeptBy
<1>5. ASSUME NEW r \in Ranks,
             \/ TestFlag(r) \/ Launch(r) \/ Connect(r) \/ UserStep(r)
             \/ Magic(r) \/ RemoveFlag(r) \/ StopKernel(r)
      PROVE  KeptBy(q)'
  <2>1. UNCHANGED <<code, ran, verdict, known>>
    BY <1>5
    DEF TestFlag, Launch, Connect, UserStep, ChooseJob, Refuse, TypePart, AnswerAlone,
        InputEnds, Magic, RemoveFlag, StopKernel, running
  <2>2. pc[r] \notin {"execute", "vote"}
    BY <1>5
    DEF TestFlag, Launch, Connect, UserStep, ChooseJob, Refuse, TypePart, AnswerAlone,
        InputEnds, Magic, RemoveFlag, StopKernel
  <2>3. CASE \/ TestFlag(r) \/ Launch(r) \/ Connect(r)
             \/ Magic(r) \/ RemoveFlag(r) \/ StopKernel(r)
    <3>1. \E place \in {"enter", "left", "connect", "choose", "end", "indicator", "final"} :
            pc' = [pc EXCEPT ![r] = place]
      BY <2>3
      DEF TestFlag, Launch, Connect, Magic, RemoveFlag, StopKernel, NextRound
    <3>2. QED
      BY <1>1, <2>1, <2>2, <3>1
  <2>4. CASE UserStep(r)
    <3>1. pc' = pc \/ \E place \in {"indicator", "asking"} : pc' = [pc EXCEPT ![r] = place]
      BY <2>4 DEF UserStep, ChooseJob, Refuse, TypePart, AnswerAlone, InputEnds
    <3>2. QED
      BY <1>1, <2>1, <2>2, <3>1
  <2>5. QED
    BY <1>5, <2>3, <2>4
<1>6. CASE ShowBoard \/ Enter \/ SendCommand \/ SendLoad \/ SendCell \/ EndRound \/ Shutdown
  BY <1>1, <1>6
  DEF ShowBoard, Enter, SendCommand, SendLoad, SendCell, EndRound, Shutdown, AllAt,
      NextRound, running
<1>7. CASE SendIndicator
  BY <1>1, <1>7 DEF SendIndicator, AllAt, Start
<1>8. CASE \/ CreateFlag \/ UNCHANGED vars
           \/ \E state \in ConnectionStates \ {"own"} : SupplyConnection(state)
  BY <1>8 DEF CreateFlag, SupplyConnection, vars, running, KeptBy
<1>9. QED
  BY <1>2, <1>3, <1>4, <1>5, <1>6, <1>7, <1>8
  DEF Next, LocalStep, Collective, Finished

(***************************************************************************)
(* The verdict on a piece of code is the same on all ranks, and a success  *)
(* only if the code returned everywhere, whatever its functions become.    *)
(***************************************************************************)
THEOREM VerdictsAlwaysAgree == Spec => []VerdictsAgree
<1>1. Spec => [](Typed /\ Kept)
  BY TypedInit, TypedStep, KeptInit, KeptStep, PTL DEF Spec
<1>2. Typed /\ Kept => VerdictsAgree
  BY DEF Typed, Together, Kept, KeptBy, VerdictsAgree
<1>3. QED
  BY <1>1, <1>2, PTL

-----------------------------------------------------------------------------
(* What is left of a call *)

LEMMA RemovableInit == Init => Removable
BY DEF Init, Removable, FilesRemovable, ClearedBy

LEMMA RemovableStep ==
  ASSUME FlagIsLeftAlone
  PROVE  Typed /\ Places /\ Removable /\ [Next]_vars => Removable'
<1> SUFFICES ASSUME Typed, Places, Removable, [Next]_vars PROVE Removable'
  OBVIOUS
<1> USE RanksAssumption
<1> FilesRemovable /\ PlaceOf(root)
  BY DEF Removable, Places
<1> /\ pc \in [Ranks -> Collectives \cup LocalSteps]
    /\ recorded \in [Ranks -> BOOLEAN] /\ done \in [Ranks -> BOOLEAN]
  BY DEF Typed, TypeOK
<1> mode \in {"prompt", "reload", "kernel"}
  BY ModesAssumption DEF Typed, TypeOK
<1>1. FilesRemovable'
  <2> USE DEF FilesRemovable, PlaceOf, RootsPlaces
  <2>1. CASE ShowBoard
    BY <2>1 DEF ShowBoard, AllAt, session, files
  <2>2. ASSUME NEW r \in Ranks, TestFlag(r) PROVE FilesRemovable'
    BY <2>2 DEF TestFlag, files
  <2>3. CASE Enter
    BY <2>3 DEF Enter, AllAt, NextRound, session, files
  <2>4. CASE CreateFlag
    BY <2>4 DEF CreateFlag, FlagIsLeftAlone, AllAt, files
  <2>5. ASSUME NEW r \in Ranks,
               Launch(r) \/ Connect(r) \/ Execute(r) \/ Magic(r) \/ StopKernel(r)
        PROVE  FilesRemovable'
    <3>1. CASE r = root
      BY <2>5, <3>1
      DEF Launch, Connect, Execute, Magic, StopKernel, NextRound, session, files
    <3>2. CASE r # root
      <4>1. ~(Launch(r) \/ Connect(r) \/ StopKernel(r))
        BY <3>2 DEF Launch, Connect, StopKernel, Places
      <4>2. QED
        BY <2>5, <3>2, <4>1 DEF Execute, Magic, session, files
    <3>3. QED
      BY <3>1, <3>2
  <2>6. ASSUME NEW r \in Ranks, UserStep(r) PROVE FilesRemovable'
    BY <2>6
    DEF UserStep, ChooseJob, Refuse, TypePart, AnswerAlone, InputEnds, session, files
  <2>7. CASE SendIndicator
    <3>1. pc'[root] \in {"command", "cell", "code", "stop", "remove"}
      BY <2>7 DEF SendIndicator, AllAt, Start, KindAt, Typed, JobAtRoot
    <3>2. QED
      BY <2>7, <3>1 DEF SendIndicator, AllAt, session, files
  <2>8. CASE SendCommand \/ SendLoad \/ SendCell
    BY <2>8 DEF SendCommand, SendLoad, SendCell, AllAt, NextRound, session, files
  <2>9. CASE SendCode \/ Vote
    <3>1. pc'[root] \in {"code", "execute", AfterCode(root)} /\ pc[root] \in {"code", "vote"}
          /\ UNCHANGED <<mode, flag, generated, pid>>
      BY <2>9 DEF SendCode, Vote, AllAt, AfterPart, session, files
    <3>2. QED
      BY <3>1 DEF AfterCode, NextRound
  <2>10. CASE EndRound
    BY <2>10 DEF EndRound, AllAt, NextRound, session, files
  <2>11. ASSUME NEW r \in Ranks, RemoveFlag(r) PROVE FilesRemovable'
    BY <2>11 DEF RemoveFlag, files
  <2>12. CASE Shutdown
    BY <2>12 DEF Shutdown, AllAt, session, files
  <2>13. CASE \/ UNCHANGED vars
              \/ \E state \in ConnectionStates \ {"own"} : SupplyConnection(state)
    BY <2>13 DEF vars, SupplyConnection, files
  <2>14. QED
    BY <2>1, <2>2, <2>3, <2>4, <2>5, <2>6, <2>7, <2>8, <2>9, <2>10, <2>11, <2>12, <2>13
    DEF Next, LocalStep, Collective, Finished
<1>2. ASSUME NEW q \in Ranks PROVE ClearedBy(q)'
  <2> ClearedBy(q) /\ PlaceOf(q)
    BY DEF Removable, Places
  <2> USE DEF ClearedBy, PlaceOf, RootsPlaces
  <2>1. CASE ShowBoard \/ Enter
    BY <2>1 DEF ShowBoard, Enter, AllAt, session
  <2>2. ASSUME NEW r \in Ranks, TestFlag(r) \/ RemoveFlag(r) \/ StopKernel(r)
        PROVE  ClearedBy(q)'
    BY <2>2 DEF TestFlag, RemoveFlag, StopKernel
  <2>3. ASSUME NEW r \in Ranks, Launch(r) \/ Connect(r) \/ UserStep(r)
        PROVE  ClearedBy(q)'
    <3>1. UNCHANGED <<mode, recorded, done>>
          /\ (pc' = pc \/ \E place \in {"connect", "choose", "indicator", "asking"} :
                            pc' = [pc EXCEPT ![r] = place])
      BY <2>3
      DEF Launch, Connect, UserStep, ChooseJob, Refuse, TypePart, AnswerAlone, InputEnds,
          session
    <3>2. QED
      BY <3>1
  <2>4. CASE SendIndicator
    <3>1. /\ pc'[q] = Start(q, KindAt(q)) /\ pc[q] = "indicator"
          /\ recorded'[q] = (recorded[q] /\ KindAt(q) # "exit") /\ UNCHANGED <<mode, done>>
      BY <2>4 DEF SendIndicator, AllAt, Cleared, session
    <3>2. KindAt(q) \in {"exit", "command", "code"}
      BY <2>4 DEF SendIndicator, AllAt, KindAt, Dispatch, Indicator, Typed, JobAtRoot
    <3>3. QED
      BY <3>1, <3>2 DEF Start
  <2>5. CASE SendCommand \/ SendLoad \/ SendCell
    BY <2>5 DEF SendCommand, SendLoad, SendCell, AllAt, NextRound, session
  <2>6. CASE SendCode \/ Vote
    <3>1. pc'[q] \in {"code", "execute", AfterCode(q)} /\ pc[q] \in {"code", "vote"}
          /\ UNCHANGED <<mode, recorded, done>>
      BY <2>6 DEF SendCode, Vote, AllAt, AfterPart, session
    <3>2. QED
      BY <3>1 DEF AfterCode, NextRound
  <2>7. ASSUME NEW r \in Ranks, Execute(r) PROVE ClearedBy(q)'
    BY <2>7 DEF Execute, session
  <2>8. ASSUME NEW r \in Ranks, Magic(r) PROVE ClearedBy(q)'
    <3>1. PICK succeeds \in BOOLEAN :
            recorded' = [recorded EXCEPT ![r] = (@ /\ ~Leaves(r)) \/ (succeeds /\ r = root)]
      BY <2>8 DEF Magic
    <3>2. /\ done' = [done EXCEPT ![r] = Leaves(r)] /\ mode' = mode
          /\ \E place \in {"end", "choose", "indicator"} : pc' = [pc EXCEPT ![r] = place]
      BY <2>8 DEF Magic, NextRound, session
    <3>3. CASE q = r
      BY <3>1, <3>2, <3>3
    <3>4. CASE q # r
      BY <3>1, <3>2, <3>4
    <3>5. QED
      BY <3>3, <3>4
  <2>9. CASE EndRound
    BY <2>9 DEF EndRound, AllAt, NextRound, session
  <2>10. CASE Shutdown
    BY <2>10 DEF Shutdown, AllAt, session
  <2>11. CASE \/ CreateFlag \/ UNCHANGED vars
              \/ \E state \in ConnectionStates \ {"own"} : SupplyConnection(state)
    BY <2>11 DEF CreateFlag, vars, SupplyConnection
  <2>12. QED
    BY <2>1, <2>2, <2>3, <2>4, <2>5, <2>6, <2>7, <2>8, <2>9, <2>10, <2>11
    DEF Next, LocalStep, Collective, Finished
<1>3. QED
  BY <1>1, <1>2 DEF Removable

(***************************************************************************)
(* A call leaves no file of its own behind, and no history for the next,   *)
(* as long as the user leaves the flag file alone.                         *)
(***************************************************************************)
THEOREM NothingIsLeftOver ==
  ASSUME FlagIsLeftAlone
  PROVE  Spec => []NothingLeftOver
<1>1. Spec => [](Typed /\ Places)
  BY TypedInit, TypedStep, PlacesInit, PlacesStep, PTL DEF Spec
<1>2. Typed /\ Places /\ Removable /\ [Next]_vars => Removable'
  BY FlagIsLeftAlone, RemovableStep
<1>3. Spec => []Removable
  BY <1>1, <1>2, RemovableInit, PTL DEF Spec
<1>4. Removable => NothingLeftOver
  BY RanksAssumption DEF Removable, FilesRemovable, ClearedBy, NothingLeftOver, AllLeft, AllAt
<1>5. QED
  BY <1>3, <1>4, PTL

-----------------------------------------------------------------------------
(* The ranks are in step *)

LEMMA LockstepInit == Init => Lockstep
BY DEF Init, Lockstep, SameJobs, Ahead, InJob, InCommand, InCode

\* Ranks in a job are in the same job.
LEMMA SameJobsStep ==
  ASSUME Typed, SameJobs, [Next]_vars PROVE SameJobs'
<1> USE RanksAssumption
<1> /\ pc \in [Ranks -> Collectives \cup LocalSteps]
    /\ job \in [Ranks -> [kind : Kinds, what : Whats]]
    /\ mode \in {"prompt", "reload", "kernel"}
  BY ModesAssumption DEF Typed, TypeOK
\* Most steps take no rank into a job, or another job.
<1>1. ASSUME \A r \in Ranks : pc'[r] \in InJob => pc[r] \in InJob /\ job'[r] = job[r],
             \A r \in Ranks : pc'[r] \in InCommand => pc[r] \in InCommand
      PROVE  SameJobs'
  <2>1. InCommand \subseteq InJob
    BY DEF InJob
  <2>2. QED
    BY <1>1, <2>1 DEF SameJobs
<1>2. CASE SendIndicator
  <2>1. job[root].kind \in {"exit", "command", "code"}
        /\ (mode = "prompt" => job[root].kind # "exit")
    BY <1>2 DEF SendIndicator, AllAt, Typed, JobAtRoot
  <2>2. \A r \in Ranks : KindAt(r) = job[root].kind
    BY <2>1 DEF KindAt, Dispatch, Indicator
  <2>3. \A r \in Ranks : pc'[r] = Start(r, job[root].kind) /\ job'[r].kind = job[root].kind
    BY <1>2, <2>2 DEF SendIndicator
  <2>4. \A r \in Ranks : pc'[r] \in InCommand => job[root].kind = "code"
    BY <2>1, <2>3 DEF Start, InCommand, InCode
  <2>5. QED
    BY <2>3, <2>4 DEF SameJobs
<1>3. CASE SendCommand
  BY <1>3 DEF SendCommand, SameJobs
<1>4. CASE SendCell
  <2>1. \A r \in Ranks : job'[r] = job[r] /\ job[r].kind = "code"
    BY <1>4 DEF SendCell, AllAt, InJob, SameJobs, Typed, JobAtRoot
  <2>2. QED
    BY <2>1 DEF SameJobs
<1>5. CASE SendLoad \/ SendCode \/ Vote \/ EndRound \/ Shutdown
  <2>1. PICK place \in {"load", "code", "vote", "end", "final"} : AllAt(place)
    BY <1>5 DEF SendLoad, SendCode, Vote, EndRound, Shutdown
  <2>2. UNCHANGED job
    BY <1>5 DEF SendLoad, SendCode, Vote, EndRound, Shutdown
  <2>3. CASE place = "final"
    <3>1. \A r \in Ranks : pc'[r] = "left"
      BY <1>5, <2>1, <2>3 DEF SendLoad, SendCode, Vote, EndRound, Shutdown, AllAt
    <3>2. QED
      BY <3>1 DEF SameJobs, InJob, InCommand, InCode
  <2>4. CASE place # "final"
    <3>1. \A r \in Ranks : pc[r] \in InCommand
      BY <2>1, <2>4 DEF AllAt, InCommand, InCode
    <3>2. QED
      BY <1>1, <2>2, <3>1 DEF InJob
  <2>5. QED
    BY <2>3, <2>4
<1>6. CASE ShowBoard \/ Enter
  <2>1. \A r \in Ranks : pc'[r] \notin InJob
    BY <1>6 DEF ShowBoard, Enter, NextRound, InJob, InCommand, InCode
  <2>2. QED
    BY <2>1 DEF SameJobs, InJob
<1>7. ASSUME NEW s \in Ranks,
             \/ TestFlag(s) \/ Launch(s) \/ Connect(s) \/ Execute(s) \/ Magic(s)
             \/ RemoveFlag(s) \/ StopKernel(s)
      PROVE  SameJobs'
  <2>1. UNCHANGED job
    BY <1>7 DEF TestFlag, Launch, Connect, Execute, Magic, RemoveFlag, StopKernel
  <2>2. \A r \in Ranks : /\ pc'[r] \in InJob => pc[r] \in InJob
                         /\ pc'[r] \in InCommand => pc[r] \in InCommand
    BY <1>7 DEF TestFlag, Launch, Connect, Execute, Magic, NextRound, RemoveFlag,
       StopKernel, InJob, InCommand, InCode
  <2>3. QED
    BY <1>1, <2>1, <2>2
<1>8. ASSUME NEW s \in Ranks, UserStep(s) PROVE SameJobs'
  <2>1. /\ pc[s] = "choose" /\ \A r \in Ranks \ {s} : job'[r] = job[r]
        /\ \E place \in {"choose", "indicator", "asking"} : pc' = [pc EXCEPT ![s] = place]
    BY <1>8 DEF UserStep, ChooseJob, Refuse, TypePart, AnswerAlone, InputEnds
  <2>2. QED
    BY <1>1, <2>1 DEF InJob, InCommand, InCode
<1>9. CASE UNCHANGED <<pc, job>>
  BY <1>1, <1>9
<1>10. QED
  BY <1>2, <1>3, <1>4, <1>5, <1>6, <1>7, <1>8, <1>9
  DEF Next, LocalStep, Collective, Finished, vars, CreateFlag, SupplyConnection

\* Two ranks in the same job, as far as both of them know.
SameJob(r, q) ==
  /\ job[r].kind = job[q].kind
  /\ job[r].kind = "command" => job[r] = job[q]

LEMMA LockstepStep ==
  ASSUME FlagIsLeftAlone
  PROVE  Typed /\ Places /\ Lockstep /\ [Next]_vars => Lockstep'
<1> SUFFICES ASSUME Typed, Places, Lockstep, [Next]_vars PROVE Lockstep'
  OBVIOUS
<1> USE RanksAssumption
<1> /\ pc \in [Ranks -> Collectives \cup LocalSteps]
    /\ job \in [Ranks -> [kind : Kinds, what : Whats]]
    /\ mode \in {"prompt", "reload", "kernel"}
  BY ModesAssumption DEF Typed, TypeOK
<1> SameJobs'
  BY SameJobsStep DEF Lockstep
\* A step of a rank on its own brings it nearer to the collective ahead, and
\* after a collective the ranks go the same way.
<1>1. ASSUME \A r \in Ranks : Ahead(r)' = Ahead(r) PROVE Lockstep'
  BY <1>1 DEF Lockstep
<1>2. ASSUME \A r \in Ranks : Ahead(r)' = Ahead(root)' PROVE Lockstep'
  BY <1>2 DEF Lockstep
<1>3. ASSUME NEW place \in {"code", "vote", "end"}, AllAt(place)
      PROVE  \A r, q \in Ranks : SameJob(r, q)
  BY <1>3 DEF SameJob, AllAt, Lockstep, SameJobs, InJob, InCommand, InCode
<1>4. CASE ShowBoard \/ Enter \/ SendLoad \/ SendCell \/ Shutdown
  BY <1>2, <1>4 DEF ShowBoard, Enter, SendLoad, SendCell, Shutdown, NextRound, Ahead
<1>5. CASE CreateFlag
  <2>1. AllAt("board") /\ UNCHANGED <<pc, job, mode>>
    BY <1>5 DEF CreateFlag, FlagIsLeftAlone
  <2>2. QED
    BY <1>1, <2>1 DEF AllAt, Ahead
<1>6. ASSUME NEW s \in Ranks,
             \/ TestFlag(s) \/ Launch(s) \/ Connect(s) \/ Execute(s) \/ Magic(s)
             \/ StopKernel(s)
      PROVE  Lockstep'
  <2>1. CASE TestFlag(s)
    BY <1>1, <2>1 DEF TestFlag, Ahead
  <2>2. CASE Launch(s) \/ Connect(s)
    BY <1>1, <2>2 DEF Launch, Connect, session, Ahead
  <2>3. CASE Execute(s) \/ StopKernel(s)
    BY <1>1, <2>3 DEF Execute, StopKernel, session, Ahead
  <2>4. CASE Magic(s)
    BY <1>1, <2>4 DEF Magic, NextRound, session, Ahead
  <2>5. QED
    BY <1>6, <2>1, <2>2, <2>3, <2>4
<1>7. ASSUME NEW s \in Ranks, s = root, UserStep(s) PROVE Lockstep'
  <2>1. /\ pc[root] = "choose" /\ UNCHANGED <<mode, flag, failed>>
        /\ \E place \in {"choose", "indicator", "asking"} : pc' = [pc EXCEPT ![root] = place]
    BY <1>7
    DEF UserStep, ChooseJob, Refuse, TypePart, AnswerAlone, InputEnds, session
  <2>2. QED
    BY <1>1, <2>1 DEF Ahead
<1>8. CASE SendIndicator
  <2>1. job[root].kind \in {"exit", "command", "code"}
        /\ (mode = "prompt" => job[root].kind # "exit")
    BY <1>8 DEF SendIndicator, AllAt, Typed, JobAtRoot
  <2>2. \A r \in Ranks : KindAt(r) = job[root].kind
    BY <2>1 DEF KindAt, Dispatch, Indicator
  <2>3. \A r \in Ranks : pc'[r] = Start(r, job[root].kind)
    BY <1>8, <2>2 DEF SendIndicator
  <2>4. UNCHANGED <<mode, flag, failed>>
    BY <1>8 DEF SendIndicator, session
  <2>5. QED
    BY <1>2, <2>1, <2>3, <2>4 DEF Ahead, Start
<1>9. CASE SendCommand
  BY <1>2, <1>9 DEF SendCommand, session, Ahead
<1>10. CASE SendCode \/ Vote
  <2>1. PICK place \in {"code", "vote"} : AllAt(place)
    BY <1>10 DEF SendCode, Vote
  <2>2. UNCHANGED <<mode, job>> /\ \A r \in Ranks : turn[r] = turn[root]
    BY <1>10 DEF SendCode, Vote, session, Typed, Together
  <2>3. \/ \A r \in Ranks : pc'[r] = "execute"
        \/ \E outcome \in {"success", "failed"} :
             \A r \in Ranks : pc'[r] = AfterPart(r, outcome)
    BY <1>10 DEF SendCode, Vote, Verdict
  <2>4. \A r, q \in Ranks : SameJob(r, q)
    BY <1>3, <2>1
  <2>5. \A r \in Ranks : Ahead(r)' = Ahead(root)'
    BY <2>2, <2>3, <2>4 DEF SameJob, AfterPart, AfterCode, LastTurn, NextRound, Ahead
  <2>6. QED
    BY <1>2, <2>5
<1>11. CASE EndRound
  <2>1. \A r \in Ranks : done[r] = done[root]
    <3> SUFFICES ASSUME NEW r \in Ranks PROVE done[r] = done[root]
      OBVIOUS
    <3>1. /\ done[r] <=> job[r].kind = "command" /\ Leaves(r)
          /\ done[root] <=> job[root].kind = "command" /\ Leaves(root)
      BY <1>11 DEF EndRound, AllAt, Places, PlaceOf
    <3>2. SameJob(r, root)
      BY <1>3, <1>11 DEF EndRound
    <3>3. done[r] <=> done[root]
      BY <3>1, <3>2 DEF SameJob, Leaves
    <3>4. done[r] \in BOOLEAN /\ done[root] \in BOOLEAN
      BY DEF Typed, TypeOK
    <3>5. QED
      BY <3>3, <3>4
  <2>2. QED
    BY <1>2, <1>11, <2>1 DEF EndRound, NextRound, Ahead
<1>12. ASSUME NEW s \in Ranks, RemoveFlag(s) PROVE Lockstep'
  <2>1. Ahead(s) = "left" /\ \A r \in Ranks : Ahead(r) = Ahead(s)
    BY <1>12 DEF RemoveFlag, Ahead, Lockstep
  <2>2. \A r \in Ranks : pc[r] = "test" => ~flag
    BY <2>1 DEF Ahead
  <2>3. QED
    BY <1>1, <1>12, <2>2 DEF RemoveFlag, Ahead
<1>13. CASE \/ UNCHANGED vars
            \/ \E state \in ConnectionStates \ {"own"} : SupplyConnection(state)
  BY <1>1, <1>13 DEF vars, SupplyConnection, Ahead
<1>14. QED
  BY <1>4, <1>5, <1>6, <1>7, <1>8, <1>9, <1>10, <1>11, <1>12, <1>13
  DEF Next, LocalStep, UserStep, Collective, Finished

(***************************************************************************)
(* Ranks never wait for each other in different MPI calls, as long as the  *)
(* user leaves the flag file alone while they look for it; that they may   *)
(* otherwise is the finding of this module.                                *)
(***************************************************************************)
THEOREM CollectivesAlwaysMatch ==
  ASSUME FlagIsLeftAlone
  PROVE  Spec => []CollectivesMatch
<1>1. Spec => [](Typed /\ Places)
  BY TypedInit, TypedStep, PlacesInit, PlacesStep, PTL DEF Spec
<1>2. Typed /\ Places /\ Lockstep /\ [Next]_vars => Lockstep'
  BY FlagIsLeftAlone, LockstepStep
<1>3. Spec => []Lockstep
  BY <1>1, <1>2, LockstepInit, PTL DEF Spec
<1>4. Typed /\ Places /\ Lockstep => CollectivesMatch
  <2> SUFFICES ASSUME Typed, Places, Lockstep,
                      NEW r \in Ranks, NEW q \in Ranks, pc[r] \in Collectives
               PROVE  /\ pc[q] # "left"
                      /\ pc[q] \in Collectives => pc[q] = pc[r] /\ turn[q] = turn[r]
                      /\ pc[q] \in Collectives \ {"indicator"} => job[q].kind = job[r].kind
    BY DEF CollectivesMatch
  <2>1. Ahead(r) = pc[r] /\ Ahead(q) = Ahead(r) /\ pc[r] # "left"
    BY DEF Ahead, Collectives, Lockstep
  <2>2. pc[q] # "left"
    BY <2>1 DEF Ahead
  <2>3. pc[q] \in Collectives => pc[q] = pc[r]
    BY <2>1 DEF Ahead, Collectives
  <2>4. turn[q] = turn[r]
    BY DEF Typed, Together
  <2>5. pc[q] \in Collectives \ {"indicator"} => job[q].kind = job[r].kind
    <3>1. CASE pc[q] \in {"board", "enter"}
      BY <2>3, <3>1 DEF Places, PlaceOf, Collectives
    <3>2. CASE pc[q] \in InJob
      BY <2>3, <3>2 DEF Collectives, Lockstep, SameJobs
    <3>3. QED
      BY <3>1, <3>2 DEF Collectives, InJob, InCommand, InCode
  <2>6. QED
    BY <2>2, <2>3, <2>4, <2>5
<1>5. QED
  BY <1>1, <1>3, <1>4, PTL

(***************************************************************************)
(* The ranks are never all waiting for each other, with the same reserve:  *)
(* unless one has a step of its own they are in the same collective, which *)
(* then returns, or have left, or the input of the prompt has ended.       *)
(***************************************************************************)
THEOREM SessionNeverDeadlocks ==
  ASSUME FlagIsLeftAlone
  PROVE  Spec => []NeverStuck
<1>1. Spec => [](Typed /\ Places)
  BY TypedInit, TypedStep, PlacesInit, PlacesStep, PTL DEF Spec
<1>2. Typed /\ Places /\ Lockstep /\ [Next]_vars => Lockstep'
  BY FlagIsLeftAlone, LockstepStep
<1>3. Spec => []Lockstep
  BY <1>1, <1>2, LockstepInit, PTL DEF Spec
<1>4. Typed /\ Places /\ Lockstep => NeverStuck
  <2> SUFFICES ASSUME Typed, Places, Lockstep,
                      \A r \in Ranks : pc[r] \in Collectives \cup {"left", "asking"}
               PROVE  (\E place \in Collectives : AllAt(place)) \/ AllLeft \/ Stranded
    BY DEF NeverStuck, Typed, TypeOK
  <2> USE RanksAssumption
  <2>1. \A r \in Ranks : /\ pc[r] \in Collectives => Ahead(r) = pc[r]
                         /\ pc[r] = "left" => Ahead(r) = "left"
                         /\ pc[r] = "asking" => Ahead(r) = "indicator"
    BY DEF Ahead, Collectives
  <2>2. \A r \in Ranks : Ahead(r) = Ahead(root) /\ (pc[r] = "asking" => r = root)
    BY DEF Lockstep, Places, PlaceOf, RootsPlaces
  <2>3. CASE pc[root] = "asking"
    BY <2>1, <2>2, <2>3 DEF Stranded, Collectives
  <2>4. CASE pc[root] = "left"
    BY <2>1, <2>2, <2>4 DEF AllLeft, AllAt, Collectives
  <2>5. CASE pc[root] \in Collectives
    BY <2>1, <2>2, <2>5 DEF AllAt, Collectives
  <2>6. QED
    BY <2>3, <2>4, <2>5
<1>5. QED
  BY <1>1, <1>3, <1>4, PTL

-----------------------------------------------------------------------------
(***************************************************************************)
(* The files of the reload mode, by which the user and the root of an      *)
(* entry point talk to each other while the ranks do what is above.        *)
(***************************************************************************)
\* The user and the root begin in turn.
LEMMA ReloadStarts == ASSUME ReloadInit PROVE InTurn
BY DEF ReloadInit, InTurn, Domains, TakeTurns, Temporary,
   Answered, Own, NoResult, Results

\* Every step keeps the turns, if the user waits until RELOAD is gone.
LEMMA ReloadSteps ==
  ASSUME Patient = TRUE, InTurn, [ReloadNext]_reloadVars
  PROVE  InTurn'
<1> USE DEF InTurn, Domains, TakeTurns, Temporary,
            Answered, Own, NoResult, Results
<1>1. CASE DetectReload
  BY <1>1 DEF DetectReload
<1>2. CASE DetectExit
  BY <1>2 DEF DetectExit
<1>3. CASE RunScript
  BY <1>3 DEF RunScript
<1>4. CASE RemoveOldResults
  <2>1. result' = [name \in {"SUCCESS", "FAILED"} |-> 0]
    BY <1>4 DEF RemoveOldResults, Removed
  <2>2. QED
    BY <1>4, <2>1 DEF RemoveOldResults
<1>5. CASE Publish
  <2>1. PICK name \in Results :
          result' = [result EXCEPT ![name] = script]
    BY <1>5 DEF Publish
  <2>2. \A other \in Results : result'[other] = IF other = name THEN script ELSE 0
    BY <1>5, <2>1 DEF Publish
  <2>3. DOMAIN result' = {"SUCCESS", "FAILED"}
    BY <2>1
  <2>4. QED
    BY <1>5, <2>2, <2>3 DEF Publish
<1>6. CASE RemoveReload
  BY <1>6 DEF RemoveReload, AfterConsume
<1>7. CASE Request
  BY <1>7 DEF Request
<1>8. CASE ReadResult
  BY <1>8 DEF ReadResult
<1>9. CASE RequestExit
  BY <1>9 DEF RequestExit
<1>10. CASE UNCHANGED reloadVars
  BY <1>10 DEF reloadVars
<1>11. QED
  BY <1>1, <1>2, <1>3, <1>4, <1>5, <1>6, <1>7, <1>8, <1>9, <1>10 DEF ReloadNext,
     Root, User, Sleep, ReloadFinished

\* What a user who waits until RELOAD is gone sees is the output of the script
\* saved last, and at most one of RELOAD_SUCCESS and RELOAD_FAILED is there:
\* for any number of requests, whether the scripts succeed or fail.
THEOREM PatientUsersSeeTheirResult ==
  ASSUME Patient = TRUE PROVE ReloadSpec => []SeesOwnResult
<1>1. ReloadInit => InTurn
  BY ReloadStarts
<1>2. InTurn /\ [ReloadNext]_reloadVars => InTurn'
  BY ReloadSteps
<1>3. InTurn => SeesOwnResult
  BY DEF InTurn, Answered, Temporary, SeesOwnResult
<1>4. QED
  BY <1>1, <1>2, <1>3, PTL DEF ReloadSpec

-----------------------------------------------------------------------------
(* One session for all ranks *)

LEMMA InSessionInit == Init => InSession
BY RanksAssumption DEF Init, InSession, EnterTogether, RunTogether, SameJobs, Served,
   RootLeaves, Outside, InJob, InCommand, InCode, Given, Serving, Exiting, NoJob

\* Nobody enters the session before everybody does.
LEMMA EnterTogetherStep ==
  ASSUME Typed, EnterTogether, [Next]_vars PROVE EnterTogether'
<1> USE DEF EnterTogether, Outside
<1> /\ pc \in [Ranks -> Collectives \cup LocalSteps]
    /\ job \in [Ranks -> [kind : Kinds, what : Whats]]
  BY DEF Typed, TypeOK
<1>1. CASE ShowBoard
  BY <1>1 DEF ShowBoard, AllAt
<1>2. CASE \E s \in Ranks : TestFlag(s)
  BY <1>2 DEF TestFlag
<1>3. CASE Enter
  BY <1>3 DEF Enter, NextRound
<1>4. CASE UNCHANGED <<pc, job>>
  BY <1>4
\* In all other steps there is a rank that is neither outside nor leaves now.
<1>5. ASSUME NEW s \in Ranks, pc[s] \notin Outside \cup {"left"},
             \A r \in Ranks : pc'[r] \in Outside => pc'[r] = pc[r]
      PROVE  EnterTogether'
  BY <1>5
<1>6. ASSUME NEW s \in Ranks, Launch(s) \/ Connect(s) \/ Execute(s) \/ RemoveFlag(s) \/ StopKernel(s)
      PROVE  EnterTogether'
  <2>1. pc[s] \in {"launch", "connect", "execute", "remove", "stop"}
    BY <1>6 DEF Launch, Connect, Execute, RemoveFlag, StopKernel
  <2>2. \A r \in Ranks : pc'[r] \in Outside => pc'[r] = pc[r]
    BY <1>6 DEF Launch, Connect, Execute, RemoveFlag, StopKernel
  <2>3. QED
    BY <1>5, <2>1, <2>2
<1>7. ASSUME NEW s \in Ranks, UserStep(s) PROVE EnterTogether'
  <2>1. /\ pc[s] = "choose"
        /\ \E place \in {"choose", "indicator", "asking"} : pc' = [pc EXCEPT ![s] = place]
    BY <1>7 DEF UserStep, ChooseJob, Refuse, TypePart, AnswerAlone, InputEnds
  <2>2. QED
    BY <1>5, <2>1
<1>8. ASSUME NEW s \in Ranks, Magic(s) PROVE EnterTogether'
  <2>1. pc[s] = "magic" /\ \A r \in Ranks : pc'[r] \in Outside => pc'[r] = pc[r]
    BY <1>8 DEF Magic, NextRound
  <2>2. QED
    BY <1>5, <2>1
<1>9. CASE SendIndicator \/ SendCommand \/ SendLoad \/ SendCell \/ EndRound \/ Shutdown
  <2>1. PICK place \in {"indicator", "command", "load", "cell", "end", "final"} : AllAt(place)
    BY <1>9 DEF SendIndicator, SendCommand, SendLoad, SendCell, EndRound, Shutdown
  <2>2. \A r \in Ranks : pc'[r] \notin Outside
    BY <1>9 DEF SendIndicator, SendCommand, SendLoad, SendCell, EndRound, Shutdown,
       Start, NextRound
  <2>3. QED
    BY <2>2
<1>10. CASE SendCode \/ Vote
  <2>1. \A r \in Ranks : pc'[r] \in {"code", "execute", AfterCode(r)}
    BY <1>10 DEF SendCode, Vote, AfterPart
  <2>2. \A r \in Ranks : pc'[r] \notin Outside
    BY <2>1 DEF AfterCode, NextRound
  <2>3. QED
    BY <2>2
<1>11. QED
  BY <1>1, <1>2, <1>3, <1>4, <1>6, <1>7, <1>8, <1>9, <1>10
  DEF Next, LocalStep, Collective, Finished, vars, CreateFlag, SupplyConnection

\* The ranks run a piece of code at the same time.
LEMMA RunTogetherStep ==
  ASSUME Typed, RunTogether, [Next]_vars PROVE RunTogether'
<1> USE DEF RunTogether
<1> pc \in [Ranks -> Collectives \cup LocalSteps]
  BY DEF Typed, TypeOK
<1>1. CASE \E s \in Ranks : Execute(s)
  BY <1>1 DEF Execute
<1>2. CASE SendCode
  <2>1. \/ \A r \in Ranks : pc'[r] = "execute"
        \/ \A r \in Ranks : pc'[r] \in {"code", AfterCode(r)}
    BY <1>2 DEF SendCode, AfterPart
  <2>2. QED
    BY <2>1 DEF AfterCode, NextRound
<1>3. CASE Vote
  <2>1. \A r \in Ranks : pc'[r] \in {"code", AfterCode(r)}
    BY <1>3 DEF Vote, AfterPart
  <2>2. QED
    BY <2>1 DEF AfterCode, NextRound
\* In the other steps nobody begins or ends.
<1>4. ASSUME \A r \in Ranks : \/ pc'[r] = pc[r]
                              \/ {pc[r], pc'[r]} \cap {"execute", "vote"} = {}
      PROVE  RunTogether'
  <2>1. \A r \in Ranks : pc'[r] \in {"execute", "vote"} <=> pc[r] \in {"execute", "vote"}
    BY <1>4
  <2>2. QED
    BY <2>1
<1>5. CASE \E s \in Ranks : \/ TestFlag(s) \/ Launch(s) \/ Connect(s) \/ Magic(s)
                            \/ RemoveFlag(s) \/ StopKernel(s)
  BY <1>4, <1>5 DEF TestFlag, Launch, Connect, Magic, NextRound, RemoveFlag, StopKernel
<1>6. CASE \E s \in Ranks : UserStep(s)
  BY <1>4, <1>6 DEF UserStep, ChooseJob, Refuse, TypePart, AnswerAlone, InputEnds, session
<1>7. CASE \/ ShowBoard \/ Enter \/ SendIndicator \/ SendCommand \/ SendLoad \/ SendCell
           \/ EndRound \/ Shutdown
  BY <1>7 DEF ShowBoard, Enter, SendIndicator, SendCommand, SendLoad, SendCell, EndRound,
     Shutdown, Start, NextRound
<1>8. CASE UNCHANGED pc
  BY <1>4, <1>8
<1>9. QED
  BY <1>1, <1>2, <1>3, <1>5, <1>6, <1>7, <1>8
  DEF Next, LocalStep, Collective, Finished, vars, CreateFlag, SupplyConnection

\* Only code, and a file that is loaded, has anything to run.
LEMMA JobHasCode ==
  ASSUME NEW j \in Jobs(mode) \cup Exits(mode)
  PROVE  \/ j.kind = "code"
         \/ j.kind = "command" /\ j.what = "load"
         \/ j.content = Unreadable
<1>1. CASE j \in Leave \cup Command({"exit"}, {Unreadable})
  BY <1>1 DEF Leave, Command
<1>2. CASE j \in Command({"exit", "other"}, {Unreadable})
  BY <1>2 DEF Command
<1>3. CASE j \in Command({"load"}, Content(File) \cup {Unreadable})
  BY <1>3 DEF Command
<1>4. CASE j \in Code(Content(Source(mode)))
  BY <1>4 DEF Code
<1>5. QED
  BY <1>1, <1>2, <1>3, <1>4 DEF Jobs, Exits

\* The code is what the root was asked to run.
LEMMA ServedStep ==
  ASSUME Typed, Places, Served, [Next]_vars PROVE Served'
<1> USE RanksAssumption DEF Served, Given, Serving
<1> /\ pc \in [Ranks -> Collectives \cup LocalSteps]
    /\ job \in [Ranks -> [kind : Kinds, what : Whats]]
    /\ mode \in {"prompt", "reload", "kernel"}
  BY ModesAssumption DEF Typed, TypeOK
<1>1. CASE SendCode
  <2>1. /\ pc[root] = "code" /\ UNCHANGED <<job, content>>
        /\ code'[root] = content.parts[turn[root]]
    BY <1>1 DEF SendCode, AllAt
  <2>2. Given' => turn'[root] = turn[root]
    BY <1>1 DEF SendCode, AfterPart, AfterCode, NextRound
  <2>3. pc'[root] \in Serving => pc[root] \in Serving
    BY <2>1
  <2>4. QED
    BY <2>1, <2>2, <2>3
<1>2. ASSUME NEW s \in Ranks, UserStep(s) PROVE Served'
  <2>1. CASE ChooseJob(s)
    <3>1. PICK j \in Jobs(mode) \cup Exits(mode) :
            job' = [job EXCEPT ![s] = [kind |-> j.kind, what |-> j.what]] /\ content' = j.content
      BY <2>1 DEF ChooseJob
    <3>2. \/ j.kind = "code"
          \/ j.kind = "command" /\ j.what = "load"
          \/ j.content = Unreadable
      BY <3>1, JobHasCode
    <3>3. s = root /\ pc'[root] = "indicator" /\ job'[root].kind = j.kind /\ job'[root].what = j.what
      BY <1>2, <2>1, <3>1 DEF UserStep, ChooseJob
    <3>4. QED
      BY <3>1, <3>2, <3>3
  <2>2. CASE ~ChooseJob(s)
    BY <1>2, <2>2 DEF UserStep, Refuse, TypePart, AnswerAlone, InputEnds, running
  <2>3. QED
    BY <2>1, <2>2
\* In the other steps the root goes on with the same request, or has done with it.
<1>3. ASSUME UNCHANGED <<content, code, turn>>, job'[root] = job[root],
             Given' => Given, pc'[root] \in Serving => pc[root] \in Serving
      PROVE  Served'
  BY <1>3
<1>4. CASE \E s \in Ranks : \/ TestFlag(s) \/ Launch(s) \/ Connect(s) \/ Execute(s)
                            \/ RemoveFlag(s) \/ StopKernel(s)
  BY <1>3, <1>4 DEF TestFlag, Launch, Connect, Execute, RemoveFlag, StopKernel, running
<1>5. CASE (\E s \in Ranks : Magic(s)) \/ EndRound \/ Vote \/ Shutdown \/ ShowBoard \/ Enter
  <2>1. CASE Vote
    <3>1. pc[root] = "vote" /\ pc'[root] \in {"code", AfterCode(root)}
          /\ UNCHANGED <<content, job>>
      BY <2>1 DEF Vote, AllAt, AfterPart
    <3>2. ~Given'
      BY <3>1 DEF AfterCode, NextRound
    <3>3. QED
      BY <3>1, <3>2
  <2>2. CASE ~Vote
    <3>1. pc'[root] \notin Serving \/ pc' [root] = pc[root]
      BY <1>5, <2>2 DEF Magic, EndRound, Shutdown, ShowBoard, Enter, NextRound
    <3>2. UNCHANGED <<content, code, turn, job>>
      BY <1>5, <2>2 DEF Magic, EndRound, Shutdown, ShowBoard, Enter, running
    <3>3. QED
      BY <1>3, <3>1, <3>2
  <2>3. QED
    BY <2>1, <2>2
<1>6. CASE SendIndicator
  <2>1. /\ pc[root] = "indicator" /\ ~Given' /\ UNCHANGED content
        /\ job'[root].kind = job[root].kind /\ job'[root].what = job[root].what
    BY <1>6 DEF SendIndicator, AllAt, Start, KindAt
  <2>2. QED
    BY <2>1
<1>7. CASE SendCommand \/ SendLoad \/ SendCell
  <2>1. /\ pc[root] \in Serving /\ ~Given' /\ UNCHANGED content /\ job'[root] = job[root]
    BY <1>7 DEF SendCommand, SendLoad, SendCell, AllAt, NextRound
  <2>2. QED
    BY <2>1
<1>8. CASE UNCHANGED <<pc, job, content, running>>
  BY <1>3, <1>8 DEF running
<1>9. QED
  BY <1>1, <1>2, <1>4, <1>5, <1>6, <1>7, <1>8
  DEF Next, LocalStep, Collective, Finished, vars, running, CreateFlag, SupplyConnection

\* The root leaves if and only if it has been told to.
LEMMA RootLeavesStep ==
  ASSUME Typed, Places, RootLeaves, [Next]_vars PROVE RootLeaves'
<1> USE RanksAssumption DEF RootLeaves, Exiting, NoJob
<1> /\ pc \in [Ranks -> Collectives \cup LocalSteps]
    /\ job \in [Ranks -> [kind : Kinds, what : Whats]]
    /\ mode \in {"prompt", "reload", "kernel"}
  BY ModesAssumption DEF Typed, TypeOK
<1> PlaceOf(root)
  BY DEF Places
\* Where the root cannot be if it has been told to leave it does not leave.
<1>1. ASSUME UNCHANGED <<mode, job>>, ~Exiting, pc'[root] \notin {"remove", "stop", "final", "left"}
      PROVE  RootLeaves'
  BY <1>1
<1>2. ASSUME UNCHANGED mode, job'[root] = job[root], pc'[root] = pc[root]
      PROVE  RootLeaves'
  BY <1>2
<1>3. CASE ShowBoard \/ Enter
  <2>1. pc[root] \in {"board", "enter"} /\ UNCHANGED <<mode, job>>
    BY <1>3 DEF ShowBoard, Enter, AllAt, session
  <2>2. pc'[root] \notin {"remove", "stop", "final", "left"}
    BY <1>3 DEF ShowBoard, Enter, NextRound
  <2>3. QED
    BY <1>1, <2>1, <2>2
<1>4. ASSUME NEW s \in Ranks, TestFlag(s) PROVE RootLeaves'
  <2>1. UNCHANGED <<mode, job>> /\ (s # root => pc'[root] = pc[root])
    BY <1>4 DEF TestFlag
  <2>2. s = root => job[root] = NoJob /\ pc'[root] \in {"enter", "left"}
    BY <1>4 DEF TestFlag, PlaceOf
  <2>3. QED
    BY <1>2, <2>1, <2>2
<1>5. ASSUME NEW s \in Ranks, Launch(s) \/ Connect(s) \/ Execute(s) PROVE RootLeaves'
  <2>1. UNCHANGED <<mode, job>> /\ (s # root => pc'[root] = pc[root])
    BY <1>5 DEF Launch, Connect, Execute, session
  <2>2. s = root => /\ pc[root] \in {"launch", "connect", "execute"}
                    /\ pc'[root] \in {"connect", "choose", "vote"}
    BY <1>5 DEF Launch, Connect, Execute
  <2>3. QED
    BY <1>1, <1>2, <2>1, <2>2
<1>6. ASSUME NEW s \in Ranks, UserStep(s) PROVE RootLeaves'
  <2>1. CASE ChooseJob(s)
    <3>1. s = root /\ pc'[root] = "indicator"
      BY <1>6, <2>1 DEF UserStep, ChooseJob
    <3>2. QED
      BY <3>1
  <2>2. CASE ~ChooseJob(s)
    <3>1. /\ pc[root] = "choose" /\ pc'[root] \in {"choose", "asking"}
          /\ UNCHANGED <<mode, job>>
      BY <1>6, <2>2 DEF UserStep, Refuse, TypePart, AnswerAlone, InputEnds, session
    <3>2. QED
      BY <1>1, <3>1
  <2>3. QED
    BY <2>1, <2>2
<1>7. CASE SendIndicator
  <2>1. /\ pc[root] = "indicator" /\ UNCHANGED mode
        /\ job'[root] = [kind |-> job[root].kind, what |-> job[root].what]
        /\ pc'[root] = Start(root, job[root].kind)
    BY <1>7 DEF SendIndicator, AllAt, KindAt, session
  <2>2. job[root].kind \in {"exit", "command", "code"}
    BY <2>1 DEF Typed, JobAtRoot
  <2>3. job'[root] = job[root]
    BY <2>1
  <2>4. QED
    BY <2>1, <2>2, <2>3 DEF Start
<1>8. CASE SendCommand
  <2>1. /\ pc[root] = "command" /\ UNCHANGED mode /\ job'[root] = job[root]
        /\ pc'[root] = IF job[root].what = "load" THEN "load" ELSE "magic"
    BY <1>8 DEF SendCommand, AllAt, session
  <2>2. QED
    BY <2>1 DEF PlaceOf
<1>9. CASE SendLoad \/ SendCell \/ SendCode \/ Vote
  <2>1. pc[root] \in {"load", "cell", "code", "vote"} /\ UNCHANGED <<mode, job>>
    BY <1>9 DEF SendLoad, SendCell, SendCode, Vote, AllAt, session
  <2>2. pc'[root] \in {"code", "magic", NextRound(root), "execute", AfterCode(root)}
    BY <1>9 DEF SendLoad, SendCell, SendCode, Vote, AfterPart
  <2>3. QED
    BY <1>1, <2>1, <2>2 DEF AfterCode, NextRound
<1>10. ASSUME NEW s \in Ranks, Magic(s) PROVE RootLeaves'
  <2>1. UNCHANGED <<mode, job>> /\ (s # root => pc'[root] = pc[root])
    BY <1>10 DEF Magic, session
  <2>2. s = root => /\ job[root].kind = "command"
                    /\ pc'[root] = IF mode = "prompt" THEN "end" ELSE "choose"
    BY <1>10 DEF Magic, NextRound, PlaceOf
  <2>3. QED
    BY <1>2, <2>1, <2>2
<1>11. CASE EndRound
  <2>1. /\ pc[root] = "end" /\ UNCHANGED <<mode, job>>
        /\ pc'[root] = IF done[root] THEN "left" ELSE "choose"
    BY <1>11 DEF EndRound, AllAt, NextRound, session
  <2>2. mode = "prompt" /\ job[root].kind # "exit"
    BY <2>1 DEF PlaceOf, Typed, JobAtRoot, InJob, InCommand
  <2>3. done[root] <=> job[root].kind = "command" /\ job[root].what = "exit"
    BY <2>1, <2>2 DEF PlaceOf, Leaves
  <2>4. done[root] <=> Exiting
    BY <2>2, <2>3
  <2>5. QED
    BY <2>1, <2>4
<1>12. ASSUME NEW s \in Ranks, RemoveFlag(s) \/ StopKernel(s) PROVE RootLeaves'
  BY <1>12 DEF RemoveFlag, StopKernel
<1>13. CASE Shutdown
  BY <1>13 DEF Shutdown, AllAt, session
<1>14. CASE UNCHANGED <<mode, pc, job>>
  BY <1>2, <1>14
<1>15. QED
  BY <1>3, <1>4, <1>5, <1>6, <1>7, <1>8, <1>9, <1>10, <1>11, <1>12, <1>13, <1>14
  DEF Next, LocalStep, Collective, Finished, vars, CreateFlag, SupplyConnection

LEMMA InSessionStep == Typed /\ Places /\ InSession /\ [Next]_vars => InSession'
BY EnterTogetherStep, RunTogetherStep, SameJobsStep, ServedStep, RootLeavesStep DEF InSession

\* The parts of a request are pieces of code, as many as there are turns.
LEMMA PiecesOfFile ==
  ASSUME NEW parts \in File
  PROVE  parts \in Seq(Parts \cup {NoCode}) /\ parts # <<>> /\ Len(parts) = 1
<1>1. PICK p \in Parts \cup {NoCode} : parts = <<p>>
  BY DEF File, Line
<1>2. QED
  BY <1>1

LEMMA PiecesOfCell ==
  ASSUME NEW parts \in Cell
  PROVE  /\ parts \in Seq(Parts \cup {NoCode})
         /\ parts # <<>> => Len(parts) = 2
<1>1. CASE parts = <<>>
  BY <1>1
<1>2. ASSUME NEW p \in Parts \cup {NoCode}, NEW q \in Parts, parts = <<p, q>>
      PROVE  parts \in Seq(Parts \cup {NoCode}) /\ Len(parts) = 2
  BY <1>2
<1>3. QED
  BY <1>1, <1>2 DEF Cell

LEMMA ContentHasPieces ==
  ASSUME NEW c \in Content(File \cup Cell) \cup {Unreadable}
  PROVE  c.parts \in Seq(Parts \cup {NoCode})
<1>1. CASE c = Unreadable
  BY <1>1 DEF Unreadable
<1>2. CASE c \in Content(File \cup Cell)
  <2>1. c.parts \in File \cup Cell
    BY <1>2 DEF Content
  <2>2. QED
    BY <2>1, PiecesOfFile, PiecesOfCell
<1>3. QED
  BY <1>1, <1>2

LEMMA RequestHasPieces ==
  ASSUME Typed
  PROVE  /\ content.parts \in Seq(Parts \cup {NoCode})
         /\ pc[root] \in InCode =>
              content.parts # <<>> /\ Len(content.parts) = LastTurn(root)
<1>1. mode \in {"prompt", "reload", "kernel"}
  BY ModesAssumption DEF Typed, TypeOK
<1>2. content.parts \in Seq(Parts \cup {NoCode})
  BY ContentHasPieces DEF Typed, TypeOK
<1>3. ASSUME pc[root] \in InCode, job[root].kind = "command"
      PROVE  content.parts # <<>> /\ Len(content.parts) = LastTurn(root)
  <2>1. content \in Content(File) \cup {Unreadable} /\ content.readable
    BY <1>3 DEF Typed, JobAtRoot, InJob, InCommand
  <2>2. content # Unreadable
    BY <2>1 DEF Unreadable
  <2>3. content.parts \in File
    BY <2>1, <2>2 DEF Content
  <2>4. QED
    BY <1>3, <2>3, PiecesOfFile DEF LastTurn
<1>4. ASSUME pc[root] \in InCode, job[root].kind = "code"
      PROVE  content.parts # <<>> /\ Len(content.parts) = LastTurn(root)
  <2>1. content.parts # <<>> /\ content \in Content(Source(mode))
    BY <1>4 DEF Typed, JobAtRoot, InJob, InCommand
  <2>2. content.parts \in Source(mode)
    BY <2>1 DEF Content
  <2>3. CASE mode = "kernel"
    BY <1>4, <2>1, <2>2, <2>3, PiecesOfCell DEF Source, LastTurn
  <2>4. CASE mode # "kernel"
    <3>1. content.parts \in File
      BY <1>1, <2>2, <2>4 DEF Source, File
    <3>2. QED
      BY <2>4, <3>1, PiecesOfFile DEF LastTurn
  <2>5. QED
    BY <2>3, <2>4
<1>5. pc[root] \in InCode => job[root].kind \in {"command", "code"}
  BY DEF Typed, JobAtRoot
<1>6. QED
  BY <1>2, <1>3, <1>4, <1>5

-----------------------------------------------------------------------------
(***************************************************************************)
(* The refinement of SharedSession.  First the steps that the user does    *)
(* not see, then the ranks that leave.                                     *)
(***************************************************************************)
LEMMA SessionInit == Init => Session!Init
<1> SUFFICES ASSUME Init PROVE Session!Init
  OBVIOUS
<1>1. job[root] = NoJob /\ pc[root] \in {"board", "test"}
  BY RanksAssumption DEF Init
<1>2. Phase = "before" /\ Asked = <<>> /\ Current = 1 /\ Given = FALSE
  BY <1>1 DEF Phase, Exiting, NoJob, Asked, Serving, Current, Given
<1>3. RanksAt("execute") = {} /\ RanksAt("left") = {}
  BY DEF Init, RanksAt
<1>4. QED
  BY <1>2, <1>3 DEF Init, Session!Init

LEMMA SessionStutters ==
  ASSUME Phase' = Phase, Asked' = Asked, Current' = Current, Given' = Given,
         UNCHANGED <<ran, verdict, known>>,
         \A r \in Ranks : /\ pc'[r] = "execute" <=> pc[r] = "execute"
                          /\ pc'[r] = "left" <=> pc[r] = "left"
  PROVE  [Session!Next]_(Session!abstractVars)
<1>1. RanksAt("execute")' = RanksAt("execute") /\ RanksAt("left")' = RanksAt("left")
  BY DEF RanksAt
<1>2. QED
  BY <1>1 DEF Session!abstractVars

LEMMA SessionLeave ==
  ASSUME NEW S \in SUBSET Ranks, Phase = "over", Phase' = Phase, Asked' = Asked,
         Current' = Current, Given' = Given, UNCHANGED <<ran, verdict, known>>,
         \A r \in Ranks : /\ pc'[r] = "execute" <=> pc[r] = "execute"
                          /\ pc'[r] = "left" <=> pc[r] = "left" \/ r \in S,
         \A r \in S : pc[r] # "left"
  PROVE  [Session!Next]_(Session!abstractVars)
<1>1. RanksAt("execute")' = RanksAt("execute")
  BY DEF RanksAt
<1>2. RanksAt("left")' = RanksAt("left") \cup S /\ S \cap RanksAt("left") = {}
  BY DEF RanksAt
<1>3. CASE S = {}
  BY <1>3, SessionStutters
<1>4. CASE S # {}
  <2>1. Session!Leave(S)
    BY <1>1, <1>2, <1>4 DEF Session!Leave, Session!request
  <2>2. QED
    BY <2>1 DEF Session!Next
<1>5. QED
  BY <1>3, <1>4

\* The steps of the root and the workers before the session is open.
LEMMA OpeningStep ==
  ASSUME Typed, Places, InSession,
         ShowBoard \/ Enter \/ (\E s \in Ranks : TestFlag(s))
  PROVE  [Session!Next]_(Session!abstractVars)
<1> USE RanksAssumption
<1> /\ pc \in [Ranks -> Collectives \cup LocalSteps]
    /\ job \in [Ranks -> [kind : Kinds, what : Whats]]
  BY DEF Typed, TypeOK
<1>1. UNCHANGED <<mode, job, content, turn, ran, verdict, known>>
  BY DEF ShowBoard, Enter, TestFlag, session, running
<1>2. /\ job[root] = NoJob
      /\ pc[root] \in Outside \cup {"left"}
      /\ pc'[root] \in Outside \cup {"left", "launch", "choose"}
  BY DEF ShowBoard, Enter, TestFlag, AllAt, NextRound, InSession, EnterTogether, Outside
<1>3. ~Exiting /\ Exiting' = Exiting
  BY <1>1, <1>2 DEF Exiting, NoJob
<1>4. /\ Phase = "before" /\ (pc'[root] \in Outside \cup {"left"} => Phase' = Phase)
      /\ Asked' = Asked /\ Current' = Current /\ Given' = Given
  BY <1>1, <1>2, <1>3 DEF Phase, Outside, Asked, Serving, Current, Given
<1>5. CASE ShowBoard
  <2>1. \A r \in Ranks : pc[r] = "board" /\ pc'[r] = "test"
    BY <1>5 DEF ShowBoard, AllAt
  <2>2. QED
    BY <1>1, <1>4, <2>1, SessionStutters DEF Outside
<1>6. CASE Enter
  <2>1. \A r \in Ranks : pc[r] = "enter" /\ pc'[r] \in {"launch", "choose", "indicator"}
    BY <1>6 DEF Enter, AllAt, NextRound
  <2>2. /\ RanksAt("left") = {} /\ RanksAt("left")' = {}
        /\ RanksAt("execute") = {} /\ RanksAt("execute")' = {}
    BY <2>1 DEF RanksAt
  <2>3. pc'[root] \notin Outside \cup {"left"}
    BY <2>1 DEF Outside
  <2>4. Phase' = "open"
    BY <1>3, <2>3 DEF Phase, Outside
  <2>5. Session!Open
    BY <1>1, <1>4, <2>2, <2>4 DEF Session!Open, Session!request
  <2>6. QED
    BY <2>5 DEF Session!Next
<1>7. ASSUME NEW s \in Ranks, TestFlag(s) PROVE [Session!Next]_(Session!abstractVars)
  <2>1. /\ pc[s] = "test" /\ pc'[s] \in {"enter", "left"}
        /\ \A r \in Ranks \ {s} : pc'[r] = pc[r]
    BY <1>7 DEF TestFlag
  <2>2. Phase' = Phase
    BY <1>2, <1>4, <2>1 DEF Outside
  <2>3. CASE pc'[s] = "enter"
    BY <1>1, <1>4, <2>1, <2>2, <2>3, SessionStutters
  <2>4. CASE pc'[s] = "left"
    <3>1. RanksAt("execute")' = RanksAt("execute")
      BY <2>1, <2>4 DEF RanksAt
    <3>2. RanksAt("left")' = RanksAt("left") \cup {s} /\ s \notin RanksAt("left")
      BY <2>1, <2>4 DEF RanksAt
    <3>3. Session!Pass(s)
      BY <1>1, <1>4, <2>2, <3>1, <3>2 DEF Session!Pass, Session!request
    <3>4. QED
      BY <3>3 DEF Session!Next
  <2>5. QED
    BY <2>1, <2>3, <2>4
<1>8. QED
  BY <1>5, <1>6, <1>7

\* The user gives the root a job: code to run, or the order to leave.
LEMMA ChoosingStep ==
  ASSUME Typed, InSession, UserStep(root)
  PROVE  [Session!Next]_(Session!abstractVars)
<1> USE RanksAssumption
<1> /\ pc \in [Ranks -> Collectives \cup LocalSteps]
    /\ job \in [Ranks -> [kind : Kinds, what : Whats]]
  BY DEF Typed, TypeOK
<1>1. pc[root] = "choose" /\ UNCHANGED <<mode, turn, ran, verdict, known>>
  BY DEF UserStep, ChooseJob, Refuse, TypePart, AnswerAlone, InputEnds, session, running
<1>2. ~Exiting
  BY <1>1 DEF InSession, RootLeaves
<1>3. Phase = "open" /\ Asked = <<>> /\ Current = 1 /\ Given = FALSE
  BY <1>1, <1>2 DEF Phase, Asked, Serving, Current, Given
<1>4. CASE ~ChooseJob(root)
  <2>1. UNCHANGED job /\ pc' \in {pc, [pc EXCEPT ![root] = "asking"]}
    BY <1>4 DEF UserStep, Refuse, TypePart, AnswerAlone, InputEnds, session
  <2>2. pc'[root] \in {"choose", "asking"} /\ \A r \in Ranks \ {root} : pc'[r] = pc[r]
    BY <1>1, <2>1
  <2>3. Exiting' = Exiting
    BY <1>1, <2>1 DEF Exiting
  <2>4. Phase' = "open" /\ Asked' = <<>> /\ Current' = 1 /\ Given' = FALSE
    BY <1>2, <2>2, <2>3 DEF Phase, Asked, Serving, Current, Given
  <2>5. QED
    BY <1>1, <1>3, <2>2, <2>4, SessionStutters
<1>5. CASE ChooseJob(root)
  <2>1. PICK j \in Jobs(mode) \cup Exits(mode) :
          /\ job' = [job EXCEPT ![root] = [kind |-> j.kind, what |-> j.what]]
          /\ content' = j.content
    BY <1>5 DEF ChooseJob
  <2>2. pc' = [pc EXCEPT ![root] = "indicator"]
    BY <1>5 DEF ChooseJob
  <2>3. pc'[root] = "indicator" /\ \A r \in Ranks \ {root} : pc'[r] = pc[r]
    BY <2>2
  <2>4. Asked' = j.content.parts /\ Current' = 1 /\ Given' = FALSE
    BY <2>1, <2>3 DEF Asked, Serving, Current, Given
  <2>5. RanksAt("execute")' = RanksAt("execute") /\ RanksAt("left")' = RanksAt("left")
    BY <1>1, <2>3 DEF RanksAt
  <2>6. CASE Exiting'
    <3>1. j.kind = "exit" \/ (j.kind = "command" /\ j.what = "exit")
      BY <2>1, <2>6 DEF Exiting
    <3>2. Asked' = <<>>
      BY <2>4, <3>1, JobHasCode DEF Unreadable
    <3>3. Phase' = "over"
      BY <2>6 DEF Phase
    <3>4. Session!Close
      BY <1>1, <1>3, <2>4, <2>5, <3>2, <3>3 DEF Session!Close, Session!request
    <3>5. QED
      BY <3>4 DEF Session!Next
  <2>7. CASE ~Exiting'
    <3>1. Phase' = "open"
      BY <2>3, <2>7 DEF Phase
    <3>2. CASE Asked' = <<>>
      BY <1>1, <1>3, <2>3, <2>4, <3>1, <3>2, SessionStutters
    <3>3. CASE Asked' # <<>>
      <4>1. j.content.parts \in Seq(Parts \cup {NoCode})
        <5>1. mode \in {"prompt", "reload", "kernel"}
          BY ModesAssumption DEF Typed, TypeOK
        <5>2. j.content \in Content(File \cup Cell) \cup {Unreadable}
          BY <5>1, JobIsTyped
        <5>3. QED
          BY <5>2, ContentHasPieces
      <4>2. Session!Ask
        BY <1>1, <1>3, <2>4, <2>5, <3>1, <3>3, <4>1 DEF Session!Ask
      <4>3. QED
        BY <4>2 DEF Session!Next
    <3>4. QED
      BY <3>2, <3>3
  <2>8. QED
    BY <2>6, <2>7
<1>6. QED
  BY <1>4, <1>5

\* How the workers hear of a job is nothing that the user sees, but the last
\* indicator of the reload mode lets the workers leave.
LEMMA SendingStep ==
  ASSUME Typed, Places, InSession, SendIndicator \/ SendCommand \/ SendLoad \/ SendCell
  PROVE  [Session!Next]_(Session!abstractVars)
<1> USE RanksAssumption
<1> /\ pc \in [Ranks -> Collectives \cup LocalSteps]
    /\ job \in [Ranks -> [kind : Kinds, what : Whats]]
    /\ mode \in {"prompt", "reload", "kernel"}
  BY ModesAssumption DEF Typed, TypeOK
<1>1. PICK place \in {"indicator", "command", "load", "cell"} : AllAt(place)
  BY DEF SendIndicator, SendCommand, SendLoad, SendCell
<1>2. /\ UNCHANGED <<mode, content, ran, verdict, known>>
      /\ job'[root] = job[root]
  BY DEF SendIndicator, SendCommand, SendLoad, SendCell, session, running, KindAt
<1>3. /\ pc[root] \in Serving
      /\ Asked = content.parts /\ Current = 1 /\ Given = FALSE
  BY <1>1 DEF AllAt, Asked, Serving, Current, Given
<1>4. Exiting' = Exiting
  BY <1>2 DEF Exiting
<1>5. \A r \in Ranks : pc[r] \notin {"execute", "left"}
  BY <1>1 DEF AllAt
<1>6. CASE SendIndicator
  <2>1. job[root].kind \in {"exit", "command", "code"}
        /\ (mode = "prompt" => job[root].kind # "exit")
    BY <1>6 DEF SendIndicator, AllAt, Typed, JobAtRoot
  <2>2. \A r \in Ranks : pc'[r] = Start(r, job[root].kind) /\ turn'[r] = 1
    BY <1>6, <2>1 DEF SendIndicator, KindAt, Dispatch, Indicator
  <2>3. CASE job[root].kind = "exit"
    <3>1. Asked = <<>>
      BY <1>3, <2>3 DEF InSession, Served, Unreadable
    <3>2. Asked' = <<>> /\ Current' = 1 /\ Given' = FALSE
      BY <2>2, <2>3 DEF Start, Asked, Serving, Current, Given
    <3>3. Phase = "over" /\ Phase' = "over"
      BY <1>4, <2>3 DEF Phase, Exiting
    <3>4. \A r \in Ranks : pc'[r] # "execute"
      BY <2>2, <2>3 DEF Start
    <3>5. PICK S \in SUBSET Ranks : S = {r \in Ranks : pc'[r] = "left"}
      OBVIOUS
    <3>6. QED
      BY <1>2, <1>3, <1>5, <3>1, <3>2, <3>3, <3>4, <3>5, SessionLeave
  <2>4. CASE job[root].kind # "exit"
    <3>1. \A r \in Ranks : pc'[r] \in {"command", "cell", "code"} /\ turn'[r] = 1
      BY <2>1, <2>2, <2>4 DEF Start
    <3>2. Asked' = Asked /\ Current' = 1 /\ Given' = FALSE
      BY <1>2, <1>3, <3>1 DEF Asked, Serving, Current, Given
    <3>3. Phase' = Phase
      BY <1>3, <1>4, <3>1 DEF Phase, Serving
    <3>4. QED
      BY <1>2, <1>3, <1>5, <3>1, <3>2, <3>3, SessionStutters
  <2>5. QED
    BY <2>3, <2>4
<1>7. CASE SendCommand \/ SendLoad \/ SendCell
  <2>1. /\ \A r \in Ranks : pc'[r] \notin {"execute", "vote", "left"}
        /\ pc'[root] \in {"load", "magic", "code", "choose"}
        /\ UNCHANGED turn
    BY <1>7 DEF SendCommand, SendLoad, SendCell, NextRound, running
  <2>2. Phase' = Phase
    BY <1>3, <1>4, <2>1 DEF Phase, Serving
  <2>3. turn[root] = 1
    BY <1>7 DEF SendCommand, SendLoad, SendCell, AllAt, Typed, JobAtRoot
  <2>4. Current' = 1 /\ Given' = FALSE
    BY <2>1, <2>3 DEF Current, Given
  <2>5. pc'[root] \in {"magic", "choose"} => content.parts = <<>>
    <3>1. CASE SendCommand
      <4>1. pc[root] = "command" /\ job[root].kind = "command"
        BY <3>1 DEF SendCommand, AllAt, Typed, JobAtRoot
      <4>2. pc'[root] = IF job[root].what = "load" THEN "load" ELSE "magic"
        BY <3>1 DEF SendCommand
      <4>3. QED
        BY <4>1, <4>2 DEF InSession, Served, Serving, Unreadable
    <3>2. CASE SendLoad
      <4>1. pc[root] = "load" /\ job[root].kind = "command" /\ job[root].what = "load"
        BY <3>2 DEF SendLoad, AllAt, Typed, JobAtRoot
      <4>2. content \in Content(File) \cup {Unreadable}
        BY <4>1 DEF Typed, JobAtRoot, InJob, InCommand
      <4>3. ~content.readable => content = Unreadable
        BY <4>2 DEF Content
      <4>4. pc'[root] \in {"magic", "choose"} => ~content.readable
        BY <3>2 DEF SendLoad
      <4>5. QED
        BY <4>3, <4>4 DEF Unreadable
    <3>3. CASE SendCell
      BY <3>3 DEF SendCell
    <3>4. QED
      BY <1>7, <3>1, <3>2, <3>3
  <2>6. Asked' = Asked
    BY <1>2, <1>3, <2>1, <2>5 DEF Asked, Serving
  <2>7. QED
    BY <1>2, <1>3, <1>5, <2>1, <2>2, <2>4, <2>6, SessionStutters
<1>8. QED
  BY <1>6, <1>7

\* After a piece of code all ranks hear of the same result, and go on with the
\* next piece of the request or have done with it.
LEMMA TellingStep ==
  ASSUME Typed, NEW told \in {"success", "failed"},
         pc[root] \in {"code", "vote"}, UNCHANGED <<mode, job, content>>,
         pc'[root] = AfterPart(root, told), turn'[root] = turn[root] + 1,
         verdict' = [r \in Ranks |-> told]
  PROVE  Session!Tell(told)
<1> /\ content.parts # <<>> /\ Len(content.parts) = LastTurn(root)
  BY RequestHasPieces DEF InCode
<1> turn[root] \in Nat
  BY RanksAssumption DEF Typed, TypeOK
<1>1. Asked = content.parts /\ Current = turn[root]
  BY DEF Asked, Serving, Current
<1>2. CASE told = "success" /\ turn[root] < LastTurn(root)
  <2>1. pc'[root] = "code"
    BY <1>2 DEF AfterPart
  <2>2. Asked' = content.parts /\ Current' = turn[root] + 1
    BY <2>1 DEF Asked, Serving, Current
  <2>3. QED
    BY <1>1, <1>2, <2>2 DEF Session!Tell
<1>3. CASE ~(told = "success" /\ turn[root] < LastTurn(root))
  <2>1. pc'[root] \in {"magic", "end", "choose"}
    BY <1>3 DEF AfterPart, AfterCode, NextRound
  <2>2. Asked' = <<>> /\ Current' = 1
    BY <2>1 DEF Asked, Serving, Current
  <2>3. QED
    BY <1>1, <1>3, <2>2 DEF Session!Tell
<1>4. QED
  BY <1>2, <1>3

\* A piece of code is given to all ranks, or skipped by all if it is empty.
LEMMA GivingStep ==
  ASSUME Typed, InSession, SendCode
  PROVE  [Session!Next]_(Session!abstractVars)
<1> USE RanksAssumption
<1>1. /\ \A r \in Ranks : pc[r] = "code"
      /\ UNCHANGED <<mode, job, content, known>>
  BY DEF SendCode, AllAt, session
<1>2. ~Exiting /\ ~Exiting'
  BY <1>1 DEF InSession, RootLeaves, Exiting
<1>3. /\ content.parts # <<>>
      /\ Asked = content.parts /\ Current = turn[root] /\ Given = FALSE
  BY <1>1, RequestHasPieces DEF InCode, Asked, Serving, Current, Given
<1>4. Phase = "open"
  BY <1>1, <1>2 DEF Phase
<1>5. RanksAt("execute") = {} /\ RanksAt("left") = {}
  BY <1>1 DEF RanksAt
<1>6. CASE content.parts[turn[root]].ends = "empty"
  <2>1. /\ \A r \in Ranks : pc'[r] = AfterPart(r, "success")
        /\ turn'[root] = turn[root] + 1
        /\ verdict' = [r \in Ranks |-> "success"]
        /\ UNCHANGED ran
    BY <1>6 DEF SendCode
  <2>2. Session!Tell("success")
    BY <1>1, <2>1, TellingStep
  <2>3. \A r \in Ranks : pc'[r] \in {"code", "magic", "end", "choose", "indicator"}
    BY <2>1 DEF AfterPart, AfterCode, NextRound
  <2>4. Phase' = "open" /\ Given' = FALSE
    BY <1>2, <2>3 DEF Phase, Given
  <2>5. RanksAt("execute")' = {} /\ RanksAt("left")' = {}
    BY <2>3 DEF RanksAt
  <2>6. Session!Skip
    BY <1>1, <1>3, <1>4, <1>5, <1>6, <2>1, <2>2, <2>4, <2>5 DEF Session!Skip
  <2>7. QED
    BY <2>6 DEF Session!Next
<1>7. CASE content.parts[turn[root]].ends # "empty"
  <2>1. /\ \A r \in Ranks : pc'[r] = "execute"
        /\ ran' = [r \in Ranks |-> "not_run"]
        /\ UNCHANGED <<turn, verdict>>
    BY <1>7 DEF SendCode
  <2>2. Phase' = "open" /\ Asked' = Asked /\ Current' = Current /\ Given' = TRUE
    BY <1>1, <1>2, <1>3, <2>1 DEF Phase, Asked, Serving, Current, Given
  <2>3. RanksAt("execute")' = Ranks /\ RanksAt("left")' = {}
    BY <2>1 DEF RanksAt
  <2>4. Session!Give
    BY <1>1, <1>3, <1>4, <1>5, <1>7, <2>1, <2>2, <2>3 DEF Session!Give
  <2>5. QED
    BY <2>4 DEF Session!Next
<1>8. QED
  BY <1>6, <1>7

\* A rank runs the piece of code that the user asked for.
LEMMA RunningStep ==
  ASSUME Typed, InSession, NEW s \in Ranks, Execute(s)
  PROVE  [Session!Next]_(Session!abstractVars)
<1> USE RanksAssumption
<1> /\ pc \in [Ranks -> Collectives \cup LocalSteps]
    /\ ran \in [Ranks -> {"not_run", "success", "failed"}]
    /\ known \in [Ranks -> SUBSET Functions]
  BY DEF Typed, TypeOK
<1>1. /\ pc[s] = "execute" /\ pc' = [pc EXCEPT ![s] = "vote"]
      /\ UNCHANGED <<mode, job, content, turn, verdict>>
  BY DEF Execute, session
<1>2. pc[root] \in {"execute", "vote"} /\ pc'[root] \in {"execute", "vote"}
  BY <1>1 DEF InSession, RunTogether
<1>3. code[s] = content.parts[turn[root]]
  BY <1>2 DEF InSession, Served, Given, Typed, Together
<1>4. /\ Asked = content.parts /\ Current = turn[root] /\ Given = TRUE
      /\ Asked' = Asked /\ Current' = Current /\ Given' = TRUE
  BY <1>1, <1>2 DEF Asked, Serving, Current, Given
<1>5. Phase' = Phase
  BY <1>1, <1>2 DEF Phase, Exiting
<1>6. /\ s \in RanksAt("execute") /\ RanksAt("execute")' = RanksAt("execute") \ {s}
      /\ RanksAt("left")' = RanksAt("left")
  BY <1>1 DEF RanksAt
<1>7. PICK ending \in Endings(code[s]) :
        /\ ran' = [ran EXCEPT ![s] = ending]
        /\ \E names \in Lists(code[s]) : known' = [known EXCEPT ![s] = @ \cup names]
  BY DEF Execute
<1>8. PICK names \in Lists(code[s]) : known' = [known EXCEPT ![s] = @ \cup names]
  BY <1>7
<1>9. ending \in {"success", "failed"}
  BY DEF Endings
<1>10. names \in SUBSET Asked[Current].defines
  BY <1>3, <1>4 DEF Lists
<1>11. Session!Run(s)
  BY <1>1, <1>4, <1>5, <1>6, <1>7, <1>8, <1>9, <1>10 DEF Session!Run
<1>12. QED
  BY <1>11 DEF Session!Next

\* All ranks hear whether it succeeded everywhere.
LEMMA VotingStep ==
  ASSUME Typed, InSession, Vote
  PROVE  [Session!Next]_(Session!abstractVars)
<1> USE RanksAssumption
<1> DEFINE told == IF \A q \in Ranks : ran[q] = "success" THEN "success" ELSE "failed"
<1>1. /\ \A r \in Ranks : pc[r] = "vote" /\ pc'[r] = AfterPart(r, told)
      /\ turn'[root] = turn[root] + 1
      /\ verdict' = [r \in Ranks |-> told]
      /\ UNCHANGED <<mode, job, content, ran, known>>
  BY DEF Vote, AllAt, Verdict, session
<1>2. told \in {"success", "failed"} /\ told = Session!Summary
  BY DEF Session!Summary
<1> HIDE DEF told
<1>3. Session!Tell(told)
  BY <1>1, <1>2, TellingStep
<1>4. ~Exiting /\ ~Exiting'
  BY <1>1 DEF InSession, RootLeaves, Exiting
<1>5. \A r \in Ranks : pc'[r] \in {"code", "magic", "end", "choose", "indicator"}
  BY <1>1 DEF AfterPart, AfterCode, NextRound
<1>6. Phase = "open" /\ Phase' = "open" /\ Given = TRUE /\ Given' = FALSE
  BY <1>1, <1>4, <1>5 DEF Phase, Given
<1>7. /\ RanksAt("execute") = {} /\ RanksAt("left") = {}
      /\ RanksAt("execute")' = {} /\ RanksAt("left")' = {}
  BY <1>1, <1>5 DEF RanksAt
<1>8. Session!Tell(Session!Summary)
  BY <1>2, <1>3
<1>9. Session!Decide
  BY <1>1, <1>6, <1>7, <1>8 DEF Session!Decide
<1>10. QED
  BY <1>9 DEF Session!Next

\* The ranks go from job to job, and leave after the last one.
LEMMA LeavingStep ==
  ASSUME Typed, Places, InSession,
         \/ EndRound
         \/ Shutdown
         \/ \E s \in Ranks : RemoveFlag(s)
  PROVE  [Session!Next]_(Session!abstractVars)
<1> USE RanksAssumption
<1> /\ pc \in [Ranks -> Collectives \cup LocalSteps]
    /\ job \in [Ranks -> [kind : Kinds, what : Whats]]
    /\ \A r \in Ranks : PlaceOf(r)
  BY DEF Typed, TypeOK, Places
<1>1. UNCHANGED <<mode, job, ran, verdict, known>> /\ Exiting' = Exiting
  BY DEF EndRound, Shutdown, RemoveFlag, session, running, Exiting
<1>2. pc[root] \in {"end", "final", "remove"} /\ pc'[root] \in {"choose", "left"}
  BY DEF EndRound, Shutdown, RemoveFlag, AllAt, NextRound, PlaceOf, RootsPlaces
<1>3. /\ Asked = <<>> /\ Current = 1 /\ Given = FALSE
      /\ Asked' = <<>> /\ Current' = 1 /\ Given' = FALSE
  BY <1>2 DEF Asked, Serving, Current, Given
<1>4. \A r \in Ranks : \/ pc'[r] = pc[r]
                       \/ pc[r] \notin {"execute", "left"} /\ pc'[r] # "execute"
  BY DEF EndRound, Shutdown, RemoveFlag, AllAt, NextRound
<1>5. PICK S \in SUBSET Ranks : S = {r \in Ranks : pc'[r] = "left" /\ pc[r] # "left"}
  OBVIOUS
<1>6. CASE Exiting
  <2>1. Phase = "over" /\ Phase' = "over"
    BY <1>1, <1>6 DEF Phase
  <2>2. QED
    BY <1>1, <1>3, <1>4, <1>5, <2>1, SessionLeave
<1>7. CASE ~Exiting
  <2>1. EndRound
    BY <1>7 DEF Shutdown, RemoveFlag, AllAt, PlaceOf, RootsPlaces, InSession, RootLeaves
  <2>2. ASSUME NEW r \in Ranks PROVE pc'[r] = NextRound(r)
    <3>1. /\ pc[r] = "end" /\ pc[root] = "end" /\ mode = "prompt"
          /\ pc'[r] = IF done[r] THEN "left" ELSE NextRound(r)
      BY <2>1 DEF EndRound, AllAt, PlaceOf
    <3>2. /\ job[r].kind = job[root].kind
          /\ job[r].kind = "command" => job[r] = job[root]
      BY <3>1 DEF InSession, SameJobs, InJob, InCommand
    <3>3. done[r] => job[root].kind = "command" /\ job[root].what = "exit"
      BY <3>1, <3>2 DEF PlaceOf, Leaves
    <3>4. ~done[r]
      BY <1>7, <3>1, <3>3 DEF Exiting
    <3>5. QED
      BY <3>1, <3>4
  <2>3. pc'[root] = "choose" /\ \A r \in Ranks : pc[r] = "end" /\ pc'[r] \notin {"execute", "left"}
    BY <2>1, <2>2 DEF NextRound, EndRound, AllAt
  <2>4. Phase' = Phase
    BY <1>1, <1>2, <1>7, <2>3 DEF Phase
  <2>5. QED
    BY <1>1, <1>3, <2>3, <2>4, SessionStutters
<1>8. QED
  BY <1>6, <1>7

\* What a rank does on its own within a command, and the root for the kernel.
LEMMA QuietStep ==
  ASSUME Typed, Places, InSession, NEW s \in Ranks,
         Launch(s) \/ Connect(s) \/ Magic(s) \/ StopKernel(s)
  PROVE  [Session!Next]_(Session!abstractVars)
<1> USE RanksAssumption
<1> /\ pc \in [Ranks -> Collectives \cup LocalSteps]
    /\ \A r \in Ranks : PlaceOf(r)
  BY DEF Typed, TypeOK, Places
<1>1. UNCHANGED <<mode, job, content, turn, ran, verdict, known>> /\ Exiting' = Exiting
  BY DEF Launch, Connect, Magic, StopKernel, session, running, Exiting
<1>2. /\ pc[s] \in {"launch", "connect", "magic", "stop"}
      /\ pc'[s] \in {"connect", "choose", "end", "indicator", "final"}
      /\ s = root => pc'[s] # "indicator"
      /\ \A r \in Ranks \ {s} : pc'[r] = pc[r]
  BY DEF Launch, Connect, Magic, NextRound, StopKernel
<1>3. Asked' = Asked /\ Current' = Current /\ Given' = Given
  BY <1>1, <1>2 DEF Asked, Serving, Current, Given
<1>4. Phase' = Phase
  BY <1>1, <1>2 DEF Phase
<1>5. QED
  BY <1>1, <1>2, <1>3, <1>4, SessionStutters

LEMMA SessionNext ==
  ASSUME Typed, Places, InSession, [Next]_vars
  PROVE  [Session!Next]_(Session!abstractVars)
<1>1. ASSUME UNCHANGED <<mode, pc, job, content, running, known>>
      PROVE  [Session!Next]_(Session!abstractVars)
  <2>1. Phase' = Phase /\ Asked' = Asked /\ Current' = Current /\ Given' = Given
    BY <1>1 DEF Phase, Exiting, Asked, Current, Given, running
  <2>2. QED
    BY <1>1, <2>1, SessionStutters DEF running
<1>2. ASSUME NEW s \in Ranks, LocalStep(s) PROVE [Session!Next]_(Session!abstractVars)
  BY <1>2, OpeningStep, ChoosingStep, RunningStep, LeavingStep, QuietStep
  DEF LocalStep, UserStep
<1>3. ASSUME Collective PROVE [Session!Next]_(Session!abstractVars)
  BY <1>3, OpeningStep, SendingStep, GivingStep, VotingStep, LeavingStep DEF Collective
<1>4. CASE CreateFlag \/ (\E state \in ConnectionStates \ {"own"} : SupplyConnection(state))
  BY <1>1, <1>4 DEF CreateFlag, SupplyConnection
<1>5. CASE UNCHANGED vars
  BY <1>1, <1>5 DEF vars, running
<1>6. QED
  BY <1>2, <1>3, <1>4, <1>5 DEF Next, Finished

(***************************************************************************)
(* The ranks of an entry point share one session, whatever the mode, the   *)
(* number of ranks and jobs, and whenever the flag file is created: it is  *)
(* open on all ranks or on none, each piece of code that the user gave is  *)
(* run once on every rank, the next only if all have succeeded, all ranks  *)
(* hear the same verdict, and no rank leaves before it is told to.         *)
(***************************************************************************)
THEOREM SessionIsShared == Spec => KeepsSession
<1>1. Spec => [](Typed /\ Places)
  BY TypedInit, TypedStep, PlacesInit, PlacesStep, PTL DEF Spec
<1>2. Spec => []InSession
  BY <1>1, InSessionInit, InSessionStep, PTL DEF Spec
<1>3. Init => Session!Init
  BY SessionInit
<1>4. Typed /\ Places /\ InSession /\ [Next]_vars => [Session!Next]_(Session!abstractVars)
  BY SessionNext
<1>5. QED
  BY <1>1, <1>2, <1>3, <1>4, PTL DEF Spec, KeepsSession, Session!Safety
=============================================================================
