------------------------- MODULE MCInlineFunctions -------------------------
(***************************************************************************)
(* Instances of InlineFunctions for TLC.                                   *)
(***************************************************************************)
EXTENDS InlineFunctions

CONSTANTS r1, r2

On(op, f, args) == [op |-> op, function |-> f, args |-> args]

\* One argument with both kinds of quotes, and two arguments with one each.
BothInOne   == <<{"double", "single"}>>
OneEach     == <<{"double"}, {"single"}>>
SingleFirst == <<{"single"}, {"double"}>>

\* Two functions that the simulation runs, the first one also with arguments
\* that cannot be wrapped; a user looks at one and sets it to run or idle.
TwoFunctions ==
  {On("run", f, <<>>) : f \in 1..2}
    \cup {On("run", 1, args) : args \in {BothInOne, OneEach}}
    \cup {On(op, 0, <<>>) : op \in EntryPoints \cup {"free"}}
    \cup {On(op, f, <<>>) : op \in Commands, f \in 1..2}
    \cup {On("run_it", 1, args) : args \in {<<{"double"}>>, SingleFirst}}

\* The same calls for one function only.
OneFunction ==
  {On("run", 1, <<>>), On("enter", 0, <<>>), On("free", 0, <<>>)}
    \cup {On(op, 1, <<>>) : op \in Commands}
=============================================================================
