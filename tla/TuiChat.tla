------------------------------- MODULE TuiChat -------------------------------
(***************************************************************************)
(* The terminal interface, the turns it streams and the shell commands     *)
(* that wait for the user.                                                 *)
(*                                                                         *)
(* Ctrl+S starts a turn: a goroutine in SendStream forwards the provider's *)
(* chunks to a channel, then runs the tool calls and the tool loop and     *)
(* adds the final text to the channel. One waitForChunk per turn reads the *)
(* channel, and its event asks for the next one. Each shell command of a   *)
(* response runs in a goroutine of its own, asks the event loop for a      *)
(* dialog and waits on a channel of one place. Events are handled one at a *)
(* time, in any order.                                                     *)
(*                                                                         *)
(* Reading a chunk and handling its event are one step. Calls of other     *)
(* tools, which ask nothing, are left out, and so are the 64 places of the *)
(* stream's channel, which the bounds never fill.                          *)
(***************************************************************************)
EXTENDS Naturals, Sequences

CONSTANTS
    Calls,          \* shell_exec calls one response can hold
    MaxToolRounds,  \* maxToolRounds
    MaxTurns,       \* bound: messages the user sends
    MaxTexts,       \* bound: chunks waiting in a channel while a response streams
    None            \* no dialog, or no answer

ASSUME BoundsAssumption ==
    /\ MaxToolRounds \in Nat \ {0}
    /\ MaxTurns \in Nat
    /\ MaxTexts \in Nat

Turns    == 1..MaxTurns
Commands == Turns \X Calls

\* Nothing that is shown or answered is the constant that stands for its absence.
ASSUME SentinelAssumption ==
    None \notin BOOLEAN \cup [cmd : Commands, ch : Commands]

VARIABLES
    streaming,  \* model.streaming: the input is locked
    dialog,     \* None, or the command (confirmCmd) and the channel (confirmCh) shown
    turn,       \* turn[t]: where the goroutine of the t-th message is
    out,        \* out[t]: the chunks in the channel SendStream returned
    readers,    \* turns with a waitForChunk
    command,    \* command[c]: where the goroutine of a shell command is
    answer,     \* answer[c]: what its result channel holds
    approved,   \* commands the user has said yes to ("[shell approved]")
    shown       \* turns whose final text has been added to the view

vars == <<streaming, dialog, turn, out, readers, command, answer, approved, shown>>
ui   == <<streaming, dialog, readers, approved, shown>>
cmds == <<command, answer>>

Idle == [at |-> "unused", calls |-> {}, left |-> 0]

Goto(t, place) == turn' = [turn EXCEPT ![t].at = place]
Emit(t, chunk) == out' = [out EXCEPT ![t] = Append(@, chunk)]

\* The goroutine sends its error and closes the channel.
EmitError(t) == Emit(t, "error") /\ Goto(t, "closed")

Asking(t) == [c \in Commands |-> IF c[1] = t /\ c[2] \in turn'[t].calls
                                   THEN "asking" ELSE command[c]]

\* persistAndAppendAssistant succeeded: the calls of the response are dispatched.
Dispatch(t, calls) ==
    /\ turn' = [turn EXCEPT ![t].at = "tools", ![t].calls = calls]
    /\ command' = Asking(t)
-----------------------------------------------------------------------------
(***************************************************************************)
(* Keys.                                                                   *)
(***************************************************************************)
\* Ctrl+S, when there is a text and a session.
Submit(t) ==
    /\ dialog = None
    /\ ~ streaming
    /\ turn[t].at = "unused"
    /\ \A s \in 1..t - 1 : turn[s].at # "unused"
    /\ streaming' = TRUE
    /\ turn' = [turn EXCEPT ![t] = [Idle EXCEPT !.at = "submitted", !.left = MaxToolRounds]]
    /\ UNCHANGED <<dialog, out, readers, cmds, approved, shown>>

\* Ctrl+N: the input is unlocked and the view emptied, whatever still streams.
NewConversation ==
    /\ dialog = None
    /\ streaming' = FALSE
    /\ UNCHANGED <<dialog, turn, out, readers, cmds, approved, shown>>

\* A mutated form: the dialog stays.
AnswerOnly(yes) ==
    /\ dialog # None
    /\ answer[dialog.ch] = None
    /\ answer' = [answer EXCEPT ![dialog.ch] = yes]
    /\ approved' = IF yes THEN approved \cup {dialog.cmd} ELSE approved
    /\ UNCHANGED <<streaming, dialog, turn, out, readers, command, shown>>

\* y or n while a dialog is shown; any other key is ignored. The send waits for room.
HandleConfirmKey(yes) ==
    /\ dialog # None
    /\ answer[dialog.ch] = None
    /\ answer' = [answer EXCEPT ![dialog.ch] = yes]
    /\ dialog' = None
    /\ approved' = IF yes THEN approved \cup {dialog.cmd} ELSE approved
    /\ UNCHANGED <<streaming, turn, out, readers, command, shown>>
-----------------------------------------------------------------------------
(***************************************************************************)
(* SendStream, its goroutine and the tool loop.                            *)
(***************************************************************************)
\* The command of startStream: SendStream fails, or its channel is read.
StartStream(t) ==
    /\ turn[t].at = "submitted"
    /\ \/ Goto(t, "failed") /\ UNCHANGED readers
       \/ Goto(t, "streaming") /\ readers' = readers \cup {t}
    /\ UNCHANGED <<streaming, dialog, out, cmds, approved, shown>>

Forward(t) ==
    /\ turn[t].at = "streaming"
    /\ Len(out[t]) < MaxTexts
    /\ Emit(t, "text")
    /\ UNCHANGED <<ui, turn, cmds>>

\* The provider's channel is closed, after Done, after an error or after neither; tool
\* calls come only before Done. The goroutine then stores the response.
EndStream(t) ==
    /\ turn[t].at = "streaming"
    /\ \/ /\ Emit(t, "done")
          /\ \E calls \in SUBSET Calls :
               turn' = [turn EXCEPT ![t].at = "stored", ![t].calls = calls]
       \/ Emit(t, "error") /\ Goto(t, "stored")
       \/ UNCHANGED out /\ Goto(t, "stored")
    /\ UNCHANGED <<ui, cmds>>

StoreResponse(t) ==
    /\ turn[t].at = "stored"
    /\ \/ EmitError(t) /\ UNCHANGED command
       \/ turn[t].calls = {} /\ Goto(t, "closed") /\ UNCHANGED <<out, command>>
       \/ turn[t].calls # {} /\ Dispatch(t, turn[t].calls) /\ UNCHANGED out
    /\ UNCHANGED <<ui, answer>>

\* Dispatch waits for all calls; their results are stored.
DispatchReturns(t) ==
    /\ turn[t].at = "tools"
    /\ \A c \in Commands : c[1] = t => command[c] = "none"
    /\ \/ EmitError(t)
       \/ Goto(t, "loop") /\ UNCHANGED out
    /\ UNCHANGED <<ui, cmds>>

\* A mutated form: one round too many.
OneRoundMore(t) == turn[t].left >= 0

RoundsLeft(t) == turn[t].left > 0

\* A round of runToolLoop: an error or too many rounds, more calls, or the final text.
ToolLoop(t) ==
    /\ turn[t].at = "loop"
    /\ \/ EmitError(t) /\ UNCHANGED command
       \/ /\ RoundsLeft(t)
          /\ Emit(t, "final") /\ Goto(t, "closed") /\ UNCHANGED command
       \/ /\ RoundsLeft(t)
          /\ \E calls \in SUBSET Calls \ {{}} :
               /\ turn' = [turn EXCEPT ![t].at = "tools", ![t].calls = calls,
                                       ![t].left = @ - 1]
               /\ command' = Asking(t)
          /\ UNCHANGED out
    /\ UNCHANGED <<ui, answer>>
-----------------------------------------------------------------------------
(***************************************************************************)
(* shell_exec and ConfirmGate.                                             *)
(***************************************************************************)
\* A mutated form: the dialog shows the new command and answers the old one.
ReplaceText(c) ==
    /\ command[c] = "asking"
    /\ command' = [command EXCEPT ![c] = "waiting"]
    /\ dialog' = [cmd |-> c, ch |-> IF dialog = None THEN c ELSE dialog.ch]
    /\ UNCHANGED <<streaming, turn, out, readers, answer, approved, shown>>

\* confirmShellMsg: the dialog that is shown, if any, is replaced.
HandleConfirmShell(c) ==
    /\ command[c] = "asking"
    /\ command' = [command EXCEPT ![c] = "waiting"]
    /\ dialog' = [cmd |-> c, ch |-> c]
    /\ UNCHANGED <<streaming, turn, out, readers, answer, approved, shown>>

\* The answer is received, by the goroutine that waits for it however long it takes.
ReceiveAnswer(c) ==
    /\ command[c] = "waiting"
    /\ answer[c] # None
    /\ command' = [command EXCEPT ![c] = IF answer[c] THEN "running" ELSE "none"]
    /\ answer' = [answer EXCEPT ![c] = None]
    /\ UNCHANGED <<ui, turn, out>>

\* The command exits or is stopped at its timeout; its approval counts for nothing else.
CommandEnds(c) ==
    /\ command[c] = "running"
    /\ command' = [command EXCEPT ![c] = "none"]
    /\ approved' = approved \ {c}
    /\ UNCHANGED <<streaming, dialog, turn, out, readers, answer, shown>>
-----------------------------------------------------------------------------
(***************************************************************************)
(* Events of the turns.                                                    *)
(***************************************************************************)
\* errMsg
HandleError(t) ==
    /\ turn[t].at = "failed"
    /\ Goto(t, "closed")
    /\ streaming' = FALSE
    /\ UNCHANGED <<dialog, out, readers, cmds, approved, shown>>

StopReading(t) == streaming' = FALSE /\ readers' = readers \ {t}

\* A mutated form: an error stops the reading and leaves the input locked.
KeepLocked(t) ==
    \/ Head(out[t]) = "done" /\ StopReading(t)
    \/ Head(out[t]) = "error" /\ readers' = readers \ {t} /\ UNCHANGED streaming
    \/ Head(out[t]) \in {"text", "final"} /\ UNCHANGED <<streaming, readers>>

\* handleStreamChunk: Done and errors unlock the input and end the reading.
HandleStreamChunk(t) ==
    \/ Head(out[t]) \in {"done", "error"} /\ StopReading(t)
    \/ Head(out[t]) \in {"text", "final"} /\ UNCHANGED <<streaming, readers>>

ReadChunk(t) ==
    /\ t \in readers
    /\ out[t] # <<>>
    /\ HandleStreamChunk(t)
    /\ out' = [out EXCEPT ![t] = Tail(@)]
    /\ shown' = IF Head(out[t]) = "final" THEN shown \cup {t} ELSE shown
    /\ UNCHANGED <<dialog, turn, cmds, approved>>

\* A closed channel reads as Done.
ReadClosed(t) ==
    /\ t \in readers
    /\ out[t] = <<>>
    /\ turn[t].at = "closed"
    /\ StopReading(t)
    /\ UNCHANGED <<dialog, turn, out, cmds, approved, shown>>
-----------------------------------------------------------------------------
Init ==
    /\ streaming = FALSE
    /\ dialog = None
    /\ turn = [t \in Turns |-> Idle]
    /\ out = [t \in Turns |-> <<>>]
    /\ readers = {}
    /\ command = [c \in Commands |-> "none"]
    /\ answer = [c \in Commands |-> None]
    /\ approved = {}
    /\ shown = {}

\* Forward is apart: nothing makes the provider send more text.
TurnStep(t) ==
    \/ StartStream(t) \/ EndStream(t) \/ StoreResponse(t) \/ DispatchReturns(t) \/ ToolLoop(t)
    \/ HandleError(t)

Read(t) == ReadChunk(t) \/ ReadClosed(t)

CommandStep(c) == HandleConfirmShell(c) \/ ReceiveAnswer(c) \/ CommandEnds(c)

Answers == \E yes \in BOOLEAN : HandleConfirmKey(yes)

Next ==
    \/ \E t \in Turns : Submit(t) \/ Forward(t) \/ TurnStep(t) \/ Read(t)
    \/ \E c \in Commands : CommandStep(c)
    \/ NewConversation
    \/ Answers

Spec == Init /\ [][Next]_vars

\* Goroutines and events get their turn, a stream ends, and the user answers a dialog.
FairSpec ==
    /\ Spec
    /\ \A t \in Turns : WF_vars(TurnStep(t)) /\ WF_vars(Read(t))
    /\ \A c \in Commands : WF_vars(CommandStep(c))
    /\ WF_vars(Answers)
-----------------------------------------------------------------------------
(***************************************************************************)
(* Properties.                                                             *)
(***************************************************************************)
\* Every variable stays in its range.
TypeOK ==
    /\ streaming \in BOOLEAN
    /\ dialog \in [cmd : Commands, ch : Commands] \cup {None}
    /\ turn \in [Turns ->
         [at : {"unused", "submitted", "failed", "streaming", "stored", "tools", "loop",
                "closed"},
          calls : SUBSET Calls, left : 0..MaxToolRounds]]
    /\ out \in [Turns -> Seq({"text", "done", "error", "final"})]
    /\ readers \subseteq Turns
    /\ command \in [Commands -> {"none", "asking", "waiting", "running"}]
    /\ answer \in [Commands -> BOOLEAN \cup {None}]
    /\ approved \subseteq Commands
    /\ shown \subseteq Turns

\* A shell command runs only after the user has said yes to a dialog that showed this
\* command, also when its dialog replaced another command's.
RunsOnlyApproved == \A c \in Commands : command[c] = "running" => c \in approved

\* The command in the dialog waits for this answer and has none yet: a key never blocks
\* the event loop, and never answers a call that has ended.
DialogIsAwaited ==
    dialog # None => command[dialog.ch] = "waiting" /\ answer[dialog.ch] = None

\* The input is always unlocked again, whatever turns, errors and new conversations the
\* events of the last message are mixed with.
InputUnlocks == streaming ~> ~ streaming

\* "it falls back to non-streaming mode for the tool loop and returns the final text on
\* the channel": the reader of the channel gets that text.
FinalTextIsRead ==
    \A t \in Turns : (\E i \in DOMAIN out[t] : out[t][i] = "final") ~> t \in shown

\* "Dispatch executes one or more tool calls in parallel and returns results".
DispatchAlwaysReturns == \A t \in Turns : turn[t].at = "tools" ~> turn[t].at # "tools"
=============================================================================
