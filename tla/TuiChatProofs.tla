----------------------------- MODULE TuiChatProofs -----------------------------
(***************************************************************************)
(* Theorems about the terminal interface, for any number of turns, rounds  *)
(* and shell commands.                                                     *)
(*                                                                         *)
(* RunsOnlyApproved and DialogIsAwaited need each other and three facts    *)
(* about a command: it is idle unless the calls of its turn are being      *)
(* dispatched, it is given an answer only while it waits, and it counts as *)
(* approved exactly from the user's yes to its end.                        *)
(***************************************************************************)
EXTENDS TuiChat, TLAPS

Place == {"unused", "submitted", "failed", "streaming", "stored", "tools", "loop", "closed"}

TurnState == [at : Place, calls : SUBSET Calls, left : 0..MaxToolRounds]

Chunks == {"text", "done", "error", "final"}

\* A command is under way only while the calls of its turn are dispatched.
IdleBetweenRounds ==
    \A c \in Commands : turn[c[1]].at # "tools" => command[c] = "none"

\* An answer is given only to a command that waits for it.
AnswersAreAwaited == \A c \in Commands : answer[c] # None => command[c] = "waiting"

\* An approval is that of one run: from the user's yes to the end of the command.
ApprovedIsRunning ==
    \A c \in Commands : c \in approved <=> command[c] = "running" \/ answer[c] = TRUE

\* The dialog answers the command it shows.
AnswersWhatItShows == dialog # None => dialog.ch = dialog.cmd

ChatInv ==
    /\ TypeOK
    /\ IdleBetweenRounds
    /\ AnswersAreAwaited
    /\ ApprovedIsRunning
    /\ AnswersWhatItShows
    /\ DialogIsAwaited
-----------------------------------------------------------------------------
\* Goto, Dispatch and Submit move one turn and keep the types of all.
LEMMA TurnMoves ==
    ASSUME TypeOK, NEW t \in Turns, NEW place \in Place,
           \/ Goto(t, place)
           \/ \E calls \in SUBSET Calls :
                turn' = [turn EXCEPT ![t].at = place, ![t].calls = calls]
           \/ \E calls \in SUBSET Calls, left \in 0..MaxToolRounds :
                turn' = [turn EXCEPT ![t].at = place, ![t].calls = calls, ![t].left = left]
           \/ \E state \in TurnState : state.at = place /\ turn' = [turn EXCEPT ![t] = state]
    PROVE  /\ turn' \in [Turns -> TurnState]
           /\ turn'[t].at = place
           /\ \A s \in Turns \ {t} : turn'[s] = turn[s]
  <1>1. turn \in [Turns -> TurnState] /\ turn[t] \in TurnState
    BY DEF TypeOK, TurnState, Place
  <1>2. CASE Goto(t, place)
    BY <1>1, <1>2 DEF TurnState, Goto
  <1>3. ASSUME NEW calls \in SUBSET Calls,
               turn' = [turn EXCEPT ![t].at = place, ![t].calls = calls]
        PROVE  /\ turn' \in [Turns -> TurnState]
               /\ turn'[t].at = place
               /\ \A s \in Turns \ {t} : turn'[s] = turn[s]
    <2> DEFINE j == [turn[t] EXCEPT !.at = place, !.calls = calls]
    <2>1. turn' = [s \in Turns |-> IF s = t THEN j ELSE turn[s]]
      BY <1>1, <1>3
    <2>2. j \in TurnState /\ j.at = place
      BY <1>1 DEF TurnState
    <2> QED
      BY <1>1, <2>1, <2>2
  <1>4. ASSUME NEW calls \in SUBSET Calls, NEW left \in 0..MaxToolRounds,
               turn' = [turn EXCEPT ![t].at = place, ![t].calls = calls, ![t].left = left]
        PROVE  /\ turn' \in [Turns -> TurnState]
               /\ turn'[t].at = place
               /\ \A s \in Turns \ {t} : turn'[s] = turn[s]
    <2> DEFINE j == [turn[t] EXCEPT !.at = place, !.calls = calls, !.left = left]
    <2>1. turn' = [s \in Turns |-> IF s = t THEN j ELSE turn[s]]
      BY <1>1, <1>4
    <2>2. j \in TurnState /\ j.at = place
      BY <1>1 DEF TurnState
    <2> QED
      BY <1>1, <2>1, <2>2
  <1>5. CASE \E state \in TurnState : state.at = place /\ turn' = [turn EXCEPT ![t] = state]
    BY <1>1, <1>5
  <1> QED
    BY <1>2, <1>3, <1>4, <1>5

LEMMA EmitType ==
    ASSUME TypeOK, NEW t \in Turns, NEW chunk \in Chunks, Emit(t, chunk)
    PROVE  out' \in [Turns -> Seq(Chunks)]
  BY DEF TypeOK, Emit, Chunks

LEMMA ChatInit ==
    ASSUME Init
    PROVE  ChatInv
  <1>1. TypeOK
    <2>1. Idle \in TurnState /\ <<>> \in Seq(Chunks)
      BY BoundsAssumption DEF Idle, TurnState, Place
    <2> QED
      BY <2>1 DEF Init, TypeOK, TurnState, Place, Chunks
  <1>2. \A c \in Commands : answer[c] = None /\ command[c] = "none"
    BY DEF Init
  <1>3. None # TRUE
    BY SentinelAssumption
  <1> QED
    BY <1>1, <1>2, <1>3 DEF Init, ChatInv, IdleBetweenRounds, AnswersAreAwaited,
                            ApprovedIsRunning, AnswersWhatItShows, DialogIsAwaited
-----------------------------------------------------------------------------
\* A step that leaves the commands and their dialog alone.
LEMMA TurnFrame ==
    ASSUME ChatInv, TypeOK', UNCHANGED <<dialog, command, answer, approved>>,
           \A c \in Commands :
              turn'[c[1]].at # "tools" => turn[c[1]].at # "tools" \/ command[c] = "none"
    PROVE  ChatInv'
  BY DEF ChatInv, IdleBetweenRounds, AnswersAreAwaited, ApprovedIsRunning,
         AnswersWhatItShows, DialogIsAwaited

\* Dispatch: no command of the turn was under way, so none is disturbed.
LEMMA AskingFrame ==
    ASSUME ChatInv, TypeOK', NEW t \in Turns, turn[t].at # "tools", turn'[t].at = "tools",
           \A s \in Turns \ {t} : turn'[s] = turn[s],
           command' = Asking(t), UNCHANGED <<dialog, answer, approved>>
    PROVE  ChatInv'
  <1>1. \A c \in Commands : c[1] \in Turns
    BY DEF Commands
  <1>2. \A c \in Commands : command'[c] = command[c]
                             \/ (c[1] = t /\ command[c] = "none" /\ command'[c] = "asking")
    BY DEF ChatInv, IdleBetweenRounds, Asking
  <1>3. IdleBetweenRounds'
    BY <1>1, <1>2 DEF ChatInv, IdleBetweenRounds
  <1>4. dialog # None => dialog.ch \in Commands
    BY DEF ChatInv, TypeOK
  <1> QED
    BY <1>2, <1>3, <1>4 DEF ChatInv, AnswersAreAwaited, ApprovedIsRunning,
                            AnswersWhatItShows, DialogIsAwaited

\* What TypeOK says of the turns and of the rest.
LEMMA ChatTypes ==
    ASSUME turn' \in [Turns -> TurnState], out' \in [Turns -> Seq(Chunks)],
           streaming' \in BOOLEAN, readers' \subseteq Turns, shown' \subseteq Turns,
           dialog' \in [cmd : Commands, ch : Commands] \cup {None},
           command' \in [Commands -> {"none", "asking", "waiting", "running"}],
           answer' \in [Commands -> BOOLEAN \cup {None}], approved' \subseteq Commands
    PROVE  TypeOK'
  BY DEF TypeOK, TurnState, Place, Chunks

LEMMA TypeParts ==
    ASSUME TypeOK
    PROVE  /\ turn \in [Turns -> TurnState] /\ out \in [Turns -> Seq(Chunks)]
           /\ streaming \in BOOLEAN /\ readers \subseteq Turns /\ shown \subseteq Turns
           /\ dialog \in [cmd : Commands, ch : Commands] \cup {None}
           /\ command \in [Commands -> {"none", "asking", "waiting", "running"}]
           /\ answer \in [Commands -> BOOLEAN \cup {None}] /\ approved \subseteq Commands
  BY DEF TypeOK, TurnState, Place, Chunks
-----------------------------------------------------------------------------
LEMMA SubmitStep ==
    ASSUME ChatInv, NEW t \in Turns, Submit(t)
    PROVE  ChatInv'
  <1>1. TypeOK
    BY DEF ChatInv
  <1>2. /\ turn' \in [Turns -> TurnState]
        /\ \A s \in Turns \ {t} : turn'[s] = turn[s]
        /\ turn[t].at = "unused"
    <2> DEFINE state == [Idle EXCEPT !.at = "submitted", !.left = MaxToolRounds]
    <2>1. "submitted" \in Place /\ MaxToolRounds \in 0..MaxToolRounds
      BY BoundsAssumption DEF Place
    <2>2. state \in TurnState /\ state.at = "submitted"
      BY <2>1 DEF TurnState, Idle
    <2>3. turn' = [turn EXCEPT ![t] = state] /\ turn[t].at = "unused"
      BY DEF Submit
    <2> HIDE DEF state
    <2> QED
      BY <1>1, <2>1, <2>2, <2>3, TurnMoves
  <1>3. TypeOK'
    BY <1>1, <1>2, TypeParts, ChatTypes DEF Submit, cmds
  <1> QED
    BY <1>2, <1>3, TurnFrame DEF Submit, cmds, Commands

\* The steps of a turn that ask for no command.
LEMMA TurnStepFrame ==
    ASSUME ChatInv, NEW t \in Turns, NEW place \in Place,
           \/ Goto(t, place)
           \/ \E calls \in SUBSET Calls :
                turn' = [turn EXCEPT ![t].at = place, ![t].calls = calls],
           out' \in [Turns -> Seq(Chunks)], streaming' \in BOOLEAN, readers' \subseteq Turns,
           UNCHANGED <<dialog, command, answer, approved, shown>>,
           \/ turn[t].at # "tools"
           \/ \A c \in Commands : c[1] = t => command[c] = "none"
    PROVE  ChatInv'
  <1>1. TypeOK
    BY DEF ChatInv
  <1>2. /\ turn' \in [Turns -> TurnState]
        /\ \A s \in Turns \ {t} : turn'[s] = turn[s]
    BY <1>1, TurnMoves, BoundsAssumption DEF Goto
  <1>3. TypeOK'
    BY <1>1, <1>2, TypeParts, ChatTypes
  <1> QED
    BY <1>2, <1>3, TurnFrame DEF Commands

LEMMA ForwardStep ==
    ASSUME ChatInv, NEW t \in Turns, Forward(t)
    PROVE  ChatInv'
  <1>1. TypeOK /\ TypeOK'
    BY TypeParts, ChatTypes, EmitType DEF ChatInv, Forward, ui, cmds, Chunks
  <1> QED
    BY <1>1, TurnFrame DEF Forward, ui, cmds

LEMMA StartStreamStep ==
    ASSUME ChatInv, NEW t \in Turns, StartStream(t)
    PROVE  ChatInv'
  <1>1. TypeOK /\ turn[t].at = "submitted"
    BY DEF ChatInv, StartStream
  <1>2. PICK place \in Place : Goto(t, place)
    BY DEF StartStream, Place
  <1>3. readers' \subseteq Turns
    BY <1>1, TypeParts DEF StartStream
  <1> QED
    BY <1>1, <1>2, <1>3, TypeParts, TurnStepFrame DEF StartStream, cmds

LEMMA EndStreamStep ==
    ASSUME ChatInv, NEW t \in Turns, EndStream(t)
    PROVE  ChatInv'
  <1>1. TypeOK /\ turn[t].at = "streaming" /\ "stored" \in Place
    BY DEF ChatInv, EndStream, Place
  <1>2. out' \in [Turns -> Seq(Chunks)]
    BY <1>1, TypeParts, EmitType DEF EndStream, Chunks
  <1>3. \/ Goto(t, "stored")
        \/ \E calls \in SUBSET Calls :
              turn' = [turn EXCEPT ![t].at = "stored", ![t].calls = calls]
    BY DEF EndStream
  <1> QED
    BY <1>1, <1>2, <1>3, TypeParts, TurnStepFrame DEF EndStream, ui, cmds

\* A turn that ends.
LEMMA ClosedStep ==
    ASSUME ChatInv, NEW t \in Turns, Goto(t, "closed"),
           out' = out \/ (\E chunk \in Chunks : Emit(t, chunk)),
           streaming' \in {streaming, FALSE},
           UNCHANGED <<dialog, readers, cmds, approved, shown>>,
           \/ turn[t].at # "tools"
           \/ \A c \in Commands : c[1] = t => command[c] = "none"
    PROVE  ChatInv'
  <1>1. TypeOK /\ "closed" \in Place
    BY DEF ChatInv, Place
  <1>2. out' \in [Turns -> Seq(Chunks)] /\ streaming' \in BOOLEAN /\ readers' \subseteq Turns
    BY <1>1, TypeParts, EmitType
  <1> QED
    BY <1>1, <1>2, TurnStepFrame DEF cmds

\* The calls of a response or of a round are dispatched.
LEMMA DispatchStep ==
    ASSUME ChatInv, NEW t \in Turns, NEW calls \in SUBSET Calls, turn[t].at # "tools",
           \/ turn' = [turn EXCEPT ![t].at = "tools", ![t].calls = calls]
           \/ \E left \in 0..MaxToolRounds :
                turn' = [turn EXCEPT ![t].at = "tools", ![t].calls = calls, ![t].left = left],
           command' = Asking(t), UNCHANGED <<ui, out, answer>>
    PROVE  ChatInv'
  <1>1. TypeOK /\ "tools" \in Place
    BY DEF ChatInv, Place
  <1>2. /\ turn' \in [Turns -> TurnState]
        /\ turn'[t].at = "tools"
        /\ \A s \in Turns \ {t} : turn'[s] = turn[s]
    BY <1>1, TurnMoves, BoundsAssumption
  <1>3. command' \in [Commands -> {"none", "asking", "waiting", "running"}]
    BY <1>1, TypeParts DEF Asking
  <1>4. TypeOK'
    BY <1>1, <1>2, <1>3, TypeParts, ChatTypes DEF ui
  <1> QED
    BY <1>2, <1>4, AskingFrame DEF ui

LEMMA StoreResponseStep ==
    ASSUME ChatInv, NEW t \in Turns, StoreResponse(t)
    PROVE  ChatInv'
  <1>1. turn[t].at = "stored" /\ turn[t].calls \in SUBSET Calls /\ "error" \in Chunks
    BY TypeParts DEF ChatInv, StoreResponse, TurnState, Chunks
  <1>2. CASE EmitError(t) /\ UNCHANGED command
    BY <1>1, <1>2, ClosedStep DEF StoreResponse, EmitError, ui, cmds
  <1>3. CASE Goto(t, "closed") /\ UNCHANGED <<out, command>>
    BY <1>1, <1>3, ClosedStep DEF StoreResponse, ui, cmds
  <1>4. CASE Dispatch(t, turn[t].calls) /\ UNCHANGED out
    BY <1>1, <1>4, DispatchStep DEF StoreResponse, Dispatch
  <1> QED
    BY <1>2, <1>3, <1>4 DEF StoreResponse

LEMMA DispatchReturnsStep ==
    ASSUME ChatInv, NEW t \in Turns, DispatchReturns(t)
    PROVE  ChatInv'
  <1>1. \A c \in Commands : c[1] = t => command[c] = "none"
    BY DEF DispatchReturns
  <1>2. CASE EmitError(t)
    BY <1>1, <1>2, ClosedStep DEF DispatchReturns, EmitError, ui, Chunks
  <1>3. CASE Goto(t, "loop") /\ UNCHANGED out
    BY <1>1, <1>3, TypeParts, TurnStepFrame DEF ChatInv, DispatchReturns, ui, cmds, Place
  <1> QED
    BY <1>2, <1>3 DEF DispatchReturns

LEMMA ToolLoopStep ==
    ASSUME ChatInv, NEW t \in Turns, ToolLoop(t)
    PROVE  ChatInv'
  <1>1. turn[t].at = "loop" /\ turn[t].left \in 0..MaxToolRounds
    BY TypeParts DEF ChatInv, ToolLoop, TurnState
  <1>2. CASE EmitError(t) /\ UNCHANGED command
    BY <1>1, <1>2, ClosedStep DEF ToolLoop, EmitError, ui, cmds, Chunks
  <1>3. CASE Emit(t, "final") /\ Goto(t, "closed") /\ UNCHANGED command
    BY <1>1, <1>3, ClosedStep DEF ToolLoop, ui, cmds, Chunks
  <1>4. ASSUME RoundsLeft(t), UNCHANGED out, NEW calls \in SUBSET Calls,
               turn' = [turn EXCEPT ![t].at = "tools", ![t].calls = calls, ![t].left = @ - 1],
               command' = Asking(t)
        PROVE  ChatInv'
    <2>1. turn[t].left - 1 \in 0..MaxToolRounds
      BY <1>1, <1>4, BoundsAssumption DEF RoundsLeft
    <2>2. turn' = [turn EXCEPT ![t].at = "tools", ![t].calls = calls,
                               ![t].left = turn[t].left - 1]
      BY <1>4, TypeParts DEF ChatInv, TurnState
    <2> QED
      BY <1>1, <1>4, <2>1, <2>2, DispatchStep DEF ToolLoop
  <1> QED
    BY <1>2, <1>3, <1>4 DEF ToolLoop

LEMMA HandleErrorStep ==
    ASSUME ChatInv, NEW t \in Turns, HandleError(t)
    PROVE  ChatInv'
  BY ClosedStep DEF HandleError

LEMMA ReadStep ==
    ASSUME ChatInv, NEW t \in Turns, Read(t)
    PROVE  ChatInv'
  <1>1. /\ TypeOK
        /\ UNCHANGED <<dialog, turn, cmds, approved>>
    BY DEF ChatInv, Read, ReadChunk, ReadClosed
  <1>2. streaming' \in BOOLEAN /\ readers' \subseteq Turns
    BY <1>1, TypeParts DEF Read, ReadChunk, ReadClosed, HandleStreamChunk, StopReading
  <1>3. out' \in [Turns -> Seq(Chunks)] /\ shown' \subseteq Turns
    <2>1. out \in [Turns -> Seq(Chunks)] /\ shown \subseteq Turns
      BY <1>1, TypeParts
    <2>2. CASE ReadChunk(t)
      <3>1. out[t] \in Seq(Chunks) /\ out[t] # <<>>
        BY <2>1, <2>2 DEF ReadChunk
      <3>2. Tail(out[t]) \in Seq(Chunks)
        BY <3>1
      <3> QED
        BY <2>1, <2>2, <3>2 DEF ReadChunk
    <2>3. CASE ReadClosed(t)
      BY <2>1, <2>3 DEF ReadClosed
    <2> QED
      BY <2>2, <2>3 DEF Read
  <1>4. TypeOK'
    BY <1>1, <1>2, <1>3, TypeParts, ChatTypes DEF cmds
  <1> QED
    BY <1>1, <1>4, TurnFrame DEF cmds
-----------------------------------------------------------------------------
LEMMA NewConversationStep ==
    ASSUME ChatInv, NewConversation
    PROVE  ChatInv'
  <1>1. TypeOK'
    BY TypeParts, ChatTypes DEF ChatInv, NewConversation, cmds
  <1> QED
    BY <1>1, TurnFrame DEF NewConversation, cmds

LEMMA ConfirmKeyStep ==
    ASSUME ChatInv, NEW yes \in BOOLEAN, HandleConfirmKey(yes)
    PROVE  ChatInv'
  <1> DEFINE c == dialog.ch
  <1>1. /\ TypeOK /\ c \in Commands /\ dialog.cmd = c
        /\ command[c] = "waiting" /\ answer[c] = None /\ yes # None
    BY SentinelAssumption
    DEF ChatInv, TypeOK, HandleConfirmKey, AnswersWhatItShows, DialogIsAwaited
  <1>2. /\ answer' = [answer EXCEPT ![c] = yes]
        /\ dialog' = None
        /\ approved' = IF yes THEN approved \cup {c} ELSE approved
        /\ UNCHANGED <<streaming, turn, out, readers, command, shown>>
    BY <1>1 DEF HandleConfirmKey
  <1>3. answer \in [Commands -> BOOLEAN \cup {None}] /\ approved \subseteq Commands
    BY <1>1, TypeParts
  <1> HIDE DEF c
  <1>4. TypeOK'
    BY <1>1, <1>2, <1>3, TypeParts, ChatTypes
  <1>5. IdleBetweenRounds' /\ AnswersWhatItShows' /\ DialogIsAwaited'
    BY <1>2 DEF ChatInv, IdleBetweenRounds, AnswersWhatItShows, DialogIsAwaited
  <1>6. AnswersAreAwaited'
    BY <1>1, <1>2, <1>3 DEF ChatInv, AnswersAreAwaited
  <1>7. ApprovedIsRunning'
    <2>1. answer'[c] = yes /\ command'[c] = "waiting"
      BY <1>1, <1>2, <1>3
    <2>2. c \notin approved
      BY <1>1, SentinelAssumption DEF ChatInv, ApprovedIsRunning
    <2>3. \A d \in Commands \ {c} : answer'[d] = answer[d] /\ (d \in approved' <=> d \in approved)
      BY <1>1, <1>2, <1>3
    <2>4. c \in approved' <=> answer'[c] = TRUE
      BY <1>2, <2>1, <2>2
    <2> QED
      BY <1>1, <1>2, <2>1, <2>3, <2>4 DEF ChatInv, ApprovedIsRunning
  <1> QED
    BY <1>4, <1>5, <1>6, <1>7 DEF ChatInv
-----------------------------------------------------------------------------
LEMMA ConfirmShellStep ==
    ASSUME ChatInv, NEW c \in Commands, HandleConfirmShell(c)
    PROVE  ChatInv'
  <1>1. /\ TypeOK /\ command[c] = "asking" /\ answer[c] = None
    BY DEF ChatInv, AnswersAreAwaited, HandleConfirmShell
  <1>2. /\ command' = [command EXCEPT ![c] = "waiting"]
        /\ dialog' = [cmd |-> c, ch |-> c]
        /\ UNCHANGED <<streaming, turn, out, readers, answer, approved, shown>>
        /\ command \in [Commands -> {"none", "asking", "waiting", "running"}]
    BY <1>1, TypeParts DEF HandleConfirmShell
  <1>3. TypeOK'
    BY <1>1, <1>2, TypeParts, ChatTypes
  <1>4. IdleBetweenRounds' /\ AnswersAreAwaited' /\ ApprovedIsRunning'
    BY <1>1, <1>2 DEF ChatInv, IdleBetweenRounds, AnswersAreAwaited, ApprovedIsRunning
  <1>5. AnswersWhatItShows' /\ DialogIsAwaited'
    BY <1>1, <1>2 DEF AnswersWhatItShows, DialogIsAwaited
  <1> QED
    BY <1>3, <1>4, <1>5 DEF ChatInv

LEMMA ReceiveAnswerStep ==
    ASSUME ChatInv, NEW c \in Commands, ReceiveAnswer(c)
    PROVE  ChatInv'
  <1>1. /\ TypeOK /\ command[c] = "waiting" /\ answer[c] \in BOOLEAN
        /\ dialog # None => dialog.ch \in Commands \ {c}
    BY TypeParts DEF ChatInv, TypeOK, ReceiveAnswer, DialogIsAwaited
  <1>2. /\ command \in [Commands -> {"none", "asking", "waiting", "running"}]
        /\ answer \in [Commands -> BOOLEAN \cup {None}]
        /\ UNCHANGED <<streaming, dialog, readers, approved, shown, turn, out>>
    BY <1>1, TypeParts DEF ReceiveAnswer, ui
  <1>3. /\ answer'[c] = None /\ (command'[c] = "running" <=> answer[c] = TRUE)
        /\ command'[c] \in {"running", "none"}
        /\ \A d \in Commands \ {c} : command'[d] = command[d] /\ answer'[d] = answer[d]
    BY <1>1, <1>2 DEF ReceiveAnswer
  <1>4. TypeOK'
    <2>1. /\ command' \in [Commands -> {"none", "asking", "waiting", "running"}]
          /\ answer' \in [Commands -> BOOLEAN \cup {None}]
      BY <1>2 DEF ReceiveAnswer
    <2> QED
      BY <1>1, <1>2, <2>1, TypeParts, ChatTypes
  <1>5. IdleBetweenRounds' /\ AnswersAreAwaited'
    BY <1>1, <1>2, <1>3 DEF ChatInv, IdleBetweenRounds, AnswersAreAwaited
  <1>6. ApprovedIsRunning'
    BY <1>1, <1>2, <1>3, SentinelAssumption DEF ChatInv, ApprovedIsRunning
  <1>7. AnswersWhatItShows' /\ DialogIsAwaited'
    BY <1>1, <1>2, <1>3 DEF ChatInv, AnswersWhatItShows, DialogIsAwaited
  <1> QED
    BY <1>4, <1>5, <1>6, <1>7 DEF ChatInv

LEMMA CommandEndsStep ==
    ASSUME ChatInv, NEW c \in Commands, CommandEnds(c)
    PROVE  ChatInv'
  <1>1. /\ TypeOK /\ command[c] = "running" /\ answer[c] = None
        /\ dialog # None => dialog.ch \in Commands \ {c}
    BY DEF ChatInv, TypeOK, CommandEnds, AnswersAreAwaited, DialogIsAwaited
  <1>2. /\ command \in [Commands -> {"none", "asking", "waiting", "running"}]
        /\ command' = [command EXCEPT ![c] = "none"]
        /\ approved' = approved \ {c}
        /\ UNCHANGED <<streaming, dialog, turn, out, readers, answer, shown>>
    BY <1>1, TypeParts DEF CommandEnds
  <1>3. TypeOK'
    BY <1>1, <1>2, TypeParts, ChatTypes
  <1>4. IdleBetweenRounds' /\ AnswersAreAwaited'
    BY <1>1, <1>2 DEF ChatInv, IdleBetweenRounds, AnswersAreAwaited
  <1>5. ApprovedIsRunning'
    BY <1>1, <1>2, SentinelAssumption DEF ChatInv, ApprovedIsRunning
  <1>6. AnswersWhatItShows' /\ DialogIsAwaited'
    BY <1>1, <1>2 DEF ChatInv, AnswersWhatItShows, DialogIsAwaited
  <1> QED
    BY <1>3, <1>4, <1>5, <1>6 DEF ChatInv
-----------------------------------------------------------------------------
LEMMA ChatStutter ==
    ASSUME ChatInv, UNCHANGED vars
    PROVE  ChatInv'
  <1>1. TypeOK'
    BY TypeParts, ChatTypes DEF ChatInv, vars
  <1> QED
    BY <1>1, TurnFrame DEF vars

LEMMA ChatStep ==
    ASSUME ChatInv, [Next]_vars
    PROVE  ChatInv'
  BY SubmitStep, ForwardStep, StartStreamStep, EndStreamStep, StoreResponseStep,
     DispatchReturnsStep, ToolLoopStep, HandleErrorStep, ReadStep, NewConversationStep,
     ConfirmKeyStep, ConfirmShellStep, ReceiveAnswerStep, CommandEndsStep, ChatStutter
  DEF Next, TurnStep, CommandStep, Answers

\* The inductive invariant holds in every state of the terminal interface.
THEOREM ChatInvariant == Spec => []ChatInv
  BY ChatInit, ChatStep, PTL DEF Spec

\* The events, SendStream and the confirm gate keep every variable in its range.
THEOREM ChatTypeOK == Spec => []TypeOK
  BY ChatInvariant, PTL DEF ChatInv

\* ConfirmGate and handleConfirmKey: a shell command runs only after the user has said yes
\* to a dialog that showed it, and in this run of it.
THEOREM CommandsAreApproved == Spec => []RunsOnlyApproved
  <1>1. ChatInv => RunsOnlyApproved
    BY DEF ChatInv, ApprovedIsRunning, RunsOnlyApproved
  <1> QED
    BY <1>1, ChatInvariant, PTL

\* handleConfirmKey: the send into the dialog's channel never blocks the event loop, and
\* there is a command that waits for it.
THEOREM KeysNeverBlock == Spec => []DialogIsAwaited
  BY ChatInvariant, PTL DEF ChatInv
-----------------------------------------------------------------------------
\* Whenever the input is locked there is an event to come that unlocks it: that of a turn
\* that has not started to stream, or of a channel that is still read.
LockHasOwner ==
    streaming => \E t \in Turns : turn[t].at \in {"submitted", "failed"} \/ t \in readers

\* Submit, errMsg and handleStreamChunk: none of their orders forgets the lock.
THEOREM LockIsOwned == Spec => []LockHasOwner
  <1>1. Init => LockHasOwner
    BY DEF Init, LockHasOwner
  <1>2. ASSUME ChatInv, LockHasOwner, [Next]_vars
        PROVE  LockHasOwner'
    <2>1. turn \in [Turns -> TurnState]
      BY <1>2, TypeParts DEF ChatInv
    <2>2. ASSUME NEW t \in Turns, Submit(t)
          PROVE  LockHasOwner'
      <3>1. turn'[t].at = "submitted"
        BY <2>1, <2>2 DEF Submit, Idle
      <3> QED
        BY <3>1 DEF LockHasOwner
    <2>3. ASSUME NEW t \in Turns, StartStream(t)
          PROVE  LockHasOwner'
      <3>1. turn'[t].at = "failed" \/ t \in readers'
        BY <2>1, <2>3 DEF StartStream, Goto, TurnState
      <3> QED
        BY <3>1 DEF LockHasOwner
    <2>4. ASSUME ~ streaming'
          PROVE  LockHasOwner'
      BY <2>4 DEF LockHasOwner
    <2>5. ASSUME streaming' = streaming, readers' = readers,
                 \A s \in Turns : turn[s].at \in {"submitted", "failed"} => turn'[s] = turn[s]
          PROVE  LockHasOwner'
      BY <1>2, <2>5 DEF LockHasOwner
    <2>6. ASSUME NEW t \in Turns, EndStream(t) \/ StoreResponse(t) \/ DispatchReturns(t)
                                 \/ ToolLoop(t)
          PROVE  LockHasOwner'
      <3>1. /\ turn[t].at \notin {"submitted", "failed"}
            /\ UNCHANGED ui
        BY <2>6 DEF EndStream, StoreResponse, DispatchReturns, ToolLoop
      <3>2. \A s \in Turns \ {t} : turn'[s] = turn[s]
        BY <2>1, <2>6
        DEF EndStream, StoreResponse, DispatchReturns, ToolLoop, EmitError, Goto, Dispatch
      <3> QED
        BY <2>5, <3>1, <3>2 DEF ui
    <2>7. CASE UNCHANGED <<streaming, turn, readers>>
      BY <2>5, <2>7
    <2>8. ASSUME NEW t \in Turns, HandleError(t) \/ Read(t)
          PROVE  LockHasOwner'
      BY <2>4, <2>7, <2>8
      DEF HandleError, Read, ReadChunk, ReadClosed, HandleStreamChunk, StopReading
    <2> QED
      BY <1>2, <2>2, <2>3, <2>4, <2>6, <2>7, <2>8
      DEF Next, TurnStep, CommandStep, Answers, Forward, NewConversation, HandleConfirmKey,
          HandleConfirmShell, ReceiveAnswer, CommandEnds, ui, cmds, vars
  <1> QED
    BY <1>1, <1>2, ChatInvariant, PTL DEF Spec
-----------------------------------------------------------------------------
\* The chunk that ends the reading is in the channel.
EndIsSent(t) == \E i \in DOMAIN out[t] : out[t][i] \in {"done", "error"}

\* While a channel is read, the stream is under way, or what ends the reading is in the
\* channel, or the goroutine has closed it or closes it with its next step.
UnlockIsNear ==
    \A t \in readers :
        \/ turn[t].at = "streaming"
        \/ EndIsSent(t)
        \/ turn[t].at = "stored" /\ turn[t].calls = {}
        \/ turn[t].at = "closed"

\* A turn has calls only from a response.
NoCallsYet ==
    \A t \in Turns :
        turn[t].at \in {"unused", "submitted", "failed", "streaming"} => turn[t].calls = {}

EndInv == UnlockIsNear /\ NoCallsYet

\* What is sent later does not hide the end.
LEMMA EndStays ==
    ASSUME TypeOK, NEW t \in Turns, NEW chunk \in Chunks, Emit(t, chunk)
    PROVE  /\ EndIsSent(t) \/ chunk \in {"done", "error"} => EndIsSent(t)'
           /\ \A s \in Turns \ {t} : out'[s] = out[s]
  <1>1. out \in [Turns -> Seq(Chunks)] /\ out[t] \in Seq(Chunks)
    BY TypeParts
  <1>2. out'[t] = Append(out[t], chunk) /\ \A s \in Turns \ {t} : out'[s] = out[s]
    BY <1>1 DEF Emit
  <1>3. /\ DOMAIN out'[t] = 1..Len(out[t]) + 1
        /\ out'[t][Len(out[t]) + 1] = chunk
        /\ \A i \in 1..Len(out[t]) : out'[t][i] = out[t][i]
        /\ DOMAIN out[t] = 1..Len(out[t]) /\ Len(out[t]) \in Nat
    BY <1>1, <1>2
  <1>4. ASSUME EndIsSent(t)
        PROVE  EndIsSent(t)'
    BY <1>3, <1>4 DEF EndIsSent
  <1>5. ASSUME chunk \in {"done", "error"}
        PROVE  EndIsSent(t)'
    <2>1. Len(out[t]) + 1 \in DOMAIN out'[t]
      BY <1>3
    <2> QED
      BY <1>3, <1>5, <2>1 DEF EndIsSent
  <1> QED
    BY <1>2, <1>4, <1>5

\* A step of one turn that is not in the stream's way.
LEMMA EndFrame ==
    ASSUME EndInv, TypeOK, NEW t \in Turns, readers' \subseteq readers \cup {t},
           \A s \in Turns \ {t} : turn'[s] = turn[s] /\ out'[s] = out[s],
           turn'[t].at \in {"unused", "submitted", "failed", "streaming"}
             => turn'[t].calls = {},
           t \in readers' =>
             \/ turn'[t].at = "streaming"
             \/ EndIsSent(t)'
             \/ turn'[t].at = "stored" /\ turn'[t].calls = {}
             \/ turn'[t].at = "closed"
    PROVE  EndInv'
  <1>1. readers \subseteq Turns
    BY TypeParts
  <1>2. \A s \in Turns \ {t} : EndIsSent(s)' <=> EndIsSent(s)
    BY DEF EndIsSent
  <1>3. NoCallsYet'
    BY DEF EndInv, NoCallsYet
  <1>4. UnlockIsNear'
    BY <1>1, <1>2 DEF EndInv, UnlockIsNear
  <1> QED
    BY <1>3, <1>4 DEF EndInv

\* SendStream and handleStreamChunk: the goroutine of a turn steps, or its channel is read.
LEMMA EndStep ==
    ASSUME EndInv, TypeOK, NEW t \in Turns,
           Submit(t) \/ Forward(t) \/ TurnStep(t) \/ Read(t)
    PROVE  EndInv'
  <1>1. /\ turn \in [Turns -> TurnState] /\ turn[t] \in TurnState
        /\ out \in [Turns -> Seq(Chunks)]
    BY TypeParts
  <1>2. t \in readers =>
          \/ turn[t].at = "streaming"
          \/ EndIsSent(t)
          \/ turn[t].at = "stored" /\ turn[t].calls = {}
          \/ turn[t].at = "closed"
    BY DEF EndInv, UnlockIsNear
  <1>3. turn[t].at \in {"unused", "submitted", "failed", "streaming"} => turn[t].calls = {}
    BY DEF EndInv, NoCallsYet
  <1>4. ASSUME NEW place \in Place, Goto(t, place)
        PROVE  /\ turn'[t].at = place /\ turn'[t].calls = turn[t].calls
               /\ \A s \in Turns \ {t} : turn'[s] = turn[s]
    BY <1>1, <1>4 DEF Goto, TurnState
  <1>5. UNCHANGED out => \A s \in Turns : EndIsSent(s)' <=> EndIsSent(s)
    BY DEF EndIsSent
  <1>6. CASE Submit(t)
    <2>1. /\ turn'[t].at = "submitted" /\ turn'[t].calls = {}
          /\ \A s \in Turns \ {t} : turn'[s] = turn[s]
      BY <1>1, <1>6 DEF Submit, Idle
    <2> QED
      BY <1>2, <1>5, <1>6, <2>1, EndFrame DEF Submit
  <1>7. CASE Forward(t)
    BY <1>1, <1>3, <1>7, EndStays, EndFrame DEF Forward, ui, Chunks
  <1>8. CASE StartStream(t)
    <2>1. turn[t].at = "submitted" /\ UNCHANGED out
      BY <1>8 DEF StartStream
    <2>2. CASE Goto(t, "failed") /\ UNCHANGED readers
      BY <1>2, <1>3, <1>4, <1>5, <2>1, <2>2, EndFrame DEF Place
    <2>3. CASE Goto(t, "streaming") /\ readers' = readers \cup {t}
      BY <1>3, <1>4, <2>1, <2>3, EndFrame DEF Place
    <2> QED
      BY <1>8, <2>2, <2>3 DEF StartStream
  <1>9. CASE EndStream(t)
    <2>1. turn[t].at = "streaming" /\ UNCHANGED readers
      BY <1>9 DEF EndStream, ui
    <2>2. ASSUME Emit(t, "done"), NEW calls \in SUBSET Calls,
                 turn' = [turn EXCEPT ![t].at = "stored", ![t].calls = calls]
          PROVE  EndInv'
      <3>1. turn'[t].at = "stored" /\ \A s \in Turns \ {t} : turn'[s] = turn[s]
        BY <1>1, <2>2 DEF TurnState
      <3> QED
        BY <2>1, <2>2, <3>1, EndStays, EndFrame DEF Chunks
    <2>3. CASE Emit(t, "error") /\ Goto(t, "stored")
      BY <1>4, <2>1, <2>3, EndStays, EndFrame DEF Chunks, Place
    <2>4. CASE UNCHANGED out /\ Goto(t, "stored")
      BY <1>3, <1>4, <2>1, <2>4, EndFrame DEF Place
    <2> QED
      BY <1>9, <2>2, <2>3, <2>4 DEF EndStream
  <1>10. ASSUME NEW chunk \in Chunks, Emit(t, chunk), Goto(t, "closed"), UNCHANGED readers
         PROVE  EndInv'
    BY <1>4, <1>10, EndStays, EndFrame DEF Place
  <1>11. ASSUME turn[t].at \in {"stored", "tools", "loop"},
                turn[t].calls # {} \/ turn[t].at # "stored",
                turn'[t].at \in {"tools", "loop"}, UNCHANGED <<readers, out>>,
                \A s \in Turns \ {t} : turn'[s] = turn[s]
         PROVE  EndInv'
    BY <1>2, <1>5, <1>11, EndFrame
  <1>12. CASE StoreResponse(t)
    <2>1. turn[t].at = "stored" /\ UNCHANGED readers
      BY <1>12 DEF StoreResponse, ui
    <2>2. CASE EmitError(t)
      BY <1>10, <2>1, <2>2 DEF EmitError, Chunks
    <2>3. CASE Goto(t, "closed") /\ UNCHANGED out
      BY <1>4, <2>1, <2>3, EndFrame DEF Place
    <2>4. CASE turn[t].calls # {} /\ Dispatch(t, turn[t].calls) /\ UNCHANGED out
      <3>1. turn'[t].at = "tools" /\ \A s \in Turns \ {t} : turn'[s] = turn[s]
        BY <1>1, <2>4 DEF Dispatch, TurnState
      <3> QED
        BY <1>11, <2>1, <2>4, <3>1
    <2> QED
      BY <1>12, <2>2, <2>3, <2>4 DEF StoreResponse
  <1>13. CASE DispatchReturns(t)
    <2>1. turn[t].at = "tools" /\ UNCHANGED readers
      BY <1>13 DEF DispatchReturns, ui
    <2>2. CASE EmitError(t)
      BY <1>10, <2>1, <2>2 DEF EmitError, Chunks
    <2>3. CASE Goto(t, "loop") /\ UNCHANGED out
      BY <1>4, <1>11, <2>1, <2>3 DEF Place
    <2> QED
      BY <1>13, <2>2, <2>3 DEF DispatchReturns
  <1>14. CASE ToolLoop(t)
    <2>1. turn[t].at = "loop" /\ UNCHANGED readers
      BY <1>14 DEF ToolLoop, ui
    <2>2. CASE EmitError(t)
      BY <1>10, <2>1, <2>2 DEF EmitError, Chunks
    <2>3. CASE Emit(t, "final") /\ Goto(t, "closed")
      BY <1>10, <2>1, <2>3 DEF Chunks
    <2>4. ASSUME UNCHANGED out, NEW calls \in SUBSET Calls,
                 turn' = [turn EXCEPT ![t].at = "tools", ![t].calls = calls, ![t].left = @ - 1]
          PROVE  EndInv'
      <3>1. turn'[t].at = "tools" /\ \A s \in Turns \ {t} : turn'[s] = turn[s]
        BY <1>1, <2>4 DEF TurnState
      <3> QED
        BY <1>11, <2>1, <2>4, <3>1
    <2> QED
      BY <1>14, <2>2, <2>3, <2>4 DEF ToolLoop
  <1>15. CASE HandleError(t)
    BY <1>4, <1>15, EndFrame DEF HandleError, Place
  <1>16. CASE ReadChunk(t)
    <2>1. /\ out[t] # <<>> /\ out[t] \in Seq(Chunks) /\ turn' = turn
          /\ out' = [out EXCEPT ![t] = Tail(out[t])]
      BY <1>1, <1>16 DEF ReadChunk
    <2>2. CASE StopReading(t)
      BY <1>3, <2>1, <2>2, EndFrame DEF StopReading
    <2>3. CASE Head(out[t]) \in {"text", "final"} /\ UNCHANGED readers
      <3>1. /\ DOMAIN out[t] = 1..Len(out[t]) /\ Len(out[t]) \in Nat
            /\ out'[t] = Tail(out[t]) /\ DOMAIN out'[t] = 1..Len(out[t]) - 1
            /\ \A i \in 1..Len(out[t]) - 1 : out'[t][i] = out[t][i + 1]
            /\ Head(out[t]) = out[t][1]
        BY <1>1, <2>1
      <3>2. EndIsSent(t) => EndIsSent(t)'
        <4> SUFFICES ASSUME NEW i \in DOMAIN out[t], out[t][i] \in {"done", "error"}
                     PROVE  EndIsSent(t)'
          BY DEF EndIsSent
        <4>1. i # 1
          BY <2>3, <3>1
        <4>2. i - 1 \in 1..Len(out[t]) - 1 /\ (i - 1) + 1 = i
          BY <3>1, <4>1
        <4> QED
          BY <3>1, <4>2 DEF EndIsSent
      <3> QED
        BY <1>2, <1>3, <2>1, <2>3, <3>2, EndFrame
    <2> QED
      BY <1>16, <2>2, <2>3 DEF ReadChunk, HandleStreamChunk
  <1>17. CASE ReadClosed(t)
    BY <1>3, <1>17, EndFrame DEF ReadClosed, StopReading
  <1> QED
    BY <1>6, <1>7, <1>8, <1>9, <1>12, <1>13, <1>14, <1>15, <1>16, <1>17 DEF TurnStep, Read

\* SendStream: the input that is locked while a channel is read waits for the provider
\* alone. Once the stream is over its end, an error or the closing of the channel comes
\* without a tool call, a dialog or a round of the tool loop in between.
THEOREM UnlockWaitsForNobody == Spec => []UnlockIsNear
  <1>1. Init => EndInv
    BY DEF Init, Idle, EndInv, UnlockIsNear, NoCallsYet
  <1>2. ASSUME EndInv, ChatInv, [Next]_vars
        PROVE  EndInv'
    <2>1. CASE UNCHANGED <<turn, out, readers>>
      BY <1>2, <2>1 DEF EndInv, UnlockIsNear, NoCallsYet, EndIsSent
    <2>2. ASSUME NEW t \in Turns, Submit(t) \/ Forward(t) \/ TurnStep(t) \/ Read(t)
          PROVE  EndInv'
      BY <1>2, <2>2, EndStep DEF ChatInv
    <2> QED
      BY <1>2, <2>1, <2>2
      DEF Next, CommandStep, Answers, NewConversation, HandleConfirmKey, HandleConfirmShell,
          ReceiveAnswer, CommandEnds, ui, cmds, vars
  <1>3. EndInv => UnlockIsNear
    BY DEF EndInv
  <1> QED
    BY <1>1, <1>2, <1>3, ChatInvariant, PTL DEF Spec
=============================================================================
