----------------------------- MODULE TurnSession -----------------------------
(***************************************************************************)
(* The turns of one conversation and its background summarization.         *)
(*                                                                         *)
(* A caller (a REST handler, the Telegram worker, the TUI's stream         *)
(* goroutine) runs Send or SendStream on the shared Session: it applies a  *)
(* finished summary, then persists and appends the user's message, the     *)
(* provider's replies and the tool results, and at the end may start a     *)
(* goroutine that summarizes a copy of the history. The result waits in a  *)
(* channel of one place for the next turn. Nothing serializes two callers. *)
(*                                                                         *)
(* A message is its role and the set of stored rows it stands for: its own *)
(* row, or, for a summary, the rows it replaces. Sizes are abstracted, so  *)
(* the split point is any the summarizer can choose. The restart of the    *)
(* process loads the history from the database.                            *)
(***************************************************************************)
EXTENDS Integers, Sequences, FiniteSets

CONSTANTS
    Callers,        \* goroutines that call Send or SendStream
    MaxToolRounds,  \* maxToolRounds
    MinUserTurns,   \* minUserTurnsForSummarization
    MaxCalls,       \* bound: tool calls in one response
    MaxSends,       \* bound: calls of Send and SendStream in a behaviour
    None            \* nothing in a channel, a variable or a field

ASSUME BoundsAssumption ==
    /\ MaxToolRounds \in Nat \ {0}
    /\ MinUserTurns \in Nat \ {0}
    /\ MaxCalls \in Nat
    /\ MaxSends \in Nat

VARIABLES
    history,      \* Session.History
    stored,       \* the conversation's rows in the messages table, oldest first
    turn,         \* turn[c]: where caller c is in Send or SendStream
    summarizing,  \* Session.Summarizing
    tasks,        \* the summarization goroutines
    pending,      \* Session.PendingSummary
    sends         \* calls so far

vars    == <<history, stored, turn, summarizing, tasks, pending, sends>>
summary == <<summarizing, tasks>>
-----------------------------------------------------------------------------
Roles   == {"user", "assistant", "tool", "system"}
Message == [role : Roles, calls : 0..MaxCalls, rows : SUBSET Nat]
Draft(role, calls, rows) == [role |-> role, calls |-> calls, rows |-> rows]

Rows(h) == UNION {h[i].rows : i \in DOMAIN h}

Idle == [at |-> "idle", role |-> "user", calls |-> 0, row |-> 0, left |-> 0, owed |-> 0,
         held |-> None]

\* Send or SendStream returns, or the goroutine of SendStream ends.
Return(c) == turn' = [turn EXCEPT ![c] = Idle]
-----------------------------------------------------------------------------
(***************************************************************************)
(* applyPendingSummary.                                                    *)
(***************************************************************************)
\* SendStream makes one request before the tool loop counts its rounds. A result in
\* the channel is received before anything else.
Send(c) ==
    /\ turn[c].at = "idle"
    /\ sends < MaxSends
    /\ sends' = sends + 1
    /\ \E rounds \in {MaxToolRounds, MaxToolRounds + 1} :
         turn' = [turn EXCEPT ![c] =
                    [Idle EXCEPT !.at = IF pending = None THEN "persist" ELSE "reconcile",
                                 !.left = rounds,
                                 !.held = pending]]
    /\ pending' = None
    /\ UNCHANGED <<history, stored, summary>>

\* Mutated forms: the messages after the snapshot are cut one too late, or too early.
SkipsOne(p) == p.remaining \o SubSeq(history, Len(p.snapshot) + 2, Len(history))
RepeatsOne(p) == p.remaining \o SubSeq(history, Len(p.snapshot), Len(history))

Merged(p) == p.remaining \o SubSeq(history, Len(p.snapshot) + 1, Len(history))

\* A result whose SnapshotLen is beyond the history is discarded.
ReconcileHistory(c) ==
    /\ turn[c].at = "reconcile"
    /\ history' = IF Len(turn[c].held.snapshot) > Len(history)
                    THEN history
                    ELSE Merged(turn[c].held)
    /\ turn' = [turn EXCEPT ![c].at = "persist", ![c].held = None]
    /\ UNCHANGED <<stored, summary, pending, sends>>
-----------------------------------------------------------------------------
(***************************************************************************)
(* persistAndAppendUser, -Assistant and -Tool, and the tool loop.          *)
(***************************************************************************)
NextRow == Len(stored) + 1

Insert(c) == stored' = Append(stored, Draft(turn[c].role, turn[c].calls, {NextRow}))

\* A mutated form: a failed write is logged and the turn goes on.
PersistLoosely(c) ==
    /\ turn[c].at = "persist"
    /\ turn' = [turn EXCEPT ![c].at = "append", ![c].row = NextRow]
    /\ Insert(c) \/ UNCHANGED stored
    /\ UNCHANGED <<history, summary, pending, sends>>

\* A mutated form: after a tool result that could not be stored the tools run again.
DispatchAgain(c) ==
    /\ turn[c].at = "persist"
    /\ \/ /\ Insert(c)
          /\ turn' = [turn EXCEPT ![c].at = "append", ![c].row = NextRow]
       \/ /\ UNCHANGED stored
          /\ IF turn[c].role = "tool" THEN turn' = [turn EXCEPT ![c].at = "tools"] ELSE Return(c)
    /\ UNCHANGED <<history, summary, pending, sends>>

\* persistMessage. The write fails as a whole, or, once the conversation is known
\* to exist, AddMessage inserts the row and fails to touch the conversation: it
\* reports an error either way.
PersistMessage(c) ==
    /\ turn[c].at = "persist"
    /\ \/ /\ Insert(c)
          /\ turn' = [turn EXCEPT ![c].at = "append", ![c].row = NextRow]
       \/ UNCHANGED stored /\ Return(c)
       \/ stored # <<>> /\ Insert(c) /\ Return(c)
    /\ UNCHANGED <<history, summary, pending, sends>>

\* After the user's message and after the last tool result the provider is asked,
\* after a response with tool calls these are dispatched, after any other the turn is
\* complete.
AppendMessage(c) ==
    LET t == turn[c] IN
    /\ t.at = "append"
    /\ history' = Append(history, Draft(t.role, t.calls, {t.row}))
    /\ turn' = [turn EXCEPT
         ![c].at = IF t.role = "assistant" /\ t.calls = 0 THEN "complete"
                   ELSE IF t.role = "assistant" THEN "tools"
                   ELSE IF t.role = "user" \/ t.owed = 1 THEN "chat"
                   ELSE "persist",
         ![c].role = "tool",
         ![c].calls = 0,
         ![c].row = 0,
         ![c].owed = IF t.role = "assistant" THEN t.calls
                     ELSE IF t.role = "tool" THEN t.owed - 1
                     ELSE 0]
    /\ UNCHANGED <<stored, summary, pending, sends>>

\* dispatchToolCalls: Dispatch has waited for every tool, and the results are stored one
\* by one. A tool may never return: a shell command waits for an answer without a limit.
\* Without a dispatcher the turn ends.
DispatchToolCalls(c) ==
    /\ turn[c].at = "tools"
    /\ turn' = [turn EXCEPT ![c].at = "persist"] \/ Return(c)
    /\ UNCHANGED <<history, stored, summary, pending, sends>>

\* A mutated form: one round too many.
OneRoundMore(c) == turn[c].left >= 0

RoundsLeft(c) == turn[c].left > 0

\* One round of runToolLoop, or the stream that SendStream reads to its end.
Chat(c) ==
    /\ turn[c].at = "chat"
    /\ RoundsLeft(c)
    /\ \E calls \in 0..MaxCalls :
         turn' = [turn EXCEPT ![c].at = "persist", ![c].role = "assistant",
                              ![c].calls = calls, ![c].left = @ - 1]
    /\ UNCHANGED <<history, stored, summary, pending, sends>>

\* The provider returns an error, or the rounds are used up.
ChatFails(c) ==
    /\ turn[c].at = "chat"
    /\ Return(c)
    /\ UNCHANGED <<history, stored, summary, pending, sends>>
-----------------------------------------------------------------------------
(***************************************************************************)
(* maybeStartSummarization.                                                *)
(***************************************************************************)
\* A mutated form: the compare-and-swap is forgotten.
StartAlways(c) ==
    /\ tasks' = tasks \cup {[at |-> "summarize", snapshot |-> history, remaining |-> <<>>]}
    /\ summarizing' = TRUE

StartOnce(c) ==
    \/ summarizing /\ UNCHANGED summary
    \/ /\ ~ summarizing
       /\ summarizing' = TRUE
       /\ tasks' = tasks \cup {[at |-> "summarize", snapshot |-> history, remaining |-> <<>>]}

MaybeStartSummarization(c) ==
    /\ turn[c].at = "complete"
    /\ StartOnce(c)
    /\ Return(c)
    /\ UNCHANGED <<history, stored, pending, sends>>

Step(t, next) == tasks' = (tasks \ {t}) \cup {next}

UserTurns(h) == Cardinality({i \in DOMAIN h : h[i].role = "user"})

\* findSplitPoint, for some sizes of the messages: the first user message after the
\* one that reaches half of the tokens, else the message after it, else the middle.
Splits(h) ==
    {i \in 1..Len(h) - 1 : h[i + 1].role = "user"}
      \cup {i \in 1..Len(h) : \A j \in i + 1..Len(h) : h[j].role # "user"}
      \cup {Len(h) \div 2}

\* MaybeSummarize: an error, a history that is short or under the threshold, or a
\* summary of the messages before the split point and the rest.
Summarize(t) ==
    /\ t.at = "summarize"
    /\ \/ Step(t, [t EXCEPT !.at = "release"])
       \/ /\ UserTurns(t.snapshot) >= MinUserTurns
          /\ \E split \in Splits(t.snapshot) \ {0} :
               LET older == SubSeq(t.snapshot, 1, split)
                   newer == SubSeq(t.snapshot, split + 1, Len(t.snapshot)) IN
               Step(t, [t EXCEPT !.at = "deliver",
                                 !.remaining = <<Draft("system", 0, Rows(older))>> \o newer])
    /\ UNCHANGED <<history, stored, turn, summarizing, pending, sends>>

Result(t) == [snapshot |-> t.snapshot, remaining |-> t.remaining]

\* The channel is free, or its stale result is to be drained.
Deliver(t) ==
    /\ t.at = "deliver"
    /\ \/ pending = None /\ pending' = Result(t) /\ Step(t, [t EXCEPT !.at = "release"])
       \/ pending # None /\ UNCHANGED pending /\ Step(t, [t EXCEPT !.at = "drain"])
    /\ UNCHANGED <<history, stored, turn, summarizing, sends>>

Drain(t) ==
    /\ t.at = "drain"
    /\ pending' = None
    /\ Step(t, [t EXCEPT !.at = "replace"])
    /\ UNCHANGED <<history, stored, turn, summarizing, sends>>

\* No other goroutine can have filled the channel since.
Replace(t) ==
    /\ t.at = "replace"
    /\ pending' = IF pending = None THEN Result(t) ELSE pending
    /\ Step(t, [t EXCEPT !.at = "release"])
    /\ UNCHANGED <<history, stored, turn, summarizing, sends>>

\* A mutated form: the flag is cleared only when a result was delivered.
ReleaseDelivered(t) ==
    /\ t.at = "release"
    /\ tasks' = tasks \ {t}
    /\ summarizing' = (t.remaining = <<>>)
    /\ UNCHANGED <<history, stored, turn, pending, sends>>

Release(t) ==
    /\ t.at = "release"
    /\ tasks' = tasks \ {t}
    /\ summarizing' = FALSE
    /\ UNCHANGED <<history, stored, turn, pending, sends>>
-----------------------------------------------------------------------------
\* The process stops; the next one loads the session with GetOrCreate.
Restart ==
    /\ history' = stored
    /\ turn' = [c \in Callers |-> Idle]
    /\ summarizing' = FALSE
    /\ tasks' = {}
    /\ pending' = None
    /\ UNCHANGED <<stored, sends>>

Init ==
    /\ history = <<>>
    /\ stored = <<>>
    /\ turn = [c \in Callers |-> Idle]
    /\ summarizing = FALSE
    /\ tasks = {}
    /\ pending = None
    /\ sends = 0

\* The steps a caller takes by itself; it does not answer for its tools.
CallerStep(c) ==
    \/ ReconcileHistory(c) \/ PersistMessage(c) \/ AppendMessage(c)
    \/ Chat(c) \/ ChatFails(c) \/ MaybeStartSummarization(c)

TaskStep == \E t \in tasks : Summarize(t) \/ Deliver(t) \/ Drain(t) \/ Replace(t) \/ Release(t)

Next ==
    \/ \E c \in Callers : Send(c) \/ CallerStep(c) \/ DispatchToolCalls(c)
    \/ TaskStep
    \/ Restart

Spec == Init /\ [][Next]_vars

\* Requests to the provider return, because the router and the HTTP client give each a
\* time limit, those to the database do, and goroutines run. What SendStream writes to its
\* channel is read up to Done, and the channel's 64 places take the chunk or two that
\* follow. Nothing makes a tool return.
FairSpec ==
    /\ Spec
    /\ \A c \in Callers : WF_vars(CallerStep(c))
    /\ WF_vars(TaskStep)
-----------------------------------------------------------------------------
(***************************************************************************)
(* Properties.                                                             *)
(***************************************************************************)
Results == [snapshot : Seq(Message), remaining : Seq(Message)]

\* Every variable stays in its range.
TypeOK ==
    /\ history \in Seq(Message)
    /\ stored \in Seq(Message)
    /\ turn \in [Callers ->
         [at : {"idle", "reconcile", "persist", "append", "chat", "tools", "complete"}, role : Roles,
          calls : 0..MaxCalls, row : Nat, left : 0..MaxToolRounds + 1, owed : 0..MaxCalls,
          held : Results \cup {None}]]
    /\ summarizing \in BOOLEAN
    /\ tasks \subseteq
         [at : {"summarize", "deliver", "drain", "replace", "release"},
          snapshot : Seq(Message), remaining : Seq(Message)]
    /\ pending \in Results \cup {None}
    /\ sends \in 0..MaxSends

\* What the next request shows the provider is in the database: a message is written
\* first and appended only when that succeeded, whoever else writes at the same time,
\* and no reconciliation brings anything else in ("prevents session/SQLite divergence").
HistoryIsStored ==
    \A i \in DOMAIN history :
        /\ history[i].rows \subseteq DOMAIN stored
        /\ history[i].role # "system" =>
             \E r \in history[i].rows : history[i] = stored[r]

\* No message is shown to the provider twice, verbatim or as part of a summary, even
\* when a result is applied to a history that another result has shortened meanwhile.
EachMessageOnce ==
    \A i, j \in DOMAIN history : i # j => history[i].rows \cap history[j].rows = {}

IsPrefixOf(s, h) == Len(s) <= Len(h) /\ SubSeq(h, 1, Len(s)) = s

\* As long as the history has only been appended to since the snapshot was taken,
\* reconciliation keeps every message, also those another caller has just added.
AppendOnlyLosesNothing ==
    [][\A c \in Callers :
         /\ turn[c].at = "reconcile"
         /\ turn'[c].at = "persist"
         /\ IsPrefixOf(turn[c].held.snapshot, history)
         => Rows(history) \subseteq Rows(history')]_vars

\* At most one goroutine summarizes the conversation, and the flag says whether one does.
OneSummarizer == Cardinality(tasks) = IF summarizing THEN 1 ELSE 0

\* Every call returns whose tools do, whatever the other callers, the summarization and
\* the database do meanwhile; a call may stay for ever only where it waits for its tools.
TurnsEnd ==
    \A c \in Callers :
      []<>(turn[c].at # "tools") => (turn[c].at # "idle" ~> turn[c].at = "idle")

\* The flag is always cleared: else no later turn is ever summarized.
SummaryEnds == summarizing ~> ~ summarizing

\* "INVARIANT: Session.History is append-only between snapshot capture and
\* pending-summary application", and reconciliation is "preserving any messages added
\* since the snapshot was taken": no step takes a message from the history.
NothingForgotten == [][Rows(history) \subseteq Rows(history')]_vars
=============================================================================
