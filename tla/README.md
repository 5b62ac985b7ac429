# gogoclaw: TLA+ models and proofs

gogoclaw is a personal agent runtime written in Go. Channels (a terminal interface, a
REST API, Telegram) hand a user's message to an engine, which asks a language-model
provider, runs the tools the model calls, keeps the conversation in SQLite and
summarizes what becomes too long. This directory models its stateful parts in TLA+,
checks them with TLC and proves with TLAPS, for all values of the constants, every safety
property of the modules, two refinements and the safety parts of the liveness properties.

Paths below are relative to `src/internal/` unless they begin with `cmd/` or `docs/`.
`PROJECT.json` lists every run, the lines each definition models, the hazards and the
findings.

## The system

| Component | State | Operations | Hard behaviour | Correct when |
|---|---|---|---|---|
| Encryption and `rotate-key` (`storage/rotation.go`, `storage/encryption.go`, `app/rotation.go`, `app/storage.go`, `cmd/gogoclaw/main.go`) | encrypted rows, audit lines, key and salt files with `.new` and `.bak` | resolve both keys, rotate in batches, rewrite the log, promote, clean up; migrate plaintext at start | a crash between any two durable steps, attempts resumed with other flags, a cursor that compares otherwise than the query sorts | no used key is lost; success means nothing is left under the old key; it ends (the first two hold for databases of one batch) |
| Engine and session (`engine/engine.go`, `session.go`, `persistence.go`, `session_manager.go`) | the history, the summarizing flag, the pending summary; the sessions and the conversations known to exist | `Send`, `SendStream`, tool loop, reconciliation, `GetOrCreate`, `persistMessage` | callers that share a session or create it at once, a background goroutine with a copy of the history, failed writes, restarts | the history is a faithful view of the stored messages; one session per key; one summarizer; calls whose tools return do so |
| Summarizer (`memory/summarizer.go`) | none | `MaybeSummarize`, `findSplitPoint` | a split at any point of the history | it replaces a prefix |
| Conversation store (`storage/conversations.go`, `migrations.go`) | SQLite tables | insert, read, migrate | two statements outside a transaction, encryption on and off | a write reports what happened |
| Terminal interface (`tui/app.go`) | lock of the input, dialog, stream buffer | keys, stream chunks, confirmations | goroutines that wait on channels, events in any order | input is unlocked, dialogs are answered, text is shown |
| Tool dispatcher, `shell_exec` (`tools/dispatcher.go`, `shell.go`) | registered tools | parallel dispatch, confirmation, timeout | waiting for a person | it returns, and runs what was approved |
| MCP client (`mcp/client.go`, `transport.go`, `app/mcp.go`) | pending calls by id | call, receive, close | late, lost and reordered answers, failures of the connection, deadlines | an answer reaches its own call; nobody waits for ever |
| Streaming provider (`provider/openai_compat.go`) | none | `ChatStream`, `parseSSE` | every way a stream can end | tool calls are complete when they are used |
| Router and PII gate (`provider/router.go`, `pii/gate.go`, `app/security.go`) | the chain, mode and flag built from the configuration | failover, retries, check before sending | timeouts below timeouts, cancellation, one mode for many providers | requests end; in strict mode a private one stays local (in mixed chains it does not) |
| Audit log (`audit/logger.go`) | one file | append a line | lines under several keys | readable with the current key |
| REST (`channel/rest.go`, `app/rest.go`) | token bucket, inbox | middlewares, uploads, `handleMessage` | concurrent requests of one conversation, failing uploads, shutdown | the rate is kept; an answered request is stored |
| Telegram (`channel/telegram.go`) | poller, inbox | access, downloads, chunks of a reply | updates at the same time as requests | no byte of a reply is lost in cutting it |
| Context assembler (`engine/context.go`) | none | `Assemble` | sizes at the boundary of the budget | the newest messages that fit are sent |
| Configuration and bootstrap (`config/`, `agent/bootstrap.go`, `cmd/gogoclaw/main.go`) | `config.yaml` with backups, the files of setup, the marker, the process environment | `migrateConfig`, `Load`, `RunBootstrap`, the reload after it | a crash between any two files, a second attempt with other answers, wiring twice in one process | setup is all or nothing; the program runs as its files say; settings are not lost |
| Schema migrations (`storage/migrations.go`) | version stamp | `runMigrations` | a crash between migration and stamp | the stamp is true |
| Skills (`skill/`) | loaded modules, permissions | registration, execution | a runtime that outlives the engine | all tools are there |
| Network guard (`security/network.go`) | allowlist | `RoundTrip` | lists that differ before and after setup | only confirmed hosts are reached |
| Health monitor (`health/monitor.go`) | status per component | a round of checks | one deadline for all | a status is that of its component |
| Memory, paths, scrubber, other tools | vectors, files | single calls | data | not modelled |

The parts meet in few places. A channel calls `Send` or `SendStream` with a session of
the session manager; the engine calls the provider (router and gate), the dispatcher and
the persistence hook; the dispatcher runs each call in a goroutine, `shell_exec` asks the
terminal's event loop and waits, an MCP tool calls the client; the summarizer's goroutine
and the next turn share a channel of one place; rotation and the application share the
data directory, one process at a time. At its start the program migrates and reads the
configuration, wires the router, gate and guard from it, migrates the database, builds the
engine and, the first time, holds the setup's conversation through that engine before it
wires everything again from the files this has written.

## Modules

| Module | What it is |
|---|---|
| `KeyRotation` | the data directory, the application and `rotate-key` |
| `MCKeyRotation` | its rows and timestamps for TLC |
| `KeyRotationProofs` | proofs about the rows and about the key files |
| `TurnSession`, `TurnSessionProofs` | the turns of a session and its summarization |
| `TuiChat`, `TuiChatProofs` | the terminal interface, streamed turns and shell confirmations |
| `RequestReply` | abstract: what an MCP client promises to its callers |
| `McpClient`, `McpClientProofs` | the client of one MCP server; implements `RequestReply` |
| `Routing` | one request through gate, router and network guard |
| `BootConfig` | functions: answers to files, files to configuration, configuration to wiring |
| `Setup` | abstract: what first-time setup promises |
| `Startup`, `StartupProofs` | the program from its start to its end; extends `Routing` and `BootConfig`, implements `Setup` |
| `MCStartup` | its answers and first files for TLC |
| `RateLimiter`, `RateLimiterProofs` | the REST channel's token bucket and its clock |
| `Service`, `ServiceProofs` | REST and Telegram handlers, session manager, database, inbox, restarts; extends `RateLimiter` |
| `Splitting`, `ContextWindow` | functions: `SplitMessage`, `Assemble` |
| `MCService`, `MCServiceProofs` | an instance of `Service`, and inputs for the two modules of functions; proofs about the functions |

Operators named as "a mutated form" are plausible bugs; nothing uses them but the
mutation checks listed in `PROJECT.json`.

### KeyRotation

`rows[r]` and `audit[l]` are absent, plaintext, or the key they are encrypted under;
`file` holds the material (an auto-key or a salt) of the six key files; `proc` is the
program counter of the one process; `enc`, `newEnc` and `cursor` are the locals of
`rotate-key`. One action is one durable step: a committed batch
(`RotateEncryptedRows`, `EncryptPlaintextRows`, `MigrateToEncrypted`), the rename of the
audit log, each step of `PromoteKeyFiles`. `Interrupt` ends the process between any two.
`--dry-run` ends before anything is written and is `Decline`.

* Batches are chosen as `ORDER BY created_at, id LIMIT n` does (`SortBefore`); the cursor
  compares as the query does, `datetime()` without the fraction of the second, then id
  (`AfterCursor`). The two orders are different operators because the code's are.
* The program binds `time.Now()` to `created_at` and its data source names no
  `_time_format`, so the driver stores `t.String()`. `datetime()` makes NULL of that, and
  no such row is after any cursor. `Readable` has the rows whose timestamp `datetime()`
  reads: none that the program writes, but all those of the tests.
* Assumed: a file write or rename is atomic and succeeds or stops the process (errors of
  the two `os.Remove` are ignored by the code and not modelled); timestamps do not go
  backwards; the database exists.

### TurnSession

Each caller walks through `applyPendingSummary` (two steps: the receive and the locked
reconciliation), then persist and append for the user's message, each response and each
tool result, and `maybeStartSummarization`. After a response with calls it waits in
`tools` until all of them have returned (`DispatchToolCalls`), which may be never. A
summarization task has the copy of the history, chooses any split `findSplitPoint` can
return for some message sizes, and delivers through the channel of one place with the
code's drain and replace. A message is its role, its number of tool calls and the set of
stored rows it stands for, so a summary stands for all it replaced. `PersistMessage` can
fail before the insert and, for a known conversation, after it (`AddMessage`'s second
statement). `Restart` loads the stored rows; the order of rows with equal timestamps is
taken to be the order of insertion.

### TuiChat

Events of the interface are atomic, as in its event loop; everything else runs between
them. `turn[t]` is the goroutine of `SendStream`, `out[t]` its channel, `readers` the turns
with a `waitForChunk`, `command[c]` the goroutine of a shell command, `answer[c]` its
result channel, `dialog` the command shown and the channel an answer goes to. The reading
of a chunk and the handling of its event are one step, since nothing else reads that
channel; the tools that ask nothing are left out; so are the switch between
conversations, which only changes what is displayed, and other channels' turns.

### McpClient

One step per lock, channel operation or write of `call` and `receiveLoop`; `receiver`
keeps the channel it looked up while the lock is free, which is where a deadline may
strike. The transport is stdio or SSE; an SSE stream may end without an error
(`link = "silent"`), because `readSSE` reports only scanner errors. The first two calls are
those of `InitMCP`, without a deadline. The server may answer as soon as the request is
registered, also before `Send` has returned. Writing is assumed to end, and a server to
answer one request once (`MaxAnswers = 1`): a second answer to a call whose first has not
been taken would hold the receiver.

`RequestReply` has three actions: a call is made, the server answers, a call ends. It knows
of no receiver, connection, deadline or order of answers. The mapping takes for `asked` the
calls that have an id, for `answered` those the server has sent an answer to, and for
`returned` what the calls that are over have got.

### Routing

`wired` is what `InitSecurity` builds and `call` the one request under way, with its place
(`gate`, `attempt`, `backoff`, `streaming`, `done`), the chain's entry, the attempts made
and the providers it has reached. `CheckMessages` is `Gate.Chat` and `Gate.ChatStream`; a
blocked request is answered by the gate, as in the code. `Attempt` is one call of a
provider below the router's own timeout, `AttemptUnsent` one that the guard or a cancelled
context stops before anything is sent. As in the code the next provider is tried whatever
the error was, and whatever kind of provider it is: the gate has looked at the flag of the
first one only. A chain of one provider has no router and one attempt; a stream is never
repeated. The classifier's verdict is the choice `private`.

### Startup

`pc` is the place of `main`; `loading` tells which of the three loads of the configuration
it is in, since the same code fails differently in each: the first ends the program, the
one that validates what setup has written fails the setup, and after the one that reloads
it `main` goes on with a nil configuration and ends in a panic. A disk write is one step.
Files written with `atomicWriteFile` are old or new; `config.yaml` and its backups are
overwritten in place and may be left truncated (`Damaged`): as a text that does not parse,
or as one that does and has a part of the settings or none, with the version or without.
`Stop` kills the process between any two steps and leaves the disk as it is. A migration
of the schema and its version stamp are one transaction of the code and one step of the
model. `ConnectServer` is what `InitMCP` does for one server, with a context that never
ends: it may never happen, and is not one of the program's own steps (`ProgramStep`).

The user's answers are one record, as the model's JSON block is parsed; a file written from
them holds that record, and each reader in `BootConfig` projects from it what the code
reads there. `ProviderFile` is where a conversion matters: the types as the program
understands them. Names of providers are a sorted sequence (`NameOrder`), because the code
sorts them where no chain is configured.

`Setup` has three actions: the user confirms, the attempt is withdrawn, the attempt is
complete. The mapping in `Startup` takes for `confirmed` the profile of the summary in the
process (`Confirmed`), and for `inForce` what the files on disk make of the program once the
marker is there (`InForce`); `ProfileMade` computes both, from the files there are and from
those the summary asks for. `SetupIsAtomic` is the implementation of `Setup!Spec` by
`Startup`: it fails as soon as one file keeps the content of an interrupted attempt, is
written after the marker, or changes later.

### Service

`job[r]` is where the handler of request `r` is, with its conversation, its session and
what its client has heard. Each lock, query and write is a step: `FindSession` and
`LockSessions` are the two halves of `GetOrCreate`'s double check, `LoadSession` its query
under the write lock, `LookUpKnown`, `PersistMessage` and `LearnKnown` the three parts of
`persistMessage`. `PersistMessage` fails before anything is written, in its fast path also
after the row is in, and always once the database is closed. The engine's turn is here its
two stored messages and one answer; `TurnSession` has the rest. `Stop` stands for the
deferred calls of `main`: handlers that still run find the database closed. `Exit` is the
end of the process at any point, and `Start` the next one.

The two modules compose: `Post` and `Get` take their token from `RateLimiter`, whose clock
counts fractions of a second. All authorized requests carry one key, hence one bucket. The
code's floating-point tokens are exact integers (`Minute` units each); its waits of less
than a nanosecond, which are rounded to none, have no counterpart.

`Splitting` and `ContextWindow` are functions without state. TLC evaluates their statements
for all inputs up to a bound, once, in the initial state of `MCService`. A text is the
sequence of its bytes, as `SplitMessage` slices it, with characters of one byte and of two.

## Runs

| Run | Instance | Shows |
|---|---|---|
| `KeyRotation` | 4 rows, batches of 2, one audit line, one passphrase, 3 key materials | `TypeOK`, `NoKeyLoss`, `RotationReachesAll`, `HeldKeysStay`, `CompletionIsDurable`, `EveryPassEnds` |
| `KeyRotationSecondBatch` | 2 rows, batches of 1 | `AllUnderNewKey` fails |
| `TurnSession` | 1 caller, 3 messages, a tool call per response, restarts | `TypeOK`, `EachMessageOnce`, `TurnsEnd` |
| `TurnSessionShared` | 2 callers, 3 messages, restarts | `HistoryIsStored`, `OneSummarizer`, `AppendOnlyLosesNothing`, `SummaryEnds` |
| `TurnSessionStale` | 1 caller, 4 messages | `NothingForgotten` fails |
| `TuiChat` | 2 turns, up to 2 commands per response | `TypeOK`, `RunsOnlyApproved`, `DialogIsAwaited`, `InputUnlocks` |
| `TuiChatFinalText` | 1 turn, 1 command | `FinalTextIsRead` fails |
| `TuiChatDialogs` | 1 turn, 2 commands | `DispatchAlwaysReturns` fails |
| `McpClient` | 5 calls: the two of the start and three at once | `TypeOK`, `NoLeak`, `CallsEndOnce`, `ReceiverMovesOn`, `FailureIsSeen` |
| `Startup` | 2 starts, 2 summaries (one local provider; two cloud providers, one without a name), the user's own local and cloud provider files, `config.yaml` of version 1 or none, 1 retry, 1 MCP server, 1 skill | `TypeOK`, `FlagMatchesChain`, `RunsAsSetUp`, `ToolsComplete`, `KeepsSettings`, `SetupIsAtomic`, `StartEnds`, `RequestEnds` |
| `StartupStrict` | 1 start, a chain with a local provider and then one in the cloud | `StrictStaysLocal` fails |
| `Service` | 2 requests of up to 2 files and an update, one named conversation, 2 starts, 2 chunks, a bucket of one token, 3 ticks; texts of up to 6 bytes | `TypeOK`, `OneSession`, `NoOrphans`, `AnsweredIsStored`, `UploadsExist`, `LockIsReleased`, `RetryAfterSuffices`, `SplitLosesNothing`, `HistoryFits`, `TokensAreSpent` |

Why the bounds are enough:

* `KeyRotation`: three materials are a first key, the key of a rotation and the key of a
  second rotation, and so a backup that is overwritten; one passphrase gives all four
  combinations of sources. Databases of up to four rows and batches of two give those that
  fit one batch, which `NoKeyLoss` and `RotationReachesAll` are about, and larger ones, in
  which the second query finds a row (the third, in the form of the tests) and skips another
  (the fourth, in the form of the program). In the program every row is like the fourth:
  what is checked of the key files and of the end of an attempt includes both.
* `TurnSession`: two summaries in flight need three messages; the threshold in user turns is
  1 (the code's is larger), which only makes results more frequent. That both are applied,
  with a history that has grown again in between, needs a fourth message: this is run
  `TurnSessionStale`, and theorem `OneCallerShowsOnce` has any number. `TurnSessionShared`
  leaves tool calls out and has a second caller; theorem `TurnsGetShorter` is about any
  number of callers with tool calls.
* `TuiChat`: a turn that is still running when the next one starts needs two turns; the
  dialog that is replaced needs two commands. One round of the tool loop is enough to come
  back to a dispatch. The 64 places of the stream's channel are never filled by the bounds,
  and the model has no limit in their place.
* `McpClient`: three concurrent calls after the start have one that is late, one that is
  waiting and one that fails. `CHECK_DEADLOCK FALSE` because all calls of the bound may
  have been made and the connection closed: nothing is left to do.
* `Startup`: an attempt that is interrupted and a second one with other answers need two
  starts; a start that finds the marker after a setup, too. Two summaries that differ in
  the names and number of providers leave different files behind. The first files put a
  chain of mixed kinds before setup. `StartupStrict` needs one start, whose setup names a
  local provider before one in the cloud. One retry is enough for a backoff that ends and
  one that is cancelled. Starts are bounded, so the run ends with the program off:
  `CHECK_DEADLOCK FALSE`.
* `Service`: the double check needs two handlers of one key, and another channel's handler
  to have two sessions over one conversation; a memory that is lost and a row that is not
  needs a restart. A bucket of one token is empty after one request; two ticks are one
  token, the time in between has a part of one, and a third tick is more than the bucket
  holds. Requests differ in their names only (`SYMMETRY`). `SplitLosesNothing` is about all
  texts of at most 6 bytes in messages of 3, which makes up to three parts, and of 4,
  where the first quarter is one byte, `HistoryFits` about all histories of up to 3
  messages of sizes 0 to 4 for a model of 6 with 2 for the answer. Requests are bounded:
  `CHECK_DEADLOCK FALSE`. Of two files the second may fail, or the process die, after the
  first is stored. `Stop` forgets the bucket, which nothing reads once the listener is
  closed.

The other runs check for deadlock: in `KeyRotation` a process can always be started, in
`TurnSession` always be restarted, and in `TuiChat` a new conversation can always be asked
for, unless a dialog is shown, which then has an answer.

### Fairness

Fairness is stated per goroutine or process and only for steps the code takes by itself.

* `KeyRotation`: the steps of a confirmed rotation and of the migration. Not: that anybody
  starts a process or answers a question. `Interrupt` is unconstrained.
* `TurnSession`: each caller and the summarization goroutine. This contains that requests
  to the provider and the database return: the provider's HTTP client and the contexts
  have timeouts (60 s for a summary). Nothing makes a tool return: `DispatchToolCalls` has
  no fairness, and `TurnsEnd` is about a caller that is again and again not waiting for
  its tools.
* `TuiChat`: each goroutine and the reading of each channel, the end of a stream (not that
  it holds any text), and that the user answers a dialog that is shown.
* `McpClient`: each call and the receiver, the end of a write, and the deadline of calls
  that have one. Nothing is assumed of the server.
* `Startup`: the program's own steps, as one process (`WF_vars(ProgramStep)`). This contains
  that an attempt at a provider ends, for which the router and the HTTP client have
  timeouts. Nothing is assumed of MCP servers (`ConnectServer` has no fairness, since
  `InitMCP` waits without a limit), of the user, of `Stop` or of a cancellation.
  `StartEnds` is about starts whose servers answer, and ends at the user's turn.
* `Service`: none; its properties are about safety.

### Findings

Statements of the source and its documents that are not true of the code; each has a run
that ends in TLC's counterexample.

1. `storage/rotation.go:121` against `:35` (`KeyRotationSecondBatch`): with timestamps as
   the program stores them the cursor's comparison is with NULL, so a rotation ends after
   the first batch of 100 rows. The others stay under the old key, and rotation reports
   success. The tests store another form of timestamp. The next rotation overwrites the
   backup of the only key that reads those rows (`app/rotation.go:143`).
2. `engine/engine.go:437` against `engine/session.go:24` (`TurnSessionStale`): while one
   result waits, the next summarization may start with the unshortened history; when both
   are applied in turn, messages between them can be cut. The length check does not tell.
3. `tui/app.go:419` against `engine/engine.go:220` (`TuiChatFinalText`): the interface stops
   reading at the provider's Done, before the text after the tool loop is sent.
4. `tui/app.go:468` against `tools/dispatcher.go:108` (`TuiChatDialogs`): the dialog of a
   second command replaces the first, which is never answered; the confirmation ignores
   its context.
5. `pii/gate.go:162` against `docs/gogoclaw-build-plan.md:508` (`StartupStrict`): the gate
   lets a private request through to a chain whose first provider is local, and the router's
   failover takes it to a cloud provider.

Other differences met on the way, which the models have but no run is about. Each is
also a hazard in `PROJECT.json` or a restriction in a property's comment.

* For timestamps that `datetime()` reads, which it does without the fraction of the second,
  the cursor may still skip a row of the same second as the last row of a batch, when its
  random id is smaller (`storage/rotation.go:121`).
* An attempt that is interrupted after the audit log was renamed and before the key was
  promoted cannot be resumed: the log is decrypted with the old key alone
  (`storage/rotation.go:410`; `:40` says "re-running with the same encryptors resumes
  safely"). The model's `RejectLine` is this step.
* `Close` of a stdio MCP server waits for its process without a limit
  (`mcp/transport.go:105`; `mcp/client.go:177` says "don't block forever").
* `InitMCP` waits for a server's answer without a limit (`app/mcp.go:46`), and so does the
  start: `StartEnds` leaves such starts out.
* A text without separators is cut after a number of bytes, also inside a character
  (`channel/telegram.go:479`; `:465` speaks of characters).
* A part of a reply that has only spaces is trimmed to nothing (`channel/telegram.go:493`).
  Telegram refuses an empty message, and `sendChunks` (`:345`) then drops the parts that
  follow. `SplitLosesNothing` is about the parts, not about their way to Telegram.
* A failing reload after setup leaves a nil configuration, and `InitMCP` panics
  (`cmd/gogoclaw/main.go:120`).
* A damaged `config.yaml` without a version overwrites the backup of the settings that had
  none either. `KeepsSettings` is about settings with a version.
* Two providers without a name are written to one file (`agent/bootstrap.go:391`):
  `NamesAreDistinct`.
* Telegram enabled without the name of a variable: `telegram.yaml` gets a default one, but
  the user is not asked for its value (`agent/bootstrap.go:574`).
* The prompt for a Telegram document names `inbox/<name>`, but the file is stored under
  another (`channel/telegram.go:271` and `:445`). `UploadsExist` is about REST.
* The audit middleware is the innermost: requests refused with 401 or 429 are not logged
  (`channel/rest.go:221`: "logs every REST request").
* Two channels that name one conversation have two sessions with separate histories over
  one stored conversation (`engine/session_manager.go:14`).

## Proofs

`tlapm` proves, for arbitrary constants, every invariant that a passing run checks, the
action properties `HeldKeysStay`, `CompletionIsDurable`, `KeepsSettings`,
`AppendOnlyLosesNothing` and `TokensAreSpent`, and the refinements `SetupIsAtomic` and
`CallsEndOnce`. Each proof has the same form: an inductive invariant, one lemma or step
per action or group of actions, and a short temporal conclusion. `PROJECT.json` lists the
theorems.

A liveness property cannot be proved here, but what it owes to the code and not to
fairness can: that every step of the actor comes nearer to its end, by a measure in the
natural numbers, and that nobody else takes it back. The sections below state this for
each of them.

### Assumptions and hypotheses

The assumptions are the `ASSUME`s of the models, which TLC evaluates on the runs' instances:

* sizes are numbers (`BoundsAssumption`, `RateAssumption`, `RetriesAssumption`,
  `RowsAssumption`, `FirstAssumption`, `WindowAssumption`, `SplittingAssumption`), and the
  values that stand for nothing are none of the others (`SentinelAssumption`, `NoBucket`,
  `NoFileAssumption`);
* the database has finitely many rows (`RowsAssumption`) and the configuration finitely many
  MCP servers (`ServersAssumption`);
* names, answers and first files have the form the code gives them (`NamesAreOrdered`,
  `AnswersAssumption`, `FirstAssumption`), two literals of the model are strings
  (`HostsAreStrings`, which the provers do not know), and the user gives two providers
  different names (`NamesAreDistinct`), which the code does not check: see the findings.

Some theorems have a hypothesis in their statement, since the code does not establish it
and the statement is false without it:

* `Callers = {c}` for `OneCallerShowsOnce`: a second caller can break it. A result that one
  caller holds while the other's turns shorten the history and let it grow again brings
  messages back, and a summary of the short history is then applied to it. It takes seven
  turns and more, beyond the bounds of run `TurnSessionShared`.
* `MaxAnswers <= 1` for `ReceiverIsNeverHeldUp`: a server may answer twice.

### Key rotation

`KeyRotationProofs`: `RotationLosesNoKey` and `RotationIsComplete` state `NoKeyLoss` and
`RotationReachesAll` for every batch size, number of rotations, passphrase and crash,
whatever the times and ids of the rows. Both properties have a condition on the state,
`OneBatch`: there have not been more rows than a batch takes (100 in the code). Finding 1 is
the case of one more row. `NothingLost`, what `NoKeyLoss` says under that condition, is not
inductive: promotion overwrites and removes files without looking at the data. `IInv`
carries what makes it safe, phase by phase: `EncOnDisk` (the key a process holds is still in
its file), `NewEncStaged` (the new key is staged before anything is written under it),
`PassedRowsRotated` (once there is a cursor, all encrypted rows are under the new key: the
first query had them all), `RowsRotated` and `LinesRotated` (what is left of the old key
after each pass) and `NewEncPromoted`. When the rename comes, every row and encrypted line
is under the new key, so whatever the files lose is unused. `OneBatch => IInv` is the
invariant: no row is ever deleted (`RowsStay`), so a database that fits one batch after a
step did so before it (`BatchFitted`).

`RotationTypes` (`TypeOK`), `CompletionLeavesFiles` (`CompletionIsDurable`) and
`HeldKeysAreKept` (`HeldKeysStay`) have no such condition: `FileInv` speaks of files and
encryptors only, and no step on the data changes them. The last one is what remains true
of larger databases: wherever a process stops, the keys it held are in key files. What
it skipped is lost only by a later rotation, which did not hold its key.

Nor has the safety part of `EveryPassEnds`. `AttemptsAdvance`: with n rows a confirmed
rotation is over after 2n + 8 of its steps, and the migration after n + 1 batches, also
where the cursor skips rows, since every batch takes the cursor past at least one row or
makes one row encrypted. `AttemptsMayGoOn`: the next step exists at each place. Whatever
rows are left, a batch can be chosen from them (`BatchExists`, by induction on their
number), and the key files that promotion renames are there.

### The turns of a session

`TurnSessionProofs`, for any number of callers, messages, calls and rounds. Lemmas on
histories come first: what `UpTo`, `From`, concatenation and `Append` do to the rows of a
history.

* `ShownIsStored` (`HistoryIsStored`): the history is backed by the database only because
  everything that may become a history is: the copies of the summarization, the result
  that waits and the one a caller holds. `StoredInv` says so of all of them, and that rows
  are only added.
* `SummarizersAreCounted` (`OneSummarizer`): from `OnlyTask`, the flag is set exactly while
  there is one goroutine.
* `ReconcileKeepsAll` (`AppendOnlyLosesNothing`): from `FaithfulInv`, a result stands for
  the rows of its snapshot and is no longer than it.
* `OneCallerShowsOnce` (`EachMessageOnce`): the deepest invariant, `OnceInv`. That a history
  repeats nothing is not enough: a late result is cut into a history which an earlier one
  has shortened, so the invariant says that beyond the length of any snapshot the history
  has nothing of it (`Past`), that a row on its way into the history is in no snapshot
  (`NotYetShown`), and that while a result waits and another is being made the one caller
  has added nothing (`InTurn`). The last part is where a second caller breaks the property.
* The safety part of `TurnsEnd`: every step of a call makes what is left of it smaller,
  whatever the others do, so that with r rounds of up to k tool calls it takes at most (r
  + 1)(2k + 5) + 5 steps besides its waits for tools (`TurnsGetShorter`). That of
  `SummaryEnds`: the summarization goes through its stages in one direction
  (`SummaryGetsOn`) and is not held up by the channel of one place, since nobody fills it
  between the drain and the send (`DrainedStaysEmpty`).

### The terminal interface

`TuiChatProofs`: `CommandsAreApproved` (`RunsOnlyApproved`) and `KeysNeverBlock`
(`DialogIsAwaited`) need each other and three facts: a command is idle unless the calls of
its turn are being dispatched, is given an answer only while it waits, and counts as
approved exactly from the user's yes to its end.

The safety part of `InputUnlocks` is in two theorems. `LockIsOwned`: whenever the input is
locked there is a turn whose event will unlock it. `UnlockWaitsForNobody`: this event waits
for the provider alone. Once the stream is over, the chunk that unlocks is in the channel,
or the channel is closed by the next step of its goroutine. No tool call, dialog or round of
the tool loop comes in between, so that a dialog which is never answered (finding 4) does
not keep the input locked. The liveness property adds that the event comes.

### The MCP client

`McpClientProofs`: `AnswersAreRouted` (`OwnAnswer`: a call returns its own answer or none)
and `PendingDoesNotLeak` (`NoLeak`) from `McpInv`: an answer in a channel or with the
receiver is the answer to that channel's call, and every call under way is registered while
the receiver runs. `FailureClosesAll` is the safety part of `FailureIsSeen`: the step that
ends the receiver closes the channel of every call that waits. `ReceiverIsNeverHeldUp` is
that of `ReceiverMovesOn`: a send into a channel always finds room, even when its call has
given up.

`ClientRefines` (`CallsEndOnce`) is the refinement of `RequestReply`. `PromiseInv` adds what
the handshake's order and the mapping need: ids are used in order (`IdsInOrder`), the calls
of the handshake have been answered where the phase says so (`Handshaken`), and an answer on
its way has been sent (`AnswersAreSent`).

### The REST channel and the service

`RateLimiterProofs`, for every rate and resolution of the clock: `RateInv` is a balance,
what was admitted and what is left in the bucket came from the burst and from the time the
bucket was refilled for. A bound since the first request (`RateBound`) and
`RetryAfterSuffices` follow. `StepSpends` is the same balance for one step.

`ServiceProofs` first describes what each action does to the handlers (`Comes`, `Ends`,
`Answered`), and proves from this, for any number of handlers, conversations and starts:

* `RateIsBounded` and `WaitSuffices`: the handlers' steps use the limiter only through its
  own actions, so its invariant holds of the composition;
* `RequestsCostTokens` (`TokensAreSpent`), and from it `EveryWindowIsBounded`: from any
  moment of a process that serves its channels on, no more requests get through than the
  burst and what the time since then has brought. The steps' balances add up, and what a
  request finds is never more than the burst, which the bound since the first request
  would not need;
* `SessionIsShared` and `LockIsNotLost` (`OneSession`, `LockIsReleased`): a handler that
  loads holds the lock, and its key has no session yet, which is what the second check is
  for;
* `MessagesHaveConversations` (`NoOrphans`): a conversation is taken to exist, by the
  process or by one handler, only when its row is committed;
* `AnswersAreStored` (`AnsweredIsStored`): by what a handler has stored at each of its
  places; failed writes and a closed database do not let it come further;
* `PromptsNameUploads` (`UploadsExist`): files a request lists are complete before it can
  store their names.

### The start and first-time setup

`StartupProofs`, for any answers, names, provider files, servers, skills and starts.
`StepKinds` sorts the steps by what they touch, so that each invariant treats together what
it cannot tell apart.

* `PhaseInv` says which load of the configuration is under way and whether the marker may
  be there. `FilesInv` (a chain is on disk after the files of all its providers) and
  `AttemptInv` (the files written so far are those of the summary under way) speak of the
  attempt. They need what `WriteSteps` is: every file once, the chain last.
* `SetupRefines` (`SetupIsAtomic`): initial states map to initial states, and every step
  confirms, withdraws or completes an attempt or changes neither side (`SetupSteps`). The
  step that writes the marker maps to `Complete` because all files are then those of the
  summary (`WrittenIsProfile`), and what an interrupted attempt has left is not read
  (`ProfileOfFiles`).
* `RunsAsItsFilesSay` (`RunsAsSetUp`) from `WiringInv`: what is wired is the function of the
  files on disk at each stage of the way. `FlagIsRight` (`FlagMatchesChain`) from it and
  `FlagOfFiles`: two functions of the code find the first provider, and they agree.
* `RouteInvariant`: requests reach providers of the chain only, and a blocked one
  reaches none. That they stay local is false (finding 5).
* `SettingsAreKept` (`KeepsSettings`) from `ConfigInv`: before the settings are rewritten
  their backup is complete, and only the settings have a version.
* `ToolsAreComplete` and `StartupTypes` are on their own.
* The safety parts of `StartEnds` and `RequestEnds`. `StartsGetOn`: until it waits for the
  user, every step of the program comes nearer to that, and with n MCP servers none takes
  more than n + 13 steps from the start, though one that does not answer keeps it from
  taking any. `RequestsGetOn`: with n providers and r retries a request is over after n(2r
  + 1) + 2 of its steps, cancelled or not, and no wiring changes under it. `CountInv` and
  `TriesInv` bound what is counted.

### The request's history and the reply's parts

`MCServiceProofs` is about recursive functions, so their existence is proved first
(`RecursionExists`, `TableExists`), and `SetInduction` and `StrongInduction` replace the
library's induction theorems by ones over a set of numbers.

* `HistoryAlwaysFits` (`HistoryFits`), for every history, size of its messages, of the
  prompt and of the tools, and every model: `ExcludedStops` goes back through the history.
  What is included fits into what was left, and the message at which the loop stops, if it
  has a size, does not.
* `SplittingKeepsText` (`SplitLosesNothing`), for every text and limit. `SplitAtRange`: a
  cut is within the limit and beyond its first quarter, whatever separators there are, so
  the loop gets on. `SplitCovers` then builds the places between which the parts stand
  from the end of the text: `RestIsCovered` where the loop ends, `PartIsAdded` for one
  more part.

### Only model-checked

* Liveness under fairness, and what needs `ENABLED`, is beyond the prover:
  `EveryPassEnds`, `TurnsEnd`, `SummaryEnds`, `InputUnlocks`, `ReceiverMovesOn`,
  `FailureIsSeen`, `StartEnds`, `RequestEnds`. The safety parts of all of them are proved,
  as said above. TLC adds that the steps are taken.

## Not modelled

* The content of messages, prompts, summaries, audit events; encoding and encryption
  themselves; layout of the terminal: data no property depends on.
* The classifier, scrubber, path checks and wildcards of hosts: stateless functions on
  strings.
* The health monitor: one goroutine writes and one display reads under one lock; its only
  hazard, the deadline shared by a round, is about what is shown until the next one.
* Long-term memory: calls of a vector store, one per fact, whose failures are skipped.
* The capability broker: nothing calls the host functions it grants.
* The poller and the webhook of Telegram, which are telebot's.
* WASM execution, SQLite, HTTP, Bubble Tea: third-party code, present only as the
  outcomes the repository's code handles.
* Dead code: the config watcher, per-conversation PII overrides, `DeleteConversation`, the
  daily memory file and the channels' outgoing `Send` have no caller; the boundary
  summarizer does nothing.
* `gogoclaw-stresstest`, a test tool.

## Plan

* `ENABLED` and fairness stay with TLC until the prover can treat them.
