------------------------------ MODULE Service ------------------------------
(***************************************************************************)
(* The process as its clients see it: the handlers of REST requests and of  *)
(* Telegram updates run at the same time, on the sessions of one           *)
(* SessionManager, one database and one inbox, while the process is         *)
(* stopped, killed and started again.                                      *)
(*                                                                         *)
(* A turn of the engine is here its writes to the database and one answer  *)
(* of the provider; TurnSession has the rest. A conversation is a value a   *)
(* client may name, or, for a request that names none, the request itself  *)
(* (a new UUID). A file is who sent it and a number: 0 is the name         *)
(* Telegram gives it, which is not the name it is stored under.            *)
(***************************************************************************)
EXTENDS RateLimiter, FiniteSets

CONSTANTS
    Requests,     \* POST /api/message
    Updates,      \* Telegram messages
    Chats,        \* conversations a client can name
    MaxTime,      \* bound: the clock
    MaxStarts,    \* bound: starts of the process
    MaxFiles,     \* bound: files in one request
    MaxChunks     \* bound: messages one reply is split into

ASSUME BoundsAssumption ==
    /\ Requests \cap Updates = {}
    /\ Chats \cap Requests = {}
    /\ {MaxTime, MaxStarts, MaxFiles, MaxChunks} \subseteq Nat

VARIABLES
    phase,           \* whether the process runs, and whether its database is open
    starts,          \* starts so far
    job,             \* job[r]: where the handler of r is, or what r's client was told
    holder,          \* who holds sm.mu for writing
    sessions,        \* SessionManager.sessions: each session by the handler that made it
    known,           \* SessionManager.knownConversations
    conversations,   \* the conversations table
    rows,            \* the messages table
    inbox            \* the files of the inbox that are complete

vars     == <<phase, starts, limiter, job, holder, sessions, known,
              conversations, rows, inbox>>
process  == <<phase, starts>>
manager  == <<holder, sessions, known>>
database == <<conversations, rows>>

Handlers      == Requests \cup Updates
Conversations == Chats \cup Requests
Channel(r)    == IF r \in Requests THEN "rest" ELSE "telegram"
Keys          == {"rest", "telegram"} \X Conversations
Key(r)        == <<Channel(r), job[r].conv>>

ASSUME SentinelAssumption == None \notin Handlers \cup Conversations

Unsent == [at |-> "unsent", conv |-> None, left |-> 0, files |-> {}, session |-> None,
           role |-> "user", known |-> FALSE, heard |-> FALSE]

\* No handler runs: none has begun, or it has returned, or died with the process.
Running(r) == job[r].at \notin {"unsent", "ended"}

Goto(r, at) == job' = [job EXCEPT ![r].at = at]

\* What is left of a handler is what its client heard, and where.
Over(j) == [Unsent EXCEPT !.at = "ended", !.heard = j.heard,
                          !.conv = IF j.heard THEN j.conv ELSE None]

\* The handler returns, most often with an error.
End(r) == job' = [job EXCEPT ![r] = Over(job[r])]
-----------------------------------------------------------------------------
(***************************************************************************)
(* What arrives.                                                           *)
(***************************************************************************)
\* corsMiddleware and authMiddleware answer for the handler: no token is taken.
Reject(r) ==
    /\ phase = "running"
    /\ job[r].at = "unsent"
    /\ End(r)
    /\ UNCHANGED <<process, limiter, manager, database, inbox>>

\* rateLimitMiddleware and the parsing of the body. A client that was told to wait may
\* ask again. A body without files is validated here.
Post(r) ==
    /\ phase = "running"
    /\ job[r].at = "unsent"
    /\ \/ Refuse /\ UNCHANGED job
       \/ Allow /\ \/ End(r)
                   \/ \E conv \in Chats \cup {r} :
                        job' = [job EXCEPT ![r].at = "find", ![r].conv = conv]
                   \/ \E conv \in Chats \cup {r}, files \in 1..MaxFiles :
                        job' = [job EXCEPT ![r].at = "upload", ![r].conv = conv,
                                           ![r].left = files]
    /\ UNCHANGED <<process, manager, database, inbox>>

\* handleHealth and handleConversations only read, at the price of a token.
Get ==
    /\ phase = "running"
    /\ Allow \/ Refuse
    /\ UNCHANGED <<process, job, manager, database, inbox>>

\* A mutated form: a file that cannot be saved is listed all the same.
SaveUploadLoosely(r) ==
    /\ job[r].at = "upload"
    /\ inbox' \in {inbox, inbox \cup {<<r, job[r].left>>}}
    /\ job' = [job EXCEPT ![r].at = IF job[r].left = 1 THEN "find" ELSE "upload",
                          ![r].left = @ - 1,
                          ![r].files = @ \cup {<<r, job[r].left>>}]
    /\ UNCHANGED <<process, limiter, manager, database>>

\* saveUpload, for one file; what was saved before stays when one fails. The text and
\* the conversation's name are looked at after the last.
SaveUpload(r) ==
    /\ job[r].at = "upload"
    /\ \/ /\ inbox' = inbox \cup {<<r, job[r].left>>}
          /\ \/ job' = [job EXCEPT ![r].at = IF job[r].left = 1 THEN "find" ELSE "upload",
                                   ![r].left = @ - 1,
                                   ![r].files = @ \cup {<<r, job[r].left>>}]
             \/ job[r].left = 1 /\ End(r)
       \/ End(r) /\ UNCHANGED inbox
    /\ UNCHANGED <<process, limiter, manager, database>>

\* checkAccess answers, or drops the update.
CheckAccess(u) ==
    /\ phase = "running"
    /\ job[u].at = "unsent"
    /\ End(u)
    /\ UNCHANGED <<process, limiter, manager, database, inbox>>

\* onText, onDocument and onPhoto up to the download; a message that lost its file ends.
Receive(u) ==
    /\ phase = "running"
    /\ job[u].at = "unsent"
    /\ \E conv \in Chats :
         \/ End(u)
         \/ job' = [job EXCEPT ![u].at = "find", ![u].conv = conv]
         \/ job' = [job EXCEPT ![u].at = "download", ![u].conv = conv]
    /\ UNCHANGED <<process, limiter, manager, database, inbox>>

\* downloadFile. The prompt names the file as it was sent.
DownloadFile(u) ==
    /\ job[u].at = "download"
    /\ \/ inbox' = inbox \cup {<<u, 1>>} /\ job' = [job EXCEPT ![u].at = "find",
                                                               ![u].files = {<<u, 0>>}]
       \/ End(u) /\ UNCHANGED inbox
    /\ UNCHANGED <<process, limiter, manager, database>>
-----------------------------------------------------------------------------
(***************************************************************************)
(* SessionManager.                                                         *)
(***************************************************************************)
Use(r, session) == job' = [job EXCEPT ![r].at = "persist", ![r].session = session]

\* GetOrCreate under the read lock.
FindSession(r) ==
    /\ job[r].at = "find"
    /\ holder = None
    /\ IF sessions[Key(r)] # None THEN Use(r, sessions[Key(r)]) ELSE Goto(r, "lock")
    /\ UNCHANGED <<process, limiter, manager, database, inbox>>

\* A mutated form: the map is not looked at again under the write lock.
LockUnchecked(r) ==
    /\ job[r].at = "lock"
    /\ holder = None
    /\ holder' = r
    /\ Goto(r, "load")
    /\ UNCHANGED <<process, limiter, sessions, known, database, inbox>>

\* GetOrCreate under the write lock, up to the query.
LockSessions(r) ==
    /\ job[r].at = "lock"
    /\ holder = None
    /\ IF sessions[Key(r)] # None
         THEN Use(r, sessions[Key(r)]) /\ UNCHANGED holder
         ELSE Goto(r, "load") /\ holder' = r
    /\ UNCHANGED <<process, limiter, sessions, known, database, inbox>>

HasRows(conv) == \E row \in rows : row.conv = conv

\* A mutated form: a conversation that could be loaded is taken to exist.
ExistsIfLoaded(conv) == TRUE

Exists(conv) == HasRows(conv)

\* A mutated form: the failing query returns without unlocking.
LoadKeepingLock(r) ==
    /\ job[r].at = "load"
    /\ \/ /\ phase # "closed"
          /\ sessions' = [sessions EXCEPT ![Key(r)] = r]
          /\ known' = IF Exists(job[r].conv) THEN known \cup {job[r].conv} ELSE known
          /\ Use(r, r)
          /\ holder' = None
       \/ End(r) /\ UNCHANGED manager
    /\ UNCHANGED <<process, limiter, database, inbox>>

\* GetMessages, and the rest of GetOrCreate.
LoadSession(r) ==
    /\ job[r].at = "load"
    /\ \/ /\ phase # "closed"
          /\ sessions' = [sessions EXCEPT ![Key(r)] = r]
          /\ known' = IF Exists(job[r].conv) THEN known \cup {job[r].conv} ELSE known
          /\ Use(r, r)
       \/ End(r) /\ UNCHANGED <<sessions, known>>
    /\ holder' = None
    /\ UNCHANGED <<process, limiter, database, inbox>>

\* persistMessage: is the conversation known to exist?
LookUpKnown(r) ==
    /\ job[r].at = "persist"
    /\ holder = None
    /\ job' = [job EXCEPT ![r].at = "write", ![r].known = job[r].conv \in known]
    /\ UNCHANGED <<process, limiter, manager, database, inbox>>

Row(r) == [conv |-> job[r].conv, role |-> job[r].role, by |-> r, files |-> job[r].files]

\* After the user's message the provider is asked, after its answer the turn is over.
Then(r) == IF job[r].role = "user" THEN "chat" ELSE "reply"

\* A mutated form: an error of the database is logged and the turn goes on.
PersistLoosely(r) ==
    /\ job[r].at = "write"
    /\ \/ /\ phase # "closed"
          /\ rows' = rows \cup {Row(r)}
          /\ conversations' = conversations \cup {job[r].conv}
       \/ UNCHANGED database
    /\ Goto(r, Then(r))
    /\ UNCHANGED <<process, limiter, manager, inbox>>

\* The fast path, AddMessage: no foreign key is enforced, and the message stays when
\* touching the conversation fails. The slow path, EnsureConversationAndAddMessage, is
\* one transaction.
PersistMessage(r) ==
    /\ job[r].at = "write"
    /\ \/ End(r) /\ UNCHANGED database
       \/ /\ phase # "closed"
          /\ job[r].known
          /\ rows' = rows \cup {Row(r)}
          /\ UNCHANGED conversations
          /\ Goto(r, Then(r)) \/ End(r)
       \/ /\ phase # "closed"
          /\ ~ job[r].known
          /\ rows' = rows \cup {Row(r)}
          /\ conversations' = conversations \cup {job[r].conv}
          /\ Goto(r, "learn")
    /\ UNCHANGED <<process, limiter, manager, inbox>>

\* The end of the slow path.
LearnKnown(r) ==
    /\ job[r].at = "learn"
    /\ holder = None
    /\ known' = known \cup {job[r].conv}
    /\ Goto(r, Then(r))
    /\ UNCHANGED <<process, limiter, holder, sessions, database, inbox>>
-----------------------------------------------------------------------------
(***************************************************************************)
(* The answer.                                                             *)
(***************************************************************************)
Chat(r) ==
    /\ job[r].at = "chat"
    /\ \/ job' = [job EXCEPT ![r].at = "persist", ![r].role = "assistant"]
       \/ End(r)
    /\ UNCHANGED <<process, limiter, manager, database, inbox>>

\* Status 200, or sendChunks begins.
Reply(r) ==
    /\ job[r].at = "reply"
    /\ IF r \in Requests
         THEN job' = [job EXCEPT ![r] = Over([@ EXCEPT !.heard = TRUE])]
         ELSE \E chunks \in 1..MaxChunks :
                job' = [job EXCEPT ![r].at = "send", ![r].left = chunks]
    /\ UNCHANGED <<process, limiter, manager, database, inbox>>

\* One message of sendChunks; the rest is not sent when one fails.
SendChunk(u) ==
    /\ job[u].at = "send"
    /\ \/ /\ job[u].left > 1
          /\ job' = [job EXCEPT ![u].left = @ - 1, ![u].heard = TRUE]
       \/ /\ job[u].left = 1
          /\ job' = [job EXCEPT ![u] = Over([@ EXCEPT !.heard = TRUE])]
       \/ End(u)
    /\ UNCHANGED <<process, limiter, manager, database, inbox>>
-----------------------------------------------------------------------------
(***************************************************************************)
(* The process, and the terminal's part of the database.                   *)
(***************************************************************************)
Start ==
    /\ phase = "off"
    /\ starts < MaxStarts
    /\ phase' = "running"
    /\ starts' = starts + 1
    /\ UNCHANGED <<limiter, job, manager, database, inbox>>

\* The terminal is left and main's deferred calls run, the last registered first:
\* polling ends (and waits for no handler), Shutdown closes the listener and returns
\* when no REST handler runs or after its five seconds, and the database is closed. Only
\* this changes what a handler can do; that nothing arrives before is as if it had not,
\* and with the listener closed nothing reads the limiter's bucket any more.
Stop ==
    /\ phase = "running"
    /\ phase' = "closed"
    /\ ForgetLimiter
    /\ UNCHANGED <<starts, job, manager, database, inbox>>

\* main returns, or the process dies at any other point. Its memory is gone: the next
\* process has no session, knows no conversation, and its limiter has no bucket yet.
Exit ==
    /\ phase # "off"
    /\ phase' = "off"
    /\ job' = [r \in Handlers |-> IF Running(r) THEN Over(job[r]) ELSE job[r]]
    /\ ForgetLimiter
    /\ holder' = None
    /\ sessions' = [k \in Keys |-> None]
    /\ known' = {}
    /\ UNCHANGED <<starts, database, inbox>>

\* The terminal begins a conversation, which REST clients may then list and name.
CreateConversation(conv) ==
    /\ phase = "running"
    /\ conv \notin conversations
    /\ conversations' = conversations \cup {conv}
    /\ UNCHANGED <<process, limiter, job, manager, rows, inbox>>

TimePasses ==
    /\ now < MaxTime
    /\ Tick
    /\ UNCHANGED <<process, job, manager, database, inbox>>

Init ==
    /\ phase = "off"
    /\ starts = 0
    /\ NewLimiter
    /\ job = [r \in Handlers |-> Unsent]
    /\ holder = None
    /\ sessions = [k \in Keys |-> None]
    /\ known = {}
    /\ conversations = {}
    /\ rows = {}
    /\ inbox = {}

HandlerStep(r) ==
    \/ SaveUpload(r) \/ DownloadFile(r)
    \/ FindSession(r) \/ LockSessions(r) \/ LoadSession(r)
    \/ LookUpKnown(r) \/ PersistMessage(r) \/ LearnKnown(r)
    \/ Chat(r) \/ Reply(r) \/ SendChunk(r)

Next ==
    \/ \E r \in Requests : Reject(r) \/ Post(r)
    \/ \E u \in Updates : CheckAccess(u) \/ Receive(u)
    \/ Get
    \/ \E r \in Handlers : HandlerStep(r)
    \/ Start \/ Stop \/ Exit
    \/ \E conv \in Chats : CreateConversation(conv)
    \/ TimePasses

Spec == Init /\ [][Next]_vars
-----------------------------------------------------------------------------
(***************************************************************************)
(* Properties.                                                             *)
(***************************************************************************)
Places == {"unsent", "ended", "upload", "download", "find", "lock", "load", "persist", "write",
           "learn", "chat", "reply", "send"}
Files  == Handlers \X (0..MaxFiles + 1)
Rows   == [conv : Conversations, role : {"user", "assistant"}, by : Handlers,
           files : SUBSET Files]

\* Every variable stays in its range.
TypeOK ==
    /\ phase \in {"off", "running", "closed"}
    /\ starts \in 0..MaxStarts
    /\ now \in 0..MaxTime
    /\ bucket \in {None} \cup [tokens : 0..Full, last : 0..now]
    /\ admitted \in Nat
    /\ job \in [Handlers ->
         [at : Places, conv : Conversations \cup {None}, left : Nat, files : SUBSET Files,
          session : Handlers \cup {None}, role : {"user", "assistant"}, known : BOOLEAN, heard : BOOLEAN]]
    /\ holder \in Handlers \cup {None}
    /\ sessions \in [Keys -> Handlers \cup {None}]
    /\ known \subseteq Conversations
    /\ conversations \subseteq Conversations
    /\ rows \subseteq Rows
    /\ inbox \subseteq Files

\* Handlers that work on one conversation of a channel work on one session, the one
\* the manager has, however they were interleaved ("The double-check locking pattern
\* guarantees exactly one Session per key").
OneSession ==
    \A r \in Handlers :
        Running(r) /\ job[r].session # None => sessions[Key(r)] = job[r].session

\* Every message belongs to a conversation of the table, though the database does not
\* enforce it: the fast path is taken only when the conversation's row is committed,
\* across channels, failing writes and restarts.
NoOrphans == \A row \in rows : row.conv \in conversations

\* A client that has its answer, or the first message of it, finds question and answer
\* in the conversation, also when the process dies or is stopped right after.
AnsweredIsStored ==
    \A r \in Handlers : job[r].heard =>
        {"user", "assistant"} \subseteq
            {row.role : row \in {q \in rows : q.by = r /\ q.conv = job[r].conv}}

\* A REST prompt that reached the history names only files that are complete in the
\* inbox, whichever uploads of the request failed.
UploadsExist == \A row \in rows : row.by \in Requests => row.files \subseteq inbox

\* Nobody waits for ever for sm.mu: it is held only by a handler that is about to
\* release it, never by one that has returned or died.
LockIsReleased == holder # None => job[holder].at = "load"
=============================================================================
