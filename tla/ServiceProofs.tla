---------------------------- MODULE ServiceProofs ----------------------------
(***************************************************************************)
(* Proofs about Service, for any requests, updates, conversations, files   *)
(* and chunks, and any number of stops, kills and starts.                  *)
(***************************************************************************)
EXTENDS Service, RateLimiterProofs

\* Where a handler has no session yet, and its user's message is still to be stored.
Before == {"upload", "download", "find", "lock", "load"}

\* A handler at work has a conversation, and what its place asks for.
Placed(r) ==
    /\ job[r].at = "unsent" => job[r] = Unsent
    /\ Running(r) => job[r].conv \in Conversations
    /\ job[r].at = "upload" => job[r].left \in 1..MaxFiles
    /\ job[r].at = "download" => r \in Updates
    /\ job[r].at \in Before => /\ job[r].session = None /\ job[r].role = "user"
                               /\ ~ job[r].known /\ ~ job[r].heard

TypeInv == TypeOK /\ \A r \in Handlers : Placed(r)

\* Who loads a session holds the write lock, and the session is not there yet.
Loading(r) == job[r].at = "load" => holder = r /\ sessions[Key(r)] = None

SessionInv == LockIsReleased /\ OneSession /\ \A r \in Handlers : Loading(r)

\* A conversation is taken to exist only when its row is committed.
KnownExist ==
    /\ known \subseteq conversations
    /\ \A r \in Handlers : /\ job[r].known => job[r].conv \in conversations
                           /\ job[r].at = "learn" => job[r].conv \in conversations

OrphanInv == NoOrphans /\ KnownExist

\* Handler r has stored a message of this role in the conversation it works on.
HasStored(r, role) == \E row \in rows : row.by = r /\ row.conv = job[r].conv /\ row.role = role

\* What a handler has stored when it comes to each place.
Stored(r) ==
    /\ job[r].at \in {"persist", "write"} /\ job[r].role = "assistant" => HasStored(r, "user")
    /\ job[r].at = "learn" => HasStored(r, "user") /\ HasStored(r, job[r].role)
    /\ job[r].at = "chat" => HasStored(r, "user")
    /\ job[r].at \in {"reply", "send"} => HasStored(r, "user") /\ HasStored(r, "assistant")
    /\ job[r].heard => HasStored(r, "user") /\ HasStored(r, "assistant")

AnswerInv == \A r \in Handlers : Stored(r)

\* The files a request lists are complete before it can store their names.
FilesSaved == \A r \in Requests : job[r].files \subseteq inbox

UploadInv == UploadsExist /\ FilesSaved
-----------------------------------------------------------------------------
(***************************************************************************)
(* How a step changes the handlers.                                        *)
(***************************************************************************)
Job == [at : Places, conv : Conversations \cup {None}, left : Nat, files : SUBSET Files,
        session : Handlers \cup {None}, role : {"user", "assistant"}, known : BOOLEAN,
        heard : BOOLEAN]

\* Handler r, and no other, comes to this place.
Comes(r, at) ==
    /\ job' \in [Handlers -> Job]
    /\ \A s \in Handlers \ {r} : job'[s] = job[s]
    /\ job'[r].at = at

\* What the handler has learnt and done stays.
SameConv(r)  == job'[r].conv = job[r].conv /\ (job'[r].heard <=> job[r].heard)
SameWork(r)  == SameConv(r) /\ job'[r].session = job[r].session /\ job'[r].role = job[r].role
SameKnown(r) == job'[r].known <=> job[r].known
SameFiles(r) == job'[r].files = job[r].files

\* The handler has only just begun.
Fresh(r) ==
    /\ job'[r].conv \in Conversations
    /\ job'[r].session = None /\ job'[r].role = "user"
    /\ ~ job'[r].known /\ ~ job'[r].heard /\ job'[r].files = {}

\* The handler is over, and only what its client heard is left of it.
Left(r) ==
    /\ Comes(r, "ended")
    /\ job'[r].session = None /\ ~ job'[r].known /\ job'[r].files = {}
    /\ job'[r].heard => job'[r].conv = job[r].conv

Ends(r)     == Left(r) /\ (job'[r].heard <=> job[r].heard)
Answered(r) == Left(r) /\ job'[r].heard

\* The handlers' type, by a name of its own.
LEMMA JobType == TypeOK => job \in [Handlers -> Job]
  BY DEF TypeOK, Job

\* A handler at work has a key.
LEMMA KeyType ==
    ASSUME TypeInv, NEW r \in Handlers, Running(r)
    PROVE  Key(r) \in Keys
  BY DEF TypeInv, Placed, Key, Channel, Keys

\* A step that replaces the record of one handler.
LEMMA OneMoves ==
    ASSUME TypeOK, NEW r \in Handlers, NEW j \in Job,
           job' = [s \in Handlers |-> IF s = r THEN j ELSE job[s]]
    PROVE  Comes(r, j.at) /\ job'[r] = j
  BY JobType DEF Comes

\* What Over leaves of a handler.
LEMMA OverLeaves ==
    ASSUME NEW j \in Job
    PROVE  /\ Over(j) \in Job
           /\ Over(j).at = "ended" /\ Over(j).session = None /\ Over(j).role = "user"
           /\ ~ Over(j).known /\ Over(j).files = {}
           /\ Over(j).heard <=> j.heard
           /\ j.heard => Over(j).conv = j.conv
  <1> DEFINE conv  == IF j.heard THEN j.conv ELSE None
             heard == j.heard
             over  == [Unsent EXCEPT !.at = "ended", !.heard = heard, !.conv = conv]
  <1>1. /\ conv \in Conversations \cup {None} /\ heard \in BOOLEAN
        /\ j.heard => conv = j.conv
    BY DEF Job
  <1>2. Over(j) = over
    BY DEF Over
  <1>3. Unsent \in Job
    BY DEF Unsent, Job, Places
  <1> HIDE DEF conv, heard
  <1>4. over \in Job
    BY <1>1, <1>3 DEF Job, Places
  <1>5. /\ over.at = "ended" /\ over.session = None /\ over.role = "user"
        /\ over.files = {} /\ over.conv = conv
    BY DEF Unsent
  <1>6. ~ over.known /\ (over.heard <=> heard)
    BY DEF Unsent
  <1> QED
    BY <1>1, <1>2, <1>4, <1>5, <1>6 DEF heard

\* End leaves what Ends says.
LEMMA EndEnds ==
    ASSUME TypeOK, NEW r \in Handlers, End(r)
    PROVE  Ends(r)
  <1>1. job \in [Handlers -> Job] /\ job[r] \in Job
    BY JobType
  <1>2. job' = [s \in Handlers |-> IF s = r THEN Over(job[r]) ELSE job[s]]
    BY <1>1 DEF End
  <1> QED
    BY <1>1, <1>2, OverLeaves, OneMoves DEF Ends, Left

\* So does a handler that ends when its client has just been answered.
LEMMA AnswerEnds ==
    ASSUME TypeOK, NEW r \in Handlers, job' = [job EXCEPT ![r] = Over([@ EXCEPT !.heard = TRUE])]
    PROVE  Answered(r)
  <1> DEFINE told == [job[r] EXCEPT !.heard = TRUE]
  <1>1. job \in [Handlers -> Job] /\ job[r] \in Job
    BY JobType
  <1>2. told \in Job /\ told.heard /\ told.conv = job[r].conv
    BY <1>1 DEF Job
  <1>3. job' = [s \in Handlers |-> IF s = r THEN Over(told) ELSE job[s]]
    BY <1>1
  <1> HIDE DEF told
  <1>4. Comes(r, Over(told).at) /\ job'[r] = Over(told)
    BY <1>2, <1>3, OverLeaves, OneMoves
  <1>5. /\ Over(told).at = "ended" /\ Over(told).session = None
        /\ ~ Over(told).known /\ Over(told).files = {}
        /\ Over(told).heard /\ Over(told).conv = job[r].conv
    BY <1>2, OverLeaves
  <1> QED
    BY <1>4, <1>5 DEF Answered, Left

\* Goto changes the place only.
LEMMA GotoComes ==
    ASSUME TypeOK, NEW r \in Handlers, NEW at \in Places, Goto(r, at)
    PROVE  Comes(r, at) /\ SameWork(r) /\ SameKnown(r) /\ SameFiles(r)
  <1> DEFINE j == [job[r] EXCEPT !.at = at]
  <1>1. job \in [Handlers -> Job] /\ job[r] \in Job
    BY JobType
  <1>2. j \in Job /\ j.at = at
    BY <1>1 DEF Job
  <1>3. job' = [s \in Handlers |-> IF s = r THEN j ELSE job[s]]
    BY <1>1 DEF Goto
  <1>4. Comes(r, j.at) /\ job'[r] = j
    BY <1>2, <1>3, OneMoves
  <1> QED
    BY <1>1, <1>2, <1>4 DEF SameWork, SameConv, SameKnown, SameFiles, Job

\* Use gives the handler its session.
LEMMA UseComes ==
    ASSUME TypeOK, NEW r \in Handlers, NEW s \in Handlers, Use(r, s)
    PROVE  /\ Comes(r, "persist") /\ SameConv(r) /\ SameKnown(r) /\ SameFiles(r)
           /\ job'[r].session = s /\ job'[r].role = job[r].role
  <1> DEFINE j == [job[r] EXCEPT !.at = "persist", !.session = s]
  <1>1. job \in [Handlers -> Job] /\ job[r] \in Job
    BY JobType
  <1>2. j \in Job /\ j.at = "persist"
    BY <1>1 DEF Job, Places
  <1>3. job' = [q \in Handlers |-> IF q = r THEN j ELSE job[q]]
    BY <1>1 DEF Use
  <1>4. Comes(r, j.at) /\ job'[r] = j
    BY <1>2, <1>3, OneMoves
  <1> QED
    BY <1>1, <1>2, <1>4 DEF SameConv, SameKnown, SameFiles, Job

\* Post lets the request in, or ends it, or leaves it to be sent again.
LEMMA PostMoves ==
    ASSUME TypeInv, NEW r \in Requests, Post(r)
    PROVE  \/ UNCHANGED job
           \/ Ends(r)
           \/ Comes(r, "find") /\ Fresh(r)
           \/ Comes(r, "upload") /\ Fresh(r) /\ job'[r].left \in 1..MaxFiles
  <1>1. /\ r \in Handlers /\ TypeOK /\ job[r].at = "unsent" /\ job[r] = Unsent
        /\ job \in [Handlers -> Job] /\ job[r] \in Job
    BY JobType DEF TypeInv, Placed, Post, Handlers
  <1>2. ASSUME NEW conv \in Chats \cup {r},
               job' = [job EXCEPT ![r].at = "find", ![r].conv = conv]
        PROVE  Comes(r, "find") /\ Fresh(r)
    <2> DEFINE j == [Unsent EXCEPT !.at = "find", !.conv = conv]
    <2>1. j \in Job /\ j.at = "find" /\ j.conv \in Conversations
      BY <1>1 DEF Unsent, Job, Places, Conversations
    <2>2. job' = [s \in Handlers |-> IF s = r THEN j ELSE job[s]]
      BY <1>1, <1>2
    <2>3. Comes(r, j.at) /\ job'[r] = j
      BY <1>1, <2>1, <2>2, OneMoves
    <2> QED
      BY <2>1, <2>3 DEF Fresh, Unsent
  <1>3. ASSUME NEW conv \in Chats \cup {r}, NEW files \in 1..MaxFiles,
               job' = [job EXCEPT ![r].at = "upload", ![r].conv = conv, ![r].left = files]
        PROVE  Comes(r, "upload") /\ Fresh(r) /\ job'[r].left \in 1..MaxFiles
    <2> DEFINE j == [Unsent EXCEPT !.at = "upload", !.conv = conv, !.left = files]
    <2> files \in Nat
      BY BoundsAssumption
    <2>1. j \in Job /\ j.at = "upload" /\ j.conv \in Conversations
      BY <1>1 DEF Unsent, Job, Places, Conversations
    <2>2. job' = [s \in Handlers |-> IF s = r THEN j ELSE job[s]]
      BY <1>1, <1>3
    <2>3. Comes(r, j.at) /\ job'[r] = j
      BY <1>1, <2>1, <2>2, OneMoves
    <2> QED
      BY <2>1, <2>3 DEF Fresh, Unsent
  <1>4. End(r) => Ends(r)
    BY <1>1, EndEnds
  <1> QED
    BY <1>2, <1>3, <1>4 DEF Post

\* Receive lets the update in, or ends it.
LEMMA ReceiveMoves ==
    ASSUME TypeInv, NEW u \in Updates, Receive(u)
    PROVE  \/ Ends(u)
           \/ Comes(u, "find") /\ Fresh(u)
           \/ Comes(u, "download") /\ Fresh(u)
  <1>1. /\ u \in Handlers /\ TypeOK /\ job[u].at = "unsent" /\ job[u] = Unsent
        /\ job \in [Handlers -> Job] /\ job[u] \in Job
    BY JobType DEF TypeInv, Placed, Receive, Handlers
  <1>2. ASSUME NEW conv \in Chats, NEW at \in {"find", "download"},
               job' = [job EXCEPT ![u].at = at, ![u].conv = conv]
        PROVE  Comes(u, at) /\ Fresh(u)
    <2> DEFINE j == [Unsent EXCEPT !.at = at, !.conv = conv]
    <2>1. j \in Job /\ j.at = at /\ j.conv \in Conversations
      BY <1>1 DEF Unsent, Job, Places, Conversations
    <2>2. job' = [s \in Handlers |-> IF s = u THEN j ELSE job[s]]
      BY <1>1, <1>2
    <2>3. Comes(u, j.at) /\ job'[u] = j
      BY <1>1, <2>1, <2>2, OneMoves
    <2> QED
      BY <2>1, <2>3 DEF Fresh, Unsent
  <1>3. End(u) => Ends(u)
    BY <1>1, EndEnds
  <1> QED
    BY <1>2, <1>3 DEF Receive

\* SaveUpload lists a file it has saved, or ends the request.
LEMMA SaveUploadMoves ==
    ASSUME TypeInv, NEW r \in Handlers, SaveUpload(r)
    PROVE  /\ \/ Ends(r)
              \/ /\ \/ Comes(r, "find")
                    \/ Comes(r, "upload") /\ job'[r].left \in 1..MaxFiles
                 /\ SameWork(r) /\ SameKnown(r)
                 /\ job'[r].files = job[r].files \cup {<<r, job[r].left>>}
                 /\ <<r, job[r].left>> \in inbox'
           /\ inbox' \subseteq Files
           /\ inbox \subseteq inbox'
  <1> DEFINE file == <<r, job[r].left>>
             at   == IF job[r].left = 1 THEN "find" ELSE "upload"
             left == job[r].left - 1
             j    == [job[r] EXCEPT !.at = at, !.left = left,
                                    !.files = job[r].files \cup {file}]
             Listed == job' = [job EXCEPT ![r].at = at, ![r].left = @ - 1,
                                         ![r].files = @ \cup {file}]
  <1>1. /\ TypeOK /\ job[r].left \in 1..MaxFiles /\ file \in Files
        /\ job \in [Handlers -> Job] /\ job[r] \in Job
    BY BoundsAssumption, JobType DEF TypeInv, Placed, SaveUpload, Files
  <1>2. /\ \/ Listed /\ inbox' = inbox \cup {file}
           \/ End(r)
        /\ inbox' \in {inbox, inbox \cup {file}}
    BY DEF SaveUpload
  <1>3. End(r) => Ends(r)
    BY <1>1, EndEnds
  <1>4. ASSUME Listed
        PROVE  /\ \/ Comes(r, "find")
                  \/ Comes(r, "upload") /\ job'[r].left \in 1..MaxFiles
               /\ SameWork(r) /\ SameKnown(r)
               /\ job'[r].files = job[r].files \cup {file}
    <2> HIDE DEF file
    <2>1. job' = [s \in Handlers |-> IF s = r THEN j ELSE job[s]]
      BY <1>1, <1>4
    <2>2. j \in Job /\ j.at = at
      <3>1. left \in Nat /\ at \in Places /\ job[r].files \cup {file} \in SUBSET Files
        BY <1>1, BoundsAssumption DEF Job, Places
      <3> HIDE DEF left, at
      <3> QED
        BY <1>1, <3>1 DEF Job
    <2>3. Comes(r, j.at) /\ job'[r] = j
      BY <1>1, <2>1, <2>2, OneMoves
    <2>4. /\ SameWork(r) /\ SameKnown(r)
          /\ job'[r].files = job[r].files \cup {file}
          /\ job'[r].left = job[r].left - 1
      BY <1>1, <2>3 DEF SameWork, SameConv, SameKnown, Job
    <2>5. at = "upload" => job[r].left - 1 \in 1..MaxFiles
      BY <1>1, BoundsAssumption
    <2> QED
      BY <2>2, <2>3, <2>4, <2>5
  <1>5. TypeOK => inbox \subseteq Files
    BY DEF TypeOK
  <1> HIDE DEF Listed, at, file
  <1> QED
    BY <1>1, <1>2, <1>3, <1>4, <1>5 DEF file

\* DownloadFile names the file it has stored, or ends the update.
LEMMA DownloadMoves ==
    ASSUME TypeInv, NEW u \in Handlers, DownloadFile(u)
    PROVE  /\ \/ Ends(u)
              \/ Comes(u, "find") /\ SameWork(u) /\ SameKnown(u)
           /\ u \in Updates
           /\ inbox' \subseteq Files
           /\ inbox \subseteq inbox'
  <1> DEFINE name == <<u, 0>>
             file == <<u, 1>>
             j    == [job[u] EXCEPT !.at = "find", !.files = {name}]
             Named == job' = [job EXCEPT ![u].at = "find", ![u].files = {name}]
  <1>1. /\ TypeOK /\ u \in Updates /\ name \in Files /\ file \in Files
        /\ job \in [Handlers -> Job] /\ job[u] \in Job
    BY BoundsAssumption, JobType DEF TypeInv, Placed, DownloadFile, Files
  <1>2. \/ inbox' = inbox \cup {file} /\ Named
        \/ End(u) /\ inbox' = inbox
    BY DEF DownloadFile
  <1>3. End(u) => Ends(u)
    BY <1>1, EndEnds
  <1>4. ASSUME Named
        PROVE  Comes(u, "find") /\ SameWork(u) /\ SameKnown(u)
    <2> HIDE DEF name
    <2>1. job' = [s \in Handlers |-> IF s = u THEN j ELSE job[s]]
      BY <1>1, <1>4
    <2>2. j \in Job /\ j.at = "find"
      BY <1>1 DEF Job, Places
    <2>3. Comes(u, j.at) /\ job'[u] = j
      BY <1>1, <2>1, <2>2, OneMoves
    <2> QED
      BY <1>1, <2>2, <2>3 DEF SameWork, SameConv, SameKnown, Job
  <1>5. TypeOK => inbox \subseteq Files
    BY DEF TypeOK
  <1> HIDE DEF Named, name, file
  <1> QED
    BY <1>1, <1>2, <1>3, <1>4, <1>5

\* FindSession uses the session that is there, or goes for the write lock.
LEMMA FindMoves ==
    ASSUME TypeInv, NEW r \in Handlers, FindSession(r)
    PROVE  \/ /\ sessions[Key(r)] # None
              /\ Comes(r, "persist") /\ SameConv(r) /\ SameKnown(r) /\ SameFiles(r)
              /\ job'[r].session = sessions[Key(r)] /\ job'[r].role = job[r].role
           \/ Comes(r, "lock") /\ SameWork(r) /\ SameKnown(r) /\ SameFiles(r)
  <1>1. TypeOK /\ Key(r) \in Keys /\ "lock" \in Places
    BY KeyType DEF TypeInv, FindSession, Running, Places
  <1>2. sessions[Key(r)] \in Handlers \cup {None}
    BY <1>1 DEF TypeOK
  <1> QED
    BY <1>1, <1>2, UseComes, GotoComes DEF FindSession

\* LockSessions does too, or takes the lock where there still is no session.
LEMMA LockMoves ==
    ASSUME TypeInv, NEW r \in Handlers, LockSessions(r)
    PROVE  \/ /\ sessions[Key(r)] # None
              /\ Comes(r, "persist") /\ SameConv(r) /\ SameKnown(r) /\ SameFiles(r)
              /\ job'[r].session = sessions[Key(r)] /\ job'[r].role = job[r].role
              /\ holder' = None
           \/ /\ sessions[Key(r)] = None
              /\ Comes(r, "load") /\ SameWork(r) /\ SameKnown(r) /\ SameFiles(r)
              /\ holder' = r
  <1>1. TypeOK /\ Key(r) \in Keys /\ "load" \in Places
    BY KeyType DEF TypeInv, LockSessions, Running, Places
  <1>2. sessions[Key(r)] \in Handlers \cup {None}
    BY <1>1 DEF TypeOK
  <1> QED
    BY <1>1, <1>2, UseComes, GotoComes DEF LockSessions

\* LoadSession makes the session its own handler's, or ends the handler.
LEMMA LoadMoves ==
    ASSUME TypeInv, NEW r \in Handlers, LoadSession(r)
    PROVE  /\ \/ /\ Comes(r, "persist") /\ SameConv(r) /\ SameKnown(r) /\ SameFiles(r)
                 /\ job'[r].session = r /\ job'[r].role = job[r].role
                 /\ sessions' = [sessions EXCEPT ![Key(r)] = r]
                 /\ known' \in {known, known \cup {job[r].conv}}
                 /\ known' # known => HasRows(job[r].conv)
              \/ Ends(r) /\ UNCHANGED <<sessions, known>>
           /\ Key(r) \in Keys /\ job[r].conv \in Conversations
           /\ holder' = None
  <1>1. TypeOK /\ Key(r) \in Keys /\ job[r].conv \in Conversations
    BY KeyType DEF TypeInv, Placed, LoadSession, Running
  <1>2. CASE End(r) /\ UNCHANGED <<sessions, known>>
    BY <1>1, <1>2, EndEnds DEF LoadSession
  <1>3. CASE /\ sessions' = [sessions EXCEPT ![Key(r)] = r]
             /\ known' = IF Exists(job[r].conv) THEN known \cup {job[r].conv} ELSE known
             /\ Use(r, r)
    BY <1>1, <1>3, UseComes DEF LoadSession, Exists
  <1> QED
    BY <1>2, <1>3 DEF LoadSession

\* LookUpKnown remembers whether the conversation is known to exist.
LEMMA LookUpMoves ==
    ASSUME TypeInv, NEW r \in Handlers, LookUpKnown(r)
    PROVE  /\ Comes(r, "write") /\ SameWork(r) /\ SameFiles(r)
           /\ job'[r].known => job[r].conv \in known
  <1> DEFINE is == job[r].conv \in known
             j  == [job[r] EXCEPT !.at = "write", !.known = is]
  <1>1. TypeOK /\ job \in [Handlers -> Job] /\ job[r] \in Job /\ is \in BOOLEAN
    BY JobType DEF TypeInv
  <1>2. job' = [s \in Handlers |-> IF s = r THEN j ELSE job[s]]
    BY <1>1 DEF LookUpKnown
  <1> HIDE DEF is
  <1>3. j \in Job /\ j.at = "write" /\ j.known = is
    BY <1>1 DEF Job, Places
  <1>4. Comes(r, j.at) /\ job'[r] = j
    BY <1>1, <1>2, <1>3, OneMoves
  <1>5. SameWork(r) /\ SameFiles(r)
    BY <1>1, <1>4 DEF SameWork, SameConv, SameFiles, Job
  <1> HIDE DEF j
  <1> QED
    BY <1>3, <1>4, <1>5 DEF is

\* PersistMessage ends the handler or stores its message; without the row of the
\* conversation it stores that too and goes on to remember it.
LEMMA PersistMoves ==
    ASSUME TypeInv, NEW r \in Handlers, PersistMessage(r)
    PROVE  /\ \/ Ends(r)
              \/ /\ \/ Comes(r, Then(r))
                    \/ Comes(r, "learn") /\ job[r].conv \in conversations'
                 /\ SameWork(r) /\ SameKnown(r) /\ SameFiles(r)
                 /\ Row(r) \in rows'
           /\ rows' \in {rows, rows \cup {Row(r)}}
           /\ conversations' \in {conversations, conversations \cup {job[r].conv}}
           /\ rows' # rows => job[r].known \/ job[r].conv \in conversations'
           /\ Row(r) \in Rows /\ job[r].conv \in Conversations
  <1> DEFINE Kept == SameWork(r) /\ SameKnown(r) /\ SameFiles(r)
  <1>1. /\ TypeOK /\ job[r].conv \in Conversations
        /\ Then(r) \in Places /\ "learn" \in Places
    BY DEF TypeInv, Placed, PersistMessage, Running, Then, Places
  <1>2. Row(r) \in Rows
    BY <1>1 DEF Row, Rows, TypeOK
  <1>3. End(r) => Ends(r)
    BY <1>1, EndEnds
  <1>4. \A at \in Places : Goto(r, at) => Comes(r, at) /\ Kept
    BY <1>1, GotoComes
  <1>5. /\ Goto(r, Then(r)) => Comes(r, Then(r)) /\ Kept
        /\ Goto(r, "learn") => Comes(r, "learn") /\ Kept
    BY <1>1, <1>4
  <1> HIDE DEF Kept
  <1>6. CASE End(r) /\ UNCHANGED database
    BY <1>1, <1>2, <1>3, <1>6 DEF database
  <1>7. CASE /\ job[r].known /\ rows' = rows \cup {Row(r)} /\ UNCHANGED conversations
             /\ Goto(r, Then(r)) \/ End(r)
    BY <1>1, <1>2, <1>3, <1>5, <1>7 DEF Kept
  <1>8. CASE /\ rows' = rows \cup {Row(r)}
             /\ conversations' = conversations \cup {job[r].conv}
             /\ Goto(r, "learn")
    BY <1>1, <1>2, <1>5, <1>8 DEF Kept
  <1> QED
    BY <1>6, <1>7, <1>8 DEF PersistMessage

\* LearnKnown remembers that the conversation exists.
LEMMA LearnMoves ==
    ASSUME TypeInv, NEW r \in Handlers, LearnKnown(r)
    PROVE  /\ Comes(r, Then(r)) /\ SameWork(r) /\ SameKnown(r) /\ SameFiles(r)
           /\ known' = known \cup {job[r].conv} /\ job[r].conv \in Conversations
  <1>1. TypeOK /\ job[r].conv \in Conversations /\ Then(r) \in Places
    BY DEF TypeInv, Placed, LearnKnown, Running, Then, Places
  <1> QED
    BY <1>1, GotoComes DEF LearnKnown

\* Chat turns to the assistant's message, or ends the handler.
LEMMA ChatMoves ==
    ASSUME TypeInv, NEW r \in Handlers, Chat(r)
    PROVE  \/ Ends(r)
           \/ /\ Comes(r, "persist") /\ SameConv(r) /\ SameKnown(r) /\ SameFiles(r)
              /\ job'[r].session = job[r].session /\ job'[r].role = "assistant"
  <1> DEFINE j == [job[r] EXCEPT !.at = "persist", !.role = "assistant"]
  <1>1. TypeOK /\ job \in [Handlers -> Job] /\ job[r] \in Job
    BY JobType DEF TypeInv
  <1>2. ASSUME job' = [job EXCEPT ![r].at = "persist", ![r].role = "assistant"]
        PROVE  /\ Comes(r, "persist") /\ SameConv(r) /\ SameKnown(r) /\ SameFiles(r)
               /\ job'[r].session = job[r].session /\ job'[r].role = "assistant"
    <2>1. job' = [s \in Handlers |-> IF s = r THEN j ELSE job[s]]
      BY <1>1, <1>2
    <2>2. j \in Job /\ j.at = "persist"
      BY <1>1 DEF Job, Places
    <2>3. Comes(r, j.at) /\ job'[r] = j
      BY <1>1, <2>1, <2>2, OneMoves
    <2> QED
      BY <1>1, <2>2, <2>3 DEF SameConv, SameKnown, SameFiles, Job
  <1> QED
    BY <1>1, <1>2, EndEnds DEF Chat

\* Reply answers a REST client, or begins with the messages of a Telegram reply.
LEMMA ReplyMoves ==
    ASSUME TypeInv, NEW r \in Handlers, Reply(r)
    PROVE  \/ Answered(r)
           \/ Comes(r, "send") /\ SameWork(r) /\ SameKnown(r) /\ SameFiles(r)
  <1>1. TypeOK /\ job \in [Handlers -> Job] /\ job[r] \in Job
    BY JobType DEF TypeInv
  <1>2. ASSUME NEW chunks \in 1..MaxChunks,
               job' = [job EXCEPT ![r].at = "send", ![r].left = chunks]
        PROVE  Comes(r, "send") /\ SameWork(r) /\ SameKnown(r) /\ SameFiles(r)
    <2> DEFINE j == [job[r] EXCEPT !.at = "send", !.left = chunks]
    <2>1. job' = [s \in Handlers |-> IF s = r THEN j ELSE job[s]]
      BY <1>1, <1>2
    <2> chunks \in Nat
      BY BoundsAssumption
    <2>2. j \in Job /\ j.at = "send"
      BY <1>1 DEF Job, Places
    <2>3. Comes(r, j.at) /\ job'[r] = j
      BY <1>1, <2>1, <2>2, OneMoves
    <2> QED
      BY <1>1, <2>2, <2>3 DEF SameWork, SameConv, SameKnown, SameFiles, Job
  <1>3. CASE job' = [job EXCEPT ![r] = Over([@ EXCEPT !.heard = TRUE])]
    BY <1>1, <1>3, AnswerEnds
  <1> QED
    BY <1>2, <1>3 DEF Reply

\* SendChunk answers the client with the next message, which may be the last.
LEMMA SendMoves ==
    ASSUME TypeInv, NEW u \in Handlers, SendChunk(u)
    PROVE  \/ Ends(u) \/ Answered(u)
           \/ /\ Comes(u, "send") /\ SameKnown(u) /\ SameFiles(u)
              /\ job'[u].conv = job[u].conv /\ job'[u].heard
              /\ job'[u].session = job[u].session /\ job'[u].role = job[u].role
  <1>1. TypeOK /\ job \in [Handlers -> Job] /\ job[u] \in Job
    BY JobType DEF TypeInv
  <1>2. CASE job[u].at = "send" /\ job[u].left > 1
              /\ job' = [job EXCEPT ![u].left = @ - 1, ![u].heard = TRUE]
    <2> DEFINE left == job[u].left - 1
               j    == [job[u] EXCEPT !.left = left, !.heard = TRUE]
    <2>1. job' = [s \in Handlers |-> IF s = u THEN j ELSE job[s]]
      BY <1>1, <1>2
    <2>2. job[u].left - 1 \in Nat
      BY <1>1, <1>2 DEF Job
    <2>3. j \in Job /\ j.at = "send"
      <3>1. left \in Nat
        BY <2>2
      <3> HIDE DEF left
      <3>2. j \in Job
        BY <1>1, <3>1 DEF Job
      <3>3. j.at = job[u].at
        BY <1>1 DEF Job
      <3> QED
        BY <1>2, <3>2, <3>3
    <2>4. Comes(u, j.at) /\ job'[u] = j
      BY <1>1, <2>1, <2>3, OneMoves
    <2> QED
      BY <1>1, <2>3, <2>4 DEF SameKnown, SameFiles, Job
  <1>3. CASE job' = [job EXCEPT ![u] = Over([@ EXCEPT !.heard = TRUE])]
    BY <1>1, <1>3, AnswerEnds
  <1>4. CASE End(u)
    BY <1>1, <1>4, EndEnds
  <1> QED
    BY <1>2, <1>3, <1>4 DEF SendChunk

\* Exit ends every handler that runs.
LEMMA ExitMoves ==
    ASSUME TypeInv, Exit
    PROVE  /\ job' \in [Handlers -> Job]
           /\ \A r \in Handlers :
                \/ job'[r] = job[r] /\ ~ Running(r)
                \/ /\ job'[r].at = "ended" /\ (job'[r].heard <=> job[r].heard)
                   /\ job'[r].session = None /\ ~ job'[r].known /\ job'[r].files = {}
                   /\ job[r].heard => job'[r].conv = job[r].conv
  <1>1. job \in [Handlers -> Job]
    BY JobType DEF TypeInv
  <1>2. \A r \in Handlers : Over(job[r]) \in Job
    BY <1>1 DEF Over, Unsent, Job, Places
  <1>3. \A r \in Handlers : job'[r] = IF Running(r) THEN Over(job[r]) ELSE job[r]
    BY DEF Exit
  <1>4. job' \in [Handlers -> Job]
    BY <1>1, <1>2, <1>3 DEF Exit
  <1> QED
    BY <1>1, <1>3, <1>4 DEF Over, Unsent, Job
-----------------------------------------------------------------------------
(***************************************************************************)
(* Types.                                                                  *)
(***************************************************************************)
\* A step of one handler leaves the others where they belong.
LEMMA OnePlaced ==
    ASSUME TypeInv, NEW r \in Handlers, NEW at, Comes(r, at), Placed(r)'
    PROVE  \A s \in Handlers : Placed(s)'
  BY DEF TypeInv, Comes, Placed, Running

\* A handler that is over is where it belongs.
LEMMA LeftPlaced ==
    ASSUME TypeInv, NEW r \in Handlers, Left(r)
    PROVE  \A s \in Handlers : Placed(s)'
  BY OnePlaced DEF Left, Comes, Placed, Running, Before

\* A handler that works on stays where it belongs.
LEMMA SamePlaced ==
    ASSUME TypeInv, NEW r \in Handlers, NEW at \in Places \ {"unsent", "upload", "download"},
           Running(r), Comes(r, at), SameConv(r),
           at \in Before => SameWork(r) /\ SameKnown(r) /\ job[r].at \in Before
    PROVE  \A s \in Handlers : Placed(s)'
  BY OnePlaced DEF TypeInv, Comes, Placed, Running, Before, SameConv, SameWork, SameKnown

\* What of the types does not depend on the handlers.
RestOK ==
    /\ phase \in {"off", "running", "closed"}
    /\ starts \in 0..MaxStarts
    /\ now \in 0..MaxTime
    /\ bucket \in {None} \cup [tokens : 0..Full, last : 0..now]
    /\ admitted \in Nat
    /\ holder \in Handlers \cup {None}
    /\ sessions \in [Keys -> Handlers \cup {None}]
    /\ known \subseteq Conversations
    /\ conversations \subseteq Conversations
    /\ rows \subseteq Rows
    /\ inbox \subseteq Files

\* TypeOK in two parts.
LEMMA TypeParts == TypeOK <=> RestOK /\ job \in [Handlers -> Job]
  BY DEF TypeOK, RestOK, Job

\* The service does nothing to its limiter but what RateLimiter lists.
LEMMA LimiterOnly ==
    ASSUME [Next]_vars
    PROVE  [LimiterNext]_limiter
  <1> USE DEF LimiterNext
  <1>1. ASSUME NEW r \in Requests, Reject(r) \/ Post(r)
        PROVE  [LimiterNext]_limiter
    BY <1>1 DEF Reject, Post
  <1>2. ASSUME NEW u \in Updates, CheckAccess(u) \/ Receive(u)
        PROVE  [LimiterNext]_limiter
    BY <1>2 DEF CheckAccess, Receive
  <1>3. ASSUME NEW r \in Handlers, HandlerStep(r)
        PROVE  [LimiterNext]_limiter
    BY <1>3
    DEF HandlerStep, SaveUpload, DownloadFile, FindSession, LockSessions, LoadSession,
        LookUpKnown, PersistMessage, LearnKnown, Chat, Reply, SendChunk
  <1>4. CASE Get \/ Start \/ Stop \/ Exit \/ TimePasses
    BY <1>4 DEF Get, Start, Stop, Exit, TimePasses
  <1>5. ASSUME NEW conv \in Chats, CreateConversation(conv)
        PROVE  [LimiterNext]_limiter
    BY <1>5 DEF CreateConversation
  <1>6. CASE UNCHANGED vars
    BY <1>6 DEF vars
  <1> QED
    BY <1>1, <1>2, <1>3, <1>4, <1>5, <1>6 DEF Next

\* What the limiter keeps of its type, the service needs.
LEMMA LimiterTypes ==
    ASSUME RateInv
    PROVE  bucket \in {None} \cup [tokens : 0..Full, last : 0..now] /\ admitted \in Nat
  BY DEF RateInv, LimiterTypeOK, Buckets

\* Only time moves the clock, and only as far as it is let.
LEMMA ClockType ==
    ASSUME TypeInv, [Next]_vars
    PROVE  now' \in 0..MaxTime
  <1>1. now \in 0..MaxTime /\ MaxTime \in Nat
    BY BoundsAssumption DEF TypeInv, TypeOK
  <1>2. CASE TimePasses
    BY <1>1, <1>2 DEF TimePasses, Tick
  <1>3. CASE Exit \/ Stop
    BY <1>1, <1>3 DEF Exit, Stop, ForgetLimiter
  <1>4. ASSUME ~ TimePasses, ~ Exit, ~ Stop
        PROVE  now' = now
    <2>1. ASSUME NEW r \in Requests, Reject(r) \/ Post(r)
          PROVE  now' = now
      BY <2>1 DEF Reject, Post, limiter, Allow, Refuse
    <2>2. ASSUME NEW u \in Updates, CheckAccess(u) \/ Receive(u)
          PROVE  now' = now
      BY <2>2 DEF CheckAccess, Receive, limiter
    <2>3. ASSUME NEW r \in Handlers, HandlerStep(r)
          PROVE  now' = now
      BY <2>3
      DEF HandlerStep, SaveUpload, DownloadFile, FindSession, LockSessions, LoadSession,
          LookUpKnown, PersistMessage, LearnKnown, Chat, Reply, SendChunk, limiter
    <2>4. CASE Get \/ Start
      BY <2>4 DEF Get, Start, Allow, Refuse, limiter
    <2>5. ASSUME NEW conv \in Chats, CreateConversation(conv)
          PROVE  now' = now
      BY <2>5 DEF CreateConversation, limiter
    <2>6. CASE UNCHANGED vars
      BY <2>6 DEF vars, limiter
    <2> QED
      BY <1>4, <2>1, <2>2, <2>3, <2>4, <2>5, <2>6 DEF Next
  <1> QED
    BY <1>1, <1>2, <1>3, <1>4

\* Every step preserves the types.
LEMMA TypeStep ==
    ASSUME TypeInv, RateInv', [Next]_vars
    PROVE  TypeInv'
  <1> DEFINE Goal == /\ job' \in [Handlers -> Job] /\ \A s \in Handlers : Placed(s)'
                     /\ phase' \in {"off", "running", "closed"} /\ starts' \in 0..MaxStarts
                     /\ holder' \in Handlers \cup {None}
                     /\ sessions' \in [Keys -> Handlers \cup {None}]
                     /\ known' \subseteq Conversations
                     /\ conversations' \subseteq Conversations
                     /\ rows' \subseteq Rows
                     /\ inbox' \subseteq Files
  <1>1. /\ TypeOK /\ job \in [Handlers -> Job] /\ \A s \in Handlers : Placed(s)
        /\ phase \in {"off", "running", "closed"} /\ starts \in 0..MaxStarts
        /\ holder \in Handlers \cup {None}
        /\ sessions \in [Keys -> Handlers \cup {None}]
        /\ known \subseteq Conversations
        /\ conversations \subseteq Conversations
        /\ rows \subseteq Rows
        /\ inbox \subseteq Files
    BY TypeParts DEF TypeInv, RestOK
  <1>2. UNCHANGED job => job' \in [Handlers -> Job] /\ \A s \in Handlers : Placed(s)'
    BY <1>1 DEF Placed, Running
  <1>3. ASSUME NEW r \in Handlers, Ends(r) \/ Answered(r)
        PROVE  job' \in [Handlers -> Job] /\ \A s \in Handlers : Placed(s)'
    BY <1>3, LeftPlaced DEF Ends, Answered, Left, Comes
  <1>4. ASSUME NEW r \in Handlers, NEW at \in {"find", "upload", "download"},
               Comes(r, at), Fresh(r),
               at = "upload" => job'[r].left \in 1..MaxFiles,
               at = "download" => r \in Updates
        PROVE  job' \in [Handlers -> Job] /\ \A s \in Handlers : Placed(s)'
    <2>1. Placed(r)'
      BY <1>4 DEF Comes, Fresh, Placed, Running
    <2> QED
      BY <1>4, <2>1, OnePlaced DEF Comes
  <1>5. ASSUME NEW r \in Requests, Reject(r) \/ Post(r)
        PROVE  Goal
    <2>1. r \in Handlers
      BY DEF Handlers
    <2>2. CASE Reject(r)
      BY <1>1, <1>3, <2>1, <2>2, EndEnds DEF Reject, process, manager, database
    <2>3. CASE Post(r)
      <3>1. UNCHANGED <<process, manager, database, inbox>>
        BY <2>3 DEF Post
      <3>2. job' \in [Handlers -> Job] /\ \A s \in Handlers : Placed(s)'
        BY <1>2, <1>3, <1>4, <2>1, <2>3, PostMoves
      <3> QED
        BY <1>1, <3>1, <3>2 DEF process, manager, database
    <2> QED
      BY <1>5, <2>2, <2>3
  <1>6. ASSUME NEW u \in Updates, CheckAccess(u) \/ Receive(u)
        PROVE  Goal
    <2>1. u \in Handlers
      BY DEF Handlers
    <2>2. UNCHANGED <<process, manager, database, inbox>>
      BY <1>6 DEF CheckAccess, Receive
    <2>3. CASE CheckAccess(u)
      BY <1>1, <1>3, <2>1, <2>2, <2>3, EndEnds DEF CheckAccess, process, manager, database
    <2>4. CASE Receive(u)
      <3>1. job' \in [Handlers -> Job] /\ \A s \in Handlers : Placed(s)'
        BY <1>3, <1>4, <2>1, <2>4, ReceiveMoves
      <3> QED
        BY <1>1, <2>2, <3>1 DEF process, manager, database
    <2> QED
      BY <1>6, <2>3, <2>4
  <1> DEFINE Later == Places \ {"unsent", "upload", "download"}
  <1>7. ASSUME NEW r \in Handlers, NEW at \in Later, Running(r), Comes(r, at), SameConv(r),
               at \in Before => SameWork(r) /\ SameKnown(r) /\ job[r].at \in Before
        PROVE  job' \in [Handlers -> Job] /\ \A s \in Handlers : Placed(s)'
    BY <1>7, SamePlaced DEF Comes
  <1>8. /\ "find" \in Later /\ "lock" \in Later /\ "load" \in Later /\ "persist" \in Later
        /\ "write" \in Later /\ "learn" \in Later /\ "chat" \in Later /\ "reply" \in Later
        /\ "send" \in Later
        /\ "find" \in Before /\ "lock" \in Before /\ "load" \in Before
        /\ "persist" \notin Before /\ "write" \notin Before /\ "learn" \notin Before
        /\ "chat" \notin Before /\ "reply" \notin Before /\ "send" \notin Before
    BY DEF Places, Before
  <1> HIDE DEF Later
  <1>9. ASSUME NEW r \in Handlers, SaveUpload(r)
        PROVE  Goal
    <2>1. /\ UNCHANGED <<process, manager, database>> /\ Running(r) /\ job[r].at \in Before
      BY <1>9 DEF SaveUpload, Running, Before
    <2>2. ASSUME Comes(r, "upload"), SameWork(r), SameKnown(r), job'[r].left \in 1..MaxFiles
          PROVE  job' \in [Handlers -> Job] /\ \A s \in Handlers : Placed(s)'
      <3>1. Placed(r)'
        BY <1>1, <2>1, <2>2 DEF Comes, SameWork, SameConv, SameKnown, Placed, Running, Before
      <3> QED
        BY <2>2, <3>1, OnePlaced DEF Comes
    <2>3. /\ job' \in [Handlers -> Job] /\ \A s \in Handlers : Placed(s)'
          /\ inbox' \subseteq Files
      BY <1>3, <1>7, <1>8, <1>9, <2>1, <2>2, SaveUploadMoves DEF SameWork
    <2> QED
      BY <1>1, <2>1, <2>3 DEF process, manager, database
  <1>10. ASSUME NEW u \in Handlers, DownloadFile(u)
         PROVE  Goal
    <2>1. /\ UNCHANGED <<process, manager, database>> /\ Running(u) /\ job[u].at \in Before
      BY <1>10 DEF DownloadFile, Running, Before
    <2>2. /\ job' \in [Handlers -> Job] /\ \A s \in Handlers : Placed(s)'
          /\ inbox' \subseteq Files
      BY <1>3, <1>7, <1>8, <1>10, <2>1, DownloadMoves DEF SameWork
    <2> QED
      BY <1>1, <2>1, <2>2 DEF process, manager, database
  <1>11. ASSUME NEW r \in Handlers, FindSession(r)
         PROVE  Goal
    <2>1. /\ UNCHANGED <<process, manager, database, inbox>>
          /\ Running(r) /\ job[r].at \in Before
      BY <1>11 DEF FindSession, Running, Before
    <2>2. job' \in [Handlers -> Job] /\ \A s \in Handlers : Placed(s)'
      BY <1>7, <1>8, <1>11, <2>1, FindMoves DEF SameWork
    <2> QED
      BY <1>1, <2>1, <2>2 DEF process, manager, database
  <1>12. ASSUME NEW r \in Handlers, LockSessions(r)
         PROVE  Goal
    <2>1. /\ UNCHANGED <<process, sessions, known, database, inbox>>
          /\ Running(r) /\ job[r].at \in Before
      BY <1>12 DEF LockSessions, Running, Before
    <2>2. /\ job' \in [Handlers -> Job] /\ \A s \in Handlers : Placed(s)'
          /\ holder' \in Handlers \cup {None}
      BY <1>7, <1>8, <1>12, <2>1, LockMoves DEF SameWork
    <2> QED
      BY <1>1, <2>1, <2>2 DEF process, database
  <1>13. ASSUME NEW r \in Handlers, LoadSession(r)
         PROVE  Goal
    <2>1. UNCHANGED <<process, database, inbox>> /\ Running(r)
      BY <1>13 DEF LoadSession, Running
    <2>2. /\ job' \in [Handlers -> Job] /\ \A s \in Handlers : Placed(s)'
          /\ holder' = None
      BY <1>3, <1>7, <1>8, <1>13, <2>1, LoadMoves
    <2>3. sessions' \in [Keys -> Handlers \cup {None}] /\ known' \subseteq Conversations
      BY <1>1, <1>13, LoadMoves
    <2> QED
      BY <1>1, <2>1, <2>2, <2>3 DEF process, database
  <1>14. ASSUME NEW r \in Handlers, LookUpKnown(r)
         PROVE  Goal
    <2>1. UNCHANGED <<process, manager, database, inbox>> /\ Running(r)
      BY <1>14 DEF LookUpKnown, Running
    <2>2. job' \in [Handlers -> Job] /\ \A s \in Handlers : Placed(s)'
      BY <1>7, <1>8, <1>14, <2>1, LookUpMoves DEF SameWork
    <2> QED
      BY <1>1, <2>1, <2>2 DEF process, manager, database
  <1>15. ASSUME NEW r \in Handlers
         PROVE  Then(r) \in Later /\ Then(r) \notin Before
    BY <1>8 DEF Then
  <1>16. ASSUME NEW r \in Handlers, PersistMessage(r)
         PROVE  Goal
    <2>1. UNCHANGED <<process, manager, inbox>> /\ Running(r)
      BY <1>16 DEF PersistMessage, Running
    <2>2. job' \in [Handlers -> Job] /\ \A s \in Handlers : Placed(s)'
      BY <1>3, <1>7, <1>8, <1>15, <1>16, <2>1, PersistMoves DEF SameWork
    <2>3. rows' \subseteq Rows /\ conversations' \subseteq Conversations
      BY <1>1, <1>16, PersistMoves
    <2> QED
      BY <1>1, <2>1, <2>2, <2>3 DEF process, manager
  <1>17. ASSUME NEW r \in Handlers, LearnKnown(r)
         PROVE  Goal
    <2>1. UNCHANGED <<process, holder, sessions, database, inbox>> /\ Running(r)
      BY <1>17 DEF LearnKnown, Running
    <2>2. /\ job' \in [Handlers -> Job] /\ \A s \in Handlers : Placed(s)'
          /\ known' \subseteq Conversations
      BY <1>1, <1>7, <1>15, <1>17, <2>1, LearnMoves DEF SameWork
    <2> QED
      BY <1>1, <2>1, <2>2 DEF process, database
  <1>18. ASSUME NEW r \in Handlers, Chat(r)
         PROVE  Goal
    <2>1. UNCHANGED <<process, manager, database, inbox>> /\ Running(r)
      BY <1>18 DEF Chat, Running
    <2>2. job' \in [Handlers -> Job] /\ \A s \in Handlers : Placed(s)'
      BY <1>3, <1>7, <1>8, <1>18, <2>1, ChatMoves
    <2> QED
      BY <1>1, <2>1, <2>2 DEF process, manager, database
  <1>19. ASSUME NEW r \in Handlers, Reply(r)
         PROVE  Goal
    <2>1. UNCHANGED <<process, manager, database, inbox>> /\ Running(r)
      BY <1>19 DEF Reply, Running
    <2>2. job' \in [Handlers -> Job] /\ \A s \in Handlers : Placed(s)'
      BY <1>3, <1>7, <1>8, <1>19, <2>1, ReplyMoves DEF SameWork
    <2> QED
      BY <1>1, <2>1, <2>2 DEF process, manager, database
  <1>20. ASSUME NEW u \in Handlers, SendChunk(u)
         PROVE  Goal
    <2>1. UNCHANGED <<process, manager, database, inbox>> /\ job[u].at = "send"
      BY <1>20 DEF SendChunk
    <2>2. ASSUME Comes(u, "send"), job'[u].conv = job[u].conv
          PROVE  job' \in [Handlers -> Job] /\ \A s \in Handlers : Placed(s)'
      <3>1. Placed(u)'
        BY <1>1, <2>1, <2>2 DEF Comes, Placed, Running, Before
      <3> QED
        BY <2>2, <3>1, OnePlaced DEF Comes
    <2>3. job' \in [Handlers -> Job] /\ \A s \in Handlers : Placed(s)'
      BY <1>3, <1>20, <2>2, SendMoves
    <2> QED
      BY <1>1, <2>1, <2>3 DEF process, manager, database
  <1>21. ASSUME Exit
         PROVE  Goal
    <2>1. job' \in [Handlers -> Job]
      BY <1>21, ExitMoves
    <2>2. \A s \in Handlers : Placed(s)'
      BY <1>1, <1>21, ExitMoves DEF Placed, Running, Before
    <2> QED
      BY <1>1, <1>21, <2>1, <2>2 DEF Exit, database
  <1>22. ASSUME Start
         PROVE  Goal
    BY <1>1, <1>2, <1>22, BoundsAssumption DEF Start, manager, database
  <1>23. ASSUME Stop \/ Get \/ TimePasses
         PROVE  Goal
    BY <1>1, <1>2, <1>23 DEF Stop, Get, TimePasses, process, manager, database
  <1>24. ASSUME NEW conv \in Chats, CreateConversation(conv)
         PROVE  Goal
    BY <1>1, <1>2, <1>24 DEF CreateConversation, process, manager, Conversations
  <1>25. ASSUME UNCHANGED vars
         PROVE  Goal
    BY <1>1, <1>2, <1>25 DEF vars
  <1>26. Goal
    <2> HIDE DEF Goal
    <2> QED
      BY <1>5, <1>6, <1>9, <1>10, <1>11, <1>12, <1>13, <1>14, <1>16, <1>17, <1>18, <1>19,
         <1>20, <1>21, <1>22, <1>23, <1>24, <1>25
      DEF Next, HandlerStep
  <1>27. /\ now' \in 0..MaxTime
         /\ bucket' \in {None} \cup [tokens : 0..Full, last : 0..now'] /\ admitted' \in Nat
    BY ClockType DEF RateInv, LimiterTypeOK, Buckets, Full
  <1>28. TypeOK'
    BY <1>26, <1>27 DEF TypeOK, Job, Full
  <1> QED
    BY <1>26, <1>28 DEF TypeInv

\* The first state is well typed.
LEMMA InitInv ==
    ASSUME Init
    PROVE  TypeInv /\ RateInv
  <1>1. TypeOK
    BY BoundsAssumption, FullIsAToken
    DEF Init, TypeOK, NewLimiter, Unsent, Places
  <1>2. \A r \in Handlers : Placed(r)
    BY DEF Init, Placed, Running, Unsent, Before
  <1>3. RateInv
    BY NewLimiterInv DEF Init
  <1> QED
    BY <1>1, <1>2, <1>3 DEF TypeInv

\* However requests are spaced, and whatever else happens, the limiter's invariant holds.
THEOREM LimiterInvariant == Spec => []RateInv
  <1>1. RateInv /\ [Next]_vars => RateInv'
    BY LimiterOnly, LimiterStep
  <1> QED
    BY <1>1, InitInv, PTL DEF Spec

\* No more requests get through than the burst the bucket holds and what the time since
\* the first of them has brought, for every rate and every clock.
THEOREM RateIsBounded == Spec => []RateBound
  BY LimiterInvariant, BoundFromInv, PTL

\* A client that waits as long as it is told finds a token, for every rate and clock.
THEOREM WaitSuffices == Spec => []RetryAfterSuffices
  <1>1. RateInv => RetryAfterSuffices
    BY WaitFromType DEF RateInv
  <1> QED
    BY <1>1, LimiterInvariant, PTL

\* Every handler has what its place asks for.
THEOREM HandlersAreTyped == Spec => []TypeInv
  <1>1. TypeInv /\ RateInv' /\ [Next]_vars => TypeInv'
    BY TypeStep
  <1> QED
    BY <1>1, InitInv, LimiterInvariant, PTL DEF Spec

\* Every variable of the service stays in its range.
THEOREM ServiceTypes == Spec => []TypeOK
  <1>1. TypeInv => TypeOK
    BY DEF TypeInv
  <1> QED
    BY <1>1, HandlersAreTyped, PTL
-----------------------------------------------------------------------------
(***************************************************************************)
(* Sessions.                                                               *)
(***************************************************************************)
\* A handler's session is the one the manager has for its key.
Attached(r) == Running(r) /\ job[r].session # None => sessions[Key(r)] = job[r].session

\* A step of a handler that is not about to load, and leaves the map and the lock alone.
LEMMA SessionFrame ==
    ASSUME TypeInv, SessionInv, NEW r \in Handlers, NEW at \in Places \ {"load"},
           job[r].at # "load", Comes(r, at), UNCHANGED <<holder, sessions>>, Attached(r)'
    PROVE  SessionInv'
  <1>1. LockIsReleased'
    BY DEF SessionInv, LockIsReleased, Comes, TypeInv, TypeOK
  <1>2. \A s \in Handlers : Loading(s)'
    BY DEF SessionInv, Loading, Comes, Key, Channel
  <1>3. OneSession'
    BY DEF SessionInv, OneSession, Comes, Attached, Key, Channel, Running
  <1> QED
    BY <1>1, <1>2, <1>3 DEF SessionInv

\* A step that ends a handler which was not about to load.
LEMMA SessionLeft ==
    ASSUME TypeInv, SessionInv, NEW r \in Handlers, job[r].at # "load", Left(r),
           UNCHANGED <<holder, sessions>>
    PROVE  SessionInv'
  <1>1. Attached(r)'
    BY DEF Left, Comes, Attached, Running
  <1> QED
    BY <1>1, SessionFrame DEF Left, Places

\* A step of a handler that keeps its conversation and its session.
LEMMA SessionSame ==
    ASSUME TypeInv, SessionInv, NEW r \in Handlers, NEW at \in Places \ {"load"},
           Running(r), job[r].at # "load", Comes(r, at), job'[r].conv = job[r].conv,
           job'[r].session = job[r].session, UNCHANGED <<holder, sessions>>
    PROVE  SessionInv'
  <1>1. Attached(r)'
    BY DEF SessionInv, OneSession, Attached, Running, Key, Channel
  <1> QED
    BY <1>1, SessionFrame

\* A step of a handler that takes up the session which the manager has.
LEMMA SessionUsed ==
    ASSUME TypeInv, SessionInv, NEW r \in Handlers, job[r].at # "load", Comes(r, "persist"),
           job'[r].conv = job[r].conv, job'[r].session = sessions[Key(r)],
           UNCHANGED <<holder, sessions>>
    PROVE  SessionInv'
  <1>1. Attached(r)'
    BY DEF Attached, Key, Channel
  <1> QED
    BY <1>1, SessionFrame DEF Places

\* A handler that has only begun has no session.
LEMMA SessionFresh ==
    ASSUME TypeInv, SessionInv, NEW r \in Handlers, NEW at \in Places \ {"load"},
           job[r].at # "load", Comes(r, at), Fresh(r), UNCHANGED <<holder, sessions>>
    PROVE  SessionInv'
  <1>1. Attached(r)'
    BY DEF Attached, Fresh
  <1> QED
    BY <1>1, SessionFrame

\* The write lock is taken by a handler that finds no session.
LEMMA SessionLock ==
    ASSUME TypeInv, SessionInv, NEW r \in Handlers, LockSessions(r)
    PROVE  SessionInv'
  <1>1. /\ job[r].at = "lock" /\ holder = None /\ UNCHANGED sessions
        /\ job[r].session = None /\ Running(r)
    BY DEF LockSessions, TypeInv, Placed, Before, Running
  <1>2. CASE /\ sessions[Key(r)] = None /\ holder' = r
             /\ Comes(r, "load") /\ SameWork(r)
    <2>1. \A s \in Handlers : job[s].at # "load"
      BY <1>1, SentinelAssumption DEF SessionInv, Loading
    <2>2. LockIsReleased'
      BY <1>2 DEF LockIsReleased, Comes
    <2>3. \A s \in Handlers : Loading(s)'
      BY <1>1, <1>2, <2>1 DEF Loading, Comes, SameWork, SameConv, Key, Channel
    <2>4. OneSession'
      BY <1>1, <1>2 DEF SessionInv, OneSession, Comes, SameWork, SameConv, Key, Channel, Running
    <2> QED
      BY <2>2, <2>3, <2>4 DEF SessionInv
  <1>3. CASE /\ Comes(r, "persist") /\ SameConv(r)
             /\ job'[r].session = sessions[Key(r)] /\ holder' = None
    BY <1>1, <1>3, SessionUsed DEF SameConv
  <1> QED
    BY <1>2, <1>3, LockMoves

\* The session that is loaded is the first of its key, since only one handler loads and
\* found none under the same lock; so it replaces none that another handler uses.
LEMMA SessionLoad ==
    ASSUME TypeInv, SessionInv, NEW r \in Handlers, LoadSession(r)
    PROVE  SessionInv'
  <1>1. /\ job[r].at = "load" /\ holder = r /\ sessions[Key(r)] = None
        /\ \A s \in Handlers \ {r} : job[s].at # "load"
        /\ Key(r) \in Keys /\ holder' = None /\ sessions \in [Keys -> Handlers \cup {None}]
    BY LoadMoves DEF LoadSession, SessionInv, Loading, TypeInv, TypeOK
  <1>2. LockIsReleased'
    BY <1>1 DEF LockIsReleased
  <1>3. CASE Left(r) /\ UNCHANGED sessions
    <2>1. \A s \in Handlers : Loading(s)'
      BY <1>1, <1>3 DEF Loading, Left, Comes
    <2>2. OneSession'
      BY <1>3 DEF SessionInv, OneSession, Left, Comes, Key, Channel, Running
    <2> QED
      BY <1>2, <2>1, <2>2 DEF SessionInv
  <1>4. CASE /\ Comes(r, "persist") /\ SameConv(r) /\ job'[r].session = r
             /\ sessions' = [sessions EXCEPT ![Key(r)] = r]
    <2>1. \A s \in Handlers : Loading(s)'
      BY <1>1, <1>4 DEF Loading, Comes
    <2>2. sessions'[Key(r)] = r /\ \A k \in Keys \ {Key(r)} : sessions'[k] = sessions[k]
      BY <1>1, <1>4
    <2>3. Attached(r)'
      BY <1>4, <2>2 DEF Attached, SameConv, Key, Channel
    <2>4. ASSUME NEW s \in Handlers \ {r}, Running(s), job[s].session # None
          PROVE  sessions'[Key(s)] = job[s].session
      <3>1. sessions[Key(s)] = job[s].session /\ Key(s) \in Keys
        BY <2>4, KeyType DEF SessionInv, OneSession
      <3> QED
        BY <1>1, <2>2, <2>4, <3>1
    <2>5. OneSession'
      BY <1>4, <2>3, <2>4 DEF OneSession, Comes, Attached, Running, Key, Channel
    <2> QED
      BY <1>2, <2>1, <2>5 DEF SessionInv
  <1> QED
    BY <1>3, <1>4, LoadMoves DEF Ends

\* Every step preserves the invariant of the sessions.
LEMMA SessionStep ==
    ASSUME TypeInv, SessionInv, [Next]_vars
    PROVE  SessionInv'
  <1>1. /\ "find" \in Places /\ "upload" \in Places /\ "download" \in Places
        /\ "lock" \in Places /\ "persist" \in Places /\ "write" \in Places
        /\ "learn" \in Places /\ "chat" \in Places /\ "reply" \in Places /\ "send" \in Places
    BY DEF Places
  <1>2. \A r \in Handlers : Then(r) \in Places \ {"load"}
    BY DEF Then, Places
  <1>3. ASSUME NEW r \in Handlers, Ends(r) \/ Answered(r)
        PROVE  Left(r)
    BY <1>3 DEF Ends, Answered
  <1>4. ASSUME NEW r \in Handlers, SameWork(r)
        PROVE  job'[r].conv = job[r].conv /\ job'[r].session = job[r].session
    BY <1>4 DEF SameWork, SameConv
  <1>5. ASSUME NEW r \in Handlers, SameConv(r)
        PROVE  job'[r].conv = job[r].conv
    BY <1>5 DEF SameConv
  <1>6. ASSUME UNCHANGED <<job, holder, sessions>>
        PROVE  SessionInv'
    BY <1>6
    DEF SessionInv, LockIsReleased, OneSession, Loading, Running, Key, Channel
  <1>7. ASSUME NEW r \in Requests, Reject(r) \/ Post(r)
        PROVE  SessionInv'
    <2>1. /\ r \in Handlers /\ job[r].at # "load" /\ UNCHANGED <<holder, sessions>> /\ TypeOK
      BY <1>7 DEF Handlers, Reject, Post, manager, TypeInv
    <2>2. CASE Reject(r)
      BY <1>3, <2>1, <2>2, EndEnds, SessionLeft DEF Reject
    <2>3. CASE Post(r)
      BY <1>1, <1>3, <1>6, <2>1, <2>3, PostMoves, SessionLeft, SessionFresh
    <2> QED
      BY <1>7, <2>2, <2>3
  <1>8. ASSUME NEW u \in Updates, CheckAccess(u) \/ Receive(u)
        PROVE  SessionInv'
    <2>1. /\ u \in Handlers /\ job[u].at # "load" /\ UNCHANGED <<holder, sessions>> /\ TypeOK
      BY <1>8 DEF Handlers, CheckAccess, Receive, manager, TypeInv
    <2>2. CASE CheckAccess(u)
      BY <1>3, <2>1, <2>2, EndEnds, SessionLeft DEF CheckAccess
    <2>3. CASE Receive(u)
      BY <1>1, <1>3, <2>1, <2>3, ReceiveMoves, SessionLeft, SessionFresh
    <2> QED
      BY <1>8, <2>2, <2>3
  <1>9. ASSUME NEW r \in Handlers, SaveUpload(r)
        PROVE  SessionInv'
    <2>1. Running(r) /\ job[r].at # "load" /\ UNCHANGED <<holder, sessions>>
      BY <1>9 DEF SaveUpload, manager, Running
    <2> QED
      BY <1>1, <1>3, <1>4, <1>9, <2>1, SaveUploadMoves, SessionLeft, SessionSame
  <1>10. ASSUME NEW r \in Handlers, DownloadFile(r)
         PROVE  SessionInv'
    <2>1. Running(r) /\ job[r].at # "load" /\ UNCHANGED <<holder, sessions>>
      BY <1>10 DEF DownloadFile, manager, Running
    <2> QED
      BY <1>1, <1>3, <1>4, <1>10, <2>1, DownloadMoves, SessionLeft, SessionSame
  <1>11. ASSUME NEW r \in Handlers, FindSession(r)
         PROVE  SessionInv'
    <2>1. Running(r) /\ job[r].at # "load" /\ UNCHANGED <<holder, sessions>>
      BY <1>11 DEF FindSession, manager, Running
    <2> QED
      BY <1>1, <1>4, <1>5, <1>11, <2>1, FindMoves, SessionUsed, SessionSame
  <1>12. ASSUME NEW r \in Handlers, LookUpKnown(r)
         PROVE  SessionInv'
    <2>1. Running(r) /\ job[r].at # "load" /\ UNCHANGED <<holder, sessions>>
      BY <1>12 DEF LookUpKnown, manager, Running
    <2> QED
      BY <1>1, <1>4, <1>12, <2>1, LookUpMoves, SessionSame
  <1>13. ASSUME NEW r \in Handlers, PersistMessage(r)
         PROVE  SessionInv'
    <2>1. Running(r) /\ job[r].at # "load" /\ UNCHANGED <<holder, sessions>>
      BY <1>13 DEF PersistMessage, manager, Running
    <2> QED
      BY <1>1, <1>2, <1>3, <1>4, <1>13, <2>1, PersistMoves, SessionLeft, SessionSame
  <1>14. ASSUME NEW r \in Handlers, LearnKnown(r)
         PROVE  SessionInv'
    <2>1. Running(r) /\ job[r].at # "load" /\ UNCHANGED <<holder, sessions>>
      BY <1>14 DEF LearnKnown, Running
    <2> QED
      BY <1>2, <1>4, <1>14, <2>1, LearnMoves, SessionSame
  <1>15. ASSUME NEW r \in Handlers, Chat(r)
         PROVE  SessionInv'
    <2>1. Running(r) /\ job[r].at # "load" /\ UNCHANGED <<holder, sessions>>
      BY <1>15 DEF Chat, manager, Running
    <2> QED
      BY <1>1, <1>3, <1>5, <1>15, <2>1, ChatMoves, SessionLeft, SessionSame
  <1>16. ASSUME NEW r \in Handlers, Reply(r)
         PROVE  SessionInv'
    <2>1. Running(r) /\ job[r].at # "load" /\ UNCHANGED <<holder, sessions>>
      BY <1>16 DEF Reply, manager, Running
    <2> QED
      BY <1>1, <1>3, <1>4, <1>16, <2>1, ReplyMoves, SessionLeft, SessionSame
  <1>17. ASSUME NEW u \in Handlers, SendChunk(u)
         PROVE  SessionInv'
    <2>1. Running(u) /\ job[u].at # "load" /\ UNCHANGED <<holder, sessions>>
      BY <1>17 DEF SendChunk, manager, Running
    <2> QED
      BY <1>1, <1>3, <1>17, <2>1, SendMoves, SessionLeft, SessionSame
  <1>18. ASSUME Exit
         PROVE  SessionInv'
    <2>1. /\ holder' = None
          /\ \A r \in Handlers : job'[r].at \in {"unsent", "ended"}
      BY <1>18, ExitMoves DEF Exit, Running
    <2> QED
      BY <2>1 DEF SessionInv, LockIsReleased, OneSession, Loading, Running
  <1>19. ASSUME Get \/ Start \/ Stop \/ TimePasses
         PROVE  SessionInv'
    BY <1>6, <1>19 DEF Get, Start, Stop, TimePasses, manager
  <1>20. ASSUME NEW conv \in Chats, CreateConversation(conv)
         PROVE  SessionInv'
    BY <1>6, <1>20 DEF CreateConversation, manager
  <1>21. ASSUME UNCHANGED vars
         PROVE  SessionInv'
    BY <1>6, <1>21 DEF vars
  <1> QED
    BY <1>7, <1>8, <1>9, <1>10, <1>11, <1>12, <1>13, <1>14, <1>15, <1>16, <1>17, <1>18, <1>19,
       <1>20, <1>21, SessionLock, SessionLoad
    DEF Next, HandlerStep

LEMMA SessionInit ==
    ASSUME Init
    PROVE  SessionInv
  BY DEF Init, SessionInv, LockIsReleased, OneSession, Loading, Running, Unsent

\* The invariant of the sessions holds in every reachable state.
THEOREM SessionInvariant == Spec => []SessionInv
  <1>1. TypeInv /\ SessionInv /\ [Next]_vars => SessionInv'
    BY SessionStep
  <1> QED
    BY <1>1, SessionInit, HandlersAreTyped, PTL DEF Spec

\* For any number of handlers, however they interleave, those that work on one
\* conversation of a channel share the one session the manager has for it.
THEOREM SessionIsShared == Spec => []OneSession
  <1>1. SessionInv => OneSession
    BY DEF SessionInv
  <1> QED
    BY <1>1, SessionInvariant, PTL

\* The write lock is held only by a handler whose next step releases it.
THEOREM LockIsNotLost == Spec => []LockIsReleased
  <1>1. SessionInv => LockIsReleased
    BY DEF SessionInv
  <1> QED
    BY <1>1, SessionInvariant, PTL
-----------------------------------------------------------------------------
(***************************************************************************)
(* The database.                                                           *)
(***************************************************************************)
\* A handler that takes its conversation to exist is right.
Knows(r) == /\ job[r].known => job[r].conv \in conversations
            /\ job[r].at = "learn" => job[r].conv \in conversations

\* A step of one handler that adds no row and learns nothing.
LEMMA OrphanFrame ==
    ASSUME OrphanInv, NEW r \in Handlers, NEW at, Comes(r, at), Knows(r)',
           UNCHANGED <<known, conversations, rows>>
    PROVE  OrphanInv'
  BY DEF OrphanInv, NoOrphans, KnownExist, Knows, Comes

\* A handler that is over, or has only begun, knows nothing.
LEMMA KnowsNothing ==
    ASSUME NEW r \in Handlers, NEW at \in {"ended", "find", "upload", "download"},
           Comes(r, at), ~ job'[r].known
    PROVE  Knows(r)'
  BY DEF Knows, Comes

\* A handler that keeps its conversation and learns nothing is right as before.
LEMMA KnowsSame ==
    ASSUME OrphanInv, NEW r \in Handlers, NEW at, Comes(r, at), at # "learn",
           job'[r].conv = job[r].conv, SameKnown(r), conversations \subseteq conversations'
    PROVE  Knows(r)'
  BY DEF OrphanInv, KnownExist, Knows, Comes, SameKnown

\* A message is stored with its conversation, or in one that is known to exist.
LEMMA OrphanPersist ==
    ASSUME TypeInv, OrphanInv, NEW r \in Handlers, PersistMessage(r)
    PROVE  OrphanInv'
  <1>1. /\ UNCHANGED known /\ Row(r).conv = job[r].conv
        /\ rows' \in {rows, rows \cup {Row(r)}}
        /\ conversations' \in {conversations, conversations \cup {job[r].conv}}
        /\ rows' # rows => job[r].known \/ job[r].conv \in conversations'
    BY PersistMoves DEF PersistMessage, manager, Row
  <1>2. NoOrphans'
    BY <1>1 DEF OrphanInv, NoOrphans, KnownExist
  <1>3. conversations \subseteq conversations'
    BY <1>1
  <1>4. Knows(r)' /\ \A s \in Handlers \ {r} : job'[s] = job[s]
    <2>1. CASE Ends(r)
      BY <2>1, KnowsNothing DEF Ends, Left, Comes
    <2>2. CASE Comes(r, Then(r)) /\ SameWork(r) /\ SameKnown(r)
      BY <1>3, <2>2, KnowsSame DEF Then, SameWork, SameConv, Comes
    <2>3. CASE /\ Comes(r, "learn") /\ job[r].conv \in conversations'
               /\ SameWork(r) /\ SameKnown(r)
      BY <1>3, <2>3 DEF Knows, SameWork, SameConv, Comes
    <2> QED
      BY <2>1, <2>2, <2>3, PersistMoves
  <1>5. KnownExist'
    BY <1>1, <1>3, <1>4 DEF OrphanInv, KnownExist, Knows
  <1> QED
    BY <1>2, <1>5 DEF OrphanInv

\* Every step preserves the invariant of the database.
LEMMA OrphanStep ==
    ASSUME TypeInv, OrphanInv, [Next]_vars
    PROVE  OrphanInv'
  <1>1. ASSUME UNCHANGED <<job, known, conversations, rows>>
        PROVE  OrphanInv'
    BY <1>1 DEF OrphanInv, NoOrphans, KnownExist
  <1>2. ASSUME NEW r \in Handlers, Ends(r) \/ Answered(r), UNCHANGED <<known, conversations, rows>>
        PROVE  OrphanInv'
    BY <1>2, KnowsNothing, OrphanFrame DEF Ends, Answered, Left, Comes
  <1>3. ASSUME NEW r \in Handlers, NEW at \in {"find", "upload", "download"}, Comes(r, at),
               Fresh(r), UNCHANGED <<known, conversations, rows>>
        PROVE  OrphanInv'
    BY <1>3, KnowsNothing, OrphanFrame DEF Fresh
  <1>4. ASSUME NEW r \in Handlers, NEW at, Comes(r, at), at # "learn", SameKnown(r),
               job'[r].conv = job[r].conv, UNCHANGED <<known, conversations, rows>>
        PROVE  OrphanInv'
    BY <1>4, KnowsSame, OrphanFrame
  <1>5. ASSUME NEW r \in Handlers, SameWork(r) \/ SameConv(r)
        PROVE  job'[r].conv = job[r].conv
    BY <1>5 DEF SameWork, SameConv
  <1>6. ASSUME NEW r \in Requests, Reject(r) \/ Post(r)
        PROVE  OrphanInv'
    <2>1. r \in Handlers /\ UNCHANGED <<known, conversations, rows>> /\ TypeOK
      BY <1>6 DEF Handlers, Reject, Post, manager, database, TypeInv
    <2>2. CASE Reject(r)
      BY <1>2, <2>1, <2>2, EndEnds DEF Reject
    <2>3. CASE Post(r)
      BY <1>1, <1>2, <1>3, <2>1, <2>3, PostMoves
    <2> QED
      BY <1>6, <2>2, <2>3
  <1>7. ASSUME NEW u \in Updates, CheckAccess(u) \/ Receive(u)
        PROVE  OrphanInv'
    <2>1. u \in Handlers /\ UNCHANGED <<known, conversations, rows>> /\ TypeOK
      BY <1>7 DEF Handlers, CheckAccess, Receive, manager, database, TypeInv
    <2>2. CASE CheckAccess(u)
      BY <1>2, <2>1, <2>2, EndEnds DEF CheckAccess
    <2>3. CASE Receive(u)
      BY <1>2, <1>3, <2>1, <2>3, ReceiveMoves
    <2> QED
      BY <1>7, <2>2, <2>3
  <1>8. ASSUME NEW r \in Handlers, SaveUpload(r) \/ DownloadFile(r)
        PROVE  OrphanInv'
    <2>1. UNCHANGED <<known, conversations, rows>>
      BY <1>8 DEF SaveUpload, DownloadFile, manager, database
    <2> QED
      BY <1>2, <1>4, <1>5, <1>8, <2>1, SaveUploadMoves, DownloadMoves
  <1>9. ASSUME NEW r \in Handlers, FindSession(r) \/ LockSessions(r)
        PROVE  OrphanInv'
    <2>1. UNCHANGED <<known, conversations, rows>>
      BY <1>9 DEF FindSession, LockSessions, manager, database
    <2> QED
      BY <1>4, <1>5, <1>9, <2>1, FindMoves, LockMoves
  <1>10. ASSUME NEW r \in Handlers, LoadSession(r)
         PROVE  OrphanInv'
    <2>1. UNCHANGED <<conversations, rows>>
      BY <1>10 DEF LoadSession, database
    <2>2. CASE Ends(r) /\ UNCHANGED known
      BY <1>2, <2>1, <2>2
    <2>3. CASE /\ Comes(r, "persist") /\ SameConv(r) /\ SameKnown(r)
               /\ known' \in {known, known \cup {job[r].conv}}
               /\ known' # known => HasRows(job[r].conv)
      <3>1. known' \subseteq conversations'
        BY <2>1, <2>3 DEF OrphanInv, NoOrphans, KnownExist, HasRows
      <3>2. Knows(r)' /\ \A q \in Handlers \ {r} : job'[q] = job[q]
        BY <1>5, <2>1, <2>3, KnowsSame DEF Comes
      <3> QED
        BY <2>1, <3>1, <3>2 DEF OrphanInv, NoOrphans, KnownExist, Knows
    <2> QED
      BY <1>10, <2>2, <2>3, LoadMoves
  <1>11. ASSUME NEW r \in Handlers, LookUpKnown(r)
         PROVE  OrphanInv'
    <2>1. UNCHANGED <<known, conversations, rows>>
      BY <1>11 DEF LookUpKnown, manager, database
    <2>2. /\ Comes(r, "write") /\ job'[r].conv = job[r].conv
          /\ job'[r].known => job[r].conv \in known
      BY <1>5, <1>11, LookUpMoves
    <2>3. Knows(r)'
      BY <2>1, <2>2 DEF OrphanInv, KnownExist, Knows, Comes
    <2> QED
      BY <2>1, <2>2, <2>3, OrphanFrame
  <1>12. ASSUME NEW r \in Handlers, LearnKnown(r)
         PROVE  OrphanInv'
    <2>1. /\ UNCHANGED <<conversations, rows>> /\ known' = known \cup {job[r].conv}
          /\ job[r].conv \in conversations
          /\ Comes(r, Then(r)) /\ Then(r) # "learn" /\ SameKnown(r) /\ job'[r].conv = job[r].conv
      BY <1>5, <1>12, LearnMoves DEF LearnKnown, database, Then, OrphanInv, KnownExist
    <2>2. Knows(r)' /\ \A q \in Handlers \ {r} : job'[q] = job[q]
      BY <2>1, KnowsSame DEF Comes
    <2> QED
      BY <2>1, <2>2 DEF OrphanInv, NoOrphans, KnownExist, Knows
  <1>13. ASSUME NEW r \in Handlers, Chat(r) \/ Reply(r) \/ SendChunk(r)
         PROVE  OrphanInv'
    <2>1. UNCHANGED <<known, conversations, rows>>
      BY <1>13 DEF Chat, Reply, SendChunk, manager, database
    <2> QED
      BY <1>2, <1>4, <1>5, <1>13, <2>1, ChatMoves, ReplyMoves, SendMoves
  <1>14. ASSUME Exit
         PROVE  OrphanInv'
    <2>1. /\ UNCHANGED <<conversations, rows>> /\ known' = {}
          /\ \A r \in Handlers :
               \/ job'[r] = job[r]
               \/ job'[r].at = "ended" /\ ~ job'[r].known
      BY <1>14, ExitMoves DEF Exit, database
    <2> QED
      BY <2>1 DEF OrphanInv, NoOrphans, KnownExist
  <1>15. ASSUME Get \/ Start \/ Stop \/ TimePasses
         PROVE  OrphanInv'
    BY <1>1, <1>15 DEF Get, Start, Stop, TimePasses, manager, database
  <1>16. ASSUME NEW conv \in Chats, CreateConversation(conv)
         PROVE  OrphanInv'
    BY <1>16 DEF CreateConversation, manager, OrphanInv, NoOrphans, KnownExist
  <1>17. ASSUME UNCHANGED vars
         PROVE  OrphanInv'
    BY <1>1, <1>17 DEF vars
  <1> QED
    BY <1>6, <1>7, <1>8, <1>9, <1>10, <1>11, <1>12, <1>13, <1>14, <1>15, <1>16, <1>17,
       OrphanPersist
    DEF Next, HandlerStep

\* For any handlers, failing writes, kills and starts, no message is without its
\* conversation, though the database does not enforce it.
THEOREM MessagesHaveConversations == Spec => []NoOrphans
  <1>1. Init => OrphanInv
    BY DEF Init, OrphanInv, NoOrphans, KnownExist, Unsent
  <1>2. TypeInv /\ OrphanInv /\ [Next]_vars => OrphanInv'
    BY OrphanStep
  <1>3. OrphanInv => NoOrphans
    BY DEF OrphanInv
  <1> QED
    BY <1>1, <1>2, <1>3, HandlersAreTyped, PTL DEF Spec
-----------------------------------------------------------------------------
(***************************************************************************)
(* Answers.                                                                *)
(***************************************************************************)
\* What a handler has stored stays stored.
LEMMA StoredStays ==
    ASSUME NEW r \in Handlers, NEW role, rows \subseteq rows', job'[r].conv = job[r].conv,
           HasStored(r, role)
    PROVE  HasStored(r, role)'
  BY DEF HasStored

\* A step of one handler.
LEMMA AnswerFrame ==
    ASSUME AnswerInv, NEW r \in Handlers, NEW at, Comes(r, at), rows \subseteq rows', Stored(r)'
    PROVE  AnswerInv'
  <1>1. ASSUME NEW s \in Handlers \ {r}
        PROVE  Stored(s)'
    <2>1. job'[s] = job[s] /\ Stored(s)
      BY DEF Comes, AnswerInv
    <2>2. \A role : HasStored(s, role) => HasStored(s, role)'
      BY <2>1, StoredStays
    <2> QED
      BY <2>1, <2>2 DEF Stored
  <1> QED
    BY <1>1 DEF AnswerInv

\* A handler that is over has stored what its client was told, if anything.
LEMMA AnswerLeft ==
    ASSUME AnswerInv, NEW r \in Handlers, Left(r), rows \subseteq rows',
           job'[r].heard => HasStored(r, "user") /\ HasStored(r, "assistant")
    PROVE  AnswerInv'
  <1>1. Stored(r)'
    BY StoredStays DEF Left, Comes, Stored
  <1> QED
    BY <1>1, AnswerFrame DEF Left

\* A handler whose client has been told nothing new, at a place that asks for nothing.
LEMMA AnswerQuiet ==
    ASSUME AnswerInv, NEW r \in Handlers, NEW at, Comes(r, at), rows \subseteq rows',
           at \in Before \/ (at \in {"persist", "write"} /\ job'[r].role = "user"),
           SameConv(r) \/ ~ job'[r].heard
    PROVE  AnswerInv'
  <1>1. job'[r].heard => HasStored(r, "user")' /\ HasStored(r, "assistant")'
    BY StoredStays DEF AnswerInv, Stored, SameConv
  <1>2. Stored(r)'
    BY <1>1 DEF Comes, Stored, Before
  <1> QED
    BY <1>2, AnswerFrame

\* A handler that keeps its conversation and role and has stored what its place asks for.
LEMMA AnswerSame ==
    ASSUME AnswerInv, NEW r \in Handlers, NEW at, Comes(r, at), rows \subseteq rows', SameConv(r),
           at \in {"persist", "write"} /\ job'[r].role = "assistant" => HasStored(r, "user")',
           at = "learn" => HasStored(r, "user")' /\ HasStored(r, job[r].role)',
           at = "chat" => HasStored(r, "user")',
           at \in {"reply", "send"} => HasStored(r, "user")' /\ HasStored(r, "assistant")'
    PROVE  AnswerInv'
  <1>1. job'[r].heard => HasStored(r, "user")' /\ HasStored(r, "assistant")'
    BY StoredStays DEF AnswerInv, Stored, SameConv
  <1>2. Stored(r)'
    BY <1>1 DEF Comes, Stored
  <1> QED
    BY <1>2, AnswerFrame

\* Every step preserves the invariant of the answers.
LEMMA AnswerStep ==
    ASSUME TypeInv, AnswerInv, [Next]_vars
    PROVE  AnswerInv'
  <1>1. ASSUME UNCHANGED <<job, rows>>
        PROVE  AnswerInv'
    <2>1. ASSUME NEW r \in Handlers, Stored(r)
          PROVE  Stored(r)'
      BY <1>1, <2>1 DEF Stored, HasStored
    <2> QED
      BY <2>1 DEF AnswerInv
  <1>2. ASSUME NEW r \in Handlers, Ends(r), rows \subseteq rows'
        PROVE  AnswerInv'
    <2>1. job'[r].heard => HasStored(r, "user") /\ HasStored(r, "assistant")
      BY <1>2 DEF Ends, AnswerInv, Stored
    <2> QED
      BY <1>2, <2>1, AnswerLeft DEF Ends
  <1>3. ASSUME NEW r \in Handlers, NEW at \in Before, Comes(r, at), Fresh(r), rows \subseteq rows'
        PROVE  AnswerInv'
    BY <1>3, AnswerQuiet DEF Fresh
  <1>4. ASSUME NEW r \in Handlers, NEW at, Comes(r, at), SameConv(r), rows \subseteq rows',
               at \in Before \/ (at \in {"persist", "write"} /\ job'[r].role = "user")
        PROVE  AnswerInv'
    BY <1>4, AnswerQuiet
  <1>5. /\ "find" \in Before /\ "upload" \in Before /\ "download" \in Before
        /\ "lock" \in Before /\ "load" \in Before
    BY DEF Before
  <1>6. ASSUME NEW r \in Handlers, SameWork(r)
        PROVE  SameConv(r) /\ job'[r].role = job[r].role
    BY <1>6 DEF SameWork
  <1>7. ASSUME NEW r \in Requests, Reject(r) \/ Post(r)
        PROVE  AnswerInv'
    <2>1. r \in Handlers /\ rows \subseteq rows' /\ UNCHANGED rows /\ TypeOK
      BY <1>7 DEF Handlers, Reject, Post, database, TypeInv
    <2>2. CASE Reject(r)
      BY <1>2, <2>1, <2>2, EndEnds DEF Reject
    <2>3. CASE Post(r)
      BY <1>1, <1>2, <1>3, <1>5, <2>1, <2>3, PostMoves
    <2> QED
      BY <1>7, <2>2, <2>3
  <1>8. ASSUME NEW u \in Updates, CheckAccess(u) \/ Receive(u)
        PROVE  AnswerInv'
    <2>1. u \in Handlers /\ rows \subseteq rows' /\ TypeOK
      BY <1>8 DEF Handlers, CheckAccess, Receive, database, TypeInv
    <2>2. CASE CheckAccess(u)
      BY <1>2, <2>1, <2>2, EndEnds DEF CheckAccess
    <2>3. CASE Receive(u)
      BY <1>2, <1>3, <1>5, <2>1, <2>3, ReceiveMoves
    <2> QED
      BY <1>8, <2>2, <2>3
  <1>9. ASSUME NEW r \in Handlers, SaveUpload(r) \/ DownloadFile(r)
        PROVE  AnswerInv'
    <2>1. rows \subseteq rows'
      BY <1>9 DEF SaveUpload, DownloadFile, database
    <2>2. \/ Ends(r)
          \/ SameWork(r) /\ (Comes(r, "find") \/ Comes(r, "upload"))
      <3>1. CASE SaveUpload(r)
        BY <3>1, SaveUploadMoves
      <3>2. CASE DownloadFile(r)
        BY <3>2, DownloadMoves
      <3> QED
        BY <1>9, <3>1, <3>2
    <2>3. CASE SameWork(r) /\ (Comes(r, "find") \/ Comes(r, "upload"))
      BY <1>4, <1>5, <1>6, <2>1, <2>3
    <2> QED
      BY <1>2, <2>1, <2>2, <2>3
  <1>10. ASSUME NEW r \in Handlers, FindSession(r) \/ LockSessions(r) \/ LoadSession(r)
         PROVE  AnswerInv'
    <2>1. rows \subseteq rows' /\ job[r].role = "user"
      BY <1>10 DEF FindSession, LockSessions, LoadSession, database, TypeInv, Placed, Before
    <2> QED
      BY <1>2, <1>4, <1>5, <1>6, <1>10, <2>1, FindMoves, LockMoves, LoadMoves
  <1>11. ASSUME NEW r \in Handlers, LookUpKnown(r)
         PROVE  AnswerInv'
    <2>1. rows \subseteq rows' /\ job[r].at = "persist"
      BY <1>11 DEF LookUpKnown, database
    <2>2. Comes(r, "write") /\ SameConv(r) /\ job'[r].role = job[r].role
      BY <1>6, <1>11, LookUpMoves
    <2>3. job'[r].role = "assistant" => HasStored(r, "user")'
      BY <2>1, <2>2, StoredStays DEF AnswerInv, Stored, SameConv
    <2> QED
      BY <2>1, <2>2, <2>3, AnswerSame
  <1>12. ASSUME NEW r \in Handlers, PersistMessage(r)
         PROVE  AnswerInv'
    <2>1. /\ rows \subseteq rows' /\ job[r].at = "write"
          /\ job[r].role \in {"user", "assistant"}
      BY <1>12, PersistMoves, TypeParts DEF PersistMessage, TypeInv, Job
    <2>2. CASE Ends(r)
      BY <1>2, <2>1, <2>2
    <2>3. CASE /\ Comes(r, Then(r)) \/ Comes(r, "learn")
               /\ SameWork(r) /\ Row(r) \in rows'
      <3>1. job'[r].role = job[r].role /\ job'[r].conv = job[r].conv /\ SameConv(r)
        BY <1>6, <2>3 DEF SameConv
      <3>2. HasStored(r, job[r].role)'
        BY <2>3, <3>1 DEF HasStored, Row
      <3>3. job[r].role = "assistant" => HasStored(r, "user")'
        BY <2>1, <3>1, StoredStays DEF AnswerInv, Stored
      <3>4. HasStored(r, "user")'
        BY <2>1, <3>1, <3>2, <3>3
      <3>5. job[r].role = "assistant" => HasStored(r, "assistant")'
        BY <3>1, <3>2
      <3> QED
        BY <2>1, <2>3, <3>1, <3>2, <3>4, <3>5, AnswerSame DEF Then
    <2> QED
      BY <1>12, <2>2, <2>3, PersistMoves
  <1>13. ASSUME NEW r \in Handlers, LearnKnown(r)
         PROVE  AnswerInv'
    <2>1. rows \subseteq rows' /\ job[r].at = "learn" /\ job[r].role \in {"user", "assistant"}
      BY <1>13, TypeParts DEF LearnKnown, database, TypeInv, Job
    <2>2. /\ Comes(r, Then(r)) /\ SameConv(r) /\ job'[r].role = job[r].role
          /\ job'[r].conv = job[r].conv
      BY <1>6, <1>13, LearnMoves DEF SameConv
    <2>3. HasStored(r, "user")' /\ (job[r].role = "assistant" => HasStored(r, "assistant")')
      BY <2>1, <2>2, StoredStays DEF AnswerInv, Stored
    <2> QED
      BY <2>1, <2>2, <2>3, AnswerSame DEF Then
  <1>14. ASSUME NEW r \in Handlers, Chat(r)
         PROVE  AnswerInv'
    <2>1. rows \subseteq rows' /\ job[r].at = "chat"
      BY <1>14 DEF Chat, database
    <2>2. CASE Comes(r, "persist") /\ SameConv(r)
      <3>1. HasStored(r, "user")'
        BY <2>1, <2>2, StoredStays DEF AnswerInv, Stored, SameConv
      <3> QED
        BY <2>1, <2>2, <3>1, AnswerSame
    <2> QED
      BY <1>2, <1>14, <2>1, <2>2, ChatMoves
  <1>15. ASSUME NEW r \in Handlers, Reply(r) \/ SendChunk(r)
         PROVE  AnswerInv'
    <2>1. /\ rows \subseteq rows'
          /\ HasStored(r, "user") /\ HasStored(r, "assistant")
      BY <1>15 DEF Reply, SendChunk, database, AnswerInv, Stored
    <2>2. CASE Answered(r)
      BY <2>1, <2>2, AnswerLeft DEF Answered
    <2>3. CASE Comes(r, "send") /\ job'[r].conv = job[r].conv
      <3>1. HasStored(r, "user")' /\ HasStored(r, "assistant")'
        BY <2>1, <2>3, StoredStays
      <3>2. Stored(r)'
        BY <2>3, <3>1 DEF Stored, Comes
      <3> QED
        BY <2>1, <2>3, <3>2, AnswerFrame
    <2> QED
      BY <1>2, <1>6, <1>15, <2>1, <2>2, <2>3, ReplyMoves, SendMoves DEF SameConv
  <1>16. ASSUME Exit
         PROVE  AnswerInv'
    <2>1. rows' = rows
      BY <1>16 DEF Exit, database
    <2>2. ASSUME NEW r \in Handlers
          PROVE  Stored(r)'
      <3>1. Stored(r)
        BY DEF AnswerInv
      <3>2. CASE job'[r] = job[r]
        BY <2>1, <3>1, <3>2 DEF Stored, HasStored
      <3>3. CASE /\ job'[r].at = "ended" /\ (job'[r].heard <=> job[r].heard)
                 /\ job[r].heard => job'[r].conv = job[r].conv
        BY <2>1, <3>1, <3>3 DEF Stored, HasStored
      <3> QED
        BY <1>16, <3>2, <3>3, ExitMoves
    <2> QED
      BY <2>2 DEF AnswerInv
  <1>17. ASSUME Get \/ Start \/ Stop \/ TimePasses \/ UNCHANGED vars
         PROVE  AnswerInv'
    BY <1>1, <1>17 DEF Get, Start, Stop, TimePasses, database, vars
  <1>18. ASSUME NEW conv \in Chats, CreateConversation(conv)
         PROVE  AnswerInv'
    BY <1>1, <1>18 DEF CreateConversation
  <1> QED
    BY <1>7, <1>8, <1>9, <1>10, <1>11, <1>12, <1>13, <1>14, <1>15, <1>16, <1>17, <1>18
    DEF Next, HandlerStep

\* For any handlers, a client that has its answer, or a part of it, finds question and
\* answer in the conversation, whichever writes failed and however often the process
\* has died since.
THEOREM AnswersAreStored == Spec => []AnsweredIsStored
  <1>1. Init => AnswerInv
    BY DEF Init, AnswerInv, Stored, Unsent
  <1>2. TypeInv /\ AnswerInv /\ [Next]_vars => AnswerInv'
    BY AnswerStep
  <1>3. AnswerInv => AnsweredIsStored
    <2> SUFFICES ASSUME AnswerInv, NEW r \in Handlers, job[r].heard
                 PROVE  {"user", "assistant"} \subseteq
                          {row.role : row \in {q \in rows : q.by = r /\ q.conv = job[r].conv}}
      BY DEF AnsweredIsStored
    <2>1. HasStored(r, "user") /\ HasStored(r, "assistant")
      BY DEF AnswerInv, Stored
    <2> QED
      BY <2>1 DEF HasStored
  <1> QED
    BY <1>1, <1>2, <1>3, HandlersAreTyped, PTL DEF Spec
-----------------------------------------------------------------------------
(***************************************************************************)
(* The inbox.                                                              *)
(***************************************************************************)
\* A step of one handler that adds no row.
LEMMA UploadFrame ==
    ASSUME UploadInv, NEW r \in Handlers, NEW at, Comes(r, at), UNCHANGED rows,
           inbox \subseteq inbox', r \in Requests => job'[r].files \subseteq inbox'
    PROVE  UploadInv'
  <1>1. UploadsExist'
    BY DEF UploadInv, UploadsExist
  <1>2. \A s \in Requests : s # r => job'[s] = job[s]
    BY DEF Comes, Handlers
  <1>3. FilesSaved'
    BY <1>2 DEF UploadInv, FilesSaved
  <1> QED
    BY <1>1, <1>3 DEF UploadInv

\* Every step preserves the invariant of the inbox.
LEMMA UploadStep ==
    ASSUME TypeInv, UploadInv, [Next]_vars
    PROVE  UploadInv'
  <1>1. ASSUME UNCHANGED <<job, rows, inbox>>
        PROVE  UploadInv'
    BY <1>1 DEF UploadInv, UploadsExist, FilesSaved
  <1>2. ASSUME NEW r \in Handlers, NEW at, Comes(r, at), UNCHANGED rows, inbox \subseteq inbox',
               job'[r].files = {} \/ SameFiles(r)
        PROVE  UploadInv'
    BY <1>2, UploadFrame DEF UploadInv, FilesSaved, SameFiles
  <1>3. ASSUME NEW r \in Handlers, Ends(r) \/ Answered(r), UNCHANGED rows, inbox \subseteq inbox'
        PROVE  UploadInv'
    BY <1>2, <1>3 DEF Ends, Answered, Left
  <1>4. ASSUME NEW r \in Handlers, NEW at, Comes(r, at), Fresh(r), UNCHANGED <<rows, inbox>>
        PROVE  UploadInv'
    BY <1>2, <1>4 DEF Fresh
  <1>5. ASSUME NEW r \in Requests, Reject(r) \/ Post(r)
        PROVE  UploadInv'
    <2>1. r \in Handlers /\ UNCHANGED <<rows, inbox>> /\ TypeOK
      BY <1>5 DEF Handlers, Reject, Post, database, TypeInv
    <2>2. CASE Reject(r)
      BY <1>3, <2>1, <2>2, EndEnds DEF Reject
    <2>3. CASE Post(r)
      BY <1>1, <1>3, <1>4, <2>1, <2>3, PostMoves
    <2> QED
      BY <1>5, <2>2, <2>3
  <1>6. ASSUME NEW u \in Updates, CheckAccess(u) \/ Receive(u)
        PROVE  UploadInv'
    <2>1. u \in Handlers /\ UNCHANGED <<rows, inbox>> /\ TypeOK
      BY <1>6 DEF Handlers, CheckAccess, Receive, database, TypeInv
    <2>2. CASE CheckAccess(u)
      BY <1>3, <2>1, <2>2, EndEnds DEF CheckAccess
    <2>3. CASE Receive(u)
      BY <1>3, <1>4, <2>1, <2>3, ReceiveMoves
    <2> QED
      BY <1>6, <2>2, <2>3
  <1>7. ASSUME NEW r \in Handlers, SaveUpload(r)
        PROVE  UploadInv'
    <2>1. UNCHANGED rows /\ inbox \subseteq inbox'
      BY <1>7, SaveUploadMoves DEF SaveUpload, database
    <2>2. ASSUME NEW at, Comes(r, at), job'[r].files = job[r].files \cup {<<r, job[r].left>>},
                 <<r, job[r].left>> \in inbox'
          PROVE  UploadInv'
      BY <2>1, <2>2, UploadFrame DEF UploadInv, FilesSaved
    <2> QED
      BY <1>3, <1>7, <2>1, <2>2, SaveUploadMoves
  <1>8. ASSUME NEW u \in Handlers, DownloadFile(u)
        PROVE  UploadInv'
    <2>1. UNCHANGED rows /\ inbox \subseteq inbox' /\ u \notin Requests
      BY <1>8, DownloadMoves, BoundsAssumption DEF DownloadFile, database
    <2> QED
      BY <1>3, <1>8, <2>1, DownloadMoves, UploadFrame
  <1>9. ASSUME NEW r \in Handlers, PersistMessage(r)
        PROVE  UploadInv'
    <2>1. /\ UNCHANGED inbox /\ rows' \in {rows, rows \cup {Row(r)}}
          /\ Row(r).by = r /\ Row(r).files = job[r].files
      BY <1>9, PersistMoves DEF PersistMessage, Row
    <2>2. UploadsExist'
      BY <2>1 DEF UploadInv, UploadsExist, FilesSaved
    <2>3. /\ job'[r].files = {} \/ job'[r].files = job[r].files
          /\ \A s \in Handlers \ {r} : job'[s] = job[s]
      BY <1>9, PersistMoves DEF Ends, Left, Comes, SameFiles
    <2>4. FilesSaved'
      BY <2>1, <2>3 DEF UploadInv, FilesSaved, Handlers
    <2> QED
      BY <2>2, <2>4 DEF UploadInv
  <1>10. ASSUME NEW r \in Handlers,
                FindSession(r) \/ LockSessions(r) \/ LoadSession(r) \/ LookUpKnown(r)
                  \/ LearnKnown(r)
         PROVE  UploadInv'
    <2>1. UNCHANGED <<rows, inbox>>
      BY <1>10 DEF FindSession, LockSessions, LoadSession, LookUpKnown, LearnKnown, database
    <2> QED
      BY <1>2, <1>3, <1>10, <2>1, FindMoves, LockMoves, LoadMoves, LookUpMoves, LearnMoves
  <1>11. ASSUME NEW r \in Handlers, Chat(r) \/ Reply(r) \/ SendChunk(r)
         PROVE  UploadInv'
    <2>1. UNCHANGED <<rows, inbox>>
      BY <1>11 DEF Chat, Reply, SendChunk, database
    <2> QED
      BY <1>2, <1>3, <1>11, <2>1, ChatMoves, ReplyMoves, SendMoves
  <1>12. ASSUME Exit
         PROVE  UploadInv'
    <2>1. /\ UNCHANGED <<rows, inbox>>
          /\ \A r \in Requests : job'[r] = job[r] \/ job'[r].files = {}
      BY <1>12, ExitMoves DEF Exit, database, Handlers
    <2> QED
      BY <2>1 DEF UploadInv, UploadsExist, FilesSaved
  <1>13. ASSUME Get \/ Start \/ Stop \/ TimePasses \/ UNCHANGED vars
         PROVE  UploadInv'
    BY <1>1, <1>13 DEF Get, Start, Stop, TimePasses, database, vars
  <1>14. ASSUME NEW conv \in Chats, CreateConversation(conv)
         PROVE  UploadInv'
    BY <1>1, <1>14 DEF CreateConversation
  <1> QED
    BY <1>5, <1>6, <1>7, <1>8, <1>9, <1>10, <1>11, <1>12, <1>13, <1>14 DEF Next, HandlerStep

\* For any requests and files, a REST prompt in the history names only files that are
\* complete in the inbox.
THEOREM PromptsNameUploads == Spec => []UploadsExist
  <1>1. Init => UploadInv
    BY DEF Init, UploadInv, UploadsExist, FilesSaved, Unsent, Handlers
  <1>2. TypeInv /\ UploadInv /\ [Next]_vars => UploadInv'
    BY UploadStep
  <1>3. UploadInv => UploadsExist
    BY DEF UploadInv
  <1> QED
    BY <1>1, <1>2, <1>3, HandlersAreTyped, PTL DEF Spec
-----------------------------------------------------------------------------
(***************************************************************************)
(* The rate in every stretch of time.                                      *)
(***************************************************************************)
\* The n-th process runs, and has not closed its channels.
InProcess(n) == starts = n /\ phase = "running"

\* A step ends the process or closes its channels, starts it, or is one in which the
\* limiter spends.
LEMMA ProcessSpends ==
    ASSUME RateInv, [Next]_vars
    PROVE  \/ Exit \/ Stop
           \/ Start
           \/ /\ [Spends]_limiter /\ starts' = starts
              /\ phase' = "running" => phase = "running"
  <1> DEFINE Goal == \/ /\ [Allow \/ Refuse \/ Tick]_limiter /\ starts' = starts
                        /\ phase' = "running" => phase = "running"
                     \/ Exit \/ Stop \/ Start
  <1>1. ASSUME NEW r \in Requests, Reject(r) \/ Post(r)
        PROVE  Goal
    BY <1>1 DEF Reject, Post, process
  <1>2. ASSUME NEW u \in Updates, CheckAccess(u) \/ Receive(u)
        PROVE  Goal
    BY <1>2 DEF CheckAccess, Receive, process
  <1>3. ASSUME NEW r \in Handlers, HandlerStep(r)
        PROVE  Goal
    BY <1>3
    DEF HandlerStep, SaveUpload, DownloadFile, FindSession, LockSessions, LoadSession,
        LookUpKnown, PersistMessage, LearnKnown, Chat, Reply, SendChunk, process
  <1>4. ASSUME Get
        PROVE  Goal
    <2>1. phase' = phase /\ starts' = starts
      BY <1>4 DEF Get, process
    <2> QED
      BY <1>4, <2>1 DEF Get
  <1>5. ASSUME TimePasses
        PROVE  Goal
    <2>1. phase' = phase /\ starts' = starts
      BY <1>5 DEF TimePasses, process
    <2> QED
      BY <1>5, <2>1 DEF TimePasses
  <1>6. ASSUME NEW conv \in Chats, CreateConversation(conv)
        PROVE  Goal
    BY <1>6 DEF CreateConversation, process
  <1>7. ASSUME UNCHANGED vars
        PROVE  Goal
    BY <1>7 DEF vars
  <1>8. Start \/ Stop \/ Exit => Goal
    OBVIOUS
  <1> HIDE DEF Goal
  <1>9. Goal
    BY <1>1, <1>2, <1>3, <1>4, <1>5, <1>6, <1>7, <1>8 DEF Next
  <1> QED
    BY <1>9, StepSpends DEF Goal

\* Within a process every request that gets through costs a token, and only time brings
\* tokens.
THEOREM RequestsCostTokens == Spec => TokensAreSpent
  <1>1. RateInv /\ [Next]_vars => [ForgetLimiter \/ Spends]_limiter
    <2> SUFFICES ASSUME RateInv, [Next]_vars
                 PROVE  [ForgetLimiter \/ Spends]_limiter
      OBVIOUS
    <2>1. CASE Exit \/ Stop
      BY <2>1 DEF Exit, Stop
    <2>2. CASE Start
      BY <2>2 DEF Start
    <2> QED
      BY <2>1, <2>2, ProcessSpends
  <1> QED
    BY <1>1, LimiterInvariant, PTL DEF Spec, TokensAreSpent

\* What got through since then and what is left came from the burst and the time.
Balance(a, t) == (admitted - a) * Minute + TokensLeft <= Full + (now - t) * PerMinute

\* What a request finds is a number of units up to the burst.
LEMMA LeftIsANumber ==
    ASSUME RateInv
    PROVE  TokensLeft \in 0..Full
  BY FoundRefilled DEF TokensLeft, Buckets

\* A step that spends keeps the balance.
LEMMA BalanceIsKept ==
    ASSUME NEW a \in Nat, NEW t \in Nat, RateInv, RateInv', [Spends]_limiter, Balance(a, t)
    PROVE  Balance(a, t)'
  <1>1. /\ PerMinute \in Nat /\ Minute \in Nat /\ Full \in Nat
        /\ now \in Nat /\ admitted \in Nat /\ now' \in Nat /\ admitted' \in Nat
    BY FullIsAToken, RateAssumption DEF RateInv, LimiterTypeOK
  <1>2. CASE UNCHANGED limiter
    BY <1>2 DEF limiter, Balance, TokensLeft, Found
  <1>3. CASE Spends
    <2>1. ASSUME NEW x \in Int, NEW y \in Int, NEW z \in Int, NEW k \in Nat
          PROVE  /\ (z - x) * k = (z - y) * k + (y - x) * k
                 /\ {(z - x) * k, (z - y) * k, (y - x) * k} \subseteq Int
      BY <2>1
    <2>2. /\ (admitted' - a) * Minute = (admitted' - admitted) * Minute + (admitted - a) * Minute
          /\ {(admitted' - a) * Minute, (admitted' - admitted) * Minute,
              (admitted - a) * Minute} \subseteq Int
      BY <1>1, <2>1
    <2>3. /\ (now' - t) * PerMinute = (now' - now) * PerMinute + (now - t) * PerMinute
          /\ {(now' - t) * PerMinute, (now' - now) * PerMinute, (now - t) * PerMinute}
               \subseteq Int
      BY <1>1, <2>1
    <2>4. TokensLeft \in Int /\ TokensLeft' \in Int
      BY <1>1, <1>3 DEF Spends
    <2>5. (admitted' - admitted) * Minute + TokensLeft' <= TokensLeft + (now' - now) * PerMinute
      BY <1>3 DEF Spends
    <2>6. (admitted - a) * Minute + TokensLeft <= Full + (now - t) * PerMinute
      BY DEF Balance
    <2>7. (admitted' - a) * Minute + TokensLeft' <= Full + (now' - t) * PerMinute
      <3>1. ASSUME NEW x \in Int, NEW y \in Int, NEW d \in Int, NEW e \in Int,
                   NEW left \in Int, NEW next \in Int,
                   d + next <= left + e, x + left <= Full + y
            PROVE  (d + x) + next <= Full + (e + y)
        BY <1>1, <3>1
      <3> QED
        BY <2>2, <2>3, <2>4, <2>5, <2>6, <3>1
    <2> QED
      BY <2>7 DEF Balance
  <1> QED
    BY <1>2, <1>3

\* allow: from any moment of a process on, however requests are spaced and whatever else
\* happens, no more of them get through than the burst and what the time since that moment
\* has brought.
THEOREM EveryWindowIsBounded ==
    ASSUME NEW a \in Nat, NEW t \in Nat, NEW n \in Nat
    PROVE  Spec => [](InProcess(n) /\ admitted = a /\ now = t =>
                        [](InProcess(n) =>
                             (admitted - a) * Minute <= Full + (now - t) * PerMinute))
  <1> DEFINE Moment == InProcess(n) /\ admitted = a /\ now = t
             Bounded == InProcess(n) => (admitted - a) * Minute <= Full + (now - t) * PerMinute
             Since == starts >= n /\ (InProcess(n) => Balance(a, t))
             Inv == RateInv /\ TypeInv
  <1>1. Inv /\ Moment => Since
    <2> SUFFICES ASSUME RateInv, TypeInv, Moment
                 PROVE  Since
      OBVIOUS
    <2>1. Full \in Nat /\ TokensLeft \in 0..Full /\ Minute \in Nat /\ PerMinute \in Nat
      BY FullIsAToken, RateAssumption, LeftIsANumber
    <2>2. (admitted - a) * Minute = 0 /\ (now - t) * PerMinute = 0
      BY <2>1
    <2>3. Balance(a, t)
      BY <2>1, <2>2 DEF Balance
    <2> QED
      BY <2>3 DEF InProcess
  <1>2. Inv /\ Since => Bounded
    <2> SUFFICES ASSUME RateInv, Since, InProcess(n)
                 PROVE  (admitted - a) * Minute <= Full + (now - t) * PerMinute
      OBVIOUS
    <2>1. /\ now \in Nat /\ admitted \in Nat
          /\ Full \in Nat /\ TokensLeft \in 0..Full /\ Minute \in Nat /\ PerMinute \in Nat
      BY FullIsAToken, RateAssumption, LeftIsANumber DEF RateInv, LimiterTypeOK
    <2>2. (admitted - a) * Minute \in Int /\ (now - t) * PerMinute \in Int
      BY <2>1
    <2>3. (admitted - a) * Minute + TokensLeft <= Full + (now - t) * PerMinute
      BY DEF Balance
    <2> QED
      BY <2>1, <2>2, <2>3
  <1>3. Inv /\ Inv' /\ [Next]_vars /\ Since => Since'
    <2> SUFFICES ASSUME RateInv, RateInv', TypeInv, [Next]_vars, Since
                 PROVE  Since'
      OBVIOUS
    <2>1. starts \in Nat
      BY BoundsAssumption DEF TypeInv, TypeOK
    <2>2. CASE Exit \/ Stop
      BY <2>2 DEF Exit, Stop, InProcess, process
    <2>3. CASE Start
      BY <2>1, <2>3 DEF Start, InProcess
    <2>4. CASE [Spends]_limiter /\ starts' = starts /\ (phase' = "running" => phase = "running")
      <3>1. InProcess(n)' => Balance(a, t)'
        BY <2>4, BalanceIsKept DEF InProcess
      <3> QED
        BY <2>4, <3>1
    <2> QED
      BY <2>2, <2>3, <2>4, ProcessSpends
  <1> HIDE DEF Moment, Bounded, Since, Inv
  <1>4. Spec => [](Moment => []Bounded)
    <2>1. Spec => []Inv
      BY LimiterInvariant, HandlersAreTyped, PTL DEF Inv
    <2> QED
      BY <1>1, <1>2, <1>3, <2>1, PTL DEF Spec
  <1> QED
    BY <1>4 DEF Moment, Bounded
=============================================================================
