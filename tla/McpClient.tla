------------------------------ MODULE McpClient ------------------------------
(***************************************************************************)
(* The client of one MCP server: calls, the receiver and the connection.   *)
(*                                                                         *)
(* A call takes the next id, registers a channel of one place under it,    *)
(* writes its request and waits for an answer, for the channel to be       *)
(* closed or for its deadline. One goroutine receives the server's         *)
(* messages and puts each answer into the channel registered for its id;   *)
(* when receiving fails it closes every registered channel and ends.       *)
(* InitMCP makes the first two calls, initialize and tools/list, without a *)
(* deadline, before the dispatcher and the health monitor make theirs at   *)
(* the same time.                                                          *)
(*                                                                         *)
(* Notifications and messages that are no JSON-RPC change nothing and are  *)
(* left out. An answer is abstracted to the request it answers. The server *)
(* answers in any order, or never, each request MaxAnswers times at most.  *)
(***************************************************************************)
EXTENDS Naturals, Sequences

CONSTANTS
    MaxCalls,    \* bound: calls in a behaviour
    MaxAnswers,  \* answers the server may send to one request
    None         \* no answer

ASSUME BoundsAssumption == MaxCalls \in Nat /\ MaxAnswers \in Nat

Calls      == 1..MaxCalls
Initialize == 1
ListTools  == 2

VARIABLES
    kind,      \* the transport: "stdio" or "sse"
    link,      \* the server's output: "up", "failed", or ended without an error
    phase,     \* how far InitMCP is with this server
    call,      \* call[c]: where call is, and the answer it returns
    nextID,    \* Client.nextID
    pending,   \* the ids in Client.pending
    chan,      \* chan[c]: what the channel of call c holds
    shut,      \* calls whose channel is closed
    receiver,  \* receiveLoop: reading, delivering an answer, or ended
    answered,  \* answered[c]: answers the server has sent to request c
    close      \* Client.Close: not called, waiting for the process, or returned

vars == <<kind, link, phase, call, nextID, pending, chan, shut, receiver, answered, close>>

conn == <<kind, link, close>>
loop == <<receiver, answered>>

Reading == [at |-> "reading", call |-> 0]

Unused == [at |-> "unused", got |-> None]

Return(c, value) == call' = [call EXCEPT ![c] = [at |-> "returning", got |-> value]]
-----------------------------------------------------------------------------
(***************************************************************************)
(* call                                                                    *)
(***************************************************************************)
\* A mutated form: InitMCP does not look at the error of initialize.
CallsAnyway(c) == c <= ListTools \/ phase = "ready"

MayCall(c) ==
    CASE c = Initialize -> phase = "connecting"
      [] c = ListTools  -> phase = "listing"
      [] OTHER          -> phase = "ready"

Register(c) ==
    /\ c = nextID + 1
    /\ MayCall(c)
    /\ nextID' = c
    /\ pending' = pending \cup {c}
    /\ call' = [call EXCEPT ![c].at = "sending"]
    /\ UNCHANGED <<conn, phase, chan, shut, loop>>

\* Close holds the transport's lock while it waits for the process.
Send(c) ==
    /\ call[c].at = "sending"
    /\ close # "waiting"
    /\ \/ Return(c, None)
       \/ close = "open" /\ call' = [call EXCEPT ![c].at = "waiting"]
    /\ UNCHANGED <<conn, phase, nextID, pending, chan, shut, loop>>

TakeAnswer(c) ==
    /\ call[c].at = "waiting"
    /\ chan[c] # <<>>
    /\ Return(c, Head(chan[c]))
    /\ chan' = [chan EXCEPT ![c] = Tail(@)]
    /\ UNCHANGED <<conn, phase, nextID, pending, shut, loop>>

\* "connection closed"
SeeClosed(c) ==
    /\ call[c].at = "waiting"
    /\ chan[c] = <<>>
    /\ c \in shut
    /\ Return(c, None)
    /\ UNCHANGED <<conn, phase, nextID, pending, chan, shut, loop>>

\* The context of a tool call or of a ping; InitMCP's has no deadline.
Deadline(c) ==
    /\ call[c].at = "waiting"
    /\ c \notin {Initialize, ListTools}
    /\ Return(c, None)
    /\ UNCHANGED <<conn, phase, nextID, pending, chan, shut, loop>>

\* A mutated form: the deferred delete is forgotten.
LeavePending(c) == UNCHANGED pending

Unregister(c) == pending' = pending \ {c}

\* initialize is followed by a notification, which may not be written; a server that
\* fails is skipped.
Returned(c) ==
    /\ call[c].at = "returning"
    /\ call' = [call EXCEPT ![c].at = "done"]
    /\ Unregister(c)
    /\ \/ c \in {Initialize, ListTools} /\ phase' = "skipped"
       \/ c = Initialize /\ call[c].got # None /\ phase' = "listing"
       \/ c = ListTools /\ call[c].got # None /\ phase' = "ready"
       \/ c \notin {Initialize, ListTools} /\ UNCHANGED phase
    /\ UNCHANGED <<conn, nextID, chan, shut, loop>>
-----------------------------------------------------------------------------
(***************************************************************************)
(* receiveLoop                                                             *)
(***************************************************************************)
\* Mutated forms: an answer goes to whatever call is registered, a channel that is not
\* registered is used, or no channel has a place.
AnyPending(c) == pending
Unchecked(c) == IF c \in pending THEN {c} ELSE {0}
WhenAwaited(c) == chan[c] = <<>> /\ call[c].at = "waiting"

\* The channel is looked up under the lock and used after it.
Lookup(c) == pending \cap {c}

HasRoom(c) == chan[c] = <<>>

\* An answer nobody waits for any more is ignored; it may also come before Send returns.
Receive(c) ==
    /\ receiver = Reading
    /\ link = "up"
    /\ call[c].at # "unused"
    /\ answered[c] < MaxAnswers
    /\ answered' = [answered EXCEPT ![c] = @ + 1]
    /\ \/ \E d \in Lookup(c) : receiver' = [at |-> "delivering", call |-> d, answer |-> c]
       \/ Lookup(c) = {} /\ UNCHANGED receiver
    /\ UNCHANGED <<conn, phase, call, nextID, pending, chan, shut>>

Deliver ==
    /\ receiver.at = "delivering"
    /\ HasRoom(receiver.call)
    /\ chan' = [chan EXCEPT ![receiver.call] = Append(@, receiver.answer)]
    /\ receiver' = Reading
    /\ UNCHANGED <<conn, phase, call, nextID, pending, shut, answered>>

\* A mutated form: the channels are forgotten and not closed.
Forget == UNCHANGED shut

ClosePending == shut' = shut \cup pending

ReceiveFails ==
    /\ receiver = Reading
    /\ link = "failed"
    /\ ClosePending
    /\ pending' = {}
    /\ receiver' = [Reading EXCEPT !.at = "ended"]
    /\ UNCHANGED <<conn, phase, call, nextID, chan, answered>>
-----------------------------------------------------------------------------
(***************************************************************************)
(* The connection.                                                         *)
(***************************************************************************)
\* The output ends or cannot be read. readSSE reports only an error of its scanner:
\* after a stream that ends in good order Receive waits for ever.
Disconnect ==
    /\ link = "up"
    /\ \/ link' = "failed"
       \/ kind = "sse" /\ link' = "silent"
    /\ UNCHANGED <<kind, phase, call, nextID, pending, chan, shut, loop, close>>

\* Client.Close, for a server that is skipped or at the end of the program. For stdio
\* it closes the input and waits for the process, for SSE it cancels the stream.
CloseClient ==
    /\ close = "open"
    /\ phase \in {"skipped", "ready"}
    /\ \/ kind = "stdio" /\ close' = "waiting" /\ UNCHANGED link
       \/ kind = "sse" /\ close' = "closed"
            /\ link' = IF link = "up" THEN "failed" ELSE link
    /\ UNCHANGED <<kind, phase, call, nextID, pending, chan, shut, loop>>

ServerExits ==
    /\ close = "waiting"
    /\ close' = "closed"
    /\ link' = "failed"
    /\ UNCHANGED <<kind, phase, call, nextID, pending, chan, shut, loop>>
-----------------------------------------------------------------------------
Init ==
    /\ kind \in {"stdio", "sse"}
    /\ link = "up"
    /\ phase = "connecting"
    /\ call = [c \in Calls |-> Unused]
    /\ nextID = 0
    /\ pending = {}
    /\ chan = [c \in Calls |-> <<>>]
    /\ shut = {}
    /\ receiver = Reading
    /\ answered = [c \in Calls |-> 0]
    /\ close = "open"

CallStep(c) == Send(c) \/ TakeAnswer(c) \/ SeeClosed(c) \/ Deadline(c) \/ Returned(c)

ReceiverStep == Deliver \/ ReceiveFails

Next ==
    \/ \E c \in Calls : Register(c) \/ CallStep(c) \/ Receive(c)
    \/ ReceiverStep
    \/ Disconnect \/ CloseClient \/ ServerExits

Spec == Init /\ [][Next]_vars

\* The goroutines of the client run, a write ends and a deadline passes. Nothing is
\* assumed of the server.
FairSpec ==
    /\ Spec
    /\ \A c \in Calls : WF_vars(CallStep(c))
    /\ WF_vars(ReceiverStep)
-----------------------------------------------------------------------------
(***************************************************************************)
(* Properties.                                                             *)
(***************************************************************************)
\* Every variable stays in its range.
TypeOK ==
    /\ kind \in {"stdio", "sse"}
    /\ link \in {"up", "failed", "silent"}
    /\ phase \in {"connecting", "listing", "ready", "skipped"}
    /\ call \in [Calls -> [at : {"unused", "sending", "waiting", "returning", "done"},
                           got : Calls \cup {None}]]
    /\ nextID \in 0..MaxCalls
    /\ pending \subseteq Calls
    /\ \A c \in Calls : chan[c] \in Seq(Calls) /\ Len(chan[c]) <= 1
    /\ shut \subseteq Calls
    /\ receiver \in [at : {"reading", "ended"}, call : {0}]
                      \cup [at : {"delivering"}, call : Calls, answer : Calls]
    /\ answered \in [Calls -> 0..MaxAnswers]
    /\ close \in {"open", "waiting", "closed"}

\* Only calls under way are registered: a channel outlives neither its call's deadline
\* nor a failed write, so the map does not grow with the life of the connection.
NoLeak == \A c \in pending : call[c].at \in {"sending", "waiting", "returning"}

\* What the callers see of it: the calls made, those the server has answered, and what
\* each has ended with.
Asked      == {c \in Calls : call[c].at # "unused"}
HasAnswers == {c \in Calls : answered[c] > 0}
Ended      == {c \in Calls : call[c].at \in {"returning", "done"}}
Outcomes   == {<<c, call[c].got>> : c \in Ended}

Promise == INSTANCE RequestReply WITH
    Handshake <- {Initialize, ListTools},
    asked     <- Asked,
    answered  <- HasAnswers,
    returned  <- Outcomes

\* A call ends once, with an answer the server has sent to it or with an error, whichever of
\* answer, deadline, failed write and closed channel comes first, and no tool is called
\* before initialize and tools/list have been answered.
CallsEndOnce == Promise!Spec

\* The receiver is never held up by a call that has given up between the lookup of its
\* channel and the answer: the place in the channel takes it.
ReceiverMovesOn == receiver.at = "delivering" ~> receiver.at # "delivering"

\* When the connection fails every call that waits returns, also one without a deadline.
FailureIsSeen ==
    \A c \in Calls :
        call[c].at = "waiting" /\ link = "failed" /\ receiver.at # "ended"
          ~> call[c].at # "waiting"
==============================================================================
