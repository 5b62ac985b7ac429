---------------------------- MODULE McpClientProofs ----------------------------
(***************************************************************************)
(* Theorems about the client of an MCP server, for any number of calls.    *)
(*                                                                         *)
(* OwnAnswer is not inductive: it has to be known of an answer before it   *)
(* is returned, while the receiver carries it and while it lies in its     *)
(* channel. The invariant Routed says so, Registered says when a call is   *)
(* in Client.pending, and Counted counts the answers on their way.         *)
(* PromiseInv adds what the refinement of RequestReply needs.              *)
(***************************************************************************)
EXTENDS McpClient, TLAPS

UnderWay == {"sending", "waiting", "returning"}

CallState == [at : {"unused", "sending", "waiting", "returning", "done"},
              got : Calls \cup {None}]

\* A call returns the answer to its own request, in whatever order the server answers
\* and however late: an answer to a call that gave up never reaches another one.
OwnAnswer == \A c \in Calls : call[c].got \in {None, c}

\* An answer on its way is the answer to the call whose channel it is sent to.
Routed ==
    /\ chan \in [Calls -> Seq(Calls)]
    /\ \A c \in Calls : chan[c] = <<>> \/ chan[c] = <<c>>
    /\ receiver.at = "delivering" => receiver.answer = receiver.call

\* While the receiver runs every call under way is registered, and only those ever are.
Registered ==
    /\ NoLeak
    /\ receiver.at # "ended" => \A c \in Calls : call[c].at \in UnderWay => c \in pending

McpInv == TypeOK /\ OwnAnswer /\ Routed /\ Registered

-----------------------------------------------------------------------------
LEMMA McpInit ==
    ASSUME Init
    PROVE  McpInv
  <1>1. TypeOK
    BY BoundsAssumption DEF Init, TypeOK, Unused, Reading
  <1>2. OwnAnswer
    BY DEF Init, OwnAnswer, Unused
  <1>3. Routed
    BY DEF Init, Routed, Reading
  <1>4. Registered
    BY DEF Init, Registered, NoLeak, Unused, UnderWay
  <1> QED
    BY <1>1, <1>2, <1>3, <1>4 DEF McpInv

\* The channel of a call has one place.
LEMMA ShortChannels ==
    ASSUME NEW ch, NEW c
    PROVE  ch = <<>> \/ ch = <<c>> => Len(ch) <= 1
  <1>1. ch = <<>> => Len(ch) = 0
    OBVIOUS
  <1>2. ch = <<c>> => Len(ch) = 1
    OBVIOUS
  <1>3. 0 <= 1 /\ 1 <= 1
    OBVIOUS
  <1> QED
    BY <1>1, <1>2, <1>3, Zenon

\* What a step of a call does to the calls: one moves, and returns no foreign answer.
LEMMA CallMoves ==
    ASSUME McpInv, NEW c \in Calls,
           NEW at \in {"sending", "waiting", "returning", "done"},
           NEW got \in {None, c},
           \/ call' = [call EXCEPT ![c].at = at]
           \/ call' = [call EXCEPT ![c] = [at |-> at, got |-> got]]
    PROVE  /\ call' \in [Calls -> CallState]
           /\ call'[c].at = at
           /\ \A d \in Calls \ {c} : call'[d] = call[d]
           /\ OwnAnswer'
  <1>1. call \in [Calls -> CallState] /\ call[c] \in CallState
    BY DEF McpInv, TypeOK, CallState
  <1>2. call[c].got \in {None, c}
    BY DEF McpInv, OwnAnswer
  <1>3. CASE call' = [call EXCEPT ![c].at = at]
    <2>1. call'[c] \in CallState /\ call'[c].at = at /\ call'[c].got = call[c].got
      BY <1>1, <1>3 DEF CallState
    <2> QED
      BY <1>1, <1>2, <1>3, <2>1 DEF McpInv, OwnAnswer, CallState
  <1>4. CASE call' = [call EXCEPT ![c] = [at |-> at, got |-> got]]
    <2>1. call'[c] \in CallState /\ call'[c].at = at /\ call'[c].got = got
      BY <1>1, <1>4 DEF CallState
    <2> QED
      BY <1>1, <1>2, <1>4, <2>1 DEF McpInv, OwnAnswer, CallState
  <1> QED
    BY <1>3, <1>4
-----------------------------------------------------------------------------
LEMMA RegisterStep ==
    ASSUME McpInv, NEW c \in Calls, Register(c)
    PROVE  McpInv'
  <1>1. /\ call' \in [Calls -> CallState] /\ call'[c].at = "sending"
        /\ \A d \in Calls \ {c} : call'[d] = call[d]
        /\ OwnAnswer'
    BY CallMoves DEF Register
  <1>2. TypeOK'
    BY <1>1 DEF McpInv, TypeOK, CallState, Register, Calls, conn, loop
  <1>3. Routed'
    BY DEF McpInv, Routed, Register, loop
  <1>4. Registered'
    BY <1>1 DEF McpInv, TypeOK, Registered, NoLeak, UnderWay, Register, loop
  <1> QED
    BY <1>1, <1>2, <1>3, <1>4 DEF McpInv

\* The steps of a call that go on: the call was under way and still is.
LEMMA CallGoesOn ==
    ASSUME McpInv, NEW c \in Calls, Send(c) \/ TakeAnswer(c) \/ SeeClosed(c) \/ Deadline(c)
    PROVE  McpInv'
  <1>1. /\ call[c].at \in UnderWay
        /\ UNCHANGED <<conn, phase, nextID, pending, shut, loop>>
    BY DEF Send, TakeAnswer, SeeClosed, Deadline, UnderWay
  <1>2. /\ chan' = chan \/ chan' = [chan EXCEPT ![c] = <<>>]
        /\ \/ call' = [call EXCEPT ![c].at = "waiting"]
           \/ \E got \in {None, c} :
                call' = [call EXCEPT ![c] = [at |-> "returning", got |-> got]]
    <2>1. CASE TakeAnswer(c)
      <3>1. chan[c] = <<c>>
        BY <2>1 DEF McpInv, Routed, TakeAnswer
      <3>2. Head(chan[c]) = c /\ Tail(chan[c]) = <<>>
        BY <3>1
      <3> QED
        BY <2>1, <3>2 DEF TakeAnswer, Return
    <2>2. CASE Send(c) \/ SeeClosed(c) \/ Deadline(c)
      BY <2>2 DEF Send, SeeClosed, Deadline, Return
    <2> QED
      BY <2>1, <2>2
  <1>3. /\ call' \in [Calls -> CallState] /\ call'[c].at \in {"waiting", "returning"}
        /\ \A d \in Calls \ {c} : call'[d] = call[d]
        /\ OwnAnswer'
    BY <1>2, CallMoves
  <1>4. chan' \in [Calls -> Seq(Calls)] /\ \A d \in Calls : chan'[d] \in {<<>>, chan[d]}
    <2>1. chan \in [Calls -> Seq(Calls)] /\ <<>> \in Seq(Calls)
      BY DEF McpInv, Routed
    <2> QED
      BY <1>2, <2>1
  <1>5. TypeOK'
    <2>1. \A d \in Calls : Len(chan'[d]) <= 1
      <3>1. ASSUME NEW d \in Calls
            PROVE  chan'[d] = <<>> \/ (chan'[d] = chan[d] /\ Len(chan[d]) <= 1)
        BY <1>4 DEF McpInv, TypeOK
      <3> QED
        BY <3>1, ShortChannels, Zenon
    <2> QED
      BY <1>1, <1>3, <1>4, <2>1 DEF McpInv, TypeOK, CallState, conn, loop
  <1>6. Routed'
    BY <1>1, <1>4 DEF McpInv, Routed, loop
  <1>7. Registered'
    BY <1>1, <1>3 DEF McpInv, TypeOK, Registered, NoLeak, UnderWay, loop
  <1> QED
    BY <1>3, <1>5, <1>6, <1>7 DEF McpInv

LEMMA ReturnedStep ==
    ASSUME McpInv, NEW c \in Calls, Returned(c)
    PROVE  McpInv'
  <1>1. /\ call' \in [Calls -> CallState] /\ call'[c].at = "done"
        /\ \A d \in Calls \ {c} : call'[d] = call[d]
        /\ OwnAnswer'
    BY CallMoves DEF Returned
  <1>2. TypeOK'
    BY <1>1 DEF McpInv, TypeOK, CallState, Returned, Unregister, conn, loop
  <1>3. Routed'
    BY DEF McpInv, Routed, Returned, loop
  <1>4. Registered'
    BY <1>1 DEF McpInv, TypeOK, Registered, NoLeak, UnderWay, Returned, Unregister, loop
  <1> QED
    BY <1>1, <1>2, <1>3, <1>4 DEF McpInv

LEMMA ReceiveStep ==
    ASSUME McpInv, NEW c \in Calls, Receive(c)
    PROVE  McpInv'
  <1>1. /\ receiver.at = "reading"
        /\ \/ receiver' = [at |-> "delivering", call |-> c, answer |-> c]
           \/ receiver' = receiver
    BY DEF Receive, Reading, Lookup
  <1>2. TypeOK'
    <2>1. receiver' \in [at : {"reading", "ended"}, call : {0}]
                          \cup [at : {"delivering"}, call : Calls, answer : Calls]
      BY <1>1 DEF McpInv, TypeOK
    <2>2. answered' \in [Calls -> 0..MaxAnswers]
      BY BoundsAssumption DEF McpInv, TypeOK, Receive
    <2> QED
      BY <2>1, <2>2 DEF McpInv, TypeOK, Receive, conn
  <1>3. Routed'
    BY <1>1 DEF McpInv, Routed, Receive
  <1>4. Registered' /\ OwnAnswer'
    BY <1>1 DEF McpInv, Registered, NoLeak, OwnAnswer, Receive
  <1> QED
    BY <1>2, <1>3, <1>4 DEF McpInv

LEMMA DeliverStep ==
    ASSUME McpInv, Deliver
    PROVE  McpInv'
  <1>1. /\ receiver.call \in Calls /\ receiver.answer = receiver.call
        /\ receiver.at = "delivering"
    BY DEF McpInv, TypeOK, Routed, Deliver
  <1>2. Append(chan[receiver.call], receiver.answer) = <<receiver.call>>
    BY <1>1 DEF Deliver, HasRoom
  <1>3. chan' = [chan EXCEPT ![receiver.call] = <<receiver.call>>]
    BY <1>2 DEF Deliver
  <1>4. Routed'
    <2>1. chan \in [Calls -> Seq(Calls)] /\ <<receiver.call>> \in Seq(Calls)
      BY <1>1 DEF McpInv, Routed
    <2>2. chan' \in [Calls -> Seq(Calls)]
      BY <1>3, <2>1
    <2>3. \A c \in Calls : chan'[c] = <<>> \/ chan'[c] = <<c>>
      BY <1>1, <1>3, <2>1 DEF McpInv, Routed
    <2>4. receiver'.at = "reading"
      BY DEF Deliver, Reading
    <2> QED
      BY <2>2, <2>3, <2>4 DEF Routed
  <1>5. TypeOK'
    <2>1. \A d \in Calls : chan'[d] \in Seq(Calls) /\ Len(chan'[d]) <= 1
      <3>1. ASSUME NEW d \in Calls
            PROVE  chan'[d] \in Seq(Calls) /\ (chan'[d] = <<>> \/ chan'[d] = <<d>>)
        BY <1>4 DEF Routed
      <3>2. ASSUME NEW d \in Calls
            PROVE  Len(chan'[d]) <= 1
        BY <3>1, ShortChannels, Zenon
      <3> QED
        BY <3>1, <3>2
    <2> QED
      BY <2>1 DEF McpInv, TypeOK, Deliver, Reading, conn
  <1>6. Registered' /\ OwnAnswer'
    BY <1>1 DEF McpInv, Registered, NoLeak, OwnAnswer, Deliver
  <1> QED
    BY <1>4, <1>5, <1>6 DEF McpInv

LEMMA ReceiveFailsStep ==
    ASSUME McpInv, ReceiveFails
    PROVE  McpInv'
  <1>1. receiver' = [at |-> "ended", call |-> 0]
    BY DEF ReceiveFails, Reading
  <1>2. TypeOK'
    BY <1>1 DEF McpInv, TypeOK, ReceiveFails, ClosePending, conn
  <1>3. Routed' /\ Registered' /\ OwnAnswer'
    BY <1>1 DEF McpInv, Routed, Registered, NoLeak, OwnAnswer, ReceiveFails
  <1> QED
    BY <1>2, <1>3 DEF McpInv

\* A step of the connection alone.
LEMMA LinkStep ==
    ASSUME McpInv, Disconnect \/ CloseClient \/ ServerExits \/ UNCHANGED vars
    PROVE  McpInv'
  <1>1. UNCHANGED <<phase, call, nextID, pending, chan, shut, receiver, answered>>
    BY DEF Disconnect, CloseClient, ServerExits, vars, loop
  <1>2. TypeOK'
    BY <1>1 DEF McpInv, TypeOK, Disconnect, CloseClient, ServerExits, vars
  <1> QED
    BY <1>1, <1>2 DEF McpInv, OwnAnswer, Routed, Registered, NoLeak

\* Every step of the client preserves its invariant.
LEMMA McpStep ==
    ASSUME McpInv, [Next]_vars
    PROVE  McpInv'
  BY RegisterStep, CallGoesOn, ReturnedStep, ReceiveStep, DeliverStep, ReceiveFailsStep, LinkStep
    DEF Next, CallStep, ReceiverStep

\* The inductive invariant holds in every state of the client.
THEOREM McpInvariant == Spec => []McpInv
  BY McpInit, McpStep, PTL DEF Spec

\* call: every variable stays in its range.
THEOREM McpTypes == Spec => []TypeOK
  BY McpInvariant, PTL DEF McpInv

\* receiveLoop and call: a call returns the answer to its own request or none, in
\* whatever order, and however late, the server answers.
THEOREM AnswersAreRouted == Spec => []OwnAnswer
  BY McpInvariant, PTL DEF McpInv

\* call's deferred delete: only calls under way are in Client.pending.
THEOREM PendingDoesNotLeak == Spec => []NoLeak
  <1>1. McpInv => NoLeak
    BY DEF McpInv, Registered
  <1> QED
    BY <1>1, McpInvariant, PTL
-----------------------------------------------------------------------------
\* receiveLoop: when receiving fails, the same step closes the channel of every call that
\* waits, so that none of them depends on a deadline it may not have.
FailureReachesAll ==
    receiver.at # "ended" /\ receiver'.at = "ended"
      => \A c \in Calls : call[c].at = "waiting" => c \in shut'

\* The end of the receiver is the only step that can leave a call to its deadline, and it
\* leaves none.
THEOREM FailureClosesAll == Spec => [][FailureReachesAll]_vars
  <1>1. ASSUME McpInv, Next
        PROVE  FailureReachesAll
    <2>1. CASE ReceiveFails
      BY <1>1, <2>1 DEF McpInv, Registered, UnderWay, ReceiveFails, ClosePending,
                        FailureReachesAll
    <2>2. ASSUME NEW c \in Calls, Receive(c)
          PROVE  FailureReachesAll
      <3>1. receiver'.at \in {"reading", "delivering"}
        BY <2>2 DEF Receive, Reading
      <3> QED
        BY <3>1 DEF FailureReachesAll
    <2>3. CASE Deliver
      BY <2>3 DEF Deliver, Reading, FailureReachesAll
    <2>4. CASE UNCHANGED receiver
      BY <2>4 DEF FailureReachesAll
    <2> QED
      BY <1>1, <2>1, <2>2, <2>3, <2>4
      DEF Next, CallStep, ReceiverStep, Register, Send, TakeAnswer, SeeClosed, Deadline,
          Returned, Disconnect, CloseClient, ServerExits, loop
  <1>2. McpInv /\ [Next]_vars => [FailureReachesAll]_vars
    BY <1>1
  <1> QED
    BY <1>2, McpInvariant, PTL DEF Spec
-----------------------------------------------------------------------------
\* The place in the channel is free when the receiver has an answer for it.
ReceiverIsFree == receiver.at = "delivering" => HasRoom(receiver.call)

\* An answer that is carried or lies in a channel has been sent by the server.
Counted ==
    /\ ReceiverIsFree
    /\ receiver.at = "delivering" => answered[receiver.call] > 0
    /\ \A c \in Calls : chan[c] # <<>> => answered[c] > 0

LEMMA CountedStep ==
    ASSUME MaxAnswers <= 1, McpInv, Counted, [Next]_vars
    PROVE  Counted'
  <1>1. /\ answered \in [Calls -> 0..MaxAnswers] /\ MaxAnswers \in Nat
        /\ chan \in [Calls -> Seq(Calls)]
        /\ receiver.at = "delivering" => receiver.call \in Calls
    BY BoundsAssumption DEF McpInv, TypeOK, Routed
  <1>2. ASSUME NEW c \in Calls, Receive(c)
        PROVE  Counted'
    <2>1. /\ chan' = chan /\ receiver.at = "reading"
          /\ answered[c] = 0 /\ answered' = [answered EXCEPT ![c] = 1]
      <3>1. answered[c] \in 0..MaxAnswers /\ answered[c] < MaxAnswers
        BY <1>1, <1>2 DEF Receive
      <3>2. answered[c] = 0
        BY <1>1, <3>1
      <3>3. answered' = [answered EXCEPT ![c] = answered[c] + 1]
        BY <1>2 DEF Receive
      <3> QED
        BY <1>2, <3>2, <3>3 DEF Receive, Reading
    <2>2. \A d \in Calls : answered'[d] >= answered[d]
      BY <1>1, <2>1
    <2>3. chan[c] = <<>>
      BY <2>1 DEF Counted
    <2>4. receiver'.at = "delivering" => receiver'.call = c
      BY <1>2, <2>1 DEF Receive, Lookup
    <2> QED
      BY <1>1, <2>1, <2>2, <2>3, <2>4 DEF Counted, ReceiverIsFree, HasRoom
  <1>3. CASE Deliver
    <2>1. receiver'.at = "reading" /\ answered' = answered
      BY <1>3 DEF Deliver, Reading
    <2>2. /\ receiver.call \in Calls /\ answered[receiver.call] > 0
          /\ \A d \in Calls \ {receiver.call} : chan'[d] = chan[d]
      BY <1>1, <1>3 DEF Deliver, Counted
    <2> QED
      BY <2>1, <2>2 DEF Counted, ReceiverIsFree
  <1>4. ASSUME NEW c \in Calls, TakeAnswer(c)
        PROVE  Counted'
    <2>1. /\ receiver' = receiver /\ answered' = answered
          /\ chan[c] # <<>>
          /\ \A d \in Calls \ {c} : chan'[d] = chan[d]
      BY <1>1, <1>4 DEF TakeAnswer, loop
    <2>2. answered[c] > 0 /\ (receiver.at = "delivering" => receiver.call # c)
      BY <2>1 DEF Counted, ReceiverIsFree, HasRoom
    <2> QED
      BY <1>1, <2>1, <2>2 DEF Counted, ReceiverIsFree, HasRoom
  <1>5. ASSUME UNCHANGED <<chan, answered>>,
               receiver' = receiver \/ receiver'.at = "ended"
        PROVE  Counted'
    BY <1>5 DEF Counted, ReceiverIsFree, HasRoom
  <1>6. \/ \E c \in Calls : Receive(c) \/ TakeAnswer(c)
        \/ Deliver
        \/ UNCHANGED <<chan, answered>> /\ (receiver' = receiver \/ receiver'.at = "ended")
    BY DEF Next, CallStep, ReceiverStep, Register, Send, SeeClosed, Deadline, Returned,
           ReceiveFails, Reading, Disconnect, CloseClient, ServerExits, loop, vars
  <1> QED
    BY <1>2, <1>3, <1>4, <1>5, <1>6

\* receiveLoop and the channels of one place: a server that answers each request once
\* never holds up the receiver, not even with answers to calls that have given up.
THEOREM ReceiverIsNeverHeldUp ==
    ASSUME MaxAnswers <= 1
    PROVE  Spec => []ReceiverIsFree
  <1>1. Init => Counted
    BY DEF Init, Counted, ReceiverIsFree, Reading
  <1>2. McpInv /\ Counted /\ [Next]_vars => Counted'
    BY CountedStep
  <1>3. Counted => ReceiverIsFree
    BY DEF Counted
  <1> QED
    BY <1>1, <1>2, <1>3, McpInvariant, PTL DEF Spec
-----------------------------------------------------------------------------
(***************************************************************************)
(* The client implements RequestReply.                                     *)
(***************************************************************************)
Done(c) == c \in Calls /\ call[c].at = "done" /\ call[c].got = c

\* A phase of InitMCP is reached when the call before it has been answered.
Handshaken ==
    /\ phase \in {"listing", "ready"} => Done(Initialize)
    /\ phase = "ready" => Done(ListTools)
    /\ nextID >= ListTools => Done(Initialize)

\* The ids up to the last one have been used, and no others.
IdsInOrder == \A c \in Calls : call[c].at = "unused" <=> c > nextID

\* An answer on its way has been sent by the server.
AnswersAreSent ==
    /\ receiver.at = "delivering" => receiver.call \in HasAnswers
    /\ \A c \in Calls : chan[c] # <<>> => c \in HasAnswers

PromiseInv == Handshaken /\ IdsInOrder /\ AnswersAreSent

\* What a call is registered as.
LEMMA RegisterFacts ==
    ASSUME McpInv, PromiseInv, NEW c \in Calls, Register(c)
    PROVE  /\ call[c].at = "unused" /\ call'[c].at = "sending"
           /\ \A d \in Calls \ {c} : call'[d] = call[d]
           /\ c = nextID + 1 /\ nextID' = c /\ nextID \in Nat
  <1>1. call \in [Calls -> CallState] /\ nextID \in Nat
    BY DEF McpInv, TypeOK, CallState
  <1>2. c = nextID + 1 /\ nextID' = c /\ call' = [call EXCEPT ![c].at = "sending"]
    BY DEF Register
  <1>3. call[c].at = "unused"
    BY <1>1, <1>2 DEF PromiseInv, IdsInOrder
  <1>4. call[c] \in CallState
    BY <1>1
  <1> QED
    BY <1>1, <1>2, <1>3, <1>4 DEF CallState

\* The steps of a call that is registered: from where, to where and with what.
LEMMA CallFacts ==
    ASSUME McpInv, NEW c \in Calls, CallStep(c)
    PROVE  /\ call[c].at \in UnderWay
           /\ \A d \in Calls \ {c} : call'[d] = call[d]
           /\ UNCHANGED <<nextID, receiver, answered>>
           /\ \A d \in Calls : chan'[d] # <<>> => chan[d] # <<>>
           /\ \/ /\ call[c].at = "sending" /\ call'[c].at = "waiting"
                 /\ UNCHANGED phase
              \/ /\ call[c].at # "returning" /\ call'[c].at = "returning"
                 /\ call'[c].got = None \/ (call'[c].got = c /\ chan[c] # <<>>)
                 /\ UNCHANGED phase
              \/ /\ call[c].at = "returning" /\ call'[c].at = "done"
                 /\ call'[c].got = call[c].got
                 /\ Returned(c)
  <1>1. /\ call \in [Calls -> CallState] /\ call[c] \in CallState
        /\ chan \in [Calls -> Seq(Calls)]
    BY DEF McpInv, TypeOK, CallState, Routed
  <1>2. ASSUME NEW at, call' = [call EXCEPT ![c].at = at]
        PROVE  /\ \A d \in Calls \ {c} : call'[d] = call[d]
               /\ call'[c].at = at /\ call'[c].got = call[c].got
    <2>1. call'[c] = [call[c] EXCEPT !.at = at]
      BY <1>1, <1>2
    <2>2. call'[c].at = at /\ call'[c].got = call[c].got
      BY <1>1, <2>1 DEF CallState
    <2> QED
      BY <1>1, <1>2, <2>2
  <1>3. ASSUME NEW got, Return(c, got)
        PROVE  /\ \A d \in Calls \ {c} : call'[d] = call[d]
               /\ call'[c].at = "returning" /\ call'[c].got = got
    BY <1>1, <1>3 DEF Return
  <1>4. CASE Send(c)
    <2>1. call[c].at = "sending" /\ UNCHANGED <<nextID, receiver, answered, chan, phase>>
      BY <1>4 DEF Send, loop
    <2>2. Return(c, None) \/ call' = [call EXCEPT ![c].at = "waiting"]
      BY <1>4 DEF Send
    <2> QED
      BY <1>2, <1>3, <2>1, <2>2 DEF UnderWay
  <1>5. CASE TakeAnswer(c)
    <2>1. call[c].at = "waiting" /\ UNCHANGED <<nextID, receiver, answered, phase>>
      BY <1>5 DEF TakeAnswer, loop
    <2>2. chan[c] = <<c>>
      BY <1>5 DEF McpInv, Routed, TakeAnswer
    <2>3. Head(chan[c]) = c /\ chan[c] # <<>>
      BY <2>2
    <2>4. Return(c, c)
      BY <1>5, <2>3 DEF TakeAnswer
    <2>5. \A d \in Calls : chan'[d] # <<>> => chan[d] # <<>>
      BY <1>1, <1>5, <2>3 DEF TakeAnswer
    <2> QED
      BY <1>3, <2>1, <2>3, <2>4, <2>5 DEF UnderWay
  <1>6. CASE SeeClosed(c) \/ Deadline(c)
    <2>1. /\ call[c].at = "waiting" /\ UNCHANGED <<nextID, receiver, answered, chan, phase>>
          /\ Return(c, None)
      BY <1>6 DEF SeeClosed, Deadline, loop
    <2> QED
      BY <1>3, <2>1 DEF UnderWay
  <1>7. CASE Returned(c)
    <2>1. /\ call[c].at = "returning" /\ UNCHANGED <<nextID, receiver, answered, chan>>
          /\ call' = [call EXCEPT ![c].at = "done"]
      BY <1>7 DEF Returned, loop
    <2> QED
      BY <1>2, <1>7, <2>1 DEF UnderWay
  <1> QED
    BY <1>4, <1>5, <1>6, <1>7 DEF CallStep

\* The other steps.
LEMMA ConnectionFacts ==
    ASSUME McpInv, [Next]_vars
    PROVE  \/ \E c \in Calls : Register(c) \/ CallStep(c) \/ Receive(c)
           \/ Deliver
           \/ /\ UNCHANGED <<phase, call, nextID, chan, answered>>
              /\ receiver' = receiver \/ receiver'.at = "ended"
  BY DEF Next, ReceiverStep, ReceiveFails, Reading, Disconnect, CloseClient, ServerExits, loop, vars

LEMMA PromiseStep ==
    ASSUME McpInv, PromiseInv, [Next]_vars
    PROVE  PromiseInv'
  <1>1. /\ call \in [Calls -> CallState] /\ nextID \in Nat
        /\ \A c \in Calls : call[c].got \in {None, c}
    BY DEF McpInv, TypeOK, CallState, OwnAnswer
  <1>2. ASSUME NEW c \in Calls, Register(c)
        PROVE  PromiseInv'
    <2>1. /\ call[c].at = "unused" /\ call'[c].at = "sending"
          /\ \A d \in Calls \ {c} : call'[d] = call[d]
          /\ c = nextID + 1 /\ nextID' = c
      BY <1>2, RegisterFacts
    <2>2. UNCHANGED <<phase, chan, receiver, answered>> /\ MayCall(c)
      BY <1>2 DEF Register, loop
    <2>3. \A d : Done(d) => Done(d)'
      BY <2>1 DEF Done
    <2>4. nextID' >= ListTools => Done(Initialize)
      <3>1. CASE nextID >= ListTools
        BY <3>1 DEF PromiseInv, Handshaken
      <3>2. CASE c = ListTools
        BY <2>2, <3>2 DEF MayCall, PromiseInv, Handshaken, Initialize, ListTools
      <3> QED
        BY <1>1, <2>1, <3>1, <3>2 DEF ListTools
    <2>5. Handshaken'
      BY <2>2, <2>3, <2>4 DEF PromiseInv, Handshaken
    <2>6. IdsInOrder'
      BY <1>1, <2>1 DEF PromiseInv, IdsInOrder, Calls
    <2> QED
      BY <2>2, <2>5, <2>6 DEF PromiseInv, AnswersAreSent, HasAnswers
  <1>3. ASSUME NEW c \in Calls, CallStep(c)
        PROVE  PromiseInv'
    <2>1. /\ call[c].at \in UnderWay /\ call'[c].at # "unused"
          /\ \A d \in Calls \ {c} : call'[d] = call[d]
          /\ UNCHANGED <<nextID, receiver, answered>>
          /\ \A d \in Calls : chan'[d] # <<>> => chan[d] # <<>>
      BY <1>3, CallFacts
    <2>2. \A d : Done(d) => Done(d)'
      BY <2>1 DEF Done, UnderWay
    <2>3. Handshaken'
      <3>1. CASE UNCHANGED phase
        BY <2>1, <2>2, <3>1 DEF PromiseInv, Handshaken
      <3>2. CASE ~ UNCHANGED phase
        <4>1. Returned(c) /\ call'[c].at = "done" /\ call'[c].got = call[c].got
          BY <1>3, <3>2, CallFacts
        <4>2. CASE phase' = "skipped"
          BY <2>1, <2>2, <4>2 DEF PromiseInv, Handshaken
        <4>3. CASE c = Initialize /\ call[c].got # None /\ phase' = "listing"
          <5>1. Done(Initialize)'
            BY <1>1, <4>1, <4>3 DEF Done
          <5> QED
            BY <4>3, <5>1 DEF Handshaken
        <4>4. CASE c = ListTools /\ call[c].got # None /\ phase' = "ready"
          <5>1. Done(ListTools)'
            BY <1>1, <4>1, <4>4 DEF Done
          <5>2. nextID >= ListTools
            BY <1>1, <2>1, <4>4 DEF PromiseInv, IdsInOrder, UnderWay, ListTools
          <5> QED
            BY <2>2, <4>4, <5>1, <5>2 DEF PromiseInv, Handshaken
        <4> QED
          BY <3>2, <4>1, <4>2, <4>3, <4>4 DEF Returned
      <3> QED
        BY <3>1, <3>2
    <2>4. IdsInOrder'
      BY <2>1 DEF PromiseInv, IdsInOrder, UnderWay
    <2> QED
      BY <2>1, <2>3, <2>4 DEF PromiseInv, AnswersAreSent, HasAnswers
  <1>4. ASSUME NEW c \in Calls, Receive(c)
        PROVE  PromiseInv'
    <2>1. /\ UNCHANGED <<phase, call, nextID, chan>>
          /\ answered' = [answered EXCEPT ![c] = @ + 1]
          /\ receiver.at = "reading"
          /\ receiver'.at = "delivering" => receiver'.call = c
      BY <1>4 DEF Receive, Reading, Lookup
    <2>2. answered \in [Calls -> Nat]
      BY BoundsAssumption DEF McpInv, TypeOK
    <2>3. HasAnswers' = HasAnswers \cup {c}
      BY <2>1, <2>2 DEF HasAnswers
    <2> QED
      BY <2>1, <2>3 DEF PromiseInv, AnswersAreSent, Handshaken, Done, IdsInOrder
  <1>5. CASE Deliver
    <2>1. /\ UNCHANGED <<phase, call, nextID, answered>>
          /\ receiver'.at = "reading" /\ receiver.call \in HasAnswers
          /\ \A d \in Calls \ {receiver.call} : chan'[d] = chan[d]
      BY <1>5 DEF Deliver, Reading, PromiseInv, AnswersAreSent, McpInv, Routed
    <2> QED
      BY <2>1 DEF PromiseInv, AnswersAreSent, HasAnswers, Handshaken, Done, IdsInOrder
  <1>6. ASSUME UNCHANGED <<phase, call, nextID, chan, answered>>,
               receiver' = receiver \/ receiver'.at = "ended"
        PROVE  PromiseInv'
    BY <1>6 DEF PromiseInv, AnswersAreSent, HasAnswers, Handshaken, Done, IdsInOrder
  <1> QED
    BY <1>2, <1>3, <1>4, <1>5, <1>6, ConnectionFacts

\* The step with which a call ends.
LEMMA EndIsEnd ==
    ASSUME McpInv, PromiseInv, NEW c \in Calls,
           call[c].at \in {"sending", "waiting"}, call'[c].at = "returning",
           \A d \in Calls \ {c} : call'[d] = call[d],
           call'[c].got = None \/ (call'[c].got = c /\ chan[c] # <<>>),
           answered' = answered
    PROVE  Promise!End(c)
  <1> DEFINE value == call'[c].got
  <1>1. Asked' = Asked /\ HasAnswers' = HasAnswers /\ c \in Asked
    BY DEF Asked, HasAnswers
  <1>2. value \in {None} \cup (HasAnswers \cap {c})
    BY DEF PromiseInv, AnswersAreSent
  <1>3. c \notin Ended /\ Ended' = Ended \cup {c}
    BY DEF Ended
  <1>4. \A v \in Calls \cup {None} : <<c, v>> \notin Outcomes
    BY <1>3 DEF Outcomes
  <1>5. Outcomes' = Outcomes \cup {<<c, value>>}
    <2>1. \A d \in Ended : call'[d].got = call[d].got
      BY <1>3 DEF Ended
    <2> HIDE DEF value
    <2>2. Outcomes' = {<<d, call'[d].got>> : d \in Ended'}
      BY DEF Outcomes
    <2> QED
      BY <1>3, <2>1, <2>2 DEF Outcomes, value
  <1> HIDE DEF value
  <1> QED
    BY <1>1, <1>2, <1>4, <1>5 DEF Promise!End

\* call and receiveLoop: what the callers see of every step is a call that is made, an answer
\* of the server or the end of a call as module RequestReply says, or nothing.
THEOREM ClientRefines == Spec => CallsEndOnce
  <1>1. Init => PromiseInv
    <2> SUFFICES ASSUME Init PROVE PromiseInv
      OBVIOUS
    <2>1. Handshaken /\ IdsInOrder
      BY DEF Init, Handshaken, IdsInOrder, Unused, ListTools, Calls
    <2> QED
      BY <2>1 DEF Init, PromiseInv, AnswersAreSent, Reading
  <1>2. Init => Promise!Init
    <2> SUFFICES ASSUME Init PROVE Promise!Init
      OBVIOUS
    <2>1. Asked = {} /\ Ended = {} /\ HasAnswers = {}
      BY DEF Init, Asked, Ended, HasAnswers, Unused
    <2> QED
      BY <2>1 DEF Promise!Init, Outcomes
  <1>3. McpInv /\ PromiseInv /\ [Next]_vars => [Promise!Next]_<<Asked, HasAnswers, Outcomes>>
    <2> SUFFICES ASSUME McpInv, PromiseInv, [Next]_vars
                 PROVE  Promise!Next \/ UNCHANGED <<Asked, HasAnswers, Outcomes>>
      OBVIOUS
    <2>1. ASSUME NEW c \in Calls, Register(c)
          PROVE  Promise!Ask(c)
      <3>1. /\ call[c].at = "unused" /\ call'[c].at = "sending"
            /\ \A d \in Calls \ {c} : call'[d] = call[d]
            /\ c = nextID + 1 /\ nextID \in Nat
        BY <2>1, RegisterFacts
      <3>2. answered' = answered /\ MayCall(c)
        BY <2>1 DEF Register, loop
      <3>3. c \notin Asked /\ Asked' = Asked \cup {c} /\ HasAnswers' = HasAnswers
        BY <3>1, <3>2 DEF Asked, HasAnswers
      <3>4. Ended' = Ended /\ \A d \in Ended : call'[d] = call[d]
        BY <3>1 DEF Ended
      <3>5. Outcomes' = Outcomes
        BY <3>4 DEF Outcomes
      <3>6. \A h \in {Initialize, ListTools} : h < c => Done(h)
        <4>1. CASE c = Initialize
          BY <4>1 DEF Initialize, ListTools
        <4>2. CASE c = ListTools
          BY <3>2, <4>2 DEF MayCall, PromiseInv, Handshaken, Initialize, ListTools
        <4>3. CASE c \notin {Initialize, ListTools}
          BY <3>2, <4>3 DEF MayCall, PromiseInv, Handshaken
        <4> QED
          BY <4>1, <4>2, <4>3
      <3>7. \A h \in {Initialize, ListTools} : h < c => <<h, h>> \in Outcomes
        BY <3>6 DEF Done, Outcomes, Ended
      <3> QED
        BY <3>3, <3>5, <3>7 DEF Promise!Ask
    <2>2. ASSUME NEW c \in Calls, CallStep(c)
          PROVE  Promise!End(c) \/ UNCHANGED <<Asked, HasAnswers, Outcomes>>
      <3>1. /\ call[c].at \in UnderWay
            /\ \A d \in Calls \ {c} : call'[d] = call[d]
            /\ answered' = answered
            /\ \/ call[c].at = "sending" /\ call'[c].at = "waiting"
               \/ /\ call[c].at # "returning" /\ call'[c].at = "returning"
                  /\ call'[c].got = None \/ (call'[c].got = c /\ chan[c] # <<>>)
               \/ /\ call[c].at = "returning" /\ call'[c].at = "done"
                  /\ call'[c].got = call[c].got
        BY <2>2, CallFacts
      <3>2. CASE call[c].at # "returning" /\ call'[c].at = "returning"
        BY <3>1, <3>2, EndIsEnd DEF UnderWay
      <3>3. CASE \/ call[c].at = "sending" /\ call'[c].at = "waiting"
                 \/ /\ call[c].at = "returning" /\ call'[c].at = "done"
                    /\ call'[c].got = call[c].got
        <4>1. Asked' = Asked /\ HasAnswers' = HasAnswers
          BY <3>1, <3>3 DEF Asked, HasAnswers
        <4>2. Ended' = Ended /\ \A d \in Ended : call'[d].got = call[d].got
          BY <3>1, <3>3 DEF Ended
        <4>3. Outcomes' = Outcomes
          BY <4>2 DEF Outcomes
        <4> QED
          BY <4>1, <4>3
      <3> QED
        BY <3>1, <3>2, <3>3
    <2>3. ASSUME NEW c \in Calls, Receive(c)
          PROVE  Promise!Answer(c)
      <3>1. /\ UNCHANGED call /\ call[c].at # "unused"
            /\ answered' = [answered EXCEPT ![c] = @ + 1]
        BY <2>3 DEF Receive
      <3>2. answered \in [Calls -> Nat]
        BY BoundsAssumption DEF McpInv, TypeOK
      <3>3. HasAnswers' = HasAnswers \cup {c}
        BY <3>1, <3>2 DEF HasAnswers
      <3> QED
        BY <3>1, <3>3 DEF Promise!Answer, Asked, Outcomes, Ended
    <2>4. ASSUME UNCHANGED <<call, answered>>
          PROVE  UNCHANGED <<Asked, HasAnswers, Outcomes>>
      BY <2>4 DEF Asked, HasAnswers, Outcomes, Ended
    <2>5. Deliver => UNCHANGED <<call, answered>>
      BY DEF Deliver
    <2> QED
      BY <2>1, <2>2, <2>3, <2>4, <2>5, ConnectionFacts DEF Promise!Next
  <1>4. Spec => []PromiseInv
    BY <1>1, PromiseStep, McpInvariant, PTL DEF Spec
  <1> QED
    BY <1>2, <1>3, <1>4, McpInvariant, PTL DEF Spec, CallsEndOnce, Promise!Spec
=============================================================================
