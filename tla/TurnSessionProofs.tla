--------------------------- MODULE TurnSessionProofs ---------------------------
(***************************************************************************)
(* Theorems about the turns of a conversation and its summarization, for   *)
(* any number of callers, rounds, calls and messages.                      *)
(*                                                                         *)
(* What the properties say of the history holds only because it holds of   *)
(* everything that may become a history later: the copies a summarization  *)
(* works on, the result that waits and the one a caller is to apply. So    *)
(* StoredInv says of all of them that they are backed by the database,     *)
(* FaithfulInv that a result stands for its snapshot, and OnceInv, for a   *)
(* session with one caller, that none of them repeats a message and which  *)
(* of the history's messages a snapshot knows.                             *)
(***************************************************************************)
EXTENDS TurnSession, FiniteSetTheorems, SequenceTheorems, TLAPS

TurnState ==
    [at : {"idle", "reconcile", "persist", "append", "chat", "tools", "complete"}, role : Roles,
     calls : 0..MaxCalls, row : Nat, left : 0..MaxToolRounds + 1, owed : 0..MaxCalls,
     held : Results \cup {None}]

TaskState ==
    [at : {"summarize", "deliver", "drain", "replace", "release"},
     snapshot : Seq(Message), remaining : Seq(Message)]

\* A result is in a caller's hands exactly while the caller is to apply it.
HeldToApply == \A c \in Callers : turn[c].held # None <=> turn[c].at = "reconcile"

\* A call writes the results it owes, so that their count does not pass zero.
OwesResults ==
    \A c \in Callers :
        turn[c].at \in {"reconcile", "persist", "append", "tools"} =>
          \/ turn[c].role \in {"user", "assistant"}
          \/ turn[c].role = "tool" /\ turn[c].owed > 0

TypeInv == TypeOK /\ HeldToApply /\ OwesResults
-----------------------------------------------------------------------------
(***************************************************************************)
(* Histories.                                                              *)
(***************************************************************************)
LEMMA DraftIsMessage ==
    ASSUME NEW role \in Roles, NEW calls \in 0..MaxCalls, NEW rows \in SUBSET Nat
    PROVE  /\ Draft(role, calls, rows) \in Message
           /\ Draft(role, calls, rows).role = role
           /\ Draft(role, calls, rows).rows = rows
  BY DEF Draft, Message

\* The messages from the k-th on.
From(h, k) == SubSeq(h, k + 1, Len(h))

LEMMA FromProperties ==
    ASSUME NEW h \in Seq(Message), NEW k \in Nat
    PROVE  /\ From(h, k) \in Seq(Message)
           /\ Len(From(h, k)) = IF k <= Len(h) THEN Len(h) - k ELSE 0
           /\ \A i \in DOMAIN From(h, k) : k + i \in DOMAIN h /\ From(h, k)[i] = h[k + i]
           /\ \A i \in DOMAIN h : i > k => i - k \in DOMAIN From(h, k) /\ From(h, k)[i - k] = h[i]
  <1>1. Len(h) \in Nat /\ DOMAIN h = 1..Len(h)
    BY LenProperties
  <1>2. \A i \in k + 1..Len(h) : h[i] \in Message
    BY <1>1, ElementOfSeq
  <1>3. /\ From(h, k) \in Seq(Message)
        /\ Len(From(h, k)) = IF k + 1 <= Len(h) THEN Len(h) - (k + 1) + 1 ELSE 0
        /\ \A i \in 1..Len(h) - (k + 1) + 1 : From(h, k)[i] = h[k + 1 + i - 1]
    BY <1>1, <1>2, SubSeqProperties DEF From
  <1>4. DOMAIN From(h, k) = 1..Len(From(h, k))
    BY <1>3, LenProperties
  <1>5. Len(From(h, k)) = IF k <= Len(h) THEN Len(h) - k ELSE 0
    BY <1>1, <1>3
  <1>6. DOMAIN From(h, k) = 1..Len(h) - k
    <2>1. CASE k <= Len(h)
      BY <1>1, <1>4, <1>5, <2>1
    <2>2. CASE ~ k <= Len(h)
      <3>1. DOMAIN From(h, k) = 1..0
        BY <1>4, <1>5, <2>2
      <3>2. \A i \in Int : ~ (1 <= i /\ i <= 0) /\ ~ (1 <= i /\ i <= Len(h) - k)
        BY <1>1, <2>2
      <3>3. 1..0 = {} /\ 1..Len(h) - k = {}
        BY <1>1, <3>2
      <3> QED
        BY <3>1, <3>3
    <2> QED
      BY <2>1, <2>2
  <1>7. ASSUME NEW i \in DOMAIN From(h, k)
        PROVE  k + i \in DOMAIN h /\ From(h, k)[i] = h[k + i]
    <2>1. i \in Int /\ 1 <= i /\ i <= Len(h) - k /\ Len(h) - (k + 1) + 1 = Len(h) - k
      BY <1>1, <1>6
    <2>2. From(h, k)[i] = h[k + 1 + i - 1]
      <3>1. i \in 1..Len(h) - (k + 1) + 1
        BY <1>1, <2>1
      <3> QED
        BY <1>3, <3>1
    <2>3. k + 1 + i - 1 = k + i
      BY <2>1
    <2> QED
      BY <1>1, <2>1, <2>2, <2>3
  <1>8. ASSUME NEW i \in DOMAIN h, i > k
        PROVE  i - k \in DOMAIN From(h, k) /\ From(h, k)[i - k] = h[i]
    <2>1. i \in Int /\ 1 <= i - k /\ i - k <= Len(h) - k /\ i - k \in Int /\ k + (i - k) = i
      BY <1>1, <1>8
    <2>2. i - k \in DOMAIN From(h, k)
      BY <1>1, <1>6, <2>1
    <2> QED
      BY <1>7, <2>1, <2>2
  <1> QED
    BY <1>3, <1>5, <1>7, <1>8

LEMMA UpToProperties ==
    ASSUME NEW h \in Seq(Message), NEW k \in 0..Len(h)
    PROVE  /\ SubSeq(h, 1, k) \in Seq(Message)
           /\ DOMAIN SubSeq(h, 1, k) = 1..k
           /\ \A i \in 1..k : SubSeq(h, 1, k)[i] = h[i]
  <1>1. Len(h) \in Nat /\ DOMAIN h = 1..Len(h)
    BY LenProperties
  <1>2. \A i \in 1..k : h[i] \in Message
    BY <1>1, ElementOfSeq
  <1>3. /\ SubSeq(h, 1, k) \in Seq(Message)
        /\ Len(SubSeq(h, 1, k)) = IF 1 <= k THEN k - 1 + 1 ELSE 0
        /\ \A i \in 1..k - 1 + 1 : SubSeq(h, 1, k)[i] = h[1 + i - 1]
    BY <1>1, <1>2, SubSeqProperties
  <1>4. DOMAIN SubSeq(h, 1, k) = 1..Len(SubSeq(h, 1, k)) /\ Len(SubSeq(h, 1, k)) = k
    BY <1>1, <1>3, LenProperties
  <1> QED
    BY <1>1, <1>3, <1>4

\* Every message of s \o t is one of s or one of t, and the other way round.
LEMMA ConcatParts ==
    ASSUME NEW s \in Seq(Message), NEW t \in Seq(Message)
    PROVE  /\ s \o t \in Seq(Message)
           /\ Len(s \o t) = Len(s) + Len(t)
           /\ \A i \in DOMAIN (s \o t) :
                \/ i \in DOMAIN s /\ (s \o t)[i] = s[i]
                \/ i - Len(s) \in DOMAIN t /\ (s \o t)[i] = t[i - Len(s)]
           /\ \A i \in DOMAIN s : i \in DOMAIN (s \o t) /\ (s \o t)[i] = s[i]
           /\ \A i \in DOMAIN t : /\ Len(s) + i \in DOMAIN (s \o t)
                                  /\ (s \o t)[Len(s) + i] = t[i]
  <1>1. /\ Len(s) \in Nat /\ DOMAIN s = 1..Len(s)
        /\ Len(t) \in Nat /\ DOMAIN t = 1..Len(t)
    BY LenProperties
  <1>2. /\ s \o t \in Seq(Message)
        /\ Len(s \o t) = Len(s) + Len(t)
        /\ \A i \in 1..Len(s) + Len(t) :
             (s \o t)[i] = IF i <= Len(s) THEN s[i] ELSE t[i - Len(s)]
    BY ConcatProperties
  <1>3. DOMAIN (s \o t) = 1..Len(s) + Len(t)
    BY <1>2, LenProperties
  <1>4. ASSUME NEW i \in DOMAIN (s \o t)
        PROVE  \/ i \in DOMAIN s /\ (s \o t)[i] = s[i]
               \/ i - Len(s) \in DOMAIN t /\ (s \o t)[i] = t[i - Len(s)]
    BY <1>1, <1>2, <1>3
  <1>5. ASSUME NEW i \in DOMAIN s
        PROVE  i \in DOMAIN (s \o t) /\ (s \o t)[i] = s[i]
    BY <1>1, <1>2, <1>3
  <1>6. ASSUME NEW i \in DOMAIN t
        PROVE  Len(s) + i \in DOMAIN (s \o t) /\ (s \o t)[Len(s) + i] = t[i]
    BY <1>1, <1>2, <1>3
  <1> QED
    BY <1>2, <1>4, <1>5, <1>6

\* Append adds a message and keeps the others.
LEMMA AppendParts ==
    ASSUME NEW h \in Seq(Message), NEW m \in Message
    PROVE  /\ Append(h, m) \in Seq(Message)
           /\ DOMAIN Append(h, m) = DOMAIN h \cup {Len(h) + 1}
           /\ Len(h) + 1 \notin DOMAIN h
           /\ \A i \in DOMAIN h : Append(h, m)[i] = h[i]
           /\ Append(h, m)[Len(h) + 1] = m
  <1>1. Len(h) \in Nat /\ DOMAIN h = 1..Len(h)
    BY LenProperties
  <1>2. /\ Append(h, m) \in Seq(Message)
        /\ Len(Append(h, m)) = Len(h) + 1
        /\ \A i \in 1..Len(h) : Append(h, m)[i] = h[i]
        /\ Append(h, m)[Len(h) + 1] = m
    BY AppendProperties
  <1>3. DOMAIN Append(h, m) = 1..Len(h) + 1
    BY <1>2, LenProperties
  <1> QED
    BY <1>1, <1>2, <1>3

LEMMA RowOf ==
    ASSUME NEW h, NEW x
    PROVE  x \in Rows(h) <=> \E i \in DOMAIN h : x \in h[i].rows
  BY DEF Rows

LEMMA ConcatRows ==
    ASSUME NEW s \in Seq(Message), NEW t \in Seq(Message)
    PROVE  Rows(s \o t) = Rows(s) \cup Rows(t)
  <1>1. ASSUME NEW x \in Rows(s \o t)
        PROVE  x \in Rows(s) \cup Rows(t)
    <2>1. PICK i \in DOMAIN (s \o t) : x \in (s \o t)[i].rows
      BY <1>1, RowOf
    <2>2. CASE i \in DOMAIN s /\ (s \o t)[i] = s[i]
      <3>1. x \in Rows(s)
        BY <2>1, <2>2, RowOf
      <3> QED
        BY <3>1
    <2>3. CASE i - Len(s) \in DOMAIN t /\ (s \o t)[i] = t[i - Len(s)]
      <3>1. x \in Rows(t)
        BY <2>1, <2>3, RowOf
      <3> QED
        BY <3>1
    <2> QED
      BY <2>1, <2>2, <2>3, ConcatParts
  <1>2. ASSUME NEW x \in Rows(s)
        PROVE  x \in Rows(s \o t)
    <2>1. PICK i \in DOMAIN s : x \in s[i].rows
      BY <1>2, RowOf
    <2>2. i \in DOMAIN (s \o t) /\ x \in (s \o t)[i].rows
      BY <2>1, ConcatParts
    <2> QED
      BY <2>2, RowOf
  <1>3. ASSUME NEW x \in Rows(t)
        PROVE  x \in Rows(s \o t)
    <2>1. PICK i \in DOMAIN t : x \in t[i].rows
      BY <1>3, RowOf
    <2>2. Len(s) + i \in DOMAIN (s \o t) /\ x \in (s \o t)[Len(s) + i].rows
      BY <2>1, ConcatParts
    <2> QED
      BY <2>2, RowOf
  <1> QED
    BY <1>1, <1>2, <1>3

LEMMA CutRows ==
    ASSUME NEW h \in Seq(Message), NEW k \in 0..Len(h)
    PROVE  Rows(h) = Rows(SubSeq(h, 1, k)) \cup Rows(From(h, k))
  <1>1. Len(h) \in Nat /\ DOMAIN h = 1..Len(h) /\ k \in Nat
    BY LenProperties
  <1>2. ASSUME NEW x \in Rows(h)
        PROVE  x \in Rows(SubSeq(h, 1, k)) \cup Rows(From(h, k))
    <2>1. PICK i \in DOMAIN h : x \in h[i].rows
      BY <1>2, RowOf
    <2>2. CASE i > k
      <3>1. i - k \in DOMAIN From(h, k) /\ x \in From(h, k)[i - k].rows
        BY <1>1, <2>1, <2>2, FromProperties
      <3> QED
        BY <3>1, RowOf
    <2>3. CASE ~ i > k
      <3>1. i \in 1..k
        BY <1>1, <2>3
      <3>2. i \in DOMAIN SubSeq(h, 1, k) /\ x \in SubSeq(h, 1, k)[i].rows
        BY <2>1, <3>1, UpToProperties
      <3> QED
        BY <3>2, RowOf
    <2> QED
      BY <2>2, <2>3
  <1>3. ASSUME NEW x \in Rows(SubSeq(h, 1, k))
        PROVE  x \in Rows(h)
    <2>1. PICK i \in DOMAIN SubSeq(h, 1, k) : x \in SubSeq(h, 1, k)[i].rows
      BY <1>3, RowOf
    <2>2. i \in DOMAIN h /\ x \in h[i].rows
      BY <1>1, <2>1, UpToProperties
    <2> QED
      BY <2>2, RowOf
  <1>4. ASSUME NEW x \in Rows(From(h, k))
        PROVE  x \in Rows(h)
    <2>1. PICK i \in DOMAIN From(h, k) : x \in From(h, k)[i].rows
      BY <1>4, RowOf
    <2>2. k + i \in DOMAIN h /\ x \in h[k + i].rows
      BY <1>1, <2>1, FromProperties
    <2> QED
      BY <2>2, RowOf
  <1> QED
    BY <1>2, <1>3, <1>4

LEMMA AppendRows ==
    ASSUME NEW h \in Seq(Message), NEW m \in Message
    PROVE  Rows(Append(h, m)) = Rows(h) \cup m.rows
  <1> DEFINE g == Append(h, m)
             n == Len(h) + 1
  <1>1. /\ DOMAIN g = DOMAIN h \cup {n} /\ n \notin DOMAIN h
        /\ \A i \in DOMAIN h : g[i] = h[i]
        /\ g[n] = m
    BY AppendParts
  <1> HIDE DEF g, n
  <1>2. Rows(g) = Rows(h) \cup m.rows
    BY <1>1 DEF Rows
  <1> QED
    BY <1>2 DEF g

LEMMA RowsAreNumbers ==
    ASSUME NEW h \in Seq(Message)
    PROVE  Rows(h) \in SUBSET Nat
  <1>1. \A i \in DOMAIN h : h[i] \in Message
    BY LenProperties, ElementOfSeq
  <1> QED
    BY <1>1 DEF Rows, Message
-----------------------------------------------------------------------------
(***************************************************************************)
(* What each action does to the callers and to the tasks.                  *)
(***************************************************************************)
\* Caller c alone moves, from where it was to at.
Comes(c, at) ==
    /\ turn' \in [Callers -> TurnState]
    /\ \A d \in Callers \ {c} : turn'[d] = turn[d]
    /\ turn'[c].at = at

Holds(c) == turn'[c].held # None

Owes(c) == \/ turn'[c].role \in {"user", "assistant"}
           \/ turn'[c].role = "tool" /\ turn'[c].owed > 0

LEMMA TurnType ==
    ASSUME TypeInv
    PROVE  /\ turn \in [Callers -> TurnState]
           /\ history \in Seq(Message) /\ stored \in Seq(Message)
           /\ tasks \subseteq TaskState
           /\ pending \in Results \cup {None}
           /\ summarizing \in BOOLEAN /\ sends \in 0..MaxSends
  BY DEF TypeInv, TypeOK, TurnState, TaskState

LEMMA TurnSet ==
    ASSUME TypeInv, NEW c \in Callers, NEW j \in TurnState,
           turn' = [d \in Callers |-> IF d = c THEN j ELSE turn[d]]
    PROVE  /\ Comes(c, j.at)
           /\ turn'[c] = j
  BY TurnType DEF Comes

LEMMA IdleState == Idle \in TurnState /\ Idle.at = "idle" /\ Idle.held = None
  BY BoundsAssumption DEF Idle, TurnState, Roles

LEMMA ReturnMoves ==
    ASSUME TypeInv, NEW c \in Callers, Return(c)
    PROVE  Comes(c, "idle") /\ ~ Holds(c)
  <1>1. turn' = [d \in Callers |-> IF d = c THEN Idle ELSE turn[d]]
    BY TurnType DEF Return
  <1> QED
    BY <1>1, IdleState, TurnSet DEF Holds

LEMMA SendMoves ==
    ASSUME TypeInv, NEW c \in Callers, Send(c)
    PROVE  /\ turn'[c].held = pending
           /\ \/ pending = None /\ Comes(c, "persist")
              \/ pending # None /\ Comes(c, "reconcile")
           /\ Owes(c)
           /\ sends' \in 0..MaxSends
  <1> DEFINE at == IF pending = None THEN "persist" ELSE "reconcile"
  <1>1. PICK rounds \in {MaxToolRounds, MaxToolRounds + 1} :
          turn' = [turn EXCEPT ![c] = [Idle EXCEPT !.at = at, !.left = rounds, !.held = pending]]
    BY DEF Send
  <1> DEFINE j == [Idle EXCEPT !.at = at, !.left = rounds, !.held = pending]
  <1>2. at \in {"persist", "reconcile"} /\ rounds \in 0..MaxToolRounds + 1
    BY BoundsAssumption
  <1>3. j \in TurnState /\ j.at = at /\ j.held = pending /\ j.role = "user"
    <2> HIDE DEF at
    <2> QED
      BY <1>2, TurnType, IdleState DEF Idle, TurnState
  <1>4. turn' = [d \in Callers |-> IF d = c THEN j ELSE turn[d]]
    BY <1>1, TurnType
  <1>5. sends' \in 0..MaxSends
    <2>1. sends \in 0..MaxSends /\ sends < MaxSends /\ sends' = sends + 1
      BY TurnType DEF Send
    <2> QED
      BY <2>1, BoundsAssumption
  <1> HIDE DEF j
  <1> QED
    BY <1>3, <1>4, <1>5, TurnSet DEF Owes

LEMMA ReconcileMoves ==
    ASSUME TypeInv, NEW c \in Callers, ReconcileHistory(c)
    PROVE  /\ turn[c].held \in Results
           /\ Comes(c, "persist") /\ ~ Holds(c) /\ Owes(c)
  <1> DEFINE j == [turn[c] EXCEPT !.at = "persist", !.held = None]
  <1>1. /\ turn[c] \in TurnState /\ turn[c].held \in Results
        /\ \/ turn[c].role \in {"user", "assistant"}
           \/ turn[c].role = "tool" /\ turn[c].owed > 0
    BY TurnType DEF TypeInv, HeldToApply, OwesResults, ReconcileHistory, TurnState
  <1>2. turn' = [d \in Callers |-> IF d = c THEN j ELSE turn[d]]
    BY TurnType DEF ReconcileHistory
  <1>3. /\ j \in TurnState /\ j.at = "persist" /\ j.held = None
        /\ j.role = turn[c].role /\ j.owed = turn[c].owed
    BY <1>1 DEF TurnState
  <1> HIDE DEF j
  <1> QED
    BY <1>1, <1>2, <1>3, TurnSet DEF Holds, Owes

\* A message that is written, or not, and what then becomes of the call.
LEMMA PersistMoves ==
    ASSUME TypeInv, NEW c \in Callers, PersistMessage(c)
    PROVE  /\ \/ /\ Insert(c) /\ Comes(c, "append")
                 /\ turn'[c].role = turn[c].role /\ turn'[c].calls = turn[c].calls
                 /\ turn'[c].row = NextRow /\ Owes(c)
              \/ Comes(c, "idle") /\ (Insert(c) \/ UNCHANGED stored)
           /\ ~ Holds(c)
  <1> DEFINE j == [turn[c] EXCEPT !.at = "append", !.row = NextRow]
  <1>1. /\ turn[c] \in TurnState /\ turn[c].held = None
        /\ \/ turn[c].role \in {"user", "assistant"}
           \/ turn[c].role = "tool" /\ turn[c].owed > 0
    BY TurnType DEF TypeInv, HeldToApply, OwesResults, PersistMessage, TurnState
  <1>2. NextRow \in Nat
    BY TurnType, LenProperties DEF NextRow
  <1>3. CASE Return(c) /\ (Insert(c) \/ UNCHANGED stored)
    BY <1>3, ReturnMoves
  <1>4. CASE Insert(c) /\ turn' = [turn EXCEPT ![c].at = "append", ![c].row = NextRow]
    <2>1. turn' = [d \in Callers |-> IF d = c THEN j ELSE turn[d]]
      BY <1>4, TurnType
    <2>2. /\ j \in TurnState /\ j.at = "append" /\ j.held = None
          /\ j.row = NextRow /\ j.role = turn[c].role /\ j.calls = turn[c].calls
          /\ j.owed = turn[c].owed
      BY <1>1, <1>2 DEF TurnState
    <2> HIDE DEF j
    <2>3. Comes(c, "append") /\ turn'[c] = j
      BY <2>1, <2>2, TurnSet
    <2>4. Owes(c) /\ ~ Holds(c)
      BY <1>1, <2>2, <2>3 DEF Owes, Holds
    <2> QED
      BY <1>4, <2>2, <2>3, <2>4
  <1> QED
    BY <1>3, <1>4 DEF PersistMessage

LEMMA AppendMoves ==
    ASSUME TypeInv, NEW c \in Callers, AppendMessage(c)
    PROVE  /\ \/ Comes(c, "complete") \/ Comes(c, "chat")
              \/ (Comes(c, "persist") \/ Comes(c, "tools")) /\ Owes(c)
           /\ ~ Holds(c)
  <1> DEFINE at == IF turn[c].role = "assistant" /\ turn[c].calls = 0 THEN "complete"
                   ELSE IF turn[c].role = "assistant" THEN "tools"
                   ELSE IF turn[c].role = "user" \/ turn[c].owed = 1 THEN "chat"
                   ELSE "persist"
             owed == IF turn[c].role = "assistant" THEN turn[c].calls
                     ELSE IF turn[c].role = "tool" THEN turn[c].owed - 1
                     ELSE 0
  <1>1. /\ turn[c] \in TurnState /\ turn[c].held = None
        /\ turn[c].role = "tool" => turn[c].owed > 0
    BY TurnType DEF TypeInv, HeldToApply, OwesResults, AppendMessage, TurnState
  <1>2. at \in {"complete", "chat", "persist", "tools"}
    OBVIOUS
  <1> DEFINE j == [turn[c] EXCEPT !.at = at, !.role = "tool", !.calls = 0, !.row = 0,
                                  !.owed = owed]
  <1>3. turn' = [d \in Callers |-> IF d = c THEN j ELSE turn[d]]
    BY TurnType DEF AppendMessage
  <1>4. owed \in 0..MaxCalls
    <2>1. /\ turn[c].owed \in 0..MaxCalls /\ turn[c].calls \in 0..MaxCalls
          /\ MaxCalls \in Nat
      BY <1>1, BoundsAssumption DEF TurnState
    <2> QED
      BY <1>1, <2>1
  <1>5. at \in {"persist", "tools"} => owed > 0
    <2>1. /\ turn[c].owed \in 0..MaxCalls /\ turn[c].calls \in 0..MaxCalls
          /\ turn[c].at = "append"
      BY <1>1 DEF TurnState, AppendMessage
    <2>2. turn[c].role \in {"user", "assistant", "tool"}
      BY <2>1 DEF TypeInv, OwesResults
    <2> QED
      BY <1>1, <2>1, <2>2, BoundsAssumption
  <1>6. 0 \in 0..MaxCalls /\ 0 \in Nat
    BY BoundsAssumption
  <1> HIDE DEF at, owed
  <1>7. /\ j \in TurnState /\ j.at = at /\ j.held = None
        /\ j.role = "tool" /\ j.owed = owed
    BY <1>1, <1>2, <1>4, <1>6 DEF TurnState, Roles
  <1> HIDE DEF j
  <1>8. Comes(c, at) /\ turn'[c] = j
    BY <1>3, <1>7, TurnSet
  <1> QED
    BY <1>2, <1>5, <1>7, <1>8 DEF Holds, Owes

LEMMA RoundMoves ==
    ASSUME TypeInv, NEW c \in Callers, Chat(c) \/ ChatFails(c) \/ DispatchToolCalls(c)
    PROVE  /\ \/ Comes(c, "persist") /\ Owes(c)
              \/ Comes(c, "idle")
           /\ ~ Holds(c)
  <1>1. CASE ChatFails(c)
    BY <1>1, ReturnMoves DEF ChatFails
  <1>2. CASE Chat(c)
    <2>1. PICK calls \in 0..MaxCalls :
            turn' = [turn EXCEPT ![c].at = "persist", ![c].role = "assistant",
                                 ![c].calls = calls, ![c].left = @ - 1]
      BY <1>2 DEF Chat
    <2> DEFINE left == turn[c].left - 1
               j    == [turn[c] EXCEPT !.at = "persist", !.role = "assistant",
                                       !.calls = calls, !.left = left]
    <2>2. turn[c] \in TurnState /\ turn[c].held = None
      BY <1>2, TurnType DEF TypeInv, HeldToApply, Chat, TurnState
    <2>3. turn' = [d \in Callers |-> IF d = c THEN j ELSE turn[d]]
      BY <2>1, TurnType
    <2>4. left \in 0..MaxToolRounds + 1
      <3>1. turn[c].left \in 0..MaxToolRounds + 1 /\ turn[c].left > 0
        BY <1>2, <2>2 DEF Chat, RoundsLeft, TurnState
      <3> QED
        BY <3>1, BoundsAssumption
    <2> HIDE DEF left
    <2>5. /\ j \in TurnState /\ j.at = "persist" /\ j.held = None
          /\ j.role = "assistant"
      BY <2>2, <2>4 DEF TurnState, Roles
    <2> HIDE DEF j
    <2> QED
      BY <2>3, <2>5, TurnSet DEF Holds, Owes
  <1>3. CASE DispatchToolCalls(c)
    <2> DEFINE j == [turn[c] EXCEPT !.at = "persist"]
    <2>1. /\ turn[c] \in TurnState /\ turn[c].held = None
          /\ \/ turn[c].role \in {"user", "assistant"}
             \/ turn[c].role = "tool" /\ turn[c].owed > 0
      BY <1>3, TurnType DEF TypeInv, HeldToApply, OwesResults, DispatchToolCalls, TurnState
    <2>2. CASE Return(c)
      BY <2>2, ReturnMoves
    <2>3. CASE turn' = [turn EXCEPT ![c].at = "persist"]
      <3>1. turn' = [d \in Callers |-> IF d = c THEN j ELSE turn[d]]
        BY <2>3, TurnType
      <3>2. /\ j \in TurnState /\ j.at = "persist" /\ j.held = None
            /\ j.role = turn[c].role /\ j.owed = turn[c].owed
        BY <2>1 DEF TurnState
      <3> HIDE DEF j
      <3>3. Comes(c, "persist") /\ turn'[c] = j
        BY <3>1, <3>2, TurnSet
      <3> QED
        BY <2>1, <3>2, <3>3 DEF Holds, Owes
    <2> QED
      BY <1>3, <2>2, <2>3 DEF DispatchToolCalls
  <1> QED
    BY <1>1, <1>2, <1>3

\* A result takes the place of the messages it was made from, or is discarded.
LEMMA ReconcileMerges ==
    ASSUME TypeInv, NEW c \in Callers, ReconcileHistory(c)
    PROVE  LET p == turn[c].held IN
           /\ p \in Results /\ p.snapshot \in Seq(Message) /\ p.remaining \in Seq(Message)
           /\ \/ Len(p.snapshot) > Len(history) /\ history' = history
              \/ /\ Len(p.snapshot) <= Len(history)
                 /\ history' = p.remaining \o From(history, Len(p.snapshot))
           /\ history' \in Seq(Message)
  <1> DEFINE p == turn[c].held
  <1>1. p \in Results /\ p.snapshot \in Seq(Message) /\ p.remaining \in Seq(Message)
    BY ReconcileMoves DEF Results
  <1>2. Len(p.snapshot) \in Nat /\ Len(history) \in Nat
    BY <1>1, TurnType, LenProperties
  <1>3. \/ Len(p.snapshot) > Len(history) /\ history' = history
        \/ /\ Len(p.snapshot) <= Len(history)
           /\ history' = p.remaining \o From(history, Len(p.snapshot))
    <2>1. history' = IF Len(p.snapshot) > Len(history) THEN history ELSE Merged(p)
      BY DEF ReconcileHistory
    <2>2. Merged(p) = p.remaining \o From(history, Len(p.snapshot))
      BY DEF Merged, From
    <2>3. CASE Len(p.snapshot) > Len(history)
      BY <2>1, <2>3
    <2>4. CASE ~ Len(p.snapshot) > Len(history)
      <3>1. history' = p.remaining \o From(history, Len(p.snapshot))
        BY <2>1, <2>2, <2>4
      <3>2. Len(p.snapshot) <= Len(history)
        BY <1>2, <2>4
      <3> QED
        BY <3>1, <3>2
    <2> QED
      BY <2>3, <2>4
  <1>4. From(history, Len(p.snapshot)) \in Seq(Message)
    BY <1>2, TurnType, FromProperties
  <1> HIDE DEF p
  <1>5. p.remaining \o From(history, Len(p.snapshot)) \in Seq(Message)
    BY <1>1, <1>4, ConcatParts
  <1>6. history' \in Seq(Message)
    BY <1>3, <1>5, TurnType
  <1> QED
    BY <1>1, <1>3, <1>6 DEF p

LEMMA AppendedMessage ==
    ASSUME TypeInv, NEW c \in Callers, AppendMessage(c)
    PROVE  LET m == Draft(turn[c].role, turn[c].calls, {turn[c].row}) IN
           /\ m \in Message /\ m.role = turn[c].role /\ m.rows = {turn[c].row}
           /\ history' = Append(history, m)
           /\ history' \in Seq(Message)
  <1> DEFINE m == Draft(turn[c].role, turn[c].calls, {turn[c].row})
  <1>1. /\ turn[c].role \in Roles /\ turn[c].calls \in 0..MaxCalls
        /\ {turn[c].row} \in SUBSET Nat
    BY TurnType DEF TurnState
  <1>2. m \in Message /\ m.role = turn[c].role /\ m.rows = {turn[c].row}
    BY <1>1, DraftIsMessage
  <1>3. history' = Append(history, m)
    BY DEF AppendMessage
  <1> HIDE DEF m
  <1>4. history' \in Seq(Message)
    BY <1>2, <1>3, TurnType, AppendParts
  <1> QED
    BY <1>2, <1>3, <1>4 DEF m

LEMMA InsertedMessage ==
    ASSUME TypeInv, NEW c \in Callers, Insert(c)
    PROVE  LET m == Draft(turn[c].role, turn[c].calls, {NextRow}) IN
           /\ m \in Message /\ m.rows = {NextRow} /\ NextRow = Len(stored) + 1
           /\ stored' = Append(stored, m)
           /\ stored' \in Seq(Message)
  <1> DEFINE m == Draft(turn[c].role, turn[c].calls, {NextRow})
  <1>1. /\ turn[c].role \in Roles /\ turn[c].calls \in 0..MaxCalls
        /\ NextRow \in Nat
    BY TurnType, LenProperties DEF TurnState, NextRow
  <1>2. m \in Message /\ m.rows = {NextRow}
    BY <1>1, DraftIsMessage
  <1>3. stored' = Append(stored, m)
    BY DEF Insert
  <1> HIDE DEF m
  <1>4. stored' \in Seq(Message)
    BY <1>2, <1>3, TurnType, AppendParts
  <1> QED
    BY <1>2, <1>3, <1>4 DEF m, NextRow
-----------------------------------------------------------------------------
\* Task t alone moves, keeps its snapshot, and has remaining and is at at.
TaskComes(t, next) ==
    /\ tasks' = (tasks \ {t}) \cup {next}
    /\ next \in TaskState
    /\ next.snapshot = t.snapshot

\* What a summary and the messages after it are made of.
Summary(h, split) == Draft("system", 0, Rows(SubSeq(h, 1, split)))
Condensed(h, split) == <<Summary(h, split)>> \o From(h, split)

LEMMA CondensedProperties ==
    ASSUME NEW h \in Seq(Message), NEW split \in 1..Len(h)
    PROVE  /\ Summary(h, split) \in Message
           /\ Summary(h, split).role = "system"
           /\ Summary(h, split).rows = Rows(SubSeq(h, 1, split))
           /\ <<Summary(h, split)>> \in Seq(Message) /\ Len(<<Summary(h, split)>>) = 1
           /\ From(h, split) \in Seq(Message) /\ Len(From(h, split)) = Len(h) - split
           /\ Condensed(h, split) \in Seq(Message)
           /\ Len(Condensed(h, split)) <= Len(h)
  <1>1. Len(h) \in Nat /\ split \in 0..Len(h) /\ split \in Nat /\ split >= 1
    BY LenProperties
  <1>2. SubSeq(h, 1, split) \in Seq(Message)
    BY <1>1, UpToProperties
  <1>3. Rows(SubSeq(h, 1, split)) \in SUBSET Nat
    BY <1>2, RowsAreNumbers
  <1>4. "system" \in Roles /\ 0 \in 0..MaxCalls
    BY BoundsAssumption DEF Roles
  <1>5. /\ Summary(h, split) \in Message
        /\ Summary(h, split).role = "system"
        /\ Summary(h, split).rows = Rows(SubSeq(h, 1, split))
    BY <1>3, <1>4, DraftIsMessage DEF Summary
  <1>6. From(h, split) \in Seq(Message) /\ Len(From(h, split)) = Len(h) - split
    BY <1>1, FromProperties
  <1>7. <<Summary(h, split)>> \in Seq(Message) /\ Len(<<Summary(h, split)>>) = 1
    BY <1>5
  <1>8. /\ Condensed(h, split) \in Seq(Message)
        /\ Len(Condensed(h, split)) = 1 + (Len(h) - split)
    <2> DEFINE first == <<Summary(h, split)>>
    <2>1. first \in Seq(Message) /\ Len(first) = 1
      BY <1>7
    <2> HIDE DEF first
    <2>2. /\ first \o From(h, split) \in Seq(Message)
          /\ Len(first \o From(h, split)) = Len(first) + Len(From(h, split))
      BY <1>6, <2>1, ConcatParts
    <2>3. Len(first \o From(h, split)) = 1 + (Len(h) - split)
      BY <1>6, <2>1, <2>2
    <2> QED
      BY <2>2, <2>3 DEF Condensed, first
  <1> QED
    BY <1>1, <1>5, <1>6, <1>7, <1>8

LEMMA SummarizeMoves ==
    ASSUME TypeInv, NEW t \in tasks, Summarize(t)
    PROVE  \E next :
             /\ TaskComes(t, next)
             /\ \/ next.at = "release" /\ next.remaining = t.remaining
                \/ /\ next.at = "deliver"
                   /\ \E split \in 1..Len(t.snapshot) :
                        next.remaining = Condensed(t.snapshot, split)
  <1>1. t \in TaskState /\ t.snapshot \in Seq(Message)
    BY TurnType DEF TaskState
  <1>2. CASE Step(t, [t EXCEPT !.at = "release"])
    <2> DEFINE next == [t EXCEPT !.at = "release"]
    <2>1. /\ next \in TaskState /\ next.at = "release"
          /\ next.snapshot = t.snapshot /\ next.remaining = t.remaining
      BY <1>1 DEF TaskState
    <2>2. tasks' = (tasks \ {t}) \cup {next}
      BY <1>2 DEF Step
    <2> HIDE DEF next
    <2> QED
      BY <2>1, <2>2 DEF TaskComes
  <1>3. ASSUME NEW split \in Splits(t.snapshot) \ {0},
               LET older == SubSeq(t.snapshot, 1, split)
                   newer == SubSeq(t.snapshot, split + 1, Len(t.snapshot)) IN
               Step(t, [t EXCEPT !.at = "deliver",
                                 !.remaining = <<Draft("system", 0, Rows(older))>> \o newer])
        PROVE  \E next :
                 /\ TaskComes(t, next)
                 /\ next.at = "deliver"
                 /\ \E s \in 1..Len(t.snapshot) : next.remaining = Condensed(t.snapshot, s)
    <2>1. Len(t.snapshot) \in Nat
      BY <1>1, LenProperties
    <2>2. split \in 1..Len(t.snapshot)
      <3> DEFINE n == Len(t.snapshot)
      <3>1. /\ split \in 1..n - 1 \/ split \in 1..n \/ split = n \div 2
            /\ split # 0
        BY <1>3 DEF Splits
      <3>2. n \in Nat
        BY <2>1
      <3> HIDE DEF n
      <3>3. n \div 2 \in 0..n
        BY <3>2
      <3>4. split \in 1..n
        BY <3>1, <3>2, <3>3
      <3> QED
        BY <3>4 DEF n
    <2> DEFINE next == [t EXCEPT !.at = "deliver", !.remaining = Condensed(t.snapshot, split)]
    <2>3. tasks' = (tasks \ {t}) \cup {next}
      BY <1>3 DEF Step, Condensed, Summary, From
    <2>4. Condensed(t.snapshot, split) \in Seq(Message)
      BY <1>1, <2>2, CondensedProperties
    <2>5. /\ next \in TaskState /\ next.at = "deliver" /\ next.snapshot = t.snapshot
          /\ next.remaining = Condensed(t.snapshot, split)
      BY <1>1, <2>4 DEF TaskState
    <2> HIDE DEF next
    <2> QED
      BY <2>2, <2>3, <2>5 DEF TaskComes
  <1>4. \/ Step(t, [t EXCEPT !.at = "release"])
        \/ \E split \in Splits(t.snapshot) \ {0} :
             LET older == SubSeq(t.snapshot, 1, split)
                 newer == SubSeq(t.snapshot, split + 1, Len(t.snapshot)) IN
             Step(t, [t EXCEPT !.at = "deliver",
                               !.remaining = <<Draft("system", 0, Rows(older))>> \o newer])
    BY DEF Summarize
  <1> QED
    BY <1>2, <1>3, <1>4

\* The steps of a task that has a result.
LEMMA ResultMoves ==
    ASSUME TypeInv, NEW t \in tasks, Deliver(t) \/ Drain(t) \/ Replace(t)
    PROVE  /\ \E next :
                /\ TaskComes(t, next)
                /\ next.remaining = t.remaining
                /\ \/ t.at = "deliver" /\ pending # None /\ next.at = "drain"
                       /\ pending' = pending
                   \/ t.at = "drain" /\ next.at = "replace" /\ pending' = None
                   \/ t.at \in {"deliver", "replace"} /\ next.at = "release"
                       /\ pending' \in {pending, Result(t)}
                       /\ (pending = None => pending' = Result(t))
           /\ Result(t) \in Results
           /\ Result(t).snapshot = t.snapshot /\ Result(t).remaining = t.remaining
  <1>1. t \in TaskState
    BY TurnType
  <1>2. /\ Result(t) \in Results
        /\ Result(t).snapshot = t.snapshot /\ Result(t).remaining = t.remaining
    BY <1>1 DEF Result, Results, TaskState
  <1>3. PICK at \in {"drain", "replace", "release"} :
          /\ Step(t, [t EXCEPT !.at = at])
          /\ \/ t.at = "deliver" /\ pending # None /\ at = "drain" /\ pending' = pending
             \/ t.at = "drain" /\ at = "replace" /\ pending' = None
             \/ t.at \in {"deliver", "replace"} /\ at = "release"
                 /\ pending' \in {pending, Result(t)}
                 /\ (pending = None => pending' = Result(t))
    BY DEF Deliver, Drain, Replace
  <1> DEFINE next == [t EXCEPT !.at = at]
  <1>4. /\ next \in TaskState /\ next.at = at
        /\ next.snapshot = t.snapshot /\ next.remaining = t.remaining
    BY <1>1 DEF TaskState
  <1>5. tasks' = (tasks \ {t}) \cup {next}
    BY <1>3 DEF Step
  <1> HIDE DEF next
  <1> QED
    BY <1>2, <1>3, <1>4, <1>5 DEF TaskComes
-----------------------------------------------------------------------------
(***************************************************************************)
(* Types.                                                                  *)
(***************************************************************************)
LEMMA TypesNext ==
    ASSUME turn' \in [Callers -> TurnState],
           history' \in Seq(Message), stored' \in Seq(Message),
           tasks' \subseteq TaskState, pending' \in Results \cup {None},
           summarizing' \in BOOLEAN, sends' \in 0..MaxSends
    PROVE  TypeOK'
  BY DEF TypeOK, TurnState, TaskState

\* One caller moves and what it holds and owes fits its place.
LEMMA CallerTypes ==
    ASSUME TypeInv, NEW c \in Callers, NEW at, Comes(c, at),
           Holds(c) <=> at = "reconcile",
           at \in {"reconcile", "persist", "append", "tools"} => Owes(c),
           history' \in Seq(Message), stored' \in Seq(Message),
           tasks' \subseteq TaskState, pending' \in Results \cup {None},
           summarizing' \in BOOLEAN, sends' \in 0..MaxSends
    PROVE  TypeInv'
  <1>1. TypeOK'
    BY TypesNext DEF Comes
  <1>2. HeldToApply'
    BY DEF TypeInv, HeldToApply, Comes, Holds
  <1>3. OwesResults'
    BY DEF TypeInv, OwesResults, Comes, Owes
  <1> QED
    BY <1>1, <1>2, <1>3 DEF TypeInv

\* The steps of one caller.
LEMMA CallerTypeStep ==
    ASSUME TypeInv, NEW c \in Callers, Send(c) \/ CallerStep(c) \/ DispatchToolCalls(c)
    PROVE  TypeInv'
  <1>1. CASE Send(c)
    <2>1. /\ history' \in Seq(Message) /\ stored' \in Seq(Message) /\ tasks' \subseteq TaskState
          /\ pending' \in Results \cup {None} /\ summarizing' \in BOOLEAN
      BY <1>1, TurnType DEF Send, summary
    <2> QED
      BY <1>1, <2>1, SendMoves, CallerTypes DEF Holds
  <1>2. CASE ReconcileHistory(c)
    <2>1. /\ stored' \in Seq(Message) /\ tasks' \subseteq TaskState /\ sends' \in 0..MaxSends
          /\ pending' \in Results \cup {None} /\ summarizing' \in BOOLEAN
      BY <1>2, TurnType DEF ReconcileHistory, summary
    <2> QED
      BY <1>2, <2>1, ReconcileMoves, ReconcileMerges, CallerTypes
  <1>3. CASE PersistMessage(c)
    <2>1. /\ history' \in Seq(Message) /\ tasks' \subseteq TaskState /\ sends' \in 0..MaxSends
          /\ pending' \in Results \cup {None} /\ summarizing' \in BOOLEAN
      BY <1>3, TurnType DEF PersistMessage, summary
    <2>2. stored' \in Seq(Message)
      BY <1>3, PersistMoves, InsertedMessage, TurnType
    <2> QED
      BY <1>3, <2>1, <2>2, PersistMoves, CallerTypes
  <1>4. CASE AppendMessage(c)
    <2>1. /\ stored' \in Seq(Message) /\ tasks' \subseteq TaskState /\ sends' \in 0..MaxSends
          /\ pending' \in Results \cup {None} /\ summarizing' \in BOOLEAN
      BY <1>4, TurnType DEF AppendMessage, summary
    <2> QED
      BY <1>4, <2>1, AppendMoves, AppendedMessage, CallerTypes
  <1>5. CASE Chat(c) \/ ChatFails(c) \/ DispatchToolCalls(c)
    <2>1. /\ history' \in Seq(Message) /\ stored' \in Seq(Message) /\ tasks' \subseteq TaskState
          /\ pending' \in Results \cup {None} /\ summarizing' \in BOOLEAN
          /\ sends' \in 0..MaxSends
      BY <1>5, TurnType DEF Chat, ChatFails, DispatchToolCalls, summary
    <2> QED
      BY <1>5, <2>1, RoundMoves, CallerTypes
  <1>6. CASE MaybeStartSummarization(c)
    <2>1. /\ history' \in Seq(Message) /\ stored' \in Seq(Message) /\ sends' \in 0..MaxSends
          /\ pending' \in Results \cup {None}
      BY <1>6, TurnType DEF MaybeStartSummarization
    <2>2. [at |-> "summarize", snapshot |-> history, remaining |-> <<>>] \in TaskState
      BY TurnType, EmptySeq DEF TaskState
    <2>3. tasks' \subseteq TaskState /\ summarizing' \in BOOLEAN
      BY <1>6, <2>2, TurnType DEF MaybeStartSummarization, StartOnce, summary
    <2> QED
      BY <1>6, <2>1, <2>3, ReturnMoves, CallerTypes DEF MaybeStartSummarization
  <1> QED
    BY <1>1, <1>2, <1>3, <1>4, <1>5, <1>6 DEF CallerStep

\* A step that moves no caller.
LEMMA OtherTypes ==
    ASSUME TypeInv, UNCHANGED <<turn, history, stored, sends>>, tasks' \subseteq TaskState,
           pending' \in Results \cup {None}, summarizing' \in BOOLEAN
    PROVE  TypeInv'
  <1>1. TypeOK'
    BY TurnType, TypesNext
  <1> QED
    BY <1>1 DEF TypeInv, HeldToApply, OwesResults

LEMMA TypeStep ==
    ASSUME TypeInv, [Next]_vars
    PROVE  TypeInv'
  <1>1. ASSUME NEW t \in tasks, Summarize(t)
        PROVE  TypeInv'
    <2>1. tasks' \subseteq TaskState
      BY <1>1, TurnType, SummarizeMoves DEF TaskComes
    <2> QED
      BY <1>1, <2>1, TurnType, OtherTypes DEF Summarize
  <1>2. ASSUME NEW t \in tasks, Deliver(t) \/ Drain(t) \/ Replace(t)
        PROVE  TypeInv'
    <2>1. tasks' \subseteq TaskState /\ pending' \in Results \cup {None}
      BY <1>2, TurnType, ResultMoves DEF TaskComes
    <2> QED
      BY <1>2, <2>1, TurnType, OtherTypes DEF Deliver, Drain, Replace
  <1>3. ASSUME NEW t \in tasks, Release(t)
        PROVE  TypeInv'
    BY <1>3, TurnType, OtherTypes DEF Release
  <1>4. CASE Restart
    <2>1. turn' \in [Callers -> TurnState] /\ \A c \in Callers : turn'[c] = Idle
      BY <1>4, IdleState DEF Restart
    <2>2. TypeOK'
      BY <1>4, <2>1, TurnType, TypesNext DEF Restart
    <2> QED
      BY <2>1, <2>2, IdleState DEF TypeInv, HeldToApply, OwesResults
  <1>5. CASE UNCHANGED vars
    BY <1>5, TurnType, OtherTypes DEF vars
  <1> QED
    BY <1>1, <1>2, <1>3, <1>4, <1>5, CallerTypeStep DEF Next, TaskStep

LEMMA TypeInit ==
    ASSUME Init
    PROVE  TypeInv
  <1>1. turn \in [Callers -> TurnState] /\ \A c \in Callers : turn[c] = Idle
    BY IdleState DEF Init
  <1>2. TypeOK
    <2>1. /\ history \in Seq(Message) /\ stored \in Seq(Message)
          /\ tasks = {} /\ pending = None /\ summarizing \in BOOLEAN
      BY EmptySeq DEF Init
    <2>2. sends \in 0..MaxSends
      BY BoundsAssumption DEF Init
    <2> QED
      BY <1>1, <2>1, <2>2 DEF TypeOK, TurnState
  <1> QED
    BY <1>1, <1>2, IdleState DEF TypeInv, HeldToApply, OwesResults

\* Send, SendStream and the summarization: a result is in a caller's hands exactly while
\* the caller is to apply it, and a tool's result is stored only while one is owed.
THEOREM TypeInvariant == Spec => []TypeInv
  BY TypeInit, TypeStep, PTL DEF Spec

\* Send, SendStream and the summarization keep every variable in its range; in particular
\* no count of owed tool results and no count of rounds passes zero.
THEOREM SessionTypes == Spec => []TypeOK
  BY TypeInvariant, PTL DEF TypeInv
-----------------------------------------------------------------------------
(***************************************************************************)
(* What is shown to the provider is in the database.                       *)
(***************************************************************************)
\* HistoryIsStored for any history.
BackedBy(h, rows) ==
    \A i \in DOMAIN h :
        /\ h[i].rows \subseteq DOMAIN rows
        /\ h[i].role # "system" => \E r \in h[i].rows : h[i] = rows[r]

\* Rows are only added.
Extends(rows, more) ==
    DOMAIN rows \subseteq DOMAIN more /\ \A r \in DOMAIN rows : more[r] = rows[r]

LEMMA BackedStays ==
    ASSUME NEW h, NEW rows, NEW more, BackedBy(h, rows), Extends(rows, more)
    PROVE  BackedBy(h, more)
  BY DEF BackedBy, Extends

LEMMA BackedParts ==
    ASSUME NEW rows, NEW h \in Seq(Message), BackedBy(h, rows), NEW k \in Nat
    PROVE  BackedBy(From(h, k), rows)
  <1>1. \A i \in DOMAIN From(h, k) : k + i \in DOMAIN h /\ From(h, k)[i] = h[k + i]
    BY FromProperties
  <1>2. ASSUME NEW m, \E i \in DOMAIN h : m = h[i]
        PROVE  /\ m.rows \subseteq DOMAIN rows
               /\ m.role # "system" => \E r \in m.rows : m = rows[r]
    BY <1>2 DEF BackedBy
  <1>3. ASSUME NEW i \in DOMAIN From(h, k)
        PROVE  \E j \in DOMAIN h : From(h, k)[i] = h[j]
    BY <1>1
  <1> QED
    BY <1>2, <1>3 DEF BackedBy

LEMMA BackedConcat ==
    ASSUME NEW rows, NEW s \in Seq(Message), NEW t \in Seq(Message),
           BackedBy(s, rows), BackedBy(t, rows)
    PROVE  BackedBy(s \o t, rows)
  <1>1. ASSUME NEW i \in DOMAIN (s \o t)
        PROVE  /\ (s \o t)[i].rows \subseteq DOMAIN rows
               /\ (s \o t)[i].role # "system" =>
                    \E r \in (s \o t)[i].rows : (s \o t)[i] = rows[r]
    <2>1. \/ i \in DOMAIN s /\ (s \o t)[i] = s[i]
          \/ i - Len(s) \in DOMAIN t /\ (s \o t)[i] = t[i - Len(s)]
      BY ConcatParts
    <2> QED
      BY <2>1 DEF BackedBy
  <1> QED
    BY <1>1 DEF BackedBy

LEMMA BackedAppend ==
    ASSUME NEW rows, NEW h \in Seq(Message), NEW m \in Message, BackedBy(h, rows),
           m.rows \subseteq DOMAIN rows, \E r \in m.rows : m = rows[r]
    PROVE  BackedBy(Append(h, m), rows)
  <1> DEFINE g == Append(h, m)
             n == Len(h) + 1
  <1>1. /\ DOMAIN g = DOMAIN h \cup {n}
        /\ \A i \in DOMAIN h : g[i] = h[i]
        /\ g[n] = m
    BY AppendParts
  <1> HIDE DEF g, n
  <1>2. BackedBy(g, rows)
    BY <1>1 DEF BackedBy
  <1> QED
    BY <1>2 DEF g

LEMMA BackedCondensed ==
    ASSUME NEW rows, NEW h \in Seq(Message), NEW split \in 1..Len(h), BackedBy(h, rows)
    PROVE  BackedBy(Condensed(h, split), rows)
  <1> DEFINE first == <<Summary(h, split)>>
  <1>1. Len(h) \in Nat /\ split \in 0..Len(h) /\ split \in Nat
    BY LenProperties
  <1>2. /\ first \in Seq(Message) /\ From(h, split) \in Seq(Message)
        /\ DOMAIN first = {1} /\ first[1] = Summary(h, split)
        /\ first[1].role = "system" /\ first[1].rows = Rows(SubSeq(h, 1, split))
    BY CondensedProperties
  <1>3. Rows(SubSeq(h, 1, split)) \subseteq DOMAIN rows
    <2>1. Rows(h) \subseteq DOMAIN rows
      BY DEF Rows, BackedBy
    <2> QED
      BY <1>1, <2>1, CutRows
  <1> HIDE DEF first
  <1>4. BackedBy(first, rows)
    BY <1>2, <1>3 DEF BackedBy
  <1>5. BackedBy(From(h, split), rows)
    BY <1>1, BackedParts
  <1>6. BackedBy(first \o From(h, split), rows)
    BY <1>2, <1>4, <1>5, BackedConcat
  <1> QED
    BY <1>6 DEF Condensed, first

\* The parts of the invariant: every row stands for itself, and what is, was or may become
\* the history is backed by rows, as is a message that has just been written.
RowsOwn       == \A i \in DOMAIN stored : stored[i].rows = {i}
TasksBacked   == \A t \in tasks : BackedBy(t.snapshot, stored) /\ BackedBy(t.remaining, stored)
PendingBacked == pending # None => BackedBy(pending.remaining, stored)
HeldBacked    ==
    \A c \in Callers : turn[c].held # None => BackedBy(turn[c].held.remaining, stored)
WrittenFirst  ==
    \A c \in Callers :
        turn[c].at = "append" =>
          /\ turn[c].row \in DOMAIN stored
          /\ stored[turn[c].row] = Draft(turn[c].role, turn[c].calls, {turn[c].row})

StoredInv ==
    /\ RowsOwn
    /\ BackedBy(history, stored)
    /\ TasksBacked
    /\ PendingBacked
    /\ HeldBacked
    /\ WrittenFirst

LEMMA InsertExtends ==
    ASSUME TypeInv, StoredInv, NEW c \in Callers, Insert(c)
    PROVE  /\ Extends(stored, stored') /\ RowsOwn'
           /\ NextRow \in DOMAIN stored'
           /\ stored'[NextRow] = Draft(turn[c].role, turn[c].calls, {NextRow})
  <1> DEFINE m == Draft(turn[c].role, turn[c].calls, {NextRow})
  <1>1. /\ m \in Message /\ m.rows = {NextRow} /\ NextRow = Len(stored) + 1
        /\ stored' = Append(stored, m) /\ stored \in Seq(Message)
    BY InsertedMessage, TurnType
  <1> HIDE DEF m
  <1>2. /\ DOMAIN stored' = DOMAIN stored \cup {NextRow}
        /\ NextRow \notin DOMAIN stored
        /\ \A i \in DOMAIN stored : stored'[i] = stored[i]
        /\ stored'[NextRow] = m
    BY <1>1, AppendParts
  <1>3. RowsOwn'
    BY <1>1, <1>2 DEF StoredInv, RowsOwn
  <1> QED
    BY <1>2, <1>3 DEF Extends, m

\* A caller's step that starts no task.
LEMMA StoredFrame ==
    ASSUME StoredInv, NEW c \in Callers, NEW at, Comes(c, at),
           Extends(stored, stored'), RowsOwn', BackedBy(history', stored'),
           tasks' = tasks, pending' \in {pending, None},
           Holds(c) => BackedBy(turn'[c].held.remaining, stored),
           at = "append" =>
             /\ turn'[c].row \in DOMAIN stored'
             /\ stored'[turn'[c].row] = Draft(turn'[c].role, turn'[c].calls, {turn'[c].row})
    PROVE  StoredInv'
  <1>1. TasksBacked'
    BY BackedStays DEF StoredInv, TasksBacked
  <1>2. PendingBacked'
    BY BackedStays DEF StoredInv, PendingBacked
  <1>3. HeldBacked'
    BY BackedStays DEF StoredInv, HeldBacked, Comes, Holds
  <1>4. WrittenFirst'
    <2>1. ASSUME NEW d \in Callers \ {c}, turn'[d].at = "append"
          PROVE  /\ turn'[d].row \in DOMAIN stored'
                 /\ stored'[turn'[d].row] = Draft(turn'[d].role, turn'[d].calls, {turn'[d].row})
      BY <2>1 DEF StoredInv, WrittenFirst, Comes, Extends
    <2> QED
      BY <2>1 DEF WrittenFirst, Comes
  <1> QED
    BY <1>1, <1>2, <1>3, <1>4 DEF StoredInv

LEMMA StoredSame == Extends(stored, stored)
  BY DEF Extends

LEMMA StoredCallerStep ==
    ASSUME TypeInv, StoredInv, NEW c \in Callers, Send(c) \/ CallerStep(c) \/ DispatchToolCalls(c)
    PROVE  StoredInv'
  <1>1. CASE Send(c)
    <2>1. /\ Extends(stored, stored') /\ RowsOwn' /\ BackedBy(history', stored')
          /\ tasks' = tasks /\ pending' = None
      BY <1>1, StoredSame DEF Send, summary, StoredInv, RowsOwn
    <2>2. Holds(c) => BackedBy(turn'[c].held.remaining, stored)
      BY <1>1, SendMoves DEF Holds, StoredInv, PendingBacked
    <2> QED
      BY <1>1, <2>1, <2>2, SendMoves, StoredFrame
  <1>2. CASE ReconcileHistory(c)
    <2> DEFINE p == turn[c].held
    <2>1. /\ Extends(stored, stored') /\ RowsOwn' /\ stored' = stored
          /\ tasks' = tasks /\ pending' = pending
      BY <1>2, StoredSame DEF ReconcileHistory, summary, StoredInv, RowsOwn
    <2>2. /\ p.snapshot \in Seq(Message) /\ p.remaining \in Seq(Message)
          /\ \/ history' = history
             \/ history' = p.remaining \o From(history, Len(p.snapshot))
      BY <1>2, ReconcileMerges
    <2>3. BackedBy(p.remaining, stored)
      BY <1>2 DEF TypeInv, HeldToApply, StoredInv, HeldBacked, ReconcileHistory
    <2>4. Len(p.snapshot) \in Nat /\ history \in Seq(Message)
      BY <2>2, LenProperties, TurnType
    <2> HIDE DEF p
    <2>5. /\ From(history, Len(p.snapshot)) \in Seq(Message)
          /\ BackedBy(From(history, Len(p.snapshot)), stored)
      BY <2>4, FromProperties, BackedParts DEF StoredInv
    <2>6. BackedBy(p.remaining \o From(history, Len(p.snapshot)), stored)
      BY <2>2, <2>3, <2>5, BackedConcat
    <2>7. BackedBy(history', stored')
      BY <2>1, <2>2, <2>6 DEF StoredInv
    <2> QED
      BY <1>2, <2>1, <2>7, ReconcileMoves, StoredFrame
  <1>3. CASE PersistMessage(c)
    <2>1. history' = history /\ tasks' = tasks /\ pending' = pending
      BY <1>3 DEF PersistMessage, summary
    <2>2. Extends(stored, stored') /\ RowsOwn'
      BY <1>3, PersistMoves, InsertExtends, StoredSame DEF StoredInv, RowsOwn
    <2>3. BackedBy(history', stored')
      BY <2>1, <2>2, BackedStays DEF StoredInv
    <2>4. CASE /\ Insert(c) /\ Comes(c, "append")
               /\ turn'[c].role = turn[c].role /\ turn'[c].calls = turn[c].calls
               /\ turn'[c].row = NextRow
      <3>1. /\ turn'[c].row \in DOMAIN stored'
            /\ stored'[turn'[c].row] = Draft(turn'[c].role, turn'[c].calls, {turn'[c].row})
        BY <2>4, InsertExtends
      <3> QED
        BY <1>3, <2>1, <2>2, <2>3, <2>4, <3>1, PersistMoves, StoredFrame
    <2>5. CASE Comes(c, "idle")
      BY <1>3, <2>1, <2>2, <2>3, <2>5, PersistMoves, StoredFrame
    <2> QED
      BY <1>3, <2>4, <2>5, PersistMoves
  <1>4. CASE AppendMessage(c)
    <2> DEFINE m == Draft(turn[c].role, turn[c].calls, {turn[c].row})
    <2>1. /\ Extends(stored, stored') /\ RowsOwn' /\ stored' = stored
          /\ tasks' = tasks /\ pending' = pending
      BY <1>4, StoredSame DEF AppendMessage, summary, StoredInv, RowsOwn
    <2>2. /\ m \in Message /\ m.rows = {turn[c].row} /\ history' = Append(history, m)
          /\ history \in Seq(Message)
      BY <1>4, AppendedMessage, TurnType
    <2>3. turn[c].row \in DOMAIN stored /\ stored[turn[c].row] = m
      BY <1>4 DEF StoredInv, WrittenFirst, AppendMessage
    <2> HIDE DEF m
    <2>4. BackedBy(history', stored')
      BY <2>1, <2>2, <2>3, BackedAppend DEF StoredInv
    <2> QED
      BY <1>4, <2>1, <2>4, AppendMoves, StoredFrame
  <1>5. CASE Chat(c) \/ ChatFails(c) \/ DispatchToolCalls(c)
    <2>1. /\ Extends(stored, stored') /\ RowsOwn' /\ BackedBy(history', stored')
          /\ tasks' = tasks /\ pending' = pending
      BY <1>5, StoredSame DEF Chat, ChatFails, DispatchToolCalls, summary, StoredInv, RowsOwn
    <2> QED
      BY <1>5, <2>1, RoundMoves, StoredFrame
  <1>6. CASE MaybeStartSummarization(c)
    <2>1. /\ stored' = stored /\ history' = history /\ pending' = pending
          /\ Comes(c, "idle") /\ ~ Holds(c)
      BY <1>6, ReturnMoves DEF MaybeStartSummarization
    <2> DEFINE new == [at |-> "summarize", snapshot |-> history, remaining |-> <<>>]
    <2>2. tasks' \subseteq tasks \cup {new}
      BY <1>6 DEF MaybeStartSummarization, StartOnce, summary
    <2>3. BackedBy(new.snapshot, stored) /\ BackedBy(new.remaining, stored)
      BY DEF StoredInv, BackedBy
    <2> HIDE DEF new
    <2>4. TasksBacked'
      BY <2>1, <2>2, <2>3 DEF StoredInv, TasksBacked
    <2> QED
      BY <2>1, <2>4
      DEF StoredInv, RowsOwn, PendingBacked, HeldBacked, WrittenFirst, Comes, Holds
  <1> QED
    BY <1>1, <1>2, <1>3, <1>4, <1>5, <1>6 DEF CallerStep

LEMMA StoredTaskStep ==
    ASSUME TypeInv, StoredInv, NEW t \in tasks,
           Summarize(t) \/ Deliver(t) \/ Drain(t) \/ Replace(t) \/ Release(t)
    PROVE  StoredInv'
  <1>1. UNCHANGED <<history, stored, turn>>
    BY DEF Summarize, Deliver, Drain, Replace, Release
  <1>2. /\ t \in TaskState /\ t.snapshot \in Seq(Message)
        /\ BackedBy(t.snapshot, stored) /\ BackedBy(t.remaining, stored)
    BY TurnType DEF StoredInv, TasksBacked, TaskState
  <1>3. ASSUME TasksBacked', PendingBacked'
        PROVE  StoredInv'
    BY <1>1, <1>3 DEF StoredInv, RowsOwn, HeldBacked, WrittenFirst
  <1>4. ASSUME NEW next, TaskComes(t, next), BackedBy(next.remaining, stored)
        PROVE  TasksBacked'
    BY <1>1, <1>2, <1>4 DEF TaskComes, StoredInv, TasksBacked
  <1>5. CASE Summarize(t)
    <2>1. PICK next : /\ TaskComes(t, next)
                      /\ \/ next.remaining = t.remaining
                         \/ \E split \in 1..Len(t.snapshot) :
                              next.remaining = Condensed(t.snapshot, split)
      BY <1>5, SummarizeMoves
    <2>2. BackedBy(next.remaining, stored)
      BY <1>2, <2>1, BackedCondensed
    <2>3. PendingBacked'
      BY <1>1, <1>5 DEF Summarize, StoredInv, PendingBacked
    <2> QED
      BY <1>3, <1>4, <2>1, <2>2, <2>3
  <1>6. CASE Deliver(t) \/ Drain(t) \/ Replace(t)
    <2>1. PICK next : TaskComes(t, next) /\ next.remaining = t.remaining
      BY <1>6, ResultMoves
    <2>2. pending' \in {pending, None, Result(t)} /\ Result(t).remaining = t.remaining
      BY <1>6, ResultMoves
    <2>3. PendingBacked'
      BY <1>1, <1>2, <2>2 DEF StoredInv, PendingBacked
    <2> QED
      BY <1>2, <1>3, <1>4, <2>1, <2>3
  <1>7. CASE Release(t)
    <2>1. TasksBacked' /\ PendingBacked'
      BY <1>1, <1>7 DEF Release, StoredInv, TasksBacked, PendingBacked
    <2> QED
      BY <1>3, <2>1
  <1> QED
    BY <1>5, <1>6, <1>7

LEMMA StoredStep ==
    ASSUME TypeInv, StoredInv, [Next]_vars
    PROVE  StoredInv'
  <1>1. CASE Restart
    <2>1. /\ history' = stored /\ stored' = stored /\ tasks' = {} /\ pending' = None
          /\ \A c \in Callers : turn'[c] = Idle
      BY <1>1 DEF Restart
    <2>2. BackedBy(stored, stored)
      BY DEF StoredInv, RowsOwn, BackedBy
    <2> QED
      BY <2>1, <2>2, IdleState
      DEF StoredInv, RowsOwn, TasksBacked, PendingBacked, HeldBacked, WrittenFirst
  <1>2. CASE UNCHANGED vars
    BY <1>2
    DEF vars, StoredInv, RowsOwn, TasksBacked, PendingBacked, HeldBacked, WrittenFirst
  <1> QED
    BY <1>1, <1>2, StoredCallerStep, StoredTaskStep DEF Next, TaskStep

\* The inductive invariant behind HistoryIsStored.
THEOREM StoredInvariant == Spec => []StoredInv
  <1>1. Init => StoredInv
    BY IdleState DEF Init, StoredInv, RowsOwn, TasksBacked, PendingBacked, HeldBacked,
                     WrittenFirst, BackedBy
  <1> QED
    BY <1>1, StoredStep, TypeInvariant, PTL DEF Spec

\* persistAndAppend, applyPendingSummary and GetOrCreate: what the next request shows the
\* provider is in the database, whoever writes at the same time.
THEOREM ShownIsStored == Spec => []HistoryIsStored
  <1>1. StoredInv => HistoryIsStored
    BY DEF StoredInv, BackedBy, HistoryIsStored
  <1> QED
    BY <1>1, StoredInvariant, PTL
-----------------------------------------------------------------------------
(***************************************************************************)
(* The summarization goroutine.                                            *)
(***************************************************************************)
\* Summarizing is set exactly while there is a goroutine, which is the only one.
OnlyTask == IF summarizing THEN \E t \in tasks : tasks = {t} ELSE tasks = {}

LEMMA OnlyTaskStep ==
    ASSUME OnlyTask, [Next]_vars
    PROVE  OnlyTask'
  <1>1. ASSUME NEW t \in tasks, NEW next, tasks' = (tasks \ {t}) \cup {next},
               summarizing' = summarizing
        PROVE  OnlyTask'
    <2>1. summarizing /\ tasks = {t}
      BY DEF OnlyTask
    <2>2. tasks' = {next}
      BY <1>1, <2>1
    <2> QED
      BY <1>1, <2>1, <2>2 DEF OnlyTask
  <1>2. ASSUME NEW t \in tasks, Release(t)
        PROVE  OnlyTask'
    BY <1>2 DEF OnlyTask, Release
  <1>3. ASSUME NEW t \in tasks, Summarize(t) \/ Deliver(t) \/ Drain(t) \/ Replace(t)
        PROVE  OnlyTask'
    <2>1. summarizing' = summarizing /\ \E next : tasks' = (tasks \ {t}) \cup {next}
      BY <1>3 DEF Summarize, Deliver, Drain, Replace, Step
    <2> QED
      BY <1>1, <2>1
  <1>4. ASSUME NEW c \in Callers, MaybeStartSummarization(c)
        PROVE  OnlyTask'
    <2>1. CASE UNCHANGED <<summarizing, tasks>>
      BY <2>1 DEF OnlyTask
    <2>2. CASE /\ ~ summarizing /\ summarizing' = TRUE
               /\ \E new : tasks' = tasks \cup {new}
      <3>1. tasks = {}
        BY <2>2 DEF OnlyTask
      <3>2. \E new : tasks' = {new}
        BY <2>2, <3>1
      <3>3. summarizing'
        BY <2>2
      <3> QED
        BY <3>2, <3>3 DEF OnlyTask
    <2> QED
      BY <1>4, <2>1, <2>2 DEF MaybeStartSummarization, StartOnce, summary
  <1>5. CASE UNCHANGED <<summarizing, tasks>>
    BY <1>5 DEF OnlyTask
  <1>6. CASE Restart
    BY <1>6 DEF OnlyTask, Restart
  <1> QED
    BY <1>2, <1>3, <1>4, <1>5, <1>6
    DEF Next, TaskStep, CallerStep, Send, ReconcileHistory, PersistMessage, AppendMessage,
        Chat, ChatFails, DispatchToolCalls, summary, vars

\* maybeStartSummarization: the flag that is claimed with CompareAndSwap is set exactly
\* while a goroutine summarizes.
THEOREM OnlyTaskInvariant == Spec => []OnlyTask
  <1>1. Init => OnlyTask
    BY DEF Init, OnlyTask
  <1> QED
    BY <1>1, OnlyTaskStep, PTL DEF Spec

\* maybeStartSummarization's compare-and-swap and its deferred reset: at most one goroutine
\* summarizes the conversation, and the flag says whether one does.
THEOREM SummarizersAreCounted == Spec => []OneSummarizer
  <1>1. OnlyTask => OneSummarizer
    BY FS_EmptySet, FS_Singleton DEF OnlyTask, OneSummarizer
  <1> QED
    BY <1>1, OnlyTaskInvariant, PTL
-----------------------------------------------------------------------------
(***************************************************************************)
(* What a result stands for.                                               *)
(***************************************************************************)
\* A result has the rows of its snapshot, and no more messages.
Faithful(p) ==
    Rows(p.remaining) = Rows(p.snapshot) /\ Len(p.remaining) <= Len(p.snapshot)

HasResult(t) == t.at \in {"deliver", "drain", "replace"}

FaithfulInv ==
    /\ \A t \in tasks : HasResult(t) => Faithful(t)
    /\ pending # None => Faithful(pending)
    /\ \A c \in Callers : turn[c].held # None => Faithful(turn[c].held)

\* findSplitPoint and Summarize: the rows before the split are those of the summary.
LEMMA CondensedRows ==
    ASSUME NEW h \in Seq(Message), NEW split \in 1..Len(h)
    PROVE  Rows(Condensed(h, split)) = Rows(h)
  <1> DEFINE first == <<Summary(h, split)>>
  <1>1. Len(h) \in Nat /\ split \in 0..Len(h)
    BY LenProperties
  <1>2. /\ first \in Seq(Message) /\ From(h, split) \in Seq(Message)
        /\ DOMAIN first = {1} /\ first[1].rows = Rows(SubSeq(h, 1, split))
    BY CondensedProperties
  <1> HIDE DEF first
  <1>3. Rows(first) = Rows(SubSeq(h, 1, split))
    BY <1>2 DEF Rows
  <1>4. Rows(first \o From(h, split)) = Rows(first) \cup Rows(From(h, split))
    BY <1>2, ConcatRows
  <1>5. Rows(h) = Rows(SubSeq(h, 1, split)) \cup Rows(From(h, split))
    BY <1>1, CutRows
  <1> QED
    BY <1>3, <1>4, <1>5 DEF Condensed, first

LEMMA FaithfulStep ==
    ASSUME TypeInv, FaithfulInv, [Next]_vars
    PROVE  FaithfulInv'
  <1>1. ASSUME NEW c \in Callers, NEW at, Comes(c, at), pending' \in {pending, None},
               Holds(c) => Faithful(turn'[c].held),
               \A t \in tasks' : t \in tasks \/ ~ HasResult(t)
        PROVE  FaithfulInv'
    BY <1>1 DEF FaithfulInv, Comes, Holds
  <1>2. ASSUME NEW c \in Callers, Send(c)
        PROVE  FaithfulInv'
    <2>1. pending' = None /\ tasks' = tasks
      BY <1>2 DEF Send, summary
    <2>2. Holds(c) => Faithful(turn'[c].held)
      BY <1>2, SendMoves DEF Holds, FaithfulInv
    <2> QED
      BY <1>1, <1>2, <2>1, <2>2, SendMoves
  <1>3. ASSUME NEW c \in Callers,
               ReconcileHistory(c) \/ PersistMessage(c) \/ AppendMessage(c)
                 \/ Chat(c) \/ ChatFails(c) \/ DispatchToolCalls(c)
        PROVE  FaithfulInv'
    <2>1. pending' = pending /\ tasks' = tasks
      BY <1>3 DEF ReconcileHistory, PersistMessage, AppendMessage, Chat, ChatFails,
                   DispatchToolCalls, summary
    <2>2. ~ Holds(c) /\ \E at : Comes(c, at)
      BY <1>3, ReconcileMoves, PersistMoves, AppendMoves, RoundMoves
    <2> QED
      BY <1>1, <2>1, <2>2
  <1>4. ASSUME NEW c \in Callers, MaybeStartSummarization(c)
        PROVE  FaithfulInv'
    <2>1. pending' = pending /\ ~ Holds(c) /\ Comes(c, "idle")
      BY <1>4, ReturnMoves DEF MaybeStartSummarization
    <2>2. \A t \in tasks' : t \in tasks \/ ~ HasResult(t)
      BY <1>4 DEF MaybeStartSummarization, StartOnce, summary, HasResult
    <2> QED
      BY <1>1, <2>1, <2>2
  <1>5. ASSUME NEW t \in tasks, Summarize(t)
        PROVE  FaithfulInv'
    <2>1. UNCHANGED <<turn, pending>>
      BY <1>5 DEF Summarize
    <2>2. PICK next : /\ TaskComes(t, next)
                      /\ \/ next.at = "release"
                         \/ \E split \in 1..Len(t.snapshot) :
                              next.remaining = Condensed(t.snapshot, split)
      BY <1>5, SummarizeMoves
    <2>3. next.snapshot = t.snapshot /\ t.snapshot \in Seq(Message)
      BY <2>2, TurnType DEF TaskComes, TaskState
    <2>4. HasResult(next) => Faithful(next)
      BY <2>2, <2>3, CondensedRows, CondensedProperties DEF HasResult, Faithful
    <2> QED
      BY <2>1, <2>2, <2>4 DEF FaithfulInv, TaskComes
  <1>6. ASSUME NEW t \in tasks, Deliver(t) \/ Drain(t) \/ Replace(t)
        PROVE  FaithfulInv'
    <2>1. turn' = turn /\ HasResult(t)
      BY <1>6 DEF Deliver, Drain, Replace, HasResult
    <2>2. PICK next : TaskComes(t, next) /\ next.remaining = t.remaining
      BY <1>6, ResultMoves
    <2>3. /\ pending' \in {pending, None, Result(t)}
          /\ Result(t).snapshot = t.snapshot /\ Result(t).remaining = t.remaining
      BY <1>6, ResultMoves
    <2>4. Faithful(t) /\ Faithful(next) /\ Faithful(Result(t))
      BY <2>1, <2>2, <2>3 DEF FaithfulInv, TaskComes, Faithful
    <2> QED
      BY <2>1, <2>2, <2>3, <2>4 DEF FaithfulInv, TaskComes
  <1>7. ASSUME NEW t \in tasks, Release(t)
        PROVE  FaithfulInv'
    BY <1>7 DEF Release, FaithfulInv
  <1>8. CASE Restart
    BY <1>8, IdleState DEF Restart, FaithfulInv
  <1>9. CASE UNCHANGED vars
    BY <1>9 DEF vars, FaithfulInv
  <1> QED
    BY <1>2, <1>3, <1>4, <1>5, <1>6, <1>7, <1>8, <1>9 DEF Next, TaskStep, CallerStep

\* What is summarized is neither forgotten nor made longer, wherever the result is.
THEOREM FaithfulInvariant == Spec => []FaithfulInv
  <1>1. Init => FaithfulInv
    BY IdleState DEF Init, FaithfulInv
  <1> QED
    BY <1>1, FaithfulStep, TypeInvariant, PTL DEF Spec

LEMMA PrefixRows ==
    ASSUME NEW s \in Seq(Message), NEW h \in Seq(Message), IsPrefixOf(s, h)
    PROVE  Rows(h) = Rows(s) \cup Rows(From(h, Len(s)))
  <1>1. Len(s) \in 0..Len(h) /\ SubSeq(h, 1, Len(s)) = s
    BY LenProperties DEF IsPrefixOf
  <1> QED
    BY <1>1, CutRows

\* Only applyPendingSummary takes a caller from the result it holds to its message.
LEMMA OnlyReconcileApplies ==
    ASSUME TypeInv, [Next]_vars, NEW c \in Callers, turn[c].at = "reconcile",
           turn'[c].at = "persist"
    PROVE  ReconcileHistory(c)
  <1>1. ASSUME NEW d \in Callers, Send(d) \/ CallerStep(d) \/ DispatchToolCalls(d)
        PROVE  ReconcileHistory(c)
    <2>1. \A b \in Callers \ {d} : turn'[b] = turn[b]
      BY <1>1, TurnType DEF Send, CallerStep, ReconcileHistory, PersistMessage, AppendMessage, Chat,
                            ChatFails, DispatchToolCalls, MaybeStartSummarization, Return
    <2>2. d = c
      BY <2>1
    <2> QED
      BY <1>1, <2>2 DEF Send, CallerStep, PersistMessage, AppendMessage, Chat, ChatFails,
                        DispatchToolCalls, MaybeStartSummarization
  <1>2. CASE Restart
    BY <1>2, IdleState DEF Restart
  <1>3. CASE UNCHANGED turn
    BY <1>3
  <1> QED
    BY <1>1, <1>2, <1>3
    DEF Next, TaskStep, Summarize, Deliver, Drain, Replace, Release, vars

\* ReconcileHistory: a result applied to a history that has only grown since its snapshot
\* keeps every message, whoever has added them.
THEOREM ReconcileKeepsAll == Spec => AppendOnlyLosesNothing
  <1>1. ASSUME TypeInv, FaithfulInv, [Next]_vars, NEW c \in Callers,
               turn[c].at = "reconcile", turn'[c].at = "persist",
               IsPrefixOf(turn[c].held.snapshot, history)
        PROVE  Rows(history) \subseteq Rows(history')
    <2> DEFINE p == turn[c].held
    <2>1. ReconcileHistory(c)
      BY <1>1, OnlyReconcileApplies
    <2>2. /\ p.snapshot \in Seq(Message) /\ p.remaining \in Seq(Message)
          /\ \/ history' = history
             \/ history' = p.remaining \o From(history, Len(p.snapshot))
      BY <1>1, <2>1, ReconcileMerges
    <2>3. Rows(p.remaining) = Rows(p.snapshot)
      BY <1>1 DEF TypeInv, HeldToApply, FaithfulInv, Faithful
    <2>4. IsPrefixOf(p.snapshot, history)
      BY <1>1
    <2>5. history \in Seq(Message) /\ Len(p.snapshot) \in Nat
      BY <1>1, <2>2, TurnType, LenProperties
    <2> HIDE DEF p
    <2>6. Rows(history) = Rows(p.snapshot) \cup Rows(From(history, Len(p.snapshot)))
      BY <2>2, <2>4, <2>5, PrefixRows
    <2>7. Rows(p.remaining \o From(history, Len(p.snapshot)))
            = Rows(p.remaining) \cup Rows(From(history, Len(p.snapshot)))
      BY <2>2, <2>5, FromProperties, ConcatRows
    <2> QED
      BY <2>2, <2>3, <2>6, <2>7
  <1>2. TypeInv /\ FaithfulInv /\ [Next]_vars =>
          [\A c \in Callers :
             /\ turn[c].at = "reconcile"
             /\ turn'[c].at = "persist"
             /\ IsPrefixOf(turn[c].held.snapshot, history)
             => Rows(history) \subseteq Rows(history')]_vars
    BY <1>1
  <1> QED
    BY <1>2, TypeInvariant, FaithfulInvariant, PTL DEF Spec, AppendOnlyLosesNothing
-----------------------------------------------------------------------------
(***************************************************************************)
(* Each message once, in a session with one caller.                        *)
(***************************************************************************)
\* EachMessageOnce for any history.
Distinct(h) == \A i, j \in DOMAIN h : i # j => h[i].rows \cap h[j].rows = {}

\* Beyond the length of a snapshot the history has nothing that the snapshot has: it was
\* added later, even when another result has shortened the history meanwhile.
Past(snapshot) ==
    \A i \in DOMAIN history : i > Len(snapshot) => history[i].rows \cap Rows(snapshot) = {}

Active(t) == t.at # "release"

DistinctTasks ==
    \A t \in tasks : /\ t.at = "summarize" => Distinct(t.snapshot)
                     /\ HasResult(t) => Distinct(t.remaining)
                     /\ Active(t) => Past(t.snapshot)

DistinctPending == pending # None => Distinct(pending.remaining) /\ Past(pending.snapshot)

DistinctHeld(c) ==
    turn[c].held # None => Distinct(turn[c].held.remaining) /\ Past(turn[c].held.snapshot)

\* A row that has been written and is not shown yet is in no history.
NotYetShown(c) ==
    turn[c].at = "append" =>
      /\ turn[c].row \notin Rows(history)
      /\ \A t \in tasks : Active(t) => turn[c].row \notin Rows(t.snapshot)
      /\ pending # None => turn[c].row \notin Rows(pending.snapshot)

\* A result that waits or is about to be applied while a later one is being made was there
\* before the turn ended: nothing has been added since the later snapshot.
InTurn(c) ==
    /\ \A t \in tasks : Active(t) =>
         /\ pending # None => turn[c].at = "idle" /\ history = t.snapshot
         /\ turn[c].held # None => history = t.snapshot
    /\ turn[c].held # None /\ pending # None => history = pending.snapshot

OnceInv(c) ==
    /\ Distinct(history)
    /\ DistinctTasks
    /\ DistinctPending
    /\ DistinctHeld(c)
    /\ NotYetShown(c)
    /\ InTurn(c)
-----------------------------------------------------------------------------
LEMMA DistinctConcat ==
    ASSUME NEW s \in Seq(Message), NEW t \in Seq(Message),
           Distinct(s), Distinct(t), Rows(s) \cap Rows(t) = {}
    PROVE  Distinct(s \o t)
  <1> DEFINE h == s \o t
  <1>1. /\ Len(s) \in Nat
        /\ DOMAIN s \subseteq Nat /\ DOMAIN t \subseteq Nat /\ DOMAIN h \subseteq Nat
    BY ConcatParts, LenProperties
  <1>2. ASSUME NEW i \in DOMAIN h
        PROVE  \/ i \in DOMAIN s /\ h[i] = s[i]
               \/ i - Len(s) \in DOMAIN t /\ h[i] = t[i - Len(s)]
    BY ConcatParts
  <1> HIDE DEF h
  <1>3. ASSUME NEW i \in DOMAIN h, NEW j \in DOMAIN h, i # j
        PROVE  h[i].rows \cap h[j].rows = {}
    <2>1. CASE i \in DOMAIN s /\ h[i] = s[i] /\ j \in DOMAIN s /\ h[j] = s[j]
      BY <1>3, <2>1 DEF Distinct
    <2>2. CASE i - Len(s) \in DOMAIN t /\ h[i] = t[i - Len(s)]
               /\ j - Len(s) \in DOMAIN t /\ h[j] = t[j - Len(s)]
      <3>1. i - Len(s) # j - Len(s)
        BY <1>1, <1>3
      <3> QED
        BY <2>2, <3>1 DEF Distinct
    <2>3. ASSUME NEW a \in DOMAIN s, NEW b \in DOMAIN t
          PROVE  s[a].rows \cap t[b].rows = {}
      BY DEF Rows
    <2> QED
      BY <1>2, <2>1, <2>2, <2>3
  <1> QED
    BY <1>3 DEF Distinct, h

LEMMA DistinctFrom ==
    ASSUME NEW h \in Seq(Message), NEW k \in Nat, Distinct(h)
    PROVE  Distinct(From(h, k))
  <1> DEFINE g == From(h, k)
  <1>1. DOMAIN g \subseteq Nat
    <2>1. g \in Seq(Message)
      BY FromProperties
    <2>2. DOMAIN g = 1..Len(g) /\ Len(g) \in Nat
      BY <2>1, LenProperties
    <2> QED
      BY <2>2
  <1>2. \A i \in DOMAIN g : k + i \in DOMAIN h /\ g[i] = h[k + i]
    BY FromProperties
  <1> HIDE DEF g
  <1>3. ASSUME NEW i \in DOMAIN g, NEW j \in DOMAIN g, i # j
        PROVE  g[i].rows \cap g[j].rows = {}
    <2>1. k + i # k + j
      BY <1>1, <1>3
    <2> QED
      BY <1>2, <2>1 DEF Distinct
  <1> QED
    BY <1>3 DEF Distinct, g

LEMMA DistinctSplit ==
    ASSUME NEW h \in Seq(Message), NEW k \in 0..Len(h), Distinct(h)
    PROVE  Rows(SubSeq(h, 1, k)) \cap Rows(From(h, k)) = {}
  <1>1. /\ Len(h) \in Nat /\ DOMAIN h = 1..Len(h) /\ k \in Nat
        /\ From(h, k) \in Seq(Message)
    BY LenProperties, FromProperties
  <1>2. ASSUME NEW x \in Rows(SubSeq(h, 1, k)), x \in Rows(From(h, k))
        PROVE  FALSE
    <2>1. PICK i \in DOMAIN SubSeq(h, 1, k) : x \in SubSeq(h, 1, k)[i].rows
      BY <1>2, RowOf
    <2>2. i \in 1..k /\ x \in h[i].rows
      BY <2>1, UpToProperties
    <2>3. PICK j \in DOMAIN From(h, k) : x \in From(h, k)[j].rows
      BY <1>2, RowOf
    <2>4. k + j \in DOMAIN h /\ x \in h[k + j].rows
      BY <1>1, <2>3, FromProperties
    <2>5. j \in Nat /\ j >= 1
      <3>1. DOMAIN From(h, k) = 1..Len(From(h, k)) /\ Len(From(h, k)) \in Nat
        BY <1>1, LenProperties
      <3> QED
        BY <2>3, <3>1
    <2>6. i \in DOMAIN h /\ i # k + j
      BY <1>1, <2>2, <2>5
    <2> QED
      BY <2>2, <2>4, <2>6 DEF Distinct
  <1> QED
    BY <1>2

LEMMA DistinctAppend ==
    ASSUME NEW h \in Seq(Message), NEW m \in Message, Distinct(h), m.rows \cap Rows(h) = {}
    PROVE  Distinct(Append(h, m))
  <1> DEFINE g == Append(h, m)
             n == Len(h) + 1
  <1>1. /\ DOMAIN g = DOMAIN h \cup {n} /\ n \notin DOMAIN h
        /\ \A i \in DOMAIN h : g[i] = h[i]
        /\ g[n] = m
    BY AppendParts
  <1>2. \A i \in DOMAIN h : h[i].rows \cap m.rows = {}
    BY DEF Rows
  <1> HIDE DEF g, n
  <1>3. Distinct(g)
    BY <1>1, <1>2 DEF Distinct
  <1> QED
    BY <1>3 DEF g

\* Summarize: the messages after the split are none of those in the summary.
LEMMA DistinctCondensed ==
    ASSUME NEW h \in Seq(Message), NEW split \in 1..Len(h), Distinct(h)
    PROVE  Distinct(Condensed(h, split))
  <1> DEFINE first == <<Summary(h, split)>>
  <1>1. Len(h) \in Nat /\ split \in 0..Len(h) /\ split \in Nat
    BY LenProperties
  <1>2. /\ first \in Seq(Message) /\ From(h, split) \in Seq(Message)
        /\ DOMAIN first = {1} /\ first[1].rows = Rows(SubSeq(h, 1, split))
    BY CondensedProperties
  <1> HIDE DEF first
  <1>3. Distinct(first) /\ Rows(first) = Rows(SubSeq(h, 1, split))
    BY <1>2 DEF Distinct, Rows
  <1>4. Distinct(From(h, split)) /\ Rows(first) \cap Rows(From(h, split)) = {}
    BY <1>1, <1>3, DistinctFrom, DistinctSplit
  <1>5. Distinct(first \o From(h, split))
    BY <1>2, <1>3, <1>4, DistinctConcat
  <1> QED
    BY <1>5 DEF Condensed, first

\* ReconcileHistory: a result that applies brings back nothing that is still there.
LEMMA DistinctMerge ==
    ASSUME NEW h \in Seq(Message), NEW s \in Seq(Message), NEW r \in Seq(Message),
           Distinct(h), Distinct(r), Rows(r) = Rows(s), Len(r) <= Len(s), Len(s) <= Len(h),
           \A i \in DOMAIN h : i > Len(s) => h[i].rows \cap Rows(s) = {}
    PROVE  /\ Distinct(r \o From(h, Len(s)))
           /\ r \o From(h, Len(s)) \in Seq(Message)
           /\ Len(r \o From(h, Len(s))) <= Len(h)
  <1> DEFINE n == Len(s)
             g == From(h, n)
  <1>1. /\ n \in Nat /\ Len(h) \in Nat /\ Len(r) \in Nat /\ Len(r) <= n /\ n <= Len(h)
    BY LenProperties
  <1>2. /\ g \in Seq(Message) /\ Len(g) = Len(h) - n
        /\ \A i \in DOMAIN g : n + i \in DOMAIN h /\ g[i] = h[n + i]
    BY <1>1, FromProperties
  <1>3. Distinct(g)
    BY <1>1, DistinctFrom
  <1>4. Rows(r) \cap Rows(g) = {}
    <2>1. ASSUME NEW x \in Rows(r), x \in Rows(g)
          PROVE  FALSE
      <3>1. PICK i \in DOMAIN g : x \in g[i].rows
        BY <2>1, RowOf
      <3>2. n + i \in DOMAIN h /\ x \in h[n + i].rows
        BY <1>2, <3>1
      <3>3. i \in Nat /\ i >= 1
        BY <1>2, LenProperties
      <3>4. n + i > n
        BY <1>1, <3>3
      <3>5. x \in Rows(s)
        BY <2>1
      <3> QED
        BY <3>2, <3>4, <3>5
    <2> QED
      BY <2>1
  <1> HIDE DEF n, g
  <1>5. /\ r \o g \in Seq(Message) /\ Len(r \o g) = Len(r) + Len(g)
        /\ Distinct(r \o g)
    BY <1>2, <1>3, <1>4, ConcatParts, DistinctConcat
  <1>6. Len(r \o g) <= Len(h)
    BY <1>1, <1>2, <1>5
  <1> QED
    BY <1>5, <1>6 DEF n, g
-----------------------------------------------------------------------------
\* A history no longer than a snapshot has nothing beyond it.
LEMMA ShorterIsPast ==
    ASSUME NEW h \in Seq(Message), NEW n \in Nat, Len(h) <= n
    PROVE  \A i \in DOMAIN h : ~ i > n
  <1>1. DOMAIN h = 1..Len(h) /\ Len(h) \in Nat
    BY LenProperties
  <1> QED
    BY <1>1

LEMMA AllRowsStored ==
    ASSUME NEW h, NEW rows, BackedBy(h, rows)
    PROVE  Rows(h) \subseteq DOMAIN rows
  <1>1. ASSUME NEW x \in Rows(h)
        PROVE  x \in DOMAIN rows
    <2>1. PICK i \in DOMAIN h : x \in h[i].rows
      BY <1>1, RowOf
    <2> QED
      BY <2>1 DEF BackedBy
  <1> QED
    BY <1>1

\* The caller's steps that leave the history, the results and the task alone.
LEMMA OnceFrame ==
    ASSUME NEW c, OnceInv(c), UNCHANGED <<history, tasks, pending>>, turn[c].at # "idle",
           turn'[c].held = None, NotYetShown(c)'
    PROVE  OnceInv(c)'
  <1>1. Distinct(history)' /\ DistinctTasks' /\ DistinctPending' /\ DistinctHeld(c)'
    BY DEF OnceInv, DistinctTasks, DistinctPending, DistinctHeld, Past
  <1>2. InTurn(c)'
    BY DEF OnceInv, InTurn
  <1> QED
    BY <1>1, <1>2 DEF OnceInv

LEMMA OnceSend ==
    ASSUME TypeInv, NEW c \in Callers, OnceInv(c), Send(c)
    PROVE  OnceInv(c)'
  <1>1. /\ UNCHANGED <<history, tasks>> /\ pending' = None /\ turn'[c].held = pending
        /\ turn'[c].at # "append"
    BY SendMoves DEF Send, summary, Comes
  <1>2. Distinct(history)' /\ DistinctTasks'
    BY <1>1 DEF OnceInv, DistinctTasks, Past
  <1>3. DistinctPending' /\ DistinctHeld(c)' /\ NotYetShown(c)'
    BY <1>1 DEF OnceInv, DistinctPending, DistinctHeld, NotYetShown, Past
  <1>4. InTurn(c)'
    BY <1>1 DEF OnceInv, InTurn
  <1> QED
    BY <1>2, <1>3, <1>4 DEF OnceInv

LEMMA OnceReconcile ==
    ASSUME TypeInv, FaithfulInv, NEW c \in Callers, OnceInv(c), ReconcileHistory(c)
    PROVE  OnceInv(c)'
  <1> DEFINE p == turn[c].held
  <1>1. /\ UNCHANGED <<tasks, pending>> /\ turn[c].at = "reconcile"
        /\ turn'[c].at = "persist" /\ turn'[c].held = None
    BY ReconcileMoves DEF ReconcileHistory, summary, Comes, Holds
  <1>2. /\ p # None /\ Faithful(p) /\ Distinct(p.remaining) /\ Past(p.snapshot)
        /\ history \in Seq(Message) /\ Distinct(history)
    BY <1>1, TurnType
    DEF TypeInv, HeldToApply, FaithfulInv, OnceInv, DistinctHeld
  <1>3. /\ p.snapshot \in Seq(Message) /\ p.remaining \in Seq(Message)
        /\ \/ history' = history
           \/ /\ Len(p.snapshot) <= Len(history)
              /\ history' = p.remaining \o From(history, Len(p.snapshot))
        /\ history' \in Seq(Message)
    BY ReconcileMerges
  <1> HIDE DEF p
  <1>4. Distinct(history') /\ Len(history') <= Len(history)
    <2>1. CASE history' = history
      <3>1. Len(history) \in Nat
        BY <1>2, LenProperties
      <3> QED
        BY <1>2, <2>1, <3>1
    <2>2. CASE /\ Len(p.snapshot) <= Len(history)
               /\ history' = p.remaining \o From(history, Len(p.snapshot))
      <3>1. Rows(p.remaining) = Rows(p.snapshot) /\ Len(p.remaining) <= Len(p.snapshot)
        BY <1>2 DEF Faithful
      <3>2. \A i \in DOMAIN history :
              i > Len(p.snapshot) => history[i].rows \cap Rows(p.snapshot) = {}
        BY <1>2 DEF Past
      <3> QED
        BY <1>2, <1>3, <2>2, <3>1, <3>2, DistinctMerge
    <2> QED
      BY <1>3, <2>1, <2>2
  <1>5. \A i \in DOMAIN history' : ~ i > Len(history)
    <2>1. Len(history) \in Nat
      BY <1>2, LenProperties
    <2> QED
      BY <1>3, <1>4, <2>1, ShorterIsPast
  <1>6. \A t \in tasks : Active(t) => history = t.snapshot /\ pending = None
    BY <1>1, <1>2 DEF OnceInv, InTurn, p
  <1>7. pending # None => history = pending.snapshot
    BY <1>1, <1>2 DEF OnceInv, InTurn, p
  <1>8. DistinctTasks'
    BY <1>1, <1>5, <1>6 DEF OnceInv, DistinctTasks, Past
  <1>9. DistinctPending'
    BY <1>1, <1>5, <1>7 DEF OnceInv, DistinctPending, Past
  <1>10. DistinctHeld(c)' /\ NotYetShown(c)'
    BY <1>1 DEF DistinctHeld, NotYetShown
  <1>11. InTurn(c)'
    BY <1>1, <1>6 DEF InTurn
  <1> QED
    BY <1>4, <1>8, <1>9, <1>10, <1>11 DEF OnceInv

LEMMA OncePersist ==
    ASSUME TypeInv, StoredInv, FaithfulInv, NEW c \in Callers, OnceInv(c), PersistMessage(c)
    PROVE  OnceInv(c)'
  <1>1. /\ UNCHANGED <<history, tasks, pending>> /\ turn[c].at = "persist"
        /\ turn'[c].held = None
        /\ turn'[c].at = "append" => turn'[c].row = NextRow
    BY PersistMoves DEF PersistMessage, summary, Comes, Holds
  <1>2. NextRow \notin DOMAIN stored
    <2>1. Len(stored) \in Nat /\ DOMAIN stored = 1..Len(stored)
      BY TurnType, LenProperties
    <2> QED
      BY <2>1 DEF NextRow
  <1>3. NextRow \notin Rows(history)
    BY <1>2, AllRowsStored DEF StoredInv
  <1>4. \A t \in tasks : NextRow \notin Rows(t.snapshot)
    BY <1>2, AllRowsStored DEF StoredInv, TasksBacked
  <1>5. pending # None => NextRow \notin Rows(pending.snapshot)
    BY <1>2, AllRowsStored DEF StoredInv, PendingBacked, FaithfulInv, Faithful
  <1>6. NotYetShown(c)'
    BY <1>1, <1>3, <1>4, <1>5 DEF NotYetShown
  <1> QED
    BY <1>1, <1>6, OnceFrame

LEMMA OnceAppend ==
    ASSUME TypeInv, NEW c \in Callers, OnceInv(c), AppendMessage(c)
    PROVE  OnceInv(c)'
  <1> DEFINE m == Draft(turn[c].role, turn[c].calls, {turn[c].row})
  <1>1. /\ UNCHANGED <<tasks, pending>> /\ turn[c].at = "append"
        /\ turn'[c].at # "append" /\ turn'[c].held = None
    BY AppendMoves DEF AppendMessage, summary, Comes, Holds
  <1>2. /\ m \in Message /\ m.rows = {turn[c].row} /\ history' = Append(history, m)
        /\ history \in Seq(Message)
    BY AppendedMessage, TurnType
  <1> HIDE DEF m
  <1>3. Distinct(history')
    <2>1. m.rows \cap Rows(history) = {} /\ Distinct(history)
      BY <1>1, <1>2 DEF OnceInv, NotYetShown
    <2> QED
      BY <1>2, <2>1, DistinctAppend
  <1>4. ASSUME NEW rows, turn[c].row \notin rows, NEW n,
               \A i \in DOMAIN history : i > n => history[i].rows \cap rows = {}
        PROVE  \A i \in DOMAIN history' : i > n => history'[i].rows \cap rows = {}
    <2> DEFINE g == Append(history, m)
               k == Len(history) + 1
    <2>1. /\ DOMAIN g = DOMAIN history \cup {k}
          /\ \A i \in DOMAIN history : g[i] = history[i]
          /\ g[k] = m
      BY <1>2, AppendParts
    <2> HIDE DEF k, g
    <2>2. \A i \in DOMAIN g : i > n => g[i].rows \cap rows = {}
      BY <1>2, <1>4, <2>1
    <2> QED
      BY <1>2, <2>2 DEF g
  <1>5. DistinctTasks'
    BY <1>1, <1>4 DEF OnceInv, NotYetShown, DistinctTasks, Past
  <1>6. DistinctPending'
    BY <1>1, <1>4 DEF OnceInv, NotYetShown, DistinctPending, Past
  <1>7. DistinctHeld(c)' /\ NotYetShown(c)' /\ InTurn(c)'
    BY <1>1 DEF OnceInv, DistinctHeld, NotYetShown, InTurn
  <1> QED
    BY <1>3, <1>5, <1>6, <1>7 DEF OnceInv

LEMMA OnceStart ==
    ASSUME TypeInv, OnlyTask, NEW c \in Callers, OnceInv(c), MaybeStartSummarization(c)
    PROVE  OnceInv(c)'
  <1>1. /\ UNCHANGED <<history, pending>> /\ turn[c].at = "complete"
        /\ turn'[c].at = "idle" /\ turn'[c].held = None
    BY ReturnMoves DEF MaybeStartSummarization, Comes, Holds
  <1>2. CASE UNCHANGED tasks
    BY <1>1, <1>2, OnceFrame DEF NotYetShown
  <1> DEFINE new == [at |-> "summarize", snapshot |-> history, remaining |-> <<>>]
  <1>3. CASE tasks' = {new}
    <2>1. new.at = "summarize" /\ new.snapshot = history
      OBVIOUS
    <2> HIDE DEF new
    <2>2. Past(history) /\ history \in Seq(Message)
      <3>1. history \in Seq(Message) /\ Len(history) \in Nat
        BY TurnType, LenProperties
      <3>2. Len(history) <= Len(history)
        BY <3>1
      <3> QED
        BY <3>1, <3>2, ShorterIsPast DEF Past
    <2>3. Distinct(history)' /\ DistinctPending' /\ DistinctHeld(c)' /\ NotYetShown(c)'
      BY <1>1 DEF OnceInv, DistinctPending, DistinctHeld, NotYetShown, Past
    <2>4. DistinctTasks'
      BY <1>1, <1>3, <2>1, <2>2 DEF OnceInv, DistinctTasks, HasResult, Past
    <2>5. InTurn(c)'
      BY <1>1, <1>3, <2>1 DEF InTurn
    <2> QED
      BY <2>3, <2>4, <2>5 DEF OnceInv
  <1> QED
    BY <1>2, <1>3 DEF MaybeStartSummarization, StartOnce, summary, OnlyTask

\* The steps of the goroutine that has an active task.
LEMMA OnceTaskFrame ==
    ASSUME NEW c, OnceInv(c), NEW t \in tasks, Active(t), UNCHANGED <<history, turn>>,
           NEW next, tasks' = {next}, next.snapshot = t.snapshot,
           next.at # "summarize", HasResult(next) => Distinct(next.remaining),
           DistinctPending', 
           pending' # None =>
             pending'.snapshot = t.snapshot \/ pending' = pending,
           Active(next) => pending' \in {pending, None}
    PROVE  OnceInv(c)'
  <1>1. Distinct(history)' /\ DistinctHeld(c)' /\ DistinctPending'
    BY DEF OnceInv, DistinctHeld, Past
  <1>2. DistinctTasks'
    BY DEF OnceInv, DistinctTasks, Past
  <1>3. NotYetShown(c)'
    BY DEF OnceInv, NotYetShown
  <1>4. InTurn(c)'
    BY DEF OnceInv, InTurn
  <1> QED
    BY <1>1, <1>2, <1>3, <1>4 DEF OnceInv

LEMMA OnceTaskStep ==
    ASSUME TypeInv, OnlyTask, NEW c \in Callers, OnceInv(c), NEW t \in tasks,
           Summarize(t) \/ Deliver(t) \/ Drain(t) \/ Replace(t) \/ Release(t)
    PROVE  OnceInv(c)'
  <1>1. UNCHANGED <<history, turn>> /\ tasks = {t}
    BY DEF OnlyTask, Summarize, Deliver, Drain, Replace, Release
  <1>2. t.snapshot \in Seq(Message) /\ t \in TaskState
    BY TurnType DEF TaskState
  <1>3. CASE Summarize(t)
    <2>1. PICK next : /\ TaskComes(t, next)
                      /\ \/ next.at = "release"
                         \/ /\ next.at = "deliver"
                            /\ \E split \in 1..Len(t.snapshot) :
                                 next.remaining = Condensed(t.snapshot, split)
      BY <1>3, SummarizeMoves
    <2>2. tasks' = {next} /\ next.snapshot = t.snapshot
      BY <1>1, <2>1 DEF TaskComes
    <2>3. t.at = "summarize" /\ Active(t) /\ Distinct(t.snapshot) /\ pending' = pending
      BY <1>3 DEF Summarize, Active, OnceInv, DistinctTasks
    <2>4. HasResult(next) => Distinct(next.remaining)
      BY <1>2, <2>1, <2>3, DistinctCondensed DEF HasResult
    <2>5. DistinctPending'
      BY <1>1, <2>3 DEF OnceInv, DistinctPending, Past
    <2> QED
      BY <1>1, <2>1, <2>2, <2>3, <2>4, <2>5, OnceTaskFrame
  <1>4. CASE Deliver(t) \/ Drain(t) \/ Replace(t)
    <2>1. PICK next : /\ TaskComes(t, next)
                      /\ next.remaining = t.remaining
                      /\ \/ next.at \in {"drain", "replace"} /\ pending' \in {pending, None}
                         \/ next.at = "release" /\ pending' \in {pending, Result(t)}
      BY <1>4, ResultMoves
    <2>2. Result(t).snapshot = t.snapshot /\ Result(t).remaining = t.remaining
      BY <1>4, ResultMoves
    <2>3. tasks' = {next} /\ next.snapshot = t.snapshot
      BY <1>1, <2>1 DEF TaskComes
    <2>4. Active(t) /\ Distinct(t.remaining) /\ Past(t.snapshot)
      BY <1>4 DEF Deliver, Drain, Replace, Active, HasResult, OnceInv, DistinctTasks
    <2>5. DistinctPending'
      BY <1>1, <2>1, <2>2, <2>4 DEF OnceInv, DistinctPending, Past
    <2>6. Active(next) => pending' \in {pending, None}
      BY <2>1 DEF Active
    <2>7. pending' # None => pending'.snapshot = t.snapshot \/ pending' = pending
      BY <2>1, <2>2
    <2> QED
      BY <1>1, <2>1, <2>3, <2>4, <2>5, <2>6, <2>7, OnceTaskFrame
  <1>5. CASE Release(t)
    <2>1. tasks' = {} /\ pending' = pending
      BY <1>1, <1>5 DEF Release
    <2> QED
      BY <1>1, <2>1
      DEF OnceInv, DistinctTasks, DistinctPending, DistinctHeld, NotYetShown, InTurn, Past
  <1> QED
    BY <1>3, <1>4, <1>5

LEMMA OnceStep ==
    ASSUME TypeInv, StoredInv, FaithfulInv, OnlyTask, NEW c, Callers = {c}, OnceInv(c),
           [Next]_vars
    PROVE  OnceInv(c)'
  <1>1. CASE \E d \in Callers : Send(d) \/ CallerStep(d) \/ DispatchToolCalls(d)
    <2>1. Send(c) \/ CallerStep(c) \/ DispatchToolCalls(c)
      BY <1>1
    <2>2. CASE Chat(c) \/ ChatFails(c) \/ DispatchToolCalls(c)
      <3>1. /\ UNCHANGED <<history, tasks, pending>> /\ turn[c].at \in {"chat", "tools"}
            /\ turn'[c].at # "append" /\ turn'[c].held = None
        BY <2>2, RoundMoves DEF Chat, ChatFails, DispatchToolCalls, summary, Comes, Holds
      <3> QED
        BY <3>1, OnceFrame DEF NotYetShown
    <2> QED
      BY <2>1, <2>2, OnceSend, OnceReconcile, OncePersist, OnceAppend, OnceStart DEF CallerStep
  <1>2. CASE TaskStep
    BY <1>2, OnceTaskStep DEF TaskStep
  <1>3. CASE Restart
    <2>1. /\ history' = stored /\ tasks' = {} /\ pending' = None /\ turn'[c] = Idle
      BY <1>3 DEF Restart
    <2>2. Distinct(stored)
      BY DEF StoredInv, RowsOwn, Distinct
    <2> QED
      BY <2>1, <2>2, IdleState
      DEF OnceInv, DistinctTasks, DistinctPending, DistinctHeld, NotYetShown, InTurn
  <1>4. CASE UNCHANGED vars
    BY <1>4
    DEF vars, OnceInv, DistinctTasks, DistinctPending, DistinctHeld, NotYetShown, InTurn, Past
  <1> QED
    BY <1>1, <1>2, <1>3, <1>4 DEF Next

\* In a session that one caller at a time uses, a result that is applied after another one
\* has shortened the history brings back nothing that is still there: applyPendingSummary
\* shows the provider no message twice.
THEOREM OneCallerShowsOnce ==
    ASSUME NEW c, Callers = {c}
    PROVE  Spec => []EachMessageOnce
  <1>1. Init => OnceInv(c)
    BY IdleState
    DEF Init, OnceInv, Distinct, DistinctTasks, DistinctPending, DistinctHeld, NotYetShown, InTurn
  <1>2. TypeInv /\ StoredInv /\ FaithfulInv /\ OnlyTask /\ OnceInv(c) /\ [Next]_vars
          => OnceInv(c)'
    BY OnceStep
  <1>3. OnceInv(c) => EachMessageOnce
    BY DEF OnceInv, Distinct, EachMessageOnce
  <1> QED
    BY <1>1, <1>2, <1>3, TypeInvariant, StoredInvariant, FaithfulInvariant, OnlyTaskInvariant,
       PTL DEF Spec
-----------------------------------------------------------------------------
(***************************************************************************)
(* The safety part of TurnsEnd: the steps of a call, and those of the      *)
(* summarization, are numbered downwards, whatever the others do.          *)
(***************************************************************************)
\* Messages a call is still to write before it asks the provider again; a wait for the
\* tools counts as one.
ToWrite(t) ==
    CASE t.role = "user"      -> 1
      [] t.role = "assistant" -> t.calls + 2
      [] OTHER                -> t.owed

\* Steps from one request to the provider to the next.
RoundSteps == 2 * MaxCalls + 5

\* A bound on the steps of a call that are left.
StepsLeft(t) ==
    CASE t.at = "reconcile" -> t.left * RoundSteps + 2 * ToWrite(t) + 3
      [] t.at = "persist"   -> t.left * RoundSteps + 2 * ToWrite(t) + 2
      [] t.at = "append"    -> t.left * RoundSteps + 2 * ToWrite(t) + 1
      [] t.at = "tools"     -> t.left * RoundSteps + 2 * ToWrite(t) + 3
      [] t.at = "chat"      -> t.left * RoundSteps + 2
      [] t.at = "complete"  -> 1
      [] OTHER              -> 0

\* A step leaves a call alone or brings it closer to its end.
TurnsAdvance ==
    \A c \in Callers :
      \/ turn'[c] = turn[c]
      \/ StepsLeft(turn'[c]) < StepsLeft(turn[c])
      \/ turn[c].at = "idle" /\ StepsLeft(turn'[c]) <= (MaxToolRounds + 1) * RoundSteps + 5

Stages == <<"summarize", "deliver", "drain", "replace", "release">>

\* The goroutine goes on to a later stage, or ends.
SummaryAdvances ==
    \A t \in tasks :
      \/ t \in tasks'
      \/ tasks' = {}
      \/ \E u \in tasks', i, j \in 1..5 : i < j /\ t.at = Stages[i] /\ u.at = Stages[j]

\* Between draining the stale result and sending its own the goroutine finds the channel
\* empty.
ResultIsDelivered == \A t \in tasks : t.at = "replace" => pending = None

\* A round is paid for out of the rounds that are left.
LEMMA RoundIsCounted ==
    /\ RoundSteps \in Nat
    /\ \A left \in Nat : left * RoundSteps \in Nat
    /\ \A left \in Nat \ {0} : left * RoundSteps = (left - 1) * RoundSteps + RoundSteps
  <1>1. RoundSteps \in Nat
    BY BoundsAssumption DEF RoundSteps
  <1> QED
    BY <1>1

\* What the count is made of is a number.
LEMMA StepsAreCounted ==
    ASSUME NEW t \in TurnState
    PROVE  /\ t.calls \in Nat /\ t.owed \in Nat /\ t.left \in Nat
           /\ ToWrite(t) \in Nat
           /\ t.left * RoundSteps \in Nat
           /\ StepsLeft(t) \in Nat
  <1>1. /\ t.calls \in Nat /\ t.owed \in Nat /\ t.left \in Nat
    BY BoundsAssumption DEF TurnState
  <1>2. ToWrite(t) \in Nat
    BY <1>1 DEF ToWrite
  <1>3. t.left * RoundSteps \in Nat
    BY <1>1, RoundIsCounted
  <1> QED
    BY <1>1, <1>2, <1>3 DEF StepsLeft

\* A call begins with its rounds ahead of it.
LEMMA SendCounts ==
    ASSUME TypeInv, NEW c \in Callers, Send(c)
    PROVE  StepsLeft(turn'[c]) <= (MaxToolRounds + 1) * RoundSteps + 5
  <1>1. PICK rounds \in {MaxToolRounds, MaxToolRounds + 1},
             at \in {"persist", "reconcile"} :
          turn' = [turn EXCEPT ![c] = [Idle EXCEPT !.at = at, !.left = rounds, !.held = pending]]
    BY DEF Send
  <1> DEFINE t == turn'[c]
  <1>2. /\ t.at = at /\ t.left = rounds /\ t.role = "user"
    BY <1>1, TurnType DEF Idle
  <1> HIDE DEF t
  <1>3. StepsLeft(t) <= rounds * RoundSteps + 5
    <2>1. rounds * RoundSteps \in Nat
      BY BoundsAssumption, RoundIsCounted
    <2> QED
      BY <1>2, <2>1 DEF StepsLeft, ToWrite
  <1>4. rounds * RoundSteps <= (MaxToolRounds + 1) * RoundSteps
    <2> DEFINE most == MaxToolRounds + 1
    <2>1. most \in Nat \ {0} /\ most - 1 = MaxToolRounds /\ rounds \in {most - 1, most}
      BY BoundsAssumption
    <2> HIDE DEF most
    <2>2. most * RoundSteps = (most - 1) * RoundSteps + RoundSteps
      BY <2>1, RoundIsCounted
    <2>3. (most - 1) * RoundSteps \in Nat /\ RoundSteps \in Nat
      BY <2>1, BoundsAssumption, RoundIsCounted
    <2>4. rounds * RoundSteps <= most * RoundSteps
      BY <2>1, <2>2, <2>3
    <2> QED
      BY <2>4 DEF most
  <1>5. /\ rounds * RoundSteps \in Nat /\ (MaxToolRounds + 1) * RoundSteps \in Nat
        /\ StepsLeft(t) \in Nat
    <2>1. t \in TurnState
      BY SendMoves DEF Comes, t
    <2> QED
      BY <2>1, BoundsAssumption, RoundIsCounted, StepsAreCounted
  <1> QED
    BY <1>3, <1>4, <1>5 DEF t

\* A message that is appended was still to be written.
LEMMA AppendCounts ==
    ASSUME TypeInv, NEW c \in Callers, AppendMessage(c)
    PROVE  StepsLeft(turn'[c]) < StepsLeft(turn[c])
  <1> DEFINE t == turn[c]
             u == turn'[c]
  <1>1. /\ t \in TurnState /\ t.at = "append"
        /\ t.role \in {"user", "assistant"} \/ (t.role = "tool" /\ t.owed > 0)
    BY TurnType DEF AppendMessage, TypeInv, OwesResults
  <1>2. /\ u.at = IF t.role = "assistant" /\ t.calls = 0 THEN "complete"
                  ELSE IF t.role = "assistant" THEN "tools"
                  ELSE IF t.role = "user" \/ t.owed = 1 THEN "chat"
                  ELSE "persist"
        /\ u.role = "tool" /\ u.left = t.left
        /\ u.owed = IF t.role = "assistant" THEN t.calls
                    ELSE IF t.role = "tool" THEN t.owed - 1
                    ELSE 0
    BY <1>1, TurnType DEF AppendMessage, TurnState
  <1> HIDE DEF t, u
  <1>3. /\ t.calls \in Nat /\ t.owed \in Nat /\ t.left * RoundSteps \in Nat
    BY <1>1, StepsAreCounted
  <1>4. StepsLeft(t) = t.left * RoundSteps + 2 * ToWrite(t) + 1
    BY <1>1 DEF StepsLeft
  <1>5. ToWrite(t) \in Nat /\ ToWrite(t) >= 1
    BY <1>1, <1>3 DEF ToWrite
  <1>6. ASSUME u.at \in {"complete", "chat"}
        PROVE  StepsLeft(u) < StepsLeft(t)
    <2>1. StepsLeft(u) \in {1, t.left * RoundSteps + 2}
      BY <1>2, <1>6 DEF StepsLeft
    <2> QED
      BY <1>3, <1>4, <1>5, <2>1
  <1>7. ASSUME u.at = "persist"
        PROVE  StepsLeft(u) < StepsLeft(t)
    <2>1. /\ StepsLeft(u) = t.left * RoundSteps + 2 * u.owed + 2
      BY <1>2, <1>7 DEF StepsLeft, ToWrite
    <2>2. u.owed \in Nat /\ u.owed = ToWrite(t) - 1
      BY <1>1, <1>2, <1>3, <1>7 DEF ToWrite
    <2> QED
      BY <1>3, <1>4, <1>5, <2>1, <2>2
  <1>8. ASSUME u.at = "tools"
        PROVE  StepsLeft(u) < StepsLeft(t)
    <2>1. StepsLeft(u) = t.left * RoundSteps + 2 * u.owed + 3
      BY <1>2, <1>8 DEF StepsLeft, ToWrite
    <2>2. u.owed \in Nat /\ u.owed = ToWrite(t) - 2
      BY <1>1, <1>2, <1>3, <1>8 DEF ToWrite
    <2> QED
      BY <1>3, <1>4, <1>5, <2>1, <2>2
  <1> QED
    BY <1>2, <1>6, <1>7, <1>8 DEF t, u

\* A response costs a round, which is enough for its message and its results.
LEMMA ChatCounts ==
    ASSUME TypeInv, NEW c \in Callers, Chat(c)
    PROVE  StepsLeft(turn'[c]) < StepsLeft(turn[c])
  <1> DEFINE t == turn[c]
             u == turn'[c]
  <1>1. t \in TurnState /\ t.at = "chat" /\ t.left > 0
    BY TurnType DEF Chat, RoundsLeft
  <1>2. PICK calls \in 0..MaxCalls :
          turn' = [turn EXCEPT ![c].at = "persist", ![c].role = "assistant",
                               ![c].calls = calls, ![c].left = @ - 1]
    BY DEF Chat
  <1>3. u.at = "persist" /\ u.role = "assistant" /\ u.calls = calls /\ u.left = t.left - 1
    BY <1>1, <1>2, TurnType DEF TurnState
  <1> HIDE DEF t, u
  <1>4. t.left \in Nat \ {0} /\ u.left \in Nat /\ calls \in Nat /\ calls <= MaxCalls
    BY <1>1, <1>3, StepsAreCounted, BoundsAssumption
  <1>5. /\ t.left * RoundSteps = u.left * RoundSteps + RoundSteps
        /\ u.left * RoundSteps \in Nat
    BY <1>3, <1>4, RoundIsCounted
  <1>6. StepsLeft(t) = t.left * RoundSteps + 2
    BY <1>1 DEF StepsLeft
  <1>7. StepsLeft(u) = u.left * RoundSteps + 2 * (calls + 2) + 2
    BY <1>3 DEF StepsLeft, ToWrite
  <1>8. RoundSteps = 2 * MaxCalls + 5 /\ MaxCalls \in Nat
    BY BoundsAssumption DEF RoundSteps
  <1>9. StepsLeft(u) < StepsLeft(t)
    <2> DEFINE rest == u.left * RoundSteps
    <2>1. /\ StepsLeft(t) = rest + 2 * MaxCalls + 5 + 2
          /\ StepsLeft(u) = rest + 2 * (calls + 2) + 2
          /\ rest \in Nat
      BY <1>5, <1>6, <1>7, <1>8
    <2> HIDE DEF rest
    <2> QED
      BY <1>4, <1>8, <2>1
  <1> QED
    BY <1>9 DEF t, u

\* A call that returns has no step left.
LEMMA ReturnCounts ==
    ASSUME TypeInv, NEW c \in Callers, turn[c].at # "idle", turn'[c] = Idle
    PROVE  StepsLeft(turn'[c]) < StepsLeft(turn[c])
  <1> DEFINE t == turn[c]
  <1>1. /\ t \in TurnState /\ t.at # "idle"
        /\ t.at \in {"idle", "reconcile", "persist", "append", "chat", "tools", "complete"}
    BY TurnType DEF TurnState
  <1> HIDE DEF t
  <1>2. t.left * RoundSteps \in Nat /\ ToWrite(t) \in Nat /\ t.owed \in Nat
    BY <1>1, StepsAreCounted
  <1>3. StepsLeft(t) > 0
    BY <1>1, <1>2 DEF StepsLeft
  <1>4. StepsLeft(Idle) = 0
    BY DEF StepsLeft, Idle
  <1> QED
    BY <1>3, <1>4 DEF t

\* Every step of a call counts.
LEMMA CallerCounts ==
    ASSUME TypeInv, NEW c \in Callers, CallerStep(c) \/ DispatchToolCalls(c)
    PROVE  StepsLeft(turn'[c]) < StepsLeft(turn[c])
  <1>1. turn[c] \in TurnState /\ turn \in [Callers -> TurnState]
    BY TurnType
  <1>2. CASE Return(c) /\ turn[c].at # "idle"
    BY <1>1, <1>2, ReturnCounts DEF Return
  <1>3. CASE /\ turn[c].at = "reconcile"
             /\ turn' = [turn EXCEPT ![c].at = "persist", ![c].held = None]
    <2> DEFINE t == turn[c]
               u == turn'[c]
    <2>1. /\ u.at = "persist" /\ u.role = t.role /\ u.calls = t.calls /\ u.owed = t.owed
          /\ u.left = t.left
      BY <1>1, <1>3 DEF TurnState
    <2> HIDE DEF u
    <2>2. ToWrite(u) = ToWrite(t)
      BY <2>1 DEF ToWrite
    <2>3. /\ StepsLeft(t) = t.left * RoundSteps + 2 * ToWrite(t) + 3
          /\ StepsLeft(u) = t.left * RoundSteps + 2 * ToWrite(t) + 2
      BY <1>3, <2>1, <2>2 DEF StepsLeft
    <2>4. t.left * RoundSteps \in Nat /\ ToWrite(t) \in Nat
      BY <1>1, StepsAreCounted
    <2> QED
      BY <2>3, <2>4 DEF u
  <1>4. CASE /\ turn[c].at = "persist"
             /\ turn' = [turn EXCEPT ![c].at = "append", ![c].row = NextRow]
    <2> DEFINE t == turn[c]
               u == turn'[c]
    <2>1. /\ u.at = "append" /\ u.role = t.role /\ u.calls = t.calls /\ u.owed = t.owed
          /\ u.left = t.left
      BY <1>1, <1>4 DEF TurnState
    <2> HIDE DEF u
    <2>2. ToWrite(u) = ToWrite(t)
      BY <2>1 DEF ToWrite
    <2>3. /\ StepsLeft(t) = t.left * RoundSteps + 2 * ToWrite(t) + 2
          /\ StepsLeft(u) = t.left * RoundSteps + 2 * ToWrite(t) + 1
      BY <1>4, <2>1, <2>2 DEF StepsLeft
    <2>4. t.left * RoundSteps \in Nat /\ ToWrite(t) \in Nat
      BY <1>1, StepsAreCounted
    <2> QED
      BY <2>3, <2>4 DEF u
  <1>5. CASE turn[c].at = "tools" /\ turn' = [turn EXCEPT ![c].at = "persist"]
    <2> DEFINE t == turn[c]
               u == turn'[c]
    <2>1. /\ u.at = "persist" /\ u.role = t.role /\ u.calls = t.calls /\ u.owed = t.owed
          /\ u.left = t.left
      BY <1>1, <1>5 DEF TurnState
    <2> HIDE DEF u
    <2>2. ToWrite(u) = ToWrite(t)
      BY <2>1 DEF ToWrite
    <2>3. /\ StepsLeft(t) = t.left * RoundSteps + 2 * ToWrite(t) + 3
          /\ StepsLeft(u) = t.left * RoundSteps + 2 * ToWrite(t) + 2
      BY <1>5, <2>1, <2>2 DEF StepsLeft
    <2>4. t.left * RoundSteps \in Nat /\ ToWrite(t) \in Nat
      BY <1>1, StepsAreCounted
    <2> QED
      BY <2>3, <2>4 DEF u
  <1> QED
    BY <1>2, <1>3, <1>4, <1>5, AppendCounts, ChatCounts
    DEF CallerStep, ReconcileHistory, PersistMessage, ChatFails, MaybeStartSummarization,
        DispatchToolCalls

\* Send, SendStream and runToolLoop: every step of a call brings it closer to its end, and no
\* other goroutine takes it back. A call of r rounds with at most k tool calls each ends
\* after (r + 1) (2k + 5) + 5 steps.
THEOREM TurnsGetShorter == Spec => [][TurnsAdvance]_vars
  <1>1. ASSUME TypeInv, Next
        PROVE  TurnsAdvance
    <2>1. ASSUME NEW c \in Callers, Send(c) \/ CallerStep(c) \/ DispatchToolCalls(c),
                 NEW d \in Callers \ {c}
          PROVE  turn'[d] = turn[d]
      <3>1. \E at : Comes(c, at)
        BY <1>1, <2>1, SendMoves, ReconcileMoves, PersistMoves, AppendMoves, RoundMoves,
           ReturnMoves DEF CallerStep, MaybeStartSummarization
      <3> QED
        BY <3>1 DEF Comes
    <2>2. ASSUME NEW c \in Callers, Send(c) \/ CallerStep(c) \/ DispatchToolCalls(c)
          PROVE  TurnsAdvance
      <3>1. Send(c) => turn[c].at = "idle"
        BY DEF Send
      <3> QED
        BY <1>1, <2>1, <2>2, <3>1, SendCounts, CallerCounts DEF TurnsAdvance
    <2>3. CASE UNCHANGED turn
      BY <2>3 DEF TurnsAdvance
    <2>4. CASE Restart
      <3> SUFFICES ASSUME NEW c \in Callers
                   PROVE  \/ turn'[c] = turn[c]
                          \/ StepsLeft(turn'[c]) < StepsLeft(turn[c])
                          \/ /\ turn[c].at = "idle"
                             /\ StepsLeft(turn'[c]) <= (MaxToolRounds + 1) * RoundSteps + 5
        BY DEF TurnsAdvance
      <3>1. turn'[c] = Idle
        BY <2>4 DEF Restart
      <3>2. CASE turn[c].at = "idle"
        <4>1. StepsLeft(Idle) = 0
          BY DEF StepsLeft, Idle
        <4>2. (MaxToolRounds + 1) * RoundSteps \in Nat
          BY BoundsAssumption, RoundIsCounted
        <4> QED
          BY <3>1, <3>2, <4>1, <4>2
      <3> QED
        BY <1>1, <3>1, <3>2, ReturnCounts
    <2> QED
      BY <1>1, <2>2, <2>3, <2>4
      DEF Next, TaskStep, Summarize, Deliver, Drain, Replace, Release
  <1>2. TypeInv /\ [Next]_vars => [TurnsAdvance]_vars
    BY <1>1
  <1> QED
    BY <1>2, TypeInvariant, PTL DEF Spec

\* The goroutine of maybeStartSummarization: no step takes it back to an earlier stage, and
\* starting another one does not end it.
THEOREM SummaryGetsOn == Spec => [][SummaryAdvances]_vars
  <1>1. ASSUME TypeInv, OnlyTask, Next
        PROVE  SummaryAdvances
    <2>1. ASSUME NEW t \in tasks, NEW next, NEW i \in 1..5, NEW j \in 1..5, i < j,
                 t.at = Stages[i], next.at = Stages[j], TaskComes(t, next)
          PROVE  SummaryAdvances
      BY <2>1 DEF SummaryAdvances, TaskComes
    <2>2. ASSUME NEW t \in tasks, Summarize(t) \/ Deliver(t) \/ Drain(t) \/ Replace(t)
          PROVE  SummaryAdvances
      <3>1. PICK next : /\ TaskComes(t, next)
                        /\ \/ t.at = "summarize" /\ next.at \in {"deliver", "release"}
                           \/ t.at = "deliver" /\ next.at \in {"drain", "release"}
                           \/ t.at = "drain" /\ next.at = "replace"
                           \/ t.at = "replace" /\ next.at = "release"
        <4>1. CASE Summarize(t)
          BY <1>1, <4>1, SummarizeMoves DEF Summarize
        <4>2. CASE Deliver(t) \/ Drain(t) \/ Replace(t)
          BY <1>1, <4>2, ResultMoves
        <4> QED
          BY <2>2, <4>1, <4>2
      <3>2. /\ Stages[1] = "summarize" /\ Stages[2] = "deliver" /\ Stages[3] = "drain"
            /\ Stages[4] = "replace" /\ Stages[5] = "release"
        BY DEF Stages
      <3> HIDE DEF Stages
      <3> QED
        BY <2>1, <3>1, <3>2
    <2>3. ASSUME NEW t \in tasks, Release(t)
          PROVE  SummaryAdvances
      <3>1. tasks = {t}
        BY <1>1 DEF OnlyTask
      <3> QED
        BY <2>3, <3>1 DEF SummaryAdvances, Release
    <2>4. CASE tasks \subseteq tasks' \/ tasks' = {}
      BY <2>4 DEF SummaryAdvances
    <2> QED
      BY <1>1, <2>2, <2>3, <2>4
      DEF Next, TaskStep, CallerStep, Send, ReconcileHistory, PersistMessage, AppendMessage,
          Chat, ChatFails, DispatchToolCalls, MaybeStartSummarization, StartOnce, Restart, summary
  <1>2. TypeInv /\ OnlyTask /\ [Next]_vars => [SummaryAdvances]_vars
    BY <1>1
  <1> QED
    BY <1>2, TypeInvariant, OnlyTaskInvariant, PTL DEF Spec

\* maybeStartSummarization, after it has drained a stale result: the channel is empty when
\* it sends its own, which is therefore never dropped.
THEOREM DrainedStaysEmpty == Spec => []ResultIsDelivered
  <1>1. Init => ResultIsDelivered
    BY DEF Init, ResultIsDelivered
  <1>2. ASSUME TypeInv, OnlyTask, ResultIsDelivered, [Next]_vars
        PROVE  ResultIsDelivered'
    <2>1. ASSUME NEW t \in tasks, NEW next, TaskComes(t, next),
                 next.at = "replace" => pending' = None
          PROVE  ResultIsDelivered'
      <3>1. tasks = {t}
        BY <1>2 DEF OnlyTask
      <3>2. tasks' = {next}
        BY <2>1, <3>1 DEF TaskComes
      <3> QED
        BY <2>1, <3>2 DEF ResultIsDelivered
    <2>2. ASSUME NEW t \in tasks, Summarize(t) \/ Deliver(t) \/ Drain(t) \/ Replace(t)
          PROVE  ResultIsDelivered'
      <3>1. PICK next : TaskComes(t, next) /\ (next.at = "replace" => pending' = None)
        <4>1. CASE Summarize(t)
          BY <1>2, <4>1, SummarizeMoves
        <4>2. CASE Deliver(t) \/ Drain(t) \/ Replace(t)
          BY <1>2, <4>2, ResultMoves
        <4> QED
          BY <2>2, <4>1, <4>2
      <3> QED
        BY <2>1, <3>1
    <2>3. ASSUME \A t \in tasks' : t \in tasks \/ t.at = "summarize", pending' \in {pending, None}
          PROVE  ResultIsDelivered'
      BY <1>2, <2>3 DEF ResultIsDelivered
    <2>4. ASSUME NEW c \in Callers, MaybeStartSummarization(c)
          PROVE  ResultIsDelivered'
      <3>1. /\ \A t \in tasks' : t \in tasks \/ t.at = "summarize"
            /\ pending' = pending
        BY <2>4 DEF MaybeStartSummarization, StartOnce, summary
      <3> QED
        BY <2>3, <3>1
    <2>5. CASE tasks' \subseteq tasks /\ pending' \in {pending, None}
      BY <2>3, <2>5
    <2> QED
      BY <1>2, <2>2, <2>4, <2>5
      DEF Next, TaskStep, CallerStep, Send, ReconcileHistory, PersistMessage, AppendMessage,
          Chat, ChatFails, DispatchToolCalls, Release, Restart, summary, vars
  <1> QED
    BY <1>1, <1>2, TypeInvariant, OnlyTaskInvariant, PTL DEF Spec
=============================================================================
