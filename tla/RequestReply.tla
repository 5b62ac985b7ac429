----------------------------- MODULE RequestReply -----------------------------
(***************************************************************************)
(* What a client of an MCP server promises to its callers. A call ends     *)
(* once, with an answer the server has sent to this very call or with an   *)
(* error, and what it has ended with is not changed. The handshake's calls *)
(* are made one after the other, and the other calls when each of them has *)
(* been answered.                                                          *)
(***************************************************************************)
EXTENDS Naturals

CONSTANTS
    Calls,      \* numbers of calls
    Handshake,  \* those of the calls that come first
    None        \* no answer, but an error

VARIABLES
    asked,      \* the calls made so far
    answered,   \* those the server has answered
    returned    \* pairs of a call and what it has ended with

Init == asked = {} /\ answered = {} /\ returned = {}

Ask(c) ==
    /\ c \notin asked
    /\ \A h \in Handshake : h < c => <<h, h>> \in returned
    /\ asked' = asked \cup {c}
    /\ UNCHANGED <<answered, returned>>

Answer(c) ==
    /\ c \in asked
    /\ answered' = answered \cup {c}
    /\ UNCHANGED <<asked, returned>>

End(c) ==
    /\ c \in asked
    /\ \A value \in Calls \cup {None} : <<c, value>> \notin returned
    /\ \E value \in {None} \cup (answered \cap {c}) : returned' = returned \cup {<<c, value>>}
    /\ UNCHANGED <<asked, answered>>

Next == \E c \in Calls : Ask(c) \/ Answer(c) \/ End(c)

Spec == Init /\ [][Next]_<<asked, answered, returned>>
===============================================================================
