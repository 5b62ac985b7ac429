------------------------------- MODULE Routing -------------------------------
(***************************************************************************)
(* One request on its way from the engine to a provider.                   *)
(*                                                                         *)
(* The PII gate looks at the request once, the router tries its providers  *)
(* in order, with retries and a backoff, and the network guard under each  *)
(* provider's HTTP client refuses hosts that are not on its list. What     *)
(* they do is fixed by what InitSecurity builds from the configuration     *)
(* (module Startup): the chain, the gate's mode and flag, the guard's list.*)
(*                                                                         *)
(* A request is private when the classifier finds something in it. A       *)
(* provider is the record of its file; a request that is sent to it is     *)
(* remembered in "reached".                                                *)
(***************************************************************************)
EXTENDS Integers, Sequences, FiniteSets

CONSTANTS
    Retries,  \* attempts after the first at each provider of a router
    None      \* no request, no value of a field

ASSUME RetriesAssumption == Retries \in Nat

VARIABLES
    wired,    \* what InitSecurity has built, or None
    call      \* the request the engine waits for, or None

\* The request is made under a context its caller may cancel.
Request(kind, private) ==
    [at |-> "gate", kind |-> kind, private |-> private, entry |-> 1, tries |-> 0,
     cancelled |-> FALSE, reached |-> {}, outcome |-> ""]

Ask(kind, private) ==
    /\ call = None
    /\ wired # None
    /\ call' = Request(kind, private)
    /\ UNCHANGED wired
-----------------------------------------------------------------------------
(***************************************************************************)
(* Gate.Chat and Gate.ChatStream.                                          *)
(***************************************************************************)
Blocks == wired.mode = "strict" /\ ~ wired.isLocal

\* A blocked request is answered by the gate: the engine sees an ordinary reply.
CheckMessages ==
    /\ call # None /\ call.at = "gate"
    /\ call' = IF call.private /\ Blocks
                 THEN [call EXCEPT !.at = "done", !.outcome = "blocked"]
                 ELSE [call EXCEPT !.at = "attempt"]
    /\ UNCHANGED wired
-----------------------------------------------------------------------------
(***************************************************************************)
(* Router.Chat, tryWithRetries and Router.ChatStream, and the guard. A     *)
(* single provider is used without a router: it is tried once.             *)
(***************************************************************************)
Provider == wired.chain[call.entry]

Attempts == IF call.kind = "stream" \/ Len(wired.chain) = 1 THEN 1 ELSE Retries + 1

IsAllowed(host) == host \in wired.allow

\* A mutated form: after the last provider the first one is tried again.
NextEntryCycles ==
    [call EXCEPT !.at = "attempt", !.entry = (@ % Len(wired.chain)) + 1, !.tries = 0]

\* The next provider of the chain is tried whatever the error was, a cancelled
\* request's too; the last one's error is returned.
NextEntry ==
    IF call.entry < Len(wired.chain)
      THEN [call EXCEPT !.at = "attempt", !.entry = @ + 1, !.tries = 0]
      ELSE [call EXCEPT !.at = "done", !.outcome = "error"]

Failed ==
    IF call.tries + 1 < Attempts
      THEN [call EXCEPT !.at = "backoff", !.tries = @ + 1]
      ELSE NextEntry

\* The guard refuses the host, or the context is cancelled: nothing is sent.
AttemptUnsent ==
    /\ call # None /\ call.at = "attempt"
    /\ call.cancelled \/ ~ IsAllowed(Provider.host)
    /\ call' = Failed
    /\ UNCHANGED wired

\* The request is sent and answered, or fails, or the answer comes too late.
Attempt ==
    /\ call # None /\ call.at = "attempt"
    /\ ~ call.cancelled /\ IsAllowed(Provider.host)
    /\ \E next \in {Failed,
                    IF call.kind = "stream"
                      THEN [call EXCEPT !.at = "streaming"]
                      ELSE [call EXCEPT !.at = "done", !.outcome = "reply"]} :
         call' = [next EXCEPT !.reached = @ \cup {Provider}]
    /\ UNCHANGED wired

\* The wait ends, or the context does first.
Backoff ==
    /\ call # None /\ call.at = "backoff"
    /\ \/ call' = [call EXCEPT !.at = "attempt"]
       \/ call.cancelled /\ call' = NextEntry
    /\ UNCHANGED wired

\* The stream is read to its end; an error in the middle of it is passed on, and no
\* other provider is tried.
StreamEnds ==
    /\ call # None /\ call.at = "streaming"
    /\ \E outcome \in {"reply", "broken"} :
         call' = [call EXCEPT !.at = "done", !.outcome = outcome]
    /\ UNCHANGED wired

\* The caller goes away: an HTTP client disconnects, the program is interrupted.
Cancel ==
    /\ call # None /\ call.at # "done"
    /\ ~ call.cancelled
    /\ call' = [call EXCEPT !.cancelled = TRUE]
    /\ UNCHANGED wired

RoutingStep == CheckMessages \/ AttemptUnsent \/ Attempt \/ Backoff \/ StreamEnds
-----------------------------------------------------------------------------
(***************************************************************************)
(* Properties.                                                             *)
(***************************************************************************)
\* In strict mode nothing the classifier finds leaves the machine, through retries and
\* the failover too ("Block and route to local only. Failover stays local").
StrictStaysLocal ==
    call # None =>
      (call.private /\ wired.mode = "strict" => \A p \in call.reached : p.type = "ollama")
==============================================================================
