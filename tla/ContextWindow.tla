---------------------------- MODULE ContextWindow ----------------------------
(***************************************************************************)
(* ContextAssembler.Assemble: how much of a conversation's history is sent *)
(* with a request. A message is its estimated size; memories are part of   *)
(* the system prompt's size.                                               *)
(***************************************************************************)
EXTENDS Integers, Sequences

CONSTANTS
    MaxContext,       \* maxContextTokens
    ResponseReserve,  \* responseReserve
    Sizes,            \* the estimates of messages, system prompts and tools
    MaxHistory        \* bound: the length of a history

ASSUME WindowAssumption ==
    /\ MaxContext \in Int
    /\ ResponseReserve \in Nat
    /\ Sizes \subseteq Nat
    /\ MaxHistory \in Nat

Histories == UNION {[1..n -> Sizes] : n \in 0..MaxHistory}

\* A mutated form: the tools' definitions are not counted.
BudgetWithoutTools(system, tools) ==
    LET left == MaxContext - system
    IN  IF left > ResponseReserve THEN left - ResponseReserve ELSE left

\* What is left for the history; room for the answer is kept when there is some.
Budget(system, tools) ==
    LET left == MaxContext - system - tools
    IN  IF left > ResponseReserve THEN left - ResponseReserve ELSE left

\* How many messages, the oldest ones, are not sent: the newest are included one by one
\* until one does not fit or nothing is left.
Excluded(history, budget) ==
    LET from[i \in 0..Len(history)] ==
          [left \in Int |-> IF i = 0 \/ left <= 0 THEN i
                           ELSE IF history[i] > left THEN i
                           ELSE from[i - 1][left - history[i]]]
    IN  from[Len(history)][budget]

Assemble(history, budget) == SubSeq(history, Excluded(history, budget) + 1, Len(history))
-----------------------------------------------------------------------------
Total(sizes) ==
    LET sum[i \in 0..Len(sizes)] == IF i = 0 THEN 0 ELSE sum[i - 1] + sizes[i]
    IN  sum[Len(sizes)]

\* What is sent is the end of the history, fits with the prompt, the tools and the room
\* for an answer into the model's context, and could not be longer by one message
\* that has any size.
WindowFits ==
    \A history \in Histories : \A system, tools \in Sizes :
      LET sent == Assemble(history, Budget(system, tools))
          used == system + tools + Total(sent)
          room == IF MaxContext - system - tools > ResponseReserve THEN ResponseReserve ELSE 0
          cut  == Len(history) - Len(sent)
      IN  /\ sent = SubSeq(history, cut + 1, Len(history))
          /\ sent # <<>> => used + room <= MaxContext
          /\ cut > 0 /\ history[cut] > 0 => used + room + history[cut] > MaxContext
=============================================================================
