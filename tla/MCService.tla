------------------------------ MODULE MCService ------------------------------
(* An instance of Service, and bounded inputs for the pure functions of the channels
   and of the request's assembly, which are checked once, in the initial state. *)
EXTENDS Service, Splitting, ContextWindow
LOCAL INSTANCE TLC

\* Requests differ in nothing but who sent them.
Symmetry == Permutations(Requests)

AtFirst == phase = "off" /\ starts = 0

\* SplitMessage: the parts hold every byte of a text in its order, but for spaces at the
\* cuts, none is longer than the limit, and they are at most four times as many as the
\* text would fill. That each of them is a message Telegram takes is not said: a part of
\* spaces only is empty, and the limit may cut a character of several bytes in two.
SplitLosesNothing == AtFirst => SplitKeepsText

\* Assemble: as much of every history is sent as fits into the model's context, with the
\* prompt, the tools and the room for an answer.
HistoryFits == AtFirst => WindowFits
=============================================================================
