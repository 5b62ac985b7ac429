------------------------------ MODULE Splitting ------------------------------
(***************************************************************************)
(* SplitMessage: a reply is cut into messages of a length Telegram takes. A *)
(* text is the sequence of its bytes, as the code slices it: "x" stands for *)
(* a character of one byte that is no separator, "lead" and "trail" for the *)
(* two bytes of a longer one. Positions are those of the code, from 0.      *)
(***************************************************************************)
EXTENDS Sequences, FiniteSetsExt

CONSTANTS
    Limits,    \* lengths of a message, in bytes
    MaxText    \* bound: the length of a text, in bytes

ASSUME SplittingAssumption ==
    /\ Limits \subseteq Nat \ {0}
    /\ MaxText \in Nat

Bytes == {"x", " ", ".", "n", "lead", "trail"}     \* "n" is a line break

\* The bytes are those of whole characters.
IsText(bytes) ==
    \A i \in 0..Len(bytes) :
      (i \in DOMAIN bytes /\ bytes[i] = "lead")
        <=> (i + 1 \in DOMAIN bytes /\ bytes[i + 1] = "trail")

Texts == {bytes \in UNION {[1..n -> Bytes] : n \in 0..MaxText} : IsText(bytes)}

LastIndex(text, pattern) ==
    LET found == {i \in 0..Len(text) - Len(pattern) :
                    SubSeq(text, i + 1, i + Len(pattern)) = pattern}
    IN  Max(found \cup {-1})

\* Where the text is cut: after the last paragraph, line, sentence or word that ends
\* beyond the first quarter, in this order of preference, or at the limit.
SplitAt(chunk, maxLen) ==
    LET ends(pattern) == LastIndex(chunk, pattern) > maxLen \div 4
        after(pattern) == LastIndex(chunk, pattern) + Len(pattern)
    IN  CASE ends(<<"n", "n">>) -> after(<<"n", "n">>)
          [] ~ ends(<<"n", "n">>) /\ ends(<<"n">>) -> after(<<"n">>)
          [] ~ ends(<<"n">>) /\ ends(<<".", " ">>) -> after(<<".", " ">>)
          [] ~ ends(<<"n">>) /\ ~ ends(<<".", " ">>) /\ ends(<<" ">>) -> after(<<" ">>)
          [] OTHER -> maxLen

TrimRight(text) ==
    SubSeq(text, 1, Max({0} \cup {i \in DOMAIN text : text[i] # " "}))

\* A mutated form: the byte at the cut is taken for a separator and dropped.
RestSkippingOne(left, at) == left - at - 1

\* How many of the bytes that were left are left after the cut.
Rest(left, at) == left - at

\* The loop, by the number of bytes that are left.
SplitMessage(message, maxLen) ==
    LET split[left \in 0..Len(message)] ==
          LET text == SubSeq(message, Len(message) - left + 1, Len(message))
              at   == SplitAt(SubSeq(text, 1, maxLen), maxLen)
          IN  IF left <= maxLen
                THEN IF left = 0 THEN <<>> ELSE <<text>>
                ELSE <<TrimRight(SubSeq(text, 1, at))>> \o split[Rest(left, at)]
    IN  IF Len(message) <= maxLen THEN <<message>> ELSE split[Len(message)]
-----------------------------------------------------------------------------
\* "part" is what stands between two places of the text, without the spaces at its end:
\* nothing is left of it when there are only spaces.
IsPart(part, text, from, to) ==
    /\ Len(part) <= to - from
    /\ \A j \in 1..to - from :
         IF j <= Len(part) THEN part[j] = text[from + j] ELSE text[from + j] = " "

\* The parts are those between consecutive places, and no part but the last one stands
\* for less than a quarter of a message.
Covers(parts, text, maxLen) ==
    \E ends \in [0..Len(parts) -> 0..Len(text)] :
      /\ ends[0] = 0 /\ ends[Len(parts)] = Len(text)
      /\ \A i \in 1..Len(parts) : IsPart(parts[i], text, ends[i - 1], ends[i])
      /\ \A i \in 1..Len(parts) - 1 : ends[i] - ends[i - 1] > maxLen \div 4

\* No part is longer than the limit, and the parts hold the bytes of the text in their
\* order: only spaces at the cuts are missing. A part may be empty and may begin or end
\* inside a character.
SplitKeepsText ==
    \A text \in Texts, maxLen \in Limits :
      LET parts == SplitMessage(text, maxLen)
      IN  Covers(parts, text, maxLen) /\ \A i \in DOMAIN parts : Len(parts[i]) <= maxLen
=============================================================================
