--------------------------- MODULE MCKeyRotation ---------------------------
(***************************************************************************)
(* Instances of KeyRotation for TLC.                                       *)
(***************************************************************************)
EXTENDS KeyRotation

\* Two batches of two messages. The ids (random hex strings) are not in the order of the
\* times: by time the rows are 2, 1, 3, 4.
MCRows == {1, 2, 3, 4}
MCCreatedAt == <<2, 1, 3, 4>>

\* The second query finds row 3, which is in the second of row 1 and written in the form
\* the repository's tests use, and skips row 4, written as the program writes rows.
MCReadable == {1, 3}

\* Two messages in the same second whose ids are not in the order they were written in.
MCTwoRows == {1, 2}
MCSwappedCreatedAt == <<1, 0>>
=============================================================================
