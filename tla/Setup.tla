-------------------------------- MODULE Setup --------------------------------
(***************************************************************************)
(* What first-time setup promises. The user confirms the answers to a      *)
(* round of questions; either the whole of what they describe is in force  *)
(* from then on, or nothing of it. It is never changed, mixed with the     *)
(* answers of an earlier attempt or taken back: later starts find it.      *)
(***************************************************************************)
CONSTANTS Profiles, None

VARIABLES
    confirmed,  \* what the user has said yes to in this attempt, or None
    inForce     \* what the program is set up as, or None

Init == confirmed = None /\ inForce = None

Confirm ==
    /\ inForce = None /\ confirmed = None
    /\ confirmed' \in Profiles
    /\ UNCHANGED inForce

\* The attempt is given up: an error, or the program ends.
Withdraw ==
    /\ confirmed # None
    /\ confirmed' = None
    /\ UNCHANGED inForce

Complete ==
    /\ confirmed # None
    /\ inForce' = confirmed
    /\ confirmed' = None

Next == Confirm \/ Withdraw \/ Complete

Spec == Init /\ [][Next]_<<confirmed, inForce>>
=============================================================================
