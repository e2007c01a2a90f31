---------------------------- MODULE MCModeration ----------------------------
(* Instances of Moderation for TLC.                                         *)
EXTENDS Moderation, TLC

CONSTANTS t1, t2, t3, t4, a1, a2

\* The fourth message arrives when a mute has been requested.
Kept == (\A t \in Turns : turns[t].pc # "idle") => \E i \in Incidents : operations[i] # "none"

PeopleSymmetry == Permutations(Turns) \cup Permutations(Admins)
=============================================================================
