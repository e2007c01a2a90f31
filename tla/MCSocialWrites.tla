--------------------------- MODULE MCSocialWrites ---------------------------
(* Instances of SocialWrites for TLC.                                       *)
EXTENDS SocialWrites, TLC

CONSTANTS u1, u2, e1, f1, x1, g1, bg, j1, j2

JobSymmetry == Permutations(Jobs)

Chat(u, e) ==
    [channel |-> "chat", target |-> u, payload |-> None, group |-> bg,
     decision |-> [target |-> u, parent |-> e, child |-> None]]
Undecided(u) ==
    [channel |-> "chat", target |-> u, payload |-> None, group |-> bg, decision |-> None]
Body(u, f, a) == [target |-> u, feed |-> f, action |-> a,
                  text |-> IF a = "comment" THEN x1 ELSE None]
Scan(u, f, a) ==
    [channel |-> "background", target |-> u, payload |-> Body(u, f, a), group |-> bg,
     decision |-> [target |-> u, parent |-> f, child |-> a]]
Tool(u, f, a) ==
    [channel |-> "agent", target |-> u, payload |-> Body(u, f, a), group |-> g1,
     decision |-> None]

\* An event that a chat scenario and the scan may act on, the two children of a
\* composite, the agent's tool on the same feed and on another person, a motive
\* without an event and a scenario whose gate is off.
MixedPlans == {Chat(u1, e1), Chat(u2, None), Undecided(u2),
               Scan(u1, f1, "like"), Scan(u1, f1, "comment"),
               Tool(u1, f1, "like"), Tool(u2, f1, "comment")}
=============================================================================
