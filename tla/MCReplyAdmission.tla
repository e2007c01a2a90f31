-------------------------- MODULE MCReplyAdmission --------------------------
EXTENDS ReplyAdmission, TLC

CONSTANTS a, b, t1, t2, t3

Buffered(k) == {[key |-> k, direct |-> FALSE, poke |-> FALSE]}
Direct(k)   == {[key |-> k, direct |-> TRUE, poke |-> FALSE]}
Poke(k)     == {[key |-> k, direct |-> TRUE, poke |-> TRUE]}
Scene(c1, c2, c3, entries, session, global) ==
    [calls |-> (t1 :> c1) @@ (t2 :> c2) @@ (t3 :> c3), entries |-> entries,
     session_limit |-> session, global_limit |-> global]

MixedScenes == {
    \* a session with its buffered turn, a direct one and a poke, and its entry
    Scene(Buffered(a), Direct(a), Poke(a), {a}, 2, 2),
    \* two sessions that compete for the slots of all
    Scene(Direct(a), Direct(a), Direct(b), {}, 2, 1),
    Scene(Direct(a), Direct(b), Direct(b), {}, 1, 2),
    \* more turns than a session has slots
    Scene(Direct(a), Direct(a), Direct(a), {}, 1, 2),
    Scene(Direct(a), Direct(a), Direct(a), {}, 2, 3)}
=============================================================================
