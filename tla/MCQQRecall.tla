----------------------------- MODULE MCQQRecall -----------------------------
(* Small instances of QQRecall.                                             *)
EXTENDS QQRecall, TLC

CONSTANTS o1, o2, o3, u1, u2, r1, r2

W(user, surface) == [user |-> user, surface |-> surface]
MixedWrites == {W(u1, "reply"), W(u1, "reply_ack"), W(u2, "reply")}
MixedAsks   == {[actor |-> Admin, own |-> None], [actor |-> u1, own |-> o2]}

\* One operation replies in two parts; the turn of the other acknowledges, and asks.
\* Two requests race within a tick, or one of them takes its time.
Kept ==
    /\ clock = 0 \/ \E r \in Requests : requests[r] = Idle
    /\ \A p \in Parts : ledger[p] # NoRow =>
          IF p[1] = o1 THEN ledger[p].surface = "reply"
          ELSE p[2] = 1 /\ ledger[p].user = u1 /\ ledger[p].surface = "reply_ack"

RequestSymmetry == Permutations(Requests)
=============================================================================
