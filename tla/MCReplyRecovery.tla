--------------------------- MODULE MCReplyRecovery ---------------------------
(* Small instances of ReplyRecovery.                                        *)
EXTENDS ReplyRecovery, TLC

CONSTANTS k1, k2, k3, v1, v2, t1, t2, t3, w1, w2, r1, r2

OneConv  == [k \in Keys |-> v1]
Lengths  == [k \in Keys |-> IF k = k3 THEN 2 ELSE 1]
Short    == [k \in Keys |-> 1]

Once     == [k \in Keys |-> 1]
Twice    == [k \in Keys |-> IF k = k1 THEN 2 ELSE 1]

WorkerSymmetry == Permutations(Workers) \cup Permutations(Tokens)

\* Which part of the instance a behaviour explores: two short messages, one of which
\* fails twice, with workers of any speed; one message, or a short and a long one under
\* one worker, with workers that start their send while their lease lives.
VARIABLE scene

InScene ==
    CASE scene = "turns"  -> rows[k3] = NoRow /\ clock <= 1
      [] scene = "prompt" -> rows[k1] = NoRow /\ rows[k3] = NoRow
      [] scene = "batch"  -> rows[k1] = NoRow /\ \E w \in Workers : workers[w] = Idle

ScenesInit == Init /\ scene \in {"turns", "prompt", "batch"}
ScenesNext ==
    /\ IF scene = "turns" THEN Next ELSE PromptNext
    /\ UNCHANGED scene
    /\ InScene'
ScenesSpec == ScenesInit /\ [][ScenesNext]_<<vars, scene>>

\* The whole instance, for the run whose constants are small.
WholeSpec == Init /\ scene = "all" /\ [][Next /\ UNCHANGED scene]_<<vars, scene>>

(* With workers that start their send while their lease lives, no message   *)
(* that is reported once is answered twice: neither by two workers nor by a *)
(* handler whose delivery was unknown and a worker.                         *)
PromptAnsweredOnce == scene # "turns" => AnsweredOnce
=============================================================================
