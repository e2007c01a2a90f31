--------------------------- MODULE PublishPromise ---------------------------
(***************************************************************************)
(* What the publish ledger promises to the rest of the plugin, without     *)
(* leases, fences, clocks or transactions: the external write of an        *)
(* operation happens at most once, an outcome once decided is final, doubt *)
(* is only ever resolved, and each success is counted in one month, once.  *)
(***************************************************************************)
EXTENDS Naturals

CONSTANTS Ops,      \* operations with an external write of their own
          Records,  \* entries that stand for a feed somebody else wrote
          Periods

VARIABLES writes, outcome, counted

pvars == <<writes, outcome, counted>>

Entries == Ops \cup Records

PromiseInit ==
    /\ writes = [o \in Ops |-> 0]
    /\ outcome = [e \in Entries |-> "open"]
    /\ counted = [p \in Periods |-> 0]

Write(o) ==
    /\ writes[o] = 0
    /\ writes' = [writes EXCEPT ![o] = 1]
    /\ UNCHANGED <<outcome, counted>>

\* Any operations still open, several at a time, may become doubtful.
Doubt ==
    /\ outcome' \in [Entries -> {"open", "doubt", "done", "failed"}]
    /\ \A e \in Entries : outcome'[e] # outcome[e] =>
            e \in Ops /\ outcome[e] = "open" /\ outcome'[e] = "doubt"
    /\ UNCHANGED <<writes, counted>>

\* Without doubt first, an operation is decided only after its write.
MayDecide(e) ==
    \/ outcome[e] = "doubt"
    \/ outcome[e] = "open" /\ (e \in Ops => writes[e] = 1)

Succeed(e, p) ==
    /\ MayDecide(e)
    /\ outcome' = [outcome EXCEPT ![e] = "done"]
    /\ counted' = [counted EXCEPT ![p] = @ + 1]
    /\ UNCHANGED writes

Fail(o) ==
    /\ MayDecide(o)
    /\ outcome' = [outcome EXCEPT ![o] = "failed"]
    /\ UNCHANGED <<writes, counted>>

PromiseNext ==
    \/ \E o \in Ops : Write(o) \/ Fail(o)
    \/ Doubt
    \/ \E e \in Entries, p \in Periods : Succeed(e, p)

PromiseSpec == PromiseInit /\ [][PromiseNext]_pvars
=============================================================================
