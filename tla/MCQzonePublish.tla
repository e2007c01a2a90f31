--------------------------- MODULE MCQzonePublish ---------------------------
(* Small instances of QzonePublish: one bot, one or two operations.         *)
EXTENDS QzonePublish, TLC

CONSTANTS o1, o2, m1, c1, c2, c3, b1, t1, t2, s0

Of(kind, text) == [bot |-> b1, kind |-> kind, text |-> text, source |-> s0]

MixedOffers == (o1 :> {Of("post", t1)}) @@ (o2 :> {Of("post", t1), Of("forward", t1)})
TwoTexts    == (o1 :> {Of("post", t1)}) @@ (o2 :> {Of("post", t2)})

\* Which part of the instance a behaviour explores: many callers of one operation
\* beside posts made by hand, or one caller that forces two operations while feeds are
\* recorded as historical.
VARIABLE scene

Busy(c) == callers[c].pc # "idle"
InScene ==
    CASE scene = "callers" ->
            /\ \A i \in Ids \ {o1} : ops[i] = NoRow
            /\ \A c \in Callers : Busy(c) => callers[c].op = o1 /\ ~ callers[c].force
      [] scene = "books" ->
            /\ \A c \in Callers \ {c1} : ~ Busy(c)
            /\ Busy(c1) => callers[c1].force
            /\ feeds[m1] = None

ScenesInit == Init /\ scene \in {"callers", "books"}
ScenesNext == Next /\ UNCHANGED scene /\ InScene'
ScenesSpec == ScenesInit /\ [][ScenesNext]_<<vars, scene>> /\ Fairness

\* The whole instance, for the runs whose constants are small.
WholeSpec == Init /\ scene = "all" /\ [][Next /\ UNCHANGED scene]_<<vars, scene>>
=============================================================================
