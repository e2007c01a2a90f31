---------------------------- MODULE MCReplyBuffer ----------------------------
(* Small instances of ReplyBuffer.                                          *)
EXTENDS ReplyBuffer

A(kind, supp, n, others) ==
    [lane |-> kind, supplements |-> supp, events |-> n, others |-> others]

\* Three events where supplements are off, so that a batch can overflow, be preempted
\* and leave a tail; in a private chat with them, so that one replacement can follow
\* another.
AllSessions ==
    {A("group", FALSE, 3, {}), A("private", FALSE, 3, {3}), A("private", TRUE, 3, {}),
     A("group", FALSE, 2, {2}), A("group", TRUE, 2, {2})}

\* The smallest sessions in which something is stranded.
GroupSupplements   == {A("group", TRUE, 2, {})}
PrivateSupplements == {A("private", TRUE, 2, {})}
=============================================================================
