------------------------------ MODULE QQRecall ------------------------------
(***************************************************************************)
(* The ledger of the bot's outbound messages, core/qq_outbound.py, and the *)
(* recall of what one operation sent, core/qq_recall.py.                   *)
(*                                                                         *)
(* An operation (one turn, one action) sends parts; each is a ledger row   *)
(* before it is a message.  A recall request, of a user through the agent  *)
(* or of an administrator, claims one operation in one transaction and     *)
(* then deletes its messages one by one.  Transactions of sends, of        *)
(* several requests and of the recovery at start interleave; sends and     *)
(* deletions are external calls that take effect on their own, or never.   *)
(*                                                                         *)
(* Abstracted: one bot and one conversation; all message ids are numbers;  *)
(* a quoted or chosen operation may be any, so the latest is one of them.  *)
(***************************************************************************)
EXTENDS Integers, FiniteSets

CONSTANTS
    Ops,         \* outbound operations (operation_id)
    MaxParts,    \* bound on the parts of an operation
    Users,
    Admin,       \* an administrator's request
    Requests,    \* recall requests, each made at most once
    Asks,        \* who asks: an administrator, or a user from a turn's own operation
    Writes,      \* what operations send: the target and the surface of a part
    None,        \* no operation
    Window,      \* window_seconds, in ticks
    MaxTime      \* bound on the clock

\* Of DEFAULT_SOCIAL_RECALL_SURFACES all but "other", which may not be recalled.
Surfaces == {"reply", "reply_ack", "other"}

ASSUME RecallConstants ==
    /\ MaxParts \in Nat \ {0} /\ Window \in Nat /\ MaxTime \in Nat
    /\ Admin \notin Users /\ None \notin Ops
    /\ Writes \subseteq [user : Users, surface : Surfaces]
    /\ Asks \subseteq [actor : Users \cup {Admin}, own : Ops \cup {None}]
    /\ \A a \in Asks : a.actor = Admin => a.own = None
    /\ IsFiniteSet(Ops)

Parts == Ops \X (1 .. MaxParts)
Times == 0 .. MaxTime

VARIABLES
    clock,
    ledger,      \* table qq_outbound_ledger
    sending,     \* the parts whose send() is awaited
    recalls,     \* table qq_recall_operations, by outbound_operation_id
    items,       \* table qq_recall_items, by ledger_id
    requests,    \* where each recall request is
    chat,        \* each part's message in the conversation
    erasing,     \* the deletion of each part, as the platform sees it
    deletes      \* how often each part's deletion was requested

vars == <<clock, ledger, sending, recalls, items, requests, chat, erasing, deletes>>
-----------------------------------------------------------------------------
NoRow    == [status |-> "none"]
Row      == [status : {"unknown", "sent", "failed"}, user : Users, surface : Surfaces,
             created : Times, updated : Times, recalled : BOOLEAN]
NoRecall == [status |-> "none"]
Settled  == {"succeeded", "partial", "definite_failure", "unknown"}
Recall   == [status : Settled \cup {"dispatching"}, count : Nat]
NoItem   == [status |-> "none"]
ItemEnds == {"succeeded", "definite_failure", "unknown"}
Item     == [status : ItemEnds \cup {"dispatching"}, op : Ops]
Request  == [pc : {"asked", "claimed", "await", "record", "undo", "cleanup", "finish", "done"},
             actor : Users \cup {Admin}, own : Ops \cup {None}, cutoff : Times,
             op : Ops \cup {None}, todo : SUBSET Parts, part : Parts \cup {None},
             outcome : ItemEnds]
Idle     == [pc |-> "idle"]

TypeOK ==
    /\ clock \in Times
    /\ ledger \in [Parts -> Row \cup {NoRow}]
    /\ sending \subseteq Parts
    /\ recalls \in [Ops -> Recall \cup {NoRecall}]
    /\ items \in [Parts -> Item \cup {NoItem}]
    /\ requests \in [Requests -> Request \cup {Idle}]
    /\ chat \in [Parts -> {"none", "flying", "lost", "visible", "gone"}]
    /\ erasing \in [Parts -> {"none", "flying", "done", "refused"}]
    /\ deletes \in [Parts -> Nat]

Init ==
    /\ clock = 0
    /\ ledger = [p \in Parts |-> NoRow]
    /\ sending = {}
    /\ recalls = [o \in Ops |-> NoRecall]
    /\ items = [p \in Parts |-> NoItem]
    /\ requests = [r \in Requests |-> Idle]
    /\ chat = [p \in Parts |-> "none"]
    /\ erasing = [p \in Parts |-> "none"]
    /\ deletes = [p \in Parts |-> 0]
-----------------------------------------------------------------------------
(* QQOutboundLedger                                                         *)

RowsOf(o) == {p \in Parts : p[1] = o /\ ledger[p] # NoRow}

\* Mutant: an operation goes on sending after it was recalled.
SealedNever(o) == FALSE
Sealed(o) == recalls[o] # NoRecall

\* begin, and the send it precedes.
Begin(o) ==
    LET p == <<o, Cardinality(RowsOf(o)) + 1>> IN
    /\ ~ Sealed(o)
    /\ p \in Parts
    /\ \E w \in Writes :
          ledger' = [ledger EXCEPT ![p] =
                [status |-> "unknown", user |-> w.user, surface |-> w.surface,
                 created |-> clock, updated |-> clock, recalled |-> FALSE]]
    /\ sending' = sending \cup {p}
    /\ chat' = [chat EXCEPT ![p] = "flying"]
    /\ UNCHANGED <<clock, recalls, items, requests, erasing, deletes>>

\* _update_dispatch
Dispatched(row, status) ==
    IF row.status = "unknown" /\ ~ row.recalled
    THEN [row EXCEPT !.status = status, !.updated = clock] ELSE row

\* A message id; a failure that the resolver knows to be one; or an exception, a
\* cancellation or an answer without an id.
SendOutcomes(p) ==
    {"unknown"} \cup (IF chat[p] \in {"visible", "gone"} THEN {"sent"} ELSE {})
                \cup (IF chat[p] = "lost" THEN {"failed"} ELSE {})

SendAnswer(p) ==
    /\ p \in sending
    /\ \E s \in SendOutcomes(p) : ledger' = [ledger EXCEPT ![p] = Dispatched(@, s)]
    /\ sending' = sending \ {p}
    /\ UNCHANGED <<clock, recalls, items, requests, chat, erasing, deletes>>

DeliverMessage(p) ==
    /\ chat[p] = "flying"
    /\ \E s \in {"visible", "lost"} : chat' = [chat EXCEPT ![p] = s]
    /\ UNCHANGED <<clock, ledger, sending, recalls, items, requests, erasing, deletes>>
-----------------------------------------------------------------------------
(* The claim of a recall                                                    *)

Goto(r, pc) == requests' = [requests EXCEPT ![r].pc = pc]

\* A user's request carries the instant its turn began and the turn's own operation.
Ask(r, a) ==
    /\ requests[r] = Idle
    /\ requests' = [requests EXCEPT ![r] =
            [pc |-> "asked", actor |-> a.actor, own |-> a.own, cutoff |-> clock, op |-> None,
             todo |-> {}, part |-> None, outcome |-> "unknown"]]
    /\ UNCHANGED <<clock, ledger, sending, recalls, items, chat, erasing, deletes>>

\* Mutant: the target of a row is not compared.
MineAny(p, r) == TRUE
Mine(p, r) == requests[r].actor \in {Admin, ledger[p].user}

InWindow(p, r) ==
    /\ requests[r].cutoff - Window <= ledger[p].created
    /\ ledger[p].created <= requests[r].cutoff /\ ledger[p].updated <= requests[r].cutoff

Wanted(p, r) ==
    /\ ledger[p].status = "sent" /\ ~ ledger[p].recalled
    /\ ledger[p].surface # "other" /\ Mine(p, r) /\ InWindow(p, r)

\* The acknowledgement of the turn that asks goes with it.
OwnAcks(r) ==
    {p \in RowsOf(requests[r].own) :
        /\ ledger[p].status = "sent" /\ ~ ledger[p].recalled
        /\ ledger[p].surface = "reply_ack" /\ Mine(p, r)}

\* Mutant: only operations are claimed once, not messages.
TakenNever(p) == FALSE
Taken(p) == items[p] # NoItem

Claim(r) ==
    /\ requests[r].pc = "asked"
    /\ \E o \in Ops \ {requests[r].own} :
        LET batch == RowsOf(o) \cup OwnAcks(r) IN
        /\ RowsOf(o) # {} /\ \A p \in RowsOf(o) : Wanted(p, r)
        /\ recalls[o] = NoRecall
        /\ \A p \in batch : ~ Taken(p)
        /\ recalls' = [recalls EXCEPT ![o] = [status |-> "dispatching", count |-> 0]]
        /\ items' = [p \in Parts |-> IF p \in batch
                     THEN [status |-> "dispatching", op |-> o] ELSE items[p]]
        /\ requests' = [requests EXCEPT ![r].pc = "claimed", ![r].op = o, ![r].todo = batch]
    /\ UNCHANGED <<clock, ledger, sending, chat, erasing, deletes>>

\* No candidate, one already attempted or recalled, incomplete, out of the window...
ClaimRefused(r) ==
    /\ requests[r].pc = "asked"
    /\ Goto(r, "done")
    /\ UNCHANGED <<clock, ledger, sending, recalls, items, chat, erasing, deletes>>
-----------------------------------------------------------------------------
(* The deletions                                                            *)

\* The turn's own parts before the others, later parts before earlier ones.
Before(p, q, own) == IF p[1] = q[1] THEN p[2] > q[2] ELSE p[1] = own
First(p, r) ==
    /\ p \in requests[r].todo
    /\ \A q \in requests[r].todo \ {p} : Before(p, q, requests[r].own)

Delete(r) ==
    /\ requests[r].pc = "claimed"
    /\ \E p \in Parts :
        /\ First(p, r)
        /\ erasing' = [erasing EXCEPT ![p] = "flying"]
        /\ deletes' = [deletes EXCEPT ![p] = @ + 1]
        /\ requests' = [requests EXCEPT ![r].pc = "await", ![r].part = p]
    /\ UNCHANGED <<clock, ledger, sending, recalls, items, chat>>

DeliverDeletion(p) ==
    /\ erasing[p] = "flying"
    /\ \/ erasing' = [erasing EXCEPT ![p] = "done"] /\ chat' = [chat EXCEPT ![p] = "gone"]
       \/ erasing' = [erasing EXCEPT ![p] = "refused"] /\ UNCHANGED chat
    /\ UNCHANGED <<clock, ledger, sending, recalls, items, requests, deletes>>

\* _map_protocol_result
DeleteOutcomes(p) ==
    {"unknown"} \cup (IF erasing[p] = "done" THEN {"succeeded"} ELSE {})
                \cup (IF erasing[p] = "refused" THEN {"definite_failure"} ELSE {})

DeleteAnswer(r) ==
    /\ requests[r].pc = "await"
    /\ \E s \in DeleteOutcomes(requests[r].part) :
          requests' = [requests EXCEPT ![r].pc = "record", ![r].outcome = s]
    /\ UNCHANGED <<clock, ledger, sending, recalls, items, chat, erasing, deletes>>

\* _finalize_item_sync
FinalizeItem(p, s) ==
    /\ items' = [items EXCEPT ![p].status = IF @ = "dispatching" THEN s ELSE @]
    /\ ledger' = IF items[p].status = "dispatching" /\ s = "succeeded"
                 THEN [ledger EXCEPT ![p].recalled = TRUE, ![p].updated = clock] ELSE ledger

\* After an unknown result nothing more is deleted.
Record(r) ==
    LET p == requests[r].part IN
    /\ requests[r].pc = "record"
    /\ FinalizeItem(p, requests[r].outcome)
    /\ requests' = [requests EXCEPT ![r].todo = @ \ {p},
            ![r].pc = IF requests[r].outcome = "unknown" THEN "cleanup" ELSE "claimed"]
    /\ UNCHANGED <<clock, sending, recalls, chat, erasing, deletes>>

\* _mark_remaining_unknown_sync
Remaining(o) ==
    [p \in Parts |-> IF items[p] # NoItem /\ items[p].op = o /\ items[p].status = "dispatching"
                     THEN [items[p] EXCEPT !.status = "unknown"] ELSE items[p]]

CleanUp(r) ==
    /\ requests[r].pc \in {"undo", "cleanup"}
    /\ items' = Remaining(requests[r].op)
    /\ Goto(r, "finish")
    /\ UNCHANGED <<clock, ledger, sending, recalls, chat, erasing, deletes>>

ItemsOf(o, s) == {p \in Parts : items[p] # NoItem /\ items[p].op = o /\ items[p].status = s}

\* Mutant: what is not known to have failed is not looked at.
FinalGuessed(o) ==
    IF ItemsOf(o, "definite_failure") = {} THEN "succeeded"
    ELSE IF ItemsOf(o, "succeeded") = {} THEN "definite_failure" ELSE "partial"
Final(o) ==
    LET done == ItemsOf(o, "succeeded")
        kept == ItemsOf(o, "definite_failure")
    IN  IF done \cup kept = {} \/ ItemsOf(o, "dispatching") \cup ItemsOf(o, "unknown") # {}
        THEN "unknown"
        ELSE IF kept = {} THEN "succeeded"
        ELSE IF done # {} THEN "partial" ELSE "definite_failure"

\* _finish_operation_sync
Finish(r) ==
    LET o == requests[r].op IN
    /\ requests[r].pc = "finish" \/ (requests[r].pc = "claimed" /\ requests[r].todo = {})
    /\ recalls' = [recalls EXCEPT ![o] =
            IF @.status = "dispatching"
            THEN [status |-> Final(o), count |-> Cardinality(ItemsOf(o, "succeeded"))] ELSE @]
    /\ Goto(r, "done")
    /\ UNCHANGED <<clock, ledger, sending, items, chat, erasing, deletes>>

\* The request is cancelled, or the adapter or a transaction raises.  The transaction
\* of a recorded item runs in a thread of its own and is done, or comes too late.
Cancel(r) ==
    /\ requests[r].pc \in {"claimed", "await", "record"}
    /\ \/ UNCHANGED <<items, ledger>>
       \/ requests[r].pc = "record" /\ FinalizeItem(requests[r].part, requests[r].outcome)
    /\ Goto(r, IF requests[r].pc = "claimed" THEN "undo" ELSE "cleanup")
    /\ UNCHANGED <<clock, sending, recalls, chat, erasing, deletes>>

\* A second cancellation: the clean-up of a claim is not shielded from it, and the
\* operation is not finished.
Abandon(r) ==
    /\ requests[r].pc \in {"undo", "cleanup", "finish"}
    /\ \/ requests[r].pc # "finish" /\ items' = Remaining(requests[r].op)
       \/ requests[r].pc # "cleanup" /\ UNCHANGED items
    /\ Goto(r, "done")
    /\ UNCHANGED <<clock, ledger, sending, recalls, chat, erasing, deletes>>

\* The process dies; the next one runs recover_interrupted_dispatches before all else.
Restart ==
    LET interrupted == {o \in Ops : recalls[o].status = "dispatching"} IN
    /\ sending' = {}
    /\ requests' = [r \in Requests |->
            IF requests[r] = Idle THEN Idle ELSE [requests[r] EXCEPT !.pc = "done"]]
    /\ items' = [p \in Parts |->
            IF /\ items[p] # NoItem /\ items[p].status = "dispatching"
               /\ items[p].op \in interrupted
            THEN [items[p] EXCEPT !.status = "unknown"] ELSE items[p]]
    /\ recalls' = [o \in Ops |-> IF o \in interrupted
            THEN [status |-> "unknown", count |-> Cardinality(ItemsOf(o, "succeeded"))]
            ELSE recalls[o]]
    /\ UNCHANGED <<clock, ledger, chat, erasing, deletes>>

Tick ==
    /\ clock < MaxTime
    /\ clock' = clock + 1
    /\ UNCHANGED <<ledger, sending, recalls, items, requests, chat, erasing, deletes>>

Next ==
    \/ Tick \/ Restart
    \/ \E o \in Ops : Begin(o)
    \/ \E p \in Parts : SendAnswer(p) \/ DeliverMessage(p) \/ DeliverDeletion(p)
    \/ \E r \in Requests :
        \/ \E a \in Asks : Ask(r, a)
        \/ Claim(r) \/ ClaimRefused(r) \/ Delete(r) \/ DeleteAnswer(r) \/ Record(r)
        \/ CleanUp(r) \/ Finish(r) \/ Cancel(r) \/ Abandon(r)

Spec == Init /\ [][Next]_vars
-----------------------------------------------------------------------------
(* The deletion of a message is requested at most once, however requests    *)
(* overlap, results stay unknown and acknowledgements are recalled with the *)
(* operation of another turn (_selection_sync, qq_recall_items).            *)
RecallOnce == \A p \in Parts : deletes[p] <= 1

(* A recall is of a whole operation: every part that it ever sent, or was   *)
(* sending while the claim was made, is an item of the recall.              *)
WholeOperation ==
    \A o \in Ops : recalls[o] # NoRecall =>
        \A p \in RowsOf(o) : items[p] # NoItem /\ items[p].op = o

(* A user's request touches only messages to that user, and of another      *)
(* operation than its own only what was sent before the turn that asked.    *)
OnlyAskedFor ==
    \A r \in Requests : requests[r] # Idle /\ requests[r].op # None =>
        \A p \in Parts : items[p] # NoItem /\ items[p].op = requests[r].op =>
            /\ requests[r].actor \in {Admin, ledger[p].user}
            /\ p[1] # requests[r].own => ledger[p].created <= requests[r].cutoff

(* What a decided recall reports is so: all messages are gone, or none, or  *)
(* as many as it counts, and a row is marked as recalled only if its        *)
(* message is gone.                                                         *)
ReportIsTrue ==
    /\ \A p \in Parts : ledger[p] # NoRow /\ ledger[p].recalled => chat[p] = "gone"
    /\ \A o \in Ops :
        LET mine == {p \in Parts : items[p] # NoItem /\ items[p].op = o}
            gone == {p \in mine : chat[p] = "gone"}
        IN  /\ recalls[o].status = "succeeded" => gone = mine
            /\ recalls[o].status = "definite_failure" => gone = {}
            /\ recalls[o].status = "partial" => Cardinality(gone) = recalls[o].count
=============================================================================
