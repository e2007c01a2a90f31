--------------------------- MODULE QQRecallProofs ---------------------------
(***************************************************************************)
(* Proofs about QQRecall, for any number of operations, parts, requests    *)
(* and users, and any window.                                              *)
(***************************************************************************)
EXTENDS QQRecall, FiniteSetTheorems, TLAPS

Steps == {"asked", "claimed", "await", "record", "undo", "cleanup", "finish", "done"}

LEMMA PartsFinite ==
    ASSUME NEW S \in SUBSET Parts
    PROVE  IsFiniteSet(S) /\ Cardinality(S) \in Nat
  <1>1. IsFiniteSet(1 .. MaxParts) /\ IsFiniteSet(Ops)
    BY FS_Interval, RecallConstants
  <1>2. IsFiniteSet(Parts)
    BY <1>1, FS_Product DEF Parts
  <1> QED
    BY <1>2, FS_Subset, FS_CardinalityType

LEMMA Typed ==
    ASSUME TypeOK
    PROVE  /\ clock \in Times /\ sending \subseteq Parts
           /\ ledger \in [Parts -> Row \cup {NoRow}] /\ recalls \in [Ops -> Recall \cup {NoRecall}]
           /\ items \in [Parts -> Item \cup {NoItem}]
           /\ requests \in [Requests -> Request \cup {Idle}]
           /\ chat \in [Parts -> {"none", "flying", "lost", "visible", "gone"}]
           /\ erasing \in [Parts -> {"none", "flying", "done", "refused"}]
           /\ deletes \in [Parts -> Nat]
  BY DEF TypeOK

\* Rows that are there differ from rows that are not.
LEMMA Present ==
    /\ \A x \in Row : x # NoRow /\ x.status # "none"
    /\ \A x \in Recall : x # NoRecall /\ x.status # "none"
    /\ \A x \in Item : x # NoItem /\ x.status # "none"
    /\ \A x \in Request : x # Idle /\ x.pc # "idle" /\ x.pc \in Steps
    /\ NoRow.status = "none" /\ NoRecall.status = "none" /\ NoItem.status = "none"
    /\ Idle.pc = "idle"
  BY DEF Row, NoRow, Recall, NoRecall, Settled, Item, NoItem, ItemEnds, Request, Idle, Steps

LEMMA Known ==
    ASSUME TypeOK, NEW r \in Requests, requests[r].pc # "idle"
    PROVE  /\ requests[r] \in Request /\ requests[r].pc \in Steps
           /\ requests[r].op \in Ops \cup {None} /\ requests[r].own \in Ops \cup {None}
           /\ requests[r].todo \in SUBSET Parts /\ requests[r].part \in Parts \cup {None}
           /\ requests[r].outcome \in ItemEnds /\ requests[r].cutoff \in Times
  <1>1. requests[r] \in Request
    BY Typed, Present
  <1> QED
    BY <1>1 DEF Request, Steps

\* A request goes on to another step, and nothing else of it changes.
Same(old, new) ==
    /\ new.actor = old.actor /\ new.own = old.own /\ new.cutoff = old.cutoff
    /\ new.op = old.op /\ new.part = old.part
Others(r) == \A q \in Requests \ {r} : requests'[q] = requests[q]

LEMMA Goes ==
    ASSUME TypeOK, NEW r \in Requests, requests[r].pc # "idle", NEW pc \in Steps, Goto(r, pc)
    PROVE  /\ requests' \in [Requests -> Request \cup {Idle}] /\ Others(r)
           /\ requests'[r].pc = pc /\ Same(requests[r], requests'[r])
           /\ requests'[r].todo = requests[r].todo /\ requests'[r].outcome = requests[r].outcome
  <1>1. requests[r] \in Request /\ requests \in [Requests -> Request \cup {Idle}]
    BY Known, Typed
  <1>2. [requests[r] EXCEPT !.pc = pc] \in Request
    BY <1>1 DEF Request, Steps
  <1>3. requests' = [requests EXCEPT ![r].pc = pc]
    BY DEF Goto
  <1> QED
    BY <1>1, <1>2, <1>3 DEF Others, Same, Request
-----------------------------------------------------------------------------
(* How the items, the rows of the ledger and the recalls move               *)

\* A request is about to put on file that the deletion of p ended so.
Reports(p, s) ==
    \E r \in Requests :
        requests[r].pc = "record" /\ requests[r].part = p /\ requests[r].outcome = s

\* A claim brings p into the recall of o.
Claims(p, r) ==
    /\ Claim(r) /\ p \in requests'[r].todo /\ p \in Parts
    /\ items'[p] = [status |-> "dispatching", op |-> requests'[r].op]

Ended(old, new, s) ==
    /\ old \in Item /\ new \in Item /\ old.status = "dispatching"
    /\ new.op = old.op /\ new.status = s

ItemMoves(p) ==
    \/ items'[p] = items[p]
    \/ items[p] = NoItem /\ \E r \in Requests : Claims(p, r)
    \/ Ended(items[p], items'[p], "unknown")
    \/ \E s \in ItemEnds : Ended(items[p], items'[p], s) /\ Reports(p, s)

Begins(p) == \E o \in Ops : Begin(o) /\ p = <<o, Cardinality(RowsOf(o)) + 1>>

Kin(old, new) ==
    /\ old \in Row /\ new \in Row /\ new.user = old.user /\ new.created = old.created

RowMoves(p) ==
    \/ ledger'[p] = ledger[p]
    \/ Begins(p) /\ ledger'[p] \in Row /\ ~ ledger'[p].recalled
    \/ /\ Kin(ledger[p], ledger'[p])
       /\ ledger'[p].recalled => ledger[p].recalled \/ Reports(p, "succeeded")

LEMMA Finalized ==
    ASSUME TypeOK, NEW q \in Parts \cup {None}, NEW s \in ItemEnds, FinalizeItem(q, s), NEW p \in Parts
    PROVE  /\ \/ items'[p] = items[p]
              \/ p = q /\ Ended(items[p], items'[p], s)
           /\ \/ ledger'[p] = ledger[p]
              \/ p = q /\ s = "succeeded" /\ Kin(ledger[p], ledger'[p])
           /\ items' \in [Parts -> Item \cup {NoItem}]
           /\ ledger' \in [Parts -> Row \cup {NoRow}]
  <1>0. /\ items \in [Parts -> Item \cup {NoItem}] /\ ledger \in [Parts -> Row \cup {NoRow}]
        /\ clock \in Times
    BY Typed
  <1>1. ASSUME NEW x \in Item PROVE [x EXCEPT !.status = s] \in Item
    BY DEF Item
  <1>2. [NoItem EXCEPT !.status = "none"] = NoItem
    BY DEF NoItem
  <1>3. ASSUME NEW x \in Row
        PROVE  Kin(x, [x EXCEPT !.recalled = TRUE, !.updated = clock])
    BY <1>0 DEF Kin, Row
  <1>4. [NoRow EXCEPT !.recalled = TRUE, !.updated = clock] = NoRow
    BY DEF NoRow
  <1>5. ASSUME NEW k \in Parts
        PROVE  \/ items'[k] = items[k]
               \/ k = q /\ Ended(items[k], items'[k], s)
    <2>1. CASE k # q \/ items[k].status # "dispatching"
      BY <1>0, <1>2, <2>1 DEF FinalizeItem, Item, NoItem
    <2>2. CASE k = q /\ items[k].status = "dispatching"
      <3>1. items[k] \in Item
        BY <1>0, <2>2, Present
      <3>2. items'[k] = [items[k] EXCEPT !.status = s]
        BY <1>0, <2>2 DEF FinalizeItem
      <3> QED
        BY <1>1, <2>2, <3>1, <3>2 DEF Ended, Item
    <2> QED
      BY <2>1, <2>2
  <1>6. ASSUME NEW k \in Parts
        PROVE  \/ ledger'[k] = ledger[k]
               \/ k = q /\ s = "succeeded" /\ Kin(ledger[k], ledger'[k])
    <2>1. CASE ledger' = ledger
      BY <2>1
    <2>2. CASE s = "succeeded" /\ ledger' = [ledger EXCEPT ![q].recalled = TRUE, ![q].updated = clock]
      <3>1. CASE k # q
        BY <1>0, <2>2, <3>1
      <3>2. CASE k = q
        <4>1. ledger'[k] = [ledger[k] EXCEPT !.recalled = TRUE, !.updated = clock]
          BY <1>0, <2>2, <3>2
        <4> QED
          BY <1>0, <1>3, <1>4, <2>2, <3>2, <4>1
      <3> QED
        BY <3>1, <3>2
    <2> QED
      BY <2>1, <2>2 DEF FinalizeItem
  <1>7. DOMAIN items' = Parts /\ items' = [k \in Parts |-> items'[k]]
        /\ DOMAIN ledger' = Parts /\ ledger' = [k \in Parts |-> ledger'[k]]
    BY <1>0 DEF FinalizeItem
  <1>8. \A k \in Parts : items'[k] \in Item \cup {NoItem} /\ ledger'[k] \in Row \cup {NoRow}
    BY <1>0, <1>5, <1>6 DEF Ended, Kin
  <1> QED
    BY <1>5, <1>6, <1>7, <1>8

LEMMA RemainingMoves ==
    ASSUME TypeOK, NEW o, items' = Remaining(o), NEW p \in Parts
    PROVE  /\ items'[p] = items[p] \/ Ended(items[p], items'[p], "unknown")
           /\ items' \in [Parts -> Item \cup {NoItem}]
  <1>0. items \in [Parts -> Item \cup {NoItem}]
    BY Typed
  <1>1. ASSUME NEW x \in Item, x.status = "dispatching"
        PROVE  Ended(x, [x EXCEPT !.status = "unknown"], "unknown")
    BY <1>1 DEF Ended, Item, ItemEnds
  <1>2. ASSUME NEW k \in Parts
        PROVE  items'[k] = items[k] \/ Ended(items[k], items'[k], "unknown")
    BY <1>0, <1>1 DEF Remaining
  <1>3. \A k \in Parts : items'[k] \in Item \cup {NoItem}
    BY <1>0, <1>2 DEF Ended
  <1>4. items' = [k \in Parts |-> items'[k]]
    BY DEF Remaining
  <1> QED
    BY <1>2, <1>3, <1>4

\* What a claim of operation o with these messages does.
Claimed(r, o, batch) ==
    /\ batch = RowsOf(o) \cup OwnAcks(r)
    /\ RowsOf(o) # {} /\ (\A p \in RowsOf(o) : Wanted(p, r))
    /\ recalls[o] = NoRecall /\ (\A p \in batch : items[p] = NoItem)
    /\ recalls' \in [Ops -> Recall \cup {NoRecall}]
    /\ recalls'[o] # NoRecall /\ recalls'[o].status = "dispatching"
    /\ (\A k \in Ops \ {o} : recalls'[k] = recalls[k])
    /\ items' \in [Parts -> Item \cup {NoItem}]
    /\ \A p \in batch : items'[p] = [status |-> "dispatching", op |-> o] /\ items'[p] \in Item
    /\ \A p \in Parts \ batch : items'[p] = items[p]
    /\ requests' \in [Requests -> Request \cup {Idle}] /\ Others(r)
    /\ requests[r].pc = "asked" /\ requests'[r].pc = "claimed"
    /\ requests'[r].op = o /\ requests'[r].todo = batch
    /\ requests'[r].actor = requests[r].actor /\ requests'[r].own = requests[r].own
    /\ requests'[r].cutoff = requests[r].cutoff
    /\ UNCHANGED <<clock, ledger, sending, chat, erasing, deletes>>

LEMMA ClaimFacts ==
    ASSUME TypeOK, NEW r \in Requests, Claim(r)
    PROVE  \E o \in Ops \ {requests[r].own}, batch \in SUBSET Parts : Claimed(r, o, batch)
  <1> DEFINE Batch(o) == RowsOf(o) \cup OwnAcks(r)
  <1>1. PICK o \in Ops \ {requests[r].own} :
            /\ RowsOf(o) # {} /\ (\A p \in RowsOf(o) : Wanted(p, r))
            /\ recalls[o] = NoRecall /\ (\A p \in Batch(o) : ~ Taken(p))
            /\ recalls' = [recalls EXCEPT ![o] = [status |-> "dispatching", count |-> 0]]
            /\ items' = [p \in Parts |-> IF p \in Batch(o)
                         THEN [status |-> "dispatching", op |-> o] ELSE items[p]]
            /\ requests' = [requests EXCEPT ![r].pc = "claimed", ![r].op = o, ![r].todo = Batch(o)]
    BY DEF Claim
  <1> DEFINE batch == Batch(o)
  <1>2. batch \in SUBSET Parts /\ batch = RowsOf(o) \cup OwnAcks(r)
    BY DEF RowsOf, OwnAcks
  <1>3. [status |-> "dispatching", count |-> 0] \in Recall /\ [status |-> "dispatching", op |-> o] \in Item
    BY DEF Recall, Item
  <1>4. requests[r].pc = "asked" /\ requests[r] \in Request
    BY Known DEF Claim
  <1>5. \A p \in batch : items[p] = NoItem
    BY <1>1 DEF Taken
  <1> HIDE DEF Batch
  <1>6. /\ requests' \in [Requests -> Request \cup {Idle}] /\ Others(r)
        /\ requests'[r].pc = "claimed" /\ requests'[r].op = o /\ requests'[r].todo = batch
        /\ requests'[r].actor = requests[r].actor /\ requests'[r].own = requests[r].own
        /\ requests'[r].cutoff = requests[r].cutoff
    <2>1. [requests[r] EXCEPT !.pc = "claimed", !.op = o, !.todo = batch] \in Request
      BY <1>2, <1>4 DEF Request
    <2>2. requests' = [requests EXCEPT ![r] =
              [requests[r] EXCEPT !.pc = "claimed", !.op = o, !.todo = batch]]
      BY <1>1, Typed
    <2>3. requests'[r] = [requests[r] EXCEPT !.pc = "claimed", !.op = o, !.todo = batch]
      BY <2>2, Typed
    <2> QED
      BY <1>4, <2>1, <2>2, <2>3, Typed DEF Request, Others
  <1>7. /\ recalls' \in [Ops -> Recall \cup {NoRecall}]
        /\ recalls'[o] # NoRecall /\ recalls'[o].status = "dispatching"
        /\ \A k \in Ops \ {o} : recalls'[k] = recalls[k]
    BY <1>1, <1>3, Typed, Present
  <1>8. /\ items' \in [Parts -> Item \cup {NoItem}]
        /\ \A p \in batch : items'[p] = [status |-> "dispatching", op |-> o] /\ items'[p] \in Item
        /\ \A p \in Parts \ batch : items'[p] = items[p]
    BY <1>1, <1>2, <1>3, Typed
  <1>9. UNCHANGED <<clock, ledger, sending, chat, erasing, deletes>>
    BY DEF Claim
  <1> QED
    BY <1>1, <1>2, <1>4, <1>5, <1>6, <1>7, <1>8, <1>9 DEF Claimed
-----------------------------------------------------------------------------
(* What the other steps of a request do                                     *)

LEMMA BeginFacts ==
    ASSUME TypeOK, NEW o \in Ops, Begin(o)
    PROVE  LET q == <<o, Cardinality(RowsOf(o)) + 1>> IN
            /\ q \in Parts /\ recalls[o] = NoRecall
            /\ ledger' \in [Parts -> Row \cup {NoRow}]
            /\ ledger'[q] \in Row /\ ~ ledger'[q].recalled
            /\ \A p \in Parts \ {q} : ledger'[p] = ledger[p]
            /\ chat' = [chat EXCEPT ![q] = "flying"] /\ sending' \subseteq Parts
            /\ UNCHANGED <<clock, recalls, items, requests, erasing, deletes>>
  <1> DEFINE q == <<o, Cardinality(RowsOf(o)) + 1>>
  <1>1. PICK w \in Writes :
          ledger' = [ledger EXCEPT ![q] =
                [status |-> "unknown", user |-> w.user, surface |-> w.surface,
                 created |-> clock, updated |-> clock, recalled |-> FALSE]]
    BY DEF Begin
  <1>2. w \in [user : Users, surface : Surfaces]
    BY RecallConstants
  <1> DEFINE row == [status |-> "unknown", user |-> w.user, surface |-> w.surface,
                     created |-> clock, updated |-> clock, recalled |-> FALSE]
  <1>3. row \in Row /\ ~ row.recalled
    BY <1>2, Typed DEF Row
  <1>4. /\ q \in Parts /\ recalls[o] = NoRecall
        /\ chat' = [chat EXCEPT ![q] = "flying"] /\ sending' = sending \cup {q}
        /\ UNCHANGED <<clock, recalls, items, requests, erasing, deletes>>
    BY DEF Begin, Sealed
  <1>5. ledger' = [ledger EXCEPT ![q] = row]
    BY <1>1
  <1> HIDE DEF q, row
  <1>6. /\ ledger' \in [Parts -> Row \cup {NoRow}]
        /\ ledger'[q] = row
        /\ \A p \in Parts \ {q} : ledger'[p] = ledger[p]
    BY <1>3, <1>4, <1>5, Typed
  <1> QED
    BY <1>3, <1>4, <1>6, Typed DEF q

LEMMA SendFacts ==
    ASSUME TypeOK, NEW q \in Parts, SendAnswer(q)
    PROVE  /\ ledger' \in [Parts -> Row \cup {NoRow}] /\ sending' \subseteq Parts
           /\ \A p \in Parts : \/ ledger'[p] = ledger[p]
                               \/ /\ Kin(ledger[p], ledger'[p])
                                  /\ ledger'[p].recalled = ledger[p].recalled
           /\ UNCHANGED <<clock, recalls, items, requests, chat, erasing, deletes>>
  <1>1. PICK s \in SendOutcomes(q) : ledger' = [ledger EXCEPT ![q] = Dispatched(@, s)]
    BY DEF SendAnswer
  <1>2. s \in {"unknown", "sent", "failed"}
    BY DEF SendOutcomes
  <1>3. ASSUME NEW x \in Row
        PROVE  LET y == [x EXCEPT !.status = s, !.updated = clock] IN
               Kin(x, y) /\ y.recalled = x.recalled
    BY <1>2, Typed DEF Kin, Row
  <1>4. ledger[q] \in Row \/ ledger[q] = NoRow
    BY Typed
  <1>5. \/ ledger'[q] = ledger[q]
        \/ /\ Kin(ledger[q], ledger'[q])
           /\ ledger'[q].recalled = ledger[q].recalled
    BY <1>1, <1>3, <1>4, Present, Typed DEF Dispatched
  <1>6. \A p \in Parts \ {q} : ledger'[p] = ledger[p]
    BY <1>1, Typed
  <1>7. \A p \in Parts : \/ ledger'[p] = ledger[p]
                         \/ /\ Kin(ledger[p], ledger'[p])
                            /\ ledger'[p].recalled = ledger[p].recalled
    BY <1>5, <1>6
  <1>8. ledger' = [p \in Parts |-> ledger'[p]]
    BY <1>1, Typed
  <1>9. \A p \in Parts : ledger'[p] \in Row \cup {NoRow}
    BY <1>7, Typed DEF Kin
  <1> QED
    BY <1>7, <1>8, <1>9, Typed DEF SendAnswer

LEMMA DeleteFacts ==
    ASSUME TypeOK, NEW r \in Requests, Delete(r)
    PROVE  \E q \in Parts :
            /\ requests[r].pc = "claimed" /\ q \in requests[r].todo
            /\ erasing' = [erasing EXCEPT ![q] = "flying"]
            /\ deletes' = [deletes EXCEPT ![q] = @ + 1]
            /\ requests' \in [Requests -> Request \cup {Idle}] /\ Others(r)
            /\ requests'[r].pc = "await" /\ requests'[r].part = q
            /\ requests'[r].todo = requests[r].todo /\ requests'[r].op = requests[r].op
            /\ requests'[r].actor = requests[r].actor /\ requests'[r].own = requests[r].own
            /\ requests'[r].cutoff = requests[r].cutoff
            /\ UNCHANGED <<clock, ledger, sending, recalls, items, chat>>
  <1>1. requests[r].pc = "claimed" /\ requests[r] \in Request
    BY Known DEF Delete
  <1>2. PICK q \in Parts :
            /\ First(q, r)
            /\ erasing' = [erasing EXCEPT ![q] = "flying"]
            /\ deletes' = [deletes EXCEPT ![q] = @ + 1]
            /\ requests' = [requests EXCEPT ![r].pc = "await", ![r].part = q]
    BY DEF Delete
  <1>3. requests'[r] = [requests[r] EXCEPT !.pc = "await", !.part = q]
        /\ requests' = [requests EXCEPT ![r] = [requests[r] EXCEPT !.pc = "await", !.part = q]]
    BY <1>2, Typed
  <1>4. [requests[r] EXCEPT !.pc = "await", !.part = q] \in Request
    BY <1>1 DEF Request
  <1>5. requests' \in [Requests -> Request \cup {Idle}] /\ Others(r)
    BY <1>3, <1>4, Typed DEF Others
  <1> QED
    BY <1>1, <1>2, <1>3, <1>5 DEF Delete, First, Request

LEMMA AnswerFacts ==
    ASSUME TypeOK, NEW r \in Requests, DeleteAnswer(r)
    PROVE  /\ requests[r].pc = "await" /\ requests'[r].pc = "record"
           /\ requests'[r].outcome \in DeleteOutcomes(requests[r].part)
           /\ requests' \in [Requests -> Request \cup {Idle}] /\ Others(r)
           /\ requests'[r].todo = requests[r].todo /\ Same(requests[r], requests'[r])
           /\ UNCHANGED <<clock, ledger, sending, recalls, items, chat, erasing, deletes>>
  <1>1. requests[r].pc = "await" /\ requests[r] \in Request
    BY Known DEF DeleteAnswer
  <1>2. PICK s \in DeleteOutcomes(requests[r].part) :
            requests' = [requests EXCEPT ![r].pc = "record", ![r].outcome = s]
    BY DEF DeleteAnswer
  <1>3. s \in ItemEnds
    BY DEF DeleteOutcomes, ItemEnds
  <1>4. requests'[r] = [requests[r] EXCEPT !.pc = "record", !.outcome = s]
        /\ requests' = [requests EXCEPT ![r] = [requests[r] EXCEPT !.pc = "record", !.outcome = s]]
    BY <1>2, Typed
  <1>5. [requests[r] EXCEPT !.pc = "record", !.outcome = s] \in Request
    BY <1>1, <1>3 DEF Request
  <1>6. requests' \in [Requests -> Request \cup {Idle}] /\ Others(r)
    BY <1>4, <1>5, Typed DEF Others
  <1> QED
    BY <1>1, <1>2, <1>4, <1>6 DEF DeleteAnswer, Same, Request

LEMMA RecordFacts ==
    ASSUME TypeOK, NEW r \in Requests, Record(r)
    PROVE  /\ requests[r].pc = "record" /\ requests'[r].pc \in {"claimed", "cleanup"}
           /\ FinalizeItem(requests[r].part, requests[r].outcome)
           /\ requests' \in [Requests -> Request \cup {Idle}] /\ Others(r)
           /\ requests'[r].todo = requests[r].todo \ {requests[r].part}
           /\ Same(requests[r], requests'[r])
           /\ UNCHANGED <<clock, sending, recalls, chat, erasing, deletes>>
  <1> DEFINE pc == IF requests[r].outcome = "unknown" THEN "cleanup" ELSE "claimed"
             todo == requests[r].todo \ {requests[r].part}
  <1>1. requests[r].pc = "record" /\ requests[r] \in Request /\ todo \in SUBSET Parts
    BY Known DEF Record
  <1>2. requests' = [requests EXCEPT ![r].todo = @ \ {requests[r].part}, ![r].pc = pc]
    BY DEF Record
  <1>3. pc \in {"claimed", "cleanup"}
    OBVIOUS
  <1>4. requests' = [requests EXCEPT ![r] = [requests[r] EXCEPT !.todo = todo, !.pc = pc]]
    BY <1>2, Typed
  <1> HIDE DEF pc, todo
  <1>5. requests'[r] = [requests[r] EXCEPT !.todo = todo, !.pc = pc]
    BY <1>4, Typed
  <1>6. [requests[r] EXCEPT !.todo = todo, !.pc = pc] \in Request
    BY <1>1, <1>3 DEF Request
  <1>7. requests' \in [Requests -> Request \cup {Idle}] /\ Others(r)
    BY <1>4, <1>6, Typed DEF Others
  <1> QED
    BY <1>1, <1>3, <1>5, <1>7 DEF Record, Same, Request, todo

LEMMA FinishFacts ==
    ASSUME TypeOK, NEW r \in Requests, Finish(r)
    PROVE  LET o == requests[r].op IN
           /\ requests[r].pc \in {"claimed", "finish"} /\ Goto(r, "done")
           /\ recalls' \in [Ops -> Recall \cup {NoRecall}]
           /\ \A k \in Ops : \/ recalls'[k] = recalls[k]
                             \/ /\ k = o /\ recalls[k].status = "dispatching"
                                /\ recalls'[k] = [status |-> Final(k),
                                          count |-> Cardinality(ItemsOf(k, "succeeded"))]
                                /\ recalls'[k] \in Recall
           /\ UNCHANGED <<clock, ledger, sending, items, chat, erasing, deletes>>
  <1> DEFINE o == requests[r].op
             final == [status |-> Final(o), count |-> Cardinality(ItemsOf(o, "succeeded"))]
  <1>1. Final(o) \in Settled /\ ItemsOf(o, "succeeded") \in SUBSET Parts
    BY DEF Final, Settled, ItemsOf
  <1>2. final \in Recall
    BY <1>1, PartsFinite DEF Recall
  <1>3. recalls' = [recalls EXCEPT ![o] = IF @.status = "dispatching" THEN final ELSE @]
    BY DEF Finish
  <1>4. \A k \in Ops : \/ recalls'[k] = recalls[k]
                       \/ k = o /\ recalls[k].status = "dispatching" /\ recalls'[k] = final
    BY <1>3, Typed
  <1>5. recalls' \in [Ops -> Recall \cup {NoRecall}]
    BY <1>2, <1>3, Typed
  <1> QED
    BY <1>2, <1>4, <1>5 DEF Finish

LEMMA RestartFacts ==
    ASSUME TypeOK, Restart
    PROVE  /\ sending' = {} /\ requests' \in [Requests -> Request \cup {Idle}]
           /\ \A r \in Requests : \/ requests'[r] = requests[r] /\ requests[r] = Idle
                                  \/ /\ requests[r] \in Request
                                     /\ requests'[r].pc = "done" /\ Same(requests[r], requests'[r])
           /\ items' \in [Parts -> Item \cup {NoItem}]
           /\ \A p \in Parts : items'[p] = items[p] \/ Ended(items[p], items'[p], "unknown")
           /\ recalls' \in [Ops -> Recall \cup {NoRecall}]
           /\ \A o \in Ops : \/ recalls'[o] = recalls[o]
                             \/ recalls'[o] \in Recall /\ recalls'[o].status = "unknown"
                                /\ recalls[o].status = "dispatching"
           /\ UNCHANGED <<clock, ledger, chat, erasing, deletes>>
  <1> DEFINE interrupted == {o \in Ops : recalls[o].status = "dispatching"}
  <1>1. ASSUME NEW x \in Request
        PROVE  LET y == [x EXCEPT !.pc = "done"] IN y \in Request /\ y.pc = "done" /\ Same(x, y)
    BY DEF Request, Same
  <1>2. requests' = [r \in Requests |->
            IF requests[r] = Idle THEN Idle ELSE [requests[r] EXCEPT !.pc = "done"]]
    BY DEF Restart
  <1>3. \A r \in Requests : \/ requests'[r] = requests[r] /\ requests[r] = Idle
                            \/ /\ requests[r] \in Request /\ requests'[r] \in Request
                               /\ requests'[r].pc = "done" /\ Same(requests[r], requests'[r])
    BY <1>1, <1>2, Typed
  <1>4. ASSUME NEW x \in Item, x.status = "dispatching"
        PROVE  Ended(x, [x EXCEPT !.status = "unknown"], "unknown")
    BY <1>4 DEF Ended, Item, ItemEnds
  <1>5. items' = [p \in Parts |->
            IF /\ items[p] # NoItem /\ items[p].status = "dispatching"
               /\ items[p].op \in interrupted
            THEN [items[p] EXCEPT !.status = "unknown"] ELSE items[p]]
    BY DEF Restart
  <1>6. \A p \in Parts : items'[p] = items[p] \/ Ended(items[p], items'[p], "unknown")
    BY <1>4, <1>5, Typed
  <1>7. recalls' = [o \in Ops |-> IF o \in interrupted
            THEN [status |-> "unknown", count |-> Cardinality(ItemsOf(o, "succeeded"))]
            ELSE recalls[o]]
    BY DEF Restart
  <1>8. ASSUME NEW o \in Ops
        PROVE  [status |-> "unknown", count |-> Cardinality(ItemsOf(o, "succeeded"))] \in Recall
    <2>1. ItemsOf(o, "succeeded") \in SUBSET Parts
      BY DEF ItemsOf
    <2> QED
      BY <2>1, PartsFinite DEF Recall, Settled
  <1>9. \A o \in Ops : \/ recalls'[o] = recalls[o]
                       \/ recalls'[o] \in Recall /\ recalls'[o].status = "unknown"
                          /\ recalls[o].status = "dispatching"
    BY <1>7, <1>8
  <1> HIDE DEF interrupted
  <1>10. requests' \in [Requests -> Request \cup {Idle}]
    BY <1>2, <1>3
  <1>11. items' \in [Parts -> Item \cup {NoItem}]
    BY <1>5, <1>6, Typed DEF Ended
  <1>12. recalls' \in [Ops -> Recall \cup {NoRecall}]
    BY <1>7, <1>9, Typed
  <1> QED
    BY <1>3, <1>6, <1>9, <1>10, <1>11, <1>12 DEF Restart
-----------------------------------------------------------------------------
(* Types, and all moves at once                                             *)

LEMMA AskFacts ==
    ASSUME TypeOK, NEW r \in Requests, NEW a \in Asks, Ask(r, a)
    PROVE  /\ requests[r] = Idle /\ requests'[r].pc = "asked" /\ requests'[r].op = None
           /\ requests' \in [Requests -> Request \cup {Idle}] /\ Others(r)
           /\ UNCHANGED <<clock, ledger, sending, recalls, items, chat, erasing, deletes>>
  <1> DEFINE new == [pc |-> "asked", actor |-> a.actor, own |-> a.own, cutoff |-> clock, op |-> None,
                     todo |-> {}, part |-> None, outcome |-> "unknown"]
  <1>1. new \in Request
    BY Typed, RecallConstants DEF Request, ItemEnds
  <1>2. requests' = [requests EXCEPT ![r] = new] /\ requests[r] = Idle
    BY DEF Ask
  <1>3. new.pc = "asked" /\ new.op = None
    OBVIOUS
  <1> HIDE DEF new
  <1>4. requests \in [Requests -> Request \cup {Idle}]
    BY Typed
  <1>5. requests' \in [Requests -> Request \cup {Idle}] /\ requests'[r] = new /\ Others(r)
    BY <1>1, <1>2, <1>4 DEF Others
  <1>6. UNCHANGED <<clock, ledger, sending, recalls, items, chat, erasing, deletes>>
    BY DEF Ask
  <1> QED
    BY <1>2, <1>3, <1>5, <1>6

\* What a request is about stays, once it has been claimed.
Kept(r) ==
    /\ requests'[r].actor = requests[r].actor /\ requests'[r].own = requests[r].own
    /\ requests'[r].cutoff = requests[r].cutoff /\ requests'[r].op = requests[r].op

RequestMoves(r) ==
    \/ requests'[r] = requests[r]
    \/ requests'[r].op = None
    \/ Claim(r)
    \/ requests[r].pc # "idle" /\ Kept(r)

RecallMoves(o) ==
    \/ recalls'[o] = recalls[o]
    \/ \E r \in Requests, batch \in SUBSET Parts : Claimed(r, o, batch)
    \/ /\ recalls[o].status = "dispatching" /\ recalls'[o] \in Recall
       /\ \/ recalls'[o].status = "unknown"
          \/ /\ recalls'[o] = [status |-> Final(o), count |-> Cardinality(ItemsOf(o, "succeeded"))]
             /\ UNCHANGED items

AllMove ==
    /\ \A p \in Parts : ItemMoves(p) /\ RowMoves(p)
    /\ \A o \in Ops : RecallMoves(o)
    /\ \A r \in Requests : RequestMoves(r)

LEMMA Walks ==
    ASSUME TypeOK, NEW r \in Requests, requests[r].pc # "idle",
           NEW pc \in Steps, Goto(r, pc)
    PROVE  /\ requests' \in [Requests -> Request \cup {Idle}]
           /\ \A q \in Requests : RequestMoves(q)
  BY Goes DEF RequestMoves, Kept, Same, Others

LEMMA NextMoves ==
    ASSUME TypeOK, [Next]_vars
    PROVE  TypeOK' /\ AllMove
  <1>0. CASE UNCHANGED vars
    BY <1>0 DEF vars, TypeOK, AllMove, ItemMoves, RowMoves, RequestMoves, RecallMoves
  <1>1. ASSUME UNCHANGED <<ledger, recalls, items, requests>> PROVE AllMove
    BY <1>1 DEF AllMove, ItemMoves, RowMoves, RequestMoves, RecallMoves
  <1>2. CASE Tick
    <2>1. clock' \in Times /\ UNCHANGED <<ledger, sending, recalls, items, requests, chat, erasing, deletes>>
      BY <1>2, Typed, RecallConstants DEF Tick, Times
    <2> QED
      BY <1>1, <2>1 DEF TypeOK
  <1>3. CASE Restart
    <2>1. TypeOK'
      BY <1>3, RestartFacts DEF TypeOK
    <2>2. \A r \in Requests : RequestMoves(r)
      BY <1>3, RestartFacts, Present DEF RequestMoves, Kept, Same
    <2>3. \A p \in Parts : ItemMoves(p) /\ RowMoves(p)
      BY <1>3, RestartFacts DEF ItemMoves, RowMoves
    <2>4. \A o \in Ops : RecallMoves(o)
      BY <1>3, RestartFacts DEF RecallMoves
    <2> QED
      BY <2>1, <2>2, <2>3, <2>4 DEF AllMove
  <1>4. ASSUME NEW o \in Ops, Begin(o) PROVE TypeOK' /\ AllMove
    <2>1. TypeOK'
      BY <1>4, BeginFacts DEF TypeOK
    <2>2. \A p \in Parts : RowMoves(p)
      BY <1>4, BeginFacts DEF RowMoves, Begins
    <2> QED
      BY <1>4, <2>1, <2>2, BeginFacts DEF AllMove, ItemMoves, RequestMoves, RecallMoves
  <1>5. ASSUME NEW q \in Parts, SendAnswer(q) PROVE TypeOK' /\ AllMove
    <2>1. TypeOK'
      BY <1>5, SendFacts DEF TypeOK
    <2> QED
      BY <1>5, <2>1, SendFacts DEF AllMove, ItemMoves, RequestMoves, RowMoves, RecallMoves
  <1>6. ASSUME NEW q \in Parts, DeliverMessage(q) \/ DeliverDeletion(q) PROVE TypeOK' /\ AllMove
    <2>1. TypeOK'
      BY <1>6 DEF TypeOK, DeliverMessage, DeliverDeletion
    <2>2. UNCHANGED <<ledger, recalls, items, requests>>
      BY <1>6 DEF DeliverMessage, DeliverDeletion
    <2> QED
      BY <2>1, <2>2, <1>1
  <1>7. ASSUME NEW r \in Requests, NEW a \in Asks, Ask(r, a) PROVE TypeOK' /\ AllMove
    <2>1. TypeOK'
      BY <1>7, AskFacts DEF TypeOK
    <2> QED
      BY <1>7, <2>1, AskFacts DEF AllMove, ItemMoves, RowMoves, RequestMoves, RecallMoves, Others
  <1>8. ASSUME NEW r \in Requests, Claim(r) PROVE TypeOK' /\ AllMove
    <2>0. PICK o \in Ops \ {requests[r].own}, batch \in SUBSET Parts : Claimed(r, o, batch)
      BY <1>8, ClaimFacts
    <2>1. /\ \A p \in batch : items[p] = NoItem
          /\ recalls' \in [Ops -> Recall \cup {NoRecall}]
          /\ recalls'[o] # NoRecall /\ \A k \in Ops \ {o} : recalls'[k] = recalls[k]
          /\ items' \in [Parts -> Item \cup {NoItem}]
          /\ \A p \in batch : items'[p] = [status |-> "dispatching", op |-> o]
          /\ \A p \in Parts \ batch : items'[p] = items[p]
          /\ requests' \in [Requests -> Request \cup {Idle}] /\ Others(r)
          /\ requests'[r].op = o /\ requests'[r].todo = batch
          /\ UNCHANGED <<clock, ledger, sending, chat, erasing, deletes>>
      BY <2>0 DEF Claimed
    <2>2. TypeOK'
      BY <2>1 DEF TypeOK
    <2>3. \A p \in Parts : ItemMoves(p) /\ RowMoves(p)
      BY <1>8, <2>1 DEF ItemMoves, Claims, RowMoves
    <2>4. \A k \in Ops : RecallMoves(k)
      BY <2>0, <2>1 DEF RecallMoves
    <2>5. \A q \in Requests : RequestMoves(q)
      BY <1>8, <2>1 DEF RequestMoves, Others
    <2> QED
      BY <2>2, <2>3, <2>4, <2>5 DEF AllMove
  <1>9. ASSUME NEW r \in Requests, ClaimRefused(r) PROVE TypeOK' /\ AllMove
    <2>1. /\ requests[r].pc # "idle" /\ Goto(r, "done") /\ "done" \in Steps
          /\ UNCHANGED <<clock, ledger, sending, recalls, items, chat, erasing, deletes>>
      BY <1>9 DEF ClaimRefused, Steps
    <2>2. requests' \in [Requests -> Request \cup {Idle}] /\ \A q \in Requests : RequestMoves(q)
      BY <2>1, Walks
    <2> QED
      BY <2>1, <2>2 DEF TypeOK, AllMove, ItemMoves, RowMoves, RecallMoves
  <1>10. ASSUME NEW r \in Requests, Delete(r) PROVE TypeOK' /\ AllMove
    <2>1. PICK q \in Parts :
            /\ erasing' = [erasing EXCEPT ![q] = "flying"]
            /\ deletes' = [deletes EXCEPT ![q] = @ + 1]
            /\ requests' \in [Requests -> Request \cup {Idle}] /\ Others(r)
            /\ requests[r].pc = "claimed" /\ Kept(r)
            /\ UNCHANGED <<clock, ledger, sending, recalls, items, chat>>
      BY <1>10, DeleteFacts DEF Kept
    <2>2. TypeOK'
      BY <2>1 DEF TypeOK
    <2> QED
      BY <2>1, <2>2 DEF AllMove, ItemMoves, RowMoves, RequestMoves, RecallMoves, Others
  <1>11. ASSUME NEW r \in Requests, DeleteAnswer(r) PROVE TypeOK' /\ AllMove
    <2>1. TypeOK'
      BY <1>11, AnswerFacts DEF TypeOK
    <2> QED
      BY <1>11, <2>1, AnswerFacts
      DEF AllMove, ItemMoves, RowMoves, RequestMoves, RecallMoves, Others, Kept, Same
  <1>12. ASSUME NEW r \in Requests, requests[r].pc = "record",
                FinalizeItem(requests[r].part, requests[r].outcome)
         PROVE  /\ items' \in [Parts -> Item \cup {NoItem}] /\ ledger' \in [Parts -> Row \cup {NoRow}]
                /\ \A p \in Parts : ItemMoves(p) /\ RowMoves(p)
    <2> DEFINE q == requests[r].part
               s == requests[r].outcome
    <2>1. q \in Parts \cup {None} /\ s \in ItemEnds
      BY <1>12, Known
    <2>2. Reports(q, s)
      BY <1>12 DEF Reports
    <2>3. FinalizeItem(q, s)
      BY <1>12
    <2> HIDE DEF q, s
    <2>4. ASSUME NEW p \in Parts PROVE ItemMoves(p) /\ RowMoves(p)
      <3>1. /\ items'[p] = items[p] \/ (p = q /\ Ended(items[p], items'[p], s))
            /\ ledger'[p] = ledger[p] \/ (p = q /\ s = "succeeded" /\ Kin(ledger[p], ledger'[p]))
        BY <2>1, <2>3, Finalized
      <3> QED
        BY <3>1, <2>1, <2>2 DEF ItemMoves, RowMoves
    <2>5. \/ items' \in [Parts -> Item \cup {NoItem}] /\ ledger' \in [Parts -> Row \cup {NoRow}]
          \/ Parts = {}
      BY <2>1, <2>3, Finalized
    <2>6. Parts # {} \/ (items' \in [Parts -> Item \cup {NoItem}] /\ ledger' \in [Parts -> Row \cup {NoRow}])
      BY <2>3, Typed DEF FinalizeItem
    <2> QED
      BY <2>4, <2>5, <2>6
  <1>13. ASSUME NEW r \in Requests, Record(r) PROVE TypeOK' /\ AllMove
    <2>1. /\ items' \in [Parts -> Item \cup {NoItem}] /\ ledger' \in [Parts -> Row \cup {NoRow}]
          /\ \A p \in Parts : ItemMoves(p) /\ RowMoves(p)
      BY <1>12, <1>13, RecordFacts
    <2>2. TypeOK'
      BY <1>13, <2>1, RecordFacts DEF TypeOK
    <2>3. \A q \in Requests : RequestMoves(q)
      BY <1>13, RecordFacts DEF RequestMoves, Others, Kept, Same
    <2> QED
      BY <1>13, <2>1, <2>2, <2>3, RecordFacts DEF AllMove, RecallMoves
  <1>14. ASSUME NEW r \in Requests, CleanUp(r) \/ Abandon(r) PROVE TypeOK' /\ AllMove
    <2>1. /\ requests[r].pc # "idle" /\ (Goto(r, "finish") \/ Goto(r, "done"))
          /\ "finish" \in Steps /\ "done" \in Steps
          /\ items' = Remaining(requests[r].op) \/ UNCHANGED items
          /\ UNCHANGED <<clock, ledger, sending, recalls, chat, erasing, deletes>>
      BY <1>14 DEF CleanUp, Abandon, Steps
    <2>2. requests' \in [Requests -> Request \cup {Idle}] /\ \A q \in Requests : RequestMoves(q)
      BY <2>1, Walks
    <2>3. \A p \in Parts : ItemMoves(p)
      BY <2>1, RemainingMoves DEF ItemMoves
    <2>4. items' \in [Parts -> Item \cup {NoItem}]
      <3>1. CASE UNCHANGED items
        BY <3>1, Typed
      <3>2. CASE items' = Remaining(requests[r].op) /\ Parts # {}
        BY <3>2, RemainingMoves
      <3>3. CASE items' = Remaining(requests[r].op) /\ Parts = {}
        BY <3>3 DEF Remaining
      <3> QED
        BY <2>1, <3>1, <3>2, <3>3
    <2> QED
      BY <2>1, <2>2, <2>3, <2>4 DEF TypeOK, AllMove, RowMoves, RecallMoves
  <1>15. ASSUME NEW r \in Requests, Finish(r) PROVE TypeOK' /\ AllMove
    <2>1. requests[r].pc # "idle" /\ Goto(r, "done") /\ "done" \in Steps
      BY <1>15, FinishFacts DEF Steps
    <2>2. requests' \in [Requests -> Request \cup {Idle}] /\ \A q \in Requests : RequestMoves(q)
      BY <2>1, Walks
    <2>3. \A o \in Ops : RecallMoves(o)
      BY <1>15, FinishFacts DEF RecallMoves
    <2>4. TypeOK'
      BY <1>15, <2>2, FinishFacts DEF TypeOK
    <2> QED
      BY <1>15, <2>2, <2>3, <2>4, FinishFacts DEF AllMove, ItemMoves, RowMoves
  <1>16. ASSUME NEW r \in Requests, Cancel(r) PROVE TypeOK' /\ AllMove
    <2>1. /\ requests[r].pc # "idle" /\ (Goto(r, "undo") \/ Goto(r, "cleanup"))
          /\ "undo" \in Steps /\ "cleanup" \in Steps
          /\ UNCHANGED <<clock, sending, recalls, chat, erasing, deletes>>
      BY <1>16 DEF Cancel, Steps
    <2>2. requests' \in [Requests -> Request \cup {Idle}] /\ \A q \in Requests : RequestMoves(q)
      BY <2>1, Walks
    <2>3. CASE UNCHANGED <<items, ledger>>
      BY <2>1, <2>2, <2>3 DEF TypeOK, AllMove, ItemMoves, RowMoves, RecallMoves
    <2>4. CASE requests[r].pc = "record" /\ FinalizeItem(requests[r].part, requests[r].outcome)
      <3>1. /\ items' \in [Parts -> Item \cup {NoItem}] /\ ledger' \in [Parts -> Row \cup {NoRow}]
            /\ \A p \in Parts : ItemMoves(p) /\ RowMoves(p)
        BY <1>12, <2>4
      <3> QED
        BY <2>1, <2>2, <3>1 DEF TypeOK, AllMove, RecallMoves
    <2> QED
      BY <1>16, <2>3, <2>4 DEF Cancel
  <1> QED
    BY <1>0, <1>2, <1>3, <1>4, <1>5, <1>6, <1>7, <1>8, <1>9, <1>10, <1>11, <1>13, <1>14, <1>15, <1>16
    DEF Next

(* The tables, the requests and the platform's side are always well typed.  *)
THEOREM TypeCorrect == Spec => []TypeOK
  <1>1. Init => TypeOK
    BY RecallConstants DEF Init, TypeOK, Times
  <1> QED
    BY <1>1, NextMoves, PTL DEF Spec
-----------------------------------------------------------------------------
(* How rows, items, recalls and requests are tied to one another            *)

\* The parts of an operation are numbered without gaps.
Numbered(o) ==
    \E n \in Nat : RowsOf(o) = {<<o, k>> : k \in 1 .. n} /\ Cardinality(RowsOf(o)) = n

Ties ==
    /\ \A o \in Ops : Numbered(o)
    /\ \A p \in Parts : items[p] # NoItem =>
            ledger[p] # NoRow /\ items[p].op \in Ops /\ recalls[items[p].op] # NoRecall
    /\ \A r \in Requests : requests[r] # Idle /\ requests[r].op # None =>
            requests[r].op \in Ops /\ recalls[requests[r].op] # NoRecall
    /\ \A o \in Ops : recalls[o] # NoRecall =>
            \A p \in RowsOf(o) : items[p] # NoItem /\ items[p].op = o

\* A part that is about to be sent has no row yet, and its operation no recall.
LEMMA FreshPart ==
    ASSUME TypeOK, Ties, NEW p \in Parts, Begins(p)
    PROVE  ledger[p] = NoRow /\ recalls[p[1]] = NoRecall /\ p[1] \in Ops
  <1>1. PICK o \in Ops : Begin(o) /\ p = <<o, Cardinality(RowsOf(o)) + 1>>
    BY DEF Begins
  <1>2. PICK n \in Nat : RowsOf(o) = {<<o, k>> : k \in 1 .. n} /\ Cardinality(RowsOf(o)) = n
    BY DEF Ties, Numbered
  <1>3. p \notin RowsOf(o)
    BY <1>1, <1>2
  <1>4. p[1] = o
    BY <1>1
  <1> QED
    BY <1>1, <1>3, <1>4 DEF RowsOf, Begin, Sealed

\* What is there stays there.
LEMMA Stays ==
    ASSUME TypeOK, AllMove, NEW p \in Parts, Ties
    PROVE  /\ ledger[p] # NoRow => /\ ledger'[p] # NoRow
                                   /\ ledger'[p].user = ledger[p].user
                                   /\ ledger'[p].created = ledger[p].created
           /\ items[p] # NoItem => items'[p] # NoItem /\ items'[p].op = items[p].op
           /\ \A o \in Ops : recalls[o] # NoRecall => recalls'[o] # NoRecall
  <1>1. RowMoves(p) /\ ItemMoves(p)
    BY DEF AllMove
  <1>2. ledger[p] # NoRow => ~ Begins(p)
    BY FreshPart
  <1>3. \A o \in Ops : recalls[o] # NoRecall => recalls'[o] # NoRecall
    BY Present DEF AllMove, RecallMoves, Claimed
  <1> QED
    BY <1>1, <1>2, <1>3, Present DEF RowMoves, Kin, ItemMoves, Ended

LEMMA RowsGrow ==
    ASSUME TypeOK, AllMove, Ties, NEW o \in Ops
    PROVE  \/ RowsOf(o)' = RowsOf(o)
           \/ /\ RowsOf(o)' = RowsOf(o) \cup {<<o, Cardinality(RowsOf(o)) + 1>>}
              /\ <<o, Cardinality(RowsOf(o)) + 1>> \in Parts
              /\ recalls[o] = NoRecall
              /\ <<o, Cardinality(RowsOf(o)) + 1>> \notin RowsOf(o)
  <1> DEFINE q == <<o, Cardinality(RowsOf(o)) + 1>>
  <1>1. \A p \in RowsOf(o) : p \in RowsOf(o)'
    BY Stays DEF RowsOf
  <1>2. ASSUME NEW p \in RowsOf(o)', p \notin RowsOf(o) PROVE Begins(p) /\ p = q
    <2>1. p \in Parts /\ p[1] = o /\ ledger[p] = NoRow /\ ledger'[p] # NoRow
      BY <1>2 DEF RowsOf
    <2>2. Begins(p)
      BY <2>1, Present DEF AllMove, RowMoves, Kin
    <2>3. PICK k \in Ops : p = <<k, Cardinality(RowsOf(k)) + 1>>
      BY <2>2 DEF Begins
    <2>4. k = o
      BY <2>1, <2>3
    <2> QED
      BY <2>2, <2>3, <2>4
  <1>3. CASE \A p \in RowsOf(o)' : p \in RowsOf(o)
    BY <1>1, <1>3
  <1>4. CASE \E p \in RowsOf(o)' : p \notin RowsOf(o)
    <2>1. q \in RowsOf(o)' /\ q \notin RowsOf(o) /\ Begins(q)
      BY <1>2, <1>4
    <2>2. q \in Parts
      BY <2>1 DEF RowsOf
    <2>3. recalls[q[1]] = NoRecall /\ q[1] = o
      BY <2>1, <2>2, FreshPart
    <2>4. RowsOf(o)' = RowsOf(o) \cup {q}
      BY <1>1, <1>2, <2>1
    <2> QED
      BY <2>1, <2>2, <2>3, <2>4
  <1> QED
    BY <1>3, <1>4

LEMMA NumberedKept ==
    ASSUME TypeOK, AllMove, Ties, NEW o \in Ops
    PROVE  Numbered(o)'
  <1>1. PICK n \in Nat : RowsOf(o) = {<<o, k>> : k \in 1 .. n} /\ Cardinality(RowsOf(o)) = n
    BY DEF Ties, Numbered
  <1>2. CASE RowsOf(o)' = RowsOf(o)
    BY <1>1, <1>2 DEF Numbered
  <1>3. CASE RowsOf(o)' = RowsOf(o) \cup {<<o, n + 1>>} /\ <<o, n + 1>> \notin RowsOf(o)
    <2>1. IsFiniteSet(RowsOf(o))
      <3>1. RowsOf(o) \in SUBSET Parts
        BY DEF RowsOf
      <3> QED
        BY <3>1, PartsFinite
    <2>2. Cardinality(RowsOf(o)') = n + 1
      BY <1>1, <1>3, <2>1, FS_AddElement
    <2>3. RowsOf(o)' = {<<o, k>> : k \in 1 .. (n + 1)}
      <3>1. 1 .. (n + 1) = (1 .. n) \cup {n + 1}
        OBVIOUS
      <3> QED
        BY <1>1, <1>3, <3>1
    <2> QED
      BY <2>2, <2>3 DEF Numbered
  <1> QED
    BY <1>1, <1>2, <1>3, RowsGrow

\* What is claimed has a row.
LEMMA ClaimedRows ==
    ASSUME NEW r \in Requests, NEW o, NEW batch, Claimed(r, o, batch)
    PROVE  \A p \in batch : p \in Parts /\ ledger[p] # NoRow
  BY DEF Claimed, RowsOf, OwnAcks

LEMMA ClaimsAre ==
    ASSUME TypeOK, NEW r \in Requests, NEW p, Claims(p, r)
    PROVE  \E o \in Ops, batch \in SUBSET Parts :
                Claimed(r, o, batch) /\ p \in batch /\ requests'[r].op = o /\ items'[p].op = o
  <1>1. PICK o \in Ops \ {requests[r].own}, batch \in SUBSET Parts : Claimed(r, o, batch)
    BY ClaimFacts DEF Claims
  <1>2. p \in batch /\ requests'[r].op = o
    BY <1>1 DEF Claims, Claimed
  <1>3. items'[p].op = o
    BY <1>2 DEF Claims
  <1> QED
    BY <1>1, <1>2, <1>3

LEMMA TiesKept ==
    ASSUME TypeOK, AllMove, Ties
    PROVE  Ties'
  <1>1. \A o \in Ops : Numbered(o)'
    BY NumberedKept
  <1>2. ASSUME NEW p \in Parts, items'[p] # NoItem
        PROVE  ledger'[p] # NoRow /\ items'[p].op \in Ops /\ recalls'[items'[p].op] # NoRecall
    <2>1. CASE items[p] # NoItem
      BY <2>1, Stays DEF Ties
    <2>2. CASE items[p] = NoItem
      <3>1. PICK r \in Requests : Claims(p, r)
        BY <1>2, <2>2, Present DEF AllMove, ItemMoves, Ended
      <3>2. PICK o \in Ops, batch \in SUBSET Parts :
                Claimed(r, o, batch) /\ p \in batch /\ items'[p].op = o
        BY <3>1, ClaimsAre
      <3>3. ledger'[p] # NoRow
        BY <3>2, ClaimedRows, Stays
      <3>4. recalls'[o] # NoRecall
        BY <3>2 DEF Claimed
      <3> QED
        BY <3>2, <3>3, <3>4
    <2> QED
      BY <2>1, <2>2
  <1>3. ASSUME NEW r \in Requests, requests'[r] # Idle, requests'[r].op # None
        PROVE  requests'[r].op \in Ops /\ recalls'[requests'[r].op] # NoRecall
    <2>1. CASE Claim(r)
      <3>1. PICK o \in Ops \ {requests[r].own}, batch \in SUBSET Parts : Claimed(r, o, batch)
        BY <2>1, ClaimFacts
      <3> QED
        BY <3>1 DEF Claimed
    <2>2. CASE requests'[r].op = requests[r].op /\ requests[r] # Idle
      <3>1. requests[r].op \in Ops /\ recalls[requests[r].op] # NoRecall
        BY <1>3, <2>2 DEF Ties
      <3>2. \A o \in Ops : recalls[o] # NoRecall => recalls'[o] # NoRecall
        BY Present DEF AllMove, RecallMoves, Claimed
      <3> QED
        BY <2>2, <3>1, <3>2
    <2> QED
      BY <1>3, <2>1, <2>2, Present DEF AllMove, RequestMoves, Kept
  <1>4. ASSUME NEW o \in Ops, recalls'[o] # NoRecall, NEW p \in RowsOf(o)'
        PROVE  items'[p] # NoItem /\ items'[p].op = o
    <2>1. CASE recalls[o] # NoRecall
      <3>1. p \in RowsOf(o) /\ p \in Parts
        BY <2>1, RowsGrow DEF RowsOf
      <3>2. items[p] # NoItem /\ items[p].op = o
        BY <2>1, <3>1 DEF Ties
      <3> QED
        BY <3>1, <3>2, Stays
    <2>2. CASE recalls[o] = NoRecall
      <3>1. PICK r \in Requests, batch \in SUBSET Parts : Claimed(r, o, batch)
        BY <1>4, <2>2, Present DEF AllMove, RecallMoves
      <3>2. RowsOf(o)' = RowsOf(o) /\ RowsOf(o) \subseteq batch
        BY <3>1 DEF Claimed, RowsOf
      <3>3. items'[p] = [status |-> "dispatching", op |-> o] /\ items'[p] \in Item
        BY <3>1, <3>2 DEF Claimed
      <3> QED
        BY <3>3, Present
    <2> QED
      BY <2>1, <2>2
  <1> QED
    BY <1>1, <1>2, <1>3, <1>4 DEF Ties

LEMMA TiesAlways == Spec => [](TypeOK /\ Ties)
  <1>1. Init => Ties
    <2> SUFFICES ASSUME Init PROVE Ties
      OBVIOUS
    <2>1. ASSUME NEW o \in Ops PROVE Numbered(o)
      <3>1. RowsOf(o) = {}
        BY DEF Init, RowsOf
      <3>2. Cardinality({}) = 0 /\ {<<o, k>> : k \in 1 .. 0} = {}
        BY FS_EmptySet
      <3> QED
        BY <3>1, <3>2 DEF Numbered
    <2> QED
      BY <2>1 DEF Init, Ties
  <1> QED
    BY <1>1, TypeCorrect, NextMoves, TiesKept, PTL DEF Spec

(* A recall is of a whole operation, which sends nothing more once claimed. *)
THEOREM OperationsWhole == Spec => []WholeOperation
  <1>1. Ties => WholeOperation
    BY DEF Ties, WholeOperation
  <1> QED
    BY <1>1, TiesAlways, PTL

LEMMA AskedKept ==
    ASSUME TypeOK, AllMove, Ties, OnlyAskedFor
    PROVE  OnlyAskedFor'
  <1> SUFFICES ASSUME NEW r \in Requests, requests'[r] # Idle, requests'[r].op # None,
                      NEW p \in Parts, items'[p] # NoItem, items'[p].op = requests'[r].op
               PROVE  /\ requests'[r].actor \in {Admin, ledger'[p].user}
                      /\ p[1] # requests'[r].own => ledger'[p].created <= requests'[r].cutoff
    BY DEF OnlyAskedFor
  <1>1. CASE Claim(r)
    <2>1. PICK o \in Ops \ {requests[r].own}, batch \in SUBSET Parts : Claimed(r, o, batch)
      BY <1>1, ClaimFacts
    <2>2. /\ requests'[r].op = o /\ requests'[r].actor = requests[r].actor
          /\ requests'[r].own = requests[r].own /\ requests'[r].cutoff = requests[r].cutoff
          /\ recalls[o] = NoRecall /\ UNCHANGED ledger
      BY <2>1 DEF Claimed
    <2>3. p \in batch
      <3>1. p \notin batch => items'[p] = items[p]
        BY <2>1 DEF Claimed
      <3> QED
        BY <2>2, <3>1 DEF Ties
    <2>4. CASE p \in RowsOf(o)
      <3>1. Wanted(p, r)
        BY <2>1, <2>4 DEF Claimed
      <3> QED
        BY <2>2, <3>1 DEF Wanted, Mine, InWindow
    <2>5. CASE p \in OwnAcks(r)
      BY <2>2, <2>5 DEF OwnAcks, RowsOf, Mine
    <2> QED
      BY <2>1, <2>3, <2>4, <2>5 DEF Claimed
  <1>2. CASE requests[r] # Idle /\ Kept(r)
    <2> DEFINE o == requests[r].op
    <2>1. o \in Ops /\ recalls[o] # NoRecall /\ requests'[r].op = o /\ o # None
      BY <1>2 DEF Ties, Kept
    <2>2. items[p] # NoItem /\ items[p].op = o
      <3>1. CASE items[p] # NoItem
        BY <2>1, <3>1, Stays
      <3>2. CASE items[p] = NoItem
        <4>1. PICK q \in Requests : Claims(p, q)
          BY <3>2, Present DEF AllMove, ItemMoves, Ended
        <4>2. PICK k \in Ops, batch \in SUBSET Parts : Claimed(q, k, batch) /\ items'[p].op = k
          BY <4>1, ClaimsAre
        <4> QED
          BY <2>1, <4>2 DEF Claimed
      <3> QED
        BY <3>1, <3>2
    <2>3. /\ requests[r].actor \in {Admin, ledger[p].user}
          /\ p[1] # requests[r].own => ledger[p].created <= requests[r].cutoff
      BY <1>2, <2>1, <2>2 DEF OnlyAskedFor
    <2>4. ledger'[p].user = ledger[p].user /\ ledger'[p].created = ledger[p].created
      BY <2>2, Stays DEF Ties
    <2> QED
      BY <1>2, <2>3, <2>4 DEF Kept
  <1> QED
    BY <1>1, <1>2, Present DEF AllMove, RequestMoves, Kept

(* A user's request touches only messages to that user, and beyond its own  *)
(* turn only what was sent before that turn.                                *)
THEOREM OnlyWhatWasAsked == Spec => []OnlyAskedFor
  <1>1. Init => OnlyAskedFor
    BY DEF Init, OnlyAskedFor
  <1> QED
    BY <1>1, TiesAlways, NextMoves, AskedKept, PTL DEF Spec
-----------------------------------------------------------------------------
(* Deletions: who holds a message that may still be deleted                 *)

Holds(r) == requests[r].pc \in {"claimed", "await", "record"}

DelInv ==
    /\ \A r \in Requests : Holds(r) =>
        \A p \in requests[r].todo :
            /\ items[p] # NoItem
            /\ requests[r].pc = "claimed" \/ p # requests[r].part => deletes[p] = 0
    /\ \A r, q \in Requests : r # q /\ Holds(r) /\ Holds(q) =>
            requests[r].todo \cap requests[q].todo = {}
    /\ \A p \in Parts : deletes[p] <= 1 /\ (items[p] = NoItem => deletes[p] = 0)

\* Of the requests that hold messages, all moves.
CarryMoves(r) ==
    \/ requests'[r] = requests[r]
    \/ ~ Holds(r)'
    \/ Claim(r) \/ Delete(r) \/ DeleteAnswer(r) \/ Record(r)

\* Of the message, its deletion and how often that was requested, all moves.
Erases(p) ==
    \E r \in Requests :
        /\ Delete(r) /\ requests'[r].part = p /\ p \in requests[r].todo
        /\ requests[r].pc = "claimed" /\ requests'[r].pc = "await"
WireMoves(p) ==
    \/ deletes'[p] = deletes[p] /\ erasing'[p] = erasing[p] /\ chat'[p] = chat[p]
    \/ /\ deletes'[p] = deletes[p] /\ erasing'[p] = erasing[p]
       /\ chat'[p] # "gone" /\ (Begins(p) \/ chat[p] = "flying")
    \/ /\ Erases(p) /\ deletes'[p] = deletes[p] + 1
       /\ erasing'[p] = "flying" /\ chat'[p] = chat[p]
    \/ /\ deletes'[p] = deletes[p] /\ erasing[p] = "flying"
       /\ \/ erasing'[p] = "done" /\ chat'[p] = "gone"
          \/ erasing'[p] = "refused" /\ chat'[p] = chat[p]

LEMMA CarriesMove ==
    ASSUME TypeOK, [Next]_vars, NEW r \in Requests
    PROVE  CarryMoves(r)
  <1>1. CASE UNCHANGED requests
    BY <1>1 DEF CarryMoves
  <1>2. CASE Restart
    <2>1. requests'[r] = requests[r] \/ requests'[r].pc = "done"
      BY <1>2, RestartFacts
    <2> QED
      BY <2>1 DEF CarryMoves, Holds
  <1>3. ASSUME NEW q \in Requests, NEW a \in Asks, Ask(q, a) PROVE CarryMoves(r)
    BY <1>3, AskFacts DEF CarryMoves, Holds, Others
  <1>4. ASSUME NEW q \in Requests, Others(q), q = r => ~ Holds(q)' PROVE CarryMoves(r)
    BY <1>4 DEF CarryMoves, Others
  <1>5. ASSUME NEW q \in Requests, requests[q].pc # "idle",
               NEW pc \in {"undo", "cleanup", "finish", "done"}, Goto(q, pc)
        PROVE  CarryMoves(r)
    <2>1. pc \in Steps
      BY DEF Steps
    <2>2. Others(q) /\ requests'[q].pc = pc
      BY <1>5, <2>1, Goes
    <2> QED
      BY <1>4, <2>2 DEF Holds
  <1>6. ASSUME NEW q \in Requests, ClaimRefused(q) \/ CleanUp(q) \/ Finish(q) \/ Cancel(q) \/ Abandon(q)
        PROVE  CarryMoves(r)
    <2>1. /\ requests[q].pc # "idle"
          /\ Goto(q, "undo") \/ Goto(q, "cleanup") \/ Goto(q, "finish") \/ Goto(q, "done")
      BY <1>6 DEF ClaimRefused, CleanUp, Finish, Cancel, Abandon
    <2> QED
      BY <1>5, <2>1
  <1>7. ASSUME NEW q \in Requests, Claim(q) \/ Delete(q) \/ DeleteAnswer(q) \/ Record(q)
        PROVE  CarryMoves(r)
    <2>1. Others(q)
      BY <1>7, ClaimFacts, DeleteFacts, AnswerFacts, RecordFacts DEF Claimed
    <2> QED
      BY <1>7, <2>1 DEF CarryMoves, Others
  <1> QED
    BY <1>1, <1>2, <1>3, <1>6, <1>7
    DEF Next, vars, Tick, Begin, SendAnswer, DeliverMessage, DeliverDeletion

LEMMA WiresMove ==
    ASSUME TypeOK, [Next]_vars, NEW p \in Parts
    PROVE  WireMoves(p)
  <1>1. CASE UNCHANGED <<deletes, erasing, chat>>
    BY <1>1 DEF WireMoves
  <1>2. ASSUME NEW o \in Ops, Begin(o) PROVE WireMoves(p)
    BY <1>2, BeginFacts, Typed DEF WireMoves, Begins
  <1>3. ASSUME NEW q \in Parts, DeliverMessage(q) PROVE WireMoves(p)
    BY <1>3, Typed DEF WireMoves, DeliverMessage
  <1>4. ASSUME NEW q \in Parts, DeliverDeletion(q) PROVE WireMoves(p)
    BY <1>4, Typed DEF WireMoves, DeliverDeletion
  <1>5. ASSUME NEW r \in Requests, Delete(r) PROVE WireMoves(p)
    <2>1. PICK q \in Parts :
            /\ requests[r].pc = "claimed" /\ q \in requests[r].todo
            /\ erasing' = [erasing EXCEPT ![q] = "flying"]
            /\ deletes' = [deletes EXCEPT ![q] = @ + 1]
            /\ requests'[r].pc = "await" /\ requests'[r].part = q
            /\ UNCHANGED chat
      BY <1>5, DeleteFacts
    <2> QED
      BY <1>5, <2>1, Typed DEF WireMoves, Erases
  <1> QED
    BY <1>1, <1>2, <1>3, <1>4, <1>5
    DEF Next, vars, Tick, Restart, SendAnswer, Ask, Claim, ClaimRefused, DeleteAnswer, Record,
        CleanUp, Finish, Cancel, Abandon

\* The part whose deletion is being requested has not been asked for before.
LEMMA ErasedOnce ==
    ASSUME TypeOK, DelInv, NEW p \in Parts, Erases(p)
    PROVE  deletes[p] = 0 /\ items[p] # NoItem
  BY DEF Erases, DelInv, Holds

LEMMA DelKept ==
    ASSUME TypeOK, Ties, DelInv, [Next]_vars
    PROVE  DelInv'
  <1>0. AllMove
    BY NextMoves
  <1>1. ASSUME NEW p \in Parts PROVE deletes'[p] <= 1 /\ (items'[p] = NoItem => deletes'[p] = 0)
    <2>1. CASE deletes'[p] = deletes[p]
      BY <1>0, <2>1, Stays DEF DelInv
    <2>2. CASE Erases(p) /\ deletes'[p] = deletes[p] + 1
      BY <1>0, <2>2, ErasedOnce, Stays
    <2> QED
      BY <2>1, <2>2, WiresMove DEF WireMoves
  <1>2. ASSUME NEW r \in Requests, NEW o, NEW batch, Claimed(r, o, batch), NEW p \in batch
        PROVE  p \in Parts /\ items[p] = NoItem /\ items'[p] # NoItem /\ deletes'[p] = 0
    <2>1. p \in Parts /\ items[p] = NoItem
      BY <1>2, ClaimedRows DEF Claimed
    <2>2. deletes[p] = 0
      BY <2>1 DEF DelInv
    <2> QED
      BY <1>2, <2>1, <2>2, Present DEF Claimed
  <1>3. ASSUME NEW r \in Requests, Holds(r)', NEW p \in requests'[r].todo
        PROVE  /\ items'[p] # NoItem
               /\ requests'[r].pc = "claimed" \/ p # requests'[r].part => deletes'[p] = 0
    <2>1. CASE Claim(r)
      <3>1. PICK o \in Ops \ {requests[r].own}, batch \in SUBSET Parts : Claimed(r, o, batch)
        BY <2>1, ClaimFacts
      <3>2. p \in batch
        BY <1>3, <3>1 DEF Claimed
      <3> QED
        BY <1>2, <3>1, <3>2
    <2>2. ASSUME Holds(r), p \in requests[r].todo PROVE items'[p] # NoItem /\ p \in Parts
      <3>1. p \in Parts
        BY <2>2, Known DEF Holds
      <3>2. items[p] # NoItem
        BY <2>2 DEF DelInv
      <3> QED
        BY <1>0, <3>1, <3>2, Stays
    <2>3. CASE requests'[r] = requests[r]
      <3>1. Holds(r) /\ p \in requests[r].todo /\ p \in Parts
        BY <1>3, <2>2, <2>3 DEF Holds
      <3>2. ~ Erases(p)
        <4> SUFFICES ASSUME NEW q \in Requests, Delete(q), requests'[q].part = p,
                            p \in requests[q].todo, requests[q].pc = "claimed",
                            requests'[q].pc = "await"
                     PROVE  FALSE
          BY DEF Erases
        <4>1. q # r
          BY <2>3
        <4> QED
          BY <3>1, <4>1 DEF DelInv, Holds
      <3>3. deletes'[p] = deletes[p]
        BY <3>1, <3>2, WiresMove DEF WireMoves
      <3> QED
        BY <2>2, <2>3, <3>1, <3>3 DEF DelInv
    <2>4. CASE Delete(r)
      <3>1. PICK q \in Parts :
              /\ requests[r].pc = "claimed" /\ q \in requests[r].todo
              /\ deletes' = [deletes EXCEPT ![q] = @ + 1]
              /\ requests'[r].pc = "await" /\ requests'[r].part = q
              /\ requests'[r].todo = requests[r].todo
        BY <2>4, DeleteFacts
      <3>2. Holds(r) /\ p \in requests[r].todo /\ deletes[p] = 0
        BY <1>3, <3>1 DEF DelInv, Holds
      <3>3. p # q => deletes'[p] = 0
        BY <2>2, <3>1, <3>2, Typed
      <3> QED
        BY <2>2, <3>1, <3>2, <3>3
    <2>5. CASE DeleteAnswer(r)
      <3>1. /\ requests[r].pc = "await" /\ requests'[r].pc = "record" /\ UNCHANGED deletes
            /\ requests'[r].todo = requests[r].todo /\ requests'[r].part = requests[r].part
        BY <2>5, AnswerFacts DEF Same
      <3>2. Holds(r) /\ p \in requests[r].todo
        BY <1>3, <3>1 DEF Holds
      <3> QED
        BY <2>2, <3>1, <3>2 DEF DelInv
    <2>6. CASE Record(r)
      <3>1. /\ requests[r].pc = "record" /\ UNCHANGED deletes
            /\ requests'[r].todo = requests[r].todo \ {requests[r].part}
        BY <2>6, RecordFacts
      <3>2. Holds(r) /\ p \in requests[r].todo /\ p # requests[r].part
        BY <1>3, <3>1 DEF Holds
      <3> QED
        BY <2>2, <3>1, <3>2 DEF DelInv
    <2> QED
      BY <1>3, <2>1, <2>3, <2>4, <2>5, <2>6, CarriesMove DEF CarryMoves
  <1>4. ASSUME NEW r \in Requests, Holds(r)'
        PROVE  \/ Holds(r) /\ requests'[r].todo \subseteq requests[r].todo
               \/ \E o \in Ops, batch \in SUBSET Parts : Claimed(r, o, batch)
    <2>1. CASE requests'[r] = requests[r]
      BY <1>4, <2>1 DEF Holds
    <2>2. CASE Claim(r)
      BY <2>2, ClaimFacts
    <2>3. CASE Delete(r) \/ DeleteAnswer(r) \/ Record(r)
      BY <2>3, DeleteFacts, AnswerFacts, RecordFacts DEF Holds
    <2> QED
      BY <1>4, <2>1, <2>2, <2>3, CarriesMove DEF CarryMoves
  <1>5. ASSUME NEW r \in Requests, NEW q \in Requests, r # q, Holds(r)', Holds(q)',
               NEW o, NEW batch, Claimed(r, o, batch)
        PROVE  requests'[r].todo \cap requests'[q].todo = {}
    <2>1. requests'[q] = requests[q] /\ Holds(q) /\ requests'[r].todo = batch
      BY <1>5 DEF Claimed, Others, Holds
    <2>2. \A p \in requests[q].todo : items[p] # NoItem
      BY <2>1 DEF DelInv
    <2>3. \A p \in batch : items[p] = NoItem
      BY <1>5 DEF Claimed
    <2> QED
      BY <2>1, <2>2, <2>3
  <1>6. ASSUME NEW r \in Requests, NEW q \in Requests, r # q, Holds(r)', Holds(q)'
        PROVE  requests'[r].todo \cap requests'[q].todo = {}
    <2>1. CASE \E o, batch : Claimed(r, o, batch) \/ Claimed(q, o, batch)
      BY <1>5, <1>6, <2>1
    <2>2. CASE /\ Holds(r) /\ requests'[r].todo \subseteq requests[r].todo
               /\ Holds(q) /\ requests'[q].todo \subseteq requests[q].todo
      BY <1>6, <2>2 DEF DelInv
    <2> QED
      BY <1>4, <1>6, <2>1, <2>2
  <1> QED
    BY <1>1, <1>3, <1>6 DEF DelInv

LEMMA DelAlways == Spec => [](TypeOK /\ Ties /\ DelInv)
  <1>1. Init => DelInv
    BY DEF Init, DelInv, Holds, Idle
  <1> QED
    BY <1>1, TiesAlways, DelKept, PTL DEF Spec

(* The deletion of a message is requested at most once.                     *)
THEOREM RecalledOnce == Spec => []RecallOnce
  <1>1. DelInv => RecallOnce
    BY DEF DelInv, RecallOnce
  <1> QED
    BY <1>1, DelAlways, PTL
-----------------------------------------------------------------------------
(* What the tables say of the messages                                      *)

Truth ==
    \A p \in Parts :
        /\ deletes[p] = 0 => erasing[p] = "none"
        /\ erasing[p] = "done" <=> chat[p] = "gone"
        /\ Reports(p, "succeeded") => erasing[p] = "done"
        /\ Reports(p, "definite_failure") => erasing[p] = "refused"
        /\ items[p].status = "succeeded" => erasing[p] = "done"
        /\ items[p].status = "definite_failure" => erasing[p] = "refused"
        /\ ledger[p] # NoRow /\ ledger[p].recalled => erasing[p] = "done"

\* What a deletion came to is final.
LEMMA WiresFinal ==
    ASSUME TypeOK, DelInv, Truth, [Next]_vars, NEW p \in Parts
    PROVE  /\ erasing[p] = "done" => erasing'[p] = "done"
           /\ erasing[p] = "refused" => erasing'[p] = "refused"
  <1>1. Erases(p) => erasing[p] = "none"
    BY ErasedOnce DEF Truth
  <1> QED
    BY <1>1, WiresMove DEF WireMoves

LEMMA ReportsTrue ==
    ASSUME TypeOK, DelInv, Truth, [Next]_vars, NEW p \in Parts,
           NEW s \in {"succeeded", "definite_failure"}, Reports(p, s)'
    PROVE  erasing'[p] = IF s = "succeeded" THEN "done" ELSE "refused"
  <1>1. PICK r \in Requests :
            requests'[r].pc = "record" /\ requests'[r].part = p /\ requests'[r].outcome = s
    BY DEF Reports
  <1>2. CASE requests'[r] = requests[r]
    <2>1. Reports(p, s)
      BY <1>1, <1>2 DEF Reports
    <2> QED
      BY <2>1, WiresFinal DEF Truth
  <1>3. CASE DeleteAnswer(r)
    <2>1. s \in DeleteOutcomes(p) /\ UNCHANGED erasing
      BY <1>1, <1>3, AnswerFacts DEF Same
    <2> QED
      BY <2>1 DEF DeleteOutcomes
  <1>4. CASE Claim(r) \/ Delete(r) \/ Record(r) \/ ~ Holds(r)'
    BY <1>1, <1>4, ClaimFacts, DeleteFacts, RecordFacts DEF Claimed, Holds
  <1> QED
    BY <1>2, <1>3, <1>4, CarriesMove DEF CarryMoves

LEMMA TruthKept ==
    ASSUME TypeOK, Ties, DelInv, Truth, [Next]_vars
    PROVE  Truth'
  <1>0. AllMove
    BY NextMoves
  <1> SUFFICES ASSUME NEW p \in Parts
               PROVE  /\ deletes'[p] = 0 => erasing'[p] = "none"
                      /\ erasing'[p] = "done" <=> chat'[p] = "gone"
                      /\ Reports(p, "succeeded")' => erasing'[p] = "done"
                      /\ Reports(p, "definite_failure")' => erasing'[p] = "refused"
                      /\ items'[p].status = "succeeded" => erasing'[p] = "done"
                      /\ items'[p].status = "definite_failure" => erasing'[p] = "refused"
                      /\ ledger'[p] # NoRow /\ ledger'[p].recalled => erasing'[p] = "done"
    BY DEF Truth
  <1>1. /\ deletes[p] = 0 => erasing[p] = "none"
        /\ erasing[p] = "done" <=> chat[p] = "gone"
        /\ Reports(p, "succeeded") => erasing[p] = "done"
        /\ Reports(p, "definite_failure") => erasing[p] = "refused"
        /\ items[p].status = "succeeded" => erasing[p] = "done"
        /\ items[p].status = "definite_failure" => erasing[p] = "refused"
        /\ ledger[p] # NoRow /\ ledger[p].recalled => erasing[p] = "done"
    BY DEF Truth
  <1>2. Erases(p) => deletes[p] = 0 /\ deletes[p] \in Nat
    BY ErasedOnce, Typed
  <1>3. Begins(p) => deletes[p] = 0
    BY FreshPart DEF Ties, DelInv
  <1>4. deletes'[p] = 0 => erasing'[p] = "none"
    BY <1>1, <1>2, WiresMove DEF WireMoves
  <1>5. erasing'[p] = "done" <=> chat'[p] = "gone"
    BY <1>1, <1>2, <1>3, WiresMove DEF WireMoves
  <1>6. /\ Reports(p, "succeeded")' => erasing'[p] = "done"
        /\ Reports(p, "definite_failure")' => erasing'[p] = "refused"
    BY ReportsTrue
  <1>7. /\ items'[p].status = "succeeded" => erasing'[p] = "done"
        /\ items'[p].status = "definite_failure" => erasing'[p] = "refused"
    <2>1. CASE items'[p] = items[p]
      BY <1>1, <2>1, WiresFinal
    <2>2. CASE \E r \in Requests : Claims(p, r)
      BY <2>2 DEF Claims
    <2>3. CASE Ended(items[p], items'[p], "unknown")
      BY <2>3 DEF Ended
    <2>4. ASSUME NEW s \in ItemEnds, Ended(items[p], items'[p], s), Reports(p, s)
          PROVE  /\ items'[p].status = "succeeded" => erasing'[p] = "done"
                 /\ items'[p].status = "definite_failure" => erasing'[p] = "refused"
      BY <1>1, <2>4, WiresFinal DEF Ended
    <2> QED
      BY <1>0, <2>1, <2>2, <2>3, <2>4 DEF AllMove, ItemMoves
  <1>8. ledger'[p] # NoRow /\ ledger'[p].recalled => erasing'[p] = "done"
    <2>1. CASE ledger'[p] = ledger[p]
      BY <1>1, <2>1, WiresFinal
    <2>2. CASE /\ Kin(ledger[p], ledger'[p])
               /\ ledger'[p].recalled => ledger[p].recalled \/ Reports(p, "succeeded")
      BY <1>1, <2>2, WiresFinal, Present DEF Kin
    <2> QED
      BY <1>0, <2>1, <2>2 DEF AllMove, RowMoves
  <1> QED
    BY <1>4, <1>5, <1>6, <1>7, <1>8

(* What a decided recall says of its items                                  *)
Decided(o) == recalls[o].status \in {"succeeded", "partial", "definite_failure"}
Books ==
    \A o \in Ops : Decided(o) =>
        /\ \A p \in Parts : items[p] # NoItem /\ items[p].op = o =>
                items[p].status \in {"succeeded", "definite_failure"}
        /\ recalls[o].status = "succeeded" => ItemsOf(o, "definite_failure") = {}
        /\ recalls[o].status = "definite_failure" => ItemsOf(o, "succeeded") = {}
        /\ recalls[o].status = "partial" => recalls[o].count = Cardinality(ItemsOf(o, "succeeded"))

LEMMA BooksKept ==
    ASSUME TypeOK, Ties, Books, [Next]_vars
    PROVE  Books'
  <1>0. AllMove
    BY NextMoves
  <1> SUFFICES ASSUME NEW o \in Ops, Decided(o)'
               PROVE  /\ \A p \in Parts : items'[p] # NoItem /\ items'[p].op = o =>
                              items'[p].status \in {"succeeded", "definite_failure"}
                      /\ recalls'[o].status = "succeeded" => ItemsOf(o, "definite_failure")' = {}
                      /\ recalls'[o].status = "definite_failure" => ItemsOf(o, "succeeded")' = {}
                      /\ recalls'[o].status = "partial" =>
                              recalls'[o].count = Cardinality(ItemsOf(o, "succeeded")')
    BY DEF Books
  <1>1. CASE recalls'[o] = recalls[o]
    <2>1. Decided(o) /\ recalls[o] # NoRecall
      BY <1>1, Present DEF Decided
    <2>2. ASSUME NEW p \in Parts, items'[p] # NoItem, items'[p].op = o
          PROVE  items'[p] = items[p]
      <3>1. CASE items[p] = NoItem
        <4>1. PICK r \in Requests : Claims(p, r)
          BY <1>0, <2>2, <3>1, Present DEF AllMove, ItemMoves, Ended
        <4>2. PICK k \in Ops, batch \in SUBSET Parts : Claimed(r, k, batch) /\ items'[p].op = k
          BY <4>1, ClaimsAre
        <4> QED
          BY <2>1, <2>2, <4>2 DEF Claimed
      <3>2. CASE items[p] # NoItem
        <4>1. items[p].op = o
          BY <1>0, <2>2, <3>2, Stays
        <4>2. items[p].status # "dispatching"
          BY <2>1, <3>2, <4>1 DEF Books
        <4> QED
          BY <1>0, <3>2, <4>2 DEF AllMove, ItemMoves, Ended
      <3> QED
        BY <3>1, <3>2
    <2>3. ASSUME NEW p \in Parts, items[p] # NoItem, items[p].op = o
          PROVE  items'[p] = items[p]
      BY <1>0, <2>2, <2>3, Stays
    <2>4. \A s : ItemsOf(o, s)' = ItemsOf(o, s)
      BY <2>2, <2>3 DEF ItemsOf
    <2>5. \A p \in Parts : items'[p] # NoItem /\ items'[p].op = o =>
              items'[p].status \in {"succeeded", "definite_failure"}
      BY <2>1, <2>2 DEF Books
    <2> QED
      BY <1>1, <2>1, <2>4, <2>5 DEF Books
  <1>2. CASE \E r \in Requests, batch \in SUBSET Parts : Claimed(r, o, batch)
    BY <1>2 DEF Claimed, Decided
  <1>3. CASE recalls'[o].status = "unknown"
    BY <1>3 DEF Decided
  <1>4. CASE /\ recalls'[o] = [status |-> Final(o), count |-> Cardinality(ItemsOf(o, "succeeded"))]
             /\ UNCHANGED items
    <2>1. /\ recalls'[o].status = Final(o)
          /\ recalls'[o].count = Cardinality(ItemsOf(o, "succeeded"))
      BY <1>4
    <2>2. ItemsOf(o, "dispatching") = {} /\ ItemsOf(o, "unknown") = {}
      <3>1. ItemsOf(o, "dispatching") \cup ItemsOf(o, "unknown") # {} => Final(o) = "unknown"
        BY DEF Final
      <3>2. Final(o) # "unknown"
        BY <2>1 DEF Decided
      <3> QED
        BY <3>1, <3>2
    <2>3. ASSUME NEW p \in Parts, items[p] # NoItem, items[p].op = o
          PROVE  items[p].status \in {"succeeded", "definite_failure"}
      <3>1. items[p].status \in ItemEnds \cup {"dispatching"}
        BY <2>3, Typed DEF Item
      <3> QED
        BY <2>2, <2>3, <3>1 DEF ItemsOf, ItemEnds
    <2>4. \A s : ItemsOf(o, s)' = ItemsOf(o, s)
      BY <1>4 DEF ItemsOf
    <2>5. /\ Final(o) = "succeeded" => ItemsOf(o, "definite_failure") = {}
          /\ Final(o) = "definite_failure" => ItemsOf(o, "succeeded") = {}
      BY DEF Final
    <2> QED
      BY <1>4, <2>1, <2>3, <2>4, <2>5
  <1> QED
    BY <1>0, <1>1, <1>2, <1>3, <1>4 DEF AllMove, RecallMoves

(* Reports are true: all messages are gone, or none, or as many as counted, *)
(* and a row marked as recalled is of a message that is gone.               *)
THEOREM ReportsAreTrue == Spec => []ReportIsTrue
  <1>1. Init => Truth /\ Books
    BY DEF Init, Truth, Books, Decided, Reports, Idle, NoRecall, NoItem, NoRow
  <1>2. TypeOK /\ Truth /\ Books => ReportIsTrue
    <2> SUFFICES ASSUME TypeOK, Truth, Books PROVE ReportIsTrue
      OBVIOUS
    <2>1. \A p \in Parts : ledger[p] # NoRow /\ ledger[p].recalled => chat[p] = "gone"
      BY DEF Truth
    <2> SUFFICES ASSUME NEW o \in Ops
                 PROVE  LET mine == {p \in Parts : items[p] # NoItem /\ items[p].op = o}
                            gone == {p \in mine : chat[p] = "gone"}
                        IN  /\ recalls[o].status = "succeeded" => gone = mine
                            /\ recalls[o].status = "definite_failure" => gone = {}
                            /\ recalls[o].status = "partial" => Cardinality(gone) = recalls[o].count
      BY <2>1 DEF ReportIsTrue
    <2> DEFINE mine == {p \in Parts : items[p] # NoItem /\ items[p].op = o}
               gone == {p \in mine : chat[p] = "gone"}
    <2>2. ASSUME Decided(o), NEW p \in mine
          PROVE  /\ items[p].status \in {"succeeded", "definite_failure"}
                 /\ chat[p] = "gone" <=> items[p].status = "succeeded"
      <3>1. items[p].status \in {"succeeded", "definite_failure"}
        BY <2>2 DEF Books
      <3>2. /\ items[p].status = "succeeded" => erasing[p] = "done"
            /\ items[p].status = "definite_failure" => erasing[p] = "refused"
            /\ erasing[p] = "done" <=> chat[p] = "gone"
        BY <2>2 DEF Truth
      <3> QED
        BY <3>1, <3>2
    <2>3. Decided(o) => gone = ItemsOf(o, "succeeded")
      BY <2>2 DEF ItemsOf
    <2>4. Decided(o) /\ ItemsOf(o, "definite_failure") = {} => gone = mine
      BY <2>2 DEF ItemsOf
    <2> QED
      BY <2>3, <2>4 DEF Books, Decided
  <1> QED
    BY <1>1, <1>2, DelAlways, TruthKept, BooksKept, PTL DEF Spec
=============================================================================
