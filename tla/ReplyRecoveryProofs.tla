------------------------ MODULE ReplyRecoveryProofs ------------------------
(***************************************************************************)
(* Proofs about ReplyRecovery, for any number of failures, conversations,  *)
(* routes and workers, and any limits, leases, delays and clock bound.     *)
(***************************************************************************)
EXTENDS MCReplyRecovery, TLAPS, FiniteSetTheorems, WellFoundedInduction

Table == [Keys -> Row \cup {NoRow}]

\* Absent rows and idle workers are never mistaken for present ones.
LEMMA Distinct ==
    /\ NoRow \notin Row
    /\ Idle \notin Job
    /\ \A row \in Row \cup {NoRow} : row.status # "none" <=> row \in Row
    /\ \A job \in Job \cup {Idle} : job.pc # "idle" <=> job \in Job
  BY DEF Row, NoRow, Idle, Job, Statuses, Active, Terminal

\* Clearing the claim changes nothing but the claim.
LEMMA UnclaimedRow ==
    ASSUME NEW row \in Row
    PROVE  /\ Unclaimed(row) \in Row
           /\ Unclaimed(row).status = row.status
           /\ Unclaimed(row).attempts = row.attempts
           /\ Unclaimed(row).expiresAt = row.expiresAt
  BY DEF Unclaimed, Row

\* A row given up for another attempt is pending only if it may be attempted again.
LEMMA RetriedRow ==
    ASSUME NEW row \in Row, NEW t \in Nat, NEW class \in Classes, NEW next \in Nat
    PROVE  /\ Retried(row, t, class, next) \in Row
           /\ Retried(row, t, class, next).status \in {"expired", "exhausted", "pending"}
           /\ Retried(row, t, class, next).attempts = row.attempts
           /\ Retried(row, t, class, next).token = row.token
           /\ Retried(row, t, class, next).status = "pending" => row.attempts < MaxAttempts
  <1> DEFINE status == IF row.expiresAt <= t THEN "expired"
                       ELSE IF row.attempts >= MaxAttempts THEN "exhausted"
                       ELSE "pending"
  <1>1. Retried(row, t, class, next) =
            [row EXCEPT !.status = status, !.class = class, !.nextAt = next]
    BY DEF Retried
  <1>2. /\ status \in {"expired", "exhausted", "pending"}
        /\ status = "pending" => ~ (row.attempts >= MaxAttempts)
    OBVIOUS
  <1>3. status \in Statuses
    BY <1>2 DEF Statuses, Terminal
  <1>4. row.attempts \in Nat /\ MaxAttempts \in Nat
    BY ConstantsAssumption DEF Row
  <1> HIDE DEF status
  <1> DEFINE new == [row EXCEPT !.status = status, !.class = class, !.nextAt = next]
  <1>5. new \in Row
    BY <1>3 DEF Row
  <1>6. new.status = status /\ new.attempts = row.attempts /\ new.token = row.token
    BY DEF Row
  <1>7. new = Retried(row, t, class, next)
    BY <1>1
  <1>8. status = "pending" => row.attempts < MaxAttempts
    BY <1>2, <1>4
  <1> HIDE DEF new
  <1> QED BY <1>2, <1>5, <1>6, <1>7, <1>8

\* The same of a row whose claim is given up with it.
LEMMA GivenUpRow ==
    ASSUME NEW row \in Row, NEW t \in Nat, NEW class \in Classes, NEW next \in Nat
    PROVE  /\ Retried(Unclaimed(row), t, class, next) \in Row
           /\ Retried(Unclaimed(row), t, class, next).status \in {"expired", "exhausted", "pending"}
           /\ Retried(Unclaimed(row), t, class, next).attempts = row.attempts
           /\ Retried(Unclaimed(row), t, class, next).status = "pending" => row.attempts < MaxAttempts
  BY UnclaimedRow, RetriedRow

\* A quarantined row is quarantined, unclaimed, and nothing else changes.
LEMMA QuarantinedRow ==
    ASSUME NEW row \in Row, NEW class \in Classes
    PROVE  /\ Quarantined(row, class) \in Row
           /\ Quarantined(row, class).status = "quarantined"
           /\ Quarantined(row, class).attempts = row.attempts
  BY UnclaimedRow DEF Quarantined, Unclaimed, Row, Statuses

\* What the sweep of stale claims does to a row: it is left alone, or it leaves
\* the active statuses without another attempt being counted.
LEMMA SweptRow ==
    ASSUME NEW row \in Row, NEW t \in Nat
    PROVE  /\ Swept(row, t) \in Row
           /\ Swept(row, t).attempts = row.attempts
           /\ \/ Swept(row, t) = row
              \/ /\ row.status = "dispatching"
                 /\ Swept(row, t).status = "quarantined"
              \/ /\ row.status = "processing"
                 /\ Swept(row, t).status \in {"expired", "exhausted", "pending"}
                 /\ Swept(row, t).status = "pending" => row.attempts < MaxAttempts
  <1>c. "delivery_unknown" \in Classes /\ "generation_failed_before_send" \in Classes
    BY DEF Classes, Quarantines, Recoverable
  <1>1. CASE Stale(row, "dispatching", t)
    <2>1. Swept(row, t) = Quarantined(row, "delivery_unknown") /\ row.status = "dispatching"
      BY <1>1 DEF Swept, Stale
    <2> QED BY <1>c, <2>1, QuarantinedRow
  <1>2. CASE ~ Stale(row, "dispatching", t) /\ Stale(row, "processing", t)
    <2>1. /\ Swept(row, t) = Retried(Unclaimed(row), t, "generation_failed_before_send", t)
          /\ row.status = "processing"
      BY <1>2 DEF Swept, Stale
    <2> QED BY <1>c, <2>1, UnclaimedRow, RetriedRow
  <1>3. CASE ~ Stale(row, "dispatching", t) /\ ~ Stale(row, "processing", t)
    BY <1>3 DEF Swept
  <1> QED BY <1>1, <1>2, <1>3

\* What the whole maintenance does to a row: an active row of the result is an
\* untouched one, a pending one was pending or under generation, nothing is
\* recovered or counted, and absent rows stay absent.
LEMMA MaintainedRow ==
    ASSUME rows \in Table, NEW t \in Nat, NEW k \in Keys
    PROVE  /\ Maintained(t)[k] \in Row \cup {NoRow}
           /\ Maintained(t)[k] = NoRow <=> rows[k] = NoRow
           /\ rows[k] # NoRow => Maintained(t)[k].attempts = rows[k].attempts
           /\ Maintained(t)[k].status \in Active \cup {"recovered"} => Maintained(t)[k] = rows[k]
           /\ Maintained(t)[k].status = "pending" =>
                /\ rows[k].status \in {"pending", "processing"}
                /\ rows[k].status = "processing" => rows[k].attempts < MaxAttempts
           /\ rows[k].status \in Terminal => Maintained(t)[k] = rows[k]
  <1> DEFINE row == rows[k]
             mid == Swept(row, t)
             new == Expired(mid, t)
  <1>1. Maintained(t)[k] = new
    BY DEF Maintained
  <1>2. CASE row = NoRow
    <2>1. mid = row
      BY <1>2 DEF Swept, Stale, NoRow
    <2>2. new = row
      BY <1>2, <2>1 DEF Expired, NoRow
    <2> QED BY <1>1, <1>2, <2>2 DEF NoRow, Active, Terminal
  <1>3. CASE row \in Row
    <2>1. mid \in Row /\ mid.attempts = row.attempts
      BY <1>3, SweptRow
    <2>2. \/ mid = row
          \/ /\ row.status = "dispatching"
             /\ mid.status = "quarantined"
          \/ /\ row.status = "processing"
             /\ mid.status \in {"expired", "exhausted", "pending"}
             /\ mid.status = "pending" => row.attempts < MaxAttempts
      BY <1>3, SweptRow
    <2> HIDE DEF mid
    <2>3. /\ new \in Row /\ new.attempts = mid.attempts
          /\ \/ new = mid
             \/ new.status = "expired" /\ mid.status \in {"pending", "quarantined"}
      BY <2>1 DEF Expired, Row, Statuses, Terminal
    <2> HIDE DEF new
    <2> QED BY <1>1, <1>3, <2>1, <2>2, <2>3, Distinct DEF Active, Terminal
  <1> QED BY <1>2, <1>3 DEF Table

\* A batch consists of rows that are ready, of the conversation of its anchor.
LEMMA BatchReady ==
    ASSUME NEW Q, NEW anchor, NEW k \in Batch(Q, anchor)
    PROVE  k \in Keys /\ ConvOf[k] = ConvOf[anchor] /\ Ready(Q[k], clock)
  BY DEF Batch

\* A claimed row is under generation, with one more attempt and the claim's token.
LEMMA ClaimedRow ==
    ASSUME NEW row \in Row, NEW tok \in Tokens, clock \in Nat
    PROVE  /\ Claimed(row, tok) \in Row
           /\ Claimed(row, tok).status = "processing"
           /\ Claimed(row, tok).token = tok
           /\ Claimed(row, tok).attempts = row.attempts + 1
  <1> DEFINE n == row.attempts + 1
             e == clock + Lease
  <1>1. n \in Nat /\ e \in Nat
    BY ConstantsAssumption DEF Row
  <1>2. Claimed(row, tok) = [row EXCEPT !.status = "processing", !.attempts = n,
                                        !.token = tok, !.leaseEnd = e]
    BY DEF Claimed, Row
  <1>3. "processing" \in Statuses
    BY DEF Statuses, Active
  <1> HIDE DEF n, e
  <1>4. /\ Claimed(row, tok) \in Row
        /\ Claimed(row, tok).status = "processing"
        /\ Claimed(row, tok).token = tok
        /\ Claimed(row, tok).attempts = n
    BY <1>1, <1>2, <1>3 DEF Row
  <1> QED BY <1>4 DEF n

\* A first report makes a well-typed row that nobody has claimed or attempted.
LEMMA InsertedRow ==
    ASSUME NEW class \in Classes, NEW r \in Routes, clock \in Nat
    PROVE  /\ Inserted(class, r) \in Row
           /\ Inserted(class, r).status \in {"pending", "quarantined"}
           /\ Inserted(class, r).attempts = 0
           /\ Inserted(class, r).status = "pending" <=> class \in Recoverable
  <1> DEFINE S == {k \in Keys : rows[k] # NoRow}
             id == 1 + Cardinality(S)
             end == clock + TTL
  <1>1. Cardinality(S) \in Nat
    <2>1. S \in SUBSET Keys /\ IsFiniteSet(Keys)
      BY ConstantsAssumption
    <2> HIDE DEF S
    <2> QED BY <2>1, FS_Subset, FS_CardinalityType
  <1> HIDE DEF S
  <1>2. id \in Nat /\ end \in Nat
    BY <1>1, ConstantsAssumption
  <1>3. Inserted(class, r) =
          [status |-> IF class \in Recoverable THEN "pending" ELSE "quarantined",
           id |-> id, class |-> class, route |-> r, attempts |-> 0,
           expiresAt |-> end, nextAt |-> clock, token |-> NoToken, leaseEnd |-> 0]
    BY DEF Inserted, S
  <1> HIDE DEF id, end
  <1> QED BY <1>2, <1>3 DEF Row, Statuses

\* A further report leaves a row as it is but for its route and class, or
\* quarantines it, and the latter exactly if the report is doubtful.
LEMMA RereportedRow ==
    ASSUME NEW row \in Row, NEW class \in Classes, NEW r \in Routes
    PROVE  /\ Rereported(row, class, r) \in Row
           /\ Rereported(row, class, r).attempts = row.attempts
           /\ class \in Quarantines => Rereported(row, class, r).status = "quarantined"
           /\ class \notin Quarantines =>
                /\ Rereported(row, class, r).status = row.status
                /\ Rereported(row, class, r).token = row.token
  <1>1. CASE class \in Quarantines
    <2>1. [row EXCEPT !.route = r] \in Row /\ [row EXCEPT !.route = r].attempts = row.attempts
      BY DEF Row
    <2>2. Rereported(row, class, r) = Quarantined([row EXCEPT !.route = r], class)
      BY <1>1 DEF Rereported
    <2> QED BY <1>1, <2>1, <2>2, QuarantinedRow
  <1>2. CASE class \notin Quarantines
    BY <1>2 DEF Rereported, Row
  <1> QED BY <1>1, <1>2

\* A finalised row is out of work, recovered only if its reply was confirmed, and
\* open again only within the limit of attempts.
LEMMA FinalizedRow ==
    ASSUME NEW row \in Row, NEW outcome \in Outcomes, NEW delay \in Backoffs, clock \in Nat
    PROVE  /\ Finalized(row, outcome, delay) \in Row
           /\ Finalized(row, outcome, delay).status \in Terminal \cup {"pending", "quarantined"}
           /\ Finalized(row, outcome, delay).status \notin Active
           /\ Finalized(row, outcome, delay).attempts = row.attempts
           /\ Finalized(row, outcome, delay).status = "recovered" => outcome = "confirmed"
           /\ Finalized(row, outcome, delay).status = "pending" =>
                outcome = "confirmed_not_sent" /\ row.attempts < MaxAttempts
  <1>1. CASE outcome = "confirmed"
    <2>1. Finalized(row, outcome, delay) = [Unclaimed(row) EXCEPT !.status = "recovered"]
      BY <1>1 DEF Finalized, Quarantines
    <2> QED BY <1>1, <2>1, UnclaimedRow DEF Row, Statuses, Terminal, Active
  <1>2. CASE outcome = "confirmed_not_sent"
    <2>1. Finalized(row, outcome, delay) =
            Retried(Unclaimed(row), clock, "confirmed_not_sent", clock + delay)
      BY <1>2 DEF Finalized, Quarantines
    <2>2. "confirmed_not_sent" \in Classes /\ clock + delay \in Nat
      BY ConstantsAssumption DEF Classes, Recoverable
    <2> QED BY <1>2, <2>1, <2>2, UnclaimedRow, RetriedRow, SMTT(30) DEF Terminal, Active
  <1>3. CASE outcome \in Quarantines
    <2>1. Finalized(row, outcome, delay) = Quarantined(row, outcome)
      BY <1>3 DEF Finalized, Quarantines
    <2>2. outcome \in Classes
      BY <1>3 DEF Classes
    <2> QED BY <2>1, <2>2, QuarantinedRow DEF Active
  <1> QED BY <1>1, <1>2, <1>3 DEF Outcomes
-----------------------------------------------------------------------------
(* Types                                                                    *)

\* The empty queue is well typed.
THEOREM TypeInit == Init => TypeOK
  BY ConstantsAssumption DEF Init, TypeOK

\* Every step keeps the types.
THEOREM TypeStep == TypeOK /\ [Next]_vars => TypeOK'
  <1> SUFFICES ASSUME TypeOK, [Next]_vars PROVE TypeOK'
    OBVIOUS
  <1> USE ConstantsAssumption
  <1>t. /\ rows \in Table /\ clock \in Nat /\ clock \in 0 .. MaxTime
        /\ workers \in [Workers -> Job \cup {Idle}]
        /\ reports \in [Keys -> Nat] /\ doubt \in [Keys -> BOOLEAN] /\ sent \in [Keys -> Nat]
    BY DEF TypeOK, Table
  <1>c. /\ "generation_failed_before_send" \in Classes /\ "confirmed_not_sent" \in Classes
        /\ "delivery_unknown" \in Outcomes
    BY DEF Classes, Recoverable, Quarantines, Outcomes
  <1>m. \A k \in Keys : Maintained(clock)[k] \in Row \cup {NoRow}
    BY <1>t, MaintainedRow
  <1>1. ASSUME NEW k \in Keys, NEW class \in Classes, NEW r \in Routes, Record(k, class, r)
        PROVE  TypeOK'
    <2>1. reports' \in [Keys -> Nat] /\ UNCHANGED <<clock, workers>>
      BY <1>1, <1>t DEF Record
    <2>2. sent' \in [Keys -> Nat]
      <3> DEFINE may == CASE class = "delivery_unknown" -> {0, 1}
                          [] class = "delivery_partial" -> {1}
                          [] OTHER                      -> {0}
      <3>1. PICK n \in may : sent' = [sent EXCEPT ![k] = @ + n]
        BY <1>1 DEF Record
      <3>2. n \in Nat
        BY <3>1
      <3> HIDE DEF may
      <3> QED BY <3>1, <3>2, <1>t
    <2>3. rows' \in Table /\ doubt' \in [Keys -> BOOLEAN]
      <3>1. CASE rows[k] # NoRow /\ rows[k].status \in Terminal
        BY <3>1, <1>1, <1>t DEF Record
      <3>2. CASE ~ (rows[k] # NoRow /\ rows[k].status \in Terminal)
        <4> DEFINE new == IF rows[k] = NoRow THEN Inserted(class, r)
                          ELSE Rereported(rows[k], class, r)
        <4>1. new \in Row
          BY <1>t, InsertedRow, RereportedRow DEF Table
        <4>2. rows' = [rows EXCEPT ![k] = new]
          BY <3>2, <1>1 DEF Record
        <4>3. doubt' \in [Keys -> BOOLEAN]
          BY <3>2, <1>1, <1>t DEF Record
        <4> HIDE DEF new
        <4> QED BY <4>1, <4>2, <4>3, <1>t DEF Table
      <3> QED BY <3>1, <3>2
    <2> QED BY <2>1, <2>2, <2>3, <1>t DEF TypeOK, Table
  <1>2. ASSUME NEW w \in Workers, NEW asked, Claim(w, asked) PROVE TypeOK'
    <2> DEFINE Q == Maintained(clock)
    <2>1. PICK anchor \in Oldest(Q, Anchors(Q, asked)), tok \in Tokens \ InUse :
            /\ rows' = [k \in Keys |-> IF k \in Batch(Q, anchor) THEN Claimed(Q[k], tok)
                                      ELSE Q[k]]
            /\ workers' = [workers EXCEPT ![w] =
                    [pc |-> "generate", token |-> tok, items |-> {},
                     outcome |-> "delivery_unknown"]]
      BY <1>2 DEF Claim
    <2>2. \A k \in Batch(Q, anchor) : Q[k] \in Row
      BY <1>m, BatchReady, Distinct DEF Ready
    <2>3. \A k \in Batch(Q, anchor) : Claimed(Q[k], tok) \in Row
      BY <2>2, <1>t, ClaimedRow
    <2>4. rows' \in Table
      <3> HIDE DEF Q
      <3> QED BY <2>1, <2>3, <1>m DEF Table, Q
    <2>5. [pc |-> "generate", token |-> tok, items |-> {}, outcome |-> "delivery_unknown"] \in Job
      BY <1>c DEF Job
    <2>6. workers' \in [Workers -> Job \cup {Idle}]
      BY <2>1, <2>5, <1>t
    <2> QED BY <2>4, <2>6, <1>2, <1>t DEF Claim, TypeOK, Table, chat
  <1>3. ASSUME NEW w \in Workers, Renew(w) PROVE TypeOK'
    <2>1. \A k \in Owned(workers[w].token, Active) : rows[k] \in Row
      BY <1>t, Distinct DEF Owned, Active, Table
    <2>2. clock + Lease \in Nat
      BY <1>t
    <2>3. \A row \in Row, e \in Nat : [row EXCEPT !.leaseEnd = e] \in Row
      BY DEF Row
    <2>4. rows' \in Table
      BY <2>1, <2>2, <2>3, <1>3, <1>t DEF Renew, Table
    <2> QED BY <2>4, <1>3, <1>t DEF Renew, TypeOK, Table, chat
  <1>4. ASSUME NEW w \in Workers, DispatchStart(w) PROVE TypeOK'
    <2> DEFINE mine == Owned(workers[w].token, {"processing"})
    <2>1. mine \subseteq Keys /\ \A k \in mine : rows[k] \in Row
      BY <1>t, Distinct DEF Owned, Table
    <2>2. clock + Lease \in Nat
      BY <1>t
    <2>3. \A row \in Row, e \in Nat :
            [row EXCEPT !.status = "dispatching", !.leaseEnd = e] \in Row
      BY DEF Row, Statuses, Active
    <2>4. /\ rows' = [k \in Keys |-> IF k \in mine
                        THEN [rows[k] EXCEPT !.status = "dispatching",
                                             !.leaseEnd = clock + Lease] ELSE rows[k]]
          /\ doubt' = [k \in Keys |-> doubt[k] \/ k \in mine]
          /\ workers' = [workers EXCEPT ![w].pc = "send", ![w].items = mine]
          /\ workers[w].pc = "generate"
          /\ UNCHANGED <<clock, reports, sent>>
      BY <1>4 DEF DispatchStart
    <2> HIDE DEF mine
    <2>5. rows' \in Table
      BY <2>1, <2>2, <2>3, <2>4, <1>t DEF Table
    <2>6. workers[w] \in Job
      BY <2>4, <1>t, Distinct
    <2>7. [workers[w] EXCEPT !.pc = "send", !.items = mine] \in Job
      BY <2>6, <2>1 DEF Job
    <2>8. workers' = [workers EXCEPT ![w] = [workers[w] EXCEPT !.pc = "send", !.items = mine]]
      BY <2>4, <1>t
    <2>9. workers' \in [Workers -> Job \cup {Idle}]
      BY <2>7, <2>8, <1>t
    <2>d. doubt' \in [Keys -> BOOLEAN]
      BY <2>4, <1>t
    <2> QED BY <2>4, <2>5, <2>9, <2>d, <1>t DEF TypeOK, Table
  <1>5. ASSUME NEW w \in Workers, NEW delay \in Backoffs, GenerationFails(w, delay)
        PROVE  TypeOK'
    <2> DEFINE mine == Owned(workers[w].token, {"processing"})
    <2>1. \A k \in mine : rows[k] \in Row
      BY <1>t, Distinct DEF Owned, Table
    <2>2. clock + delay \in Nat
      BY <1>t
    <2>3. \A k \in mine : Retried(Unclaimed(rows[k]), clock,
                            "generation_failed_before_send", clock + delay) \in Row
      BY <2>1, <2>2, <1>t, <1>c, UnclaimedRow, RetriedRow
    <2>4. rows' \in Table
      BY <2>3, <1>5, <1>t DEF GenerationFails, Table
    <2> QED BY <2>4, <1>5, <1>t DEF GenerationFails, TypeOK, Table, chat
  <1>6. ASSUME NEW w \in Workers, Send(w) PROVE TypeOK'
    <2>1. PICK outcome \in Outcomes, arrived \in BOOLEAN :
            /\ sent' = [k \in Keys |-> IF arrived /\ k \in workers[w].items
                                       THEN sent[k] + 1 ELSE sent[k]]
            /\ workers' = [workers EXCEPT ![w].pc = "report", ![w].outcome = outcome]
      BY <1>6 DEF Send
    <2>2. workers[w] \in Job
      BY <1>6, <1>t, Distinct DEF Send
    <2>3. [workers[w] EXCEPT !.pc = "report", !.outcome = outcome] \in Job
      BY <2>2 DEF Job
    <2>4. workers' = [workers EXCEPT ![w] = [workers[w] EXCEPT !.pc = "report", !.outcome = outcome]]
      BY <2>1, <1>t
    <2>5. workers' \in [Workers -> Job \cup {Idle}]
      BY <2>3, <2>4, <1>t
    <2>6. sent' \in [Keys -> Nat]
      BY <2>1, <1>t
    <2> QED BY <2>5, <2>6, <1>6, <1>t DEF Send, TypeOK, Table
  <1>7. ASSUME NEW w \in Workers, NEW delay \in Backoffs, Finalize(w, delay) PROVE TypeOK'
    <2> DEFINE job == workers[w]
               mine == Owned(job.token, {"dispatching"})
    <2>1. \A k \in mine : rows[k] \in Row
      BY <1>t, Distinct DEF Owned, Table
    <2>2. job \in Job
      BY <1>7, <1>t, Distinct DEF Finalize
    <2>3. \A k \in mine : Finalized(rows[k], job.outcome, delay) \in Row
      BY <2>1, <2>2, <1>t, FinalizedRow DEF Job
    <2>4. rows' \in Table
      BY <2>3, <1>7, <1>t DEF Finalize, Table
    <2>5. doubt' \in [Keys -> BOOLEAN] /\ workers' \in [Workers -> Job \cup {Idle}]
      BY <1>7, <1>t DEF Finalize
    <2> QED BY <2>4, <2>5, <1>7, <1>t DEF Finalize, TypeOK, Table
  <1>8. ASSUME NEW w \in Workers, ClaimError(w) \/ Crash(w) PROVE TypeOK'
    BY <1>8, <1>t DEF ClaimError, Crash, TypeOK, Table, chat
  <1>9. CASE ExpireDue
    BY <1>9, <1>m, <1>t DEF ExpireDue, Maintained, TypeOK, Table, chat
  <1>10. ASSUME NEW r \in Routes, WakeRoute(r) PROVE TypeOK'
    <2> DEFINE Q == Maintained(clock)
               Woken(k) == Q[k].status = "pending" /\ Q[k].route = r /\ Q[k].class \in Recoverable
                           /\ Q[k].attempts < MaxAttempts /\ Q[k].expiresAt > clock
    <2>1. \A row \in Row : [row EXCEPT !.nextAt = clock] \in Row
      BY <1>t DEF Row
    <2>2. rows' = [k \in Keys |-> IF Woken(k) THEN [Q[k] EXCEPT !.nextAt = clock] ELSE Q[k]]
      BY <1>10 DEF WakeRoute
    <2>3. \A k \in Keys : Woken(k) => Q[k] \in Row
      BY <1>m, Distinct
    <2>4. rows' \in Table
      <3> HIDE DEF Woken, Q
      <3> QED BY <2>1, <2>2, <2>3, <1>m DEF Table, Q
    <2> QED BY <2>4, <1>10, <1>t DEF WakeRoute, TypeOK, Table, chat
  <1>11. ASSUME NEW k \in Keys, ConfirmNotSent(k) PROVE TypeOK'
    <2>1. rows[k] \in Row
      BY <1>11, <1>t, Distinct DEF ConfirmNotSent, Table
    <2>2. Retried(rows[k], clock, "confirmed_not_sent", clock) \in Row
      BY <2>1, <1>t, <1>c, RetriedRow
    <2>3. rows' \in Table /\ doubt' \in [Keys -> BOOLEAN]
      BY <2>2, <1>11, <1>t DEF ConfirmNotSent, Table
    <2> QED BY <2>3, <1>11, <1>t DEF ConfirmNotSent, TypeOK, Table
  <1>12. ASSUME NEW k \in Keys, Abandon(k) PROVE TypeOK'
    <2>1. rows[k] \in Row
      BY <1>12, <1>t, Distinct DEF Abandon, Table
    <2>2. [Unclaimed(rows[k]) EXCEPT !.status = "abandoned"] \in Row
      BY <2>1, UnclaimedRow DEF Row, Statuses, Terminal
    <2>3. rows' \in Table
      BY <2>2, <1>12, <1>t DEF Abandon, Table
    <2> QED BY <2>3, <1>12, <1>t DEF Abandon, TypeOK, Table, chat
  <1>13. CASE Tick
    BY <1>13, <1>t DEF Tick, TypeOK, Table, chat
  <1>14. CASE UNCHANGED vars
    BY <1>14, <1>t DEF vars, TypeOK, Table, chat
  <1> QED
    BY <1>1, <1>2, <1>3, <1>4, <1>5, <1>6, <1>7, <1>8, <1>9, <1>10, <1>11, <1>12, <1>13, <1>14
    DEF Next, WorkerStep

\* Every reachable state of the queue, its workers and its reporters is well typed
\* (the table's columns and the constants at the head of reply_recovery_queue.py).
THEOREM TypeCorrect == Spec => []TypeOK
  <1> QED BY TypeInit, TypeStep, PTL DEF Spec
-----------------------------------------------------------------------------
(* Nothing in doubt is replayed                                             *)

\* A message that was never reported has no attempt in doubt either: a first
\* report finds no doubt to inherit.
UnreportedNoDoubt == \A k \in Keys : rows[k] = NoRow => ~ doubt[k]

ReplayInv == NoBlindReplay /\ UnreportedNoDoubt

THEOREM ReplayInit == Init => ReplayInv
  BY DEF Init, ReplayInv, NoBlindReplay, UnreportedNoDoubt, NoRow

\* Rows under work are present ones.
LEMMA OwnedRow ==
    ASSUME rows \in Table, NEW tok, NEW S \in SUBSET Active, NEW k \in Owned(tok, S)
    PROVE  k \in Keys /\ rows[k] \in Row /\ rows[k].status \in S
  BY Distinct DEF Owned, Active, Table

\* Maintenance alone keeps the invariant.
LEMMA ReplayMaintained ==
    ASSUME TypeOK, ReplayInv, NEW k \in Keys
    PROVE  /\ Maintained(clock)[k].status \in {"pending", "processing"} => ~ doubt[k]
           /\ Maintained(clock)[k] = NoRow => ~ doubt[k]
  <1>1. rows \in Table /\ clock \in Nat
    BY ConstantsAssumption DEF TypeOK, Table
  <1>2. /\ Maintained(clock)[k] = NoRow <=> rows[k] = NoRow
        /\ Maintained(clock)[k].status = "processing" => Maintained(clock)[k] = rows[k]
        /\ Maintained(clock)[k].status = "pending" => rows[k].status \in {"pending", "processing"}
    BY <1>1, MaintainedRow DEF Active
  <1> QED BY <1>2 DEF ReplayInv, NoBlindReplay, UnreportedNoDoubt

\* Every step keeps doubtful items out of the statuses that lead to another reply.
THEOREM ReplayStep == TypeOK /\ ReplayInv /\ [Next]_vars => ReplayInv'
  <1> SUFFICES ASSUME TypeOK, ReplayInv, [Next]_vars PROVE ReplayInv'
    OBVIOUS
  <1> USE ConstantsAssumption
  <1>t. /\ rows \in Table /\ clock \in Nat
        /\ workers \in [Workers -> Job \cup {Idle}]
        /\ doubt \in [Keys -> BOOLEAN]
    BY DEF TypeOK, Table
  <1>c. "generation_failed_before_send" \in Classes /\ "confirmed_not_sent" \in Classes
    BY DEF Classes, Recoverable
  <1>g. \A k \in Keys : /\ rows[k].status \in {"pending", "processing"} => ~ doubt[k]
                        /\ rows[k] = NoRow => ~ doubt[k]
    BY DEF ReplayInv, NoBlindReplay, UnreportedNoDoubt
  <1>h. SUFFICES \A k \in Keys : /\ rows'[k].status \in {"pending", "processing"} => ~ doubt'[k]
                                 /\ rows'[k] = NoRow => ~ doubt'[k]
    BY DEF ReplayInv, NoBlindReplay, UnreportedNoDoubt
  <1>1. ASSUME NEW k \in Keys, NEW class \in Classes, NEW r \in Routes, Record(k, class, r),
               NEW j \in Keys
        PROVE  /\ rows'[j].status \in {"pending", "processing"} => ~ doubt'[j]
               /\ rows'[j] = NoRow => ~ doubt'[j]
    <2>1. CASE rows[k] # NoRow /\ rows[k].status \in Terminal
      BY <2>1, <1>1, <1>g DEF Record
    <2>2. CASE ~ (rows[k] # NoRow /\ rows[k].status \in Terminal) /\ j # k
      BY <2>2, <1>1, <1>t, <1>g DEF Record, Table
    <2>3. CASE ~ (rows[k] # NoRow /\ rows[k].status \in Terminal) /\ j = k
      <3>1. /\ rows'[j] = IF rows[k] = NoRow THEN Inserted(class, r)
                          ELSE Rereported(rows[k], class, r)
            /\ doubt'[j] = (doubt[k] \/ class \in Quarantines)
        BY <2>3, <1>1, <1>t DEF Record, Table
      <3>2. class \in Recoverable <=> class \notin Quarantines
        BY DEF Classes, Recoverable, Quarantines
      <3>3. CASE rows[k] = NoRow
        <4>1. rows'[j] = Inserted(class, r) /\ ~ doubt[k]
          BY <3>1, <3>3, <1>g
        <4>2. rows'[j] \in Row /\ (rows'[j].status \in {"pending", "processing"} => class \in Recoverable)
          BY <4>1, <1>t, InsertedRow
        <4> QED BY <4>1, <4>2, <3>1, <3>2, Distinct
      <3>4. CASE rows[k] # NoRow
        <4>1. rows'[j] = Rereported(rows[k], class, r) /\ rows[k] \in Row
          BY <3>1, <3>4, <1>t DEF Table
        <4>2. /\ rows'[j] \in Row
              /\ class \in Quarantines => rows'[j].status = "quarantined"
              /\ class \notin Quarantines => rows'[j].status = rows[k].status
          BY <4>1, RereportedRow
        <4> QED BY <4>2, <3>1, <1>g, Distinct
      <3> QED BY <3>3, <3>4
    <2> QED BY <2>1, <2>2, <2>3
  <1>2. ASSUME NEW w \in Workers, NEW asked, Claim(w, asked), NEW j \in Keys
        PROVE  /\ rows'[j].status \in {"pending", "processing"} => ~ doubt'[j]
               /\ rows'[j] = NoRow => ~ doubt'[j]
    <2> DEFINE Q == Maintained(clock)
    <2>1. PICK anchor \in Oldest(Q, Anchors(Q, asked)), tok \in Tokens \ InUse :
            rows' = [k \in Keys |-> IF k \in Batch(Q, anchor) THEN Claimed(Q[k], tok) ELSE Q[k]]
      BY <1>2 DEF Claim
    <2>2. doubt' = doubt
      BY <1>2 DEF Claim, chat
    <2>3. CASE j \in Batch(Q, anchor)
      <3>1. Q[j].status = "pending"
        BY <2>3, BatchReady DEF Ready
      <3>2. ~ doubt[j]
        BY <3>1, ReplayMaintained
      <3> QED BY <3>2, <2>2
    <2>4. CASE j \notin Batch(Q, anchor)
      <3>1. rows'[j] = Q[j]
        BY <2>1, <2>4
      <3> QED BY <3>1, <2>2, ReplayMaintained
    <2> QED BY <2>3, <2>4
  <1>3. ASSUME NEW w \in Workers, Renew(w), NEW j \in Keys
        PROVE  /\ rows'[j].status \in {"pending", "processing"} => ~ doubt'[j]
               /\ rows'[j] = NoRow => ~ doubt'[j]
    <2>1. rows[j] \in Row => [rows[j] EXCEPT !.leaseEnd = clock + Lease].status = rows[j].status
                             /\ [rows[j] EXCEPT !.leaseEnd = clock + Lease] # NoRow
      BY DEF Row, NoRow, Statuses, Active, Terminal
    <2>2. j \in Owned(workers[w].token, Active) => rows[j] \in Row
      BY <1>t, OwnedRow
    <2> QED BY <2>1, <2>2, <1>3, <1>g DEF Renew, chat
  <1>4. ASSUME NEW w \in Workers, DispatchStart(w), NEW j \in Keys
        PROVE  /\ rows'[j].status \in {"pending", "processing"} => ~ doubt'[j]
               /\ rows'[j] = NoRow => ~ doubt'[j]
    <2> DEFINE mine == Owned(workers[w].token, {"processing"})
    <2>1. /\ rows'[j] = IF j \in mine
                        THEN [rows[j] EXCEPT !.status = "dispatching", !.leaseEnd = clock + Lease]
                        ELSE rows[j]
          /\ doubt'[j] = (doubt[j] \/ j \in mine)
      BY <1>4 DEF DispatchStart
    <2>2. j \in mine => rows[j] \in Row
      BY <1>t, OwnedRow DEF Active
    <2>3. rows[j] \in Row =>
            [rows[j] EXCEPT !.status = "dispatching", !.leaseEnd = clock + Lease].status = "dispatching"
            /\ [rows[j] EXCEPT !.status = "dispatching", !.leaseEnd = clock + Lease] # NoRow
      BY DEF Row, NoRow
    <2> HIDE DEF mine
    <2> QED BY <2>1, <2>2, <2>3, <1>g
  <1>5. ASSUME NEW w \in Workers, NEW delay \in Backoffs, GenerationFails(w, delay), NEW j \in Keys
        PROVE  /\ rows'[j].status \in {"pending", "processing"} => ~ doubt'[j]
               /\ rows'[j] = NoRow => ~ doubt'[j]
    <2> DEFINE mine == Owned(workers[w].token, {"processing"})
    <2>1. doubt' = doubt
      BY <1>5 DEF GenerationFails, chat
    <2>2. CASE j \in mine
      <3>1. ~ doubt[j]
        BY <2>2, <1>g, <1>t DEF Owned
      <3> QED BY <3>1, <2>1
    <2>3. CASE j \notin mine
      BY <2>3, <2>1, <1>5, <1>g DEF GenerationFails
    <2> QED BY <2>2, <2>3
  <1>6. ASSUME NEW w \in Workers, NEW delay \in Backoffs, Finalize(w, delay), NEW j \in Keys
        PROVE  /\ rows'[j].status \in {"pending", "processing"} => ~ doubt'[j]
               /\ rows'[j] = NoRow => ~ doubt'[j]
    <2> DEFINE outcome == workers[w].outcome
               mine == Owned(workers[w].token, {"dispatching"})
    <2>1. /\ rows'[j] = IF j \in mine THEN Finalized(rows[j], outcome, delay) ELSE rows[j]
          /\ doubt'[j] = (doubt[j] /\ ~ (outcome = "confirmed_not_sent" /\ j \in mine))
      BY <1>6 DEF Finalize
    <2>2. workers[w] \in Job
      BY <1>6, <1>t, Distinct DEF Finalize
    <2>3. j \in mine => rows[j] \in Row
      BY <1>t, OwnedRow DEF Active
    <2>4. CASE j \notin mine
      BY <2>4, <2>1, <1>g
    <2>5. CASE j \in mine /\ outcome = "confirmed_not_sent"
      BY <2>5, <2>1
    <2>6. CASE j \in mine /\ outcome = "confirmed"
      <3>1. rows'[j] = [Unclaimed(rows[j]) EXCEPT !.status = "recovered"]
        BY <2>6, <2>1 DEF Finalized, Quarantines
      <3>2. rows'[j].status = "recovered"
        BY <3>1, <2>3, <2>6, UnclaimedRow DEF Row
      <3> QED BY <3>2 DEF NoRow
    <2>7. CASE j \in mine /\ outcome \in Quarantines
      <3>1. rows'[j] = Quarantined(rows[j], outcome) /\ outcome \in Classes
        BY <2>7, <2>1 DEF Finalized, Quarantines, Classes
      <3>2. rows'[j].status = "quarantined"
        BY <3>1, <2>3, <2>7, QuarantinedRow
      <3> QED BY <3>2 DEF NoRow
    <2> QED BY <2>2, <2>4, <2>5, <2>6, <2>7 DEF Job, Outcomes
  <1>7. ASSUME NEW w \in Workers, Send(w) \/ ClaimError(w) \/ Crash(w)
        PROVE  rows' = rows /\ doubt' = doubt
    BY <1>7 DEF Send, ClaimError, Crash, chat
  <1>8. ASSUME ExpireDue, NEW j \in Keys
        PROVE  /\ rows'[j].status \in {"pending", "processing"} => ~ doubt'[j]
               /\ rows'[j] = NoRow => ~ doubt'[j]
    BY <1>8, ReplayMaintained DEF ExpireDue, chat
  <1>9. ASSUME NEW r \in Routes, WakeRoute(r), NEW j \in Keys
        PROVE  /\ rows'[j].status \in {"pending", "processing"} => ~ doubt'[j]
               /\ rows'[j] = NoRow => ~ doubt'[j]
    <2> DEFINE Q == Maintained(clock)
    <2>1. rows'[j] = Q[j] \/ Q[j].status = "pending"
      BY <1>9 DEF WakeRoute
    <2>2. doubt' = doubt
      BY <1>9 DEF WakeRoute, chat
    <2> QED BY <2>1, <2>2, ReplayMaintained
  <1>10. ASSUME NEW k \in Keys, ConfirmNotSent(k), NEW j \in Keys
         PROVE  /\ rows'[j].status \in {"pending", "processing"} => ~ doubt'[j]
                /\ rows'[j] = NoRow => ~ doubt'[j]
    BY <1>10, <1>t, <1>g DEF ConfirmNotSent, Table
  <1>11. ASSUME NEW k \in Keys, Abandon(k), NEW j \in Keys
         PROVE  /\ rows'[j].status \in {"pending", "processing"} => ~ doubt'[j]
                /\ rows'[j] = NoRow => ~ doubt'[j]
    <2>1. rows[k] \in Row
      BY <1>11, <1>t, Distinct DEF Abandon, Table
    <2>2. [Unclaimed(rows[k]) EXCEPT !.status = "abandoned"].status = "abandoned"
      BY <2>1, UnclaimedRow DEF Row
    <2> QED BY <2>2, <1>11, <1>t, <1>g DEF Abandon, Table, chat, NoRow
  <1>12. CASE Tick \/ UNCHANGED vars
    BY <1>12, <1>g DEF Tick, vars, chat
  <1> QED
    BY <1>1, <1>2, <1>3, <1>4, <1>5, <1>6, <1>7, <1>8, <1>9, <1>10, <1>11, <1>12, <1>g
    DEF Next, WorkerStep

\* No reply is regenerated for a message while an earlier attempt to answer it, by
\* a handler or by a worker, has not been judged unsent: neither a stale sweep, nor
\* a late or repeated report, nor an overtaken worker reopens a doubtful item.
THEOREM NothingInDoubtReplayed == Spec => []NoBlindReplay
  <1>1. Spec => []ReplayInv
    BY TypeCorrect, ReplayInit, ReplayStep, PTL DEF Spec
  <1>2. ReplayInv => NoBlindReplay
    BY DEF ReplayInv
  <1> QED BY <1>1, <1>2, PTL
-----------------------------------------------------------------------------
(* One recovery turn of a conversation at a time                            *)

THEOREM TurnInit == Init => OneTurnPerConversation
  BY DEF Init, OneTurnPerConversation, NoRow, Active

\* What a step that claims nothing and starts no dispatch may do to a row: keep or
\* end the work on it, and close it as recovered only for a worker that is about to
\* report its reply confirmed.
WorkKept(k) ==
    /\ rows'[k].status \in Active =>
            rows'[k].status = rows[k].status /\ rows'[k].token = rows[k].token
    /\ rows'[k].status = "recovered" =>
            \/ rows[k].status = "recovered"
            \/ \E w \in Workers : /\ workers[w].pc = "report"
                                  /\ workers[w].outcome = "confirmed"
                                  /\ k \in Owned(workers[w].token, {"dispatching"})

LEMMA WorkKeptBySteps ==
    ASSUME TypeOK, [Next]_vars,
           \A w \in Workers : ~ DispatchStart(w) /\ \A asked : ~ Claim(w, asked),
           NEW j \in Keys
    PROVE  WorkKept(j)
  <1> USE ConstantsAssumption
  <1>t. /\ rows \in Table /\ clock \in Nat
        /\ workers \in [Workers -> Job \cup {Idle}]
    BY DEF TypeOK, Table
  <1>c. "generation_failed_before_send" \in Classes /\ "confirmed_not_sent" \in Classes
    BY DEF Classes, Recoverable
  <1>m. Maintained(clock)[j].status \in Active \cup {"recovered"} => Maintained(clock)[j] = rows[j]
    BY <1>t, MaintainedRow
  <1>o. rows'[j].status \in Statuses \ (Active \cup {"recovered"}) => WorkKept(j)
    BY DEF WorkKept
  <1>e. rows'[j] = rows[j] => WorkKept(j)
    BY DEF WorkKept
  <1>1. ASSUME NEW k \in Keys, NEW class \in Classes, NEW r \in Routes, Record(k, class, r)
        PROVE  WorkKept(j)
    <2>2. CASE rows'[j] # rows[j]
      <3>1. /\ j = k /\ ~ (rows[k] # NoRow /\ rows[k].status \in Terminal)
            /\ rows'[j] = IF rows[k] = NoRow THEN Inserted(class, r)
                          ELSE Rereported(rows[k], class, r)
        BY <2>2, <1>1, <1>t DEF Record, Table
      <3>2. CASE rows[k] = NoRow
        <4>1. rows'[j].status \in {"pending", "quarantined"}
          BY <3>1, <3>2, <1>t, InsertedRow
        <4> QED BY <4>1, <1>o DEF Active, Statuses
      <3>3. CASE rows[k] # NoRow
        <4>1. /\ class \in Quarantines => rows'[j].status = "quarantined"
              /\ class \notin Quarantines =>
                    rows'[j].status = rows[j].status /\ rows'[j].token = rows[j].token
          BY <3>1, <3>3, <1>t, RereportedRow DEF Table
        <4> QED BY <4>1 DEF WorkKept, Active
      <3> QED BY <3>2, <3>3
    <2> QED BY <2>2, <1>e
  <1>2. ASSUME NEW w \in Workers, Renew(w) PROVE WorkKept(j)
    <2>1. rows[j] \in Row =>
            /\ [rows[j] EXCEPT !.leaseEnd = clock + Lease].status = rows[j].status
            /\ [rows[j] EXCEPT !.leaseEnd = clock + Lease].token = rows[j].token
      BY DEF Row
    <2>2. j \in Owned(workers[w].token, Active) => rows[j] \in Row
      BY <1>t, OwnedRow
    <2> QED BY <2>1, <2>2, <1>2 DEF Renew, WorkKept
  <1>3. ASSUME NEW w \in Workers, NEW delay \in Backoffs, GenerationFails(w, delay)
        PROVE  WorkKept(j)
    <2>1. CASE j \in Owned(workers[w].token, {"processing"})
      <3>1. rows[j] \in Row /\ clock + delay \in Nat
        BY <2>1, <1>t, OwnedRow DEF Active
      <3>2. rows'[j] = Retried(Unclaimed(rows[j]), clock,
                               "generation_failed_before_send", clock + delay)
        BY <2>1, <1>3 DEF GenerationFails
      <3> DEFINE next == clock + delay
      <3>3. next \in Nat /\ rows'[j] = Retried(Unclaimed(rows[j]), clock,
                                            "generation_failed_before_send", next)
        BY <3>1, <3>2
      <3> HIDE DEF next
      <3> DEFINE new == Retried(Unclaimed(rows[j]), clock, "generation_failed_before_send", next)
      <3>a. clock \in Nat /\ rows[j] \in Row /\ next \in Nat
        BY <3>1, <3>3, <1>t
      <3>b. new.status \in {"expired", "exhausted", "pending"}
        BY <3>a, <1>c, GivenUpRow
      <3>4. rows'[j].status \in {"expired", "exhausted", "pending"}
        BY <3>b, <3>3
      <3> QED BY <3>4, <1>o DEF Active, Statuses, Terminal
    <2>2. CASE j \notin Owned(workers[w].token, {"processing"})
      BY <2>2, <1>3, <1>e DEF GenerationFails
    <2> QED BY <2>1, <2>2
  <1>4. ASSUME NEW w \in Workers, NEW delay \in Backoffs, Finalize(w, delay)
        PROVE  WorkKept(j)
    <2> DEFINE outcome == workers[w].outcome
    <2>1. CASE j \in Owned(workers[w].token, {"dispatching"})
      <3>1. rows[j] \in Row /\ workers[w] \in Job
        BY <2>1, <1>4, <1>t, OwnedRow, Distinct DEF Active, Finalize
      <3>2. rows'[j] = Finalized(rows[j], outcome, delay) /\ workers[w].pc = "report"
        BY <2>1, <1>4 DEF Finalize
      <3>3. outcome \in Outcomes /\ clock \in Nat
        BY <3>1, <1>t DEF Job
      <3> HIDE DEF outcome
      <3>4. /\ Finalized(rows[j], outcome, delay).status \notin Active
            /\ Finalized(rows[j], outcome, delay).status = "recovered" => outcome = "confirmed"
        BY <3>1, <3>3, FinalizedRow
      <3> QED BY <2>1, <3>2, <3>4 DEF WorkKept, outcome
    <2>2. CASE j \notin Owned(workers[w].token, {"dispatching"})
      BY <2>2, <1>4, <1>e DEF Finalize
    <2> QED BY <2>1, <2>2
  <1>5. ASSUME NEW w \in Workers, Send(w) \/ ClaimError(w) \/ Crash(w) PROVE WorkKept(j)
    BY <1>5, <1>e DEF Send, ClaimError, Crash
  <1>6. CASE ExpireDue
    BY <1>6, <1>m DEF ExpireDue, WorkKept
  <1>7. ASSUME NEW r \in Routes, WakeRoute(r) PROVE WorkKept(j)
    <2> DEFINE Q == Maintained(clock)
    <2>1. CASE rows'[j] = Q[j]
      BY <2>1, <1>m DEF WorkKept
    <2>2. CASE rows'[j] # Q[j]
      <3>1. rows'[j] = [Q[j] EXCEPT !.nextAt = clock] /\ Q[j].status = "pending"
        BY <2>2, <1>7 DEF WakeRoute
      <3>2. Q[j] \in Row
        BY <3>1, <1>t, MaintainedRow, Distinct
      <3>3. rows'[j].status = "pending"
        <4> HIDE DEF Q
        <4> QED BY <3>1, <3>2 DEF Row
      <3> QED BY <3>3, <1>o DEF Active, Statuses
    <2> QED BY <2>1, <2>2
  <1>8. ASSUME NEW k \in Keys, ConfirmNotSent(k) PROVE WorkKept(j)
    <2>1. rows[k] \in Row
      BY <1>8, <1>t, Distinct DEF ConfirmNotSent, Table
    <2>2. rows' = [rows EXCEPT ![k] = Retried(rows[k], clock, "confirmed_not_sent", clock)]
      BY <1>8 DEF ConfirmNotSent
    <2>3. Retried(rows[k], clock, "confirmed_not_sent", clock).status
                \in {"expired", "exhausted", "pending"}
      BY <2>1, <1>t, <1>c, RetriedRow
    <2>4. j = k => rows'[j].status \in Statuses \ (Active \cup {"recovered"})
      BY <2>2, <2>3, <1>t DEF Table, Active, Statuses, Terminal
    <2> QED BY <2>2, <2>4, <1>t, <1>e, <1>o DEF Table
  <1>9. ASSUME NEW k \in Keys, Abandon(k) PROVE WorkKept(j)
    <2>1. rows[k] \in Row
      BY <1>9, <1>t, Distinct DEF Abandon, Table
    <2>2. [Unclaimed(rows[k]) EXCEPT !.status = "abandoned"].status = "abandoned"
      BY <2>1, UnclaimedRow DEF Row
    <2> QED BY <2>2, <1>9, <1>t DEF Abandon, Table, Active, WorkKept
  <1>10. CASE Tick \/ UNCHANGED vars
    BY <1>10, <1>e DEF Tick, vars
  <1> QED
    BY <1>1, <1>2, <1>3, <1>4, <1>5, <1>6, <1>7, <1>8, <1>9, <1>10 DEF Next, WorkerStep

\* Every step keeps the turns of a conversation apart.
THEOREM TurnStep == TypeOK /\ OneTurnPerConversation /\ [Next]_vars => OneTurnPerConversation'
  <1> SUFFICES ASSUME TypeOK, OneTurnPerConversation, [Next]_vars
               PROVE  OneTurnPerConversation'
    OBVIOUS
  <1> USE ConstantsAssumption
  <1>t. rows \in Table /\ clock \in Nat
    BY DEF TypeOK, Table
  <1>m. \A k \in Keys : Maintained(clock)[k].status \in Active => Maintained(clock)[k] = rows[k]
    BY <1>t, MaintainedRow
  <1>1. ASSUME NEW w \in Workers, NEW asked, Claim(w, asked) PROVE OneTurnPerConversation'
    <2> DEFINE Q == Maintained(clock)
    <2>1. PICK anchor \in Oldest(Q, Anchors(Q, asked)), tok \in Tokens \ InUse :
            rows' = [k \in Keys |-> IF k \in Batch(Q, anchor) THEN Claimed(Q[k], tok) ELSE Q[k]]
      BY <1>1 DEF Claim
    <2>2. ~ Busy(Q, ConvOf[anchor])
      BY <2>1 DEF Oldest, Anchors
    <2>3. \A k \in Batch(Q, anchor) :
            /\ ConvOf[k] = ConvOf[anchor]
            /\ rows'[k].status = "processing" /\ rows'[k].token = tok
      <3> SUFFICES ASSUME NEW k \in Batch(Q, anchor)
                   PROVE  /\ ConvOf[k] = ConvOf[anchor]
                          /\ rows'[k].status = "processing" /\ rows'[k].token = tok
        OBVIOUS
      <3>1. k \in Keys /\ ConvOf[k] = ConvOf[anchor] /\ Q[k].status = "pending"
        BY BatchReady DEF Ready
      <3>2. Q[k] \in Row
        BY <3>1, <1>t, MaintainedRow, Distinct
      <3>3. rows'[k] = Claimed(Q[k], tok)
        BY <2>1, <3>1
      <3> QED BY <3>1, <3>2, <3>3, <1>t, ClaimedRow
    <2>4. \A k \in Keys \ Batch(Q, anchor) : rows'[k].status \in Active =>
            rows'[k] = rows[k] /\ ConvOf[k] # ConvOf[anchor]
      <3> SUFFICES ASSUME NEW k \in Keys \ Batch(Q, anchor), rows'[k].status \in Active
                   PROVE  rows'[k] = rows[k] /\ ConvOf[k] # ConvOf[anchor]
        OBVIOUS
      <3>1. rows'[k] = Q[k]
        BY <2>1
      <3> QED BY <3>1, <2>2, <1>m DEF Busy
    <2> HIDE DEF Q
    <2> QED BY <2>3, <2>4 DEF OneTurnPerConversation
  <1>2. ASSUME NEW w \in Workers, DispatchStart(w) PROVE OneTurnPerConversation'
    <2> DEFINE tok == workers[w].token
               mine == Owned(tok, {"processing"})
    <2>1. \A k \in mine : rows[k].status = "processing" /\ rows[k].token = tok
      BY DEF Owned
    <2>2. \A k \in mine : rows'[k].status = "dispatching" /\ rows'[k].token = tok
      <3> SUFFICES ASSUME NEW k \in mine
                   PROVE  rows'[k].status = "dispatching" /\ rows'[k].token = tok
        OBVIOUS
      <3>1. k \in Keys /\ rows[k] \in Row
        BY <1>t, OwnedRow DEF Active
      <3>2. rows'[k] = [rows[k] EXCEPT !.status = "dispatching", !.leaseEnd = clock + Lease]
        BY <3>1, <1>2 DEF DispatchStart
      <3> HIDE DEF mine
      <3> QED BY <3>1, <3>2, <2>1 DEF Row
    <2>3. \A k \in Keys \ mine : rows'[k] = rows[k]
      BY <1>2 DEF DispatchStart
    <2>4. \A k \in Keys : rows[k].status = "processing" /\ rows[k].token = tok => k \in mine
      BY DEF Owned
    <2> HIDE DEF mine, tok
    <2> QED BY <2>1, <2>2, <2>3, <2>4 DEF OneTurnPerConversation, Active
  <1>3. CASE \A w \in Workers : ~ DispatchStart(w) /\ \A asked : ~ Claim(w, asked)
    <2>1. \A k \in Keys : WorkKept(k)
      BY <1>3, WorkKeptBySteps
    <2> QED BY <2>1 DEF WorkKept, OneTurnPerConversation
  <1> QED BY <1>1, <1>2, <1>3

\* However workers poll, renew, stall and crash, what is under work of a conversation
\* belongs to one claim and is at one stage of it (claim_next_batch's NOT EXISTS).
THEOREM OneTurn == Spec => []OneTurnPerConversation
  <1> QED BY TypeCorrect, TurnInit, TurnStep, PTL DEF Spec
-----------------------------------------------------------------------------
(* The limit of attempts                                                    *)

THEOREM AttemptsInit == Init => AttemptsBounded
  BY DEF Init, AttemptsBounded, NoRow

\* One row within the limit.
Within(row) ==
    row # NoRow => /\ row.attempts <= MaxAttempts
                   /\ row.status = "pending" => row.attempts < MaxAttempts

\* Another attempt is granted only within the limit.
LEMMA RetriedWithin ==
    ASSUME NEW row \in Row, Within(row), NEW t \in Nat, NEW class \in Classes, NEW next \in Nat
    PROVE  /\ Within(Retried(row, t, class, next))
           /\ Within(Retried(Unclaimed(row), t, class, next))
  <1>1. row # NoRow
    BY Distinct
  <1> QED BY <1>1, RetriedRow, GivenUpRow DEF Within

\* Every step keeps every row within the limit.
THEOREM AttemptsStep == TypeOK /\ AttemptsBounded /\ [Next]_vars => AttemptsBounded'
  <1> SUFFICES ASSUME TypeOK, AttemptsBounded, [Next]_vars PROVE AttemptsBounded'
    OBVIOUS
  <1> USE ConstantsAssumption
  <1>t. /\ rows \in Table /\ clock \in Nat
        /\ workers \in [Workers -> Job \cup {Idle}]
    BY DEF TypeOK, Table
  <1>c. "generation_failed_before_send" \in Classes /\ "confirmed_not_sent" \in Classes
    BY DEF Classes, Recoverable
  <1>g. \A k \in Keys : Within(rows[k])
    BY DEF AttemptsBounded, Within
  <1>k. (\A k \in Keys : Within(rows'[k])) => AttemptsBounded'
    BY DEF AttemptsBounded, Within
  <1>m. ASSUME NEW k \in Keys PROVE Within(Maintained(clock)[k])
    <2> DEFINE new == Maintained(clock)[k]
    <2>1. new = NoRow <=> rows[k] = NoRow
      BY <1>t, MaintainedRow
    <2>2. rows[k] # NoRow => new.attempts = rows[k].attempts
      BY <1>t, MaintainedRow
    <2>3. new.status = "pending" =>
            /\ rows[k].status \in {"pending", "processing"}
            /\ rows[k].status = "processing" => rows[k].attempts < MaxAttempts
      BY <1>t, MaintainedRow
    <2> HIDE DEF new
    <2>4. Within(new)
      BY <2>1, <2>2, <2>3, <1>g DEF Within
    <2> QED BY <2>4 DEF new
  <1>1. ASSUME NEW k \in Keys, NEW class \in Classes, NEW r \in Routes, Record(k, class, r),
               NEW j \in Keys
        PROVE  Within(rows'[j])
    <2>1. CASE rows'[j] = rows[j]
      BY <2>1, <1>g
    <2>2. CASE rows'[j] # rows[j]
      <3>1. /\ j = k
            /\ rows'[j] = IF rows[k] = NoRow THEN Inserted(class, r)
                          ELSE Rereported(rows[k], class, r)
        BY <2>2, <1>1, <1>t DEF Record, Table
      <3>2. CASE rows[k] = NoRow
        <4>1. rows'[j].attempts = 0
          BY <3>1, <3>2, <1>t, InsertedRow
        <4> QED BY <4>1 DEF Within
      <3>3. CASE rows[k] # NoRow
        <4>1. /\ rows'[j].attempts = rows[j].attempts
              /\ rows'[j].status \in {"quarantined", rows[j].status}
          BY <3>1, <3>3, <1>t, RereportedRow DEF Table
        <4> QED BY <4>1, <3>1, <3>3, <1>g DEF Within
      <3> QED BY <3>2, <3>3
    <2> QED BY <2>1, <2>2
  <1>2. ASSUME NEW w \in Workers, NEW asked, Claim(w, asked), NEW j \in Keys
        PROVE  Within(rows'[j])
    <2> DEFINE Q == Maintained(clock)
    <2>1. PICK anchor \in Oldest(Q, Anchors(Q, asked)), tok \in Tokens \ InUse :
            rows' = [k \in Keys |-> IF k \in Batch(Q, anchor) THEN Claimed(Q[k], tok) ELSE Q[k]]
      BY <1>2 DEF Claim
    <2>2. CASE j \in Batch(Q, anchor)
      <3>1. Q[j].status = "pending" /\ Q[j].attempts < MaxAttempts
        BY <2>2, BatchReady DEF Ready
      <3>2. Q[j] \in Row
        BY <3>1, <1>t, MaintainedRow, Distinct
      <3>3. rows'[j] = Claimed(Q[j], tok)
        BY <2>1, <2>2
      <3>4. rows'[j].status = "processing" /\ rows'[j].attempts = Q[j].attempts + 1
        BY <3>2, <3>3, <1>t, ClaimedRow
      <3>5. Q[j].attempts \in Nat
        BY <3>2 DEF Row
      <3> HIDE DEF Q
      <3> QED BY <3>1, <3>4, <3>5 DEF Within
    <2>3. CASE j \notin Batch(Q, anchor)
      BY <2>1, <2>3, <1>m
    <2> QED BY <2>2, <2>3
  <1>3. ASSUME NEW w \in Workers, Renew(w) \/ DispatchStart(w), NEW j \in Keys
        PROVE  Within(rows'[j])
    <2>1. CASE rows'[j] = rows[j]
      BY <2>1, <1>g
    <2>2. CASE rows'[j] # rows[j]
      <3>a. \/ j \in Owned(workers[w].token, Active)
            \/ j \in Owned(workers[w].token, {"processing"})
        BY <2>2, <1>3 DEF Renew, DispatchStart
      <3>1. rows[j] \in Row
        BY <3>a, <1>t, OwnedRow DEF Active
      <3>2. \/ rows'[j] = [rows[j] EXCEPT !.leaseEnd = clock + Lease]
            \/ rows'[j] = [rows[j] EXCEPT !.status = "dispatching", !.leaseEnd = clock + Lease]
        BY <2>2, <1>3 DEF Renew, DispatchStart
      <3>3. rows'[j].attempts = rows[j].attempts
            /\ rows'[j].status \in {"dispatching", rows[j].status}
        BY <3>1, <3>2 DEF Row
      <3> QED BY <3>1, <3>3, <1>g, Distinct DEF Within
    <2> QED BY <2>1, <2>2
  <1>4. ASSUME NEW w \in Workers, NEW delay \in Backoffs, GenerationFails(w, delay), NEW j \in Keys
        PROVE  Within(rows'[j])
    <2>1. CASE rows'[j] = rows[j]
      BY <2>1, <1>g
    <2>2. CASE rows'[j] # rows[j]
      <3> DEFINE next == clock + delay
                 new == Retried(Unclaimed(rows[j]), clock, "generation_failed_before_send", next)
      <3>1. rows[j] \in Row
        BY <2>2, <1>4, <1>t, OwnedRow DEF GenerationFails, Active
      <3>2. rows'[j] = new
        BY <2>2, <1>4 DEF GenerationFails
      <3>3. next \in Nat /\ clock \in Nat
        BY <1>t
      <3> HIDE DEF next
      <3>4. Within(new)
        BY <3>1, <3>3, <1>c, <1>g, RetriedWithin
      <3> QED BY <3>2, <3>4
    <2> QED BY <2>1, <2>2
  <1>5. ASSUME NEW w \in Workers, NEW delay \in Backoffs, Finalize(w, delay), NEW j \in Keys
        PROVE  Within(rows'[j])
    <2>1. CASE rows'[j] = rows[j]
      BY <2>1, <1>g
    <2>2. CASE rows'[j] # rows[j]
      <3> DEFINE outcome == workers[w].outcome
                 new == Finalized(rows[j], outcome, delay)
      <3>1. rows[j] \in Row /\ workers[w] \in Job
        BY <2>2, <1>5, <1>t, OwnedRow, Distinct DEF Finalize, Active
      <3>2. rows'[j] = new
        BY <2>2, <1>5 DEF Finalize
      <3>3. outcome \in Outcomes /\ clock \in Nat
        BY <3>1, <1>t DEF Job
      <3> HIDE DEF outcome
      <3>4. new.attempts = rows[j].attempts /\ (new.status = "pending" => rows[j].attempts < MaxAttempts)
        BY <3>1, <3>3, FinalizedRow
      <3> QED BY <3>1, <3>2, <3>4, <1>g, Distinct DEF Within
    <2> QED BY <2>1, <2>2
  <1>6. ASSUME NEW w \in Workers, Send(w) \/ ClaimError(w) \/ Crash(w), NEW j \in Keys
        PROVE  Within(rows'[j])
    BY <1>6, <1>g DEF Send, ClaimError, Crash
  <1>7. ASSUME ExpireDue, NEW j \in Keys PROVE Within(rows'[j])
    BY <1>7, <1>m DEF ExpireDue
  <1>8. ASSUME NEW r \in Routes, WakeRoute(r), NEW j \in Keys PROVE Within(rows'[j])
    <2> DEFINE Q == Maintained(clock)
    <2>1. CASE rows'[j] = Q[j]
      BY <2>1, <1>m
    <2>2. CASE rows'[j] # Q[j]
      <3>1. rows'[j] = [Q[j] EXCEPT !.nextAt = clock] /\ Q[j].status = "pending"
        BY <2>2, <1>8 DEF WakeRoute
      <3>2. Q[j] \in Row
        BY <3>1, <1>t, MaintainedRow, Distinct
      <3>3. Within(Q[j]) /\ Q[j] # NoRow
        BY <3>2, <1>m, Distinct
      <3>4. rows'[j].status = Q[j].status /\ rows'[j].attempts = Q[j].attempts
        <4> HIDE DEF Q
        <4> QED BY <3>1, <3>2 DEF Row
      <3> HIDE DEF Q
      <3> QED BY <3>3, <3>4 DEF Within
    <2> QED BY <2>1, <2>2
  <1>9. ASSUME NEW k \in Keys, ConfirmNotSent(k), NEW j \in Keys PROVE Within(rows'[j])
    <2> DEFINE new == Retried(rows[k], clock, "confirmed_not_sent", clock)
    <2>1. rows[k] \in Row
      BY <1>9, <1>t, Distinct DEF ConfirmNotSent, Table
    <2>2. rows'[j] = IF j = k THEN new ELSE rows[j]
      BY <1>9, <1>t DEF ConfirmNotSent, Table
    <2>a. clock \in Nat
      BY <1>t
    <2>3. Within(new)
      BY <2>1, <2>a, <1>c, <1>g, RetriedWithin
    <2> HIDE DEF new
    <2> QED BY <2>2, <2>3, <1>g
  <1>10. ASSUME NEW k \in Keys, Abandon(k), NEW j \in Keys PROVE Within(rows'[j])
    <2> DEFINE new == [Unclaimed(rows[k]) EXCEPT !.status = "abandoned"]
    <2>1. rows[k] \in Row
      BY <1>10, <1>t, Distinct DEF Abandon, Table
    <2>2. rows'[j] = IF j = k THEN new ELSE rows[j]
      BY <1>10, <1>t DEF Abandon, Table
    <2>3. new.attempts = rows[k].attempts /\ new.status = "abandoned"
      BY <2>1, UnclaimedRow DEF Row
    <2> HIDE DEF new
    <2> QED BY <2>1, <2>2, <2>3, <1>g, Distinct DEF Within
  <1>11. ASSUME Tick \/ UNCHANGED vars, NEW j \in Keys PROVE Within(rows'[j])
    BY <1>11, <1>g DEF Tick, vars
  <1> QED
    BY <1>1, <1>2, <1>3, <1>4, <1>5, <1>6, <1>7, <1>8, <1>9, <1>10, <1>11, <1>k
    DEF Next, WorkerStep

\* No item is claimed more often than max_attempts, and none is left pending that no
\* claim may take any more, whichever way its attempts ended.
THEOREM AttemptsLimited == Spec => []AttemptsBounded
  <1> QED BY TypeCorrect, AttemptsInit, AttemptsStep, PTL DEF Spec
-----------------------------------------------------------------------------
(* What counts as recovered is in the chat                                  *)

\* No two workers hold one token.
OwnTokens ==
    \A v, w \in Workers : v # w /\ workers[v] # Idle /\ workers[w] # Idle
        => workers[v].token # workers[w].token

\* What is dispatched under a worker's token is what that worker has set out to send.
KnowsItems ==
    \A w \in Workers, k \in Keys :
        /\ workers[w] # Idle
        /\ rows[k].status = "dispatching" /\ rows[k].token = workers[w].token
        => workers[w].pc \in {"send", "report"} /\ k \in workers[w].items

\* A worker that is about to report success has delivered to all its items.
ConfirmedSent ==
    \A w \in Workers : workers[w].pc = "report" /\ workers[w].outcome = "confirmed"
        => \A k \in workers[w].items : sent[k] > 0

DeliveryInv == OwnTokens /\ KnowsItems /\ ConfirmedSent /\ RecoveredWasSent

THEOREM DeliveryInit == Init => DeliveryInv
  BY DEF Init, DeliveryInv, OwnTokens, KnowsItems, ConfirmedSent, RecoveredWasSent, NoRow, Idle

\* Replies are never taken out of a chat.
LEMMA SentGrows ==
    ASSUME TypeOK, [Next]_vars, NEW k \in Keys
    PROVE  sent[k] > 0 => sent'[k] > 0
  <1>t. sent \in [Keys -> Nat]
    BY DEF TypeOK
  <1>1. ASSUME NEW j \in Keys, NEW class \in Classes, NEW r \in Routes, Record(j, class, r)
        PROVE  sent[k] > 0 => sent'[k] > 0
    <2> DEFINE may == CASE class = "delivery_unknown" -> {0, 1}
                        [] class = "delivery_partial" -> {1}
                        [] OTHER                      -> {0}
    <2>1. PICK n \in may : sent' = [sent EXCEPT ![j] = @ + n]
      BY <1>1 DEF Record
    <2>2. n \in Nat
      BY <2>1
    <2> HIDE DEF may
    <2> QED BY <2>1, <2>2, <1>t
  <1>2. ASSUME NEW w \in Workers, Send(w) PROVE sent[k] > 0 => sent'[k] > 0
    BY <1>2, <1>t DEF Send
  <1>3. ASSUME NEW w \in Workers, ~ Send(w), WorkerStep(w) PROVE sent' = sent
    BY <1>3 DEF WorkerStep, Claim, Renew, DispatchStart, GenerationFails, Finalize,
                ClaimError, Crash, chat
  <1>4. ASSUME \/ ExpireDue \/ \E r \in Routes : WakeRoute(r)
               \/ \E j \in Keys : ConfirmNotSent(j) \/ Abandon(j)
               \/ Tick \/ UNCHANGED vars
        PROVE  sent' = sent
    BY <1>4 DEF ExpireDue, WakeRoute, ConfirmNotSent, Abandon, Tick, vars, chat
  <1> QED BY <1>1, <1>2, <1>3, <1>4 DEF Next

\* What a step other than a claim, a dispatch or a send may do to a worker.
LEMMA WorkersKept ==
    ASSUME TypeOK, [Next]_vars, NEW v \in Workers,
           \A w \in Workers : ~ DispatchStart(w) /\ ~ Send(w) /\ \A asked : ~ Claim(w, asked)
    PROVE  workers'[v] \in {workers[v], Idle}
  <1>t. workers \in [Workers -> Job \cup {Idle}]
    BY DEF TypeOK
  <1>1. ASSUME NEW w \in Workers, WorkerStep(w)
        PROVE  workers'[v] \in {workers[v], Idle}
    BY <1>1, <1>t DEF WorkerStep, Renew, GenerationFails, Finalize, ClaimError, Crash
  <1>2. ASSUME ~ \E w \in Workers : WorkerStep(w) PROVE workers' = workers
    BY <1>2 DEF Next, Record, ExpireDue, WakeRoute, ConfirmNotSent, Abandon, Tick, vars
  <1> QED BY <1>1, <1>2

\* Every step keeps what workers know of their items and what recovered means.
THEOREM DeliveryStep == TypeOK /\ DeliveryInv /\ [Next]_vars => DeliveryInv'
  <1> SUFFICES ASSUME TypeOK, DeliveryInv, [Next]_vars PROVE DeliveryInv'
    OBVIOUS
  <1> USE ConstantsAssumption
  <1>t. /\ rows \in Table /\ clock \in Nat /\ sent \in [Keys -> Nat]
        /\ workers \in [Workers -> Job \cup {Idle}]
    BY DEF TypeOK, Table
  <1>i. OwnTokens /\ KnowsItems /\ ConfirmedSent /\ RecoveredWasSent
    BY DEF DeliveryInv
  <1>s. \A k \in Keys : sent[k] > 0 => sent'[k] > 0
    BY SentGrows
  <1>j. \A w \in Workers : workers[w].pc # "idle" <=> workers[w] # Idle
    BY <1>t, Distinct
  <1>it. \A w \in Workers : workers[w] # Idle => workers[w].items \subseteq Keys
    BY <1>t DEF Job
  <1>1. ASSUME NEW w \in Workers, NEW asked, Claim(w, asked) PROVE DeliveryInv'
    <2> DEFINE Q == Maintained(clock)
    <2>1. PICK anchor \in Oldest(Q, Anchors(Q, asked)), tok \in Tokens \ InUse :
            /\ rows' = [k \in Keys |-> IF k \in Batch(Q, anchor) THEN Claimed(Q[k], tok)
                                      ELSE Q[k]]
            /\ workers' = [workers EXCEPT ![w] =
                    [pc |-> "generate", token |-> tok, items |-> {},
                     outcome |-> "delivery_unknown"]]
      BY <1>1 DEF Claim
    <2>w. /\ workers'[w].pc = "generate" /\ workers'[w].token = tok
          /\ \A v \in Workers \ {w} : workers'[v] = workers[v]
      BY <2>1, <1>t
    <2>2. \A k \in Keys : rows'[k].status \in {"dispatching", "recovered"} => rows'[k] = rows[k]
      <3> SUFFICES ASSUME NEW k \in Keys, rows'[k].status \in {"dispatching", "recovered"}
                   PROVE  rows'[k] = rows[k]
        OBVIOUS
      <3>1. CASE k \in Batch(Q, anchor)
        <4>1. Q[k].status = "pending"
          BY <3>1, BatchReady DEF Ready
        <4>2. Q[k] \in Row
          BY <4>1, <1>t, MaintainedRow, Distinct
        <4>3. rows'[k] = Claimed(Q[k], tok)
          BY <2>1, <3>1
        <4>4. rows'[k].status = "processing"
          BY <4>2, <4>3, <1>t, ClaimedRow
        <4> QED BY <4>4
      <3>2. CASE k \notin Batch(Q, anchor)
        <4>1. rows'[k] = Q[k]
          BY <2>1, <3>2
        <4> QED BY <4>1, <1>t, MaintainedRow DEF Active
      <3> QED BY <3>1, <3>2
    <2>3. \A v \in Workers : workers[v] # Idle => workers[v].token # tok
      BY <2>1 DEF InUse
    <2>4. \A k \in Keys : rows[k].status = "dispatching" => rows[k].token # tok
      <3>1. \A k \in Keys : rows[k] # NoRow => rows[k].token # tok
        BY <2>1 DEF InUse
      <3> QED BY <3>1 DEF NoRow
    <2>5. OwnTokens'
      BY <2>w, <2>3, <1>i DEF OwnTokens
    <2>6. KnowsItems'
      <3> SUFFICES ASSUME NEW v \in Workers, NEW k \in Keys, workers'[v] # Idle,
                          rows'[k].status = "dispatching", rows'[k].token = workers'[v].token
                   PROVE  workers'[v].pc \in {"send", "report"} /\ k \in workers'[v].items
        BY DEF KnowsItems
      <3>1. rows'[k] = rows[k] /\ v # w
        BY <2>2, <2>4, <2>w
      <3> QED BY <3>1, <2>w, <1>i DEF KnowsItems
    <2>7. ConfirmedSent'
      BY <2>w, <1>i, <1>s, <1>it, <1>j DEF ConfirmedSent
    <2>8. RecoveredWasSent'
      BY <2>2, <1>i, <1>s DEF RecoveredWasSent
    <2> QED BY <2>5, <2>6, <2>7, <2>8 DEF DeliveryInv
  <1>2. ASSUME NEW w \in Workers, DispatchStart(w) PROVE DeliveryInv'
    <2> DEFINE tok == workers[w].token
               mine == Owned(tok, {"processing"})
    <2>1. workers[w] \in Job /\ workers[w].pc = "generate"
      BY <1>2, <1>t, Distinct DEF DispatchStart
    <2>2. /\ workers' = [workers EXCEPT ![w] = [workers[w] EXCEPT !.pc = "send", !.items = mine]]
          /\ sent' = sent
      BY <1>2, <1>t DEF DispatchStart
    <2>3. /\ workers'[w].pc = "send" /\ workers'[w].token = tok /\ workers'[w].items = mine
          /\ \A v \in Workers \ {w} : workers'[v] = workers[v]
      <3> HIDE DEF mine
      <3> QED BY <2>1, <2>2, <1>t DEF Job
    <2>4. \A k \in Keys \ mine : rows'[k] = rows[k]
      BY <1>2 DEF DispatchStart
    <2>5. \A k \in mine : rows'[k].status = "dispatching" /\ rows'[k].token = tok
      <3> SUFFICES ASSUME NEW k \in mine
                   PROVE  rows'[k].status = "dispatching" /\ rows'[k].token = tok
        OBVIOUS
      <3>1. k \in Keys /\ rows[k] \in Row
        BY <1>t, OwnedRow DEF Active
      <3>2. rows'[k] = [rows[k] EXCEPT !.status = "dispatching", !.leaseEnd = clock + Lease]
        BY <3>1, <1>2 DEF DispatchStart
      <3>3. rows[k].token = tok
        BY DEF Owned
      <3> HIDE DEF mine
      <3> QED BY <3>1, <3>2, <3>3 DEF Row
    <2>6. workers[w] # Idle
      BY <2>1, <1>j
    <2> HIDE DEF mine
    <2>7. OwnTokens'
      BY <2>3, <2>6, <1>i DEF OwnTokens
    <2>8. KnowsItems'
      <3> SUFFICES ASSUME NEW v \in Workers, NEW k \in Keys, workers'[v] # Idle,
                          rows'[k].status = "dispatching", rows'[k].token = workers'[v].token
                   PROVE  workers'[v].pc \in {"send", "report"} /\ k \in workers'[v].items
        BY DEF KnowsItems
      <3>1. CASE k \in mine
        <4>1. v = w
          BY <3>1, <2>3, <2>5, <2>6, <1>i DEF OwnTokens
        <4> QED BY <4>1, <3>1, <2>3
      <3>2. CASE k \notin mine
        <4>1. rows'[k] = rows[k]
          BY <3>2, <2>4
        <4>2. v # w
          BY <4>1, <2>1, <2>3, <2>6, <1>i DEF KnowsItems
        <4> QED BY <4>1, <4>2, <2>3, <1>i DEF KnowsItems
      <3> QED BY <3>1, <3>2
    <2>9. ConfirmedSent'
      BY <2>2, <2>3, <1>i DEF ConfirmedSent
    <2>10. RecoveredWasSent'
      BY <2>2, <2>4, <2>5, <1>i DEF RecoveredWasSent
    <2> QED BY <2>7, <2>8, <2>9, <2>10 DEF DeliveryInv
  <1>3. ASSUME NEW w \in Workers, Send(w) PROVE DeliveryInv'
    <2>1. PICK outcome \in Outcomes, arrived \in BOOLEAN :
            /\ outcome \in {"confirmed", "delivery_partial"} => arrived
            /\ sent' = [k \in Keys |-> IF arrived /\ k \in workers[w].items
                                       THEN sent[k] + 1 ELSE sent[k]]
            /\ workers' = [workers EXCEPT ![w].pc = "report", ![w].outcome = outcome]
      BY <1>3 DEF Send
    <2>2. workers[w] \in Job /\ workers[w].pc = "send" /\ workers[w] # Idle
      BY <1>3, <1>t, <1>j, Distinct DEF Send
    <2>3. workers' = [workers EXCEPT ![w] = [workers[w] EXCEPT !.pc = "report", !.outcome = outcome]]
      BY <2>1, <1>t
    <2>4. /\ workers'[w].pc = "report" /\ workers'[w].outcome = outcome
          /\ workers'[w].token = workers[w].token /\ workers'[w].items = workers[w].items
          /\ \A v \in Workers \ {w} : workers'[v] = workers[v]
      BY <2>2, <2>3, <1>t DEF Job
    <2>5. rows' = rows
      BY <1>3 DEF Send
    <2>6. OwnTokens'
      BY <2>2, <2>4, <1>i DEF OwnTokens
    <2>7. KnowsItems'
      BY <2>2, <2>4, <2>5, <1>i DEF KnowsItems
    <2>8. ConfirmedSent'
      <3> SUFFICES ASSUME NEW v \in Workers, workers'[v].pc = "report",
                          workers'[v].outcome = "confirmed", NEW k \in workers'[v].items
                   PROVE  sent'[k] > 0
        BY DEF ConfirmedSent
      <3>1. CASE v = w
        <4>1. arrived /\ k \in Keys /\ k \in workers[w].items
          BY <3>1, <2>1, <2>2, <2>4, <1>it
        <4> QED BY <4>1, <2>1, <1>t
      <3>2. CASE v # w
        <4>1. workers'[v] = workers[v]
          BY <3>2, <2>4
        <4>2. k \in Keys
          BY <4>1, <1>it, <1>j
        <4> QED BY <4>1, <4>2, <1>i, <1>s DEF ConfirmedSent
      <3> QED BY <3>1, <3>2
    <2>9. RecoveredWasSent'
      BY <2>5, <1>i, <1>s DEF RecoveredWasSent
    <2> QED BY <2>6, <2>7, <2>8, <2>9 DEF DeliveryInv
  <1>4. CASE \A w \in Workers : ~ DispatchStart(w) /\ ~ Send(w) /\ \A asked : ~ Claim(w, asked)
    <2>1. \A k \in Keys : WorkKept(k)
      BY <1>4, WorkKeptBySteps
    <2>2. \A v \in Workers : workers'[v] \in {workers[v], Idle}
      BY <1>4, WorkersKept
    <2>3. OwnTokens'
      BY <2>2, <1>i DEF OwnTokens
    <2>4. KnowsItems'
      BY <2>1, <2>2, <1>i DEF KnowsItems, WorkKept, Active
    <2>5. ConfirmedSent'
      <3> SUFFICES ASSUME NEW v \in Workers, workers'[v].pc = "report",
                          workers'[v].outcome = "confirmed", NEW k \in workers'[v].items
                   PROVE  sent'[k] > 0
        BY DEF ConfirmedSent
      <3>1. workers'[v] = workers[v]
        BY <2>2 DEF Idle
      <3>2. k \in Keys
        BY <3>1, <1>it, <1>j
      <3> QED BY <3>1, <3>2, <1>i, <1>s DEF ConfirmedSent
    <2>6. RecoveredWasSent'
      <3> SUFFICES ASSUME NEW k \in Keys, rows'[k].status = "recovered" PROVE sent[k] > 0
        BY <1>s DEF RecoveredWasSent
      <3>1. CASE rows[k].status = "recovered"
        BY <3>1, <1>i DEF RecoveredWasSent
      <3>2. CASE rows[k].status # "recovered"
        <4>1. PICK w \in Workers : /\ workers[w].pc = "report"
                                   /\ workers[w].outcome = "confirmed"
                                   /\ k \in Owned(workers[w].token, {"dispatching"})
          BY <3>2, <2>1 DEF WorkKept
        <4>2. k \in workers[w].items
          BY <4>1, <1>i, <1>j DEF KnowsItems, Owned
        <4> QED BY <4>1, <4>2, <1>i DEF ConfirmedSent
      <3> QED BY <3>1, <3>2
    <2> QED BY <2>3, <2>4, <2>5, <2>6 DEF DeliveryInv
  <1> QED BY <1>1, <1>2, <1>3, <1>4

\* An item counts as recovered only if a reply to it is in the chat: a worker that was
\* overtaken, crashed or swept never closes what another has claimed since.
THEOREM RecoveredIsReal == Spec => []RecoveredWasSent
  <1>1. Spec => []DeliveryInv
    BY TypeCorrect, DeliveryInit, DeliveryStep, PTL DEF Spec
  <1>2. DeliveryInv => RecoveredWasSent
    BY DEF DeliveryInv
  <1> QED BY <1>1, <1>2, PTL
-----------------------------------------------------------------------------
(* What is closed stays closed                                              *)

StaysClosed(k) ==
    /\ rows[k].status \in {"recovered", "expired", "abandoned"} => rows'[k].status = rows[k].status
    /\ rows[k].status = "exhausted" => rows'[k].status \in {"exhausted", "abandoned"}

\* Rows that are pending, quarantined, under work or absent are none of the property's.
THEOREM ClosedStep == TypeOK /\ [Next]_vars => [\A k \in Keys : StaysClosed(k)]_vars
  <1> SUFFICES ASSUME TypeOK, [Next]_vars, NEW k \in Keys PROVE StaysClosed(k)
    OBVIOUS
  <1>t. rows \in Table /\ clock \in Nat
    BY ConstantsAssumption DEF TypeOK, Table
  <1>e. rows'[k] = rows[k] => StaysClosed(k)
    BY DEF StaysClosed
  <1>n. rows[k].status \notin Terminal => StaysClosed(k)
    BY DEF StaysClosed, Terminal
  <1>m. rows[k].status \in Terminal => Maintained(clock)[k] = rows[k]
    BY <1>t, MaintainedRow
  <1>1. ASSUME NEW j \in Keys, NEW class \in Classes, NEW r \in Routes, Record(j, class, r)
        PROVE  StaysClosed(k)
    BY <1>1, <1>t, <1>e, <1>n DEF Record, Table, NoRow, Terminal
  <1>2. ASSUME NEW w \in Workers, NEW asked, Claim(w, asked) PROVE StaysClosed(k)
    <2> DEFINE Q == Maintained(clock)
    <2>1. PICK anchor \in Oldest(Q, Anchors(Q, asked)), tok \in Tokens \ InUse :
            rows' = [i \in Keys |-> IF i \in Batch(Q, anchor) THEN Claimed(Q[i], tok) ELSE Q[i]]
      BY <1>2 DEF Claim
    <2>2. rows[k].status \in Terminal => k \notin Batch(Q, anchor)
      BY <1>m, BatchReady DEF Ready, Terminal
    <2> QED BY <2>1, <2>2, <1>m, <1>e, <1>n
  <1>3. ASSUME NEW w \in Workers, Renew(w) PROVE StaysClosed(k)
    BY <1>3, <1>e, <1>n DEF Renew, Owned, Active, Terminal
  <1>4. ASSUME NEW w \in Workers, DispatchStart(w) PROVE StaysClosed(k)
    BY <1>4, <1>e, <1>n DEF DispatchStart, Owned, Terminal
  <1>5. ASSUME NEW w \in Workers, NEW delay \in Backoffs, GenerationFails(w, delay)
        PROVE  StaysClosed(k)
    BY <1>5, <1>e, <1>n DEF GenerationFails, Owned, Terminal
  <1>6. ASSUME NEW w \in Workers, NEW delay \in Backoffs, Finalize(w, delay)
        PROVE  StaysClosed(k)
    BY <1>6, <1>e, <1>n DEF Finalize, Owned, Terminal
  <1>7. ASSUME NEW w \in Workers, Send(w) \/ ClaimError(w) \/ Crash(w) PROVE StaysClosed(k)
    BY <1>7, <1>e DEF Send, ClaimError, Crash
  <1>8. CASE ExpireDue
    BY <1>8, <1>m, <1>e, <1>n DEF ExpireDue
  <1>9. ASSUME NEW r \in Routes, WakeRoute(r) PROVE StaysClosed(k)
    BY <1>9, <1>m, <1>e, <1>n DEF WakeRoute, Terminal
  <1>10. ASSUME NEW j \in Keys, ConfirmNotSent(j) PROVE StaysClosed(k)
    BY <1>10, <1>t, <1>e, <1>n DEF ConfirmNotSent, Table, Terminal
  <1>11. ASSUME NEW j \in Keys, Abandon(j) PROVE StaysClosed(k)
    <2>1. rows[j] \in Row
      BY <1>11, <1>t, Distinct DEF Abandon, Table
    <2>2. [Unclaimed(rows[j]) EXCEPT !.status = "abandoned"].status = "abandoned"
      BY <2>1, UnclaimedRow DEF Row
    <2> QED BY <2>2, <1>11, <1>t, <1>e DEF Abandon, Table, StaysClosed
  <1>12. CASE Tick \/ UNCHANGED vars
    BY <1>12, <1>e DEF Tick, vars
  <1> QED
    BY <1>1, <1>2, <1>3, <1>4, <1>5, <1>6, <1>7, <1>8, <1>9, <1>10, <1>11, <1>12
    DEF Next, WorkerStep

\* No report, sweep, worker or administrator takes an item out of a terminal status;
\* only an exhausted one may still be abandoned.
THEOREM ClosedForGood == Spec => ClosedStays
  <1> QED BY TypeCorrect, ClosedStep, PTL DEF Spec, ClosedStays, StaysClosed
-----------------------------------------------------------------------------
(* The length of a batch                                                    *)

\* The order of the naturals as a set of pairs.
Before == {ss \in Nat \X Nat : ss[1] < ss[2]}

\* A set of naturals has a least element: what induction is done with below.
LEMMA LeastNumber ==
    ASSUME NEW T, T \subseteq Nat, T # {}
    PROVE  \E n \in T : \A m \in T : n <= m
  <1>1. IsWellFoundedOn(Before, Nat)
    BY NatLessThanWellFounded DEF OpToRel, Before
  <1>2. \E x \in T : \A y \in T : ~ (<<y, x>> \in Before)
    BY <1>1, WFMin, Zenon
  <1>3. PICK x \in T : \A y \in T : ~ (<<y, x>> \in Before)
    BY <1>2
  <1>4. ASSUME NEW y \in T PROVE x <= y
    <2>1. <<y, x>> \notin Before
      BY <1>3
    <2>2. x \in Nat /\ y \in Nat
      OBVIOUS
    <2>3. ~ (y < x)
      BY <2>1, <2>2 DEF Before
    <2> QED BY <2>2, <2>3
  <1> QED BY <1>4

\* Sets of keys are finite, and a part of one is smaller.
LEMMA KeySets ==
    ASSUME NEW S \in SUBSET Keys
    PROVE  /\ IsFiniteSet(S) /\ Cardinality(S) \in Nat
           /\ S = {} <=> Cardinality(S) = 0
           /\ \A T \in SUBSET S : /\ IsFiniteSet(T) /\ Cardinality(T) <= Cardinality(S)
                                  /\ T # S => Cardinality(T) < Cardinality(S)
           /\ \A x \in S : Cardinality(S \ {x}) < Cardinality(S)
  <1>1. IsFiniteSet(S)
    BY ConstantsAssumption, FS_Subset
  <1>2. Cardinality(S) \in Nat /\ (S = {} <=> Cardinality(S) = 0)
    BY <1>1, FS_CardinalityType, FS_EmptySet
  <1>3. \A T \in SUBSET S : /\ IsFiniteSet(T) /\ Cardinality(T) <= Cardinality(S)
                            /\ T # S => Cardinality(T) < Cardinality(S)
    <2> SUFFICES ASSUME NEW T \in SUBSET S
                 PROVE  /\ IsFiniteSet(T) /\ Cardinality(T) <= Cardinality(S)
                        /\ T # S => Cardinality(T) < Cardinality(S)
      OBVIOUS
    <2>1. IsFiniteSet(T) /\ Cardinality(T) <= Cardinality(S) /\ (Cardinality(S) = Cardinality(T) => S = T)
      BY <1>1, FS_Subset
    <2>2. Cardinality(T) \in Nat
      BY <2>1, FS_CardinalityType
    <2> QED BY <1>2, <2>1, <2>2
  <1>4. \A x \in S : (S \ {x}) \in SUBSET S /\ S \ {x} # S
    OBVIOUS
  <1> QED BY <1>1, <1>2, <1>3, <1>4

\* Among sets of keys there is one that is no larger than any.
LEMMA SmallestSet ==
    ASSUME NEW F \in SUBSET (SUBSET Keys), F # {}
    PROVE  \E S \in F : \A T \in F : ~ (Cardinality(T) < Cardinality(S))
  <1> DEFINE sizes == {Cardinality(S) : S \in F}
  <1>1. sizes \subseteq Nat /\ sizes # {}
    BY KeySets
  <1>2. PICK n \in sizes : \A m \in sizes : n <= m
    <2> HIDE DEF sizes
    <2> QED BY <1>1, LeastNumber
  <1>3. PICK S \in F : n = Cardinality(S)
    BY <1>2
  <1>4. \A T \in F : Cardinality(T) \in sizes
    OBVIOUS
  <1>5. \A T \in F : Cardinality(S) <= Cardinality(T) /\ Cardinality(T) \in Nat
    BY <1>1, <1>2, <1>3, <1>4
  <1>6. Cardinality(S) \in Nat
    BY <1>5
  <1> QED BY <1>5, <1>6

Choice(S) == CHOOSE x \in S : TRUE
\* The sum as the fold writes it: a function on the subsets of S.
IsTally(S, f) ==
    f = [s \in SUBSET S |-> IF s = {} THEN 0 ELSE Size[Choice(s)] + f[s \ {Choice(s)}]]

LEMMA CharsIs == ASSUME NEW S PROVE Chars(S) = (CHOOSE f : IsTally(S, f))[S]
  BY DEF Chars, MapThenSumSet, MapThenFoldSet, IsTally, Choice

LEMMA Chosen == ASSUME NEW S, S # {} PROVE Choice(S) \in S
  BY DEF Choice

\* Tallies of different sets agree where both are defined.
LEMMA TalliesAgree ==
    ASSUME NEW S \in SUBSET Keys, NEW R \in SUBSET Keys, NEW f, NEW g,
           IsTally(S, f), IsTally(R, g)
    PROVE  \A s \in SUBSET Keys : s \subseteq S /\ s \subseteq R => f[s] = g[s]
  <1> DEFINE F == {s \in SUBSET Keys : s \subseteq S /\ s \subseteq R /\ f[s] # g[s]}
  <1> SUFFICES ASSUME F # {} PROVE FALSE
    OBVIOUS
  <1>1. PICK s \in F : \A t \in F : ~ (Cardinality(t) < Cardinality(s))
    BY SmallestSet
  <1> DEFINE x == Choice(s)
             rest == s \ {x}
  <1>2. s \in SUBSET Keys /\ s \subseteq S /\ s \subseteq R /\ f[s] # g[s]
    OBVIOUS
  <1>3. f[s] = IF s = {} THEN 0 ELSE Size[x] + f[rest]
    BY <1>2 DEF IsTally
  <1>4. g[s] = IF s = {} THEN 0 ELSE Size[x] + g[rest]
    BY <1>2 DEF IsTally
  <1>5. s # {} /\ f[rest] # g[rest]
    <2> HIDE DEF rest, x
    <2> QED BY <1>2, <1>3, <1>4
  <1>6. x \in s
    BY <1>5, Chosen
  <1>7. rest \in F
    BY <1>2, <1>5
  <1>8. Cardinality(rest) < Cardinality(s)
    BY <1>2, <1>6, KeySets
  <1> QED BY <1>1, <1>7, <1>8

Tally(S) == CHOOSE f : IsTally(S, f)

\* Every set of keys has a tally, so its length is what the recursion says.
LEMMA CharsOf ==
    ASSUME NEW S \in SUBSET Keys
    PROVE  /\ \E f : IsTally(S, f)
           /\ Chars(S) = IF S = {} THEN 0 ELSE Size[Choice(S)] + Chars(S \ {Choice(S)})
  <1> DEFINE Step(T) == IF T = {} THEN 0 ELSE Size[Choice(T)] + Chars(T \ {Choice(T)})
  <1>1. ASSUME NEW T \in SUBSET Keys, \E f : IsTally(T, f)
        PROVE  Chars(T) = Tally(T)[T] /\ IsTally(T, Tally(T))
    BY <1>1, CharsIs DEF Tally
  <1>2. ASSUME NEW T \in SUBSET Keys, \E f : IsTally(T, f),
               NEW R \in SUBSET T, \E f : IsTally(R, f)
        PROVE  Tally(T)[R] = Chars(R)
    <2>1. R \in SUBSET Keys
      OBVIOUS
    <2>2. IsTally(T, Tally(T)) /\ IsTally(R, Tally(R)) /\ Chars(R) = Tally(R)[R]
      BY <1>1, <1>2, <2>1
    <2> DEFINE f == Tally(T)
               g == Tally(R)
    <2>3. IsTally(T, f) /\ IsTally(R, g)
      BY <2>2
    <2> HIDE DEF f, g
    <2>4. f[R] = g[R]
      BY <2>1, <2>3, TalliesAgree
    <2> QED BY <2>2, <2>4 DEF f, g
  <1>3. ASSUME NEW T \in SUBSET Keys, \E f : IsTally(T, f),
               \A R \in SUBSET T : R # T => \E f : IsTally(R, f)
        PROVE  Chars(T) = Step(T)
    <2> DEFINE x == Choice(T)
               rest == T \ {x}
    <2>1. Chars(T) = Tally(T)[T] /\ IsTally(T, Tally(T))
      BY <1>1, <1>3
    <2>2. Tally(T)[T] = IF T = {} THEN 0 ELSE Size[x] + Tally(T)[rest]
      BY <2>1 DEF IsTally
    <2>3. T # {} => x \in T
      BY Chosen
    <2>4. ASSUME T # {} PROVE Tally(T)[rest] = Chars(rest)
      <3>1. rest \in SUBSET T /\ rest # T
        BY <2>3, <2>4
      <3>2. \E f : IsTally(rest, f)
        BY <1>3, <3>1
      <3> HIDE DEF rest
      <3> QED BY <1>2, <1>3, <3>1, <3>2
    <2> HIDE DEF x, rest
    <2>5. Chars(T) = IF T = {} THEN 0 ELSE Size[x] + Chars(rest)
      BY <2>1, <2>2, <2>4
    <2> QED BY <2>5 DEF x, rest
  <1> DEFINE F == {T \in SUBSET Keys : ~ \E f : IsTally(T, f)}
  <1>4. ASSUME F # {} PROVE FALSE
    <2>1. PICK T \in F : \A R \in F : ~ (Cardinality(R) < Cardinality(T))
      BY <1>4, SmallestSet
    <2>2. T \in SUBSET Keys /\ ~ \E f : IsTally(T, f)
      OBVIOUS
    <2>3. \A R \in SUBSET T : R # T => \E f : IsTally(R, f)
      BY <2>1, <2>2, KeySets
    <2> DEFINE f == [s \in SUBSET T |-> Step(s)]
    <2>4. ASSUME NEW s \in SUBSET T, s # {} PROVE f[s \ {Choice(s)}] = Chars(s \ {Choice(s)})
      <3> DEFINE x == Choice(s)
                 r == s \ {x}
      <3>1. x \in s
        BY <2>4, Chosen
      <3>2. r \in SUBSET T /\ r # T /\ r \in SUBSET Keys
        BY <2>2, <3>1
      <3>3. \A q \in SUBSET r : \E g : IsTally(q, g)
        BY <2>3, <3>2
      <3> HIDE DEF r, Step
      <3>4. Chars(r) = Step(r)
        BY <1>3, <3>2, <3>3
      <3>5. f[r] = Step(r)
        BY <3>2
      <3> QED BY <3>4, <3>5 DEF r
    <2>5. IsTally(T, f)
      <3>1. \A s \in SUBSET T : Step(s) = IF s = {} THEN 0 ELSE Size[Choice(s)] + f[s \ {Choice(s)}]
        <4> SUFFICES ASSUME NEW s \in SUBSET T
                     PROVE  Step(s) = IF s = {} THEN 0 ELSE Size[Choice(s)] + f[s \ {Choice(s)}]
          OBVIOUS
        <4>1. CASE s = {}
          BY <4>1
        <4>2. CASE s # {}
          <5>1. f[s \ {Choice(s)}] = Chars(s \ {Choice(s)})
            BY <4>2, <2>4
          <5> HIDE DEF f
          <5> QED BY <4>2, <5>1
        <4> QED BY <4>1, <4>2
      <3>2. f = [s \in SUBSET T |-> IF s = {} THEN 0 ELSE Size[Choice(s)] + f[s \ {Choice(s)}]]
        <4> HIDE DEF Step
        <4> QED BY <3>1
      <3> HIDE DEF f
      <3> QED BY <3>2 DEF IsTally
    <2> QED BY <2>2, <2>5
  <1>5. \A T \in SUBSET Keys : \E f : IsTally(T, f)
    BY <1>4
  <1>6. Chars(S) = Step(S)
    BY <1>3, <1>5
  <1> QED BY <1>5, <1>6

\* The length of a set is a number, and any element may be counted first.
LEMMA CharsCounted ==
    ASSUME NEW S \in SUBSET Keys
    PROVE  /\ Chars(S) \in Nat
           /\ \A x \in S : Chars(S) = Size[x] + Chars(S \ {x})
  <1> DEFINE F == {T \in SUBSET Keys : Chars(T) \notin Nat}
             G == {T \in SUBSET Keys : \E x \in T : Chars(T) # Size[x] + Chars(T \ {x})}
  <1>s. \A x \in Keys : Size[x] \in Nat
    BY ConstantsAssumption
  <1>1. ASSUME F # {} PROVE FALSE
    <2>1. PICK T \in F : \A R \in F : ~ (Cardinality(R) < Cardinality(T))
      BY <1>1, SmallestSet
    <2> DEFINE x == Choice(T)
               rest == T \ {x}
    <2>2. T \in SUBSET Keys /\ Chars(T) \notin Nat
      OBVIOUS
    <2>3. Chars(T) = IF T = {} THEN 0 ELSE Size[x] + Chars(rest)
      BY <2>2, CharsOf
    <2>4. T # {} => x \in T
      BY Chosen
    <2>5. T # {} => Cardinality(rest) < Cardinality(T) /\ rest \in SUBSET Keys
      BY <2>2, <2>4, KeySets
    <2>6. T # {} => Chars(rest) \in Nat /\ Size[x] \in Nat
      BY <2>1, <2>2, <2>4, <2>5, <1>s
    <2> HIDE DEF x, rest
    <2> QED BY <2>2, <2>3, <2>6
  <1>2. \A T \in SUBSET Keys : Chars(T) \in Nat
    BY <1>1
  <1>3. ASSUME G # {} PROVE FALSE
    <2>1. PICK T \in G : \A R \in G : ~ (Cardinality(R) < Cardinality(T))
      BY <1>3, SmallestSet
    <2>2. PICK x \in T : Chars(T) # Size[x] + Chars(T \ {x})
      BY <2>1
    <2> DEFINE c == Choice(T)
               rest == T \ {c}
               other == T \ {x}
               both == T \ {x, c}
    <2>3. T \in SUBSET Keys /\ c \in T /\ x \in T
      BY <2>2, Chosen
    <2>4. Chars(T) = Size[c] + Chars(rest)
      BY <2>3, CharsOf
    <2>5. c # x
      BY <2>2, <2>4
    <2>6. /\ Cardinality(rest) < Cardinality(T) /\ rest \in SUBSET Keys
          /\ Cardinality(other) < Cardinality(T) /\ other \in SUBSET Keys
      BY <2>3, KeySets
    <2>7. rest \notin G /\ other \notin G
      <3> HIDE DEF G, rest, other
      <3> QED BY <2>1, <2>6
    <2>8. Chars(rest) = Size[x] + Chars(rest \ {x})
      BY <2>3, <2>5, <2>6, <2>7
    <2>9. Chars(other) = Size[c] + Chars(other \ {c})
      BY <2>3, <2>5, <2>6, <2>7
    <2>10. rest \ {x} = both /\ other \ {c} = both /\ both \in SUBSET Keys
      BY <2>3
    <2>11. Chars(both) \in Nat /\ Size[x] \in Nat /\ Size[c] \in Nat
      BY <2>3, <2>10, <1>2, <1>s
    <2>12. Chars(T) # Size[x] + Chars(other)
      BY <2>2
    <2>13. Chars(rest) = Size[x] + Chars(both) /\ Chars(other) = Size[c] + Chars(both)
      BY <2>8, <2>9, <2>10
    <2> HIDE DEF both, rest, other, c, G
    <2> QED BY <2>4, <2>11, <2>12, <2>13
  <1>4. \A T \in SUBSET Keys : \A x \in T : Chars(T) = Size[x] + Chars(T \ {x})
    BY <1>3
  <1> QED BY <1>2, <1>4

\* A part of a set is no longer than the set.
LEMMA CharsGrow ==
    ASSUME NEW S \in SUBSET Keys, NEW R \in SUBSET S
    PROVE  Chars(R) <= Chars(S)
  <1> DEFINE F == {T \in SUBSET Keys : R \subseteq T /\ ~ (Chars(R) <= Chars(T))}
  <1> SUFFICES ASSUME F # {} PROVE FALSE
    OBVIOUS
  <1>1. PICK T \in F : \A Q \in F : ~ (Cardinality(Q) < Cardinality(T))
    BY SmallestSet
  <1>2. T \in SUBSET Keys /\ R \subseteq T /\ ~ (Chars(R) <= Chars(T))
    OBVIOUS
  <1>3. Chars(R) \in Nat /\ Chars(T) \in Nat
    BY <1>2, CharsCounted
  <1>4. R # T
    BY <1>2, <1>3
  <1>5. PICK x \in T : x \notin R
    BY <1>2, <1>4
  <1> DEFINE rest == T \ {x}
  <1>6. Cardinality(rest) < Cardinality(T) /\ rest \in SUBSET Keys /\ R \subseteq rest
    BY <1>2, <1>5, KeySets
  <1>7. rest \notin F
    <2> HIDE DEF F, rest
    <2> QED BY <1>1, <1>6
  <1>8. Chars(R) <= Chars(rest)
    BY <1>6, <1>7
  <1>9. Chars(T) = Size[x] + Chars(rest) /\ Chars(rest) \in Nat
    BY <1>2, <1>5, <1>6, CharsCounted
  <1>10. Size[x] \in Nat
    BY <1>2, ConstantsAssumption
  <1> HIDE DEF rest, F
  <1> QED BY <1>2, <1>3, <1>8, <1>9, <1>10

\* A set of items that one claim may hold.
InLimits(S) == Cardinality(S) <= MaxBatch /\ (Cardinality(S) > 1 => Chars(S) <= MaxChars)

\* The limits of a set are the limits of its parts.
LEMMA PartInLimits ==
    ASSUME NEW S \in SUBSET Keys, InLimits(S), NEW R \in SUBSET S
    PROVE  InLimits(R)
  <1>1. Cardinality(R) <= Cardinality(S) /\ Cardinality(S) \in Nat /\ Cardinality(R) \in Nat
    BY KeySets
  <1>2. Chars(R) <= Chars(S) /\ Chars(R) \in Nat /\ Chars(S) \in Nat
    BY CharsGrow, CharsCounted
  <1> QED BY <1>1, <1>2, ConstantsAssumption DEF InLimits

\* What claim_next_batch takes is within the limits: the youngest item taken bounds
\* the others, because it was compared with all that are older than it.
LEMMA BatchInLimits ==
    ASSUME NEW Q, NEW a, \A k \in Keys : Q[k].status = "pending" => Q[k].id \in Nat
    PROVE  Batch(Q, a) \in SUBSET Keys /\ InLimits(Batch(Q, a))
  <1> DEFINE S == {k \in Keys : /\ ConvOf[k] = ConvOf[a]
                                /\ Ready(Q[k], clock) /\ Q[k].route = Q[a].route}
             UpTo(k) == {j \in S : Q[j].id <= Q[k].id}
             B == Batch(Q, a)
             Younger(k) == S \ UpTo(k)
  <1>1. B = {k \in S : \/ Cardinality(UpTo(k)) = 1
                       \/ Cardinality(UpTo(k)) <= MaxBatch /\ Chars(UpTo(k)) <= MaxChars}
    BY DEF Batch
  <1>2. /\ S \in SUBSET Keys
        /\ \A k \in S : Q[k].id \in Nat
        /\ \A k \in S : UpTo(k) \in SUBSET S /\ Younger(k) \in SUBSET S
        /\ \A j, k \in S : j \in UpTo(k) <=> Q[j].id <= Q[k].id
    BY DEF Ready
  <1>3. B \in SUBSET S
    BY <1>1
  <1>4. CASE B = {}
    BY <1>4, FS_EmptySet, ConstantsAssumption DEF InLimits
  <1>5. CASE B # {}
    <2> DEFINE F == {Younger(k) : k \in B}
    <2>1. F \in SUBSET (SUBSET Keys) /\ F # {}
      <3>1. \A k \in B : Younger(k) \in SUBSET Keys
        BY <1>2, <1>3
      <3> HIDE DEF B, Younger
      <3> QED BY <3>1, <1>5
    <2>2. PICK T \in F : \A R \in F : ~ (Cardinality(R) < Cardinality(T))
      <3> HIDE DEF F
      <3> QED BY <2>1, SmallestSet
    <2>3. PICK k \in B : T = Younger(k)
      OBVIOUS
    <2>4. ASSUME NEW j \in B PROVE j \in UpTo(k)
      <3> SUFFICES ASSUME j \notin UpTo(k) PROVE FALSE
        OBVIOUS
      <3>1. j \in S /\ k \in S /\ Q[k].id < Q[j].id
        BY <1>2, <1>3
      <3>2. Younger(j) \subseteq Younger(k) /\ j \in Younger(k) /\ j \notin Younger(j)
        BY <1>2, <3>1
      <3>3. Younger(j) \in F /\ Younger(k) \in SUBSET Keys
        BY <1>2, <3>1
      <3> HIDE DEF F, Younger
      <3>4. Cardinality(Younger(j)) < Cardinality(Younger(k))
        BY <3>2, <3>3, KeySets
      <3> QED BY <2>2, <2>3, <3>3, <3>4
    <2>5. B \in SUBSET UpTo(k) /\ UpTo(k) \in SUBSET Keys
      BY <1>2, <1>3, <2>4
    <2>6. \/ Cardinality(UpTo(k)) = 1
          \/ Cardinality(UpTo(k)) <= MaxBatch /\ Chars(UpTo(k)) <= MaxChars
      BY <1>1
    <2> HIDE DEF UpTo, B
    <2>7. InLimits(UpTo(k))
      BY <2>6, ConstantsAssumption DEF InLimits
    <2>8. InLimits(B)
      BY <2>5, <2>7, PartInLimits
    <2> QED BY <1>2, <1>3, <2>8 DEF B
  <1> QED BY <1>4, <1>5

Held(tok) == {k \in Keys : rows[k].status \in Active /\ rows[k].token = tok}

LEMMA LimitsAre == BatchLimits <=> \A tok \in Tokens : InLimits(Held(tok))
  BY DEF BatchLimits, InLimits, Held

THEOREM LimitsInit == Init => BatchLimits
  <1> SUFFICES ASSUME Init, NEW tok \in Tokens PROVE InLimits(Held(tok))
    BY LimitsAre
  <1>1. Held(tok) = {}
    BY DEF Init, Held, NoRow, Active
  <1> QED BY <1>1, FS_EmptySet, ConstantsAssumption DEF InLimits

\* Only a claim adds to what a token holds.
THEOREM LimitsStep == TypeOK /\ BatchLimits /\ [Next]_vars => BatchLimits'
  <1> SUFFICES ASSUME TypeOK, BatchLimits, [Next]_vars, NEW tok \in Tokens
               PROVE  InLimits(Held(tok)')
    BY DEF BatchLimits, InLimits, Held
  <1> USE ConstantsAssumption
  <1>t. rows \in Table /\ clock \in Nat
    BY DEF TypeOK, Table
  <1>h. InLimits(Held(tok)) /\ Held(tok) \in SUBSET Keys
    BY LimitsAre DEF Held
  <1>k. ASSUME \A k \in Keys : rows'[k].status \in Active /\ rows'[k].token = tok
                    => rows[k].status \in Active /\ rows[k].token = tok
        PROVE  InLimits(Held(tok)')
    <2>1. Held(tok)' \in SUBSET Held(tok)
      BY <1>k DEF Held
    <2> QED BY <1>h, <2>1, PartInLimits
  <1>1. ASSUME NEW w \in Workers, NEW asked, Claim(w, asked) PROVE InLimits(Held(tok)')
    <2> DEFINE Q == Maintained(clock)
    <2>1. PICK anchor \in Oldest(Q, Anchors(Q, asked)), new \in Tokens \ InUse :
            rows' = [k \in Keys |-> IF k \in Batch(Q, anchor) THEN Claimed(Q[k], new) ELSE Q[k]]
      BY <1>1 DEF Claim
    <2> DEFINE B == Batch(Q, anchor)
    <2>2. ASSUME NEW k \in Keys
          PROVE  /\ Q[k].status = "pending" => Q[k] \in Row
                 /\ Q[k].status \in Active => Q[k] = rows[k]
      <3>1. Q[k] \in Row \cup {NoRow} /\ (Q[k].status \in Active => Q[k] = rows[k])
        BY <1>t, MaintainedRow
      <3> HIDE DEF Q
      <3> QED BY <3>1, Distinct
    <2>3. B \in SUBSET Keys /\ InLimits(B)
      <3>1. \A k \in Keys : Q[k].status = "pending" => Q[k].id \in Nat
        BY <2>2 DEF Row
      <3> HIDE DEF Q
      <3> QED BY <3>1, BatchInLimits
    <2>4. ASSUME NEW k \in B PROVE rows'[k].token = new
      <3>1. k \in Keys /\ Q[k].status = "pending"
        BY BatchReady DEF Ready
      <3>2. rows'[k] = Claimed(Q[k], new) /\ Q[k] \in Row
        BY <2>1, <2>2, <3>1
      <3> QED BY <3>2, <1>t, ClaimedRow
    <2>5. ASSUME NEW k \in Keys \ B PROVE rows'[k].status \in Active => rows'[k] = rows[k]
      BY <2>1, <2>2
    <2>6. CASE tok # new
      <3> HIDE DEF B
      <3> QED BY <2>4, <2>5, <2>6, <1>k
    <2>7. CASE tok = new
      <3>1. ASSUME NEW k \in Keys, rows[k].status \in Active PROVE rows[k].token # new
        <4>1. rows[k] # NoRow
          BY <3>1 DEF NoRow, Active
        <4> QED BY <2>1, <4>1 DEF InUse
      <3>2. Held(tok)' \in SUBSET B
        <4> HIDE DEF B
        <4> QED BY <2>5, <2>7, <3>1 DEF Held
      <3> QED BY <2>3, <3>2, PartInLimits
    <2> QED BY <2>6, <2>7
  <1>2. ASSUME NEW w \in Workers, DispatchStart(w) PROVE InLimits(Held(tok)')
    <2>1. ASSUME NEW k \in Keys
          PROVE  rows'[k] # rows[k] =>
                    /\ rows[k].status = "processing"
                    /\ rows'[k].token = rows[k].token
      <3> SUFFICES ASSUME rows'[k] # rows[k]
                   PROVE  rows[k].status = "processing" /\ rows'[k].token = rows[k].token
        OBVIOUS
      <3>1. /\ k \in Owned(workers[w].token, {"processing"})
            /\ rows'[k] = [rows[k] EXCEPT !.status = "dispatching", !.leaseEnd = clock + Lease]
        BY <1>2 DEF DispatchStart
      <3>2. rows[k] \in Row /\ rows[k].status = "processing"
        BY <3>1, <1>t, OwnedRow DEF Active
      <3> QED BY <3>1, <3>2 DEF Row
    <2> QED BY <2>1, <1>k DEF Active
  <1>3. CASE \A w \in Workers : ~ DispatchStart(w) /\ \A asked : ~ Claim(w, asked)
    <2>1. \A k \in Keys : WorkKept(k)
      BY <1>3, WorkKeptBySteps
    <2> QED BY <2>1, <1>k DEF WorkKept
  <1> QED BY <1>1, <1>2, <1>3

\* What one claim holds stays within the limits of a batch (claim_next_batch's loop
\* over the candidates), however its items are reported, woken, taken away or left over.
THEOREM BatchesLimited == Spec => []BatchLimits
  <1> QED BY TypeCorrect, LimitsInit, LimitsStep, PTL DEF Spec
-----------------------------------------------------------------------------
(* One answer to a message, with prompt workers                             *)

\* Worker w is about to send to k; w would report that its send did not arrive at k.
Sends(w, k)   == workers[w].pc = "send" /\ k \in workers[w].items
Retracts(w, k) == /\ workers[w].pc = "report" /\ workers[w].outcome = "confirmed_not_sent"
                  /\ k \in Owned(workers[w].token, {"dispatching"})

\* A message open for another attempt has no answer, and none is under way; an attempt
\* that is under way is the first, and it holds the item while its lease lives unless
\* an administrator has closed the item.
OnceFor(k) ==
    /\ sent[k] <= 1
    /\ rows[k].status \in {"none", "pending", "processing"} =>
            sent[k] = 0 /\ \A w \in Workers : ~ Sends(w, k)
    /\ \A w \in Workers : Sends(w, k) =>
            /\ sent[k] = 0
            /\ \/ rows[k].status = "abandoned"
               \/ /\ rows[k].status = "dispatching" /\ rows[k].token = workers[w].token
                  /\ rows[k].leaseEnd > clock
    /\ \A v, w \in Workers : Sends(v, k) /\ Sends(w, k) => v = w
    /\ \A w \in Workers : Retracts(w, k) => sent[k] = 0

OnceInv ==
    \A k \in Keys : /\ reports[k] = 0 => rows[k] = NoRow
                    /\ reports[k] <= 1 => OnceFor(k)

THEOREM OnceInit == Init => OnceInv
  BY DEF Init, OnceInv, OnceFor, Sends, Retracts, Owned, NoRow, Idle

\* What a step other than a report may do to a row: it neither appears nor vanishes,
\* opens for another attempt only if it was open or nothing was or is being sent, and
\* stays with the worker that is about to send unless it is abandoned.
RowOnce(k) ==
    /\ rows'[k].status = "none" <=> rows[k].status = "none"
    /\ rows'[k].status \in {"pending", "processing"} =>
            \/ rows[k].status \in {"pending", "processing"}
            \/ sent[k] = 0 /\ \A w \in Workers : ~ Sends(w, k)
    /\ (\E w \in Workers : Sends(w, k)) =>
            \/ rows'[k].status = "abandoned"
            \/ rows'[k].status = rows[k].status /\ rows'[k].token = rows[k].token

\* Maintenance leaves what is being sent alone, and opens nothing.
LEMMA MaintainedOnce ==
    ASSUME TypeOK, NEW k \in Keys, OnceFor(k)
    PROVE  LET new == Maintained(clock)[k]
           IN  /\ new.status = "none" <=> rows[k].status = "none"
               /\ new.status \in {"pending", "processing"} =>
                        rows[k].status \in {"pending", "processing"}
               /\ (\E w \in Workers : Sends(w, k)) => new = rows[k]
  <1> DEFINE new == Maintained(clock)[k]
  <1>1. rows \in Table /\ clock \in Nat
    BY ConstantsAssumption DEF TypeOK, Table
  <1>2. /\ new \in Row \cup {NoRow} /\ (new = NoRow <=> rows[k] = NoRow)
        /\ new.status \in Active => new = rows[k]
        /\ new.status = "pending" => rows[k].status \in {"pending", "processing"}
        /\ rows[k].status \in Terminal => new = rows[k]
    BY <1>1, MaintainedRow
  <1>3. ASSUME rows[k].status = "dispatching", rows[k].leaseEnd > clock PROVE new = rows[k]
    <2>1. rows[k] \in Row
      BY <1>1, <1>3, Distinct DEF Table
    <2>2. ~ Stale(rows[k], "dispatching", clock) /\ ~ Stale(rows[k], "processing", clock)
      BY <1>1, <1>3, <2>1 DEF Stale, Row
    <2>3. Swept(rows[k], clock) = rows[k]
      BY <2>2 DEF Swept
    <2> QED BY <1>3, <2>3 DEF Maintained, Expired
  <1>4. (\E w \in Workers : Sends(w, k)) => new = rows[k]
    BY <1>2, <1>3 DEF OnceFor, Terminal
  <1>5. rows[k] \in Row \cup {NoRow}
    BY <1>1 DEF Table
  <1> HIDE DEF new
  <1>6. new.status = "none" <=> rows[k].status = "none"
    BY <1>2, <1>5, Distinct
  <1>7. new.status \in {"pending", "processing"} => rows[k].status \in {"pending", "processing"}
    BY <1>2 DEF Active
  <1> QED BY <1>4, <1>6, <1>7 DEF new

\* So does every step that neither reports a failure nor starts a dispatch.
LEMMA RowsOnce ==
    ASSUME TypeOK, TypeOK', DeliveryInv, [Next]_vars, NEW k \in Keys, OnceFor(k),
           \A j \in Keys, class \in Classes, r \in Routes : ~ Record(j, class, r),
           \A w \in Workers : ~ DispatchStart(w)
    PROVE  RowOnce(k)
  <1> USE ConstantsAssumption
  <1>t. /\ rows \in Table /\ clock \in Nat
        /\ workers \in [Workers -> Job \cup {Idle}]
        /\ rows[k] \in Row \cup {NoRow} /\ rows'[k] \in Row \cup {NoRow}
    BY DEF TypeOK, Table
  <1>i. OwnTokens /\ KnowsItems
    BY DEF DeliveryInv
  <1>j. \A w \in Workers : workers[w].pc # "idle" <=> workers[w] # Idle
    BY <1>t, Distinct
  <1>e. rows'[k].status = rows[k].status /\ rows'[k].token = rows[k].token => RowOnce(k)
    BY DEF RowOnce
  <1>s. rows'[k] = rows[k] => RowOnce(k)
    BY DEF RowOnce
  <1>m. /\ Maintained(clock)[k].status = "none" <=> rows[k].status = "none"
        /\ Maintained(clock)[k].status \in {"pending", "processing"} =>
                 rows[k].status \in {"pending", "processing"}
        /\ (\E w \in Workers : Sends(w, k)) => Maintained(clock)[k] = rows[k]
    BY MaintainedOnce
  <1>o. ASSUME rows'[k] = Maintained(clock)[k] PROVE RowOnce(k)
    BY <1>o, <1>m DEF RowOnce
  <1>p. ASSUME rows[k].status \in {"pending", "processing"}, rows'[k].status # "none"
        PROVE  RowOnce(k)
    BY <1>p DEF RowOnce, OnceFor
  <1>1. ASSUME NEW w \in Workers, NEW asked, Claim(w, asked) PROVE RowOnce(k)
    <2> DEFINE Q == Maintained(clock)
    <2>1. PICK anchor \in Oldest(Q, Anchors(Q, asked)), tok \in Tokens \ InUse :
            rows' = [j \in Keys |-> IF j \in Batch(Q, anchor) THEN Claimed(Q[j], tok) ELSE Q[j]]
      BY <1>1 DEF Claim
    <2>2. CASE k \in Batch(Q, anchor)
      <3>1. Q[k].status = "pending"
        BY <2>2, BatchReady DEF Ready
      <3>2. rows'[k] = Claimed(Q[k], tok) /\ Q[k] \in Row
        BY <2>1, <2>2, <3>1, <1>t, MaintainedRow, Distinct
      <3>3. rows'[k].status = "processing"
        BY <3>2, <1>t, ClaimedRow
      <3> QED BY <3>1, <3>3, <1>m, <1>p
    <2>3. CASE k \notin Batch(Q, anchor)
      BY <2>1, <2>3, <1>o
    <2> QED BY <2>2, <2>3
  <1>2. ASSUME NEW w \in Workers, Renew(w) PROVE RowOnce(k)
    <2>1. rows[k] \in Row =>
            /\ [rows[k] EXCEPT !.leaseEnd = clock + Lease].status = rows[k].status
            /\ [rows[k] EXCEPT !.leaseEnd = clock + Lease].token = rows[k].token
      BY DEF Row
    <2>2. k \in Owned(workers[w].token, Active) => rows[k] \in Row
      BY <1>t, OwnedRow
    <2> QED BY <2>1, <2>2, <1>2, <1>e, <1>s DEF Renew
  <1>3. ASSUME NEW w \in Workers, NEW delay \in Backoffs, GenerationFails(w, delay)
        PROVE  RowOnce(k)
    <2> DEFINE mine == Owned(workers[w].token, {"processing"})
    <2>1. CASE k \in mine
      <3>1. rows[k] \in Row /\ rows[k].status = "processing"
        BY <2>1, <1>t, OwnedRow DEF Active
      <3> DEFINE next == clock + delay
      <3>2. rows'[k] = Retried(Unclaimed(rows[k]), clock, "generation_failed_before_send", next)
        BY <2>1, <1>3 DEF GenerationFails
      <3>3. next \in Nat /\ "generation_failed_before_send" \in Classes
        BY <1>t DEF Classes, Recoverable
      <3> HIDE DEF next
      <3> DEFINE new == Retried(Unclaimed(rows[k]), clock, "generation_failed_before_send", next)
      <3>a. clock \in Nat /\ rows[k] \in Row /\ next \in Nat
        BY <3>1, <3>3, <1>t
      <3>b. new.status \in {"expired", "exhausted", "pending"}
        BY <3>a, <3>3, GivenUpRow
      <3>4. rows'[k].status \in {"expired", "exhausted", "pending"}
        BY <3>2, <3>b
      <3> QED BY <3>1, <3>4, <1>p
    <2>2. CASE k \notin mine
      BY <2>2, <1>3, <1>s DEF GenerationFails
    <2> QED BY <2>1, <2>2
  <1>4. ASSUME NEW w \in Workers, NEW delay \in Backoffs, Finalize(w, delay) PROVE RowOnce(k)
    <2> DEFINE outcome == workers[w].outcome
               mine == Owned(workers[w].token, {"dispatching"})
    <2>1. CASE k \in mine
      <3>1. /\ rows[k] \in Row /\ rows[k].status = "dispatching"
            /\ rows[k].token = workers[w].token
        BY <2>1, <1>t, OwnedRow DEF Active, Owned
      <3>2. workers[w].pc = "report" /\ workers[w] \in Job /\ workers[w] # Idle
        BY <1>4, <1>t, <1>j, Distinct DEF Finalize
      <3>3. \A v \in Workers : ~ Sends(v, k)
        <4> SUFFICES ASSUME NEW v \in Workers, Sends(v, k) PROVE FALSE
          OBVIOUS
        <4>1. rows[k].token = workers[v].token /\ workers[v].pc = "send" /\ workers[v] # Idle
          BY <3>1, <1>j DEF OnceFor, Sends
        <4>2. v = w
          BY <3>1, <3>2, <4>1, <1>i DEF OwnTokens
        <4> QED BY <3>2, <4>1, <4>2
      <3>4. rows'[k] = Finalized(rows[k], outcome, delay)
        BY <2>1, <1>4 DEF Finalize
      <3>5. CASE outcome = "confirmed_not_sent"
        <4>1. sent[k] = 0
          BY <2>1, <3>2, <3>5 DEF OnceFor, Retracts
        <4> DEFINE next == clock + delay
        <4>2. rows'[k] = Retried(Unclaimed(rows[k]), clock, "confirmed_not_sent", next)
          BY <3>4, <3>5 DEF Finalized, Quarantines
        <4>c. "confirmed_not_sent" \in Classes
          BY DEF Classes, Recoverable
        <4>a. clock \in Nat /\ rows[k] \in Row /\ next \in Nat
          <5>1. clock \in Nat
            BY <1>t
          <5>2. rows[k] \in Row
            BY <3>1, <1>t
          <5>3. delay \in Nat
            BY ConstantsAssumption
          <5>4. next \in Nat
            BY <5>1, <5>3
          <5> QED BY <5>1, <5>2, <5>4
        <4> HIDE DEF next
        <4> DEFINE new == Retried(Unclaimed(rows[k]), clock, "confirmed_not_sent", next)
        <4>b. new.status \in {"expired", "exhausted", "pending"}
          BY <4>a, <4>c, GivenUpRow
        <4>4. rows'[k].status \in {"expired", "exhausted", "pending"}
          BY <4>2, <4>b
        <4> QED BY <3>1, <3>3, <4>1, <4>4 DEF RowOnce
      <3>6. CASE outcome # "confirmed_not_sent"
        <4>1. outcome = "confirmed" \/ outcome \in Quarantines
          BY <3>2, <3>6 DEF Job, Outcomes
        <4>2. rows'[k].status \in {"recovered", "quarantined"}
          <5>1. CASE outcome = "confirmed"
            <6>1. rows'[k] = [Unclaimed(rows[k]) EXCEPT !.status = "recovered"]
              BY <3>4, <5>1 DEF Finalized, Quarantines
            <6> QED BY <3>1, <6>1, UnclaimedRow DEF Row
          <5>2. CASE outcome \in Quarantines
            <6>1. rows'[k] = Quarantined(rows[k], outcome) /\ outcome \in Classes
              BY <3>4, <5>2 DEF Finalized, Quarantines, Classes
            <6> QED BY <3>1, <6>1, QuarantinedRow
          <5> QED BY <4>1, <5>1, <5>2
        <4> QED BY <3>1, <3>3, <4>2 DEF RowOnce
      <3> QED BY <3>5, <3>6
    <2>2. CASE k \notin mine
      BY <2>2, <1>4, <1>s DEF Finalize
    <2> QED BY <2>1, <2>2
  <1>5. ASSUME NEW w \in Workers, Send(w) \/ ClaimError(w) \/ Crash(w) PROVE RowOnce(k)
    BY <1>5, <1>s DEF Send, ClaimError, Crash
  <1>6. CASE ExpireDue
    BY <1>6, <1>o DEF ExpireDue
  <1>7. ASSUME NEW r \in Routes, WakeRoute(r) PROVE RowOnce(k)
    <2> DEFINE Q == Maintained(clock)
    <2>1. CASE rows'[k] = Q[k]
      BY <2>1, <1>o
    <2>2. CASE rows'[k] # Q[k]
      <3>1. rows'[k] = [Q[k] EXCEPT !.nextAt = clock] /\ Q[k].status = "pending"
        BY <2>2, <1>7 DEF WakeRoute
      <3>2. Q[k] \in Row
        BY <3>1, <1>t, MaintainedRow, Distinct
      <3>3. rows'[k].status = "pending" /\ rows[k].status \in {"pending", "processing"}
        <4>1. rows[k].status \in {"pending", "processing"}
          BY <3>1, <1>m
        <4> HIDE DEF Q
        <4> QED BY <3>1, <3>2, <4>1 DEF Row
      <3> QED BY <3>3, <1>p
    <2> QED BY <2>1, <2>2
  <1>8. ASSUME NEW j \in Keys, ConfirmNotSent(j) PROVE RowOnce(k)
    <2>1. CASE j = k
      <3>1. /\ rows[k].status = "quarantined" /\ sent[k] = 0
            /\ rows'[k] = Retried(rows[k], clock, "confirmed_not_sent", clock)
        BY <2>1, <1>8, <1>t DEF ConfirmNotSent, Table
      <3>2. rows[k] \in Row /\ "confirmed_not_sent" \in Classes
        BY <3>1, <1>t, Distinct DEF Classes, Recoverable
      <3> DEFINE new == Retried(rows[k], clock, "confirmed_not_sent", clock)
      <3>a. clock \in Nat /\ rows[k] \in Row
        BY <3>2, <1>t
      <3>b. new.status \in {"expired", "exhausted", "pending"}
        BY <3>a, <3>2, RetriedRow
      <3>3. rows'[k].status \in {"expired", "exhausted", "pending"}
        BY <3>1, <3>b
      <3>4. \A w \in Workers : ~ Sends(w, k)
        BY <3>1 DEF OnceFor
      <3> QED BY <3>1, <3>3, <3>4 DEF RowOnce
    <2>2. CASE j # k
      BY <2>2, <1>8, <1>t, <1>s DEF ConfirmNotSent, Table
    <2> QED BY <2>1, <2>2
  <1>9. ASSUME NEW j \in Keys, Abandon(j) PROVE RowOnce(k)
    <2>1. CASE j = k
      <3>1. rows[k] \in Row /\ rows[k].status # "none"
        BY <2>1, <1>9, <1>t, Distinct DEF Abandon
      <3>2. rows'[k] = [Unclaimed(rows[k]) EXCEPT !.status = "abandoned"]
        BY <2>1, <1>9, <1>t DEF Abandon, Table
      <3>3. rows'[k].status = "abandoned"
        BY <3>1, <3>2, UnclaimedRow DEF Row
      <3> QED BY <3>1, <3>3 DEF RowOnce
    <2>2. CASE j # k
      BY <2>2, <1>9, <1>t, <1>s DEF Abandon, Table
    <2> QED BY <2>1, <2>2
  <1>10. CASE Tick \/ UNCHANGED vars
    BY <1>10, <1>s DEF Tick, vars
  <1> QED
    BY <1>1, <1>2, <1>3, <1>4, <1>5, <1>6, <1>7, <1>8, <1>9, <1>10 DEF Next, WorkerStep

\* An item's attempt is kept single by a step that starts no send of it and sends
\* nothing, of a worker that starts its sends while its lease lives.
LEMMA OnceKept ==
    ASSUME NEW k \in Keys, OnceFor(k), RowOnce(k), sent'[k] = sent[k],
           \A w \in Workers : Sends(w, k)' => Sends(w, k) /\ workers'[w].token = workers[w].token,
           \A w \in Workers : Retracts(w, k)' => Retracts(w, k),
           \A w \in Workers : Sends(w, k)' /\ rows'[k].status = "dispatching"
                                => rows'[k].leaseEnd > clock'
    PROVE  OnceFor(k)'
  <1>1. sent'[k] <= 1
    BY DEF OnceFor
  <1>2. rows'[k].status \in {"none", "pending", "processing"} =>
            sent'[k] = 0 /\ \A w \in Workers : ~ Sends(w, k)'
    BY DEF OnceFor, RowOnce
  <1>3. ASSUME NEW w \in Workers, Sends(w, k)'
        PROVE  /\ sent'[k] = 0
               /\ \/ rows'[k].status = "abandoned"
                  \/ /\ rows'[k].status = "dispatching" /\ rows'[k].token = workers'[w].token
                     /\ rows'[k].leaseEnd > clock'
    <2>1. Sends(w, k) /\ workers'[w].token = workers[w].token
      BY <1>3
    <2>2. /\ sent[k] = 0
          /\ \/ rows[k].status = "abandoned"
             \/ rows[k].status = "dispatching" /\ rows[k].token = workers[w].token
      BY <2>1 DEF OnceFor
    <2>3. \/ rows'[k].status = "abandoned"
          \/ rows'[k].status = rows[k].status /\ rows'[k].token = rows[k].token
      BY <2>1 DEF RowOnce
    <2> QED BY <1>3, <2>1, <2>2, <2>3
  <1>4. \A v, w \in Workers : Sends(v, k)' /\ Sends(w, k)' => v = w
    BY DEF OnceFor
  <1>5. \A w \in Workers : Retracts(w, k)' => sent'[k] = 0
    BY DEF OnceFor
  <1> QED BY <1>1, <1>2, <1>3, <1>4, <1>5 DEF OnceFor

\* Every step of prompt workers keeps the attempts on a message single.
THEOREM OnceStep ==
    TypeOK /\ TypeOK' /\ DeliveryInv /\ OnceInv /\ [PromptNext]_vars => OnceInv'
  <1> SUFFICES ASSUME TypeOK, TypeOK', DeliveryInv, OnceInv, [PromptNext]_vars, NEW k \in Keys
               PROVE  /\ reports'[k] = 0 => rows'[k] = NoRow
                      /\ reports'[k] <= 1 => OnceFor(k)'
    BY DEF OnceInv
  <1> USE ConstantsAssumption
  <1>t. /\ rows \in Table /\ clock \in Nat /\ sent \in [Keys -> Nat] /\ reports \in [Keys -> Nat]
        /\ workers \in [Workers -> Job \cup {Idle}]
        /\ rows[k] \in Row \cup {NoRow} /\ rows'[k] \in Row \cup {NoRow}
    BY DEF TypeOK, Table
  <1>i. OwnTokens /\ KnowsItems
    BY DEF DeliveryInv
  <1>j. \A w \in Workers : workers[w].pc # "idle" <=> workers[w] # Idle
    BY <1>t, Distinct
  <1>n. [Next]_vars
    BY DEF PromptNext
  <1>o. (reports[k] = 0 => rows[k] = NoRow) /\ (reports[k] <= 1 => OnceFor(k))
    BY DEF OnceInv
  <1>r. (rows[k].status = "none" <=> rows[k] = NoRow) /\ (rows'[k].status = "none" <=> rows'[k] = NoRow)
    BY <1>t, Distinct
  <1>1. ASSUME NEW j \in Keys, NEW class \in Classes, NEW r \in Routes, Record(j, class, r)
        PROVE  /\ reports'[k] = 0 => rows'[k] = NoRow
               /\ reports'[k] <= 1 => OnceFor(k)'
    <2>w. workers' = workers /\ clock' = clock /\ reports' = [reports EXCEPT ![j] = @ + 1]
      BY <1>1 DEF Record
    <2>v. \A w \in Workers : Sends(w, k)' = Sends(w, k)
      BY <2>w DEF Sends
    <2>s. PICK n \in CASE class = "delivery_unknown" -> {0, 1}
                       [] class = "delivery_partial" -> {1}
                       [] OTHER                      -> {0} :
            sent' = [sent EXCEPT ![j] = @ + n]
      BY <1>1 DEF Record
    <2>1. CASE j # k
      <3>1. rows'[k] = rows[k] /\ sent'[k] = sent[k] /\ reports'[k] = reports[k]
        BY <2>1, <2>w, <2>s, <1>1, <1>t DEF Record, Table
      <3>2. \A w \in Workers : Retracts(w, k)' => Retracts(w, k)
        BY <3>1, <2>w DEF Retracts, Owned
      <3>3. OnceFor(k) => OnceFor(k)'
        BY <3>1, <3>2, <2>v, <2>w DEF OnceFor
      <3> QED BY <3>1, <3>3, <1>o
    <2>2. CASE j = k
      <3>1. reports'[k] = reports[k] + 1
        BY <2>2, <2>w, <1>t
      <3>3. ASSUME reports'[k] <= 1 PROVE OnceFor(k)'
        <4>1. reports[k] = 0 /\ rows[k] = NoRow /\ OnceFor(k)
          BY <3>1, <3>3, <1>o, <1>t
        <4>2. sent[k] = 0 /\ \A w \in Workers : ~ Sends(w, k)
          BY <4>1 DEF OnceFor, NoRow
        <4>3. rows'[k] = Inserted(class, r)
          BY <4>1, <2>2, <1>1, <1>t DEF Record, Table
        <4>4. /\ rows'[k].status \in {"pending", "quarantined"}
              /\ rows'[k].status = "pending" => class \in Recoverable
          BY <4>3, <1>t, InsertedRow
        <4>5. sent'[k] = n /\ n \in {0, 1} /\ (class \in Recoverable => n = 0)
          <5>1. n \in {0, 1} /\ (class \in Recoverable => n = 0)
            BY <2>s DEF Recoverable
          <5>2. sent'[k] = sent[k] + n
            BY <2>2, <2>s, <1>t
          <5> QED BY <4>2, <5>1, <5>2
        <4>6. \A w \in Workers : ~ Retracts(w, k)'
          BY <4>4 DEF Retracts, Owned
        <4> QED BY <4>2, <4>4, <4>5, <4>6, <2>v DEF OnceFor
      <3> QED BY <3>1, <3>3, <1>t
    <2> QED BY <2>1, <2>2
  <1>2. ASSUME \A j \in Keys, class \in Classes, r \in Routes : ~ Record(j, class, r)
        PROVE  reports' = reports
    BY <1>2, <1>n DEF Next, WorkerStep, Claim, Renew, DispatchStart, GenerationFails, Send,
          Finalize, ClaimError, Crash, ExpireDue, WakeRoute, ConfirmNotSent, Abandon, Tick, vars
  <1>p. ASSUME NEW w \in Workers, OnceFor(k), Sends(w, k)', rows'[k].status = "dispatching"
        PROVE  rows'[k].leaseEnd > clock'
    <2>1. CASE PromptNext
      BY <2>1, <1>p DEF PromptNext, Sends
    <2>2. CASE UNCHANGED vars
      BY <2>2, <1>p DEF vars, Sends, OnceFor
    <2> QED BY <2>1, <2>2
  <1>3. ASSUME NEW w \in Workers, DispatchStart(w)
        PROVE  /\ rows[k] = NoRow => rows'[k] = NoRow
               /\ OnceFor(k) => OnceFor(k)'
    <2> DEFINE mine == Owned(workers[w].token, {"processing"})
    <2>1. workers[w] \in Job /\ workers[w].pc = "generate"
      BY <1>3, <1>t, Distinct DEF DispatchStart
    <2>2. workers' = [workers EXCEPT ![w] = [workers[w] EXCEPT !.pc = "send", !.items = mine]]
      BY <1>3, <1>t DEF DispatchStart
    <2>3. /\ workers'[w].pc = "send" /\ workers'[w].token = workers[w].token
          /\ workers'[w].items = mine
          /\ \A v \in Workers \ {w} : workers'[v] = workers[v]
      <3> HIDE DEF mine
      <3> QED BY <2>1, <2>2, <1>t DEF Job
    <2>4. sent' = sent /\ clock' = clock
      BY <1>3 DEF DispatchStart
    <2>5. CASE k \notin mine
      <3>1. rows'[k] = rows[k]
        BY <2>5, <1>3 DEF DispatchStart
      <3>2. \A v \in Workers : Sends(v, k)' => Sends(v, k) /\ workers'[v].token = workers[v].token
        <4> HIDE DEF mine
        <4> QED BY <2>3, <2>5 DEF Sends
      <3>3. \A v \in Workers : Retracts(v, k)' => Retracts(v, k)
        <4> HIDE DEF mine
        <4> QED BY <2>3, <3>1 DEF Retracts, Owned
      <3>4. RowOnce(k)
        BY <3>1 DEF RowOnce
      <3> QED BY <3>1, <3>2, <3>3, <3>4, <2>4, <1>p, OnceKept
    <2>6. CASE k \in mine
      <3>1. rows[k] \in Row /\ rows[k].status = "processing" /\ rows[k].token = workers[w].token
        BY <2>6, <1>t, OwnedRow DEF Active, Owned
      <3>2. rows'[k] = [rows[k] EXCEPT !.status = "dispatching", !.leaseEnd = clock + Lease]
        BY <2>6, <1>3 DEF DispatchStart
      <3>3. rows'[k] \in Row /\ rows'[k].status = "dispatching" /\ rows'[k].token = workers[w].token
        BY <3>1, <3>2, <1>t, Distinct DEF Row
      <3> HIDE DEF mine
      <3>4. ASSUME OnceFor(k) PROVE OnceFor(k)'
        <4>1. sent[k] = 0 /\ \A v \in Workers : ~ Sends(v, k)
          BY <3>1, <3>4 DEF OnceFor
        <4>2. \A v \in Workers : Sends(v, k)' => v = w
          BY <4>1, <2>3 DEF Sends
        <4>3. \A v \in Workers : ~ Retracts(v, k)'
          <5> SUFFICES ASSUME NEW v \in Workers, Retracts(v, k)' PROVE FALSE
            OBVIOUS
          <5>1. workers'[v].pc = "report" /\ workers'[v].token = workers[w].token
            BY <3>3 DEF Retracts, Owned
          <5>2. v # w /\ workers[v] = workers'[v]
            BY <5>1, <2>3
          <5>3. workers[v] # Idle /\ workers[w] # Idle
            BY <5>1, <5>2, <2>1, <1>j
          <5> QED BY <5>1, <5>2, <5>3, <1>i DEF OwnTokens
        <4>4. \A v \in Workers : Sends(v, k)' => rows'[k].leaseEnd > clock'
          BY <3>3, <3>4, <1>p
        <4> QED BY <4>1, <4>2, <4>3, <4>4, <2>3, <2>4, <3>3 DEF OnceFor
      <3> QED BY <3>1, <3>3, <3>4, Distinct
    <2> QED BY <2>5, <2>6
  <1>4. ASSUME NEW w \in Workers, Send(w)
        PROVE  /\ rows[k] = NoRow => rows'[k] = NoRow
               /\ OnceFor(k) => OnceFor(k)'
    <2>1. PICK outcome \in Outcomes, arrived \in BOOLEAN :
            /\ outcome = "confirmed_not_sent" => ~ arrived
            /\ sent' = [i \in Keys |-> IF arrived /\ i \in workers[w].items
                                       THEN sent[i] + 1 ELSE sent[i]]
            /\ workers' = [workers EXCEPT ![w].pc = "report", ![w].outcome = outcome]
      BY <1>4 DEF Send
    <2>2. workers[w] \in Job /\ workers[w].pc = "send" /\ workers[w] # Idle
      BY <1>4, <1>t, <1>j, Distinct DEF Send
    <2>3. workers' = [workers EXCEPT ![w] = [workers[w] EXCEPT !.pc = "report", !.outcome = outcome]]
      BY <2>1, <1>t
    <2>4. /\ workers'[w].pc = "report" /\ workers'[w].outcome = outcome
          /\ workers'[w].token = workers[w].token
          /\ \A v \in Workers \ {w} : workers'[v] = workers[v]
      BY <2>2, <2>3, <1>t DEF Job
    <2>5. rows' = rows /\ clock' = clock
      BY <1>4 DEF Send
    <2>6. \A v \in Workers : Sends(v, k)' => v # w /\ Sends(v, k) /\ workers'[v].token = workers[v].token
      BY <2>4 DEF Sends
    <2>7. RowOnce(k)
      BY <2>5 DEF RowOnce
    <2>8. ASSUME NEW v \in Workers, v # w, Retracts(v, k)' PROVE Retracts(v, k)
      BY <2>4, <2>5, <2>8 DEF Retracts, Owned
    <2>9. CASE k \notin workers[w].items
      <3>1. sent'[k] = sent[k]
        BY <2>1, <2>9
      <3>2. ~ Retracts(w, k)'
        <4> SUFFICES ASSUME Retracts(w, k)' PROVE FALSE
          OBVIOUS
        <4>1. rows[k].status = "dispatching" /\ rows[k].token = workers[w].token
          BY <2>4, <2>5 DEF Retracts, Owned
        <4> QED BY <4>1, <2>2, <2>9, <1>i DEF KnowsItems
      <3>3. \A v \in Workers : Retracts(v, k)' => Retracts(v, k)
        BY <2>8, <3>2
      <3> QED BY <3>1, <3>3, <2>5, <2>6, <2>7, <1>p, OnceKept
    <2>10. CASE k \in workers[w].items
      <3> SUFFICES ASSUME OnceFor(k) PROVE OnceFor(k)'
        BY <2>5
      <3>1. Sends(w, k)
        BY <2>2, <2>10 DEF Sends
      <3>2. /\ sent[k] = 0
            /\ \/ rows[k].status = "abandoned"
               \/ rows[k].status = "dispatching" /\ rows[k].token = workers[w].token
        BY <3>1 DEF OnceFor
      <3>3. \A v \in Workers : ~ Sends(v, k)'
        BY <3>1, <2>6 DEF OnceFor
      <3>4. sent'[k] = (IF arrived THEN 1 ELSE 0)
        BY <2>1, <2>10, <3>2, <1>t
      <3>5. ASSUME NEW v \in Workers, Retracts(v, k)' PROVE sent'[k] = 0
        <4>1. CASE v = w
          BY <4>1, <3>4, <3>5, <2>1, <2>4 DEF Retracts
        <4>2. CASE v # w
          <5>1. /\ workers[v].pc = "report" /\ rows[k].status = "dispatching"
                /\ rows[k].token = workers[v].token
            BY <4>2, <3>5, <2>8 DEF Retracts, Owned
          <5> QED BY <4>2, <5>1, <3>2, <2>2, <1>i, <1>j DEF OwnTokens
        <4> QED BY <4>1, <4>2
      <3>6. rows'[k].status \notin {"none", "pending", "processing"}
        BY <3>2, <2>5
      <3> QED BY <3>3, <3>4, <3>5, <3>6 DEF OnceFor
    <2> QED BY <2>5, <2>9, <2>10
  <1>5. ASSUME \A j \in Keys, class \in Classes, r \in Routes : ~ Record(j, class, r),
               \A w \in Workers : ~ DispatchStart(w) /\ ~ Send(w),
               OnceFor(k)
        PROVE  RowOnce(k) /\ OnceFor(k)'
    <2>1. RowOnce(k)
      BY <1>5, <1>n, RowsOnce
    <2>2. sent' = sent
      BY <1>5, <1>n DEF Next, WorkerStep, Claim, Renew, GenerationFails, Finalize, ClaimError,
                Crash, ExpireDue, WakeRoute, ConfirmNotSent, Abandon, Tick, vars, chat
    <2>3. ASSUME NEW w \in Workers, NEW asked, Claim(w, asked) PROVE OnceFor(k)'
      <3> DEFINE Q == Maintained(clock)
      <3>1. PICK anchor \in Oldest(Q, Anchors(Q, asked)), tok \in Tokens \ InUse :
              /\ rows' = [j \in Keys |-> IF j \in Batch(Q, anchor) THEN Claimed(Q[j], tok)
                                        ELSE Q[j]]
              /\ workers' = [workers EXCEPT ![w] =
                      [pc |-> "generate", token |-> tok, items |-> {},
                       outcome |-> "delivery_unknown"]]
        BY <2>3 DEF Claim
      <3>2. /\ workers'[w].pc = "generate"
            /\ \A v \in Workers \ {w} : workers'[v] = workers[v]
        BY <3>1, <1>t
      <3>3. rows'[k].status = "dispatching" => rows'[k] = rows[k]
        <4>1. CASE k \in Batch(Q, anchor)
          <5>1. Q[k].status = "pending"
            BY <4>1, BatchReady DEF Ready
          <5>2. rows'[k] = Claimed(Q[k], tok) /\ Q[k] \in Row
            BY <3>1, <4>1, <5>1, <1>t, MaintainedRow, Distinct
          <5>3. rows'[k].status = "processing"
            BY <5>2, <1>t, ClaimedRow
          <5> QED BY <5>3
        <4>2. CASE k \notin Batch(Q, anchor)
          <5>1. rows'[k] = Q[k]
            BY <3>1, <4>2
          <5> QED BY <5>1, <1>t, MaintainedRow DEF Active
        <4> QED BY <4>1, <4>2
      <3> HIDE DEF Q
      <3>4. \A v \in Workers : Retracts(v, k)' => Retracts(v, k)
        BY <3>2, <3>3 DEF Retracts, Owned
      <3>5. \A v \in Workers : Sends(v, k)' => Sends(v, k) /\ workers'[v].token = workers[v].token
        BY <3>2 DEF Sends
      <3> QED BY <1>5, <2>1, <2>2, <3>4, <3>5, <1>p, OnceKept
    <2>4. CASE \A w \in Workers : \A asked : ~ Claim(w, asked)
      <3>1. WorkKept(k)
        BY <1>5, <1>n, <2>4, WorkKeptBySteps
      <3>2. \A v \in Workers : workers'[v] \in {workers[v], Idle}
        BY <1>5, <1>n, <2>4, WorkersKept
      <3>3. \A v \in Workers : Retracts(v, k)' => Retracts(v, k)
        BY <3>1, <3>2 DEF Retracts, Owned, WorkKept, Active, Idle
      <3>4. \A v \in Workers : Sends(v, k)' => Sends(v, k) /\ workers'[v].token = workers[v].token
        BY <3>2 DEF Sends, Idle
      <3> QED BY <1>5, <2>1, <2>2, <3>3, <3>4, <1>p, OnceKept
    <2> QED BY <2>1, <2>3, <2>4
  <1> QED BY <1>1, <1>2, <1>3, <1>4, <1>5, <1>o, <1>r, <1>t DEF RowOnce

\* Behaviours of prompt workers are behaviours of workers.
THEOREM PromptDelivers == PromptSpec => [](TypeOK /\ DeliveryInv)
  <1>1. TypeOK /\ DeliveryInv /\ [PromptNext]_vars => (TypeOK /\ DeliveryInv)'
    BY TypeStep, DeliveryStep DEF PromptNext
  <1> QED BY TypeInit, DeliveryInit, <1>1, PTL DEF PromptSpec

\* A message that is reported once is answered at most once, by a handler whose delivery
\* is unknown, by one worker or by another, if each worker starts its send while its
\* lease lives (mark_dispatch_started, "immediately before the first external send").
THEOREM PromptAnswers == PromptSpec => []AnsweredOnce
  <1>1. (TypeOK /\ DeliveryInv) /\ (TypeOK /\ DeliveryInv)' /\ OnceInv /\ [PromptNext]_vars => OnceInv'
    BY OnceStep
  <1>2. OnceInv => AnsweredOnce
    BY DEF OnceInv, OnceFor, AnsweredOnce
  <1> QED BY PromptDelivers, OnceInit, <1>1, <1>2, PTL DEF PromptSpec

\* The same of the scenes that are model-checked, two of which have prompt workers.
THEOREM ScenesAnswerOnce == ScenesSpec => []PromptAnsweredOnce
  <1> DEFINE Inv == TypeOK /\ DeliveryInv /\ (scene # "turns" => OnceInv)
  <1>1. ScenesInit => Inv
    BY TypeInit, DeliveryInit, OnceInit DEF ScenesInit
  <1>2. Inv /\ [ScenesNext]_<<vars, scene>> => Inv'
    <2> SUFFICES ASSUME Inv, [ScenesNext]_<<vars, scene>> PROVE Inv'
      OBVIOUS
    <2>1. scene' = scene /\ [Next]_vars /\ (scene # "turns" => [PromptNext]_vars)
      BY DEF ScenesNext, PromptNext
    <2>2. TypeOK' /\ DeliveryInv'
      BY <2>1, TypeStep, DeliveryStep
    <2> QED BY <2>1, <2>2, OnceStep
  <1>3. Inv => PromptAnsweredOnce
    BY DEF OnceInv, OnceFor, AnsweredOnce, PromptAnsweredOnce
  <1> QED BY <1>1, <1>2, <1>3, PTL DEF ScenesSpec
=============================================================================
