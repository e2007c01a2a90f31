------------------------- MODULE QzonePublishProofs -------------------------
(***************************************************************************)
(* Proofs about QzonePublish, for any number of operations, callers and    *)
(* feeds, any limits, leases and clock bound: that it is well typed and    *)
(* writes once, and then that it implements PublishPromise and counts each *)
(* success once.                                                           *)
(***************************************************************************)
EXTENDS QzonePublish, TLAPS, FiniteSetTheorems

\* The month of an instant is one of the modelled months.
LEMMA PeriodType == \A t \in Times : PeriodOf(t) \in Periods
  <1> SUFFICES ASSUME NEW t \in Times PROVE PeriodOf(t) \in Periods
    OBVIOUS
  <1> DEFINE M == MonthLength
             q == t \div M
             Q == MaxTime \div M
  <1>1. M \in Nat \ {0} /\ MaxTime \in Nat /\ t \in Nat /\ t <= MaxTime
    BY ConstantsAssumption DEF Times
  <1>2. q \in Nat /\ Q \in Nat
    BY <1>1
  <1>3. q * M <= t /\ MaxTime < (Q + 1) * M
    BY <1>1
  <1>4. q <= Q
    <2> SUFFICES ASSUME Q + 1 <= q PROVE FALSE
      BY <1>2
    <2>1. \A a, b, m \in Nat : a <= b => a * m <= b * m
      OBVIOUS
    <2>2. (Q + 1) * M <= q * M
      BY <2>1, <1>1, <1>2
    <2> HIDE DEF q, Q
    <2> QED BY <2>2, <1>1, <1>2, <1>3
  <1> QED BY <1>2, <1>4 DEF PeriodOf, Periods
-----------------------------------------------------------------------------
\* A call was started early enough for its lease to lie within the clock's bound.
CallsInTime ==
    \A c \in Callers : callers[c] # Idle => callers[c].now + Lease <= MaxTime

TypeInv == TypeOK /\ CallsInTime

\* What a call past its reservation, a request or a reconciliation refers to exists,
\* and a historical record is a success.
Coherent ==
    /\ \A c \in Callers : callers[c].pc \in {"claim", "post", "await", "finalize"}
                              => ops[callers[c].op] # NoRow
    /\ \A o \in Ops : requests[o] # "none" => ops[o] # NoRow
    /\ recon # None => feeds[recon.feed] # None
    /\ \A i \in HistIds : ops[i].status \in {"none", "succeeded"}

Ledger == [Ids -> Row \cup {NoRow}]

\* Marking stale dispatches keeps the ledger well typed and leaves absent rows absent.
LEMMA StaleType ==
    ASSUME NEW L \in Ledger, NEW t
    PROVE  /\ MarkStale(L, t) \in Ledger
           /\ \A i \in Ids : MarkStale(L, t)[i] = NoRow <=> L[i] = NoRow
  <1>1. \A r \in Row : [r EXCEPT !.status = "unknown"] \in Row
    BY DEF Row, Statuses
  <1>2. \A r \in Row : r # NoRow /\ [r EXCEPT !.status = "unknown"] # NoRow
    BY DEF Row, Statuses, NoRow
  <1>3. ASSUME NEW i \in Ids, Overdue(L[i], t) PROVE L[i] \in Row
    BY <1>3 DEF Ledger, Overdue, NoRow
  <1> QED BY <1>1, <1>2, <1>3 DEF Ledger, MarkStale

\* Absent rows and idle calls are never mistaken for present ones.
LEMMA Distinct ==
    /\ NoRow \notin Row
    /\ Idle \notin Call
    /\ \A r \in Row \cup {NoRow} : r.status # "none" <=> r \in Row
    /\ \A d \in Call \cup {Idle} : d.pc # "idle" <=> d \in Call
  BY DEF Row, NoRow, Idle, Call, Statuses

\* The empty ledger is well typed.
THEOREM TypeInit == Init => TypeInv
  <1> SUFFICES ASSUME Init PROVE TypeInv
    OBVIOUS
  <1>1. 1 \in Times /\ 0 \in Times
    BY ConstantsAssumption DEF Times
  <1>2. TypeOK
    BY <1>1 DEF Init, TypeOK
  <1>3. CallsInTime
    BY DEF Init, CallsInTime
  <1> QED BY <1>2, <1>3 DEF TypeInv

\* The projection of a success stays well typed.
LEMMA ProjectType ==
    ASSUME TypeOK, NEW p \in Periods, NEW at \in Times, Project(p, at)
    PROVE  /\ usage' \in [Periods -> Nat]
           /\ state' \in [period : Periods \cup {NoPeriod}, count : Nat, lastAt : Times]
  <1>1. usage \in [Periods -> Nat] /\ state \in [period : Periods \cup {NoPeriod}, count : Nat, lastAt : Times]
    BY DEF TypeOK
  <1>2. usage' \in [Periods -> Nat]
    BY <1>1 DEF Project
  <1> DEFINE base == IF state.period < p
                     THEN [state EXCEPT !.period = p, !.count = 0] ELSE state
  <1>3. base \in [period : Periods \cup {NoPeriod}, count : Nat, lastAt : Times]
    BY <1>1
  <1>4. state' = [base EXCEPT !.count  = IF base.period = p THEN @ + 1 ELSE @,
                              !.lastAt = IF at >= @ THEN at ELSE @]
    BY DEF Project
  <1> DEFINE n == IF base.period = p THEN base.count + 1 ELSE base.count
             a == IF at >= base.lastAt THEN at ELSE base.lastAt
  <1>5. state' = [base EXCEPT !.count = n, !.lastAt = a]
    BY <1>3, <1>4
  <1>6. n \in Nat /\ a \in Times
    <2> HIDE DEF base
    <2> QED BY <1>3
  <1> HIDE DEF base, n, a
  <1> QED BY <1>2, <1>3, <1>5, <1>6

\* A call that moves on keeps its instant, hence stays within the clock's bound.
LEMMA CallType ==
    ASSUME TypeInv, NEW c \in Callers, NEW new \in Call, callers[c] \in Call,
           new.now = callers[c].now, callers' = [callers EXCEPT ![c] = new]
    PROVE  callers' \in [Callers -> Call \cup {Idle}] /\ CallsInTime'
  <1>1. callers \in [Callers -> Call \cup {Idle}] /\ CallsInTime
    BY DEF TypeInv, TypeOK
  <1>2. callers[c].now + Lease <= MaxTime
    BY <1>1, Distinct DEF CallsInTime
  <1>3. \A d \in Callers : callers'[d] = IF d = c THEN new ELSE callers[d]
    BY <1>1
  <1> QED BY <1>1, <1>2, <1>3 DEF CallsInTime

\* Every step keeps the types and the instants of the calls.
THEOREM TypeStep == TypeInv /\ Coherent /\ [Next]_vars => TypeInv'
  <1> SUFFICES ASSUME TypeInv, Coherent, [Next]_vars PROVE TypeInv'
    OBVIOUS
  <1> USE ConstantsAssumption
  <1>t. TypeOK /\ CallsInTime
    BY DEF TypeInv
  <1>z. 0 \in Times /\ clock \in Times /\ ops \in Ledger /\ callers \in [Callers -> Call \cup {Idle}]
    BY <1>t DEF TypeOK, Ledger, Times
  <1>1. ASSUME NEW c \in Callers, NEW o \in Ops, NEW payload \in Offers[o], NEW force \in Forces,
               Start(c, o, payload, force)
        PROVE  TypeInv'
    <2>1. [pc |-> "reserve", op |-> o, payload |-> payload, now |-> clock,
           force |-> force, fence |-> 0, result |-> NoAnswer] \in Call
      BY <1>1, <1>z DEF Call, Result, NoAnswer
    <2> QED BY <2>1, <1>1, <1>t DEF Start, TypeInv, TypeOK, CallsInTime, ledger, remote, Idle
  <1>2. ASSUME NEW c \in Callers, ReserveRefused(c) PROVE TypeInv'
    <2>1. ops' \in Ledger
      BY <1>2, <1>z, StaleType DEF ReserveRefused
    <2> QED BY <2>1, <1>2, <1>t DEF ReserveRefused, Return, TypeInv, TypeOK, CallsInTime, remote, Ledger
  <1>3. ASSUME NEW c \in Callers, ReserveNew(c) PROVE TypeInv'
    <2> DEFINE call == callers[c]
               L == MarkStale(ops, call.now)
               row == [status |-> "reserved", payload |-> call.payload,
                       period |-> PeriodOf(call.now), fence |-> 1, reservedAt |-> call.now,
                       startedAt |-> 0, lease |-> call.now + Lease, remote |-> None]
    <2>1. call \in Call /\ call.now + Lease <= MaxTime
      BY <1>3, <1>t, <1>z, Distinct DEF ReserveNew, CallsInTime
    <2>2. call.now + Lease \in Times /\ PeriodOf(call.now) \in Periods
      BY <2>1, PeriodType DEF Times, Call
    <2>3. row \in Row
      BY <2>1, <2>2, <1>z DEF Row, Statuses, Call, Payload, RowPayload
    <2>4. ops' \in Ledger
      BY <1>3, <1>z, <2>1, <2>3, StaleType DEF ReserveNew, Call, Ids, Ledger
    <2>5. [call EXCEPT !.pc = "claim", !.fence = 1] \in Call
      BY <2>1 DEF Call
    <2>6. callers' = [callers EXCEPT ![c] = [call EXCEPT !.pc = "claim", !.fence = 1]]
      BY <1>3, <1>z DEF ReserveNew
    <2>7. callers' \in [Callers -> Call \cup {Idle}] /\ CallsInTime'
      BY <2>1, <2>5, <2>6, <1>t, <1>z DEF CallsInTime, Call
    <2> QED BY <2>4, <2>7, <1>3, <1>t DEF ReserveNew, TypeInv, TypeOK, remote, Ledger
  <1>4. ASSUME NEW c \in Callers, ReserveReclaim(c) PROVE TypeInv'
    <2> DEFINE call == callers[c]
               L == MarkStale(ops, call.now)
               row == L[call.op]
               new == [row EXCEPT !.fence = row.fence + 1, !.reservedAt = call.now,
                                  !.lease = call.now + Lease]
    <2>1. call \in Call /\ call.now + Lease <= MaxTime
      BY <1>4, <1>t, <1>z, Distinct DEF ReserveReclaim, CallsInTime
    <2>2. call.now + Lease \in Times /\ call.op \in Ids
      BY <2>1 DEF Times, Call, Ids
    <2>3. L \in Ledger /\ row \in Row
      BY <1>4, <1>z, <2>2, StaleType DEF ReserveReclaim, Ledger
    <2> HIDE DEF L
    <2>a. row.fence + 1 \in Nat \ {0}
      BY <2>3 DEF Row
    <2> DEFINE fence == row.fence + 1
    <2>4. new \in Row
      <3> HIDE DEF fence
      <3>1. fence \in Nat \ {0}
        BY <2>a DEF fence
      <3>2. new = [row EXCEPT !.fence = fence, !.reservedAt = call.now, !.lease = call.now + Lease]
        BY DEF fence
      <3> QED BY <2>1, <2>2, <2>3, <3>1, <3>2 DEF Row, Call
    <2>5. ops' = [L EXCEPT ![call.op] = new]
      BY <1>4, <2>2, <2>3 DEF ReserveReclaim, L, Ledger
    <2>6. callers' = [callers EXCEPT ![c] = [call EXCEPT !.pc = "claim", !.fence = row.fence + 1]]
      BY <1>4, <1>z DEF ReserveReclaim, L
    <2>7. [call EXCEPT !.pc = "claim", !.fence = row.fence + 1] \in Call
      BY <2>1, <2>a DEF Call
    <2>8. ops' \in Ledger
      BY <2>2, <2>3, <2>4, <2>5 DEF Ledger
    <2>9. callers' \in [Callers -> Call \cup {Idle}] /\ CallsInTime'
      BY <2>1, <2>6, <2>7, CallType DEF Call
    <2> QED BY <2>8, <2>9, <1>4, <1>t DEF ReserveReclaim, TypeInv, TypeOK, remote, Ledger
  <1>5. ASSUME NEW c \in Callers, Claim(c) PROVE TypeInv'
    <2> DEFINE call == callers[c]
               new == [ops[call.op] EXCEPT !.status = "dispatching", !.startedAt = call.now,
                                           !.lease = call.now + Lease]
    <2>1. call \in Call /\ call.now + Lease <= MaxTime
      BY <1>5, <1>t, <1>z, Distinct DEF Claim, CallsInTime
    <2>2. call.now + Lease \in Times /\ call.op \in Ids
      BY <2>1 DEF Times, Call, Ids
    <2>3. ops[call.op] \in Row
      BY <1>5, <1>z, <2>2 DEF Claim, Claimable, Ledger, NoRow
    <2>4. new \in Row
      BY <2>1, <2>2, <2>3 DEF Row, Call, Statuses
    <2>5. ops' = [ops EXCEPT ![call.op] = new]
      BY <1>5, <2>2, <1>z DEF Claim, Ledger
    <2>6. callers' = [callers EXCEPT ![c] = [call EXCEPT !.pc = "post"]]
      BY <1>5, <1>z DEF Claim, Goto
    <2>7. callers' \in [Callers -> Call \cup {Idle}] /\ CallsInTime'
      BY <2>1, <2>6, <1>t, <1>z DEF CallsInTime, Call
    <2> QED BY <2>2, <2>4, <2>5, <2>7, <1>5, <1>t DEF Claim, TypeInv, TypeOK, remote
  <1>6. ASSUME NEW c \in Callers, ClaimLost(c) \/ FinalizeLate(c) \/ Cancel(c) PROVE TypeInv'
    BY <1>6, <1>t DEF ClaimLost, FinalizeLate, Cancel, Return, TypeInv, TypeOK, CallsInTime, ledger, remote
  <1>7. ASSUME NEW c \in Callers, Post(c) PROVE TypeInv'
    <2>1. callers[c] \in Call
      BY <1>7, <1>z, Distinct DEF Post
    <2>2. callers' = [callers EXCEPT ![c] = [callers[c] EXCEPT !.pc = "await"]]
      BY <1>7, <1>z DEF Post, Goto
    <2>3. callers' \in [Callers -> Call \cup {Idle}] /\ CallsInTime'
      <3>1. /\ [callers[c] EXCEPT !.pc = "await"] \in Call
            /\ [callers[c] EXCEPT !.pc = "await"].now = callers[c].now
        BY <2>1 DEF Call
      <3> QED BY <2>1, <2>2, <3>1, CallType
    <2>4. calls' \in [Ops -> Nat] /\ requests' \in [Ops -> {"none", "flying", "landed", "lost"}]
      <3>1. callers[c].op \in Ops
        BY <2>1 DEF Call
      <3> QED BY <3>1, <1>7, <1>t DEF Post, TypeOK
    <2> QED BY <2>3, <2>4, <1>7, <1>t DEF Post, TypeInv, TypeOK, ledger
  <1>8. ASSUME NEW c \in Callers, Answer(c) PROVE TypeInv'
    <2>1. callers[c] \in Call
      BY <1>8, <1>z, Distinct DEF Answer
    <2>2. PICK r \in Result :
            callers' = [callers EXCEPT ![c] = [callers[c] EXCEPT !.pc = "finalize", !.result = r]]
      BY <1>8, <1>z DEF Answer
    <2>3. callers' \in [Callers -> Call \cup {Idle}] /\ CallsInTime'
      <3>1. /\ [callers[c] EXCEPT !.pc = "finalize", !.result = r] \in Call
            /\ [callers[c] EXCEPT !.pc = "finalize", !.result = r].now = callers[c].now
        BY <2>1 DEF Call
      <3> QED BY <2>1, <2>2, <3>1, CallType
    <2> QED BY <2>3, <1>8, <1>t DEF Answer, TypeInv, TypeOK, ledger, remote
  <1>9. ASSUME NEW c \in Callers, Finalize(c) PROVE TypeInv'
    <2> DEFINE call == callers[c]
               row  == ops[call.op]
               r    == call.result
               clash == r.status = "succeeded" /\ r.remote # None
                        /\ ~ RemoteFree(ops, call.op, row.payload.bot, r.remote)
               kept == IF clash THEN NoAnswer ELSE r
               new == [row EXCEPT !.status = kept.status, !.remote = kept.remote, !.lease = 0]
               at  == IF kept.at > 0 THEN kept.at ELSE call.now
    <2>1. call \in Call
      BY <1>9, <1>z, Distinct DEF Finalize
    <2>2. row \in Row /\ call.op \in Ids
      BY <1>9, <1>z, <2>1 DEF Finalize, Owns, Ledger, NoRow, Call, Ids
    <2>3. kept \in Result
      BY <2>1, <1>z DEF Call, Result, NoAnswer
    <2>4. new \in Row /\ at \in Times /\ row.period \in Periods
      <3> HIDE DEF kept
      <3> QED BY <2>1, <2>2, <2>3, <1>z DEF Row, Result, Call, Statuses
    <2>5. /\ ops' = [ops EXCEPT ![call.op] = new]
          /\ callers' = [callers EXCEPT ![c] = Idle]
          /\ IF kept.status = "succeeded" THEN Project(row.period, at) ELSE UNCHANGED <<usage, state>>
      BY <1>9, <1>z, <2>2 DEF Finalize, Return, Ledger
    <2>6. /\ usage' \in [Periods -> Nat]
          /\ state' \in [period : Periods \cup {NoPeriod}, count : Nat, lastAt : Times]
      <3> HIDE DEF kept, at, row
      <3>1. CASE kept.status = "succeeded"
        BY <3>1, <2>4, <2>5, <1>t, ProjectType
      <3>2. CASE kept.status # "succeeded"
        BY <3>2, <2>5, <1>t DEF TypeOK
      <3> QED BY <3>1, <3>2
    <2>7. ops' \in Ledger
      <3> HIDE DEF new
      <3> QED BY <2>2, <2>4, <2>5, <1>z DEF Ledger
    <2>8. callers' \in [Callers -> Call \cup {Idle}] /\ CallsInTime'
      BY <2>5, <1>t, <1>z DEF CallsInTime
    <2> QED BY <2>6, <2>7, <2>8, <1>9, <1>t DEF Finalize, TypeInv, TypeOK, remote, Ledger
  <1>10. ASSUME QuotaPoll PROVE TypeInv'
    <2>1. ops' \in Ledger
      BY <1>10, <1>z, StaleType DEF QuotaPoll
    <2> QED BY <2>1, <1>10, <1>t DEF QuotaPoll, TypeInv, TypeOK, CallsInTime, remote, Ledger
  <1>11. ASSUME NEW o \in Ops, ResolveAbsent(o) PROVE TypeInv'
    <2>1. ops[o] \in Row /\ o \in Ids
      BY <1>11, <1>z DEF ResolveAbsent, Ledger, NoRow, Ids
    <2>2. [ops[o] EXCEPT !.status = "definite_failure", !.lease = 0] \in Row
      BY <2>1, <1>z DEF Row, Statuses
    <2>3. ops' = [ops EXCEPT ![o] = [ops[o] EXCEPT !.status = "definite_failure", !.lease = 0]]
      BY <1>11, <2>1, <1>z DEF ResolveAbsent, Ledger
    <2> QED BY <2>1, <2>2, <2>3, <1>11, <1>t DEF ResolveAbsent, TypeInv, TypeOK, CallsInTime, remote
  <1>12. ASSUME NEW o \in Ops, ReconcileRead(o) PROVE TypeInv'
    BY <1>12, <1>t DEF ReconcileRead, TypeInv, TypeOK, CallsInTime, ledger, remote
  <1>13. ASSUME ReconcileCommit PROVE TypeInv'
    <2>1. recon.op \in Ops /\ recon.op \in Ids /\ recon.feed \in FeedIds
      BY <1>13, <1>t DEF ReconcileCommit, TypeOK, Ids
    <2> DEFINE row == ops[recon.op]
               new == [row EXCEPT !.status = "succeeded", !.remote = recon.feed, !.lease = 0]
    <2>2. row \in Row
      BY <1>13, <1>z, <2>1 DEF ReconcileCommit, Ledger, NoRow
    <2>3. new \in Row /\ row.period \in Periods
      BY <2>1, <2>2, <1>z DEF Row, Statuses
    <2>4. ops' = [ops EXCEPT ![recon.op] = new]
      BY <1>13, <2>1, <1>z DEF ReconcileCommit, Ledger
    <2>5. feeds[recon.feed].at \in Times
      BY <2>1, <1>13, <1>t DEF ReconcileCommit, Coherent, TypeOK, Feed
    <2>6. /\ usage' \in [Periods -> Nat]
          /\ state' \in [period : Periods \cup {NoPeriod}, count : Nat, lastAt : Times]
      BY <2>3, <2>5, <1>13, <1>t, ProjectType DEF ReconcileCommit
    <2> QED BY <2>1, <2>3, <2>4, <2>6, <1>13, <1>t DEF ReconcileCommit, TypeInv, TypeOK, CallsInTime, remote
  <1>14. ASSUME ReconcileDropped PROVE TypeInv'
    BY <1>14, <1>t DEF ReconcileDropped, TypeInv, TypeOK, CallsInTime, ledger, remote
  <1>15. ASSUME NEW f \in Recordable, RecordHistorical(f) PROVE TypeInv'
    <2> DEFINE feed == feeds[f]
               new == [status |-> "succeeded",
                       payload |-> [feed.payload EXCEPT !.kind = "post", !.source = HistId(f)],
                       period |-> PeriodOf(feed.at), fence |-> 1, reservedAt |-> clock,
                       startedAt |-> clock, lease |-> 0, remote |-> f]
    <2>1. f \in FeedIds /\ HistId(f) \in Ids /\ HistId(f) \in HistIds
      BY DEF Ids, HistIds
    <2>2. feed \in Feed
      BY <1>15, <1>t, <2>1 DEF RecordHistorical, TypeOK
    <2>3. PeriodOf(feed.at) \in Periods /\ feed.at \in Times
      BY <2>2, PeriodType DEF Feed
    <2>4. new.payload \in RowPayload
      BY <2>1, <2>2 DEF Feed, RowPayload, Kinds
    <2>5. new \in Row
      BY <2>1, <2>3, <2>4, <1>z DEF Row, Statuses
    <2>6. /\ usage' \in [Periods -> Nat]
          /\ state' \in [period : Periods \cup {NoPeriod}, count : Nat, lastAt : Times]
      BY <2>3, <1>15, <1>t, ProjectType DEF RecordHistorical
    <2>7. ops' = [ops EXCEPT ![HistId(f)] = new]
      BY <1>15 DEF RecordHistorical
    <2>8. ops' \in Ledger
      <3> HIDE DEF new
      <3> QED BY <2>1, <2>5, <2>7, <1>z DEF Ledger
    <2> QED BY <2>6, <2>8, <1>15, <1>t DEF RecordHistorical, TypeInv, TypeOK, CallsInTime, remote, Ledger
  <1>16. ASSUME NEW o \in Ops, Land(o) \/ Lose(o) PROVE TypeInv'
    <2>1. requests' \in [Ops -> {"none", "flying", "landed", "lost"}]
      BY <1>16, <1>t DEF Land, Lose, TypeOK
    <2>2. feeds' \in [FeedIds -> Feed \cup {None}]
      <3>1. CASE Land(o)
        <4>1. requests[o] # "none" /\ o \in Ids /\ o \in FeedIds
          BY <3>1 DEF Land, Ids, FeedIds
        <4>2. ops[o] \in Row
          BY <4>1, <1>z DEF Coherent, Ledger
        <4>3. [payload |-> ops[o].payload, at |-> clock] \in Feed
          BY <4>2, <1>z DEF Row, Feed
        <4> QED BY <3>1, <4>1, <4>3, <1>t DEF Land, TypeOK
      <3>2. CASE Lose(o)
        BY <3>2, <1>t DEF Lose, TypeOK
      <3> QED BY <1>16, <3>1, <3>2
    <2> QED BY <2>1, <2>2, <1>16, <1>t DEF Land, Lose, TypeInv, TypeOK, CallsInTime, ledger
  <1>17. ASSUME NEW f \in Manual, ManualPost(f) PROVE TypeInv'
    <2>1. f \in FeedIds
      BY DEF FeedIds
    <2>2. PICK payload \in Payload :
            feeds' = [feeds EXCEPT ![f] = [payload |-> payload, at |-> clock]]
      <3>1. PICK payload \in UNION {Offers[o] : o \in Ops} :
              feeds' = [feeds EXCEPT ![f] = [payload |-> payload, at |-> clock]]
        BY <1>17 DEF ManualPost
      <3>2. PICK o \in Ops : payload \in Offers[o]
        OBVIOUS
      <3>3. payload \in Payload
        BY <3>2, ConstantsAssumption
      <3> QED BY <3>1, <3>3
    <2>3. [payload |-> payload, at |-> clock] \in Feed
      BY <1>z DEF Feed, Payload, RowPayload
    <2> QED BY <2>1, <2>2, <2>3, <1>17, <1>t DEF ManualPost, TypeInv, TypeOK, CallsInTime, ledger
  <1>18. ASSUME Restart PROVE TypeInv'
    BY <1>18, <1>t DEF Restart, TypeInv, TypeOK, CallsInTime, ledger, remote
  <1>19. ASSUME Tick PROVE TypeInv'
    <2>1. clock' \in Times
      BY <1>19, <1>z DEF Tick, Times
    <2> QED BY <2>1, <1>19, <1>t DEF Tick, TypeInv, TypeOK, CallsInTime, ledger, remote
  <1>20. CASE UNCHANGED vars
    BY <1>20, <1>t DEF vars, ledger, remote, TypeInv, TypeOK, CallsInTime
  <1> QED
    BY <1>1, <1>2, <1>3, <1>4, <1>5, <1>6, <1>7, <1>8, <1>9, <1>10, <1>11, <1>12, <1>13,
       <1>14, <1>15, <1>16, <1>17, <1>18, <1>19, <1>20
       DEF Next, CallerStep, AdminStep, Environment
-----------------------------------------------------------------------------
\* Where a step may take the status of a row.
Moves(i, from) ==
    CASE from = "none"        -> {"none", IF i \in Ops THEN "reserved" ELSE "succeeded"}
      [] from = "reserved"    -> {"reserved", "dispatching"}
      [] from = "dispatching" -> {"dispatching", "unknown", "succeeded", "definite_failure"}
      [] from = "unknown"     -> {"unknown", "succeeded", "definite_failure"}
      [] OTHER                -> {from}

\* Marking stale dispatches only ever turns dispatching into unknown.
LEMMA StaleStatus ==
    ASSUME NEW L \in Ledger, NEW t, NEW i \in Ids
    PROVE  MarkStale(L, t)[i].status =
              IF Overdue(L[i], t) THEN "unknown" ELSE L[i].status
  <1>1. ASSUME Overdue(L[i], t) PROVE L[i] \in Row
    BY <1>1 DEF Ledger, Overdue, NoRow
  <1>2. \A r \in Row : [r EXCEPT !.status = "unknown"].status = "unknown"
    BY DEF Row
  <1> QED BY <1>1, <1>2 DEF MarkStale

\* No step takes a row's status elsewhere, and only the claim of a call that holds the
\* row's fence takes a reservation to its dispatch.
LEMMA StatusStep ==
    ASSUME TypeInv, Coherent, [Next]_vars, NEW i \in Ids
    PROVE  /\ ops'[i].status \in Moves(i, ops[i].status)
           /\ ops[i].status = "reserved" /\ ops'[i].status = "dispatching"
              => \E c \in Callers : Claim(c) /\ callers[c].op = i
  <1> USE ConstantsAssumption
  <1> DEFINE Goal == /\ ops'[i].status \in Moves(i, ops[i].status)
                     /\ ops[i].status = "reserved" /\ ops'[i].status = "dispatching"
                        => \E c \in Callers : Claim(c) /\ callers[c].op = i
  <1>z. ops \in Ledger /\ callers \in [Callers -> Call \cup {Idle}]
    BY DEF TypeInv, TypeOK, Ledger
  <1>s. \A s : s \in Moves(i, s)
    BY DEF Moves
  <1>u. ASSUME ops' = ops PROVE Goal
    BY <1>s, <1>u
  <1>r. \A r \in Row : r.status \in Statuses
    BY DEF Row
  <1>m. ASSUME NEW t PROVE MarkStale(ops, t)[i].status \in Moves(i, ops[i].status) \ {"dispatching"}
                           \/ MarkStale(ops, t)[i].status = ops[i].status
    BY <1>z, StaleStatus DEF Moves, Overdue
  <1>1. ASSUME NEW c \in Callers, ReserveRefused(c) PROVE Goal
    BY <1>1, <1>m, <1>s DEF ReserveRefused
  <1>2. ASSUME NEW c \in Callers, ReserveNew(c) PROVE Goal
    <2> DEFINE L == MarkStale(ops, callers[c].now)
    <2>1. L \in Ledger /\ callers[c] \in Call
      BY <1>2, <1>z, StaleType, Distinct DEF ReserveNew
    <2>2. CASE i = callers[c].op
      <3>1. ops[i] = NoRow
        BY <1>2, <1>z, <2>2, StaleType DEF ReserveNew
      <3>2. ops'[i].status = "reserved"
        BY <1>2, <2>1, <2>2 DEF ReserveNew, Ledger
      <3>3. i \in Ops
        BY <2>1, <2>2 DEF Call
      <3> QED BY <3>1, <3>2, <3>3 DEF NoRow, Moves
    <2>3. CASE i # callers[c].op
      <3>1. ops'[i] = L[i]
        BY <1>2, <2>1, <2>3 DEF ReserveNew, Ledger
      <3> QED BY <3>1, <1>m, <1>s
    <2> QED BY <2>2, <2>3
  <1>3. ASSUME NEW c \in Callers, ReserveReclaim(c) PROVE Goal
    <2> DEFINE L == MarkStale(ops, callers[c].now)
    <2>1. L \in Ledger /\ callers[c] \in Call
      BY <1>3, <1>z, StaleType, Distinct DEF ReserveReclaim
    <2> HIDE DEF L
    <2>2. ops'[i].status = L[i].status
      <3>1. L[callers[c].op] \in Row
        BY <1>3, <2>1, <1>z DEF ReserveReclaim, L, Ledger, Call, Ids
      <3>2. \A r \in Row : \A a, b, d : [r EXCEPT !.fence = a, !.reservedAt = b, !.lease = d].status = r.status
        BY DEF Row
      <3>3. ops' = [L EXCEPT ![callers[c].op] = [L[callers[c].op] EXCEPT
                        !.fence = L[callers[c].op].fence + 1, !.reservedAt = callers[c].now,
                        !.lease = callers[c].now + Lease]]
        BY <1>3, <2>1, <3>1 DEF ReserveReclaim, L, Ledger
      <3> QED BY <3>1, <3>2, <3>3, <2>1 DEF Ledger
    <2> QED BY <2>2, <1>m, <1>s DEF L
  <1>4. ASSUME NEW c \in Callers, Claim(c) PROVE Goal
    <2> DEFINE call == callers[c]
    <2>1. call \in Call /\ ops[call.op].status = "reserved"
      BY <1>4, <1>z, Distinct DEF Claim, Claimable
    <2>2. ops[call.op] \in Row /\ call.op \in Ids
      BY <2>1, <1>z DEF Ledger, NoRow, Call, Ids
    <2>3. \A r \in Row : \A a, b : [r EXCEPT !.status = "dispatching", !.startedAt = a, !.lease = b].status = "dispatching"
      BY DEF Row
    <2>4. ops' = [ops EXCEPT ![call.op] = [ops[call.op] EXCEPT !.status = "dispatching",
                     !.startedAt = call.now, !.lease = call.now + Lease]]
      BY <1>4, <2>2, <1>z DEF Claim, Ledger
    <2>5. ops'[i].status = IF i = call.op THEN "dispatching" ELSE ops[i].status
      BY <2>2, <2>3, <2>4, <1>z DEF Ledger
    <2> QED BY <1>4, <2>1, <2>5, <1>s DEF Moves
  <1>5. ASSUME NEW c \in Callers, Finalize(c) PROVE Goal
    <2> DEFINE call == callers[c]
               row  == ops[call.op]
               r    == call.result
               clash == r.status = "succeeded" /\ r.remote # None
                        /\ ~ RemoteFree(ops, call.op, row.payload.bot, r.remote)
               kept == IF clash THEN NoAnswer ELSE r
    <2>1. call \in Call /\ row.status = "dispatching"
      BY <1>5, <1>z, Distinct DEF Finalize, Owns
    <2>2. row \in Row /\ call.op \in Ids /\ kept.status \in {"succeeded", "definite_failure", "unknown"}
      BY <2>1, <1>z DEF Ledger, NoRow, Call, Ids, Result, NoAnswer
    <2>3. ops' = [ops EXCEPT ![call.op] = [row EXCEPT !.status = kept.status,
                                            !.remote = kept.remote, !.lease = 0]]
      BY <1>5, <2>2, <1>z DEF Finalize, Ledger
    <2>4. ops'[i].status = IF i = call.op THEN kept.status ELSE ops[i].status
      <3> HIDE DEF kept
      <3>1. [row EXCEPT !.status = kept.status, !.remote = kept.remote, !.lease = 0].status = kept.status
        BY <2>2 DEF Row
      <3> QED BY <2>2, <2>3, <3>1, <1>z DEF Ledger
    <2> HIDE DEF kept
    <2> QED BY <2>1, <2>2, <2>4, <1>s DEF Moves
  <1>6. ASSUME NEW o \in Ops, ResolveAbsent(o) PROVE Goal
    <2>1. ops[o] \in Row /\ o \in Ids /\ ops[o].status = "unknown"
      BY <1>6, <1>z DEF ResolveAbsent, Ledger, NoRow, Ids
    <2>2. ops' = [ops EXCEPT ![o] = [ops[o] EXCEPT !.status = "definite_failure", !.lease = 0]]
      BY <1>6, <2>1, <1>z DEF ResolveAbsent, Ledger
    <2>3. [ops[o] EXCEPT !.status = "definite_failure", !.lease = 0].status = "definite_failure"
      BY <2>1 DEF Row
    <2>4. ops'[i].status = IF i = o THEN "definite_failure" ELSE ops[i].status
      BY <2>1, <2>2, <2>3, <1>z DEF Ledger
    <2> QED BY <2>1, <2>4, <1>s DEF Moves
  <1>7. ASSUME ReconcileCommit PROVE Goal
    <2>1. recon.op \in Ids /\ ops[recon.op].status = "unknown"
      BY <1>7 DEF ReconcileCommit, TypeInv, TypeOK, Ids
    <2>2. ops[recon.op] \in Row
      BY <2>1, <1>z DEF Ledger, NoRow
    <2>3. ops' = [ops EXCEPT ![recon.op] = [ops[recon.op] EXCEPT !.status = "succeeded",
                     !.remote = recon.feed, !.lease = 0]]
      BY <1>7, <2>1, <1>z DEF ReconcileCommit, Ledger
    <2>4. [ops[recon.op] EXCEPT !.status = "succeeded", !.remote = recon.feed, !.lease = 0].status = "succeeded"
      BY <2>2 DEF Row
    <2>5. ops'[i].status = IF i = recon.op THEN "succeeded" ELSE ops[i].status
      BY <2>1, <2>3, <2>4, <1>z DEF Ledger
    <2> QED BY <2>1, <2>5, <1>s DEF Moves
  <1>8. ASSUME NEW f \in Recordable, RecordHistorical(f) PROVE Goal
    <2>1. HistId(f) \in HistIds /\ HistId(f) \in Ids /\ HistId(f) \notin Ops
      BY DEF HistIds, Ids
    <2>2. ops'[i].status = IF i = HistId(f) THEN "succeeded" ELSE ops[i].status
      BY <1>8, <2>1, <1>z DEF RecordHistorical, Ledger
    <2>3. ops[HistId(f)].status \in {"none", "succeeded"}
      BY <2>1 DEF Coherent
    <2> QED BY <2>1, <2>2, <2>3, <1>s DEF Moves
  <1>9. ASSUME QuotaPoll PROVE Goal
    BY <1>9, <1>m, <1>s DEF QuotaPoll
  <1> HIDE DEF Goal
  <1>10. Goal
    BY <1>u, <1>1, <1>2, <1>3, <1>4, <1>5, <1>6, <1>7, <1>8, <1>9
       DEF Next, CallerStep, AdminStep, Environment, Start, ClaimLost, Post, Answer, FinalizeLate,
           Cancel, ReconcileRead, ReconcileDropped, Land, Lose, ManualPost, Restart, Tick, ledger, vars
  <1> QED BY <1>10 DEF Goal

\* Rows and feeds are never removed.
LEMMA NothingVanishes ==
    ASSUME TypeInv, Coherent, [Next]_vars
    PROVE  /\ \A i \in Ids : ops[i] # NoRow => ops'[i] # NoRow
           /\ \A f \in FeedIds : feeds[f] # None => feeds'[f] # None
  <1>1. ASSUME NEW i \in Ids, ops[i] # NoRow PROVE ops'[i] # NoRow
    <2>1. ops[i] \in Row
      BY <1>1 DEF TypeInv, TypeOK
    <2>2. ops[i].status \in Statuses
      BY <2>1 DEF Row
    <2>3. ops'[i].status # "none"
      BY <2>2, StatusStep DEF Moves, Statuses
    <2> QED BY <2>3 DEF NoRow
  <1>2. ASSUME NEW f \in FeedIds, feeds[f] # None PROVE feeds'[f] # None
    <2>1. CASE \E o \in Ops : Land(o)
      <3>1. PICK o \in Ops : Land(o)
        BY <2>1
      <3>2. ops[o] \in Row /\ clock \in Times
        BY <3>1 DEF Land, Coherent, TypeInv, TypeOK, Ids
      <3>3. [payload |-> ops[o].payload, at |-> clock] \in Feed
        BY <3>2 DEF Row, Feed
      <3> QED BY <3>1, <3>3, <1>2, NoneAssumption DEF Land, TypeInv, TypeOK
    <2>2. CASE \E m \in Manual : ManualPost(m)
      BY <2>2, <1>2 DEF ManualPost, TypeInv, TypeOK
    <2>3. CASE UNCHANGED feeds
      BY <2>3, <1>2
    <2> QED
      BY <2>1, <2>2, <2>3 DEF Next, CallerStep, AdminStep, Environment, Start, ReserveRefused,
         ReserveNew, ReserveReclaim, Claim, ClaimLost, Post, Answer, Finalize, FinalizeLate, Cancel,
         QuotaPoll, ResolveAbsent, ReconcileRead, ReconcileCommit, ReconcileDropped,
         RecordHistorical, Lose, Restart, Tick, remote, vars
  <1> QED BY <1>1, <1>2

\* A call past its reservation is that call as it was, or has just reserved its row.
LEMMA CallMoves ==
    ASSUME TypeInv, [Next]_vars, NEW c \in Callers,
           callers'[c].pc \in {"claim", "post", "await", "finalize"}
    PROVE  \/ ReserveNew(c) \/ ReserveReclaim(c)
           \/ /\ callers[c].pc \in {"claim", "post", "await", "finalize"}
              /\ callers'[c].op = callers[c].op
              /\ callers'[c].pc = "post" => callers[c].pc = "post" \/ Claim(c)
  <1>z. callers \in [Callers -> Call \cup {Idle}]
    BY DEF TypeInv, TypeOK
  <1>i. Idle.pc = "idle"
    BY DEF Idle
  <1>1. ASSUME NEW d \in Callers, CallerStep(d), d # c PROVE callers'[c] = callers[c]
    BY <1>1, <1>z DEF CallerStep, Start, ReserveRefused, ReserveNew, ReserveReclaim, Claim, ClaimLost,
       Post, Answer, Finalize, FinalizeLate, Cancel, Return, Goto
  <1>2. CASE CallerStep(c)
    <2>1. \A d \in Call : \A pc, r : /\ [d EXCEPT !.pc = pc].op = d.op
                                 /\ [d EXCEPT !.pc = pc].pc = pc
                                 /\ [d EXCEPT !.pc = pc, !.result = r].op = d.op
                                 /\ [d EXCEPT !.pc = pc, !.result = r].pc = pc
      BY DEF Call
    <2>2. CASE ReserveRefused(c) \/ ClaimLost(c) \/ Finalize(c) \/ FinalizeLate(c) \/ Cancel(c)
      BY <2>2, <1>z, <1>i DEF ReserveRefused, ClaimLost, Finalize, FinalizeLate, Cancel, Return
    <2>3. CASE \E o \in Ops : \E payload \in Offers[o], force \in Forces : Start(c, o, payload, force)
      BY <2>3, <1>z DEF Start
    <2>4. CASE Claim(c) \/ Post(c)
      <3>1. callers[c] \in Call
        BY <2>4, <1>z, Distinct DEF Claim, Post
      <3>2. CASE Claim(c)
        <4>1. callers'[c] = [callers[c] EXCEPT !.pc = "post"]
          BY <3>2, <1>z DEF Claim, Goto
        <4> QED BY <2>1, <3>1, <3>2, <4>1 DEF Claim
      <3>3. CASE Post(c)
        <4>1. callers'[c] = [callers[c] EXCEPT !.pc = "await"]
          BY <3>3, <1>z DEF Post, Goto
        <4>2. callers'[c].pc = "await" /\ callers'[c].op = callers[c].op
          BY <2>1, <3>1, <4>1
        <4> QED BY <3>3, <4>2 DEF Post
      <3> QED BY <2>4, <3>2, <3>3
    <2>5. CASE Answer(c)
      <3>1. callers[c] \in Call
        BY <2>5, <1>z, Distinct DEF Answer
      <3>2. PICK r \in Result : callers' = [callers EXCEPT ![c] =
                                    [callers[c] EXCEPT !.pc = "finalize", !.result = r]]
        BY <2>5, <1>z DEF Answer
      <3> QED BY <2>1, <2>5, <3>1, <3>2, <1>z DEF Answer
    <2> QED BY <1>2, <2>2, <2>3, <2>4, <2>5 DEF CallerStep
  <1>3. CASE Restart
    BY <1>3, <1>i DEF Restart
  <1>4. CASE callers'[c] = callers[c]
    BY <1>4
  <1>5. CASE \E d \in Callers : CallerStep(d)
    BY <1>1, <1>2, <1>4, <1>5
  <1>6. CASE AdminStep \/ Environment \/ UNCHANGED vars
    BY <1>3, <1>4, <1>6 DEF AdminStep, Environment, QuotaPoll, ResolveAbsent,
       ReconcileRead, ReconcileCommit, ReconcileDropped, RecordHistorical, Land, Lose, ManualPost,
       Tick, vars
  <1> QED BY <1>5, <1>6 DEF Next

\* A reservation that succeeds leaves a row behind, at the status reserved.
LEMMA ReservationStands ==
    ASSUME TypeInv, NEW c \in Callers, ReserveNew(c) \/ ReserveReclaim(c)
    PROVE  /\ callers'[c].pc = "claim" /\ callers'[c].op = callers[c].op
           /\ callers[c].op \in Ops
           /\ ops'[callers[c].op].status = "reserved"
  <1> DEFINE call == callers[c]
             L == MarkStale(ops, call.now)
  <1>1. call \in Call /\ L \in Ledger
    BY Distinct, StaleType DEF ReserveNew, ReserveReclaim, TypeInv, TypeOK, Ledger
  <1>2. call.op \in Ops /\ call.op \in Ids /\ callers \in [Callers -> Call \cup {Idle}]
    BY <1>1 DEF Call, Ids, TypeInv, TypeOK
  <1> HIDE DEF L
  <1>3. \A f : [call EXCEPT !.pc = "claim", !.fence = f].pc = "claim"
               /\ [call EXCEPT !.pc = "claim", !.fence = f].op = call.op
    BY <1>1 DEF Call
  <1>4. CASE ReserveNew(c)
    <2>1. callers' = [callers EXCEPT ![c] = [call EXCEPT !.pc = "claim", !.fence = 1]]
      BY <1>2, <1>4 DEF ReserveNew
    <2>2. ops'[call.op].status = "reserved"
      BY <1>1, <1>2, <1>4 DEF ReserveNew, L, Ledger
    <2> QED BY <1>2, <1>3, <2>1, <2>2
  <1>5. CASE ReserveReclaim(c)
    <2> DEFINE row == L[call.op]
    <2>1. callers' = [callers EXCEPT ![c] = [call EXCEPT !.pc = "claim", !.fence = row.fence + 1]]
      BY <1>2, <1>5 DEF ReserveReclaim, L
    <2>2. row \in Row /\ row.status = "reserved"
      BY <1>1, <1>2, <1>5 DEF ReserveReclaim, ExistingRefused, L, Ledger
    <2>3. ops' = [L EXCEPT ![call.op] = [row EXCEPT !.fence = row.fence + 1,
                    !.reservedAt = call.now, !.lease = call.now + Lease]]
      BY <1>1, <1>2, <1>5, <2>2 DEF ReserveReclaim, L, Ledger
    <2>4. \A a, b, d : [row EXCEPT !.fence = a, !.reservedAt = b, !.lease = d].status = "reserved"
      BY <2>2 DEF Row
    <2>5. ops'[call.op].status = "reserved"
      BY <1>1, <1>2, <2>3, <2>4 DEF Ledger
    <2> QED BY <1>2, <1>3, <2>1, <2>5
  <1> QED BY <1>4, <1>5

\* Every step keeps what calls, requests and reconciliations refer to.
THEOREM CoherentStep == TypeInv /\ Coherent /\ [Next]_vars => Coherent'
  <1> SUFFICES ASSUME TypeInv, Coherent, [Next]_vars PROVE Coherent'
    OBVIOUS
  <1>t. TypeInv' /\ TypeOK /\ TypeOK'
    BY TypeStep DEF TypeInv
  <1>1. ASSUME NEW c \in Callers, callers'[c].pc \in {"claim", "post", "await", "finalize"}
        PROVE  ops'[callers'[c].op] # NoRow
    <2>1. CASE ReserveNew(c) \/ ReserveReclaim(c)
      BY <2>1, ReservationStands DEF NoRow
    <2>2. CASE callers[c].pc \in {"claim", "post", "await", "finalize"} /\ callers'[c].op = callers[c].op
      <3>1. callers[c] \in Call
        BY <2>2, <1>t, Distinct DEF TypeOK
      <3>2. callers[c].op \in Ids
        BY <3>1 DEF Call, Ids
      <3> QED BY <2>2, <3>2, NothingVanishes DEF Coherent
    <2> QED BY <1>1, <2>1, <2>2, CallMoves
  <1>2. ASSUME NEW o \in Ops, requests'[o] # "none" PROVE ops'[o] # NoRow
    <2>1. CASE requests[o] # "none"
      BY <2>1, NothingVanishes DEF Coherent, Ids
    <2>2. CASE requests[o] = "none"
      <3>1. PICK c \in Callers : Post(c) /\ callers[c].op = o
        BY <1>2, <2>2, <1>t, ZenonT(60) DEF TypeOK, Next, CallerStep, AdminStep, Environment, Start, ReserveRefused,
         ReserveNew, ReserveReclaim, Claim, ClaimLost, Post, Answer, Finalize, FinalizeLate, Cancel,
         QuotaPoll, ResolveAbsent, ReconcileRead, ReconcileCommit, ReconcileDropped,
         RecordHistorical, Land, Lose, ManualPost, Restart, Tick, remote, vars
      <3> QED BY <3>1, NothingVanishes DEF Post, Coherent, Ids
    <2> QED BY <2>1, <2>2
  <1>3. recon' # None => feeds'[recon'.feed] # None
    <2>1. CASE UNCHANGED recon
      BY <2>1, <1>t, NothingVanishes, NoneAssumption DEF Coherent, TypeOK
    <2>2. CASE \E o \in Ops : ReconcileRead(o)
      <3>1. PICK o \in Ops, f \in FeedIds : /\ Matches(ops[o]) = {f}
                                            /\ recon' = [op |-> o, feed |-> f]
        BY <2>2 DEF ReconcileRead
      <3>2. f \in Matches(ops[o])
        BY <3>1
      <3> QED BY <2>2, <3>1, <3>2, NothingVanishes DEF Matches, ReconcileRead
    <2>3. CASE recon' = None
      BY <2>3
    <2> QED BY <2>1, <2>2, <2>3, ZenonT(60) DEF Next, CallerStep, AdminStep, Environment, Start, ReserveRefused,
         ReserveNew, ReserveReclaim, Claim, ClaimLost, Post, Answer, Finalize, FinalizeLate, Cancel,
         QuotaPoll, ResolveAbsent, ReconcileCommit, ReconcileDropped,
         RecordHistorical, Land, Lose, ManualPost, Restart, Tick, vars
  <1>4. ASSUME NEW i \in HistIds PROVE ops'[i].status \in {"none", "succeeded"}
    <2>1. i \in Ids /\ i \notin Ops
      BY ConstantsAssumption DEF Ids
    <2> QED BY <2>1, StatusStep DEF Coherent, Moves
  <1> QED BY <1>1, <1>2, <1>3, <1>4 DEF Coherent

\* The types, the instants of the calls and the references hold in every state.
LEMMA Invariants == Spec => [](TypeInv /\ Coherent)
  <1>1. Init => TypeInv /\ Coherent
    <2>1. Init => Coherent
      BY DEF Init, Coherent, Idle, NoRow, Ids
    <2> QED BY <2>1, TypeInit
  <1>2. TypeInv /\ Coherent /\ [Next]_vars => TypeInv' /\ Coherent'
    BY TypeStep, CoherentStep
  <1> QED BY <1>1, <1>2, PTL DEF Spec

\* Type correctness of the ledger, the callers, the provider and the reconciliation:
\* in every reachable state, for every value of the constants.
THEOREM TypeCorrect == Spec => []TypeOK
  <1>1. TypeInv /\ Coherent => TypeOK
    BY DEF TypeInv
  <1> QED BY <1>1, Invariants, PTL
-----------------------------------------------------------------------------
(* At most one external write for each operation.                           *)

Sealed(row) == row.status \notin {"none", "reserved"}

\* A written row is sealed; a call about to write holds a sealed row that is not
\* written yet; no two calls are about to write for the same operation.
OnceInv ==
    /\ \A o \in Ops : calls[o] \in {0, 1} /\ (calls[o] = 1 => Sealed(ops[o]))
    /\ \A c \in Callers : callers[c].pc = "post" =>
            Sealed(ops[callers[c].op]) /\ calls[callers[c].op] = 0
    /\ \A c, d \in Callers : callers[c].pc = "post" /\ callers[d].pc = "post" /\ c # d
            => callers[c].op # callers[d].op

\* A sealed row stays sealed.
LEMMA SealedStays ==
    ASSUME TypeInv, Coherent, [Next]_vars, NEW i \in Ids, Sealed(ops[i])
    PROVE  Sealed(ops'[i])
  <1>1. ops[i] \in Row
    BY DEF TypeInv, TypeOK, Sealed, NoRow
  <1>2. ops[i].status \in {"dispatching", "unknown", "succeeded", "definite_failure"}
    BY <1>1 DEF Row, Statuses, Sealed
  <1> QED BY <1>2, StatusStep DEF Moves, Sealed

\* Only the step Post changes the number of writes.
LEMMA OnlyPostWrites ==
    ASSUME [Next]_vars
    PROVE  calls' = calls \/ \E c \in Callers : Post(c)
  BY ZenonT(60) DEF Next, CallerStep, AdminStep, Environment, Start, ReserveRefused, ReserveNew,
     ReserveReclaim, Claim, ClaimLost, Answer, Finalize, FinalizeLate, Cancel, QuotaPoll,
     ResolveAbsent, ReconcileRead, ReconcileCommit, ReconcileDropped, RecordHistorical, Land, Lose,
     ManualPost, Restart, Tick, remote, vars

\* A claim turns a reservation into a dispatch and moves no other call.
LEMMA ClaimEffect ==
    ASSUME TypeInv, NEW c \in Callers, Claim(c)
    PROVE  /\ callers[c].op \in Ops
           /\ ops[callers[c].op].status = "reserved"
           /\ ops'[callers[c].op].status = "dispatching"
           /\ calls' = calls
           /\ \A d \in Callers \ {c} : callers'[d] = callers[d]
  <1>1. callers[c] \in Call
    BY Distinct DEF Claim, TypeInv, TypeOK
  <1>2. callers[c].op \in Ops /\ callers[c].op \in Ids
    BY <1>1 DEF Call, Ids
  <1>3. ops[callers[c].op] \in Row
    BY <1>2 DEF Claim, Claimable, TypeInv, TypeOK, NoRow
  <1>4. \A a, b : [ops[callers[c].op] EXCEPT !.status = "dispatching", !.startedAt = a,
                                             !.lease = b].status = "dispatching"
    BY <1>3 DEF Row
  <1>5. ops'[callers[c].op] = [ops[callers[c].op] EXCEPT !.status = "dispatching",
               !.startedAt = callers[c].now, !.lease = callers[c].now + Lease]
    BY <1>2, <1>3 DEF Claim, TypeInv, TypeOK
  <1> QED BY <1>2, <1>4, <1>5 DEF Claim, Claimable, Goto, remote, TypeInv, TypeOK

\* Every step keeps the invariant of the writes.
THEOREM OnceStep == TypeInv /\ Coherent /\ OnceInv /\ [Next]_vars => OnceInv'
  <1> SUFFICES ASSUME TypeInv, Coherent, OnceInv, [Next]_vars PROVE OnceInv'
    OBVIOUS
  <1>t. TypeOK
    BY DEF TypeInv
  <1>p. ASSUME NEW c \in Callers, callers[c].pc = "post"
        PROVE  callers[c].op \in Ops /\ callers[c].op \in Ids
    <2>1. callers[c] \in Call
      BY <1>p, <1>t, Distinct DEF TypeOK
    <2> QED BY <2>1 DEF Call, Ids
  <1>q. ASSUME NEW c \in Callers, callers'[c].pc = "post"
        PROVE  \/ callers[c].pc = "post" /\ callers'[c].op = callers[c].op
               \/ Claim(c) /\ callers'[c].op = callers[c].op
    BY <1>q, CallMoves, ReservationStands
  <1>1. ASSUME NEW o \in Ops
        PROVE  calls'[o] \in {0, 1} /\ (calls'[o] = 1 => Sealed(ops'[o]))
    <2>1. CASE calls'[o] = calls[o]
      BY <2>1, SealedStays DEF OnceInv, Ids
    <2>2. CASE \E c \in Callers : Post(c) /\ callers[c].op = o
      <3>1. PICK c \in Callers : Post(c) /\ callers[c].op = o
        BY <2>2
      <3>2. calls[o] = 0 /\ Sealed(ops[o])
        BY <3>1 DEF Post, OnceInv
      <3>3. calls'[o] = 1
        BY <3>1, <3>2, <1>t DEF Post, TypeOK
      <3> QED BY <3>2, <3>3, SealedStays DEF Ids
    <2>3. ASSUME NEW c \in Callers, Post(c), callers[c].op # o PROVE calls'[o] = calls[o]
      BY <2>3, <1>t DEF Post, TypeOK
    <2> QED BY <2>1, <2>2, <2>3, OnlyPostWrites
  <1>2. ASSUME NEW c \in Callers, callers'[c].pc = "post"
        PROVE  Sealed(ops'[callers'[c].op]) /\ calls'[callers'[c].op] = 0
    <2>1. CASE callers[c].pc = "post" /\ callers'[c].op = callers[c].op
      <3> DEFINE o == callers[c].op
      <3>1. o \in Ops /\ o \in Ids /\ Sealed(ops[o]) /\ calls[o] = 0
        BY <2>1, <1>p DEF OnceInv
      <3>2. ASSUME NEW d \in Callers, Post(d) PROVE calls'[o] = calls[o]
        <4>1. d # c
          <5>1. callers[d] \in Call /\ callers'[d].pc = "await"
            <6>1. callers[d] \in Call
              BY <3>2, <1>t, Distinct DEF Post, TypeOK
            <6>2. callers'[d] = [callers[d] EXCEPT !.pc = "await"]
              BY <3>2, <1>t DEF Post, Goto, TypeOK
            <6> QED BY <6>1, <6>2 DEF Call
          <5> QED BY <5>1, <1>2
        <4>2. callers[d].op # o
          BY <4>1, <2>1, <3>2 DEF Post, OnceInv
        <4> QED BY <3>1, <3>2, <4>2, <1>t DEF Post, TypeOK
      <3>3. calls'[o] = 0
        BY <3>1, <3>2, OnlyPostWrites
      <3> QED BY <2>1, <3>1, <3>3, SealedStays
    <2>2. CASE Claim(c) /\ callers'[c].op = callers[c].op
      <3>1. calls[callers[c].op] = 0
        BY <2>2, ClaimEffect DEF OnceInv, Sealed
      <3> QED BY <2>2, <3>1, ClaimEffect DEF Sealed
    <2> QED BY <1>2, <1>q, <2>1, <2>2
  <1>3. ASSUME NEW c \in Callers, NEW d \in Callers, callers'[c].pc = "post",
               callers'[d].pc = "post", c # d
        PROVE  callers'[c].op # callers'[d].op
    <2>1. ASSUME NEW e \in Callers, NEW f \in Callers, e # f, Claim(e), callers'[f].pc = "post"
          PROVE  callers[e].op # callers'[f].op
      <3>1. callers'[f] = callers[f]
        BY <2>1, ClaimEffect
      <3>2. Sealed(ops[callers[f].op])
        BY <2>1, <3>1 DEF OnceInv
      <3> QED BY <2>1, <3>1, <3>2, ClaimEffect DEF Sealed
    <2>2. CASE callers[c].pc = "post" /\ callers[d].pc = "post"
      BY <1>3, <2>2, <1>q, ClaimEffect DEF OnceInv
    <2> QED BY <1>3, <1>q, <2>1, <2>2
  <1> QED BY <1>1, <1>2, <1>3 DEF OnceInv

\* Whatever the interleaving of retries, lease expiries, cancellations, reconciliations
\* and crashes, an operation's external write starts at most once.
THEOREM WriteAtMostOnce == Spec => []AtMostOneWrite
  <1>1. Init => OnceInv
    BY DEF Init, OnceInv, Idle, Sealed, NoRow
  <1>2. TypeInv /\ Coherent /\ OnceInv => AtMostOneWrite
    BY DEF OnceInv, AtMostOneWrite, Sealed
  <1> QED BY <1>1, <1>2, OnceStep, Invariants, PTL DEF Spec
-----------------------------------------------------------------------------
(* The ledger implements PublishPromise and keeps its books                *)

\* A call that has posted belongs to an operation that was written.
Answered ==
    \A c \in Callers : callers[c].pc \in {"await", "finalize"} => calls[callers[c].op] = 1

Inv == TypeInv /\ Coherent /\ OnceInv /\ Answered

\* What a step that decides nothing may do to a row.
Quiet(i) ==
    /\ ops[i].status = "succeeded" => ops'[i] = ops[i]
    /\ \/ ops'[i].status = ops[i].status
       \/ ops'[i].status \in {"reserved", "dispatching", "unknown"}

\* Row i claims a feed that no success of its bot held before, or none.
ClaimsFree(i) == ops'[i].remote = None \/ RemoteFree(ops, i, ops'[i].payload.bot, ops'[i].remote)

\* A step that settles row i, of month p, as st; only a success is counted.
Decides(i, st, p) ==
    /\ ops'[i].status = st /\ ops'[i].period = p
    /\ st = "succeeded" => ClaimsFree(i)
    /\ \A j \in Ids \ {i} : ops'[j] = ops[j]
    /\ IF st = "succeeded" THEN \E at \in Times : Project(p, at)
                           ELSE UNCHANGED <<usage, state>>

\* When row i may be settled as st.
Decidable(i, st) ==
    \/ i \in Ops /\ ops[i].status = "dispatching" /\ calls[i] = 1
    \/ i \in Ops /\ ops[i].status = "unknown" /\ st # "unknown"
    \/ i \in HistIds /\ ops[i].status = "none" /\ st = "succeeded"

Verdicts == {"succeeded", "definite_failure", "unknown"}
-----------------------------------------------------------------------------
(* The steps that decide                                                    *)

\* Marking stale dispatches is quiet.
LEMMA StaleQuiet ==
    ASSUME TypeInv, NEW t, NEW i \in Ids
    PROVE  /\ ops[i].status = "succeeded" => MarkStale(ops, t)[i] = ops[i]
           /\ \/ MarkStale(ops, t)[i].status = ops[i].status
              \/ MarkStale(ops, t)[i].status = "unknown"
  <1>1. ops \in Ledger
    BY DEF TypeInv, TypeOK, Ledger
  <1> QED BY <1>1, StaleStatus DEF MarkStale, Overdue

\* finalize settles the dispatch of its own call.
LEMMA FinalizeDecides ==
    ASSUME Inv, NEW c \in Callers, Finalize(c)
    PROVE  /\ callers[c].op \in Ops
           /\ \E st \in Verdicts, p \in Periods :
                    Decides(callers[c].op, st, p) /\ Decidable(callers[c].op, st)
  <1> DEFINE call == callers[c]
             row  == ops[call.op]
             r    == call.result
             clash == r.status = "succeeded" /\ r.remote # None
                      /\ ~ RemoteFree(ops, call.op, row.payload.bot, r.remote)
             kept == IF clash THEN NoAnswer ELSE r
             at   == IF kept.at > 0 THEN kept.at ELSE call.now
  <1>z. ops \in Ledger /\ callers \in [Callers -> Call \cup {Idle}]
    BY DEF Inv, TypeInv, TypeOK, Ledger
  <1>1. call \in Call /\ row.status = "dispatching"
    BY <1>z, Distinct DEF Finalize, Owns
  <1>2. row \in Row /\ call.op \in Ids /\ call.op \in Ops
    BY <1>1, <1>z DEF Ledger, NoRow, Call, Ids
  <1>3. kept.status \in Verdicts /\ at \in Times /\ row.period \in Periods
    <2>1. r \in Result /\ call.now \in Times /\ row.period \in Periods
      BY <1>1, <1>2 DEF Call, Row
    <2>2. NoAnswer.status = "unknown" /\ NoAnswer.at = 0
      BY DEF NoAnswer
    <2>3. r.status \in Verdicts /\ r.at \in Times
      BY <2>1 DEF Result, Verdicts
    <2> QED BY <2>1, <2>2, <2>3 DEF Verdicts
  <1>4. ops' = [ops EXCEPT ![call.op] = [row EXCEPT !.status = kept.status,
                                          !.remote = kept.remote, !.lease = 0]]
    BY <1>2, <1>z DEF Finalize, Ledger
  <1>5. IF kept.status = "succeeded" THEN Project(row.period, at) ELSE UNCHANGED <<usage, state>>
    BY DEF Finalize
  <1>f. kept.status = "succeeded" =>
            kept.remote = None \/ RemoteFree(ops, call.op, row.payload.bot, kept.remote)
    BY DEF NoAnswer
  <1> HIDE DEF kept, at
  <1>6. /\ [row EXCEPT !.status = kept.status, !.remote = kept.remote, !.lease = 0].status = kept.status
        /\ [row EXCEPT !.status = kept.status, !.remote = kept.remote, !.lease = 0].period = row.period
        /\ [row EXCEPT !.status = kept.status, !.remote = kept.remote, !.lease = 0].remote = kept.remote
        /\ [row EXCEPT !.status = kept.status, !.remote = kept.remote, !.lease = 0].payload = row.payload
    BY <1>2 DEF Row
  <1>g. kept.status = "succeeded" => ClaimsFree(call.op)
    BY <1>2, <1>4, <1>6, <1>f, <1>z DEF ClaimsFree, Ledger
  <1>7. Decides(call.op, kept.status, row.period)
    BY <1>g, <1>2, <1>3, <1>4, <1>5, <1>6, <1>z DEF Decides, Ledger
  <1>8. Decidable(call.op, kept.status)
    BY <1>1, <1>2 DEF Decidable, Inv, Answered, Finalize
  <1> QED BY <1>2, <1>3, <1>7, <1>8

\* An administrator's judgement that nothing was published settles a doubt.
LEMMA AbsentDecides ==
    ASSUME Inv, NEW o \in Ops, ResolveAbsent(o)
    PROVE  \E p \in Periods :
                Decides(o, "definite_failure", p) /\ Decidable(o, "definite_failure")
  <1>z. ops \in Ledger
    BY DEF Inv, TypeInv, TypeOK, Ledger
  <1>1. ops[o] \in Row /\ o \in Ids /\ ops[o].status = "unknown"
    BY <1>z DEF ResolveAbsent, Ledger, NoRow, Ids
  <1>2. ops' = [ops EXCEPT ![o] = [ops[o] EXCEPT !.status = "definite_failure", !.lease = 0]]
    BY <1>1, <1>z DEF ResolveAbsent, Ledger
  <1>3. /\ [ops[o] EXCEPT !.status = "definite_failure", !.lease = 0].status = "definite_failure"
        /\ [ops[o] EXCEPT !.status = "definite_failure", !.lease = 0].period = ops[o].period
        /\ ops[o].period \in Periods
    BY <1>1 DEF Row
  <1>4. Decides(o, "definite_failure", ops[o].period)
    BY <1>1, <1>2, <1>3, <1>z DEF Decides, Ledger, ResolveAbsent
  <1>5. Decidable(o, "definite_failure")
    BY <1>1 DEF Decidable
  <1> QED BY <1>3, <1>4, <1>5

\* A reconciliation that commits settles a doubt.
LEMMA ReconcileDecides ==
    ASSUME Inv, ReconcileCommit
    PROVE  /\ recon.op \in Ops
           /\ \E p \in Periods :
                Decides(recon.op, "succeeded", p) /\ Decidable(recon.op, "succeeded")
  <1>z. ops \in Ledger /\ TypeOK
    BY DEF Inv, TypeInv, TypeOK, Ledger
  <1>1. recon.op \in Ops /\ recon.feed \in FeedIds /\ ops[recon.op].status = "unknown"
    BY <1>z DEF ReconcileCommit, TypeOK
  <1>2. ops[recon.op] \in Row /\ recon.op \in Ids
    BY <1>1, <1>z DEF Ledger, NoRow, Ids
  <1>3. ops' = [ops EXCEPT ![recon.op] = [ops[recon.op] EXCEPT !.status = "succeeded",
                   !.remote = recon.feed, !.lease = 0]]
    BY <1>2, <1>z DEF ReconcileCommit, Ledger
  <1>4. LET new == [ops[recon.op] EXCEPT !.status = "succeeded", !.remote = recon.feed, !.lease = 0]
        IN  /\ new.status = "succeeded" /\ new.period = ops[recon.op].period
            /\ new.remote = recon.feed /\ new.payload = ops[recon.op].payload
    BY <1>2 DEF Row
  <1>5. ops[recon.op].period \in Periods
    BY <1>2 DEF Row
  <1>6. feeds[recon.feed].at \in Times
    <2>1. feeds[recon.feed] # None
      BY DEF Inv, Coherent, ReconcileCommit
    <2> QED BY <1>1, <1>z, <2>1 DEF TypeOK, Feed
  <1>7. Project(ops[recon.op].period, feeds[recon.feed].at)
    BY DEF ReconcileCommit
  <1>g. ClaimsFree(recon.op)
    BY <1>2, <1>3, <1>4, <1>z DEF ClaimsFree, Ledger, ReconcileCommit
  <1>8. Decides(recon.op, "succeeded", ops[recon.op].period)
    BY <1>g, <1>2, <1>3, <1>4, <1>6, <1>7, <1>z DEF Decides, Ledger
  <1>9. Decidable(recon.op, "succeeded")
    BY <1>1 DEF Decidable
  <1> QED BY <1>1, <1>5, <1>8, <1>9

\* The historical record adds a success that had no row.
LEMMA HistoryDecides ==
    ASSUME Inv, NEW f \in Recordable, RecordHistorical(f)
    PROVE  /\ HistId(f) \in HistIds
           /\ \E p \in Periods :
                Decides(HistId(f), "succeeded", p) /\ Decidable(HistId(f), "succeeded")
  <1>z. ops \in Ledger /\ TypeOK
    BY DEF Inv, TypeInv, TypeOK, Ledger
  <1>1. HistId(f) \in HistIds /\ HistId(f) \in Ids /\ f \in FeedIds
    BY ConstantsAssumption DEF HistIds, Ids
  <1>2. feeds[f] \in Feed
    BY <1>1, <1>z DEF RecordHistorical, TypeOK
  <1>3. feeds[f].at \in Times
    BY <1>2 DEF Feed
  <1>4. PeriodOf(feeds[f].at) \in Periods
    BY <1>3, PeriodType
  <1>5. Project(PeriodOf(feeds[f].at), feeds[f].at)
    BY DEF RecordHistorical
  <1>6. /\ ops'[HistId(f)].status = "succeeded"
        /\ ops'[HistId(f)].period = PeriodOf(feeds[f].at)
        /\ ops'[HistId(f)].remote = f /\ ops'[HistId(f)].payload.bot = feeds[f].payload.bot
        /\ \A j \in Ids \ {HistId(f)} : ops'[j] = ops[j]
    <2>1. [feeds[f].payload EXCEPT !.kind = "post", !.source = HistId(f)].bot = feeds[f].payload.bot
      BY <1>2 DEF Feed, RowPayload
    <2> QED BY <1>1, <1>z, <2>1 DEF RecordHistorical, Ledger
  <1>g. ClaimsFree(HistId(f))
    <2>1. None \notin Ids
      BY ConstantsAssumption
    <2> QED BY <1>6, <2>1 DEF ClaimsFree, RecordHistorical, RemoteFree
  <1>7. Decides(HistId(f), "succeeded", PeriodOf(feeds[f].at))
    BY <1>3, <1>5, <1>6, <1>g DEF Decides
  <1>8. Decidable(HistId(f), "succeeded")
    BY <1>1 DEF Decidable, RecordHistorical, NoRow
  <1> QED BY <1>1, <1>4, <1>7, <1>8
-----------------------------------------------------------------------------
(* All steps                                                                *)

\* Every other step leaves what is decided and counted as it is.
LEMMA QuietSteps ==
    ASSUME Inv, [Next]_vars, NEW i \in Ids,
           \A c \in Callers : ~ Finalize(c), \A o \in Ops : ~ ResolveAbsent(o),
           ~ ReconcileCommit, \A f \in Recordable : ~ RecordHistorical(f)
    PROVE  Quiet(i) /\ UNCHANGED <<usage, state>>
  <1>z. ops \in Ledger /\ callers \in [Callers -> Call \cup {Idle}] /\ TypeInv
    BY DEF Inv, TypeInv, TypeOK, Ledger
  <1>1. ASSUME NEW c \in Callers, ReserveRefused(c) PROVE Quiet(i) /\ UNCHANGED <<usage, state>>
    BY <1>1, <1>z, StaleQuiet DEF ReserveRefused, Quiet
  <1>2. ASSUME NEW c \in Callers, ReserveNew(c) PROVE Quiet(i) /\ UNCHANGED <<usage, state>>
    <2> DEFINE L == MarkStale(ops, callers[c].now)
    <2>1. L \in Ledger
      BY <1>z, StaleType
    <2>2. CASE i = callers[c].op
      <3>1. ops[i] = NoRow
        BY <1>2, <1>z, <2>2, StaleType DEF ReserveNew
      <3>2. ops'[i].status = "reserved"
        BY <1>2, <2>1, <2>2 DEF ReserveNew, Ledger
      <3> QED BY <1>2, <3>1, <3>2 DEF NoRow, Quiet, ReserveNew
    <2>3. CASE i # callers[c].op
      <3>1. ops'[i] = L[i]
        BY <1>2, <2>1, <2>3 DEF ReserveNew, Ledger
      <3>2. /\ ops[i].status = "succeeded" => L[i] = ops[i]
            /\ L[i].status = ops[i].status \/ L[i].status = "unknown"
        BY <1>z, StaleQuiet
      <3>3. Quiet(i)
        <4> HIDE DEF L
        <4> QED BY <3>1, <3>2 DEF Quiet
      <3> QED BY <1>2, <3>3 DEF ReserveNew
    <2> QED BY <2>2, <2>3
  <1>3. ASSUME NEW c \in Callers, ReserveReclaim(c) PROVE Quiet(i) /\ UNCHANGED <<usage, state>>
    <2> DEFINE L == MarkStale(ops, callers[c].now)
    <2>1. L \in Ledger
      BY <1>z, StaleType
    <2>2. CASE i = callers[c].op
      <3>1. ops'[i].status = "reserved"
        BY <1>3, <1>z, <2>2, ReservationStands
      <3>2. L[i].status = "reserved"
        BY <1>3, <2>2 DEF ReserveReclaim, ExistingRefused
      <3>3. ops[i].status # "succeeded"
        BY <1>z, <3>2, StaleStatus DEF Overdue
      <3> QED BY <1>3, <3>1, <3>3 DEF Quiet, ReserveReclaim
    <2>3. CASE i # callers[c].op
      <3>1. ops'[i] = L[i]
        BY <1>3, <2>1, <2>3 DEF ReserveReclaim, Ledger
      <3>2. /\ ops[i].status = "succeeded" => L[i] = ops[i]
            /\ L[i].status = ops[i].status \/ L[i].status = "unknown"
        BY <1>z, StaleQuiet
      <3>3. Quiet(i)
        <4> HIDE DEF L
        <4> QED BY <3>1, <3>2 DEF Quiet
      <3> QED BY <1>3, <3>3 DEF ReserveReclaim
    <2> QED BY <2>2, <2>3
  <1>4. ASSUME NEW c \in Callers, Claim(c) PROVE Quiet(i) /\ UNCHANGED <<usage, state>>
    <2>1. CASE i = callers[c].op
      BY <1>4, <1>z, <2>1, ClaimEffect DEF Quiet, Claim
    <2>2. CASE i # callers[c].op
      <3>1. ops'[i] = ops[i]
        BY <1>4, <1>z, <2>2 DEF Claim, Ledger
      <3> QED BY <1>4, <3>1 DEF Quiet, Claim
    <2> QED BY <2>1, <2>2
  <1>5. CASE QuotaPoll
    BY <1>5, <1>z, StaleQuiet DEF QuotaPoll, Quiet
  <1>6. CASE UNCHANGED <<ops, usage, state>>
    BY <1>6 DEF Quiet
  <1> QED BY <1>1, <1>2, <1>3, <1>4, <1>5, <1>6
     DEF Next, CallerStep, AdminStep, Environment, Start, ClaimLost, Post, Answer, FinalizeLate,
         Cancel, ReconcileRead, ReconcileDropped, Land, Lose, ManualPost, Restart, Tick, ledger, vars

\* A step is quiet or decides one row that it may decide.
LEMMA Steps ==
    ASSUME Inv, [Next]_vars
    PROVE  \/ (\A i \in Ids : Quiet(i)) /\ UNCHANGED <<usage, state>>
           \/ /\ UNCHANGED calls
              /\ \E i \in Ids, st \in Verdicts, p \in Periods : Decides(i, st, p) /\ Decidable(i, st)
  <1>1. Ops \subseteq Ids /\ HistIds \subseteq Ids
    BY DEF Ids
  <1>2. {"succeeded", "definite_failure"} \subseteq Verdicts
    BY DEF Verdicts
  <1>3. ASSUME NEW c \in Callers, Finalize(c)
        PROVE  /\ UNCHANGED calls
               /\ \E i \in Ids, st \in Verdicts, p \in Periods : Decides(i, st, p) /\ Decidable(i, st)
    BY <1>1, <1>3, FinalizeDecides DEF Finalize, remote
  <1>4. ASSUME NEW o \in Ops, ResolveAbsent(o)
        PROVE  /\ UNCHANGED calls
               /\ \E i \in Ids, st \in Verdicts, p \in Periods : Decides(i, st, p) /\ Decidable(i, st)
    BY <1>1, <1>2, <1>4, AbsentDecides DEF ResolveAbsent, remote
  <1>5. ASSUME ReconcileCommit
        PROVE  /\ UNCHANGED calls
               /\ \E i \in Ids, st \in Verdicts, p \in Periods : Decides(i, st, p) /\ Decidable(i, st)
    BY <1>1, <1>2, <1>5, ReconcileDecides DEF ReconcileCommit, remote
  <1>6. ASSUME NEW f \in Recordable, RecordHistorical(f)
        PROVE  /\ UNCHANGED calls
               /\ \E i \in Ids, st \in Verdicts, p \in Periods : Decides(i, st, p) /\ Decidable(i, st)
    BY <1>1, <1>2, <1>6, HistoryDecides DEF RecordHistorical, remote
  <1>7. ASSUME \A c \in Callers : ~ Finalize(c), \A o \in Ops : ~ ResolveAbsent(o),
               ~ ReconcileCommit, \A f \in Recordable : ~ RecordHistorical(f)
        PROVE  (\A i \in Ids : Quiet(i)) /\ UNCHANGED <<usage, state>>
    <2>1. \A i \in Ids : Quiet(i) /\ UNCHANGED <<usage, state>>
      BY <1>7, QuietSteps
    <2>2. UNCHANGED <<usage, state>>
      BY <1>7 DEF Next, CallerStep, AdminStep, Environment, Start, ReserveRefused, ReserveNew,
         ReserveReclaim, Claim, ClaimLost, Post, Answer, FinalizeLate, QuotaPoll,
         Cancel, ReconcileRead, ReconcileDropped, Land, Lose, ManualPost, Restart, Tick, ledger, vars
    <2> QED BY <2>1, <2>2
  <1> QED BY <1>3, <1>4, <1>5, <1>6, <1>7

\* A call comes to await an answer only by posting.
LEMMA AwaitMoves ==
    ASSUME TypeInv, [Next]_vars, NEW c \in Callers, callers'[c].pc \in {"await", "finalize"}
    PROVE  /\ callers'[c].op = callers[c].op /\ callers[c] \in Call
           /\ Post(c) \/ callers[c].pc \in {"await", "finalize"}
  <1>z. callers \in [Callers -> Call \cup {Idle}]
    BY DEF TypeInv, TypeOK
  <1>i. Idle.pc = "idle"
    BY DEF Idle
  <1>1. callers'[c].op = callers[c].op /\ callers[c] \in Call
    <2>1. ~ ReserveNew(c) /\ ~ ReserveReclaim(c)
      BY ReservationStands
    <2> QED BY <1>z, <2>1, CallMoves, Distinct
  <1>2. ASSUME NEW d \in Callers, CallerStep(d), d # c PROVE callers'[c] = callers[c]
    BY <1>2, <1>z DEF CallerStep, Start, ReserveRefused, ReserveNew, ReserveReclaim, Claim, ClaimLost,
       Post, Answer, Finalize, FinalizeLate, Cancel, Return, Goto
  <1>3. ASSUME CallerStep(c) PROVE Post(c) \/ callers[c].pc \in {"await", "finalize"}
    <2>1. CASE ReserveRefused(c) \/ ClaimLost(c) \/ Finalize(c) \/ FinalizeLate(c) \/ Cancel(c)
      BY <2>1, <1>z, <1>i DEF ReserveRefused, ClaimLost, Finalize, FinalizeLate, Cancel, Return
    <2>2. CASE \E o \in Ops : \E payload \in Offers[o], force \in Forces : Start(c, o, payload, force)
      BY <2>2, <1>z DEF Start
    <2>3. CASE Claim(c)
      <3>1. callers'[c] = [callers[c] EXCEPT !.pc = "post"]
        BY <2>3, <1>z DEF Claim, Goto
      <3> QED BY <1>1, <3>1 DEF Call
    <2>4. CASE ReserveNew(c) \/ ReserveReclaim(c)
      BY <2>4, ReservationStands
    <2> QED BY <1>3, <2>1, <2>2, <2>3, <2>4 DEF CallerStep, Answer
  <1>4. CASE \E d \in Callers : CallerStep(d)
    BY <1>1, <1>2, <1>3, <1>4
  <1>5. CASE Restart
    BY <1>5, <1>i DEF Restart
  <1>6. CASE AdminStep \/ Environment \/ UNCHANGED vars
    BY <1>1, <1>5, <1>6 DEF AdminStep, Environment, QuotaPoll, ResolveAbsent,
       ReconcileRead, ReconcileCommit, ReconcileDropped, RecordHistorical, Land, Lose, ManualPost,
       Tick, vars
  <1> QED BY <1>1, <1>4, <1>6 DEF Next

\* Every step keeps the whole invariant.
THEOREM InvStep == Inv /\ [Next]_vars => Inv'
  <1> SUFFICES ASSUME Inv, [Next]_vars PROVE Inv'
    OBVIOUS
  <1>1. TypeInv' /\ Coherent' /\ OnceInv'
    BY TypeStep, CoherentStep, OnceStep DEF Inv
  <1>2. ASSUME NEW c \in Callers, callers'[c].pc \in {"await", "finalize"}
        PROVE  calls'[callers'[c].op] = 1
    <2> DEFINE o == callers[c].op
    <2>1. callers'[c].op = o /\ o \in Ops /\ calls \in [Ops -> Nat]
      BY <1>2, AwaitMoves DEF Inv, TypeInv, TypeOK, Call
    <2>2. CASE Post(c)
      BY <2>1, <2>2 DEF Post, Inv, OnceInv
    <2>3. CASE callers[c].pc \in {"await", "finalize"} /\ UNCHANGED calls
      BY <2>1, <2>3 DEF Inv, Answered
    <2>4. ASSUME callers[c].pc \in {"await", "finalize"}, NEW d \in Callers, Post(d)
          PROVE  calls'[o] = 1
      <3>1. callers[d].op # o
        BY <2>4 DEF Inv, Answered, OnceInv, Post
      <3> QED BY <2>1, <2>4, <3>1 DEF Post, Inv, Answered
    <2> QED BY <1>2, <2>1, <2>2, <2>3, <2>4, AwaitMoves, OnlyPostWrites DEF Inv
  <1> QED BY <1>1, <1>2 DEF Inv, Answered

LEMMA Invariance == Spec => []Inv
  <1>1. Init => Inv
    BY TypeInit DEF Init, Inv, Coherent, OnceInv, Answered, Idle, NoRow, Ids
  <1> QED BY <1>1, InvStep, PTL DEF Spec
-----------------------------------------------------------------------------
(* The ledger implements the promise                                        *)

\* The outcome of each row, as the refinement mapping gives it.
Outcomes == [i \in Ids |-> Outcome(ops[i])]

\* A status maps to one of the four outcomes.
LEMMA OutcomeOf ==
    \A row : Outcome(row) = IF row.status = "unknown" THEN "doubt"
                            ELSE IF row.status = "succeeded" THEN "done"
                            ELSE IF row.status = "definite_failure" THEN "failed"
                            ELSE "open"
  BY DEF Outcome

\* A quiet step changes an outcome only from open to doubt, and only of an operation.
LEMMA QuietOutcome ==
    ASSUME Inv, [Next]_vars, NEW i \in Ids, Quiet(i), Outcome(ops'[i]) # Outcome(ops[i])
    PROVE  i \in Ops /\ Outcome(ops[i]) = "open" /\ Outcome(ops'[i]) = "doubt"
  <1>1. ops[i] \in Row \cup {NoRow}
    BY DEF Inv, TypeInv, TypeOK
  <1>2. ops[i].status \in Statuses \cup {"none"}
    BY <1>1 DEF Row, NoRow
  <1>3. ops'[i].status \in Moves(i, ops[i].status)
    BY StatusStep DEF Inv
  <1>4. ops'[i].status # ops[i].status /\ ops'[i].status = "unknown"
    BY <1>2, <1>3, OutcomeOf DEF Quiet, Moves, Statuses
  <1>5. ops[i].status \in {"none", "dispatching"}
    BY <1>2, <1>3, <1>4 DEF Moves, Statuses
  <1>6. ops[i].status = "dispatching"
    BY <1>3, <1>4, <1>5 DEF Moves
  <1>7. i \in Ops
    BY <1>6 DEF Inv, Coherent, Ids
  <1> QED BY <1>4, <1>6, <1>7, OutcomeOf

\* A step that decides row i changes no other outcome.
LEMMA DecidedOutcome ==
    ASSUME NEW i \in Ids, NEW st \in Verdicts, NEW p, Decides(i, st, p)
    PROVE  Outcomes' = [Outcomes EXCEPT ![i] = CASE st = "unknown" -> "doubt"
                                                 [] st = "succeeded" -> "done"
                                                 [] OTHER -> "failed"]
  <1> DEFINE o == CASE st = "unknown" -> "doubt" [] st = "succeeded" -> "done" [] OTHER -> "failed"
  <1>1. Outcome(ops'[i]) = o
    BY OutcomeOf DEF Decides, Verdicts
  <1>2. \A j \in Ids \ {i} : Outcome(ops'[j]) = Outcome(ops[j])
    BY DEF Decides
  <1> HIDE DEF o
  <1>3. Outcomes' = [j \in Ids |-> Outcome(ops'[j])]
    BY DEF Outcomes
  <1>4. Outcomes = [j \in Ids |-> Outcome(ops[j])]
    BY DEF Outcomes
  <1>5. [Outcomes EXCEPT ![i] = o] = [j \in Ids |-> IF j = i THEN o ELSE Outcome(ops[j])]
    BY <1>4
  <1> QED BY <1>1, <1>2, <1>3, <1>5 DEF o

\* The initial ledger is the initial promise.
LEMMA PromiseStart == Init => Promise!PromiseInit
  <1> SUFFICES ASSUME Init PROVE Promise!PromiseInit
    OBVIOUS
  <1>1. \A i \in Ids : Outcome(ops[i]) = "open"
    BY OutcomeOf DEF Init, NoRow
  <1> QED BY <1>1 DEF Init, Promise!PromiseInit, Promise!Entries, Ids

\* Every step of the ledger is one of the promise, or none.
THEOREM PromiseStep ==
    Inv /\ [Next]_vars => [Promise!PromiseNext]_(Promise!pvars)
  <1> SUFFICES ASSUME Inv, [Next]_vars PROVE [Promise!PromiseNext]_(Promise!pvars)
    OBVIOUS
  <1>e. Promise!Entries = Ids
    BY DEF Promise!Entries, Ids
  <1>o. Outcomes \in [Ids -> {"open", "doubt", "done", "failed"}]
        /\ Outcomes' \in [Ids -> {"open", "doubt", "done", "failed"}]
    BY OutcomeOf DEF Outcomes
  <1>v. \A i \in Ids : Outcomes[i] = Outcome(ops[i]) /\ Outcomes'[i] = Outcome(ops'[i])
    BY DEF Outcomes
  <1>1. ASSUME \A i \in Ids : Quiet(i), UNCHANGED <<usage, state>>, UNCHANGED calls
        PROVE  Promise!Doubt
    <2>1. \A i \in Ids : Outcomes'[i] # Outcomes[i]
                => i \in Ops /\ Outcomes[i] = "open" /\ Outcomes'[i] = "doubt"
      BY <1>1, <1>v, QuietOutcome
    <2> QED BY <1>1, <1>e, <1>o, <2>1 DEF Promise!Doubt, Outcomes
  <1>2. ASSUME NEW c \in Callers, Post(c) PROVE Promise!PromiseNext
    <2> DEFINE o == callers[c].op
    <2>1. callers[c] \in Call
      BY <1>2, Distinct DEF Post, Inv, TypeInv, TypeOK
    <2>2. o \in Ops /\ calls[o] = 0
      BY <1>2, <2>1 DEF Call, Post, Inv, OnceInv
    <2>3. calls' = [calls EXCEPT ![o] = 1]
      BY <1>2, <2>2 DEF Post, Inv, TypeInv, TypeOK
    <2>4. ops' = ops /\ usage' = usage
      BY <1>2 DEF Post, ledger
    <2>5. Promise!Write(o)
      BY <2>2, <2>3, <2>4 DEF Promise!Write
    <2> QED BY <2>2, <2>5 DEF Promise!PromiseNext
  <1>3. ASSUME NEW i \in Ids, NEW st \in Verdicts, NEW p \in Periods,
               Decides(i, st, p), Decidable(i, st), UNCHANGED calls
        PROVE  Promise!PromiseNext
    <2>1. CASE st = "succeeded"
      <3>1. Outcomes' = [Outcomes EXCEPT ![i] = "done"]
        BY <1>3, <2>1, DecidedOutcome
      <3>2. usage' = [usage EXCEPT ![p] = @ + 1]
        BY <1>3, <2>1 DEF Decides, Project
      <3>3. Outcomes[i] = "doubt" \/ (Outcomes[i] = "open" /\ (i \in Ops => calls[i] = 1))
        <4>1. i \in HistIds => i \notin Ops
          BY ConstantsAssumption
        <4> QED BY <1>3, <1>v, <4>1, OutcomeOf DEF Decidable
      <3>4. Promise!Succeed(i, p)
        BY <1>3, <3>1, <3>2, <3>3 DEF Promise!Succeed, Promise!MayDecide, Outcomes
      <3> QED BY <1>e, <3>4 DEF Promise!PromiseNext
    <2>2. CASE st = "definite_failure"
      <3>1. Outcomes' = [Outcomes EXCEPT ![i] = "failed"]
        BY <1>3, <2>2, DecidedOutcome
      <3>2. usage' = usage
        BY <1>3, <2>2 DEF Decides
      <3>3. i \in Ops /\ (Outcomes[i] = "doubt" \/ (Outcomes[i] = "open" /\ calls[i] = 1))
        BY <1>3, <1>v, <2>2, OutcomeOf DEF Decidable
      <3>4. Promise!Fail(i)
        BY <1>3, <3>1, <3>2, <3>3 DEF Promise!Fail, Promise!MayDecide, Outcomes
      <3> QED BY <3>3, <3>4 DEF Promise!PromiseNext
    <2>3. CASE st = "unknown"
      <3>1. Outcomes' = [Outcomes EXCEPT ![i] = "doubt"]
        BY <1>3, <2>3, DecidedOutcome
      <3>2. usage' = usage
        BY <1>3, <2>3 DEF Decides
      <3>3. i \in Ops /\ Outcomes[i] = "open"
        BY <1>3, <1>v, <2>3, OutcomeOf DEF Decidable
      <3>4. \A j \in Ids : Outcomes'[j] # Outcomes[j]
                => j \in Ops /\ Outcomes[j] = "open" /\ Outcomes'[j] = "doubt"
        BY <1>o, <3>1, <3>3
      <3>5. Promise!Doubt
        BY <1>3, <1>e, <1>o, <3>2, <3>4 DEF Promise!Doubt, Outcomes
      <3> QED BY <3>5 DEF Promise!PromiseNext
    <2> QED BY <2>1, <2>2, <2>3 DEF Verdicts
  <1> QED BY <1>1, <1>2, <1>3, Steps, OnlyPostWrites DEF Promise!PromiseNext

\* The publish ledger keeps the promise of PublishPromise: one write for each
\* operation, outcomes that are final, each success counted once in one month.
THEOREM LedgerKeepsPromise == Spec => KeepsPromise
  <1> QED BY PromiseStart, PromiseStep, Invariance, PTL DEF Spec, KeepsPromise, Promise!PromiseSpec
-----------------------------------------------------------------------------
(* Each success is counted once                                             *)

\* There are finitely many rows.
LEMMA FiniteIds == IsFiniteSet(Ids)
  <1>1. IsFiniteSet(FeedIds)
    BY ConstantsAssumption, FS_Union DEF FeedIds
  <1>2. IsFiniteSet(Recordable)
    BY <1>1, ConstantsAssumption, FS_Subset
  <1>3. IsFiniteSet(HistIds)
    <2> DEFINE f == [x \in Recordable |-> HistId(x)]
    <2>1. f \in [Recordable -> HistIds] /\ \A y \in HistIds : \E x \in Recordable : f[x] = y
      BY DEF HistIds
    <2>2. f \in Surjection(Recordable, HistIds)
      BY <2>1 DEF Surjection
    <2> QED BY <1>2, <2>2, FS_Surjection
  <1> QED BY <1>3, ConstantsAssumption, FS_Union DEF Ids

\* The successes of the other months, and of this one but for row i, stay.
LEMMA DecidedSuccesses ==
    ASSUME Inv, NEW i \in Ids, NEW st \in Verdicts, NEW p \in Periods,
           Decides(i, st, p), Decidable(i, st), NEW q \in Periods
    PROVE  /\ i \notin Succeeded(q)
           /\ Succeeded(q)' = IF st = "succeeded" /\ q = p THEN Succeeded(q) \cup {i}
                              ELSE Succeeded(q)
  <1>1. ops[i].status # "succeeded"
    BY DEF Decidable
  <1> QED BY <1>1 DEF Succeeded, Decides

LEMMA QuietSuccesses ==
    ASSUME \A i \in Ids : Quiet(i), NEW q
    PROVE  Succeeded(q)' = Succeeded(q)
  BY DEF Succeeded, Quiet

\* A step keeps the books.
THEOREM CountedStep == Inv /\ CountedOnce /\ [Next]_vars => CountedOnce'
  <1> SUFFICES ASSUME Inv, CountedOnce, [Next]_vars PROVE CountedOnce'
    OBVIOUS
  <1>t. /\ usage \in [Periods -> Nat] /\ Periods \subseteq Nat /\ NoPeriod = -1
        /\ state \in [period : Periods \cup {NoPeriod}, count : Nat, lastAt : Times]
    BY DEF Inv, TypeInv, TypeOK, Periods, NoPeriod
  <1>1. ASSUME \A i \in Ids : Quiet(i), UNCHANGED <<usage, state>> PROVE CountedOnce'
    BY <1>1, QuietSuccesses DEF CountedOnce
  <1>2. ASSUME NEW i \in Ids, NEW st \in Verdicts, NEW p \in Periods,
               Decides(i, st, p), Decidable(i, st)
        PROVE  CountedOnce'
    <2>1. CASE st # "succeeded"
      <3>1. UNCHANGED <<usage, state>>
        BY <1>2, <2>1 DEF Decides
      <3>2. \A q \in Periods : Succeeded(q)' = Succeeded(q)
        BY <1>2, <2>1, DecidedSuccesses
      <3> QED BY <3>1, <3>2 DEF CountedOnce
    <2>2. CASE st = "succeeded"
      <3>1. PICK at \in Times : Project(p, at)
        BY <1>2, <2>2 DEF Decides
      <3>2. \A q \in Periods : usage'[q] = IF q = p THEN usage[q] + 1 ELSE usage[q]
        BY <3>1, <1>t DEF Project
      <3>3. ASSUME NEW q \in Periods PROVE usage'[q] = Cardinality(Succeeded(q)')
        <4>1. IsFiniteSet(Succeeded(q))
          BY FiniteIds, FS_Subset DEF Succeeded
        <4>2. usage[q] = Cardinality(Succeeded(q))
          BY DEF CountedOnce
        <4>3. i \notin Succeeded(q) /\ Succeeded(q)' = IF q = p THEN Succeeded(q) \cup {i} ELSE Succeeded(q)
          BY <1>2, <2>2, DecidedSuccesses
        <4>4. Cardinality(Succeeded(q) \cup {i}) = Cardinality(Succeeded(q)) + 1
          BY <4>1, <4>3, FS_AddElement
        <4> QED BY <3>2, <4>2, <4>3, <4>4
      <3>4. /\ state'.period = IF state.period < p THEN p ELSE state.period
            /\ state'.count = IF state.period < p THEN 1
                              ELSE IF state.period = p THEN state.count + 1 ELSE state.count
        <4>1. CASE state.period < p
          BY <4>1, <3>1, <1>t DEF Project
        <4>2. CASE ~ (state.period < p)
          BY <4>2, <3>1, <1>t DEF Project
        <4> QED BY <4>1, <4>2
      <3>c. /\ \A q \in Periods : usage[q] > 0 => q <= state.period
            /\ state.period # NoPeriod => state.count = usage[state.period]
            /\ state.period \in Periods \cup {-1} /\ state.count \in Nat
            /\ \A q \in Periods : usage[q] \in Nat /\ q \in Nat
        BY <1>t DEF CountedOnce
      <3>5. state.period < p => usage[p] = 0
        BY <3>c
      <3>6. \A q \in Periods : usage'[q] > 0 => q <= state'.period
        BY <3>2, <3>4, <3>c
      <3>7. state'.period # NoPeriod => state'.count = usage'[state'.period]
        <4>1. CASE state.period < p
          BY <4>1, <3>2, <3>4, <3>5
        <4>2. CASE state.period = p
          BY <4>2, <3>2, <3>4, <3>c, <1>t
        <4>3. CASE p < state.period
          <5>1. state'.period = state.period /\ state'.count = state.count
            BY <4>3, <3>4, <3>c
          <5>2. state.period \in Periods /\ state.period # p
            BY <4>3, <3>c
          <5> QED BY <5>1, <5>2, <3>2, <3>c
        <4> QED BY <4>1, <4>2, <4>3, <3>c
      <3> QED BY <3>3, <3>6, <3>7 DEF CountedOnce
    <2> QED BY <2>1, <2>2
  <1> QED BY <1>1, <1>2, Steps

\* The usage of every month is the number of its successes, and the state projects the
\* latest month that has one: for any number of operations, feeds and months.
THEOREM CountedOnceAlways == Spec => []CountedOnce
  <1>1. Init => CountedOnce
    <2> SUFFICES ASSUME Init PROVE CountedOnce
      OBVIOUS
    <2>1. \A p \in Periods : Succeeded(p) = {}
      BY DEF Init, Succeeded, NoRow
    <2>2. Periods \subseteq Nat
      BY DEF Periods
    <2> QED BY <2>1, <2>2, FS_EmptySet DEF Init, CountedOnce
  <1> QED BY <1>1, CountedStep, Invariance, PTL DEF Spec
-----------------------------------------------------------------------------
(* Each feed is claimed once                                                *)

\* A step gives no feed to a second success.
THEOREM ClaimedStep == Inv /\ RemoteClaimedOnce /\ [Next]_vars => RemoteClaimedOnce'
  <1> SUFFICES ASSUME Inv, RemoteClaimedOnce, [Next]_vars PROVE RemoteClaimedOnce'
    OBVIOUS
  <1>1. ASSUME \A i \in Ids : Quiet(i) PROVE RemoteClaimedOnce'
    <2>1. \A i \in Ids : ops'[i].status = "succeeded" => ops'[i] = ops[i]
      BY <1>1 DEF Quiet
    <2> QED BY <2>1 DEF RemoteClaimedOnce
  <1>2. ASSUME NEW i \in Ids, NEW st \in Verdicts, NEW p \in Periods, Decides(i, st, p)
        PROVE  RemoteClaimedOnce'
    <2>1. \A j \in Ids \ {i} : ops'[j] = ops[j]
      BY <1>2 DEF Decides
    <2>2. ASSUME NEW j \in Ids \ {i}, ops'[i].status = "succeeded", ops[j].status = "succeeded",
                 ops'[i].payload.bot = ops[j].payload.bot
          PROVE  ops'[i].remote # ops[j].remote \/ ops'[i].remote = None
      BY <1>2, <2>2 DEF Decides, ClaimsFree, RemoteFree
    <2>3. \A j, k \in Ids \ {i} :
             /\ ops[j].status = "succeeded" /\ ops[k].status = "succeeded" /\ j # k
             /\ ops[j].payload.bot = ops[k].payload.bot
             => ops[j].remote # ops[k].remote \/ ops[j].remote = None
      BY DEF RemoteClaimedOnce
    <2> QED BY <2>1, <2>2, <2>3 DEF RemoteClaimedOnce
  <1> QED BY <1>1, <1>2, Steps

\* No remote feed is claimed by two successes of one bot, whether the coordinator, a
\* reconciliation or the historical record made them: for every value of the constants.
THEOREM ClaimedOnceAlways == Spec => []RemoteClaimedOnce
  <1>1. Init => RemoteClaimedOnce
    BY DEF Init, RemoteClaimedOnce, NoRow
  <1> QED BY <1>1, ClaimedStep, Invariance, PTL DEF Spec
-----------------------------------------------------------------------------
(* Each success is real                                                     *)

\* A feed with the text of the payload exists in its bot's space.
Shown(payload) ==
    \E f \in FeedIds : /\ feeds[f] # None
                       /\ feeds[f].payload.bot = payload.bot
                       /\ feeds[f].payload.text = payload.text

\* A request belongs to the one write of its operation, and the operation's own feed
\* exists only once the request has landed; the text of a landed request is shown; a
\* call told of a success has a landed request; a reconciliation has seen its text.
RealInv ==
    /\ \A o \in Ops : /\ requests[o] # "none" => calls[o] = 1
                      /\ feeds[o] # None => requests[o] = "landed"
                      /\ requests[o] = "landed" => Shown(ops[o].payload)
    /\ \A c \in Callers : callers[c].pc = "finalize" /\ callers[c].result.status = "succeeded"
            => requests[callers[c].op] = "landed"
    /\ recon # None => ops[recon.op] # NoRow /\ Shown(ops[recon.op].payload)
    /\ SuccessIsReal

\* Marking stale dispatches keeps payloads.
LEMMA StalePayload ==
    ASSUME NEW L \in Ledger, NEW t, NEW i \in Ids, L[i] # NoRow
    PROVE  MarkStale(L, t)[i].payload = L[i].payload
  <1>1. L[i] \in Row
    BY DEF Ledger
  <1>2. [L[i] EXCEPT !.status = "unknown"].payload = L[i].payload
    BY <1>1 DEF Row
  <1> QED BY <1>2 DEF MarkStale

\* The payload of a row never changes.
LEMMA PayloadStays ==
    ASSUME TypeInv, Coherent, [Next]_vars, NEW i \in Ids, ops[i] # NoRow
    PROVE  ops'[i].payload = ops[i].payload
  <1> DEFINE Goal == ops'[i].payload = ops[i].payload
  <1>z. ops \in Ledger /\ ops[i] \in Row /\ callers \in [Callers -> Call \cup {Idle}]
    BY DEF TypeInv, TypeOK, Ledger
  <1>1. ASSUME NEW c \in Callers, ReserveRefused(c) PROVE Goal
    BY <1>1, <1>z, StalePayload DEF ReserveRefused
  <1>2. ASSUME NEW c \in Callers, ReserveNew(c) PROVE Goal
    <2> DEFINE L == MarkStale(ops, callers[c].now)
    <2>1. L \in Ledger /\ L[i].payload = ops[i].payload /\ L[i] # NoRow
      BY <1>z, StaleType, StalePayload
    <2>2. i # callers[c].op
      BY <1>2, <2>1 DEF ReserveNew
    <2>3. ops'[i] = L[i]
      BY <1>2, <2>1, <2>2 DEF ReserveNew, Ledger
    <2> QED BY <2>1, <2>3
  <1>3. ASSUME NEW c \in Callers, ReserveReclaim(c) PROVE Goal
    <2> DEFINE L == MarkStale(ops, callers[c].now)
               o == callers[c].op
    <2>1. L \in Ledger /\ L[i].payload = ops[i].payload /\ L[i] \in Row
      <3>1. L \in Ledger /\ L[i].payload = ops[i].payload /\ L[i] # NoRow
        BY <1>z, StaleType, StalePayload
      <3> HIDE DEF L
      <3> QED BY <3>1 DEF Ledger
    <2>2. ops' = [L EXCEPT ![o].fence = @ + 1, ![o].reservedAt = callers[c].now,
                           ![o].lease = callers[c].now + Lease]
      BY <1>3 DEF ReserveReclaim
    <2> HIDE DEF L
    <2>3. \A a, b, d : [L[i] EXCEPT !.fence = a, !.reservedAt = b, !.lease = d].payload = L[i].payload
      BY <2>1 DEF Row
    <2>4. CASE i = o
      <3>1. ops'[i] = [L[i] EXCEPT !.fence = L[i].fence + 1, !.reservedAt = callers[c].now,
                                   !.lease = callers[c].now + Lease]
        BY <2>1, <2>2, <2>4 DEF Ledger
      <3> QED BY <2>1, <2>3, <3>1
    <2>5. CASE i # o
      BY <2>1, <2>2, <2>5 DEF Ledger
    <2> QED BY <2>4, <2>5
  <1>4. ASSUME NEW c \in Callers, Claim(c) PROVE Goal
    <2>1. ops' = [ops EXCEPT ![callers[c].op] = [@ EXCEPT !.status = "dispatching",
               !.startedAt = callers[c].now, !.lease = callers[c].now + Lease]]
      BY <1>4, <1>z DEF Claim, Ledger
    <2>2. \A a, b : [ops[i] EXCEPT !.status = "dispatching", !.startedAt = a, !.lease = b].payload
                       = ops[i].payload
      BY <1>z DEF Row
    <2> QED BY <1>z, <2>1, <2>2 DEF Ledger
  <1>5. ASSUME NEW o \in Ids, NEW st, NEW rem,
               ops' = [ops EXCEPT ![o] = [@ EXCEPT !.status = st, !.remote = rem, !.lease = 0]]
        PROVE  Goal
    <2>1. [ops[i] EXCEPT !.status = st, !.remote = rem, !.lease = 0].payload = ops[i].payload
      BY <1>z DEF Row
    <2> QED BY <1>5, <1>z, <2>1 DEF Ledger
  <1>6. ASSUME NEW c \in Callers, Finalize(c) PROVE Goal
    <2>1. callers[c] \in Call
      BY <1>6, <1>z, Distinct DEF Finalize
    <2>2. callers[c].op \in Ids
      BY <2>1 DEF Call, Ids
    <2>3. \E st, rem : ops' = [ops EXCEPT ![callers[c].op] =
                                 [@ EXCEPT !.status = st, !.remote = rem, !.lease = 0]]
      <3> DEFINE call == callers[c]
                 r    == call.result
                 clash == r.status = "succeeded" /\ r.remote # None
                          /\ ~ RemoteFree(ops, call.op, ops[call.op].payload.bot, r.remote)
                 kept == IF clash THEN NoAnswer ELSE r
      <3>1. ops' = [ops EXCEPT ![call.op].status = kept.status, ![call.op].remote = kept.remote,
                               ![call.op].lease = 0]
        BY <1>6 DEF Finalize
      <3> HIDE DEF kept
      <3>2. ops' = [ops EXCEPT ![call.op] = [@ EXCEPT !.status = kept.status,
                                               !.remote = kept.remote, !.lease = 0]]
        BY <2>2, <3>1, <1>z DEF Ledger
      <3> QED BY <3>2
    <2> QED BY <1>5, <2>2, <2>3
  <1>7. ASSUME NEW o \in Ops, ResolveAbsent(o) PROVE Goal
    <2>1. ops' = [ops EXCEPT ![o] = [@ EXCEPT !.status = "definite_failure", !.lease = 0]]
      BY <1>7, <1>z DEF ResolveAbsent, Ledger, Ids
    <2>2. [ops[i] EXCEPT !.status = "definite_failure", !.lease = 0].payload = ops[i].payload
      BY <1>z DEF Row
    <2> QED BY <1>z, <2>1, <2>2 DEF Ledger
  <1>8. ASSUME ReconcileCommit PROVE Goal
    <2>1. recon.op \in Ids
      BY <1>8 DEF ReconcileCommit, TypeInv, TypeOK, Ids
    <2>2. ops' = [ops EXCEPT ![recon.op] =
                   [@ EXCEPT !.status = "succeeded", !.remote = recon.feed, !.lease = 0]]
      BY <1>8, <1>z, <2>1 DEF ReconcileCommit, Ledger
    <2> QED BY <1>5, <2>1, <2>2
  <1>9. ASSUME NEW f \in Recordable, RecordHistorical(f) PROVE Goal
    BY <1>9, <1>z DEF RecordHistorical, Ledger
  <1>10. ASSUME QuotaPoll PROVE Goal
    BY <1>10, <1>z, StalePayload DEF QuotaPoll
  <1>11. CASE UNCHANGED ops
    BY <1>11
  <1> QED BY <1>1, <1>2, <1>3, <1>4, <1>6, <1>7, <1>8, <1>9, <1>10, <1>11
     DEF Next, CallerStep, AdminStep, Environment, Start, ClaimLost, Post, Answer, FinalizeLate,
         Cancel, ReconcileRead, ReconcileDropped, Land, Lose, ManualPost, Restart, Tick, ledger, vars

\* A row becomes a success by its call's success, a reconciliation or the record.
LEMMA Successes ==
    ASSUME Inv, [Next]_vars, NEW i \in Ids,
           ops'[i].status = "succeeded", ops[i].status # "succeeded"
    PROVE  \/ \E c \in Callers : /\ Finalize(c) /\ callers[c].op = i
                                 /\ callers[c].result.status = "succeeded"
           \/ ReconcileCommit /\ recon.op = i
           \/ \E f \in Recordable : RecordHistorical(f) /\ HistId(f) = i
  <1>z. ops \in Ledger /\ callers \in [Callers -> Call \cup {Idle}] /\ TypeInv
    BY DEF Inv, TypeInv, TypeOK, Ledger
  <1>1. ASSUME NEW c \in Callers, Finalize(c)
        PROVE  callers[c].op = i /\ callers[c].result.status = "succeeded"
    <2> DEFINE call == callers[c]
               r    == call.result
               clash == r.status = "succeeded" /\ r.remote # None
                        /\ ~ RemoteFree(ops, call.op, ops[call.op].payload.bot, r.remote)
               kept == IF clash THEN NoAnswer ELSE r
    <2>1. call \in Call /\ ops[call.op].status = "dispatching"
      BY <1>1, <1>z, Distinct DEF Finalize, Owns
    <2>2. ops[call.op] \in Row /\ call.op \in Ids
      BY <2>1, <1>z DEF Ledger, NoRow, Call, Ids
    <2>3. ops' = [ops EXCEPT ![call.op] = [@ EXCEPT !.status = kept.status,
                                             !.remote = kept.remote, !.lease = 0]]
      BY <1>1, <2>2, <1>z DEF Finalize, Ledger
    <2>4. kept.status = "succeeded" => r.status = "succeeded"
      BY DEF NoAnswer
    <2> HIDE DEF kept
    <2>5. call.op = i
      BY <2>2, <2>3, <1>z DEF Ledger
    <2>6. ops'[i].status = kept.status
      BY <2>2, <2>3, <2>5, <1>z DEF Ledger, Row
    <2> QED BY <2>4, <2>5, <2>6
  <1>2. ASSUME NEW o \in Ops, ResolveAbsent(o) PROVE FALSE
    <2>1. PICK p \in Periods : Decides(o, "definite_failure", p)
      BY <1>2, AbsentDecides
    <2> QED BY <2>1 DEF Decides
  <1>3. ASSUME ReconcileCommit PROVE recon.op = i
    <2>1. PICK p \in Periods : Decides(recon.op, "succeeded", p)
      BY <1>3, ReconcileDecides
    <2> QED BY <2>1 DEF Decides
  <1>4. ASSUME NEW f \in Recordable, RecordHistorical(f) PROVE HistId(f) = i
    <2>1. PICK p \in Periods : Decides(HistId(f), "succeeded", p)
      BY <1>4, HistoryDecides
    <2> QED BY <2>1 DEF Decides
  <1>5. ASSUME \A c \in Callers : ~ Finalize(c), \A o \in Ops : ~ ResolveAbsent(o),
               ~ ReconcileCommit, \A f \in Recordable : ~ RecordHistorical(f)
        PROVE  FALSE
    BY <1>5, QuietSteps DEF Quiet
  <1> QED BY <1>1, <1>2, <1>3, <1>4, <1>5

\* A landed request stays landed, a feed stays as it is, and what is shown stays shown.
LEMMA ShownStays ==
    ASSUME Inv, RealInv, [Next]_vars
    PROVE  /\ \A o \in Ops : requests[o] = "landed" => requests'[o] = "landed"
           /\ \A f \in FeedIds : feeds[f] # None => feeds'[f] = feeds[f]
           /\ \A payload : Shown(payload) => Shown(payload)'
  <1>t. TypeOK /\ Ops \subseteq FeedIds
    BY DEF Inv, TypeInv, FeedIds
  <1>1. ASSUME NEW c \in Callers, Post(c)
        PROVE  callers[c].op \in Ops /\ requests[callers[c].op] = "none"
    <2>1. callers[c] \in Call
      BY <1>1, <1>t, Distinct DEF Post, TypeOK
    <2>2. callers[c].op \in Ops /\ calls[callers[c].op] = 0
      BY <1>1, <2>1 DEF Post, Inv, OnceInv, Call
    <2> QED BY <2>2 DEF RealInv
  <1>2. ASSUME NEW o \in Ops, requests[o] = "landed" PROVE requests'[o] = "landed"
    <2>1. ASSUME NEW c \in Callers, Post(c) PROVE requests'[o] = requests[o]
      BY <1>1, <1>2, <2>1, <1>t DEF Post, TypeOK
    <2>2. ASSUME NEW p \in Ops, Land(p) \/ Lose(p) PROVE requests'[o] = requests[o]
      BY <1>2, <2>2, <1>t DEF Land, Lose, TypeOK
    <2>3. CASE UNCHANGED requests
      BY <2>3, <1>2
    <2> QED BY <1>2, <2>1, <2>2, <2>3, ZenonT(60) DEF Next, CallerStep, AdminStep, Environment,
       Start, ReserveRefused, ReserveNew, ReserveReclaim, Claim, ClaimLost, Answer, Finalize,
       FinalizeLate, Cancel, QuotaPoll, ResolveAbsent, ReconcileRead, ReconcileCommit,
       ReconcileDropped, RecordHistorical, ManualPost, Restart, Tick, remote, vars
  <1>3. ASSUME NEW f \in FeedIds, feeds[f] # None PROVE feeds'[f] = feeds[f]
    <2>1. ASSUME NEW o \in Ops, Land(o) PROVE feeds'[f] = feeds[f]
      <3>1. feeds[o] = None
        BY <2>1 DEF Land, RealInv
      <3> QED BY <1>3, <2>1, <3>1, <1>t DEF Land, TypeOK
    <2>2. ASSUME NEW m \in Manual, ManualPost(m) PROVE feeds'[f] = feeds[f]
      BY <1>3, <2>2, <1>t DEF ManualPost, TypeOK
    <2>3. CASE UNCHANGED feeds
      BY <2>3
    <2> QED BY <2>1, <2>2, <2>3, ZenonT(60) DEF Next, CallerStep, AdminStep, Environment,
       Start, ReserveRefused, ReserveNew, ReserveReclaim, Claim, ClaimLost, Post, Answer, Finalize,
       FinalizeLate, Cancel, QuotaPoll, ResolveAbsent, ReconcileRead, ReconcileCommit,
       ReconcileDropped, RecordHistorical, Lose, Restart, Tick, remote, vars
  <1>4. ASSUME NEW payload, Shown(payload)
        PROVE  \E f \in FeedIds : /\ feeds'[f] # None
                                  /\ feeds'[f].payload.bot = payload.bot
                                  /\ feeds'[f].payload.text = payload.text
    BY <1>3, <1>4 DEF Shown
  <1> QED BY <1>2, <1>3, <1>4 DEF Shown

\* A step shows the text of what it lands, tells only of what landed, and makes a
\* success only of what is shown.
THEOREM RealStep == Inv /\ RealInv /\ [Next]_vars => RealInv'
  <1> SUFFICES ASSUME Inv, RealInv, [Next]_vars PROVE RealInv'
    OBVIOUS
  <1>t. TypeInv /\ TypeOK /\ Coherent /\ OnceInv /\ Ops \subseteq Ids /\ Ops \subseteq FeedIds
    BY DEF Inv, TypeInv, Ids, FeedIds
  <1>1. ASSUME NEW o \in Ops, requests'[o] # "none" PROVE calls'[o] = 1
    <2>1. ASSUME NEW c \in Callers, Post(c) PROVE calls'[o] = 1
      <3>1. callers[c] \in Call
        BY <2>1, <1>t, Distinct DEF Post, TypeOK
      <3>2. callers[c].op \in Ops /\ calls[callers[c].op] = 0
        BY <2>1, <3>1, <1>t DEF Post, OnceInv, Call
      <3> QED BY <1>1, <2>1, <3>2, <1>t DEF Post, TypeOK, RealInv
    <2>2. ASSUME NEW p \in Ops, Land(p) \/ Lose(p) PROVE calls'[o] = 1
      BY <1>1, <2>2, <1>t DEF Land, Lose, TypeOK, RealInv
    <2>3. CASE UNCHANGED <<requests, calls>>
      BY <1>1, <2>3 DEF RealInv
    <2> QED BY <2>1, <2>2, <2>3, ZenonT(60) DEF Next, CallerStep, AdminStep, Environment,
       Start, ReserveRefused, ReserveNew, ReserveReclaim, Claim, ClaimLost, Answer, Finalize,
       FinalizeLate, Cancel, QuotaPoll, ResolveAbsent, ReconcileRead, ReconcileCommit,
       ReconcileDropped, RecordHistorical, ManualPost, Restart, Tick, remote, vars
  <1>2. ASSUME NEW o \in Ops, feeds'[o] # None PROVE requests'[o] = "landed"
    <2>1. ASSUME NEW p \in Ops, Land(p) PROVE requests'[o] = "landed"
      BY <1>2, <2>1, <1>t, ShownStays DEF Land, TypeOK, RealInv
    <2>2. ASSUME NEW m \in Manual, ManualPost(m) PROVE requests'[o] = "landed"
      <3>1. m # o
        BY ConstantsAssumption
      <3> QED BY <1>2, <2>2, <3>1, <1>t DEF ManualPost, TypeOK, RealInv
    <2>3. CASE UNCHANGED feeds
      BY <1>2, <2>3, ShownStays DEF RealInv
    <2> QED BY <2>1, <2>2, <2>3, ZenonT(60) DEF Next, CallerStep, AdminStep, Environment,
       Start, ReserveRefused, ReserveNew, ReserveReclaim, Claim, ClaimLost, Post, Answer, Finalize,
       FinalizeLate, Cancel, QuotaPoll, ResolveAbsent, ReconcileRead, ReconcileCommit,
       ReconcileDropped, RecordHistorical, Lose, Restart, Tick, remote, vars
  <1>3. ASSUME NEW o \in Ops, requests'[o] = "landed" PROVE Shown(ops[o].payload)'
    <2>1. CASE requests[o] = "landed"
      <3>1. Shown(ops[o].payload)
        BY <2>1 DEF RealInv
      <3>2. ops[o] # NoRow
        BY <2>1, <1>t DEF Coherent
      <3>3. ops'[o].payload = ops[o].payload
        BY <3>2, <1>t, PayloadStays
      <3> QED BY <3>1, <3>3, ShownStays DEF Shown
    <2>2. CASE Land(o)
      <3>1. requests[o] # "none" /\ ops[o] \in Row
        BY <2>2, <1>t DEF Land, Coherent, TypeOK
      <3>2. [payload |-> ops[o].payload, at |-> clock] \in Feed
        BY <3>1, <1>t DEF Row, Feed, TypeOK
      <3>3. feeds'[o] # None /\ feeds'[o].payload = ops'[o].payload
        BY <2>2, <3>2, <1>t, NoneAssumption DEF Land, TypeOK, ledger
      <3> QED BY <3>3, <1>t DEF Shown
    <2>3. CASE requests[o] # "landed" /\ ~ Land(o)
      <3>1. ASSUME NEW c \in Callers, Post(c) PROVE FALSE
        BY <1>3, <2>3, <3>1, <1>t DEF Post, TypeOK
      <3>2. ASSUME NEW p \in Ops, Land(p) \/ Lose(p) PROVE FALSE
        BY <1>3, <2>3, <3>2, <1>t DEF Land, Lose, TypeOK
      <3>3. CASE UNCHANGED requests
        BY <1>3, <2>3, <3>3
      <3> QED BY <3>1, <3>2, <3>3, ZenonT(60) DEF Next, CallerStep, AdminStep, Environment,
       Start, ReserveRefused, ReserveNew, ReserveReclaim, Claim, ClaimLost, Answer, Finalize,
       FinalizeLate, Cancel, QuotaPoll, ResolveAbsent, ReconcileRead, ReconcileCommit,
       ReconcileDropped, RecordHistorical, ManualPost, Restart, Tick, remote, vars
    <2> QED BY <2>1, <2>2, <2>3
  <1>4. ASSUME NEW c \in Callers, callers'[c].pc = "finalize",
               callers'[c].result.status = "succeeded"
        PROVE  requests'[callers'[c].op] = "landed"
    <2>1. callers'[c].op = callers[c].op /\ callers[c] \in Call /\ callers[c].op \in Ops
      BY <1>4, <1>t, AwaitMoves DEF Call
    <2>2. CASE callers'[c] = callers[c]
      BY <1>4, <2>1, <2>2, ShownStays DEF RealInv
    <2>3. CASE Answer(c)
      <3>1. PICK r \in Result :
              /\ r.status = "succeeded" => requests[callers[c].op] = "landed"
              /\ callers' = [callers EXCEPT ![c] = [callers[c] EXCEPT !.pc = "finalize", !.result = r]]
        <4>1. PICK r \in Result :
                /\ \/ r.status = "succeeded" /\ requests[callers[c].op] = "landed"
                   \/ r = [NoAnswer EXCEPT !.status = "definite_failure"]
                   \/ r = NoAnswer
                /\ callers' = [callers EXCEPT ![c].pc = "finalize", ![c].result = r]
          BY <2>3 DEF Answer
        <4>2. r.status = "succeeded" => requests[callers[c].op] = "landed"
          BY <4>1 DEF NoAnswer
        <4> QED BY <4>1, <4>2, <1>t DEF TypeOK
      <3>2. callers'[c].result = r
        BY <2>1, <3>1, <1>t DEF TypeOK, Call
      <3> QED BY <1>4, <2>1, <3>1, <3>2, ShownStays
    <2>4. ASSUME ~ Answer(c), callers'[c] # callers[c] PROVE FALSE
      <3>1. CASE Restart
        BY <1>4, <3>1 DEF Restart, Idle
      <3>2. ASSUME NEW d \in Callers, CallerStep(d), d # c PROVE FALSE
        BY <2>4, <3>2, <1>t DEF TypeOK, CallerStep, Start, ReserveRefused, ReserveNew,
           ReserveReclaim, Claim, ClaimLost, Post, Answer, Finalize, FinalizeLate, Cancel, Return, Goto
      <3>3. CASE Claim(c) \/ Post(c)
        <4>1. PICK pc \in {"post", "await"} : callers'[c] = [callers[c] EXCEPT !.pc = pc]
          BY <3>3, <1>t DEF Claim, Post, Goto, TypeOK
        <4> QED BY <1>4, <2>1, <4>1 DEF Call
      <3>4. CASE ReserveNew(c) \/ ReserveReclaim(c)
        BY <1>4, <3>4, <1>t, ReservationStands
      <3>5. CASE \E o \in Ops : \E payload \in Offers[o], force \in Forces : Start(c, o, payload, force)
        BY <1>4, <3>5, <1>t DEF Start, TypeOK
      <3>6. CASE ReserveRefused(c) \/ ClaimLost(c) \/ Finalize(c) \/ FinalizeLate(c) \/ Cancel(c)
        BY <1>4, <3>6, <1>t DEF ReserveRefused, ClaimLost, Finalize, FinalizeLate, Cancel, Return,
           Idle, TypeOK
      <3>7. CASE UNCHANGED callers
        BY <2>4, <3>7
      <3>8. CASE CallerStep(c)
        BY <2>4, <3>3, <3>4, <3>5, <3>6, <3>8 DEF CallerStep
      <3> QED BY <3>1, <3>2, <3>7, <3>8 DEF Next, AdminStep, Environment, QuotaPoll, ResolveAbsent,
         ReconcileRead, ReconcileCommit, ReconcileDropped, RecordHistorical, Land, Lose, ManualPost,
         Tick, vars
    <2> QED BY <2>2, <2>3, <2>4
  <1>5. ASSUME recon' # None PROVE (ops[recon.op] # NoRow /\ Shown(ops[recon.op].payload))'
    <2>1. ASSUME NEW o \in Ops, ops[o] # NoRow, Shown(ops[o].payload)
          PROVE  ops'[o] # NoRow /\ Shown(ops[o].payload)'
      <3>1. ops'[o].payload = ops[o].payload /\ ops'[o] # NoRow
        BY <2>1, <1>t, PayloadStays, NothingVanishes
      <3> QED BY <2>1, <3>1, ShownStays DEF Shown
    <2>2. CASE UNCHANGED recon
      <3>1. recon.op \in Ops /\ ops[recon.op] # NoRow /\ Shown(ops[recon.op].payload)
        BY <1>5, <2>2, <1>t DEF TypeOK, RealInv
      <3> QED BY <2>1, <2>2, <3>1 DEF Shown
    <2>3. ASSUME NEW o \in Ops, ReconcileRead(o)
          PROVE  (ops[recon.op] # NoRow /\ Shown(ops[recon.op].payload))'
      <3>1. PICK f \in FeedIds : Matches(ops[o]) = {f} /\ recon' = [op |-> o, feed |-> f]
        BY <2>3 DEF ReconcileRead
      <3>2. f \in Matches(ops[o]) /\ recon'.op = o
        BY <3>1
      <3>3. Shown(ops[o].payload)
        BY <3>2 DEF Matches, Shown
      <3>4. ops[o] # NoRow
        BY <2>3 DEF ReconcileRead, NoRow
      <3> QED BY <2>1, <3>2, <3>3, <3>4 DEF Shown
    <2>4. CASE recon' = None
      BY <1>5, <2>4
    <2> QED BY <2>2, <2>3, <2>4, ZenonT(60) DEF Next, CallerStep, AdminStep, Environment,
       Start, ReserveRefused, ReserveNew, ReserveReclaim, Claim, ClaimLost, Post, Answer, Finalize,
       FinalizeLate, Cancel, QuotaPoll, ResolveAbsent, ReconcileCommit, ReconcileDropped,
       RecordHistorical, Land, Lose, ManualPost, Restart, Tick, vars
  <1>6. ASSUME NEW i \in Ids, ops'[i].status = "succeeded" PROVE Shown(ops[i].payload)'
    <2>1. ASSUME ops[i] # NoRow, Shown(ops[i].payload) PROVE Shown(ops[i].payload)'
      <3>1. ops'[i].payload = ops[i].payload
        BY <2>1, <1>t, PayloadStays
      <3> QED BY <2>1, <3>1, ShownStays DEF Shown
    <2>2. CASE ops[i].status = "succeeded"
      BY <2>1, <2>2 DEF RealInv, SuccessIsReal, Shown, NoRow
    <2>3. ASSUME NEW c \in Callers, Finalize(c), callers[c].op = i,
                 callers[c].result.status = "succeeded"
          PROVE  Shown(ops[i].payload)'
      <3>1. callers[c] \in Call
        BY <2>3, <1>t, Distinct DEF Finalize, TypeOK
      <3>2. i \in Ops /\ requests[i] = "landed" /\ ops[i] # NoRow
        BY <2>3, <3>1 DEF Call, Finalize, RealInv, Owns, NoRow
      <3> QED BY <2>1, <3>2 DEF RealInv
    <2>4. ASSUME ReconcileCommit, recon.op = i PROVE Shown(ops[i].payload)'
      BY <2>1, <2>4 DEF ReconcileCommit, RealInv
    <2>5. ASSUME NEW f \in Recordable, RecordHistorical(f), HistId(f) = i
          PROVE  Shown(ops[i].payload)'
      <3>1. f \in FeedIds /\ feeds[f] # None /\ feeds' = feeds /\ feeds[f] \in Feed
        BY <2>5, <1>t, ConstantsAssumption DEF RecordHistorical, remote, TypeOK
      <3>2. ops'[i].payload = [feeds[f].payload EXCEPT !.kind = "post", !.source = HistId(f)]
        BY <2>5, <1>t DEF RecordHistorical, TypeOK
      <3>3. ops'[i].payload.bot = feeds[f].payload.bot /\ ops'[i].payload.text = feeds[f].payload.text
        BY <3>1, <3>2 DEF Feed, RowPayload
      <3> QED BY <3>1, <3>3 DEF Shown
    <2> QED BY <1>6, <2>2, <2>3, <2>4, <2>5, Successes
  <1>7. SuccessIsReal'
    BY <1>6 DEF SuccessIsReal, Shown
  <1> QED BY <1>1, <1>2, <1>3, <1>4, <1>5, <1>7 DEF RealInv

\* A row is a success only if a feed with its text exists in its bot's space, however
\* answers, crashes, reconciliations and the historical record interleave: for every
\* value of the constants.
THEOREM SuccessIsRealAlways == Spec => []SuccessIsReal
  <1>1. Init => RealInv
    BY DEF Init, RealInv, SuccessIsReal, Idle, NoRow, FeedIds
  <1>2. RealInv => SuccessIsReal
    BY DEF RealInv
  <1> QED BY <1>1, <1>2, RealStep, Invariance, PTL DEF Spec
=============================================================================
