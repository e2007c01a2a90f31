------------------------- MODULE SocialWritesProofs -------------------------
(***************************************************************************)
(* Proofs about the social writes, for any jobs, plans, limits and clock.  *)
(*                                                                         *)
(* A step touches one job, its row and its external write, so what ties    *)
(* the three together is stated for one job (Sound) and kept by each       *)
(* action; what ties jobs to one another (Seals, Hashes, Counts) follows   *)
(* from the few ways in which a claim or a row may change.                 *)
(***************************************************************************)
EXTENDS SocialWrites, FiniteSetTheorems, TLAPS

Before == {"claim", "reserve", "mark", "abort", "write"}
OnFile == {"mark", "abort", "finalize"}
Gone   == {"none", "lost"}

\* What a job, its row and its write say of one another.
Sound(job, row, w) ==
    /\ job \in Job \cup {Idle} /\ row \in Row \cup {NoRow} /\ w \in Wire
    /\ job = Idle \/ job.pc \in Before => w = "none"
    /\ job # Idle =>
        /\ job.plan \in Plans
        /\ job.pc \in Before => job.outcome = "unknown"
        /\ job.pc \in {"claim", "settle"} => job.plan.decision # None
        /\ job.pc \in {"reserve"} \cup OnFile => job.plan.channel # "chat"
        /\ job.pc = "mark" => row.status = "reserved"
        /\ job.pc = "abort" => row.status \in {"reserved", "dispatching"}
        /\ job.pc \in {"write", "await", "finalize"} /\ job.plan.channel # "chat" =>
              row.status = "dispatching"
        /\ job.plan.channel # "chat" /\ w \notin Gone /\ job.outcome # "definite_failure"
              => row.status \in Counted
    /\ job = Idle \/ job.pc \in {"claim", "reserve"} => row = NoRow
    /\ row # NoRow =>
        /\ job # Idle
        /\ row.payload = job.plan.payload /\ row.group = job.plan.group
        /\ row.day = DayOf(job.at)
        /\ row.status = "definite_failure" => w \in Gone \/ job.outcome = "definite_failure"

AllSound == \A j \in Jobs : Sound(jobs[j], ops[j], wire[j])
IInv == TypeOK /\ AllSound

LEMMA Distinct ==
    /\ Idle \notin Job /\ NoRow \notin Row /\ NoRow.status \notin Counted
    /\ \A d \in Decision : d # None
    /\ \A p \in Payload : p # None
  BY SocialConstants DEF Idle, Job, NoRow, Row, Counted, Steps

LEMMA PlanFacts ==
    ASSUME NEW p \in Plans
    PROVE  /\ p \in Plan
           /\ p.decision # None => p.decision \in Decision /\ p.decision.target \in Targets
                                   /\ p.decision.parent \in Events \cup {None}
           /\ p.channel # "chat" => p.payload \in Payload
           /\ p.target \in Targets /\ p.group \in Groups
           /\ p.channel = "chat" => p.payload = None
           /\ p.payload # None => p.payload.target = p.target
  BY SocialConstants DEF Plan, Decision

\* A job that stands at a step of the code has started.
LEMMA Started ==
    ASSUME IInv, NEW j \in Jobs, jobs[j].pc \in Steps
    PROVE  /\ jobs[j] \in Job /\ jobs[j] # Idle
           /\ jobs[j].plan \in Plans /\ jobs[j].at \in Times /\ jobs[j].outcome \in Outcomes
  BY DEF IInv, TypeOK, AllSound, Sound, Job, Idle, Steps

\* The job goes on to pc with the outcome o.
Goes(j, pc, o) == \/ Goto(j, pc) /\ o = jobs[j].outcome
                  \/ End(j, pc, o)

LEMMA Moved ==
    ASSUME IInv, NEW j \in Jobs, jobs[j] \in Job, NEW pc \in Steps, NEW o \in Outcomes,
           Goes(j, pc, o)
    PROVE  /\ jobs' \in [Jobs -> Job \cup {Idle}]
           /\ jobs'[j] \in Job /\ jobs'[j] # Idle
           /\ jobs'[j].pc = pc /\ jobs'[j].outcome = o
           /\ jobs'[j].plan = jobs[j].plan /\ jobs'[j].at = jobs[j].at
           /\ \A k \in Jobs \ {j} : jobs'[k] = jobs[k]
  <1> DEFINE new == [jobs[j] EXCEPT !.pc = pc, !.outcome = o]
  <1>1. jobs \in [Jobs -> Job \cup {Idle}]
    BY DEF IInv, TypeOK
  <1>2. /\ new \in Job /\ new.pc = pc /\ new.outcome = o
        /\ new.plan = jobs[j].plan /\ new.at = jobs[j].at
    BY DEF Job
  <1>3. jobs' = [jobs EXCEPT ![j] = new]
    <2>1. CASE Goto(j, pc) /\ o = jobs[j].outcome
      <3>1. [jobs[j] EXCEPT !.pc = pc] = new
        BY <2>1 DEF Job
      <3> QED
        BY <2>1, <3>1 DEF Goto
    <2>2. CASE End(j, pc, o)
      BY <2>2 DEF End
    <2> QED
      BY <2>1, <2>2 DEF Goes
  <1>4. new # Idle
    BY <1>2, Distinct
  <1> HIDE DEF new
  <1> QED
    BY <1>1, <1>2, <1>3, <1>4

Others(j) == \A k \in Jobs \ {j} : jobs'[k] = jobs[k] /\ ops'[k] = ops[k] /\ wire'[k] = wire[k]

\* Jobs do not touch one another.
LEMMA OneJob ==
    ASSUME IInv, NEW j \in Jobs, Others(j), Sound(jobs'[j], ops'[j], wire'[j])
    PROVE  AllSound'
  BY DEF IInv, AllSound, Others

LEMMA InitSound == Init => IInv
  <1> SUFFICES ASSUME Init PROVE IInv
    OBVIOUS
  <1>1. 0 \in Times /\ \A t \in Times : DayOf(t) \in Days
    BY SocialConstants DEF Times, Days
  <1>2. TypeOK
    BY <1>1 DEF Init, TypeOK, Wire
  <1>3. AllSound
    BY <1>2 DEF Init, AllSound, Sound, Idle, NoRow, Wire, Before, OnFile, Gone
  <1> QED
    BY <1>2, <1>3 DEF IInv


\* What an action proves of the whole from what it does to its job.
LEMMA Kept ==
    ASSUME IInv, NEW j \in Jobs, Others(j), Sound(jobs'[j], ops'[j], wire'[j]),
           jobs' \in [Jobs -> Job \cup {Idle}], ops' \in [Jobs -> Row \cup {NoRow}],
           wire' \in [Jobs -> Wire], UNCHANGED <<clock, claims, pace, sentLog>>
    PROVE  IInv'
  BY OneJob DEF IInv, TypeOK

LEMMA StartSound ==
    ASSUME IInv, NEW j \in Jobs, NEW plan \in Plans, Start(j, plan) PROVE IInv'
  <1> DEFINE new == [pc |-> IF plan.decision = None THEN AfterClaim(plan) ELSE "claim",
                     plan |-> plan, at |-> clock, outcome |-> "unknown"]
  <1>1. new \in Job /\ new # Idle
    BY PlanFacts, Distinct DEF IInv, TypeOK, Job, AfterClaim, Steps, Outcomes
  <1>2. jobs' = [jobs EXCEPT ![j] = new] /\ UNCHANGED <<clock, claims, pace, ops, sentLog, wire>>
    BY DEF Start
  <1>3. jobs \in [Jobs -> Job \cup {Idle}]
    BY DEF IInv, TypeOK
  <1>4. Sound(Idle, ops[j], wire[j])
    BY DEF IInv, AllSound, Start
  <1>5. /\ new.plan = plan /\ new.outcome = "unknown"
        /\ new.pc \in {"claim", "reserve", "write"}
        /\ new.pc = "claim" => plan.decision # None
        /\ new.pc = "reserve" => plan.channel # "chat"
        /\ new.pc = "write" => plan.channel = "chat"
    BY DEF AfterClaim
  <1> HIDE DEF new
  <1>6. Sound(new, ops[j], wire[j])
    BY <1>1, <1>4, <1>5, Distinct DEF Sound, Before, OnFile, Gone
  <1>7. jobs'[j] = new /\ Others(j) /\ jobs' \in [Jobs -> Job \cup {Idle}]
    BY <1>1, <1>2, <1>3 DEF Others
  <1> QED
    BY <1>2, <1>6, <1>7, Kept DEF IInv, TypeOK

\* A step that leaves the row and the write alone and goes where nothing is asked of them.
LEMMA WalkSound ==
    ASSUME IInv, NEW j \in Jobs, jobs[j].pc \in Steps,
           NEW pc \in {"settle", "log", "done"}, NEW o \in Outcomes,
           Goes(j, pc, o),
           UNCHANGED <<ops, wire>>,
           pc = "settle" => jobs[j].plan.decision # None,
           o = jobs[j].outcome \/ o = "definite_failure"
    PROVE  /\ jobs' \in [Jobs -> Job \cup {Idle}]
           /\ Others(j) /\ Sound(jobs'[j], ops'[j], wire'[j])
  <1>1. jobs[j] \in Job /\ jobs[j] # Idle
    BY Started
  <1>2. /\ jobs' \in [Jobs -> Job \cup {Idle}]
        /\ jobs'[j] \in Job /\ jobs'[j] # Idle
        /\ jobs'[j].pc = pc /\ jobs'[j].outcome = o
        /\ jobs'[j].plan = jobs[j].plan /\ jobs'[j].at = jobs[j].at
        /\ \A k \in Jobs \ {j} : jobs'[k] = jobs[k]
    BY <1>1, Moved DEF Steps
  <1>3. Sound(jobs[j], ops[j], wire[j])
    BY DEF IInv, AllSound
  <1>4. Sound(jobs'[j], ops[j], wire[j])
    BY <1>1, <1>2, <1>3 DEF Sound, Before, OnFile
  <1> QED
    BY <1>2, <1>4 DEF Others

LEMMA ClaimSound == ASSUME IInv, NEW j \in Jobs, Claim(j) PROVE IInv'
  <1> DEFINE d == jobs[j].plan.decision
             t == jobs[j].at
             pc == AfterClaim(jobs[j].plan)
  <1>1. /\ jobs[j] \in Job /\ jobs[j] # Idle /\ t \in Times
        /\ jobs[j].plan \in Plans /\ Sound(jobs[j], ops[j], wire[j]) /\ jobs[j].pc = "claim"
    BY Started DEF Claim, At, Steps, IInv, AllSound
  <1>2. d \in Decision /\ d.target \in Targets /\ d.parent \in Events \cup {None}
    BY <1>1, PlanFacts DEF Sound
  <1>3. /\ pc \in Steps /\ jobs[j].outcome \in Outcomes
        /\ pc = "write" => jobs[j].plan.channel = "chat"
        /\ pc # "write" => pc = "reserve" /\ jobs[j].plan.channel # "chat"
    BY <1>1, Started DEF AfterClaim, Steps
  <1>4. Goes(j, pc, jobs[j].outcome) /\ UNCHANGED <<clock, ops, sentLog, wire>>
    BY DEF Claim, Goes
  <1>5. claims' \in [Decision -> Entry \cup {NoEntry}]
    <2>1. [status |-> "reserved", at |-> t] \in Entry
      BY <1>1 DEF Entry
    <2>2. claims' = [claims EXCEPT ![d] = [status |-> "reserved", at |-> t]]
      BY DEF Claim
    <2> QED
      BY <1>2, <2>1, <2>2 DEF IInv, TypeOK
  <1>6. pace' \in [Targets -> Pacing \cup {NoPace}]
    <2> DEFINE mark == [at |-> t, parent |-> d.parent, composite |-> Composite(d)]
    <2>1. mark \in Pacing
      BY <1>1, <1>2 DEF Pacing, Composite
    <2>2. pace' = [pace EXCEPT ![d.target] = mark]
      BY DEF Claim
    <2> QED
      BY <1>2, <2>1, <2>2 DEF IInv, TypeOK
  <1> HIDE DEF pc
  <1>7. /\ jobs' \in [Jobs -> Job \cup {Idle}]
        /\ jobs'[j] \in Job /\ jobs'[j] # Idle
        /\ jobs'[j].pc = pc /\ jobs'[j].outcome = jobs[j].outcome
        /\ jobs'[j].plan = jobs[j].plan /\ jobs'[j].at = jobs[j].at
        /\ \A k \in Jobs \ {j} : jobs'[k] = jobs[k]
    BY <1>1, <1>3, <1>4, Moved
  <1>8. Sound(jobs'[j], ops[j], wire[j])
    BY <1>1, <1>3, <1>7, Distinct DEF Sound, Before, OnFile, Gone
  <1>9. AllSound'
    BY <1>4, <1>7, <1>8, OneJob DEF Others
  <1> QED
    BY <1>4, <1>5, <1>6, <1>7, <1>9 DEF IInv, TypeOK

LEMMA SettleSound == ASSUME IInv, NEW j \in Jobs, Settle(j) \/ SettleFails(j) PROVE IInv'
  <1>1. /\ jobs[j] \in Job /\ jobs[j].pc \in Steps /\ jobs[j].outcome \in Outcomes
        /\ Sound(jobs[j], ops[j], wire[j]) /\ jobs[j] # Idle
    BY Started DEF Settle, SettleFails, At, Steps, IInv, AllSound
  <1>2. /\ AfterSettle(j) \in {"log", "done"}
        /\ Goes(j, AfterSettle(j), jobs[j].outcome)
        /\ UNCHANGED <<clock, pace, ops, sentLog, wire>>
    BY DEF Settle, SettleFails, AfterSettle, Goes
  <1>3. /\ jobs' \in [Jobs -> Job \cup {Idle}]
        /\ Others(j) /\ Sound(jobs'[j], ops'[j], wire'[j])
    BY <1>1, <1>2, WalkSound DEF Sound
  <1>4. claims' \in [Decision -> Entry \cup {NoEntry}]
    <2>1. CASE Settle(j)
      <3> DEFINE d == jobs[j].plan.decision
                 new == [claims[d] EXCEPT !.status = IF claims[d] = NoEntry THEN @
                                                     ELSE Settled(jobs[j].outcome)]
      <3>1. claims' = [claims EXCEPT ![d] = new]
        BY <2>1 DEF Settle
      <3>2. ASSUME d \in Decision PROVE new \in Entry \cup {NoEntry}
        <4>1. claims[d] \in Entry \cup {NoEntry} /\ Settled(jobs[j].outcome) \in {"sent", "unknown", "failed"}
          BY <3>2 DEF IInv, TypeOK, Settled
        <4>2. CASE claims[d] = NoEntry
          BY <4>2 DEF NoEntry
        <4>3. CASE claims[d] # NoEntry
          BY <4>1, <4>3 DEF Entry
        <4> QED
          BY <4>2, <4>3
      <3> HIDE DEF new
      <3> QED
        BY <3>1, <3>2 DEF IInv, TypeOK
    <2>2. CASE SettleFails(j)
      BY <2>2 DEF SettleFails, IInv, TypeOK
    <2> QED
      BY <2>1, <2>2
  <1>5. AllSound'
    BY <1>3, OneJob
  <1> QED
    BY <1>2, <1>3, <1>4, <1>5 DEF IInv, TypeOK


\* The row suits the job once it has gone on to pc with the outcome o.
Fits(j, pc, o, row) ==
    \A job \in Job :
        /\ job.pc = pc /\ job.outcome = o
        /\ job.plan = jobs[j].plan /\ job.at = jobs[j].at
        => Sound(job, row, wire[j])

\* A step that rewrites the job's row.
LEMMA RowSound ==
    ASSUME IInv, NEW j \in Jobs, jobs[j].pc \in Steps, NEW pc \in Steps, NEW o \in Outcomes,
           Goes(j, pc, o),
           NEW row, ops' = [ops EXCEPT ![j] = row],
           UNCHANGED <<clock, claims, pace, sentLog, wire>>,
           Fits(j, pc, o, row)
    PROVE  IInv'
  <1>1. jobs[j] \in Job
    BY Started
  <1>2. /\ jobs' \in [Jobs -> Job \cup {Idle}]
        /\ jobs'[j] \in Job /\ jobs'[j].pc = pc /\ jobs'[j].outcome = o
        /\ jobs'[j].plan = jobs[j].plan /\ jobs'[j].at = jobs[j].at
        /\ \A k \in Jobs \ {j} : jobs'[k] = jobs[k]
    BY <1>1, Moved
  <1>3. Sound(jobs'[j], row, wire[j])
    BY <1>2 DEF Fits
  <1>4. row \in Row \cup {NoRow} /\ ops \in [Jobs -> Row \cup {NoRow}] /\ wire \in [Jobs -> Wire]
    BY <1>3 DEF Sound, IInv, TypeOK
  <1>5. /\ ops' \in [Jobs -> Row \cup {NoRow}] /\ ops'[j] = row
        /\ \A k \in Jobs \ {j} : ops'[k] = ops[k]
    BY <1>4
  <1>6. Others(j) /\ Sound(jobs'[j], ops'[j], wire'[j])
    BY <1>2, <1>3, <1>5 DEF Others
  <1> QED
    BY <1>2, <1>4, <1>5, <1>6, Kept

LEMMA ReserveSound == ASSUME IInv, NEW j \in Jobs, Reserve(j) PROVE IInv'
  <1> DEFINE plan == jobs[j].plan
             t == jobs[j].at
             row == [status |-> "reserved", payload |-> plan.payload, group |-> plan.group,
                     day |-> DayOf(t), created |-> t, started |-> 0, touched |-> FALSE]
  <1>1. /\ jobs[j].pc = "reserve" /\ jobs[j].pc \in Steps /\ Sound(jobs[j], ops[j], wire[j])
        /\ plan \in Plans /\ t \in Times /\ jobs[j].outcome \in Outcomes /\ jobs[j] # Idle
    BY Started DEF Reserve, At, Steps, IInv, AllSound
  <1>2. plan.payload \in Payload /\ plan.group \in Groups
    BY <1>1, PlanFacts DEF Sound
  <1>3. DayOf(t) \in Days /\ 0 \in Times
    BY <1>1, SocialConstants DEF Days, Times
  <1>4. row \in Row
    BY <1>1, <1>2, <1>3 DEF Row, Counted
  <1>5. /\ row.status = "reserved" /\ row.payload = plan.payload /\ row.group = plan.group
        /\ row.day = DayOf(t)
    OBVIOUS
  <1>6. /\ Goes(j, "mark", jobs[j].outcome) /\ ops' = [ops EXCEPT ![j] = row]
        /\ UNCHANGED <<clock, claims, pace, sentLog, wire>>
    BY DEF Reserve, Goes
  <1> HIDE DEF row
  <1>7. Fits(j, "mark", jobs[j].outcome, row)
    <2>1. SUFFICES ASSUME NEW job \in Job, job.pc = "mark", job.outcome = jobs[j].outcome,
                          job.plan = jobs[j].plan, job.at = jobs[j].at
                   PROVE  Sound(job, row, wire[j])
      BY DEF Fits
    <2> QED
      BY <1>1, <1>4, <1>5, <2>1, Distinct DEF Sound, Before, OnFile, Gone
  <1> QED
    BY <1>1, <1>6, <1>7, RowSound DEF Steps

LEMMA MarkSound == ASSUME IInv, NEW j \in Jobs, MarkDispatching(j) \/ MarkFails(j) PROVE IInv'
  <1>1. /\ jobs[j].pc = "mark" /\ jobs[j].pc \in Steps /\ Sound(jobs[j], ops[j], wire[j])
        /\ jobs[j].outcome \in Outcomes /\ jobs[j] # Idle
    BY Started DEF MarkDispatching, MarkFails, At, Steps, IInv, AllSound
  <1>2. ops[j] \in Row /\ ops[j].status = "reserved" /\ ops \in [Jobs -> Row \cup {NoRow}]
    BY <1>1, Distinct DEF Sound, NoRow, IInv, TypeOK
  <1>3. PICK pc \in {"write", "abort"} :
            /\ Goes(j, pc, jobs[j].outcome)
            /\ pc = "write" => MarkDispatching(j)
    BY DEF MarkDispatching, MarkFails, Goes
  <1>4. PICK row \in {ops[j], Dispatching(ops[j])} :
            /\ ops' = [ops EXCEPT ![j] = row]
            /\ pc = "write" => row = Dispatching(ops[j])
    <2>1. CASE MarkDispatching(j)
      BY <2>1 DEF MarkDispatching
    <2>2. CASE MarkFails(j)
      <3>1. CASE pc = "write"
        BY <1>3, <3>1 DEF MarkDispatching
      <3>2. CASE pc # "write"
        <4>1. ops = [ops EXCEPT ![j] = ops[j]]
          BY <1>2
        <4> QED
          BY <2>2, <3>2, <4>1 DEF MarkFails
      <3> QED
        BY <3>1, <3>2
    <2> QED
      BY <2>1, <2>2
  <1>5. /\ row \in Row /\ row.payload = ops[j].payload /\ row.group = ops[j].group
        /\ row.day = ops[j].day
        /\ row.status \in {"reserved", "dispatching"}
        /\ pc = "write" => row.status = "dispatching"
    <2>1. Dispatching(ops[j]) \in Row
      BY <1>2 DEF Dispatching, Row, Counted, IInv, TypeOK
    <2> QED
      BY <1>2, <1>4, <2>1 DEF Dispatching, Row
  <1>6. Fits(j, pc, jobs[j].outcome, row)
    <2>1. SUFFICES ASSUME NEW job \in Job, job.pc = pc, job.outcome = jobs[j].outcome,
                          job.plan = jobs[j].plan, job.at = jobs[j].at
                   PROVE  Sound(job, row, wire[j])
      BY DEF Fits
    <2> QED
      BY <1>1, <1>2, <1>3, <1>5, <2>1, Distinct DEF Sound, Before, OnFile, Gone
  <1>7. UNCHANGED <<clock, claims, pace, sentLog, wire>>
    BY DEF MarkDispatching, MarkFails
  <1> QED
    BY <1>1, <1>3, <1>4, <1>6, <1>7, RowSound DEF Steps

\* A row that keeps what it is about.
LEMMA Restated ==
    ASSUME NEW row \in Row, NEW s \in Counted \cup {"definite_failure"}
    PROVE  /\ [row EXCEPT !.status = s] \in Row
           /\ [row EXCEPT !.status = s].status = s
           /\ [row EXCEPT !.status = s].payload = row.payload
           /\ [row EXCEPT !.status = s].group = row.group
           /\ [row EXCEPT !.status = s].day = row.day
  BY DEF Row

LEMMA AbortSound == ASSUME IInv, NEW j \in Jobs, AbortReserved(j) \/ AbortFails(j) PROVE IInv'
  <1>1. /\ jobs[j].pc = "abort" /\ jobs[j].pc \in Steps /\ Sound(jobs[j], ops[j], wire[j])
        /\ jobs[j] # Idle
    BY Started DEF AbortReserved, AbortFails, At, Steps, IInv, AllSound
  <1>2. /\ ops[j] \in Row /\ ops[j].status \in {"reserved", "dispatching"}
        /\ ops \in [Jobs -> Row \cup {NoRow}] /\ wire[j] = "none"
    BY <1>1, Distinct DEF Sound, NoRow, IInv, TypeOK, Before
  <1>3. PICK o \in {"definite_failure", "unknown"} : Goes(j, SettleOrEnd(j), o)
    BY DEF AbortReserved, AbortFails, Goes
  <1>4. /\ SettleOrEnd(j) \in {"settle", "done"}
        /\ SettleOrEnd(j) = "settle" => jobs[j].plan.decision # None
    BY DEF SettleOrEnd
  <1>5. PICK row \in {ops[j], [ops[j] EXCEPT !.status = "definite_failure"]} :
            ops' = [ops EXCEPT ![j] = row]
    <2>1. ops = [ops EXCEPT ![j] = ops[j]]
      BY <1>2
    <2>2. CASE ops' = ops
      BY <2>1, <2>2
    <2>3. CASE ops' = [ops EXCEPT ![j].status = "definite_failure"]
      BY <2>3
    <2>4. CASE ops' = [ops EXCEPT ![j].status = IF @ = "reserved" THEN "definite_failure" ELSE @]
      <3>1. [ops[j] EXCEPT !.status = ops[j].status] = ops[j]
        BY <1>2 DEF Row
      <3> QED
        BY <2>1, <2>4, <3>1
    <2> QED
      BY <2>2, <2>3, <2>4 DEF AbortReserved, AbortFails
  <1>6. /\ row \in Row /\ row.payload = ops[j].payload /\ row.group = ops[j].group
        /\ row.day = ops[j].day
    BY <1>2, <1>5 DEF Row
  <1>7. Fits(j, SettleOrEnd(j), o, row)
    <2>1. SUFFICES ASSUME NEW job \in Job, job.pc = SettleOrEnd(j), job.outcome = o,
                          job.plan = jobs[j].plan, job.at = jobs[j].at
                   PROVE  Sound(job, row, wire[j])
      BY DEF Fits
    <2> QED
      BY <1>1, <1>2, <1>4, <1>6, <2>1, Distinct DEF Sound, Before, OnFile, Gone
  <1>8. UNCHANGED <<clock, claims, pace, sentLog, wire>>
    BY DEF AbortReserved, AbortFails
  <1> QED
    <2>1. SettleOrEnd(j) \in Steps /\ o \in Outcomes
      BY <1>4 DEF Steps, Outcomes
    <2> QED
      BY <1>1, <1>3, <1>5, <1>7, <1>8, <2>1, RowSound

LEMMA FinalizeSound == ASSUME IInv, NEW j \in Jobs, Finalize(j) PROVE IInv'
  <1>1. /\ jobs[j].pc = "finalize" /\ jobs[j].pc \in Steps /\ Sound(jobs[j], ops[j], wire[j])
        /\ jobs[j] # Idle /\ jobs[j].outcome \in Outcomes
    BY Started DEF Finalize, At, Steps, IInv, AllSound
  <1>2. /\ ops[j] \in Row /\ ops[j].status = "dispatching"
    BY <1>1, Distinct DEF Sound, NoRow, OnFile
  <1>3. /\ AfterFinalize(j) \in {"settle", "done"}
        /\ AfterFinalize(j) = "settle" => jobs[j].plan.decision # None
    BY DEF AfterFinalize
  <1> DEFINE row == [ops[j] EXCEPT !.status = jobs[j].outcome]
  <1>4. /\ ops' = [ops EXCEPT ![j] = row] /\ Goes(j, AfterFinalize(j), jobs[j].outcome)
        /\ UNCHANGED <<clock, claims, pace, sentLog, wire>>
    BY <1>2 DEF Finalize, Goes
  <1>5. /\ row \in Row /\ row.payload = ops[j].payload /\ row.group = ops[j].group
        /\ row.day = ops[j].day /\ row.status = jobs[j].outcome
    BY <1>1, <1>2, Restated DEF Outcomes, Counted
  <1>6. row.status \in Counted \/ row.status = "definite_failure"
    BY <1>1, <1>5 DEF Outcomes, Counted
  <1> HIDE DEF row
  <1>7. Fits(j, AfterFinalize(j), jobs[j].outcome, row)
    <2>1. SUFFICES ASSUME NEW job \in Job, job.pc = AfterFinalize(j), job.outcome = jobs[j].outcome,
                          job.plan = jobs[j].plan, job.at = jobs[j].at
                   PROVE  Sound(job, row, wire[j])
      BY DEF Fits
    <2> QED
      BY <1>1, <1>2, <1>3, <1>5, <1>6, <2>1, Distinct DEF Sound, Before, OnFile
  <1> QED
    BY <1>1, <1>3, <1>4, <1>7, RowSound DEF Steps

LEMMA AnswerSound == ASSUME IInv, NEW j \in Jobs, Answer(j) PROVE IInv'
  <1>1. /\ jobs[j].pc = "await" /\ jobs[j].pc \in Steps /\ Sound(jobs[j], ops[j], wire[j])
        /\ jobs[j] # Idle /\ ops \in [Jobs -> Row \cup {NoRow}]
    BY Started DEF Answer, At, Steps, IInv, TypeOK, AllSound
  <1>2. PICK o \in Answers(j) : Goes(j, AfterAnswer(j, o), o)
    BY DEF Answer, Goes
  <1>3. o \in Outcomes
    BY DEF Answers, TakenAsRefused, Outcomes
  <1>4. /\ AfterAnswer(j, o) \in {"finalize", "settle", "log", "done"}
        /\ AfterAnswer(j, o) = "finalize" => jobs[j].plan.channel # "chat"
        /\ AfterAnswer(j, o) = "settle" => jobs[j].plan.decision # None
    BY DEF AfterAnswer
  <1>5. ops' = [ops EXCEPT ![j] = ops[j]] /\ UNCHANGED <<clock, claims, pace, sentLog, wire>>
    BY <1>1 DEF Answer
  <1>6. /\ jobs[j].plan.channel = "chat" => ops[j] = NoRow
        /\ jobs[j].plan.channel # "chat" => ops[j].status = "dispatching"
    BY <1>1, PlanFacts, Distinct DEF Sound, Row
  <1>7. Fits(j, AfterAnswer(j, o), o, ops[j])
    <2>1. SUFFICES ASSUME NEW job \in Job, job.pc = AfterAnswer(j, o), job.outcome = o,
                          job.plan = jobs[j].plan, job.at = jobs[j].at
                   PROVE  Sound(job, ops[j], wire[j])
      BY DEF Fits
    <2> QED
      BY <1>1, <1>3, <1>4, <1>6, <2>1, Distinct DEF Sound, Before, OnFile, Counted
  <1> QED
    BY <1>1, <1>2, <1>3, <1>4, <1>5, <1>7, RowSound DEF Steps

LEMMA WriteSound == ASSUME IInv, NEW j \in Jobs, Write(j) PROVE IInv'
  <1>1. /\ jobs[j].pc = "write" /\ jobs[j].pc \in Steps /\ Sound(jobs[j], ops[j], wire[j])
        /\ jobs[j] \in Job /\ jobs[j] # Idle /\ jobs[j].outcome \in Outcomes
        /\ wire \in [Jobs -> Wire]
    BY Started DEF Write, At, Steps, IInv, TypeOK, AllSound
  <1>2. /\ jobs' \in [Jobs -> Job \cup {Idle}]
        /\ jobs'[j] \in Job /\ jobs'[j] # Idle
        /\ jobs'[j].pc = "await" /\ jobs'[j].outcome = jobs[j].outcome
        /\ jobs'[j].plan = jobs[j].plan /\ jobs'[j].at = jobs[j].at
        /\ \A k \in Jobs \ {j} : jobs'[k] = jobs[k]
    <2>1. Goes(j, "await", jobs[j].outcome) /\ "await" \in Steps
      BY DEF Write, Goes, Steps
    <2> QED
      BY <1>1, <2>1, Moved
  <1>3. /\ wire' = [wire EXCEPT ![j] = "flying"]
        /\ UNCHANGED <<clock, claims, pace, ops, sentLog>>
    BY DEF Write
  <1>4. jobs[j].outcome = "unknown"
    BY <1>1 DEF Sound, Before
  <1>5. ops[j] # NoRow => ops[j].status # "definite_failure"
    <2>1. CASE jobs[j].plan.channel = "chat"
      <3>1. ops[j] = NoRow
        BY <1>1, <2>1, PlanFacts, Distinct DEF Sound, Row
      <3> QED
        BY <3>1
    <2>2. CASE jobs[j].plan.channel # "chat"
      BY <1>1, <2>2 DEF Sound
    <2> QED
      BY <2>1, <2>2
  <1>6. Sound(jobs'[j], ops[j], "flying")
    BY <1>1, <1>2, <1>4, <1>5 DEF Sound, Before, OnFile, Gone, Wire, Counted
  <1>7. /\ Others(j) /\ Sound(jobs'[j], ops'[j], wire'[j])
        /\ wire' \in [Jobs -> Wire] /\ ops' \in [Jobs -> Row \cup {NoRow}]
    BY <1>1, <1>2, <1>3, <1>6 DEF Others, Wire, IInv, TypeOK
  <1> QED
    BY <1>2, <1>3, <1>7, Kept

LEMMA DeliverSound == ASSUME IInv, NEW j \in Jobs, Deliver(j) PROVE IInv'
  <1>1. PICK w \in {"landed", "lost"} : wire' = [wire EXCEPT ![j] = w]
    BY DEF Deliver
  <1>2. /\ wire[j] = "flying" /\ UNCHANGED <<clock, claims, pace, ops, sentLog, jobs>>
        /\ Sound(jobs[j], ops[j], wire[j]) /\ wire \in [Jobs -> Wire]
    BY DEF Deliver, IInv, AllSound, TypeOK
  <1>3. Sound(jobs[j], ops[j], w)
    BY <1>2 DEF Sound, Gone, Wire
  <1>4. /\ Others(j) /\ Sound(jobs'[j], ops'[j], wire'[j]) /\ wire' \in [Jobs -> Wire]
    BY <1>1, <1>2, <1>3 DEF Others, Wire
  <1> QED
    BY <1>2, <1>4, Kept DEF IInv, TypeOK

LEMMA NextSound == ASSUME IInv, [Next]_vars PROVE IInv'
  <1>1. ASSUME NEW j \in Jobs, ClaimRefused(j) \/ ReserveRefused(j) \/ FinalizeFails(j)
        PROVE  IInv'
    <2>1. /\ jobs[j].pc \in {"claim", "reserve", "finalize"}
          /\ jobs[j].pc \in Steps /\ Sound(jobs[j], ops[j], wire[j])
          /\ jobs[j] # Idle /\ jobs[j].outcome \in Outcomes
      BY <1>1, Started DEF ClaimRefused, ReserveRefused, FinalizeFails, At, Steps, IInv, AllSound
    <2>2. UNCHANGED <<clock, claims, pace, ops, sentLog, wire>>
      BY <1>1 DEF ClaimRefused, ReserveRefused, FinalizeFails
    <2>3. PICK pc \in {"settle", "done"}, o \in Outcomes :
            /\ Goes(j, pc, o) /\ (o = jobs[j].outcome \/ o = "definite_failure")
            /\ pc = "settle" => jobs[j].plan.decision # None
      <3>1. CASE ClaimRefused(j)
        BY <2>1, <3>1 DEF ClaimRefused, Goes
      <3>2. CASE ReserveRefused(j)
        BY <3>2 DEF ReserveRefused, Goes, SettleOrEnd, At, Outcomes
      <3>3. CASE FinalizeFails(j)
        BY <2>1, <3>3 DEF FinalizeFails, Goes, AfterFinalize
      <3> QED
        BY <1>1, <3>1, <3>2, <3>3
    <2>4. jobs' \in [Jobs -> Job \cup {Idle}] /\ Others(j) /\ Sound(jobs'[j], ops'[j], wire'[j])
      BY <2>1, <2>2, <2>3, WalkSound
    <2> QED
      BY <2>2, <2>4, Kept DEF IInv, TypeOK
  <1>2. ASSUME NEW j \in Jobs, MarkSent(j) PROVE IInv'
    <2>1. /\ jobs[j].pc = "log" /\ jobs[j].pc \in Steps /\ Sound(jobs[j], ops[j], wire[j])
          /\ jobs[j] # Idle /\ jobs[j].outcome \in Outcomes /\ jobs[j].plan \in Plans
      BY <1>2, Started DEF MarkSent, At, Steps, IInv, AllSound
    <2>2. Goes(j, "done", jobs[j].outcome) /\ UNCHANGED <<clock, claims, pace, ops, wire>>
      BY <1>2 DEF MarkSent, Goes
    <2>3. jobs' \in [Jobs -> Job \cup {Idle}] /\ Others(j) /\ Sound(jobs'[j], ops'[j], wire'[j])
      BY <2>1, <2>2, WalkSound DEF Sound
    <2>4. sentLog' \in [Targets -> [Days -> Nat]]
      <3> DEFINE u == jobs[j].plan.target
                 row == [sentLog[u] EXCEPT ![DayOf(clock)] = @ + 1]
      <3>1. sentLog' = [sentLog EXCEPT ![u] = row]
        BY <1>2 DEF MarkSent
      <3>2. u \in Targets /\ DayOf(clock) \in Days /\ sentLog \in [Targets -> [Days -> Nat]]
        BY <2>1, PlanFacts DEF IInv, TypeOK, Days
      <3>3. row \in [Days -> Nat]
        BY <3>2
      <3> QED
        BY <3>1, <3>2, <3>3
    <2>5. AllSound'
      BY <2>3, OneJob
    <2> QED
      BY <2>2, <2>3, <2>4, <2>5 DEF IInv, TypeOK
  <1>3. CASE Tick
    <2>1. clock' \in Times
      BY <1>3, SocialConstants DEF Tick, IInv, TypeOK, Times
    <2> QED
      BY <1>3, <2>1 DEF Tick, IInv, TypeOK, AllSound
  <1>4. CASE UNCHANGED vars
    BY <1>4 DEF vars, IInv, TypeOK, AllSound
  <1> QED
    BY <1>1, <1>2, <1>3, <1>4, StartSound, ClaimSound, SettleSound, ReserveSound, MarkSound,
       AbortSound, FinalizeSound, AnswerSound, WriteSound, DeliverSound DEF Next

LEMMA SoundAlways == Spec => []IInv
  BY InitSound, NextSound, PTL DEF Spec

(* The store, the jobs and their writes are well typed.                     *)
THEOREM TypeCorrect == Spec => []TypeOK
  <1>1. IInv => TypeOK
    BY DEF IInv
  <1> QED
    BY <1>1, SoundAlways, PTL
-----------------------------------------------------------------------------
(* Decisions.  A job is busy while it holds its claim or its write stands;  *)
(* of the jobs of one decision that rests on an event one is busy, and none *)
(* while the claim is open.                                                 *)
Holding == {"reserve", "mark", "abort", "write", "await", "finalize", "settle"}
Busy(j) == Stands(j) \/ jobs[j].pc \in Holding
SealOf(d) ==
    /\ \A i, j \in Decided(d) : Busy(i) /\ Busy(j) => i = j
    /\ claims[d].status \in {"none", "failed"} => \A j \in Decided(d) : ~ Busy(j)
Seals == \A d \in Decision : Backed(d) => SealOf(d)

\* How a job may come to be busy, and what it keeps.

\* The steps of a job that has started, but for those of its write alone.
JobStep(j) ==
    \/ Claim(j) \/ ClaimRefused(j) \/ Settle(j) \/ SettleFails(j)
    \/ Reserve(j) \/ ReserveRefused(j)
    \/ MarkDispatching(j) \/ MarkFails(j) \/ AbortReserved(j) \/ AbortFails(j)
    \/ Write(j) \/ Answer(j) \/ Finalize(j) \/ FinalizeFails(j) \/ MarkSent(j)

LEMMA Kinds ==
    ASSUME [Next]_vars
    PROVE  \/ \E j \in Jobs : JobStep(j) \/ Deliver(j) \/ \E plan \in Plans : Start(j, plan)
           \/ UNCHANGED <<claims, pace, ops, sentLog, jobs, wire>>
  BY DEF Next, JobStep, Tick, vars

LEMMA JobGoes ==
    ASSUME IInv, NEW j \in Jobs, JobStep(j)
    PROVE  /\ jobs[j] \in Job
           /\ \E pc \in Steps, o \in Outcomes : Goes(j, pc, o)
           /\ \/ jobs[j].pc \in Holding
              \/ wire' = wire /\ (Claim(j) \/ Goes(j, "done", jobs[j].outcome))
  <1>1. jobs[j].pc \in Steps
    BY DEF JobStep, Claim, ClaimRefused, Settle, SettleFails, Reserve, ReserveRefused,
       MarkDispatching, MarkFails, AbortReserved, AbortFails, Write, Answer, Finalize,
       FinalizeFails, MarkSent, At, Steps
  <1>2. jobs[j] \in Job /\ jobs[j].outcome \in Outcomes
    BY <1>1, Started
  <1>3. /\ AfterClaim(jobs[j].plan) \in Steps /\ SettleOrEnd(j) \in Steps
        /\ AfterSettle(j) \in Steps /\ AfterFinalize(j) \in Steps
        /\ \A o \in Outcomes : AfterAnswer(j, o) \in Steps
        /\ Answers(j) \subseteq Outcomes
    BY DEF AfterClaim, SettleOrEnd, AfterSettle, AfterFinalize, AfterAnswer, Answers, TakenAsRefused, Steps,
       Outcomes
  <1>4. \E pc \in Steps, o \in Outcomes : Goes(j, pc, o)
    <2>1. CASE \E pc \in Steps : Goto(j, pc)
      BY <1>2, <2>1 DEF Goes
    <2>2. CASE \E pc \in Steps, o \in Outcomes : End(j, pc, o)
      BY <2>2 DEF Goes
    <2>3. {"done", "mark", "write", "abort", "await"} \subseteq Steps
      BY DEF Steps
    <2>4. {"definite_failure", "unknown"} \subseteq Outcomes
      BY DEF Outcomes
    <2>5. CASE Answer(j)
      BY <1>3, <2>2, <2>5 DEF Answer
    <2>6. CASE ReserveRefused(j) \/ AbortReserved(j) \/ AbortFails(j)
      BY <1>3, <2>2, <2>4, <2>6 DEF ReserveRefused, AbortReserved, AbortFails
    <2> QED
      BY <1>3, <2>1, <2>3, <2>5, <2>6 DEF JobStep, Claim, ClaimRefused, Settle, SettleFails,
         Reserve, MarkDispatching, MarkFails, Write, Finalize, FinalizeFails, MarkSent
  <1>5. \/ jobs[j].pc \in Holding
        \/ wire' = wire /\ (Claim(j) \/ Goes(j, "done", jobs[j].outcome))
    <2>1. CASE ClaimRefused(j) \/ MarkSent(j)
      BY <2>1 DEF ClaimRefused, MarkSent, Goes
    <2>2. CASE Claim(j)
      BY <2>2 DEF Claim
    <2> QED
      BY <2>1, <2>2 DEF JobStep, Settle, SettleFails, Reserve, ReserveRefused,
         MarkDispatching, MarkFails, AbortReserved, AbortFails, Write, Answer, Finalize,
         FinalizeFails, At, Holding
  <1> QED
    BY <1>2, <1>4, <1>5

\* A step of one job leaves the write of another alone.
LEMMA WireSteps ==
    ASSUME IInv, NEW j \in Jobs, JobStep(j) \/ Deliver(j) \/ (\E plan \in Plans : Start(j, plan)),
           NEW k \in Jobs, k # j
    PROVE  wire'[k] = wire[k]
  BY DEF JobStep, Claim, ClaimRefused, Settle, SettleFails, Reserve, ReserveRefused,
     MarkDispatching, MarkFails, AbortReserved, AbortFails, Write, Answer, Finalize,
     FinalizeFails, MarkSent, Deliver, Start, IInv, TypeOK

\* How a job may come to be busy, and what it keeps.
LEMMA BusySteps ==
    ASSUME IInv, [Next]_vars, NEW k \in Jobs
    PROVE  /\ jobs[k] # Idle => /\ jobs'[k] # Idle
                                /\ jobs'[k].plan = jobs[k].plan /\ jobs'[k].at = jobs[k].at
           /\ Busy(k)' => Busy(k) \/ Claim(k) \/ jobs'[k].plan.decision = None
  <1>1. ASSUME NEW j \in Jobs, JobStep(j)
        PROVE  /\ jobs[k] # Idle => /\ jobs'[k] # Idle
                                    /\ jobs'[k].plan = jobs[k].plan /\ jobs'[k].at = jobs[k].at
               /\ Busy(k)' => Busy(k) \/ Claim(k)
    <2>1. PICK pc \in Steps, o \in Outcomes : Goes(j, pc, o)
      BY <1>1, JobGoes
    <2>2. /\ jobs'[j].plan = jobs[j].plan /\ jobs'[j].at = jobs[j].at /\ jobs'[j] # Idle
          /\ \A i \in Jobs \ {j} : jobs'[i] = jobs[i]
      BY <1>1, <2>1, JobGoes, Moved
    <2>3. CASE k # j
      BY <1>1, <2>2, <2>3, WireSteps DEF Busy, Stands
    <2>4. CASE k = j
      <3>1. CASE jobs[j].pc \in Holding
        BY <2>2, <2>4, <3>1 DEF Busy
      <3>2. CASE wire' = wire /\ Goes(j, "done", jobs[j].outcome)
        <4>1. jobs[j] \in Job /\ "done" \in Steps /\ jobs[j].outcome \in Outcomes
          BY <1>1, JobGoes DEF Job, Steps
        <4>2. jobs'[j].pc = "done" /\ jobs'[j].outcome = jobs[j].outcome
          BY <3>2, <4>1, Moved
        <4> QED
          BY <2>2, <2>4, <3>2, <4>2 DEF Busy, Stands, Holding
      <3> QED
        BY <1>1, <2>2, <2>4, <3>1, <3>2, JobGoes
    <2> QED
      BY <2>3, <2>4
  <1>2. ASSUME NEW j \in Jobs, Deliver(j)
        PROVE  jobs' = jobs /\ (Busy(k)' => Busy(k))
    <2>1. CASE k # j
      BY <1>2, <2>1, WireSteps DEF Deliver, Busy, Stands
    <2>2. CASE k = j
      BY <1>2, <2>2 DEF Deliver, Busy, Stands
    <2> QED
      BY <1>2, <2>1, <2>2 DEF Deliver
  <1>3. ASSUME NEW j \in Jobs, NEW plan \in Plans, Start(j, plan)
        PROVE  /\ jobs[k] # Idle => jobs'[k] = jobs[k]
               /\ Busy(k)' => Busy(k) \/ jobs'[k].plan.decision = None
    <2>1. jobs \in [Jobs -> Job \cup {Idle}] /\ Sound(jobs[j], ops[j], wire[j])
      BY DEF IInv, TypeOK, AllSound
    <2>2. /\ jobs[j] = Idle /\ wire' = wire /\ wire[j] = "none"
          /\ \A i \in Jobs \ {j} : jobs'[i] = jobs[i]
          /\ jobs'[j].plan = plan
          /\ plan.decision # None => jobs'[j].pc = "claim"
      BY <1>3, <2>1 DEF Start, Sound
    <2> QED
      BY <2>2 DEF Busy, Stands, Holding
  <1>4. CASE UNCHANGED <<claims, pace, ops, sentLog, jobs, wire>>
    BY <1>4 DEF Busy, Stands
  <1> QED
    BY <1>1, <1>2, <1>3, <1>4, Kinds

\* Only a claim and a settlement change an entry.
LEMMA EntrySteps ==
    ASSUME IInv, [Next]_vars, NEW d \in Decision,
           \A j \in Jobs : Claim(j) \/ Settle(j) => jobs[j].plan.decision # d
    PROVE  claims'[d] = claims[d]
  <1>1. ASSUME NEW j \in Jobs, Claim(j) \/ Settle(j)
        PROVE  claims'[d] = claims[d]
    BY <1>1 DEF Claim, Settle, IInv, TypeOK
  <1>2. CASE \A j \in Jobs : ~ Claim(j) /\ ~ Settle(j)
    <2>1. ASSUME NEW j \in Jobs, JobStep(j)
          PROVE  claims' = claims
      BY <1>2, <2>1 DEF JobStep, ClaimRefused, SettleFails, Reserve, ReserveRefused,
         MarkDispatching, MarkFails, AbortReserved, AbortFails, Write, Answer, Finalize,
         FinalizeFails, MarkSent
    <2> QED
      BY <2>1, Kinds DEF Deliver, Start
  <1> QED
    BY <1>1, <1>2

LEMMA SealsKept == ASSUME IInv, Seals, [Next]_vars PROVE Seals'
  <1> SUFFICES ASSUME NEW d \in Decision, Backed(d) PROVE SealOf(d)'
    BY DEF Seals, Backed
  <1>1. SealOf(d) /\ d # None
    BY Distinct DEF Seals
  <1>2. ASSUME NEW k \in Decided(d)', Busy(k)'
        PROVE  k \in Jobs /\ k \in Decided(d) /\ (Busy(k) \/ Claim(k))
    <2>1. k \in Jobs /\ jobs'[k] # Idle /\ jobs'[k].plan.decision = d
      BY <1>2 DEF Decided
    <2>2. Busy(k) \/ Claim(k)
      BY <1>1, <1>2, <2>1, BusySteps
    <2>3. jobs[k] # Idle
      <3>1. Sound(jobs[k], ops[k], wire[k])
        BY <2>1 DEF IInv, AllSound
      <3> QED
        BY <2>2, <3>1 DEF Sound, Busy, Stands, Claim, At, Idle, Holding
    <2> QED
      BY <2>1, <2>2, <2>3, BusySteps DEF Decided
  <1>3. ASSUME NEW j \in Jobs, Claim(j), jobs[j].plan.decision = d
        PROVE  SealOf(d)'
    <2>1. claims[d].status \in {"none", "failed"}
      BY <1>3 DEF Claim, Sealed, IInv, TypeOK, Entry, NoEntry
    <2>2. \A k \in Decided(d) : ~ Busy(k)
      BY <1>1, <2>1 DEF SealOf
    <2>3. claims'[d].status = "reserved"
      BY <1>3 DEF Claim, IInv, TypeOK
    <2>4. ASSUME NEW k \in Jobs, Claim(k) PROVE k = j
      <3>1. jobs \in [Jobs -> Job \cup {Idle}]
        BY DEF IInv, TypeOK
      <3>2. jobs[j].pc = "claim" /\ jobs[k].pc = "claim"
        BY <1>3, <2>4 DEF Claim, At
      <3>3. jobs' = [jobs EXCEPT ![j].pc = AfterClaim(jobs[j].plan)]
        BY <1>3 DEF Claim, Goto
      <3>4. jobs' = [jobs EXCEPT ![k].pc = AfterClaim(jobs[k].plan)]
        BY <2>4 DEF Claim, Goto
      <3>5. jobs[k] \in Job /\ AfterClaim(jobs[k].plan) # "claim"
        BY <3>2, Started DEF AfterClaim, Steps
      <3> QED
        BY <3>1, <3>2, <3>3, <3>4, <3>5 DEF Job
    <2> QED
      BY <1>2, <2>2, <2>3, <2>4 DEF SealOf
  <1>4. ASSUME NEW j \in Jobs, Settle(j), jobs[j].plan.decision = d
        PROVE  SealOf(d)'
    <2>1. /\ jobs[j].pc = "settle" /\ jobs[j] \in Job /\ jobs[j] # Idle
          /\ jobs[j].outcome \in Outcomes /\ Sound(jobs[j], ops[j], wire[j])
      BY <1>4, Started DEF Settle, At, Steps, IInv, AllSound
    <2>2. j \in Decided(d) /\ Busy(j)
      BY <1>4, <2>1 DEF Decided, Busy, Holding
    <2>3. claims[d].status \notin {"none", "failed"}
      BY <1>1, <2>2 DEF SealOf
    <2>4. claims'[d].status = Settled(jobs[j].outcome)
      BY <1>4, <2>3 DEF Settle, NoEntry, IInv, TypeOK, Entry
    <2>5. /\ wire' = wire /\ jobs'[j].pc \in {"log", "done"}
          /\ jobs'[j].outcome = jobs[j].outcome
          /\ \A k \in Jobs \ {j} : jobs'[k] = jobs[k]
      <3>1. Goes(j, AfterSettle(j), jobs[j].outcome)
        BY <1>4 DEF Settle, Goes
      <3>2. AfterSettle(j) \in {"log", "done"} /\ AfterSettle(j) \in Steps
        BY DEF AfterSettle, Steps
      <3> QED
        BY <1>4, <2>1, <3>1, <3>2, Moved DEF Settle
    <2>6. \A k \in Jobs : ~ Claim(k)
      <3>1. SUFFICES ASSUME NEW k \in Jobs, Claim(k) PROVE FALSE
        OBVIOUS
      <3>2. k # j /\ jobs[k].pc = "claim" /\ jobs'[k] = jobs[k]
        BY <2>1, <2>5, <3>1 DEF Claim, At
      <3>3. jobs[k] \in Job /\ AfterClaim(jobs[k].plan) # "claim"
        BY <3>2, Started DEF AfterClaim, Steps
      <3> QED
        BY <3>1, <3>2, <3>3 DEF Claim, Goto, Job, IInv, TypeOK
    <2>7. \A k \in Decided(d)' : Busy(k)' => k = j
      BY <1>1, <1>2, <2>2, <2>6 DEF SealOf
    <2>8. claims'[d].status \in {"none", "failed"} => ~ Busy(j)'
      BY <2>1, <2>4, <2>5 DEF Settled, Outcomes, Busy, Stands, Holding
    <2> QED
      BY <2>7, <2>8 DEF SealOf
  <1>5. CASE \A j \in Jobs : Claim(j) \/ Settle(j) => jobs[j].plan.decision # d
    <2>1. claims'[d] = claims[d]
      BY <1>5, EntrySteps
    <2>2. \A k \in Decided(d)' : Busy(k)' => k \in Decided(d) /\ Busy(k)
      BY <1>2, <1>5 DEF Decided
    <2> QED
      BY <1>1, <2>1, <2>2 DEF SealOf
  <1> QED
    BY <1>3, <1>4, <1>5

LEMMA SealsAlways == Spec => [](IInv /\ Seals)
  <1>1. Init => Seals
    BY DEF Init, Seals, SealOf, Decided
  <1> QED
    BY <1>1, InitSound, NextSound, SealsKept, PTL DEF Spec

(* Of the attempts at an event that were not told of a refusal, one at most *)
(* arrives or may arrive, however many jobs take the event up.              *)
THEOREM EventReachesOnce == Spec => []EventOnce
  <1>1. IInv /\ Seals => EventOnce
    <2> SUFFICES ASSUME IInv, Seals, NEW i \in Jobs, NEW j \in Jobs,
                        i # j, Stands(i), Stands(j),
                        jobs[i].plan.decision # None, Backed(jobs[i].plan.decision),
                        jobs[j].plan.decision = jobs[i].plan.decision
                 PROVE  FALSE
      BY DEF EventOnce
    <2>1. /\ Sound(jobs[i], ops[i], wire[i]) /\ Sound(jobs[j], ops[j], wire[j])
          /\ Busy(i) /\ Busy(j)
      BY DEF IInv, AllSound, Busy
    <2>2. jobs[i] # Idle /\ jobs[j] # Idle /\ jobs[i].plan \in Plans
      BY <2>1 DEF Sound, Stands
    <2>3. jobs[i].plan.decision \in Decision
      BY <2>2, PlanFacts
    <2> QED
      BY <2>1, <2>2, <2>3 DEF Seals, SealOf, Decided
  <1> QED
    BY <1>1, SealsAlways, PTL

(* No crash, timeout or failing store releases a decision or a row whose    *)
(* write stands: they are given up after an answer read as a refusal, a     *)
(* write known to be lost, or none.                                         *)
THEOREM StandingKept == Spec => []StandingIsKept
  <1>1. IInv /\ Seals => StandingIsKept
    <2> SUFFICES ASSUME IInv, Seals PROVE StandingIsKept
      OBVIOUS
    <2>1. ASSUME NEW d \in Decision, Backed(d), claims[d].status = "failed"
          PROVE  Standing(Decided(d)) = {}
      BY <2>1 DEF Seals, SealOf, Busy, Standing
    <2>2. ASSUME NEW j \in Jobs, ops[j].status = "definite_failure"
          PROVE  ~ Stands(j)
      <3>1. Sound(jobs[j], ops[j], wire[j]) /\ ops[j] # NoRow
        BY <2>2 DEF IInv, AllSound, NoRow
      <3> QED
        BY <2>2, <3>1 DEF Sound, Gone, Stands
    <2> QED
      BY <2>1, <2>2 DEF StandingIsKept
  <1> QED
    BY <1>1, SealsAlways, PTL
-----------------------------------------------------------------------------
(* Rows.  Only Reserve makes a row count, after it has looked at the others; *)
(* every other step keeps what a row is about or gives it up.                *)
Same(old, new) == new.payload = old.payload /\ new.group = old.group /\ new.day = old.day

LEMMA RowSteps ==
    ASSUME IInv, [Next]_vars, NEW k \in Jobs, Held(k)', ~ Reserve(k)
    PROVE  Held(k) /\ Same(ops[k], ops'[k])
  <1>1. /\ ops \in [Jobs -> Row \cup {NoRow}] /\ Sound(jobs[k], ops[k], wire[k])
        /\ NoRow.status \notin Counted
    BY Distinct DEF IInv, TypeOK, AllSound
  <1>2. CASE ops'[k] = ops[k]
    BY <1>2 DEF Held, Same
  <1>3. CASE ops'[k] = Dispatching(ops[k]) /\ jobs[k].pc = "mark"
    <2>1. ops[k].status = "reserved"
      BY <1>1, <1>3 DEF Sound, Idle
    <2>2. ops[k] \in Row
      BY <1>1, <2>1 DEF NoRow
    <2> QED
      BY <1>3, <2>1, <2>2 DEF Held, Same, Counted, Dispatching, Row
  <1>4. CASE \E s : ops'[k] = [ops[k] EXCEPT !.status = s] /\ jobs[k].pc \in {"abort", "finalize"}
    <2>1. ops[k].status \in {"reserved", "dispatching"} \/ jobs[k].pc = "finalize"
      BY <1>1, <1>4 DEF Sound, Idle
    <2>2. ops[k].status \in {"reserved", "dispatching"}
      BY <1>1, <1>4, <2>1 DEF Sound, Idle, OnFile
    <2>3. ops[k] \in Row
      BY <1>1, <2>2 DEF NoRow
    <2> QED
      BY <1>4, <2>2, <2>3 DEF Held, Same, Counted, Row
  <1>5. ASSUME NEW j \in Jobs, JobStep(j), j # k
        PROVE  ops'[k] = ops[k]
    BY <1>1, <1>5 DEF JobStep, Claim, ClaimRefused, Settle, SettleFails, Reserve, ReserveRefused,
       MarkDispatching, MarkFails, AbortReserved, AbortFails, Write, Answer, Finalize,
       FinalizeFails, MarkSent
  <1>6. CASE JobStep(k)
    <2>1. CASE MarkDispatching(k) \/ MarkFails(k)
      <3>1. ops'[k] = ops[k] \/ ops'[k] = Dispatching(ops[k])
        BY <1>1, <2>1 DEF MarkDispatching, MarkFails
      <3> QED
        BY <1>2, <1>3, <2>1, <3>1 DEF MarkDispatching, MarkFails, At
    <2>2. CASE AbortReserved(k) \/ AbortFails(k) \/ Finalize(k)
      <3>1. ops'[k] = ops[k] \/ \E s : ops'[k] = [ops[k] EXCEPT !.status = s]
        BY <1>1, <2>2 DEF AbortReserved, AbortFails, Finalize
      <3>2. jobs[k].pc \in {"abort", "finalize"}
        BY <2>2 DEF AbortReserved, AbortFails, Finalize, At
      <3> QED
        BY <1>2, <1>4, <3>1, <3>2
    <2>3. CASE ops' = ops
      BY <1>2, <2>3
    <2> QED
      BY <1>6, <2>1, <2>2, <2>3 DEF JobStep, Claim, ClaimRefused, Settle, SettleFails, ReserveRefused,
         Write, Answer, FinalizeFails, MarkSent
  <1>7. CASE ops' = ops
    BY <1>2, <1>7
  <1> QED
    BY <1>2, <1>5, <1>6, <1>7, Kinds DEF Deliver, Start

\* What a reservation finds and leaves.
LEMMA ReserveFacts ==
    ASSUME IInv, NEW j \in Jobs, Reserve(j)
    PROVE  /\ ~ Refused(jobs[j].plan, jobs[j].at)
           /\ ops'[j].payload = jobs[j].plan.payload /\ ops'[j].group = jobs[j].plan.group
           /\ ops'[j].day = DayOf(jobs[j].at)
           /\ \A k \in Jobs \ {j} : ops'[k] = ops[k]
           /\ jobs[j] # Idle
  <1>1. ops \in [Jobs -> Row \cup {NoRow}]
    BY DEF IInv, TypeOK
  <1>2. jobs[j] # Idle
    BY Started DEF Reserve, At, Steps
  <1> QED
    BY <1>1, <1>2 DEF Reserve

LEMMA OneReserves ==
    ASSUME IInv, NEW j \in Jobs, NEW k \in Jobs, Reserve(j), Reserve(k)
    PROVE  j = k
  <1>1. jobs[j] \in Job /\ jobs[k] \in Job /\ jobs[j].pc = "reserve" /\ jobs[k].pc = "reserve"
    BY Started DEF Reserve, At, Steps
  <1> QED
    BY <1>1 DEF Reserve, Goto, Job, IInv, TypeOK

\* The rows that count are about different payloads.
Hashes ==
    \A i, j \in Jobs : i # j /\ Held(i) /\ Held(j) =>
        PayloadHash(ops[i].payload) # PayloadHash(ops[j].payload)

LEMMA HashesKept == ASSUME IInv, Hashes, [Next]_vars PROVE Hashes'
  <1> SUFFICES ASSUME NEW i \in Jobs, NEW j \in Jobs, i # j, Held(i)', Held(j)',
                      PayloadHash(ops'[i].payload) = PayloadHash(ops'[j].payload)
               PROVE  FALSE
    BY DEF Hashes, PayloadHash
  <1>1. ASSUME NEW a \in Jobs, NEW b \in Jobs, a # b, Held(b)', Reserve(a)
        PROVE  PayloadHash(ops'[a].payload) # PayloadHash(ops'[b].payload)
    <2>1. ~ Reserve(b)
      BY <1>1, OneReserves
    <2>2. Held(b) /\ ops'[b].payload = ops[b].payload
      BY <1>1, <2>1, RowSteps DEF Same
    <2>3. ~ Duplicate(jobs[a].plan.payload) /\ ops'[a].payload = jobs[a].plan.payload
      BY <1>1, ReserveFacts DEF Refused
    <2> QED
      BY <2>2, <2>3 DEF Duplicate
  <1>2. CASE ~ Reserve(i) /\ ~ Reserve(j)
    BY <1>2, RowSteps DEF Same, Hashes
  <1> QED
    BY <1>1, <1>2

(* A like or a comment is not written again while the first one stands,     *)
(* whatever fails between its reservation and its record.                   *)
THEOREM PayloadReachesOnce == Spec => []PayloadOnce
  <1>1. Init => Hashes
    BY Distinct DEF Init, Hashes, Held
  <1>2. IInv /\ Hashes => PayloadOnce
    <2> SUFFICES ASSUME IInv, Hashes, NEW i \in Jobs, NEW j \in Jobs, i # j,
                        Stands(i), Stands(j),
                        jobs[i].plan.payload # None, jobs[j].plan.payload # None
                 PROVE  PayloadHash(jobs[i].plan.payload) # PayloadHash(jobs[j].plan.payload)
      BY DEF PayloadOnce
    <2>1. ASSUME NEW k \in Jobs, Stands(k), jobs[k].plan.payload # None
          PROVE  Held(k) /\ ops[k].payload = jobs[k].plan.payload
      <3>1. Sound(jobs[k], ops[k], wire[k])
        BY DEF IInv, AllSound
      <3>2. jobs[k] # Idle /\ jobs[k].plan \in Plans
        BY <2>1, <3>1 DEF Sound, Stands
      <3>3. jobs[k].plan.channel # "chat"
        BY <2>1, <3>2, PlanFacts
      <3>4. ops[k].status \in Counted
        BY <2>1, <3>1, <3>2, <3>3 DEF Sound, Stands, Gone
      <3> QED
        BY <3>1, <3>4, Distinct DEF Sound, Held
    <2> QED
      BY <2>1 DEF Hashes
  <1> QED
    BY <1>1, <1>2, InitSound, NextSound, HashesKept, PTL DEF Spec

\* The agent's rows that count, of a group or of a target on a day.
AgentRow(j) == Held(j) /\ jobs[j] # Idle /\ jobs[j].plan.channel = "agent"
OfGroup(g, day)  == {j \in Jobs : AgentRow(j) /\ ops[j].group = g /\ ops[j].day = day}
OfTarget(u, day) == {j \in Jobs : AgentRow(j) /\ ops[j].payload.target = u /\ ops[j].day = day}
Counts ==
    \A day, g, u :
        Cardinality(OfGroup(g, day)) <= GroupLimit /\ Cardinality(OfTarget(u, day)) <= TargetLimit

LEMMA Finite ==
    ASSUME NEW S \in SUBSET Jobs, NEW T \in SUBSET S
    PROVE  /\ IsFiniteSet(S) /\ IsFiniteSet(T) /\ Cardinality(T) \in Nat
           /\ Cardinality(S) \in Nat /\ Cardinality(T) <= Cardinality(S)
           /\ \A j \in Jobs : Cardinality(T \cup {j}) \in Nat /\ Cardinality(T \cup {j}) <= Cardinality(T) + 1
  <1>1. IsFiniteSet(S) /\ IsFiniteSet(T)
    BY SocialConstants, FS_Subset
  <1> QED
    BY <1>1, FS_CardinalityType, FS_Subset, FS_AddElement

\* A step adds to them at most the row that is being reserved.
LEMMA AgentRowSteps ==
    ASSUME IInv, [Next]_vars, NEW k \in Jobs, AgentRow(k)', ~ Reserve(k)
    PROVE  AgentRow(k) /\ Same(ops[k], ops'[k])
  <1>1. Held(k) /\ Same(ops[k], ops'[k])
    BY RowSteps DEF AgentRow
  <1>2. jobs[k] # Idle
    BY <1>1, Distinct DEF IInv, AllSound, Sound, Held
  <1> QED
    BY <1>1, <1>2, BusySteps DEF AgentRow

LEMMA CountsKept == ASSUME IInv, Counts, [Next]_vars PROVE Counts'
  <1>1. ASSUME \A j \in Jobs : ~ Reserve(j), NEW day, NEW g, NEW u
        PROVE  OfGroup(g, day)' \subseteq OfGroup(g, day) /\ OfTarget(u, day)' \subseteq OfTarget(u, day)
    BY <1>1, AgentRowSteps DEF OfGroup, OfTarget, Same
  <1>2. ASSUME NEW j \in Jobs, Reserve(j), NEW day, NEW g, NEW u
        PROVE  /\ \A k \in OfGroup(g, day)' : k \in OfGroup(g, day) \/ k = j
               /\ \A k \in OfTarget(u, day)' : k \in OfTarget(u, day) \/ k = j
               /\ j \in OfGroup(g, day)' => Cardinality(OfGroup(g, day)) < GroupLimit
               /\ j \in OfTarget(u, day)' => Cardinality(OfTarget(u, day)) < TargetLimit
    <2>1. \A k \in Jobs \ {j} : ~ Reserve(k)
      BY <1>2, OneReserves
    <2>2. /\ \A k \in OfGroup(g, day)' : k \in OfGroup(g, day) \/ k = j
          /\ \A k \in OfTarget(u, day)' : k \in OfTarget(u, day) \/ k = j
      BY <2>1, AgentRowSteps DEF OfGroup, OfTarget, Same
    <2>3. /\ ~ Refused(jobs[j].plan, jobs[j].at) /\ jobs'[j].plan = jobs[j].plan
          /\ ops'[j].payload = jobs[j].plan.payload /\ ops'[j].group = jobs[j].plan.group
          /\ ops'[j].day = DayOf(jobs[j].at)
      BY <1>2, ReserveFacts, BusySteps
    <2>4. /\ OfGroup(g, day) \subseteq {i \in Jobs : Held(i) /\ ops[i].group = g /\ ops[i].day = day}
          /\ OfTarget(u, day) \subseteq
                {i \in Jobs : Held(i) /\ ops[i].payload.target = u /\ ops[i].day = day}
      BY DEF OfGroup, OfTarget, AgentRow
    <2>5. /\ Cardinality(OfGroup(g, day)) <= GroupCount(g, day) /\ GroupCount(g, day) \in Nat
          /\ Cardinality(OfTarget(u, day)) <= TargetCount(u, day) /\ TargetCount(u, day) \in Nat
          /\ Cardinality(OfGroup(g, day)) \in Nat /\ Cardinality(OfTarget(u, day)) \in Nat
      <3> DEFINE A == {i \in Jobs : Held(i) /\ ops[i].group = g /\ ops[i].day = day}
                 B == {i \in Jobs : Held(i) /\ ops[i].payload.target = u /\ ops[i].day = day}
      <3>1. A \in SUBSET Jobs /\ B \in SUBSET Jobs
        OBVIOUS
      <3>2. OfGroup(g, day) \in SUBSET A /\ OfTarget(u, day) \in SUBSET B
        BY <2>4
      <3>3. GroupCount(g, day) = Cardinality(A) /\ TargetCount(u, day) = Cardinality(B)
        BY DEF GroupCount, TargetCount
      <3> HIDE DEF A, B
      <3> QED
        BY <3>1, <3>2, <3>3, Finite
    <2>6. j \in OfGroup(g, day)' => Cardinality(OfGroup(g, day)) < GroupLimit
      <3> SUFFICES ASSUME j \in OfGroup(g, day)' PROVE Cardinality(OfGroup(g, day)) < GroupLimit
        OBVIOUS
      <3>1. /\ jobs[j].plan.channel = "agent" /\ jobs[j].plan.group = g
            /\ DayOf(jobs[j].at) = day
        BY <2>3 DEF OfGroup, AgentRow
      <3>2. ~ (GroupCount(g, day) >= GroupLimit)
        BY <2>3, <3>1 DEF Refused, OverLimit
      <3> QED
        BY <2>5, <3>2, SocialConstants
    <2>7. j \in OfTarget(u, day)' => Cardinality(OfTarget(u, day)) < TargetLimit
      <3> SUFFICES ASSUME j \in OfTarget(u, day)' PROVE Cardinality(OfTarget(u, day)) < TargetLimit
        OBVIOUS
      <3>1. /\ jobs[j].plan.channel = "agent" /\ jobs[j].plan.payload.target = u
            /\ DayOf(jobs[j].at) = day
        BY <2>3 DEF OfTarget, AgentRow
      <3>2. jobs[j].plan.target = u
        <4>1. jobs[j].plan \in Plans
          BY <1>2, Started DEF Reserve, At, Steps
        <4>2. jobs[j].plan.payload # None
          BY <3>1, <4>1, PlanFacts, Distinct
        <4> QED
          BY <3>1, <4>1, <4>2, PlanFacts
      <3>3. ~ (TargetCount(u, day) >= TargetLimit)
        BY <2>3, <3>1, <3>2 DEF Refused, OverLimit
      <3> QED
        BY <2>5, <3>3, SocialConstants
    <2> QED
      BY <2>2, <2>6, <2>7
  <1>3. ASSUME NEW S \in SUBSET Jobs, NEW T \in SUBSET Jobs, NEW j \in Jobs, NEW limit \in Nat,
               Cardinality(S) <= limit, \A k \in T : k \in S \/ k = j,
               j \in T => Cardinality(S) < limit
        PROVE  Cardinality(T) <= limit
    <2>1. CASE j \in T
      <3>1. T \in SUBSET (S \cup {j}) /\ S \cup {j} \in SUBSET Jobs
        BY <1>3
      <3>2. /\ Cardinality(T) <= Cardinality(S \cup {j}) /\ Cardinality(S \cup {j}) <= Cardinality(S) + 1
            /\ Cardinality(T) \in Nat /\ Cardinality(S \cup {j}) \in Nat /\ Cardinality(S) \in Nat
        BY <3>1, Finite
      <3> QED
        BY <1>3, <2>1, <3>2
    <2>2. CASE j \notin T
      <3>1. T \in SUBSET S
        BY <1>3, <2>2
      <3>2. Cardinality(T) <= Cardinality(S) /\ Cardinality(T) \in Nat /\ Cardinality(S) \in Nat
        BY <3>1, Finite
      <3> QED
        BY <1>3, <3>2
    <2> QED
      BY <2>1, <2>2
  <1>4. ASSUME NEW day, NEW g, NEW u
        PROVE  Cardinality(OfGroup(g, day)') <= GroupLimit /\ Cardinality(OfTarget(u, day)') <= TargetLimit
    <2>1. /\ Cardinality(OfGroup(g, day)) <= GroupLimit /\ Cardinality(OfTarget(u, day)) <= TargetLimit
          /\ GroupLimit \in Nat /\ TargetLimit \in Nat
          /\ OfGroup(g, day) \in SUBSET Jobs /\ OfTarget(u, day) \in SUBSET Jobs
          /\ OfGroup(g, day)' \in SUBSET Jobs /\ OfTarget(u, day)' \in SUBSET Jobs
      <3>1. Cardinality(OfGroup(g, day)) <= GroupLimit /\ Cardinality(OfTarget(u, day)) <= TargetLimit
        BY DEF Counts
      <3>2. GroupLimit \in Nat /\ TargetLimit \in Nat
        BY SocialConstants
      <3>3. /\ OfGroup(g, day) \in SUBSET Jobs /\ OfTarget(u, day) \in SUBSET Jobs
            /\ OfGroup(g, day)' \in SUBSET Jobs /\ OfTarget(u, day)' \in SUBSET Jobs
        BY DEF OfGroup, OfTarget
      <3> QED
        BY <3>1, <3>2, <3>3
    <2>2. CASE \A j \in Jobs : ~ Reserve(j)
      <3>1. /\ Cardinality(OfGroup(g, day)') <= Cardinality(OfGroup(g, day))
            /\ Cardinality(OfTarget(u, day)') <= Cardinality(OfTarget(u, day))
            /\ Cardinality(OfGroup(g, day)') \in Nat /\ Cardinality(OfGroup(g, day)) \in Nat
            /\ Cardinality(OfTarget(u, day)') \in Nat /\ Cardinality(OfTarget(u, day)) \in Nat
        BY <1>1, <2>1, <2>2, Finite
      <3> QED
        BY <2>1, <3>1
    <2>3. ASSUME NEW j \in Jobs, Reserve(j)
          PROVE  Cardinality(OfGroup(g, day)') <= GroupLimit /\ Cardinality(OfTarget(u, day)') <= TargetLimit
      BY <1>2, <1>3, <2>1, <2>3
    <2> QED
      BY <2>2, <2>3
  <1> QED
    BY <1>4 DEF Counts

(* The agent's daily limits hold for every effect that stands.              *)
THEOREM LimitsHold == Spec => []DailyLimits
  <1>1. Init => Counts
    <2> SUFFICES ASSUME Init PROVE Counts
      OBVIOUS
    <2>1. ASSUME NEW j \in Jobs PROVE ~ AgentRow(j)
      BY DEF Init, AgentRow
    <2>2. ASSUME NEW day, NEW g, NEW u PROVE OfGroup(g, day) = {} /\ OfTarget(u, day) = {}
      BY <2>1 DEF OfGroup, OfTarget
    <2>3. Cardinality({}) = 0 /\ GroupLimit \in Nat /\ TargetLimit \in Nat
      BY FS_EmptySet, SocialConstants
    <2>4. 0 <= GroupLimit /\ 0 <= TargetLimit
      BY <2>3
    <2> QED
      BY <2>2, <2>3, <2>4 DEF Counts
  <1>2. IInv /\ Counts => DailyLimits
    <2> SUFFICES ASSUME IInv, Counts, NEW day, NEW g, NEW u
                 PROVE  /\ Cardinality(Standing(AgentsIn(g, day))) <= GroupLimit
                        /\ Cardinality(Standing(AgentsOn(u, day))) <= TargetLimit
      BY DEF DailyLimits
    <2> DEFINE A == Standing(AgentsIn(g, day))
               B == Standing(AgentsOn(u, day))
    <2>1. ASSUME NEW j \in Jobs, jobs[j] # Idle, jobs[j].plan.channel = "agent", Stands(j)
          PROVE  /\ Held(j) /\ ops[j].group = jobs[j].plan.group /\ ops[j].day = Today(j)
                 /\ ops[j].payload.target = jobs[j].plan.target
      <3>1. Sound(jobs[j], ops[j], wire[j])
        BY DEF IInv, AllSound
      <3>2. jobs[j].plan \in Plans /\ ops[j].status \in Counted
        BY <2>1, <3>1 DEF Sound, Stands, Gone
      <3>3. ops[j] # NoRow
        BY <3>2, Distinct
      <3>4. jobs[j].plan.payload # None /\ jobs[j].plan.payload.target = jobs[j].plan.target
        BY <2>1, <3>2, PlanFacts, Distinct
      <3> QED
        BY <3>1, <3>2, <3>3, <3>4 DEF Sound, Held, Today
    <2>2. A \in SUBSET OfGroup(g, day) /\ B \in SUBSET OfTarget(u, day)
      BY <2>1 DEF Standing, AgentsIn, AgentsOn, OfGroup, OfTarget, AgentRow
    <2>3. OfGroup(g, day) \in SUBSET Jobs /\ OfTarget(u, day) \in SUBSET Jobs
      BY DEF OfGroup, OfTarget
    <2>4. Cardinality(OfGroup(g, day)) <= GroupLimit /\ Cardinality(OfTarget(u, day)) <= TargetLimit
      BY DEF Counts
    <2> HIDE DEF A, B
    <2>5. /\ Cardinality(A) <= Cardinality(OfGroup(g, day)) /\ Cardinality(A) \in Nat
          /\ Cardinality(OfGroup(g, day)) \in Nat
          /\ Cardinality(B) <= Cardinality(OfTarget(u, day)) /\ Cardinality(B) \in Nat
          /\ Cardinality(OfTarget(u, day)) \in Nat
      BY <2>2, <2>3, Finite
    <2>6. Cardinality(A) <= GroupLimit /\ Cardinality(B) <= TargetLimit
      BY <2>4, <2>5, SocialConstants
    <2> QED
      BY <2>6 DEF A, B
  <1> QED
    BY <1>1, <1>2, InitSound, NextSound, CountsKept, PTL DEF Spec
=============================================================================
