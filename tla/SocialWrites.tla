---------------------------- MODULE SocialWrites ----------------------------
(***************************************************************************)
(* What the bot does to people of its own accord: proactive chat messages  *)
(* and likes and comments in the QQ space, core/social_decision.py,        *)
(* core/qzone_social_operations.py, flows/social_intelligence.             *)
(*                                                                         *)
(* A job is one attempt.  A chat job claims its decision and sends; a      *)
(* "background" job claims its decision and goes through the coordinator   *)
(* of QQ-space writes; an "agent" job is a tool call and has no decision.  *)
(* Every kv mutation and every SQLite transaction is one action; jobs of   *)
(* several schedulers and processes interleave between them.  A job that   *)
(* dies, alone or with its process, takes no further step and nothing is   *)
(* cleaned up.  A job keeps the instant it started as its clock reading.   *)
(*                                                                         *)
(* Abstracted: one bot; the trusted event ids of a decision are one parent *)
(* event (or none) and, for QQ-space composites, the child action; days    *)
(* are ticks of the clock divided by DayLength.                            *)
(***************************************************************************)
EXTENDS Integers, FiniteSets

CONSTANTS
    Jobs,            \* attempts, each started at most once
    Targets, Events, Feeds, Texts, Groups,
    Plans,           \* what a job may set out to do
    None,            \* no decision, no event, no payload, no text
    Cooldown,        \* target_cooldown_seconds of a decision, in ticks
    Pause,           \* target_cooldown_seconds of an agent's write, in ticks
    GroupLimit, TargetLimit,   \* daily limits of an agent's writes
    Quota,           \* daily_quota_per_user of the chat scenarios
    DayLength, MaxTime

Actions  == {"like", "comment"}
Decision == [target : Targets, parent : Events \cup {None}, child : Actions \cup {None}]
Payload  == [target : Targets, feed : Feeds, action : Actions, text : Texts \cup {None}]
Plan     == [channel : {"chat", "background", "agent"}, target : Targets,
             decision : Decision \cup {None}, payload : Payload \cup {None},
             group : Groups]

ASSUME SocialConstants ==
    /\ Cooldown \in Nat /\ Pause \in Nat /\ GroupLimit \in Nat /\ TargetLimit \in Nat
    /\ Quota \in Nat /\ DayLength \in Nat \ {0} /\ MaxTime \in Nat
    /\ IsFiniteSet(Jobs)
    /\ Plans \subseteq Plan
    /\ None \notin Decision \cup Payload
    /\ \A p \in Plans :
          /\ p.decision # None => p.decision.target = p.target
          /\ p.payload # None => p.payload.target = p.target
          /\ p.channel = "chat" <=> p.payload = None
          /\ p.channel = "agent" => p.decision = None

Times    == 0 .. MaxTime
DayOf(t) == t \div DayLength
Days     == {DayOf(t) : t \in Times}

VARIABLES
    clock,      \* wall clock
    claims,     \* kv social_decision_operations_v1: the entry of each decision
    pace,       \* the same namespace: the "target:" record of each target
    ops,        \* table qzone_social_operations: the row of each job
    sentLog,    \* kv social_outbound_log: total of each target and day
    jobs,       \* where each job is, its plan, clock reading and outcome
    wire        \* the external write of each job, as the remote side sees it

vars == <<clock, claims, pace, ops, sentLog, jobs, wire>>
-----------------------------------------------------------------------------
Outcomes == {"succeeded", "definite_failure", "unknown"}
\* Mutant: an unknown result no longer counts.
CountedKnown == {"reserved", "dispatching", "succeeded"}
Counted  == {"reserved", "dispatching", "succeeded", "unknown"}

NoEntry == [status |-> "none", at |-> 0]
Entry   == [status : {"reserved", "sent", "unknown", "failed"}, at : Times]
NoPace  == [at |-> -1]
Pacing  == [at : Times, parent : Events \cup {None}, composite : BOOLEAN]
NoRow   == [status |-> "none"]
Row     == [status : Counted \cup {"definite_failure"}, payload : Payload, group : Groups,
            day : Days, created : Times, started : Times, touched : BOOLEAN]
Idle    == [pc |-> "idle"]
Steps   == {"claim", "reserve", "mark", "abort", "write", "await", "finalize", "settle",
            "log", "done"}
Job     == [pc : Steps, plan : Plan, at : Times, outcome : Outcomes]
Wire    == {"none", "flying", "landed", "lost"}

TypeOK ==
    /\ clock \in Times
    /\ claims \in [Decision -> Entry \cup {NoEntry}]
    /\ pace \in [Targets -> Pacing \cup {NoPace}]
    /\ ops \in [Jobs -> Row \cup {NoRow}]
    /\ sentLog \in [Targets -> [Days -> Nat]]
    /\ jobs \in [Jobs -> Job \cup {Idle}]
    /\ wire \in [Jobs -> Wire]

Init ==
    /\ clock = 0
    /\ claims = [d \in Decision |-> NoEntry]
    /\ pace = [t \in Targets |-> NoPace]
    /\ ops = [j \in Jobs |-> NoRow]
    /\ sentLog = [t \in Targets |-> [d \in Days |-> 0]]
    /\ jobs = [j \in Jobs |-> Idle]
    /\ wire = [j \in Jobs |-> "none"]
-----------------------------------------------------------------------------
At(j, pc)        == jobs[j].pc = pc
Goto(j, pc)      == jobs' = [jobs EXCEPT ![j].pc = pc]
End(j, pc, o)    == jobs' = [jobs EXCEPT ![j].pc = pc, ![j].outcome = o]
Today(j)         == DayOf(jobs[j].at)
AfterClaim(plan) == IF plan.channel = "chat" THEN "write" ELSE "reserve"
SettleOrEnd(j)   == IF jobs[j].plan.decision = None THEN "done" ELSE "settle"

\* A scheduler or a tool call starts a job.  The chat scenarios read the quota
\* here, before they generate, ask the gate and send.
Start(j, plan) ==
    /\ jobs[j] = Idle
    /\ plan.channel = "chat" => sentLog[plan.target][DayOf(clock)] < Quota
    /\ jobs' = [jobs EXCEPT ![j] =
            [pc |-> IF plan.decision = None THEN AfterClaim(plan) ELSE "claim",
             plan |-> plan, at |-> clock, outcome |-> "unknown"]]
    /\ UNCHANGED <<clock, claims, pace, ops, sentLog, wire>>
-----------------------------------------------------------------------------
(* claim_social_decision and settle_social_decision                         *)

Backed(d)    == d.parent # None \/ d.child # None
Composite(d) == d.child # None

\* Mutant: a sealed event may be tried again once its cooldown is over.
SealedForAWhile(d, t) ==
    /\ claims[d].status \in {"reserved", "sent", "unknown"}
    /\ t - claims[d].at < Cooldown
Sealed(d, t) ==
    /\ claims[d].status \in {"reserved", "sent", "unknown"}
    /\ Backed(d) \/ t - claims[d].at < Cooldown

Sibling(d) ==
    /\ Composite(d) /\ d.parent # None
    /\ pace[d.target] # NoPace
    /\ pace[d.target].parent = d.parent /\ pace[d.target].composite

Paced(d, t) ==
    /\ pace[d.target] # NoPace
    /\ t - pace[d.target].at < Cooldown
    /\ ~ Sibling(d)

Claim(j) ==
    LET d == jobs[j].plan.decision
        t == jobs[j].at
    IN  /\ At(j, "claim")
        /\ ~ Sealed(d, t) /\ ~ Paced(d, t)
        /\ pace' = [pace EXCEPT ![d.target] =
                [at |-> t, parent |-> d.parent, composite |-> Composite(d)]]
        /\ claims' = [claims EXCEPT ![d] = [status |-> "reserved", at |-> t]]
        /\ Goto(j, AfterClaim(jobs[j].plan))
        /\ UNCHANGED <<clock, ops, sentLog, wire>>

\* Sealed, too early, or the store raised: the caller is told no.
ClaimRefused(j) ==
    /\ At(j, "claim")
    /\ Goto(j, "done")
    /\ UNCHANGED <<clock, claims, pace, ops, sentLog, wire>>

\* Mutant: what is not confirmed counts as failed.
SettledAsHoped(outcome) == IF outcome = "succeeded" THEN "sent" ELSE "failed"
Settled(outcome) ==
    CASE outcome = "succeeded" -> "sent"
      [] outcome = "unknown"   -> "unknown"
      [] OTHER                 -> "failed"

AfterSettle(j) ==
    IF jobs[j].plan.channel = "chat" /\ jobs[j].outcome = "succeeded" THEN "log" ELSE "done"

\* The entry is rewritten whatever it says, unless the store raises, which is
\* swallowed.
Settle(j) ==
    LET d == jobs[j].plan.decision IN
    /\ At(j, "settle")
    /\ claims' = [claims EXCEPT ![d].status =
            IF claims[d] = NoEntry THEN @ ELSE Settled(jobs[j].outcome)]
    /\ Goto(j, AfterSettle(j))
    /\ UNCHANGED <<clock, pace, ops, sentLog, wire>>

SettleFails(j) ==
    /\ At(j, "settle")
    /\ Goto(j, AfterSettle(j))
    /\ UNCHANGED <<clock, claims, pace, ops, sentLog, wire>>
-----------------------------------------------------------------------------
(* QzoneSocialOperationCoordinator                                          *)

PayloadHash(p) == IF p.action = "comment" THEN p ELSE [p EXCEPT !.text = None]

Held(i) == ops[i].status \in Counted

Duplicate(p) ==
    \E i \in Jobs : Held(i) /\ PayloadHash(ops[i].payload) = PayloadHash(p)
HeldAt(row)  == IF row.touched THEN row.started ELSE row.created
TooSoon(p, t, pause) ==
    \E i \in Jobs :
        Held(i) /\ ops[i].payload.target = p.target /\ t - HeldAt(ops[i]) < pause
GroupCount(g, day)  == Cardinality({i \in Jobs : Held(i) /\ ops[i].group = g /\ ops[i].day = day})
TargetCount(u, day) ==
    Cardinality({i \in Jobs : Held(i) /\ ops[i].payload.target = u /\ ops[i].day = day})

\* Mutant: the group's limit is compared too late by one.
OverLimitLate(plan, day) ==
    /\ plan.channel = "agent"
    /\ \/ GroupCount(plan.group, day) > GroupLimit
       \/ TargetCount(plan.target, day) >= TargetLimit
\* The background scan passes limits no day reaches, and no pause.
OverLimit(plan, day) ==
    /\ plan.channel = "agent"
    /\ \/ GroupCount(plan.group, day) >= GroupLimit
       \/ TargetCount(plan.target, day) >= TargetLimit

PauseOf(plan) == IF plan.channel = "agent" THEN Pause ELSE 0

Refused(plan, t) ==
    \/ Duplicate(plan.payload)
    \/ TooSoon(plan.payload, t, PauseOf(plan))
    \/ OverLimit(plan, DayOf(t))

Reserve(j) ==
    LET plan == jobs[j].plan
        t == jobs[j].at
    IN  /\ At(j, "reserve")
        /\ ~ Refused(plan, t)
        /\ ops' = [ops EXCEPT ![j] =
                [status |-> "reserved", payload |-> plan.payload, group |-> plan.group,
                 day |-> DayOf(t), created |-> t, started |-> 0, touched |-> FALSE]]
        /\ Goto(j, "mark")
        /\ UNCHANGED <<clock, claims, pace, sentLog, wire>>

ReserveRefused(j) ==
    /\ At(j, "reserve")
    /\ Refused(jobs[j].plan, jobs[j].at)
    /\ End(j, SettleOrEnd(j), "definite_failure")
    /\ UNCHANGED <<clock, claims, pace, ops, sentLog, wire>>

Dispatching(row) == [row EXCEPT !.status = "dispatching", !.started = clock, !.touched = TRUE]

MarkDispatching(j) ==
    /\ At(j, "mark")
    /\ ops[j].status = "reserved"
    /\ ops' = [ops EXCEPT ![j] = Dispatching(@)]
    /\ Goto(j, "write")
    /\ UNCHANGED <<clock, claims, pace, sentLog, wire>>

\* The update raises, with its transaction committed or not.
MarkFails(j) ==
    /\ At(j, "mark")
    /\ ops' \in {ops, [ops EXCEPT ![j] = Dispatching(@)]}
    /\ Goto(j, "abort")
    /\ UNCHANGED <<clock, claims, pace, sentLog, wire>>

\* abort_reserved, or the status that is read when it changed nothing.
AbortReserved(j) ==
    /\ At(j, "abort")
    /\ IF ops[j].status = "reserved"
       THEN /\ ops' = [ops EXCEPT ![j].status = "definite_failure"]
            /\ End(j, SettleOrEnd(j), "definite_failure")
       ELSE /\ ops' = ops
            /\ End(j, SettleOrEnd(j), "unknown")
    /\ UNCHANGED <<clock, claims, pace, sentLog, wire>>

\* The clean-up raises too.
AbortFails(j) ==
    /\ At(j, "abort")
    /\ ops' \in {ops, [ops EXCEPT ![j].status = IF @ = "reserved" THEN "definite_failure" ELSE @]}
    /\ End(j, SettleOrEnd(j), "unknown")
    /\ UNCHANGED <<clock, claims, pace, sentLog, wire>>

AfterFinalize(j) == IF jobs[j].plan.decision = None THEN "done" ELSE "settle"

Finalize(j) ==
    /\ At(j, "finalize")
    /\ ops' = [ops EXCEPT ![j].status = IF @ = "dispatching" THEN jobs[j].outcome ELSE @]
    /\ Goto(j, AfterFinalize(j))
    /\ UNCHANGED <<clock, claims, pace, sentLog, wire>>

\* The transaction raises: only a warning is logged.
FinalizeFails(j) ==
    /\ At(j, "finalize")
    /\ Goto(j, AfterFinalize(j))
    /\ UNCHANGED <<clock, claims, pace, ops, sentLog, wire>>
-----------------------------------------------------------------------------
(* The external write and its answer                                        *)

Write(j) ==
    /\ At(j, "write")
    /\ wire' = [wire EXCEPT ![j] = "flying"]
    /\ Goto(j, "await")
    /\ UNCHANGED <<clock, claims, pace, ops, sentLog>>

\* The remote side performs the write or drops it, whoever still listens.
Deliver(j) ==
    /\ wire[j] = "flying"
    /\ wire' \in {[wire EXCEPT ![j] = "landed"], [wire EXCEPT ![j] = "lost"]}
    /\ UNCHANGED <<clock, claims, pace, ops, sentLog, jobs>>

AfterAnswer(j, o) ==
    IF jobs[j].plan.channel # "chat" THEN "finalize"
    ELSE IF jobs[j].plan.decision # None THEN "settle"
    ELSE IF o = "succeeded" THEN "log" ELSE "done"

\* What the QQ space answers and is taken for a refusal: a refusal, but also, whatever
\* became of the write, any error status of a comment, a login page, other HTML or a
\* text that cannot be parsed.
TakenAsRefused(j) == IF jobs[j].plan.channel # "chat" THEN {"definite_failure"} ELSE {}

\* An acknowledgement, or an exception, a cancellation or an odd answer, which are
\* unknown at any moment.
Answers(j) ==
    {"unknown"} \cup (IF wire[j] = "landed" THEN {"succeeded"} ELSE {})
                \cup TakenAsRefused(j)

Answer(j) ==
    /\ At(j, "await")
    /\ \E o \in Answers(j) : End(j, AfterAnswer(j, o), o)
    /\ UNCHANGED <<clock, claims, pace, ops, sentLog, wire>>

\* mark_sent: load, add and save without an await in between.
MarkSent(j) ==
    /\ At(j, "log")
    /\ sentLog' = [sentLog EXCEPT ![jobs[j].plan.target][DayOf(clock)] = @ + 1]
    /\ Goto(j, "done")
    /\ UNCHANGED <<clock, claims, pace, ops, wire>>

Tick ==
    /\ clock < MaxTime
    /\ clock' = clock + 1
    /\ UNCHANGED <<claims, pace, ops, sentLog, jobs, wire>>

Next ==
    \/ Tick
    \/ \E j \in Jobs :
        \/ \E plan \in Plans : Start(j, plan)
        \/ Claim(j) \/ ClaimRefused(j) \/ Settle(j) \/ SettleFails(j)
        \/ Reserve(j) \/ ReserveRefused(j)
        \/ MarkDispatching(j) \/ MarkFails(j) \/ AbortReserved(j) \/ AbortFails(j)
        \/ Write(j) \/ Deliver(j) \/ Answer(j)
        \/ Finalize(j) \/ FinalizeFails(j) \/ MarkSent(j)

Spec == Init /\ [][Next]_vars
-----------------------------------------------------------------------------
Decided(d) == {j \in Jobs : jobs[j] # Idle /\ jobs[j].plan.decision = d}

\* The write of a job arrived or may arrive, and the job was not told of a refusal.
Stands(j)   == wire[j] \in {"flying", "landed"} /\ jobs[j].outcome # "definite_failure"
Standing(S) == {j \in S : Stands(j)}

(* What an event gave reason for is not done again while the first attempt  *)
(* stands, confirmed or in doubt: whatever the channel, through crashes,    *)
(* unknown results and stores that fail (claim_social_decision and the      *)
(* callers that settle its claims).                                         *)
EventOnce ==
    \A i, j \in Jobs :
        /\ i # j /\ Stands(i) /\ Stands(j)
        /\ jobs[i].plan.decision # None /\ Backed(jobs[i].plan.decision)
        => jobs[j].plan.decision # jobs[i].plan.decision

(* Nor is a like or a comment written again while the first one stands,     *)
(* whether the agent or the background scan wrote it: no failure between    *)
(* the reservation, the write and its record frees its payload.             *)
PayloadOnce ==
    \A i, j \in Jobs :
        /\ i # j /\ Stands(i) /\ Stands(j)
        /\ jobs[i].plan.payload # None /\ jobs[j].plan.payload # None
        => PayloadHash(jobs[i].plan.payload) # PayloadHash(jobs[j].plan.payload)

(* A decision is released for another attempt, and a row for another        *)
(* operation, only when none of its writes stands: crashes, timeouts and    *)
(* stores that fail leave it taken, and only an answer that is read as a    *)
(* refusal, or a write never begun, gives it up.                            *)
StandingIsKept ==
    /\ \A d \in Decision :
          Backed(d) /\ claims[d].status = "failed" => Standing(Decided(d)) = {}
    /\ \A j \in Jobs : ops[j].status = "definite_failure" => ~ Stands(j)

\* The agent's effects in a group, and on a person, of a day.
AgentsIn(g, day) ==
    {j \in Jobs : jobs[j] # Idle /\ jobs[j].plan.channel = "agent"
                    /\ jobs[j].plan.group = g /\ Today(j) = day}
AgentsOn(u, day) ==
    {j \in Jobs : jobs[j] # Idle /\ jobs[j].plan.channel = "agent"
                    /\ jobs[j].plan.target = u /\ Today(j) = day}

(* The agent's tool never acts in a group, or on a person, more often a day *)
(* than the limits say, but for what it was told was refused, though        *)
(* results are lost and rows stay unfinished.                               *)
DailyLimits ==
    \A day \in Days :
        /\ \A g \in Groups : Cardinality(Standing(AgentsIn(g, day))) <= GroupLimit
        /\ \A u \in Targets : Cardinality(Standing(AgentsOn(u, day))) <= TargetLimit
=============================================================================
