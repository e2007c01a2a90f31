---------------------------- MODULE QzonePublish ----------------------------
(***************************************************************************)
(* The durable ledger of QQ-space publications, core/qzone_publish.py.     *)
(*                                                                         *)
(* A caller of coordinated_qzone_publish reserves an operation, claims its *)
(* dispatch, awaits the external publish() and finalises the row.  Each of *)
(* those is one SQLite transaction (BEGIN IMMEDIATE), hence one action;    *)
(* callers, the provider, the administrator's routes and crashes           *)
(* interleave between them.  A caller reads the clock once, when it is     *)
(* started, and uses that instant for all of its transactions.             *)
(*                                                                         *)
(* Abstracted: a body is its normalised text (a model value), a payload    *)
(* hash is the payload itself, and the columns no decision reads           *)
(* (result_code, detail, resolution_source, created_at, ...), the forward  *)
(* counter and the texts remembered in the state are left out.             *)
(***************************************************************************)
EXTENDS Integers, FiniteSets

CONSTANTS
    Ops,          \* operation ids that callers use
    Callers,      \* concurrent calls of coordinated_qzone_publish
    Bots, Texts, Sources,
    Offers,       \* the payloads a caller may hand over with each id
    Forces,       \* the values of force that callers pass
    Manual,       \* ids of feeds the owner of the account posts by hand
    Recordable,   \* feeds an administrator may pick for the historical record
    None,         \* no feed, no remote id, no reconciliation under way
    Limit,        \* monthly_limit
    Interval,     \* min_interval_hours, in ticks
    Lease,        \* lease_seconds, in ticks
    Window,       \* window_seconds of the reconciliation
    MonthLength,  \* ticks in a month
    MaxTime       \* bound on the clock

FeedIds   == Ops \cup Manual
HistId(f) == <<"legacy-reconciled", f>>
HistIds   == {HistId(f) : f \in Recordable}
Ids       == Ops \cup HistIds
Kinds     == {"post", "forward"}
Payload   == [bot : Bots, kind : Kinds, text : Texts, source : Sources]

ASSUME ConstantsAssumption ==
    /\ Limit \in Nat /\ Interval \in Nat /\ Window \in Nat
    /\ Lease \in Nat \ {0} /\ MonthLength \in Nat \ {0} /\ MaxTime \in Nat \ {0}
    /\ Offers \in [Ops -> SUBSET Payload]
    /\ Forces \subseteq BOOLEAN
    /\ Recordable \subseteq FeedIds
    /\ Ops \cap HistIds = {} /\ Ops \cap Manual = {}
    /\ None \notin FeedIds \cup Ids
    /\ IsFiniteSet(Ops) /\ IsFiniteSet(Manual)

Times       == 0 .. MaxTime
PeriodOf(t) == t \div MonthLength
Periods     == 0 .. PeriodOf(MaxTime)
NoPeriod    == -1          \* the empty period of a fresh state, before all others

VARIABLES
    clock,     \* wall clock
    ops,       \* table qzone_publish_operations
    usage,     \* table qzone_monthly_usage: confirmed_count of each period
    state,     \* kv_store row qzone_post_state
    callers,   \* program counter and locals of each call
    requests,  \* the external write of each operation, as the provider sees it
    calls,     \* how often publish() was awaited for each operation
    feeds,     \* the feeds that exist in the remote space
    recon      \* a reconciliation between its read and its transaction

ledger == <<ops, usage, state>>
remote == <<requests, calls, feeds>>
vars   == <<clock, ledger, callers, remote, recon>>
-----------------------------------------------------------------------------
Statuses == {"reserved", "dispatching", "succeeded", "definite_failure", "unknown"}

NoRow == [status |-> "none"]
RowPayload == [bot : Bots, kind : Kinds, text : Texts, source : Sources \cup HistIds]
Row   == [status : Statuses, payload : RowPayload,
          period : Periods, fence : Nat \ {0}, reservedAt : Times, startedAt : Times,
          lease : Times, remote : FeedIds \cup {None}]

Result  == [status : {"succeeded", "definite_failure", "unknown"},
            remote : FeedIds \cup {None}, at : Times]
\* Mutant: an exception of publish() is taken for a success.
HopefulAnswer == [status |-> "succeeded", remote |-> None, at |-> 0]
NoAnswer == [status |-> "unknown", remote |-> None, at |-> 0]

Idle   == [pc |-> "idle"]
Call   == [pc : {"reserve", "claim", "post", "await", "finalize"}, op : Ops,
           payload : Payload, now : Times, force : BOOLEAN, fence : Nat, result : Result]
Feed   == [payload : RowPayload, at : Times]

ASSUME NoneAssumption == None \notin Feed \cup [op : Ops, feed : FeedIds]

TypeOK ==
    /\ clock \in Times
    /\ ops \in [Ids -> Row \cup {NoRow}]
    /\ usage \in [Periods -> Nat]
    /\ state \in [period : Periods \cup {NoPeriod}, count : Nat, lastAt : Times]
    /\ callers \in [Callers -> Call \cup {Idle}]
    /\ requests \in [Ops -> {"none", "flying", "landed", "lost"}]
    /\ calls \in [Ops -> Nat]
    /\ feeds \in [FeedIds -> Feed \cup {None}]
    /\ recon \in [op : Ops, feed : FeedIds] \cup {None}

Init ==
    /\ clock = 1
    /\ ops = [i \in Ids |-> NoRow]
    /\ usage = [p \in Periods |-> 0]
    /\ state = [period |-> NoPeriod, count |-> 0, lastAt |-> 0]
    /\ callers = [c \in Callers |-> Idle]
    /\ requests = [o \in Ops |-> "none"]
    /\ calls = [o \in Ops |-> 0]
    /\ feeds = [f \in FeedIds |-> None]
    /\ recon = None
-----------------------------------------------------------------------------
(* Reading and rewriting the ledger L at an instant t.                      *)

\* Mutant: only a reservation can be overdue.
OverdueReserved(row, t) == row.status = "reserved" /\ row.lease > 0 /\ row.lease <= t
Overdue(row, t) == row.status = "dispatching" /\ row.lease > 0 /\ row.lease <= t

\* Mutant: a stale dispatch is freed to be dispatched again.
MarkStaleFreed(L, t) ==
    [i \in Ids |-> IF Overdue(L[i], t) THEN [L[i] EXCEPT !.status = "reserved"] ELSE L[i]]
MarkStale(L, t) ==
    [i \in Ids |-> IF Overdue(L[i], t) THEN [L[i] EXCEPT !.status = "unknown"] ELSE L[i]]

Live(row, t) ==
    \/ row.status \in {"dispatching", "unknown"}
    \/ row.status = "reserved" /\ row.lease > t

Held(L, p, t) == {i \in Ids : Live(L[i], t) /\ L[i].period = p}

Unresolved(L, payload, t) == {i \in Ids : Live(L[i], t) /\ L[i].payload = payload}

Confirmed(p) ==
    IF state.period = p /\ state.count > usage[p] THEN state.count ELSE usage[p]

HeldAt(row) == IF row.startedAt > 0 THEN row.startedAt ELSE row.reservedAt

TooSoon(L, p, t) ==
    /\ Interval > 0
    /\ \E e \in {state.lastAt} \cup {HeldAt(L[i]) : i \in Held(L, p, t)} :
          e > 0 /\ t - e < Interval

\* Mutant: no unique index and no look-up.
RemoteUnchecked(L, i, bot, f) == TRUE
RemoteFree(L, i, bot, f) ==
    ~ \E j \in Ids \ {i} : /\ L[j].status = "succeeded"
                           /\ L[j].payload.bot = bot
                           /\ L[j].remote = f

(* _apply_success_state: the month's usage and the state move together.     *)
Project(p, at) ==
    LET base == IF state.period < p
                THEN [state EXCEPT !.period = p, !.count = 0] ELSE state
    IN  /\ usage' = [usage EXCEPT ![p] = @ + 1]
        /\ state' = [base EXCEPT
                        !.count  = IF base.period = p THEN @ + 1 ELSE @,
                        !.lastAt = IF at >= @ THEN at ELSE @]
-----------------------------------------------------------------------------
(* coordinated_qzone_publish                                                *)

Return(c) == callers' = [callers EXCEPT ![c] = Idle]
Goto(c, pc) == callers' = [callers EXCEPT ![c].pc = pc]

\* A handler, job or route starts a publication and freezes its instant; no call
\* is started so late that its lease would outlive the bounded clock.
Start(c, o, payload, force) ==
    /\ callers[c] = Idle
    /\ clock + Lease <= MaxTime
    /\ callers' = [callers EXCEPT ![c] =
            [pc |-> "reserve", op |-> o, payload |-> payload, now |-> clock,
             force |-> force, fence |-> 0, result |-> NoAnswer]]
    /\ UNCHANGED <<clock, ledger, remote, recon>>

\* The id exists: another payload, a row that is not an expired reservation,
\* or an expired one whose payload another operation now holds.
ExistingRefused(row, rest, call) ==
    \/ row.payload # call.payload
    \/ row.status # "reserved"
    \/ row.lease > call.now
    \/ rest # {}

NewRefused(L, call) ==
    LET p == PeriodOf(call.now) IN
    \/ Unresolved(L, call.payload, call.now) # {}
    \/ /\ ~ call.force
       /\ \/ Confirmed(p) + Cardinality(Held(L, p, call.now)) >= Limit
          \/ TooSoon(L, p, call.now)

ReserveRefused(c) ==
    LET call == callers[c]
        L == MarkStale(ops, call.now)
        row == L[call.op]
    IN  /\ call.pc = "reserve"
        /\ IF row = NoRow THEN NewRefused(L, call)
           ELSE ExistingRefused(row, Unresolved(L, call.payload, call.now) \ {call.op}, call)
        /\ ops' = L
        /\ Return(c)
        /\ UNCHANGED <<clock, usage, state, remote, recon>>

ReserveNew(c) ==
    LET call == callers[c]
        L == MarkStale(ops, call.now)
    IN  /\ call.pc = "reserve"
        /\ L[call.op] = NoRow
        /\ ~ NewRefused(L, call)
        /\ ops' = [L EXCEPT ![call.op] =
                [status |-> "reserved", payload |-> call.payload,
                 period |-> PeriodOf(call.now), fence |-> 1, reservedAt |-> call.now,
                 startedAt |-> 0, lease |-> call.now + Lease, remote |-> None]]
        /\ callers' = [callers EXCEPT ![c].pc = "claim", ![c].fence = 1]
        /\ UNCHANGED <<clock, usage, state, remote, recon>>

ReserveReclaim(c) ==
    LET call == callers[c]
        L == MarkStale(ops, call.now)
        row == L[call.op]
    IN  /\ call.pc = "reserve"
        /\ row # NoRow
        /\ ~ ExistingRefused(row, Unresolved(L, call.payload, call.now) \ {call.op}, call)
        /\ ops' = [L EXCEPT ![call.op].fence = @ + 1,
                            ![call.op].reservedAt = call.now,
                            ![call.op].lease = call.now + Lease]
        /\ callers' = [callers EXCEPT ![c].pc = "claim", ![c].fence = row.fence + 1]
        /\ UNCHANGED <<clock, usage, state, remote, recon>>

Claimable(row, call) ==
    row.status = "reserved" /\ row.fence = call.fence /\ row.lease > call.now

Claim(c) ==
    LET call == callers[c]
    IN  /\ call.pc = "claim"
        /\ Claimable(ops[call.op], call)
        /\ ops' = [ops EXCEPT ![call.op].status = "dispatching",
                              ![call.op].startedAt = call.now,
                              ![call.op].lease = call.now + Lease]
        /\ Goto(c, "post")
        /\ UNCHANGED <<clock, usage, state, remote, recon>>

ClaimLost(c) ==
    /\ callers[c].pc = "claim"
    /\ ~ Claimable(ops[callers[c].op], callers[c])
    /\ Return(c)
    /\ UNCHANGED <<clock, ledger, remote, recon>>

\* The external write leaves the process.
Post(c) ==
    /\ callers[c].pc = "post"
    /\ calls' = [calls EXCEPT ![callers[c].op] = @ + 1]
    /\ requests' = [requests EXCEPT ![callers[c].op] = "flying"]
    /\ Goto(c, "await")
    /\ UNCHANGED <<clock, ledger, feeds, recon>>

\* publish() returns, raises, or is cancelled; an unverifiable answer is unknown.
Answer(c) ==
    LET call == callers[c]
        known == {f \in FeedIds : /\ feeds[f] # None
                                  /\ feeds[f].payload.bot = call.payload.bot
                                  /\ feeds[f].payload.text = call.payload.text}
    IN  /\ call.pc = "await"
        /\ \E r \in Result :
            /\ \/ /\ r.status = "succeeded" /\ requests[call.op] = "landed"
                  /\ r.remote \in known \cup {None}
                  /\ r.at \in {0} \cup {feeds[f].at : f \in known \cap {r.remote}}
               \/ r = [NoAnswer EXCEPT !.status = "definite_failure"] /\ requests[call.op] = "lost"
               \/ r = NoAnswer
            /\ callers' = [callers EXCEPT ![c].pc = "finalize", ![c].result = r]
        /\ UNCHANGED <<clock, ledger, remote, recon>>

\* Mutant: a late answer is applied to whatever the row has become.
OwnsByFence(call, row) == row.status # "none" /\ row.fence = call.fence
Owns(call, row) == row.status = "dispatching" /\ row.fence = call.fence

\* A success whose remote id another success of the bot holds is kept as unknown.
Finalize(c) ==
    LET call == callers[c]
        row  == ops[call.op]
        r    == call.result
        clash == r.status = "succeeded" /\ r.remote # None
                 /\ ~ RemoteFree(ops, call.op, row.payload.bot, r.remote)
        kept == IF clash THEN NoAnswer ELSE r
    IN  /\ call.pc = "finalize"
        /\ Owns(call, row)
        /\ ops' = [ops EXCEPT ![call.op].status = kept.status,
                              ![call.op].remote = kept.remote,
                              ![call.op].lease = 0]
        /\ IF kept.status = "succeeded"
           THEN Project(row.period, IF kept.at > 0 THEN kept.at ELSE call.now)
           ELSE UNCHANGED <<usage, state>>
        /\ Return(c)
        /\ UNCHANGED <<clock, remote, recon>>

FinalizeLate(c) ==
    /\ callers[c].pc = "finalize"
    /\ ~ Owns(callers[c], ops[callers[c].op])
    /\ Return(c)
    /\ UNCHANGED <<clock, ledger, remote, recon>>

\* The awaiting task is cancelled around one of its transactions.
Cancel(c) ==
    /\ callers[c].pc \in {"reserve", "claim", "post", "finalize"}
    /\ Return(c)
    /\ UNCHANGED <<clock, ledger, remote, recon>>
-----------------------------------------------------------------------------
(* build_qzone_quota, the administrator's routes, the provider, the process *)

QuotaPoll ==
    /\ ops' = MarkStale(ops, clock)
    /\ UNCHANGED <<clock, usage, state, callers, remote, recon>>

ResolveAbsent(o) ==
    /\ ops[o].status = "unknown"
    /\ ops' = [ops EXCEPT ![o].status = "definite_failure", ![o].lease = 0]
    /\ UNCHANGED <<clock, usage, state, callers, remote, recon>>

Near(t, anchor) == t - anchor <= Window /\ anchor - t <= Window

Matches(row) ==
    {f \in FeedIds : /\ feeds[f] # None
                     /\ feeds[f].payload.bot = row.payload.bot
                     /\ feeds[f].payload.text = row.payload.text
                     /\ Near(feeds[f].at, HeldAt(row))
                     /\ row.payload.kind = "forward" => feeds[f].payload.source = row.payload.source}

\* The row and the bot's own feeds are read outside any transaction.
ReconcileRead(o) ==
    /\ recon = None
    /\ ops[o].status = "unknown"
    /\ \E f \in FeedIds : /\ Matches(ops[o]) = {f}
                          /\ recon' = [op |-> o, feed |-> f]
    /\ UNCHANGED <<clock, ledger, callers, remote>>

ReconcileCommit ==
    /\ recon # None
    /\ ops[recon.op].status = "unknown"
    /\ RemoteFree(ops, recon.op, ops[recon.op].payload.bot, recon.feed)
    /\ ops' = [ops EXCEPT ![recon.op].status = "succeeded",
                          ![recon.op].remote = recon.feed,
                          ![recon.op].lease = 0]
    /\ Project(ops[recon.op].period, feeds[recon.feed].at)
    /\ recon' = None
    /\ UNCHANGED <<clock, callers, remote>>

\* The row is no longer unknown, or the unique index on remote ids raises.
ReconcileDropped ==
    /\ recon # None
    /\ \/ ops[recon.op].status # "unknown"
       \/ ~ RemoteFree(ops, recon.op, ops[recon.op].payload.bot, recon.feed)
    /\ recon' = None
    /\ UNCHANGED <<clock, ledger, callers, remote>>

\* The administrator adds a feed of the bot that the ledger has missed.
RecordHistorical(f) ==
    LET feed == feeds[f] IN
    /\ feed # None
    /\ RemoteFree(ops, None, feed.payload.bot, f)
    /\ ops[HistId(f)] = NoRow      \* operation_id is the primary key
    /\ ops' = [ops EXCEPT ![HistId(f)] =
            [status |-> "succeeded",
             payload |-> [feed.payload EXCEPT !.kind = "post", !.source = HistId(f)],
             period |-> PeriodOf(feed.at), fence |-> 1, reservedAt |-> clock,
             startedAt |-> clock, lease |-> 0, remote |-> f]]
    /\ Project(PeriodOf(feed.at), feed.at)
    /\ UNCHANGED <<clock, callers, remote, recon>>

\* The provider carries out a write it has received, or loses it.
Land(o) ==
    /\ requests[o] = "flying"
    /\ requests' = [requests EXCEPT ![o] = "landed"]
    /\ feeds' = [feeds EXCEPT ![o] = [payload |-> ops[o].payload, at |-> clock]]
    /\ UNCHANGED <<clock, ledger, callers, calls, recon>>

Lose(o) ==
    /\ requests[o] = "flying"
    /\ requests' = [requests EXCEPT ![o] = "lost"]
    /\ UNCHANGED <<clock, ledger, callers, calls, feeds, recon>>

ManualPost(f) ==
    /\ feeds[f] = None
    /\ \E payload \in UNION {Offers[o] : o \in Ops} :
          feeds' = [feeds EXCEPT ![f] = [payload |-> payload, at |-> clock]]
    /\ UNCHANGED <<clock, ledger, callers, requests, calls, recon>>

\* The process dies; the database and the requests already sent survive.
Restart ==
    /\ callers' = [c \in Callers |-> Idle]
    /\ recon' = None
    /\ UNCHANGED <<clock, ledger, remote>>

Tick ==
    /\ clock < MaxTime
    /\ clock' = clock + 1
    /\ UNCHANGED <<ledger, callers, remote, recon>>
-----------------------------------------------------------------------------
CallerStep(c) ==
    \/ \E o \in Ops : \E payload \in Offers[o], force \in Forces : Start(c, o, payload, force)
    \/ ReserveRefused(c) \/ ReserveNew(c) \/ ReserveReclaim(c)
    \/ Claim(c) \/ ClaimLost(c)
    \/ Post(c) \/ Answer(c)
    \/ Finalize(c) \/ FinalizeLate(c)
    \/ Cancel(c)

AdminStep ==
    \/ QuotaPoll
    \/ \E o \in Ops : ResolveAbsent(o) \/ ReconcileRead(o)
    \/ ReconcileCommit \/ ReconcileDropped
    \/ \E f \in Recordable : RecordHistorical(f)

Environment ==
    \/ \E o \in Ops : Land(o) \/ Lose(o)
    \/ \E f \in Manual : ManualPost(f)
    \/ Restart
    \/ Tick

Next == (\E c \in Callers : CallerStep(c)) \/ AdminStep \/ Environment

Spec == Init /\ [][Next]_vars
-----------------------------------------------------------------------------
(* Properties                                                               *)

\* However callers retry, crash, are cancelled or lose their lease, the external
\* write of one operation is started at most once, and only from a row that can
\* never be reserved again (fence tokens, claim and stale marking together).
AtMostOneWrite ==
    \A o \in Ops :
        /\ calls[o] <= 1
        /\ calls[o] = 1 => ops[o].status \notin {"none", "reserved"}

Succeeded(p) == {i \in Ids : ops[i].status = "succeeded" /\ ops[i].period = p}

\* The month's usage counts every success of the month once, whichever of the
\* coordinator, the reconciliation or the historical record made it a success,
\* and the state projects the latest month that has one.
CountedOnce ==
    /\ \A p \in Periods : usage[p] = Cardinality(Succeeded(p))
    /\ \A p \in Periods : usage[p] > 0 => p <= state.period
    /\ state.period # NoPeriod => state.count = usage[state.period]

\* A row is a success only if a feed with its text exists in its bot's space.
SuccessIsReal ==
    \A i \in Ids : ops[i].status = "succeeded" =>
        \E f \in FeedIds : /\ feeds[f] # None
                           /\ feeds[f].payload.bot = ops[i].payload.bot
                           /\ feeds[f].payload.text = ops[i].payload.text

\* No remote feed is claimed by two successes of one bot.
RemoteClaimedOnce ==
    \A i, j \in Ids :
        /\ ops[i].status = "succeeded" /\ ops[j].status = "succeeded" /\ i # j
        /\ ops[i].payload.bot = ops[j].payload.bot
        => ops[i].remote # ops[j].remote \/ ops[i].remote = None

\* The monthly limit is a hard one: without forced calls, confirmed and held
\* operations of a month together never exceed it.
QuotaBound ==
    \A p \in Periods : usage[p] + Cardinality(Held(ops, p, clock)) <= Limit

\* The ledger keeps the promise of PublishPromise: at most one write, final
\* outcomes, each success counted once in one month.
Outcome(row) ==
    CASE row.status = "unknown"          -> "doubt"
      [] row.status = "succeeded"        -> "done"
      [] row.status = "definite_failure" -> "failed"
      [] OTHER                           -> "open"

Promise == INSTANCE PublishPromise WITH
    Records <- HistIds, writes <- calls, counted <- usage,
    outcome <- [i \in Ids |-> Outcome(ops[i])]
KeepsPromise == Promise!PromiseSpec

\* A dispatch does not stay undecided: whoever crashed, its row leaves the
\* dispatching state (at the latest by its lease and the next quota reading).
DispatchSettles ==
    \A o \in Ops : ops[o].status = "dispatching" ~> ops[o].status # "dispatching"

\* The clock advances and the periodic job reads the quota again and again.
Fairness == WF_vars(Tick) /\ WF_vars(QuotaPoll)
FairSpec == Spec /\ Fairness
=============================================================================
