---------------------------- MODULE ReplyRecovery ----------------------------
(***************************************************************************)
(* The durable queue of inbound messages whose reply failed,               *)
(* core/reply_recovery_queue.py.                                           *)
(*                                                                         *)
(* The reply handlers report failures, the administrator's routes abandon  *)
(* or reopen items, and a worker, as the class documents it, claims a      *)
(* batch, regenerates, marks the dispatch, sends and finalises.  Each      *)
(* method is one SQLite transaction (BEGIN IMMEDIATE), hence one action.   *)
(*                                                                         *)
(* Abstracted: a key stands for the unique columns (bot, conversation,     *)
(* message, failure stage); a text is its length, the same at each report; *)
(* columns no decision reads (media, missing parts, trace, last stage,     *)
(* claimed_by, recovered_at, updated_at) are left out.  The clock does not *)
(* run backwards, so the order by first failure is the order by id.        *)
(***************************************************************************)
EXTENDS Integers, FiniteSetsExt

CONSTANTS
    Keys,         \* the failures that can be reported
    Convs,        \* conversations of the bot
    ConvOf,       \* the conversation of each key
    Size,         \* the length of each key's text
    Routes,       \* provider routes (route_fingerprint)
    Workers,      \* recovery workers
    Tokens,       \* claim tokens; fresh ones never equal one still in use
    NoToken,      \* the empty claim_token
    Lease,        \* claim_lease_seconds, in ticks
    TTL,          \* ttl_seconds, in ticks
    Backoffs,     \* the delays a worker asks for with retry_at
    MaxAttempts,  \* max_attempts
    MaxBatch,     \* max_batch_messages
    MaxChars,     \* max_batch_chars
    MaxReports,   \* bounds on the reports of each failure
    MaxTime       \* bound on the clock

ASSUME ConstantsAssumption ==
    /\ ConvOf \in [Keys -> Convs]
    /\ Size \in [Keys -> Nat]
    /\ NoToken \notin Tokens
    /\ IsFiniteSet(Keys)
    /\ Lease \in Nat \ {0} /\ TTL \in Nat \ {0} /\ Backoffs \subseteq Nat
    /\ MaxAttempts \in Nat \ {0} /\ MaxBatch \in Nat \ {0} /\ MaxChars \in Nat \ {0}
    /\ MaxReports \in [Keys -> Nat] /\ MaxTime \in Nat

VARIABLES
    clock,     \* wall clock
    rows,      \* table reply_recovery_queue
    workers,   \* program counter and locals of each worker
    reports,   \* how often the handlers have reported each failure
    doubt,     \* is there an attempt on the key that nobody has judged unsent?
    sent       \* how often a reply to the key's message has reached the chat

chat == <<doubt, sent>>
vars == <<clock, rows, workers, reports, chat>>
-----------------------------------------------------------------------------
Recoverable == {"generation_failed_before_send", "confirmed_not_sent"}
Quarantines == {"delivery_unknown", "delivery_partial"}
Classes     == Recoverable \cup Quarantines
Outcomes    == {"confirmed", "confirmed_not_sent"} \cup Quarantines
Active      == {"processing", "dispatching"}
\* Mutant: an exhausted item is not final.
TerminalExhaustible == {"recovered", "expired", "abandoned"}
Terminal    == {"recovered", "expired", "exhausted", "abandoned"}
Statuses    == {"pending", "quarantined"} \cup Active \cup Terminal

NoRow == [status |-> "none"]
Row   == [status : Statuses, id : Nat, class : Classes, route : Routes, attempts : Nat,
          expiresAt : Nat, nextAt : Nat, token : Tokens \cup {NoToken}, leaseEnd : Nat]

Idle == [pc |-> "idle"]
Job  == [pc : {"generate", "send", "report"}, token : Tokens, items : SUBSET Keys,
         outcome : Outcomes]

TypeOK ==
    /\ clock \in 0 .. MaxTime
    /\ rows \in [Keys -> Row \cup {NoRow}]
    /\ workers \in [Workers -> Job \cup {Idle}]
    /\ reports \in [Keys -> Nat]
    /\ doubt \in [Keys -> BOOLEAN]
    /\ sent \in [Keys -> Nat]

Init ==
    /\ clock = 0
    /\ rows = [k \in Keys |-> NoRow]
    /\ workers = [w \in Workers |-> Idle]
    /\ reports = [k \in Keys |-> 0]
    /\ doubt = [k \in Keys |-> FALSE]
    /\ sent = [k \in Keys |-> 0]
-----------------------------------------------------------------------------
(* Rewriting one row.                                                       *)

Unclaimed(row) == [row EXCEPT !.token = NoToken, !.leaseEnd = 0]

\* Mutant: one attempt too many.
RetriedOnceMore(row, t, class, next) ==
    [row EXCEPT !.status = IF row.expiresAt <= t THEN "expired"
                           ELSE IF row.attempts > MaxAttempts THEN "exhausted"
                           ELSE "pending",
                !.class = class, !.nextAt = next]
Retried(row, t, class, next) ==
    [row EXCEPT !.status = IF row.expiresAt <= t THEN "expired"
                           ELSE IF row.attempts >= MaxAttempts THEN "exhausted"
                           ELSE "pending",
                !.class = class, !.nextAt = next]

Quarantined(row, class) ==
    [Unclaimed(row) EXCEPT !.status = "quarantined", !.class = class]

Stale(row, status, t) ==
    row.status = status /\ row.leaseEnd > 0 /\ row.leaseEnd <= t

\* Mutant: every stale claim is retried, whatever it was doing.
SweptAlike(row, t) ==
    IF Stale(row, "dispatching", t) \/ Stale(row, "processing", t)
    THEN Retried(Unclaimed(row), t, "generation_failed_before_send", t)
    ELSE row
Swept(row, t) ==
    IF Stale(row, "dispatching", t) THEN Quarantined(row, "delivery_unknown")
    ELSE IF Stale(row, "processing", t)
         THEN Retried(Unclaimed(row), t, "generation_failed_before_send", t)
         ELSE row

Expired(row, t) ==
    IF row.status \in {"pending", "quarantined"} /\ row.expiresAt <= t
    THEN [row EXCEPT !.status = "expired"] ELSE row

\* _maintain_locked: the three updates in their order.
Maintained(t) == [k \in Keys |-> Expired(Swept(rows[k], t), t)]
-----------------------------------------------------------------------------
(* The reply handlers                                                       *)

Inserted(class, r) ==
    [status |-> IF class \in Recoverable THEN "pending" ELSE "quarantined",
     id |-> 1 + Cardinality({k \in Keys : rows[k] # NoRow}),
     class |-> class, route |-> r, attempts |-> 0,
     expiresAt |-> clock + TTL, nextAt |-> clock, token |-> NoToken, leaseEnd |-> 0]

\* A further report of a failure that is on file: a doubtful one takes the item
\* away from its worker, a recoverable one reclassifies only a pending item.
\* Mutant: a recoverable report reopens a quarantined item.
RereportedOpen(row, class, r) ==
    IF class \in Quarantines THEN Quarantined([row EXCEPT !.route = r], class)
    ELSE IF row.status \notin Active
         THEN [row EXCEPT !.route = r, !.status = "pending", !.class = class]
         ELSE [row EXCEPT !.route = r]
Rereported(row, class, r) ==
    IF class \in Quarantines THEN Quarantined([row EXCEPT !.route = r], class)
    ELSE IF row.status = "pending" THEN [row EXCEPT !.route = r, !.class = class]
    ELSE [row EXCEPT !.route = r]

\* record_failure.  A handler that calls a delivery unknown may have delivered.
Record(k, class, r) ==
    /\ reports[k] < MaxReports[k]
    /\ reports' = [reports EXCEPT ![k] = @ + 1]
    /\ IF rows[k] # NoRow /\ rows[k].status \in Terminal
       THEN UNCHANGED <<rows, doubt>>
       ELSE /\ rows' = [rows EXCEPT ![k] = IF rows[k] = NoRow THEN Inserted(class, r)
                                          ELSE Rereported(rows[k], class, r)]
            /\ doubt' = [doubt EXCEPT ![k] = @ \/ class \in Quarantines]
    /\ \E n \in CASE class = "delivery_unknown" -> {0, 1}
                  [] class = "delivery_partial" -> {1}
                  [] OTHER                      -> {0} :
          sent' = [sent EXCEPT ![k] = @ + n]
    /\ UNCHANGED <<clock, workers>>
-----------------------------------------------------------------------------
(* The worker                                                               *)

Ready(row, t) ==
    /\ row.status = "pending"
    /\ row.class \in Recoverable
    /\ row.attempts < MaxAttempts
    /\ row.expiresAt > t
    /\ row.nextAt <= t

\* Mutant: a conversation is busy only while its batch is being generated.
BusyGenerating(Q, conv) == \E k \in Keys : ConvOf[k] = conv /\ Q[k].status = "processing"
Busy(Q, conv) == \E k \in Keys : ConvOf[k] = conv /\ Q[k].status \in Active

Anchors(Q, asked) ==
    {k \in Keys : Ready(Q[k], clock) /\ Q[k].route \in asked /\ ~ Busy(Q, ConvOf[k])}

Oldest(Q, S) == {k \in S : \A j \in S : Q[k].id <= Q[j].id}

\* The length of the texts of a set of items together.
Chars(S) == MapThenSumSet(LAMBDA k : Size[k], S)

\* Mutant: the length is compared before the last text is added.
BatchLate(Q, a) ==
    LET S == {k \in Keys : /\ ConvOf[k] = ConvOf[a]
                           /\ Ready(Q[k], clock) /\ Q[k].route = Q[a].route}
        Older(k) == {j \in S : Q[j].id < Q[k].id}
    IN  {k \in S : /\ Cardinality(Older(k)) < MaxBatch
                   /\ Chars(Older(k)) <= MaxChars}

\* The candidates of the anchor's conversation and route, oldest first, as many as
\* the limits allow, and the anchor in any case.
Batch(Q, a) ==
    LET S == {k \in Keys : /\ ConvOf[k] = ConvOf[a]
                           /\ Ready(Q[k], clock) /\ Q[k].route = Q[a].route}
        UpTo(k) == {j \in S : Q[j].id <= Q[k].id}
    IN  {k \in S : \/ Cardinality(UpTo(k)) = 1
                   \/ /\ Cardinality(UpTo(k)) <= MaxBatch
                      /\ Chars(UpTo(k)) <= MaxChars}

InUse == {rows[k].token : k \in {i \in Keys : rows[i] # NoRow}}
         \cup {workers[w].token : w \in {v \in Workers : workers[v] # Idle}}

Claimed(row, tok) ==
    [row EXCEPT !.status = "processing", !.attempts = @ + 1,
                !.token = tok, !.leaseEnd = clock + Lease]

\* claim_next_batch, for one route or for any.
Claim(w, asked) ==
    LET Q == Maintained(clock)
    IN  /\ workers[w] = Idle
        /\ \E anchor \in Oldest(Q, Anchors(Q, asked)), tok \in Tokens \ InUse :
            /\ rows' = [k \in Keys |-> IF k \in Batch(Q, anchor) THEN Claimed(Q[k], tok)
                                      ELSE Q[k]]
            /\ workers' = [workers EXCEPT ![w] =
                    [pc |-> "generate", token |-> tok, items |-> {},
                     outcome |-> "delivery_unknown"]]
        /\ UNCHANGED <<clock, reports, chat>>

\* Mutant: rows are found by their status alone.
OwnedByStatus(tok, statuses) ==
    {k \in Keys : rows[k].status \in statuses}
Owned(tok, statuses) ==
    {k \in Keys : rows[k].status \in statuses /\ rows[k].token = tok}

\* renew_claim does not ask whether the lease is over.
Renew(w) ==
    LET mine == Owned(workers[w].token, Active)
    IN  /\ workers[w] # Idle
        /\ mine # {}
        /\ rows' = [k \in Keys |-> IF k \in mine
                        THEN [rows[k] EXCEPT !.leaseEnd = clock + Lease] ELSE rows[k]]
        /\ UNCHANGED <<clock, workers, reports, chat>>

\* mark_dispatch_started, immediately before the first external send.
DispatchStart(w) ==
    LET mine == Owned(workers[w].token, {"processing"})
    IN  /\ workers[w].pc = "generate"
        /\ mine # {}
        /\ rows' = [k \in Keys |-> IF k \in mine
                        THEN [rows[k] EXCEPT !.status = "dispatching",
                                             !.leaseEnd = clock + Lease] ELSE rows[k]]
        /\ doubt' = [k \in Keys |-> doubt[k] \/ k \in mine]
        /\ workers' = [workers EXCEPT ![w].pc = "send", ![w].items = mine]
        /\ UNCHANGED <<clock, reports, sent>>

\* mark_generation_failed
GenerationFails(w, delay) ==
    LET mine == Owned(workers[w].token, {"processing"})
    IN  /\ workers[w].pc = "generate"
        /\ mine # {}
        /\ rows' = [k \in Keys |-> IF k \in mine
                        THEN Retried(Unclaimed(rows[k]), clock,
                                     "generation_failed_before_send", clock + delay)
                        ELSE rows[k]]
        /\ workers' = [workers EXCEPT ![w] = Idle]
        /\ UNCHANGED <<clock, reports, chat>>

\* The send, with what became of it and what the worker learns of that.
Send(w) ==
    /\ workers[w].pc = "send"
    /\ \E outcome \in Outcomes, arrived \in BOOLEAN :
        /\ outcome \in {"confirmed", "delivery_partial"} => arrived
        /\ outcome = "confirmed_not_sent" => ~ arrived
        /\ sent' = [k \in Keys |-> IF arrived /\ k \in workers[w].items
                                   THEN sent[k] + 1 ELSE sent[k]]
        /\ workers' = [workers EXCEPT ![w].pc = "report", ![w].outcome = outcome]
    /\ UNCHANGED <<clock, rows, reports, doubt>>

Finalized(row, outcome, delay) ==
    CASE outcome = "confirmed"          -> [Unclaimed(row) EXCEPT !.status = "recovered"]
      [] outcome = "confirmed_not_sent" ->
            Retried(Unclaimed(row), clock, "confirmed_not_sent", clock + delay)
      [] outcome \in Quarantines        -> Quarantined(row, outcome)

\* finalize_delivery
Finalize(w, delay) ==
    LET job  == workers[w]
        mine == Owned(job.token, {"dispatching"})
    IN  /\ job.pc = "report"
        /\ mine # {}
        /\ rows' = [k \in Keys |-> IF k \in mine
                        THEN Finalized(rows[k], job.outcome, delay) ELSE rows[k]]
        /\ doubt' = [k \in Keys |-> doubt[k] /\ ~ (job.outcome = "confirmed_not_sent" /\ k \in mine)]
        /\ workers' = [workers EXCEPT ![w] = Idle]
        /\ UNCHANGED <<clock, reports, sent>>

\* RecoveryClaimError: nothing of the batch is the worker's any more.
ClaimError(w) ==
    /\ \/ /\ workers[w].pc = "generate"
          /\ Owned(workers[w].token, {"processing"}) = {}
       \/ /\ workers[w].pc = "report"
          /\ Owned(workers[w].token, {"dispatching"}) = {}
    /\ workers' = [workers EXCEPT ![w] = Idle]
    /\ UNCHANGED <<clock, rows, reports, chat>>

\* The worker's process dies and starts again; the table survives.
Crash(w) ==
    /\ workers[w] # Idle
    /\ workers' = [workers EXCEPT ![w] = Idle]
    /\ UNCHANGED <<clock, rows, reports, chat>>
-----------------------------------------------------------------------------
(* Maintenance, routes, the administrator                                   *)

ExpireDue ==
    /\ rows' = Maintained(clock)
    /\ UNCHANGED <<clock, workers, reports, chat>>

WakeRoute(r) ==
    LET Q == Maintained(clock)
    IN  /\ rows' = [k \in Keys |->
            IF /\ Q[k].status = "pending" /\ Q[k].route = r
               /\ Q[k].class \in Recoverable
               /\ Q[k].attempts < MaxAttempts /\ Q[k].expiresAt > clock
            THEN [Q[k] EXCEPT !.nextAt = clock] ELSE Q[k]]
        /\ UNCHANGED <<clock, workers, reports, chat>>

\* confirm_not_sent: the administrator has looked, and no reply is in the chat.
ConfirmNotSent(k) ==
    /\ rows[k].status = "quarantined"
    /\ rows[k].class = "delivery_unknown"
    /\ sent[k] = 0
    /\ rows' = [rows EXCEPT ![k] = Retried(@, clock, "confirmed_not_sent", clock)]
    /\ doubt' = [doubt EXCEPT ![k] = FALSE]
    /\ UNCHANGED <<clock, workers, reports, sent>>

Abandon(k) ==
    /\ rows[k].status \notin {"none", "recovered", "expired"}
    /\ rows' = [rows EXCEPT ![k] = [Unclaimed(@) EXCEPT !.status = "abandoned"]]
    /\ UNCHANGED <<clock, workers, reports, chat>>

Tick ==
    /\ clock < MaxTime
    /\ clock' = clock + 1
    /\ UNCHANGED <<rows, workers, reports, chat>>
-----------------------------------------------------------------------------
WorkerStep(w) ==
    \/ \E asked \in {Routes} \cup {{r} : r \in Routes} : Claim(w, asked)
    \/ Renew(w)
    \/ DispatchStart(w)
    \/ Send(w)
    \/ \E delay \in Backoffs : GenerationFails(w, delay) \/ Finalize(w, delay)
    \/ ClaimError(w)
    \/ Crash(w)

Next ==
    \/ \E k \in Keys, class \in Classes, r \in Routes : Record(k, class, r)
    \/ \E w \in Workers : WorkerStep(w)
    \/ ExpireDue
    \/ \E r \in Routes : WakeRoute(r)
    \/ \E k \in Keys : ConfirmNotSent(k) \/ Abandon(k)
    \/ Tick

Spec == Init /\ [][Next]_vars
-----------------------------------------------------------------------------
(* Properties                                                               *)

\* An item is open for another reply only when no attempt on it is in doubt: each
\* one was judged unsent, by the worker that made it or by an administrator
\* (class docstring, lines 336-342; stale claims, repeated reports, late workers).
NoBlindReplay ==
    \A k \in Keys : rows[k].status \in {"pending", "processing"} => ~ doubt[k]

\* A conversation has one recovery turn at a time: whatever of it is under work
\* belongs to one claim and is at the same stage of it.
OneTurnPerConversation ==
    \A j, k \in Keys :
        /\ ConvOf[j] = ConvOf[k]
        /\ rows[j].status \in Active /\ rows[k].status \in Active
        => rows[j].status = rows[k].status /\ rows[j].token = rows[k].token

\* Claims never exceed the limit of attempts, and no item waits for a claim that
\* the limit rules out.
AttemptsBounded ==
    \A k \in Keys : rows[k] # NoRow =>
        /\ rows[k].attempts <= MaxAttempts
        /\ rows[k].status = "pending" => rows[k].attempts < MaxAttempts

\* What one claim holds stays within the limits of a batch, however its items were
\* reported, woken, taken away or left over; one oversized text is a batch alone.
BatchLimits ==
    \A tok \in Tokens :
        LET held == {k \in Keys : rows[k].status \in Active /\ rows[k].token = tok}
        IN  /\ Cardinality(held) <= MaxBatch
            /\ Cardinality(held) > 1 => Chars(held) <= MaxChars

\* An item counts as recovered only if a reply to it is in the chat: a worker that
\* was overtaken cannot close the batch of another.
RecoveredWasSent ==
    \A k \in Keys : rows[k].status = "recovered" => sent[k] > 0

\* What is closed stays closed: no report, sweep, worker or administrator takes an
\* item out of a terminal status; only an exhausted one may still be abandoned.
ClosedStays ==
    [][\A k \in Keys :
        /\ rows[k].status \in {"recovered", "expired", "abandoned"}
              => rows'[k].status = rows[k].status
        /\ rows[k].status = "exhausted" => rows'[k].status \in {"exhausted", "abandoned"}]_vars

\* Class docstring: a stale dispatch claim is always quarantined as
\* delivery_unknown.
StaleDispatchQuarantined ==
    [][ExpireDue => \A k \in Keys :
            Stale(rows[k], "dispatching", clock) =>
                /\ rows'[k].status = "quarantined"
                /\ rows'[k].class = "delivery_unknown"]_vars

\* Behaviours of workers that start their send while their lease lives.
PromptNext ==
    /\ Next
    /\ \A w \in Workers : workers'[w].pc = "send" =>
        \A k \in workers'[w].items :
            rows'[k].status = "dispatching" => rows'[k].leaseEnd > clock'
PromptSpec == Init /\ [][PromptNext]_vars

\* With prompt workers, no message that is reported once is answered twice: neither by
\* two workers nor by a handler whose delivery was unknown and a worker.
AnsweredOnce == \A k \in Keys : reports[k] <= 1 => sent[k] <= 1
=============================================================================
