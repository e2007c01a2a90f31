# Verification of the personification plugin

TLA+ models of the concurrent and durable parts of the *personification* chat
plugin (`src/`), TLC runs that check them on small instances, and TLAPS proofs
of what matters most for every size. The plugin is a NoneBot plugin: one asyncio
loop handles chat events, scheduled jobs and an administrator's web UI; its
durable state lies in SQLite, which several processes may open.

    tlc -workers 2 -config QzonePublish.cfg MCQzonePublish     # any run below
    tlapm QzonePublishProofs.tla                                   # any proof module

`PROJECT.json` lists components, runs, theorems, the source lines behind each
definition, the hazards of the code and which property answers each of them.

## 1. Inventory

### Components that are modelled

| Component | Code | State | Operations |
|---|---|---|---|
| Publish ledger | `core/qzone_publish.py` | tables `qzone_publish_operations` (status, payload hash, period, fence token, lease, remote id) and `qzone_monthly_usage`; kv row `qzone_post_state` | reserve, claim dispatch, finalise, mark stale, quota reading, confirm absent, reconcile, record historical |
| Recovery queue | `core/reply_recovery_queue.py` | table `reply_recovery_queue` (status, class, attempts, claim token, lease, expiry, retry time) | record failure, claim batch, renew, mark dispatch, generation failed, finalise, maintain, wake route, confirm not sent, abandon |
| Reply buffer | `handlers/reply_buffer.py`, `handlers/reply_commit.py`, `core/generation_fence.py` | `msg_buffer[key]`: messages buffered, pending and active, generation numbers, timer; per turn an owner task and a shielded child; a commit lock per session | ingress (group, private, poke), debounce, policy gate, admission, generation, time-out, cancellation, recording, hand-off, fence, commit |
| Supplement controller | `core/supplement_controller.py`, parts of `reply_buffer.py` | replacement window and chain, candidates, the drain task | private joins, group candidates, judging, replacement, replay |
| Reply admission | `ReplyConcurrencyController` of `handlers/reply_buffer.py`, `handlers/reply_commit.py` | the table of gates, each with a semaphore, a commit lock and counts; the semaphore of all sessions; the queues of both | retain and release an entry's gate, enter, wait for quiet, for a slot of the session and of all, run, time out, leave; take and release the commit lock; poke back |
| QQ-space social writes | `core/qzone_social_operations.py` | table `qzone_social_operations` (target, payload hash, group, day, status, instants) | reserve with cooldown and limits, mark dispatching, abort, finalise, and the coordinator around the external write |
| Social decisions, quota and scenarios | `core/social_decision.py`, `flows/social_intelligence/` | kv namespaces of claimed motivations, of paused targets and of counted messages | claim, settle, release, count a confirmed message, the scenarios' loop |
| Controlled moderation | `core/moderation.py`, `core/moderation_tools.py`, `webui/routes/moderation_routes.py` | tables of incidents, offences, reminders and their attempts, mutes, releases | begin, reconcile, remind, warn, check, reserve and answer a mute; reserve, query, lift and finish a release |
| QQ outbound ledger and recall | `core/qq_outbound.py`, `core/qq_recall.py` | the ledger of messages sent; tables of recall operations and their items | begin and answer a send; claim, delete, record, mark the rest, finish, cancel, recover at start |
| Route probe service | `core/route_probe_service.py` | tables of operations, of verified facts and one lease for all processes; a run lock and tasks per process | queue, join, run, heartbeat, finish, cancel, close, recover at start |

How they interact. The buffer's turns send replies and, when they fail, put their
messages on file with the recovery queue (`record_failure`), classed by how far
delivery had come. A worker is meant to claim and answer them later. A turn may
call tools: one moderates a group, one asks to recall what an earlier turn sent,
and the rows of that ledger come from the sends of every turn. Jobs, tools and
routes publish to the QQ space through the publish ledger, and like and comment
through the social writes, where a job also claims the decision that a chat
scenario might act on. The web UI queues probes, lifts mutes and decides what is in
doubt. All durable writes are single `BEGIN IMMEDIATE` transactions or single
mutations of a kv row; all state in memory is touched between two awaits of one
loop.

What makes them hard, and what correct means:

- *Publish ledger.* An external write cannot be undone or asked about. Callers are
  retried, cancelled, overtaken by a lease and killed between any two
  transactions; administrators and a reconciliation decide rows behind their
  backs. Correct: at most one write per operation; decided outcomes are final;
  every success is real, claims a feed nobody else claims, and is counted once in
  its month; nothing stays in dispatch for ever.
- *Recovery queue.* The same for replies, in batches, with attempts, time to live
  and repeated reports. Correct: nothing in doubt is retried, one recovery turn per
  conversation, a row closes only by the worker that answered, closed stays closed,
  attempts and batch limits hold.
- *Reply buffer.* Timers, gates, a lock, a shielded child and a drain all hand the
  same lists to one another. Correct: no message is lost or left lying, none is
  answered twice, a replaced or timed-out turn stays silent, order is kept.
- *Admission.* Turns give up in any of three waits, also when a slot was just handed
  to them; gates come and go with their users; a cancelled generation goes on sending
  for a while. Correct: the limits hold, no slot is lost, and replies of one session
  go out one at a time.
- *Social writes.* Two stores, one for decisions and one for operations, and no
  transaction over both: any step of either may fail, and an answer may be lost.
  Correct: an event or a payload is not acted on again while the first attempt stands,
  confirmed or in doubt; no crash, timeout or failing store releases it; daily limits
  count every effect that stands. An attempt stands when its write arrived or may
  arrive and its caller was not told of a refusal.
- *Moderation.* Turns of one group overlap, receipts arrive late, evidence grows
  stale while roles are queried, two administrators lift one mute. Correct: no mute
  without two delivered reminders and a later offence; a lift is sent once; the
  ledger says nothing the platform did not do.
- *Recall.* A send may be under way while its operation is recalled, the asking turn
  has itself acknowledged, and deletions are lost. Correct: no message is deleted
  twice, an operation is recalled whole, nothing else is touched, reports are true.
- *Route probes.* A lock in each process, a lease over all, a heartbeat, and a
  recovery at start. Correct: one probe at a time, one call per operation, requests
  join, results stay, facts are verified, what is queued or begun ends.

### Components that are not modelled

| Component | Code | Why not |
|---|---|---|
| Cooperative interruption, context cleanup | `core/interrupted_reply.py`, `core/context_cleanup.py` | the buffer has no reply segments and no commands |
| Proactive flows | `flows/proactive_flow.py`, `core/proactive_store.py` | as callers they are the chat jobs of `SocialWrites`; what they say and why is model output |
| Consumer-web coordinator | `core/consumer_web_coordinator.py` | one browser slot under one lock |
| Backup and transfer | `core/whole_plugin_backup.py`, `core/data_transfer/` | archive formats; the restore journal would be worth a module |
| Provider router, agent runtime, reply pipelines, skills | `core/provider_router.py`, `agent/`, `handlers/*_pipeline/`, `skills/` | what happens inside one turn, driven by model output; the buffer sees a turn as fences, actions and deliveries |
| Attention, background intelligence, peer bots, memory, profiles, emotion, persona, token ledger | `core/` | texts and scores: properties of data, not of control |
| Web UI, jobs, configuration, MCP, data store, authentication | `webui/`, `jobs/`, `core/` | routes and schedules over the above, whose calls are actions of the models; SQLite transactions are taken as atomic |

The plugin is large because of these: prompts, parsers, routes and a front end. The
modules cover the durable and concurrent protocols, not a share of its lines.

## 2. Plan

Most important first; what is done is listed with its modules.

1. `QzonePublish`, its abstract specification `PublishPromise`, `QzonePublishProofs`. *Done.*
2. `ReplyRecovery`, `ReplyRecoveryProofs`. *Done.*
3. `ReplyBuffer` with the supplement controller, `ReplyBufferProofs`. *Done* but for the commands that clear a
   session and cooperative interruption.
4. `SocialWrites`: social decisions, the quota and the QQ-space writes together, and
   `SocialWritesProofs`. *Done*, without an abstract specification of its own.
5. `Moderation`, `ModerationProofs`; `QQRecall`, `QQRecallProofs`. *Done.*
6. `RouteProbe`, `RouteProbeProofs`, with liveness. *Done.*
7. `ReplyAdmission`, `ReplyAdmissionProofs`, with liveness. *Done*, but not composed with
   `ReplyBuffer`, which assumes that admission is granted or times out at any step.
8. Composition: `ReplyBuffer`'s records as the reports of `ReplyRecovery`, through a
   shared definition of failure classes. *Open.*
9. Proofs of the buffer's invariants about messages, and of the queue's about answers and
   batches. *Done.*

There is one passing run per component. Where two questions want different bounds, the
MC module has scenes (below) and not a second run.

## 3. Modules

### QzonePublish

`ops` is the operations table, `usage` the monthly usage, `state` the key-value
row, `callers` the locals of each `coordinated_qzone_publish` call, `requests`,
`calls` and `feeds` the remote space, `recon` a reconciliation between its read
and its transaction. A call goes through `Start` (it reads the clock, once),
`ReserveRefused | ReserveNew | ReserveReclaim`, `Claim | ClaimLost`, `Post`,
`Answer`, `Finalize | FinalizeLate`; `Cancel` ends it around a transaction and
`Restart` ends all calls. Every action that reserves or reads the quota starts
with the code's `_mark_stale`. `Project` is `_apply_success_state`, called by
the three ways to a success. The remote space is external: `Answer` lets
`publish()` report a success only of a write that landed, a definite failure only
of one that did not, and "unknown" at any time, also while the write is under way.

The `force` flag, the interval between publications, the month of a row against
the month of the state, the partial unique index on remote ids and the window of
the reconciliation are modelled as the code has them.

### PublishPromise

What the rest of the plugin may rely on: `Write` once per operation, `Doubt`,
`Succeed` and `Fail` at most once, each success counted in one month, and no
decision before the write unless through doubt. `QzonePublish!KeepsPromise` is
this specification under the mapping of the five row statuses to four outcomes
("reserved", "dispatching" and an absent row are all "open").

### ReplyRecovery

`rows` is the table, `workers` what each worker holds between two calls,
`doubt` and `sent` are history variables: an attempt nobody has judged unsent, and
replies that reached the chat. `Maintained` is `_maintain_locked` with its three
updates in order; it is part of every action whose method calls it. No caller of
the worker's side exists in the repository yet; `Claim`, `DispatchStart`, `Send`,
`Finalize` and `GenerationFails` are the methods in the order in which the class
documentation and the tests use them, `Send` alone is the assumed outside. Two
things are assumed of people: a worker that reports "confirmed" or "confirmed not
sent" tells the truth, and so does an administrator who confirms that a message was
not answered.

### ReplyBuffer

One session. `entries` are the dictionaries ever made for it and `slot` the one
`msg_buffer` holds, because a finally block may still work on one that was
replaced. A turn has an `owner` (the timer's task or the handler of a private
event) and a `child`, the shielded generation, which can outlive it: `Timeout`
fences and leaves it, `OwnerCancelled` is the cancellation arriving.
`TimerHandOff` and `DirectHandOff` are the two finally blocks, `Drained` the one of
the drain task. `JoinResumes` and `DrainLocks` are the continuations after an
awaited commit lock. `recorded`, `answers` and `settled` are history variables.

### ReplyAdmission

`table` is `_session_gates`, `gates` the `_SessionGate` objects (a name is used again when nobody
refers to it), `slots` the value of the semaphore of all sessions, `kept` the sessions
whose buffer entry retains their gate, `line` the order of those who wait. A turn goes
through `Enter`, `AskIdle` (a buffered one), `AskSession` and `AskGlobal`, each with a `Take` for
who had to wait, and ends by `GiveUp` or `Leave`, which both are the finally clause
(`Departs`). asyncio is external: a semaphore keeps a slot it released for the first in
its queue, who takes it when the loop runs that task, and who is cancelled before then
hands it on. `reply` is the shielded generation, which may go on when its owner has left;
`Commit`, `ReleaseCommit` and `EndReply` are `acquire_reply_commit`, its release, and the
finally clause of `process_response_logic`. `back` is the task that a poke starts. `Cleanup` is
`_cleanup`, part of every action that gives up a reference.

### SocialWrites

`claims` and `pace` are the two kv namespaces of `social_decision.py`, `ops` the table,
`sentLog` the counted messages, `jobs` the attempts of every scheduler and tool call,
`wire` the external write of each, as the remote side sees it. A chat job goes
through `Start` (which reads the quota), `Claim | ClaimRefused`, `Write`, `Answer`,
`Settle | SettleFails` and `MarkSent`; a background job has the coordinator between its
claim and its settlement: `Reserve | ReserveRefused`, `MarkDispatching | MarkFails`,
`AbortReserved | AbortFails`, `Write`, `Answer`, `Finalize | FinalizeFails`. An agent's
job is the coordinator alone and the only one with limits. A job may stop for good after
any action: nothing in the code would clean up after it. A chat job keeps the
instant at which it started, as the scenarios pass it down.

`Answers` is what the caller makes of the answer. Of the QQ space, that may be a
refusal (`TakenAsRefused`) whatever became of the write: `comment_feed` returns a plain
`False` for any status but 200, 408, 429 and 5xx among them (`qzone_service.py:2306`), and
`_qzone_payload_success` for a login page, other HTML or a text that cannot be
parsed (`:1112`-`:1126`), of likes as well; the coordinator files both as a definite
failure (`qzone_social_operations.py:381`). The properties are therefore about attempts
that stand (`Stands`): the write is under way or has landed, and the job was not
told of a refusal.

### Moderation

One member of one group. The six tables are `incidents`, `events`, `warnings`,
`attempts`, `operations` and `releases`; `turns` and `admins` are the turns and the
release requests, each action a stretch of code between two awaits. `reminders`,
`mutes` and `lifting` are the external requests, which land or not, whatever their
caller has been told; `muted` is the mute in force and `lifts` counts the requests to
lift. `WarningAllowed` and `Eligible` are the two queries that weigh evidence, taken
again inside the reserving transaction as in the code. `MuteCheck` and `MuteReserve` are
apart because the roles are awaited between them.

### QQRecall

`ledger` is the table of what the bot sent, by operation and part, with `sending` the
parts whose send is awaited; `recalls` and `items` the two recall tables, `requests` the
requests of administrators and users; `chat`, `erasing` and `deletes` the platform. `Claim`
is the one transaction that selects an operation, refuses or takes it, and takes
with it the acknowledgements of the asking turn (`OwnAcks`); then come `Delete`,
`DeleteAnswer` and `Record` for each message, `CleanUp` for the rest after a
doubt, and `Finish`. `Cancel` and `Abandon` are cancellations around a thread that
goes on, `Restart` the recovery of a new process.

### RouteProbe

`ops`, `facts` and `lease` are the store that all processes share; `procs` and `tasks` the
services in them. A task waits for the lock of its process, then tries for the
lease, then probes under a heartbeat; `Work` is its next step, whichever that is.
`Queue` joins an active operation of its key or makes a new one. `Cancel`, `Shutdown`,
`Crash` and `Start` may come at any time. `calls`, `verified` and `crashes` are
history. The clock waits for a heartbeat that is due: a loop that stalls for a
whole lease is outside the model.

### MC modules

Each extends its module with model values, plans, offers, lengths and symmetry
sets. Symmetry is used only in runs without liveness, over callers, workers, tokens,
jobs, requests and people, which no definition orders.

`MCQzonePublish`, `MCReplyRecovery` and `MCRouteProbe` add a variable `scene`, fixed in the
initial state, and a condition `InScene` on what a behaviour of that scene does. A scene
spends the bound on one case: many callers of one operation, or two operations of
one caller; workers of any speed, or workers that start a send while their lease
lives; two processes and a crash, or two keys and none. A property that is only about one scene names it
(`PromptAnsweredOnce`, `CalmConcludes`).

## 4. Runs

| Run | Expect | Shows |
|---|---|---|
| `publish` | pass | three overlapping calls of one operation with crashes, cancellations and expired leases, or two operations with equal text across a month boundary, reconciled, recorded as historical or finalised late: the external write starts at most once (`AtMostOneWrite`); `CountedOnce`, `SuccessIsReal`, `RemoteClaimedOnce`; the ledger implements `PublishPromise` (`KeepsPromise`); no row stays in dispatch (`DispatchSettles`) |
| `publish_quota_reclaim` | violation | `QuotaBound` fails, see findings |
| `recovery` | pass | two workers, two messages, one reported twice: `NoBlindReplay`, `OneTurnPerConversation`, `RecoveredWasSent`, `AttemptsBounded`, `ClosedStays`; with prompt workers a message reported once is answered once (`PromptAnsweredOnce`); texts that just exceed a batch, `BatchLimits` |
| `recovery_stale` | violation | `StaleDispatchQuarantined` fails, see findings |
| `buffer` | pass | group and private sessions with and without supplements: `PlainNothingStranded`, `OneOwner`, `ReplacedIsSilent`, `RecoverableWasNotSent`, `AnsweredAtMostOnce`, `InOrder` |
| `buffer_wedged` | violation | `NothingStranded` fails in a private session with supplements, see findings |
| `admission` | pass | up to three turns, direct, buffered and pokes, in two sessions under limits of one to three, with an entry: `LimitsHold`, `RepliesAlone`; who waits for a slot is admitted or gives up (`WaitersServed`) |
| `social` | pass | two attempts out of seven plans, over two people, an event, a feed and two days, with answers lost or misread as refusals: no event (`EventOnce`) and no payload (`PayloadOnce`) is acted on again while the first attempt stands; only an answer read as a refusal, or a write never begun, releases a decision or a row (`StandingIsKept`); `DailyLimits` of what stands |
| `moderation` | pass | four messages, two incidents, two administrators: `MuteEarned`, `FailedNotMuted`, `LiftOnce`, `ReleaseIsTrue` |
| `recall` | pass | two operations, one of two parts, and two requests, with a restart: `RecallOnce`, `WholeOperation`, `OnlyAskedFor`, `ReportIsTrue` |
| `probe` | pass | two processes and two operations, of one key with a crash or of two keys without: `OneProbe`, `CalledOnce`, `JoinsActive`, `FactsVerified`, `StatusPath`; without crashes every probe ends, cancelled from whichever process, but one that another process asks to cancel before it is begun (`CalmConcludes`): that row stays `cancel_requested`, see section 5 |
| `probe_hangs` | violation | `Concludes` fails when a process crashes, see findings |

Type invariants are proved, as theorem `TypeCorrect` of each module that has proofs; that of
`ReplyBuffer` holds on the instances above and is not among the properties of its run.

### Bounds, and why they are enough

*Publish.* One operation and three calls is the smallest instance in which a stalled
call, the retry that reclaims its reservation and a late finaliser coexist. Leases
last one tick and months two, so three or four ticks hold an expiry, a reclaim, a
second expiry and a change of month. Two operations with equal text are needed for
clashes over a feed; one caller at a time suffices there, because a reconciliation,
a historical record and a restart overlap it. `MaxTime` bounds the clock; `Start`
begins no call so late that its lease would outlive it, so no row is kept from
expiring by the bound alone.

*Recovery.* Two keys of one conversation are a batch and a rest; two workers and two
tokens allow one to be overtaken by the other; `MaxReports` lets one failure be
reported again in every state. The scene "turns" ends at tick 1, at which every
lease of tick 0 is over; "prompt" goes to tick 2, the time to live; `recovery_stale`
to 4. `MaxAttempts = 2` has a last attempt and one before it. Claim tokens are random in
the code: `Claim` takes one that nobody uses.

*Buffer.* Three events and batches of two: a batch can overflow, be preempted and leave
a tail. The five sessions of `AllSessions` spend the bound where it matters; with
supplements in a group two events already make the replacement chain. Group
supplements are therefore left out of `AnsweredAtMostOnce`: candidates left over when
the generation moved on (`reply_buffer.py:1389`) need five messages.

*Admission.* Three turns are one that holds a slot, one that waits and one behind it; the five
scenes of `MixedScenes` spend them on a buffered turn, a direct one and a poke with an entry,
on two sessions that compete for the slots of all, and on more turns than a session has
slots. Each turn may come again when it is over, without a bound. Four gates are one for
each turn, which may all have outlived theirs, and one for the table.

*Social.* Every property compares two attempts, so two jobs suffice; the seven plans hold a
composite and its two children, an event that both channels may act on, a motive
without an event, a scenario without a decision and two tool calls. A cooldown and
a pause of one tick end within the instance; three ticks reach a second day. All limits
are 1, so the second attempt is the one over the limit. An answer may be read as a refusal at
any moment of a write.

*Moderation.* Three messages are the shortest way to a mute, and the fourth meets its unresolved
row (`Kept` lets it arrive no earlier); two incidents let one be
reconciled or go stale before the next. The validity of evidence is two ticks of
four. Two administrators are one who waits and one who overtakes. `MaxIncidents`
bounds the identifiers.

*Recall.* One operation replies in two parts, so it can be claimed between them; the other
acknowledges and asks, so two claims can meet in one message. At most one tick passes
and both requests run within one (`Kept`), because only the window of a request
depends on the clock.

*Probe.* Two operations are the running one and the next; two processes hold a lease and
wait for it, in both scenes; two keys do not join. Processes are alike and so are keys, so
the scenes fix which process crashes and which key comes first; the scene without crashes
has requests of one source, since the day's operation only joins more of them. A lease lasts two ticks of three and waiting for it
one, so that both run out; one crash leaves a lease without its holder.

`CHECK_DEADLOCK FALSE` is in every configuration but that of `admission`: a bounded clock, a bounded number of
events and operations that are all decided are proper ends.

### Fairness

`DispatchSettles` assumes `WF(Tick)`, time passes, and `WF(QuotaPoll)`, the quota is read
again and again. The periodic job and every page of the administrator that shows the
quota read it (`build_qzone_quota` calls `mark_stale`), and nothing can disable a
reading. Nothing is assumed of callers or of the provider: a caller that crashed never
finalises, and the property holds all the same.

`WaitersServed` assumes `WF(Runs(t))`: the loop runs a turn that can go on, and an admitted
one leaves, because `_run_generation_call` waits for a limited time and cancels the
child without waiting for it. Nothing forces a turn to give up, so the property is
about slots that come back and not about deadlines. It leaves out the first wait: direct
turns come first by design, and a buffered turn behind an endless stream of them ends by
its deadline only.

`CalmConcludes` and `Concludes` assume that a task of a living process goes on
(`WF(Work)`): the lock is released in order, the lease is tried for a limited time,
the provider answers within its time-out and cancellation reaches an await; that a
process which ended is started again, and that time passes. Heartbeats need no
fairness because the clock waits for them. Nothing is assumed of requests,
cancellations and shutdowns.

## 5. Findings

- `publish_quota_reclaim`: an expired reservation no longer holds quota; reclaiming
  it does not look at the quota again, so the month can end one over the limit.
- `recovery_stale`: the class documentation says that a stale dispatch is always
  quarantined as delivery unknown; the sweep quarantines it and then expires it in
  the same transaction when its time to live is over.
- `buffer_wedged`: a supplement to a private turn that is being recorded as failed
  cancels it inside its exception handler; the hand-off is skipped and the entry
  stays "processing".
- `probe_hangs`: the recovery at start does nothing while a lease lives. A process that
  dies while probing and is back before its lease ends leaves the operation running, and
  every later request joins it, until yet another restart.

The invariant of `buffer_wedged` fails in a group session too (`GroupSupplements` in place of
`PrivateSupplements`): a turn replaced by a supplement hands over in a branch that names
`start_buffer_timer` (`reply_buffer.py:1860`, `:1865`), which `run_buffer_timer` does not have.
The hand-off ends in a `NameError`, the messages stay in the entry and no timer is set,
though the comment at `:1828` promises the next generation both the original messages
and the related ones.

Seen while modelling, and not the subject of a run:

- The claim of a publication compares the lease with the instant read before the
  reservation (`qzone_publish.py:848`); the fence token still prevents a second write.
- A feed is recorded as historical though an operation without a remote id may
  have made it (`qzone_publish.py:367`); a publication confirmed absent may
  still land (`:299`).
- An item is abandoned while its worker sends (`reply_recovery_queue.py:1195`); one
  message that fails in two stages is two items (`:411`).
- A turn that fails is on file as not sent while it can still be replaced
  (`reply_buffer.py:1806`), or after an external action (`:349`); a clear command pops
  the entry of a running turn (`context_cleanup.py:49`).
- Two overlapping scenarios pass one daily quota (`social_intelligence/quota.py:48`, `:89`).
- Two reminders of one member may be under way at once (`moderation.py:71`); a mute in doubt,
  released because the member is not muted, may still land
  (`moderation_routes.py:60`); a process that dies under a mute leaves a row that bars
  the member's later turns from the tool (`moderation.py:30`).
- The task that pokes back (`reply_pipeline/processor.py:930`) is neither fenced nor waited for,
  and does not keep its gate: it may poke under the lock of a discarded gate while a reply
  of the session goes out under the new one. A gate whose lock a late child still
  holds when the last turn leaves stays in the table until the session's next turn
  (`reply_buffer.py:543`).
- A recall cancelled twice stays in dispatch until the next start
  (`qq_recall.py:680`, `:788`).
- A probe that another process cancels before it is begun hangs, although nothing
  crashes: that process has no task and only stores `cancel_requested`
  (`route_probe_service.py:199`, `:368`); when the task of the first one has the lease,
  `begin` is false and `_run` returns without finishing the row (`:316`). It stays
  `cancel_requested`, every later request for the route and capability joins it, and only
  a process that starts while no lease lives interrupts it. `CalmConcludes` excepts
  exactly these rows. A closing service cancels what another process runs.
- A like or a comment may be made twice, and the daily limits be passed: an answer that
  says nothing of the write is taken for a refusal (`qzone_service.py:2306`,
  `:1112`-`:1126`), which releases the decision and the payload, and the write may have
  landed or land later. `_classify_qzone_write_response` (`:1586`) treats such answers as
  unknown, and so does `like_feed` the statuses (`:1895`). The coordinator is documented
  as "no-replay" (`qzone_social_operations.py:45`); that holds of what it counts, which
  is what the properties of `social` say.

## 6. Proofs

All theorems hold for every value of the constants under the named assumptions of
the modules (`ConstantsAssumption`, `NoneAssumption`): finite sets of operations and
keys, positive leases and limits, and null values outside the sets they extend. They
do not depend on the bounds of the clock being small.

**QzonePublishProofs.** `TypeCorrect` is `Spec => []TypeOK`; typing is not inductive
alone, so `TypeInv` adds that every call started early enough for its lease
(`CallsInTime`), and `Coherent` that whatever a call, a request or a
reconciliation refers to exists. `WriteAtMostOnce` is `Spec => []AtMostOneWrite`.
That property is not inductive either: nothing in it keeps a second call from being
about to post. `OnceInv` calls a row sealed when it is neither absent nor
reserved, and says that a written row is sealed, that a call about to post
holds a sealed row not yet written, and that no two calls are about to post for one
operation. `StatusStep` lists the moves of a row's status over all actions, so
that a sealed row stays sealed (`SealedStays`); only `Claim` brings a call to
"post", and it needs a row that is not sealed. `MarkStale` is treated once, by
`StaleType`.

The second part of the module shows that the ledger implements `PublishPromise`
(`LedgerKeepsPromise`) and keeps its books (`CountedOnceAlways`, `ClaimedOnceAlways`,
`SuccessIsRealAlways`).
The invariant adds `Answered`: a call that has posted belongs to an operation that
was written. Lemma `Steps` then sorts every action into one of two kinds. A quiet step
(`Quiet`) leaves every success as it is and moves other rows among "reserved",
"dispatching" and "unknown" only. A deciding step (`Decides`) settles a single row, one
that may be settled (`Decidable`: a written dispatch, a doubt, or a historical
operation never recorded), takes a feed nobody claimed, and counts the row if and only if it
becomes a success. Each theorem is an argument about the two kinds and not about the
actions: a quiet step maps to a `Doubt` or a stutter, a deciding one to `Succeed`,
`Fail` or `Doubt`, and `Post` to `Write`; a decision adds one element to the finite
set of a month's successes, which is what `Project` adds to its usage. `RealInv`, for
`SuccessIsRealAlways`, ties the calls to the remote space: a request belongs to the one
write of its operation, so that a landed one is never sent again; an operation's own feed
exists only once its request has landed, so that no feed is overwritten; the text of a
landed request is shown there (`Shown`), and a call told of a success, or a
reconciliation before its commit, refers to a text that is. The payload of a row never
changes (`PayloadStays`), and only three steps make a success (`Successes`). The proof assumes
that the owner's own posts have ids of their own (`Ops \cap Manual = {}`).

**ReplyBufferProofs.** All the safety of the buffer, in three parts. The first proves
`OneOwnerAlways`, `ReplacedIsSilentAlways` and `RecoverableWasNotSentAlways`. Which messages an
entry or a turn holds plays no part in them, so typing is weakened to shapes: which fields a record has, and the kind of those that
decide (`EntryShape`, `TurnShape`). `BufferInv` adds `Owned`, a live owner's entry is
processing its turn, and a timer inside its gate has an idle entry; `Lineage`, the turns of an
entry have different generations and the current one is the last, a generation under
replacement is superseded, and drains and handlers that wait refer to turns of
their own entry; and `Honest`, a turn on file as not sent has not sent and its child is over or
fenced. Entries and turns only move in a few ways: every rewriting of an entry is
`Tame` (it keeps turn, generation and what is superseded) or `Raised` (its current generation is
superseded), one lemma for each. `OldStep` says that a step moves each entry in such a way,
raising one only while its current turn is untouched, and lets a turn act only while it is
`Fresh`; `OldStepKeeps` is the argument, made once: a superseded turn is not `Fresh`, so it
stays silent. All actions are `OldStep`s but those that begin a turn or make an entry, treated by
`Begins` and `Makes`.

The second part says where the messages are: `AnsweredAtMostOnceAlways`, for private sessions
and for groups without supplements, and `InOrderAlways`, for the latter. Facts about the queues
come first. `Without`, which drops messages from one, is a recursive function; that it
keeps the others, once each and in their order (`KeptExists`, `Keeping`), is shown for the
least length at which it would fail (`LeastNumber`). `Filtered`, `Joined`, `Extended`, `Divided` and
`MergedIs` say of each operation on queues which messages come out and in which order. The
invariant `MsgInv` has four parts. `Placed`: a message is in one list of one entry or
was taken by one turn, where turns replaced before they acted (`Gone`) do not count;
that these are silent is the first part's theorem. `Queueing`: what a waiting handler holds is
nowhere else. `Counted`: a message has one answer if some turn that took it began to send, and
none otherwise. `InLine`: queues are in order, and what a turn took precedes what later turns took
and what still waits. Each part by itself is not inductive: a message would be answered
twice through a second copy in a queue, and out of order through a batch
taken back behind later messages. `Flow(e0, F)` describes every step at once: one entry takes up
new messages `F`, and at most one turn begins, with those or with what that entry lets go.
`FlowKeeps` is the argument, made once, and `InStep` its order; a lemma for each action
(`FinishPlaces`, `TimerStartsPlaces`, `GroupPlaces`, ...) shows that it is such a step.

The third part proves `PlainNothingStrandedAlways`. `Held` says who carries a message without
supplements: `Covered`, it is settled, on file, in a live turn, or in the queues of the entry
under the key; `Homed`, only that entry has live turns in a group; `Minded`, an
entry that is processed has a live owner, a batch that was superseded is in the queue
again, and an idle entry with messages has a timer. `HeldStays` reduces a step to `Minds` (what
it does to one entry and the owners) and `Delivers` (whatever a live turn or the queue loses is
covered afterwards).

**ReplyRecoveryProofs.** A lemma for each way to rewrite a row (`RetriedRow`,
`QuarantinedRow`, `SweptRow`, `MaintainedRow`, `RereportedRow`, `FinalizedRow`, ...)
says what it may leave. On them rest `TypeCorrect`; `NothingInDoubtReplayed`, where
`ReplayInv` adds that a message never reported is not in doubt; `OneTurn`, inductive
by itself through `WorkKeptBySteps`: a claim takes only a conversation without
active rows, every other step moves the active rows of one token alike or puts them
out of work; `AttemptsLimited`; `RecoveredIsReal`, where `DeliveryInv` adds that no two
workers hold one token, that what is in dispatch under a worker's token is what that
worker set out to send, and that a worker about to report success has delivered to
all of it; and `ClosedForGood`, an action property by cases of `Next`. `BatchesLimited`
needs the length of a batch, a fold over a set: `Chars` is any tally that follows the fold's
recursion (`IsTally`); that tallies agree and that a part is no longer than the whole is
shown for a smallest set where it would fail (`TalliesAgree`), so that what the steps take out
of a batch leaves it within its limits. `PromptAnswers`, about workers that start a send
while their lease lives, rests on `OnceInv`: a message reported at most once that is open for
another attempt has no answer and none under way, and an attempt under way is the first
and holds the row while its lease lives, unless an administrator has abandoned it. `RowOnce`
says what a step other than a report may do to a row under that invariant.
`ScenesAnswerOnce` carries it over to the scenes of the run. A message reported twice is outside the
theorem: each report may be of a delivery of its own.

**ModerationProofs.** All the safety of moderation: `TypeCorrect`, `FailuresAreReal`
(`FailedNotMuted`), `LiftedOnce` (`LiftOnce`), `ReleasedInTruth` (`ReleaseIsTrue`) and
`MutesAreEarned` (`MuteEarned`). `MuteInv` says that a row never reserved has no request, a mute
on file as sent has landed and one on file as failed was refused. `LiftInv` says that only the
administrator who holds the release ("releasing") may still lift, that there is one such
administrator for each mute, that its lift has not been sent before, and that a release
handed on as "unknown" is never held again: `ReleaseMoves` lists what finishing a release may
change. `ForceInv` says of a request that `Knows` the member is free (its query saw so, or its
lift has landed) that the mute it is about is not in force: a confirmed mute has landed once
and cannot come back. `EvidenceInv` says that a warning stands for a reminder that landed,
given after its offence arrived, and that of two live warnings one precedes the offence of
the other; eligibility adds the order of the two and the later offence.

**QQRecallProofs.** All the safety of the recall: `TypeCorrect`, `OperationsWhole`
(`WholeOperation`), `OnlyWhatWasAsked` (`OnlyAskedFor`), `RecalledOnce` (`RecallOnce`) and
`ReportsAreTrue` (`ReportIsTrue`). A lemma for each action (`ClaimFacts`, `RecordFacts`, ...) says
what it does; `AllMove` lists the moves of an item, a row, a recall and a request over all of
them. `Ties` relates the tables: parts are numbered without gaps, so that a new part has no
row; an item has a row and a recall; a claimed operation's rows are all its items. `DelInv`: two
requests never hold one message, and what a request holds and has not yet begun to delete was
never asked to be deleted. `Truth`: what an item, a row or a request about to report says of a
deletion is what came of it, which is final; `Books`: a decided recall's items are all decided,
and its count is theirs.

**ReplyAdmissionProofs.** All the safety of admission: `TypeCorrect`, `LimitsAlwaysHold` (`LimitsHold`)
and `RepliesGoAlone` (`RepliesAlone`). Both could fail only through a second gate for a session
whose first is still in use, so `IInv` is about the books of a gate. `RefsBalance`: `refs` counts
the turns inside and the entry. `SlotsBalance` and `AllBalance`: the slots left and those held
make up the limit, a slot handed over and not yet taken being held. `AtHome`: who is inside a
gate, or sends under its lock, finds that gate in the table. `_cleanup` discards a gate
only with `refs` at 0 and its lock free; then nobody is inside and nobody sends, and
`AtHome` survives. `OneSends`, at most one sends under one lock, and `AtHome` give `RepliesAlone`;
`AtHome` and the balances give the limits. One lemma for each action (`EnterKeeps`,
`DepartsKeeps`, ...) says that it keeps `IInv`; `Settled` and `SameSlots` treat what an action
leaves alone.

**SocialWritesProofs.** All the safety of the social writes: `TypeCorrect`,
`EventReachesOnce` (`EventOnce`), `StandingKept` (`StandingIsKept`), `PayloadReachesOnce`
(`PayloadOnce`) and `LimitsHold` (`DailyLimits`). `Sound` ties one job to its row and to its
write at every step of the code: before the write nothing is on the wire, a row that
may have been written keeps a counted status whatever failed, unless its job was told of a
refusal, and a row is given up only then or of a write that is lost or was never sent.
Nothing is assumed of a refusal being true. `TypeOK` and `Sound` are inductive
together. Three invariants relate different jobs. `Seals`: of the jobs of a backed
decision at most one is `Busy` (it may still write, or its write stands), and none is while
the claim is open. `Hashes`: two counted rows never have the same payload. `Counts`:
the agent's counted rows of a group, or of a target, on a day are within the limit. `JobGoes`,
`BusySteps` and `RowSteps` list over all actions how a job, its being busy and its row may
change; `Reserve` alone adds a counted row, and one job moves at a time.

**RouteProbeProofs.** `OpsMove` lists the moves of an operation's row over all actions (`Moves`);
on it rest `TypeCorrect` and `StatusesOnPath` (`StatusPath`), an action property.
`ProviderCalledOnce` (`CalledOnce`) adds that an operation which has not begun was never called
(`CallInv`); `RequestsJoin` (`JoinsActive`) is inductive, since only `Queue` makes an operation
active, and it looks for one first; `OneProbeAtATime` (`OneProbe`) rests on `LeaseInv`: a task that
probes holds the lease, and the lease has not run out; `FactsAreVerified` (`FactsVerified`) is
inductive.

Every safety property of the passing runs is thus a theorem. What stays with TLC are the
liveness properties `DispatchSettles`, `CalmConcludes` and `WaitersServed`, since neither fairness
nor ENABLED is within the prover's reach, the refutations of the runs that expect
a violation, and `TypeOK` of `ReplyBuffer`: its proofs rest on `EntryShape`, `TurnShape` and
`MsgInv` instead, which say of the records and the queues what matters.

## 7. Limits

Not in the models: payload hashing (a payload stands for its hash), texts, messages of
the log, columns that no decision reads, failures of SQLite itself except where
the code catches them, a clock that runs backwards, the plugin's shutdown and the
redelivery of an event to the buffer. In `ReplyBuffer`, admission is granted or times out at
any step (how, is `ReplyAdmission`), and writing to the recovery queue succeeds. `ReplyAdmission`
merges the finally clause with the hand-over of a slot whose wait was cancelled, leaves out
`wait_for_direct_idle`, which nobody calls, and the follow-ups that take a turn's commit
lock to replace it, which are in `ReplyBuffer` and send nothing. `finalize_qzone_publish`,
`record_qzone_post` and `mark_recalled` are called nowhere but in tests, and left out.

`SocialWrites` has one bot and one process's copy of the log of counted messages; parsing
model output into a decision is a choice. `Moderation` has one member; what an agent
decides is a choice. `QQRecall` has one conversation; the candidates a user may quote are all
operations. `RouteProbe` has one day, does not prune, and ends a cancelled task at once.
