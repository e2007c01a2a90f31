----------------------------- MODULE ReplyBuffer -----------------------------
(***************************************************************************)
(* One chat session of handlers/reply_buffer.py: its buffer entry, the     *)
(* turns generated from it, and the fence of core/generation_fence.py and  *)
(* handlers/reply_commit.py that keeps a replaced turn from sending.       *)
(*                                                                         *)
(* Everything runs in one asyncio loop, so a step is what a task does      *)
(* between two awaits: the ingress handler and its wait for the commit     *)
(* lock, the debounce timer and its policy gate, the turn's owner, the     *)
(* generation it runs as a shielded child, and the task that drains the    *)
(* candidates for a group supplement.                                      *)
(*                                                                         *)
(* Abstracted: events are numbered in the order they pass the policy at    *)
(* ingress, and are not delivered twice; delays, windows and deadlines may *)
(* end at any time; admission grants or times out; process shutdown and    *)
(* the commands that clear a session are left out; a timer whose entry has *)
(* left msg_buffer does nothing; writing to the recovery queue succeeds.   *)
(* Of a turn's delivery flags the furthest one reached is kept.            *)
(***************************************************************************)
EXTENDS Naturals, Sequences, FiniteSets

CONSTANTS
    Events,       \* bound on the events of a session
    Sessions,     \* the sessions to consider: group or private chat, the supplement
                  \* feature on or off, how many events it gets, and which of them
                  \* may be a poke or be refused by the policy
    MaxBatch      \* _MAX_BATCH_EVENTS

ASSUME ConstantsAssumption ==
    /\ Events \in Nat /\ MaxBatch \in Nat \ {0}
    /\ Sessions \subseteq [lane : {"group", "private"}, supplements : BOOLEAN,
                           events : 0 .. Events, others : SUBSET (1 .. Events)]

VARIABLES
    session,      \* the session's kind and configuration
    arrived,      \* how many events have arrived
    cues,         \* the group events that address the bot
    entries,      \* the buffer entries made for the session so far
    slot,         \* the one msg_buffer holds under the session's key, or 0
    turns,        \* the turns, in the order they began
    lock,         \* the turn that holds the session's commit lock, or 0
    joins,        \* private handlers that wait for the commit lock
    recorded,     \* how the recovery queue has each event on file
    answers,      \* in how many turns delivery of a reply to the event began
    settled       \* events whose turn is over and has not been replaced

ghosts  == <<recorded, answers, settled>>
vars == <<session, arrived, cues, entries, slot, turns, lock, joins, ghosts>>
-----------------------------------------------------------------------------
lane        == session.lane
supplements == session.supplements

Msgs     == 1 .. Events
TurnIds  == 1 .. Len(turns)
EntryIds == 1 .. Len(entries)
Elems(s) == {s[i] : i \in DOMAIN s}
Without(s, drop) ==
    LET kept[i \in 0 .. Len(s)] ==
            IF i = 0 THEN <<>>
            ELSE IF s[i] \in drop THEN kept[i - 1] ELSE Append(kept[i - 1], s[i])
    IN  kept[Len(s)]
Merged(s, t)     == s \o Without(t, Elems(s))
Least(a, b)      == IF a <= b THEN a ELSE b
Greatest(a, b)   == IF a <= b THEN b ELSE a

NoDrain == [pc |-> "off"]
Drain   == [pc : {"sleep", "judge", "lock"}, gen : Nat, turn : Nat, batch : Seq(Msgs),
            safe : BOOLEAN]

\* _new_entry, with the supplement controller's fields.
NewEntry ==
    [items |-> <<>>, pending |-> <<>>, active |-> <<>>, related |-> <<>>,
     original |-> <<>>, candidates |-> <<>>, drain |-> NoDrain, timer |-> "off",
     processing |-> FALSE, current |-> 0, token |-> 0, superseded |-> 0,
     turn |-> 0, window |-> "none", repl |-> 0]

Entry ==
    [items : Seq(Msgs), pending : Seq(Msgs), active : Seq(Msgs), related : Seq(Msgs),
     original : Seq(Msgs), candidates : Seq(Msgs), drain : Drain \cup {NoDrain},
     timer : {"off", "armed", "gate"}, processing : BOOLEAN, current : Nat, token : Nat,
     superseded : Nat, turn : Nat, window : {"none", "open", "shut"}, repl : Nat]

NewTurn(by, e, g, items, random) ==
    [by |-> by, entry |-> e, gen |-> g, items |-> items, random |-> random,
     owner |-> "admit", child |-> "none", stage |-> "none",
     fenced |-> FALSE, cancelled |-> FALSE, filed |-> "no"]

Turn ==
    [by : {"direct", "timer", "poke"}, entry : Nat, gen : Nat, items : Seq(Msgs), random : BOOLEAN,
     owner : {"admit", "run", "record", "done"},
     child : {"none", "work", "wait", "hold", "done", "failed"},
     stage : {"none", "action", "started", "complete"},
     fenced : BOOLEAN, cancelled : BOOLEAN, filed : {"no", "recoverable", "doubtful"}]

TypeOK ==
    /\ session \in Sessions
    /\ arrived \in 0 .. Events /\ cues \subseteq Msgs
    /\ entries \in Seq(Entry) /\ slot \in 0 .. Len(entries)
    /\ turns \in Seq(Turn) /\ lock \in 0 .. Len(turns)
    /\ joins \subseteq [msg : Msgs, entry : EntryIds, turn : TurnIds]
    /\ recorded \in [Msgs -> SUBSET {"recoverable", "doubtful"}]
    /\ answers \in [Msgs -> Nat] /\ settled \subseteq Msgs

Init ==
    /\ session \in Sessions
    /\ arrived = 0 /\ cues = {}
    /\ entries = <<>> /\ slot = 0 /\ turns = <<>> /\ lock = 0 /\ joins = {}
    /\ recorded = [m \in Msgs |-> {}]
    /\ answers = [m \in Msgs |-> 0]
    /\ settled = {}
-----------------------------------------------------------------------------
(* The fence                                                                *)

\* generation_is_current; a turn without an entry has only its own flag.
Current(turn, entry) ==
    /\ ~ turn.fenced
    /\ turn.entry # 0 => turn.gen = entry.current /\ entry.superseded < turn.gen

\* Mutant: only a delivery makes a turn irreplaceable.
SafeUnlessSending(turn, entry) ==
    Current(turn, entry) /\ turn.stage \in {"none", "action"}
\* safe_to_supersede
Safe(turn, entry) == Current(turn, entry) /\ turn.stage = "none"

EntryOf(turn) == IF turn.entry = 0 THEN NewEntry ELSE entries[turn.entry]

\* SupplementController.can_replace and replacement_pending
CanReplace(entry, g, safe) ==
    supplements /\ entry.window = "open" /\ entry.current = g /\ safe
ReplacementPending(entry, g) ==
    g > 0 /\ entry.repl = g /\ entry.current = g /\ entry.window = "open"

\* active_task.cancel(), unless that task is done.
CancelActive(T, entry) ==
    IF entry.processing /\ T[entry.turn].owner # "done"
    THEN [T EXCEPT ![entry.turn].cancelled = TRUE] ELSE T

\* What both callers of invalidate_generation write: generation g is to be replaced
\* by one that the messages joining take part in.
Superseding(entry, g, joining) ==
    [entry EXCEPT !.related = @ \o joining, !.repl = g,
                  !.superseded = Greatest(@, g), !.token = g + 1]
-----------------------------------------------------------------------------
(* Moving messages within an entry                                          *)

Armed(entry) == [entry EXCEPT !.timer = "armed"]

\* Mutant: the list is emptied before it is copied.
PromotedEmpty(entry) ==
    LET chain == IF entry.related = <<>> THEN [entry EXCEPT !.window = "none", !.repl = 0]
                 ELSE entry
    IN  [chain EXCEPT !.items = <<>>, !.pending = <<>>]
\* _promote_pending_batch
Promoted(entry) ==
    LET chain == IF entry.related = <<>> THEN [entry EXCEPT !.window = "none", !.repl = 0]
                 ELSE entry
    IN  [chain EXCEPT !.items = entry.pending, !.pending = <<>>]

\* The replaced batch and its supplements become the next batch.
Replayed(entry, original) ==
    [entry EXCEPT !.items = Merged(original, entry.related),
                  !.pending = Without(@, Elems(entry.related)),
                  !.related = <<>>, !.active = <<>>]

\* finalize_generation.  The two hand-offs of a replaced turn name a function
\* start_buffer_timer that run_buffer_timer does not have: they end in a NameError
\* before a timer is set.
TimerHandOff(entry, g) ==
    LET idle   == [entry EXCEPT !.processing = FALSE]
        closed == [idle EXCEPT !.active = <<>>]
    IN  CASE entry.token = g ->
                 IF entry.pending # <<>> THEN Armed(Promoted(closed)) ELSE closed
          [] entry.token # g /\ entry.superseded < g -> entry
          [] entry.token # g /\ entry.superseded >= g ->
                 IF entry.related # <<>>
                 THEN [Replayed(idle, entry.active) EXCEPT !.original = entry.active]
                 ELSE IF entry.drain.pc # "off" THEN idle
                 ELSE IF entry.pending # <<>> THEN Promoted(closed) ELSE closed

\* The end of the private path of handle_reply_event.
DirectHandOff(entry, g) ==
    LET closed == [entry EXCEPT !.processing = FALSE, !.active = <<>>]
    IN  IF entry.token # g /\ entry.related # <<>>
        THEN Armed([closed EXCEPT !.items = entry.active \o entry.related, !.related = <<>>])
        ELSE IF entry.pending # <<>> THEN Armed(Promoted(closed))
        ELSE entry

\* The timer's owner pops whatever is under the key, the direct one only its own.
Vacates(turn, entry) ==
    /\ turn.entry # 0 /\ entry.pending = <<>>
    /\ IF turn.by = "timer"
       THEN entry.token = turn.gen /\ entry.items = <<>>
       ELSE (entry.token = turn.gen \/ entry.related = <<>>) /\ slot = turn.entry

\* The owner of turn t hands over and ends; T has the turns as it leaves them.
Finish(t, T) ==
    LET turn  == T[t]
        entry == EntryOf(turn)
    IN  /\ turns' = [T EXCEPT ![t].owner = "done"]
        /\ settled' = IF turn.entry # 0 /\ entry.superseded >= turn.gen THEN settled
                      ELSE settled \cup Elems(turn.items)
        /\ entries' = IF turn.entry = 0 THEN entries
                      ELSE [entries EXCEPT ![turn.entry] =
                                IF turn.by = "timer" THEN TimerHandOff(@, turn.gen)
                                ELSE DirectHandOff(@, turn.gen)]
        /\ slot' = IF Vacates(turn, entry) THEN 0 ELSE slot
-----------------------------------------------------------------------------
(* Ingress                                                                  *)

Direct(e, m) == NewTurn("direct", e, 1, <<m>>, FALSE)

\* The policy refuses the event: it is kept for an operator.
Refused(m) ==
    /\ recorded' = [recorded EXCEPT ![m] = @ \cup {"doubtful"}]
    /\ UNCHANGED <<cues, entries, slot, turns, joins, settled>>

\* A poke has a turn of its own and no entry.
Poke(m) ==
    /\ turns' = Append(turns, NewTurn("poke", 0, 1, <<m>>, FALSE))
    /\ UNCHANGED <<cues, entries, slot, joins, recorded, settled>>

\* A private supplement: the running turn is fenced and cancelled.
Join(e, m, T) ==
    /\ entries' = [entries EXCEPT ![e] = Superseding(@, @.current, <<m>>)]
    /\ turns' = CancelActive(T, entries[e])
    /\ UNCHANGED <<slot, recorded, settled>>

Wait(e, m) ==
    /\ entries' = [entries EXCEPT ![e].pending = Append(@, m)]
    /\ UNCHANGED <<slot, turns, recorded, settled>>

\* A private event while a turn of the entry is processing.
ArriveInTurn(e, m) ==
    LET entry   == entries[e]
        t       == entry.turn
        pending == ReplacementPending(entry, entry.current)
        can     == /\ CanReplace(entry, entry.current, Safe(turns[t], entry))
                   /\ turns[t].owner # "admit"    \* else it has no commit lock yet
    IN  \/ /\ pending
           /\ Join(e, m, turns)
           /\ UNCHANGED joins
        \/ /\ ~ pending /\ can /\ lock = 0
           /\ Join(e, m, [turns EXCEPT ![t].fenced = TRUE])
           /\ UNCHANGED joins
        \/ /\ ~ pending /\ can /\ lock # 0
           /\ joins' = joins \cup {[msg |-> m, entry |-> e, turn |-> t]}
           /\ UNCHANGED <<entries, slot, turns, recorded, settled>>
        \/ /\ ~ pending /\ ~ can
           /\ Wait(e, m)
           /\ UNCHANGED joins

ArrivePrivate(m) ==
    /\ lane = "private"
    /\ UNCHANGED cues
    /\ \/ /\ slot # 0 /\ entries[slot].processing
          /\ ArriveInTurn(slot, m)
       \/ /\ slot # 0 /\ ~ entries[slot].processing /\ entries[slot].items # <<>>
          /\ LET joined == [entries[slot] EXCEPT !.items = Append(@, m)]
             IN  entries' = [entries EXCEPT ![slot] = Armed(joined)]
          /\ UNCHANGED <<slot, turns, joins, recorded, settled>>
       \/ /\ slot # 0 => ~ entries[slot].processing /\ entries[slot].items = <<>>
          /\ IF supplements
             THEN LET e == Len(entries) + 1
                  IN  /\ entries' = Append(entries,
                            [NewEntry EXCEPT !.processing = TRUE, !.active = <<m>>,
                                             !.current = 1, !.token = 1,
                                             !.turn = Len(turns) + 1, !.window = "open"])
                      /\ slot' = e
                      /\ turns' = Append(turns, Direct(e, m))
             ELSE /\ turns' = Append(turns, Direct(0, m))
                  /\ UNCHANGED <<entries, slot>>
          /\ UNCHANGED <<joins, recorded, settled>>

\* Mutant: the check made before the wait is trusted.
JoinResumesBlind ==
    /\ lock = 0
    /\ \E j \in joins :
        /\ joins' = joins \ {j}
        /\ Join(j.entry, j.msg, [turns EXCEPT ![j.turn].fenced = TRUE])
    /\ UNCHANGED <<session, arrived, cues, lock, answers>>
\* The handler gets the commit lock it waited for.
JoinResumes ==
    /\ lock = 0
    /\ \E j \in joins :
        /\ joins' = joins \ {j}
        /\ IF Safe(turns[j.turn], entries[j.entry])
           THEN Join(j.entry, j.msg, [turns EXCEPT ![j.turn].fenced = TRUE])
           ELSE Wait(j.entry, j.msg)
    /\ UNCHANGED <<session, arrived, cues, lock, answers>>

\* _queue_group_supplement; the judge is installed when generation begins.
Eligible(entry, T) ==
    /\ \/ CanReplace(entry, entry.current, Safe(T[entry.turn], entry))
       \/ ReplacementPending(entry, entry.current)
    /\ T[entry.turn].child # "none"
NewDrain(g) == [pc |-> "sleep", gen |-> g, turn |-> 0, batch |-> <<>>, safe |-> FALSE]

\* _should_preempt_current_batch
Preemptable(entry) ==
    turns[entry.turn].random /\ Safe(turns[entry.turn], entry)

\* Mutant: the preempted batch goes behind what waits.
PreemptedLast(entry, m) ==
    [entry EXCEPT !.pending = Merged(Append(entry.pending, m), entry.active),
                  !.superseded = Greatest(@, entry.current)]
\* A cue takes the batch of a random turn back to the head of the queue.
Preempted(entry, m) ==
    [entry EXCEPT !.pending = Merged(entry.active, Append(entry.pending, m)),
                  !.superseded = Greatest(@, entry.current)]

ArriveGroup(m, cue) ==
    LET e     == IF slot = 0 THEN Len(entries) + 1 ELSE slot
        entry == IF slot = 0 THEN NewEntry ELSE entries[slot]
        put(new) == entries' = IF slot = 0 THEN Append(entries, new)
                               ELSE [entries EXCEPT ![e] = new]
        queued == [entry EXCEPT !.pending = Append(@, m)]
    IN  /\ lane = "group"
        /\ cues' = IF cue THEN cues \cup {m} ELSE cues
        /\ slot' = e
        /\ \/ /\ ~ entry.processing
              /\ put(Armed([entry EXCEPT !.items = Append(@, m)]))
              /\ UNCHANGED turns
           \/ /\ entry.processing /\ cue /\ Preemptable(entry)
              /\ put(Preempted(entry, m))
              /\ turns' = CancelActive(turns, entry)
           \/ /\ entry.processing /\ ~ (cue /\ Preemptable(entry))
              /\ put(IF Eligible(entry, turns)
                     THEN [queued EXCEPT
                            !.candidates = Append(@, m),
                            !.drain = IF @.pc = "off" THEN NewDrain(entry.current) ELSE @]
                     ELSE Armed(queued))
              /\ UNCHANGED turns
        /\ UNCHANGED <<joins, recorded, settled>>

Arrive ==
    /\ arrived < session.events
    /\ arrived' = arrived + 1
    /\ LET m == arrived + 1
       IN  \/ m \in session.others /\ (Refused(m) \/ Poke(m))
           \/ ArrivePrivate(m)
           \/ \E cue \in BOOLEAN : ArriveGroup(m, cue)
    /\ UNCHANGED <<session, lock, answers>>
-----------------------------------------------------------------------------
(* run_buffer_timer up to the start of a turn                               *)

\* Mutant: a timer does not ask whether the entry is being processed.
TimerFiresBusy(e) ==
    /\ entries[e].timer = "armed"
    /\ entries' = [entries EXCEPT ![e].timer = IF slot # e THEN "off" ELSE "gate"]
    /\ UNCHANGED <<session, arrived, cues, slot, turns, lock, joins, ghosts>>
\* The delay is over.
TimerFires(e) ==
    /\ entries[e].timer = "armed"
    /\ entries' = [entries EXCEPT ![e].timer =
                        IF slot # e \/ entries[e].processing THEN "off" ELSE "gate"]
    /\ UNCHANGED <<session, arrived, cues, slot, turns, lock, joins, ghosts>>

\* The policy gate lets all of the batch but refused pass, and the turn begins.
TimerStarts(e, refused) ==
    LET entry == entries[e]
        cut   == Least(MaxBatch, Len(entry.items))
        taken == SubSeq(entry.items, 1, cut)
        kept  == Without(taken, refused)
        tail  == SubSeq(entry.items, cut + 1, Len(entry.items)) \o entry.pending
        split == [entry EXCEPT !.pending = tail, !.timer = "off"]
        g     == entry.current + 1
    IN  /\ slot = e /\ entry.timer = "gate"
        /\ refused \subseteq Elems(taken)
        /\ recorded' = [m \in Msgs |-> IF m \in refused THEN recorded[m] \cup {"doubtful"}
                                       ELSE recorded[m]]
        /\ \/ /\ kept = <<>>
              /\ entries' = [entries EXCEPT ![e] =
                                IF tail # <<>> THEN Armed(Promoted(split)) ELSE split]
              /\ slot' = IF tail # <<>> THEN slot ELSE 0
              /\ UNCHANGED turns
           \/ /\ kept # <<>>
              /\ entries' = [entries EXCEPT ![e] =
                    [split EXCEPT !.processing = TRUE, !.active = kept, !.items = <<>>,
                                  !.original = <<>>, !.current = g, !.token = g,
                                  !.turn = Len(turns) + 1, !.repl = 0,
                                  !.window = IF supplements /\ @ = "none" THEN "open" ELSE @]]
              /\ turns' = Append(turns, NewTurn("timer", e, g, kept,
                                    lane = "group" /\ Elems(kept) \cap cues = {}))
              /\ UNCHANGED slot
        /\ UNCHANGED <<session, arrived, cues, lock, joins, answers, settled>>

\* The supplement window of an entry closes.
WindowCloses(e) ==
    /\ entries[e].window = "open"
    /\ entries' = [entries EXCEPT ![e].window = "shut"]
    /\ UNCHANGED <<session, arrived, cues, slot, turns, lock, joins, ghosts>>
-----------------------------------------------------------------------------
(* The owner of a turn                                                      *)

\* What the turn's failure is recorded as.
FailureClass(turn) ==
    IF turn.stage \in {"none", "action"} THEN "recoverable" ELSE "doubtful"

Recorded(items, class) ==
    [m \in Msgs |-> IF m \in Elems(items) THEN recorded[m] \cup {class} ELSE recorded[m]]

\* The turn's messages go on file, written in a thread its owner waits for.
Files(t, T) ==
    LET class == FailureClass(turns[t])
    IN  /\ turns' = [T EXCEPT ![t].owner = "record", ![t].filed = class]
        /\ recorded' = Recorded(turns[t].items, class)
        /\ UNCHANGED <<entries, slot, settled>>

Waiting(t, at) == turns[t].owner = at /\ ~ turns[t].cancelled

\* The turn is admitted, and generation begins.
Admit(t) ==
    /\ Waiting(t, "admit")
    /\ turns' = [turns EXCEPT ![t].owner = "run", ![t].child = "work"]
    /\ UNCHANGED <<session, arrived, cues, entries, slot, lock, joins, ghosts>>

AdmissionTimeout(t) ==
    /\ Waiting(t, "admit")
    /\ recorded' = Recorded(turns[t].items, "recoverable")
    /\ Finish(t, [turns EXCEPT ![t].filed = "recoverable"])
    /\ UNCHANGED <<session, arrived, cues, lock, joins, answers>>

Returns(t) ==
    /\ Waiting(t, "run") /\ turns[t].child = "done"
    /\ Finish(t, turns)
    /\ UNCHANGED <<session, arrived, cues, lock, joins, recorded, answers>>

\* Generation raised; a poke's handler has no clause for it.
Fails(t) ==
    /\ Waiting(t, "run") /\ turns[t].child = "failed"
    /\ \/ turns[t].by # "poke" /\ Files(t, turns)
       \/ turns[t].by = "poke" /\ Finish(t, turns) /\ UNCHANGED recorded
    /\ UNCHANGED <<session, arrived, cues, lock, joins, answers>>

\* Mutant: the child is left behind unfenced.
TimeoutUnfenced(t) ==
    /\ Waiting(t, "run") /\ turns[t].child \notin {"done", "failed"}
    /\ IF turns[t].stage = "complete"
       THEN Finish(t, turns) /\ UNCHANGED recorded
       ELSE Files(t, turns)
    /\ UNCHANGED <<session, arrived, cues, lock, joins, answers>>
\* The deadline: the child is fenced and left behind.
Timeout(t) ==
    LET T == [turns EXCEPT ![t].fenced = TRUE]
    IN  /\ Waiting(t, "run") /\ turns[t].child \notin {"done", "failed"}
        /\ IF turns[t].stage = "complete"
           THEN Finish(t, T) /\ UNCHANGED recorded
           ELSE Files(t, T)
        /\ UNCHANGED <<session, arrived, cues, lock, joins, answers>>

RecordWritten(t) ==
    /\ Waiting(t, "record")
    /\ Finish(t, turns)
    /\ UNCHANGED <<session, arrived, cues, lock, joins, recorded, answers>>

\* The cancellation reaches the owner.  One that reaches the direct owner in its
\* exception handler passes the clauses that would hand over.
OwnerCancelled(t) ==
    LET T == [turns EXCEPT ![t].cancelled = FALSE,
                           ![t].fenced = @ \/ turns[t].owner = "run"]
    IN  /\ turns[t].cancelled /\ turns[t].owner # "done"
        /\ IF turns[t].by = "direct" /\ turns[t].owner = "record"
           THEN /\ turns' = [T EXCEPT ![t].owner = "done"]
                /\ UNCHANGED <<entries, slot, settled>>
           ELSE Finish(t, T)
        /\ UNCHANGED <<session, arrived, cues, lock, joins, recorded, answers>>
-----------------------------------------------------------------------------
(* The generation, which may outlive its owner                              *)

Child(t, at) == turns[t].child = at
Fresh(t)     == Current(turns[t], EntryOf(turns[t]))

\* mark_external_action_started
Act(t) ==
    /\ Child(t, "work") /\ turns[t].stage = "none" /\ Fresh(t)
    /\ turns' = [turns EXCEPT ![t].stage = "action"]
    /\ UNCHANGED <<session, arrived, cues, entries, slot, lock, joins, ghosts>>

\* acquire_reply_commit, up to its wait and after it
WantCommit(t) ==
    /\ Child(t, "work") /\ Fresh(t)
    /\ turns' = [turns EXCEPT ![t].child = "wait"]
    /\ UNCHANGED <<session, arrived, cues, entries, slot, lock, joins, ghosts>>
GetCommit(t) ==
    /\ Child(t, "wait") /\ lock = 0 /\ Fresh(t)
    /\ turns' = [turns EXCEPT ![t].child = "hold"]
    /\ lock' = t
    /\ UNCHANGED <<session, arrived, cues, entries, slot, joins, ghosts>>

\* mark_reply_delivery_started, and the first send after it
StartDelivery(t) ==
    /\ Child(t, "hold") /\ turns[t].stage \in {"none", "action"} /\ Fresh(t)
    /\ turns' = [turns EXCEPT ![t].stage = "started"]
    /\ answers' = [m \in Msgs |-> IF m \in Elems(turns[t].items)
                                  THEN answers[m] + 1 ELSE answers[m]]
    /\ UNCHANGED <<session, arrived, cues, entries, slot, lock, joins, recorded, settled>>

CompleteDelivery(t) ==
    /\ Child(t, "hold") /\ turns[t].stage = "started"
    /\ turns' = [turns EXCEPT ![t].stage = "complete"]
    /\ UNCHANGED <<session, arrived, cues, entries, slot, lock, joins, ghosts>>

\* The child ends: with a result or an exception, or because a fence stops it.
Ends(t, how) ==
    /\ \/ Child(t, "work") \/ Child(t, "hold")
       \/ Child(t, "wait") /\ ~ Fresh(t)
    /\ how = "failed" => turns[t].owner = "run"    \* else nobody hears of it
    /\ turns' = [turns EXCEPT ![t].child = how]
    /\ lock' = IF lock = t THEN 0 ELSE lock
    /\ UNCHANGED <<session, arrived, cues, entries, slot, joins, ghosts>>
-----------------------------------------------------------------------------
(* The task that drains the candidates of a group supplement                *)

\* Its finally block; entry and T are as the task leaves them.
Drained(entry, T, g) ==
    LET ended  == [entry EXCEPT !.drain = NoDrain]
        again  == ended.candidates # <<>> /\ ended.current = g
        queued == CASE ~ again                       -> ended
                    [] again /\ Eligible(ended, T)   -> [ended EXCEPT !.drain = NewDrain(g)]
                    [] again /\ ~ Eligible(ended, T) -> [ended EXCEPT !.candidates = <<>>]
    IN  IF queued.processing \/ queued.superseded < g THEN queued
        ELSE IF queued.related # <<>>
             THEN Armed(Replayed(queued, IF queued.original # <<>> THEN queued.original
                                         ELSE queued.active))
        ELSE IF queued.pending # <<>> /\ queued.drain.pc = "off"
             THEN Armed(Promoted(queued))
        ELSE queued

DrainEnds(e, entry, T) ==
    /\ entries' = [entries EXCEPT ![e] = Drained(entry, T, entry.drain.gen)]
    /\ turns' = T

\* The candidates collected so far go to the judge.
DrainSubmits(e) ==
    LET entry == entries[e]
        g     == entry.drain.gen
        safe  == Safe(turns[entry.turn], entry)
        taken == [entry EXCEPT !.candidates = <<>>]
    IN  /\ entry.drain.pc = "sleep"
        /\ IF /\ CanReplace(entry, g, safe) \/ ReplacementPending(entry, g)
              /\ turns[entry.turn].child # "none"
           THEN /\ entries' = [entries EXCEPT ![e] =
                        [taken EXCEPT !.drain = [pc |-> "judge", gen |-> g, turn |-> entry.turn,
                                                 batch |-> entry.candidates, safe |-> safe]]]
                /\ UNCHANGED turns
           ELSE DrainEnds(e, taken, turns)
        /\ UNCHANGED <<session, arrived, cues, slot, lock, joins, ghosts>>

\* Under the commit lock: the final check and the fence.
FenceUnderLock(e, accepted) ==
    LET entry == entries[e]
        d     == entry.drain
        T     == [turns EXCEPT ![d.turn].fenced = TRUE]
    IN  IF Safe(turns[d.turn], entry) /\ entry.token = d.gen
        THEN DrainEnds(e, Superseding(entry, d.gen, accepted), CancelActive(T, entry))
        ELSE DrainEnds(e, entry, turns)

\* The judge answers, or does not in time.
DrainJudged(e, related) ==
    LET entry    == entries[e]
        d        == entry.drain
        accepted == Without(d.batch, Elems(d.batch) \ related)
        open     == CanReplace(entry, d.gen, d.safe) \/ ReplacementPending(entry, d.gen)
    IN  /\ d.pc = "judge"
        /\ related \subseteq Elems(d.batch)
        /\ \/ /\ related = {} \/ ~ open
              /\ DrainEnds(e, entry, turns)
           \/ /\ related # {} /\ open /\ ReplacementPending(entry, d.gen)
              /\ DrainEnds(e, Superseding(entry, d.gen, accepted), CancelActive(turns, entry))
           \/ /\ related # {} /\ open /\ ~ ReplacementPending(entry, d.gen) /\ lock = 0
              /\ FenceUnderLock(e, accepted)
           \/ /\ related # {} /\ open /\ ~ ReplacementPending(entry, d.gen) /\ lock # 0
              /\ entries' = [entries EXCEPT ![e].drain = [d EXCEPT !.pc = "lock",
                                                                   !.batch = accepted]]
              /\ UNCHANGED turns
        /\ UNCHANGED <<session, arrived, cues, slot, lock, joins, ghosts>>

DrainLocks(e) ==
    /\ entries[e].drain.pc = "lock" /\ lock = 0
    /\ FenceUnderLock(e, entries[e].drain.batch)
    /\ UNCHANGED <<session, arrived, cues, slot, lock, joins, ghosts>>
-----------------------------------------------------------------------------
TurnStep(t) ==
    \/ Admit(t) \/ AdmissionTimeout(t) \/ Returns(t) \/ Fails(t) \/ Timeout(t)
    \/ RecordWritten(t) \/ OwnerCancelled(t)
    \/ Act(t) \/ WantCommit(t) \/ GetCommit(t) \/ StartDelivery(t) \/ CompleteDelivery(t)
    \/ \E how \in {"done", "failed"} : Ends(t, how)

EntryStep(e) ==
    \/ TimerFires(e) \/ WindowCloses(e) \/ DrainSubmits(e) \/ DrainLocks(e)
    \/ \E refused \in SUBSET Elems(entries[e].items) : TimerStarts(e, refused)
    \/ \E related \in SUBSET Msgs : DrainJudged(e, related)

Next ==
    \/ Arrive \/ JoinResumes
    \/ \E t \in TurnIds : TurnStep(t)
    \/ \E e \in EntryIds : EntryStep(e)

Spec == Init /\ [][Next]_vars
-----------------------------------------------------------------------------
(* Properties                                                               *)

LiveOwner(e) == \E t \in TurnIds : turns[t].entry = e /\ turns[t].owner # "done"

\* Some task will see to the entry.
Attended(e) ==
    entries[e].timer # "off" \/ entries[e].drain.pc # "off" \/ LiveOwner(e)

Carried(m) ==
    \/ \E j \in joins : j.msg = m
    \/ \E t \in TurnIds : turns[t].owner # "done" /\ m \in Elems(turns[t].items)
    \/ /\ slot # 0 /\ Attended(slot)
       /\ m \in Elems(entries[slot].items \o entries[slot].pending
                        \o entries[slot].active \o entries[slot].related)

\* No message is lost or left lying: each one that came in has had its turn, is on
\* file with the recovery queue, or is carried by something that will move it on.
NothingStranded ==
    \A m \in 1 .. arrived : m \in settled \/ recorded[m] # {} \/ Carried(m)

\* The buffer of a session without supplements loses nothing, whatever is preempted,
\* refused, timed out or fails.
PlainNothingStranded == ~ supplements => NothingStranded

\* A session's entry is worked by one turn at a time: no timer starts a turn while
\* another owner, cancelled or recording its failure, has yet to hand over.
OneOwner ==
    \A t, u \in TurnIds :
        /\ t # u /\ turns[t].entry = turns[u].entry /\ turns[t].entry # 0
        => turns[t].owner = "done" \/ turns[u].owner = "done"

\* A turn that is to be replaced has sent nothing and never will, and has run no
\* external action: the check and the fence leave no gap for the child to slip
\* through, whether it waits for the lock, holds it or ignores its cancellation.
ReplacedIsSilent ==
    \A t \in TurnIds :
        turns[t].entry # 0 /\ turns[t].gen = entries[turns[t].entry].superseded
        => turns[t].stage = "none"

\* A turn whose messages went on file as not sent never sends: the child that a
\* timeout leaves behind cannot make the record false.
RecoverableWasNotSent ==
    \A t \in TurnIds :
        turns[t].filed = "recoverable" => turns[t].stage \in {"none", "action"}

\* Outside group supplements no message is part of two turns that send: preempted and
\* replaced batches are replayed only when they had not begun to be answered.
AnsweredAtMostOnce ==
    lane = "private" \/ ~ supplements => \A m \in Msgs : answers[m] <= 1

\* Without supplements a group is answered in order: once a turn begins to answer,
\* nothing older than any message it took is left for a later one.
InOrder ==
    lane = "group" /\ ~ supplements =>
        \A t, u \in TurnIds :
            /\ t < u /\ turns[t].entry # 0 /\ turns[u].entry # 0
            /\ turns[t].stage \in {"started", "complete"}
            => \A a \in Elems(turns[t].items), b \in Elems(turns[u].items) : a < b
=============================================================================
