----------------------------- MODULE Moderation -----------------------------
(***************************************************************************)
(* Controlled muting of one member of a group, core/moderation.py,         *)
(* core/moderation_tools.py and the release route of                       *)
(* webui/routes/moderation_routes.py.                                      *)
(*                                                                         *)
(* Each turn answers one message of the member and captures the current    *)
(* incident when it begins; its agent may call the tool to remind, to mute *)
(* or to declare peace.  Turns of one group run concurrently (the session  *)
(* limit is three).  An administrator may lift a mute.  An action is a     *)
(* stretch of code between two awaits; the reminder, the mute and the lift *)
(* are external requests that land on their own, or never.  A turn that is *)
(* cut off, with its process or alone, takes no further step.              *)
(*                                                                         *)
(* Abstracted: platform, bot, group and target are fixed; verdicts and     *)
(* permissions are choices; a message, its turn and its round are one id.  *)
(***************************************************************************)
EXTENDS Integers, FiniteSets

CONSTANTS
    Turns, Admins,
    MaxIncidents,    \* bound on the incidents created
    Ttl,             \* WARNING_TTL_SECONDS, in ticks
    ReleaseLease,    \* the 120 seconds a release may take, in ticks
    MaxTime          \* bound on the clock

ASSUME ModerationConstants ==
    /\ MaxIncidents \in Nat \ {0} /\ Ttl \in Nat \ {0}
    /\ ReleaseLease \in Nat \ {0} /\ MaxTime \in Nat \ {0}
    /\ IsFiniteSet(Turns) /\ IsFiniteSet(Admins)

Incidents == 1 .. MaxIncidents
NoOne     == 0            \* no incident
Times     == 1 .. MaxTime

VARIABLES
    clock,
    incidents,   \* moderation_incidents: none, open or reconciled
    events,      \* moderation_events: the offences filed under each incident
    warnings,    \* moderation_warnings of each incident
    attempts,    \* moderation_warning_attempts of each incident
    operations,  \* moderation_operations: status of each incident's mute
    releases,    \* moderation_releases of each incident's mute
    turns,       \* each turn: where it is, its incident, its message's arrival
    admins,      \* each release request
    reminders,   \* the reminder of each turn, as the group sees it
    mutes,       \* the mute request of each incident, as the platform sees it
    lifts,       \* how many lift requests were made for each incident's mute
    lifting,     \* the lift request of each administrator
    muted        \* the incident whose mute is in force, or NoOne

ledger == <<incidents, events, warnings, attempts, operations, releases>>
remote == <<reminders, mutes, lifts, lifting, muted>>
vars   == <<clock, ledger, turns, admins, remote>>
-----------------------------------------------------------------------------
Warning == [turn : Turns, at : Times, live : BOOLEAN]
NoRelease == [status |-> "none", at |-> 0]
Release == [status : {"releasing", "released", "unknown", "blocked", "unavailable"}, at : Times]
OpStatuses == {"none", "running", "sent", "failed", "unknown", "released"}
Wire == {"none", "flying", "landed", "lost"}
Turn == [pc : {"idle", "received", "ready", "reminding", "checking", "muting", "barred"},
         incident : Incidents \cup {NoOne}, received : Times \cup {0}, at : Times \cup {0}]
Admin == [pc : {"idle", "query", "decide", "lifting"}, op : Incidents \cup {NoOne},
          state : {"none", "releasing", "unknown"}, sees : BOOLEAN]

TypeOK ==
    /\ clock \in Times
    /\ incidents \in [Incidents -> {"none", "open", "reconciled"}]
    /\ events \in [Incidents -> SUBSET Turns]
    /\ warnings \in [Incidents -> SUBSET Warning]
    /\ attempts \in [Incidents -> [Turns -> {"none", "running", "sent", "unknown"}]]
    /\ operations \in [Incidents -> OpStatuses]
    /\ releases \in [Incidents -> Release \cup {NoRelease}]
    /\ turns \in [Turns -> Turn]
    /\ admins \in [Admins -> Admin]
    /\ reminders \in [Turns -> Wire]
    /\ mutes \in [Incidents -> Wire]
    /\ lifts \in [Incidents -> Nat]
    /\ lifting \in [Admins -> Wire]
    /\ muted \in Incidents \cup {NoOne}

Init ==
    /\ clock = 1
    /\ incidents = [i \in Incidents |-> "none"]
    /\ events = [i \in Incidents |-> {}]
    /\ warnings = [i \in Incidents |-> {}]
    /\ attempts = [i \in Incidents |-> [t \in Turns |-> "none"]]
    /\ operations = [i \in Incidents |-> "none"]
    /\ releases = [i \in Incidents |-> NoRelease]
    /\ turns = [t \in Turns |-> [pc |-> "idle", incident |-> NoOne, received |-> 0, at |-> 0]]
    /\ admins = [a \in Admins |-> [pc |-> "idle", op |-> NoOne, state |-> "none", sees |-> FALSE]]
    /\ reminders = [t \in Turns |-> "none"]
    /\ mutes = [i \in Incidents |-> "none"]
    /\ lifts = [i \in Incidents |-> 0]
    /\ lifting = [a \in Admins |-> "none"]
    /\ muted = NoOne
-----------------------------------------------------------------------------
(* What the ledger's queries answer, with the offences E                     *)

Latest(i) ==
    /\ i # NoOne => incidents[i] # "none"
    /\ \A j \in Incidents : incidents[j] # "none" => j <= i
Live(i) == {w \in warnings[i] : w.live}
Received(t) == turns[t].received
Recent(at, now) == now - Ttl <= at /\ at <= now

\* The first live warning anchors the incident, else its first offence.
Anchors(i) == IF Live(i) # {} THEN {w.at : w \in Live(i)} ELSE {Received(t) : t \in events[i]}
Current(i, now) ==
    /\ i # NoOne
    /\ incidents[i] = "open" /\ operations[i] = "none"
    /\ \E at \in Anchors(i) : at <= now
    /\ \A at \in Anchors(i) : now - Ttl <= at

Blocked == \E i \in Incidents : operations[i] \in {"running", "unknown"}

WarningAllowed(E, i, t, now) ==
    /\ operations[i] = "none" /\ incidents[i] # "reconciled"
    /\ t \in E[i] /\ Recent(Received(t), now)
    /\ Cardinality(Live(i)) < 2
    /\ \A w \in Live(i) : w.turn # t /\ w.at < Received(t)
    /\ Live(i) # {} => \E w \in Live(i) : now - Ttl <= w.at

\* Mutant: any offence of the incident justifies the mute.
EligibleAtOnce(E, i, now) ==
    /\ incidents[i] # "reconciled"
    /\ \E v, w \in Live(i), t \in E[i] :
          /\ v # w /\ Recent(v.at, now) /\ Recent(w.at, now)
          /\ Received(t) <= now
\* An offence later than the second of the live warnings.
Eligible(E, i, now) ==
    /\ incidents[i] # "reconciled"
    /\ \E v, w \in Live(i), t \in E[i] :
          /\ v # w /\ Recent(v.at, now) /\ Recent(w.at, now)
          /\ v.at <= w.at /\ w.at < Received(t) /\ Received(t) <= now
-----------------------------------------------------------------------------
(* A turn                                                                   *)

Goto(t, pc) == turns' = [turns EXCEPT ![t].pc = pc]

\* The member's message arrives.  A muted member cannot write.
Receive(t) ==
    /\ turns[t].pc = "idle" /\ muted = NoOne
    /\ turns' = [turns EXCEPT ![t].pc = "received", ![t].received = clock]
    /\ UNCHANGED <<clock, ledger, admins, remote>>

\* register_moderation_for_turn: no tool while an earlier mute is unresolved, the
\* current incident, or a new one.
BeginBarred(t) ==
    /\ turns[t].pc = "received" /\ Blocked
    /\ Goto(t, "barred")
    /\ UNCHANGED <<clock, ledger, admins, remote>>

Begin(t) ==
    /\ turns[t].pc = "received" /\ ~ Blocked
    /\ \E last \in Incidents \cup {NoOne} :
        LET i == IF Current(last, clock) THEN last ELSE last + 1 IN
        /\ Latest(last)
        /\ i <= MaxIncidents
        /\ turns' = [turns EXCEPT ![t].pc = "ready", ![t].incident = i]
        /\ incidents' = [incidents EXCEPT ![i] = "open"]
    /\ UNCHANGED <<clock, events, warnings, attempts, operations, releases, admins, remote>>

\* The verdict is that the incident is over.
Reconcile(t) ==
    LET i == turns[t].incident IN
    /\ turns[t].pc = "ready"
    /\ warnings' = [warnings EXCEPT ![i] = {[w EXCEPT !.live = FALSE] : w \in @}]
    /\ incidents' = [incidents EXCEPT ![i] = "reconciled"]
    /\ UNCHANGED <<clock, events, attempts, operations, releases, turns, admins, remote>>

\* The verdict is to remind: the offence is filed and the reminder reserved.
Remind(t) ==
    LET i == turns[t].incident IN
    /\ turns[t].pc = "ready"
    /\ attempts[i][t] = "none"
    /\ events' = [events EXCEPT ![i] = @ \cup {t}]
    /\ IF WarningAllowed(events', i, t, clock)
       THEN /\ attempts' = [attempts EXCEPT ![i][t] = "running"]
            /\ reminders' = [reminders EXCEPT ![t] = "flying"]
            /\ Goto(t, "reminding")
       ELSE UNCHANGED <<attempts, reminders, turns>>
    /\ UNCHANGED <<clock, incidents, warnings, operations, releases, admins,
                   mutes, lifts, lifting, muted>>

\* A confirmed receipt: the reminder becomes a warning if it still may.
Warn(t) ==
    LET i == turns[t].incident IN
    /\ turns[t].pc = "reminding" /\ reminders[t] = "landed"
    /\ IF WarningAllowed(events, i, t, clock)
       THEN /\ warnings' = [warnings EXCEPT ![i] =
                    @ \cup {[turn |-> t, at |-> clock, live |-> TRUE]}]
            /\ attempts' = [attempts EXCEPT ![i][t] = "sent"]
       ELSE UNCHANGED <<warnings, attempts>>
    /\ Goto(t, "ready")
    /\ UNCHANGED <<clock, incidents, events, operations, releases, admins, remote>>

\* No receipt, an odd one, a review that drops the text, or an exception.
WarnUnknown(t) ==
    /\ turns[t].pc = "reminding"
    /\ attempts' = [attempts EXCEPT ![turns[t].incident][t] = "unknown"]
    /\ Goto(t, "ready")
    /\ UNCHANGED <<clock, incidents, events, warnings, operations, releases, admins, remote>>

\* The verdict is to mute: the instant of the request is frozen before the member's
\* and the bot's roles are queried once more.
MuteCheck(t) ==
    LET i == turns[t].incident IN
    /\ turns[t].pc = "ready"
    /\ events' = [events EXCEPT ![i] = @ \cup {t}]
    /\ turns' = IF Eligible(events', i, clock)
                THEN [turns EXCEPT ![t].pc = "checking", ![t].at = clock] ELSE turns
    /\ UNCHANGED <<clock, incidents, warnings, attempts, operations, releases, admins, remote>>

\* The roles have come back: evidence again, one row per incident, the request.
MuteReserve(t) ==
    LET i == turns[t].incident IN
    /\ turns[t].pc = "checking"
    /\ Eligible(events, i, turns[t].at)
    /\ operations[i] = "none"
    /\ operations' = [operations EXCEPT ![i] = "running"]
    /\ mutes' = [mutes EXCEPT ![i] = "flying"]
    /\ Goto(t, "muting")
    /\ UNCHANGED <<clock, incidents, events, warnings, attempts, releases, admins,
                   reminders, lifts, lifting, muted>>

MuteBlocked(t) ==
    /\ turns[t].pc = "checking"
    /\ Goto(t, "ready")
    /\ UNCHANGED <<clock, ledger, admins, remote>>

\* Mutant: an exception of the adapter is taken for a failure.
OutcomesGuessed(i) ==
    {"failed"} \cup (IF mutes[i] = "landed" THEN {"sent"} ELSE {})
Outcomes(i) ==
    {"unknown"} \cup (IF mutes[i] = "landed" THEN {"sent"} ELSE {})
                \cup (IF mutes[i] = "lost" THEN {"failed"} ELSE {})

\* The adapter answers, raises or is cancelled; only a running row is finished.
MuteAnswer(t) ==
    LET i == turns[t].incident IN
    /\ turns[t].pc = "muting"
    /\ \E s \in Outcomes(i) :
          operations' = [operations EXCEPT ![i] = IF @ = "running" THEN s ELSE @]
    /\ Goto(t, "ready")
    /\ UNCHANGED <<clock, incidents, events, warnings, attempts, releases, admins, remote>>
-----------------------------------------------------------------------------
(* The administrator's release                                              *)

Leave(a) == admins' = [admins EXCEPT ![a].pc = "idle", ![a].op = NoOne,
                                     ![a].state = "none", ![a].sees = FALSE]
Enter(a, i, s) == admins' = [admins EXCEPT ![a].pc = "query", ![a].op = i, ![a].state = s]
Noted(i, s) == releases' = [releases EXCEPT ![i] = [status |-> s, at |-> clock]]

\* Mutant: a release that takes too long is simply taken over.
ReserveReleaseTakeover(a, i) ==
    LET r == releases[i] IN
    IF \/ r.status \in {"none", "blocked", "unavailable"}
       \/ (r.status = "releasing" /\ clock - r.at >= ReleaseLease)
    THEN Noted(i, "releasing") /\ Enter(a, i, "releasing")
    ELSE UNCHANGED <<releases, admins>>
ReserveRelease(a, i) ==
    LET r == releases[i] IN
    CASE r.status \in {"none", "blocked", "unavailable"} ->
            Noted(i, "releasing") /\ Enter(a, i, "releasing")
      [] r.status = "releasing" /\ clock - r.at >= ReleaseLease ->
            Noted(i, "unknown") /\ Enter(a, i, "unknown")
      [] r.status = "unknown" -> Enter(a, i, "unknown") /\ UNCHANGED releases
      [] OTHER -> UNCHANGED <<releases, admins>>

ReleaseStart(a, i) ==
    /\ admins[a].pc = "idle"
    /\ operations[i] \in {"sent", "unknown"}
    /\ ReserveRelease(a, i)
    /\ UNCHANGED <<clock, incidents, events, warnings, attempts, operations, turns, remote>>

FinishRelease(i, s) ==
    /\ IF releases[i].status = "releasing" \/ (releases[i].status = "unknown" /\ s = "released")
       THEN Noted(i, s) ELSE UNCHANGED releases
    /\ operations' = [operations EXCEPT ![i] =
            IF s = "released" /\ @ \in {"sent", "unknown"} THEN "released" ELSE @]

\* The platform reports whether the member is muted just now.
ReleaseQuery(a) ==
    /\ admins[a].pc = "query"
    /\ admins' = [admins EXCEPT ![a].pc = "decide", ![a].sees = (muted # NoOne)]
    /\ UNCHANGED <<clock, ledger, turns, remote>>

\* No bot, a query that fails, or roles that do not permit the write.
ReleaseRefused(a) ==
    /\ admins[a].pc \in {"query", "decide"}
    /\ \E s \in {"unavailable", "blocked"} : FinishRelease(admins[a].op, s)
    /\ Leave(a)
    /\ UNCHANGED <<clock, incidents, events, warnings, attempts, turns, remote>>

ReleaseMoot(a) ==
    /\ admins[a].pc = "decide" /\ ~ admins[a].sees
    /\ FinishRelease(admins[a].op, "released")
    /\ Leave(a)
    /\ UNCHANGED <<clock, incidents, events, warnings, attempts, turns, remote>>

\* The member is still muted and an earlier lift is in doubt: nothing is sent.
ReleaseInDoubt(a) ==
    /\ admins[a].pc = "decide" /\ admins[a].sees /\ admins[a].state = "unknown"
    /\ Leave(a)
    /\ UNCHANGED <<clock, ledger, turns, remote>>

ReleaseLift(a) ==
    /\ admins[a].pc = "decide" /\ admins[a].sees /\ admins[a].state = "releasing"
    /\ admins' = [admins EXCEPT ![a].pc = "lifting"]
    /\ lifts' = [lifts EXCEPT ![admins[a].op] = @ + 1]
    /\ lifting' = [lifting EXCEPT ![a] = "flying"]
    /\ UNCHANGED <<clock, ledger, turns, reminders, mutes, muted>>

\* Mutant: a lift without an answer is believed.
LiftOutcomesHoped(a) == {"released"}
LiftOutcomes(a) == {"unknown"} \cup (IF lifting[a] = "landed" THEN {"released"} ELSE {})

ReleaseAnswer(a) ==
    /\ admins[a].pc = "lifting"
    /\ \E s \in LiftOutcomes(a) : FinishRelease(admins[a].op, s)
    /\ Leave(a)
    /\ lifting' = [lifting EXCEPT ![a] = "none"]
    /\ UNCHANGED <<clock, incidents, events, warnings, attempts, turns,
                   reminders, mutes, lifts, muted>>

\* The process dies under the request.
ReleaseDies(a) ==
    /\ admins[a].pc # "idle"
    /\ Leave(a)
    /\ lifting' = [lifting EXCEPT ![a] = "none"]
    /\ UNCHANGED <<clock, ledger, turns, reminders, mutes, lifts, muted>>
-----------------------------------------------------------------------------
(* The platform, and time                                                   *)

DeliverReminder(t) ==
    /\ reminders[t] = "flying"
    /\ reminders' = [reminders EXCEPT ![t] = "landed"]
    /\ UNCHANGED <<clock, ledger, turns, admins, mutes, lifts, lifting, muted>>

DeliverMute(i) ==
    /\ mutes[i] = "flying"
    /\ \/ mutes' = [mutes EXCEPT ![i] = "landed"] /\ muted' = i
       \/ mutes' = [mutes EXCEPT ![i] = "lost"] /\ UNCHANGED muted
    /\ UNCHANGED <<clock, ledger, turns, admins, reminders, lifts, lifting>>

DeliverLift(a) ==
    /\ lifting[a] = "flying"
    /\ lifting' = [lifting EXCEPT ![a] = "landed"]
    /\ muted' = NoOne
    /\ UNCHANGED <<clock, ledger, turns, admins, reminders, mutes, lifts>>

MuteExpires ==
    /\ muted # NoOne
    /\ muted' = NoOne
    /\ UNCHANGED <<clock, ledger, turns, admins, reminders, mutes, lifts, lifting>>

Tick ==
    /\ clock < MaxTime
    /\ clock' = clock + 1
    /\ UNCHANGED <<ledger, turns, admins, remote>>

Next ==
    \/ Tick \/ MuteExpires
    \/ \E t \in Turns :
        \/ Receive(t) \/ BeginBarred(t) \/ Begin(t) \/ Reconcile(t) \/ Remind(t) \/ Warn(t) \/ WarnUnknown(t)
        \/ MuteCheck(t) \/ MuteReserve(t) \/ MuteBlocked(t) \/ MuteAnswer(t)
        \/ DeliverReminder(t)
    \/ \E i \in Incidents : DeliverMute(i) \/ (\E a \in Admins : ReleaseStart(a, i))
    \/ \E a \in Admins :
        \/ ReleaseQuery(a) \/ ReleaseRefused(a) \/ ReleaseMoot(a) \/ ReleaseInDoubt(a)
        \/ ReleaseLift(a) \/ ReleaseAnswer(a) \/ ReleaseDies(a) \/ DeliverLift(a)

Spec == Init /\ [][Next]_vars
-----------------------------------------------------------------------------
(* Nobody is muted without two reminders that reached the group, the second *)
(* for an offence after the first, and a further offence after the second,  *)
(* however turns overlap, receipts are lost and evidence grows stale while  *)
(* roles are queried (execute_controlled_mute, _eligible_db).               *)
MuteEarned ==
    \A i \in Incidents : operations[i] # "none" =>
        \E v, w \in warnings[i], t \in events[i] :
            /\ reminders[v.turn] = "landed" /\ reminders[w.turn] = "landed"
            /\ v.at < Received(w.turn) /\ w.at < Received(t)

(* A mute on file as failed was refused by the platform, whatever           *)
(* exception, time-out or cancellation its request met                      *)
(* (execute_controlled_mute).                                               *)
FailedNotMuted == \A i \in Incidents : operations[i] = "failed" => mutes[i] = "lost"

(* A confirmed mute is put on file as released only once it is no longer in *)
(* force, whichever of the administrators does so (finish_release).         *)
ReleaseIsTrue ==
    [][\A i \in Incidents :
         operations[i] = "sent" /\ operations'[i] = "released" => muted # i]_vars

(* The write that lifts a mute is never repeated: neither a second          *)
(* administrator nor one who waits out the first sends it again             *)
(* (reserve_release, finish_release).                                       *)
LiftOnce == \A i \in Incidents : lifts[i] <= 1
=============================================================================
