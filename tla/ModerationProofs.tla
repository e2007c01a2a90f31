-------------------------- MODULE ModerationProofs --------------------------
(***************************************************************************)
(* Proofs about Moderation, for any number of turns, administrators and    *)
(* incidents, any lifetime of a warning and of a release.                  *)
(***************************************************************************)
EXTENDS Moderation, TLAPS

TurnSteps == {"idle", "received", "ready", "reminding", "checking", "muting", "barred"}

LEMMA InitType == Init => TypeOK
  BY ModerationConstants
  DEF Init, TypeOK, Times, Incidents, NoOne, NoRelease, OpStatuses, Wire, Turn, Admin, Release

LEMMA IncidentTyped ==
    ASSUME TypeOK, NEW t \in Turns
    PROVE  turns[t].incident \in Incidents \cup {NoOne}
  BY DEF TypeOK, Turn

LEMMA TurnTyped ==
    ASSUME TypeOK, NEW t \in Turns, NEW pc \in TurnSteps
    PROVE  /\ turns[t] \in Turn
           /\ turns[t].incident \in Incidents \cup {NoOne}
           /\ [turns[t] EXCEPT !.pc = pc] \in Turn
           /\ Goto(t, pc) => turns' \in [Turns -> Turn]
           /\ turns' = [turns EXCEPT ![t].pc = pc, ![t].received = clock]
                => turns' \in [Turns -> Turn]
           /\ turns' = [turns EXCEPT ![t].pc = pc, ![t].at = clock]
                => turns' \in [Turns -> Turn]
           /\ \A i \in Incidents \cup {NoOne} :
                turns' = [turns EXCEPT ![t].pc = pc, ![t].incident = i]
                => turns' \in [Turns -> Turn]
  <1>1. turns[t] \in Turn /\ turns \in [Turns -> Turn] /\ clock \in Times
    BY DEF TypeOK
  <1>2. /\ [turns[t] EXCEPT !.pc = pc] \in Turn
        /\ [turns[t] EXCEPT !.pc = pc, !.received = clock] \in Turn
        /\ [turns[t] EXCEPT !.pc = pc, !.at = clock] \in Turn
        /\ \A i \in Incidents \cup {NoOne} :
             [turns[t] EXCEPT !.pc = pc, !.incident = i] \in Turn
    BY <1>1 DEF Turn, TurnSteps
  <1>3. turns[t].incident \in Incidents \cup {NoOne}
    BY <1>1 DEF Turn
  <1> QED
    BY <1>1, <1>2, <1>3 DEF Goto

Attempts == [Turns -> {"none", "running", "sent", "unknown"}]

LEMMA AttemptTyped ==
    ASSUME TypeOK, NEW t \in Turns, NEW i \in Incidents \cup {NoOne},
           NEW s \in {"none", "running", "sent", "unknown"}
    PROVE  [attempts EXCEPT ![i][t] = s] \in [Incidents -> Attempts]
  <1>1. attempts \in [Incidents -> Attempts]
    BY DEF TypeOK, Attempts
  <1>2. i \in Incidents => [attempts[i] EXCEPT ![t] = s] \in Attempts
    BY <1>1 DEF Attempts
  <1> QED
    BY <1>1, <1>2

LEMMA FinishReleaseTyped ==
    ASSUME TypeOK, NEW i \in Incidents \cup {NoOne},
           NEW s \in {"released", "unknown", "blocked", "unavailable"}, FinishRelease(i, s)
    PROVE  /\ releases' \in [Incidents -> Release \cup {NoRelease}]
           /\ operations' \in [Incidents -> OpStatuses]
  <1> USE DEF TypeOK
  <1>1. [status |-> s, at |-> clock] \in Release
    BY DEF Release, Times
  <1>2. releases' \in [Incidents -> Release \cup {NoRelease}]
    BY <1>1 DEF FinishRelease, Noted
  <1>3. operations' \in [Incidents -> OpStatuses]
    BY DEF FinishRelease, OpStatuses
  <1> QED
    BY <1>2, <1>3

LEMMA AdminTyped ==
    ASSUME TypeOK, NEW a \in Admins
    PROVE  /\ admins[a] \in Admin /\ admins[a].op \in Incidents \cup {NoOne}
           /\ Leave(a) => admins' \in [Admins -> Admin]
           /\ \A i \in Incidents, s \in {"releasing", "unknown"} :
                Enter(a, i, s) => admins' \in [Admins -> Admin]
  <1>1. admins[a] \in Admin /\ admins \in [Admins -> Admin]
    BY DEF TypeOK
  <1>2. /\ [admins[a] EXCEPT !.pc = "idle", !.op = NoOne, !.state = "none", !.sees = FALSE] \in Admin
        /\ \A i \in Incidents, s \in {"releasing", "unknown"} :
             [admins[a] EXCEPT !.pc = "query", !.op = i, !.state = s] \in Admin
    BY <1>1 DEF Admin
  <1>3. admins[a].op \in Incidents \cup {NoOne}
    BY <1>1 DEF Admin
  <1> QED
    BY <1>1, <1>2, <1>3, ZenonT(60) DEF Leave, Enter

LEMMA NextType ==
    ASSUME TypeOK, [Next]_vars
    PROVE  TypeOK'
  <1> USE DEF TypeOK, ledger, remote
  <1>0. CASE UNCHANGED vars
    BY <1>0 DEF vars
  <1>1. ASSUME NEW t \in Turns, Receive(t) \/ BeginBarred(t) \/ Begin(t) PROVE TypeOK'
    <2>1. CASE Receive(t)
      BY <2>1, TurnTyped DEF Receive, TurnSteps
    <2>2. CASE BeginBarred(t)
      BY <2>2, TurnTyped DEF BeginBarred, TurnSteps
    <2>3. CASE Begin(t)
      <3>1. PICK last \in Incidents \cup {NoOne} :
                LET i == IF Current(last, clock) THEN last ELSE last + 1 IN
                /\ Latest(last) /\ i <= MaxIncidents
                /\ turns' = [turns EXCEPT ![t].pc = "ready", ![t].incident = i]
                /\ incidents' = [incidents EXCEPT ![i] = "open"]
        BY <2>3 DEF Begin
      <3> DEFINE i == IF Current(last, clock) THEN last ELSE last + 1
      <3>2. i \in Incidents \cup {NoOne}
        BY <3>1, ModerationConstants DEF Incidents, NoOne
      <3>3. turns' = [turns EXCEPT ![t].pc = "ready", ![t].incident = i]
            /\ incidents' = [incidents EXCEPT ![i] = "open"]
        BY <3>1
      <3> HIDE DEF i
      <3>4. turns' \in [Turns -> Turn] /\ incidents' \in [Incidents -> {"none", "open", "reconciled"}]
        BY <3>2, <3>3, TurnTyped DEF TurnSteps
      <3> QED
        BY <2>3, <3>4 DEF Begin
    <2> QED
      BY <1>1, <2>1, <2>2, <2>3
  <1>2. ASSUME NEW t \in Turns, Reconcile(t) PROVE TypeOK'
    <2>1. \A w \in Warning : [w EXCEPT !.live = FALSE] \in Warning
      BY DEF Warning
    <2> DEFINE i == turns[t].incident
               dead == {[w EXCEPT !.live = FALSE] : w \in warnings[i]}
    <2>2. i \in Incidents => dead \in SUBSET Warning
      BY <2>1
    <2>3. warnings' = [warnings EXCEPT ![i] = dead]
      BY <1>2 DEF Reconcile
    <2> HIDE DEF dead
    <2>4. warnings' \in [Incidents -> SUBSET Warning]
      BY <2>2, <2>3
    <2> QED
      BY <1>2, <2>4 DEF Reconcile
  <1>3. ASSUME NEW t \in Turns, Remind(t) \/ Warn(t) \/ WarnUnknown(t) PROVE TypeOK'
    <2> DEFINE i == turns[t].incident
    <2>1. CASE Remind(t)
      <3>1. events' \in [Incidents -> SUBSET Turns]
        BY <2>1 DEF Remind
      <3>2. attempts' \in [Incidents -> Attempts]
        <4>1. \/ attempts' = attempts
              \/ attempts' = [attempts EXCEPT ![i][t] = "running"]
          BY <2>1 DEF Remind
        <4>2. [attempts EXCEPT ![i][t] = "running"] \in [Incidents -> Attempts]
          BY AttemptTyped, IncidentTyped
        <4>3. attempts \in [Incidents -> Attempts]
          BY DEF Attempts
        <4> QED
          BY <4>1, <4>2, <4>3
      <3>3. turns' \in [Turns -> Turn]
        BY <2>1, TurnTyped DEF Remind, TurnSteps
      <3>4. reminders' \in [Turns -> Wire]
        BY <2>1 DEF Remind, Wire
      <3> QED
        BY <2>1, <3>1, <3>2, <3>3, <3>4 DEF Remind, Attempts
    <2>2. CASE Warn(t)
      <3>1. [turn |-> t, at |-> clock, live |-> TRUE] \in Warning
        BY DEF Warning
      <3>2. warnings' \in [Incidents -> SUBSET Warning]
        <4>1. \/ warnings' = warnings
              \/ warnings' = [warnings EXCEPT ![i] =
                    warnings[i] \cup {[turn |-> t, at |-> clock, live |-> TRUE]}]
          BY <2>2 DEF Warn
        <4> DEFINE more == warnings[i] \cup {[turn |-> t, at |-> clock, live |-> TRUE]}
        <4>2. i \in Incidents => more \in SUBSET Warning
          BY <3>1
        <4> HIDE DEF more
        <4>3. \/ warnings' = warnings
              \/ warnings' = [warnings EXCEPT ![i] = more]
          BY <4>1 DEF more
        <4> QED
          BY <4>2, <4>3
      <3>3. attempts' \in [Incidents -> Attempts]
        <4>1. \/ attempts' = attempts
              \/ attempts' = [attempts EXCEPT ![i][t] = "sent"]
          BY <2>2 DEF Warn
        <4>2. [attempts EXCEPT ![i][t] = "sent"] \in [Incidents -> Attempts]
          BY AttemptTyped, IncidentTyped
        <4>3. attempts \in [Incidents -> Attempts]
          BY DEF Attempts
        <4> QED
          BY <4>1, <4>2, <4>3
      <3> QED
        BY <2>2, <3>2, <3>3, TurnTyped DEF Warn, TurnSteps, Attempts
    <2>3. CASE WarnUnknown(t)
      <3>1. attempts' \in [Incidents -> Attempts]
        BY <2>3, AttemptTyped, IncidentTyped DEF WarnUnknown
      <3> QED
        BY <2>3, <3>1, TurnTyped DEF WarnUnknown, TurnSteps, Attempts
    <2> QED
      BY <1>3, <2>1, <2>2, <2>3
  <1>4. ASSUME NEW t \in Turns,
               MuteCheck(t) \/ MuteReserve(t) \/ MuteBlocked(t) \/ MuteAnswer(t)
        PROVE  TypeOK'
    <2>1. CASE MuteCheck(t)
      <3>1. turns' \in [Turns -> Turn]
        BY <2>1, TurnTyped DEF MuteCheck, TurnSteps
      <3>2. events' \in [Incidents -> SUBSET Turns]
        BY <2>1 DEF MuteCheck
      <3> QED
        BY <2>1, <3>1, <3>2 DEF MuteCheck
    <2>2. CASE MuteReserve(t)
      BY <2>2, TurnTyped DEF MuteReserve, TurnSteps, OpStatuses, Wire
    <2>3. CASE MuteBlocked(t)
      BY <2>3, TurnTyped DEF MuteBlocked, TurnSteps
    <2>4. CASE MuteAnswer(t)
      <3>1. \A s \in Outcomes(turns[t].incident) : s \in OpStatuses
        BY DEF Outcomes, OpStatuses
      <3> QED
        BY <2>4, <3>1, TurnTyped DEF MuteAnswer, TurnSteps
    <2> QED
      BY <1>4, <2>1, <2>2, <2>3, <2>4
  <1>5. ASSUME NEW i \in Incidents, NEW a \in Admins, ReleaseStart(a, i) PROVE TypeOK'
    <2>1. \A s \in {"releasing", "unknown"} :
            /\ Noted(i, s) => releases' \in [Incidents -> Release \cup {NoRelease}]
            /\ Enter(a, i, s) => admins' \in [Admins -> Admin]
      BY AdminTyped DEF Noted, Release
    <2>2. /\ releases' \in [Incidents -> Release \cup {NoRelease}]
          /\ admins' \in [Admins -> Admin]
      BY <1>5, <2>1 DEF ReleaseStart, ReserveRelease
    <2> QED
      BY <1>5, <2>2 DEF ReleaseStart
  <1>6. ASSUME NEW a \in Admins,
               ReleaseQuery(a) \/ ReleaseRefused(a) \/ ReleaseMoot(a) \/ ReleaseInDoubt(a)
        PROVE  TypeOK'
    <2>0. admins[a].op \in Incidents \cup {NoOne}
      BY DEF Admin
    <2>1. CASE ReleaseQuery(a)
      <3>1. [admins[a] EXCEPT !.pc = "decide", !.sees = (muted # NoOne)] \in Admin
        BY ZenonT(60) DEF Admin
      <3> QED
        BY <2>1, <3>1 DEF ReleaseQuery
    <2>2. CASE ReleaseRefused(a)
      <3>1. PICK s \in {"unavailable", "blocked"} : FinishRelease(admins[a].op, s)
        BY <2>2 DEF ReleaseRefused
      <3>2. releases' \in [Incidents -> Release \cup {NoRelease}]
            /\ operations' \in [Incidents -> OpStatuses]
        BY <2>0, <3>1, FinishReleaseTyped
      <3>3. admins' \in [Admins -> Admin]
        BY <2>2, AdminTyped DEF ReleaseRefused
      <3> QED
        BY <2>2, <3>2, <3>3 DEF ReleaseRefused
    <2>3. CASE ReleaseMoot(a)
      <3>1. FinishRelease(admins[a].op, "released") /\ Leave(a)
        BY <2>3 DEF ReleaseMoot
      <3>2. releases' \in [Incidents -> Release \cup {NoRelease}]
            /\ operations' \in [Incidents -> OpStatuses]
        BY <2>0, <3>1, FinishReleaseTyped
      <3>3. admins' \in [Admins -> Admin]
        BY <3>1, AdminTyped
      <3> QED
        BY <2>3, <3>2, <3>3 DEF ReleaseMoot
    <2>4. CASE ReleaseInDoubt(a)
      BY <2>4, AdminTyped DEF ReleaseInDoubt
    <2> QED
      BY <1>6, <2>1, <2>2, <2>3, <2>4
  <1>7. ASSUME NEW a \in Admins,
               ReleaseLift(a) \/ ReleaseAnswer(a) \/ ReleaseDies(a) \/ DeliverLift(a)
        PROVE  TypeOK'
    <2>0. admins[a].op \in Incidents \cup {NoOne}
      BY DEF Admin
    <2>1. CASE ReleaseLift(a)
      <3>0. /\ lifts' = [lifts EXCEPT ![admins[a].op] = @ + 1]
            /\ lifting' = [lifting EXCEPT ![a] = "flying"]
            /\ lifts \in [Incidents -> Nat] /\ lifting \in [Admins -> Wire]
            /\ admins[a] \in Admin
        BY <2>1 DEF ReleaseLift
      <3> HIDE DEF TypeOK
      <3>1. [admins[a] EXCEPT !.pc = "lifting"] \in Admin
        BY <3>0 DEF Admin
      <3>2. lifting' \in [Admins -> Wire]
        BY <3>0 DEF Wire
      <3>3. admins[a].op \in Incidents => lifts[admins[a].op] + 1 \in Nat
        BY <3>0
      <3>4. lifts' \in [Incidents -> Nat]
        BY <3>0, <3>3
      <3> USE DEF TypeOK
      <3> QED
        BY <2>1, <3>1, <3>2, <3>4 DEF ReleaseLift
    <2>2. CASE ReleaseAnswer(a)
      <3>1. \A s \in LiftOutcomes(a) : s \in {"released", "unknown", "blocked", "unavailable"}
        BY DEF LiftOutcomes
      <3>2. lifting' \in [Admins -> Wire]
        BY <2>2 DEF ReleaseAnswer, Wire
      <3>3. PICK s \in LiftOutcomes(a) : FinishRelease(admins[a].op, s)
        BY <2>2 DEF ReleaseAnswer
      <3>4. releases' \in [Incidents -> Release \cup {NoRelease}]
            /\ operations' \in [Incidents -> OpStatuses]
        BY <2>0, <3>1, <3>3, FinishReleaseTyped
      <3>5. admins' \in [Admins -> Admin]
        BY <2>2, AdminTyped DEF ReleaseAnswer
      <3> QED
        BY <2>2, <3>2, <3>4, <3>5 DEF ReleaseAnswer
    <2>3. CASE ReleaseDies(a)
      BY <2>3, AdminTyped DEF ReleaseDies, Wire
    <2>4. CASE DeliverLift(a)
      BY <2>4 DEF DeliverLift, Wire
    <2> QED
      BY <1>7, <2>1, <2>2, <2>3, <2>4
  <1>8. CASE Tick \/ MuteExpires
    BY <1>8, ModerationConstants DEF Tick, MuteExpires, Times, NoOne
  <1>9. ASSUME NEW i \in Incidents, DeliverMute(i) PROVE TypeOK'
    BY <1>9 DEF DeliverMute, Wire
  <1>10. ASSUME NEW t \in Turns, DeliverReminder(t) PROVE TypeOK'
    BY <1>10 DEF DeliverReminder, Wire
  <1> QED
    BY <1>0, <1>1, <1>2, <1>3, <1>4, <1>5, <1>6, <1>7, <1>8, <1>9, <1>10 DEF Next

(* Incidents, evidence, mutes and releases are always well typed: an odd    *)
(* answer of the adapter never becomes a status.                            *)
THEOREM TypeCorrect == Spec => []TypeOK
  BY InitType, NextType, PTL DEF Spec
-----------------------------------------------------------------------------
(* What a mute's row says of the request                                    *)
MuteInv ==
    \A i \in Incidents :
        /\ operations[i] = "none" => mutes[i] = "none"
        /\ operations[i] = "sent" => mutes[i] = "landed"
        /\ operations[i] = "failed" => mutes[i] = "lost"

\* A release moves a row from sent or unknown to released, or leaves it.
LEMMA ReleaseMoves ==
    ASSUME TypeOK, NEW i \in Incidents \cup {NoOne}, NEW s, FinishRelease(i, s)
    PROVE  /\ \A j \in Incidents : \/ operations'[j] = operations[j]
                                   \/ /\ operations[j] \in {"sent", "unknown"} /\ j = i
                                      /\ operations'[j] = "released" /\ s = "released"
           /\ \A j \in Incidents : \/ releases'[j] = releases[j]
                                   \/ /\ j = i /\ releases'[j].status = s
                                      /\ \/ releases[j].status = "releasing"
                                         \/ releases[j].status = "unknown" /\ s = "released"
  BY DEF TypeOK, FinishRelease, Noted

LEMMA MuteKept ==
    ASSUME TypeOK, MuteInv, [Next]_vars
    PROVE  MuteInv'
  <1> USE DEF ledger, remote
  <1>1. CASE UNCHANGED <<operations, mutes>>
    BY <1>1 DEF MuteInv
  <1>2. ASSUME NEW t \in Turns, MuteReserve(t) PROVE MuteInv'
    BY <1>2 DEF MuteReserve, MuteInv, TypeOK
  <1>3. ASSUME NEW t \in Turns, MuteAnswer(t) PROVE MuteInv'
    <2> DEFINE i == turns[t].incident
    <2>1. PICK s \in Outcomes(i) :
              operations' = [operations EXCEPT ![i] = IF @ = "running" THEN s ELSE @]
      BY <1>3 DEF MuteAnswer
    <2>2. /\ s = "sent" => mutes[i] = "landed"
          /\ s = "failed" => mutes[i] = "lost"
          /\ s # "none"
      BY DEF Outcomes
    <2>3. mutes' = mutes
      BY <1>3 DEF MuteAnswer
    <2> QED
      BY <2>1, <2>2, <2>3 DEF MuteInv, TypeOK
  <1>4. ASSUME NEW a \in Admins, NEW s, FinishRelease(admins[a].op, s), mutes' = mutes
        PROVE  MuteInv'
    BY <1>4, ReleaseMoves, AdminTyped, SMTT(30) DEF MuteInv
  <1>5. ASSUME NEW i \in Incidents, DeliverMute(i) PROVE MuteInv'
    BY <1>5 DEF DeliverMute, MuteInv, TypeOK
  <1>6. ASSUME NEW a \in Admins, ReleaseRefused(a) \/ ReleaseMoot(a) \/ ReleaseAnswer(a)
        PROVE  MuteInv'
    BY <1>6, <1>4 DEF ReleaseRefused, ReleaseMoot, ReleaseAnswer
  <1> QED
    BY <1>1, <1>2, <1>3, <1>5, <1>6
    DEF Next, vars, Tick, MuteExpires, Receive, BeginBarred, Begin, Reconcile, Remind, Warn,
        WarnUnknown, MuteCheck, MuteBlocked, DeliverReminder, ReleaseStart, ReleaseQuery,
        ReleaseInDoubt, ReleaseLift, ReleaseDies, DeliverLift

LEMMA MuteRowsTrue == Spec => [](TypeOK /\ MuteInv)
  <1>1. Init => MuteInv
    BY DEF Init, MuteInv
  <1> QED
    BY <1>1, TypeCorrect, MuteKept, PTL DEF Spec

(* A mute recorded as failed was not and will not be carried out.           *)
THEOREM FailuresAreReal == Spec => []FailedNotMuted
  <1>1. MuteInv => FailedNotMuted
    BY DEF MuteInv, FailedNotMuted
  <1> QED
    BY <1>1, MuteRowsTrue, PTL
-----------------------------------------------------------------------------
(* Who may still lift a mute: one request for each mute, whose lift has not *)
(* been sent; the others hold it to be in doubt.                            *)
Free     == {"none", "blocked", "unavailable"}
Works(a) == admins[a].pc # "idle"
Lifts(a, i) == Works(a) /\ admins[a].op = i /\ admins[a].state = "releasing"

LiftInv ==
    /\ \A a \in Admins : Works(a) =>
        /\ admins[a].op \in Incidents
        /\ admins[a].state \in {"releasing", "unknown"}
        /\ releases[admins[a].op].status \notin Free
        /\ admins[a].state = "unknown" =>
              /\ releases[admins[a].op].status # "releasing"
              /\ admins[a].pc # "lifting"
        /\ admins[a].state = "releasing" /\ admins[a].pc # "lifting" => lifts[admins[a].op] = 0
    /\ \A a, b \in Admins : \A i \in Incidents : Lifts(a, i) /\ Lifts(b, i) => a = b
    /\ \A i \in Incidents :
        /\ lifts[i] <= 1
        /\ releases[i].status \in Free => lifts[i] = 0

\* One request leaves, and the release it was about is settled or stays.
LEMMA LeavesLifts ==
    ASSUME TypeOK, LiftInv, NEW a \in Admins, Works(a), Leave(a), lifts' = lifts,
           NEW s \in {"released", "unknown", "blocked", "unavailable"},
           UNCHANGED releases \/ FinishRelease(admins[a].op, s),
           admins[a].pc = "lifting" => s \notin Free
    PROVE  LiftInv'
  <1> DEFINE i == admins[a].op
  <1>0. admins \in [Admins -> Admin]
    BY DEF TypeOK
  <1>1. /\ ~ Works(a)'
        /\ \A b \in Admins \ {a} : admins'[b] = admins[b]
    BY <1>0 DEF Leave, Works, Admin
  <1>2. \A j \in Incidents : \/ releases'[j] = releases[j]
                             \/ /\ j = i /\ releases'[j].status = s
                                /\ \/ releases[j].status = "releasing"
                                   \/ releases[j].status = "unknown" /\ s = "released"
    BY ReleaseMoves DEF LiftInv
  <1>3. ASSUME NEW b \in Admins \ {a}, Works(b), admins[b].op = i,
               releases[i].status = "releasing"
        PROVE  s \notin Free
    <2>1. admins[b].state = "releasing"
      BY <1>3 DEF LiftInv
    <2>2. admins[a].state = "releasing"
      BY <1>3 DEF LiftInv
    <2> QED
      BY <1>3, <2>1, <2>2 DEF LiftInv, Lifts
  <1>4. ASSUME NEW b \in Admins, Works(b)'
        PROVE  /\ admins'[b] = admins[b] /\ Works(b) /\ b # a
               /\ releases'[admins[b].op].status \notin Free
               /\ admins[b].state = "unknown" => releases'[admins[b].op].status # "releasing"
    <2>1. b # a /\ admins'[b] = admins[b] /\ Works(b)
      BY <1>1, <1>4 DEF Works
    <2>2. admins[b].op \in Incidents /\ releases[admins[b].op].status \notin Free
      BY <2>1 DEF LiftInv
    <2>3. CASE releases'[admins[b].op] = releases[admins[b].op]
      BY <2>1, <2>2, <2>3 DEF LiftInv
    <2>4. CASE releases'[admins[b].op] # releases[admins[b].op]
      BY <2>1, <2>2, <2>4, <1>2, <1>3 DEF Free
    <2> QED
      BY <2>1, <2>3, <2>4
  <1>5. ASSUME NEW j \in Incidents, releases'[j].status \in Free PROVE lifts[j] = 0
    <2>1. CASE releases'[j] = releases[j]
      BY <1>5, <2>1 DEF LiftInv
    <2>2. CASE releases'[j] # releases[j]
      <3>1. j = i /\ s \in Free /\ releases[i].status = "releasing"
        BY <1>2, <1>5, <2>2 DEF Free
      <3> QED
        BY <3>1 DEF LiftInv
    <2> QED
      BY <2>1, <2>2
  <1> QED
    BY <1>1, <1>4, <1>5 DEF LiftInv, Lifts, Works

LEMMA LiftKept ==
    ASSUME TypeOK, LiftInv, [Next]_vars
    PROVE  LiftInv'
  <1> USE DEF ledger, remote
  <1>0. /\ admins \in [Admins -> Admin] /\ releases \in [Incidents -> Release \cup {NoRelease}]
        /\ lifts \in [Incidents -> Nat]
    BY DEF TypeOK
  <1>1. CASE UNCHANGED <<releases, admins, lifts>>
    BY <1>1 DEF LiftInv, Lifts, Works
  <1>2. ASSUME NEW i \in Incidents, NEW a \in Admins, ReleaseStart(a, i) PROVE LiftInv'
    <2>0. ~ Works(a) /\ lifts' = lifts
      BY <1>2 DEF ReleaseStart, Works
    <2>1. CASE Noted(i, "releasing") /\ Enter(a, i, "releasing") /\ releases[i].status \in Free
      <3>1. \A b \in Admins : Works(b) => admins[b].op # i
        BY <2>1 DEF LiftInv
      <3>2. /\ admins'[a].pc = "query" /\ admins'[a].op = i /\ admins'[a].state = "releasing"
            /\ \A b \in Admins \ {a} : admins'[b] = admins[b]
            /\ releases'[i].status = "releasing"
            /\ \A j \in Incidents \ {i} : releases'[j] = releases[j]
        BY <2>1, <1>0 DEF Noted, Enter, Admin
      <3> QED
        BY <3>1, <3>2, <2>0, <2>1 DEF LiftInv, Lifts, Works, Free
    <2>2. CASE /\ Enter(a, i, "unknown") /\ releases[i].status \in {"releasing", "unknown"}
               /\ Noted(i, "unknown") \/ (releases[i].status = "unknown" /\ UNCHANGED releases)
      <3>2. /\ admins'[a].pc = "query" /\ admins'[a].op = i /\ admins'[a].state = "unknown"
            /\ \A b \in Admins \ {a} : admins'[b] = admins[b]
            /\ releases'[i].status = "unknown"
            /\ \A j \in Incidents \ {i} : releases'[j] = releases[j]
        BY <2>2, <1>0 DEF Noted, Enter, Admin
      <3>3. releases[i].status \notin Free
        BY <2>2 DEF Free
      <3> QED
        BY <3>2, <3>3, <2>0 DEF LiftInv, Lifts, Works, Free
    <2>3. CASE UNCHANGED <<releases, admins>>
      BY <2>0, <2>3, <1>1
    <2> QED
      BY <1>2, <2>1, <2>2, <2>3 DEF ReleaseStart, ReserveRelease, Free
  <1>3. ASSUME NEW a \in Admins, ReleaseQuery(a) PROVE LiftInv'
    <2>1. /\ admins'[a].op = admins[a].op /\ admins'[a].state = admins[a].state
          /\ admins[a].pc = "query" /\ admins'[a].pc = "decide"
          /\ \A b \in Admins \ {a} : admins'[b] = admins[b]
          /\ releases' = releases /\ lifts' = lifts
      BY <1>0, <1>3 DEF ReleaseQuery, Admin
    <2> QED
      BY <2>1 DEF LiftInv, Lifts, Works
  <1>4. ASSUME NEW a \in Admins, ReleaseRefused(a) PROVE LiftInv'
    BY <1>4, LeavesLifts DEF ReleaseRefused, Works
  <1>5. ASSUME NEW a \in Admins, ReleaseMoot(a) PROVE LiftInv'
    BY <1>5, LeavesLifts DEF ReleaseMoot, Works
  <1>6. ASSUME NEW a \in Admins, ReleaseInDoubt(a) \/ ReleaseDies(a) PROVE LiftInv'
    <2>1. Works(a) /\ Leave(a) /\ lifts' = lifts /\ UNCHANGED releases
      BY <1>6 DEF ReleaseInDoubt, ReleaseDies, Works
    <2>2. "released" \notin Free
      BY DEF Free
    <2> QED
      BY <2>1, <2>2, LeavesLifts
  <1>7. ASSUME NEW a \in Admins, ReleaseLift(a) PROVE LiftInv'
    <2> DEFINE i == admins[a].op
    <2>1. /\ admins'[a].op = i /\ admins'[a].state = "releasing" /\ admins[a].state = "releasing"
          /\ admins[a].pc = "decide" /\ admins'[a].pc = "lifting"
          /\ \A b \in Admins \ {a} : admins'[b] = admins[b]
          /\ releases' = releases /\ lifts' = [lifts EXCEPT ![i] = @ + 1]
      BY <1>0, <1>7 DEF ReleaseLift, Admin
    <2>2. i \in Incidents /\ lifts[i] = 0 /\ releases[i].status \notin Free
      BY <2>1 DEF LiftInv, Works
    <2>3. lifts'[i] = 1 /\ \A j \in Incidents \ {i} : lifts'[j] = lifts[j]
      BY <2>1, <2>2, <1>0
    <2>4. \A b \in Admins \ {a} : ~ Lifts(b, i)
      BY <2>1, <2>2 DEF LiftInv, Lifts, Works
    <2>5. \A j \in Incidents : lifts'[j] <= 1 /\ (releases'[j].status \in Free => lifts'[j] = 0)
      BY <2>1, <2>2, <2>3 DEF LiftInv
    <2>6. \A b \in Admins : Works(b)' => Works(b) /\ admins'[b].op = admins[b].op
                                                /\ admins'[b].state = admins[b].state
      BY <2>1 DEF Works
    <2>7. \A b, c \in Admins : \A j \in Incidents : Lifts(b, j)' /\ Lifts(c, j)' => b = c
      BY <2>6 DEF LiftInv, Lifts
    <2>8. ASSUME NEW b \in Admins, Works(b)'
          PROVE  /\ admins'[b].op \in Incidents
                 /\ admins'[b].state \in {"releasing", "unknown"}
                 /\ releases'[admins'[b].op].status \notin Free
                 /\ admins'[b].state = "unknown" =>
                       /\ releases'[admins'[b].op].status # "releasing"
                       /\ admins'[b].pc # "lifting"
                 /\ admins'[b].state = "releasing" /\ admins'[b].pc # "lifting"
                       => lifts'[admins'[b].op] = 0
      <3>1. CASE b = a
        BY <3>1, <2>1, <2>2
      <3>2. CASE b # a
        BY <3>2, <2>8, <2>1, <2>3, <2>4, <2>6 DEF LiftInv, Lifts, Works
      <3> QED
        BY <3>1, <3>2
    <2> QED
      BY <2>5, <2>7, <2>8 DEF LiftInv
  <1>8. ASSUME NEW a \in Admins, ReleaseAnswer(a) PROVE LiftInv'
    <2>1. PICK s \in LiftOutcomes(a) : FinishRelease(admins[a].op, s)
      BY <1>8 DEF ReleaseAnswer
    <2>2. s \in {"released", "unknown"} /\ s \notin Free
      BY DEF LiftOutcomes, Free
    <2>3. Works(a) /\ Leave(a) /\ lifts' = lifts
      BY <1>8 DEF ReleaseAnswer, Works
    <2> QED
      BY <2>1, <2>2, <2>3, LeavesLifts
  <1> QED
    BY <1>1, <1>2, <1>3, <1>4, <1>5, <1>6, <1>7, <1>8
    DEF Next, vars, Tick, MuteExpires, Receive, BeginBarred, Begin, Reconcile, Remind, Warn,
        WarnUnknown, MuteCheck, MuteReserve, MuteBlocked, MuteAnswer, DeliverReminder,
        DeliverMute, DeliverLift

LEMMA LiftsRight == Spec => [](TypeOK /\ MuteInv /\ LiftInv)
  <1>1. Init => LiftInv
    BY DEF Init, LiftInv, Lifts, Works, NoRelease
  <1> QED
    BY <1>1, MuteRowsTrue, LiftKept, PTL DEF Spec

(* The write that lifts a mute is sent at most once, however administrators *)
(* overlap, die and wait each other out.                                    *)
THEOREM LiftedOnce == Spec => []LiftOnce
  <1>1. LiftInv => LiftOnce
    BY DEF LiftInv, LiftOnce
  <1> QED
    BY <1>1, LiftsRight, PTL
-----------------------------------------------------------------------------
(* What a request that will put a mute on file as released knows: it saw    *)
(* that the member is not muted, or its lift has landed.                    *)
Knows(a) == \/ admins[a].pc = "decide" /\ ~ admins[a].sees
            \/ admins[a].pc = "lifting" /\ lifting[a] = "landed"

ForceInv ==
    /\ \A i \in Incidents : muted = i => mutes[i] = "landed"
    /\ \A a \in Admins : Works(a) =>
        /\ operations[admins[a].op] \notin {"none", "running"}
        /\ operations[admins[a].op] = "sent" /\ Knows(a) => muted # admins[a].op

\* Every way in which the row of a mute moves.
RowMoves(i) ==
    \/ operations'[i] = operations[i]
    \/ operations[i] = "none" /\ operations'[i] = "running"
    \/ operations[i] = "running" /\ operations'[i] \in {"sent", "failed", "unknown"}
    \/ /\ operations[i] \in {"sent", "unknown"} /\ operations'[i] = "released"
       /\ \E a \in Admins : Works(a) /\ admins[a].op = i /\ Knows(a)

LEMMA RowsMove ==
    ASSUME TypeOK, LiftInv, [Next]_vars
    PROVE  \A i \in Incidents : RowMoves(i)
  <1> USE DEF ledger, remote
  <1>0. operations \in [Incidents -> OpStatuses]
    BY DEF TypeOK
  <1>1. CASE UNCHANGED operations
    BY <1>1 DEF RowMoves
  <1>2. ASSUME NEW t \in Turns, MuteReserve(t) PROVE \A i \in Incidents : RowMoves(i)
    BY <1>0, <1>2 DEF MuteReserve, RowMoves
  <1>3. ASSUME NEW t \in Turns, MuteAnswer(t) PROVE \A i \in Incidents : RowMoves(i)
    <2>1. PICK s \in Outcomes(turns[t].incident) :
              operations' = [operations EXCEPT ![turns[t].incident] =
                                IF @ = "running" THEN s ELSE @]
      BY <1>3 DEF MuteAnswer
    <2>2. s \in {"sent", "failed", "unknown"}
      BY DEF Outcomes
    <2> QED
      BY <1>0, <2>1, <2>2 DEF RowMoves
  <1>4. ASSUME NEW a \in Admins, Works(a), NEW s, FinishRelease(admins[a].op, s),
               s = "released" => Knows(a)
        PROVE  \A i \in Incidents : RowMoves(i)
    <2>1. admins[a].op \in Incidents \cup {NoOne}
      BY <1>4, AdminTyped
    <2> QED
      BY <2>1, <1>4, ReleaseMoves DEF RowMoves
  <1>5. ASSUME NEW a \in Admins, ReleaseRefused(a) PROVE \A i \in Incidents : RowMoves(i)
    <2>1. PICK s \in {"unavailable", "blocked"} : FinishRelease(admins[a].op, s)
      BY <1>5 DEF ReleaseRefused
    <2>2. Works(a) /\ s # "released"
      BY <1>5 DEF ReleaseRefused, Works
    <2> QED
      BY <2>1, <2>2, <1>4
  <1>6. ASSUME NEW a \in Admins, ReleaseMoot(a) PROVE \A i \in Incidents : RowMoves(i)
    <2>1. FinishRelease(admins[a].op, "released") /\ Works(a) /\ Knows(a)
      BY <1>6 DEF ReleaseMoot, Works, Knows
    <2> QED
      BY <2>1, <1>4
  <1>7. ASSUME NEW a \in Admins, ReleaseAnswer(a) PROVE \A i \in Incidents : RowMoves(i)
    <2>1. PICK s \in LiftOutcomes(a) : FinishRelease(admins[a].op, s)
      BY <1>7 DEF ReleaseAnswer
    <2>2. Works(a) /\ (s = "released" => Knows(a))
      BY <1>7 DEF ReleaseAnswer, Works, Knows, LiftOutcomes
    <2> QED
      BY <2>1, <2>2, <1>4
  <1> QED
    BY <1>1, <1>2, <1>3, <1>5, <1>6, <1>7
    DEF Next, vars, Tick, MuteExpires, Receive, BeginBarred, Begin, Reconcile, Remind, Warn,
        WarnUnknown, MuteCheck, MuteBlocked, DeliverReminder, DeliverMute, ReleaseStart,
        ReleaseQuery, ReleaseInDoubt, ReleaseLift, ReleaseDies, DeliverLift

\* A mute comes into force only when its request lands.
LEMMA ForceMoves ==
    ASSUME TypeOK, MuteInv, [Next]_vars
    PROVE  /\ \/ muted' \in {muted, NoOne}
              \/ \E i \in Incidents : muted' = i /\ mutes[i] = "flying" /\ mutes'[i] = "landed"
           /\ \A i \in Incidents : mutes[i] = "landed" => mutes'[i] = "landed"
  <1> USE DEF ledger, remote
  <1>0. mutes \in [Incidents -> Wire]
    BY DEF TypeOK
  <1>1. ASSUME NEW t \in Turns, MuteReserve(t)
        PROVE  muted' = muted /\ \A i \in Incidents : mutes[i] = "landed" => mutes'[i] = "landed"
    BY <1>0, <1>1 DEF MuteReserve, MuteInv
  <1>2. ASSUME NEW i \in Incidents, DeliverMute(i)
        PROVE  /\ muted' = muted \/ (muted' = i /\ mutes[i] = "flying" /\ mutes'[i] = "landed")
               /\ \A k \in Incidents : mutes[k] = "landed" => mutes'[k] = "landed"
    BY <1>0, <1>2 DEF DeliverMute
  <1>3. CASE muted' \in {muted, NoOne} /\ UNCHANGED mutes
    BY <1>3
  <1> QED
    BY <1>1, <1>2, <1>3
    DEF Next, vars, Tick, MuteExpires, Receive, BeginBarred, Begin, Reconcile, Remind, Warn,
        WarnUnknown, MuteCheck, MuteBlocked, MuteAnswer, DeliverReminder, ReleaseStart,
        ReleaseQuery, ReleaseRefused, ReleaseMoot, ReleaseInDoubt, ReleaseLift, ReleaseAnswer,
        ReleaseDies, DeliverLift

LEMMA AdminMoves ==
    ASSUME TypeOK, [Next]_vars, NEW a \in Admins
    PROVE  /\ Works(a)' =>
                \/ Works(a) /\ admins'[a].op = admins[a].op
                \/ /\ admins'[a].pc = "query" /\ UNCHANGED operations
                   /\ operations[admins'[a].op] \in {"sent", "unknown"}
           /\ Knows(a)' => /\ Works(a) /\ admins'[a].op = admins[a].op
                           /\ Knows(a) \/ muted' = NoOne
  <1> USE DEF ledger, remote
  <1>0. admins \in [Admins -> Admin] /\ lifting \in [Admins -> Wire]
    BY DEF TypeOK
  <1>1. CASE admins'[a] = admins[a] /\ lifting'[a] = lifting[a]
    BY <1>1 DEF Works, Knows
  <1>2. ASSUME NEW b \in Admins, NEW i \in Incidents, ReleaseStart(b, i)
        PROVE  /\ b # a \/ UNCHANGED admins => admins'[a] = admins[a] /\ lifting'[a] = lifting[a]
               /\ b = a /\ ~ UNCHANGED admins => /\ admins'[a].pc = "query" /\ admins'[a].op = i
                            /\ operations[i] \in {"sent", "unknown"} /\ UNCHANGED operations
    <2>1. UNCHANGED <<operations, lifting>> /\ operations[i] \in {"sent", "unknown"}
      BY <1>2 DEF ReleaseStart
    <2>2. UNCHANGED admins \/ \E s \in {"releasing", "unknown"} : Enter(b, i, s)
      BY <1>2 DEF ReleaseStart, ReserveRelease
    <2> QED
      BY <1>0, <2>1, <2>2 DEF Enter, Admin
  <1>3. ASSUME NEW b \in Admins, Leave(b), lifting' \in {lifting, [lifting EXCEPT ![b] = "none"]}
        PROVE  /\ b # a => admins'[a] = admins[a] /\ lifting'[a] = lifting[a]
               /\ b = a => ~ Works(a)' /\ ~ Knows(a)'
    BY <1>0, <1>3 DEF Leave, Works, Knows, Admin
  <1>4. ASSUME NEW b \in Admins,
               ReleaseQuery(b) \/ ReleaseLift(b) \/ DeliverLift(b)
        PROVE  /\ b # a => admins'[a] = admins[a] /\ lifting'[a] = lifting[a]
               /\ b = a => /\ admins'[a].op = admins[a].op
                           /\ Works(a)' => Works(a)
                           /\ Knows(a)' => Works(a) /\ (Knows(a) \/ muted' = NoOne)
    BY <1>0, <1>4 DEF ReleaseQuery, ReleaseLift, DeliverLift, Works, Knows, Admin
  <1>5. ASSUME NEW b \in Admins, ReleaseRefused(b) \/ ReleaseMoot(b) \/ ReleaseInDoubt(b)
                                 \/ ReleaseAnswer(b) \/ ReleaseDies(b)
        PROVE  Leave(b) /\ lifting' \in {lifting, [lifting EXCEPT ![b] = "none"]}
    BY <1>5 DEF ReleaseRefused, ReleaseMoot, ReleaseInDoubt, ReleaseAnswer, ReleaseDies
  <1>6. CASE \E b \in Admins, i \in Incidents : ReleaseStart(b, i)
    BY <1>1, <1>2, <1>6 DEF Knows
  <1>7. CASE \E b \in Admins : \/ ReleaseRefused(b) \/ ReleaseMoot(b) \/ ReleaseInDoubt(b)
                               \/ ReleaseAnswer(b) \/ ReleaseDies(b)
    BY <1>1, <1>3, <1>5, <1>7
  <1>8. CASE \E b \in Admins : ReleaseQuery(b) \/ ReleaseLift(b) \/ DeliverLift(b)
    BY <1>1, <1>4, <1>8
  <1> QED
    BY <1>1, <1>6, <1>7, <1>8
    DEF Next, vars, Tick, MuteExpires, Receive, BeginBarred, Begin, Reconcile, Remind, Warn,
        WarnUnknown, MuteCheck, MuteReserve, MuteBlocked, MuteAnswer, DeliverReminder, DeliverMute

LEMMA ForceKept ==
    ASSUME TypeOK, MuteInv, LiftInv, ForceInv, [Next]_vars
    PROVE  ForceInv'
  <1>1. ASSUME NEW i \in Incidents, muted' = i PROVE mutes'[i] = "landed"
    <2>1. i # NoOne
      BY DEF Incidents, NoOne
    <2> QED
      BY <1>1, <2>1, ForceMoves DEF ForceInv
  <1>2. ASSUME NEW a \in Admins, Works(a)'
        PROVE  /\ operations'[admins'[a].op] \notin {"none", "running"}
               /\ operations'[admins'[a].op] = "sent" /\ Knows(a)' => muted' # admins'[a].op
    <2>1. CASE Works(a) /\ admins'[a].op = admins[a].op
      <3> DEFINE i == admins[a].op
      <3>1. i \in Incidents /\ operations[i] \notin {"none", "running"} /\ i # NoOne
        BY <2>1 DEF LiftInv, ForceInv, Incidents, NoOne
      <3>2. operations'[i] = operations[i] \/ operations'[i] = "released"
        BY <3>1, RowsMove DEF RowMoves
      <3>3. ASSUME operations'[i] = "sent", Knows(a)' PROVE muted' # i
        <4>1. operations[i] = "sent" /\ mutes[i] = "landed"
          BY <3>1, <3>2, <3>3 DEF MuteInv
        <4>2. CASE muted' = NoOne
          BY <4>2, <3>1
        <4>3. CASE muted' # NoOne
          <5>1. Knows(a) /\ muted # i
            BY <4>1, <4>3, <3>3, <2>1, AdminMoves DEF ForceInv
          <5> QED
            BY <5>1, <4>1, <4>3, ForceMoves
        <4> QED
          BY <4>2, <4>3
      <3> QED
        BY <2>1, <3>1, <3>2, <3>3
    <2>2. CASE /\ admins'[a].pc = "query" /\ UNCHANGED operations
               /\ operations[admins'[a].op] \in {"sent", "unknown"}
      BY <2>2 DEF Knows
    <2> QED
      BY <1>2, <2>1, <2>2, AdminMoves
  <1> QED
    BY <1>1, <1>2 DEF ForceInv

(* A mute goes from confirmed to released only when it is not in force.     *)
THEOREM ReleasedInTruth == Spec => ReleaseIsTrue
  <1>1. Init => ForceInv
    BY DEF Init, ForceInv, Works, Incidents, NoOne
  <1>2. ASSUME TypeOK, LiftInv, ForceInv, [Next]_vars
        PROVE  [\A i \in Incidents : operations[i] = "sent" /\ operations'[i] = "released"
                                      => muted # i]_vars
    BY <1>2, RowsMove DEF RowMoves, ForceInv
  <1> QED
    BY <1>1, <1>2, LiftsRight, ForceKept, PTL DEF Spec, ReleaseIsTrue
-----------------------------------------------------------------------------
(* The evidence: what a warning stands for, and that of two live warnings   *)
(* one was given before the offence of the other arrived.                   *)
Began(t) == turns[t].pc \notin {"idle", "received"}

Backs(i, w) ==
    /\ Began(w.turn) /\ turns[w.turn].incident = i
    /\ attempts[i][w.turn] # "none" /\ reminders[w.turn] = "landed"
    /\ Received(w.turn) <= w.at

Earned(i) ==
    \E v, w \in warnings[i], t \in events[i] :
        /\ reminders[v.turn] = "landed" /\ reminders[w.turn] = "landed"
        /\ v.at < Received(w.turn) /\ w.at < Received(t)

EvidenceInv ==
    /\ \A t \in Turns : Received(t) <= clock
    /\ \A i \in Incidents :
        /\ \A w \in warnings[i] : Backs(i, w)
        /\ \A t \in events[i] : Began(t)
        /\ \A v, w \in Live(i) : v # w => v.at < Received(w.turn) \/ w.at < Received(v.turn)
        /\ operations[i] # "none" => Earned(i)

LEMMA Ranges ==
    ASSUME TypeOK
    PROVE  /\ clock \in Nat /\ \A t \in Turns : Received(t) \in Nat /\ turns[t] \in Turn
           /\ turns \in [Turns -> Turn]
           /\ \A i \in Incidents : \A w \in warnings[i] :
                 /\ w \in Warning /\ w.turn \in Turns /\ w.at \in Nat
           /\ \A i \in Incidents : events[i] \subseteq Turns
  BY ModerationConstants DEF TypeOK, Received, Turn, Times, Warning

LEMMA TurnsGo ==
    ASSUME TypeOK, [Next]_vars, NEW t \in Turns
    PROVE  /\ turns'[t].received \in {turns[t].received, clock}
           /\ Began(t) => /\ Began(t)' /\ turns'[t].received = turns[t].received
                          /\ turns'[t].incident = turns[t].incident
  <1> USE DEF ledger, remote
  <1>0. turns \in [Turns -> Turn]
    BY Ranges
  <1>1. CASE turns'[t] = turns[t]
    BY <1>1 DEF Began
  <1>2. ASSUME NEW u \in Turns, NEW pc \in TurnSteps \ {"idle", "received"}, Goto(u, pc)
        PROVE  turns'[t] = turns[t] \/ turns'[t] = [turns[t] EXCEPT !.pc = pc]
    BY <1>0, <1>2 DEF Goto
  <1>3. ASSUME NEW pc \in TurnSteps \ {"idle", "received"}, turns'[t] = [turns[t] EXCEPT !.pc = pc]
        PROVE  /\ Began(t)' /\ turns'[t].received = turns[t].received
               /\ turns'[t].incident = turns[t].incident
    BY <1>0, <1>3 DEF Began, Turn
  <1>4. ASSUME NEW u \in Turns, Receive(u)
        PROVE  turns'[t] = turns[t] \/ (~ Began(t) /\ turns'[t].received = clock)
    BY <1>0, <1>4 DEF Receive, Began, Turn
  <1>5. ASSUME NEW u \in Turns, Begin(u)
        PROVE  turns'[t] = turns[t] \/ (~ Began(t) /\ turns'[t].received = turns[t].received)
    BY <1>0, <1>5 DEF Begin, Began, Turn
  <1>6. ASSUME NEW u \in Turns, MuteCheck(u)
        PROVE  turns'[t] = turns[t] \/ turns'[t] = [turns[t] EXCEPT !.pc = "checking", !.at = clock]
    BY <1>0, <1>6 DEF MuteCheck
  <1>7. CASE turns'[t] = [turns[t] EXCEPT !.pc = "checking", !.at = clock]
    BY <1>0, <1>7 DEF Began, Turn
  <1>8. ASSUME NEW u \in Turns,
               \/ BeginBarred(u) \/ Remind(u) \/ Warn(u) \/ WarnUnknown(u)
               \/ MuteReserve(u) \/ MuteBlocked(u) \/ MuteAnswer(u)
        PROVE  UNCHANGED turns \/ \E pc \in TurnSteps \ {"idle", "received"} : Goto(u, pc)
    BY <1>8 DEF BeginBarred, Remind, Warn, WarnUnknown, MuteReserve, MuteBlocked, MuteAnswer, TurnSteps
  <1>9. CASE \E u \in Turns : Receive(u) \/ Begin(u) \/ MuteCheck(u)
    BY <1>1, <1>4, <1>5, <1>6, <1>7, <1>9
  <1>10. CASE \E u \in Turns : \/ BeginBarred(u) \/ Remind(u) \/ Warn(u) \/ WarnUnknown(u)
                              \/ MuteReserve(u) \/ MuteBlocked(u) \/ MuteAnswer(u)
    BY <1>1, <1>2, <1>3, <1>8, <1>10
  <1> QED
    BY <1>1, <1>9, <1>10
    DEF Next, vars, Tick, MuteExpires, Reconcile, DeliverReminder, DeliverMute, DeliverLift,
        ReleaseStart, ReleaseQuery, ReleaseRefused, ReleaseMoot, ReleaseInDoubt, ReleaseLift,
        ReleaseAnswer, ReleaseDies

LEMMA EventsGrow ==
    ASSUME TypeOK, [Next]_vars, NEW i \in Incidents
    PROVE  events[i] \subseteq events'[i] /\ \A t \in events'[i] : t \in events[i] \/ Began(t)
  <1> USE DEF ledger, remote
  <1>1. CASE UNCHANGED events
    BY <1>1
  <1>2. ASSUME NEW u \in Turns, Remind(u) \/ MuteCheck(u)
        PROVE  /\ Began(u)
               /\ events' = [events EXCEPT ![turns[u].incident] = @ \cup {u}]
    BY <1>2 DEF Remind, MuteCheck, Began
  <1>3. CASE \E u \in Turns : Remind(u) \/ MuteCheck(u)
    BY <1>2, <1>3 DEF TypeOK
  <1> QED
    BY <1>1, <1>3
    DEF Next, vars, Tick, MuteExpires, Receive, BeginBarred, Begin, Reconcile, Warn, WarnUnknown,
        MuteReserve, MuteBlocked, MuteAnswer, DeliverReminder, DeliverMute, DeliverLift,
        ReleaseStart, ReleaseQuery, ReleaseRefused, ReleaseMoot, ReleaseInDoubt, ReleaseLift,
        ReleaseAnswer, ReleaseDies

\* A new warning is of a turn whose reminder has landed, for an offence after all live ones.
Fresh(i, n) ==
    /\ Began(n.turn) /\ turns[n.turn].incident = i /\ n.at = clock
    /\ attempts'[i][n.turn] # "none" /\ reminders'[n.turn] = "landed"
    /\ \A w \in Live(i) : w.at < Received(n.turn)

LEMMA WarningsFrom ==
    ASSUME TypeOK, EvidenceInv, [Next]_vars, NEW i \in Incidents
    PROVE  /\ \A w \in warnings[i] : \E k \in warnings'[i] : k.turn = w.turn /\ k.at = w.at
           /\ \/ \A k \in warnings'[i] : \E w \in warnings[i] :
                     k.turn = w.turn /\ k.at = w.at /\ (k.live => k = w)
              \/ \E n : warnings'[i] = warnings[i] \cup {n} /\ Fresh(i, n) /\ n \in Warning
           /\ \A w \in warnings[i] : attempts'[i][w.turn] # "none" /\ reminders'[w.turn] = "landed"
  <1> USE DEF ledger, remote
  <1>0. /\ warnings \in [Incidents -> SUBSET Warning] /\ attempts \in [Incidents -> Attempts]
        /\ reminders \in [Turns -> Wire]
        /\ \A w \in warnings[i] : w.turn \in Turns /\ Backs(i, w)
    BY Ranges DEF TypeOK, EvidenceInv, Attempts
  <1>1. CASE UNCHANGED <<warnings, attempts, reminders>>
    BY <1>0, <1>1 DEF Backs
  <1>2. ASSUME NEW u \in Turns, Reconcile(u)
        PROVE  /\ UNCHANGED <<attempts, reminders>>
               /\ \/ warnings'[i] = warnings[i]
                  \/ warnings'[i] = {[w EXCEPT !.live = FALSE] : w \in warnings[i]}
    BY <1>0, <1>2 DEF Reconcile
  <1>3. CASE \E u \in Turns : Reconcile(u)
    <2>1. \A w \in Warning : LET k == [w EXCEPT !.live = FALSE] IN
              k.turn = w.turn /\ k.at = w.at /\ ~ k.live
      BY DEF Warning
    <2>2. CASE warnings'[i] = warnings[i] /\ UNCHANGED <<attempts, reminders>>
      BY <1>0, <2>2 DEF Backs
    <2>3. CASE /\ warnings'[i] = {[w EXCEPT !.live = FALSE] : w \in warnings[i]}
               /\ UNCHANGED <<attempts, reminders>>
      <3>1. \A w \in warnings[i] : \E k \in warnings'[i] : k.turn = w.turn /\ k.at = w.at
        BY <1>0, <2>1, <2>3
      <3>2. \A k \in warnings'[i] : \E w \in warnings[i] :
                k.turn = w.turn /\ k.at = w.at /\ ~ k.live
        BY <1>0, <2>1, <2>3
      <3>3. \A w \in warnings[i] : attempts'[i][w.turn] # "none" /\ reminders'[w.turn] = "landed"
        BY <1>0, <2>3 DEF Backs
      <3> QED
        BY <3>1, <3>2, <3>3
    <2> QED
      BY <1>2, <1>3, <2>2, <2>3
  <1>4. ASSUME NEW u \in Turns, Remind(u)
        PROVE  /\ UNCHANGED warnings
               /\ \A w \in warnings[i] : attempts'[i][w.turn] # "none" /\ reminders'[w.turn] = "landed"
    <2>1. attempts[turns[u].incident][u] = "none" /\ UNCHANGED warnings
      BY <1>4 DEF Remind
    <2>2. \A w \in warnings[i] : w.turn # u
      BY <1>0, <2>1 DEF Backs
    <2>3. \/ UNCHANGED <<attempts, reminders>>
          \/ /\ attempts' = [attempts EXCEPT ![turns[u].incident][u] = "running"]
             /\ reminders' = [reminders EXCEPT ![u] = "flying"]
      BY <1>4 DEF Remind
    <2>4. \A t \in Turns \ {u} : attempts'[i][t] = attempts[i][t] /\ reminders'[t] = reminders[t]
      BY <1>0, <2>3 DEF Attempts
    <2> QED
      BY <1>0, <2>1, <2>2, <2>4 DEF Backs
  <1>5. ASSUME NEW u \in Turns, WarnUnknown(u)
        PROVE  /\ UNCHANGED <<warnings, reminders>>
               /\ \A t \in Turns : attempts[i][t] # "none" => attempts'[i][t] # "none"
    BY <1>0, <1>5 DEF WarnUnknown, Attempts
  <1>6. ASSUME NEW u \in Turns, Warn(u)
        PROVE  /\ UNCHANGED reminders
               /\ \A t \in Turns : attempts[i][t] # "none" => attempts'[i][t] # "none"
               /\ \/ UNCHANGED warnings
                  \/ \E n : warnings'[i] = warnings[i] \cup {n} /\ Fresh(i, n) /\ n \in Warning
                  \/ warnings'[i] = warnings[i]
    <2> DEFINE j == turns[u].incident
               n == [turn |-> u, at |-> clock, live |-> TRUE]
    <2>1. UNCHANGED reminders /\ Began(u) /\ reminders[u] = "landed"
      BY <1>6 DEF Warn, Began
    <2>2. CASE UNCHANGED <<warnings, attempts>>
      BY <2>1, <2>2
    <2>3. CASE /\ WarningAllowed(events, j, u, clock)
               /\ warnings' = [warnings EXCEPT ![j] = @ \cup {n}]
               /\ attempts' = [attempts EXCEPT ![j][u] = "sent"]
      <3>1. \A t \in Turns : attempts[i][t] # "none" => attempts'[i][t] # "none"
        BY <1>0, <2>3 DEF Attempts
      <3>2. CASE j # i
        BY <1>0, <2>1, <2>3, <3>1, <3>2
      <3>3. CASE j = i
        <4>1. warnings'[i] = warnings[i] \cup {n} /\ attempts'[i][u] = "sent"
          BY <1>0, <2>3, <3>3 DEF Attempts
        <4>2. \A w \in Live(i) : w.at < Received(u)
          BY <2>3, <3>3 DEF WarningAllowed
        <4>3. n \in Warning
          BY DEF Warning, TypeOK
        <4>4. Fresh(i, n)
          BY <2>1, <3>3, <4>1, <4>2 DEF Fresh
        <4> QED
          BY <2>1, <3>1, <4>1, <4>3, <4>4
      <3> QED
        BY <3>2, <3>3
    <2> QED
      BY <1>6, <2>2, <2>3 DEF Warn
  <1>7. ASSUME NEW u \in Turns, DeliverReminder(u)
        PROVE  /\ UNCHANGED <<warnings, attempts>>
               /\ \A t \in Turns : reminders[t] = "landed" => reminders'[t] = "landed"
    BY <1>0, <1>7 DEF DeliverReminder
  <1>8. CASE \E u \in Turns : Remind(u)
    BY <1>4, <1>8
  <1>9. CASE \E u \in Turns : WarnUnknown(u) \/ DeliverReminder(u)
    BY <1>0, <1>5, <1>7, <1>9 DEF Backs
  <1>10. CASE \E u \in Turns : Warn(u)
    <2>1. PICK u \in Turns : Warn(u)
      BY <1>10
    <2>2. \A w \in warnings[i] : attempts'[i][w.turn] # "none" /\ reminders'[w.turn] = "landed"
      BY <1>0, <1>6, <2>1 DEF Backs
    <2>3. CASE warnings'[i] = warnings[i]
      BY <2>2, <2>3
    <2>4. CASE \E n : warnings'[i] = warnings[i] \cup {n} /\ Fresh(i, n) /\ n \in Warning
      <3>1. \A w \in warnings[i] : w \in warnings'[i]
        BY <2>4
      <3>2. \A w \in warnings[i] : \E k \in warnings'[i] : k.turn = w.turn /\ k.at = w.at
        BY <3>1
      <3> QED
        BY <2>2, <2>4, <3>2, Zenon
    <2> QED
      BY <1>6, <2>1, <2>3, <2>4
  <1> QED
    BY <1>1, <1>3, <1>8, <1>9, <1>10
    DEF Next, vars, Tick, MuteExpires, Receive, BeginBarred, Begin, MuteCheck,
        MuteReserve, MuteBlocked, MuteAnswer, DeliverMute, DeliverLift,
        ReleaseStart, ReleaseQuery, ReleaseRefused, ReleaseMoot, ReleaseInDoubt, ReleaseLift,
        ReleaseAnswer, ReleaseDies

\* A mute is reserved on evidence judged at the instant of the request.
LEMMA Reserves ==
    ASSUME TypeOK, [Next]_vars, NEW i \in Incidents, operations[i] = "none", operations'[i] # "none"
    PROVE  \E t \in Turns : Eligible(events, i, turns[t].at)
  <1> USE DEF ledger, remote
  <1>0. operations \in [Incidents -> OpStatuses]
    BY DEF TypeOK
  <1>1. ASSUME NEW t \in Turns, MuteReserve(t) PROVE Eligible(events, i, turns[t].at)
    BY <1>0, <1>1 DEF MuteReserve
  <1>2. ASSUME NEW t \in Turns, MuteAnswer(t) PROVE FALSE
    BY <1>0, <1>2 DEF MuteAnswer
  <1>3. ASSUME NEW a \in Admins, NEW s, FinishRelease(admins[a].op, s) PROVE FALSE
    BY <1>0, <1>3 DEF FinishRelease
  <1>4. ASSUME NEW a \in Admins, ReleaseRefused(a) \/ ReleaseMoot(a) \/ ReleaseAnswer(a)
        PROVE  FALSE
    BY <1>3, <1>4 DEF ReleaseRefused, ReleaseMoot, ReleaseAnswer
  <1> QED
    BY <1>1, <1>2, <1>4
    DEF Next, vars, Tick, MuteExpires, Receive, BeginBarred, Begin, Reconcile, Remind, Warn,
        WarnUnknown, MuteCheck, MuteBlocked, DeliverReminder, DeliverMute, ReleaseStart,
        ReleaseQuery, ReleaseInDoubt, ReleaseLift, ReleaseDies, DeliverLift

LEMMA EvidenceKept ==
    ASSUME TypeOK, EvidenceInv, [Next]_vars
    PROVE  EvidenceInv'
  <1>0. /\ clock' \in Nat /\ clock <= clock'
        /\ \A t \in Turns : Received(t) \in Nat /\ Received(t) <= clock
    <2>1. clock' = clock \/ clock' = clock + 1
      BY DEF Next, vars, Tick, MuteExpires, Receive, BeginBarred, Begin, Reconcile, Remind, Warn,
         WarnUnknown, MuteCheck, MuteReserve, MuteBlocked, MuteAnswer, DeliverReminder,
         DeliverMute, DeliverLift, ReleaseStart, ReleaseQuery, ReleaseRefused, ReleaseMoot,
         ReleaseInDoubt, ReleaseLift, ReleaseAnswer, ReleaseDies
    <2> QED
      BY <2>1, Ranges DEF EvidenceInv
  <1>1. \A t \in Turns : /\ Received(t)' <= clock'
                         /\ Began(t) => Received(t)' = Received(t)
    BY <1>0, Ranges, TurnsGo DEF Received
  <1> SUFFICES ASSUME NEW i \in Incidents
               PROVE  /\ \A w \in warnings'[i] : Backs(i, w)'
                      /\ \A t \in events'[i] : Began(t)'
                      /\ \A v, w \in Live(i)' :
                            v # w => v.at < Received(w.turn)' \/ w.at < Received(v.turn)'
                      /\ operations'[i] # "none" => Earned(i)'
    BY <1>1 DEF EvidenceInv
  <1>2. \A t \in events'[i] : t \in Turns /\ Began(t)'
    BY EventsGrow, TurnsGo, NextType, Ranges DEF EvidenceInv, TypeOK
  <1>3. ASSUME NEW w \in warnings[i]
        PROVE  /\ w.turn \in Turns /\ Began(w.turn) /\ Backs(i, w) /\ Backs(i, w)'
               /\ Received(w.turn)' = Received(w.turn)
    <2>1. Backs(i, w) /\ w.turn \in Turns
      BY Ranges DEF EvidenceInv
    <2>2. /\ Began(w.turn)' /\ turns'[w.turn].incident = turns[w.turn].incident
          /\ Received(w.turn)' = Received(w.turn)
      BY <2>1, <1>1, TurnsGo DEF Backs
    <2>3. attempts'[i][w.turn] # "none" /\ reminders'[w.turn] = "landed"
      BY WarningsFrom
    <2> QED
      BY <2>1, <2>2, <2>3 DEF Backs
  <1>4. ASSUME NEW n \in Warning, Fresh(i, n)
        PROVE  /\ n.turn \in Turns /\ Backs(i, n)' /\ Received(n.turn)' = Received(n.turn)
               /\ \A w \in Live(i) : w.at < Received(n.turn)
    <2>1. n.turn \in Turns
      BY DEF Warning
    <2>2. /\ Began(n.turn)' /\ turns'[n.turn].incident = i
          /\ Received(n.turn)' = Received(n.turn) /\ Received(n.turn) <= n.at
      BY <2>1, <1>0, <1>1, <1>4, TurnsGo DEF Fresh
    <2> QED
      BY <1>4, <2>1, <2>2 DEF Fresh, Backs
  <1>5. ASSUME \A k \in warnings'[i] : \E w \in warnings[i] :
                   k.turn = w.turn /\ k.at = w.at /\ (k.live => k = w)
        PROVE  /\ \A k \in warnings'[i] : Backs(i, k)'
               /\ \A v, w \in Live(i)' :
                     v # w => v.at < Received(w.turn)' \/ w.at < Received(v.turn)'
    <2>1. \A k \in warnings'[i] : Backs(i, k)'
      BY <1>3, <1>5 DEF Backs, Began, Received
    <2>2. \A k \in Live(i)' : k \in Live(i) /\ Received(k.turn)' = Received(k.turn)
      BY <1>3, <1>5 DEF Live
    <2>3. \A v, w \in Live(i)' : v # w => v.at < Received(w.turn)' \/ w.at < Received(v.turn)'
      BY <2>2 DEF EvidenceInv
    <2> QED
      BY <2>1, <2>3
  <1>6. ASSUME NEW n \in Warning, warnings'[i] = warnings[i] \cup {n}, Fresh(i, n)
        PROVE  /\ \A k \in warnings'[i] : Backs(i, k)'
               /\ \A v, w \in Live(i)' :
                     v # w => v.at < Received(w.turn)' \/ w.at < Received(v.turn)'
    <2>1. \A k \in warnings'[i] : Backs(i, k)'
      BY <1>3, <1>4, <1>6
    <2>2. \A k \in Live(i)' : /\ k \in Live(i) \/ k = n
                              /\ Received(k.turn)' = Received(k.turn)
      BY <1>3, <1>4, <1>6 DEF Live
    <2>3. \A w \in Live(i) : w.at < Received(n.turn)
      BY <1>4, <1>6
    <2> QED
      BY <2>1, <2>2, <2>3 DEF EvidenceInv
  <1>7. ASSUME operations'[i] # "none" PROVE Earned(i)'
    <2>1. ASSUME Earned(i) PROVE Earned(i)'
      <3>1. PICK v \in warnings[i], w \in warnings[i], t \in events[i] :
                v.at < Received(w.turn) /\ w.at < Received(t)
        BY <2>1 DEF Earned
      <3>2. PICK x \in warnings'[i] : x.turn = v.turn /\ x.at = v.at
        BY WarningsFrom
      <3>3. PICK y \in warnings'[i] : y.turn = w.turn /\ y.at = w.at
        BY WarningsFrom
      <3>4. reminders'[v.turn] = "landed" /\ reminders'[w.turn] = "landed"
        BY WarningsFrom
      <3>5. t \in events'[i] /\ Received(t)' = Received(t)
        BY <1>1, EventsGrow, Ranges DEF EvidenceInv
      <3>6. Received(w.turn)' = Received(w.turn)
        BY <1>3
      <3> QED
        BY <3>1, <3>2, <3>3, <3>4, <3>5, <3>6 DEF Earned, Received
    <2>2. CASE operations[i] # "none"
      BY <2>1, <2>2 DEF EvidenceInv
    <2>3. CASE operations[i] = "none"
      <3>1. PICK t \in Turns : Eligible(events, i, turns[t].at)
        BY <1>7, <2>3, Reserves
      <3>2. PICK v \in Live(i), w \in Live(i), u \in events[i] :
                v # w /\ v.at <= w.at /\ w.at < Received(u)
        BY <3>1 DEF Eligible
      <3>3. v \in warnings[i] /\ w \in warnings[i] /\ v.at \in Nat /\ w.at \in Nat
        BY Ranges DEF Live
      <3>4. Backs(i, v) /\ Backs(i, w) /\ Received(v.turn) \in Nat /\ Received(w.turn) \in Nat
        BY <1>3, <3>3, Ranges
      <3>5. v.at < Received(w.turn) \/ w.at < Received(v.turn)
        BY <3>2 DEF EvidenceInv
      <3>6. Received(v.turn) <= v.at
        BY <3>4 DEF Backs
      <3>7. v.at < Received(w.turn)
        BY <3>2, <3>3, <3>4, <3>5, <3>6
      <3>8. Earned(i)
        BY <3>2, <3>3, <3>4, <3>7 DEF Earned, Backs
      <3> QED
        BY <2>1, <3>8
    <2> QED
      BY <2>2, <2>3
  <1>8. \/ \A k \in warnings'[i] : \E w \in warnings[i] :
               k.turn = w.turn /\ k.at = w.at /\ (k.live => k = w)
        \/ \E n \in Warning : warnings'[i] = warnings[i] \cup {n} /\ Fresh(i, n)
    BY WarningsFrom
  <1>9. /\ \A w \in warnings'[i] : Backs(i, w)'
        /\ \A v, w \in Live(i)' :
              v # w => v.at < Received(w.turn)' \/ w.at < Received(v.turn)'
    BY <1>5, <1>6, <1>8
  <1>10. operations'[i] # "none" => Earned(i)'
    BY <1>7
  <1>11. \A t \in events'[i] : Began(t)'
    BY <1>2
  <1> QED
    BY <1>9, <1>10, <1>11, Zenon

(* A mute is reserved only for a member reminded twice, the second time for *)
(* an offence after the first reminder, who then offended once more.        *)
THEOREM MutesAreEarned == Spec => []MuteEarned
  <1>1. Init => EvidenceInv
    BY ModerationConstants DEF Init, EvidenceInv, Received, Live
  <1>2. EvidenceInv => MuteEarned
    BY DEF EvidenceInv, Earned, MuteEarned
  <1> QED
    BY <1>1, <1>2, TypeCorrect, EvidenceKept, PTL DEF Spec
=============================================================================
