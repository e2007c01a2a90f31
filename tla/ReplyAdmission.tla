--------------------------- MODULE ReplyAdmission ---------------------------
(***************************************************************************)
(* ReplyConcurrencyController of handlers/reply_buffer.py: how the turns   *)
(* of all sessions are admitted, and how a session's gate, with its        *)
(* semaphore and its commit lock, is made, kept and discarded.             *)
(*                                                                         *)
(* A turn waits, as far as it must, for the session's direct turns to be   *)
(* over (a buffered one), for a slot of its session and for one of all     *)
(* sessions; then its owner runs the generation as a shielded child, which *)
(* takes the commit lock to send.  An owner that times out or is cancelled *)
(* leaves, and the child may go on for a while.  A poke's child starts a   *)
(* task that pokes back under the commit lock and is not waited for.       *)
(*                                                                         *)
(* asyncio's Event, Semaphore and Lock are modelled from how they are      *)
(* used: a step is what a task does between two awaits, and each await of  *)
(* _turn is one.  A released slot goes to the first who waits, and is      *)
(* handed on when that one gives up before it runs again.  Deadlines may   *)
(* end at any time.  A gate is an object: its name is used again only when *)
(* nobody refers to it.                                                    *)
(***************************************************************************)
EXTENDS Naturals, Sequences, FiniteSets

CONSTANTS
    Sessions, Turns,
    Scenes,         \* the scenes to consider: which turns come, of which session, direct or
                    \* buffered, a poke or not; which sessions have buffer entries; and
                    \* the two limits that are configured
    Gates,          \* names for gates: one per session and turn always suffices
    None

Call == {c \in [key : Sessions, direct : BOOLEAN, poke : BOOLEAN] : c.poke => c.direct}

ASSUME ConstantsAssumption ==
    /\ IsFiniteSet(Turns)
    /\ Scenes \subseteq [calls : [Turns -> SUBSET Call], entries : SUBSET Sessions,
                  session_limit : Nat \ {0}, global_limit : Nat \ {0}]
    /\ None \notin Gates \cup Turns

VARIABLES
    scene,          \* the scene, which never changes
    table,          \* _session_gates
    gates,          \* the gates, and what those that nobody refers to were last
    slots,          \* the value of _global_semaphore
    turns,          \* the turns, their generations and the tasks that poke back
    line,           \* who waits for a slot, in the order they began to
    kept            \* the sessions whose buffer entry retains their gate

vars == <<scene, table, gates, slots, turns, line, kept>>
-----------------------------------------------------------------------------
Stages == {"out", "idle", "session", "global", "active"}

Gate == [refs : Nat, direct_count : Nat, waiters : Nat, active : Nat,
         direct_idle : BOOLEAN, slots : Nat]

\* stage: what the owner waits for.  wait: what its await has come to.
\* reply: the generation.  back: the task that pokes back.
Turn == [key : Sessions, gate : Gates, direct : BOOLEAN, poke : BOOLEAN,
         stage : Stages, wait : {"asks", "waits", "woken"},
         reply : {"none", "running", "sending"},
         back : {"none", "waits", "sending"}]
Away == [stage |-> "out", gate |-> None]

TypeOK ==
    /\ scene \in Scenes
    /\ table \in [Sessions -> Gates \cup {None}]
    /\ gates \in [Gates -> Gate]
    /\ slots \in Nat
    /\ turns \in [Turns -> Turn \cup {Away}]
    /\ kept \subseteq Sessions

NewGate == [refs |-> 0, direct_count |-> 0, waiters |-> 0, active |-> 0,
            direct_idle |-> TRUE, slots |-> scene.session_limit]

Init ==
    /\ scene \in Scenes
    /\ table = [k \in Sessions |-> None]
    /\ gates = [g \in Gates |-> NewGate]
    /\ slots = scene.global_limit
    /\ turns = [t \in Turns |-> Away]
    /\ line = <<>>
    /\ kept = {}
-----------------------------------------------------------------------------
Less(n) == IF n = 0 THEN 0 ELSE n - 1

Inside(g) == {t \in Turns : turns[t].gate = g /\ turns[t].stage # "out"}
Sending(t) == turns[t] # Away /\ turns[t].reply = "sending"
Poking(t)  == turns[t] # Away /\ turns[t].back = "sending"
Locked(g)  == \E t \in Turns : turns[t].gate = g /\ (Sending(t) \/ Poking(t))

\* Mutants: acquired_session is set before the wait; a slot is released only by a
\* turn that was admitted.
HasSessionEarly(t) == turns[t].stage \in {"session", "global", "active"}
HasSessionLate(t)  == \/ turns[t].stage = "active"
                      \/ turns[t].stage = "session" /\ turns[t].wait = "woken"
\* Who has a slot, in use or handed over and not yet taken.
HasSession(t) == \/ turns[t].stage \in {"global", "active"}
                 \/ turns[t].stage = "session" /\ turns[t].wait = "woken"
HasGlobal(t)  == \/ turns[t].stage = "active"
                 \/ turns[t].stage = "global" /\ turns[t].wait = "woken"

AtIdle(g)    == {t \in Inside(g) : turns[t].stage = "idle"}
AtSession(g) == {t \in Inside(g) : turns[t].stage = "session"}
AtGlobal     == {t \in Turns : turns[t].stage = "global"}
Waiting(s)   == {t \in s : turns[t].wait = "waits"}
Queued(s)    == {t \in s : turns[t].wait # "asks"}

Ahead(t, u) == \E i, j \in DOMAIN line : i < j /\ line[i] = t /\ line[j] = u
First(s)    == {t \in s : ~ \E u \in s : Ahead(u, t)}

\* Whom a released slot goes to: nobody, or the first who waits for it.
Heirs(s) == IF Waiting(s) = {} THEN {None} ELSE First(Waiting(s))

Without(gone) == SelectSeq(line, LAMBDA u : u \notin gone)
Woken(woken)  == [t \in Turns |-> IF t \in woken THEN [turns[t] EXCEPT !.wait = "woken"]
                                                 ELSE turns[t]]

\* A turn that has left, and whose tasks are over, is forgotten.
Kept(r) == IF r.stage = "out" /\ r.reply = "none" /\ r.back = "none" THEN Away ELSE r
-----------------------------------------------------------------------------
\* _gate: the gate in the table, or a new one.
Unused == {g \in Gates : /\ \A l \in Sessions : table[l] # g
                         /\ \A t \in Turns : turns[t].gate # g}
GatesFor(k) == IF table[k] # None THEN {table[k]}
               ELSE IF Unused = {} THEN {} ELSE {CHOOSE g \in Unused : TRUE}
Found(k, g) == IF table[k] # None THEN gates[g] ELSE NewGate

\* Mutant: the commit lock is not asked for.
DiscardedLocked(k, g, gate) ==
    /\ gate.refs = 0 /\ gate.direct_count = 0 /\ gate.waiters = 0 /\ gate.active = 0
    /\ table[k] = g

\* _cleanup, of a gate that is about to be left as gate.
Discarded(k, g, gate) ==
    /\ gate.refs = 0 /\ gate.direct_count = 0 /\ gate.waiters = 0 /\ gate.active = 0
    /\ ~ Locked(g)
    /\ table[k] = g
Cleanup(k, g, gate) == IF Discarded(k, g, gate) THEN [table EXCEPT ![k] = None] ELSE table

\* _retain_buffer_entry
RetainEntry(k) ==
    /\ k \in scene.entries \ kept
    /\ \E g \in GatesFor(k) :
          /\ table' = [table EXCEPT ![k] = g]
          /\ gates' = [gates EXCEPT ![g] = [Found(k, g) EXCEPT !.refs = @ + 1]]
    /\ kept' = kept \cup {k}
    /\ UNCHANGED <<scene, slots, turns, line>>

\* The entry is popped, by its timer, a turn or a command that clears it.
ReleaseEntry(k) ==
    /\ k \in kept
    /\ kept' = kept \ {k}
    /\ IF table[k] = None THEN UNCHANGED <<scene, table, gates>>
       ELSE LET g == table[k]
                gate == [gates[g] EXCEPT !.refs = Less(@)]
            IN /\ gates' = [gates EXCEPT ![g] = gate]
               /\ table' = Cleanup(k, g, gate)
    /\ UNCHANGED <<scene, slots, turns, line>>

\* _turn, up to its first await
Enter(t, call) ==
    /\ turns[t] = Away
    /\ \E g \in GatesFor(call.key) :
          /\ table' = [table EXCEPT ![call.key] = g]
          /\ gates' = [gates EXCEPT ![g] =
                [Found(call.key, g) EXCEPT !.refs = @ + 1, !.waiters = @ + 1,
                                    !.direct_count = IF call.direct THEN @ + 1 ELSE @,
                                    !.direct_idle = IF call.direct THEN FALSE ELSE @]]
          /\ turns' = [turns EXCEPT ![t] =
                [key |-> call.key, gate |-> g, direct |-> call.direct, poke |-> call.poke,
                 stage |-> IF call.direct THEN "session" ELSE "idle", wait |-> "asks",
                 reply |-> "none", back |-> "none"]]
    /\ UNCHANGED <<scene, slots, line, kept>>

-----------------------------------------------------------------------------
(* The three awaits of _turn.                                               *)

\* in the queue of a semaphore
Waits(t) ==
    /\ turns' = [turns EXCEPT ![t].wait = "waits"]
    /\ line' = Append(line, t)
    /\ UNCHANGED <<scene, table, gates, slots, kept>>

AskIdle(t) ==
    /\ turns[t].stage = "idle" /\ turns[t].wait = "asks"
    /\ IF gates[turns[t].gate].direct_idle
       THEN turns' = [turns EXCEPT ![t].stage = "session"]
       ELSE turns' = [turns EXCEPT ![t].wait = "waits"]
    /\ UNCHANGED <<scene, table, gates, slots, line, kept>>

TakeIdle(t) ==
    /\ turns[t].stage = "idle" /\ turns[t].wait = "woken"
    /\ turns' = [turns EXCEPT ![t].stage = "session", ![t].wait = "asks"]
    /\ UNCHANGED <<scene, table, gates, slots, line, kept>>

\* A semaphore with a slot to spare, and nobody who waits for one or was given
\* one and has not run since.
AskSession(t) ==
    LET g == turns[t].gate IN
    /\ turns[t].stage = "session" /\ turns[t].wait = "asks"
    /\ IF gates[g].slots > 0 /\ Queued(AtSession(g)) = {}
       THEN /\ gates' = [gates EXCEPT ![g].slots = @ - 1]
            /\ turns' = [turns EXCEPT ![t].stage = "global"]
            /\ UNCHANGED <<scene, table, slots, line, kept>>
       ELSE Waits(t)

\* Who takes the slot handed over passes a spare one on.
TakeSession(t) ==
    LET g == turns[t].gate IN
    /\ turns[t].stage = "session" /\ turns[t].wait = "woken"
    /\ \E v \in IF gates[g].slots > 0 THEN Heirs(AtSession(g)) ELSE {None} :
          /\ gates' = [gates EXCEPT ![g].slots = IF v = None THEN @ ELSE @ - 1]
          /\ turns' = [Woken({v}) EXCEPT ![t].stage = "global", ![t].wait = "asks"]
          /\ line' = Without({v})
    /\ UNCHANGED <<scene, table, slots, kept>>

Admitted(r) == [r EXCEPT !.stage = "active", !.wait = "asks", !.reply = "running",
                         !.back = IF r.poke THEN "waits" ELSE "none"]
Started(gate) == [gate EXCEPT !.waiters = Less(@), !.active = @ + 1]

AskGlobal(t) ==
    /\ turns[t].stage = "global" /\ turns[t].wait = "asks"
    /\ IF slots > 0 /\ Queued(AtGlobal) = {}
       THEN /\ slots' = slots - 1
            /\ gates' = [gates EXCEPT ![turns[t].gate] = Started(@)]
            /\ turns' = [turns EXCEPT ![t] = Admitted(@)]
            /\ UNCHANGED <<scene, table, line, kept>>
       ELSE Waits(t)

TakeGlobal(t) ==
    /\ turns[t].stage = "global" /\ turns[t].wait = "woken"
    /\ \E w \in IF slots > 0 THEN Heirs(AtGlobal) ELSE {None} :
          /\ slots' = IF w = None THEN slots ELSE slots - 1
          /\ turns' = [Woken({w}) EXCEPT ![t] = Admitted(@)]
          /\ line' = Without({w})
    /\ gates' = [gates EXCEPT ![turns[t].gate] = Started(@)]
    /\ UNCHANGED <<scene, table, kept>>

-----------------------------------------------------------------------------
(* The finally clause of _turn.                                             *)

Released(r, gate, spare) ==
    [gate EXCEPT !.refs = Less(@),
                 !.active = IF r.stage = "active" THEN Less(@) ELSE @,
                 !.waiters = IF r.stage = "active" THEN @ ELSE Less(@),
                 !.direct_count = IF r.direct THEN Less(@) ELSE @,
                 !.direct_idle = IF r.direct /\ gate.direct_count < 2 THEN TRUE ELSE @,
                 !.slots = IF spare THEN @ + 1 ELSE @]

Departs(t) ==
    LET r == turns[t]
        g == r.gate
        roused == IF r.direct /\ gates[g].direct_count < 2 THEN Waiting(AtIdle(g)) ELSE {}
    IN \E w \in IF HasGlobal(t) THEN Heirs(AtGlobal) ELSE {None},
          v \in IF HasSession(t) THEN Heirs(AtSession(g)) ELSE {None} :
         LET gate == Released(r, gates[g], HasSession(t) /\ v = None) IN
         /\ slots' = IF HasGlobal(t) /\ w = None THEN slots + 1 ELSE slots
         /\ gates' = [gates EXCEPT ![g] = gate]
         /\ table' = Cleanup(r.key, g, gate)
         /\ turns' = [Woken({w, v} \cup roused) EXCEPT
                        ![t] = Kept([r EXCEPT !.stage = "out", !.wait = "asks"])]
         /\ line' = Without({t, w, v})
         /\ UNCHANGED <<scene, kept>>

\* The deadline ends, or the task is cancelled, before the turn is admitted.
GiveUp(t) == turns[t].stage \in {"idle", "session", "global"} /\ Departs(t)

\* The generation is over, times out or is cancelled; then its child is fenced
\* off, and lives on for a while.
Leave(t) == turns[t].stage = "active" /\ Departs(t)

-----------------------------------------------------------------------------
(* The generation and the commit lock of its gate.                          *)

Current(t) == turns[t].stage = "active"
Reply(t, from, to) ==
    /\ turns[t] # Away /\ turns[t].reply = from
    /\ turns' = [turns EXCEPT ![t] = Kept([@ EXCEPT !.reply = to])]
    /\ UNCHANGED <<scene, table, gates, slots, line, kept>>

\* acquire_reply_commit, of which a generation that is no longer current makes
\* an exception, be it before or after it waits
Commit(t) == /\ ~ Locked(turns[t].gate)
             /\ Reply(t, "running", IF Current(t) THEN "sending" ELSE "none")

\* release_reply_commit, after which the generation may commit again
ReleaseCommit(t) == Reply(t, "sending", "running")

\* process_response_logic ends, as it may by an exception anywhere
EndReply(t) == \E from \in {"running", "sending"} : Reply(t, from, "none")

\* _poke_back_after_commit_gate
Back(t, from, to) ==
    /\ turns[t] # Away /\ turns[t].back = from
    /\ turns' = [turns EXCEPT ![t] = Kept([@ EXCEPT !.back = to])]
    /\ UNCHANGED <<scene, table, gates, slots, line, kept>>

PokeBack(t)   == ~ Locked(turns[t].gate) /\ Back(t, "waits", "sending")
EndPoke(t)    == \E from \in {"waits", "sending"} : Back(t, from, "none")

-----------------------------------------------------------------------------
Ask(t)  == AskIdle(t) \/ AskSession(t) \/ AskGlobal(t)
Take(t) == TakeIdle(t) \/ TakeSession(t) \/ TakeGlobal(t)

Next ==
    \/ \E k \in Sessions : RetainEntry(k) \/ ReleaseEntry(k)
    \/ \E t \in Turns :
          \/ \E call \in scene.calls[t] : Enter(t, call)
          \/ AskIdle(t) \/ AskSession(t) \/ AskGlobal(t)
          \/ TakeIdle(t) \/ TakeSession(t) \/ TakeGlobal(t)
          \/ GiveUp(t) \/ Leave(t)
          \/ Commit(t) \/ ReleaseCommit(t) \/ EndReply(t)
          \/ PokeBack(t) \/ EndPoke(t)

\* The loop runs every task that can go on, and a generation ends, at the latest
\* by its time-out; nobody need ever give up.
Runs(t) == Ask(t) \/ Take(t) \/ Leave(t)
Fairness == \A t \in Turns : WF_vars(Runs(t))

Spec == Init /\ [][Next]_vars /\ Fairness
-----------------------------------------------------------------------------
ActiveOf(k) == {t \in Turns : Current(t) /\ turns[t].key = k}

\* The limits on the turns that run at once, in a session and in all, hold
\* however turns come, time out and are cancelled, and though a session's gate
\* is discarded and made anew.
LimitsHold ==
    /\ \A k \in Sessions : Cardinality(ActiveOf(k)) <= scene.session_limit
    /\ Cardinality({t \in Turns : Current(t)}) <= scene.global_limit

\* No two replies of a session are sent at once: the commit lock of a session is
\* one lock, even when an owner has left its child behind with it.
RepliesAlone ==
    \A t, u \in Turns : Sending(t) /\ Sending(u) /\ turns[t].key = turns[u].key => t = u

\* No wakeup is lost and no slot leaks: a turn that waits for a slot is admitted,
\* or gives up, though nobody is forced to give up and other turns keep coming.
WaitersServed ==
    \A t \in Turns : turns[t].stage \in {"session", "global"} ~> turns[t].stage \in {"active", "out"}
=============================================================================
